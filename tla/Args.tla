------------------------------- MODULE Args --------------------------------
(***************************************************************************)
(* The option parser of both command-line programs (oapv_app_args.h): a    *)
(* table of options, what a configuration file and a command line do to    *)
(* it, and the test that nothing mandatory is missing.                     *)
(*                                                                         *)
(* A table is a function from long keys to options                         *)
(*   [short, type, must, ppt, val, flag].                                  *)
(* A word of the command line is [dash, text, int]: the dashes it starts   *)
(* with, what follows them, and its value as a decimal number or NaN.  The *)
(* word after --config names a file, which is opened before the command    *)
(* line is read.                                                           *)
(***************************************************************************)
EXTENDS Integers, Sequences, SequencesExt

CONSTANTS NaN,      \* a word that is no number, or one beyond an int
          NoKey,    \* no option has this key
          Configs   \* file name -> lines [key, word] of a configuration file

Option(short, type, must, val) ==
  [short |-> short, type |-> type, must |-> must, ppt |-> 0, val |-> val,
   flag |-> FALSE]

LongKey(opts, text) == IF text \in DOMAIN opts THEN text ELSE NoKey

ShortKey(opts, text) ==
  LET of == {k \in DOMAIN opts : opts[k].short = text}
  IN  IF of = {} THEN NoKey ELSE CHOOSE k \in of : TRUE

\* "-i" or "--input"; a longer word after one dash is no option.
KeyOf(opts, word) ==
  CASE word.dash = 2 -> LongKey(opts, word.text)
    [] word.dash = 1 -> ShortKey(opts, word.text)
    [] OTHER         -> NoKey

\* A value may start with a dash only as a negative number.
IsValue(o, word) ==
  /\ word.dash = 0 \/ (word.dash = 1 /\ word.int # NaN)
  /\ o.type = "string" \/ (o.type = "integer" /\ word.int # NaN)

Value(o, word) == IF o.type = "integer" THEN word.int ELSE word.text

SetTo(opts, k, v) == [opts EXCEPT ![k].val = v, ![k].flag = TRUE]

----------------------------------------------------------------------------
(* A configuration file sets options whose type has the PPT bit; a line    *)
(* that is of no use is passed over.                                       *)

CfgLine(opts, line) ==
  LET k == LongKey(opts, line.key)
  IN  IF k = NoKey THEN opts
      ELSE IF opts[k].ppt # 1 THEN opts
      ELSE IF opts[k].type = "none" THEN SetTo(opts, k, 1)
      ELSE IF IsValue(opts[k], line.word)
           THEN SetTo(opts, k, Value(opts[k], line.word))
           ELSE opts

ParseCfg(opts, lines) == FoldLeft(CfgLine, opts, lines)

MaxConfigs == 16

\* The first sixteen names after --config, wherever they stand.
ConfigNames(argv) ==
  LET named(i) == argv[i].dash = 2 /\ argv[i].text = "config" /\ i < Len(argv)
      at == SelectSeq([i \in 1..Len(argv) |-> i], named)
  IN  [n \in 1..(IF Len(at) < MaxConfigs THEN Len(at) ELSE MaxConfigs) |->
         argv[at[n] + 1].text]

----------------------------------------------------------------------------
(* The command line, option by option; it is refused at the first word     *)
(* that does not fit.                                                      *)

Refused == [ok |-> FALSE]

\* The next word: the value of the option before it, or an option.
CmdWord(sofar, word) ==
  IF ~sofar.ok THEN sofar
  ELSE IF sofar.of # NoKey
  THEN IF IsValue(sofar.opts[sofar.of], word)
       THEN [sofar EXCEPT !.opts = SetTo(@, sofar.of, Value(@[sofar.of], word)), !.of = NoKey]
       ELSE Refused
  ELSE LET k == KeyOf(sofar.opts, word)
       IN  IF k = NoKey THEN Refused
           ELSE IF sofar.opts[k].type = "none"
           THEN [sofar EXCEPT !.opts = SetTo(@, k, 1)]
           ELSE [sofar EXCEPT !.of = k]

ParseCmd(opts, argv) ==
  LET sofar == FoldLeft(CmdWord, [ok |-> TRUE, opts |-> opts, of |-> NoKey], argv)
  IN  IF sofar.ok THEN [sofar EXCEPT !.ok = (sofar.of = NoKey)] ELSE Refused

Parse(opts, argv) ==
  LET names == ConfigNames(argv)
      read(o, n) == ParseCfg(o, Configs[n])
  IN  IF \E n \in DOMAIN names : names[n] \notin DOMAIN Configs THEN Refused
      ELSE ParseCmd(FoldLeft(read, opts, names), argv)

\* The first word asks for the usage.
AsksHelp(argv) ==
  \/ argv = <<>>
  \/ argv # <<>> /\ <<argv[1].dash, argv[1].text>> \in {<<2, "help">>, <<1, "h">>}

MandatorySet(opts) == \A k \in DOMAIN opts : opts[k].must => opts[k].flag
=============================================================================
