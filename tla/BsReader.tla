------------------------------ MODULE BsReader ------------------------------
(***************************************************************************)
(* The bitstream reader of src/oapv_bs.c and the part of the coefficient   *)
(* reader of src/oapv_vlc.c that shares its state: a 64-bit register that  *)
(* is filled from a buffer.  The syntax reader refills an exhausted        *)
(* register and joins what it had with what it gets; the coefficient       *)
(* reader tops the register up below its valid bits, and at the end of the *)
(* buffer feeds ones.                                                      *)
(*                                                                         *)
(* Callers take what a read returns and look at is_eob later.  The bits of *)
(* the buffer are numbered from 1 on; 0 is a zero bit of the register that *)
(* does not come from the buffer, and ONE a one that does not.             *)
(***************************************************************************)
EXTENDS Integers, SequencesExt

CONSTANTS Size,     \* bytes in the buffer
          Lens,     \* the lengths of the syntax elements read
          CoefLens  \* the lengths k of the coefficient codes' suffixes

REG == 64
ONE == -1           \* a one that was made up at the end of the buffer
MIX == -2           \* two bits of a value fell on one another

ReaderAssumption ==
  /\ Size \in Nat \ {0} /\ Lens \subseteq 1..32 /\ CoefLens \subseteq 1..30

VARIABLES cur,       \* bs->cur, in bytes from bs->beg
          code,      \* bs->code, its top bit first
          leftbits,  \* bs->leftbits
          is_eob,    \* bs->is_eob
          got,       \* what the last read returned; << >> for no value
          asked,     \* history: the place of the next bit to be read
          past       \* history: has a bit behind the end been asked for?

vars == <<cur, code, leftbits, is_eob, got, asked, past>>

Bit == 1..REG
Bits == 8 * Size
Blank == [q \in Bit |-> 0]
Ones == [q \in Bit |-> ONE]

TypeOK == /\ cur \in 0..Size
          /\ code \in [Bit -> {ONE, MIX} \cup 0..Bits]
          /\ leftbits \in 0..REG
          /\ is_eob \in BOOLEAN /\ past \in BOOLEAN
          /\ asked \in 1..(Bits + 1)

\* oapv_bsr_init
Init == /\ cur = 0 /\ code = Blank /\ leftbits = 0 /\ is_eob = FALSE
        /\ got = << >> /\ asked = 1 /\ past = FALSE

Least(a, b) == IF a < b THEN a ELSE b

Shifted(c, n) == [q \in Bit |-> IF q + n \in Bit THEN c[q + n] ELSE 0]

\* Two values combined by | or +, which agree as long as no bits meet.
Or(a, b) == [q \in DOMAIN a |-> IF a[q] = 0 THEN b[q] ELSE IF b[q] = 0 THEN a[q] ELSE MIX]

\* c >> (REG - n), as a value of m bits.
TopBits(c, n, m) == [q \in 1..m |-> IF q > m - n THEN c[q - (m - n)] ELSE 0]

\* bsr_flush(bs, 8): up to eight bytes, or none at the end.
Loaded == Least(8, Size - cur)
Register == [q \in Bit |-> IF q <= 8 * Loaded THEN 8 * cur + q ELSE 0]

\* What the caller is after, and whether that much is there.
Want(n) == /\ asked' = Least(asked + n, Bits + 1)
           /\ past' = (past \/ asked + n > Bits + 1)

----------------------------------------------------------------------------
(* Reading syntax elements                                                 *)

\* oapv_bsr_read.  A value that is not there leaves what was loaded.
JoinedShort(n) == TopBits(Register, n - leftbits, n)
Joined(n) == Or(TopBits(code, n, n), TopBits(Register, n - leftbits, n))

ReadHeld(n) ==
  /\ n <= leftbits
  /\ got' = TopBits(code, n, n)
  /\ code' = Shifted(code, n) /\ leftbits' = leftbits - n
  /\ Want(n) /\ UNCHANGED <<cur, is_eob>>

\* Was something read, but less than was asked for?
Short(n) == leftbits + 8 * Loaded < n

ReadOver(n) ==
  /\ n > leftbits
  /\ cur' = cur + Loaded
  /\ IF Loaded = 0 \/ Short(n)
     THEN /\ is_eob' = TRUE /\ got' = << >>
          /\ code' = Register /\ leftbits' = 8 * Loaded
     ELSE /\ got' = Joined(n)
          /\ code' = Shifted(Register, n - leftbits)
          /\ leftbits' = 8 * Loaded - (n - leftbits)
          /\ UNCHANGED is_eob
  /\ Want(n)

Read(n) == ReadHeld(n) \/ ReadOver(n)

\* oapv_bsr_read1
Read1 ==
  /\ IF leftbits # 0
     THEN /\ got' = <<code[1]>>
          /\ code' = Shifted(code, 1) /\ leftbits' = leftbits - 1
          /\ UNCHANGED <<cur, is_eob>>
     ELSE IF Loaded = 0
     THEN is_eob' = TRUE /\ got' = << >> /\ UNCHANGED <<cur, code, leftbits>>
     ELSE /\ cur' = cur + Loaded /\ got' = <<Register[1]>>
          /\ code' = Shifted(Register, 1) /\ leftbits' = 8 * Loaded - 1
          /\ UNCHANGED is_eob
  /\ Want(1)

\* oapv_bsr_skip does the same without a value.
Skip(n) ==
  /\ IF n <= leftbits
     THEN /\ code' = Shifted(code, n) /\ leftbits' = leftbits - n
          /\ UNCHANGED <<cur, is_eob>>
     ELSE /\ cur' = cur + Loaded
          /\ IF Loaded = 0 \/ Short(n)
             THEN is_eob' = TRUE /\ code' = Register /\ leftbits' = 8 * Loaded
             ELSE /\ code' = Shifted(Register, n - leftbits)
                  /\ leftbits' = 8 * Loaded - (n - leftbits)
                  /\ UNCHANGED is_eob
  /\ got' = << >> /\ Want(n)

\* oapv_bsr_align8 and oapv_bsr_sink: the readers start the next syntax
\* structure at a byte.  sink refuses when the register is not aligned.
Align8 ==
  /\ code' = Shifted(code, leftbits % 8) /\ leftbits' = leftbits - (leftbits % 8)
  /\ asked' = IF is_eob THEN asked ELSE asked + (leftbits % 8)
  /\ got' = << >> /\ UNCHANGED <<cur, is_eob, past>>

HeldGivenBack == cur - leftbits \div 8

Sink == /\ leftbits % 8 = 0
        /\ cur' = HeldGivenBack /\ code' = Blank /\ leftbits' = 0
        /\ got' = << >> /\ UNCHANGED <<is_eob, asked, past>>

----------------------------------------------------------------------------
(* Reading coefficients                                                    *)

\* BSR_TOPUP: whole bytes below the valid bits, up to 63 bits.
Below == Least((63 - leftbits) \div 8, Size - cur)
ToppedUpUnmasked ==
  IF leftbits >= 32 THEN code
  ELSE [q \in Bit |-> IF q > leftbits /\ 8 * cur + q - leftbits <= Bits
                      THEN 8 * cur + q - leftbits ELSE code[q]]
ToppedUp == IF leftbits >= 32 THEN code
            ELSE [q \in Bit |-> IF q \in (leftbits + 1)..(leftbits + 8 * Below)
                                THEN 8 * cur + q - leftbits ELSE code[q]]
Filled == IF leftbits >= 32 THEN 0 ELSE Below

TopUp == /\ cur' = cur + Filled /\ code' = ToppedUp /\ leftbits' = leftbits + 8 * Filled
         /\ got' = << >> /\ UNCHANGED <<is_eob, asked, past>>

\* One byte into an exhausted register, or ones.
Eob == is_eob \/ cur >= Size

OneByte(c) == IF c < Size THEN [q \in Bit |-> IF q <= 8 THEN 8 * c + q ELSE 0] ELSE Ones

\* BSR_READ_1BIT, after BSR_FLUSH_1BYTE when the register is empty.
Flag == /\ IF leftbits # 0
           THEN /\ code' = Shifted(code, 1) /\ leftbits' = leftbits - 1
                /\ got' = <<code[1]>> /\ UNCHANGED <<cur, is_eob>>
           ELSE /\ code' = Shifted(OneByte(cur), 1) /\ leftbits' = 7
                /\ got' = <<OneByte(cur)[1]>>
                /\ cur' = Least(cur + 1, Size) /\ is_eob' = Eob
        /\ Want(1)

\* A suffix of dec_vlc_read under way: the reader, the bits it still needs and
\* the sum of those it has.
Partial == [code : [Bit -> {ONE, MIX} \cup 0..Bits], left : 0..REG, cur : 0..Size,
            eob : BOOLEAN, need : 0..30, val : Seq({ONE, MIX} \cup 0..Bits)]

\* Byte after byte until the bits needed are there.
Summed[r \in Partial] ==
  LET m   == Len(r.val)
      sum == Or(r.val, TopBits(r.code, r.need, m))
  IN  IF r.left >= r.need
      THEN [r EXCEPT !.val = sum, !.code = Shifted(@, r.need), !.left = @ - r.need]
      ELSE Summed[[code |-> OneByte(r.cur), left |-> 8, cur |-> Least(r.cur + 1, Size),
                   eob |-> r.eob \/ r.cur >= Size, need |-> r.need - r.left, val |-> sum]]

Suffix(k) ==
  /\ LET r == Summed[[code |-> code, left |-> leftbits, cur |-> cur, eob |-> is_eob,
                      need |-> k, val |-> [q \in 1..k |-> 0]]]
     IN  /\ got' = r.val /\ code' = r.code /\ leftbits' = r.left
         /\ cur' = r.cur /\ is_eob' = r.eob
  /\ Want(k)

Next == \/ \E n \in Lens : Read(n) \/ Skip(n)
        \/ Read1 \/ Align8 \/ Sink \/ TopUp \/ Flag
        \/ \E k \in CoefLens : Suffix(k)

Spec == Init /\ [][Next]_vars

----------------------------------------------------------------------------
(* Properties                                                              *)

\* Until the end is hit, every value consists of the next bits of the buffer
\* in their order, whatever mix of reads, top-ups and alignments came before.
TheNextBits == got' = [q \in DOMAIN got' |-> asked + q - 1]

NextBits == [][~is_eob' /\ got' # << >> => TheNextBits]_vars

\* The end is noticed exactly when a bit behind it was asked for: no caller
\* that looks at is_eob accepts bits that are not there, or refuses what is.
\* Up to then the bytes a caller is told were read (BSR_GET_READ_BYTE), and
\* where the next PBU, tile or payload begins, are those of the bits it got,
\* and the register holds the next bits of the buffer and nothing below them
\* that the join of two loads or a top-up could mix in.
EndIsTrue ==
  /\ TypeOK
  /\ is_eob = past
  /\ ~is_eob => 8 * cur - leftbits = asked - 1
  /\ ~is_eob => code = [q \in Bit |-> IF q <= leftbits THEN asked + q - 1 ELSE 0]
=============================================================================
