-------------------------------- MODULE Vlc --------------------------------
(***************************************************************************)
(* The coefficient code of src/oapv_vlc.c, from block to block of a tile.  *)
(* Encoder and decoder adapt the parameters of the code to what they have  *)
(* coded: kparam_dc and kparam_ac are carried from one block to the next,  *)
(* the parameter of a run and of a level from one coefficient to the next. *)
(* Nothing in the bitstream tells them; both sides must stay in step.      *)
(*                                                                         *)
(* A code is a sequence of bits.  Registers, and the order in which bits   *)
(* reach the buffer, are the matter of BsWriter and BsReader.  The tables  *)
(* oapve_tbl_vlc_code hold the same codes for small values.                *)
(***************************************************************************)
EXTENDS Integers, SequencesExt, FiniteSetsExt

CONSTANTS BlkD,       \* OAPV_BLK_D: coefficients of a block, in scan order
          Dcs,        \* the DC coefficients that occur
          Acs,        \* the sequences of AC coefficients that occur
          MaxTx       \* MAX_TX_VAL

VlcAssumption ==
  /\ BlkD \in Nat /\ BlkD > 1 /\ MaxTx \in Nat
  /\ Dcs \subseteq (-MaxTx - 1)..MaxTx
  /\ \A a \in Acs : a \in [1..(BlkD - 1) -> (-MaxTx - 1)..MaxTx]

VARIABLES enc,      \* the encoder's kparam_dc, kparam_ac and prev_dc
          dec,      \* the decoder's
          sent,     \* the block that was encoded last
          bits,     \* its code
          got,      \* the block that was decoded last
          full      \* is there a code that was not decoded yet?

vars == <<enc, dec, sent, bits, got, full>>

\* KPARAM_DC, KPARAM_AC, KPARAM_RUN
Least(a, b) == IF a < b THEN a ELSE b
KparamDc(level) == Least(level \div 2, 5)
KparamAc(level) == Least(level \div 4, 4)
KparamRun(run) == Least(run \div 4, 2)

Fresh == [kdc |-> 5, kac |-> 0, prev |-> 0]
Params == [kdc : 0..5, kac : 0..4, prev : Dcs \cup {0}]
Blocks == [dc : Dcs, ac : Acs]

TypeOK == /\ enc \in Params /\ dec \in Params
          /\ sent \in Blocks /\ got \in Blocks
          /\ bits \in Seq({0, 1}) /\ full \in BOOLEAN

Abs(n) == IF n < 0 THEN -n ELSE n
SignBit(n) == IF n < 0 THEN <<1>> ELSE <<0>>

----------------------------------------------------------------------------
(* Encoding                                                                *)

Zeros(n) == [q \in 1..n |-> 0]

\* The n low bits of v.
Binary(v, n) == [q \in 1..n |-> (v \div 2^(n - q)) % 2]

\* enc_vlc_write_to_code.  From 2^(k+1) on, an exp-golomb code follows the
\* prefix 01: each 0 takes off 2^k and k grows by one.
Escape[v \in Nat, k \in Nat] ==
  IF v >= 2^k THEN <<0>> \o Escape[v - 2^k, k + 1] ELSE <<1>> \o Binary(v, k)

Code(v, k) == IF v < 2^k THEN <<1>> \o Binary(v, k)
              ELSE IF v < 2 * 2^k THEN <<0, 0>> \o Binary(v - 2^k, k)
              ELSE <<0, 1>> \o Escape[v - 2 * 2^k, k]

\* oapve_vlc_dc_coef
DcCode(diff, k) == Code(Abs(diff), k) \o (IF diff = 0 THEN << >> ELSE SignBit(diff))

\* oapve_vlc_ac_coef, from place p of a on: run is the number of zeros behind.
AcBits(a, kac) ==
  LET from[p \in 1..BlkD, run \in 0..BlkD, krun \in 0..2, k \in 0..4] ==
        IF p = BlkD THEN IF run > 0 THEN Code(run, krun) ELSE << >>
        ELSE IF a[p] = 0 THEN from[p + 1, run + 1, krun, k]
        ELSE Code(run, krun) \o Code(Abs(a[p]) - 1, k) \o SignBit(a[p])
             \o from[p + 1, 0, KparamRun(run), KparamAc(Abs(a[p]))]
  IN  from[1, 0, 0, kac]

\* kparam_ac is set by the first coefficient of a block that is not zero.
NonZero(a) == {p \in 1..(BlkD - 1) : a[p] # 0}
KacLast(a, k) == IF NonZero(a) = {} THEN k ELSE KparamAc(Abs(a[Max(NonZero(a))]))
Kac(a, k) == IF NonZero(a) = {} THEN k ELSE KparamAc(Abs(a[Min(NonZero(a))]))

Diff(dc) == dc - enc.prev

Encode(b) ==
  /\ ~full /\ full' = TRUE
  /\ sent' = b
  /\ bits' = DcCode(Diff(b.dc), enc.kdc) \o AcBits(b.ac, enc.kac)
  /\ enc' = [kdc |-> IF Diff(b.dc) = 0 THEN 0 ELSE KparamDc(Abs(Diff(b.dc))),
             kac |-> Kac(b.ac, enc.kac), prev |-> b.dc]
  /\ UNCHANGED <<dec, got>>

\* oapve_vlc_get_coef_rate: the length of the code, without the code.
EscapeRate[v \in Nat, k \in Nat] ==
  IF v >= 2^k THEN 1 + EscapeRate[v - 2^k, k + 1] ELSE k + 1

RateOf(v, k) == IF v < 2^k THEN 1 + k
                ELSE IF v < 2 * 2^k THEN 2 + k ELSE 2 + EscapeRate[v - 2 * 2^k, k]

\* A level that is not zero has a sign.
Unsigned(level, k) == RateOf(level - 1, k)
Signed(level, k) == RateOf(level - 1, k) + 1

AcRate(a, kac) ==
  LET from[p \in 1..BlkD, run \in 0..BlkD, prev \in 0..BlkD, k \in Nat] ==
        IF p = BlkD
        THEN IF run # 0 THEN RateOf(run, Least(prev \div 4, 2)) ELSE 0
        ELSE IF a[p] = 0 THEN from[p + 1, run + 1, prev, k]
        ELSE RateOf(run, Least(prev \div 4, 2)) + Signed(Abs(a[p]), Least(k, 4))
             + from[p + 1, 0, run, Abs(a[p]) \div 4]
  IN  from[1, 0, 0, kac]

Rate(b, e) == LET level == Abs(b.dc - e.prev)
              IN  RateOf(level, e.kdc) + (IF level = 0 THEN 0 ELSE 1) + AcRate(b.ac, e.kac)

----------------------------------------------------------------------------
(* Decoding                                                                *)

\* BSR_FLUSH_1BYTE: ones follow the last bit.
BitAt(s, p) == IF p <= Len(s) THEN s[p] ELSE 1

\* The end is noticed when a bit behind it is asked for.
EndMissed(s, p) == FALSE
Ended(s, p) == p > Len(s) + 1

Number(s, p, k) == FoldFunction(+, 0, [q \in 1..k |-> BitAt(s, p + q - 1) * 2^(k - q)])

\* BSR_READ_ZERO_PREFIX: the place of the 1 that ends a prefix of zeros.
OneFrom(s, p) == LET at == {q \in p..Len(s) : s[q] = 1}
                 IN  IF at = {} THEN Max({p, Len(s) + 1}) ELSE Min(at)

\* dec_vlc_read at place p of s: the value, and the place behind its code.
Added(k, z) == 2^k + 2^(k + z)

Read(s, p, k) ==
  IF BitAt(s, p) = 1 THEN [val |-> Number(s, p + 1, k), at |-> p + 1 + k]
  ELSE IF BitAt(s, p + 1) = 0
  THEN [val |-> 2^k + Number(s, p + 2, k), at |-> p + 2 + k]
  ELSE LET one == OneFrom(s, p + 2)
           z   == one - (p + 2)
       IN  IF k + z >= 30 THEN [val |-> -1, at |-> one + 1]
           ELSE [val |-> Added(k, z) + Number(s, one + 1, k + z), at |-> one + 1 + k + z]

Bad == [ok |-> FALSE]

\* oapvd_vlc_dc_coef with the prediction of dec_block: v is the difference
\* that was read, without its sign.
DcTaken(v, at, s, e) ==
  IF v.val < 0 \/ v.val > 2 * MaxTx + 1 \/ Ended(s, at) THEN Bad
  ELSE [ok |-> TRUE, at |-> at,
        dc |-> e.prev + (IF BitAt(s, v.at) = 1 THEN -v.val ELSE v.val),
        kdc |-> IF v.val = 0 THEN 0 ELSE KparamDc(v.val)]

DcSigned(v, s, e) == DcTaken(v, IF v.val = 0 THEN v.at ELSE v.at + 1, s, e)

DcRead(s, e) == DcSigned(Read(s, 1, e.kdc), s, e)

\* oapvd_vlc_ac_coef: place p of the block is next, at place at of s; l holds
\* the levels so far, with their places.
AcEnd(s, at, l, kac) ==
  IF Ended(s, at) THEN Bad
  ELSE [ok |-> TRUE, ac |-> l, kac |-> IF l = << >> THEN kac ELSE KparamAc(Abs(l[1][2]))]

SignedLevel(s, lvl) == IF BitAt(s, lvl.at) = 1 THEN -(lvl.val + 1) ELSE lvl.val + 1

AcRead(s, start, kac) ==
  LET from[p \in 1..BlkD, at \in Nat, krun \in 0..2, k \in 0..4, l \in Seq(Nat \X Int)] ==
        LET Level(q, krunNext, end, val, level) ==
              IF val < 0 \/ level < -MaxTx - 1 \/ level > MaxTx THEN Bad
              ELSE IF q + 1 = BlkD THEN AcEnd(s, end, Append(l, <<q, level>>), kac)
              ELSE from[q + 1, end, krunNext, KparamAc(val + 1), Append(l, <<q, level>>)]
            After(run, lvl) == Level(p + run.val, KparamRun(run.val), lvl.at + 1,
                                     lvl.val, SignedLevel(s, lvl))
            Run(run) == IF run.val < 0 \/ p + run.val > BlkD THEN Bad
                        ELSE IF p + run.val = BlkD THEN AcEnd(s, run.at, l, kac)
                        ELSE After(run, Read(s, run.at, k))
        IN  Run(Read(s, at, krun))
  IN  from[1, start, 0, kac, << >>]

\* coef[] starts as zeros.
Spread(l) == [p \in 1..(BlkD - 1) |->
                IF \E c \in Range(l) : c[1] = p
                THEN (CHOOSE c \in Range(l) : c[1] = p)[2] ELSE 0]

Whole(d, a) ==
  IF d.dc < -MaxTx - 1 \/ d.dc > MaxTx \/ ~a.ok THEN Bad
  ELSE [ok |-> TRUE, block |-> [dc |-> d.dc, ac |-> Spread(a.ac)],
        e |-> [kdc |-> d.kdc, kac |-> a.kac, prev |-> d.dc]]

WithDc(d, s, e) == IF d.ok THEN Whole(d, AcRead(s, d.at, e.kac)) ELSE Bad

Decoded(s, e) == WithDc(DcRead(s, e), s, e)

Received(d) == d.ok /\ got' = d.block /\ dec' = d.e

Decode == /\ full /\ full' = FALSE
          /\ Received(Decoded(bits, dec))
          /\ UNCHANGED <<enc, sent, bits>>

----------------------------------------------------------------------------

\* A new tile starts with the same parameters on both sides.
NewTile == /\ ~full /\ enc' = Fresh /\ dec' = Fresh
           /\ UNCHANGED <<sent, bits, got, full>>

Init == /\ enc = Fresh /\ dec = Fresh
        /\ \E b \in Blocks : sent = b /\ got = b
        /\ bits = << >> /\ full = FALSE

Next == (\E b \in Blocks : Encode(b)) \/ Decode \/ NewTile

Spec == Init /\ [][Next]_vars

----------------------------------------------------------------------------
(* Properties                                                              *)

\* The decoder gets the block the encoder was given, whatever blocks came
\* before it, and then has the parameters the encoder has.
RoundTrip == TypeOK /\ (~full => got = sent /\ dec = enc)

\* A code that ends early is noticed, wherever it is cut: no block is made
\* of the ones that follow the end.
CutIsNoticed ==
  full => \A n \in 0..(Len(bits) - 1) : ~Decoded(SubSeq(bits, 1, n), dec).ok

\* The rate the encoder weighs a choice of coefficients with is the number of
\* bits they take, with the parameters it had then: the decoder still has them.
RateIsLength == full => Len(bits) = Rate(sent, dec)
=============================================================================
