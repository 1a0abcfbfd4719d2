------------------------------ MODULE BsWriter ------------------------------
(***************************************************************************)
(* The bitstream writer of src/oapv_bs.c, and the coefficient writer of    *)
(* src/oapv_vlc.c that shares its state: a 64-bit register in front of a   *)
(* byte buffer of fixed size.  Bits are collected from the top of the      *)
(* register down; a full register is flushed, and oapv_bsw_sink flushes    *)
(* what there is and tells the caller where in the buffer it stands.       *)
(*                                                                         *)
(* No caller looks at what a write returns.  A buffer that is too small is *)
(* meant to be noticed when sink returns NULL.  The two writers differ in  *)
(* what they do when a flush finds no room: the coefficient writer moves   *)
(* cur past the end all the same, the other one drops the register.        *)
(*                                                                         *)
(* The bits are numbered in the order they are written, from 1 on; 0 is a  *)
(* bit of the register nobody wrote.  The padding that completes the last  *)
(* byte of a flush takes room in the buffer but is not recorded in mem.    *)
(***************************************************************************)
EXTENDS Integers, Sequences

CONSTANTS Size,      \* bytes in the buffer
          HlsLens,   \* the lengths of the syntax elements written
          CoefLens,  \* the lengths of the coefficient codes written
          MaxBits    \* bound: bits written

REG == 64            \* width of bs->code

WriterAssumption ==
  /\ Size \in Nat /\ MaxBits \in Nat
  /\ HlsLens \subseteq 1..32 /\ CoefLens \subseteq 1..REG

VARIABLES mem,       \* the bits in the buffer that were written as bits
          cur,       \* bs->cur, in bytes from bs->beg
          code,      \* bs->code, its top bit first
          leftbits,  \* bs->leftbits
          sunk,      \* what the last operation returned, if it was a sink
          w,         \* history: bits written so far
          dropped    \* history: writers that have dropped bits

vars == <<mem, cur, code, leftbits, sunk, w, dropped>>

Bit == 1..REG
Blank == [q \in Bit |-> 0]

TypeOK ==
  /\ mem \in Seq(0..MaxBits) /\ Len(mem) <= 8 * Size
  /\ cur \in Nat
  /\ code \in [Bit -> 0..MaxBits]
  /\ leftbits \in -1..REG
  /\ sunk \in {"none", "NULL", "pos"}
  /\ w \in 0..MaxBits
  /\ dropped \subseteq {"hls", "coef"}

\* oapv_bsw_init
Init ==
  /\ mem = << >> /\ cur = 0
  /\ code = Blank /\ leftbits = REG
  /\ sunk = "none" /\ w = 0 /\ dropped = {}

----------------------------------------------------------------------------
\* A value of n bits, set against the top of a register and shifted right by
\* s, or left when s is negative.
Placed(n, s) == [q \in Bit |-> IF q - s \in 1..n THEN w + q - s ELSE 0]

Or(a, b) == [q \in Bit |-> IF b[q] # 0 THEN b[q] ELSE a[q]]

\* Is there room for so many bytes?
Fits(bytes) == cur + bytes <= Size

\* How many bits the register holds.
Held == REG - leftbits

Least(a, b) == IF a < b THEN a ELSE b

\* The first bytes of a register c that holds n bits are appended to the buffer.
Append8(c, n, bytes) == /\ mem' = mem \o SubSeq(c, 1, Least(n, 8 * bytes))
                        /\ cur' = cur + bytes

\* BSW_GET_SINK_BYTE
SinkByteDown == Held \div 8
SinkByte == (Held + 7) \div 8

\* oapv_bsw_write of n bits.  When the value reaches the end of the register
\* the register is flushed, and what is left of the value starts the next.
Write(n) ==
  /\ w + n <= MaxBits
  /\ LET full == Or(code, Placed(n, Held))
     IN  IF n < leftbits
         THEN code' = full /\ leftbits' = leftbits - n /\ UNCHANGED <<mem, cur, dropped>>
         ELSE /\ IF Fits(8) THEN Append8(full, REG, 8) /\ UNCHANGED dropped
                 ELSE UNCHANGED <<mem, cur>> /\ dropped' = dropped \cup {"hls"}
              \* With leftbits below 0 the shift is undefined.
              /\ code' \in {Placed(n, -leftbits)} \cup IF leftbits < 0 THEN {Blank} ELSE {}
              /\ leftbits' = REG - (n - leftbits)
  /\ w' = w + n /\ sunk' = "none"

\* oapv_bsw_write1.  At the very end of the buffer it returns before it
\* resets the register, and leftbits stays 0; one more bit takes it below.
Write1 ==
  /\ w < MaxBits /\ leftbits >= 0
  /\ LET full == Or(code, Placed(1, Held))
     IN  IF leftbits # 1
         THEN /\ code' \in {full} \cup IF leftbits = 0 THEN {Blank} ELSE {}
              /\ leftbits' = leftbits - 1
              /\ dropped' = IF leftbits = 0 THEN dropped \cup {"hls"} ELSE dropped
              /\ UNCHANGED <<mem, cur>>
         ELSE IF cur >= Size
         THEN code' = full /\ leftbits' = 0 /\ UNCHANGED <<mem, cur, dropped>>
         ELSE /\ IF Fits(8) THEN Append8(full, REG, 8) /\ UNCHANGED dropped
                 ELSE UNCHANGED <<mem, cur>> /\ dropped' = dropped \cup {"hls"}
              /\ code' = Blank /\ leftbits' = REG
  /\ w' = w + 1 /\ sunk' = "none"

\* BSW_WRITE_64BITS with BSW_FLUSH_8BYTE: a coefficient code of n bits.
CoefCurKept == cur
CoefCur == cur + 8

WriteCoef(n) ==
  /\ w + n <= MaxBits /\ leftbits >= 0
  /\ LET full == Or(code, Placed(n, Held))
         rest == n - leftbits
     IN  IF n < leftbits
         THEN code' = full /\ leftbits' = leftbits - n /\ UNCHANGED <<mem, cur, dropped>>
         ELSE /\ IF Fits(8) THEN Append8(full, REG, 8) /\ UNCHANGED dropped
                 ELSE cur' = CoefCur /\ dropped' = dropped \cup {"coef"} /\ UNCHANGED mem
              /\ code' = IF rest > 0 THEN Placed(n, -leftbits) ELSE Blank
              /\ leftbits' = REG - rest
  /\ w' = w + n /\ sunk' = "none"

\* oapv_bsw_sink refuses when nothing would be left behind what it writes.
Sink ==
  /\ IF cur + SinkByte < Size
     THEN /\ Append8(code, Held, SinkByte)
          /\ code' = Blank /\ leftbits' = REG /\ sunk' = "pos"
     ELSE sunk' = "NULL" /\ UNCHANGED <<mem, cur, code, leftbits>>
  /\ UNCHANGED <<w, dropped>>

\* The writers whose position is past what sink will confirm go on: enc_tile
\* ends every component with a deinit, which flushes what still fits.
Deinit ==
  /\ IF Fits(SinkByte)
     THEN Append8(code, Held, SinkByte) /\ code' = Blank /\ leftbits' = REG
     ELSE UNCHANGED <<mem, cur, code, leftbits>>
  /\ sunk' = "none" /\ UNCHANGED <<w, dropped>>

Next == \/ \E n \in HlsLens : Write(n)
        \/ Write1
        \/ \E n \in CoefLens : WriteCoef(n)
        \/ Sink
        \/ Deinit

Spec == Init /\ [][Next]_vars

----------------------------------------------------------------------------
(* Properties                                                              *)

AllOf(n)   == [k \in 1..n |-> k]

\* As long as no flush failed, buffer and register together hold every bit
\* in the order it was written, across register boundaries, and the part of
\* the register that is still to be filled is clear.
BitsInOrder ==
  /\ TypeOK
  /\ dropped = {} =>
       /\ mem \o SubSeq(code, 1, Held) = AllOf(w)
       /\ \A q \in Bit : q > Held => code[q] = 0
       /\ Len(mem) <= 8 * cur /\ cur <= Size

\* A tile whose coefficients did not fit is never taken for a whole one: a
\* sink that succeeds has every bit in the buffer unless the syntax writer
\* dropped one (enc_tile tests only its last sink).
CoefOverflowSticks ==
  sunk = "pos" /\ "hls" \notin dropped => mem = AllOf(w)

\* "sink returns NULL when the output buffer cannot hold the header": when
\* sink returns a position, what was written before it is in the buffer.
SinkMeansWritten == sunk = "pos" => mem = AllOf(w)
=============================================================================
