-------------------------------- MODULE Bits --------------------------------
(***************************************************************************)
(* The three modules about bits.  In a behaviour a buffer is either        *)
(* written by BsWriter, or read by BsReader, or it is the code that Vlc    *)
(* passes from an encoder to a decoder; what the other two keep is out of  *)
(* use and stays as it is.                                                 *)
(***************************************************************************)
EXTENDS Integers, Sequences

CONSTANTS WriterSize,      \* bytes in the buffer that is written
          HlsLens,         \* the lengths of the syntax elements written
          CodeLens,        \* the lengths of the coefficient codes written
          MaxBits,         \* bound: bits written
          ReaderSize,      \* bytes in the buffer that is read
          ElementLens,     \* the lengths of the syntax elements read
          SuffixLens,      \* the lengths of the coefficient codes' suffixes
          BlkD, Dcs, Acs,  \* the blocks that are coded
          MaxTx            \* MAX_TX_VAL

VARIABLES job,                                    \* "write", "read" or "code"
          cur, code, leftbits,                    \* of the writer or of the reader
          mem, sunk, w, dropped,                  \* of the writer
          is_eob, asked, past,                    \* of the reader
          got,                                    \* of the reader or of the decoder
          encoder, decoder, sent, bits, full      \* of the entropy codec

W == INSTANCE BsWriter WITH Size <- WriterSize, CoefLens <- CodeLens
R == INSTANCE BsReader WITH Size <- ReaderSize, Lens <- ElementLens, CoefLens <- SuffixLens
V == INSTANCE Vlc WITH enc <- encoder, dec <- decoder

BitsAssumption == W!WriterAssumption /\ R!ReaderAssumption /\ V!VlcAssumption

----------------------------------------------------------------------------
writer   == <<mem, sunk, w, dropped>>
reader   == <<is_eob, asked, past>>
register == <<cur, code, leftbits>>
coder    == <<encoder, decoder, sent, bits, full>>

bitsVars == <<job, writer, reader, register, coder, got>>

NotUsed(v) == v = "unused"

WriterUnused == NotUsed(mem) /\ NotUsed(sunk) /\ NotUsed(w) /\ NotUsed(dropped)
ReaderUnused == NotUsed(is_eob) /\ NotUsed(asked) /\ NotUsed(past)
RegisterUnused == NotUsed(cur) /\ NotUsed(code) /\ NotUsed(leftbits)
CoderUnused == /\ NotUsed(encoder) /\ NotUsed(decoder) /\ NotUsed(sent)
               /\ NotUsed(bits) /\ NotUsed(full)

BitsInit == \/ job = "write" /\ W!Init /\ ReaderUnused /\ CoderUnused /\ NotUsed(got)
            \/ job = "read" /\ R!Init /\ WriterUnused /\ CoderUnused
            \/ job = "code" /\ V!Init /\ WriterUnused /\ ReaderUnused /\ RegisterUnused

Writes(A) == job = "write" /\ A /\ UNCHANGED <<job, reader, coder, got>>
Reads(A)  == job = "read" /\ A /\ UNCHANGED <<job, writer, coder>>
Codes(A)  == job = "code" /\ A /\ UNCHANGED <<job, writer, reader, register>>

BitsNext ==
  \/ \E n \in HlsLens : Writes(W!Write(n))
  \/ Writes(W!Write1)
  \/ \E n \in CodeLens : Writes(W!WriteCoef(n))
  \/ Writes(W!Sink)
  \/ Writes(W!Deinit)
  \/ \E n \in ElementLens : Reads(R!ReadHeld(n))
  \/ \E n \in ElementLens : Reads(R!ReadOver(n))
  \/ \E n \in ElementLens : Reads(R!Skip(n))
  \/ Reads(R!Read1)
  \/ Reads(R!Align8)
  \/ Reads(R!Sink)
  \/ Reads(R!TopUp)
  \/ Reads(R!Flag)
  \/ \E k \in SuffixLens : Reads(R!Suffix(k))
  \/ \E b \in V!Blocks : Codes(V!Encode(b))
  \/ Codes(V!Decode)
  \/ Codes(V!NewTile)

BitsSpec == BitsInit /\ [][BitsNext]_bitsVars

----------------------------------------------------------------------------
\* The bits written are in the buffer and the register, in order, for as
\* long as no flush failed.
BitsInOrder == job = "write" => W!BitsInOrder

\* A tile whose coefficients did not fit is never taken for a whole one.
CoefOverflowSticks == job = "write" => W!CoefOverflowSticks

\* is_eob says exactly that a bit behind the end was asked for, and until
\* then register and position are those of the bits that were read.
EndIsTrue == job = "read" => R!EndIsTrue

\* Until the end is hit, a value read is made of the next bits of the buffer.
NextBits ==
  [][job = "read" /\ ~is_eob' /\ got' # << >> => R!TheNextBits]_bitsVars

\* The decoder gets the blocks the encoder was given, and stays in step.
RoundTrip == job = "code" => V!RoundTrip

\* A code that is cut anywhere is not taken for a whole one.
CutIsNoticed == job = "code" => V!CutIsNoticed

\* The rate the encoder reckons with is the number of bits written.
RateIsLength == job = "code" => V!RateIsLength
=============================================================================
