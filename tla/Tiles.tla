------------------------------- MODULE Tiles -------------------------------
(***************************************************************************)
(* DecTiles, DecTilesSel and EncTiles: the three ways the threads of a     *)
(* codec instance share the tiles of a frame, one in each behaviour.       *)
(* They have the fields of a context in common; what a behaviour does not  *)
(* use stays as it is.                                                     *)
(***************************************************************************)
EXTENDS Integers, FiniteSets

CONSTANTS Threads,       \* ctx->threads
          MaxTiles,      \* the most tiles a frame has
          LEN,           \* OAPV_TILE_SIZE_LEN
          Wrap,          \* 2^32, the range of an unsigned int
          WholeFrames,   \* the frames submitted to oapvd_decode
          ChosenFrames,  \* the frames submitted to oapvd_decode_tiles
          Pictures,      \* the frames submitted to oapve_encode
          MaxCalls       \* bound: calls made

VARIABLES use,        \* "frame": oapvd_decode or oapvd_decode_frame,
                      \* "chosen": oapvd_decode_tiles, "encode": oapve_encode
          frm, tile_idx, tile_size, pc, tidx, thread_ret, phase, ci, ret, result,
          bs_beg, tile_end,                                 \* of both decoders
          stat, imgb,                       \* of whole frames, either direction
          par, nfrm,
          want, dst, fate, ncall,                         \* of DecTilesSel only
          cap, cost, bs_size, pass, cost_sum, header, put, good  \* of EncTiles

D == INSTANCE DecTiles WITH Frames <- WholeFrames, MaxFrames <- MaxCalls
S == INSTANCE DecTilesSel WITH Frames <- ChosenFrames
E == INSTANCE EncTiles WITH Frames <- Pictures, MaxFrames <- MaxCalls

TilesAssumption == D!DecAssumption /\ S!SelAssumption /\ E!EncAssumption

----------------------------------------------------------------------------
decoders == <<bs_beg, tile_end>>
frames   == <<stat, imgb, nfrm>>
chosen   == <<want, dst, fate, ncall>>
encoder  == <<cap, cost, bs_size, pass, cost_sum, header, put, good>>
common   == <<frm, tile_idx, tile_size, pc, tidx, thread_ret, phase, ci, ret, result>>

vars == <<use, common, decoders, frames, par, chosen, encoder>>

Unused(v) == v = "unused"

DecodersUnused == Unused(bs_beg) /\ Unused(tile_end)
FramesUnused   == Unused(stat) /\ Unused(imgb) /\ Unused(nfrm)
ChosenUnused   == Unused(want) /\ Unused(dst) /\ Unused(fate) /\ Unused(ncall)
EncoderUnused  == /\ Unused(cap) /\ Unused(cost) /\ Unused(bs_size) /\ Unused(pass)
                  /\ Unused(cost_sum) /\ Unused(header) /\ Unused(put) /\ Unused(good)

Init ==
  \/ use = "frame"  /\ D!Init /\ ChosenUnused /\ EncoderUnused
  \/ use = "chosen" /\ S!Init /\ FramesUnused /\ Unused(par) /\ EncoderUnused
  \/ use = "encode" /\ E!Init /\ DecodersUnused /\ Unused(par) /\ ChosenUnused

InFrame(A)  == use = "frame"  /\ A /\ UNCHANGED <<use, chosen, encoder>>
InChosen(A) == use = "chosen" /\ A /\ UNCHANGED <<use, frames, par, encoder>>
InEncode(A) == use = "encode" /\ A /\ UNCHANGED <<use, decoders, par, chosen>>

DecodeFrame ==
  \/ \E f \in WholeFrames : InFrame(D!Prepare(f))
  \/ InFrame(D!Run) \/ InFrame(D!OwnShare) \/ InFrame(D!OwnShareEnds)
  \/ InFrame(D!Join) \/ InFrame(D!Finish)
  \/ \E c \in D!Core : \/ InFrame(D!Take(c)) \/ InFrame(D!Spin(c)) \/ InFrame(D!Told(c))
                       \/ InFrame(D!ReadSize(c)) \/ InFrame(D!HandOver(c))
                       \/ \E ok \in BOOLEAN : InFrame(D!Mark(c, ok))
                       \/ InFrame(D!Fail(c))
  \/ InFrame(D!Ended)

DecodeChosen ==
  \/ \E f \in ChosenFrames, T \in SUBSET S!Tile :
       InChosen(S!Prepare(f, T)) \/ InChosen(S!PrepareFails(f, T))
  \/ InChosen(S!Locate) \/ InChosen(S!Run) \/ InChosen(S!OwnShare)
  \/ InChosen(S!OwnShareEnds) \/ InChosen(S!Join) \/ InChosen(S!Return)
  \/ \E c \in S!Core : \/ InChosen(S!Take(c)) \/ InChosen(S!CheckSize(c))
                       \/ InChosen(S!Decoded(c)) \/ InChosen(S!Failed(c))
  \/ InChosen(S!Ended)

EncodeFrame ==
  \/ \E f \in Pictures : InEncode(E!Prepare(f)) \/ InEncode(E!PrepareFails(f))
  \/ InEncode(E!Header) \/ InEncode(E!HeaderFails) \/ InEncode(E!Run)
  \/ InEncode(E!OwnShare) \/ InEncode(E!OwnShareEnds) \/ InEncode(E!Join)
  \/ InEncode(E!CostsKnown) \/ InEncode(E!StartEncoding) \/ InEncode(E!Encoded)
  \/ InEncode(E!Copy) \/ InEncode(E!Rewrite)
  \/ \E c \in E!Core : \/ InEncode(E!Take(c)) \/ InEncode(E!Measure(c))
                       \/ InEncode(E!Encode(c)) \/ InEncode(E!Mark(c))
                       \/ InEncode(E!Fail(c))
  \/ InEncode(E!Ended)

Next == DecodeFrame \/ DecodeChosen \/ EncodeFrame

\* The fairness of the module in use.
Fairness ==
  /\ WF_vars(InFrame(D!Caller)) /\ WF_vars(InChosen(S!Caller)) /\ WF_vars(InEncode(E!Caller))
  /\ \A c \in D!Core : /\ WF_vars(InFrame(D!Worker(c)))
                       /\ WF_vars(InChosen(S!Worker(c)))
                       /\ WF_vars(InEncode(E!Worker(c)))

Spec == Init /\ [][Next]_vars /\ Fairness

----------------------------------------------------------------------------
\* Whatever the sizes in the bitstream say, no tile is decoded beyond the
\* bytes the caller handed in.
DecodedInBounds == /\ use = "frame"  => D!DecodedInBounds
                   /\ use = "chosen" => S!DecodedInBounds

\* A decode that reports success, of a frame or of chosen tiles, is what one
\* thread would have done in order: each tile it was to decode is decoded, from
\* the place where the sizes before it put it.
SuccessIsWholeFrame == /\ use = "frame"  => D!SuccessIsWholeFrame
                       /\ use = "chosen" => S!SuccessIsRequest

\* An encode that reports success has put out every tile once, whole, and the
\* header lists their sizes.
SuccessIsCoded == use = "encode" => E!SuccessIsWholeFrame

\* Rate control divides by the costs of exactly the tiles of this frame.
CostsAreThisFrames == use = "encode" => E!CostsAreThisFrames

\* Where a tile begins is decided once per frame.
StartIsFinal == [][use = "frame" /\ phase # "idle" => D!StartsKept]_vars

\* Every call that comes to its tiles returns, whatever tiles fail.
CallsReturn ==
  (\/ use = "frame" /\ phase = "fork"
   \/ use = "chosen" /\ phase = "locate"
   \/ use = "encode" /\ phase = "header") ~> phase = "idle"

\* The refinement mappings of the three modules, as one: each tile has one
\* owner, and a pass ends when nobody holds one any more.
TileState(i) == IF use = "frame" THEN D!TileState(i)
                ELSE IF use = "chosen" THEN S!TileState(i) ELSE E!TileState(i)

Work == INSTANCE TileWork
          WITH Tile  <- 0..(MaxTiles - 1),
               open  <- IF use = "frame" THEN imgb ELSE phase \in {"fork", "main", "join"},
               want  <- IF use = "chosen" THEN want ELSE 0..(frm.n - 1),
               tiles <- [i \in 0..(MaxTiles - 1) |-> TileState(i)],
               good  <- IF use = "encode" THEN good ELSE result = "OK"

ImplementsTileWork == Work!Spec
=============================================================================
