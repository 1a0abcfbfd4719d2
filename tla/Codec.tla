------------------------------- MODULE Codec -------------------------------
(***************************************************************************)
(* Decoder and Encoder: the calls of instances of either kind, one kind in *)
(* each behaviour.  What both keep under one name is one variable here.    *)
(***************************************************************************)
EXTENDS Integers, Sequences

CONSTANTS CodedUnits,    \* the access units passed to oapvd_decode
          Pbus,          \* the PBUs passed to the calls that take one
          Limits,        \* the numbers of images offered
          MaxFrames,     \* OAPV_MAX_NUM_FRAMES
          Frames,        \* the frames passed to oapve_encode
          FrameUnits,    \* the sequences of them
          Rooms,         \* the sizes of the output buffer
          Images,        \* the images of an application that encodes
          Groups,        \* group ids of metadata
          Payloads,      \* the sizes of a caller's metadata
          HashSize,      \* and of a hash
          MaxFrms,       \* cdesc.max_num_frms
          MaxMetas,      \* OAPV_MAX_NUM_METAS
          Threads,       \* ctx->threads
          MaxCalls       \* bound: calls made

VARIABLES use,                                    \* "dec", "enc"
          held, pc, serial, res, tile_cap,        \* of both
          call, given, todo, limit, wanted, fh, tile, num_tiles, pos_tiles,
          pos_cap, imgb, refs, use_hash, pix, md5, unhashed, out,    \* Decoder
          frms, room, i, cur, au, au_size, stat, mid, imgb_i, imgb_r,
          rc, rc_frm, coded, rbau,                                   \* Encoder
          cells, counts, hashes, shows       \* tile, refs, use_hash, pix of it

De == INSTANCE Decoder WITH AccessUnits <- CodedUnits
En == INSTANCE Encoder WITH AccessUnits <- FrameUnits, tile <- cells, refs <- counts,
                            use_hash <- hashes, pix <- shows

CodecAssumption == De!DecoderAssumption /\ En!EncoderAssumption

----------------------------------------------------------------------------
decVars == <<call, given, todo, limit, wanted, fh, tile, num_tiles, pos_tiles,
             pos_cap, imgb, refs, use_hash, pix, md5, unhashed, out>>
encVars == <<frms, room, i, cur, au, au_size, stat, mid, imgb_i, imgb_r,
             rc, rc_frm, coded, rbau, cells, counts, hashes, shows>>
vars == <<use, held, pc, serial, res, tile_cap, decVars, encVars>>

Init == use \in {"dec", "enc"} /\ De!Init /\ En!Init

Dec(action) == use = "dec" /\ action /\ UNCHANGED <<use, encVars>>
Enc(action) == use = "enc" /\ action /\ UNCHANGED <<use, decVars>>

Next ==
  \/ Dec(De!Create) \/ Dec(De!Delete)
  \/ \E k \in 0..(Len(De!Order) - 1) : Dec(De!CreateFails(k))
  \/ \E u \in CodedUnits, k \in Limits : Dec(De!Decode(u, k))
  \/ \E p \in Pbus : Dec(De!DecodeFrame(p))
  \/ \E p \in Pbus :
       p.kind = "FRAME" /\ \E w \in SUBSET DOMAIN p.real : Dec(De!DecodeTiles(p, w))
  \/ Dec(De!Config)
  \/ Dec(De!PbuBroken) \/ Dec(De!NotAFrame) \/ Dec(De!OtherPbu) \/ Dec(De!BadContent)
  \/ Dec(De!NoRoomForFrame) \/ Dec(De!ReadHeader) \/ Dec(De!AllRead)
  \/ Dec(De!SetupRejects) \/ Dec(De!SetupNoMemory) \/ Dec(De!Setup)
  \/ Dec(De!SizesNoMemory) \/ Dec(De!Sizes) \/ Dec(De!HoldRejects) \/ Dec(De!Hold)
  \/ Dec(De!FrameTiles) \/ Dec(De!HashRefused) \/ Dec(De!FrameTail) \/ Dec(De!WantedTiles)
  \/ Enc(En!Create) \/ Enc(En!Delete)
  \/ \E k \in 0..(Len(En!Order) - 1) : Enc(En!CreateFails(k))
  \/ Enc(En!ConfigFmt) \/ Enc(En!ClearMetadata)
  \/ \E s \in En!Slot : Enc(En!ConfigHash(s))
  \/ \E g \in Groups, n \in Payloads : Enc(En!FillMetadata(g, n))
  \/ \E fs \in FrameUnits : Enc(En!Refused(fs))
  \/ \E fs \in FrameUnits, n \in Rooms : Enc(En!Encode(fs, n))
  \/ Enc(En!PrepareRejects) \/ Enc(En!PrepareNoMemory) \/ Enc(En!PrepareRejectsLate)
  \/ Enc(En!Prepared) \/ Enc(En!FrameFails) \/ Enc(En!FrameCoded) \/ Enc(En!FrameFills)
  \/ Enc(En!FrameSized) \/ Enc(En!HashFails) \/ Enc(En!FrameDone)
  \/ Enc(En!MetaWritten) \/ Enc(En!MetaFails) \/ Enc(En!MetaCut) \/ Enc(En!EncodeDone)

Spec == Init /\ [][Next]_vars

----------------------------------------------------------------------------
(* Each property is that of the modules in use.                            *)

\* Arrays, sizes, destinations and images are those of the frame in hand.
NothingStale == IF use = "dec" THEN De!NothingStale ELSE En!NothingStale

\* References are held only while a frame is coded; nothing outlives the instance.
RefsBalanced == IF use = "dec" THEN De!RefsBalanced ELSE En!RefsBalanced

\* A hash handed out, in an image or in an access unit, is of its own picture.
HashIsThePictures == IF use = "dec" THEN De!HashIsThePictures ELSE En!HashIsTheFrames

\* A decode that succeeds read the whole unit and reports all its frames.
SuccessIsWholeUnit == use = "dec" => De!SuccessIsWholeUnit

\* What rate control learned stays with the frame slot.
RcStaysWithSlot == use = "enc" => En!RcStaysWithSlot

\* The sizes an encode writes lead from PBU to PBU to the end.
SizesLeadThrough == use = "enc" => En!SizesLeadThrough
=============================================================================
