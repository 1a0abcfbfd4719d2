------------------------------ MODULE MCCodec ------------------------------
(***************************************************************************)
(* Codec for TLC: three calls of instances of either kind.                 *)
(***************************************************************************)
EXTENDS Codec

----------------------------------------------------------------------------
(* To decode: frames of one to three tiles, with and without tile sizes in *)
(* the header, one whose header lies, one whose header is bad after its    *)
(* sizes, others that do not fit the image, do not decode, or end with     *)
(* something else than filler.                                             *)

Good(label, hdr, real) ==
  [kind |-> "FRAME", label |-> label, header |-> "good", hdr |-> hdr, real |-> real,
   unfit |-> "none", sound |-> TRUE, filler |-> TRUE]

Two    == Good(1, <<1, 2>>, <<1, 2>>)
Three  == Good(2, <<2, 1, 1>>, <<2, 1, 1>>)
Bare   == Good(3, << >>, <<2, 2>>)
Liar   == Good(4, <<2, 2>>, <<1, 2>>)
Torn   == [Two EXCEPT !.label = 5, !.header = "bad"]
Unfit  == [Bare EXCEPT !.label = 6, !.unfit = "image"]
Small  == [Two EXCEPT !.label = 7, !.unfit = "planes"]
NoHash == [Bare EXCEPT !.label = 8, !.unfit = "layout"]
Noise  == [Two EXCEPT !.label = 9, !.sound = FALSE]
Tailed == [Bare EXCEPT !.label = 10, !.filler = FALSE]
Skewed == [Bare EXCEPT !.label = 11, !.unfit = "extents"]

Broken  == [kind |-> "BROKEN"]
Meta    == [kind |-> "CONTENT", good |-> TRUE]
BadMeta == [kind |-> "CONTENT", good |-> FALSE]
Listing(labels) == [kind |-> "AU_INFO", good |-> TRUE, lists |-> labels]
BadList == [kind |-> "AU_INFO", good |-> FALSE]

MCPbus == {Two, Three, Bare, Liar, Torn, Unfit, Small, NoHash, Noise, Tailed, Skewed,
           Broken, Meta, BadMeta, Listing(<<1, 2>>), BadList}

MCCodedUnits == {<<Listing(<<1, 2>>), Two, Meta, Three>>, <<Bare, Two>>, <<Meta, Liar>>,
                  <<Noise, Two>>, <<Two, Three, Listing(<<1, 2>>)>>, <<BadList, Two>>,
                  <<Two, Torn>>, <<Three, Tailed>>, <<Two, Broken>>, <<Two, BadMeta>>,
                  <<Bare, NoHash, Two>>, <<Two, Skewed>>}

MCLimits == {1, 3}

----------------------------------------------------------------------------
(* To encode: access units of one to three frames for two slots, with and  *)
(* without a reconstruction, a hash and rate control, of one to three      *)
(* tiles, two frames of one group, and frames rejected early or late.      *)

Frame(pic, group, rec, tiles, size, control) ==
  [pic |-> pic, group |-> group, imgb |-> "in", rec |-> rec, tiles |-> tiles,
   size |-> size, unfit |-> "no", hashed |-> TRUE, rc |-> control]

A == Frame("a", 1, "rec1", 1, 30, TRUE)
B == Frame("b", 2, "rec2", 2, 50, TRUE)
C == Frame("c", 1, "NULL", 3, 35, FALSE)
D == [A EXCEPT !.pic = "d", !.hashed = FALSE]
E == [B EXCEPT !.pic = "e", !.unfit = "early"]
F == [B EXCEPT !.pic = "f", !.unfit = "late", !.tiles = 3]
G == [B EXCEPT !.pic = "g", !.group = 1]

MCFrames == {A, B, C, D, E, F, G}
MCFrameUnits == {<<A, B>>, <<D, C>>, <<A, E>>, <<F, B>>, <<A, G>>,
                  <<A, B, C>>}

\* With 104 bytes A and B fit exactly behind a head of 8, or leave 4 behind one
\* of 4; D and C leave 15 or 19.
MCRooms == {104, 300}
MCPayloads == {5}
MCGroups == {1, 2, 3}
MCImages == {"in", "rec1", "rec2"}

ASSUME CodecAssumption
=============================================================================
