------------------------------ MODULE Decoder ------------------------------
(***************************************************************************)
(* A decoder instance from oapvd_create to oapvd_delete (src/oapv.c):      *)
(* oapvd_decode with its loop over the PBUs of an access unit,             *)
(* oapvd_decode_frame and oapvd_decode_tiles.  The three share what the    *)
(* instance keeps from one call to the next: the tile array and the array  *)
(* of tile sizes, which grow on demand and may fail to, the destination of *)
(* each tile, and the image that is held while its tiles are decoded.      *)
(* oapvd_info reads an access unit without an instance.                    *)
(*                                                                         *)
(* Threads are left to DecTiles and DecTilesSel: here the tiles of a frame *)
(* are decoded in one step that succeeds exactly when those modules say.   *)
(***************************************************************************)
EXTENDS Integers, SequencesExt

CONSTANTS AccessUnits,   \* the sequences of PBUs a caller may pass
          Pbus,          \* the PBUs a caller may pass by themselves
          Limits,        \* the numbers of output frames it may provide
          MaxFrames,     \* OAPV_MAX_NUM_FRAMES
          Threads,       \* ctx->threads
          MaxCalls       \* bound: calls made

\* A PBU is a frame, metadata or filler with good or bad content, access unit
\* information with the frames it lists, or broken.  Of a frame: its number;
\* what is wrong with its header; the tile sizes its header announces, none
\* when the header carries no sizes; the size each tile has; what does not fit
\* of the caller's image; whether all tiles decode; and whether what follows
\* the tiles is filler.
DecoderAssumption ==
  /\ MaxFrames \in Nat \ {0} /\ MaxCalls \in Nat /\ Limits \subseteq Nat
  /\ Threads \in Nat \ {0}
  /\ AccessUnits \subseteq Seq(Pbus) \ {<< >>}
  /\ \A p \in Pbus : p.kind = "FRAME" => /\ p.real \in Seq(Nat) \ {<< >>}
                                         /\ p.hdr \in Seq(Nat)
                                         /\ Len(p.hdr) \in {0, Len(p.real)}

NULL == 0

VARIABLES held,        \* what the instance has obtained and not given back
          pc,          \* where the call is; "none" without an instance
          call,        \* DECODE, FRAME or TILES
          given,       \* the PBUs of the call
          todo,        \* those not read yet
          limit,       \* ofrms->num_frms
          wanted,      \* the tiles asked for
          serial,      \* number of the call
          fh,          \* ctx->fh: the frame whose header was read last
          tile,        \* ctx->tile: the call each tile's dst belongs to
          tile_cap,    \* ctx->tile_cap
          num_tiles,   \* ctx->num_tiles
          pos_tiles,   \* ctx->pos_tiles
          pos_cap,     \* ctx->pos_tiles_cap
          imgb,        \* ctx->imgb
          refs,        \* the reference count of each of the caller's images
          use_hash,    \* ctx->use_frm_hash
          pix,         \* the frame each image holds, NULL if it is a mix
          md5,         \* the frame each image's hash was taken of
          unhashed,    \* history: the images decoded into whose hash was refused
          out,         \* the frames reported in ofrms and stat
          res          \* what the call returned

callVars == <<call, given, limit, wanted, serial>>
keptVars == <<tile, tile_cap, num_tiles, pos_tiles, pos_cap>>
imgVars  == <<imgb, refs, pix, md5, unhashed>>
vars == <<held, pc, callVars, todo, fh, keptVars, imgVars, use_hash, out, res>>

Image == 1..MaxFrames
Labels == {p.label : p \in {q \in Pbus : q.kind = "FRAME"}}

TypeOK ==
  /\ pc \in {"none", "idle", "pbu", "setup", "sizes", "hold", "tiles", "tail"}
  /\ call \in {"DECODE", "FRAME", "TILES"}
  /\ todo \in Seq(Pbus) /\ serial \in Nat
  /\ tile \in Seq(0..serial) /\ Len(tile) = tile_cap
  /\ pos_tiles \in Seq(Nat) /\ Len(pos_tiles) = pos_cap
  /\ imgb \in Image \cup {NULL} /\ refs \in [Image -> {0, 1}]
  /\ pix \in [Image -> Labels \cup {NULL}] /\ md5 \in [Image -> Labels \cup {NULL}]
  /\ unhashed \subseteq Image
  /\ out \in Seq(Labels) /\ Len(out) <= MaxFrames
  /\ res \in {"OK", "MALFORMED", "INVALID", "OOM", "MAX"}

Init == /\ held = {} /\ pc = "none" /\ call = "DECODE" /\ given = << >> /\ todo = << >>
        /\ limit = 0 /\ wanted = {} /\ serial = 0
        /\ fh = NULL /\ tile = << >> /\ tile_cap = 0 /\ num_tiles = 0
        /\ pos_tiles = << >> /\ pos_cap = 0
        /\ imgb = NULL /\ refs = [s \in Image |-> 0]
        /\ use_hash = FALSE
        /\ pix = [s \in Image |-> NULL] /\ md5 = [s \in Image |-> NULL]
        /\ unhashed = {}
        /\ out = << >> /\ res = "OK"

nfrms == Len(out)
Pbu == Head(todo)
Count == Len(fh.real)       \* the tiles of the frame in hand

----------------------------------------------------------------------------
(* The life of an instance                                                 *)

\* What oapvd_create and dec_ready obtain, in their order.
Order == <<<<"ctx", 0>>>> \o [c \in 1..Threads |-> <<"core", c>>] \o <<<<"sync_obj", 0>>>>
         \o IF Threads < 2 THEN << >>
            ELSE <<<<"tpool", 0>>>> \o [t \in 1..(Threads - 1) |-> <<"thread", t>>]

Obtained(k) == {Order[j] : j \in 1..k}

\* dec_flush: the threads are found by way of the pool.
Flushed(h) == {r \in h : \/ r[1] \in {"core", "sync_obj"}
                         \/ r[1] \in {"tpool", "thread"} /\ <<"tpool", 0>> \in h}

Freed(h) == h \ (Flushed(h) \cup {<<"ctx", 0>>})

Outside == <<call, limit, wanted, serial, refs, pix, md5, unhashed>>

Create == /\ pc = "none"
          /\ held' = Obtained(Len(Order)) /\ pc' = "idle" /\ res' = "OK"
          /\ given' = << >> /\ out' = << >>
          /\ UNCHANGED <<Outside, todo, fh, keptVars, imgb, use_hash>>

\* After k things the next one is not to be had.
CreateFails(k) ==
  /\ pc = "none"
  /\ held' = Freed(Obtained(k)) /\ res' = "OOM"
  /\ UNCHANGED <<pc, Outside, given, out, todo, fh, keptVars, imgb, use_hash>>

\* A new instance starts with cleared memory.
Delete == /\ pc = "idle"
          /\ held' = Freed(held) /\ pc' = "none"
          /\ fh' = NULL /\ tile' = << >> /\ tile_cap' = 0 /\ num_tiles' = 0
          /\ pos_tiles' = << >> /\ pos_cap' = 0 /\ imgb' = NULL /\ use_hash' = FALSE
          /\ UNCHANGED <<Outside, given, out, todo, res>>

----------------------------------------------------------------------------
(* The calls                                                               *)

Enter(c, pbus, k, w) ==
  /\ pc = "idle" /\ serial < MaxCalls
  /\ call' = c /\ given' = pbus /\ todo' = pbus /\ limit' = k /\ wanted' = w
  /\ serial' = serial + 1
  /\ out' = << >> /\ res' = "OK" /\ pc' = "pbu"
  /\ UNCHANGED <<held, fh, keptVars, imgVars, use_hash>>

Decode(au, k) == Enter("DECODE", au, k, {})
DecodeFrame(p) == Enter("FRAME", <<p>>, 1, {})
DecodeTiles(p, w) == p.kind = "FRAME" /\ w \subseteq DOMAIN p.real /\ w # {}
                     /\ Enter("TILES", <<p>>, 0, w)

\* oapvd_config(OAPV_CFG_SET_USE_FRM_HASH)
Config == /\ pc = "idle" /\ serial < MaxCalls
          /\ use_hash' = ~use_hash
          /\ UNCHANGED <<held, pc, callVars, todo, fh, keptVars, imgVars, out, res>>

\* goto ERR: nothing is undone there.
Fail(r) == pc' = "idle" /\ res' = r /\ todo' = << >>

Same == UNCHANGED <<held, callVars, use_hash, out>>

----------------------------------------------------------------------------
(* The loop over PBUs                                                      *)

\* The PBU's size or header cannot be read.
PbuBroken == /\ pc = "pbu" /\ todo # << >> /\ Pbu.kind = "BROKEN"
             /\ Fail("MALFORMED")
             /\ Same /\ UNCHANGED <<fh, keptVars, imgVars>>

\* The calls that decode one frame take nothing else.
NotAFrame == /\ pc = "pbu" /\ todo # << >> /\ Pbu.kind \in {"CONTENT", "AU_INFO"}
             /\ call # "DECODE" /\ Fail("INVALID")
             /\ Same /\ UNCHANGED <<fh, keptVars, imgVars>>

\* Metadata or filler is read to its end; access unit information is passed
\* over unread.
OtherPbu == /\ pc = "pbu" /\ todo # << >> /\ call = "DECODE"
            /\ \/ Pbu.kind = "CONTENT" /\ Pbu.good
               \/ Pbu.kind = "AU_INFO"
            /\ todo' = Tail(todo)
            /\ Same /\ UNCHANGED <<pc, res, fh, keptVars, imgVars>>

BadContent == /\ pc = "pbu" /\ todo # << >> /\ call = "DECODE"
              /\ Pbu.kind = "CONTENT" /\ ~Pbu.good /\ Fail("MALFORMED")
              /\ Same /\ UNCHANGED <<fh, keptVars, imgVars>>

NoRoomForFrame ==
  /\ pc = "pbu" /\ todo # << >> /\ Pbu.kind = "FRAME" /\ call = "DECODE"
  /\ \/ nfrms >= MaxFrames /\ Fail("MAX")
     \/ nfrms < MaxFrames /\ nfrms >= limit /\ Fail("INVALID")
  /\ Same /\ UNCHANGED <<fh, keptVars, imgVars>>

\* dec_vlc_tile_info: the sizes of header f go to array a if it can take all.
Collected(f, a, cap) == IF f.hdr # << >> /\ cap >= Len(f.hdr)
                        THEN [k \in DOMAIN a |-> IF k \in DOMAIN f.hdr THEN f.hdr[k] ELSE a[k]]
                        ELSE a

\* A header that is found to be bad may have left its sizes behind.
ReadHeader ==
  /\ pc = "pbu" /\ todo # << >> /\ Pbu.kind = "FRAME"
  /\ call = "DECODE" => nfrms < MaxFrames /\ nfrms < limit
  /\ fh' = Pbu
  /\ pos_tiles' = Collected(Pbu, pos_tiles, pos_cap)
  /\ IF Pbu.header = "bad" THEN Fail("MALFORMED")
     ELSE pc' = "setup" /\ UNCHANGED <<res, todo>>
  /\ Same /\ UNCHANGED <<tile, tile_cap, num_tiles, pos_cap, imgVars>>

AllRead == /\ pc = "pbu" /\ todo = << >>
           /\ pc' = "idle"
           /\ Same /\ UNCHANGED <<res, todo, fh, keptVars, imgVars>>

----------------------------------------------------------------------------
(* dec_frm_prepare, or dec_tiles_prepare                                   *)

\* The image's size or colour space is not the frame's.
SetupRejects == /\ pc = "setup" /\ fh.unfit = "image"
                /\ Fail("INVALID")
                /\ Same /\ UNCHANGED <<fh, keptVars, imgVars>>

\* The array is given up before a larger one is asked for.
CapKept(c) == c
CapCleared(c) == 0

SetupNoMemory ==
  /\ pc = "setup" /\ fh.unfit # "image" /\ Count > tile_cap
  /\ tile' = << >> /\ tile_cap' = CapCleared(tile_cap) /\ num_tiles' = Count
  /\ Fail("OOM")
  /\ Same /\ UNCHANGED <<fh, pos_tiles, pos_cap, imgVars>>

\* The destinations of an earlier call go; a selective decode sets its own,
\* up to the first that is found wrong.
Untouched(k) == k > Count

Arranged(own) ==
  [k \in IF Count > tile_cap THEN 1..Count ELSE DOMAIN tile |->
     IF k \in own THEN serial ELSE IF Untouched(k) THEN tile[k] ELSE NULL]

Setup ==
  /\ pc = "setup" /\ fh.unfit # "image"
  /\ tile_cap' = IF Count > tile_cap THEN Count ELSE tile_cap
  /\ num_tiles' = Count
  /\ \/ /\ tile' = Arranged(wanted)
        /\ pc' = "sizes" /\ UNCHANGED <<res, todo>>
     \/ /\ \E own \in SUBSET wanted : own # wanted /\ tile' = Arranged(own)
        /\ Fail("INVALID")
  /\ Same /\ UNCHANGED <<fh, pos_tiles, pos_cap, imgVars>>

\* dec_fh_tile_sizes
Grown == fh.hdr # << >> /\ num_tiles > pos_cap

SizesNoMemory ==
  /\ pc = "sizes" /\ Grown
  /\ pos_tiles' = << >> /\ pos_cap' = 0
  /\ Fail("OOM")
  /\ Same /\ UNCHANGED <<fh, tile, tile_cap, num_tiles, imgVars>>

\* The header is read again into the new array, whose cells hold anything.
ReadAgain(a, cap) == Collected(fh, a, cap)

Sizes ==
  /\ pc = "sizes"
  /\ IF Grown
     THEN \E junk \in 1..2 :
            /\ pos_tiles' = ReadAgain([k \in 1..num_tiles |-> junk], num_tiles)
            /\ pos_cap' = num_tiles
     ELSE UNCHANGED <<pos_tiles, pos_cap>>
  /\ pc' = IF call = "TILES" THEN "tiles" ELSE "hold"
  /\ Same /\ UNCHANGED <<res, todo, fh, tile, tile_cap, num_tiles, imgVars>>

\* The image's planes are too small, or its layout has no hash.
HoldRejects == /\ pc = "hold" /\ \/ fh.unfit = "planes"
                                 \/ fh.unfit = "layout" /\ use_hash
               /\ Fail("INVALID")
               /\ Same /\ UNCHANGED <<fh, keptVars, imgVars>>

Hold ==
  /\ pc = "hold" /\ fh.unfit # "planes" /\ ~(fh.unfit = "layout" /\ use_hash)
  /\ imgb' = nfrms + 1
  /\ refs' = [refs EXCEPT ![imgb'] = @ + 1]
  /\ pc' = "tiles"
  /\ Same /\ UNCHANGED <<res, todo, fh, keptVars, pix, md5, unhashed>>

----------------------------------------------------------------------------
(* The tiles, and what is done with them                                   *)

\* What the threads compare: the size in front of each tile and, if the
\* header has sizes, the one collected from there.
Agreed == fh.hdr # << >> => \A k \in 1..num_tiles : pos_tiles[k] = fh.real[k]
Decodes == fh.sound /\ Agreed

\* The image's hash is set, or what it was before is taken away.
HashLeft(ok) == IF ok /\ use_hash THEN fh.label ELSE md5[imgb]
Hash(ok) == IF ok /\ use_hash THEN fh.label ELSE NULL

\* dec_frm_finish is called whether or not the tiles were decoded.
ReleasedIfDone(ok) == IF ok THEN [refs EXCEPT ![imgb] = @ - 1] ELSE refs
Released(ok) == [refs EXCEPT ![imgb] = @ - 1]

\* oapv_imgb_set_md5 looks at the image as a whole, its aligned sizes and
\* spare planes included, at which nothing has looked before.
Inconsistent == Decodes /\ use_hash /\ fh.unfit = "extents"

FrameTiles ==
  /\ pc = "tiles" /\ call # "TILES" /\ ~Inconsistent
  /\ pix' = [pix EXCEPT ![imgb] = IF Decodes THEN fh.label ELSE NULL]
  /\ md5' = [md5 EXCEPT ![imgb] = Hash(Decodes)]
  /\ unhashed' = unhashed \ {imgb}
  /\ refs' = Released(Decodes) /\ imgb' = NULL
  /\ IF Decodes THEN pc' = "tail" /\ UNCHANGED <<res, todo>>
                ELSE Fail("MALFORMED")
  /\ Same /\ UNCHANGED <<fh, keptVars>>

\* The picture is there, under the hash the image had before.
HashRefused ==
  /\ pc = "tiles" /\ call # "TILES" /\ Inconsistent
  /\ pix' = [pix EXCEPT ![imgb] = fh.label]
  /\ unhashed' = unhashed \cup {imgb}
  /\ refs' = Released(TRUE) /\ imgb' = NULL
  /\ Fail("INVALID")
  /\ Same /\ UNCHANGED <<fh, keptVars, md5>>

\* The frame is reported, and the PBU must end with filler.  oapvd_decode
\* reports it first.
ReportedFirst(o) == <<fh.label>> \o o
Reported(o) == Append(o, fh.label)

FrameTail ==
  /\ pc = "tail"
  /\ out' = IF call = "DECODE" \/ fh.filler THEN Reported(out) ELSE out
  /\ IF fh.filler THEN todo' = Tail(todo) /\ pc' = "pbu" /\ UNCHANGED res
                  ELSE Fail("MALFORMED")
  /\ UNCHANGED <<held, callVars, use_hash, fh, keptVars, imgVars>>

\* oapvd_decode_tiles returns what its threads return.  What is wrong with a
\* tile that is not wanted need not be noticed.
WantedTiles ==
  /\ pc = "tiles" /\ call = "TILES"
  /\ \/ pc' = "idle" /\ todo' = << >> /\ UNCHANGED res
     \/ ~Decodes /\ Fail("MALFORMED")
  /\ Same /\ UNCHANGED <<fh, keptVars, imgVars>>

----------------------------------------------------------------------------
(* oapvd_info: the first access unit information, if there is any, is all  *)
(* it reports, and what follows is not read.  Otherwise it is every frame, *)
(* by its header alone.                                                    *)

\* FramesTo(pbus)[n] are the frames among the first n PBUs.
FramesTo(pbus) ==
  LET f[n \in 0..Len(pbus)] == IF n = 0 THEN << >>
                               ELSE IF pbus[n].kind = "FRAME" THEN Append(f[n - 1], pbus[n])
                               ELSE f[n - 1]
  IN  f

FramesOf(pbus) == FramesTo(pbus)[Len(pbus)]

Labelled(pbus) == LET fs == FramesOf(pbus) IN [k \in DOMAIN fs |-> fs[k].label]

Announced(frms) == [ok |-> TRUE, frms |-> frms]
NoInfo == [ok |-> FALSE]

AuInfo(p) == IF p.good THEN Announced(p.lists) ELSE NoInfo

Info(pbus) ==
  LET at    == SelectInSeq(pbus, LAMBDA p : p.kind = "AU_INFO")
      front == IF at = 0 THEN pbus ELSE SubSeq(pbus, 1, at - 1)
      bad   == \/ \E p \in Range(front) : \/ p.kind = "BROKEN"
                                          \/ p.kind = "FRAME" /\ p.header = "bad"
               \/ Len(Labelled(front)) > MaxFrames
  IN  IF bad THEN NoInfo
      ELSE IF at # 0 THEN AuInfo(pbus[at]) ELSE Announced(Labelled(pbus))

----------------------------------------------------------------------------

Next == \/ Create \/ Delete \/ \E k \in 0..(Len(Order) - 1) : CreateFails(k)
        \/ \E au \in AccessUnits, k \in Limits : Decode(au, k)
        \/ \E p \in Pbus : DecodeFrame(p)
        \/ \E p \in Pbus : p.kind = "FRAME" /\
             \E w \in SUBSET DOMAIN p.real : DecodeTiles(p, w)
        \/ Config
        \/ PbuBroken \/ NotAFrame \/ OtherPbu \/ BadContent \/ NoRoomForFrame \/ ReadHeader \/ AllRead
        \/ SetupRejects \/ SetupNoMemory \/ Setup
        \/ SizesNoMemory \/ Sizes \/ HoldRejects \/ Hold
        \/ FrameTiles \/ HashRefused \/ FrameTail \/ WantedTiles

Spec == Init /\ [][Next]_vars

----------------------------------------------------------------------------
(* Properties                                                              *)

\* What the threads are given belongs to this frame and to this call.  Both
\* arrays have a cell for every tile, whatever allocation failed earlier.  The
\* sizes they compare with are those of this frame's header, not what another
\* frame, or a header that was given up, left behind.  No tile is written to a
\* destination of an earlier call, whose memory the caller may have freed, and
\* a whole frame goes to the caller's image alone.
ArraysCover ==
  /\ num_tiles = Count /\ num_tiles <= Len(tile)
  /\ fh.hdr # << >> => num_tiles <= Len(pos_tiles)

SizesAreThisFrames ==
  fh.hdr # << >> => \A k \in 1..num_tiles : pos_tiles[k] = fh.hdr[k]

DstIsThisCalls ==
  \A k \in 1..num_tiles :
    tile[k] = IF call = "TILES" /\ k \in wanted THEN serial ELSE NULL

NothingStale ==
  /\ TypeOK
  /\ pc = "tiles" => ArraysCover /\ SizesAreThisFrames /\ DstIsThisCalls

\* An image is held exactly while it is decoded into: no return, with or
\* without success, leaves a reference behind or drops one too many.  And an
\* instance that could not be created, or was deleted, leaves nothing behind:
\* no thread, no core, no lock, however far its creation had come.
RefsBalanced ==
  /\ held = IF pc = "none" THEN {} ELSE Range(Order)
  /\ \A s \in Image : refs[s] = IF imgb = s THEN 1 ELSE 0
  /\ pc \in {"none", "idle"} => imgb = NULL

\* A hash an image carries is that of the frame it holds, also after a decode
\* into the same image failed half way; but not when taking the hash was what
\* failed.  Of a frame that is reported the hash was not refused: its image
\* carries one exactly if hashes are asked for.
HashIsThePictures ==
  /\ \A s \in Image \ unhashed : md5[s] # NULL => md5[s] = pix[s]
  /\ \A k \in DOMAIN out :
       /\ k \notin unhashed
       /\ pc \notin {"none", "idle"} => md5[k] = IF use_hash THEN out[k] ELSE NULL

GivenFrames == FramesOf(given)

\* A call that reports success read every PBU, and reports their frames in
\* their order; each was sound, and its header told the truth.  These are the
\* frames oapvd_info announced, by which an application provides the images,
\* unless the access unit information, which a decode does not read, is wrong.
SuccessIsWholeUnit ==
  pc = "idle" /\ res = "OK" /\ call # "TILES" /\ serial > 0 =>
    /\ out = [k \in DOMAIN GivenFrames |-> GivenFrames[k].label]
    /\ (\A p \in Range(given) : p.kind = "AU_INFO" => p.good /\ p.lists = out)
         => Info(given) = Announced(out)
    /\ \A k \in DOMAIN GivenFrames :
         /\ GivenFrames[k].sound /\ GivenFrames[k].filler
         /\ GivenFrames[k].hdr \in {<< >>, GivenFrames[k].real}
         /\ pix[k] = GivenFrames[k].label
=============================================================================
