------------------------------ MODULE Encoder ------------------------------
(***************************************************************************)
(* An encoder instance from oapve_create to oapve_delete (src/oapv.c):     *)
(* oapve_encode with its loop over the frames of an access unit and over   *)
(* the groups of the metadata container.  Calls share the tile array,      *)
(* which grows on demand and may fail to, the images that are held while   *)
(* they are coded, and the rate-control state, of which every frame slot   *)
(* has its own that is loaded and saved around the frame.                  *)
(*                                                                         *)
(* Threads are left to EncTiles: here enc_frame is one step that succeeds  *)
(* or not.  Room and sizes are bytes, because the writer looks at the last *)
(* eight of the output in several ways (BsWriter).                         *)
(***************************************************************************)
EXTENDS Integers, SequencesExt

CONSTANTS Frames,        \* the frames a caller may ask to encode
          AccessUnits,   \* the sequences of them it passes
          Rooms,         \* the sizes of the output buffer
          Images,        \* the caller's images
          Groups,        \* group ids of metadata
          Payloads,      \* sizes of the caller's payloads in a group, each
                         \* with its type and size
          HashSize,      \* the size of a hash payload, with its type and size
          MaxFrms,       \* cdesc.max_num_frms
          MaxMetas,      \* OAPV_MAX_NUM_METAS
          Threads,       \* ctx->threads
          MaxCalls       \* bound: calls made

\* A frame: the picture, its group and its image, the image for the
\* reconstruction or NULL, the tiles it is cut into, the bytes its header and
\* tiles are coded in, where enc_frm_prepare rejects it, and whether its type has a hash and
\* its parameters ask for rate control.
NULL == "NULL"

EncoderAssumption ==
  /\ MaxFrms \in Nat \ {0} /\ MaxMetas \in Nat /\ MaxCalls \in Nat
  /\ Threads \in Nat \ {0}
  /\ Rooms \subseteq Nat /\ NULL \notin Images
  /\ Payloads \subseteq Nat /\ HashSize \in Nat
  /\ AccessUnits \subseteq Seq(Frames) \ {<< >>}
  /\ \A f \in Frames : /\ f.imgb \in Images /\ f.rec \in Images \cup {NULL}
                       /\ f.imgb # f.rec /\ f.group \in Groups
                       /\ f.tiles \in Nat \ {0} /\ f.size \in Nat \ {0}
                       /\ f.unfit \in {"no", "early", "late"}

VARIABLES held,       \* what the instance has obtained and not given back
          pc,         \* where the call is; "none" without an instance
          frms,       \* ifrms and rfrms
          room,       \* bitb->bsize
          serial,     \* number of the call
          i,          \* the frame, or metadata group, in hand
          cur,        \* bytes written, up to the PBU in hand
          au,         \* the PBUs written, with the bytes of them that were lost
          au_size,    \* the size in front of them
          stat,       \* stat->frm_size
          mid,        \* the metadata container: of each group its hash and
                      \* the size of the caller's payloads
          imgb_i,     \* ctx->imgb_i while it is held
          imgb_r,     \* ctx->imgb_r
          refs,       \* the reference count of each of the caller's images
          pix,        \* the picture each image holds, NULL if it is a mix
          tile,       \* the cells of ctx->tile
          tile_cap,   \* ctx->tile_cap
          rc,         \* ctx->rc_param: the pictures it has learned from
          rc_frm,     \* ctx->rc_param_frm
          coded,      \* history: the pictures coded in each slot under rate control
          use_hash,   \* ctx->use_frm_hash
          rbau,       \* ctx->au_bs_fmt = OAPV_CFG_VAL_AU_BS_FMT_RBAU
          res         \* what the call returned

callVars == <<held, frms, room, serial>>
outVars  == <<cur, au, au_size, stat>>
imgVars  == <<imgb_i, imgb_r, refs, pix>>
rcVars   == <<rc, rc_frm, coded>>
tileVars == <<tile, tile_cap>>
cfgVars  == <<use_hash, rbau>>
vars == <<pc, callVars, i, outVars, mid, imgVars, tileVars, rcVars, cfgVars, res>>

Slot == 1..MaxFrms
Pics == {f.pic : f \in Frames}

TypeOK ==
  /\ pc \in {"none", "idle", "prepare", "code", "save", "hash", "meta"}
  /\ frms \in Seq(Frames) /\ room \in Nat /\ i \in Nat \ {0}
  /\ cur \in 0..room
  /\ au \in Seq([what : Pics \cup {NULL}, group : Groups, beg : 0..cur, size : -4..cur,
                lost : Nat])
  /\ Len(au) <= MaxFrms + MaxMetas
  /\ stat \in Seq(0..cur) /\ au_size \in -4..room
  /\ mid \in Seq([group : Groups, hash : Pics \cup {NULL}, other : Nat]) /\ Len(mid) <= MaxMetas
  /\ imgb_i \in Images \cup {NULL} /\ imgb_r \in Images \cup {NULL}
  /\ refs \in [Images -> 0..1] /\ pix \in [Images -> Pics \cup {NULL}]
  /\ tile \in Nat /\ tile = tile_cap
  /\ rc \in Seq(Pics) /\ rc_frm \in [Slot -> Seq(Pics)] /\ coded \in [Slot -> Seq(Pics)]
  /\ use_hash \in [Slot -> BOOLEAN] /\ rbau \in BOOLEAN

Init == /\ held = {} /\ pc = "none" /\ frms = << >> /\ room = 0 /\ serial = 0 /\ i = 1
        /\ cur = 0 /\ au = << >> /\ au_size = 0 /\ stat = << >>
        /\ mid = << >>
        /\ refs = [m \in Images |-> 0] /\ pix = [m \in Images |-> NULL]
        /\ imgb_i = NULL /\ imgb_r = NULL
        /\ tile = 0 /\ tile_cap = 0
        /\ rc = << >> /\ rc_frm = [s \in Slot |-> << >>]
        /\ coded = [s \in Slot |-> << >>]
        /\ use_hash = [s \in Slot |-> FALSE] /\ rbau = TRUE
        /\ res = "OK"

frm == frms[i]

----------------------------------------------------------------------------
(* The life of an instance                                                 *)

\* What oapve_create and enc_ready obtain, in their order.
Order == <<<<"ctx", 0>>>> \o [c \in 1..Threads |-> <<"core", c>>] \o <<<<"sync_obj", 0>>>>
         \o (IF Threads < 2 THEN << >>
             ELSE <<<<"tpool", 0>>>> \o [t \in 1..(Threads - 1) |-> <<"thread", t>>])
         \o <<<<"bs_buf", 0>>>>

Obtained(k) == {Order[j] : j \in 1..k}

\* enc_flush: the threads are found by way of the pool.
Flushed(h) == {r \in h : \/ r[1] \in {"core", "sync_obj", "bs_buf"}
                         \/ r[1] \in {"tpool", "thread"} /\ <<"tpool", 0>> \in h}

Freed(h) == h \ (Flushed(h) \cup {<<"ctx", 0>>})

Outside == <<frms, room, serial, i, outVars, mid, refs, pix>>

Create == /\ pc = "none"
          /\ held' = Obtained(Len(Order)) /\ pc' = "idle"
          /\ res' = "OK"
          /\ UNCHANGED <<Outside, tileVars, rcVars, cfgVars, imgb_i, imgb_r>>

\* After k things the next one is not to be had, or the parameters are bad.
CreateFails(k) ==
  /\ pc = "none"
  /\ held' = Freed(Obtained(k)) /\ res' \in {"OOM"} \cup (IF k = 1 THEN {"INVALID"} ELSE {})
  /\ UNCHANGED <<pc, Outside, tileVars, rcVars, cfgVars, imgb_i, imgb_r>>

\* A new instance starts with cleared memory and the default settings.
Delete == /\ pc = "idle"
          /\ held' = Freed(held) /\ pc' = "none"
          /\ tile' = 0 /\ tile_cap' = 0
          /\ rc' = << >> /\ rc_frm' = [s \in Slot |-> << >>]
          /\ coded' = [s \in Slot |-> << >>]
          /\ use_hash' = [s \in Slot |-> FALSE] /\ rbau' = TRUE
          /\ imgb_i' = NULL /\ imgb_r' = NULL
          /\ UNCHANGED <<Outside, res>>

----------------------------------------------------------------------------
(* The caller between calls                                                *)

Between == pc = "idle" /\ serial < MaxCalls

\* oapve_config(OAPV_CFG_SET_AU_BS_FMT) and (OAPV_CFG_SET_USE_FRM_HASH)
ConfigFmt == /\ Between /\ rbau' = ~rbau
             /\ UNCHANGED <<pc, callVars, i, outVars, mid, imgVars, tileVars, rcVars, use_hash, res>>

ConfigHash(s) ==
  /\ Between /\ use_hash' = [use_hash EXCEPT ![s] = ~@]
  /\ UNCHANGED <<pc, callVars, i, outVars, mid, imgVars, tileVars, rcVars, rbau, res>>

\* oapvm_set of some payload in a new group, and oapvm_rem_all.
FillMetadata(g, n) ==
  /\ Between /\ Len(mid) < MaxMetas /\ \A k \in DOMAIN mid : mid[k].group # g
  /\ mid' = Append(mid, [group |-> g, hash |-> NULL, other |-> n])
  /\ UNCHANGED <<pc, callVars, i, outVars, imgVars, tileVars, rcVars, cfgVars, res>>

ClearMetadata ==
  /\ Between /\ mid # << >> /\ mid' = << >>
  /\ UNCHANGED <<pc, callVars, i, outVars, imgVars, tileVars, rcVars, cfgVars, res>>

----------------------------------------------------------------------------
(* The call                                                                *)

\* A frame whose hash is asked for needs an image to take it of.
Acceptable(fs) ==
  /\ Len(fs) <= MaxFrms
  /\ \A k \in DOMAIN fs : use_hash[k] /\ fs[k].hashed => fs[k].rec # NULL

\* What is refused leaves everything as it was, stat included.
Refused(fs) ==
  /\ Between /\ ~Acceptable(fs)
  /\ serial' = serial + 1 /\ res' = "INVALID"
  /\ UNCHANGED <<held, pc, frms, room, i, outVars, mid, imgVars, tileVars, rcVars, cfgVars>>

\* A size to be filled in later, and the signature.  Where they do not fit
\* no frame does either.
AuHead == IF rbau THEN 8 ELSE 4

Encode(fs, bsize) ==
  /\ Between /\ Acceptable(fs)
  /\ frms' = fs /\ room' = bsize /\ serial' = serial + 1
  /\ i' = 1 /\ cur' = (IF AuHead <= bsize THEN AuHead ELSE 0) /\ au' = << >> /\ au_size' = 0 /\ stat' = << >>
  /\ pc' = "prepare" /\ res' = "OK"
  /\ UNCHANGED <<held, mid, imgVars, tileVars, rcVars, cfgVars>>

Fail(r) == pc' = "idle" /\ res' = r

----------------------------------------------------------------------------
(* enc_frm_prepare: what it finds wrong is returned as it is.              *)

Preparing == pc = "prepare" /\ i <= Len(frms)

PrepareRejects ==
  /\ Preparing /\ frm.unfit = "early"
  /\ Fail("INVALID")
  /\ UNCHANGED <<callVars, i, outVars, mid, imgVars, tileVars, rcVars, cfgVars>>

CapKept(c) == c
CapCleared(c) == 0

PrepareNoMemory ==
  /\ Preparing /\ frm.unfit # "early" /\ frm.tiles > tile_cap
  /\ tile' = 0 /\ tile_cap' = CapCleared(tile_cap)
  /\ Fail("OOM")
  /\ UNCHANGED <<callVars, i, outVars, mid, imgVars, rcVars, cfgVars>>

Grown == IF frm.tiles > tile_cap THEN tile' = frm.tiles /\ tile_cap' = frm.tiles
                                ELSE UNCHANGED tileVars

\* A tile's share of the buffer, or the image for the reconstruction, is too
\* small.
PrepareRejectsLate ==
  /\ Preparing /\ frm.unfit = "late"
  /\ Grown
  /\ Fail("OUT_OF_BS_BUF")
  /\ UNCHANGED <<callVars, i, outVars, mid, imgVars, rcVars, cfgVars>>

\* The images are held, and the slot's rate-control state is loaded.
LoadNothing(s) == rc
Loaded(s) == rc_frm[s]

Held == {frm.imgb, frm.rec} \ {NULL}

Prepared ==
  /\ Preparing /\ frm.unfit = "no"
  /\ Grown
  /\ imgb_i' = frm.imgb
  /\ imgb_r' = IF frm.rec = NULL THEN imgb_r ELSE frm.rec
  /\ refs' = [m \in Images |-> IF m \in Held THEN refs[m] + 1 ELSE refs[m]]
  /\ rc' = Loaded(i)
  /\ pc' = "code"
  /\ UNCHANGED <<callVars, i, outVars, mid, pix, rc_frm, coded, cfgVars, res>>

----------------------------------------------------------------------------
(* enc_frame, and what follows it                                          *)

\* enc_frm_finish
ReconKept == imgb_r
ReconForgotten == NULL

Finished ==
  /\ refs' = [m \in Images |-> IF m \in {imgb_i, imgb_r} THEN refs[m] - 1 ELSE refs[m]]
  /\ imgb_i' = NULL /\ imgb_r' = ReconForgotten

\* The header, a tile or the output overflows, or a thread is lost.
FrameFails ==
  /\ pc = "code"
  /\ pix' = [m \in Images |-> IF m = imgb_r THEN NULL ELSE pix[m]]
  /\ Finished /\ Fail("FAILED")
  /\ UNCHANGED <<callVars, i, outVars, mid, tileVars, rcVars, cfgVars>>

\* A size and a header.
PbuHead == 8
FrameEnd == cur + PbuHead + frm.size

Learned == IF frm.rc THEN Append(rc, frm.pic) ELSE rc

\* Header and tiles are in the output, which they may fill to its end, and
\* rate control has learned from the picture.
FrameCoded ==
  /\ pc = "code" /\ FrameEnd <= room
  /\ pix' = [m \in Images |-> IF m = imgb_r THEN frm.pic ELSE pix[m]]
  /\ rc' = Learned
  /\ coded' = IF frm.rc THEN [coded EXCEPT ![i] = Append(@, frm.pic)] ELSE coded
  /\ pc' = "save"
  /\ UNCHANGED <<callVars, i, outVars, mid, imgb_i, imgb_r, refs, tileVars, rc_frm, cfgVars, res>>

\* The slot's rate-control state is saved before it is known whether the size
\* of the PBU can be written: a sink wants one byte more than there is to sink.
Saved == [rc_frm EXCEPT ![i] = rc]

FrameFills ==
  /\ pc = "save" /\ FrameEnd >= room
  /\ rc_frm' = Saved
  /\ Finished /\ Fail("OUT_OF_BS_BUF")
  /\ UNCHANGED <<callVars, i, outVars, mid, pix, tileVars, rc, coded, cfgVars>>

\* pbu_size does not count itself.
WithItself(n) == n
PbuSize(n) == n - 4

FrameSized ==
  /\ pc = "save" /\ FrameEnd < room
  /\ rc_frm' = Saved
  /\ cur' = FrameEnd
  /\ au' = Append(au, [what |-> frm.pic, group |-> frm.group, beg |-> cur,
                       size |-> PbuSize(cur' - cur), lost |-> 0])
  /\ stat' = Append(stat, PbuSize(cur' - cur))
  /\ pc' = "hash"
  /\ UNCHANGED <<callVars, i, au_size, mid, imgVars, tileVars, rc, coded, cfgVars, res>>

Wanted == use_hash[i] /\ frm.hashed
InGroup == {k \in DOMAIN mid : mid[k].group = frm.group}

\* oapv_set_md5_pld: the hash replaces an earlier one of the group.
HashAdded(h) == IF InGroup # {} THEN mid
                ELSE Append(mid, [group |-> frm.group, hash |-> h, other |-> 0])
HashSet(h) == IF InGroup = {} THEN Append(mid, [group |-> frm.group, hash |-> h, other |-> 0])
              ELSE [k \in DOMAIN mid |-> IF k \in InGroup THEN [mid[k] EXCEPT !.hash = h] ELSE mid[k]]

HashFails ==
  /\ pc = "hash" /\ Wanted
  /\ Finished /\ Fail("OOM")
  /\ UNCHANGED <<callVars, i, outVars, mid, pix, tileVars, rcVars, cfgVars>>

FrameDone ==
  /\ pc = "hash"
  /\ IF Wanted THEN /\ InGroup = {} => Len(mid) < MaxMetas
                    /\ mid' = HashSet(pix[imgb_r])
               ELSE UNCHANGED mid
  /\ Finished
  /\ IF i < Len(frms) THEN i' = i + 1 /\ pc' = "prepare" ELSE i' = 1 /\ pc' = "meta"
  /\ UNCHANGED <<callVars, outVars, pix, tileVars, rcVars, cfgVars, res>>

----------------------------------------------------------------------------
(* The metadata, a PBU for each group, and the end                         *)

\* Behind the head of the PBU, the size of the metadata and the payloads.
Body == 4 + mid[i].other + (IF mid[i].hash = NULL THEN 0 ELSE HashSize)

\* The register goes to the output eight bytes at a time.  Where eight do not
\* fit they are dropped and writing goes on (BsWriter): all of the head, then
\* what it can hold of the body, and in any case the bytes behind the last
\* full register.
Left == room - cur
HeadIn == IF Left >= PbuHead THEN PbuHead ELSE 0
FullIn == LET full == Body \div 8
              fit  == (Left - HeadIn) \div 8
          IN  8 * (IF full <= fit THEN full ELSE fit)
BytesIn == HeadIn + FullIn + (Body % 8)

\* Only the size written into the body, and the sink behind it, may notice.
Unnoticed == Left - HeadIn >= 4 /\ BytesIn < Left

MetaPbu(lost) ==
  /\ cur' = cur + BytesIn
  /\ au' = Append(au, [what |-> IF lost = 0 THEN mid[i].hash ELSE NULL,
                       group |-> mid[i].group, beg |-> cur,
                       size |-> PbuSize(BytesIn), lost |-> lost])
  /\ i' = i + 1
  /\ UNCHANGED <<pc, callVars, au_size, stat, mid, imgVars, tileVars, rcVars, cfgVars, res>>

MetaWritten == /\ pc = "meta" /\ i <= Len(mid) /\ Unnoticed /\ BytesIn = PbuHead + Body
               /\ MetaPbu(0)

MetaCut == /\ pc = "meta" /\ i <= Len(mid) /\ Unnoticed /\ BytesIn < PbuHead + Body
           /\ MetaPbu(PbuHead + Body - BytesIn)

MetaFails == /\ pc = "meta" /\ i <= Len(mid) /\ ~Unnoticed
             /\ Fail("OUT_OF_BS_BUF")
             /\ UNCHANGED <<callVars, i, outVars, mid, imgVars, tileVars, rcVars, cfgVars>>

\* A byte of the output at least is left, so that this size can be written.
EncodeDone ==
  /\ pc = "meta" /\ i > Len(mid)
  /\ au_size' = IF rbau THEN PbuSize(cur) ELSE au_size
  /\ pc' = "idle"
  /\ UNCHANGED <<callVars, i, cur, au, stat, mid, imgVars, tileVars, rcVars, cfgVars, res>>

Next == \/ Create \/ Delete \/ \E k \in 0..(Len(Order) - 1) : CreateFails(k)
        \/ ConfigFmt \/ ClearMetadata
        \/ \E s \in Slot : ConfigHash(s)
        \/ \E g \in Groups, n \in Payloads : FillMetadata(g, n)
        \/ \E fs \in AccessUnits : Refused(fs)
        \/ \E fs \in AccessUnits, n \in Rooms : Encode(fs, n)
        \/ PrepareRejects \/ PrepareNoMemory \/ PrepareRejectsLate \/ Prepared
        \/ FrameFails \/ FrameCoded \/ FrameFills \/ FrameSized \/ HashFails \/ FrameDone
        \/ MetaWritten \/ MetaFails \/ MetaCut \/ EncodeDone

Spec == Init /\ [][Next]_vars

----------------------------------------------------------------------------
(* Properties                                                              *)

\* An image is held exactly while its frame is coded: no return, with or
\* without success, leaves a reference behind or drops one too many.  And an
\* instance that could not be created, or was deleted, leaves nothing behind:
\* no thread, no core, no lock, however far its creation had come.
RefsBalanced ==
  /\ held = IF pc = "none" THEN {} ELSE Range(Order)
  /\ \A m \in Images : refs[m] = IF pc \in {"code", "save", "hash"} /\ m \in Held THEN 1 ELSE 0

\* What a frame is coded with is its own: the tile array has a cell for each
\* of its tiles, whatever allocation failed before, and the reconstruction
\* goes to the image given with this frame, nowhere if none was, and never to
\* the image of an earlier frame.
NothingStale ==
  /\ TypeOK
  /\ pc = "code" => frm.tiles <= tile
  /\ pc \in {"code", "save", "hash"} => imgb_r = frm.rec

\* What rate control has learned in a slot comes from the frames coded in
\* that slot, each of them once, in their order: neither another frame of the
\* access unit nor one whose coding failed leaves a trace in it.  A frame that
\* was coded does, also when the call fails afterwards, for want of the one
\* byte behind it or in a later frame.
RcStaysWithSlot ==
  coded = IF pc = "save" THEN [rc_frm EXCEPT ![i] = rc] ELSE rc_frm

\* The call is about to return success.
Returning == pc = "meta" /\ i > Len(mid)

\* A reader steps from one PBU to the next by its size, which must be that of
\* a header at least, and finds it if nothing of it was lost.
NextAt(k) == au[k].beg + 4 + au[k].size
Found(k) == /\ au[k].size >= 4 /\ au[k].lost = 0
            /\ NextAt(k) = IF k < Len(au) THEN au[k + 1].beg ELSE cur

\* In an access unit that is returned as a success a reader finds all frames
\* in their order, with the sizes that stat tells.  It finds a PBU for each
\* group of the container as well, with what the group holds, and then the
\* end, unless less than a register of eight bytes is left of the output; then
\* the last groups may be lost, though none in front of one that is found.
\* The size in front of the access unit, where there is one, spans it.
SizesLeadThrough ==
  /\ Returning =>
       /\ Len(au) = Len(frms) + Len(mid) /\ Len(stat) = Len(frms)
       /\ \A k \in DOMAIN frms :
            Found(k) /\ au[k].what = frms[k].pic /\ stat[k] = au[k].size
       /\ \A k \in DOMAIN mid :
            LET pbu == au[Len(frms) + k]
            IN  /\ pbu.group = mid[k].group
                /\ \/ Found(Len(frms) + k) /\ pbu.what = mid[k].hash
                   \/ room < cur + 8 /\ \A n \in k..Len(mid) : ~Found(Len(frms) + n)
  /\ au_size # 0 => au_size + 4 = cur

\* Where a slot's hash is asked for, the access unit has metadata in the
\* frame's group with the hash of what the frame was reconstructed to, also
\* when the container still holds the hash of an earlier access unit.  Of
\* several such frames in one group it is the last, whose hash replaces those
\* of the others.  It may be lost where a register no longer fits.
Hashed(k) == use_hash[k] /\ frms[k].hashed
LastHashed(k) == Hashed(k) /\ \A n \in DOMAIN frms : n > k /\ Hashed(n) => frms[n].group # frms[k].group

HashIsTheFrames ==
  Returning => \A k \in DOMAIN frms : LastHashed(k) =>
    \E n \in DOMAIN au : /\ n > Len(frms) /\ au[n].group = frms[k].group
                         /\ \/ Found(n) /\ au[n].what = frms[k].pic
                            \/ room < cur + 8 /\ ~Found(n)
=============================================================================
