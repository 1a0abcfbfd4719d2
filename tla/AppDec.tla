------------------------------- MODULE AppDec -------------------------------
(***************************************************************************)
(* The decoder program (oapv_app_dec.c) with both of its decoding loops:   *)
(* API set 0 reads an access unit and decodes it as a whole, API set 1     *)
(* reads PBU by PBU and decodes primary frames, whole or some tiles of     *)
(* each in turn.  Decoded pictures go through an image of the depth asked  *)
(* for into a video file.  Whatever it allocates may fail, and so may the  *)
(* library.                                                                *)
(*                                                                         *)
(* An access unit of the file is [size, sig, short, pbus]: its size field, *)
(* whether the signature is right, whether the file ends before it does.   *)
(* A PBU is [type, gid, frm, list, hash]: a frame, the frames an AU_INFO   *)
(* lists, or metadata: the hash of the frame at that place (0: of another  *)
(* picture), or something else (-1).  A frame is                           *)
(* [w, cf, depth, comp, cols, n, good]: comp says it is of a 16C12 profile *)
(* (use_companding), n its tiles, good how much of it is intact.           *)
(***************************************************************************)
EXTENDS AppIO, Args, FiniteSets

CONSTANTS NoFile, MaxFrames      \* OAPV_MAX_NUM_FRAMES

VARIABLES
  cmd,       \* the words of the command line
  stream,    \* the access units of the input file
  pc,        \* the stage of the program
  ret,       \* what it will return
  arg,       \* args_var: the value of each option
  held,      \* what is allocated or open, images apart
  nimg,      \* images created and not released
  imgs,      \* ofrms.frm[].imgb; the first is imgb_dec in API set 1
  imgb_w,    \* the image pictures are converted into (imgb_tmp)
  num_frms,  \* ofrms.num_frms
  mid,       \* the container's payloads: [gid, hash, of]
  frm_cnt,   \* pictures written, by the place in the access unit
  au_cnt,
  pos,       \* access units read, whole or not
  at,        \* the PBU or the picture at hand within the unit
  out,       \* the video file written, or NoFile
  verdicts,  \* what was said of each picture's hash: [of, says]
  quiet      \* why the program stopped early without an error, or ""

files == <<cmd, stream>>
setup == <<arg, held>>
images == <<nimg, imgs, imgb_w, num_frms>>
count == <<frm_cnt, au_cnt>>
vars  == <<files, pc, ret, setup, images, mid, count, pos, at, out, verdicts, quiet>>

Slots == 1..MaxFrames

Table ==
  [input  |-> Option("i", "string", TRUE, ""),
   output |-> Option("o", "string", FALSE, ""),
   max    |-> Option(NoKey, "integer", FALSE, 0),
   hash   |-> Option(NoKey, "none", FALSE, 0),
   depth  |-> Option("d", "integer", FALSE, 0),
   csp    |-> Option(NoKey, "integer", FALSE, 0),
   plain  |-> Option(NoKey, "none", FALSE, 0),     \* --disable-companding
   api    |-> Option(NoKey, "integer", FALSE, 0),
   cyclic |-> Option(NoKey, "integer", FALSE, 0),
   threads |-> Option("m", "string", FALSE, "auto")]

Init ==
  /\ pc = "start" /\ ret = 0
  /\ arg = <<>> /\ held = {} /\ nimg = 0
  /\ imgs = [i \in Slots |-> NoImage] /\ imgb_w = NoImage /\ num_frms = 0
  /\ mid = {}
  /\ frm_cnt = [i \in Slots |-> 0] /\ au_cnt = 0
  /\ pos = 0 /\ at = 0
  /\ out = NoFile /\ verdicts = {} /\ quiet = ""

----------------------------------------------------------------------------
(* main                                                                    *)

\* Errors of main and of a decoding loop end where each cleans up.
MainError == pc' = "main_ERR" /\ ret' = -1
Error     == pc' = "ERR" /\ ret' = -1

Help ==
  /\ pc = "start"
  /\ AsksHelp(cmd)
  /\ pc' = "exit"
  /\ UNCHANGED <<files, ret, setup, images, mid, count, pos, at, out, verdicts, quiet>>

CyclicFits(opts) ==
  opts.cyclic.flag => opts.cyclic.val > 0 /\ opts.api.val = 1

Parsing(p) ==
  /\ pc = "start" /\ ~AsksHelp(cmd)
  /\ held' = held \cup {"args", "args_var"}
  /\ arg' = IF p.ok THEN [k \in DOMAIN Table |-> p.opts[k].val] ELSE arg
  /\ IF p.ok /\ MandatorySet(p.opts) /\ CyclicFits(p.opts)
     THEN pc' = "open" /\ ret' = ret ELSE MainError
  /\ UNCHANGED <<files, images, mid, count, pos, at, out, verdicts, quiet>>

ParseArgs == Parsing(Parse(Table, cmd))

\* A number of API set that is none is only logged.
Called == pc' = (IF arg.api \in {0, 1} THEN "create" ELSE "main_ERR")

OpenFiles ==
  /\ pc = "open"
  /\ IF arg.input \notin DOMAIN Ext
     THEN MainError /\ UNCHANGED <<held, out>>
     ELSE /\ held' = held \cup {"fp"}
          /\ IF arg.output = "" THEN Called /\ UNCHANGED <<ret, out>>
             ELSE IF NameType(arg.output) < 0 THEN MainError /\ out' = out
             ELSE Called /\ ret' = NameType(arg.output) /\ out' = Empty
  /\ quiet' = IF pc' = "main_ERR" /\ ret' # -1 THEN "api" ELSE quiet
  /\ UNCHANGED <<files, arg, images, mid, count, pos, at, verdicts>>

\* The decoder, its configuration, the container; a hash of P210 is refused.
Parts == <<"did", "mid">>
PartsUpTo(got) == {Parts[i] : i \in 1..got}

Create ==
  /\ pc = "create"
  /\ \E got \in 0..2 :
       /\ (arg.hash = 1 /\ arg.csp = 1) => got < 2
       /\ arg.threads \notin {"auto", "2"} => got = 0
       /\ held' = held \cup PartsUpTo(got)
       /\ IF got = 2 THEN pc' = "read" /\ ret' = 0 ELSE Error
  /\ UNCHANGED <<files, arg, images, mid, count, pos, at, out, verdicts, quiet>>

More == arg.max = 0 \/ au_cnt < arg.max

LoopEnds ==
  /\ pc = "read" /\ ~More
  /\ pc' = "ERR"
  /\ UNCHANGED <<files, ret, setup, images, mid, count, pos, at, out, verdicts, quiet>>

----------------------------------------------------------------------------
(* What both loops do to a picture.                                        *)

Au == stream[pos]

IsFrame(pbu) == pbu.type \in {"primary", "aux"}

\* The frames of an access unit, in their order.
FramesOf(au) ==
  LET of[j \in 0..Len(au.pbus)] ==
        IF j = 0 THEN <<>>
        ELSE IF IsFrame(au.pbus[j]) THEN Append(of[j - 1], au.pbus[j]) ELSE of[j - 1]
  IN  of[Len(au.pbus)]

Frames == FramesOf(Au)

\* An image is kept as long as the size is the same, whatever else differs.
Kept(img, frm) == img # NoImage /\ img.w = frm.w

Fresh(frm) ==
  IF arg.csp = 1 THEN ImgbCreate(frm.w, "PLANAR2", 10)
  ELSE ImgbCreate(frm.w, frm.cf, IF frm.comp THEN 16 ELSE frm.depth)

Gone(img) == IF img = NoImage THEN 0 ELSE 1

\* The depth of the output is that of the first frames, unless it is asked
\* for; without companding it becomes twelve bits when such a frame comes.
Depth(frm) ==
  IF arg.plain = 1 /\ frm.comp THEN 12
  ELSE IF arg.depth = 0 THEN (IF frm.comp THEN 16 ELSE frm.depth)
  ELSE arg.depth

\* What the library accepts of a frame and the image it is decoded into.
Accepts(frm, img) ==
  /\ frm.good = "good"
  /\ img.w = frm.w /\ Idc[img.cf] = Idc[frm.cf]
  /\ ~(arg.hash = 1 /\ img.cf = "PLANAR2")
  /\ Len(Planes[frm.cf]) <= Len(Planes[img.cf]) \/ img.cf = "PLANAR2"

\* Samples of P210 lie in the upper bits; the others span the coded depth,
\* or sixteen bits once expanded.
Bits(frm, img) ==
  IF img.cf = "PLANAR2" THEN 16
  ELSE IF frm.comp /\ arg.plain = 0 THEN 16
  ELSE IF frm.comp THEN 12 ELSE frm.depth

Decoded(img, i, frm) ==
  [img EXCEPT !.pic = Whole(<<pos, i>>, Bits(frm, img)), !.shape = Planes[img.cf]]

\* Conversion goes through an image kept by the same rule.
Converts(img) == img.depth # arg.depth /\ arg.csp # 1

Via(img) ==
  IF Kept(imgb_w, img) THEN imgb_w ELSE ImgbCreate(img.w, img.cf, arg.depth)

Output(img) == IF Converts(img) THEN ImgbCpy(Via(img), img) ELSE img

Y4m == NameType(arg.output) = 1

First(i) == frm_cnt[i] = 0

WritesFit(o, i) == out = NoFile \/ WriteFits(o, Y4m, First(i))

Written(o, i) ==
  IF out # NoFile /\ HeaderFits(o, Y4m, First(i)) THEN WriteImg(out, o, Y4m, First(i))
  ELSE out

\* The picture of img is written as the next of place i, behind a stream
\* header if it is the first there; no image for the conversion, and a
\* format the file has no picture of, are errors.
WritePicture(img, i) ==
  \/ /\ ~Converts(img) \/ Via(img) # NoImage
     /\ LET o == Output(img)
        IN  /\ imgb_w' = IF Converts(img) THEN o ELSE imgb_w
            /\ out' = Written(o, i)
            /\ IF WritesFit(o, i)
               THEN frm_cnt' = [frm_cnt EXCEPT ![i] = @ + 1] /\ ret' = ret
               ELSE frm_cnt' = frm_cnt /\ ret' = -1
     /\ nimg' = nimg + Gone(imgb_w') - Gone(imgb_w)
  \/ /\ Converts(img) /\ ~Kept(imgb_w, img)
     /\ imgb_w' = NoImage /\ nimg' = nimg - Gone(imgb_w)
     /\ ret' = -1
     /\ UNCHANGED <<out, frm_cnt>>

----------------------------------------------------------------------------
(* API set 0: an access unit at a time.                                    *)

Api0 == arg.api = 0

EndOfFile ==
  /\ pc = "read" /\ Api0 /\ More /\ pos = Len(stream)
  /\ ret' = ret
  /\ pc' = "ERR"
  /\ UNCHANGED <<files, setup, images, mid, count, pos, at, out, verdicts, quiet>>

\* The size field, then as many bytes, into a buffer that grows with need.
UnitReads(au) == au.size = "good" /\ ~au.short

ReadUnit ==
  /\ pc = "read" /\ Api0 /\ More /\ pos < Len(stream)
  /\ pos' = pos + 1
  /\ \/ /\ UnitReads(stream[pos'])
        /\ held' = held \cup {"bs_buf"}
        /\ pc' = "info" /\ ret' = ret
     \/ Error /\ held' = held
  /\ UNCHANGED <<files, arg, images, mid, count, at, out, verdicts, quiet>>

\* oapvd_info: an AU_INFO is believed as soon as it is met, without one the
\* frame headers are counted.
InfoAt ==
  LET at_info == {j \in DOMAIN Au.pbus : Au.pbus[j].type = "info"}
  IN  IF at_info = {} THEN Len(Au.pbus) + 1
      ELSE CHOOSE j \in at_info : \A k \in at_info : j <= k

HeaderReads(pbu) ==
  pbu.type # "bad" /\ (IsFrame(pbu) => pbu.frm.good # "header")

InfoReads ==
  /\ Au.sig /\ Au.pbus # <<>>
  /\ \A j \in 1..(InfoAt - 1) : HeaderReads(Au.pbus[j])

Frm(pbu) == pbu.frm
Told ==
  IF InfoAt <= Len(Au.pbus) THEN Au.pbus[InfoAt].list
  ELSE [i \in 1..Len(Frames) |-> Frm(Frames[i])]

\* Images for the frames told of; "got" of those missing can be created.
Prepared(told, got) ==
  [i \in Slots |->
     IF i \in 1..got THEN IF Kept(imgs[i], told[i]) THEN imgs[i] ELSE Fresh(told[i])
     ELSE IF i = got + 1 /\ i <= Len(told) /\ ~Kept(imgs[i], told[i]) THEN NoImage
     ELSE imgs[i]]

Count(s) == Cardinality({i \in Slots : s[i] # NoImage})

Info ==
  /\ pc = "info"
  /\ IF ~InfoReads \/ Len(Told) \notin 1..MaxFrames
     THEN Error /\ UNCHANGED <<arg, images>>
     ELSE \E got \in 0..Len(Told) :
            /\ \A i \in 1..got : Kept(imgs[i], Told[i]) \/ Fresh(Told[i]) # NoImage
            /\ got < Len(Told) => ~Kept(imgs[got + 1], Told[got + 1])
            /\ num_frms' = Len(Told)
            /\ imgs' = Prepared(Told, got)
            /\ nimg' = nimg + Count(imgs') - Count(imgs)
            /\ imgb_w' = imgb_w
            /\ IF got = Len(Told)
               THEN /\ arg' = [arg EXCEPT !.depth = Depth(Told[Len(Told)])]
                    /\ pc' = "decode" /\ ret' = ret
               ELSE Error /\ arg' = arg
  /\ UNCHANGED <<files, held, mid, count, pos, at, out, verdicts, quiet>>

\* oapvd_decode: the frames there are, each into the image at its place; a
\* hash in the metadata takes the place of an earlier one of its group, and
\* so do the other payloads.
AllDecode ==
  /\ \A j \in DOMAIN Au.pbus : Au.pbus[j].type # "bad"
  /\ Len(Frames) \in 0..num_frms
  /\ \A i \in 1..Len(Frames) : Accepts(Frames[i].frm, imgs[i])

Payload(pbu) == [gid |-> pbu.gid, hash |-> pbu.hash >= 0, of |-> <<pos, pbu.hash>>]

Same(e, f) == e.gid = f.gid /\ e.hash = f.hash

Store(m, pbus) ==
  LET meta == {j \in DOMAIN pbus : pbus[j].type = "meta"}
      last == {j \in meta : \A k \in meta :
                 Same(Payload(pbus[j]), Payload(pbus[k])) => k <= j}
  IN  {e \in m : \A j \in meta : ~Same(e, Payload(pbus[j]))}
        \cup {Payload(pbus[j]) : j \in last}

Says(m, gid, img) ==
  LET of == {e.of : e \in {x \in m : x.gid = gid /\ x.hash}}
  IN  IF of = {} THEN "none" ELSE IF img.pic.of \in of THEN "match" ELSE "mismatch"

Judged(m, new) ==
  IF arg.hash = 0 THEN {}
  ELSE {[of |-> <<pos, i>>, says |-> Says(m, Frames[i].gid, new[i])] : i \in 1..Len(Frames)}

Decode ==
  /\ pc = "decode" /\ AllDecode
  /\ imgs' = [i \in Slots |-> IF i <= Len(Frames) THEN Decoded(imgs[i], i, Frames[i].frm)
                              ELSE imgs[i]]
  /\ mid' = Store(mid, Au.pbus)
  /\ pc' = "payloads" /\ ret' = 0
  /\ UNCHANGED <<files, setup, nimg, imgb_w, num_frms, count, pos, at, out, verdicts, quiet>>

DecodeFails ==
  /\ pc = "decode"
  /\ Error
  /\ UNCHANGED <<files, setup, images, mid, count, pos, at, out, verdicts, quiet>>

\* The payloads are listed; with no memory for the list the program ends
\* as if the file had.
Payloads ==
  /\ pc = "payloads"
  /\ \/ /\ pc' = "write" /\ at' = 1
        /\ verdicts' = verdicts \cup Judged(mid, imgs)
        /\ quiet' = quiet
     \/ /\ mid # {}
        /\ pc' = "ERR" /\ quiet' = "memory"
        /\ UNCHANGED <<at, verdicts>>
  /\ UNCHANGED <<files, ret, setup, images, mid, count, pos, out>>

\* One frame after the other is converted and written.
Write ==
  /\ pc = "write" /\ at <= Len(Frames)
  /\ WritePicture(imgs[at], at)
  /\ IF ret' = -1 THEN pc' = "ERR" /\ at' = at ELSE pc' = pc /\ at' = at + 1
  /\ UNCHANGED <<files, setup, imgs, num_frms, mid, au_cnt, pos, verdicts, quiet>>

\* Wrong: the metadata is kept.
UnitDoneKept ==
  /\ pc = "write" /\ at > Len(Frames)
  /\ au_cnt' = au_cnt + 1
  /\ pc' = "read"
  /\ UNCHANGED <<files, ret, setup, images, mid, frm_cnt, pos, at, out, verdicts, quiet>>

UnitDone ==
  /\ pc = "write" /\ at > Len(Frames)
  /\ au_cnt' = au_cnt + 1
  /\ mid' = {}
  /\ pc' = "read"
  /\ UNCHANGED <<files, ret, setup, images, frm_cnt, pos, at, out, verdicts, quiet>>

----------------------------------------------------------------------------
(* API set 1: a PBU at a time.                                             *)

\* Any failure to read a size is taken for the end of the file.
NoUnit ==
  /\ pc = "read" /\ ~Api0 /\ More
  /\ pos < Len(stream) => stream[pos + 1].size = "cut"
  /\ quiet' = IF pos = Len(stream) THEN quiet ELSE "size"
  /\ pc' = "ERR" /\ ret' = 0
  /\ UNCHANGED <<files, setup, images, mid, count, pos, at, out, verdicts>>

BeginUnit ==
  /\ pc = "read" /\ ~Api0 /\ More /\ pos < Len(stream)
  /\ stream[pos + 1].size # "cut"
  /\ pos' = pos + 1
  /\ at' = 1
  /\ IF stream[pos'].sig /\ stream[pos'].size # "zero"
     THEN pc' = "pbu" /\ ret' = ret ELSE Error
  /\ UNCHANGED <<files, setup, images, mid, count, out, verdicts, quiet>>

Pbu == Au.pbus[at]

\* The bytes are there and the header tells a known type.
PbuReads == ~(Au.short /\ at = Len(Au.pbus)) /\ Pbu.type # "bad"

AtPbu(types) == pc = "pbu" /\ at <= Len(Au.pbus) /\ PbuReads /\ Pbu.type \in types

\* A PBU, its frame header, AU_INFO or metadata is broken; or the unit is
\* said to be larger than its PBUs, and what follows is taken for one.
PbuFails ==
  /\ pc = "pbu" /\ (at <= Len(Au.pbus) \/ Au.size # "good")
  /\ Error
  /\ held' = held \cup {"pbu"}
  /\ UNCHANGED <<files, arg, images, mid, count, pos, at, out, verdicts, quiet>>

\* An image for a primary frame.
TakeImage ==
  /\ AtPbu({"primary"}) /\ Pbu.frm.good # "header"
  /\ held' = held \cup {"pbu"}
  /\ LET img == IF Kept(imgs[1], Pbu.frm) THEN imgs[1] ELSE Fresh(Pbu.frm)
     IN  \/ /\ img # NoImage
            /\ imgs' = [imgs EXCEPT ![1] = img]
            /\ arg' = [arg EXCEPT !.depth = Depth(Pbu.frm)]
            /\ pc' = "frame" /\ ret' = 0
         \/ /\ ~Kept(imgs[1], Pbu.frm)
            /\ imgs' = [imgs EXCEPT ![1] = NoImage]
            /\ Error /\ arg' = arg
  /\ nimg' = nimg + Count(imgs') - Count(imgs)
  /\ UNCHANGED <<files, imgb_w, num_frms, mid, count, pos, at, out, verdicts, quiet>>

\* set_tile_reqs: as many tiles as asked for, from where the last frame
\* left off, each at its own place in the image.
NumTiles(frm) == IF arg.cyclic > frm.n THEN frm.n ELSE arg.cyclic

\* Wrong: the window moves by one tile, not by its width.
TileReqsByOne(frm, nth) ==
  {LET idx == (nth + k) % frm.n
   IN  <<idx, <<idx % frm.cols, idx \div frm.cols>>>> : k \in 0..(NumTiles(frm) - 1)}

TileReqs(frm, nth) ==
  {LET idx == (nth * NumTiles(frm) + k) % frm.n
   IN  <<idx, <<idx % frm.cols, idx \div frm.cols>>>> : k \in 0..(NumTiles(frm) - 1)}

\* oapvd_decode_frame; or, on a cleared image, oapvd_decode_tiles
DecodedPart(img, frm) ==
  IF arg.cyclic = 0 THEN Decoded(img, at, frm)
  ELSE [Decoded(img, at, frm) EXCEPT !.pic.tiles = TileReqs(frm, frm_cnt[1])]

DecodeFrame ==
  /\ pc = "frame" /\ Accepts(Pbu.frm, imgs[1])
  /\ held' = held \cup (IF arg.cyclic > 0 THEN {"tile_reqs"} ELSE {})
  /\ imgs' = [imgs EXCEPT ![1] = DecodedPart(imgs[1], Pbu.frm)]
  /\ pc' = "show"
  /\ UNCHANGED <<files, ret, arg, nimg, imgb_w, num_frms, mid, count, pos, at, out, verdicts, quiet>>

FrameFails ==
  /\ pc = "frame"
  /\ Error
  /\ UNCHANGED <<files, setup, images, mid, count, pos, at, out, verdicts, quiet>>

ShowFrame ==
  /\ pc = "show"
  /\ WritePicture(imgs[1], 1)
  /\ IF ret' = -1 THEN pc' = "ERR" /\ at' = at ELSE pc' = "pbu" /\ at' = at + 1
  /\ UNCHANGED <<files, setup, imgs, num_frms, mid, au_cnt, pos, verdicts, quiet>>

\* oapvd_decode_metadata; frames of other types, AU_INFO and filler change
\* nothing.
OtherPbu ==
  /\ AtPbu({"aux", "info", "meta", "filler"})
  /\ held' = held \cup {"pbu"}
  /\ mid' = Store(mid, <<Pbu>>)
  /\ at' = at + 1
  /\ UNCHANGED <<files, pc, ret, arg, images, count, pos, out, verdicts, quiet>>

UnitEnds ==
  /\ pc = "pbu" /\ at > Len(Au.pbus) /\ Au.size = "good"
  /\ \/ /\ au_cnt' = au_cnt + 1 /\ mid' = {}
        /\ pc' = "read" /\ ret' = 0
     \/ /\ mid # {}
        /\ Error
        /\ UNCHANGED <<au_cnt, mid>>
  /\ UNCHANGED <<files, setup, images, frm_cnt, pos, at, out, verdicts, quiet>>

----------------------------------------------------------------------------
(* The label ERR of either loop, then that of main.  API set 0 releases    *)
(* the images of the places the last unit had.                             *)

\* Wrong: only the first place.
OwnedFirst == {1}

Owned == IF Api0 THEN 1..num_frms ELSE {1}

Cleanup ==
  /\ pc = "ERR"
  /\ held' = held \ ({"did", "mid"} \cup IF Api0 THEN {"bs_buf"} ELSE {"pbu", "tile_reqs"})
  /\ nimg' = nimg - Cardinality({i \in Owned : imgs[i] # NoImage}) - Gone(imgb_w)
  /\ pc' = "main_ERR"
  /\ UNCHANGED <<files, ret, arg, imgs, imgb_w, num_frms, mid, count, pos, at, out, verdicts, quiet>>

Exit ==
  /\ pc = "main_ERR"
  /\ held' = held \ {"fp", "args", "args_var"}
  /\ pc' = "exit"
  /\ UNCHANGED <<files, ret, arg, images, mid, count, pos, at, out, verdicts, quiet>>

Next ==
  \/ Help \/ ParseArgs \/ OpenFiles \/ Create \/ LoopEnds
  \/ EndOfFile \/ ReadUnit \/ Info \/ Decode \/ DecodeFails \/ Payloads \/ Write \/ UnitDone
  \/ NoUnit \/ BeginUnit \/ PbuFails \/ TakeImage \/ DecodeFrame \/ FrameFails
  \/ ShowFrame \/ OtherPbu \/ UnitEnds
  \/ Cleanup \/ Exit

----------------------------------------------------------------------------
(* What the program promises of its output.                                *)

TypeOK ==
  /\ pc \in {"start", "open", "create", "read", "info", "decode", "payloads", "write",
            "pbu", "frame", "show", "ERR", "main_ERR", "exit"}
  /\ ret \in {-1, 0, 1} /\ nimg \in Nat
  /\ num_frms \in 0..MaxFrames /\ pos \in 0..Len(stream)

\* The pictures that are due of an access unit, in their order.
DueOf(p) ==
  IF Api0 THEN [i \in 1..Len(FramesOf(stream[p])) |-> <<p, i>>]
  ELSE LET pbus == stream[p].pbus
           primary(j) == pbus[j].type = "primary"
           js == SelectSeq([j \in 1..Len(pbus) |-> j], primary)
       IN  [i \in 1..Len(js) |-> <<p, js[i]>>]

Due(units) == FlattenSeq([p \in 1..units |-> DueOf(p)])

\* The frames there are, and those an AU_INFO tells of.
Pbus == UNION {ToSet(stream[p].pbus) : p \in DOMAIN stream}

StreamFrames == {pbu.frm : pbu \in {x \in Pbus : IsFrame(x)}}
Announced    == UNION {ToSet(pbu.list) : pbu \in Pbus}

\* The bitstream keeps to one format, depth, tiling.
OneFormat == \A f, g \in StreamFrames : f.cf = g.cf
OneDepth ==
  \A f, g \in StreamFrames \cup Announced : f.depth = g.depth /\ f.comp = g.comp
OneTiling == \A f, g \in StreamFrames : f.n = g.n /\ f.cols = g.cols

Shown == IF out = NoFile THEN <<>> ELSE out.pics

InPlace(tiles, frm) ==
  \A t \in tiles : t[2][2] * frm.cols + t[2][1] = t[1] /\ t[2][1] < frm.cols

\* The file written shows, in the order of the bitstream, the pictures due
\* of the units read (dec_api_set_0 writes every frame of a unit, _1 the
\* primary ones), each of them once and none of an earlier decoding; all of
\* them if the program succeeds.  With cyclic tile decoding every tile lies
\* at its own place, and as many frames as a round takes show every tile.
\* (When the format changes on the way the images are not replaced, see
\* Kept, and no such promise is made.)
WrittenIsDecoded ==
  OneFormat =>
    LET n == Len(Shown)
    IN  /\ [k \in 1..n |-> Shown[k].pic.of] = SubSeq(Due(pos), 1, n)
        /\ pc = "exit" /\ ret = 0 /\ out # NoFile /\ quiet = "" => n = Len(Due(au_cnt))
        /\ (n > 0 /\ arg.cyclic > 0 /\ OneTiling) =>
             LET frm   == CHOOSE f \in StreamFrames : TRUE
                 round == (frm.n + NumTiles(frm) - 1) \div NumTiles(frm)
                 of(k) == Shown[k].pic.tiles
             IN  /\ \A k \in 1..n : InPlace(of(k), frm)
                 /\ \A k \in 1..(n - round + 1) :
                      {t[1] : t \in UNION {of(j) : j \in k..(k + round - 1)}}
                        = 0..(frm.n - 1)

\* Status 0 means that the units asked for, or all of the file, were
\* decoded, unless the program stopped early for a reason it does not
\* return ("quiet": a torn size field in API set 1, no memory for the list
\* of metadata in API set 0, a number that is no API set).
SuccessIsWhole ==
  pc = "exit" /\ ret = 0 /\ arg # <<>> /\ quiet = "" =>
    \/ ~More
    \/ au_cnt = Len(stream)

\* At the exit everything allocated was released, whichever step failed,
\* but for the images API set 0 created for places that the last unit did
\* not have: its clean-up goes by the number of frames told last.
EverythingReleased ==
  pc = "exit" =>
    /\ held = {}
    /\ nimg = (IF arg # <<>> /\ Api0
               THEN Cardinality({i \in Slots : i > num_frms /\ imgs[i] # NoImage})
               ELSE 0)

\* A picture written spans the bits its label says, the one on the y4m
\* header, and has the planes of its format, through any conversion of
\* depth (imgb_cpy), as long as the bitstream keeps to one format and depth.
\* (The images of API set 0 have the depth an AU_INFO tells of, and the
\* library does not compare it with that of the frame.)
LabelsAreTrue ==
  (OneFormat /\ OneDepth) =>
    \A k \in DOMAIN Shown :
      arg.plain = 0 => Fills(Shown[k]) /\ Shown[k].shape = Planes[Shown[k].cf]

\* The hash metadata of the group, in the unit the picture is of.
HashesOf(of, gid) ==
  LET pbus == stream[of[1]].pbus
  IN  {j \in DOMAIN pbus : pbus[j].type = "meta" /\ pbus[j].gid = gid /\ pbus[j].hash >= 0}

\* What check_frm_hash says of a picture is about the hash carried in the
\* same access unit for the same group, the last one if there are several:
\* never about one of an earlier unit still in the container.
VerdictIsThisUnits ==
  \A v \in verdicts :
    LET of   == v.of
        frm  == FramesOf(stream[of[1]])[of[2]]
        hs   == HashesOf(of, frm.gid)
        last == CHOOSE j \in hs : \A i \in hs : i <= j
        own  == stream[of[1]].pbus[last].hash = of[2]
    IN  v.says =
          IF hs = {} THEN "none" ELSE IF own THEN "match" ELSE "mismatch"

\* The help text of --disable-companding: "this option forces to output 12
\* bits picture in case of 444-16C12 and 4444-16C12 profile".  A picture
\* labelled 12 bits then has 12 significant bits.
CompandingOffIs12Bit ==
  arg # <<>> /\ arg.plain = 1 =>
    \A k \in DOMAIN Shown : Shown[k].depth = 12 => Shown[k].pic.bits = 12
=============================================================================
