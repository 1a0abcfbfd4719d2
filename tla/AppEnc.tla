------------------------------- MODULE AppEnc -------------------------------
(***************************************************************************)
(* The encoder program (oapv_app_enc.c): from its command line to its exit *)
(* status.  It reads pictures of a video file one by one, drops those to   *)
(* be skipped, hands the others to oapve_encode, appends each access unit  *)
(* to the bitstream file and, when asked, each reconstructed picture to a  *)
(* video file.  Whatever it allocates may fail, and so may the library.    *)
(***************************************************************************)
EXTENDS AppIO, Args, FiniteSets

CONSTANTS NoFile

VARIABLES
  cmd,       \* the words of the command line
  video,     \* the file behind the input's name
  pc,        \* the stage of main
  ret,       \* what main will return
  arg,       \* args_var: the value of each option
  held,      \* what is allocated or open, images apart
  nimg,      \* images created and not released
  cf,        \* the input's colour format
  imgs,      \* the images behind ifrms, rfrms, imgb_r and imgb_w
  state,     \* STATE_ENCODING, STATE_SKIPPING, STATE_STOP
  au_cnt, au_skip,
  mid,       \* the metadata container's payloads
  pos,       \* pictures read from the input
  out, rec   \* the files written, or NoFile

files == <<cmd, video>>
setup == <<arg, held, nimg, cf, mid, imgs>>
run   == <<state, au_cnt, au_skip, pos>>
vars  == <<files, pc, ret, setup, run, out, rec>>

Table ==
  [input  |-> Option("i", "string", TRUE, ""),
   output |-> Option("o", "string", FALSE, ""),
   recon  |-> Option("r", "string", FALSE, ""),
   width  |-> Option("w", "string", FALSE, ""),
   fps    |-> Option("z", "string", FALSE, ""),
   depth  |-> Option("d", "integer", FALSE, 10),
   csp    |-> Option(NoKey, "integer", FALSE, -1),
   max    |-> Option(NoKey, "integer", FALSE, 0),
   seek   |-> Option(NoKey, "integer", FALSE, 0),
   hash   |-> Option(NoKey, "none", FALSE, 0),
   profile |-> Option(NoKey, "string", FALSE, "422-10"),
   threads |-> Option("m", "string", FALSE, "auto"),
   mdcv   |-> Option(NoKey, "string", FALSE, ""),
   cll    |-> Option(NoKey, "string", FALSE, "")]

\* The chroma formats and input depths a profile takes, of those looked at.
Profiles == {"422-10", "422-12", "444-10", "400-10", "444-16c12"}

Spec16(p) == p = "444-16c12"
Chroma(p) ==
  CASE p \in {"422-10", "422-12"} -> 2..2
    [] p = "444-10"               -> 2..3
    [] p = "400-10"               -> 0..0
    [] Spec16(p)                  -> 3..3
CodecDepth(p) == CASE Spec16(p) -> 16 [] p = "422-12" -> 12 [] OTHER -> 10
Depths(p) == IF p = "422-12" THEN 10..12 ELSE {CodecDepth(p)}

Suits(p, img) == Idc[img.cf] \in Chroma(p) /\ img.depth \in Depths(p)

FormatOf(csp) ==
  CASE csp = 0 -> "YCBCR400"  [] csp = 2 -> "YCBCR422" [] csp = 3 -> "YCBCR444"
    [] csp = 4 -> "YCBCR4444" [] csp = 5 -> "PLANAR2"  [] OTHER -> "UNKNOWN"

CspOf(format) ==
  LET csp == {c \in {0, 2, 3, 4, 5} : FormatOf(c) = format}
  IN  IF csp = {} THEN -1 ELSE CHOOSE c \in csp : TRUE

Init ==
  /\ pc = "start" /\ ret = 0
  /\ arg = <<>> /\ held = {} /\ nimg = 0
  /\ cf = "UNKNOWN"
  /\ imgs = [i |-> NoImage, rec |-> NoImage, r |-> NoImage, w |-> NoImage]
  /\ state = "ENCODING" /\ au_cnt = 0 /\ au_skip = 0
  /\ mid = {} /\ pos = 0
  /\ out = NoFile /\ rec = NoFile

----------------------------------------------------------------------------
(* Everything that may go wrong ends in one place with what was gained so  *)
(* far still to be released.                                               *)

Error == pc' = "ERR" /\ ret' = -1

\* Without a word, or with --help or -h first, the usage is printed.
Help ==
  /\ pc = "start"
  /\ AsksHelp(cmd)
  /\ pc' = "exit"
  /\ UNCHANGED <<files, ret, setup, run, out, rec>>

Parsing(p) ==
  /\ pc = "start" /\ ~AsksHelp(cmd)
  /\ held' = held \cup {"args", "args_var"}
  /\ arg' = IF p.ok THEN [k \in DOMAIN Table |-> p.opts[k].val] ELSE arg
  /\ IF p.ok /\ MandatorySet(p.opts) THEN pc' = "open" /\ ret' = ret ELSE Error
  /\ UNCHANGED <<files, nimg, cf, mid, imgs, run, out, rec>>

ParseArgs == Parsing(Parse(Table, cmd))

\* fopen of the input
Open ==
  /\ pc = "open"
  /\ IF arg.input \in DOMAIN Ext
     THEN held' = held \cup {"fp"} /\ pc' = "format" /\ ret' = ret
     ELSE held' = held /\ Error
  /\ UNCHANGED <<files, arg, nimg, cf, mid, imgs, run, out, rec>>

\* A y4m header overrules the command line; of a raw file the command line
\* must tell everything.
FromHeader ==
  /\ pc = "format" /\ video.y4m /\ HeaderParses(video.hdr)
  /\ \E f \in HeaderFormats(video.hdr) :
       /\ cf' = f[1]
       /\ arg' = [arg EXCEPT !.depth = f[2], !.width = video.hdr.w,
                             !.csp = CspOf(f[1]), !.fps = "hdr"]
       /\ IF f[1] = "UNKNOWN" THEN Error ELSE pc' = "update" /\ ret' = ret
  /\ UNCHANGED <<files, held, nimg, mid, imgs, run, out, rec>>

HeaderRefused ==
  /\ pc = "format" /\ video.y4m /\ ~HeaderParses(video.hdr)
  /\ Error
  /\ UNCHANGED <<files, setup, run, out, rec>>

\* The width a raw file is said to have is that of its header record here.
FromOptions ==
  /\ pc = "format" /\ ~video.y4m
  /\ cf' = FormatOf(arg.csp)
  /\ IF arg.csp = -1 \/ arg.width = "" \/ arg.fps = "" \/ FormatOf(arg.csp) = "UNKNOWN"
     THEN Error /\ arg' = arg
     ELSE /\ pc' = "update" /\ ret' = ret
          /\ arg' = [arg EXCEPT !.width = video.hdr.w]
  /\ UNCHANGED <<files, held, nimg, mid, imgs, run, out, rec>>

\* update_param, enc_max_bs_buf_size, the number of threads and check_conf
Conforms ==
  /\ arg.profile \in Profiles
  /\ InRange(arg.width)
  /\ cf \in DOMAIN Planes
  /\ arg.threads \in {"auto", "2"}
  /\ ~(arg.csp = 2 /\ arg.width % 2 = 1)
  /\ arg.hash = 1 => arg.recon # "" /\ arg.csp # 5

Update ==
  /\ pc = "update"
  /\ IF Conforms THEN pc' = "outputs" /\ ret' = ret ELSE Error
  /\ UNCHANGED <<files, setup, run, out, rec>>

\* Files are emptied before anything is known to work.
Outputs ==
  /\ pc = "outputs"
  /\ out' = IF arg.output = "" THEN out ELSE <<>>
  /\ IF arg.recon = "" THEN pc' = "create" /\ ret' = ret /\ rec' = rec
     ELSE IF NameType(arg.recon) < 0 THEN Error /\ rec' = rec
     ELSE pc' = "create" /\ ret' = NameType(arg.recon) /\ rec' = Empty
  /\ UNCHANGED <<files, setup, run>>

\* The buffer, the encoder, the container, the encoder's configuration, in
\* this order; "got" of them exist when one fails.
Parts == <<"bs_buf", "id", "mid">>

PartsUpTo(got) == {Parts[i] : i \in 1..got}

\* The codec's pixel depth is that of the profile.
Create ==
  /\ pc = "create"
  /\ \E got \in 0..3, ready \in BOOLEAN :
       /\ ready => got = 3
       /\ held' = held \cup PartsUpTo(got)
       /\ IF ready THEN pc' = "images" /\ ret' = 0 ELSE Error
       /\ state' = IF ready /\ arg.seek > 0 THEN "SKIPPING" ELSE state
  /\ UNCHANGED <<files, arg, nimg, cf, mid, imgs, au_cnt, au_skip, pos, out, rec>>

----------------------------------------------------------------------------
(* Images: pictures are read into ifrms directly when they have the depth  *)
(* they are coded in, otherwise into imgb_r; and reconstructed pictures    *)
(* are written from rfrms or from imgb_w alike.                            *)

Converts == arg.depth # CodecDepth(arg.profile) /\ cf # "PLANAR2"

New(depth) == ImgbCreate(arg.width, cf, depth)

CodecImage == New(CodecDepth(arg.profile))

\* The pointers in the order they are set, and the image each is set to.
Wanted ==
  CASE Converts /\ rec # NoFile  -> <<"r", "i", "w", "rec">>
    [] Converts /\ rec = NoFile  -> <<"r", "i">>
    [] ~Converts /\ rec # NoFile -> <<"i", "rec">>
    [] OTHER                     -> <<"i">>

Made(p) == IF p \in {"r", "w"} THEN New(arg.depth) ELSE CodecImage

Set(got) ==
  [p \in DOMAIN imgs |-> IF \E n \in 1..got : Wanted[n] = p THEN Made(p) ELSE imgs[p]]

\* update_metadata: both payloads are parsed and set, or the program ends.
Payloads == {p \in {"mdcv", "cll"} : arg[p] # ""}
PayloadsParse == \A p \in Payloads : arg[p] # "bad"

Images ==
  /\ pc = "images"
  /\ \E got \in 0..Len(Wanted) :
       /\ \A n \in 1..got : Made(Wanted[n]) # NoImage
       /\ imgs' = Set(got)
       /\ nimg' = nimg + got
       /\ IF got = Len(Wanted) /\ PayloadsParse
          THEN pc' = "read" /\ ret' = ret /\ mid' = Payloads
          ELSE Error /\ mid' = mid
  /\ UNCHANGED <<files, arg, held, cf, run, out, rec>>

----------------------------------------------------------------------------
(* The loop: read, then what the state asks for.                           *)

More == arg.max = 0 \/ au_cnt < arg.max

Summary ==
  /\ pc = "read" /\ ~More
  /\ pc' = "ERR"
  /\ UNCHANGED <<files, ret, setup, run, out, rec>>

Reader == IF Converts THEN "r" ELSE "i"

\* A picture that cannot be read whole, for whatever reason, is the end.
Read ==
  /\ pc = "read" /\ More
  /\ LET img == ImgbRead(video, imgs[Reader], pos)
         ok  == HasPicture(video, imgs[Reader], pos)
     IN  /\ imgs' = IF ok /\ Converts
                    THEN [imgs EXCEPT !.r = img, !.i = ImgbCpy(imgs.i, img)]
                    ELSE [imgs EXCEPT ![Reader] = img]
         /\ state' = IF ok THEN state ELSE "STOP"
         /\ pos' = IF ok THEN pos + 1 ELSE pos
  /\ ret' = 0
  /\ pc' = "code"
  /\ UNCHANGED <<files, arg, held, nimg, cf, mid, au_cnt, au_skip, out, rec>>

\* oapve_encode reconstructs into rfrms, and with a hash adds that to the
\* container before it writes the metadata into the unit.
Recon == IF rec = NoFile THEN imgs ELSE [imgs EXCEPT !.rec.pic = imgs.i.pic]

Hashed == IF arg.hash = 1 THEN mid \cup {"hash"} ELSE mid

\* Wrong: imgb_w is never filled.
NotCopied(new) == new

Shown(new) == IF Converts THEN [new EXCEPT !.w = ImgbCpy(new.w, new.rec)] ELSE new

Unit == [pic |-> imgs.i.pic, cf |-> imgs.i.cf, depth |-> imgs.i.depth,
         w |-> imgs.i.w, meta |-> Hashed]

Stored == IF out = NoFile THEN out ELSE Append(out, Unit)

Recorded(new) == IF Converts THEN new.w ELSE new.rec

First == au_cnt = 0

\* After an access unit the container is emptied.
Coded(new) ==
  /\ imgs' = new
  /\ out' = Stored
  /\ IF rec = NoFile THEN rec' = rec
     ELSE rec' = IF HeaderFits(Recorded(new), NameType(arg.recon) = 1, First)
                 THEN WriteImg(rec, Recorded(new), NameType(arg.recon) = 1, First)
                 ELSE rec
  /\ IF rec # NoFile /\ ~WriteFits(Recorded(new), NameType(arg.recon) = 1, First)
     THEN Error /\ au_cnt' = au_cnt /\ mid' = Hashed
     ELSE pc' = "read" /\ ret' = ret /\ au_cnt' = au_cnt + 1 /\ mid' = {}

Encode ==
  /\ pc = "code" /\ state = "ENCODING" /\ Suits(arg.profile, imgs.i)
  /\ Coded(IF rec = NoFile THEN imgs ELSE Shown(Recon))
  /\ UNCHANGED <<files, arg, held, nimg, cf, state, au_skip, pos>>

\* The call fails, or the bitstream file cannot be opened.
EncodeFails ==
  /\ pc = "code" /\ state = "ENCODING"
  /\ Error
  /\ UNCHANGED <<files, setup, run, out, rec>>

Skip ==
  /\ pc = "code" /\ state = "SKIPPING" /\ au_skip < arg.seek
  /\ au_skip' = au_skip + 1
  /\ pc' = "read"
  /\ UNCHANGED <<files, ret, setup, state, au_cnt, pos, out, rec>>

\* The picture at hand is not coded when the state changes.
SkipEnds ==
  /\ pc = "code" /\ state = "SKIPPING" /\ au_skip >= arg.seek
  /\ state' = "ENCODING"
  /\ mid' = {}
  /\ pc' = "read"
  /\ UNCHANGED <<files, ret, arg, held, nimg, cf, imgs, au_cnt, au_skip, pos, out, rec>>

Stop ==
  /\ pc = "code" /\ state = "STOP"
  /\ pc' = "ERR"
  /\ UNCHANGED <<files, ret, setup, run, out, rec>>

\* The label ERR: whatever its pointer says is there is released.
Pointed == Cardinality({p \in DOMAIN imgs : imgs[p] # NoImage})

Cleanup ==
  /\ pc = "ERR"
  /\ held' = held \ {"id", "mid", "fp", "bs_buf", "args", "args_var"}
  /\ nimg' = nimg - Pointed
  /\ pc' = "exit"
  /\ UNCHANGED <<files, ret, arg, cf, mid, imgs, run, out, rec>>

Next ==
  \/ Help \/ ParseArgs \/ Open \/ FromHeader \/ HeaderRefused \/ FromOptions
  \/ Update \/ Outputs \/ Create \/ Images
  \/ Summary \/ Read \/ Encode \/ EncodeFails \/ Skip \/ SkipEnds \/ Stop
  \/ Cleanup

----------------------------------------------------------------------------
(* What the program promises of its files.                                 *)

TypeOK ==
  /\ pc \in {"start", "open", "format", "update", "outputs", "create", "images",
            "read", "code", "ERR", "exit"}
  /\ ret \in {-1, 0, 1} /\ nimg \in Nat
  /\ state \in {"ENCODING", "SKIPPING", "STOP"}

Pictures(file) == IF file = NoFile THEN <<>> ELSE file.pics

\* The bitstream holds the pictures of the input in their order, none twice
\* and none left out in between, none of those to be skipped and none torn;
\* no unit but the first carries metadata of the command line, and the first
\* carries all of it when nothing is skipped; the reconstructed pictures are
\* those coded, one for each.
CodedInOrder ==
  LET coded == IF out = NoFile THEN <<>> ELSE out
      shown == Pictures(rec)
  IN  /\ \A n \in DOMAIN coded :
           /\ coded[n].pic = Whole(coded[1].pic.of + n - 1, coded[n].depth)
           /\ coded[n].pic.of > arg.seek
           /\ n > 1 => coded[n].meta \subseteq {"hash"}
           /\ n = 1 /\ arg.seek = 0 => Payloads \subseteq coded[n].meta
      /\ out # NoFile => \A n \in DOMAIN shown : shown[n].pic.of = coded[n].pic.of
      /\ out # NoFile /\ rec # NoFile /\ ret = 0 => Len(shown) = Len(coded)

\* Status 0 means that as many pictures as asked for were coded, or all the
\* input has whole ones of, and that each has its unit in the file; unless
\* the input depth is one imgb_read knows nothing of (9), which is taken
\* for the end of the file.
SuccessIsWhole ==
  pc = "exit" /\ ret = 0 /\ arg # <<>> =>
    /\ \/ ~More
       \/ pos = video.pics
       \/ ~Readable(imgs[Reader].depth)
    /\ out # NoFile => Len(out) = au_cnt

\* At the exit, whichever step failed, everything created was released once.
EverythingReleased == pc = "exit" => held = {} /\ nimg = 0

\* A reconstructed picture spans the bits its label says, through the
\* conversion from the codec's depth back to that of the input.
LabelsAreTrue ==
  LET shown == Pictures(rec)
  IN  \A n \in DOMAIN shown : shown[n].cf # "PLANAR2" => Fills(shown[n])

\* The README's example of --seek 100: "Encoding a part of the input,
\* skipping the first 100 frames": the first picture coded is the next one.
SeekSkipsExactly ==
  out # NoFile => (out = <<>> \/ out[1].pic.of = arg.seek + 1)
=============================================================================
