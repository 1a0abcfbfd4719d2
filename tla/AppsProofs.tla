------------------------------ MODULE AppsProofs ------------------------------
(***************************************************************************)
(* Theorems about the two programs (Apps), for any options and any input   *)
(* files: the encoder and the decoder have an inductive invariant each,    *)
(* with one more for what the labels of their pictures say, and a          *)
(* behaviour of Apps satisfies those of the program that runs.             *)
(***************************************************************************)
EXTENDS Apps, SequenceTheorems, FiniteSetTheorems, FunctionTheorems, Induction, TLAPS

----------------------------------------------------------------------------
(* AppEnc, the encoder program                                             *)

\* Before the loop, and in it; the pointers before any image is created.
Stages   == {"start", "open", "format", "update", "outputs", "create", "images"}
Loop     == {"read", "code"}
NoImages == [i |-> E!NoImage, rec |-> E!NoImage, r |-> E!NoImage, w |-> E!NoImage]

\* Until the images are created there is nothing to release but what is held.
EncBegins ==
  pc \in Stages =>
    /\ imgs = NoImages /\ nimg = 0
    /\ mid = {} /\ au_cnt = 0 /\ au_skip = 0 /\ pos = 0
    /\ coded \in {NoFile, <<>>} /\ rec \in {NoFile, E!Empty}
    /\ IF pc = "images" THEN state = (IF arg.seek > 0 THEN "SKIPPING" ELSE "ENCODING")
       ELSE state = "ENCODING"

\* What is known of the options.
Seek == "seek" \in DOMAIN arg /\ arg.seek \in Int

EncOptions ==
  IF pc = "start" THEN \E r \in EncRuns : cmd = r[1]
  ELSE pc \in Stages \cup Loop => Seek

\* In the loop every pointer that is used points to an image of its own kind.
Is(img, d) ==
  img = [w |-> arg.width, cf |-> cf, depth |-> d, shape |-> E!Planes[cf], pic |-> img.pic]

Codec(img) == Is(img, E!CodecDepth(arg.profile))
Plain(img) == Is(img, arg.depth)

EncImages ==
  pc \in Loop =>
    /\ arg.width \in 1..MaxW /\ cf \in DOMAIN E!Planes
    /\ Codec(imgs.i) /\ (E!Converts => Plain(imgs.r))
    /\ rec # NoFile => Codec(imgs.rec) /\ (E!Converts => Plain(imgs.w))

\* What is there to be released, and that it is.
EncHolds ==
  /\ held \subseteq {"args", "args_var", "fp", "bs_buf", "id", "mid"}
  /\ pc = "start" => held = {} /\ arg = <<>> /\ status = 0
  /\ imgs = [i |-> imgs.i, rec |-> imgs.rec, r |-> imgs.r, w |-> imgs.w]
  /\ nimg = (IF pc = "exit" THEN 0 ELSE E!Pointed)
  /\ pc = "exit" => held = {}
  /\ pc \in Stages \cup Loop \cup {"ERR", "exit"}

\* Why the program is about to end without an error.
AllDone == ~E!More \/ pos = video.pics \/ ~E!Readable(imgs[E!Reader].depth)

EncSucceeds ==
  /\ video.pics \in Nat /\ pos \in 0..video.pics /\ au_cnt \in Nat
  /\ state \in {"ENCODING", "SKIPPING", "STOP"}
  /\ pc \in Loop \cup {"images"} => status = 0
  /\ state = "STOP" => pc \in {"code", "ERR", "exit"}
  /\ pc = "code" /\ state = "STOP" => AllDone
  /\ pc \in {"ERR", "exit"} /\ status = 0 /\ arg # <<>> => AllDone
  /\ coded # NoFile => IsSeq(coded)
  /\ (pc \in Stages \cup Loop \/ status = 0) /\ coded # NoFile => Len(coded) = au_cnt

\* The pictures that are done with: coded, or passed over.
Passed == IF pc = "code" THEN pos - 1 ELSE pos

\* The picture at hand is the next one, in the depth it is coded in.
Loaded ==
  /\ imgs.i.pic = E!Whole(pos, E!CodecDepth(arg.profile))
  /\ E!Converts => arg.depth \in 8..16
  /\ pos \in Nat \ {0}

\* The units in the file are of the pictures before the one at hand, and
\* the payloads of the command line wait for the first.
EncGoesOn ==
  pc \in Loop =>
    /\ au_skip \in Nat
    /\ pc = "code" /\ state # "STOP" => Loaded
    /\ state = "SKIPPING" =>
         arg.seek > 0 /\ au_skip = Passed /\ coded \in {NoFile, <<>>} /\ E!Pictures(rec) = <<>>
    /\ state = "ENCODING" => arg.seek <= Passed
    /\ coded \notin {NoFile, <<>>} =>
         mid = {} /\ (state # "STOP" => coded[1].pic.of + Len(coded) - 1 = Passed)
    /\ coded = <<>> /\ arg.seek = 0 => mid = E!Payloads
    /\ coded # NoFile /\ rec # NoFile => Len(rec.pics) = Len(coded)

EncFiles ==
  /\ rec # NoFile => rec = [heads |-> rec.heads, pics |-> rec.pics] /\ IsSeq(rec.pics)
  /\ coded # NoFile => \A n \in DOMAIN coded : coded[n].pic.of \in Nat
  /\ coded # NoFile /\ rec # NoFile => Len(rec.pics) <= Len(coded)
  /\ E!CodedInOrder /\ E!LabelsAreTrue

EncInv == /\ EncBegins /\ EncOptions /\ EncImages /\ EncHolds
          /\ EncSucceeds /\ EncGoesOn /\ EncFiles

\* A step of the set-up: it stays within the set-up or ends in an error, and
\* nothing but options, files and what is held changes.
LEMMA SetsUp ==
  ASSUME EncInv, pc \in Stages, pc' \in (Stages \ {"start"}) \cup {"ERR"},
         pc' # "ERR" => Seek',
         UNCHANGED <<video, imgs, nimg, mid, au_cnt, au_skip, pos>>,
         coded' \in {NoFile, <<>>}, rec' \in {NoFile, E!Empty},
         pc' = "ERR" => status' # 0, pc' = "images" => status' = 0,
         held' \subseteq {"args", "args_var", "fp", "bs_buf", "id", "mid"},
         state' \in {"ENCODING", "SKIPPING"},
         pc' # "ERR" => state' = IF pc' = "images" /\ arg'.seek > 0 THEN "SKIPPING" ELSE "ENCODING"
  PROVE  EncInv'
  <1>1. EncBegins'
    BY DEF EncInv, EncBegins, Stages, NoImages
  <1>2. EncOptions' /\ EncImages' /\ EncGoesOn'
    BY DEF EncOptions, EncImages, EncGoesOn, Stages, Loop
  <1>3. EncHolds'
    BY DEF EncInv, EncHolds, Stages, Loop, E!Pointed
  <1>4. EncSucceeds'
    <2>1. au_cnt = 0 /\ pos = 0 /\ video.pics \in Nat
      BY DEF EncInv, EncSucceeds, EncBegins
    <2>2. IsSeq(<<>>) /\ Len(<<>>) = 0
      BY DEF IsSeq
    <2>3. coded' # NoFile => coded' = <<>>
      OBVIOUS
    <2> QED BY <2>1, <2>2, <2>3 DEF EncSucceeds, Stages, Loop
  <1>5. EncFiles'
    BY DEF EncFiles, IsSeq, E!Empty, E!CodedInOrder, E!LabelsAreTrue, E!Pictures
  <1> QED BY <1>1, <1>2, <1>3, <1>4, <1>5 DEF EncInv

USE DEF Stages

\* Before the command line is read there is nothing to clean up.
LEMMA EncStarts ==
  ASSUME EncInv, AppsAssumption, E!Help \/ E!ParseArgs
  PROVE  EncInv'
  <1>1. /\ pc = "start" /\ held = {} /\ arg = <<>> /\ status = 0 /\ coded \in {NoFile, <<>>}
        /\ rec \in {NoFile, E!Empty} /\ state = "ENCODING" /\ nimg = 0
    BY DEF EncInv, EncHolds, EncBegins, E!Help, E!ParseArgs, E!Parsing
  <1>2. CASE E!Help
    <2>1. pc' = "exit" /\ UNCHANGED <<cmd, video, status, arg, held, nimg, imgs, cf, mid,
                                      state, au_cnt, au_skip, pos, coded, rec>>
      BY <1>2 DEF E!Help, E!files, E!setup, E!run
    <2>2. EncBegins' /\ EncOptions' /\ EncImages' /\ EncGoesOn'
      BY <2>1 DEF EncBegins, EncOptions, EncImages, EncGoesOn, Loop
    <2>3. EncHolds'
      BY <1>1, <2>1 DEF EncInv, EncHolds
    <2>4. EncSucceeds'
      BY <1>1, <2>1 DEF EncInv, EncSucceeds, Loop
    <2>5. EncFiles'
      BY <2>1 DEF EncInv, EncFiles, E!CodedInOrder, E!LabelsAreTrue, E!Payloads, E!Pictures
    <2> QED BY <2>2, <2>3, <2>4, <2>5 DEF EncInv
  <1>3. CASE E!ParseArgs
    <2> DEFINE p == E!Parse(E!Table, cmd)
    <2>1. PICK r \in EncRuns : cmd = r[1]
      BY <1>1 DEF EncInv, EncOptions
    <2>2. p.ok => p.opts.seek.val \in Int
      BY <2>1 DEF AppsAssumption
    <2>3. /\ held' = held \cup {"args", "args_var"}
          /\ arg' = IF p.ok THEN [k \in DOMAIN E!Table |-> p.opts[k].val] ELSE arg
          /\ IF p.ok /\ E!MandatorySet(p.opts) THEN pc' = "open" /\ status' = status ELSE E!Error
          /\ UNCHANGED <<cmd, video, nimg, imgs, cf, mid, state, au_cnt, au_skip, pos, coded, rec>>
      BY <1>3 DEF E!ParseArgs, E!Parsing, E!files, E!run
    <2>4. "seek" \in DOMAIN E!Table
      BY DEF E!Table
    <2> HIDE DEF p
    <2>5. pc' # "ERR" => Seek'
      BY <2>2, <2>3, <2>4 DEF Seek, E!Error
    <2> QED BY <1>1, <2>3, <2>5, SetsUp DEF E!Error
  <1> QED BY <1>2, <1>3

\* From the first file opened to the encoder created.
LEMMA EncSetsUp ==
  ASSUME EncInv, \/ E!Open \/ E!FromHeader \/ E!HeaderRefused \/ E!FromOptions
                 \/ E!Update \/ E!Outputs \/ E!Create
  PROVE  EncInv'
  <1>1. /\ pc \in Stages \ {"start", "images"}
    BY DEF E!Open, E!FromHeader, E!HeaderRefused, E!FromOptions, E!Update, E!Outputs, E!Create
  <1>2. /\ Seek
        /\ coded \in {NoFile, <<>>} /\ rec \in {NoFile, E!Empty} /\ state = "ENCODING"
        /\ held \subseteq {"args", "args_var", "fp", "bs_buf", "id", "mid"}
    BY <1>1 DEF EncInv, EncHolds, EncBegins, EncOptions
  <1> USE DEF E!files, E!setup, E!run, E!Error
  <1> DEFINE Same == UNCHANGED <<video, imgs, nimg, mid, au_cnt, au_skip, pos>>
             Fresh == coded' \in {NoFile, <<>>} /\ rec' \in {NoFile, E!Empty}
             Goes == /\ pc' \in (Stages \ {"start", "images"}) \cup {"ERR"}
                     /\ pc' = "ERR" => status' # 0
                     /\ state' = state
             Within == held' \subseteq {"args", "args_var", "fp", "bs_buf", "id", "mid"}
  <1>a. ASSUME Same, Fresh, Goes, Within, Seek' PROVE EncInv'
    BY <1>1, <1>2, <1>a, SetsUp
  <1>3. CASE E!Open
    <2>1. Same /\ Fresh /\ Goes /\ Within
      <3>1. Same
        BY <1>2, <1>3 DEF E!Open
      <3>2. Fresh
        BY <1>2, <1>3 DEF E!Open
      <3>3. Goes
        BY <1>2, <1>3 DEF E!Open
      <3>4. Within
        BY <1>2, <1>3 DEF E!Open
      <3> QED BY <3>1, <3>2, <3>3, <3>4
    <2>2. Seek'
      BY <1>2, <1>3 DEF E!Open, Seek
    <2> QED BY <1>a, <2>1, <2>2
  <1>4. CASE E!FromHeader
    <2>a. Same
      BY <1>2, <1>4 DEF E!FromHeader
    <2>b. Fresh
      BY <1>2, <1>4 DEF E!FromHeader
    <2>c. Goes
      <3>1. state' = state
        BY <1>4 DEF E!FromHeader
      <3>2. pc' = "update" \/ pc' = "create" \/ E!Error
        BY <1>4 DEF E!FromHeader
      <3> QED BY <3>1, <3>2
    <2>d. Within
      BY <1>2, <1>4 DEF E!FromHeader
    <2>2. Seek'
      BY <1>2, <1>4 DEF E!FromHeader, Seek
    <2> QED BY <1>a, <2>a, <2>b, <2>c, <2>d, <2>2
  <1>5. CASE E!HeaderRefused
    <2>1. Same /\ Fresh /\ Goes /\ Within
      BY <1>2, <1>5 DEF E!HeaderRefused
    <2>2. Seek'
      BY <1>2, <1>5 DEF E!HeaderRefused, Seek
    <2> QED BY <1>a, <2>1, <2>2
  <1>6. CASE E!FromOptions
    <2>a. Same
      BY <1>2, <1>6 DEF E!FromOptions
    <2>b. Fresh
      BY <1>2, <1>6 DEF E!FromOptions
    <2>c. Goes
      <3>1. state' = state
        BY <1>6 DEF E!FromOptions
      <3>2. pc' = "update" \/ pc' = "create" \/ E!Error
        BY <1>6 DEF E!FromOptions
      <3> QED BY <3>1, <3>2
    <2>d. Within
      BY <1>2, <1>6 DEF E!FromOptions
    <2>2. Seek'
      BY <1>2, <1>6 DEF E!FromOptions, Seek
    <2> QED BY <1>a, <2>a, <2>b, <2>c, <2>d, <2>2
  <1>7. CASE E!Update
    <2>1. Same /\ Fresh /\ Goes /\ Within
      BY <1>2, <1>7 DEF E!Update
    <2>2. Seek'
      BY <1>2, <1>7 DEF E!Update, Seek
    <2> QED BY <1>a, <2>1, <2>2
  <1>8. CASE E!Outputs
    <2>a. Same
      BY <1>2, <1>8 DEF E!Outputs
    <2>b. Fresh
      BY <1>2, <1>8 DEF E!Outputs
    <2>c. Goes
      <3>1. state' = state
        BY <1>8 DEF E!Outputs
      <3>2. pc' = "update" \/ pc' = "create" \/ E!Error
        BY <1>8 DEF E!Outputs
      <3> QED BY <3>1, <3>2
    <2>d. Within
      BY <1>2, <1>8 DEF E!Outputs
    <2>2. Seek'
      BY <1>2, <1>8 DEF E!Outputs, Seek
    <2> QED BY <1>a, <2>a, <2>b, <2>c, <2>d, <2>2
  <1>9. CASE E!Create
    <2>a. Same /\ Fresh /\ arg' = arg
      BY <1>2, <1>9 DEF E!Create
    <2>b. Within
      <3>1. PICK have \in 0..3 : held' = held \cup E!PartsUpTo(have)
        BY <1>9 DEF E!Create
      <3>2. E!PartsUpTo(have) \subseteq {"bs_buf", "id", "mid"}
        BY DEF E!PartsUpTo, E!Parts
      <3> QED BY <1>2, <3>1, <3>2
    <2>1. Same /\ Fresh /\ Within /\ arg' = arg
      BY <2>a, <2>b
    <2>2. /\ pc' \in {"images", "ERR"} /\ state' \in {"ENCODING", "SKIPPING"}
          /\ pc' = "ERR" => status' # 0
          /\ pc' = "images" => status' = 0
          /\ pc' # "ERR" => state' = IF arg.seek > 0 THEN "SKIPPING" ELSE "ENCODING"
      BY <1>2, <1>9 DEF E!Create
    <2>3. Seek'
      BY <1>2, <2>1 DEF Seek
    <2> QED BY <1>1, <2>1, <2>2, <2>3, SetsUp
  <1> HIDE DEF Same, Fresh, Goes, Within
  <1> QED BY <1>3, <1>4, <1>5, <1>6, <1>7, <1>8, <1>9

\* The pointers to images.
Pointers == {"i", "rec", "r", "w"}

\* What imgb_create makes when it makes something.
LEMMA CreateOk ==
  ASSUME NEW width, NEW c, NEW d, E!ImgbCreate(width, c, d) # E!NoImage
  PROVE  /\ width \in 1..MaxW /\ c \in DOMAIN E!Planes
         /\ E!ImgbCreate(width, c, d)
              = [w |-> width, cf |-> c, depth |-> d, shape |-> E!Planes[c], pic |-> E!Blank]
  BY DEF E!ImgbCreate, E!InRange

\* The instance of Cardinality that AppEnc brings along.
LEMMA CardE == ASSUME NEW S PROVE E!Cardinality(S) = Cardinality(S)
  BY DEF E!Cardinality, Cardinality

\* The images to be created: one for each pointer the loop will use, and no
\* pointer twice.
LEMMA WantedAre ==
  /\ Len(E!Wanted) \in 1..4
  /\ \A n \in 1..Len(E!Wanted) :
       /\ E!Wanted[n] \in Pointers
       /\ \A m \in 1..Len(E!Wanted) : E!Wanted[m] = E!Wanted[n] => m = n
  /\ \E n \in 1..Len(E!Wanted) : E!Wanted[n] = "i"
  /\ E!Converts => \E n \in 1..Len(E!Wanted) : E!Wanted[n] = "r"
  /\ rec # NoFile => \E n \in 1..Len(E!Wanted) : E!Wanted[n] = "rec"
  /\ E!Converts /\ rec # NoFile => \E n \in 1..Len(E!Wanted) : E!Wanted[n] = "w"
  <1> DEFINE wants == E!Wanted
  <1>1. CASE E!Converts /\ rec # NoFile
    <2>1. wants = <<"r", "i", "w", "rec">>
      BY <1>1 DEF E!Wanted
    <2> QED BY <1>1, <2>1 DEF Pointers
  <1>2. CASE E!Converts /\ rec = NoFile
    <2>1. wants = <<"r", "i">>
      BY <1>2 DEF E!Wanted
    <2> QED BY <1>2, <2>1 DEF Pointers
  <1>3. CASE ~E!Converts /\ rec # NoFile
    <2>1. wants = <<"i", "rec">>
      BY <1>3 DEF E!Wanted
    <2> QED BY <1>3, <2>1 DEF Pointers
  <1>4. CASE ~E!Converts /\ rec = NoFile
    <2>1. wants = <<"i">>
      BY <1>4 DEF E!Wanted
    <2> QED BY <1>4, <2>1 DEF Pointers
  <1> QED BY <1>1, <1>2, <1>3, <1>4

\* All images are created, or some and the program ends.
LEMMA EncCreates ==
  ASSUME EncInv, E!Images
  PROVE  EncInv'
  <1> DEFINE wants == E!Wanted
  <1>1. /\ pc = "images" /\ imgs = NoImages /\ nimg = 0 /\ mid = {}
        /\ au_cnt = 0 /\ au_skip = 0 /\ pos = 0
        /\ coded \in {NoFile, <<>>} /\ rec \in {NoFile, E!Empty}
        /\ state = IF arg.seek > 0 THEN "SKIPPING" ELSE "ENCODING"
    BY DEF EncInv, EncBegins, E!Images
  <1>2. PICK have \in 0..Len(wants) :
          /\ \A n \in 1..have : E!Made(wants[n]) # E!NoImage
          /\ imgs' = E!Set(have) /\ nimg' = nimg + have
          /\ IF have = Len(wants) /\ E!PayloadsParse
             THEN pc' = "read" /\ status' = status /\ mid' = E!Payloads
             ELSE E!Error /\ mid' = mid
    BY DEF E!Images
  <1>3. UNCHANGED <<cmd, video, arg, held, cf, state, au_cnt, au_skip, pos, coded, rec>>
    BY DEF E!Images, E!files, E!run
  <1>4. imgs' = [p \in Pointers |-> IF \E n \in 1..have : wants[n] = p THEN E!Made(p) ELSE E!NoImage]
    <2>1. DOMAIN imgs = Pointers /\ \A p \in Pointers : imgs[p] = E!NoImage
      BY <1>1 DEF NoImages, Pointers
    <2> QED BY <1>2, <2>1 DEF E!Set
  <1>5. have \in Nat /\ have \in 0..4 /\ \A n \in 1..have : n \in 1..Len(wants)
    BY <1>2, WantedAre
  <1> HIDE DEF wants
  <1>6. E!Pointed' = have
    <2> DEFINE S == {p \in DOMAIN imgs : imgs[p] # E!NoImage}
               f == [n \in 1..have |-> wants[n]]
    <2>1. S' = {p \in Pointers : \E n \in 1..have : wants[n] = p}
      BY <1>2, <1>4
    <2>2. \A m, n \in 1..have : wants[m] \in Pointers /\ (wants[m] = wants[n] => m = n)
      BY <1>5, WantedAre DEF wants
    <2>3. f \in Bijection(1..have, S')
      <3>1. f \in [1..have -> S'] /\ \A m, n \in 1..have : f[m] = f[n] => m = n
        BY <2>1, <2>2
      <3>2. \A p \in S' : \E n \in 1..have : f[n] = p
        BY <2>1
      <3> HIDE DEF f, S
      <3> QED BY <3>1, <3>2, Fun_IsBij
    <2> HIDE DEF S, f
    <2>4. ExistsBijection(1..have, S')
      BY <2>3 DEF ExistsBijection
    <2>5. Cardinality(S') = have
      BY <1>5, <2>4, FS_CountingElements
    <2>6. E!Pointed' = E!Cardinality(S')
      BY DEF E!Pointed, S
    <2> QED BY <2>5, <2>6, CardE
  <1>7. imgs' = [i |-> imgs'.i, rec |-> imgs'.rec, r |-> imgs'.r, w |-> imgs'.w]
    BY <1>4 DEF Pointers
  <1>8. CASE E!Error
    <2>1. pc' = "ERR" /\ status' # 0 /\ mid' = mid
      BY <1>2, <1>8 DEF E!Error
    <2>2. EncBegins' /\ EncOptions' /\ EncImages' /\ EncGoesOn'
      BY <2>1 DEF EncBegins, EncOptions, EncImages, EncGoesOn, Loop
    <2>3. EncHolds'
      <3>1. held' = held
        BY DEF E!Images
      <3> QED BY <1>1, <1>2, <1>3, <1>5, <1>6, <1>7, <2>1, <3>1 DEF EncInv, EncHolds
    <2>4. EncSucceeds'
      BY <1>1, <1>3, <2>1 DEF EncInv, EncSucceeds, Loop
    <2>5. EncFiles'
      BY <1>1, <1>3, <2>1 DEF EncFiles, EncInv, IsSeq, E!Empty, E!CodedInOrder, E!LabelsAreTrue, E!Pictures
    <2> QED BY <2>2, <2>3, <2>4, <2>5 DEF EncInv
  <1>9. CASE ~E!Error
    <2>1. have = Len(wants) /\ pc' = "read" /\ status' = status /\ mid' = E!Payloads
      BY <1>2, <1>9
    <2>a. \A n \in 1..Len(wants) : imgs'[wants[n]] = E!Made(wants[n]) /\ E!Made(wants[n]) # E!NoImage
      BY <1>2, <1>4, <2>1, WantedAre DEF wants
    <2>2. EncImages'
      <3>1. imgs'.i = E!New(E!CodecDepth(arg.profile)) /\ imgs'.i # E!NoImage
        BY <2>a, WantedAre DEF wants, E!Made, E!CodecImage
      <3>2. arg.width \in 1..MaxW /\ cf \in DOMAIN E!Planes /\ Codec(imgs'.i)
        BY <3>1, CreateOk DEF E!New, Codec, Is
      <3>3. E!Converts => Plain(imgs'.r)
        BY <2>a, WantedAre, CreateOk DEF wants, E!Made, E!New, Plain, Is
      <3>4. rec # NoFile => Codec(imgs'.rec)
        BY <2>a, WantedAre, CreateOk DEF wants, E!Made, E!New, E!CodecImage, Codec, Is
      <3>5. E!Converts /\ rec # NoFile => Plain(imgs'.w)
        BY <2>a, WantedAre, CreateOk DEF wants, E!Made, E!New, Plain, Is
      <3>6. UNCHANGED <<arg, cf, rec>> /\ (E!Converts' <=> E!Converts)
        BY <1>3 DEF E!Converts
      <3> QED BY <3>2, <3>3, <3>4, <3>5, <3>6 DEF EncImages, Codec, Plain, Is
    <2>3. EncHolds'
      <3>1. held' = held
        BY DEF E!Images
      <3> QED BY <1>1, <1>2, <1>3, <1>5, <1>6, <1>7, <2>1, <3>1 DEF EncInv, EncHolds, Loop
    <2>4. EncSucceeds'
      BY <1>1, <1>3, <2>1 DEF EncInv, EncSucceeds, Loop
    <2>5. EncFiles'
      BY <1>1, <1>3, <2>1 DEF EncFiles, EncInv, IsSeq, E!Empty, E!CodedInOrder, E!LabelsAreTrue, E!Pictures
    <2>6. EncGoesOn'
      <3>1. arg.seek \in Int /\ UNCHANGED <<arg, state, coded, rec, au_skip>>
        BY <1>1, <1>3 DEF EncInv, EncOptions, Seek
      <3>2. /\ Passed' = 0 /\ E!Pictures(rec)' = <<>> /\ mid' = E!Payloads'
            /\ coded # NoFile /\ rec # NoFile => Len(rec.pics) = Len(coded)
        <4>1. Passed' = 0 /\ mid' = E!Payloads'
          BY <1>1, <1>3, <2>1 DEF Passed, E!Payloads
        <4>2. CASE rec = NoFile
          BY <4>1, <4>2, <1>3 DEF E!Pictures
        <4>3. CASE rec # NoFile
          <5>1. rec = E!Empty /\ rec.pics = <<>> /\ (coded # NoFile => coded = <<>>)
            BY <1>1, <4>3 DEF E!Empty
          <5> QED BY <1>3, <4>1, <4>3, <5>1 DEF E!Pictures
        <4> QED BY <4>2, <4>3
      <3>3. au_skip' = 0 /\ (state' = "SKIPPING" => arg.seek > 0)
            /\ (state' = "ENCODING" => arg.seek <= 0)
        BY <1>1, <1>3, <3>1
      <3> QED BY <1>1, <2>1, <3>1, <3>2, <3>3 DEF EncGoesOn
    <2>7. EncBegins' /\ EncOptions'
      BY <1>1, <1>3, <2>1 DEF EncInv, EncBegins, EncOptions, Seek, Loop
    <2> QED BY <2>2, <2>3, <2>4, <2>5, <2>6, <2>7 DEF EncInv
  <1> QED BY <1>8, <1>9

\* The loop is left: with an error, or because all is done.
LEMMA EncLeaves ==
  ASSUME EncInv, pc \in Loop, pc' = "ERR", \/ status' # 0
                                           \/ status' = status /\ AllDone,
         UNCHANGED <<video, arg, held, nimg, cf, imgs, state, pos, au_cnt, coded, rec>>
  PROVE  EncInv'
  <1>1. EncBegins' /\ EncOptions' /\ EncImages' /\ EncGoesOn'
    BY DEF EncBegins, EncOptions, EncImages, EncGoesOn, Loop
  <1>2. EncHolds'
    BY DEF EncInv, EncHolds, Loop, E!Pointed
  <1>3. EncSucceeds'
    <2>1. AllDone => AllDone'
      BY DEF AllDone, E!More, E!Reader, E!Converts
    <2> QED BY <2>1 DEF EncInv, EncSucceeds, Loop, IsSeq
  <1>4. EncFiles'
    <2>1. E!Payloads' = E!Payloads /\ E!Pictures(rec)' = E!Pictures(rec)
      BY DEF E!Payloads, E!Pictures
    <2>2. E!CodedInOrder'
      <3>1. status' = 0 => status = 0
        OBVIOUS
      <3>2. E!CodedInOrder
        BY DEF EncInv, EncFiles
      <3> QED BY <2>1, <3>1, <3>2 DEF E!CodedInOrder, E!Payloads, E!Pictures
    <2>3. E!LabelsAreTrue'
      BY DEF EncInv, EncFiles, E!LabelsAreTrue, E!Pictures
    <2>4. rec # NoFile => rec = [heads |-> rec.heads, pics |-> rec.pics] /\ IsSeq(rec.pics)
      BY DEF EncInv, EncFiles
    <2>5. /\ coded # NoFile => \A n \in DOMAIN coded : coded[n].pic.of \in Nat
          /\ coded # NoFile /\ rec # NoFile => Len(rec.pics) <= Len(coded)
      BY DEF EncInv, EncFiles
    <2> QED BY <2>2, <2>3, <2>4, <2>5 DEF EncFiles, IsSeq
  <1> QED BY <1>1, <1>2, <1>3, <1>4 DEF EncInv

\* The loop is left at its head, behind a failed call, or at the end asked for.
LEMMA EncStops ==
  ASSUME EncInv, E!Summary \/ E!EncodeFails \/ E!Stop
  PROVE  EncInv'
  <1>1. pc \in Loop /\ pc' = "ERR"
    BY DEF E!Summary, E!EncodeFails, E!Stop, E!Error, Loop
  <1>2. UNCHANGED <<video, arg, held, nimg, cf, imgs, state, pos, au_cnt, coded, rec>>
    BY DEF E!Summary, E!EncodeFails, E!Stop, E!files, E!setup, E!run
  <1>3. \/ status' # 0
        \/ status' = status /\ AllDone
    BY DEF E!Summary, E!EncodeFails, E!Stop, E!Error, EncInv, EncSucceeds, AllDone
  <1> QED BY <1>1, <1>2, <1>3, EncLeaves

\* The label ERR releases every image there is, and all that is held.
LEMMA EncCleansUp ==
  ASSUME EncInv, E!Cleanup
  PROVE  EncInv'
  <1>1. /\ pc = "ERR" /\ pc' = "exit"
        /\ held' = held \ {"id", "mid", "fp", "bs_buf", "args", "args_var"}
        /\ nimg' = nimg - E!Pointed
        /\ UNCHANGED <<video, status, arg, cf, mid, imgs, state, au_cnt, au_skip, pos, coded, rec>>
    BY DEF E!Cleanup, E!files, E!run
  <1>2. EncBegins' /\ EncOptions' /\ EncImages' /\ EncGoesOn'
    BY <1>1 DEF EncBegins, EncOptions, EncImages, EncGoesOn, Loop
  <1>3. EncHolds'
    <2>1. nimg = E!Pointed /\ held \subseteq {"args", "args_var", "fp", "bs_buf", "id", "mid"}
      BY <1>1 DEF EncInv, EncHolds
    <2>2. nimg \in Nat
      <3>1. IsFiniteSet({p \in DOMAIN imgs : imgs[p] # E!NoImage})
        <4>1. DOMAIN imgs = {"i", "rec", "r", "w"}
          BY DEF EncInv, EncHolds
        <4>2. IsFiniteSet({"i", "rec", "r", "w"})
          <5>1. IsFiniteSet({"i"} \cup {"rec"})
            BY FS_Singleton, FS_AddElement
          <5>2. IsFiniteSet(({"i"} \cup {"rec"}) \cup {"r"})
            BY <5>1, FS_AddElement
          <5>3. IsFiniteSet((({"i"} \cup {"rec"}) \cup {"r"}) \cup {"w"})
            BY <5>2, FS_AddElement
          <5>4. {"i", "rec", "r", "w"} = (({"i"} \cup {"rec"}) \cup {"r"}) \cup {"w"}
            OBVIOUS
          <5> QED BY <5>3, <5>4
        <4>3. {p \in DOMAIN imgs : imgs[p] # E!NoImage} \subseteq DOMAIN imgs
          OBVIOUS
        <4> QED BY <4>1, <4>2, <4>3, FS_Subset
      <3> QED BY <2>1, <3>1, CardE, FS_CardinalityType DEF E!Pointed
    <2>3. nimg' = 0 /\ held' = {}
      BY <1>1, <2>1, <2>2
    <2> QED BY <1>1, <2>3 DEF EncInv, EncHolds
  <1>4. EncSucceeds'
    <2>1. AllDone' = AllDone
      BY <1>1 DEF AllDone, E!More, E!Reader, E!Converts
    <2> QED BY <1>1, <2>1 DEF EncInv, EncSucceeds, Loop, IsSeq
  <1>5. EncFiles'
    <2>1. E!CodedInOrder'
      BY <1>1 DEF EncInv, EncFiles, E!CodedInOrder, E!Payloads, E!Pictures
    <2>2. E!LabelsAreTrue'
      BY <1>1 DEF EncInv, EncFiles, E!LabelsAreTrue, E!Pictures
    <2> QED BY <1>1, <2>1, <2>2 DEF EncInv, EncFiles, IsSeq
  <1> QED BY <1>2, <1>3, <1>4, <1>5 DEF EncInv

\* What reading and copying leave of an image.
LEMMA ReadKeeps ==
  ASSUME NEW img, NEW d, Is(img, d), NEW n \in Nat
  PROVE  /\ Is(E!ImgbRead(video, img, n), d)
         /\ E!HasPicture(video, img, n) => E!ImgbRead(video, img, n).pic = E!Whole(n + 1, d)
  BY DEF Is, E!ImgbRead

\* The sizes of planes are numbers.
LEMMA PlaneSizes ==
  \A c \in DOMAIN E!Planes : \A p \in DOMAIN E!Planes[c] : E!Planes[c][p] \in Nat
  BY DEF E!Planes

\* An image with other samples is an image of the same kind.
LEMMA Repainted ==
  ASSUME NEW dst, NEW d, Is(dst, d), NEW pic
  PROVE  Is([dst EXCEPT !.pic = pic, !.shape = E!Planes[cf]], d)
  <1> DEFINE new == [dst EXCEPT !.pic = pic, !.shape = E!Planes[cf]]
  <1>1. DOMAIN dst = {"w", "cf", "depth", "shape", "pic"}
    BY DEF Is
  <1>2. /\ new = [f \in DOMAIN dst |-> new[f]]
        /\ DOMAIN new = {"w", "cf", "depth", "shape", "pic"}
        /\ new.w = dst.w /\ new.cf = dst.cf /\ new.depth = dst.depth
        /\ new.shape = E!Planes[cf]
    BY <1>1
  <1>3. dst.w = arg.width /\ dst.cf = cf /\ dst.depth = d
    BY DEF Is
  <1> HIDE DEF new
  <1>4. new = [w |-> new.w, cf |-> new.cf, depth |-> new.depth, shape |-> new.shape, pic |-> new.pic]
    BY <1>1, <1>2
  <1> QED BY <1>2, <1>3, <1>4 DEF Is, new

\* A copy leaves the kind of the destination (imgb_cpy).
LEMMA CpyKeeps ==
  ASSUME NEW dst, NEW d, Is(dst, d), NEW src, NEW e, Is(src, e)
  PROVE  Is(E!ImgbCpy(dst, src), d)
  <1> DEFINE pic == [src.pic EXCEPT !.bits = @ + (dst.depth - src.depth)]
  <1>1. \/ E!ImgbCpy(dst, src) = dst
        \/ E!ImgbCpy(dst, src) = [dst EXCEPT !.pic = pic, !.shape = src.shape]
    BY DEF E!ImgbCpy
  <1>2. src.shape = E!Planes[cf]
    BY DEF Is
  <1> HIDE DEF pic
  <1>3. Is([dst EXCEPT !.pic = pic, !.shape = E!Planes[cf]], d)
    BY Repainted
  <1> QED BY <1>1, <1>2, <1>3

\* A copy shows what the source shows, in the depth of the destination.
LEMMA CpyShows ==
  ASSUME NEW dst, NEW d \in 8..16, Is(dst, d), NEW src, NEW e \in 8..16, Is(src, e),
         cf \in DOMAIN E!Planes, NEW n, src.pic = E!Whole(n, e)
  PROVE  E!ImgbCpy(dst, src).pic = E!Whole(n, d)
  <1>1. /\ dst.shape = E!Planes[cf] /\ src.shape = E!Planes[cf] /\ dst.cf = cf /\ src.cf = cf
        /\ dst.depth = d /\ src.depth = e
    BY DEF Is
  <1>2. E!CpyIsValid(dst, src)
    BY <1>1, PlaneSizes DEF E!CpyIsValid
  <1>3. E!ImgbCpy(dst, src)
          = [dst EXCEPT !.pic = [src.pic EXCEPT !.bits = @ + (d - e)], !.shape = src.shape]
    BY <1>1, <1>2 DEF E!ImgbCpy
  <1>4. [src.pic EXCEPT !.bits = @ + (d - e)] = E!Whole(n, d)
    BY DEF E!Whole
  <1>5. "pic" \in DOMAIN dst
    BY DEF Is
  <1> QED BY <1>3, <1>4, <1>5

\* A pointer to an image of a kind points to an image.
LEMMA ThereIs ==
  ASSUME NEW img, NEW d, Is(img, d), arg.width \in 1..MaxW
  PROVE  img # E!NoImage
  BY DEF Is, E!NoImage

\* The depths the codec works in.
LEMMA Depths == E!CodecDepth(arg.profile) \in {10, 12, 16}
  BY DEF E!CodecDepth
\* A step that leaves the files and the options alone.
LEMMA FilesKept ==
  ASSUME EncInv, UNCHANGED <<arg, coded, rec>>, status' = 0 => status = 0
  PROVE  EncFiles'
  <1>1. E!Payloads' = E!Payloads /\ E!Pictures(rec)' = E!Pictures(rec)
    BY DEF E!Payloads, E!Pictures
  <1>2. E!CodedInOrder'
    <2>1. E!CodedInOrder
      BY DEF EncInv, EncFiles
    <2> QED BY <1>1, <2>1 DEF E!CodedInOrder, E!Payloads, E!Pictures
  <1>3. E!LabelsAreTrue'
    BY DEF EncInv, EncFiles, E!LabelsAreTrue, E!Pictures
  <1>4. rec # NoFile => rec = [heads |-> rec.heads, pics |-> rec.pics] /\ IsSeq(rec.pics)
    BY DEF EncInv, EncFiles
  <1>5. /\ coded # NoFile => \A n \in DOMAIN coded : coded[n].pic.of \in Nat
        /\ coded # NoFile /\ rec # NoFile => Len(rec.pics) <= Len(coded)
    BY DEF EncInv, EncFiles
  <1> QED BY <1>2, <1>3, <1>4, <1>5 DEF EncFiles, IsSeq

\* A picture is passed over, or the first one asked for is at hand.
LEMMA EncSkips ==
  ASSUME EncInv, E!Skip \/ E!SkipEnds
  PROVE  EncInv'
  <1>1. /\ pc = "code" /\ pc' = "read" /\ state = "SKIPPING" /\ state' \in {"SKIPPING", "ENCODING"}
    BY DEF E!Skip, E!SkipEnds, E!run
  <1>2. UNCHANGED <<cmd, video, status, arg, held, nimg, imgs, cf, au_cnt, pos, coded, rec>>
    BY DEF E!Skip, E!SkipEnds, E!files, E!setup, E!run
  <1>3. EncBegins' /\ EncOptions'
    BY <1>1, <1>2 DEF EncInv, EncBegins, EncOptions, Seek, Loop
  <1>4. EncImages'
    BY <1>1, <1>2 DEF EncInv, EncImages, Loop, Codec, Plain, Is, E!Converts
  <1>5. EncHolds'
    BY <1>1, <1>2 DEF EncInv, EncHolds, Loop, E!Pointed
  <1>6. EncSucceeds'
    BY <1>1, <1>2 DEF EncInv, EncSucceeds, Loop, IsSeq
  <1>7. EncFiles'
    BY <1>2, FilesKept
  <1>8. EncGoesOn'
    <2>1. /\ Seek /\ au_skip \in Nat /\ pos \in Nat /\ au_skip = pos - 1 /\ arg.seek > 0
          /\ coded \in {NoFile, <<>>} /\ E!Pictures(rec) = <<>>
          /\ coded # NoFile /\ rec # NoFile => Len(rec.pics) = Len(coded)
      BY <1>1 DEF EncInv, EncOptions, EncGoesOn, EncSucceeds, Loop, Passed
    <2>2. Passed' = pos /\ E!Pictures(rec)' = <<>>
      BY <1>1, <1>2, <2>1 DEF Passed, E!Pictures
    <2>3. CASE E!Skip
      <3>1. au_skip' = au_skip + 1 /\ state' = "SKIPPING"
        BY <1>1, <2>3 DEF E!Skip
      <3> QED BY <1>1, <1>2, <2>1, <2>2, <3>1 DEF EncGoesOn, Seek
    <2>4. CASE E!SkipEnds
      <3>1. au_skip' = au_skip /\ state' = "ENCODING" /\ au_skip >= arg.seek
        BY <2>4 DEF E!SkipEnds
      <3> QED BY <1>1, <1>2, <2>1, <2>2, <3>1 DEF EncGoesOn, Seek
    <2> QED BY <2>3, <2>4
  <1> QED BY <1>3, <1>4, <1>5, <1>6, <1>7, <1>8 DEF EncInv

\* The pointers, when a picture is exchanged.
LEMMA PointedKept ==
  ASSUME EncInv, NEW new,
         DOMAIN new = Pointers,
         \A p \in Pointers : new[p] = E!NoImage <=> imgs[p] = E!NoImage,
         imgs' = new
  PROVE  E!Pointed' = E!Pointed
  <1>1. DOMAIN imgs = Pointers
    BY DEF EncInv, EncHolds, Pointers
  <1>2. {p \in DOMAIN new : new[p] # E!NoImage} = {p \in DOMAIN imgs : imgs[p] # E!NoImage}
    BY <1>1
  <1> QED BY <1>2 DEF E!Pointed

\* A picture is read, as it is or through a conversion.
LEMMA EncReads ==
  ASSUME EncInv, E!Read
  PROVE  EncInv'
  <1> DEFINE old == imgs[E!Reader]
             img == E!ImgbRead(video, old, pos)
             ok  == E!HasPicture(video, old, pos)
             codec == E!CodecDepth(arg.profile)
             ni == IF E!Converts THEN (IF ok THEN E!ImgbCpy(imgs.i, img) ELSE imgs.i) ELSE img
             nr == IF E!Converts THEN img ELSE imgs.r
             new == [i |-> ni, rec |-> imgs.rec, r |-> nr, w |-> imgs.w]
  <1>1. /\ pc = "read" /\ pc' = "code" /\ status' = 0
        /\ state' = (IF ok THEN state ELSE "STOP")
        /\ pos' = (IF ok THEN pos + 1 ELSE pos)
        /\ UNCHANGED <<cmd, video, arg, held, nimg, cf, mid, au_cnt, au_skip, coded, rec>>
    BY DEF E!Read, E!files
  <1>2. /\ arg.width \in 1..MaxW /\ cf \in DOMAIN E!Planes
        /\ Is(imgs.i, codec) /\ (E!Converts => Is(imgs.r, arg.depth))
        /\ rec # NoFile => Is(imgs.rec, codec) /\ (E!Converts => Is(imgs.w, arg.depth))
    BY <1>1 DEF EncInv, EncImages, Loop, Codec, Plain
  <1>3. imgs = [i |-> imgs.i, rec |-> imgs.rec, r |-> imgs.r, w |-> imgs.w]
    BY DEF EncInv, EncHolds
  <1>4. imgs' = new
    <2>1. imgs' = IF ok /\ E!Converts
                  THEN [imgs EXCEPT !.r = img, !.i = E!ImgbCpy(imgs.i, img)]
                  ELSE [imgs EXCEPT ![E!Reader] = img]
      BY DEF E!Read
    <2> HIDE DEF img, ok
    <2>2. CASE E!Converts
      BY <1>3, <2>1, <2>2 DEF E!Reader
    <2>3. CASE ~E!Converts
      BY <1>3, <2>1, <2>3 DEF E!Reader
    <2> QED BY <2>2, <2>3
  <1>5. pos \in Nat /\ video.pics \in Nat /\ pos \in 0..video.pics /\ codec \in {10, 12, 16}
    BY Depths DEF EncInv, EncSucceeds
  <1>6. /\ Is(img, IF E!Converts THEN arg.depth ELSE codec)
        /\ ok => img.pic = E!Whole(pos + 1, IF E!Converts THEN arg.depth ELSE codec)
        /\ old.depth = IF E!Converts THEN arg.depth ELSE codec
    <2>1. Is(old, IF E!Converts THEN arg.depth ELSE codec)
      BY <1>2 DEF E!Reader
    <2> HIDE DEF old
    <2>2. /\ Is(img, IF E!Converts THEN arg.depth ELSE codec)
          /\ ok => img.pic = E!Whole(pos + 1, IF E!Converts THEN arg.depth ELSE codec)
      BY <1>5, <2>1, ReadKeeps
    <2>3. old.depth = IF E!Converts THEN arg.depth ELSE codec
      BY <2>1 DEF Is
    <2> QED BY <2>2, <2>3
  <1>7. ok => pos < video.pics /\ E!Readable(old.depth)
    BY DEF E!HasPicture
  <1>8. ~ok => pos = video.pics \/ ~E!Readable(old.depth)
    BY <1>5 DEF E!HasPicture
  <1> HIDE DEF old, img, ok
  <1>9. Is(ni, codec) /\ (E!Converts => Is(nr, arg.depth))
    <2>1. CASE E!Converts
      <3>1. Is(E!ImgbCpy(imgs.i, img), codec)
        BY <1>2, <1>6, <2>1, CpyKeeps
      <3> QED BY <1>2, <1>6, <2>1, <3>1
    <2>2. CASE ~E!Converts
      BY <1>6, <2>2
    <2> QED BY <2>1, <2>2
  <1>10. ok => ni.pic = E!Whole(pos + 1, codec) /\ (E!Converts => arg.depth \in 8..16)
    <2> SUFFICES ASSUME ok PROVE ni.pic = E!Whole(pos + 1, codec) /\ (E!Converts => arg.depth \in 8..16)
      OBVIOUS
    <2>1. CASE E!Converts
      <3>1. arg.depth \in 8..16
        BY <1>6, <1>7, <2>1 DEF E!Readable
      <3>2. codec \in 8..16
        BY <1>5
      <3> HIDE DEF codec
      <3>3. E!ImgbCpy(imgs.i, img).pic = E!Whole(pos + 1, codec)
        BY <1>2, <1>6, <2>1, <3>1, <3>2, CpyShows
      <3> QED BY <2>1, <3>1, <3>3
    <2>2. CASE ~E!Converts
      BY <1>6, <2>2
    <2> QED BY <2>1, <2>2
  <1> HIDE DEF ni, nr, codec
  <1>11. E!Pointed' = E!Pointed
    <2>1. ni # E!NoImage /\ imgs.i # E!NoImage /\ (E!Converts => nr # E!NoImage /\ imgs.r # E!NoImage)
      BY <1>2, <1>9, ThereIs
    <2>2. DOMAIN new = Pointers
      BY DEF Pointers
    <2>3. ~E!Converts => nr = imgs.r
      BY DEF nr
    <2>4. \A p \in Pointers : new[p] = E!NoImage <=> imgs[p] = E!NoImage
      BY <2>1, <2>3 DEF Pointers
    <2> HIDE DEF new
    <2> QED BY <1>4, <2>2, <2>4, PointedKept
  <1>12. E!Converts' = E!Converts /\ E!Reader' = E!Reader
    BY <1>1 DEF E!Converts, E!Reader
  <1>13. /\ imgs'.i = ni /\ imgs'.r = nr /\ imgs'.rec = imgs.rec /\ imgs'.w = imgs.w
         /\ imgs' = [i |-> imgs'.i, rec |-> imgs'.rec, r |-> imgs'.r, w |-> imgs'.w]
    BY <1>4
  <1>14. EncBegins' /\ EncOptions'
    BY <1>1 DEF EncInv, EncBegins, EncOptions, Seek, Loop
  <1>15. EncImages'
    BY <1>1, <1>2, <1>9, <1>12, <1>13 DEF EncImages, Codec, Plain, Is, codec
  <1>16. EncHolds'
    BY <1>1, <1>11, <1>13 DEF EncInv, EncHolds, Loop
  <1>17. EncSucceeds'
    <2>1. ~ok => AllDone'
      <3>1. imgs'[E!Reader'].depth = IF E!Converts THEN arg.depth ELSE codec
        BY <1>9, <1>12, <1>13 DEF Is, E!Reader
      <3> QED BY <1>1, <1>6, <1>8, <3>1 DEF AllDone
    <2>2. pos' \in 0..video.pics
      BY <1>1, <1>5, <1>7
    <2>3. /\ status = 0 /\ state \in {"ENCODING", "SKIPPING"} /\ au_cnt \in Nat
          /\ coded # NoFile => IsSeq(coded) /\ Len(coded) = au_cnt
      BY <1>1 DEF EncInv, EncSucceeds, Loop
    <2> QED BY <1>1, <1>5, <2>1, <2>2, <2>3 DEF EncSucceeds, IsSeq
  <1>18. EncFiles'
    <2>1. status = 0
      BY <1>1 DEF EncInv, EncSucceeds, Loop
    <2> QED BY <1>1, <2>1, FilesKept
  <1>19. EncGoesOn'
    <2>1. /\ au_skip \in Nat
          /\ state = "SKIPPING" =>
               arg.seek > 0 /\ au_skip = pos /\ coded \in {NoFile, <<>>} /\ E!Pictures(rec) = <<>>
          /\ state = "ENCODING" => arg.seek <= pos
          /\ coded \notin {NoFile, <<>>} =>
               mid = {} /\ (state # "STOP" => coded[1].pic.of + Len(coded) - 1 = pos)
          /\ coded = <<>> /\ arg.seek = 0 => mid = E!Payloads
          /\ coded # NoFile /\ rec # NoFile => Len(rec.pics) = Len(coded)
      BY <1>1 DEF EncInv, EncGoesOn, Loop, Passed
    <2>2. ok => Loaded' /\ Passed' = pos
      BY <1>1, <1>5, <1>10, <1>12, <1>13 DEF Loaded, Passed, codec
    <2>3. E!Pictures(rec)' = E!Pictures(rec) /\ E!Payloads' = E!Payloads
      BY <1>1 DEF E!Pictures, E!Payloads
    <2>4. CASE ok
      <3>1. state' = state /\ Loaded' /\ Passed' = pos
        BY <1>1, <2>2, <2>4
      <3> QED BY <1>1, <2>1, <2>3, <3>1 DEF EncGoesOn
    <2>5. CASE ~ok
      <3>1. state' = "STOP"
        BY <1>1, <2>5
      <3> QED BY <1>1, <2>1, <2>3, <3>1 DEF EncGoesOn
    <2> QED BY <2>4, <2>5
  <1> QED BY <1>14, <1>15, <1>16, <1>17, <1>18, <1>19 DEF EncInv

\* A sequence is its own table of values.
LEMMA SeqIsSeq == ASSUME NEW S, NEW s \in Seq(S) PROVE IsSeq(s) /\ DOMAIN s = 1..Len(s)
  BY DEF IsSeq

\* One more element.
LEMMA Appended ==
  ASSUME NEW s, IsSeq(s), NEW e
  PROVE  /\ IsSeq(Append(s, e)) /\ Len(Append(s, e)) = Len(s) + 1
         /\ DOMAIN Append(s, e) = 1..(Len(s) + 1) /\ DOMAIN s = 1..Len(s)
         /\ \A n \in 1..Len(s) : Append(s, e)[n] = s[n]
         /\ Append(s, e)[Len(s) + 1] = e
  <1> DEFINE S == {s[n] : n \in 1..Len(s)} \cup {e}
             t == Append(s, e)
  <1>1. s = [n \in 1..Len(s) |-> s[n]] /\ Len(s) \in Nat
    BY DEF IsSeq
  <1>2. s \in [1..Len(s) -> S]
    <2>1. \A n \in 1..Len(s) : s[n] \in S
      OBVIOUS
    <2> HIDE DEF S
    <2> QED BY <1>1, <2>1
  <1> HIDE DEF S
  <1>3. s \in Seq(S)
    BY <1>1, <1>2
  <1>4. e \in S
    BY DEF S
  <1>5. t \in Seq(S) /\ Len(t) = Len(s) + 1 /\ t[Len(s) + 1] = e
        /\ \A n \in 1..Len(s) : t[n] = s[n]
    BY <1>3, <1>4, AppendProperties
  <1>6. DOMAIN s = 1..Len(s) /\ DOMAIN t = 1..Len(t)
    BY <1>3, <1>5
  <1>7. IsSeq(t)
    BY <1>5, SeqIsSeq
  <1>8. DOMAIN t = 1..(Len(s) + 1)
    BY <1>5, <1>6
  <1> QED BY <1>5, <1>6, <1>7, <1>8, Zenon

\* What oapve_encode and the conversion after it make of the images.
Encoded == IF rec = NoFile THEN imgs ELSE E!Shown(E!Recon)

\* The images behind a call of oapve_encode and the conversion that follows:
\* those of the picture read stay, those of the reconstruction show it too.
LEMMA EncodedIs ==
  ASSUME EncInv, pc = "code", state = "ENCODING"
  PROVE  /\ Encoded = [i |-> imgs.i, rec |-> Encoded.rec, r |-> imgs.r, w |-> Encoded.w]
         /\ rec = NoFile => Encoded = imgs
         /\ ~E!Converts => Encoded.w = imgs.w
         /\ rec # NoFile => Codec(Encoded.rec) /\ Encoded.rec.pic = imgs.i.pic
         /\ rec # NoFile /\ E!Converts =>
              Plain(Encoded.w) /\ Encoded.w.pic = E!Whole(pos, arg.depth)
  <1> DEFINE nrec == [imgs.rec EXCEPT !.pic = imgs.i.pic]
             codec == E!CodecDepth(arg.profile)
             nw == E!ImgbCpy(imgs.w, nrec)
  <1>1. imgs = [i |-> imgs.i, rec |-> imgs.rec, r |-> imgs.r, w |-> imgs.w]
    BY DEF EncInv, EncHolds
  <1>2. CASE rec = NoFile
    <2>1. Encoded = imgs
      BY <1>2 DEF Encoded
    <2> QED BY <1>1, <1>2, <2>1
  <1>3. CASE rec # NoFile
    <2>1. /\ cf \in DOMAIN E!Planes /\ Is(imgs.rec, codec)
          /\ E!Converts => Is(imgs.w, arg.depth)
      BY <1>3 DEF EncInv, EncImages, Loop, Codec, Plain
    <2>2. imgs.i.pic = E!Whole(pos, codec) /\ (E!Converts => arg.depth \in 8..16)
      BY DEF EncInv, EncGoesOn, Loaded, Loop
    <2>3. Is(nrec, codec) /\ nrec.pic = imgs.i.pic
      <3>1. imgs.rec = [w |-> arg.width, cf |-> cf, depth |-> codec, shape |-> E!Planes[cf],
                        pic |-> imgs.rec.pic]
        BY <2>1 DEF Is
      <3> HIDE DEF codec
      <3>2. nrec = [w |-> arg.width, cf |-> cf, depth |-> codec, shape |-> E!Planes[cf],
                    pic |-> imgs.i.pic]
        BY <3>1
      <3> QED BY <3>2 DEF Is
    <2>4. E!Recon = [i |-> imgs.i, rec |-> nrec, r |-> imgs.r, w |-> imgs.w]
      BY <1>1, <1>3 DEF E!Recon
    <2>5. codec \in 8..16
      BY Depths
    <2> HIDE DEF nrec, codec
    <2>6. CASE ~E!Converts
      <3>1. Encoded = [i |-> imgs.i, rec |-> nrec, r |-> imgs.r, w |-> imgs.w]
        BY <1>3, <2>4, <2>6 DEF Encoded, E!Shown
      <3>2. Encoded.rec = nrec /\ Encoded.w = imgs.w
        BY <3>1
      <3> QED BY <1>3, <2>3, <2>6, <3>1, <3>2 DEF Codec, codec
    <2>7. CASE E!Converts
      <3>1. Encoded = [i |-> imgs.i, rec |-> nrec, r |-> imgs.r, w |-> nw]
        <4>1. Encoded = [E!Recon EXCEPT !.w = E!ImgbCpy(E!Recon.w, E!Recon.rec)]
          BY <1>3, <2>7 DEF Encoded, E!Shown
        <4>2. E!Recon.w = imgs.w /\ E!Recon.rec = nrec
          BY <2>4
        <4> HIDE DEF nw
        <4>3. Encoded = [E!Recon EXCEPT !.w = nw]
          BY <4>1, <4>2 DEF nw
        <4> QED BY <2>4, <4>3
      <3>2. Is(nw, arg.depth)
        BY <2>1, <2>3, <2>7, CpyKeeps
      <3>3. nw.pic = E!Whole(pos, arg.depth)
        BY <2>1, <2>2, <2>3, <2>5, <2>7, CpyShows
      <3> HIDE DEF nw
      <3>4. Encoded.rec = nrec /\ Encoded.w = nw
        BY <3>1
      <3> QED BY <1>3, <2>3, <2>7, <3>1, <3>2, <3>3, <3>4 DEF Codec, Plain, codec
    <2> QED BY <2>6, <2>7
  <1> QED BY <1>2, <1>3

\* What a picture adds to the file of the reconstructed ones: itself, or
\* nothing when it cannot be written.
LEMMA WritesOne ==
  ASSUME NEW file, NEW img, NEW y4m, NEW first, NEW new,
         file = [heads |-> file.heads, pics |-> file.pics], IsSeq(file.pics),
         new = IF E!HeaderFits(img, y4m, first) THEN E!WriteImg(file, img, y4m, first) ELSE file
  PROVE  /\ new = [heads |-> new.heads, pics |-> new.pics] /\ IsSeq(new.pics)
         /\ new.pics = IF E!WriteFits(img, y4m, first) THEN Append(file.pics, img) ELSE file.pics
  <1> DEFINE headed == E!Headed(file, img, y4m, first)
  <1>1. headed = [heads |-> headed.heads, pics |-> headed.pics] /\ headed.pics = file.pics
    <2>1. CASE ~(y4m /\ first)
      BY <2>1 DEF E!Headed
    <2>2. CASE y4m /\ first
      <3>1. PICK h : headed = [file EXCEPT !.heads = h]
        BY <2>2 DEF E!Headed
      <3> HIDE DEF headed
      <3> QED BY <3>1
    <2> QED BY <2>1, <2>2
  <1> HIDE DEF headed
  <1>2. CASE E!WriteFits(img, y4m, first)
    <2>1. new = [headed EXCEPT !.pics = Append(@, img)]
      BY <1>2 DEF E!WriteFits, E!WriteImg, headed
    <2>2. new = [heads |-> headed.heads, pics |-> Append(file.pics, img)]
      <3> DEFINE longer == Append(file.pics, img)
      <3>1. new = [headed EXCEPT !.pics = longer]
        BY <1>1, <2>1
      <3> HIDE DEF longer
      <3>2. new = [heads |-> headed.heads, pics |-> longer]
        BY <1>1, <3>1
      <3> QED BY <3>2 DEF longer
    <2>3. IsSeq(Append(file.pics, img))
      BY Appended
    <2> DEFINE longer == Append(file.pics, img)
    <2>4. new = [heads |-> headed.heads, pics |-> longer] /\ IsSeq(longer)
      BY <2>2, <2>3
    <2> HIDE DEF longer
    <2>5. new = [heads |-> new.heads, pics |-> new.pics] /\ new.pics = longer
      BY <2>4
    <2> QED BY <1>2, <2>4, <2>5 DEF longer
  <1>3. CASE ~E!WriteFits(img, y4m, first)
    <2>1. new = headed \/ new = file
      BY <1>3 DEF E!WriteFits, E!WriteImg, headed
    <2> QED BY <1>1, <1>3, <2>1
  <1> QED BY <1>2, <1>3

\* A unit is written, and its reconstruction.
LEMMA EncEncodes ==
  ASSUME EncInv, AppsAssumption, E!Encode
  PROVE  EncInv'
  <1> DEFINE codec == E!CodecDepth(arg.profile)
             new == Encoded
             shown == E!Recorded(new)
             y4m == E!NameType(arg.recon) = 1
             fits == E!WriteFits(shown, y4m, E!First)
  <1>1. /\ pc = "code" /\ state = "ENCODING"
        /\ UNCHANGED <<cmd, video, arg, held, nimg, cf, state, au_skip, pos>>
    BY DEF E!Encode, E!files
  <1>2. E!Coded(new)
    BY DEF E!Encode, Encoded
  <1>3. /\ imgs' = new /\ coded' = E!Stored
        /\ rec = NoFile => rec' = rec
        /\ rec # NoFile => rec' = IF E!HeaderFits(shown, y4m, E!First)
                                  THEN E!WriteImg(rec, shown, y4m, E!First) ELSE rec
        /\ IF rec # NoFile /\ ~fits
           THEN pc' = "ERR" /\ status' = -1 /\ au_cnt' = au_cnt /\ mid' = E!Hashed
           ELSE pc' = "read" /\ status' = status /\ au_cnt' = au_cnt + 1 /\ mid' = {}
    BY <1>2 DEF E!Coded, E!Error
  <1>4. /\ Codec(imgs.i) /\ arg.width \in 1..MaxW /\ cf \in DOMAIN E!Planes
        /\ (E!Converts => Plain(imgs.r))
        /\ rec # NoFile => Codec(imgs.rec) /\ (E!Converts => Plain(imgs.w))
    BY <1>1 DEF EncInv, EncImages, Loop
  <1>5. /\ Encoded = [i |-> imgs.i, rec |-> Encoded.rec, r |-> imgs.r, w |-> Encoded.w]
        /\ rec = NoFile => Encoded = imgs
        /\ ~E!Converts => Encoded.w = imgs.w
        /\ rec # NoFile => Codec(Encoded.rec) /\ Encoded.rec.pic = imgs.i.pic
        /\ rec # NoFile /\ E!Converts =>
             Plain(Encoded.w) /\ Encoded.w.pic = E!Whole(pos, arg.depth)
    BY <1>1, EncodedIs
  <1>6. imgs.i.pic = E!Whole(pos, codec) /\ pos \in Nat \ {0} /\ Seek /\ arg.seek < pos
        /\ status = 0 /\ au_cnt \in Nat /\ codec \in {10, 12, 16}
    <2>1. arg.seek <= pos - 1 /\ Loaded
      BY <1>1 DEF EncInv, EncGoesOn, Loop, Passed
    <2>2. Seek
      BY <1>1 DEF EncInv, EncOptions, Loop
    <2>3. status = 0 /\ au_cnt \in Nat
      BY <1>1 DEF EncInv, EncSucceeds, Loop
    <2> QED BY <2>1, <2>2, <2>3, Depths DEF Loaded, Seek
  <1>7. (rec' # NoFile => rec # NoFile) /\ (coded' # NoFile => coded # NoFile)
    BY <1>3 DEF E!Stored
  <1>8. E!Converts' = E!Converts /\ E!Payloads' = E!Payloads
    BY <1>1 DEF E!Converts, E!Payloads
  <1>9. coded # NoFile =>
          /\ IsSeq(coded') /\ Len(coded') = Len(coded) + 1 /\ Len(coded) = au_cnt
          /\ DOMAIN coded' = 1..(au_cnt + 1) /\ DOMAIN coded = 1..au_cnt
          /\ \A n \in 1..au_cnt : coded'[n] = coded[n]
          /\ coded'[au_cnt + 1] = E!Unit
    <2> SUFFICES ASSUME coded # NoFile
                 PROVE  /\ IsSeq(coded') /\ Len(coded') = Len(coded) + 1 /\ Len(coded) = au_cnt
                        /\ DOMAIN coded' = 1..(au_cnt + 1) /\ DOMAIN coded = 1..au_cnt
                        /\ \A n \in 1..au_cnt : coded'[n] = coded[n]
                        /\ coded'[au_cnt + 1] = E!Unit
      OBVIOUS
    <2>1. IsSeq(coded) /\ Len(coded) = au_cnt /\ coded' = Append(coded, E!Unit)
      BY <1>1, <1>3 DEF EncInv, EncSucceeds, E!Stored, Loop
    <2> DEFINE new2 == Append(coded, E!Unit)
    <2>2. /\ IsSeq(new2) /\ Len(new2) = Len(coded) + 1
          /\ DOMAIN new2 = 1..(Len(coded) + 1) /\ DOMAIN coded = 1..Len(coded)
          /\ \A n \in 1..Len(coded) : new2[n] = coded[n]
          /\ new2[Len(coded) + 1] = E!Unit
      BY <2>1, Appended
    <2>3. coded' = new2
      BY <2>1
    <2> HIDE DEF new2
    <2> QED BY <2>1, <2>2, <2>3
  <1>10. /\ E!Unit.pic = E!Whole(pos, codec) /\ E!Unit.depth = codec /\ E!Unit.meta = E!Hashed
         /\ E!Unit.pic.of = pos
    <2>1. imgs.i.depth = codec
      BY <1>4 DEF Codec, Is
    <2> QED BY <1>6, <2>1 DEF E!Unit, E!Whole
  <1>11. rec # NoFile =>
           /\ rec' = [heads |-> rec'.heads, pics |-> rec'.pics] /\ IsSeq(rec'.pics) /\ IsSeq(rec.pics)
           /\ rec'.pics = IF fits THEN Append(rec.pics, shown) ELSE rec.pics
    <2> SUFFICES ASSUME rec # NoFile
                 PROVE  /\ rec' = [heads |-> rec'.heads, pics |-> rec'.pics]
                        /\ IsSeq(rec'.pics) /\ IsSeq(rec.pics)
                        /\ rec'.pics = IF fits THEN Append(rec.pics, shown) ELSE rec.pics
      OBVIOUS
    <2>1. rec = [heads |-> rec.heads, pics |-> rec.pics] /\ IsSeq(rec.pics)
      BY DEF EncInv, EncFiles
    <2>2. rec' = IF E!HeaderFits(shown, y4m, E!First) THEN E!WriteImg(rec, shown, y4m, E!First)
                 ELSE rec
      BY <1>3
    <2> HIDE DEF shown, y4m
    <2> QED BY <2>1, <2>2, WritesOne
  <1>12. rec # NoFile => shown.pic.of = pos /\ (shown.cf # "PLANAR2" => E!Fills(shown))
    <2> SUFFICES ASSUME rec # NoFile
                 PROVE  shown.pic.of = pos /\ (shown.cf # "PLANAR2" => E!Fills(shown))
      OBVIOUS
    <2>1. CASE E!Converts
      <3>1. shown = Encoded.w /\ Plain(shown) /\ shown.pic = E!Whole(pos, arg.depth)
        BY <1>5, <2>1 DEF E!Recorded
      <3> HIDE DEF shown
      <3>2. shown.depth = arg.depth /\ shown.pic.of = pos /\ shown.pic.bits = arg.depth
        BY <3>1 DEF Plain, Is, E!Whole
      <3> QED BY <3>2 DEF E!Fills
    <2>2. CASE ~E!Converts
      <3>1. shown = Encoded.rec /\ Codec(shown) /\ shown.pic = E!Whole(pos, codec)
        BY <1>5, <1>6, <2>2 DEF E!Recorded
      <3> HIDE DEF shown, codec
      <3>2. shown.depth = codec /\ shown.pic.of = pos /\ shown.pic.bits = codec
        BY <3>1 DEF Codec, Is, E!Whole, codec
      <3> QED BY <3>2 DEF E!Fills
    <2> QED BY <2>1, <2>2
  <1>13. rec # NoFile =>
           /\ Len(rec.pics) \in Nat /\ DOMAIN rec.pics = 1..Len(rec.pics)
           /\ fits => /\ Len(rec'.pics) = Len(rec.pics) + 1
                      /\ DOMAIN rec'.pics = 1..(Len(rec.pics) + 1)
                      /\ \A n \in 1..Len(rec.pics) : rec'.pics[n] = rec.pics[n]
                      /\ rec'.pics[Len(rec.pics) + 1] = shown
           /\ ~fits => rec'.pics = rec.pics
    <2> HIDE DEF shown, fits
    <2> QED BY <1>11, Appended DEF IsSeq
  <1>14. coded # NoFile /\ rec # NoFile => Len(rec.pics) = au_cnt
    BY <1>1, <1>9 DEF EncInv, EncGoesOn, Loop
  <1>15. imgs'.i = imgs.i /\ imgs'.r = imgs.r
         /\ imgs' = [i |-> imgs'.i, rec |-> imgs'.rec, r |-> imgs'.r, w |-> imgs'.w]
         /\ imgs'.rec = Encoded.rec /\ imgs'.w = Encoded.w
    <2> HIDE DEF EncInv
    <2> QED BY <1>3, <1>5
  <1> HIDE DEF codec, shown, y4m, fits
  <1>16. E!Pointed' = E!Pointed
    <2>1. /\ rec # NoFile => Encoded.rec # E!NoImage /\ imgs.rec # E!NoImage
          /\ rec # NoFile /\ E!Converts => Encoded.w # E!NoImage /\ imgs.w # E!NoImage
      BY <1>4, <1>5, ThereIs DEF Codec, Plain
    <2>2. DOMAIN imgs' = Pointers
      BY <1>15 DEF Pointers
    <2>3. \A p \in Pointers : imgs'[p] = E!NoImage <=> imgs[p] = E!NoImage
      BY <1>3, <1>5, <1>15, <2>1 DEF Pointers
    <2> QED BY <2>2, <2>3, PointedKept
  <1>17. /\ pc' \in {"ERR", "read"} /\ (pc' = "ERR" => status' = -1) /\ (pc' = "read" => status' = 0)
         /\ pc' = "read" => au_cnt' = au_cnt + 1 /\ mid' = {} /\ (rec # NoFile => fits)
         /\ au_cnt' \in Nat
    BY <1>3, <1>6
  <1>18. EncBegins' /\ EncOptions'
    BY <1>1, <1>6, <1>17 DEF EncBegins, EncOptions, Seek, Loop
  <1>19. EncImages'
    BY <1>1, <1>4, <1>5, <1>7, <1>8, <1>15, <1>17 DEF EncImages, Codec, Plain, Is, Loop
  <1>20. EncHolds'
    BY <1>1, <1>15, <1>16, <1>17 DEF EncInv, EncHolds, Loop
  <1>21. EncSucceeds'
    <2>1. video.pics \in Nat /\ pos \in 0..video.pics
      BY DEF EncInv, EncSucceeds
    <2> QED BY <1>1, <1>6, <1>7, <1>9, <1>17, <2>1 DEF EncSucceeds, Loop
  <1>22. coded # NoFile /\ au_cnt > 0 =>
           coded[1].pic.of \in Nat /\ coded[1].pic.of + au_cnt = pos /\ mid = {}
    <2> SUFFICES ASSUME coded # NoFile, au_cnt > 0
                 PROVE  coded[1].pic.of \in Nat /\ coded[1].pic.of + au_cnt = pos /\ mid = {}
      OBVIOUS
    <2>1. coded # <<>> /\ Len(coded) = au_cnt /\ 1 \in DOMAIN coded
      BY <1>6, <1>9
    <2>2. coded[1].pic.of \in Nat
      BY <2>1 DEF EncInv, EncFiles
    <2>3. mid = {} /\ coded[1].pic.of + Len(coded) - 1 = pos - 1
      BY <1>1, <2>1 DEF EncInv, EncGoesOn, Loop, Passed
    <2> QED BY <1>6, <2>1, <2>2, <2>3
  <1>23. coded # NoFile => coded'[1].pic.of + au_cnt = pos
    <2>1. CASE au_cnt = 0
      BY <1>6, <1>9, <1>10, <2>1
    <2>2. CASE au_cnt # 0
      <3>1. coded # NoFile => coded'[1] = coded[1]
        BY <1>6, <1>9, <2>2
      <3> QED BY <1>6, <1>22, <2>2, <3>1
    <2> QED BY <2>1, <2>2
  <1>24. EncGoesOn'
    <2> SUFFICES ASSUME pc' = "read" PROVE EncGoesOn'
      BY <1>17 DEF EncGoesOn, Loop
    <2>1. au_skip \in Nat
      BY <1>1 DEF EncInv, EncGoesOn, Loop
    <2>2. Passed' = pos
      BY <1>1 DEF Passed
    <2>3. coded' # NoFile =>
            coded' # <<>> /\ coded'[1].pic.of + Len(coded') - 1 = pos
      <3> SUFFICES ASSUME coded' # NoFile
                   PROVE  coded' # <<>> /\ coded'[1].pic.of + Len(coded') - 1 = pos
        OBVIOUS
      <3>1. coded # NoFile /\ Len(coded') = au_cnt + 1 /\ coded'[1].pic.of + au_cnt = pos
        BY <1>7, <1>9, <1>23
      <3>2. coded' # <<>>
        BY <1>6, <3>1
      <3>3. coded'[1].pic.of + (au_cnt + 1) - 1 = coded'[1].pic.of + au_cnt
        <4>1. coded'[1].pic.of \in Int
          <5>1. CASE au_cnt = 0
            BY <1>6, <1>9, <1>10, <3>1, <5>1
          <5>2. CASE au_cnt # 0
            BY <1>6, <1>9, <1>22, <3>1, <5>2
          <5> QED BY <5>1, <5>2
        <4> QED BY <1>6, <4>1
      <3> QED BY <3>1, <3>2, <3>3
    <2>4. coded' # NoFile /\ rec' # NoFile => Len(rec'.pics) = Len(coded')
      BY <1>7, <1>9, <1>13, <1>14, <1>17
    <2>5. NoFile # <<>>
      BY DEF AppsAssumption
    <2>6. mid' = {} /\ arg' = arg /\ state' = "ENCODING" /\ arg.seek <= pos
      BY <1>1, <1>6, <1>17 DEF Seek
    <2> QED BY <1>1, <2>1, <2>2, <2>3, <2>4, <2>5, <2>6 DEF EncGoesOn
  <1>25. E!LabelsAreTrue'
    <2>1. CASE rec = NoFile
      <3>1. E!Pictures(rec)' = E!Pictures(rec)
        BY <1>3, <2>1
      <3>2. E!LabelsAreTrue
        BY DEF EncInv, EncFiles
      <3> QED BY <1>1, <3>1, <3>2 DEF E!LabelsAreTrue
    <2>2. CASE rec # NoFile /\ rec' # NoFile
      <3>1. \A n \in DOMAIN rec.pics : rec.pics[n].cf # "PLANAR2" => E!Fills(rec.pics[n])
        BY <2>2 DEF EncInv, EncFiles, E!LabelsAreTrue, E!Pictures
      <3>2. \A n \in DOMAIN rec'.pics : rec'.pics[n].cf # "PLANAR2" => E!Fills(rec'.pics[n])
        <4>1. CASE ~fits
          BY <1>13, <2>2, <3>1, <4>1
        <4>2. CASE fits
          <5> TAKE n \in DOMAIN rec'.pics
          <5>1. n \in 1..Len(rec.pics) \/ n = Len(rec.pics) + 1
            BY <1>13, <2>2, <4>2
          <5>2. CASE n \in 1..Len(rec.pics)
            BY <1>13, <2>2, <3>1, <4>2, <5>2
          <5>3. CASE n = Len(rec.pics) + 1
            BY <1>12, <1>13, <2>2, <4>2, <5>3
          <5> QED BY <5>1, <5>2, <5>3
        <4> QED BY <4>1, <4>2
      <3> QED BY <2>2, <3>2 DEF E!LabelsAreTrue, E!Pictures
    <2>3. CASE rec' = NoFile
      BY <2>3 DEF E!LabelsAreTrue, E!Pictures
    <2> QED BY <2>1, <2>2, <2>3
  <1>26. coded' # NoFile => \A n \in DOMAIN coded' :
           /\ coded'[n].pic.of \in Nat
           /\ coded'[n].pic = E!Whole(coded'[1].pic.of + n - 1, coded'[n].depth)
           /\ coded'[n].pic.of > arg.seek
           /\ n > 1 => coded'[n].meta \subseteq {"hash"}
           /\ n = 1 /\ arg.seek = 0 => E!Payloads \subseteq coded'[n].meta
    <2> SUFFICES ASSUME coded' # NoFile, NEW n \in DOMAIN coded'
                 PROVE  /\ coded'[n].pic.of \in Nat
                        /\ coded'[n].pic = E!Whole(coded'[1].pic.of + n - 1, coded'[n].depth)
                        /\ coded'[n].pic.of > arg.seek
                        /\ n > 1 => coded'[n].meta \subseteq {"hash"}
                        /\ n = 1 /\ arg.seek = 0 => E!Payloads \subseteq coded'[n].meta
      OBVIOUS
    <2>1. coded # NoFile /\ n \in 1..(au_cnt + 1)
      BY <1>7, <1>9
    <2>2. CASE n \in 1..au_cnt
      <3>1. n \in DOMAIN coded /\ coded'[n] = coded[n] /\ coded'[1] = coded[1]
        BY <1>6, <1>9, <2>1, <2>2
      <3>2. coded[n].pic.of \in Nat
        BY <2>1, <3>1 DEF EncInv, EncFiles
      <3>3. /\ coded[n].pic = E!Whole(coded[1].pic.of + n - 1, coded[n].depth)
            /\ coded[n].pic.of > arg.seek
            /\ n > 1 => coded[n].meta \subseteq {"hash"}
            /\ n = 1 /\ arg.seek = 0 => E!Payloads \subseteq coded[n].meta
        BY <2>1, <3>1 DEF EncInv, EncFiles, E!CodedInOrder
      <3> QED BY <3>1, <3>2, <3>3
    <2>3. CASE n = au_cnt + 1
      <3>1. coded'[n] = E!Unit
        BY <1>9, <2>1, <2>3
      <3>2. coded'[1].pic.of + n - 1 = pos
        BY <1>6, <1>22, <1>23, <2>1, <2>3, <1>9, <1>10
      <3>3. n > 1 => E!Hashed \subseteq {"hash"}
        BY <1>6, <1>22, <2>1, <2>3 DEF E!Hashed
      <3>4. n = 1 /\ arg.seek = 0 => E!Payloads \subseteq E!Hashed
        <4> SUFFICES ASSUME n = 1, arg.seek = 0 PROVE E!Payloads \subseteq E!Hashed
          OBVIOUS
        <4>1. coded = <<>>
          <5>1. Len(coded) = 0 /\ IsSeq(coded)
            BY <1>1, <1>6, <1>9, <2>1, <2>3 DEF EncInv, EncSucceeds, Loop
          <5> QED BY <5>1 DEF IsSeq
        <4>2. mid = E!Payloads
          BY <1>1, <4>1 DEF EncInv, EncGoesOn, Loop
        <4> QED BY <4>2 DEF E!Hashed
      <3>5. coded'[n].pic = E!Whole(pos, coded'[n].depth) /\ coded'[n].pic.of = pos
        BY <1>10, <3>1
      <3>6. coded'[n].pic = E!Whole(coded'[1].pic.of + n - 1, coded'[n].depth)
        BY <3>2, <3>5
      <3>7. coded'[n].pic.of \in Nat /\ coded'[n].pic.of > arg.seek
        BY <1>6, <3>5 DEF Seek
      <3>8. coded'[n].meta = E!Hashed
        BY <1>10, <3>1
      <3> QED BY <3>3, <3>4, <3>6, <3>7, <3>8
    <2> QED BY <1>6, <2>1, <2>2, <2>3
  <1>27. coded' # NoFile /\ rec' # NoFile =>
           /\ \A n \in DOMAIN rec'.pics : rec'.pics[n].pic.of = coded'[n].pic.of
           /\ Len(rec'.pics) <= Len(coded')
           /\ status' = 0 => Len(rec'.pics) = Len(coded')
    <2> SUFFICES ASSUME coded' # NoFile, rec' # NoFile
                 PROVE  /\ \A n \in DOMAIN rec'.pics : rec'.pics[n].pic.of = coded'[n].pic.of
                        /\ Len(rec'.pics) <= Len(coded')
                        /\ status' = 0 => Len(rec'.pics) = Len(coded')
      OBVIOUS
    <2>1. coded # NoFile /\ rec # NoFile /\ Len(rec.pics) = au_cnt /\ Len(coded) = au_cnt
      BY <1>7, <1>9, <1>14
    <2>2. \A n \in 1..au_cnt : rec.pics[n].pic.of = coded[n].pic.of
      <3>1. DOMAIN rec.pics = 1..au_cnt
        BY <1>13, <2>1
      <3> QED BY <2>1, <3>1 DEF EncInv, EncFiles, E!CodedInOrder, E!Pictures
    <2>3. CASE ~fits
      <3>1. rec'.pics = rec.pics /\ DOMAIN rec'.pics = 1..au_cnt /\ status' # 0
        BY <1>13, <1>17, <2>1, <2>3
      <3>2. \A n \in 1..au_cnt : coded'[n] = coded[n]
        BY <1>9, <2>1
      <3> QED BY <1>6, <1>9, <2>1, <2>2, <3>1, <3>2
    <2>4. CASE fits
      <3>1. /\ Len(rec'.pics) = au_cnt + 1 /\ DOMAIN rec'.pics = 1..(au_cnt + 1)
            /\ \A n \in 1..au_cnt : rec'.pics[n] = rec.pics[n] /\ coded'[n] = coded[n]
            /\ rec'.pics[au_cnt + 1] = shown /\ coded'[au_cnt + 1] = E!Unit
        BY <1>9, <1>13, <2>1, <2>4
      <3>2. shown.pic.of = E!Unit.pic.of
        BY <1>10, <1>12, <2>1
      <3>3. \A n \in 1..(au_cnt + 1) : n \in 1..au_cnt \/ n = au_cnt + 1
        BY <1>6
      <3> QED BY <1>6, <1>9, <2>1, <2>2, <3>1, <3>2, <3>3
    <2> QED BY <2>3, <2>4
  <1>28. EncFiles'
    <2>1. coded' # NoFile => \A n \in DOMAIN coded' : coded'[n].pic.of \in Nat
      BY <1>26
    <2>2. rec' # NoFile => rec' = [heads |-> rec'.heads, pics |-> rec'.pics] /\ IsSeq(rec'.pics)
      BY <1>7, <1>11
    <2>3. E!CodedInOrder'
      <3>1. arg' = arg /\ E!Payloads' = E!Payloads
        BY <1>1, <1>8
      <3>2. CASE coded' = NoFile
        BY <3>2 DEF E!CodedInOrder
      <3>3. CASE coded' # NoFile /\ rec' = NoFile
        BY <1>26, <3>1, <3>3 DEF E!CodedInOrder, E!Pictures
      <3>4. CASE coded' # NoFile /\ rec' # NoFile
        <4> DEFINE pics == rec'.pics
        <4>1. E!Pictures(rec)' = pics
          BY <3>4 DEF E!Pictures
        <4> HIDE DEF pics
        <4>2. /\ \A n \in DOMAIN pics : pics[n].pic.of = coded'[n].pic.of
              /\ status' = 0 => Len(pics) = Len(coded')
          BY <1>27, <3>4 DEF pics
        <4> QED BY <1>26, <3>1, <3>4, <4>1, <4>2 DEF E!CodedInOrder
      <3> QED BY <3>2, <3>3, <3>4
    <2> QED BY <1>25, <1>27, <2>1, <2>2, <2>3 DEF EncFiles, IsSeq
  <1> QED BY <1>18, <1>19, <1>20, <1>21, <1>24, <1>28 DEF EncInv

\* AppEnc's invariant holds at first
LEMMA EncInitially ==
  ASSUME AppsAssumption, InitEnc
  PROVE  EncInv
  <1>1. PICK r \in EncRuns : cmd = r[1] /\ video = r[2]
    BY DEF InitEnc
  <1>2. video.pics \in Nat
    BY <1>1 DEF AppsAssumption
  <1>3. /\ pc = "start" /\ status = 0 /\ arg = <<>> /\ held = {} /\ nimg = 0
        /\ imgs = NoImages /\ state = "ENCODING" /\ au_cnt = 0 /\ au_skip = 0
        /\ mid = {} /\ pos = 0 /\ coded = NoFile /\ rec = NoFile
    BY DEF InitEnc, E!Init, NoImages
  <1>4. EncBegins /\ EncOptions /\ EncImages /\ EncGoesOn
    BY <1>1, <1>3 DEF EncBegins, EncOptions, EncImages, EncGoesOn, Loop
  <1>5. E!Pointed = 0
    <2>1. {p \in DOMAIN imgs : imgs[p] # E!NoImage} = {}
      BY <1>3 DEF NoImages
    <2> QED BY <2>1, CardE, FS_EmptySet DEF E!Pointed
  <1>6. EncHolds
    BY <1>3, <1>5 DEF EncHolds, NoImages
  <1>7. EncSucceeds
    BY <1>2, <1>3 DEF EncSucceeds, Loop
  <1>8. EncFiles
    BY <1>3 DEF EncFiles, E!CodedInOrder, E!LabelsAreTrue, E!Pictures
  <1> QED BY <1>4, <1>6, <1>7, <1>8 DEF EncInv

\* and every step of AppEnc keeps it.
LEMMA EncStep ==
  ASSUME AppsAssumption, EncInv, E!Next
  PROVE  EncInv'
  BY EncStarts, EncSetsUp, EncCreates, EncStops, EncReads, EncEncodes, EncSkips, EncCleansUp
     DEF E!Next

\* What the encoder program promises follows.
LEMMA EncPromises ==
  ASSUME EncInv
  PROVE  /\ E!CodedInOrder /\ E!SuccessIsWhole /\ E!EverythingReleased /\ E!LabelsAreTrue
         /\ coded # NoFile => IsSeq(coded)
  BY DEF EncInv, EncFiles, EncHolds, EncSucceeds, AllDone, E!SuccessIsWhole, E!EverythingReleased

----------------------------------------------------------------------------

(* AppDec, the decoder program                                             *)

\* Before the loops, in that of API set 0, in that of API set 1, behind them.
DecStages == {"start", "open", "create"}
DecLoop0  == {"info", "decode", "payloads", "write"}
DecLoop1  == {"pbu", "frame", "show"}
DecEnds   == {"main_ERR", "exit"}

\* The options that are looked at, and the API set they name.
DecOptions ==
  /\ pc = "start" => arg = <<>>
  /\ pc \notin {"start"} \cup DecEnds => arg # <<>>
  /\ arg # <<>> => {"api", "max", "depth"} \subseteq DOMAIN arg
  /\ pc \in DecLoop0 => D!Api0
  /\ pc \in DecLoop1 => ~D!Api0

\* An image is one imgb_create has made; API set 1 has one.
Created(img) ==
  \/ img = D!NoImage
  \/ DOMAIN img = {"w", "cf", "depth", "shape", "pic"} /\ img.w \in 1..MaxW

DecImages ==
  /\ imgs = [i \in D!Slots |-> imgs[i]] /\ \A i \in D!Slots : Created(imgs[i])
  /\ num_frms \in 0..MaxFrames
  /\ pc \in DecStages =>
       imgb_w = D!NoImage /\ num_frms = 0 /\ \A i \in D!Slots : imgs[i] = D!NoImage
  /\ arg = <<>> \/ ~D!Api0 => \A i \in D!Slots \ {1} : imgs[i] = D!NoImage
  /\ arg = <<>> => \A i \in D!Slots : imgs[i] = D!NoImage
  /\ pc = "decode" => \A i \in 1..num_frms : imgs[i] # D!NoImage
  /\ pc = "frame" => imgs[1] # D!NoImage

\* What may be held at each stage, and how many images there are.
MayHold ==
  CASE pc \in {"start", "exit"}              -> {}
    [] pc \in {"open", "create", "main_ERR"} -> {"fp", "args", "args_var"}
    [] OTHER -> {"fp", "args", "args_var", "did", "mid"}
                  \cup (IF D!Api0 THEN {"bs_buf"} ELSE {"pbu", "tile_reqs"})

\* What the clean-up of API set 0 does not reach.
Lost == {i \in D!Slots : i > num_frms /\ imgs[i] # D!NoImage}

DecHolds ==
  /\ pc \in DecStages \cup {"read", "ERR"} \cup DecLoop0 \cup DecLoop1 \cup DecEnds
  /\ held \subseteq MayHold
  /\ nimg = IF pc \notin DecEnds THEN D!Count(imgs) + D!Gone(imgb_w)
            ELSE IF arg # <<>> /\ D!Api0 THEN Cardinality(Lost) ELSE 0

\* The units that are read are done with, but for the one at hand.
DecSucceeds ==
  /\ IsSeq(stream) /\ \A n \in DOMAIN stream : IsSeq(stream[n].pbus)
  /\ au_cnt \in Nat /\ pos \in 0..Len(stream)
  /\ pc \in DecStages => au_cnt = 0 /\ pos = 0
  /\ pc = "read" => pos = au_cnt
  /\ pc \in DecLoop0 \cup DecLoop1 => pos = au_cnt + 1
  /\ pc \in {"ERR"} \cup DecEnds /\ status = 0 /\ arg # <<>> /\ quiet = "" =>
       ~D!More \/ au_cnt = Len(stream)

\* The container holds the payloads of the unit at hand alone.
DecJudges ==
  /\ pc \in DecStages \cup {"read", "info", "decode"} => mid = {}
  /\ pc = "payloads" =>
       /\ mid = D!Store({}, D!Au.pbus)
       /\ \A i \in 1..Len(D!Frames) : imgs[i].pic.of = <<pos, i>>
  /\ D!VerdictIsThisUnits

DecInv == DecOptions /\ DecImages /\ DecHolds /\ DecSucceeds /\ DecJudges

\* The instance of Cardinality that AppDec brings along.
LEMMA CardD == ASSUME NEW S PROVE D!Cardinality(S) = Cardinality(S)
  BY DEF D!Cardinality, Cardinality

\* What is to be said of the picture at place i of a unit's frames.
Hashes(pbus, gid) ==
  {j \in DOMAIN pbus : pbus[j].type = "meta" /\ pbus[j].gid = gid /\ pbus[j].hash >= 0}

LastOf(hs) == CHOOSE j \in hs : \A k \in hs : k <= j

Due(pbus, gid, i) ==
  IF Hashes(pbus, gid) = {} THEN "none"
  ELSE IF pbus[LastOf(Hashes(pbus, gid))].hash = i THEN "match" ELSE "mismatch"

Right(units, v) ==
  v.says = Due(units[v.of[1]].pbus, D!FramesOf(units[v.of[1]])[v.of[2]].gid, v.of[2])

\* VerdictIsThisUnits, one verdict at a time.
LEMMA AllRight == D!VerdictIsThisUnits <=> \A v \in verdicts : Right(stream, v)
  BY DEF D!VerdictIsThisUnits, Right, Due, Hashes, LastOf, D!HashesOf

\* It is kept where neither the bitstream nor what was said of it changes.
LEMMA VerdictsKept ==
  ASSUME D!VerdictIsThisUnits, UNCHANGED <<stream, verdicts>>
  PROVE  D!VerdictIsThisUnits'
  <1>1. D!VerdictIsThisUnits' <=> \A v \in verdicts' : Right(stream', v)
    BY DEF D!VerdictIsThisUnits, Right, Due, Hashes, LastOf, D!HashesOf
  <1> QED BY <1>1, AllRight

\* The program stops, for a reason it returns or one it notes.
LEMMA DecFailing ==
  ASSUME DecInv, pc \notin DecEnds \cup {"start", "open"}, pc' = "ERR",
         UNCHANGED <<stream, arg, nimg, imgs, imgb_w, num_frms, au_cnt, verdicts>>,
         pos' \in 0..Len(stream), held' \subseteq MayHold',
         \/ status' # 0 \/ quiet' # "" \/ ~D!More \/ au_cnt = Len(stream)
  PROVE  DecInv'
  <1>1. DecOptions'
    BY DEF DecInv, DecOptions, DecStages, DecLoop0, DecLoop1, DecEnds, D!Api0
  <1>2. DecImages'
    BY DEF DecInv, DecImages, DecStages, D!Api0, D!Slots, Created
  <1>3. DecHolds'
    BY DEF DecInv, DecHolds, DecEnds, D!Count, D!Gone
  <1>4. DecSucceeds'
    <2>1. D!More' = D!More
      BY DEF D!More
    <2> QED BY <2>1 DEF DecInv, DecSucceeds, DecStages, DecLoop0, DecLoop1, DecEnds
  <1>5. DecJudges'
    BY VerdictsKept DEF DecInv, DecJudges, DecStages
  <1> QED BY <1>1, <1>2, <1>3, <1>4, <1>5 DEF DecInv

\* The program goes on to the next unit, or within this one.
LEMMA DecMoves ==
  ASSUME DecInv, pc \notin DecEnds \cup {"start", "open"}, pc' \in {"read", "info", "pbu"},
         UNCHANGED <<stream, arg, nimg, imgs, imgb_w, num_frms, verdicts>>,
         pos' \in 0..Len(stream), au_cnt' \in Nat,
         pos' = (IF pc' = "read" THEN au_cnt' ELSE au_cnt' + 1),
         pc' = "info" => D!Api0, pc' = "pbu" => ~D!Api0,
         pc' # "pbu" => mid' = {}, held' \subseteq MayHold'
  PROVE  DecInv'
  <1>1. DecOptions'
    BY DEF DecInv, DecOptions, DecStages, DecLoop0, DecLoop1, DecEnds, D!Api0
  <1>2. DecImages'
    BY DEF DecInv, DecImages, DecStages, D!Api0, D!Slots, Created
  <1>3. DecHolds'
    BY DEF DecInv, DecHolds, DecEnds, DecLoop0, DecLoop1, D!Count, D!Gone
  <1>4. DecSucceeds'
    BY DEF DecInv, DecSucceeds, DecStages, DecLoop0, DecLoop1, DecEnds
  <1>5. DecJudges'
    BY VerdictsKept DEF DecInv, DecJudges, DecStages
  <1> QED BY <1>1, <1>2, <1>3, <1>4, <1>5 DEF DecInv

\* The options are read, the files opened.
LEMMA DecBegins ==
  ASSUME DecInv, D!Help \/ D!ParseArgs \/ D!OpenFiles
  PROVE  DecInv'
  <1> USE DEF D!files, D!setup, D!images, D!count, D!MainError
  <1>1. /\ pc \in {"start", "open"} /\ pc' \in {"open", "create", "main_ERR", "exit"}
        /\ pc = "start" => pc' # "create"
        /\ UNCHANGED <<stream, nimg, imgs, imgb_w, num_frms, mid, au_cnt, pos, verdicts>>
    <2>1. CASE D!Help
      BY <2>1 DEF D!Help
    <2>2. CASE D!ParseArgs
      BY <2>2 DEF D!ParseArgs, D!Parsing
    <2>3. CASE D!OpenFiles
      BY <2>3 DEF D!OpenFiles, D!Called
    <2> QED BY <2>1, <2>2, <2>3
  <1>2. /\ imgb_w = D!NoImage /\ num_frms = 0 /\ \A i \in D!Slots : imgs[i] = D!NoImage
        /\ au_cnt = 0 /\ pos = 0 /\ mid = {}
        /\ nimg = D!Count(imgs) + D!Gone(imgb_w)
    BY <1>1 DEF DecInv, DecImages, DecSucceeds, DecJudges, DecHolds, DecStages, DecEnds
  <1>3. nimg = 0 /\ Cardinality(Lost) = 0
    <2>1. {i \in D!Slots : imgs[i] # D!NoImage} = {} /\ Lost = {}
      BY <1>2 DEF Lost
    <2>2. D!Count(imgs) = 0 /\ Cardinality(Lost) = 0
      BY <2>1, CardD, FS_EmptySet DEF D!Count
    <2> QED BY <1>2, <2>2 DEF D!Gone
  <1>4. Lost' = Lost
    BY <1>1 DEF Lost, D!Slots
  <1>5. /\ pc' # "exit" => arg' # <<>> \/ pc' = "main_ERR"
        /\ arg' # <<>> => {"api", "max", "depth"} \subseteq DOMAIN arg'
        /\ pc' = "exit" => arg' = <<>>
    <2>1. CASE D!Help
      BY <2>1 DEF D!Help, DecInv, DecOptions
    <2>2. CASE D!ParseArgs
      <3> DEFINE p == D!Parse(D!Table, cmd)
      <3>1. /\ arg' = IF p.ok THEN [k \in DOMAIN D!Table |-> p.opts[k].val] ELSE arg
            /\ p.ok \/ pc' = "main_ERR"
            /\ pc' \in {"open", "main_ERR"}
        BY <2>2 DEF D!ParseArgs, D!Parsing
      <3>2. arg = <<>>
        BY <2>2 DEF D!ParseArgs, D!Parsing, DecInv, DecOptions
      <3>3. {"api", "max", "depth"} \subseteq DOMAIN D!Table
        BY DEF D!Table
      <3> HIDE DEF p
      <3> QED BY <3>1, <3>2, <3>3
    <2>3. CASE D!OpenFiles
      BY <2>3 DEF D!OpenFiles, D!Called, DecInv, DecOptions, DecEnds
    <2> QED BY <2>1, <2>2, <2>3
  <1>6. held' \subseteq MayHold'
    <2>1. CASE D!Help
      BY <2>1 DEF D!Help, DecInv, DecHolds, MayHold
    <2>2. CASE D!ParseArgs
      BY <2>2 DEF D!ParseArgs, D!Parsing, DecInv, DecHolds, MayHold
    <2>3. CASE D!OpenFiles
      <3>1. held' \subseteq {"fp", "args", "args_var"} /\ pc' \in {"create", "main_ERR"}
        BY <2>3 DEF D!OpenFiles, D!Called, DecInv, DecHolds, MayHold
      <3> QED BY <3>1 DEF MayHold
    <2> QED BY <2>1, <2>2, <2>3
  <1>7. pc' = "main_ERR" /\ status' = 0 => arg' = <<>> \/ quiet' # ""
    <2>1. CASE D!Help
      BY <2>1 DEF D!Help
    <2>2. CASE D!ParseArgs
      <3>1. pc' = "open" \/ D!MainError
        BY <2>2 DEF D!ParseArgs, D!Parsing
      <3>2. pc' = "main_ERR" => status' = -1
        BY <3>1
      <3>3. status' = -1 => status' # 0
        OBVIOUS
      <3> QED BY <3>2, <3>3, Zenon
    <2>3. CASE D!OpenFiles
      <3>1. quiet' = IF pc' = "main_ERR" /\ status' # -1 THEN "api" ELSE quiet
        BY <2>3 DEF D!OpenFiles
      <3> QED BY <3>1
    <2> QED BY <2>1, <2>2, <2>3
  <1>8. DecOptions'
    BY <1>1, <1>5 DEF DecOptions, DecStages, DecLoop0, DecLoop1, DecEnds
  <1>9. DecImages'
    BY <1>1, <1>2 DEF DecInv, DecImages, D!Slots, Created
  <1>10. DecHolds'
    <2>1. pc' \notin DecEnds => nimg' = D!Count(imgs)' + D!Gone(imgb_w)'
      BY <1>1, <1>2 DEF D!Count, D!Gone, D!Slots
    <2> QED BY <1>1, <1>3, <1>4, <1>6, <2>1 DEF DecHolds, DecStages, DecEnds
  <1>11. DecSucceeds'
    BY <1>1, <1>2, <1>5, <1>7 DEF DecInv, DecSucceeds, DecStages, DecLoop0, DecLoop1, DecEnds
  <1>12. DecJudges'
    BY <1>1, <1>2, VerdictsKept DEF DecInv, DecJudges, DecStages
  <1> QED BY <1>8, <1>9, <1>10, <1>11, <1>12 DEF DecInv

\* A loop is left: at its end, at that of the file, or because a call failed.
LEMMA DecStops ==
  ASSUME DecInv, \/ D!LoopEnds \/ D!EndOfFile \/ D!DecodeFails \/ D!NoUnit
                 \/ D!PbuFails \/ D!FrameFails
  PROVE  DecInv'
  <1> USE DEF D!files, D!setup, D!images, D!count, D!Error
  <1>1. pc \notin DecEnds \cup {"start", "open", "create"} /\ pc' = "ERR"
    BY DEF D!LoopEnds, D!EndOfFile, D!DecodeFails, D!NoUnit, D!PbuFails, D!FrameFails, DecEnds
  <1>2. UNCHANGED <<stream, arg, nimg, imgs, imgb_w, num_frms, au_cnt, verdicts, pos>>
    <2>1. CASE D!LoopEnds
      BY <2>1 DEF D!LoopEnds
    <2>2. CASE D!EndOfFile
      BY <2>2 DEF D!EndOfFile
    <2>3. CASE D!DecodeFails
      BY <2>3 DEF D!DecodeFails
    <2>4. CASE D!NoUnit
      BY <2>4 DEF D!NoUnit
    <2>5. CASE D!PbuFails
      BY <2>5 DEF D!PbuFails
    <2>6. CASE D!FrameFails
      BY <2>6 DEF D!FrameFails
    <2> QED BY <2>1, <2>2, <2>3, <2>4, <2>5, <2>6
  <1>3. held' \subseteq MayHold'
    <2>1. held \subseteq MayHold
      BY DEF DecInv, DecHolds
    <2>2. MayHold' = MayHold
      BY <1>1, <1>2 DEF MayHold, DecEnds, D!Api0
    <2>3. CASE D!PbuFails
      <3>1. held' = held \cup {"pbu"} /\ pc = "pbu"
        BY <2>3 DEF D!PbuFails
      <3>2. ~D!Api0
        BY <3>1 DEF DecInv, DecOptions, DecLoop1
      <3>3. "pbu" \in MayHold
        BY <3>1, <3>2 DEF MayHold
      <3> QED BY <2>1, <2>2, <3>1, <3>3
    <2>4. CASE ~D!PbuFails
      <3>1. held' = held
        BY <2>4 DEF D!LoopEnds, D!EndOfFile, D!DecodeFails, D!NoUnit, D!FrameFails
      <3> QED BY <2>1, <2>2, <3>1
    <2> QED BY <2>3, <2>4
  <1>4. \/ status' # 0 \/ quiet' # "" \/ ~D!More \/ au_cnt = Len(stream)
    <2>1. pc = "read" => pos = au_cnt
      BY DEF DecInv, DecSucceeds
    <2>2. CASE D!LoopEnds
      BY <2>2 DEF D!LoopEnds
    <2>3. CASE D!EndOfFile
      BY <2>1, <2>3 DEF D!EndOfFile
    <2>4. CASE D!NoUnit
      BY <2>1, <2>4 DEF D!NoUnit
    <2>5. CASE D!DecodeFails \/ D!PbuFails \/ D!FrameFails
      <3>1. status' = -1
        BY <2>5 DEF D!DecodeFails, D!PbuFails, D!FrameFails
      <3> QED BY <3>1
    <2> QED BY <2>2, <2>3, <2>4, <2>5
  <1>5. pos' \in 0..Len(stream)
    BY <1>2 DEF DecInv, DecSucceeds
  <1> QED BY <1>1, <1>2, <1>3, <1>4, <1>5, DecFailing

\* The decoder and the container are created, or the program ends.
LEMMA DecCreates ==
  ASSUME DecInv, D!Create
  PROVE  DecInv'
  <1> USE DEF D!files, D!setup, D!images, D!count, D!Error
  <1>1. /\ pc = "create" /\ pc' \in {"read", "ERR"}
        /\ UNCHANGED <<stream, arg, nimg, imgs, imgb_w, num_frms, mid, au_cnt, pos, verdicts>>
        /\ pc' = "ERR" => status' # 0
    BY DEF D!Create
  <1>2. held' \subseteq MayHold'
    <2>1. PICK have \in 0..2 : held' = held \cup D!PartsUpTo(have)
      BY DEF D!Create
    <2>2. D!PartsUpTo(have) \subseteq {"did", "mid"}
      BY DEF D!PartsUpTo, D!Parts
    <2>3. held \subseteq {"fp", "args", "args_var"}
      BY <1>1 DEF DecInv, DecHolds, MayHold
    <2> QED BY <1>1, <2>1, <2>2, <2>3 DEF MayHold
  <1>3. au_cnt = 0 /\ pos = 0 /\ mid = {} /\ 0 \in 0..Len(stream)
    BY <1>1 DEF DecInv, DecSucceeds, DecJudges, DecStages
  <1>4. CASE pc' = "ERR"
    BY <1>1, <1>2, <1>3, <1>4, DecFailing DEF DecEnds
  <1>5. CASE pc' = "read"
    BY <1>1, <1>2, <1>3, <1>5, DecMoves DEF DecEnds
  <1> QED BY <1>1, <1>4, <1>5

\* A unit is read (API set 0), or its size and signature (API set 1).
LEMMA DecReads ==
  ASSUME DecInv, D!ReadUnit \/ D!BeginUnit
  PROVE  DecInv'
  <1> USE DEF D!files, D!setup, D!images, D!count, D!Error
  <1>1. /\ pc = "read" /\ pos < Len(stream) /\ pos' = pos + 1
        /\ UNCHANGED <<stream, arg, nimg, imgs, imgb_w, num_frms, mid, au_cnt, verdicts>>
    <2>1. CASE D!ReadUnit
      BY <2>1 DEF D!ReadUnit
    <2>2. CASE D!BeginUnit
      BY <2>2 DEF D!BeginUnit
    <2> QED BY <2>1, <2>2
  <1>2. /\ pc' \in {"info", "pbu", "ERR"} /\ (pc' = "ERR" => status' # 0)
        /\ pc' = "info" => D!Api0
        /\ pc' = "pbu" => ~D!Api0
    <2>1. CASE D!ReadUnit
      BY <2>1 DEF D!ReadUnit
    <2>2. CASE D!BeginUnit
      BY <2>2 DEF D!BeginUnit
    <2> QED BY <2>1, <2>2
  <1>3. pos = au_cnt /\ au_cnt \in Nat /\ pos' \in 0..Len(stream) /\ mid = {}
    <2>1. pos = au_cnt /\ au_cnt \in Nat /\ pos \in 0..Len(stream) /\ Len(stream) \in Nat
      BY <1>1 DEF DecInv, DecSucceeds, IsSeq
    <2>2. mid = {}
      BY <1>1 DEF DecInv, DecJudges
    <2> QED BY <1>1, <2>1, <2>2
  <1>4. held' \subseteq MayHold'
    <2>1. held' \subseteq held \cup (IF D!Api0 THEN {"bs_buf"} ELSE {})
      <3>1. CASE D!ReadUnit
        BY <3>1 DEF D!ReadUnit
      <3>2. CASE D!BeginUnit
        BY <3>2 DEF D!BeginUnit
      <3> QED BY <3>1, <3>2
    <2>2. held \subseteq MayHold /\ MayHold' = MayHold
      BY <1>1, <1>2 DEF DecInv, DecHolds, MayHold, D!Api0
    <2>3. D!Api0 => "bs_buf" \in MayHold
      BY <1>1 DEF MayHold
    <2> QED BY <2>1, <2>2, <2>3
  <1>5. CASE pc' = "ERR"
    BY <1>1, <1>2, <1>3, <1>4, <1>5, DecFailing DEF DecEnds
  <1>6. CASE pc' # "ERR"
    BY <1>1, <1>2, <1>3, <1>4, <1>6, DecMoves DEF DecEnds
  <1> QED BY <1>5, <1>6

\* A unit is done with, or one of the PBUs no picture comes from.
LEMMA DecUnits ==
  ASSUME DecInv, D!UnitDone \/ D!UnitEnds \/ D!OtherPbu
  PROVE  DecInv'
  <1> USE DEF D!files, D!setup, D!images, D!count, D!Error
  <1>1. /\ pc \in {"write", "pbu"} /\ pos = au_cnt + 1 /\ au_cnt \in Nat /\ pos \in 0..Len(stream)
        /\ pc = "pbu" => ~D!Api0
        /\ held \subseteq MayHold /\ (pc = "pbu" => "pbu" \in MayHold)
    <2>1. pc \in {"write", "pbu"}
      BY DEF D!UnitDone, D!UnitEnds, D!OtherPbu, D!AtPbu
    <2>2. pos = au_cnt + 1 /\ au_cnt \in Nat /\ pos \in 0..Len(stream)
      BY <2>1 DEF DecInv, DecSucceeds, DecLoop0, DecLoop1
    <2>3. pc = "pbu" => ~D!Api0
      BY DEF DecInv, DecOptions, DecLoop1
    <2>4. held \subseteq MayHold
      BY DEF DecInv, DecHolds
    <2> QED BY <2>1, <2>2, <2>3, <2>4 DEF MayHold
  <1>2. CASE D!UnitDone
    <2>1. /\ pc' = "read" /\ au_cnt' = au_cnt + 1 /\ mid' = {}
          /\ UNCHANGED <<stream, arg, held, nimg, imgs, imgb_w, num_frms, verdicts, pos>>
      BY <1>2 DEF D!UnitDone
    <2>2. MayHold' = MayHold
      BY <1>1, <2>1 DEF MayHold, D!Api0
    <2> QED BY <1>1, <2>1, <2>2, DecMoves DEF DecEnds
  <1>3. CASE D!UnitEnds
    <2>1. UNCHANGED <<stream, arg, held, nimg, imgs, imgb_w, num_frms, verdicts, pos>>
      BY <1>3 DEF D!UnitEnds
    <2>2. \/ pc' = "read" /\ au_cnt' = au_cnt + 1 /\ mid' = {}
          \/ pc' = "ERR" /\ status' # 0 /\ au_cnt' = au_cnt
      BY <1>3 DEF D!UnitEnds
    <2>3. MayHold' = MayHold
      BY <1>1, <2>1, <2>2 DEF MayHold, D!Api0
    <2>4. CASE pc' = "read"
      BY <1>1, <2>1, <2>2, <2>3, <2>4, DecMoves DEF DecEnds
    <2>5. CASE pc' = "ERR"
      BY <1>1, <2>1, <2>2, <2>3, <2>5, DecFailing DEF DecEnds
    <2> QED BY <2>2, <2>4, <2>5
  <1>4. CASE D!OtherPbu
    <2>1. /\ pc = "pbu" /\ pc' = "pbu" /\ held' = held \cup {"pbu"}
          /\ UNCHANGED <<stream, arg, nimg, imgs, imgb_w, num_frms, verdicts, pos, au_cnt>>
      BY <1>4 DEF D!OtherPbu, D!AtPbu
    <2>2. MayHold' = MayHold
      BY <2>1 DEF MayHold, D!Api0
    <2>3. held' \subseteq MayHold'
      BY <1>1, <2>1, <2>2
    <2> QED BY <1>1, <2>1, <2>3, DecMoves DEF DecEnds
  <1> QED BY <1>2, <1>3, <1>4

\* The images of a table can be counted.
LEMMA Counted ==
  ASSUME AppsAssumption, NEW s
  PROVE  /\ IsFiniteSet({i \in D!Slots : s[i] # D!NoImage})
         /\ D!Count(s) = Cardinality({i \in D!Slots : s[i] # D!NoImage})
         /\ D!Count(s) \in Nat
  <1> DEFINE S == {i \in D!Slots : s[i] # D!NoImage}
  <1>1. IsFiniteSet(D!Slots)
    BY FS_Interval DEF D!Slots, AppsAssumption
  <1>2. IsFiniteSet(S)
    BY <1>1, FS_Subset
  <1>3. D!Count(s) = Cardinality(S)
    BY CardD DEF D!Count
  <1> HIDE DEF S
  <1>4. Cardinality(S) \in Nat
    BY <1>2, FS_CardinalityType
  <1> QED BY <1>2, <1>3, <1>4 DEF S

\* Within a unit the picture at hand is converted and written.
LEMMA DecWrites ==
  ASSUME AppsAssumption, DecInv, D!Write \/ D!ShowFrame
  PROVE  DecInv'
  <1> USE DEF D!files, D!setup, D!images, D!count
  <1>1. /\ pc \in {"write", "show"} /\ pc' \in {"write", "pbu", "ERR"}
        /\ pc' = "write" => pc = "write"
        /\ pc' = "pbu" => pc = "show"
        /\ pc' = "ERR" => status' = -1
        /\ UNCHANGED <<stream, arg, held, imgs, num_frms, mid, au_cnt, pos, verdicts>>
    <2>1. CASE D!Write
      BY <2>1 DEF D!Write
    <2>2. CASE D!ShowFrame
      BY <2>2 DEF D!ShowFrame
    <2> QED BY <2>1, <2>2
  <1>2. nimg' = D!Count(imgs') + D!Gone(imgb_w')
    <2>1. PICK img, i : D!WritePicture(img, i)
      BY DEF D!Write, D!ShowFrame
    <2>2. \/ nimg' = nimg + D!Gone(imgb_w') - D!Gone(imgb_w)
          \/ imgb_w' = D!NoImage /\ nimg' = nimg - D!Gone(imgb_w)
      BY <2>1 DEF D!WritePicture
    <2>3. D!Gone(imgb_w) \in {0, 1} /\ D!Gone(imgb_w') \in {0, 1}
          /\ (imgb_w' = D!NoImage => D!Gone(imgb_w') = 0)
      BY DEF D!Gone
    <2>4. nimg = D!Count(imgs) + D!Gone(imgb_w)
      BY <1>1 DEF DecInv, DecHolds, DecEnds
    <2>5. D!Count(imgs) \in Nat
      BY Counted
    <2>6. D!Count(imgs') = D!Count(imgs)
      BY <1>1
    <2>7. nimg' = D!Count(imgs) + D!Gone(imgb_w')
      BY <2>2, <2>3, <2>4, <2>5
    <2> QED BY <2>6, <2>7
  <1>3. MayHold' = MayHold
    BY <1>1 DEF MayHold, D!Api0
  <1>4. DecOptions'
    BY <1>1 DEF DecInv, DecOptions, DecStages, DecLoop0, DecLoop1, DecEnds, D!Api0
  <1>5. DecImages'
    BY <1>1 DEF DecInv, DecImages, DecStages, D!Api0, D!Slots, Created
  <1>6. DecHolds'
    BY <1>1, <1>2, <1>3 DEF DecInv, DecHolds, DecEnds, DecLoop0, DecLoop1, D!Count, D!Gone
  <1>7. DecSucceeds'
    <2>1. pc' = "ERR" => status' # 0
      BY <1>1
    <2> QED BY <1>1, <2>1 DEF DecInv, DecSucceeds, DecStages, DecLoop0, DecLoop1, DecEnds
  <1>8. DecJudges'
    BY <1>1, VerdictsKept DEF DecInv, DecJudges, DecStages
  <1> QED BY <1>4, <1>5, <1>6, <1>7, <1>8 DEF DecInv

\* An image that is decoded into stays the image it is.
LEMMA StaysCreated ==
  ASSUME NEW img, Created(img), img # D!NoImage, NEW i, NEW frm
  PROVE  /\ Created(D!Decoded(img, i, frm)) /\ D!Decoded(img, i, frm) # D!NoImage
         /\ D!Decoded(img, i, frm).pic = D!Whole(<<pos, i>>, D!Bits(frm, img))
  <1> DEFINE pic == D!Whole(<<pos, i>>, D!Bits(frm, img))
             shape == D!Planes[img.cf]
             new == [img EXCEPT !.pic = pic, !.shape = shape]
  <1>1. DOMAIN img = {"w", "cf", "depth", "shape", "pic"} /\ img.w \in 1..MaxW
    BY DEF Created
  <1>2. D!Decoded(img, i, frm) = new
    BY DEF D!Decoded
  <1> HIDE DEF pic, shape
  <1>3. DOMAIN new = {"w", "cf", "depth", "shape", "pic"} /\ new.w = img.w /\ new.pic = pic
    BY <1>1
  <1>4. new.w \in 1..MaxW
    BY <1>1, <1>3
  <1> HIDE DEF new
  <1>5. new # D!NoImage
    BY <1>4 DEF D!NoImage
  <1> QED BY <1>2, <1>3, <1>4, <1>5 DEF Created, pic

\* oapvd_decode draws into images there are, and stores the unit's payloads
\* in a container that is empty.
LEMMA DecDecodes ==
  ASSUME AppsAssumption, DecInv, D!Decode
  PROVE  DecInv'
  <1> USE DEF D!files, D!setup, D!images, D!count
  <1>1. /\ pc = "decode" /\ pc' = "payloads"
        /\ imgs' = [i \in D!Slots |->
                      IF i <= Len(D!Frames) THEN D!Decoded(imgs[i], i, D!Frames[i].frm)
                      ELSE imgs[i]]
        /\ mid' = D!Store(mid, D!Au.pbus)
        /\ UNCHANGED <<stream, arg, held, nimg, imgb_w, num_frms, au_cnt, pos, verdicts>>
    BY DEF D!Decode
  <1>2. Len(D!Frames) \in 0..num_frms
    BY DEF D!Decode, D!AllDecode
  <1>3. /\ num_frms \in 0..MaxFrames /\ MaxFrames \in Nat
        /\ \A i \in 1..num_frms : imgs[i] # D!NoImage
        /\ \A i \in D!Slots : Created(imgs[i])
        /\ mid = {} /\ D!Api0
    BY <1>1 DEF DecInv, DecImages, DecJudges, DecOptions, DecLoop0, AppsAssumption
  <1>4. \A i \in D!Slots : Created(imgs'[i]) /\ (imgs'[i] = D!NoImage <=> imgs[i] = D!NoImage)
    <2> TAKE i \in D!Slots
    <2>1. CASE i <= Len(D!Frames)
      <3>1. i \in 1..num_frms
        BY <1>2, <1>3, <2>1 DEF D!Slots
      <3>2. imgs'[i] = D!Decoded(imgs[i], i, D!Frames[i].frm)
        BY <1>1, <2>1
      <3>3. imgs[i] # D!NoImage /\ Created(imgs[i])
        BY <1>3, <3>1
      <3> DEFINE new == D!Decoded(imgs[i], i, D!Frames[i].frm)
      <3>4. Created(new) /\ new # D!NoImage
        BY <3>3, StaysCreated
      <3>5. imgs'[i] = new
        BY <3>2
      <3> HIDE DEF new
      <3> QED BY <3>3, <3>4, <3>5
    <2>2. CASE ~(i <= Len(D!Frames))
      <3>1. imgs'[i] = imgs[i]
        BY <1>1, <2>2
      <3> QED BY <1>3, <3>1
    <2> QED BY <2>1, <2>2
  <1>5. \A i \in 1..Len(D!Frames) : imgs'[i].pic.of = <<pos, i>>
    <2> TAKE i \in 1..Len(D!Frames)
    <2>1. i \in D!Slots /\ i \in 1..num_frms /\ i <= Len(D!Frames)
      BY <1>2, <1>3 DEF D!Slots
    <2>2. imgs'[i] = D!Decoded(imgs[i], i, D!Frames[i].frm)
      BY <1>1, <2>1
    <2>3. imgs'[i].pic = D!Whole(<<pos, i>>, D!Bits(D!Frames[i].frm, imgs[i]))
      BY <1>3, <2>1, <2>2, StaysCreated
    <2> QED BY <2>3 DEF D!Whole
  <1>6. D!Count(imgs') = D!Count(imgs)
    <2>1. {i \in D!Slots : imgs'[i] # D!NoImage} = {i \in D!Slots : imgs[i] # D!NoImage}
      BY <1>4
    <2> QED BY <2>1 DEF D!Count
  <1>7. DecOptions'
    BY <1>1 DEF DecInv, DecOptions, DecStages, DecLoop0, DecLoop1, DecEnds, D!Api0
  <1>8. DecImages'
    <2>1. imgs' = [i \in D!Slots |-> imgs'[i]]
      BY <1>1
    <2>2. arg # <<>>
      BY <1>1 DEF DecInv, DecOptions, DecEnds
    <2> QED BY <1>1, <1>3, <1>4, <2>1, <2>2 DEF DecImages, DecStages, D!Api0, D!Slots, Created
  <1>9. DecHolds'
    <2>1. MayHold' = MayHold
      BY <1>1 DEF MayHold, D!Api0
    <2>2. nimg = D!Count(imgs) + D!Gone(imgb_w) /\ held \subseteq MayHold
      BY <1>1 DEF DecInv, DecHolds, DecEnds
    <2>3. nimg' = D!Count(imgs') + D!Gone(imgb_w')
      BY <1>1, <1>6, <2>2
    <2> QED BY <1>1, <2>1, <2>2, <2>3 DEF DecHolds, DecEnds, DecLoop0
  <1>10. DecSucceeds'
    BY <1>1 DEF DecInv, DecSucceeds, DecStages, DecLoop0, DecLoop1, DecEnds
  <1>11. DecJudges'
    <2>1. mid' = D!Store({}, D!Au.pbus)'
      BY <1>1, <1>3 DEF D!Store, D!Au, D!Payload
    <2>2. D!Frames' = D!Frames
      BY <1>1 DEF D!Frames, D!Au
    <2>3. D!VerdictIsThisUnits'
      BY <1>1, VerdictsKept DEF DecInv, DecJudges
    <2> QED BY <1>1, <1>5, <2>1, <2>2, <2>3 DEF DecJudges, DecStages
  <1> QED BY <1>7, <1>8, <1>9, <1>10, <1>11 DEF DecInv

\* A bounded set of numbers that is not empty has a greatest one.
LEMMA Greatest ==
  ASSUME NEW T, NEW N \in Nat, T \subseteq 1..N, T # {}
  PROVE  \E m \in T : \A k \in T : k <= m
  <1> DEFINE Rest == {N - k : k \in T}
  <1>1. Rest \subseteq Nat /\ Rest # {}
    <2>1. \A k \in T : k \in 1..N /\ N - k \in Nat
      OBVIOUS
    <2>2. Rest # {}
      BY SMT
    <2> QED BY <2>1, <2>2
  <1>2. PICK n \in Rest : \A m \in Rest : n <= m
    BY <1>1, LeastElement
  <1>3. PICK m \in T : n = N - m
    BY <1>2
  <1>4. \A k \in T : k \in Int /\ m \in Int /\ N - m <= N - k
    BY <1>2, <1>3
  <1> QED BY <1>4

\* The payload at hand for a picture is that of the last hash of its group.
LEMMA SaysRight ==
  ASSUME NEW m, NEW pbus, IsSeq(pbus), m = D!Store({}, pbus), NEW i, NEW gid, NEW img,
         img.pic.of = <<pos, i>>
  PROVE  D!Says(m, gid, img) = Due(pbus, gid, i)
  <1> DEFINE hs == Hashes(pbus, gid)
  <1> USE DEF Hashes
  <1> DEFINE meta == {j \in DOMAIN pbus : pbus[j].type = "meta"}
             last == {j \in meta : \A k \in meta :
                        D!Same(D!Payload(pbus[j]), D!Payload(pbus[k])) => k <= j}
             of == {e.of : e \in {x \in m : x.gid = gid /\ x.hash}}
             chosen == LastOf(hs)
  <1>1. m = {D!Payload(pbus[j]) : j \in last}
    BY DEF D!Store
  <1>2. \A j : /\ D!Payload(pbus[j]).gid = pbus[j].gid
               /\ D!Payload(pbus[j]).hash <=> pbus[j].hash >= 0
               /\ D!Payload(pbus[j]).of = <<pos, pbus[j].hash>>
    BY DEF D!Payload
  <1>3. \A j \in hs, k \in meta :
          D!Same(D!Payload(pbus[j]), D!Payload(pbus[k])) <=> k \in hs
    <2> TAKE j \in hs, k \in meta
    <2> DEFINE e == D!Payload(pbus[j])
               f == D!Payload(pbus[k])
    <2>1. pbus[j].gid = gid /\ e.gid = gid /\ e.hash = TRUE
      BY DEF D!Payload
    <2>2. f.gid = pbus[k].gid /\ f.hash = (pbus[k].hash >= 0)
      BY DEF D!Payload
    <2>3. k \in hs <=> pbus[k].gid = gid /\ pbus[k].hash >= 0
      OBVIOUS
    <2> HIDE DEF e, f
    <2>4. D!Same(e, f) <=> pbus[k].gid = gid /\ pbus[k].hash >= 0
      BY <2>1, <2>2 DEF D!Same
    <2> QED BY <2>3, <2>4 DEF e, f
  <1>4. \A o : o \in of <=> \E j \in last \cap hs : o = <<pos, pbus[j].hash>>
    <2> TAKE o
    <2>1. ASSUME o \in of PROVE \E j \in last \cap hs : o = <<pos, pbus[j].hash>>
      <3>1. PICK e \in m : e.gid = gid /\ e.hash /\ o = e.of
        BY <2>1
      <3>2. PICK j \in last : e = D!Payload(pbus[j])
        BY <1>1, <3>1
      <3>3. pbus[j].gid = gid /\ pbus[j].hash >= 0 /\ o = <<pos, pbus[j].hash>>
        BY <1>2, <3>1, <3>2
      <3>4. j \in hs
        BY <3>2, <3>3
      <3> QED BY <3>2, <3>3, <3>4
    <2>2. ASSUME NEW j \in last \cap hs, o = <<pos, pbus[j].hash>> PROVE o \in of
      <3> DEFINE e == D!Payload(pbus[j])
      <3>1. e \in m
        BY <1>1
      <3>2. e.gid = gid /\ e.hash /\ o = e.of
        BY <1>2, <2>2
      <3> HIDE DEF e
      <3> QED BY <3>1, <3>2
    <2> QED BY <2>1, <2>2
  <1>5. D!Says(m, gid, img) = IF of = {} THEN "none" ELSE IF img.pic.of \in of THEN "match" ELSE "mismatch"
    BY DEF D!Says
  <1>6. CASE hs = {}
    BY <1>4, <1>5, <1>6 DEF Due
  <1>7. CASE hs # {}
    <2>1. Len(pbus) \in Nat /\ hs \subseteq 1..Len(pbus)
      BY DEF IsSeq
    <2>2. \E j \in hs : \A k \in hs : k <= j
      BY <1>7, <2>1, Greatest
    <2>3. chosen \in hs /\ \A k \in hs : k <= chosen
      BY <2>2 DEF LastOf
    <2> HIDE DEF chosen
    <2>4. \A j \in hs : j \in last <=> j = chosen
      <3> TAKE j \in hs
      <3>1. j \in meta /\ hs \subseteq meta
        OBVIOUS
      <3>2. j \in last <=> \A k \in hs : k <= j
        BY <1>3, <3>1
      <3>3. j \in Int /\ chosen \in Int
        BY <2>1, <2>3
      <3> HIDE DEF last
      <3> QED BY <2>3, <3>2, <3>3
    <2>5. of = {<<pos, pbus[chosen].hash>>}
      BY <1>4, <2>3, <2>4
    <2> HIDE DEF of
    <2>6. img.pic.of \in of <=> pbus[chosen].hash = i
      BY <2>5
    <2>7. of # {}
      BY <2>5
    <2> QED BY <1>5, <1>7, <2>6, <2>7 DEF chosen, Due
  <1> QED BY <1>6, <1>7

\* The payloads are listed, and what is said of the unit's pictures is right.
LEMMA DecLists ==
  ASSUME DecInv, D!Payloads
  PROVE  DecInv'
  <1> USE DEF D!files, D!setup, D!images, D!count
  <1>1. /\ pc = "payloads" /\ pc' \in {"write", "ERR"}
        /\ pc' = "write" => verdicts' = verdicts \cup D!Judged(mid, imgs)
        /\ pc' = "ERR" => quiet' # "" /\ verdicts' = verdicts
        /\ UNCHANGED <<stream, arg, held, nimg, imgs, imgb_w, num_frms, mid, au_cnt, pos>>
    BY DEF D!Payloads
  <1>2. MayHold' = MayHold /\ held \subseteq MayHold
    BY <1>1 DEF MayHold, D!Api0, DecInv, DecHolds
  <1>3. /\ pos = au_cnt + 1 /\ au_cnt \in Nat /\ pos \in 1..Len(stream) /\ IsSeq(stream)
        /\ pos \in 0..Len(stream)
        /\ \A n \in DOMAIN stream : IsSeq(stream[n].pbus)
    <2>1. /\ pos = au_cnt + 1 /\ au_cnt \in Nat /\ pos \in 0..Len(stream) /\ IsSeq(stream)
          /\ \A n \in DOMAIN stream : IsSeq(stream[n].pbus)
      BY <1>1 DEF DecInv, DecSucceeds, DecLoop0
    <2> QED BY <2>1 DEF IsSeq
  <1>4. CASE pc' = "ERR"
    BY <1>1, <1>2, <1>3, <1>4, DecFailing DEF DecEnds
  <1>5. CASE pc' = "write"
    <2>1. DecOptions'
      BY <1>1, <1>5 DEF DecInv, DecOptions, DecStages, DecLoop0, DecLoop1, DecEnds, D!Api0
    <2>2. DecImages'
      BY <1>1, <1>5 DEF DecInv, DecImages, DecStages, D!Api0, D!Slots, Created
    <2>3. DecHolds'
      BY <1>1, <1>2, <1>5 DEF DecInv, DecHolds, DecEnds, DecLoop0, D!Count, D!Gone
    <2>4. DecSucceeds'
      BY <1>1, <1>5 DEF DecInv, DecSucceeds, DecStages, DecLoop0, DecLoop1, DecEnds
    <2>5. DecJudges'
      <3>1. \A v \in verdicts : Right(stream, v)
        BY AllRight DEF DecInv, DecJudges
      <3>2. \A v \in D!Judged(mid, imgs) : Right(stream, v)
        <4> TAKE v \in D!Judged(mid, imgs)
        <4>1. PICK i \in 1..Len(D!Frames) :
                v = [of |-> <<pos, i>>, says |-> D!Says(mid, D!Frames[i].gid, imgs[i])]
          BY DEF D!Judged
        <4> DEFINE pbus == stream[pos].pbus
                   gid == D!Frames[i].gid
        <4>2. IsSeq(pbus)
          BY <1>3 DEF IsSeq
        <4>3. mid = D!Store({}, pbus) /\ imgs[i].pic.of = <<pos, i>>
          BY <1>1 DEF DecInv, DecJudges, D!Au
        <4>4. D!Says(mid, gid, imgs[i]) = Due(pbus, gid, i)
          <5> HIDE DEF pbus, gid
          <5> QED BY <4>2, <4>3, SaysRight
        <4>5. gid = D!FramesOf(stream[pos])[i].gid
          BY DEF D!Frames, D!Au
        <4>6. v.of[1] = pos /\ v.of[2] = i /\ v.says = D!Says(mid, gid, imgs[i])
          BY <4>1
        <4> QED BY <4>4, <4>5, <4>6 DEF Right
      <3>3. \A v \in verdicts' : Right(stream', v)
        BY <1>1, <1>5, <3>1, <3>2
      <3>4. D!VerdictIsThisUnits'
        BY <3>3 DEF D!VerdictIsThisUnits, Right, Due, Hashes, LastOf, D!HashesOf
      <3> QED BY <1>5, <3>4 DEF DecJudges, DecStages
    <2> QED BY <2>1, <2>2, <2>3, <2>4, <2>5 DEF DecInv
  <1> QED BY <1>1, <1>4, <1>5

\* An image made, or kept.
LEMMA MadeIsCreated ==
  ASSUME NEW width, NEW c, NEW d
  PROVE  Created(D!ImgbCreate(width, c, d))
  BY DEF Created, D!ImgbCreate, D!InRange, D!NoImage

\* API set 1 takes an image for a frame, or has none.
LEMMA DecTakes ==
  ASSUME AppsAssumption, DecInv, D!TakeImage
  PROVE  DecInv'
  <1> USE DEF D!files, D!setup, D!images, D!count, D!Error
  <1> DEFINE frm == D!Pbu.frm
             img == IF D!Kept(imgs[1], frm) THEN imgs[1] ELSE D!Fresh(frm)
  <1>1. /\ pc = "pbu" /\ held' = held \cup {"pbu"}
        /\ nimg' = nimg + D!Count(imgs') - D!Count(imgs)
        /\ UNCHANGED <<stream, imgb_w, num_frms, mid, au_cnt, pos, verdicts>>
    BY DEF D!TakeImage, D!AtPbu
  <1>2. \/ /\ img # D!NoImage /\ imgs' = [imgs EXCEPT ![1] = img]
           /\ arg' = [arg EXCEPT !.depth = D!Depth(frm)]
           /\ pc' = "frame"
        \/ /\ imgs' = [imgs EXCEPT ![1] = D!NoImage]
           /\ pc' = "ERR" /\ status' # 0 /\ arg' = arg
    BY DEF D!TakeImage
  <1>3. /\ ~D!Api0 /\ arg # <<>> /\ {"api", "max", "depth"} \subseteq DOMAIN arg
        /\ imgs = [i \in D!Slots |-> imgs[i]] /\ 1 \in D!Slots
        /\ \A i \in D!Slots : Created(imgs[i])
        /\ \A i \in D!Slots \ {1} : imgs[i] = D!NoImage
        /\ num_frms \in 0..MaxFrames
        /\ held \subseteq MayHold /\ nimg = D!Count(imgs) + D!Gone(imgb_w)
    BY <1>1 DEF DecInv, DecOptions, DecImages, DecHolds, DecLoop1, DecEnds, D!Slots, AppsAssumption
  <1>4. Created(img)
    BY <1>3, MadeIsCreated DEF D!Fresh
  <1> HIDE DEF img, frm
  <1>5. /\ imgs' = [i \in D!Slots |-> imgs'[i]]
        /\ \A i \in D!Slots : Created(imgs'[i])
        /\ \A i \in D!Slots \ {1} : imgs'[i] = D!NoImage
        /\ pc' = "frame" => imgs'[1] # D!NoImage
    <2>1. Created(D!NoImage)
      BY DEF Created
    <2> QED BY <1>2, <1>3, <1>4, <2>1
  <1>6. /\ {"api", "max", "depth"} \subseteq DOMAIN arg' /\ arg' # <<>>
        /\ ~D!Api0' /\ D!More' = D!More
    BY <1>1, <1>2, <1>3 DEF D!Api0, D!More
  <1>7. DecOptions'
    BY <1>1, <1>2, <1>6 DEF DecOptions, DecStages, DecLoop0, DecLoop1, DecEnds
  <1>8. DecImages'
    BY <1>1, <1>2, <1>3, <1>5, <1>6 DEF DecImages, DecStages, D!Slots, Created
  <1>9. DecHolds'
    <2>1. held' \subseteq MayHold'
      BY <1>1, <1>2, <1>3, <1>6 DEF MayHold
    <2>2. nimg' = D!Count(imgs') + D!Gone(imgb_w')
      <3>1. D!Count(imgs') \in Nat /\ D!Count(imgs) \in Nat
        BY Counted
      <3>2. D!Gone(imgb_w) \in {0, 1} /\ D!Gone(imgb_w') = D!Gone(imgb_w)
        BY <1>1 DEF D!Gone
      <3> QED BY <1>1, <1>3, <3>1, <3>2
    <2> QED BY <1>2, <2>1, <2>2 DEF DecHolds, DecEnds, DecLoop1
  <1>10. DecSucceeds'
    BY <1>1, <1>2 DEF DecInv, DecSucceeds, DecStages, DecLoop0, DecLoop1, DecEnds
  <1>11. DecJudges'
    BY <1>1, <1>2, VerdictsKept DEF DecInv, DecJudges, DecStages
  <1> QED BY <1>7, <1>8, <1>9, <1>10, <1>11 DEF DecInv

\* A frame, or some of its tiles, is drawn into that image.
LEMMA DecDecodesFrame ==
  ASSUME AppsAssumption, DecInv, D!DecodeFrame
  PROVE  DecInv'
  <1> USE DEF D!files, D!setup, D!images, D!count
  <1> DEFINE img == D!DecodedPart(imgs[1], D!Pbu.frm)
  <1>1. /\ pc = "frame" /\ pc' = "show" /\ held' \subseteq held \cup {"tile_reqs"}
        /\ imgs' = [imgs EXCEPT ![1] = img]
        /\ UNCHANGED <<stream, arg, nimg, imgb_w, num_frms, mid, au_cnt, pos, verdicts>>
    BY DEF D!DecodeFrame
  <1>2. /\ ~D!Api0 /\ imgs = [i \in D!Slots |-> imgs[i]] /\ 1 \in D!Slots
        /\ \A i \in D!Slots : Created(imgs[i])
        /\ imgs[1] # D!NoImage
        /\ held \subseteq MayHold /\ nimg = D!Count(imgs) + D!Gone(imgb_w)
    BY <1>1 DEF DecInv, DecOptions, DecImages, DecHolds, DecLoop1, DecEnds, D!Slots, AppsAssumption
  <1>3. Created(img) /\ img # D!NoImage
    <2> DEFINE new == D!Decoded(imgs[1], at, D!Pbu.frm)
    <2>1. Created(new) /\ new # D!NoImage
      BY <1>2, StaysCreated
    <2>2. img = new \/ \E pic : img = [new EXCEPT !.pic = pic]
      BY DEF D!DecodedPart
    <2> HIDE DEF new, img
    <2>3. ASSUME NEW pic, img = [new EXCEPT !.pic = pic] PROVE Created(img) /\ img # D!NoImage
      <3>1. DOMAIN new = {"w", "cf", "depth", "shape", "pic"} /\ new.w \in 1..MaxW
        BY <2>1 DEF Created
      <3>2. DOMAIN img = {"w", "cf", "depth", "shape", "pic"} /\ img.w = new.w
        BY <2>3, <3>1
      <3> QED BY <3>1, <3>2 DEF Created, D!NoImage
    <2> QED BY <2>1, <2>2, <2>3
  <1> HIDE DEF img
  <1>4. /\ imgs' = [i \in D!Slots |-> imgs'[i]]
        /\ \A i \in D!Slots : Created(imgs'[i]) /\ (imgs'[i] = D!NoImage <=> imgs[i] = D!NoImage)
    BY <1>1, <1>2, <1>3
  <1>5. D!Count(imgs') = D!Count(imgs)
    <2>1. {i \in D!Slots : imgs'[i] # D!NoImage} = {i \in D!Slots : imgs[i] # D!NoImage}
      BY <1>4
    <2> QED BY <2>1 DEF D!Count
  <1>6. DecOptions'
    BY <1>1 DEF DecInv, DecOptions, DecStages, DecLoop0, DecLoop1, DecEnds, D!Api0
  <1>7. DecImages'
    BY <1>1, <1>4 DEF DecInv, DecImages, DecStages, D!Api0, D!Slots, Created
  <1>8. DecHolds'
    <2>1. held' \subseteq MayHold'
      BY <1>1, <1>2 DEF MayHold, D!Api0
    <2>2. nimg' = D!Count(imgs') + D!Gone(imgb_w')
      BY <1>1, <1>2, <1>5
    <2> QED BY <1>1, <2>1, <2>2 DEF DecHolds, DecEnds, DecLoop1
  <1>9. DecSucceeds'
    BY <1>1 DEF DecInv, DecSucceeds, DecStages, DecLoop0, DecLoop1, DecEnds
  <1>10. DecJudges'
    BY <1>1, VerdictsKept DEF DecInv, DecJudges, DecStages
  <1> QED BY <1>6, <1>7, <1>8, <1>9, <1>10 DEF DecInv

\* What the images for the next unit are: made, kept, or none.
LEMMA PreparedAre ==
  ASSUME NEW told, NEW have \in 0..Len(told), Len(told) \in 1..MaxFrames, MaxFrames \in Nat,
         \A i \in D!Slots : Created(imgs[i]),
         \A i \in 1..have : D!Kept(imgs[i], told[i]) \/ D!Fresh(told[i]) # D!NoImage
  PROVE  LET new == D!Prepared(told, have)
         IN  /\ new = [i \in D!Slots |-> new[i]]
             /\ \A i \in D!Slots : Created(new[i])
             /\ \A i \in 1..have : new[i] # D!NoImage
  <1> DEFINE new == D!Prepared(told, have)
             made(i) == IF D!Kept(imgs[i], told[i]) THEN imgs[i] ELSE D!Fresh(told[i])
  <1>1. new = [i \in D!Slots |->
                 IF i \in 1..have THEN made(i)
                 ELSE IF i = have + 1 /\ i <= Len(told) /\ ~D!Kept(imgs[i], told[i])
                 THEN D!NoImage ELSE imgs[i]]
    BY DEF D!Prepared
  <1>2. \A i \in D!Slots : Created(made(i))
    <2> TAKE i \in D!Slots
    <2>1. Created(D!Fresh(told[i]))
      BY MadeIsCreated DEF D!Fresh
    <2> QED BY <2>1
  <1>3. \A i \in 1..have : made(i) # D!NoImage
    BY DEF D!Kept
  <1>4. Created(D!NoImage)
    BY DEF Created
  <1>5. \A i \in 1..have : i \in D!Slots
    BY DEF D!Slots
  <1> HIDE DEF made, new
  <1>6. new = [i \in D!Slots |-> new[i]]
    BY <1>1
  <1>7. \A i \in D!Slots : Created(new[i])
    <2> TAKE i \in D!Slots
    <2>1. new[i] \in {made(i), D!NoImage, imgs[i]}
      BY <1>1
    <2> QED BY <1>2, <1>4, <2>1
  <1>8. \A i \in 1..have : new[i] # D!NoImage
    <2> TAKE i \in 1..have
    <2>1. new[i] = made(i)
      BY <1>1, <1>5
    <2> QED BY <1>3, <2>1
  <1> QED BY <1>6, <1>7, <1>8 DEF new

\* API set 0 prepares the images of a unit.
LEMMA DecPrepares ==
  ASSUME AppsAssumption, DecInv, D!Info
  PROVE  DecInv'
  <1> USE DEF D!files, D!setup, D!images, D!count, D!Error
  <1>1. /\ pc = "info" /\ UNCHANGED <<stream, held, mid, au_cnt, pos, verdicts, quiet>>
        /\ D!Api0 /\ arg # <<>> /\ {"api", "max", "depth"} \subseteq DOMAIN arg
    BY DEF D!Info, DecInv, DecOptions, DecLoop0, DecEnds
  <1>2. /\ \A i \in D!Slots : Created(imgs[i])
        /\ held \subseteq MayHold /\ nimg = D!Count(imgs) + D!Gone(imgb_w)
        /\ pos \in 0..Len(stream) /\ MaxFrames \in Nat /\ mid = {}
    BY <1>1 DEF DecInv, DecImages, DecHolds, DecEnds, DecSucceeds, DecJudges, AppsAssumption
  <1>3. CASE ~D!InfoReads \/ Len(D!Told) \notin 1..MaxFrames
    <2>1. /\ UNCHANGED <<arg, nimg, imgs, imgb_w, num_frms>> /\ pc' = "ERR" /\ status' # 0
      BY <1>3 DEF D!Info
    <2>2. held' \subseteq MayHold'
      BY <1>1, <1>2, <2>1 DEF MayHold, D!Api0
    <2> QED BY <1>1, <1>2, <2>1, <2>2, DecFailing DEF DecEnds
  <1>4. CASE D!InfoReads /\ Len(D!Told) \in 1..MaxFrames
    <2> DEFINE told == D!Told
    <2>1. PICK have \in 0..Len(told) :
            /\ \A i \in 1..have : D!Kept(imgs[i], told[i]) \/ D!Fresh(told[i]) # D!NoImage
            /\ num_frms' = Len(told)
            /\ imgs' = D!Prepared(told, have)
            /\ nimg' = nimg + D!Count(imgs') - D!Count(imgs)
            /\ imgb_w' = imgb_w
            /\ IF have = Len(told)
               THEN arg' = [arg EXCEPT !.depth = D!Depth(told[Len(told)])] /\ pc' = "decode"
               ELSE pc' = "ERR" /\ status' = -1 /\ arg' = arg
      BY <1>4 DEF D!Info
    <2>2. Len(told) \in 1..MaxFrames
      BY <1>4
    <2> HIDE DEF told
    <2>3. /\ imgs' = [i \in D!Slots |-> imgs'[i]]
          /\ \A i \in D!Slots : Created(imgs'[i])
          /\ \A i \in 1..have : imgs'[i] # D!NoImage
      BY <1>2, <2>1, <2>2, PreparedAre
    <2>4. /\ {"api", "max", "depth"} \subseteq DOMAIN arg' /\ arg' # <<>>
          /\ D!Api0'
      <3>1. arg' = arg \/ \E d : arg' = [arg EXCEPT !.depth = d]
        BY <2>1
      <3> QED BY <1>1, <3>1 DEF D!Api0
    <2>5. DecOptions'
      BY <2>1, <2>4 DEF DecOptions, DecStages, DecLoop0, DecLoop1, DecEnds
    <2>6. DecImages'
      BY <1>2, <2>1, <2>2, <2>3, <2>4 DEF DecImages, DecStages, D!Slots, Created
    <2>7. DecHolds'
      <3>1. held' \subseteq MayHold'
        BY <1>1, <1>2, <2>1, <2>4 DEF MayHold
      <3>2. nimg' = D!Count(imgs') + D!Gone(imgb_w')
        <4>1. D!Count(imgs') \in Nat /\ D!Count(imgs) \in Nat
          BY Counted
        <4>2. D!Gone(imgb_w) \in {0, 1} /\ D!Gone(imgb_w') = D!Gone(imgb_w)
          BY <2>1 DEF D!Gone
        <4> QED BY <1>2, <2>1, <4>1, <4>2
      <3> QED BY <2>1, <3>1, <3>2 DEF DecHolds, DecEnds, DecLoop0
    <2>8. DecSucceeds'
      <3>1. pc' = "ERR" => status' # 0
        BY <2>1
      <3>2. pc' \in {"decode", "ERR"}
        BY <2>1
      <3> QED BY <1>1, <3>1, <3>2 DEF DecInv, DecSucceeds, DecStages, DecLoop0, DecLoop1, DecEnds
    <2>9. DecJudges'
      <3>1. pc' \in {"decode", "ERR"}
        BY <2>1
      <3> QED BY <1>1, <1>2, <3>1, VerdictsKept DEF DecInv, DecJudges, DecStages
    <2> QED BY <2>5, <2>6, <2>7, <2>8, <2>9 DEF DecInv
  <1> QED BY <1>3, <1>4

\* The images of the last unit's places go; those of the places behind stay.
LEMMA DecCleansUp ==
  ASSUME AppsAssumption, DecInv, D!Cleanup
  PROVE  DecInv'
  <1> USE DEF D!files, D!setup, D!images, D!count
  <1> DEFINE S == {i \in D!Slots : imgs[i] # D!NoImage}
             Rest == {i \in D!Owned : imgs[i] # D!NoImage}
             L == IF D!Api0 THEN Lost ELSE {}
  <1>1. /\ pc = "ERR" /\ pc' = "main_ERR"
        /\ UNCHANGED <<stream, status, arg, imgs, imgb_w, num_frms, mid, au_cnt, pos, verdicts, quiet>>
        /\ held' = held \ ({"did", "mid"} \cup IF D!Api0 THEN {"bs_buf"} ELSE {"pbu", "tile_reqs"})
        /\ nimg' = nimg - Cardinality(Rest) - D!Gone(imgb_w)
    BY CardD DEF D!Cleanup
  <1>2. /\ arg # <<>> /\ held \subseteq MayHold /\ nimg = D!Count(imgs) + D!Gone(imgb_w)
        /\ num_frms \in 0..MaxFrames /\ MaxFrames \in Nat
        /\ ~D!Api0 => \A i \in D!Slots \ {1} : imgs[i] = D!NoImage
    BY <1>1 DEF DecInv, DecOptions, DecHolds, DecImages, DecEnds, AppsAssumption
  <1>3. 1 \in D!Slots
    BY DEF D!Slots, AppsAssumption
  <1>4. S = Rest \cup L /\ Rest \cap L = {}
    <2>1. CASE D!Api0
      <3>1. D!Owned = 1..num_frms
        BY <2>1 DEF D!Owned
      <3>2. \A i : i \in S <=> i \in Rest \/ i \in Lost
        BY <1>2, <3>1 DEF Lost, D!Slots
      <3>3. \A i : ~(i \in Rest /\ i \in Lost)
        BY <1>2, <3>1 DEF Lost, D!Slots
      <3> QED BY <2>1, <3>2, <3>3
    <2>2. CASE ~D!Api0
      <3>1. D!Owned = {1} /\ L = {}
        BY <2>2 DEF D!Owned
      <3>2. S = Rest
        BY <1>2, <1>3, <2>2, <3>1
      <3> QED BY <3>1, <3>2
    <2> QED BY <2>1, <2>2
  <1>5. IsFiniteSet(S) /\ D!Count(imgs) = Cardinality(S)
    BY Counted
  <1> HIDE DEF S, Rest, L
  <1>6. Cardinality(S) = Cardinality(Rest) + Cardinality(L) /\ Cardinality(Rest) \in Nat /\ Cardinality(L) \in Nat
    <2>1. IsFiniteSet(Rest) /\ IsFiniteSet(L)
      <3>1. Rest \subseteq S /\ L \subseteq S
        BY <1>4
      <3> QED BY <1>5, <3>1, FS_Subset
    <2>2. Cardinality(Rest) \in Nat /\ Cardinality(L) \in Nat
      BY <2>1, FS_CardinalityType
    <2>3. Cardinality(Rest \cup L) = Cardinality(Rest) + Cardinality(L) - Cardinality(Rest \cap L)
      BY <2>1, FS_Union
    <2>4. Cardinality(Rest \cap L) = 0
      BY <1>4, FS_EmptySet
    <2> QED BY <1>4, <2>2, <2>3, <2>4
  <1>7. D!Gone(imgb_w) \in {0, 1}
    BY DEF D!Gone
  <1>8. nimg' = Cardinality(L)
    BY <1>1, <1>2, <1>5, <1>6, <1>7
  <1>9. Cardinality(L) = IF D!Api0 THEN Cardinality(Lost) ELSE 0
    BY FS_EmptySet DEF L
  <1>10. held' \subseteq MayHold'
    <2>1. MayHold' = {"fp", "args", "args_var"}
      BY <1>1 DEF MayHold
    <2>2. held \subseteq {"fp", "args", "args_var", "did", "mid"}
                           \cup (IF D!Api0 THEN {"bs_buf"} ELSE {"pbu", "tile_reqs"})
      BY <1>1, <1>2 DEF MayHold
    <2> QED BY <1>1, <2>1, <2>2
  <1>11. D!Api0' = D!Api0 /\ Lost' = Lost /\ D!More' = D!More
    BY <1>1 DEF D!Api0, Lost, D!More, D!Slots
  <1>12. DecOptions'
    BY <1>1, <1>11 DEF DecInv, DecOptions, DecStages, DecLoop0, DecLoop1, DecEnds
  <1>13. DecImages'
    BY <1>1, <1>11 DEF DecInv, DecImages, DecStages, D!Slots, Created
  <1>14. DecHolds'
    BY <1>1, <1>2, <1>8, <1>9, <1>10, <1>11 DEF DecHolds, DecEnds
  <1>15. DecSucceeds'
    BY <1>1, <1>11 DEF DecInv, DecSucceeds, DecStages, DecLoop0, DecLoop1, DecEnds
  <1>16. DecJudges'
    BY <1>1, VerdictsKept DEF DecInv, DecJudges, DecStages
  <1> QED BY <1>12, <1>13, <1>14, <1>15, <1>16 DEF DecInv

\* The label of main releases the files and the options.
LEMMA DecExits ==
  ASSUME DecInv, D!Exit
  PROVE  DecInv'
  <1> USE DEF D!files, D!setup, D!images, D!count
  <1>1. /\ pc = "main_ERR" /\ pc' = "exit" /\ held' = held \ {"fp", "args", "args_var"}
        /\ UNCHANGED <<stream, status, arg, nimg, imgs, imgb_w, num_frms, mid, au_cnt, pos, verdicts, quiet>>
    BY DEF D!Exit
  <1>2. held' \subseteq MayHold'
    BY <1>1 DEF DecInv, DecHolds, MayHold
  <1>3. D!Api0' = D!Api0 /\ Lost' = Lost /\ D!More' = D!More
    BY <1>1 DEF D!Api0, Lost, D!More, D!Slots
  <1>4. DecOptions'
    BY <1>1, <1>3 DEF DecInv, DecOptions, DecStages, DecLoop0, DecLoop1, DecEnds
  <1>5. DecImages'
    BY <1>1, <1>3 DEF DecInv, DecImages, DecStages, D!Slots, Created
  <1>6. DecHolds'
    BY <1>1, <1>2, <1>3 DEF DecInv, DecHolds, DecEnds
  <1>7. DecSucceeds'
    BY <1>1, <1>3 DEF DecInv, DecSucceeds, DecStages, DecLoop0, DecLoop1, DecEnds
  <1>8. DecJudges'
    BY <1>1, VerdictsKept DEF DecInv, DecJudges, DecStages
  <1> QED BY <1>4, <1>5, <1>6, <1>7, <1>8 DEF DecInv

\* Every step of AppDec keeps its invariant
LEMMA DecStep ==
  ASSUME AppsAssumption, DecInv, D!Next
  PROVE  DecInv'
  BY DecBegins, DecStops, DecCreates, DecReads, DecUnits, DecWrites, DecDecodes, DecLists,
     DecTakes, DecDecodesFrame, DecPrepares, DecCleansUp, DecExits
     DEF D!Next

\* What the decoder program promises follows.
LEMMA DecPromises ==
  ASSUME DecInv
  PROVE  D!SuccessIsWhole /\ D!EverythingReleased /\ D!VerdictIsThisUnits
  <1>1. D!SuccessIsWhole
    BY DEF DecInv, DecSucceeds, DecEnds, D!SuccessIsWhole
  <1>2. D!EverythingReleased
    <2>1. SUFFICES ASSUME pc = "exit"
                   PROVE  /\ held = {}
                          /\ nimg = (IF arg # <<>> /\ D!Api0
                                     THEN D!Cardinality({i \in D!Slots : i > num_frms /\ imgs[i] # D!NoImage})
                                     ELSE 0)
      BY DEF D!EverythingReleased
    <2>2. MayHold = {}
      BY <2>1 DEF MayHold
    <2>3. held = {}
      BY <2>2 DEF DecInv, DecHolds
    <2>4. D!Cardinality({i \in D!Slots : i > num_frms /\ imgs[i] # D!NoImage}) = Cardinality(Lost)
      BY CardD DEF Lost
    <2>5. nimg = IF arg # <<>> /\ D!Api0 THEN Cardinality(Lost) ELSE 0
      BY <2>1 DEF DecInv, DecHolds, DecEnds
    <2> QED BY <2>3, <2>4, <2>5
  <1>3. D!VerdictIsThisUnits
    BY DEF DecInv, DecJudges
  <1> QED BY <1>1, <1>2, <1>3

\* and it holds at first, of a bitstream from elsewhere
LEMMA DecInitially ==
  ASSUME AppsAssumption, InitDec
  PROVE  DecInv
  <1>1. IsSeq(stream) /\ \A n \in DOMAIN stream : IsSeq(stream[n].pbus)
    BY DEF InitDec, AppsAssumption, UnitsOk
  <1>2. /\ pc = "start" /\ status = 0 /\ arg = <<>> /\ held = {} /\ nimg = 0
        /\ imgs = [i \in D!Slots |-> D!NoImage] /\ imgb_w = D!NoImage /\ num_frms = 0
        /\ au_cnt = 0 /\ mid = {} /\ pos = 0 /\ verdicts = {}
    BY DEF InitDec, D!Init
  <1>3. \A i \in D!Slots : imgs[i] = D!NoImage
    BY <1>2
  <1>4. Len(stream) \in Nat /\ MaxFrames \in Nat
    BY <1>1 DEF IsSeq, AppsAssumption
  <1>5. DecOptions
    BY <1>2 DEF DecOptions, DecLoop0, DecLoop1
  <1>6. DecImages
    BY <1>2, <1>3, <1>4 DEF DecImages, DecStages, Created
  <1>7. DecHolds
    <2>1. {i \in D!Slots : imgs[i] # D!NoImage} = {}
      BY <1>3
    <2>2. D!Count(imgs) = 0
      BY <2>1, CardD, FS_EmptySet DEF D!Count
    <2>3. D!Count(imgs) + D!Gone(imgb_w) = 0
      BY <1>2, <2>2 DEF D!Gone
    <2> QED BY <1>2, <2>3 DEF DecHolds, DecStages, DecEnds
  <1>8. DecSucceeds
    BY <1>1, <1>2, <1>4 DEF DecSucceeds, DecStages, DecLoop0, DecLoop1, DecEnds
  <1>9. DecJudges
    BY <1>2 DEF DecJudges, DecStages, D!VerdictIsThisUnits
  <1> QED BY <1>5, <1>6, <1>7, <1>8, <1>9 DEF DecInv

\* The units an encoder writes are of frames a decoder accepts.
EncUnits ==
  coded # NoFile =>
    \A n \in DOMAIN coded : coded[n].cf \in DOMAIN E!Planes /\ coded[n].depth \in {10, 12, 16}

\* Such are the pictures the codec takes, which is all that is ever appended.
LEMMA EncUnitsStep ==
  ASSUME EncInv, EncUnits, E!Next
  PROVE  EncUnits'
  <1> USE DEF E!files, E!setup, E!run
  <1>1. \/ coded' = coded
        \/ coded' = <<>>
        \/ pc = "code" /\ coded' = E!Stored
    <2>1. CASE E!Help \/ E!ParseArgs \/ E!Open \/ E!FromHeader \/ E!HeaderRefused
               \/ E!FromOptions
      BY <2>1 DEF E!Help, E!ParseArgs, E!Parsing, E!Open, E!FromHeader, E!HeaderRefused,
                  E!FromOptions
    <2>2. CASE E!Update \/ E!Outputs \/ E!Create \/ E!Images \/ E!Summary \/ E!Read
      BY <2>2 DEF E!Update, E!Outputs, E!Create, E!Images, E!Summary, E!Read
    <2>3. CASE E!Encode \/ E!EncodeFails
      BY <2>3 DEF E!Encode, E!EncodeFails, E!Coded
    <2>4. CASE E!Skip \/ E!SkipEnds \/ E!Stop \/ E!Cleanup
      BY <2>4 DEF E!Skip, E!SkipEnds, E!Stop, E!Cleanup, E!Coded
    <2> QED BY <2>1, <2>2, <2>3, <2>4 DEF E!Next
  <1>2. CASE coded' = coded \/ coded' = <<>>
    BY <1>2 DEF EncUnits
  <1>3. CASE pc = "code" /\ coded' = E!Stored /\ coded # NoFile
    <2>1. imgs.i.cf \in DOMAIN E!Planes /\ imgs.i.depth \in {10, 12, 16}
      BY <1>3, Depths DEF EncInv, EncImages, Codec, Is, Loop
    <2>2. E!Unit.cf = imgs.i.cf /\ E!Unit.depth = imgs.i.depth
      BY DEF E!Unit
    <2>3. IsSeq(coded)
      BY <1>3, EncPromises
    <2> DEFINE new == E!Unit
    <2>4. coded' = Append(coded, new)
      BY <1>3 DEF E!Stored
    <2> HIDE DEF new
    <2>5. \A n \in DOMAIN coded' : (n \in DOMAIN coded /\ coded'[n] = coded[n]) \/ coded'[n] = new
      BY <2>3, <2>4, Appended
    <2> QED BY <1>3, <2>1, <2>2, <2>5 DEF EncUnits, new
  <1> QED BY <1>1, <1>2, <1>3 DEF E!Stored

\* What the decoder program finds of such a unit.
LEMMA UnitsAreOk ==
  ASSUME NEW unit, unit.cf \in DOMAIN E!Planes, unit.depth \in {10, 12, 16}
  PROVE  /\ IsSeq(UnitOf(unit).pbus)
         /\ \A j \in DOMAIN UnitOf(unit).pbus : PbuOk(UnitOf(unit).pbus[j])
  <1> DEFINE pbu(type, hash) == [type |-> type, gid |-> 1, frm |-> FrameOf(unit),
                                 list |-> <<>>, hash |-> hash]
             S == {pbu("primary", 0), pbu("meta", 1), pbu("meta", -1)}
             hashed == IF "hash" \in unit.meta THEN <<pbu("meta", 1)>> ELSE <<>>
             others == IF unit.meta \subseteq {"hash"} THEN <<>> ELSE <<pbu("meta", -1)>>
  <1>1. UnitOf(unit).pbus = <<pbu("primary", 0)>> \o hashed \o others
    BY DEF UnitOf
  <1>2. /\ pbu("primary", 0) \in S /\ pbu("meta", 1) \in S /\ pbu("meta", -1) \in S
    OBVIOUS
  <1>3. \A x \in S : x.list = <<>> /\ x.frm = FrameOf(unit)
    OBVIOUS
  <1> HIDE DEF S, pbu
  <1>4. <<pbu("primary", 0)>> \in Seq(S) /\ hashed \in Seq(S) /\ others \in Seq(S)
    BY <1>2
  <1> HIDE DEF hashed, others
  <1>5. <<pbu("primary", 0)>> \o hashed \in Seq(S)
    BY <1>4
  <1>6. UnitOf(unit).pbus \in Seq(S)
    BY <1>1, <1>4, <1>5
  <1>7. IsSeq(UnitOf(unit).pbus) /\ \A j \in DOMAIN UnitOf(unit).pbus : UnitOf(unit).pbus[j] \in S
    BY <1>6, SeqIsSeq
  <1>8. FrameOk(FrameOf(unit))
    <2>1. unit.cf \in {"YCBCR400", "YCBCR420", "YCBCR422", "YCBCR444", "YCBCR4444", "PLANAR2"}
      BY DEF E!Planes
    <2>2. FrameOf(unit).cf \in {"YCBCR400", "YCBCR420", "YCBCR422", "YCBCR444", "YCBCR4444"}
      BY <2>1 DEF FrameOf
    <2>3. FrameOf(unit).cf \in DOMAIN D!Planes \ {"PLANAR2"}
      BY <2>2 DEF D!Planes
    <2>4. FrameOf(unit).depth \in 10..16 /\ FrameOf(unit).comp \in BOOLEAN
      BY DEF FrameOf
    <2> QED BY <2>3, <2>4 DEF FrameOk
  <1>9. \A x \in S : PbuOk(x)
    <2> TAKE x \in S
    <2>1. x.list = <<>> /\ FrameOk(x.frm)
      BY <1>3, <1>8
    <2>2. IsSeq(x.list) /\ \A k \in DOMAIN x.list : FrameOk(x.list[k])
      BY <2>1 DEF IsSeq
    <2> QED BY <2>1, <2>2 DEF PbuOk
  <1> QED BY <1>7, <1>9

\* The decoder program is started on units it accepts.
LEMMA StartsWithUnits ==
  ASSUME EncInv, EncUnits, Handover
  PROVE  UnitsOk(stream')
  <1>1. stream' = [n \in DOMAIN coded |-> UnitOf(coded[n])] /\ coded # NoFile
    BY DEF Handover
  <1>2. DOMAIN coded = 1..Len(coded) /\ Len(coded) \in Nat
    BY <1>1, EncPromises DEF IsSeq
  <1> DEFINE S == {UnitOf(coded[n]) : n \in 1..Len(coded)}
  <1>3. stream' \in Seq(S)
    BY <1>1, <1>2
  <1>4. IsSeq(stream') /\ DOMAIN stream' = 1..Len(coded)
    BY <1>1, <1>2, <1>3, SeqIsSeq
  <1> HIDE DEF S
  <1>5. ASSUME NEW n \in DOMAIN stream'
        PROVE  IsSeq(stream'[n].pbus) /\ \A j \in DOMAIN stream'[n].pbus : PbuOk(stream'[n].pbus[j])
    <2>1. stream'[n] = UnitOf(coded[n]) /\ n \in DOMAIN coded
      BY <1>1, <1>2, <1>4, <1>5
    <2>2. coded[n].cf \in DOMAIN E!Planes /\ coded[n].depth \in {10, 12, 16}
      BY <1>1, <2>1 DEF EncUnits
    <2> QED BY <2>1, <2>2, UnitsAreOk
  <1> QED BY <1>4, <1>5 DEF UnitsOk

\* and of one the encoder program has written.
LEMMA DecStartsOver ==
  ASSUME AppsAssumption, EncInv, EncUnits, Handover
  PROVE  DecInv'
  <1>1. IsSeq(stream') /\ \A n \in DOMAIN stream' : IsSeq(stream'[n].pbus)
    BY StartsWithUnits DEF UnitsOk
  <1>2. /\ pc' = "start" /\ status' = 0 /\ arg' = <<>> /\ held' = {} /\ nimg' = 0
        /\ imgs' = [i \in D!Slots |-> D!NoImage] /\ imgb_w' = D!NoImage /\ num_frms' = 0
        /\ au_cnt' = 0 /\ mid' = {} /\ pos' = 0 /\ verdicts' = {}
    BY DEF Handover
  <1>3. \A i \in D!Slots : imgs'[i] = D!NoImage
    BY <1>2
  <1>4. Len(stream') \in Nat /\ MaxFrames \in Nat
    BY <1>1 DEF IsSeq, AppsAssumption
  <1>5. DecOptions'
    BY <1>2 DEF DecOptions, DecLoop0, DecLoop1
  <1>6. DecImages'
    BY <1>2, <1>3, <1>4 DEF DecImages, DecStages, D!Slots, Created
  <1>7. DecHolds'
    <2>1. {i \in D!Slots : imgs'[i] # D!NoImage} = {}
      BY <1>3
    <2>2. D!Count(imgs') = 0
      BY <2>1, CardD, FS_EmptySet DEF D!Count
    <2>3. D!Count(imgs)' + D!Gone(imgb_w)' = 0
      BY <1>2, <2>2 DEF D!Gone, D!Count, D!Slots
    <2> QED BY <1>2, <2>3 DEF DecHolds, DecStages, DecEnds, MayHold
  <1>8. DecSucceeds'
    BY <1>1, <1>2, <1>4 DEF DecSucceeds, DecStages, DecLoop0, DecLoop1, DecEnds, IsSeq
  <1>9. DecJudges'
    BY <1>2 DEF DecJudges, DecStages, D!VerdictIsThisUnits
  <1> QED BY <1>5, <1>6, <1>7, <1>8, <1>9 DEF DecInv

----------------------------------------------------------------------------
(* AppDec: what is written is as its label says                            *)

\* The frames of a unit are PBUs of it, in a sequence.
LEMMA FramesAre ==
  ASSUME NEW au, IsSeq(au.pbus)
  PROVE  /\ Len(D!FramesOf(au)) \in Nat
         /\ \A i \in 1..Len(D!FramesOf(au)) :
              D!FramesOf(au)[i] \in {x \in D!ToSet(au.pbus) : D!IsFrame(x)}
  <1> DEFINE N == Len(au.pbus)
             S == {x \in D!ToSet(au.pbus) : D!IsFrame(x)}
             next(s, k) == IF D!IsFrame(au.pbus[k]) THEN Append(s, au.pbus[k]) ELSE s
             Are(f) == f = [j \in 0..Len(au.pbus) |->
                              IF j = 0 THEN <<>>
                              ELSE IF D!IsFrame(au.pbus[j]) THEN Append(f[j - 1], au.pbus[j])
                              ELSE f[j - 1]]
  <1>1. N \in Nat /\ DOMAIN au.pbus = 1..N
    BY DEF IsSeq
  <1>2. \A s \in Seq(S), k \in 1..N : next(s, k) \in Seq(S)
    <2> TAKE s \in Seq(S), k \in 1..N
    <2>1. CASE ~D!IsFrame(au.pbus[k])
      BY <2>1
    <2>2. CASE D!IsFrame(au.pbus[k])
      <3>1. au.pbus[k] \in S
        BY <1>1, <2>2 DEF D!ToSet
      <3> HIDE DEF S
      <3>2. Append(s, au.pbus[k]) \in Seq(S)
        BY <3>1
      <3> QED BY <2>2, <3>2
    <2> QED BY <2>1, <2>2
  <1> HIDE DEF S
  <1>3. PICK rule \in Rule(N, Seq(S)) :
          \A k \in 1..N, s \in Seq(S) : rule[k][s] = next(s, k)
    <2>1. [k \in 1..N |-> [s \in Seq(S) |-> next(s, k)]] \in Rule(N, Seq(S))
      BY <1>2 DEF Rule
    <2> HIDE DEF next
    <2> QED BY <2>1
  <1>4. PICK f : Follows(f, N, Seq(S), <<>>, rule)
    <2>1. <<>> \in Seq(S)
      OBVIOUS
    <2> QED BY <1>1, <2>1, Recursion
  <1> HIDE DEF next, N
  <1>5. \A j \in 1..N : j - 1 \in 0..N /\ f[j] = next(f[j - 1], j)
    <2> SUFFICES ASSUME NEW j \in 1..N PROVE j - 1 \in 0..N /\ f[j] = next(f[j - 1], j)
      OBVIOUS
    <2>1. j - 1 \in 0..N
      BY <1>1
    <2>2. f[j - 1] \in Seq(S) /\ f[j] = rule[j][f[j - 1]]
      BY <1>4, <2>1 DEF Follows
    <2>3. rule[j][f[j - 1]] = next(f[j - 1], j)
      BY <1>3, <2>2
    <2> QED BY <2>1, <2>2, <2>3
  <1>6. Are(f)
    <2>1. f = [j \in 0..N |-> IF j = 0 THEN <<>> ELSE next(f[j - 1], j)]
      <3>1. \A j \in 0..N : f[j] = IF j = 0 THEN <<>> ELSE next(f[j - 1], j)
        BY <1>1, <1>4, <1>5 DEF Follows
      <3>2. f = [j \in 0..N |-> f[j]]
        BY <1>4 DEF Follows
      <3> QED BY <3>1, <3>2
    <2> QED BY <2>1 DEF next, N
  <1> DEFINE of == CHOOSE g : Are(g)
  <1>7. D!FramesOf(au) = of[N]
    BY DEF D!FramesOf, N
  <1> HIDE DEF Are
  <1>8. Are(of)
    BY <1>6
  <1> HIDE DEF of
  <1>9. of = [j \in 0..N |-> IF j = 0 THEN <<>> ELSE next(of[j - 1], j)]
    BY <1>8 DEF Are, next, N
  <1> DEFINE T == {j \in 0..N : of[j] \in Seq(S)}
  <1>10. 0 \in T
    <2>1. of[0] = <<>> /\ 0 \in 0..N
      BY <1>1, <1>9
    <2>2. <<>> \in Seq(S)
      OBVIOUS
    <2> QED BY <2>1, <2>2
  <1>11. ASSUME NEW k \in T, k \in 0..(N - 1) PROVE k + 1 \in T
    <2>1. k + 1 \in 1..N /\ k + 1 \in 0..N /\ k + 1 # 0 /\ (k + 1) - 1 = k
      BY <1>1, <1>11
    <2>2. of[k + 1] = next(of[k], k + 1)
      BY <1>9, <2>1
    <2>3. of[k] \in Seq(S)
      BY <1>11
    <2>4. next(of[k], k + 1) \in Seq(S)
      BY <1>2, <2>1, <2>3
    <2> QED BY <2>1, <2>2, <2>4
  <1> HIDE DEF T
  <1>12. N \in T
    <2>1. \A k \in 0..N : k \in T
      BY <1>1, <1>10, <1>11, UpTo
    <2> QED BY <1>1, <2>1
  <1>13. D!FramesOf(au) \in Seq(S)
    BY <1>7, <1>12 DEF T
  <1>14. \A i \in 1..Len(D!FramesOf(au)) : D!FramesOf(au)[i] \in S
    BY <1>13
  <1>15. Len(D!FramesOf(au)) \in Nat
    BY <1>13
  <1> QED BY <1>14, <1>15 DEF S

\* The bitstream keeps to one format and depth; the depth of its images.
Uniform == D!OneFormat /\ D!OneDepth
Known   == D!StreamFrames \cup D!Announced
Span(frm) == IF frm.comp THEN 16 ELSE frm.depth

\* An image, as it is created for any of the frames,
Image(img) ==
  /\ img = [w |-> img.w, cf |-> img.cf, depth |-> img.depth, shape |-> img.shape, pic |-> img.pic]
  /\ img.pic = [of |-> img.pic.of, tiles |-> img.pic.tiles, bits |-> img.pic.bits]
  /\ img.cf \in DOMAIN D!Planes

Kind(img) ==
  img # D!NoImage =>
    /\ Image(img)
    /\ IF arg.csp = 1 THEN img.cf = "PLANAR2"
       ELSE img.cf # "PLANAR2" /\ \A f \in Known : img.depth = Span(f)

\* as it is once decoded into, and as it is in the video file.
Labelled(img) == D!Fills(img) /\ img.shape = D!Planes[img.cf]

Drawn(img) ==
  /\ img # D!NoImage /\ Kind(img) /\ Labelled(img) /\ D!StreamFrames # {}
  /\ arg.csp # 1 => img.depth \in 10..16 /\ \A f \in D!StreamFrames : img.cf = f.cf

\* The image for the conversion has the depth asked for.
Converter(img) ==
  img # D!NoImage =>
    /\ Image(img) /\ img.cf # "PLANAR2"
    /\ img.depth = arg.depth /\ arg.depth # 0
    /\ \A f \in D!StreamFrames : img.cf = f.cf

DecShows ==
  /\ \A i \in D!Slots : Kind(imgs[i])
  /\ Converter(imgb_w)
  /\ pc \in {"payloads", "write"} => \A i \in 1..Len(D!Frames) : Drawn(imgs[i])
  /\ pc = "show" => Drawn(imgs[1])
  /\ out # NoFile => \A k \in DOMAIN out.pics : Labelled(out.pics[k])

DecLabels ==
  /\ UnitsOk(stream)
  /\ arg # <<>> => {"csp", "plain"} \subseteq DOMAIN arg
  /\ pc \in {"start", "open"} \/ arg = <<>> => out = NoFile
  /\ pc \in {"write"} \cup DecLoop1 => at \in Nat \ {0}
  /\ pc = "frame" => D!Pbu.frm \in D!StreamFrames
  /\ out # NoFile => out = [heads |-> out.heads, pics |-> out.pics] /\ IsSeq(out.pics)
  /\ Uniform /\ arg # <<>> /\ arg.plain = 0 => DecShows

\* What is known of the bitstream stays known.
LEMMA KnownStays ==
  ASSUME stream' = stream
  PROVE  /\ Known' = Known /\ D!StreamFrames' = D!StreamFrames
         /\ Uniform' = Uniform /\ UnitsOk(stream)' = UnitsOk(stream)
  <1>1. D!Pbus' = D!Pbus
    BY DEF D!Pbus
  <1>2. D!StreamFrames' = D!StreamFrames /\ D!Announced' = D!Announced
    BY <1>1 DEF D!StreamFrames, D!Announced
  <1>3. Uniform' = Uniform
    BY <1>2 DEF Uniform, D!OneFormat, D!OneDepth
  <1> QED BY <1>2, <1>3 DEF Known

\* Every frame known has a format and a depth.
LEMMA KnownOk ==
  ASSUME UnitsOk(stream)
  PROVE  /\ \A f \in Known : FrameOk(f)
         /\ \A p \in DOMAIN stream : \A j \in DOMAIN stream[p].pbus :
              /\ stream[p].pbus[j] \in D!Pbus
              /\ D!IsFrame(stream[p].pbus[j]) => stream[p].pbus[j].frm \in D!StreamFrames
              /\ \A k \in DOMAIN stream[p].pbus[j].list :
                   stream[p].pbus[j].list[k] \in D!Announced
  <1>1. \A p \in DOMAIN stream : \A j \in DOMAIN stream[p].pbus : stream[p].pbus[j] \in D!Pbus
    BY DEF D!Pbus, D!ToSet
  <1>2. \A x \in D!Pbus : PbuOk(x)
    BY DEF D!Pbus, D!ToSet, UnitsOk
  <1>3. \A x \in D!Pbus : \A k \in DOMAIN x.list : x.list[k] \in D!Announced
    BY DEF D!Announced, D!ToSet
  <1>4. \A x \in D!Pbus : D!IsFrame(x) => x.frm \in D!StreamFrames
    BY DEF D!StreamFrames
  <1>5. \A f \in D!StreamFrames : FrameOk(f)
    BY <1>2 DEF D!StreamFrames, PbuOk
  <1>6. \A f \in D!Announced : FrameOk(f)
    <2> TAKE f \in D!Announced
    <2>1. PICK x \in D!Pbus : f \in D!ToSet(x.list)
      BY DEF D!Announced
    <2>2. PICK k \in DOMAIN x.list : f = x.list[k]
      BY <2>1 DEF D!ToSet
    <2> QED BY <1>2, <2>2 DEF PbuOk
  <1> QED BY <1>1, <1>3, <1>4, <1>5, <1>6 DEF Known

\* A step that changes neither the images nor the files.
LEMMA LabelsStay ==
  ASSUME DecLabels, UNCHANGED <<stream, arg, imgs, imgb_w, out>>,
         pc' \in {"start", "open"} => pc \in {"start", "open"},
         pc' \in {"payloads", "write"} => pc \in {"payloads", "write"} /\ pos' = pos,
         pc' \in {"write"} \cup DecLoop1 => at' \in Nat \ {0}, pc' = "show" => pc = "show",
         pc' # "frame" \/ UNCHANGED <<pc, pos, at>>
  PROVE  DecLabels'
  <1>1. /\ Known' = Known /\ D!StreamFrames' = D!StreamFrames
        /\ Uniform' = Uniform /\ UnitsOk(stream)' = UnitsOk(stream)
    BY KnownStays
  <1>2. /\ pos' = pos => D!Frames' = D!Frames
        /\ UNCHANGED <<pos, at>> => D!Pbu' = D!Pbu
    BY DEF D!Frames, D!Pbu, D!Au
  <1>3. \A img : Kind(img)' = Kind(img) /\ Drawn(img)' = Drawn(img)
                 /\ Converter(img)' = Converter(img)
    BY <1>1 DEF Kind, Drawn, Converter, Labelled
  <1>4. DecShows => DecShows'
    BY <1>2, <1>3 DEF DecShows, D!Slots
  <1> QED BY <1>1, <1>2, <1>4 DEF DecLabels

\* imgb_create
LEMMA NewImage ==
  ASSUME NEW w, NEW format \in DOMAIN D!Planes, NEW d,
         D!ImgbCreate(w, format, d) # D!NoImage
  PROVE  /\ D!ImgbCreate(w, format, d)
              = [w |-> w, cf |-> format, depth |-> d, shape |-> D!Planes[format], pic |-> D!Blank]
         /\ d # 0 /\ Image(D!ImgbCreate(w, format, d))
  <1> DEFINE planes == D!Planes[format]
             new == [w |-> w, cf |-> format, depth |-> d, shape |-> planes, pic |-> D!Blank]
  <1>1. D!ImgbCreate(w, format, d) = new /\ D!ByteDepth(d) > 0
    BY DEF D!ImgbCreate
  <1>2. d # 0
    BY <1>1 DEF D!ByteDepth
  <1>3. D!Blank = [of |-> 0, tiles |-> {}, bits |-> 0]
    BY DEF D!Blank, D!Whole
  <1> HIDE DEF planes
  <1>4. Image(new)
    BY <1>3 DEF Image
  <1> HIDE DEF new
  <1> QED BY <1>1, <1>2, <1>4 DEF new, planes

\* An image created for a frame fits every frame of a uniform bitstream.
LEMMA FreshFits ==
  ASSUME UnitsOk(stream), Uniform, arg.plain = 0, NEW f \in Known
  PROVE  Kind(D!Fresh(f))
  <1>0. SUFFICES ASSUME D!Fresh(f) # D!NoImage PROVE Kind(D!Fresh(f))
    BY DEF Kind
  <1>1. FrameOk(f)
    BY KnownOk
  <1>2. CASE arg.csp = 1
    <2> DEFINE img == D!ImgbCreate(f.w, "PLANAR2", 10)
    <2>1. D!Fresh(f) = img
      BY <1>2 DEF D!Fresh
    <2>2. "PLANAR2" \in DOMAIN D!Planes
      BY DEF D!Planes
    <2>3. img # D!NoImage
      BY <1>0, <2>1
    <2>4. Image(img) /\ img.cf = "PLANAR2"
      BY <2>2, <2>3, NewImage
    <2> HIDE DEF img
    <2> QED BY <1>2, <2>1, <2>4 DEF Kind
  <1>3. CASE arg.csp # 1
    <2> DEFINE img == D!ImgbCreate(f.w, f.cf, Span(f))
    <2>1. D!Fresh(f) = img
      BY <1>3 DEF D!Fresh, Span
    <2>2. f.cf \in DOMAIN D!Planes /\ f.cf # "PLANAR2"
      BY <1>1 DEF FrameOk
    <2>3. img # D!NoImage
      BY <1>0, <2>1
    <2>4. Image(img) /\ img.cf = f.cf /\ img.depth = Span(f)
      BY <2>2, <2>3, NewImage
    <2> HIDE DEF img
    <2>5. \A g \in Known : Span(g) = Span(f)
      BY DEF Uniform, D!OneDepth, Known, Span
    <2> QED BY <1>3, <2>1, <2>2, <2>4, <2>5 DEF Kind
  <1> QED BY <1>2, <1>3

\* What is put into an image leaves its kind.
Put(img, shape, p) == [img EXCEPT !.pic = p, !.shape = shape]

\* Only the planes and the picture are replaced.
LEMMA PutIs ==
  ASSUME NEW img, Image(img), NEW shape, NEW p, NEW new, new = Put(img, shape, p)
  PROVE  new = [w |-> img.w, cf |-> img.cf, depth |-> img.depth, shape |-> shape, pic |-> p]
  <1>1. img = [w |-> img.w, cf |-> img.cf, depth |-> img.depth, shape |-> img.shape, pic |-> img.pic]
    BY DEF Image
  <1> QED BY <1>1 DEF Put

\* An image of the right kind stays so, whatever is drawn in it.
LEMMA Redrawn ==
  ASSUME NEW img, Image(img), NEW shape, NEW p,
         p = [of |-> p.of, tiles |-> p.tiles, bits |-> p.bits],
         NEW new, new = Put(img, shape, p)
  PROVE  /\ Image(new) /\ new.pic = p /\ new.shape = shape
         /\ new.w = img.w /\ new.cf = img.cf /\ new.depth = img.depth
  <1>2. new = [w |-> img.w, cf |-> img.cf, depth |-> img.depth, shape |-> shape, pic |-> p]
    BY PutIs
  <1>3. /\ new.w = img.w /\ new.cf = img.cf /\ new.depth = img.depth
        /\ new.shape = shape /\ new.pic = p
    BY <1>2
  <1>4. img.cf \in DOMAIN D!Planes
    BY DEF Image
  <1>5. new = [w |-> new.w, cf |-> new.cf, depth |-> new.depth, shape |-> new.shape, pic |-> new.pic]
    BY <1>2, <1>3
  <1> QED BY <1>3, <1>4, <1>5 DEF Image

\* No image is an image.
LEMMA ImagesAre == ASSUME NEW img, Image(img) PROVE img # D!NoImage
  <1>1. "UNKNOWN" \notin DOMAIN D!Planes
    BY DEF D!Planes
  <1>2. D!NoImage.cf = "UNKNOWN" /\ img.cf \in DOMAIN D!Planes
    BY DEF D!NoImage, Image
  <1> QED BY <1>1, <1>2

\* Decoding a frame the library accepts fills the image as its label says.
LEMMA DrawnIs ==
  ASSUME UnitsOk(stream), Uniform, arg.plain = 0,
         NEW img, Kind(img), img # D!NoImage,
         NEW f \in D!StreamFrames, D!Accepts(f, img),
         NEW p, p = [of |-> p.of, tiles |-> p.tiles, bits |-> p.bits], p.bits = D!Bits(f, img),
         NEW new, new = Put(img, D!Planes[img.cf], p)
  PROVE  Kind(new) /\ Drawn(new)
  <1>1. f \in Known /\ FrameOk(f)
    BY KnownOk DEF Known
  <1>2. /\ Image(img)
        /\ IF arg.csp = 1 THEN img.cf = "PLANAR2"
           ELSE img.cf # "PLANAR2" /\ \A g \in Known : img.depth = Span(g)
    BY DEF Kind
  <1> DEFINE shape == D!Planes[img.cf]
  <1>3. new = Put(img, shape, p)
    OBVIOUS
  <1> HIDE DEF shape
  <1>a. Image(img)
    BY <1>2
  <1>4. /\ Image(new) /\ new.pic = p /\ new.shape = shape
        /\ new.cf = img.cf /\ new.depth = img.depth
    BY <1>a, <1>3, Redrawn
  <1>5. Kind(new)
    BY <1>2, <1>4 DEF Kind
  <1>6. D!Fills(new)
    <2>1. CASE arg.csp = 1
      BY <1>2, <1>4, <2>1 DEF D!Fills, D!Bits
    <2>2. CASE arg.csp # 1
      <3>1. new.cf # "PLANAR2" /\ img.cf # "PLANAR2" /\ new.depth = Span(f)
        BY <1>1, <1>2, <1>4, <2>2
      <3>2. D!Bits(f, img) = Span(f)
        BY <3>1 DEF D!Bits, Span
      <3> QED BY <1>4, <3>1, <3>2 DEF D!Fills
    <2> QED BY <2>1, <2>2
  <1>7. arg.csp # 1 => new.depth \in 10..16 /\ \A g \in D!StreamFrames : new.cf = g.cf
    <2> SUFFICES ASSUME arg.csp # 1
                 PROVE  new.depth \in 10..16 /\ \A g \in D!StreamFrames : new.cf = g.cf
      OBVIOUS
    <2>1. new.depth = Span(f)
      BY <1>1, <1>2, <1>4
    <2>2. Span(f) \in 10..16
      BY <1>1 DEF Span, FrameOk
    <2>3. D!Idc[img.cf] = D!Idc[f.cf]
      BY DEF D!Accepts
    <2>4. img.cf \in DOMAIN D!Planes \ {"PLANAR2"} /\ f.cf \in DOMAIN D!Planes \ {"PLANAR2"}
      BY <1>1, <1>2 DEF FrameOk, Image
    <2>5. img.cf = f.cf
      BY <2>3, <2>4 DEF D!Planes, D!Idc
    <2>6. \A g \in D!StreamFrames : g.cf = f.cf
      BY DEF Uniform, D!OneFormat
    <2> QED BY <1>4, <2>1, <2>2, <2>5, <2>6
  <1>8. new # D!NoImage
    BY <1>4, ImagesAre
  <1>9. D!StreamFrames # {}
    OBVIOUS
  <1> QED BY <1>4, <1>5, <1>6, <1>7, <1>8, <1>9 DEF Drawn, Labelled, shape

\* The number of samples of the planes of a format.
LEMMA PlaneCounts ==
  ASSUME NEW format \in DOMAIN D!Planes
  PROVE  \A p \in DOMAIN D!Planes[format] : D!Planes[format][p] \in Nat
  BY DEF D!Planes

\* What is written of a decoded picture is as its label says, if it can be
\* written at all; and the conversion leaves its image what it has to be.
LEMMA OutputIs ==
  ASSUME Uniform, NEW img, Drawn(img),
         Converter(imgb_w), D!Converts(img) => D!Via(img) # D!NoImage
  PROVE  /\ D!Writable(D!Output(img)) => Labelled(D!Output(img))
         /\ D!Converts(img) => Converter(D!Output(img))
  <1>0. PICK f \in D!StreamFrames : TRUE
    BY DEF Drawn
  <1>1. CASE ~D!Converts(img)
    BY <1>1 DEF D!Output, Drawn
  <1>2. CASE D!Converts(img)
    <2> DEFINE via == D!Via(img)
               out1 == D!ImgbCpy(via, img)
    <2>0. D!Output(img) = out1
      BY <1>2 DEF D!Output
    <2>1. arg.csp # 1
      BY <1>2 DEF D!Converts
    <2>2. /\ Image(img) /\ img.cf # "PLANAR2" /\ img.depth \in 10..16
          /\ img.cf = f.cf /\ \A g \in D!StreamFrames : img.cf = g.cf
          /\ img.pic.bits = img.depth /\ img.shape = D!Planes[img.cf]
      BY <2>1 DEF Kind, Drawn, Labelled, D!Fills
    <2>3. Converter(via) /\ Image(via) /\ via.cf = img.cf /\ via.depth = arg.depth /\ arg.depth # 0
      <3>1. CASE D!Kept(imgb_w, img)
        <4>1. via = imgb_w
          BY <3>1 DEF D!Via
        <4> HIDE DEF via
        <4>2. imgb_w # D!NoImage
          BY <3>1 DEF D!Kept
        <4>3. imgb_w.cf = f.cf
          BY <4>2 DEF Converter
        <4> QED BY <2>2, <4>1, <4>2, <4>3 DEF Converter
      <3>2. CASE ~D!Kept(imgb_w, img)
        <4>1. via = D!ImgbCreate(img.w, img.cf, arg.depth)
          BY <3>2 DEF D!Via
        <4>2. via # D!NoImage
          BY <1>2
        <4> HIDE DEF via
        <4>3. img.cf \in DOMAIN D!Planes
          BY <2>2 DEF Image
        <4>4. /\ via = [w |-> img.w, cf |-> img.cf, depth |-> arg.depth,
                        shape |-> D!Planes[img.cf], pic |-> D!Blank]
              /\ arg.depth # 0 /\ Image(via)
          BY <4>1, <4>2, <4>3, NewImage
        <4>5. via.cf = img.cf /\ via.depth = arg.depth
          BY <4>4
        <4> QED BY <2>2, <4>4, <4>5 DEF Converter
      <3> QED BY <3>1, <3>2
    <2> HIDE DEF via
    <2>4. D!CpyIsValid(via, img)
      <3>1. img.cf \in DOMAIN D!Planes
        BY <2>2 DEF Image
      <3> QED BY <2>2, <2>3, <3>1, PlaneCounts DEF D!CpyIsValid
    <2>5. CASE via.depth \in 8..16
      <3> DEFINE p == [img.pic EXCEPT !.bits = @ + (via.depth - img.depth)]
      <3>1. out1 = [via EXCEPT !.pic = p, !.shape = img.shape]
        BY <2>2, <2>3, <2>4, <2>5 DEF D!ImgbCpy
      <3>2. p = [of |-> p.of, tiles |-> p.tiles, bits |-> p.bits] /\ p.bits = via.depth
        <4>1. img.pic = [of |-> img.pic.of, tiles |-> img.pic.tiles, bits |-> img.pic.bits]
          BY <2>2 DEF Image
        <4>2. img.pic.bits + (via.depth - img.depth) = via.depth
          BY <2>2, <2>5
        <4> DEFINE b == img.pic.bits + (via.depth - img.depth)
        <4>3. p = [img.pic EXCEPT !.bits = b]
          BY <4>1
        <4> HIDE DEF p, b
        <4>4. p = [of |-> img.pic.of, tiles |-> img.pic.tiles, bits |-> b]
          BY <4>1, <4>3
        <4> QED BY <4>2, <4>4 DEF b
      <3> DEFINE shape == img.shape
      <3>a. out1 = Put(via, shape, p)
        BY <3>1 DEF Put
      <3> HIDE DEF p, out1, shape
      <3>b. /\ Image(out1) /\ out1.pic = p /\ out1.shape = shape
            /\ out1.cf = via.cf /\ out1.depth = via.depth
        BY <2>3, <3>a, <3>2, Redrawn
      <3>3. /\ Image(out1) /\ out1.pic = p /\ out1.shape = img.shape
            /\ out1.cf = via.cf /\ out1.depth = via.depth
        BY <3>b DEF shape
      <3>4. Labelled(out1)
        BY <2>2, <2>3, <3>2, <3>3 DEF Labelled, D!Fills
      <3>5. Converter(out1)
        BY <2>2, <2>3, <3>3 DEF Converter
      <3> QED BY <2>0, <3>4, <3>5
    <2>6. CASE via.depth \notin 8..16
      <3>1. out1 = via
        BY <2>6 DEF D!ImgbCpy
      <3>2. ~D!Writable(via)
        BY <2>6 DEF D!Writable
      <3> QED BY <2>0, <2>3, <3>1, <3>2
    <2> QED BY <2>5, <2>6
  <1> QED BY <1>1, <1>2

\* Both programs write video files the same way.
LEMMA SameFiles ==
  ASSUME NEW file, NEW img, NEW y4m, NEW first
  PROVE  /\ D!HeaderFits(img, y4m, first) <=> E!HeaderFits(img, y4m, first)
         /\ D!Writable(img) <=> E!Writable(img)
         /\ D!WriteImg(file, img, y4m, first) = E!WriteImg(file, img, y4m, first)
  BY DEF D!HeaderFits, E!HeaderFits, D!Y4mFormats, E!Y4mFormats, D!Writable, E!Writable,
         D!WriteImg, E!WriteImg, D!Headed, E!Headed

\* The video file after a picture.
LEMMA FilmIs ==
  ASSUME NEW o, NEW i, out # NoFile,
         out = [heads |-> out.heads, pics |-> out.pics], IsSeq(out.pics)
  PROVE  LET film == D!Written(o, i)
         IN  /\ film = [heads |-> film.heads, pics |-> film.pics] /\ IsSeq(film.pics)
             /\ \/ film.pics = out.pics
                \/ film.pics = Append(out.pics, o) /\ D!Writable(o)
  <1> DEFINE film == D!Written(o, i)
  <1>1. film = IF E!HeaderFits(o, D!Y4m, D!First(i))
               THEN E!WriteImg(out, o, D!Y4m, D!First(i)) ELSE out
    BY SameFiles DEF D!Written
  <1> HIDE DEF film
  <1>2. /\ film = [heads |-> film.heads, pics |-> film.pics] /\ IsSeq(film.pics)
        /\ film.pics = IF E!WriteFits(o, D!Y4m, D!First(i)) THEN Append(out.pics, o) ELSE out.pics
    BY <1>1, WritesOne
  <1>3. E!WriteFits(o, D!Y4m, D!First(i)) => D!Writable(o)
    BY SameFiles DEF E!WriteFits
  <1> QED BY <1>2, <1>3 DEF film

\* A decoded picture is converted and written under a true label.
LEMMA DecShowsOne ==
  ASSUME DecInv, DecLabels, D!Write \/ D!ShowFrame
  PROVE  DecLabels'
  <1> USE DEF D!files, D!setup, D!images, D!count
  <1>1. /\ pc \in {"write", "show"} /\ pc' \in {"write", "pbu", "ERR"}
        /\ pc' = "write" => pc = "write"
        /\ UNCHANGED <<stream, arg, imgs, num_frms, pos>>
    <2>1. CASE D!Write
      BY <2>1 DEF D!Write
    <2>2. CASE D!ShowFrame
      BY <2>2 DEF D!ShowFrame
    <2> QED BY <2>1, <2>2
  <1>2. arg # <<>> /\ pos \in DOMAIN stream
    <2>1. arg # <<>>
      BY <1>1 DEF DecInv, DecOptions, DecEnds
    <2>2. pos = au_cnt + 1 /\ au_cnt \in Nat /\ pos \in 0..Len(stream) /\ IsSeq(stream)
      BY <1>1 DEF DecInv, DecSucceeds, DecLoop0, DecLoop1
    <2>3. DOMAIN stream = 1..Len(stream) /\ Len(stream) \in Nat
      BY <2>2 DEF IsSeq
    <2> QED BY <2>1, <2>2, <2>3
  <1>3. PICK img, i : D!WritePicture(img, i) /\ (DecShows => Drawn(img))
    <2>1. CASE D!Write
      <3>1. pc = "write" /\ at <= Len(D!Frames) /\ D!WritePicture(imgs[at], at)
        BY <2>1 DEF D!Write
      <3>2. Len(D!Frames) \in Nat
        <4>1. IsSeq(D!Au.pbus)
          BY <1>2 DEF D!Au, DecInv, DecSucceeds
        <4> QED BY <4>1, FramesAre DEF D!Frames
      <3>3. at \in 1..Len(D!Frames)
        BY <3>1, <3>2 DEF DecLabels
      <3> QED BY <3>1, <3>3 DEF DecShows
    <2>2. CASE D!ShowFrame
      BY <2>2 DEF D!ShowFrame, DecShows
    <2> QED BY <2>1, <2>2
  <1> DEFINE o == D!Output(img)
  <1>4. \/ out' = out
        \/ /\ out # NoFile /\ out' = D!Written(o, i)
           /\ D!Converts(img) => D!Via(img) # D!NoImage
    <2>1. out' = out \/ (out' = D!Written(o, i) /\ (D!Converts(img) => D!Via(img) # D!NoImage))
      BY <1>3 DEF D!WritePicture
    <2>2. out = NoFile => D!Written(o, i) = out
      BY DEF D!Written
    <2> QED BY <2>1, <2>2
  <1>5. \/ imgb_w' = imgb_w \/ imgb_w' = D!NoImage
        \/ D!Converts(img) /\ imgb_w' = o /\ D!Via(img) # D!NoImage
    BY <1>3 DEF D!WritePicture
  <1> HIDE DEF o
  <1>6. /\ Known' = Known /\ D!StreamFrames' = D!StreamFrames
        /\ Uniform' = Uniform /\ UnitsOk(stream)' = UnitsOk(stream)
    BY <1>1, KnownStays
  <1>7. out' # NoFile =>
          /\ out # NoFile /\ out' = [heads |-> out'.heads, pics |-> out'.pics] /\ IsSeq(out'.pics)
          /\ \/ out'.pics = out.pics
             \/ out'.pics = Append(out.pics, o) /\ D!Writable(o)
                 /\ (D!Converts(img) => D!Via(img) # D!NoImage)
    <2>1. CASE out' = out
      BY <2>1 DEF DecLabels
    <2>2. CASE out # NoFile /\ out' = D!Written(o, i) /\ (D!Converts(img) => D!Via(img) # D!NoImage)
      <3>1. out = [heads |-> out.heads, pics |-> out.pics] /\ IsSeq(out.pics)
        BY <2>2 DEF DecLabels
      <3> QED BY <2>2, <3>1, FilmIs
    <2> QED BY <1>4, <2>1, <2>2
  <1>8. ASSUME Uniform, DecShows PROVE DecShows'
    <2>1. Drawn(img) /\ Converter(imgb_w)
      BY <1>3, <1>8 DEF DecShows
    <2>2. ASSUME D!Converts(img) => D!Via(img) # D!NoImage
          PROVE  (D!Writable(o) => Labelled(o)) /\ (D!Converts(img) => Converter(o))
      BY <1>8, <2>1, <2>2, OutputIs DEF o
    <2>3. Converter(imgb_w)'
      <3>1. Converter(imgb_w')
        BY <1>5, <2>1, <2>2 DEF Converter
      <3> QED BY <1>1, <1>6, <3>1 DEF Converter
    <2>4. \A i0 \in D!Slots : Kind(imgs[i0])'
      BY <1>1, <1>6, <1>8 DEF DecShows, Kind
    <2>5. pc' = "write" => \A n \in 1..Len(D!Frames') : Drawn(imgs[n])'
      <3>1. D!Frames' = D!Frames
        BY <1>1 DEF D!Frames, D!Au
      <3>2. \A x : Drawn(x) => Drawn(x)'
        BY <1>1, <1>6 DEF Drawn, Kind, Labelled
      <3>3. pc' = "write" => \A n \in 1..Len(D!Frames) : Drawn(imgs[n])
        BY <1>1, <1>8 DEF DecShows
      <3> QED BY <1>1, <3>1, <3>2, <3>3 DEF Drawn, Kind, Labelled
    <2>6. out' # NoFile => \A k \in DOMAIN out'.pics : Labelled(out'.pics[k])
      <3> SUFFICES ASSUME out' # NoFile, NEW k \in DOMAIN out'.pics PROVE Labelled(out'.pics[k])
        OBVIOUS
      <3>1. \A n \in DOMAIN out.pics : Labelled(out.pics[n])
        BY <1>7, <1>8 DEF DecShows
      <3>2. CASE out'.pics = out.pics
        BY <3>1, <3>2
      <3>3. CASE out'.pics = Append(out.pics, o) /\ Labelled(o)
        <4>1. IsSeq(out.pics)
          BY <1>7 DEF DecLabels
        <4>2. k \in 1..(Len(out.pics) + 1) /\ DOMAIN out.pics = 1..Len(out.pics)
              /\ Len(out.pics) \in Nat
              /\ \A n \in 1..Len(out.pics) : out'.pics[n] = out.pics[n]
              /\ out'.pics[Len(out.pics) + 1] = o
          BY <3>3, <4>1, Appended DEF IsSeq
        <4>3. k \in 1..Len(out.pics) \/ k = Len(out.pics) + 1
          BY <4>2
        <4> QED BY <3>1, <3>3, <4>2, <4>3
      <3> QED BY <1>7, <2>2, <3>2, <3>3
    <2>7. pc' # "payloads" /\ pc' # "show"
      BY <1>1
    <2> QED BY <2>3, <2>4, <2>5, <2>6, <2>7 DEF DecShows, D!Slots, Labelled
  <1>9. at' \in Nat \ {0}
    <2>1. at \in Nat \ {0}
      BY <1>1 DEF DecLabels, DecLoop1
    <2> QED BY <2>1 DEF D!Write, D!ShowFrame
  <1> QED BY <1>1, <1>2, <1>6, <1>7, <1>8, <1>9 DEF DecLabels

\* Within the loops there is a unit at hand.
LEMMA AtUnit ==
  ASSUME DecInv, DecLabels, pc \in DecLoop0 \cup DecLoop1
  PROVE  /\ arg # <<>> /\ pos \in DOMAIN stream
         /\ IsSeq(D!Au.pbus) /\ Len(D!Frames) \in Nat
         /\ \A j \in DOMAIN D!Au.pbus : D!Au.pbus[j] \in D!Pbus /\ PbuOk(D!Au.pbus[j])
         /\ \A i \in 1..Len(D!Frames) : D!Frames[i].frm \in D!StreamFrames
  <1>1. arg # <<>>
    BY DEF DecInv, DecOptions, DecEnds, DecLoop0, DecLoop1
  <1>2. pos = au_cnt + 1 /\ au_cnt \in Nat /\ pos \in 0..Len(stream) /\ IsSeq(stream)
    BY DEF DecInv, DecSucceeds
  <1>3. pos \in DOMAIN stream
    BY <1>2 DEF IsSeq
  <1>4. IsSeq(D!Au.pbus) /\ \A j \in DOMAIN D!Au.pbus : PbuOk(D!Au.pbus[j])
    BY <1>3 DEF DecLabels, UnitsOk, D!Au
  <1>5. \A j \in DOMAIN D!Au.pbus : D!Au.pbus[j] \in D!Pbus
    BY <1>3, KnownOk DEF DecLabels, D!Au
  <1>6. Len(D!Frames) \in Nat
        /\ \A i \in 1..Len(D!Frames) :
             D!Frames[i] \in {x \in D!ToSet(D!Au.pbus) : D!IsFrame(x)}
    BY <1>4, FramesAre DEF D!Frames
  <1>7. \A i \in 1..Len(D!Frames) : D!Frames[i].frm \in D!StreamFrames
    BY <1>5, <1>6 DEF D!ToSet, D!StreamFrames
  <1> QED BY <1>1, <1>3, <1>4, <1>5, <1>6, <1>7

\* Decoding a frame of the bitstream into an image there is.
LEMMA DecodedIs ==
  ASSUME UnitsOk(stream), Uniform, arg.plain = 0,
         NEW img, Kind(img), img # D!NoImage,
         NEW f \in D!StreamFrames, D!Accepts(f, img), NEW i
  PROVE  /\ Kind(D!Decoded(img, i, f)) /\ Drawn(D!Decoded(img, i, f))
         /\ \A tiles : Drawn([D!Decoded(img, i, f) EXCEPT !.pic.tiles = tiles])
  <1> DEFINE p == D!Whole(<<pos, i>>, D!Bits(f, img))
             shape == D!Planes[img.cf]
             new == D!Decoded(img, i, f)
  <1>1. new = Put(img, shape, p)
    BY DEF D!Decoded, Put
  <1>2. p = [of |-> p.of, tiles |-> p.tiles, bits |-> p.bits] /\ p.bits = D!Bits(f, img)
    BY DEF D!Whole
  <1>3. Kind(new) /\ Drawn(new)
    <2> HIDE DEF p, new
    <2> QED BY <1>1, <1>2, DrawnIs
  <1>4. ASSUME NEW tiles PROVE Drawn([new EXCEPT !.pic.tiles = tiles])
    <2> DEFINE q == [p EXCEPT !.tiles = tiles]
               cut == [new EXCEPT !.pic.tiles = tiles]
    <2> HIDE DEF p, new
    <2>1. q = [of |-> q.of, tiles |-> q.tiles, bits |-> q.bits] /\ q.bits = D!Bits(f, img)
      <3>1. q = [of |-> p.of, tiles |-> tiles, bits |-> p.bits]
        BY <1>2
      <3> QED BY <1>2, <3>1
    <2>2. cut = Put(img, shape, q)
      <3>1. img = [w |-> img.w, cf |-> img.cf, depth |-> img.depth, shape |-> img.shape, pic |-> img.pic]
        BY DEF Kind, Image
      <3> HIDE DEF shape
      <3>2. new = [w |-> img.w, cf |-> img.cf, depth |-> img.depth, shape |-> shape, pic |-> p]
        <4>1. new = [img EXCEPT !.pic = p, !.shape = shape]
          BY <1>1 DEF Put, shape
        <4> QED BY <3>1, <4>1
      <3>3. new.pic = p
        BY <3>2
      <3>4. cut = [new EXCEPT !.pic = q]
        BY <3>2, <3>3
      <3> HIDE DEF q, cut
      <3>5. cut = [w |-> img.w, cf |-> img.cf, depth |-> img.depth, shape |-> shape, pic |-> q]
        BY <3>2, <3>4
      <3>6. Put(img, shape, q)
              = [w |-> img.w, cf |-> img.cf, depth |-> img.depth, shape |-> shape, pic |-> q]
        BY PutIs DEF Kind
      <3> QED BY <3>5, <3>6
    <2> HIDE DEF q, cut
    <2>3. Drawn(cut)
      BY <2>1, <2>2, DrawnIs
    <2> QED BY <2>3 DEF cut
  <1> QED BY <1>3, <1>4

\* oapvd_decode fills an image for each of the frames.
LEMMA DecDraws ==
  ASSUME AppsAssumption, DecInv, DecLabels, D!Decode
  PROVE  DecLabels'
  <1> USE DEF D!files, D!setup, D!images, D!count
  <1>1. /\ pc = "decode" /\ pc' = "payloads"
        /\ imgs' = [i \in D!Slots |->
                      IF i <= Len(D!Frames) THEN D!Decoded(imgs[i], i, D!Frames[i].frm)
                      ELSE imgs[i]]
        /\ UNCHANGED <<stream, arg, imgb_w, num_frms, pos, out>>
    BY DEF D!Decode
  <1>2. /\ Len(D!Frames) \in 0..num_frms /\ Len(D!Frames) \in Nat
        /\ \A i \in 1..Len(D!Frames) : D!Accepts(D!Frames[i].frm, imgs[i])
    <2>1. Len(D!Frames) \in 0..num_frms
          /\ \A i \in 1..Len(D!Frames) : D!Accepts(D!Frames[i].frm, imgs[i])
      BY DEF D!Decode, D!AllDecode
    <2> QED BY <1>1, <2>1, AtUnit DEF DecLoop0
  <1>3. \A i \in 1..Len(D!Frames) :
          i \in D!Slots /\ imgs[i] # D!NoImage /\ D!Frames[i].frm \in D!StreamFrames
    <2>1. \A i \in 1..Len(D!Frames) : D!Frames[i].frm \in D!StreamFrames
      BY <1>1, AtUnit DEF DecLoop0
    <2>2. num_frms \in 0..MaxFrames /\ MaxFrames \in Nat
          /\ \A i \in 1..num_frms : imgs[i] # D!NoImage
      BY <1>1 DEF DecInv, DecImages, AppsAssumption
    <2>3. \A i \in 1..Len(D!Frames) : i \in D!Slots /\ i \in 1..num_frms
      BY <1>2, <2>2 DEF D!Slots
    <2> QED BY <2>1, <2>2, <2>3
  <1>4. /\ Known' = Known /\ D!StreamFrames' = D!StreamFrames
        /\ Uniform' = Uniform /\ UnitsOk(stream)' = UnitsOk(stream)
    BY <1>1, KnownStays
  <1>5. ASSUME Uniform, arg.plain = 0, DecShows PROVE DecShows'
    <2>0. UnitsOk(stream)
      BY DEF DecLabels
    <2>1. \A i \in 1..Len(D!Frames) : Kind(imgs'[i]) /\ Drawn(imgs'[i])
      <3> TAKE i \in 1..Len(D!Frames)
      <3>1. Kind(imgs[i]) /\ imgs[i] # D!NoImage /\ i \in D!Slots
        BY <1>3, <1>5 DEF DecShows
      <3> DEFINE new == D!Decoded(imgs[i], i, D!Frames[i].frm)
      <3>2. D!Frames[i].frm \in D!StreamFrames /\ D!Accepts(D!Frames[i].frm, imgs[i])
        BY <1>2, <1>3
      <3>3. Kind(new) /\ Drawn(new)
        BY <1>5, <2>0, <3>1, <3>2, DecodedIs
      <3>4. i <= Len(D!Frames)
        BY <1>2
      <3>5. imgs'[i] = new
        BY <1>1, <3>1, <3>4
      <3> HIDE DEF new
      <3> QED BY <3>3, <3>5
    <2>2. \A i \in D!Slots : Kind(imgs'[i])
      <3> TAKE i \in D!Slots
      <3>1. CASE i <= Len(D!Frames)
        <4>1. i \in 1..Len(D!Frames)
          BY <1>2, <3>1 DEF D!Slots
        <4> QED BY <2>1, <4>1
      <3>2. CASE ~(i <= Len(D!Frames))
        <4>1. imgs'[i] = imgs[i]
          BY <1>1, <3>2
        <4> QED BY <1>5, <4>1 DEF DecShows
      <3> QED BY <3>1, <3>2
    <2>3. D!Frames' = D!Frames
      BY <1>1 DEF D!Frames, D!Au
    <2>4. \A x : (Kind(x)' <=> Kind(x)) /\ (Drawn(x)' <=> Drawn(x))
                 /\ (Converter(x)' <=> Converter(x))
      BY <1>1, <1>4 DEF Drawn, Kind, Labelled, Converter
    <2>5. Converter(imgb_w)'
      BY <1>1, <1>5, <2>4 DEF DecShows
    <2>6. \A i \in 1..Len(D!Frames)' : Drawn(imgs[i])'
      BY <2>1, <2>3, <2>4
    <2>7. \A i \in D!Slots : Kind(imgs[i])'
      BY <2>2, <2>4
    <2>8. out' # NoFile => \A k \in DOMAIN out'.pics : Labelled(out'.pics[k])
      BY <1>1, <1>5 DEF DecShows
    <2> QED BY <1>1, <2>5, <2>6, <2>7, <2>8 DEF DecShows, D!Slots, Labelled
  <1> QED BY <1>1, <1>4, <1>5 DEF DecLabels, DecLoop1

\* oapvd_decode_frame fills the image of its frame, as does
\* oapvd_decode_tiles with the tiles asked for.
LEMMA DecDrawsFrame ==
  ASSUME AppsAssumption, DecInv, DecLabels, D!DecodeFrame
  PROVE  DecLabels'
  <1> USE DEF D!files, D!setup, D!images, D!count
  <1> DEFINE new == D!DecodedPart(imgs[1], D!Pbu.frm)
  <1>1. /\ pc = "frame" /\ pc' = "show" /\ D!Accepts(D!Pbu.frm, imgs[1])
        /\ imgs' = [imgs EXCEPT ![1] = new]
        /\ UNCHANGED <<stream, arg, imgb_w, num_frms, pos, at, out>>
    BY DEF D!DecodeFrame
  <1> HIDE DEF new
  <1>2. imgs = [i \in D!Slots |-> imgs[i]] /\ 1 \in D!Slots /\ imgs[1] # D!NoImage
    BY <1>1 DEF DecInv, DecImages, AppsAssumption, D!Slots
  <1>3. imgs'[1] = new /\ \A i \in D!Slots \ {1} : imgs'[i] = imgs[i]
    BY <1>1, <1>2
  <1>4. /\ Known' = Known /\ D!StreamFrames' = D!StreamFrames
        /\ Uniform' = Uniform /\ UnitsOk(stream)' = UnitsOk(stream)
    BY <1>1, KnownStays
  <1>5. D!Pbu.frm \in D!StreamFrames
    BY <1>1 DEF DecLabels
  <1>6. ASSUME Uniform, arg.plain = 0, DecShows PROVE DecShows'
    <2>1. Drawn(new)
      <3>1. UnitsOk(stream) /\ Kind(imgs[1])
        BY <1>2, <1>6 DEF DecLabels, DecShows
      <3>2. /\ Drawn(D!Decoded(imgs[1], at, D!Pbu.frm))
            /\ \A tiles : Drawn([D!Decoded(imgs[1], at, D!Pbu.frm) EXCEPT !.pic.tiles = tiles])
        BY <1>1, <1>2, <1>5, <1>6, <3>1, DecodedIs
      <3> QED BY <3>2 DEF new, D!DecodedPart
    <2>2. \A x : (Kind(x)' <=> Kind(x)) /\ (Drawn(x)' <=> Drawn(x))
                 /\ (Converter(x)' <=> Converter(x))
      BY <1>1, <1>4 DEF Drawn, Kind, Labelled, Converter
    <2>3. Kind(new)
      BY <2>1 DEF Drawn
    <2>4. \A i \in D!Slots : Kind(imgs[i])'
      <3> TAKE i \in D!Slots
      <3>1. Kind(imgs'[i])
        BY <1>3, <1>6, <2>3 DEF DecShows
      <3> QED BY <2>2, <3>1
    <2>5. Drawn(imgs[1])'
      BY <1>3, <2>1, <2>2
    <2>6. Converter(imgb_w)'
      BY <1>1, <1>6, <2>2 DEF DecShows
    <2>7. out' # NoFile => \A k \in DOMAIN out'.pics : Labelled(out'.pics[k])
      BY <1>1, <1>6 DEF DecShows
    <2> QED BY <1>1, <2>4, <2>5, <2>6, <2>7 DEF DecShows, D!Slots, Labelled
  <1>7. at' \in Nat \ {0}
    BY <1>1 DEF DecLabels, DecLoop1
  <1> QED BY <1>1, <1>4, <1>6, <1>7 DEF DecLabels

\* The depth of the output changes only where none was asked for; then
\* there is no image for a conversion.
LEMMA DepthIs ==
  ASSUME DecLabels, arg # <<>>, {"api", "max", "depth"} \subseteq DOMAIN arg, NEW f,
         arg' = [arg EXCEPT !.depth = D!Depth(f)]
  PROVE  /\ arg' # <<>> /\ arg'.csp = arg.csp /\ arg'.plain = arg.plain
         /\ {"csp", "plain"} \subseteq DOMAIN arg'
         /\ arg.plain = 0 /\ arg.depth # 0 => arg'.depth = arg.depth
  <1> DEFINE d == D!Depth(f)
  <1>1. {"csp", "plain", "depth"} \subseteq DOMAIN arg
    BY DEF DecLabels
  <1>2. arg.plain = 0 /\ arg.depth # 0 => d = arg.depth
    BY DEF D!Depth
  <1>3. arg' = [arg EXCEPT !.depth = d]
    OBVIOUS
  <1> HIDE DEF d
  <1>4. DOMAIN arg' = DOMAIN arg /\ arg'.csp = arg.csp /\ arg'.plain = arg.plain /\ arg'.depth = d
    BY <1>1, <1>3
  <1>5. arg' # <<>>
    BY <1>1, <1>4
  <1> QED BY <1>1, <1>2, <1>4, <1>5

\* New images for frames of the bitstream, or none; and a new depth.
LEMMA LabelsRenewed ==
  ASSUME DecInv, DecLabels, arg # <<>>, UNCHANGED <<stream, imgb_w, out>>,
         pc' \notin {"start", "open", "write", "show", "payloads"},
         pc' \in DecLoop1 => at' \in Nat \ {0},
         pc' = "frame" => (D!Pbu.frm \in D!StreamFrames)',
         arg' = arg \/ \E f : arg' = [arg EXCEPT !.depth = D!Depth(f)],
         \A i \in D!Slots : \/ imgs'[i] \in {imgs[i], D!NoImage}
                            \/ \E f \in Known : imgs'[i] = D!Fresh(f)
  PROVE  DecLabels'
  <1>1. /\ Known' = Known /\ D!StreamFrames' = D!StreamFrames
        /\ Uniform' = Uniform /\ UnitsOk(stream)' = UnitsOk(stream)
    BY KnownStays
  <1>2. /\ arg' # <<>> /\ arg'.csp = arg.csp /\ arg'.plain = arg.plain
        /\ {"csp", "plain"} \subseteq DOMAIN arg'
        /\ arg.plain = 0 /\ arg.depth # 0 => arg'.depth = arg.depth
    <2>1. {"api", "max", "depth"} \subseteq DOMAIN arg
      BY DEF DecInv, DecOptions
    <2>2. CASE arg' = arg
      BY <2>2 DEF DecLabels
    <2>3. CASE \E f : arg' = [arg EXCEPT !.depth = D!Depth(f)]
      BY <2>1, <2>3, DepthIs
    <2> QED BY <2>2, <2>3
  <1>3. ASSUME Uniform, arg.plain = 0, DecShows PROVE DecShows'
    <2>1. \A i \in D!Slots : Kind(imgs'[i])
      <3> TAKE i \in D!Slots
      <3>1. Kind(imgs[i]) /\ Kind(D!NoImage)
        BY <1>3 DEF DecShows, Kind
      <3>2. \A f \in Known : Kind(D!Fresh(f))
        BY <1>3, FreshFits DEF DecLabels
      <3> QED BY <3>1, <3>2
    <2>2. \A x : Kind(x) => Kind(x)'
      BY <1>1, <1>2 DEF Kind
    <2>3. \A i \in D!Slots : Kind(imgs[i])'
      <3> TAKE i \in D!Slots
      <3> QED BY <1>1, <1>2, <2>1 DEF Kind
    <2>4. Converter(imgb_w)'
      BY <1>1, <1>2, <1>3 DEF DecShows, Converter
    <2>5. out' # NoFile => \A k \in DOMAIN out'.pics : Labelled(out'.pics[k])
      BY <1>3 DEF DecShows
    <2> QED BY <2>3, <2>4, <2>5 DEF DecShows, D!Slots, Labelled
  <1> QED BY <1>1, <1>2, <1>3 DEF DecLabels

\* The frames oapvd_info tells of are frames, or are announced.
LEMMA ToldAre ==
  ASSUME DecInv, DecLabels, pc = "info", NEW i \in 1..Len(D!Told)
  PROVE  D!Told[i] \in Known
  <1>1. /\ pos \in DOMAIN stream /\ IsSeq(D!Au.pbus) /\ Len(D!Frames) \in Nat
        /\ \A j \in DOMAIN D!Au.pbus : D!Au.pbus[j] \in D!Pbus /\ PbuOk(D!Au.pbus[j])
        /\ \A n \in 1..Len(D!Frames) : D!Frames[n].frm \in D!StreamFrames
    BY AtUnit DEF DecLoop0
  <1>2. CASE D!InfoAt <= Len(D!Au.pbus)
    <2> DEFINE T == {j \in DOMAIN D!Au.pbus : D!Au.pbus[j].type = "info"}
    <2>1. DOMAIN D!Au.pbus = 1..Len(D!Au.pbus) /\ Len(D!Au.pbus) \in Nat
      BY <1>1 DEF IsSeq
    <2>2. D!InfoAt = IF T = {} THEN Len(D!Au.pbus) + 1
                     ELSE CHOOSE j \in T : \A k \in T : j <= k
      BY DEF D!InfoAt
    <2>3. T \subseteq Nat
      BY <2>1
    <2> HIDE DEF T
    <2>4. T # {}
      BY <1>2, <2>1, <2>2
    <2>5. \E j \in T : \A k \in T : j <= k
      BY <2>3, <2>4, LeastElement
    <2>6. D!InfoAt \in T
      BY <2>2, <2>4, <2>5
    <2>7. D!InfoAt \in DOMAIN D!Au.pbus
      BY <2>6 DEF T
    <2> DEFINE pbu == D!Au.pbus[D!InfoAt]
    <2>8. D!Told = pbu.list
      BY <1>2 DEF D!Told
    <2>9. pbu \in D!Pbus /\ IsSeq(pbu.list)
      BY <1>1, <2>7 DEF PbuOk
    <2> HIDE DEF pbu
    <2>10. i \in DOMAIN pbu.list
      BY <2>8, <2>9 DEF IsSeq
    <2> QED BY <2>8, <2>9, <2>10 DEF Known, D!Announced, D!ToSet
  <1>3. CASE ~(D!InfoAt <= Len(D!Au.pbus))
    <2>1. D!Told = [n \in 1..Len(D!Frames) |-> D!Frames[n].frm]
      BY <1>3 DEF D!Told, D!Frm
    <2>2. Len(D!Told) = Len(D!Frames)
      BY <1>1, <2>1
    <2>3. D!Told[i] = D!Frames[i].frm /\ i \in 1..Len(D!Frames)
      BY <2>1, <2>2
    <2> QED BY <1>1, <2>3 DEF Known
  <1> QED BY <1>2, <1>3

\* Images are prepared for the frames told of,
LEMMA DecInforms ==
  ASSUME AppsAssumption, DecInv, DecLabels, D!Info
  PROVE  DecLabels'
  <1> USE DEF D!files, D!setup, D!images, D!count
  <1>1. pc = "info" /\ pc' \in {"ERR", "decode"} /\ UNCHANGED <<stream, out, pos>>
    BY DEF D!Info, D!Error
  <1>2. CASE UNCHANGED <<arg, imgs, imgb_w>>
    BY <1>1, <1>2, LabelsStay DEF DecLoop1
  <1>3. CASE \E got \in 0..Len(D!Told) :
               /\ imgs' = D!Prepared(D!Told, got)
               /\ imgb_w' = imgb_w
               /\ Len(D!Told) \in 1..MaxFrames
               /\ arg' = arg \/ arg' = [arg EXCEPT !.depth = D!Depth(D!Told[Len(D!Told)])]
    <2>1. PICK got \in 0..Len(D!Told) :
               /\ imgs' = D!Prepared(D!Told, got)
               /\ imgb_w' = imgb_w
               /\ Len(D!Told) \in 1..MaxFrames
               /\ arg' = arg \/ arg' = [arg EXCEPT !.depth = D!Depth(D!Told[Len(D!Told)])]
      BY <1>3
    <2>2. \A i \in 1..Len(D!Told) : D!Told[i] \in Known
      BY <1>1, ToldAre
    <2>3. \A i \in D!Slots : \/ imgs'[i] \in {imgs[i], D!NoImage}
                             \/ \E f \in Known : imgs'[i] = D!Fresh(f)
      <3> TAKE i \in D!Slots
      <3>1. CASE i \in 1..got
        <4>1. i \in 1..Len(D!Told)
          BY <2>1, <3>1 DEF AppsAssumption
        <4>2. imgs'[i] \in {imgs[i], D!Fresh(D!Told[i])}
          BY <2>1, <3>1 DEF D!Prepared
        <4> QED BY <2>2, <4>1, <4>2
      <3>2. CASE i \notin 1..got
        BY <2>1, <3>2 DEF D!Prepared
      <3> QED BY <3>1, <3>2
    <2>4. arg # <<>>
      BY <1>1, AtUnit DEF DecLoop0
    <2>5. pc' \notin DecLoop1
      BY <1>1 DEF DecLoop1
    <2> QED BY <1>1, <2>1, <2>3, <2>4, <2>5, LabelsRenewed
  <1> QED BY <1>2, <1>3 DEF D!Info, D!Error

\* or one is for the frame at hand.
LEMMA DecTakesImage ==
  ASSUME AppsAssumption, DecInv, DecLabels, D!TakeImage
  PROVE  DecLabels'
  <1> USE DEF D!files, D!setup, D!images, D!count
  <1> DEFINE f == D!Pbu.frm
             img == IF D!Kept(imgs[1], f) THEN imgs[1] ELSE D!Fresh(f)
  <1>1. /\ pc = "pbu" /\ pc' \in {"ERR", "frame"} /\ at <= Len(D!Au.pbus)
        /\ D!Pbu.type = "primary"
        /\ UNCHANGED <<stream, out, pos, at, imgb_w>>
    BY DEF D!TakeImage, D!Error, D!AtPbu
  <1>2. /\ imgs' = [imgs EXCEPT ![1] = img] \/ imgs' = [imgs EXCEPT ![1] = D!NoImage]
        /\ arg' = arg \/ arg' = [arg EXCEPT !.depth = D!Depth(f)]
    BY DEF D!TakeImage
  <1>3. f \in D!StreamFrames
    <2>1. at \in DOMAIN D!Au.pbus
      <3>1. at \in Nat \ {0}
        BY <1>1 DEF DecLabels, DecLoop1
      <3>2. DOMAIN D!Au.pbus = 1..Len(D!Au.pbus) /\ Len(D!Au.pbus) \in Nat
        BY <1>1, AtUnit DEF DecLoop1, IsSeq
      <3> QED BY <1>1, <3>1, <3>2
    <2>2. D!Pbu \in D!Pbus
      BY <1>1, <2>1, AtUnit DEF DecLoop1, D!Pbu
    <2> QED BY <1>1, <2>2 DEF D!StreamFrames, D!IsFrame
  <1>4. imgs = [i \in D!Slots |-> imgs[i]] /\ 1 \in D!Slots
    BY DEF DecInv, DecImages, AppsAssumption, D!Slots
  <1>5. img = imgs[1] \/ img = D!Fresh(f)
    OBVIOUS
  <1>6. (D!Pbu.frm)' = f /\ D!StreamFrames' = D!StreamFrames
    BY <1>1, KnownStays DEF D!Pbu, D!Au
  <1> HIDE DEF img, f
  <1>7. \A i \in D!Slots : \/ imgs'[i] \in {imgs[i], D!NoImage}
                           \/ \E g \in Known : imgs'[i] = D!Fresh(g)
    <2> TAKE i \in D!Slots
    <2>1. CASE i = 1
      <3>1. imgs'[i] = img \/ imgs'[i] = D!NoImage
        BY <1>2, <1>4, <2>1
      <3>2. f \in Known
        BY <1>3 DEF Known
      <3> QED BY <1>5, <2>1, <3>1, <3>2
    <2>2. CASE i # 1
      BY <1>2, <1>4, <2>2
    <2> QED BY <2>1, <2>2
  <1>8. arg # <<>>
    BY <1>1, AtUnit DEF DecLoop1
  <1>9. pc' = "frame" => (D!Pbu.frm \in D!StreamFrames)'
    BY <1>3, <1>6
  <1>10. at' \in Nat \ {0}
    BY <1>1 DEF DecLabels, DecLoop1
  <1> QED BY <1>1, <1>2, <1>7, <1>8, <1>9, <1>10, LabelsRenewed

\* The steps that have nothing to do with images or files.
LEMMA DecKeepsLabels ==
  ASSUME DecLabels,
         \/ D!Help \/ D!Create \/ D!LoopEnds \/ D!EndOfFile \/ D!ReadUnit
         \/ D!DecodeFails \/ D!Payloads \/ D!UnitDone \/ D!NoUnit \/ D!BeginUnit
         \/ D!PbuFails \/ D!FrameFails \/ D!OtherPbu \/ D!UnitEnds
         \/ D!Cleanup \/ D!Exit
  PROVE  DecLabels'
  <1> USE DEF D!files, D!setup, D!images, D!count, D!Error
  <1>1. UNCHANGED <<stream, arg, imgs, imgb_w, out>>
    BY DEF D!Help, D!Create, D!LoopEnds, D!EndOfFile, D!ReadUnit, D!DecodeFails, D!Payloads,
           D!UnitDone, D!NoUnit, D!BeginUnit, D!PbuFails, D!FrameFails, D!OtherPbu, D!UnitEnds,
           D!Cleanup, D!Exit
  <1>2. \/ pc' \in {"exit", "read", "info", "ERR", "main_ERR"}
        \/ pc' = "write" /\ pc = "payloads" /\ pos' = pos /\ at' = 1
        \/ pc' = "pbu" /\ (at' = 1 \/ (pc = "pbu" /\ at' = at + 1))
    BY DEF D!Help, D!Create, D!LoopEnds, D!EndOfFile, D!ReadUnit, D!DecodeFails, D!Payloads,
           D!UnitDone, D!NoUnit, D!BeginUnit, D!PbuFails, D!FrameFails, D!OtherPbu, D!UnitEnds,
           D!Cleanup, D!Exit, D!AtPbu
  <1>3. pc' \in {"write"} \cup DecLoop1 => at' \in Nat \ {0}
    <2>1. pc = "pbu" => at + 1 \in Nat \ {0}
      BY DEF DecLabels, DecLoop1
    <2> QED BY <1>2, <2>1 DEF DecLoop1
  <1> QED BY <1>1, <1>2, <1>3, LabelsStay

\* The options are read and the files opened before there are images.
LEMMA DecOpensFiles ==
  ASSUME DecInv, DecLabels, D!ParseArgs \/ D!OpenFiles
  PROVE  DecLabels'
  <1> USE DEF D!files, D!setup, D!images, D!count, D!MainError
  <1>1. /\ pc \in {"start", "open"} /\ pc' \in {"open", "create", "main_ERR"}
        /\ UNCHANGED <<stream, imgs, imgb_w>>
    BY DEF D!ParseArgs, D!Parsing, D!OpenFiles, D!Called
  <1>2. /\ out = NoFile /\ imgb_w = D!NoImage /\ \A i \in D!Slots : imgs[i] = D!NoImage
        /\ pc = "open" => arg # <<>>
    BY <1>1 DEF DecLabels, DecInv, DecImages, DecStages, DecOptions, DecEnds
  <1>3. arg' # <<>> => {"csp", "plain"} \subseteq DOMAIN arg'
    <2>1. CASE D!ParseArgs
      <3>1. {"csp", "plain"} \subseteq DOMAIN D!Table
        BY DEF D!Table
      <3>2. \A opts : DOMAIN [k \in DOMAIN D!Table |-> opts[k].val] = DOMAIN D!Table
        OBVIOUS
      <3>3. arg' = arg \/ \E opts : arg' = [k \in DOMAIN D!Table |-> opts[k].val]
        BY <2>1 DEF D!ParseArgs, D!Parsing
      <3> QED BY <3>1, <3>2, <3>3 DEF DecLabels
    <2>2. CASE D!OpenFiles
      BY <2>2 DEF D!OpenFiles, DecLabels
    <2> QED BY <2>1, <2>2
  <1>4. \/ out' = NoFile
        \/ /\ out' = [heads |-> <<>>, pics |-> <<>>]
           /\ pc = "open" /\ pc' # "open" /\ arg' = arg
    BY <1>2 DEF D!ParseArgs, D!Parsing, D!OpenFiles, D!Empty, D!Called, DecEnds
  <1>5. out' # NoFile => /\ out' = [heads |-> out'.heads, pics |-> out'.pics]
                         /\ IsSeq(out'.pics) /\ out'.pics = <<>>
    <2>1. IsSeq(<<>>)
      BY DEF IsSeq
    <2> QED BY <1>4, <2>1
  <1>6. UnitsOk(stream)'
    BY <1>1, KnownStays DEF DecLabels
  <1>7. DecShows'
    BY <1>1, <1>2, <1>5 DEF DecShows, Kind, Converter, D!Slots
  <1> QED BY <1>1, <1>2, <1>3, <1>4, <1>5, <1>6, <1>7 DEF DecLabels, DecLoop1, IsSeq

\* Every step of AppDec keeps the labels true.
LEMMA DecLabelsStep ==
  ASSUME AppsAssumption, DecInv, DecLabels, D!Next
  PROVE  DecLabels'
  BY DecKeepsLabels, DecOpensFiles, DecDraws, DecDrawsFrame, DecShowsOne, DecInforms,
     DecTakesImage
     DEF D!Next

\* So does a step that changes nothing.
LEMMA DecLabelsKept ==
  ASSUME DecLabels, UNCHANGED appsVars
  PROVE  DecLabels'
  <1>1. UNCHANGED <<stream, arg, imgs, imgb_w, out, pc, pos, at>>
    BY DEF appsVars, decVars
  <1>2. pc' \in {"write"} \cup DecLoop1 => at' \in Nat \ {0}
    BY <1>1 DEF DecLabels
  <1> QED BY <1>1, <1>2, LabelsStay

\* What the labels say follows.
LEMMA LabelsFollow ==
  ASSUME DecLabels, DecInv
  PROVE  D!LabelsAreTrue
  <1>1. SUFFICES ASSUME Uniform, NEW k \in DOMAIN D!Shown, arg.plain = 0
                 PROVE  Labelled(D!Shown[k])
    BY DEF Uniform, D!LabelsAreTrue, Labelled
  <1>2. out # NoFile /\ D!Shown = out.pics
    BY <1>1 DEF D!Shown
  <1>3. arg # <<>>
    BY <1>2 DEF DecLabels
  <1> QED BY <1>1, <1>2, <1>3 DEF DecLabels, DecShows

\* Nothing is written when a program starts.
LEMMA LabelsAtFirst ==
  ASSUME UnitsOk(stream), pc = "start", arg = <<>>, out = NoFile PROVE DecLabels
  BY DEF DecLabels, DecLoop1

\* The same of the step that starts it.
LEMMA LabelsAfter ==
  ASSUME UnitsOk(stream)', pc' = "start", arg' = <<>>, out' = NoFile PROVE DecLabels'
  BY DEF DecLabels, DecLoop1

----------------------------------------------------------------------------
(* Apps: one program after the other                                       *)

\* Each invariant is about the variables its own program changes.
LEMMA EncKept ==
  ASSUME EncInv, UNCHANGED appsVars
  PROVE  EncInv'
  <1> USE DEF appsVars, encVars, decVars
  <1>1. /\ UNCHANGED <<cmd, pc, status, arg, held, nimg, imgs, mid, au_cnt, pos>>
        /\ UNCHANGED <<video, cf, state, au_skip, coded, rec>>
    OBVIOUS
  <1>2. EncBegins'
    BY <1>1 DEF EncInv, EncBegins, NoImages
  <1>3. EncOptions'
    BY <1>1 DEF EncInv, EncOptions, Loop, Seek
  <1>4. EncImages'
    BY <1>1 DEF EncInv, EncImages, Loop, Codec, Plain, Is, E!Converts
  <1>5. EncHolds'
    BY <1>1 DEF EncInv, EncHolds, Loop, E!Pointed
  <1>6. EncSucceeds'
    BY <1>1 DEF EncInv, EncSucceeds, Loop, AllDone, E!More, E!Reader, E!Converts
  <1>7. EncGoesOn'
    BY <1>1 DEF EncInv, EncGoesOn, Loop, Loaded, Passed, E!Converts, E!Pictures, E!Payloads
  <1>8. EncFiles'
    BY <1>1, FilesKept DEF EncInv, EncFiles
  <1> QED BY <1>2, <1>3, <1>4, <1>5, <1>6, <1>7, <1>8 DEF EncInv

\* The decoder's likewise.
LEMMA DecKept ==
  ASSUME DecInv, UNCHANGED appsVars
  PROVE  DecInv'
  <1> USE DEF appsVars, encVars, decVars
  <1>1. UNCHANGED <<pc, status, arg, held, nimg, imgs, mid, au_cnt, pos,
                    stream, imgb_w, num_frms, verdicts, quiet>>
    OBVIOUS
  <1>2. DecOptions'
    BY <1>1 DEF DecInv, DecOptions, DecLoop0, DecLoop1, D!Api0
  <1>3. DecImages'
    BY <1>1 DEF DecInv, DecImages, D!Slots, Created, D!Api0
  <1>4. DecHolds'
    BY <1>1 DEF DecInv, DecHolds, MayHold, Lost, D!Slots, D!Api0, D!Count, D!Gone
  <1>5. DecSucceeds'
    BY <1>1 DEF DecInv, DecSucceeds, DecLoop0, DecLoop1, D!More
  <1>6. DecJudges'
    <2>1. D!VerdictIsThisUnits'
      BY <1>1, VerdictsKept DEF DecInv, DecJudges
    <2>2. D!Frames' = D!Frames
      BY <1>1 DEF D!Frames, D!Au
    <2>3. D!Store({}, D!Au.pbus)' = D!Store({}, D!Au.pbus)
      BY <1>1 DEF D!Store, D!Payload, D!Au
    <2> QED BY <1>1, <2>1, <2>2, <2>3 DEF DecInv, DecJudges, DecStages
  <1> QED BY <1>2, <1>3, <1>4, <1>5, <1>6 DEF DecInv

\* The invariant of the program that runs.
AppsInv == IF prog = "enc" THEN EncInv /\ EncUnits
           ELSE prog = "dec" /\ DecInv /\ DecLabels

\* Apps: at first, and in every step of the program that runs.
LEMMA AppsInitially ==
  ASSUME AppsAssumption, AppsInit
  PROVE  AppsInv
  <1>1. CASE InitEnc
    BY <1>1, EncInitially DEF InitEnc, E!Init, AppsInv, EncUnits
  <1>2. CASE InitDec
    BY <1>2, DecInitially, LabelsAtFirst DEF InitDec, D!Init, AppsInv, AppsAssumption
  <1> QED BY <1>1, <1>2 DEF AppsInit

\* A step of either program, and the one from the first to the second.
LEMMA AppsSteps ==
  ASSUME AppsAssumption, AppsInv, [AppsNext]_appsVars
  PROVE  AppsInv'
  <1>1. CASE prog = "enc" /\ E!Next /\ prog' = "enc"
    BY <1>1, EncStep, EncUnitsStep DEF AppsInv
  <1>2. CASE prog = "dec" /\ D!Next /\ prog' = "dec"
    BY <1>2, DecStep, DecLabelsStep DEF AppsInv
  <1>3. CASE Handover
    <2>1. DecInv'
      BY <1>3, DecStartsOver DEF AppsInv, Handover
    <2>2. UnitsOk(stream)'
      BY <1>3, StartsWithUnits DEF AppsInv, Handover, UnitsOk, IsSeq
    <2>3. DecLabels'
      BY <1>3, <2>2, LabelsAfter DEF Handover
    <2> QED BY <1>3, <2>1, <2>3 DEF AppsInv, Handover
  <1>4. CASE UNCHANGED appsVars
    BY <1>4, EncKept, DecKept, DecLabelsKept DEF AppsInv, EncUnits, appsVars, encVars
  <1>5. CASE AppsNext
    <2>1. \/ prog = "enc" /\ E!Next /\ prog' = "enc"
          \/ prog = "dec" /\ D!Next /\ prog' = "dec"
          \/ Handover
      BY <1>5 DEF AppsNext, Enc, Dec, E!Next, D!Next
    <2> QED BY <2>1, <1>1, <1>2, <1>3
  <1> QED BY <1>4, <1>5

\* Apps keeps the invariant of the program that runs: of the encoder up to
\* its exit, of the decoder from then on.
THEOREM AppsHold == ASSUME AppsAssumption PROVE AppsSpec => []AppsInv
  <1>1. AppsInit => AppsInv
    BY AppsInitially
  <1>2. AppsInv /\ [AppsNext]_appsVars => AppsInv'
    BY AppsSteps
  <1> QED BY <1>1, <1>2, PTL DEF AppsSpec

\* The loop of the encoder program writes a unit for every picture it reads
\* behind those to be skipped, in their order, and for nothing else.
THEOREM AppsCodeInOrder == ASSUME AppsAssumption PROVE AppsSpec => []CodedInOrder
  <1>1. AppsInv => CodedInOrder
    BY EncPromises DEF AppsInv, CodedInOrder
  <1> QED BY <1>1, AppsHold, PTL

\* Neither program returns 0 before all that was asked for is coded or decoded,
\* but for the reasons the decoder does not return.
THEOREM AppsSucceedWhole == ASSUME AppsAssumption PROVE AppsSpec => []SuccessIsWhole
  <1>1. AppsInv => SuccessIsWhole
    BY EncPromises, DecPromises DEF AppsInv, SuccessIsWhole
  <1> QED BY <1>1, AppsHold, PTL

\* Whichever step fails, the labels ERR release all there is, but for the
\* images of places the last unit did not have.
THEOREM AppsReleaseAll == ASSUME AppsAssumption PROVE AppsSpec => []EverythingReleased
  <1>1. AppsInv => EverythingReleased
    BY EncPromises, DecPromises DEF AppsInv, EverythingReleased
  <1> QED BY <1>1, AppsHold, PTL

\* The hash a decoded picture is compared with is that of its own unit and
\* group, the last one there: check_frm_hash finds none of an earlier unit.
THEOREM AppsJudgeTheirOwn == ASSUME AppsAssumption PROVE AppsSpec => []VerdictIsThisUnits
  <1>1. AppsInv => VerdictIsThisUnits
    BY DecPromises DEF AppsInv, VerdictIsThisUnits
  <1> QED BY <1>1, AppsHold, PTL

\* A picture written, by the encoder program as its reconstruction or by the
\* decoder program, spans the bits its label says, those of P210 apart, and has
\* the planes of its format: through any conversion of the depth (imgb_cpy) and
\* with any images that are kept, as long as the bitstream keeps to one format
\* and depth and companding is not disabled.
THEOREM AppsLabelTruly == ASSUME AppsAssumption PROVE AppsSpec => []LabelsAreTrue
  <1>1. AppsInv => LabelsAreTrue
    BY EncPromises, LabelsFollow DEF AppsInv, LabelsAreTrue
  <1> QED BY <1>1, AppsHold, PTL
=============================================================================
