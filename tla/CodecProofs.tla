---------------------------- MODULE CodecProofs ----------------------------
(***************************************************************************)
(* Proofs about Codec, for every access unit a caller may pass, any number *)
(* of threads, frames and calls, and whatever allocations fail.            *)
(***************************************************************************)
EXTENDS Codec, SequenceTheorems, Induction, TLAPS

----------------------------------------------------------------------------
(* The inductive invariant of a decoder instance                           *)

\* A frame is in hand from its header to its filler: the PBU read last, for
\* which there is an image.
InHand == pc \in {"setup", "sizes", "hold", "tiles", "tail"}

DecLoopInv ==
  /\ InHand => todo # << >> /\ Head(todo) = fh /\ fh \in Pbus /\ fh.kind = "FRAME"
               /\ Len(out) < MaxFrames
  /\ pc \in {"none", "idle"} => todo = << >>
  /\ call # "DECODE" /\ pc # "none" => Len(out) + Len(todo) <= 1
  /\ call # "TILES" => wanted = {}

\* The caller's image is held while its tiles are decoded.
DecHoldInv ==
  /\ held = IF pc = "none" THEN {} ELSE De!Obtained(Len(De!Order))
  /\ imgb # De!NULL <=> pc = "tiles" /\ call # "TILES"
  /\ pc = "hold" => call # "TILES"
  /\ \A s \in De!Image : refs[s] = IF imgb = s THEN 1 ELSE 0

\* The arrays from the step that makes them this frame's.
DecArrayInv ==
  /\ num_tiles \in Nat
  /\ pc \in {"sizes", "hold", "tiles"} =>
       num_tiles = De!Count /\ num_tiles <= tile_cap /\ De!DstIsThisCalls
  /\ pc \in {"setup", "sizes"} /\ pos_cap >= Len(fh.hdr) =>
       \A k \in DOMAIN fh.hdr : pos_tiles[k] = fh.hdr[k]
  /\ pc \in {"hold", "tiles"} =>
       /\ fh.hdr # << >> => num_tiles <= pos_cap
       /\ De!SizesAreThisFrames

\* A frame goes to the image behind those reported, which has its hash when it
\* is about to be reported as well.
DecHashInv ==
  /\ De!HashIsThePictures
  /\ imgb # De!NULL => imgb = Len(out) + 1
  /\ pc = "tail" => /\ Len(out) + 1 \notin unhashed
                    /\ md5[Len(out) + 1] = IF use_hash THEN fh.label ELSE De!NULL

DecInv == De!TypeOK /\ DecLoopInv /\ DecHoldInv /\ DecArrayInv /\ DecHashInv

----------------------------------------------------------------------------
(* The inductive invariant of an encoder instance                          *)

\* A call is under way, and has come to a frame or to a group of metadata.
Encoding == pc \in {"prepare", "code", "save", "hash", "meta"}

EncLoopInv ==
  /\ Encoding => frms # << >> /\ En!Acceptable(frms) /\ au_size = 0
  /\ pc \in {"prepare", "code", "save", "hash"} => i <= Len(frms)
  /\ pc = "meta" => i <= Len(mid) + 1
  /\ pc \in {"code", "save", "hash"} => En!frm.tiles <= tile_cap
  /\ pc = "save" => En!FrameEnd <= room

\* The images are held while their frame is coded.
EncHoldInv ==
  /\ held = IF pc = "none" THEN {} ELSE En!Obtained(Len(En!Order))
  /\ imgb_i = IF pc \in {"code", "save", "hash"} THEN En!frm.imgb ELSE En!NULL
  /\ imgb_r = IF pc \in {"code", "save", "hash"} THEN En!frm.rec ELSE En!NULL
  /\ \A m \in Images : counts[m] = IF pc \in {"code", "save", "hash"} /\ m \in En!Held THEN 1 ELSE 0
  /\ pc \in {"save", "hash"} /\ imgb_r # En!NULL => shows[imgb_r] = En!frm.pic

EncRcInv == /\ En!RcStaysWithSlot
            /\ pc = "code" => rc = rc_frm[i]

\* A group of the container is in the access unit, or less than a register is
\* left of the output.
Whole(k) == LET pbu == au[Len(frms) + k]
            IN  pbu.lost = 0 /\ pbu.size >= 4 /\ pbu.what = mid[k].hash

\* The PBUs follow one another; there is one for each frame done and each
\* group passed.
EncChainInv ==
  /\ \A k \in DOMAIN au : En!NextAt(k) = IF k < Len(au) THEN au[k + 1].beg ELSE cur
  /\ au_size # 0 => au_size + 4 = cur
  /\ pc \in {"prepare", "code", "save"} => Len(au) = i - 1 /\ Len(stat) = i - 1
  /\ pc = "hash" => Len(au) = i /\ Len(stat) = i
  /\ pc = "meta" => Len(au) = Len(frms) + i - 1 /\ Len(stat) = Len(frms)
  /\ Encoding => \A k \in DOMAIN stat : /\ au[k].what = frms[k].pic /\ stat[k] = au[k].size
                                        /\ au[k].lost = 0 /\ au[k].size >= 4

EncMetaInv ==
  pc = "meta" => \A k \in 1..(i - 1) :
    /\ au[Len(frms) + k].group = mid[k].group
    /\ \/ Whole(k)
       \/ room < cur + 8 /\ \A n \in k..(i - 1) : au[Len(frms) + n].lost # 0

\* Of the first n frames, the hash of the last of each group is in the
\* container.
InContainer(n) ==
  \A k \in 1..n :
    /\ En!Hashed(k)
    /\ \A m \in (k + 1)..n : En!Hashed(m) => frms[m].group # frms[k].group
    => \E j \in DOMAIN mid : mid[j].group = frms[k].group /\ mid[j].hash = frms[k].pic

EncHashInv ==
  /\ pc \in {"prepare", "code", "save", "hash"} => InContainer(i - 1)
  /\ pc = "meta" => InContainer(Len(frms))

EncInv == /\ En!TypeOK /\ EncLoopInv /\ EncHoldInv /\ EncRcInv
          /\ EncChainInv /\ EncMetaInv /\ EncHashInv

----------------------------------------------------------------------------
IInv == /\ use \in {"dec", "enc"}
        /\ use = "dec" => DecInv
        /\ use = "enc" => EncInv

----------------------------------------------------------------------------
(* What creation obtains and deletion gives back                           *)

Things == {<<"ctx", 0>>, <<"sync_obj", 0>>, <<"tpool", 0>>, <<"bs_buf", 0>>}
          \cup {<<"core", c>> : c \in Nat} \cup {<<"thread", t>> : t \in Nat}

\* A single thing, or a row of them.
LEMMA Single ==
  ASSUME NEW x \in Things
  PROVE  <<x>> \in Seq(Things) /\ Len(<<x>>) = 1 /\ <<x>>[1] = x
  OBVIOUS

LEMMA Row ==
  ASSUME NEW n \in Nat
  PROVE  /\ [c \in 1..n |-> <<"core", c>>] \in Seq(Things)
         /\ Len([c \in 1..n |-> <<"core", c>>]) = n
         /\ [t \in 1..n |-> <<"thread", t>>] \in Seq(Things)
         /\ Len([t \in 1..n |-> <<"thread", t>>]) = n
  <1>1. \A c \in 1..n : <<"core", c>> \in Things /\ <<"thread", c>> \in Things
    BY DEF Things
  <1>2. /\ [c \in 1..n |-> <<"core", c>>] \in [1..n -> Things]
        /\ [t \in 1..n |-> <<"thread", t>>] \in [1..n -> Things]
    BY <1>1
  <1> QED BY <1>2, SeqDef, LenProperties

\* The places of two sequences in their concatenation.
LEMMA Behind ==
  ASSUME NEW s \in Seq(Things), NEW t \in Seq(Things)
  PROVE  /\ s \o t \in Seq(Things) /\ Len(s \o t) = Len(s) + Len(t)
         /\ \A j \in 1..Len(s) : (s \o t)[j] = s[j]
         /\ \A j \in 1..Len(s \o t) : j > Len(s) =>
              j - Len(s) \in 1..Len(t) /\ (s \o t)[j] = t[j - Len(s)]
  <1>1. Len(s) \in Nat /\ Len(t) \in Nat
    BY LenProperties
  <1> QED BY <1>1, ConcatProperties

\* What an instance obtains before its threads, and with its threads.
LEMMA Front ==
  ASSUME NEW n \in Nat,
         NEW front, front = (<<<<"ctx", 0>>>> \o [c \in 1..n |-> <<"core", c>>]) \o <<<<"sync_obj", 0>>>>
  PROVE  /\ front \in Seq(Things) /\ Len(front) \in Nat \ {0}
         /\ \A j \in 1..Len(front) : \/ front[j][1] \in {"core", "sync_obj"}
                                     \/ front[j] = <<"ctx", 0>>
  <1> DEFINE ctx == <<<<"ctx", 0>>>>
             cores == [c \in 1..n |-> <<"core", c>>]
             sync == <<<<"sync_obj", 0>>>>
             a == ctx \o cores
  <1>1. /\ ctx \in Seq(Things) /\ Len(ctx) = 1 /\ ctx[1] = <<"ctx", 0>>
        /\ sync \in Seq(Things) /\ Len(sync) = 1 /\ sync[1] = <<"sync_obj", 0>>
    BY Single DEF Things
  <1>2. cores \in Seq(Things) /\ Len(cores) = n /\ \A j \in 1..n : cores[j][1] = "core"
    BY Row
  <1> HIDE DEF ctx, cores, sync
  <1>3. /\ a \in Seq(Things) /\ Len(a) = 1 + n
        /\ \A j \in 1..Len(ctx) : a[j] = ctx[j]
        /\ \A j \in 1..Len(a) : j > Len(ctx) => j - Len(ctx) \in 1..Len(cores) /\ a[j] = cores[j - Len(ctx)]
    BY <1>1, <1>2, Behind
  <1>4. \A j \in 1..Len(a) : a[j] = <<"ctx", 0>> \/ a[j][1] = "core"
    <2> TAKE j \in 1..Len(a)
    <2>1. CASE j <= 1
      <3>1. j = 1 /\ j \in 1..Len(ctx)
        BY <1>1, <1>3, <2>1
      <3> QED BY <1>1, <1>3, <3>1
    <2>2. CASE j > 1
      BY <1>1, <1>2, <1>3, <2>2
    <2> QED BY <1>3, <2>1, <2>2
  <1> HIDE DEF a
  <1>5. front = a \o sync
    BY DEF a, ctx, cores, sync
  <1>6. /\ front \in Seq(Things) /\ Len(front) = 1 + n + 1
        /\ \A j \in 1..Len(a) : front[j] = a[j]
        /\ \A j \in 1..Len(front) : j > Len(a) => j - Len(a) \in 1..Len(sync) /\ front[j] = sync[j - Len(a)]
    <2>1. Len(sync) = 1 /\ Len(a) = 1 + n
      BY <1>1, <1>3
    <2>2. Len(a \o sync) = Len(a) + Len(sync) /\ a \o sync \in Seq(Things)
      BY <1>1, <1>3, Behind
    <2>3. \A j \in 1..Len(a) : (a \o sync)[j] = a[j]
      BY <1>1, <1>3, Behind
    <2>4. \A j \in 1..Len(a \o sync) : j > Len(a) =>
            j - Len(a) \in 1..Len(sync) /\ (a \o sync)[j] = sync[j - Len(a)]
      BY <1>1, <1>3, Behind
    <2>5. Len(front) = 1 + n + 1
      BY <1>5, <2>1, <2>2
    <2> QED BY ONLY <1>5, <2>2, <2>3, <2>4, <2>5
  <1>7. ASSUME NEW j \in 1..Len(front), j > Len(a)
        PROVE  front[j] = <<"sync_obj", 0>>
    <2>1. j - Len(a) = 1
      BY <1>1, <1>3, <1>6, <1>7
    <2> QED BY <1>1, <1>6, <1>7, <2>1
  <1>8. ASSUME NEW j \in 1..Len(front), j <= Len(a)
        PROVE  front[j] = <<"ctx", 0>> \/ front[j][1] = "core"
    <2>1. j \in 1..Len(a)
      BY <1>3, <1>6, <1>8
    <2> QED BY <1>4, <1>6, <2>1
  <1> QED BY <1>3, <1>6, <1>7, <1>8

LEMMA Back ==
  ASSUME NEW n \in Nat, n >= 2, NEW front \in Seq(Things),
         \A j \in 1..Len(front) : \/ front[j][1] \in {"core", "sync_obj"}
                                 \/ front[j] = <<"ctx", 0>>,
         NEW s, s = front \o (<<<<"tpool", 0>>>> \o [t \in 1..(n - 1) |-> <<"thread", t>>])
  PROVE  /\ s \in Seq(Things) /\ Len(s) >= Len(front)
         /\ \A j \in 1..Len(s) :
              \/ s[j][1] \in {"core", "sync_obj"} \/ s[j] = <<"ctx", 0>>
              \/ s[j][1] \in {"tpool", "thread"} /\ \E m \in 1..j : s[m] = <<"tpool", 0>>
  <1> DEFINE tpool == <<<<"tpool", 0>>>>
             threads == [t \in 1..(n - 1) |-> <<"thread", t>>]
             back == tpool \o threads
  <1>1. tpool \in Seq(Things) /\ Len(tpool) = 1 /\ tpool[1] = <<"tpool", 0>>
    BY Single DEF Things
  <1>2. threads \in Seq(Things) /\ Len(threads) = n - 1 /\ \A j \in 1..(n - 1) : threads[j][1] = "thread"
    <2>1. n - 1 \in Nat
      OBVIOUS
    <2> QED BY <2>1, Row
  <1> HIDE DEF tpool, threads
  <1>3. /\ back \in Seq(Things) /\ Len(back) = n
        /\ \A j \in 1..Len(tpool) : back[j] = tpool[j]
        /\ \A j \in 1..Len(back) : j > Len(tpool) => j - Len(tpool) \in 1..Len(threads) /\ back[j] = threads[j - Len(tpool)]
    <2>1. Len(tpool) = 1 /\ Len(threads) = n - 1 /\ Len(back) = Len(tpool) + Len(threads)
      BY <1>1, <1>2, Behind
    <2>2. Len(back) = n
      BY ONLY <2>1, n \in Nat
    <2> QED BY <1>1, <1>2, <2>2, Behind
  <1>4. back[1] = <<"tpool", 0>> /\ \A j \in 2..n : back[j][1] = "thread"
    <2>1. 1 \in 1..Len(tpool) /\ \A j \in 2..n : j \in 1..Len(back) /\ j > Len(tpool)
      BY <1>1, <1>3
    <2> QED BY <1>1, <1>2, <1>3, <2>1
  <1> HIDE DEF back
  <1>5. s = front \o back /\ Len(front) \in Nat
    BY LenProperties DEF back, tpool, threads
  <1>6. /\ s \in Seq(Things) /\ Len(s) = Len(front) + n
        /\ \A j \in 1..Len(front) : s[j] = front[j]
        /\ \A j \in 1..Len(s) : j > Len(front) => j - Len(front) \in 1..Len(back) /\ s[j] = back[j - Len(front)]
    <2>1. Len(front \o back) = Len(front) + Len(back) /\ front \o back \in Seq(Things)
      BY <1>3, Behind
    <2>2. \A j \in 1..Len(front) : (front \o back)[j] = front[j]
      BY <1>3, Behind
    <2>3. \A j \in 1..Len(front \o back) : j > Len(front) =>
            j - Len(front) \in 1..Len(back) /\ (front \o back)[j] = back[j - Len(front)]
      BY <1>3, Behind
    <2> QED BY ONLY <1>3, <1>5, <2>1, <2>2, <2>3
  <1>7. s[Len(front) + 1] = <<"tpool", 0>>
    <2>1. Len(front) + 1 \in 1..Len(s) /\ Len(front) + 1 > Len(front) /\ (Len(front) + 1) - Len(front) = 1
      BY <1>5, <1>6
    <2> QED BY <1>4, <1>6, <2>1
  <1>8. ASSUME NEW j \in 1..Len(s), j > Len(front)
        PROVE  s[j][1] \in {"tpool", "thread"} /\ Len(front) + 1 \in 1..j
    <2>1. j - Len(front) \in 1..n /\ s[j] = back[j - Len(front)]
      BY <1>3, <1>6, <1>8
    <2>2. j - Len(front) = 1 \/ j - Len(front) \in 2..n
      BY <2>1
    <2>3. s[j][1] \in {"tpool", "thread"}
      BY <1>4, <2>1, <2>2
    <2> QED BY <1>5, <1>6, <1>8, <2>3
  <1>9. ASSUME NEW j \in 1..Len(s), j <= Len(front)
        PROVE  j \in 1..Len(front) /\ s[j] = front[j]
    BY <1>5, <1>6, <1>9
  <1>10. Len(s) >= Len(front)
    BY <1>5, <1>6
  <1>11. ASSUME NEW j \in 1..Len(s)
         PROVE  \/ s[j][1] \in {"core", "sync_obj"} \/ s[j] = <<"ctx", 0>>
                \/ s[j][1] \in {"tpool", "thread"} /\ \E m \in 1..j : s[m] = <<"tpool", 0>>
    <2>1. j > Len(front) \/ j <= Len(front)
      BY <1>5, <1>6
    <2>2. CASE j > Len(front)
      BY <1>7, <1>8, <2>2
    <2>3. CASE j <= Len(front)
      <3>1. j \in 1..Len(front) /\ s[j] = front[j]
        BY <1>9, <2>3
      <3> QED BY <3>1
    <2> QED BY <2>1, <2>2, <2>3
  <1> QED BY <1>6, <1>10, <1>11

\* What a decoder obtains: its threads after the pool they are found by.
LEMMA DecOrder ==
  ASSUME De!DecoderAssumption
  PROVE  /\ De!Order \in Seq(Things) /\ Len(De!Order) \in Nat \ {0}
         /\ \A j \in 1..Len(De!Order) :
              \/ De!Order[j][1] \in {"core", "sync_obj"} \/ De!Order[j] = <<"ctx", 0>>
              \/ De!Order[j][1] \in {"tpool", "thread"}
                 /\ \E m \in 1..j : De!Order[m] = <<"tpool", 0>>
  <1> DEFINE front == (<<<<"ctx", 0>>>> \o [c \in 1..Threads |-> <<"core", c>>]) \o <<<<"sync_obj", 0>>>>
  <1>1. Threads \in Nat
    BY DEF De!DecoderAssumption
  <1>2. /\ front \in Seq(Things) /\ Len(front) \in Nat \ {0}
        /\ \A j \in 1..Len(front) : front[j][1] \in {"core", "sync_obj"} \/ front[j] = <<"ctx", 0>>
    BY <1>1, Front
  <1>3. CASE Threads < 2
    <2>1. De!Order = front \o << >>
      BY <1>3 DEF De!Order
    <2> HIDE DEF front
    <2>2. De!Order = front
      BY <1>2, <2>1, ConcatEmptySeq
    <2> QED BY <1>2, <2>2
  <1>4. CASE ~(Threads < 2)
    <2>1. De!Order = front \o (<<<<"tpool", 0>>>> \o [t \in 1..(Threads - 1) |-> <<"thread", t>>])
      BY <1>4 DEF De!Order
    <2>2. Threads >= 2
      BY <1>1, <1>4
    <2> HIDE DEF front
    <2>3. De!Order \in Seq(Things) /\ Len(De!Order) >= Len(front)
      BY <1>1, <1>2, <2>1, <2>2, Back
    <2>4. \A j \in 1..Len(De!Order) :
            \/ De!Order[j][1] \in {"core", "sync_obj"} \/ De!Order[j] = <<"ctx", 0>>
            \/ De!Order[j][1] \in {"tpool", "thread"}
               /\ \E m \in 1..j : De!Order[m] = <<"tpool", 0>>
      BY <1>1, <1>2, <2>1, <2>2, Back
    <2>5. Len(De!Order) \in Nat
      BY <2>3, LenProperties
    <2>6. Len(De!Order) \in Nat \ {0}
      BY <1>2, <2>3, <2>5
    <2> QED BY <2>3, <2>4, <2>6
  <1> QED BY <1>3, <1>4

\* Whatever part of that was obtained is given back.
LEMMA DecFreed ==
  ASSUME De!DecoderAssumption, NEW k \in 0..Len(De!Order)
  PROVE  De!Freed(De!Obtained(k)) = {}
  <1>1. ASSUME NEW j \in 1..k
        PROVE  De!Order[j] \in De!Flushed(De!Obtained(k)) \cup {<<"ctx", 0>>}
    <2>1. j \in 1..Len(De!Order) /\ 1..j \subseteq 1..k
      BY DecOrder
    <2>2. De!Order[j] \in De!Obtained(k)
      BY DEF De!Obtained
    <2>3. CASE De!Order[j][1] \in {"tpool", "thread"} /\ \E m \in 1..j : De!Order[m] = <<"tpool", 0>>
      <3>1. <<"tpool", 0>> \in De!Obtained(k)
        BY <2>1, <2>3 DEF De!Obtained
      <3> QED BY <2>2, <2>3, <3>1 DEF De!Flushed
    <2>4. CASE De!Order[j][1] \in {"core", "sync_obj"}
      BY <2>2, <2>4 DEF De!Flushed
    <2> QED BY <2>1, <2>3, <2>4, DecOrder
  <1> QED BY <1>1 DEF De!Freed, De!Obtained

\* The same of an encoder, whose last thing is the buffer of the tiles.
LEMMA EncOrder ==
  ASSUME En!EncoderAssumption
  PROVE  /\ En!Order \in Seq(Things) /\ Len(En!Order) \in Nat \ {0}
         /\ \A j \in 1..Len(En!Order) :
              \/ En!Order[j][1] \in {"core", "sync_obj", "bs_buf"} \/ En!Order[j] = <<"ctx", 0>>
              \/ En!Order[j][1] \in {"tpool", "thread"}
                 /\ \E m \in 1..j : En!Order[m] = <<"tpool", 0>>
  <1> DEFINE front == (<<<<"ctx", 0>>>> \o [c \in 1..Threads |-> <<"core", c>>]) \o <<<<"sync_obj", 0>>>>
             threads == IF Threads < 2 THEN << >>
                        ELSE <<<<"tpool", 0>>>> \o [t \in 1..(Threads - 1) |-> <<"thread", t>>]
             most == front \o threads
             buf == <<<<"bs_buf", 0>>>>
             Found(s, j) == \/ s[j][1] \in {"core", "sync_obj", "bs_buf"} \/ s[j] = <<"ctx", 0>>
                            \/ s[j][1] \in {"tpool", "thread"}
                               /\ \E m \in 1..j : s[m] = <<"tpool", 0>>
  <1>1. Threads \in Nat
    BY DEF En!EncoderAssumption
  <1>2. /\ front \in Seq(Things) /\ Len(front) \in Nat \ {0}
        /\ \A j \in 1..Len(front) : front[j][1] \in {"core", "sync_obj"} \/ front[j] = <<"ctx", 0>>
    BY <1>1, Front
  <1>3. En!Order = most \o buf
    BY DEF En!Order
  <1>10. most = front \o threads
    OBVIOUS
  <1> HIDE DEF front, most
  <1>4. most \in Seq(Things) /\ Len(most) >= Len(front) /\ \A j \in 1..Len(most) : Found(most, j)
    <2>1. CASE Threads < 2
      <3>1. most = front
        BY <1>2, <1>10, <2>1, ConcatEmptySeq
      <3>2. most \in Seq(Things) /\ Len(most) >= Len(front)
        BY <1>2, <3>1
      <3> QED BY <1>2, <3>1, <3>2
    <2>2. CASE ~(Threads < 2)
      <3>1. most = front \o (<<<<"tpool", 0>>>> \o [t \in 1..(Threads - 1) |-> <<"thread", t>>])
        BY <1>10, <2>2
      <3>2. Threads >= 2
        BY <1>1, <2>2
      <3>3. most \in Seq(Things) /\ Len(most) >= Len(front)
        BY <1>1, <1>2, <3>1, <3>2, Back
      <3>4. \A j \in 1..Len(most) :
              \/ most[j][1] \in {"core", "sync_obj"} \/ most[j] = <<"ctx", 0>>
              \/ most[j][1] \in {"tpool", "thread"} /\ \E m \in 1..j : most[m] = <<"tpool", 0>>
        BY <1>1, <1>2, <3>1, <3>2, Back
      <3> QED BY <3>3, <3>4
    <2> QED BY <2>1, <2>2
  <1>5. buf \in Seq(Things) /\ Len(buf) = 1 /\ buf[1] = <<"bs_buf", 0>>
    BY Single DEF Things
  <1> HIDE DEF buf
  <1>6. /\ En!Order \in Seq(Things) /\ Len(most) \in Nat /\ Len(En!Order) = Len(most) + 1
        /\ \A j \in 1..Len(most) : En!Order[j] = most[j]
    <2>1. most \o buf \in Seq(Things) /\ Len(most \o buf) = Len(most) + Len(buf) /\ Len(most) \in Nat
      BY <1>4, <1>5, Behind, LenProperties
    <2>2. \A j \in 1..Len(most) : (most \o buf)[j] = most[j]
      BY <1>4, <1>5, Behind
    <2> QED BY ONLY <1>3, <1>5, <2>1, <2>2
  <1>7. ASSUME NEW j \in 1..Len(En!Order)
        PROVE  Found(En!Order, j)
    <2>1. CASE j <= Len(most)
      <3>1. j \in 1..Len(most) /\ \A m \in 1..j : m \in 1..Len(most)
        BY <1>6, <2>1
      <3> QED BY <1>4, <1>6, <3>1
    <2>2. CASE j > Len(most)
      <3>1. j - Len(most) \in 1..Len(buf) /\ En!Order[j] = buf[j - Len(most)]
        BY <1>3, <1>4, <1>5, <2>2, Behind
      <3>2. j - Len(most) = 1
        BY <1>5, <3>1
      <3> QED BY <1>5, <3>1, <3>2
    <2> QED BY <1>6, <2>1, <2>2
  <1>8. Len(En!Order) \in Nat \ {0}
    BY <1>6
  <1> QED BY <1>6, <1>7, <1>8

LEMMA EncFreed ==
  ASSUME En!EncoderAssumption, NEW k \in 0..Len(En!Order)
  PROVE  En!Freed(En!Obtained(k)) = {}
  <1>1. ASSUME NEW j \in 1..k
        PROVE  En!Order[j] \in En!Flushed(En!Obtained(k)) \cup {<<"ctx", 0>>}
    <2>1. j \in 1..Len(En!Order) /\ 1..j \subseteq 1..k
      BY EncOrder
    <2>2. En!Order[j] \in En!Obtained(k)
      BY DEF En!Obtained
    <2>3. CASE En!Order[j][1] \in {"tpool", "thread"} /\ \E m \in 1..j : En!Order[m] = <<"tpool", 0>>
      <3>1. <<"tpool", 0>> \in En!Obtained(k)
        BY <2>1, <2>3 DEF En!Obtained
      <3> QED BY <2>2, <2>3, <3>1 DEF En!Flushed
    <2>4. CASE En!Order[j][1] \in {"core", "sync_obj", "bs_buf"}
      BY <2>2, <2>4 DEF En!Flushed
    <2> QED BY <2>1, <2>3, <2>4, EncOrder
  <1> QED BY <1>1 DEF En!Freed, En!Obtained

----------------------------------------------------------------------------
(* A decoder's steps                                                       *)

\* What the types say of the constants and of the values.
LEMMA DecTypes ==
  ASSUME De!DecoderAssumption, De!TypeOK
  PROVE  /\ MaxFrames \in Nat \ {0} /\ Threads \in Nat \ {0} /\ serial \in Nat
         /\ \A p \in Pbus : p.kind = "FRAME" =>
              /\ p.real \in Seq(Nat) /\ p.hdr \in Seq(Nat) /\ p.label \in De!Labels
              /\ Len(p.real) \in Nat \ {0} /\ Len(p.hdr) \in {0, Len(p.real)}
              /\ DOMAIN p.real = 1..Len(p.real) /\ DOMAIN p.hdr = 1..Len(p.hdr)
              /\ p.hdr # << >> => Len(p.hdr) = Len(p.real)
         /\ todo \in Seq(Pbus) /\ Len(todo) \in Nat
         /\ todo # << >> => /\ Head(todo) \in Pbus /\ Tail(todo) \in Seq(Pbus)
                            /\ Len(Tail(todo)) = Len(todo) - 1 /\ Len(todo) >= 1
         /\ tile \in Seq(0..serial) /\ tile_cap \in Nat /\ DOMAIN tile = 1..tile_cap
         /\ \A k \in 1..tile_cap : tile[k] \in 0..serial
         /\ pos_tiles \in Seq(Nat) /\ pos_cap \in Nat /\ DOMAIN pos_tiles = 1..pos_cap
         /\ \A k \in 1..pos_cap : pos_tiles[k] \in Nat
         /\ out \in Seq(De!Labels) /\ Len(out) \in Nat
         /\ imgb \in De!Image \cup {De!NULL} /\ De!NULL \notin De!Image
         /\ DOMAIN refs = De!Image /\ DOMAIN pix = De!Image /\ DOMAIN md5 = De!Image
  <1>1. /\ MaxFrames \in Nat \ {0} /\ Threads \in Nat \ {0} /\ serial \in Nat
        /\ todo \in Seq(Pbus) /\ tile \in Seq(0..serial) /\ pos_tiles \in Seq(Nat)
        /\ out \in Seq(De!Labels) /\ Len(tile) = tile_cap /\ Len(pos_tiles) = pos_cap
        /\ imgb \in De!Image \cup {De!NULL}
        /\ DOMAIN refs = De!Image /\ DOMAIN pix = De!Image /\ DOMAIN md5 = De!Image
    BY DEF De!DecoderAssumption, De!TypeOK
  <1>2. ASSUME NEW p \in Pbus, p.kind = "FRAME"
        PROVE  /\ p.real \in Seq(Nat) /\ p.hdr \in Seq(Nat) /\ p.label \in De!Labels
               /\ Len(p.real) \in Nat \ {0} /\ Len(p.hdr) \in {0, Len(p.real)}
               /\ DOMAIN p.real = 1..Len(p.real) /\ DOMAIN p.hdr = 1..Len(p.hdr)
               /\ p.hdr # << >> => Len(p.hdr) = Len(p.real)
    <2>1. p.real \in Seq(Nat) /\ p.real # << >> /\ p.hdr \in Seq(Nat) /\ Len(p.hdr) \in {0, Len(p.real)}
      BY <1>2 DEF De!DecoderAssumption
    <2>2. p.label \in De!Labels
      BY <1>2 DEF De!Labels
    <2> QED BY <2>1, <2>2, EmptySeq, LenProperties
  <1>3. /\ Len(todo) \in Nat /\ tile_cap \in Nat /\ DOMAIN tile = 1..tile_cap
        /\ pos_cap \in Nat /\ DOMAIN pos_tiles = 1..pos_cap /\ Len(out) \in Nat
    BY <1>1, LenProperties
  <1>4. todo # << >> => /\ Head(todo) \in Pbus /\ Tail(todo) \in Seq(Pbus)
                        /\ Len(Tail(todo)) = Len(todo) - 1 /\ Len(todo) >= 1
    BY <1>1, HeadTailProperties, EmptySeq
  <1>5. /\ \A k \in 1..tile_cap : tile[k] \in 0..serial
        /\ \A k \in 1..pos_cap : pos_tiles[k] \in Nat
    BY <1>1, ElementOfSeq
  <1>6. De!NULL \notin De!Image
    BY DEF De!NULL, De!Image
  <1> QED BY <1>1, <1>2, <1>3, <1>4, <1>5, <1>6

\* A call returns and leaves everything as it is.
LEMMA DecReturn ==
  ASSUME De!DecoderAssumption, DecInv, InHand \/ pc = "pbu", imgb = De!NULL,
         pc' = "idle", todo' = << >>, res' \in {"OK", "MALFORMED", "INVALID", "OOM", "MAX"},
         UNCHANGED <<held, De!callVars, fh, De!keptVars, De!imgVars, use_hash, out>>
  PROVE  DecInv'
  <1>a. UNCHANGED <<held, call, given, limit, wanted, serial, fh, tile, tile_cap, num_tiles,
                    pos_tiles, pos_cap, imgb, refs, pix, md5, unhashed, use_hash, out>>
    BY DEF De!callVars, De!keptVars, De!imgVars
  <1>b. /\ Len(todo) \in Nat /\ Len(out) \in Nat /\ De!TypeOK
        /\ DecLoopInv /\ DecHoldInv /\ DecArrayInv /\ DecHashInv
    BY DecTypes DEF DecInv
  <1>1. De!TypeOK'
    <2>1. << >> \in Seq(Pbus)
      BY EmptySeq
    <2> QED BY <1>a, <1>b, <2>1 DEF De!TypeOK
  <1>2. DecLoopInv'
    <2>1. pc # "none" /\ Len(<< >>) = 0
      BY DEF InHand
    <2>2. call # "DECODE" => Len(out) + 0 <= 1
      BY <1>b, <2>1 DEF DecLoopInv
    <2> QED BY <1>a, <1>b, <2>1, <2>2 DEF DecLoopInv, InHand
  <1>3. DecHoldInv'
    <2>1. pc # "none"
      BY DEF InHand
    <2> QED BY <1>a, <1>b, <2>1 DEF DecHoldInv
  <1>4. DecArrayInv'
    BY <1>a, <1>b DEF DecArrayInv
  <1>5. DecHashInv'
    BY <1>a, <1>b DEF DecHashInv, De!HashIsThePictures
  <1> QED BY <1>1, <1>2, <1>3, <1>4, <1>5 DEF DecInv

\* The returns that undo nothing, and need not.
LEMMA DecReturns ==
  ASSUME De!DecoderAssumption, DecInv,
         \/ De!PbuBroken \/ De!NotAFrame \/ De!BadContent \/ De!NoRoomForFrame
         \/ De!AllRead \/ De!SetupRejects \/ De!HoldRejects \/ De!WantedTiles
  PROVE  DecInv'
  <1>1. res \in {"OK", "MALFORMED", "INVALID", "OOM", "MAX"} /\ DecHoldInv
    BY DEF DecInv, De!TypeOK
  <1>2. InHand \/ pc = "pbu"
    BY DEF De!PbuBroken, De!NotAFrame, De!BadContent, De!NoRoomForFrame, De!AllRead,
           De!SetupRejects, De!HoldRejects, De!WantedTiles, InHand
  <1>3. imgb = De!NULL
    BY <1>1 DEF De!PbuBroken, De!NotAFrame, De!BadContent, De!NoRoomForFrame, De!AllRead,
                De!SetupRejects, De!HoldRejects, De!WantedTiles, DecHoldInv
  <1>4. pc' = "idle" /\ todo' = << >> /\ res' \in {"OK", "MALFORMED", "INVALID", "OOM", "MAX"}
    BY <1>1 DEF De!PbuBroken, De!NotAFrame, De!BadContent, De!NoRoomForFrame, De!AllRead,
                De!SetupRejects, De!HoldRejects, De!WantedTiles, De!Fail
  <1>5. UNCHANGED <<held, De!callVars, fh, De!keptVars, De!imgVars, use_hash, out>>
    BY DEF De!PbuBroken, De!NotAFrame, De!BadContent, De!NoRoomForFrame, De!AllRead,
           De!SetupRejects, De!HoldRejects, De!WantedTiles, De!Same
  <1> QED BY <1>2, <1>3, <1>4, <1>5, DecReturn

LEMMA DecCreate ==
  ASSUME De!DecoderAssumption, DecInv,
         De!Create \/ \E k \in 0..(Len(De!Order) - 1) : De!CreateFails(k)
  PROVE  DecInv'
  <1>a. /\ pc = "none" /\ pc' \in {"none", "idle"} /\ res' \in {"OK", "OOM"}
        /\ UNCHANGED <<call, limit, wanted, serial, refs, pix, md5, unhashed, todo, fh, tile, tile_cap,
                       num_tiles, pos_tiles, pos_cap, imgb, use_hash>>
    BY DEF De!Create, De!CreateFails, De!Outside, De!keptVars
  <1>b. out' = out \/ out' = << >>
    BY DEF De!Create, De!CreateFails
  <1>c. held' = IF pc' = "none" THEN {} ELSE De!Obtained(Len(De!Order))
    <2>1. CASE De!Create
      BY <2>1 DEF De!Create
    <2>2. ASSUME NEW k \in 0..(Len(De!Order) - 1), De!CreateFails(k)
          PROVE  held' = IF pc' = "none" THEN {} ELSE De!Obtained(Len(De!Order))
      <3>1. k \in 0..Len(De!Order)
        BY DecOrder
      <3>2. held' = {} /\ pc' = "none"
        BY <2>2, <3>1, DecFreed DEF De!CreateFails
      <3> QED BY <3>2
    <2> QED BY <2>1, <2>2
  <1>d. /\ Len(todo) \in Nat /\ Len(out) \in Nat /\ De!TypeOK /\ MaxFrames \in Nat
        /\ DecLoopInv /\ DecHoldInv /\ DecArrayInv /\ DecHashInv
    BY DecTypes DEF DecInv
  <1>e. Len(out') <= MaxFrames /\ out' \in Seq(De!Labels)
    <2>1. Len(out) <= MaxFrames /\ out \in Seq(De!Labels)
      BY <1>d DEF De!TypeOK
    <2>2. << >> \in Seq(De!Labels) /\ Len(<< >>) = 0
      BY EmptySeq
    <2>3. 0 <= MaxFrames
      BY <1>d
    <2> QED BY ONLY <1>b, <2>1, <2>2, <2>3
  <1>1. De!TypeOK'
    BY <1>a, <1>d, <1>e DEF De!TypeOK
  <1>2. DecLoopInv'
    <2>1. call # "DECODE" /\ pc' = "idle" => Len(out') + Len(todo) <= 1
      <3>1. pc' = "idle" => out' = << >>
        BY <1>a DEF De!Create, De!CreateFails
      <3>2. todo = << >> /\ Len(<< >>) = 0
        BY <1>a, <1>d DEF DecLoopInv
      <3> QED BY <3>1, <3>2
    <2> QED BY <1>a, <1>d, <2>1 DEF DecLoopInv, InHand
  <1>3. DecHoldInv'
    BY <1>a, <1>c, <1>d DEF DecHoldInv
  <1>4. DecArrayInv'
    BY <1>a, <1>d DEF DecArrayInv
  <1>5. DecHashInv'
    <2>1. imgb' = De!NULL
      BY <1>a, <1>d DEF DecHoldInv
    <2>2. out' = << >> \/ (out' = out /\ pc' = "none")
      BY <1>a DEF De!Create, De!CreateFails
    <2>3. DOMAIN << >> = {}
      OBVIOUS
    <2>4. ASSUME NEW k \in DOMAIN out'
          PROVE  k \notin unhashed /\ pc' = "none"
      BY <1>d, <2>2, <2>3 DEF DecHashInv, De!HashIsThePictures
    <2> QED BY <1>a, <1>d, <2>1, <2>4 DEF DecHashInv, De!HashIsThePictures
  <1> QED BY <1>1, <1>2, <1>3, <1>4, <1>5 DEF DecInv

LEMMA DecDelete ==
  ASSUME De!DecoderAssumption, DecInv, De!Delete
  PROVE  DecInv'
  <1>a. /\ pc = "idle" /\ pc' = "none" /\ num_tiles' = 0 /\ imgb' = De!NULL
        /\ tile' = << >> /\ tile_cap' = 0 /\ pos_tiles' = << >> /\ pos_cap' = 0
        /\ UNCHANGED <<call, limit, wanted, serial, refs, pix, md5, unhashed, out, todo, res>>
    BY DEF De!Delete, De!Outside, De!NULL
  <1>b. De!TypeOK /\ DecLoopInv /\ DecHoldInv /\ DecArrayInv /\ DecHashInv
    BY DEF DecInv
  <1>c. held' = {}
    <2>1. held = De!Obtained(Len(De!Order)) /\ Len(De!Order) \in 0..Len(De!Order)
      BY <1>a, <1>b, DecOrder DEF DecHoldInv
    <2> QED BY <2>1, DecFreed DEF De!Delete
  <1>1. De!TypeOK'
    <2>1. << >> \in Seq(Nat) /\ << >> \in Seq(0..serial) /\ Len(<< >>) = 0
      BY EmptySeq
    <2> QED BY <1>a, <1>b, <2>1 DEF De!TypeOK
  <1>2. DecLoopInv'
    BY <1>a, <1>b DEF DecLoopInv, InHand
  <1>3. DecHoldInv'
    BY <1>a, <1>b, <1>c DEF DecHoldInv
  <1>4. DecArrayInv'
    BY <1>a DEF DecArrayInv
  <1>5. DecHashInv'
    BY <1>a, <1>b DEF DecHashInv, De!HashIsThePictures
  <1> QED BY <1>1, <1>2, <1>3, <1>4, <1>5 DEF DecInv

\* The caller passes PBUs, or flips the setting of the hash.
LEMMA DecCalled ==
  ASSUME De!DecoderAssumption, DecInv,
         \/ \E u \in CodedUnits, k \in Limits : De!Decode(u, k)
         \/ \E p \in Pbus : De!DecodeFrame(p)
         \/ \E p \in Pbus : p.kind = "FRAME" /\
              \E w \in SUBSET DOMAIN p.real : De!DecodeTiles(p, w)
  PROVE  DecInv'
  <1>a. /\ pc = "idle" /\ pc' = "pbu" /\ serial' = serial + 1 /\ res' = "OK"
        /\ out' = << >> /\ call' \in {"DECODE", "FRAME", "TILES"}
        /\ UNCHANGED <<held, fh, tile, tile_cap, num_tiles, pos_tiles, pos_cap,
                       imgb, refs, pix, md5, unhashed, use_hash>>
    BY DEF De!Decode, De!DecodeFrame, De!DecodeTiles, De!Enter, De!keptVars, De!imgVars
  <1>b. /\ De!TypeOK /\ DecLoopInv /\ DecHoldInv /\ DecArrayInv /\ DecHashInv
        /\ serial \in Nat /\ MaxFrames \in Nat
    BY DecTypes DEF DecInv
  <1>c. /\ todo' \in Seq(Pbus)
        /\ call' # "DECODE" => Len(todo') = 1
        /\ call' # "TILES" => wanted' = {}
    <2>1. CASE \E u \in CodedUnits, k \in Limits : De!Decode(u, k)
      BY <2>1 DEF De!Decode, De!Enter, De!DecoderAssumption
    <2>2. CASE \/ \E p \in Pbus : De!DecodeFrame(p)
               \/ \E p \in Pbus : p.kind = "FRAME" /\
                    \E w \in SUBSET DOMAIN p.real : De!DecodeTiles(p, w)
      <3>1. PICK p \in Pbus : todo' = <<p>> /\ (call' # "TILES" => wanted' = {})
        BY <2>2 DEF De!DecodeFrame, De!DecodeTiles, De!Enter
      <3>2. <<p>> \in Seq(Pbus) /\ Len(<<p>>) = 1
        OBVIOUS
      <3> QED BY <3>1, <3>2
    <2> QED BY <2>1, <2>2
  <1>1. De!TypeOK'
    <2>1. << >> \in Seq(De!Labels) /\ Len(<< >>) = 0
      BY EmptySeq
    <2>2. tile \in Seq(0..(serial + 1)) /\ serial + 1 \in Nat
      <3>1. 0..serial \subseteq 0..(serial + 1) /\ tile \in Seq(0..serial)
        BY <1>b DEF De!TypeOK
      <3> QED BY <1>b, <3>1, SeqMonotonic
    <2> QED BY <1>a, <1>b, <1>c, <2>1, <2>2 DEF De!TypeOK
  <1>2. DecLoopInv'
    <2>1. Len(out') = 0
      BY <1>a, EmptySeq
    <2>2. call' # "DECODE" => Len(out') + Len(todo') <= 1
      <3> HAVE call' # "DECODE"
      <3>1. Len(todo') = 1
        BY <1>c
      <3> QED BY ONLY <2>1, <3>1
    <2> QED BY <1>a, <1>c, <2>2 DEF DecLoopInv, InHand
  <1>3. DecHoldInv'
    BY <1>a, <1>b DEF DecHoldInv
  <1>4. DecArrayInv'
    BY <1>a, <1>b DEF DecArrayInv
  <1>5. DecHashInv'
    <2>1. imgb' = De!NULL
      BY <1>a, <1>b DEF DecHoldInv
    <2>2. DOMAIN out' = {}
      BY <1>a
    <2> QED BY <1>a, <1>b, <2>1, <2>2 DEF DecHashInv, De!HashIsThePictures
  <1> QED BY <1>1, <1>2, <1>3, <1>4, <1>5 DEF DecInv

LEMMA DecConfig ==
  ASSUME De!DecoderAssumption, DecInv, De!Config
  PROVE  DecInv'
  <1>i. pc = "idle" /\ pc' = "idle"
    BY DEF De!Config
  <1>a. UNCHANGED <<held, pc, call, given, limit, wanted, serial, todo, fh, tile, tile_cap,
                    num_tiles, pos_tiles, pos_cap, imgb, refs, pix, md5, unhashed, out, res>>
    BY DEF De!Config, De!callVars, De!keptVars, De!imgVars
  <1>b. De!TypeOK /\ DecLoopInv /\ DecHoldInv /\ DecArrayInv /\ DecHashInv
    BY DEF DecInv
  <1>1. De!TypeOK'
    BY <1>a, <1>b DEF De!TypeOK
  <1>2. DecLoopInv'
    BY <1>a, <1>b DEF DecLoopInv, InHand
  <1>3. DecHoldInv'
    BY <1>a, <1>b DEF DecHoldInv
  <1>4. DecArrayInv'
    BY <1>a, <1>b DEF DecArrayInv, De!SizesAreThisFrames, De!DstIsThisCalls, De!Count
  <1>5. DecHashInv'
    BY <1>a, <1>b, <1>i DEF DecHashInv, De!HashIsThePictures
  <1> QED BY <1>1, <1>2, <1>3, <1>4, <1>5 DEF DecInv

LEMMA DecOtherPbu ==
  ASSUME De!DecoderAssumption, DecInv, De!OtherPbu
  PROVE  DecInv'
  <1>a. /\ pc = "pbu" /\ todo # << >> /\ todo' = Tail(todo) /\ call = "DECODE"
        /\ UNCHANGED <<held, pc, call, given, limit, wanted, serial, fh, tile, tile_cap,
                       num_tiles, pos_tiles, pos_cap, imgb, refs, pix, md5, unhashed, use_hash, out, res>>
    BY DEF De!OtherPbu, De!Same, De!callVars, De!keptVars, De!imgVars
  <1>b. /\ De!TypeOK /\ DecLoopInv /\ DecHoldInv /\ DecArrayInv /\ DecHashInv
        /\ Tail(todo) \in Seq(Pbus)
    BY <1>a, DecTypes DEF DecInv
  <1>1. De!TypeOK'
    BY <1>a, <1>b DEF De!TypeOK
  <1>2. DecLoopInv'
    BY <1>a, <1>b DEF DecLoopInv, InHand
  <1>3. DecHoldInv'
    BY <1>a, <1>b DEF DecHoldInv
  <1>4. DecArrayInv'
    BY <1>a, <1>b DEF DecArrayInv
  <1>5. DecHashInv'
    BY <1>a, <1>b DEF DecHashInv, De!HashIsThePictures
  <1> QED BY <1>1, <1>2, <1>3, <1>4, <1>5 DEF DecInv

LEMMA AsSeq ==
  ASSUME NEW S, NEW n \in Nat, NEW f \in [1..n -> S]
  PROVE  f \in Seq(S) /\ Len(f) = n
  BY SeqDef, LenProperties

\* The sizes of a header are those the array then has, if it can take them.
LEMMA Collects ==
  ASSUME NEW f, f.hdr \in Seq(Nat), NEW n \in Nat, NEW a \in [1..n -> Nat]
  PROVE  /\ De!Collected(f, a, n) \in [1..n -> Nat]
         /\ n >= Len(f.hdr) => \A k \in DOMAIN f.hdr : De!Collected(f, a, n)[k] = f.hdr[k]
  <1>1. /\ DOMAIN f.hdr = 1..Len(f.hdr) /\ Len(f.hdr) \in Nat
        /\ \A k \in DOMAIN f.hdr : f.hdr[k] \in Nat
        /\ f.hdr = << >> => Len(f.hdr) = 0
    BY LenProperties, ElementOfSeq, EmptySeq
  <1>2. CASE f.hdr # << >> /\ n >= Len(f.hdr)
    <2>1. De!Collected(f, a, n) =
            [k \in 1..n |-> IF k \in DOMAIN f.hdr THEN f.hdr[k] ELSE a[k]]
      BY <1>2 DEF De!Collected
    <2>2. DOMAIN f.hdr \subseteq 1..n
      BY <1>1, <1>2
    <2> QED BY <1>1, <2>1, <2>2
  <1>3. CASE ~(f.hdr # << >> /\ n >= Len(f.hdr))
    <2>1. De!Collected(f, a, n) = a
      BY <1>3 DEF De!Collected
    <2>2. n >= Len(f.hdr) => DOMAIN f.hdr = {}
      BY <1>1, <1>3
    <2> QED BY <2>1, <2>2
  <1> QED BY <1>2, <1>3

LEMMA DecReadHeader ==
  ASSUME De!DecoderAssumption, DecInv, De!ReadHeader
  PROVE  DecInv'
  <1>a. /\ pc = "pbu" /\ todo # << >> /\ fh' = Head(todo) /\ Head(todo).kind = "FRAME"
        /\ call = "DECODE" => Len(out) < MaxFrames
        /\ pos_tiles' = De!Collected(Head(todo), pos_tiles, pos_cap)
        /\ UNCHANGED <<held, call, given, limit, wanted, serial, tile, tile_cap,
                       num_tiles, pos_cap, imgb, refs, pix, md5, unhashed, use_hash, out>>
        /\ \/ pc' = "idle" /\ todo' = << >> /\ res' = "MALFORMED"
           \/ pc' = "setup" /\ todo' = todo /\ res' = res
    BY DEF De!ReadHeader, De!Fail, De!Same, De!callVars, De!imgVars, De!Pbu, De!nfrms
  <1>b. De!TypeOK /\ DecLoopInv /\ DecHoldInv /\ DecArrayInv /\ DecHashInv
    BY DEF DecInv
  <1>c. /\ Head(todo) \in Pbus /\ Head(todo).hdr \in Seq(Nat) /\ Len(todo) \in Nat /\ Len(todo) >= 1
        /\ Len(out) \in Nat /\ MaxFrames \in Nat \ {0} /\ pos_cap \in Nat /\ pos_tiles \in [1..pos_cap -> Nat]
    <2>1. pos_tiles \in [1..pos_cap -> Nat]
      BY <1>b, LenProperties DEF De!TypeOK
    <2> QED BY <1>a, <1>b, <2>1, DecTypes
  <1>d. /\ pos_tiles' \in [1..pos_cap -> Nat]
        /\ pos_cap >= Len(Head(todo).hdr) =>
             \A k \in DOMAIN Head(todo).hdr : pos_tiles'[k] = Head(todo).hdr[k]
    BY <1>a, <1>c, Collects
  <1>e. pos_tiles' \in Seq(Nat) /\ Len(pos_tiles') = pos_cap
    BY <1>c, <1>d, AsSeq
  <1>1. De!TypeOK'
    <2>1. << >> \in Seq(Pbus)
      BY EmptySeq
    <2> QED BY <1>a, <1>b, <1>e, <2>1 DEF De!TypeOK
  <1>2. DecLoopInv'
    <2>1. call # "DECODE" => Len(out) + Len(todo) <= 1
      BY <1>a, <1>b DEF DecLoopInv
    <2>2. Len(out) < MaxFrames
      BY <1>a, <1>c, <2>1
    <2>3. CASE pc' = "idle"
      <3>1. Len(<< >>) = 0 /\ todo' = << >>
        BY <1>a, <2>3, EmptySeq
      <3>2. call # "DECODE" => Len(out) + 0 <= 1
        BY <1>c, <2>1
      <3> QED BY <1>a, <1>b, <2>3, <3>1, <3>2 DEF DecLoopInv, InHand
    <2>4. CASE pc' = "setup"
      <3>1. todo' = todo
        BY <1>a, <2>4
      <3> QED BY <1>a, <1>b, <1>c, <2>1, <2>2, <2>4, <3>1 DEF DecLoopInv, InHand
    <2> QED BY <1>a, <2>3, <2>4
  <1>3. DecHoldInv'
    BY <1>a, <1>b DEF DecHoldInv
  <1>4. DecArrayInv'
    BY <1>a, <1>b, <1>d DEF DecArrayInv
  <1>5. DecHashInv'
    BY <1>a, <1>b DEF DecHashInv, De!HashIsThePictures
  <1> QED BY <1>1, <1>2, <1>3, <1>4, <1>5 DEF DecInv

LEMMA DecSetupNoMemory ==
  ASSUME De!DecoderAssumption, DecInv, De!SetupNoMemory
  PROVE  DecInv'
  <1>a. /\ pc = "setup" /\ tile' = << >> /\ tile_cap' = 0 /\ num_tiles' = Len(fh.real)
        /\ pc' = "idle" /\ res' = "OOM" /\ todo' = << >>
        /\ UNCHANGED <<held, call, given, limit, wanted, serial, fh, pos_tiles, pos_cap,
                       imgb, refs, pix, md5, unhashed, use_hash, out>>
    BY DEF De!SetupNoMemory, De!Fail, De!Same, De!callVars, De!imgVars, De!CapCleared, De!Count
  <1>b. De!TypeOK /\ DecLoopInv /\ DecHoldInv /\ DecArrayInv /\ DecHashInv
    BY DEF DecInv
  <1>c. Len(todo) \in Nat /\ Len(out) \in Nat /\ Len(fh.real) \in Nat
    <2>1. fh \in Pbus /\ fh.kind = "FRAME"
      BY <1>a, <1>b DEF DecLoopInv, InHand
    <2> QED BY <1>b, <2>1, DecTypes
  <1>1. De!TypeOK'
    <2>1. << >> \in Seq(Pbus) /\ << >> \in Seq(0..serial) /\ Len(<< >>) = 0
      BY EmptySeq
    <2> QED BY <1>a, <1>b, <2>1 DEF De!TypeOK
  <1>2. DecLoopInv'
    <2>1. Len(<< >>) = 0
      BY EmptySeq
    <2>2. call # "DECODE" => Len(out) + 0 <= 1
      BY <1>a, <1>b, <1>c DEF DecLoopInv
    <2> QED BY <1>a, <1>b, <2>1, <2>2 DEF DecLoopInv, InHand
  <1>3. DecHoldInv'
    BY <1>a, <1>b DEF DecHoldInv
  <1>4. DecArrayInv'
    BY <1>a, <1>c DEF DecArrayInv
  <1>5. DecHashInv'
    BY <1>a, <1>b DEF DecHashInv, De!HashIsThePictures
  <1> QED BY <1>1, <1>2, <1>3, <1>4, <1>5 DEF DecInv

LEMMA DecSetup ==
  ASSUME De!DecoderAssumption, DecInv, De!Setup
  PROVE  DecInv'
  <1>a. /\ pc = "setup" /\ num_tiles' = Len(fh.real)
        /\ tile_cap' = IF Len(fh.real) > tile_cap THEN Len(fh.real) ELSE tile_cap
        /\ \/ tile' = De!Arranged(wanted) /\ pc' = "sizes" /\ res' = res /\ todo' = todo
           \/ /\ \E own \in SUBSET wanted : tile' = De!Arranged(own)
              /\ pc' = "idle" /\ res' = "INVALID" /\ todo' = << >>
        /\ UNCHANGED <<held, call, given, limit, wanted, serial, fh, pos_tiles, pos_cap,
                       imgb, refs, pix, md5, unhashed, use_hash, out>>
    BY DEF De!Setup, De!Fail, De!Same, De!callVars, De!imgVars, De!Count
  <1>b. De!TypeOK /\ DecLoopInv /\ DecHoldInv /\ DecArrayInv /\ DecHashInv
    BY DEF DecInv
  <1>c. /\ fh \in Pbus /\ fh.kind = "FRAME"
        /\ Len(todo) \in Nat /\ Len(out) \in Nat /\ Len(fh.real) \in Nat \ {0}
        /\ serial \in Nat /\ tile_cap \in Nat /\ DOMAIN tile = 1..tile_cap
        /\ \A k \in 1..tile_cap : tile[k] \in 0..serial
    <2>1. fh \in Pbus /\ fh.kind = "FRAME"
      BY <1>a, <1>b DEF DecLoopInv, InHand
    <2> QED BY <1>b, <2>1, DecTypes
  <1>d. PICK own \in SUBSET wanted : tile' = De!Arranged(own) /\ (pc' = "sizes" => own = wanted)
    BY <1>a
  <1>e. tile' = [k \in 1..tile_cap' |->
                   IF k \in own THEN serial ELSE IF k > Len(fh.real) THEN tile[k] ELSE 0]
    <2>1. (IF Len(fh.real) > tile_cap THEN 1..Len(fh.real) ELSE DOMAIN tile) = 1..tile_cap'
      BY <1>a, <1>c
    <2> QED BY <1>d, <2>1 DEF De!Arranged, De!Untouched, De!Count, De!NULL
  <1>f. tile_cap' \in Nat /\ Len(fh.real) <= tile_cap'
    BY <1>a, <1>c
  <1>g. tile' \in Seq(0..serial) /\ Len(tile') = tile_cap'
    <2>1. ASSUME NEW k \in 1..tile_cap', k > Len(fh.real)
          PROVE  tile[k] \in 0..serial
      BY <1>a, <1>c, <2>1
    <2>2. serial \in 0..serial /\ 0 \in 0..serial
      BY <1>c
    <2>3. tile' \in [1..tile_cap' -> 0..serial]
      BY <1>e, <2>1, <2>2
    <2> QED BY <1>f, <2>3, AsSeq
  <1>1. De!TypeOK'
    <2>1. << >> \in Seq(Pbus)
      BY EmptySeq
    <2> QED BY <1>a, <1>b, <1>g, <2>1 DEF De!TypeOK
  <1>2. DecLoopInv'
    <2>1. Len(<< >>) = 0
      BY EmptySeq
    <2>2. call # "DECODE" => Len(out) + 0 <= 1
      BY <1>a, <1>b, <1>c DEF DecLoopInv
    <2> QED BY <1>a, <1>b, <2>1, <2>2 DEF DecLoopInv, InHand
  <1>3. DecHoldInv'
    BY <1>a, <1>b DEF DecHoldInv
  <1>4. DecArrayInv'
    <2>1. ASSUME pc' = "sizes"
          PROVE  De!DstIsThisCalls'
      <3>1. \A k \in 1..Len(fh.real) :
              tile'[k] = IF k \in wanted THEN serial ELSE 0
        BY <1>c, <1>d, <1>e, <1>f, <2>1
      <3>2. call # "TILES" => wanted = {}
        BY <1>b DEF DecLoopInv
      <3> QED BY <1>a, <3>1, <3>2 DEF De!DstIsThisCalls, De!NULL
    <2> QED BY <1>a, <1>b, <1>c, <1>f, <2>1 DEF DecArrayInv, De!Count
  <1>5. DecHashInv'
    BY <1>a, <1>b DEF DecHashInv, De!HashIsThePictures
  <1> QED BY <1>1, <1>2, <1>3, <1>4, <1>5 DEF DecInv

LEMMA DecSizesNoMemory ==
  ASSUME De!DecoderAssumption, DecInv, De!SizesNoMemory
  PROVE  DecInv'
  <1>a. /\ pc = "sizes" /\ pos_tiles' = << >> /\ pos_cap' = 0
        /\ pc' = "idle" /\ res' = "OOM" /\ todo' = << >>
        /\ UNCHANGED <<held, call, given, limit, wanted, serial, fh, tile, tile_cap, num_tiles,
                       imgb, refs, pix, md5, unhashed, use_hash, out>>
    BY DEF De!SizesNoMemory, De!Fail, De!Same, De!callVars, De!imgVars
  <1>b. /\ De!TypeOK /\ DecLoopInv /\ DecHoldInv /\ DecArrayInv /\ DecHashInv
        /\ Len(todo) \in Nat /\ Len(out) \in Nat
    BY DecTypes DEF DecInv
  <1>1. De!TypeOK'
    <2>1. << >> \in Seq(Pbus) /\ << >> \in Seq(Nat) /\ Len(<< >>) = 0
      BY EmptySeq
    <2> QED BY <1>a, <1>b, <2>1 DEF De!TypeOK
  <1>2. DecLoopInv'
    <2>1. Len(<< >>) = 0
      BY EmptySeq
    <2>2. call # "DECODE" => Len(out) + 0 <= 1
      BY <1>a, <1>b DEF DecLoopInv
    <2> QED BY <1>a, <1>b, <2>1, <2>2 DEF DecLoopInv, InHand
  <1>3. DecHoldInv'
    BY <1>a, <1>b DEF DecHoldInv
  <1>4. DecArrayInv'
    BY <1>a, <1>b DEF DecArrayInv
  <1>5. DecHashInv'
    BY <1>a, <1>b DEF DecHashInv, De!HashIsThePictures
  <1> QED BY <1>1, <1>2, <1>3, <1>4, <1>5 DEF DecInv

LEMMA DecSizes ==
  ASSUME De!DecoderAssumption, DecInv, De!Sizes
  PROVE  DecInv'
  <1>a. /\ pc = "sizes" /\ pc' \in {"tiles", "hold"} /\ (pc' = "tiles" <=> call = "TILES")
        /\ UNCHANGED <<held, call, given, limit, wanted, serial, todo, fh, tile, tile_cap, num_tiles,
                       imgb, refs, pix, md5, unhashed, use_hash, out, res>>
    BY DEF De!Sizes, De!Same, De!callVars, De!imgVars
  <1>b. De!TypeOK /\ DecLoopInv /\ DecHoldInv /\ DecArrayInv /\ DecHashInv
    BY DEF DecInv
  <1>c. /\ fh \in Pbus /\ fh.kind = "FRAME" /\ fh.hdr \in Seq(Nat)
        /\ DOMAIN fh.hdr = 1..Len(fh.hdr) /\ Len(fh.real) \in Nat
        /\ fh.hdr # << >> => Len(fh.hdr) = Len(fh.real)
        /\ Len(fh.hdr) \in {0, Len(fh.real)}
        /\ num_tiles = Len(fh.real) /\ pos_cap \in Nat /\ pos_tiles \in [1..pos_cap -> Nat]
    <2>1. fh \in Pbus /\ fh.kind = "FRAME"
      BY <1>a, <1>b DEF DecLoopInv, InHand
    <2>2. num_tiles = Len(fh.real)
      BY <1>a, <1>b DEF DecArrayInv, De!Count
    <2>3. pos_tiles \in [1..pos_cap -> Nat]
      BY <1>b, LenProperties DEF De!TypeOK
    <2> QED BY <1>b, <2>1, <2>2, <2>3, DecTypes
  <1>d. /\ pos_tiles' \in Seq(Nat) /\ Len(pos_tiles') = pos_cap' /\ pos_cap' \in Nat
        /\ fh.hdr # << >> => /\ num_tiles <= pos_cap'
                             /\ \A k \in 1..num_tiles : pos_tiles'[k] = fh.hdr[k]
    <2>1. CASE De!Grown
      <3>1. PICK junk \in 1..2 :
              /\ pos_tiles' = De!Collected(fh, [k \in 1..num_tiles |-> junk], num_tiles)
              /\ pos_cap' = num_tiles
        BY <2>1 DEF De!Sizes, De!ReadAgain
      <3>2. [k \in 1..num_tiles |-> junk] \in [1..num_tiles -> Nat] /\ num_tiles \in Nat
        BY <1>c
      <3>3. /\ pos_tiles' \in [1..num_tiles -> Nat]
            /\ num_tiles >= Len(fh.hdr) => \A k \in DOMAIN fh.hdr : pos_tiles'[k] = fh.hdr[k]
        BY <1>c, <3>1, <3>2, Collects
      <3>4. pos_tiles' \in Seq(Nat) /\ Len(pos_tiles') = num_tiles
        BY <3>2, <3>3, AsSeq
      <3>5. fh.hdr # << >> => num_tiles >= Len(fh.hdr) /\ DOMAIN fh.hdr = 1..num_tiles
        BY <1>c, <3>2
      <3>6. fh.hdr # << >> => \A k \in 1..num_tiles : pos_tiles'[k] = fh.hdr[k]
        BY <3>3, <3>5
      <3>7. num_tiles <= pos_cap' /\ pos_cap' \in Nat
        BY <3>1, <3>2
      <3> QED BY ONLY <3>1, <3>4, <3>6, <3>7
    <2>2. CASE ~De!Grown
      <3>1. pos_tiles' = pos_tiles /\ pos_cap' = pos_cap
        BY <2>2 DEF De!Sizes
      <3>2. fh.hdr # << >> => num_tiles <= pos_cap
        BY <1>c, <2>2 DEF De!Grown
      <3>3. pos_cap >= Len(fh.hdr) => \A k \in DOMAIN fh.hdr : pos_tiles[k] = fh.hdr[k]
        BY <1>a, <1>b DEF DecArrayInv
      <3>4. pos_tiles \in Seq(Nat) /\ Len(pos_tiles) = pos_cap
        BY <1>b DEF De!TypeOK
      <3>5. fh.hdr # << >> => pos_cap >= Len(fh.hdr) /\ DOMAIN fh.hdr = 1..num_tiles
        BY <1>c, <3>2
      <3>6. fh.hdr # << >> => \A k \in 1..num_tiles : pos_tiles[k] = fh.hdr[k]
        BY <3>3, <3>5
      <3> QED BY <1>c, <3>1, <3>2, <3>4, <3>6
    <2> QED BY <2>1, <2>2
  <1>1. De!TypeOK'
    BY <1>a, <1>b, <1>d DEF De!TypeOK
  <1>2. DecLoopInv'
    BY <1>a, <1>b DEF DecLoopInv, InHand
  <1>3. DecHoldInv'
    BY <1>a, <1>b DEF DecHoldInv
  <1>4. DecArrayInv'
    <2>1. num_tiles = De!Count /\ num_tiles <= tile_cap /\ De!DstIsThisCalls
      BY <1>a, <1>b DEF DecArrayInv
    <2>2. De!DstIsThisCalls' /\ De!Count' = De!Count
      BY <1>a, <2>1 DEF De!DstIsThisCalls, De!Count
    <2>3. De!SizesAreThisFrames'
      BY <1>a, <1>d DEF De!SizesAreThisFrames
    <2>4. num_tiles \in Nat
      BY <1>b DEF DecArrayInv
    <2> QED BY <1>a, <1>d, <2>1, <2>2, <2>3, <2>4 DEF DecArrayInv
  <1>5. DecHashInv'
    BY <1>a, <1>b DEF DecHashInv, De!HashIsThePictures
  <1> QED BY <1>1, <1>2, <1>3, <1>4, <1>5 DEF DecInv

LEMMA DecHold ==
  ASSUME De!DecoderAssumption, DecInv, De!Hold
  PROVE  DecInv'
  <1>a. /\ pc = "hold" /\ pc' = "tiles" /\ imgb' = Len(out) + 1
        /\ refs' = [refs EXCEPT ![imgb'] = @ + 1]
        /\ UNCHANGED <<held, call, given, limit, wanted, serial, todo, fh, tile, tile_cap, num_tiles,
                       pos_tiles, pos_cap, pix, md5, unhashed, use_hash, out, res>>
    BY DEF De!Hold, De!Same, De!callVars, De!keptVars, De!nfrms
  <1>b. De!TypeOK /\ DecLoopInv /\ DecHoldInv /\ DecArrayInv /\ DecHashInv
    BY DEF DecInv
  <1>c. imgb = De!NULL /\ imgb' \in De!Image /\ imgb' # De!NULL
    <2>1. Len(out) \in Nat /\ Len(out) < MaxFrames /\ MaxFrames \in Nat
      BY <1>a, <1>b, DecTypes DEF DecLoopInv, InHand
    <2> QED BY <1>a, <1>b, <2>1 DEF DecHoldInv, De!Image, De!NULL
  <1>d. \A s \in De!Image : refs'[s] = IF imgb' = s THEN 1 ELSE 0
    <2>1. \A s \in De!Image : refs[s] = 0
      <3>1. De!NULL \notin De!Image
        BY <1>b, DecTypes
      <3> QED BY <1>b, <1>c, <3>1 DEF DecHoldInv
    <2>2. DOMAIN refs = De!Image
      BY <1>b, DecTypes
    <2> QED BY <1>a, <1>c, <2>1, <2>2
  <1>e. call # "TILES"
    BY <1>a, <1>b DEF DecHoldInv
  <1>1. De!TypeOK'
    <2>1. refs' \in [De!Image -> {0, 1}]
      <3>1. DOMAIN refs' = De!Image /\ refs' = [s \in DOMAIN refs' |-> refs'[s]]
        BY <1>a, <1>b, DecTypes
      <3> QED BY <1>d, <3>1
    <2> QED BY <1>a, <1>b, <1>c, <2>1 DEF De!TypeOK
  <1>2. DecLoopInv'
    BY <1>a, <1>b DEF DecLoopInv, InHand
  <1>3. DecHoldInv'
    BY <1>a, <1>b, <1>c, <1>d, <1>e DEF DecHoldInv
  <1>4. DecArrayInv'
    BY <1>a, <1>b DEF DecArrayInv, De!SizesAreThisFrames, De!DstIsThisCalls, De!Count
  <1>5. DecHashInv'
    BY <1>a, <1>b DEF DecHashInv, De!HashIsThePictures
  <1> QED BY <1>1, <1>2, <1>3, <1>4, <1>5 DEF DecInv

LEMMA DecFrameTiles ==
  ASSUME De!DecoderAssumption, DecInv, De!FrameTiles \/ De!HashRefused
  PROVE  DecInv'
  <1>a. /\ pc = "tiles" /\ call # "TILES" /\ imgb' = De!NULL
        /\ refs' = [refs EXCEPT ![imgb] = @ - 1]
        /\ UNCHANGED <<held, call, given, limit, wanted, serial, fh, tile, tile_cap, num_tiles,
                       pos_tiles, pos_cap, use_hash, out>>
        /\ \/ pc' = "tail" /\ res' = res /\ todo' = todo
           \/ pc' = "idle" /\ res' \in {"MALFORMED", "INVALID"} /\ todo' = << >>
    BY DEF De!FrameTiles, De!HashRefused, De!Released, De!Fail, De!Same, De!callVars, De!keptVars, De!NULL
  <1>b. De!TypeOK /\ DecLoopInv /\ DecHoldInv /\ DecArrayInv /\ DecHashInv
    BY DEF DecInv
  <1>c. imgb \in De!Image /\ De!NULL \notin De!Image
    BY <1>a, <1>b, DecTypes DEF DecHoldInv
  <1>d. /\ fh \in Pbus /\ fh.kind = "FRAME" /\ fh.label \in De!Labels
        /\ Len(todo) \in Nat /\ Len(out) \in Nat
    <2>1. fh \in Pbus /\ fh.kind = "FRAME"
      BY <1>a, <1>b DEF DecLoopInv, InHand
    <2> QED BY <1>b, <2>1, DecTypes
  <1>e. \A s \in De!Image : refs'[s] = 0
    <2>1. DOMAIN refs = De!Image
      BY <1>b, DecTypes
    <2> QED BY <1>a, <1>b, <1>c, <2>1 DEF DecHoldInv
  <1>f. \/ \E ok \in BOOLEAN :
              /\ pix' = [pix EXCEPT ![imgb] = IF ok THEN fh.label ELSE De!NULL]
              /\ md5' = [md5 EXCEPT ![imgb] = IF ok /\ use_hash THEN fh.label ELSE De!NULL]
              /\ unhashed' = unhashed \ {imgb}
              /\ ok <=> pc' = "tail"
        \/ /\ pix' = [pix EXCEPT ![imgb] = fh.label] /\ md5' = md5
           /\ unhashed' = unhashed \cup {imgb} /\ pc' = "idle"
    <2>1. CASE De!HashRefused
      BY <2>1 DEF De!HashRefused, De!Fail
    <2>2. CASE De!FrameTiles
      <3> DEFINE ok == De!Decodes
      <3>1. /\ pix' = [pix EXCEPT ![imgb] = IF ok THEN fh.label ELSE De!NULL]
            /\ md5' = [md5 EXCEPT ![imgb] = IF ok /\ use_hash THEN fh.label ELSE De!NULL]
            /\ unhashed' = unhashed \ {imgb}
            /\ IF ok THEN pc' = "tail" ELSE pc' = "idle"
        BY <2>2 DEF De!FrameTiles, De!Hash, De!NULL, De!Fail
      <3> QED BY <3>1
    <2> QED BY <2>1, <2>2
  <1>1. De!TypeOK'
    <2>1. << >> \in Seq(Pbus)
      BY EmptySeq
    <2>2. refs' \in [De!Image -> {0, 1}]
      <3>1. DOMAIN refs' = De!Image /\ refs' = [s \in DOMAIN refs' |-> refs'[s]]
        BY <1>a, <1>b, DecTypes
      <3> QED BY <1>e, <3>1
    <2>3. /\ pix' \in [De!Image -> De!Labels \cup {De!NULL}]
          /\ md5' \in [De!Image -> De!Labels \cup {De!NULL}]
          /\ unhashed' \subseteq De!Image
      <3>1. /\ pix \in [De!Image -> De!Labels \cup {De!NULL}]
            /\ md5 \in [De!Image -> De!Labels \cup {De!NULL}]
            /\ unhashed \subseteq De!Image
        BY <1>b DEF De!TypeOK
      <3> QED BY <1>c, <1>d, <1>f, <3>1
    <2> QED BY <1>a, <1>b, <1>d, <2>1, <2>2, <2>3 DEF De!TypeOK
  <1>2. DecLoopInv'
    <2>1. Len(<< >>) = 0
      BY EmptySeq
    <2>2. call # "DECODE" => Len(out) + 0 <= 1
      BY <1>a, <1>b, <1>d DEF DecLoopInv
    <2> QED BY <1>a, <1>b, <2>1, <2>2 DEF DecLoopInv, InHand
  <1>3. DecHoldInv'
    BY <1>a, <1>b, <1>c, <1>e DEF DecHoldInv
  <1>4. DecArrayInv'
    BY <1>a, <1>b DEF DecArrayInv
  <1>5. DecHashInv'
    <2>1. DOMAIN pix = De!Image /\ DOMAIN md5 = De!Image /\ DOMAIN out = 1..Len(out)
      BY <1>b, DecTypes, LenProperties DEF De!TypeOK
    <2>2. imgb = Len(out) + 1 /\ imgb \notin DOMAIN out
      BY <1>b, <1>c, <1>d, <2>1 DEF DecHashInv
    <2>3. \A s \in De!Image \ unhashed' : md5'[s] # De!NULL => md5'[s] = pix'[s]
      BY <1>b, <1>c, <1>f, <2>1 DEF DecHashInv, De!HashIsThePictures
    <2>4. \A k \in DOMAIN out : k \notin unhashed' /\ md5'[k] = md5[k]
      BY <1>b, <1>c, <1>f, <2>1, <2>2 DEF DecHashInv, De!HashIsThePictures
    <2>5. De!HashIsThePictures'
      BY <1>a, <1>b, <2>3, <2>4 DEF DecHashInv, De!HashIsThePictures
    <2>6. pc' = "tail" =>
            /\ imgb \notin unhashed' /\ md5'[imgb] = IF use_hash THEN fh.label ELSE De!NULL
      BY <1>c, <1>f, <2>1
    <2> QED BY <1>a, <2>2, <2>5, <2>6 DEF DecHashInv
  <1> QED BY <1>1, <1>2, <1>3, <1>4, <1>5 DEF DecInv

LEMMA DecFrameTail ==
  ASSUME De!DecoderAssumption, DecInv, De!FrameTail
  PROVE  DecInv'
  <1>a. /\ pc = "tail"
        /\ \/ pc' = "pbu" /\ res' = res /\ todo' = Tail(todo) /\ out' = Append(out, fh.label)
           \/ pc' = "idle" /\ res' = "MALFORMED" /\ todo' = << >>
              /\ out' = IF call = "DECODE" THEN Append(out, fh.label) ELSE out
        /\ UNCHANGED <<held, call, given, limit, wanted, serial, fh, tile, tile_cap, num_tiles,
                       pos_tiles, pos_cap, imgb, refs, pix, md5, unhashed, use_hash>>
    BY DEF De!FrameTail, De!Fail, De!callVars, De!keptVars, De!imgVars, De!Reported
  <1>b. De!TypeOK /\ DecLoopInv /\ DecHoldInv /\ DecArrayInv /\ DecHashInv
    BY DEF DecInv
  <1>c. /\ fh \in Pbus /\ fh.kind = "FRAME" /\ fh.label \in De!Labels /\ todo # << >>
        /\ Len(todo) \in Nat /\ Len(out) \in Nat /\ Len(out) < MaxFrames /\ MaxFrames \in Nat
        /\ out \in Seq(De!Labels)
    <2>1. fh \in Pbus /\ fh.kind = "FRAME" /\ todo # << >> /\ Len(out) < MaxFrames
      BY <1>a, <1>b DEF DecLoopInv, InHand
    <2> QED BY <1>b, <2>1, DecTypes
  <1>d. Append(out, fh.label) \in Seq(De!Labels) /\ Len(Append(out, fh.label)) = Len(out) + 1
    BY <1>c
  <1>e. Tail(todo) \in Seq(Pbus) /\ Len(Tail(todo)) = Len(todo) - 1
    BY <1>b, <1>c, DecTypes
  <1>1. De!TypeOK'
    <2>1. << >> \in Seq(Pbus)
      BY EmptySeq
    <2>2. Len(out') <= MaxFrames /\ out' \in Seq(De!Labels)
      <3>1. Len(out) <= MaxFrames /\ Len(out) + 1 <= MaxFrames
        BY <1>c
      <3> QED BY <1>a, <1>c, <1>d, <3>1
    <2> QED BY <1>a, <1>b, <1>e, <2>1, <2>2 DEF De!TypeOK
  <1>2. DecLoopInv'
    <2>1. Len(<< >>) = 0
      BY EmptySeq
    <2>2. call # "DECODE" => Len(out) + Len(todo) <= 1
      BY <1>a, <1>b DEF DecLoopInv
    <2>3. ASSUME call # "DECODE"
          PROVE  Len(out') + Len(todo') <= 1
      <3>1. CASE pc' = "pbu"
        <4>1. Len(out') = Len(out) + 1 /\ Len(todo') = Len(todo) - 1
          BY <1>a, <1>d, <1>e, <3>1
        <4> QED BY <1>c, <2>2, <2>3, <4>1
      <3>2. CASE pc' = "idle"
        <4>1. Len(out') = Len(out) /\ Len(todo') = 0
          BY <1>a, <2>1, <2>3, <3>2
        <4> QED BY <1>c, <2>2, <2>3, <4>1
      <3> QED BY <1>a, <3>1, <3>2
    <2> QED BY <1>a, <1>b, <2>3 DEF DecLoopInv, InHand
  <1>3. DecHoldInv'
    BY <1>a, <1>b DEF DecHoldInv
  <1>4. DecArrayInv'
    BY <1>a, <1>b DEF DecArrayInv
  <1>5. DecHashInv'
    <2>1. /\ DOMAIN out = 1..Len(out) /\ DOMAIN Append(out, fh.label) = 1..(Len(out) + 1)
          /\ \A k \in 1..Len(out) : Append(out, fh.label)[k] = out[k]
          /\ Append(out, fh.label)[Len(out) + 1] = fh.label
      BY <1>c, AppendProperties, LenProperties
    <2>2. \A k \in DOMAIN out' :
            k \notin unhashed /\ md5[k] = IF use_hash THEN out'[k] ELSE De!NULL
      <3> DEFINE n == Len(out)
                 put == Append(out, fh.label)
      <3>1. /\ n + 1 \notin unhashed
            /\ md5[n + 1] = IF use_hash THEN fh.label ELSE De!NULL
            /\ \A k \in 1..n : k \notin unhashed /\ md5[k] = IF use_hash THEN out[k] ELSE De!NULL
        BY <1>a, <1>b, <2>1 DEF DecHashInv, De!HashIsThePictures
      <3>2. \A k \in 1..(n + 1) : k \in 1..n \/ k = n + 1
        BY <1>c
      <3>3. out' = out \/ out' = put
        BY <1>a
      <3> HIDE DEF n, put
      <3>4. /\ DOMAIN out = 1..n /\ DOMAIN put = 1..(n + 1)
            /\ \A k \in 1..n : put[k] = out[k]
            /\ put[n + 1] = fh.label
        BY <2>1 DEF n, put
      <3> QED BY <3>1, <3>2, <3>3, <3>4
    <2>3. De!HashIsThePictures'
      BY <1>a, <1>b, <2>2 DEF DecHashInv, De!HashIsThePictures
    <2>4. imgb = De!NULL
      BY <1>a, <1>b DEF DecHoldInv
    <2> QED BY <1>a, <2>3, <2>4 DEF DecHashInv
  <1> QED BY <1>1, <1>2, <1>3, <1>4, <1>5 DEF DecInv

----------------------------------------------------------------------------
(* An encoder's steps                                                      *)

\* A PBU of an output of n bytes, and a group of the container.
PbuIn(n) == [what : En!Pics \cup {En!NULL}, group : Groups, beg : 0..n, size : -4..n, lost : Nat]
Group == [group : Groups, hash : En!Pics \cup {En!NULL}, other : Nat]

\* What the types say of the constants and of the values.
LEMMA EncTypes ==
  ASSUME En!EncoderAssumption, En!TypeOK
  PROVE  /\ MaxFrms \in Nat \ {0} /\ MaxMetas \in Nat /\ En!NULL \notin Images
         /\ \A f \in Frames : /\ f.imgb \in Images /\ f.rec \in Images \cup {En!NULL}
                              /\ f.imgb # f.rec /\ f.group \in Groups /\ f.pic \in En!Pics
                              /\ f.tiles \in Nat \ {0} /\ f.size \in Nat \ {0}
         /\ Payloads \subseteq Nat /\ HashSize \in Nat
         /\ frms \in Seq(Frames) /\ Len(frms) \in Nat /\ DOMAIN frms = 1..Len(frms)
         /\ \A k \in 1..Len(frms) : frms[k] \in Frames
         /\ room \in Nat /\ i \in Nat \ {0} /\ cur \in Nat /\ cur <= room
         /\ au \in Seq(PbuIn(cur)) /\ Len(au) \in Nat /\ DOMAIN au = 1..Len(au)
         /\ \A k \in 1..Len(au) : au[k].beg \in Nat /\ au[k].size \in Int
         /\ stat \in Seq(0..cur) /\ Len(stat) \in Nat /\ DOMAIN stat = 1..Len(stat)
         /\ mid \in Seq(Group) /\ Len(mid) \in Nat /\ DOMAIN mid = 1..Len(mid)
         /\ \A k \in 1..Len(mid) : mid[k] \in Group
         /\ tile_cap \in Nat /\ cells \in Nat /\ cells = tile_cap
         /\ counts \in [Images -> 0..1] /\ shows \in [Images -> En!Pics \cup {En!NULL}]
         /\ rc \in Seq(En!Pics) /\ rc_frm \in [En!Slot -> Seq(En!Pics)]
         /\ coded \in [En!Slot -> Seq(En!Pics)] /\ hashes \in [En!Slot -> BOOLEAN]
  <1>1. /\ frms \in Seq(Frames) /\ mid \in Seq(Group) /\ stat \in Seq(0..cur)
        /\ au \in Seq(PbuIn(cur))
        /\ room \in Nat /\ i \in Nat \ {0} /\ cur \in 0..room
        /\ cells \in Nat /\ cells = tile_cap
        /\ counts \in [Images -> 0..1] /\ shows \in [Images -> En!Pics \cup {En!NULL}]
        /\ rc \in Seq(En!Pics) /\ rc_frm \in [En!Slot -> Seq(En!Pics)]
        /\ coded \in [En!Slot -> Seq(En!Pics)] /\ hashes \in [En!Slot -> BOOLEAN]
    BY DEF En!TypeOK, PbuIn, Group
  <1>2. cur \in Nat /\ cur <= room
    BY <1>1
  <1>3. /\ Len(frms) \in Nat /\ DOMAIN frms = 1..Len(frms)
        /\ Len(au) \in Nat /\ DOMAIN au = 1..Len(au)
        /\ Len(stat) \in Nat /\ DOMAIN stat = 1..Len(stat)
        /\ Len(mid) \in Nat /\ DOMAIN mid = 1..Len(mid)
    BY <1>1, LenProperties
  <1>4. /\ \A k \in 1..Len(frms) : frms[k] \in Frames
        /\ \A k \in 1..Len(au) : au[k] \in PbuIn(cur)
        /\ \A k \in 1..Len(mid) : mid[k] \in Group
    BY <1>1, ElementOfSeq
  <1>5. \A k \in 1..Len(au) : au[k].beg \in Nat /\ au[k].size \in Int
    BY <1>2, <1>4 DEF PbuIn
  <1>6. /\ MaxFrms \in Nat \ {0} /\ MaxMetas \in Nat /\ En!NULL \notin Images
        /\ Payloads \subseteq Nat /\ HashSize \in Nat
        /\ \A f \in Frames : /\ f.imgb \in Images /\ f.rec \in Images \cup {En!NULL}
                             /\ f.imgb # f.rec /\ f.group \in Groups
                             /\ f.tiles \in Nat \ {0} /\ f.size \in Nat \ {0}
    BY DEF En!EncoderAssumption
  <1>7. \A f \in Frames : f.pic \in En!Pics
    BY DEF En!Pics
  <1> QED BY <1>1, <1>2, <1>3, <1>4, <1>5, <1>6, <1>7

\* A call returns with nothing in its hands, and what rate control has learned
\* in the slots.
LEMMA EncReturn ==
  ASSUME En!EncoderAssumption, EncInv, Encoding, pc' = "idle",
         cells' \in Nat, tile_cap' = cells',
         imgb_i' = En!NULL, imgb_r' = En!NULL,
         counts' \in [Images -> 0..1], \A m \in Images : counts'[m] = 0,
         shows' \in [Images -> En!Pics \cup {En!NULL}], rc_frm' = coded,
         UNCHANGED <<held, frms, room, i, cur, au, au_size, stat, mid, rc, coded, hashes, rbau>>
  PROVE  EncInv'
  <1>b. /\ En!TypeOK /\ EncLoopInv /\ EncHoldInv /\ EncRcInv /\ EncChainInv /\ EncMetaInv /\ EncHashInv
    BY DEF EncInv
  <1>1. En!TypeOK'
    BY <1>b DEF En!TypeOK
  <1>2. EncLoopInv'
    BY DEF EncLoopInv, Encoding
  <1>3. EncHoldInv'
    <2>1. pc # "none"
      BY DEF Encoding
    <2> QED BY <1>b, <2>1 DEF EncHoldInv
  <1>4. EncRcInv'
    BY DEF EncRcInv, En!RcStaysWithSlot
  <1>5. EncChainInv'
    BY <1>b DEF EncChainInv, Encoding, En!NextAt
  <1>6. EncHashInv'
    BY DEF EncHashInv
  <1>7. EncMetaInv'
    BY DEF EncMetaInv
  <1> QED BY <1>1, <1>2, <1>3, <1>4, <1>5, <1>6, <1>7 DEF EncInv

\* enc_frm_finish gives back what enc_frm_prepare took.
LEMMA EncFinished ==
  ASSUME En!EncoderAssumption, EncInv, pc \in {"code", "save", "hash"}, En!Finished
  PROVE  /\ imgb_i' = En!NULL /\ imgb_r' = En!NULL
         /\ counts' \in [Images -> 0..1] /\ \A m \in Images : counts'[m] = 0
  <1>1. /\ counts' = [m \in Images |-> IF m \in {imgb_i, imgb_r} THEN counts[m] - 1 ELSE counts[m]]
        /\ imgb_i' = En!NULL /\ imgb_r' = En!NULL
    BY DEF En!Finished, En!ReconForgotten
  <1>2. /\ imgb_i = En!frm.imgb /\ imgb_r = En!frm.rec
        /\ \A m \in Images : counts[m] = IF m \in En!Held THEN 1 ELSE 0
    BY DEF EncInv, EncHoldInv
  <1>3. \A m \in Images : m \in {imgb_i, imgb_r} <=> m \in En!Held
    <2>1. En!NULL \notin Images
      BY EncTypes DEF EncInv
    <2> QED BY <1>2, <2>1 DEF En!Held
  <1>4. \A m \in Images : counts'[m] = 0
    BY <1>1, <1>2, <1>3
  <1> QED BY <1>1, <1>4

LEMMA EncReturns ==
  ASSUME En!EncoderAssumption, EncInv,
         \/ En!PrepareRejects \/ En!PrepareNoMemory \/ En!PrepareRejectsLate
         \/ En!FrameFails \/ En!FrameFills \/ En!HashFails \/ En!MetaFails
  PROVE  EncInv'
  <1>b. /\ En!TypeOK /\ EncHoldInv /\ cells \in Nat /\ cells = tile_cap
        /\ \A k \in 1..Len(frms) : frms[k].tiles \in Nat
        /\ Len(frms) \in Nat /\ i \in Nat \ {0}
        /\ counts \in [Images -> 0..1] /\ shows \in [Images -> En!Pics \cup {En!NULL}]
    BY EncTypes DEF EncInv
  <1>1. Encoding /\ pc' = "idle"
    BY DEF En!PrepareRejects, En!PrepareNoMemory, En!PrepareRejectsLate, En!Preparing,
           En!FrameFails, En!FrameFills, En!HashFails, En!MetaFails, En!Fail, Encoding
  <1>2. UNCHANGED <<held, frms, room, i, cur, au, au_size, stat, mid, rc, coded, hashes, rbau>>
    BY DEF En!PrepareRejects, En!PrepareNoMemory, En!PrepareRejectsLate, En!FrameFails,
           En!FrameFills, En!HashFails, En!MetaFails, En!callVars, En!outVars, En!rcVars, En!cfgVars
  <1>3. cells' \in Nat /\ tile_cap' = cells'
    <2>1. CASE En!PrepareRejectsLate
      <3>1. i \in 1..Len(frms)
        BY <1>b, <2>1 DEF En!PrepareRejectsLate, En!Preparing
      <3> QED BY <1>b, <2>1, <3>1 DEF En!PrepareRejectsLate, En!Grown, En!frm, En!tileVars
    <2>2. CASE En!PrepareNoMemory
      BY <2>2 DEF En!PrepareNoMemory, En!CapCleared
    <2>3. CASE ~En!PrepareRejectsLate /\ ~En!PrepareNoMemory
      BY <1>b, <2>3 DEF En!PrepareRejects, En!FrameFails, En!FrameFills, En!HashFails,
                        En!MetaFails, En!tileVars
    <2> QED BY <2>1, <2>2, <2>3
  <1>4. shows' \in [Images -> En!Pics \cup {En!NULL}]
    <2>1. CASE En!FrameFails
      BY <1>b, <2>1 DEF En!FrameFails
    <2>2. CASE ~En!FrameFails
      BY <1>b, <2>2 DEF En!PrepareRejects, En!PrepareNoMemory, En!PrepareRejectsLate,
                        En!FrameFills, En!HashFails, En!MetaFails, En!imgVars
    <2> QED BY <2>1, <2>2
  <1>5. /\ imgb_i' = En!NULL /\ imgb_r' = En!NULL
        /\ counts' \in [Images -> 0..1] /\ \A m \in Images : counts'[m] = 0
    <2>1. CASE En!FrameFails \/ En!FrameFills \/ En!HashFails
      <3>1. pc \in {"code", "save", "hash"} /\ En!Finished
        BY <2>1 DEF En!FrameFails, En!FrameFills, En!HashFails
      <3> QED BY <3>1, EncFinished
    <2>2. CASE ~(En!FrameFails \/ En!FrameFills \/ En!HashFails)
      <3>1. pc \in {"prepare", "meta"} /\ UNCHANGED <<imgb_i, imgb_r, counts>>
        BY <2>2 DEF En!PrepareRejects, En!PrepareNoMemory, En!PrepareRejectsLate, En!Preparing,
                    En!MetaFails, En!imgVars
      <3> QED BY <1>b, <3>1 DEF EncHoldInv
    <2> QED BY <2>1, <2>2
  <1>6. rc_frm' = coded
    <2>1. CASE En!FrameFills
      BY <2>1 DEF En!FrameFills, En!Saved, EncInv, EncRcInv, En!RcStaysWithSlot
    <2>2. CASE ~En!FrameFills
      <3>1. pc # "save" /\ rc_frm' = rc_frm
        BY <2>2 DEF En!PrepareRejects, En!PrepareNoMemory, En!PrepareRejectsLate, En!Preparing,
                    En!FrameFails, En!HashFails, En!MetaFails, En!rcVars
      <3> QED BY <3>1 DEF EncInv, EncRcInv, En!RcStaysWithSlot
    <2> QED BY <2>1, <2>2
  <1> QED BY <1>1, <1>2, <1>3, <1>4, <1>5, <1>6, EncReturn

\* What an application does between two calls, a call that is refused included.
LEMMA EncBetween ==
  ASSUME En!EncoderAssumption, EncInv,
         \/ En!ConfigFmt \/ En!ClearMetadata
         \/ \E s \in En!Slot : En!ConfigHash(s)
         \/ \E g \in Groups, n \in Payloads : En!FillMetadata(g, n)
         \/ \E fs \in FrameUnits : En!Refused(fs)
  PROVE  EncInv'
  <1>a. /\ pc = "idle" /\ pc' = "idle"
        /\ UNCHANGED <<held, frms, room, i, cur, au, au_size, stat, imgb_i, imgb_r, counts, shows,
                       cells, tile_cap, rc, rc_frm, coded>>
    BY DEF En!ConfigFmt, En!ClearMetadata, En!ConfigHash, En!FillMetadata, En!Refused, En!Between,
           En!callVars, En!outVars, En!imgVars, En!tileVars, En!rcVars
  <1>b. /\ En!TypeOK /\ EncLoopInv /\ EncHoldInv /\ EncRcInv /\ EncChainInv
        /\ mid \in Seq(Group) /\ Len(mid) \in Nat /\ MaxMetas \in Nat /\ Payloads \subseteq Nat
    BY EncTypes DEF EncInv
  <1>c. hashes' \in [En!Slot -> BOOLEAN] /\ rbau' \in BOOLEAN
    BY <1>b DEF En!ConfigFmt, En!ClearMetadata, En!ConfigHash, En!FillMetadata, En!Refused,
                En!cfgVars, En!TypeOK
  <1>d. mid' \in Seq(Group) /\ Len(mid') <= MaxMetas
    <2>1. CASE En!ClearMetadata
      <3>1. << >> \in Seq(Group) /\ Len(<< >>) = 0
        BY EmptySeq
      <3> QED BY <1>b, <2>1, <3>1 DEF En!ClearMetadata
    <2>2. ASSUME NEW g \in Groups, NEW n \in Payloads, En!FillMetadata(g, n)
          PROVE  mid' \in Seq(Group) /\ Len(mid') <= MaxMetas
      <3>1. [group |-> g, hash |-> En!NULL, other |-> n] \in Group
        BY <1>b DEF Group
      <3>2. mid' = Append(mid, [group |-> g, hash |-> En!NULL, other |-> n]) /\ Len(mid) < MaxMetas
        BY <2>2 DEF En!FillMetadata, En!NULL
      <3>3. mid' \in Seq(Group) /\ Len(mid') = Len(mid) + 1
        BY <1>b, <3>1, <3>2
      <3> QED BY <1>b, <3>2, <3>3
    <2>3. CASE ~En!ClearMetadata /\ ~\E g \in Groups, n \in Payloads : En!FillMetadata(g, n)
      <3>1. mid' = mid
        BY <2>3 DEF En!ConfigFmt, En!ConfigHash, En!Refused
      <3> QED BY <1>b, <3>1 DEF En!TypeOK
    <2> QED BY <2>1, <2>2, <2>3
  <1>1. En!TypeOK'
    <2>1. mid' \in Seq([group : Groups, hash : En!Pics \cup {En!NULL}, other : Nat])
      BY <1>d DEF Group
    <2> QED BY <1>a, <1>b, <1>c, <1>d, <2>1 DEF En!TypeOK
  <1>2. EncLoopInv'
    BY <1>a DEF EncLoopInv, Encoding
  <1>3. EncHoldInv'
    BY <1>a, <1>b DEF EncHoldInv
  <1>4. EncRcInv'
    BY <1>a, <1>b DEF EncRcInv, En!RcStaysWithSlot
  <1>5. EncChainInv'
    BY <1>a, <1>b DEF EncChainInv, Encoding, En!NextAt
  <1>6. EncHashInv'
    BY <1>a DEF EncHashInv
  <1>7. EncMetaInv'
    BY <1>a DEF EncMetaInv
  <1> QED BY <1>1, <1>2, <1>3, <1>4, <1>5, <1>6, <1>7 DEF EncInv

LEMMA EncCreate ==
  ASSUME En!EncoderAssumption, EncInv,
         En!Create \/ \E k \in 0..(Len(En!Order) - 1) : En!CreateFails(k)
  PROVE  EncInv'
  <1>a. /\ pc = "none" /\ pc' \in {"none", "idle"}
        /\ UNCHANGED <<frms, room, i, cur, au, au_size, stat, mid, imgb_i, imgb_r, counts, shows,
                       cells, tile_cap, rc, rc_frm, coded, hashes, rbau>>
    BY DEF En!Create, En!CreateFails, En!Outside, En!outVars, En!tileVars, En!rcVars, En!cfgVars
  <1>b. En!TypeOK /\ EncLoopInv /\ EncHoldInv /\ EncRcInv /\ EncChainInv
    BY DEF EncInv
  <1>c. held' = IF pc' = "none" THEN {} ELSE En!Obtained(Len(En!Order))
    <2>1. CASE En!Create
      BY <2>1 DEF En!Create
    <2>2. ASSUME NEW k \in 0..(Len(En!Order) - 1), En!CreateFails(k)
          PROVE  held' = IF pc' = "none" THEN {} ELSE En!Obtained(Len(En!Order))
      <3>1. k \in 0..Len(En!Order)
        BY EncOrder
      <3>2. held' = {} /\ pc' = "none"
        BY <2>2, <3>1, EncFreed DEF En!CreateFails
      <3> QED BY <3>2
    <2> QED BY <2>1, <2>2
  <1>1. En!TypeOK'
    BY <1>a, <1>b DEF En!TypeOK
  <1>2. EncLoopInv'
    BY <1>a DEF EncLoopInv, Encoding
  <1>3. EncHoldInv'
    BY <1>a, <1>b, <1>c DEF EncHoldInv
  <1>4. EncRcInv'
    BY <1>a, <1>b DEF EncRcInv, En!RcStaysWithSlot
  <1>5. EncChainInv'
    BY <1>a, <1>b DEF EncChainInv, Encoding, En!NextAt
  <1>6. EncHashInv'
    BY <1>a DEF EncHashInv
  <1>7. EncMetaInv'
    BY <1>a DEF EncMetaInv
  <1> QED BY <1>1, <1>2, <1>3, <1>4, <1>5, <1>6, <1>7 DEF EncInv

LEMMA EncDelete ==
  ASSUME En!EncoderAssumption, EncInv, En!Delete
  PROVE  EncInv'
  <1>a. /\ pc = "idle" /\ pc' = "none" /\ cells' = 0 /\ tile_cap' = 0
        /\ rc' = << >> /\ rc_frm' = [s \in En!Slot |-> << >>] /\ coded' = [s \in En!Slot |-> << >>]
        /\ hashes' = [s \in En!Slot |-> FALSE] /\ rbau' = TRUE
        /\ imgb_i' = En!NULL /\ imgb_r' = En!NULL
        /\ UNCHANGED <<frms, room, i, cur, au, au_size, stat, mid, counts, shows>>
    BY DEF En!Delete, En!Outside, En!outVars, En!NULL
  <1>b. En!TypeOK /\ EncLoopInv /\ EncHoldInv /\ EncRcInv /\ EncChainInv
    BY DEF EncInv
  <1>c. held' = {}
    <2>1. held = En!Obtained(Len(En!Order)) /\ Len(En!Order) \in 0..Len(En!Order)
      BY <1>a, <1>b, EncOrder DEF EncHoldInv
    <2> QED BY <2>1, EncFreed DEF En!Delete
  <1>1. En!TypeOK'
    <2>1. << >> \in Seq(En!Pics)
      BY EmptySeq
    <2> QED BY <1>a, <1>b, <2>1 DEF En!TypeOK
  <1>2. EncLoopInv'
    BY <1>a DEF EncLoopInv, Encoding
  <1>3. EncHoldInv'
    BY <1>a, <1>b, <1>c DEF EncHoldInv
  <1>4. EncRcInv'
    BY <1>a DEF EncRcInv, En!RcStaysWithSlot
  <1>5. EncChainInv'
    BY <1>a, <1>b DEF EncChainInv, Encoding, En!NextAt
  <1>6. EncHashInv'
    BY <1>a DEF EncHashInv
  <1>7. EncMetaInv'
    BY <1>a DEF EncMetaInv
  <1> QED BY <1>1, <1>2, <1>3, <1>4, <1>5, <1>6, <1>7 DEF EncInv

LEMMA EncCalled ==
  ASSUME En!EncoderAssumption, EncInv, NEW fs \in FrameUnits, NEW n \in Rooms, En!Encode(fs, n)
  PROVE  EncInv'
  <1>a. /\ pc = "idle" /\ pc' = "prepare" /\ En!Acceptable(fs)
        /\ frms' = fs /\ room' = n /\ i' = 1 /\ cur' = (IF En!AuHead <= n THEN En!AuHead ELSE 0)
        /\ au' = << >> /\ au_size' = 0 /\ stat' = << >>
        /\ UNCHANGED <<held, mid, imgb_i, imgb_r, counts, shows, cells, tile_cap, rc, rc_frm, coded,
                       hashes, rbau>>
    BY DEF En!Encode, En!Between, En!imgVars, En!tileVars, En!rcVars, En!cfgVars
  <1>b. En!TypeOK /\ EncLoopInv /\ EncHoldInv /\ EncRcInv /\ EncChainInv
    BY DEF EncInv
  <1>c. /\ fs \in Seq(Frames) /\ fs # << >> /\ n \in Nat /\ cur' \in 0..n
        /\ Len(fs) \in Nat \ {0} /\ MaxFrms \in Nat /\ MaxMetas \in Nat
    <2>1. fs \in Seq(Frames) /\ fs # << >> /\ n \in Nat
      BY DEF En!EncoderAssumption
    <2>2. En!AuHead \in {4, 8}
      BY DEF En!AuHead
    <2> QED BY <1>a, <2>1, <2>2, EmptySeq DEF En!EncoderAssumption
  <1>1. En!TypeOK'
    <2>1. /\ << >> \in Seq([what : En!Pics \cup {En!NULL}, group : Groups, beg : 0..cur', size : -4..cur',
                           lost : Nat])
          /\ << >> \in Seq(0..cur') /\ Len(<< >>) = 0
      BY EmptySeq
    <2>2. 0 <= MaxFrms + MaxMetas /\ 0 \in -4..n /\ 1 \in Nat \ {0}
      BY <1>c
    <2> QED BY <1>a, <1>b, <1>c, <2>1, <2>2 DEF En!TypeOK
  <1>2. EncLoopInv'
    <2>1. En!Acceptable(fs)'
      BY <1>a DEF En!Acceptable
    <2>2. 1 <= Len(fs)
      BY <1>c
    <2> QED BY <1>a, <1>c, <2>1, <2>2 DEF EncLoopInv, Encoding, En!Acceptable
  <1>3. EncHoldInv'
    BY <1>a, <1>b DEF EncHoldInv
  <1>4. EncRcInv'
    BY <1>a, <1>b DEF EncRcInv, En!RcStaysWithSlot
  <1>5. EncChainInv'
    <2>1. Len(<< >>) = 0 /\ DOMAIN << >> = {} /\ 1 - 1 = 0
      BY EmptySeq
    <2> QED BY <1>a, <2>1 DEF EncChainInv
  <1>6. EncHashInv'
    <2>1. 1..(1 - 1) = {}
      OBVIOUS
    <2> QED BY <1>a, <2>1 DEF EncHashInv, InContainer
  <1>7. EncMetaInv'
    BY <1>a DEF EncMetaInv
  <1> QED BY <1>1, <1>2, <1>3, <1>4, <1>5, <1>6, <1>7 DEF EncInv

LEMMA EncPrepared ==
  ASSUME En!EncoderAssumption, EncInv, En!Prepared
  PROVE  EncInv'
  <1>a. /\ pc = "prepare" /\ pc' = "code" /\ i <= Len(frms)
        /\ IF En!frm.tiles > tile_cap THEN cells' = En!frm.tiles /\ tile_cap' = En!frm.tiles
                                      ELSE cells' = cells /\ tile_cap' = tile_cap
        /\ imgb_i' = En!frm.imgb
        /\ imgb_r' = IF En!frm.rec = En!NULL THEN imgb_r ELSE En!frm.rec
        /\ counts' = [m \in Images |-> IF m \in En!Held THEN counts[m] + 1 ELSE counts[m]]
        /\ rc' = rc_frm[i]
        /\ UNCHANGED <<held, frms, room, i, cur, au, au_size, stat, mid, shows, rc_frm, coded,
                       hashes, rbau>>
    BY DEF En!Prepared, En!Preparing, En!Grown, En!Loaded, En!callVars, En!outVars, En!tileVars,
           En!cfgVars
  <1>b. En!TypeOK /\ EncLoopInv /\ EncHoldInv /\ EncRcInv /\ EncChainInv /\ EncMetaInv /\ EncHashInv
    BY DEF EncInv
  <1>c. /\ En!frm \in Frames /\ i \in 1..Len(frms) /\ i \in En!Slot /\ tile_cap \in Nat
        /\ En!frm.imgb \in Images /\ En!frm.rec \in Images \cup {En!NULL} /\ En!frm.tiles \in Nat
        /\ cells = tile_cap /\ rc_frm \in [En!Slot -> Seq(En!Pics)]
    <2>1. i \in 1..Len(frms)
      BY <1>a, <1>b, EncTypes
    <2>2. Len(frms) <= MaxFrms /\ MaxFrms \in Nat
      BY <1>a, <1>b, EncTypes DEF EncLoopInv, Encoding, En!Acceptable
    <2>3. i \in En!Slot
      BY <1>b, <2>1, <2>2, EncTypes DEF En!Slot
    <2> QED BY <1>b, <2>1, <2>3, EncTypes DEF En!frm
  <1>d. imgb_r' = En!frm.rec
    BY <1>a, <1>b DEF EncHoldInv
  <1>e. \A m \in Images : counts'[m] = IF m \in En!Held THEN 1 ELSE 0
    BY <1>a, <1>b DEF EncHoldInv
  <1>f. UNCHANGED <<En!frm, En!Held>>
    BY <1>a DEF En!frm, En!Held
  <1>1. En!TypeOK'
    <2>1. counts' \in [Images -> 0..1]
      BY <1>a, <1>e
    <2>2. rc' \in Seq(En!Pics)
      BY <1>a, <1>c
    <2>3. cells' \in Nat /\ cells' = tile_cap'
      BY <1>a, <1>c
    <2> QED BY <1>a, <1>b, <1>c, <1>d, <2>1, <2>2, <2>3 DEF En!TypeOK
  <1>2. EncLoopInv'
    <2>1. En!frm.tiles <= tile_cap'
      BY <1>a, <1>c
    <2> QED BY <1>a, <1>b, <1>f, <2>1 DEF EncLoopInv, Encoding, En!Acceptable
  <1>3. EncHoldInv'
    BY <1>a, <1>b, <1>d, <1>e, <1>f DEF EncHoldInv
  <1>4. EncRcInv'
    BY <1>a, <1>b DEF EncRcInv, En!RcStaysWithSlot
  <1>5. EncChainInv'
    BY <1>a, <1>b DEF EncChainInv, Encoding, En!NextAt
  <1>6. EncHashInv'
    BY <1>a, <1>b DEF EncHashInv, InContainer, En!Hashed
  <1>7. EncMetaInv'
    BY <1>a DEF EncMetaInv
  <1> QED BY <1>1, <1>2, <1>3, <1>4, <1>5, <1>6, <1>7 DEF EncInv

\* One more PBU: it begins where the one before it ended.
LEMMA EncAppended ==
  ASSUME En!EncoderAssumption, En!TypeOK, EncChainInv,
         NEW n \in Nat, cur + n <= room,
         NEW w \in En!Pics \cup {En!NULL}, NEW g \in Groups, NEW l \in Nat,
         cur' = cur + n, UNCHANGED room,
         au' = Append(au, [what |-> w, group |-> g, beg |-> cur, size |-> n - 4, lost |-> l])
  PROVE  /\ cur' \in 0..room' /\ cur <= cur'
         /\ au' \in Seq(PbuIn(cur')) /\ Len(au') = Len(au) + 1 /\ DOMAIN au' = 1..Len(au')
         /\ \A k \in 1..Len(au) : au'[k] = au[k]
         /\ au'[Len(au) + 1] = [what |-> w, group |-> g, beg |-> cur, size |-> n - 4, lost |-> l]
         /\ \A k \in DOMAIN au' : En!NextAt(k)' = IF k < Len(au') THEN au'[k + 1].beg ELSE cur'
  <1> DEFINE new == [what |-> w, group |-> g, beg |-> cur, size |-> n - 4, lost |-> l]
  <1>b. /\ cur \in Nat /\ room \in Nat /\ au \in Seq(PbuIn(cur)) /\ Len(au) \in Nat
        /\ DOMAIN au = 1..Len(au) /\ au' = Append(au, new)
        /\ new.beg = cur /\ new.size = n - 4
    BY EncTypes
  <1>1. cur' \in 0..room' /\ cur <= cur' /\ cur' = cur + n
    BY <1>b
  <1>2. new \in PbuIn(cur')
    <2>1. cur \in 0..cur' /\ n - 4 \in -4..cur'
      BY <1>b, <1>1
    <2> QED BY <2>1 DEF PbuIn
  <1> HIDE DEF new
  <1>3. au \in Seq(PbuIn(cur'))
    <2>1. 0..cur \subseteq 0..cur' /\ -4..cur \subseteq -4..cur'
      BY <1>b, <1>1
    <2>2. PbuIn(cur) \subseteq PbuIn(cur')
      BY <2>1 DEF PbuIn
    <2> QED BY <1>b, <2>2, SeqMonotonic
  <1>4. /\ au' \in Seq(PbuIn(cur')) /\ Len(au') = Len(au) + 1
        /\ \A k \in 1..Len(au) : au'[k] = au[k]
        /\ au'[Len(au) + 1] = new
    BY <1>b, <1>2, <1>3, AppendProperties
  <1>5. DOMAIN au' = 1..Len(au')
    BY <1>4, LenProperties
  <1>6. ASSUME NEW k \in DOMAIN au'
        PROVE  En!NextAt(k)' = IF k < Len(au') THEN au'[k + 1].beg ELSE cur'
    <2>1. CASE k = Len(au) + 1
      <3>1. En!NextAt(k)' = cur + 4 + (n - 4)
        BY <1>b, <1>4, <2>1 DEF En!NextAt
      <3>2. ~(k < Len(au'))
        BY <1>b, <1>4, <2>1
      <3>3. cur + 4 + (n - 4) = cur'
        BY <1>b, <1>1
      <3> QED BY <3>1, <3>2, <3>3
    <2>2. CASE k < Len(au) + 1
      <3>1. k \in 1..Len(au) /\ k < Len(au')
        BY <1>b, <1>4, <1>5, <2>2
      <3>2. En!NextAt(k)' = En!NextAt(k)
        BY <1>4, <3>1 DEF En!NextAt
      <3>3. En!NextAt(k) = IF k < Len(au) THEN au[k + 1].beg ELSE cur
        BY <1>b, <3>1 DEF EncChainInv
      <3>4. CASE k < Len(au)
        <4>1. k + 1 \in 1..Len(au)
          BY <1>b, <3>1, <3>4
        <4> QED BY <1>4, <3>1, <3>2, <3>3, <3>4, <4>1
      <3>5. CASE ~(k < Len(au))
        <4>1. k = Len(au)
          BY <1>b, <3>1, <3>5
        <4> QED BY <1>b, <1>4, <3>1, <3>2, <3>3, <3>5, <4>1
      <3> QED BY <3>4, <3>5
    <2> QED BY <1>b, <1>4, <1>5, <2>1, <2>2
  <1> QED BY <1>1, <1>4, <1>5, <1>6 DEF new

\* The frame in hand is one of the call, in a slot of its own.
LEMMA EncFrameInHand ==
  ASSUME En!EncoderAssumption, EncInv, pc \in {"code", "save"}
  PROVE  /\ En!frm \in Frames /\ i \in 1..Len(frms) /\ i \in En!Slot /\ i \in Nat
         /\ Len(frms) \in Nat /\ DOMAIN frms = 1..Len(frms)
         /\ Len(frms) <= MaxFrms /\ MaxFrms \in Nat /\ MaxMetas \in Nat
         /\ En!frm.pic \in En!Pics /\ En!frm.group \in Groups /\ En!frm.size \in Nat \ {0}
         /\ En!frm.rec \in Images \cup {En!NULL} /\ cur \in Nat /\ room \in Nat
         /\ rc \in Seq(En!Pics) /\ rc_frm \in [En!Slot -> Seq(En!Pics)]
         /\ coded \in [En!Slot -> Seq(En!Pics)]
  <1>b. En!TypeOK /\ EncLoopInv
    BY DEF EncInv
  <1>1. /\ i \in Nat \ {0} /\ Len(frms) \in Nat /\ MaxFrms \in Nat \ {0} /\ MaxMetas \in Nat
        /\ cur \in Nat /\ room \in Nat /\ DOMAIN frms = 1..Len(frms)
        /\ rc \in Seq(En!Pics) /\ rc_frm \in [En!Slot -> Seq(En!Pics)]
        /\ coded \in [En!Slot -> Seq(En!Pics)]
    BY <1>b, EncTypes
  <1>2. i <= Len(frms) /\ Len(frms) <= MaxFrms
    BY <1>b DEF EncLoopInv, Encoding, En!Acceptable
  <1>3. i \in 1..Len(frms) /\ i \in En!Slot
    BY <1>1, <1>2 DEF En!Slot
  <1>4. En!frm \in Frames
    BY <1>b, <1>3, EncTypes DEF En!frm
  <1> QED BY <1>b, <1>1, <1>2, <1>3, <1>4, EncTypes

LEMMA EncFrameCoded ==
  ASSUME En!EncoderAssumption, EncInv, En!FrameCoded
  PROVE  EncInv'
  <1>a. /\ pc = "code" /\ pc' = "save" /\ En!FrameEnd <= room
        /\ shows' = [m \in Images |-> IF m = imgb_r THEN En!frm.pic ELSE shows[m]]
        /\ rc' = (IF En!frm.rc THEN Append(rc, En!frm.pic) ELSE rc)
        /\ coded' = (IF En!frm.rc THEN [coded EXCEPT ![i] = Append(@, En!frm.pic)] ELSE coded)
        /\ UNCHANGED <<held, frms, room, serial, i, cur, au, au_size, stat, mid, imgb_i, imgb_r,
                       counts, cells, tile_cap, rc_frm, hashes, rbau>>
    BY DEF En!FrameCoded, En!Learned, En!callVars, En!outVars, En!tileVars, En!cfgVars
  <1>b. En!TypeOK /\ EncLoopInv /\ EncHoldInv /\ EncRcInv /\ EncChainInv /\ EncMetaInv /\ EncHashInv
    BY DEF EncInv
  <1>c. /\ En!frm.pic \in En!Pics /\ En!frm.rec \in Images \cup {En!NULL} /\ i \in En!Slot
        /\ rc \in Seq(En!Pics) /\ rc_frm \in [En!Slot -> Seq(En!Pics)]
        /\ coded \in [En!Slot -> Seq(En!Pics)]
    BY <1>a, EncFrameInHand
  <1>e. UNCHANGED <<En!frm, En!Held, En!FrameEnd>>
    BY <1>a DEF En!frm, En!Held, En!FrameEnd
  <1>i. rc_frm = coded /\ rc = rc_frm[i]
    BY <1>a, <1>b DEF EncRcInv, En!RcStaysWithSlot
  <1>j. /\ rc' \in Seq(En!Pics) /\ coded' \in [En!Slot -> Seq(En!Pics)]
        /\ coded' = [rc_frm EXCEPT ![i] = rc']
    <2>1. CASE En!frm.rc
      <3>1. rc' = Append(rc, En!frm.pic) /\ Append(rc, En!frm.pic) \in Seq(En!Pics)
        BY <1>a, <1>c, <2>1, AppendProperties
      <3>2. coded' = [rc_frm EXCEPT ![i] = Append(rc, En!frm.pic)]
        BY <1>a, <1>i, <2>1
      <3> QED BY <1>c, <3>1, <3>2
    <2>2. CASE ~En!frm.rc
      <3>1. rc' = rc /\ coded' = coded
        BY <1>a, <2>2
      <3>2. [rc_frm EXCEPT ![i] = rc] = rc_frm
        BY <1>c, <1>i
      <3> QED BY <1>c, <1>i, <3>1, <3>2
    <2> QED BY <2>1, <2>2
  <1>1. En!TypeOK'
    <2>1. shows' \in [Images -> En!Pics \cup {En!NULL}]
      BY <1>a, <1>b, <1>c, EncTypes
    <2> QED BY <1>a, <1>b, <1>j, <2>1 DEF En!TypeOK
  <1>2. EncLoopInv'
    BY <1>a, <1>b, <1>e DEF EncLoopInv, Encoding, En!Acceptable
  <1>3. EncHoldInv'
    <2>1. imgb_r # En!NULL => shows'[imgb_r] = En!frm.pic
      BY <1>a, <1>b, <1>c DEF EncHoldInv
    <2> QED BY <1>a, <1>b, <1>e, <2>1 DEF EncHoldInv
  <1>4. EncRcInv'
    BY <1>a, <1>j DEF EncRcInv, En!RcStaysWithSlot
  <1>5. EncChainInv'
    BY <1>a, <1>b DEF EncChainInv, Encoding, En!NextAt
  <1>6. EncHashInv'
    BY <1>a, <1>b DEF EncHashInv, InContainer, En!Hashed
  <1>7. EncMetaInv'
    BY <1>a DEF EncMetaInv
  <1> QED BY <1>1, <1>2, <1>3, <1>4, <1>5, <1>6, <1>7 DEF EncInv

LEMMA EncFrameSized ==
  ASSUME En!EncoderAssumption, EncInv, En!FrameSized
  PROVE  EncInv'
  <1> DEFINE n == 8 + En!frm.size
  <1>a. /\ pc = "save" /\ pc' = "hash" /\ cur + 8 + En!frm.size < room
        /\ cur' = cur + 8 + En!frm.size
        /\ rc_frm' = [rc_frm EXCEPT ![i] = rc]
        /\ au' = Append(au, [what |-> En!frm.pic, group |-> En!frm.group, beg |-> cur,
                             size |-> (cur' - cur) - 4, lost |-> 0])
        /\ stat' = Append(stat, (cur' - cur) - 4)
        /\ UNCHANGED <<held, frms, room, serial, i, au_size, mid, imgb_i, imgb_r, counts, shows, cells,
                       tile_cap, rc, coded, hashes, rbau>>
    BY DEF En!FrameSized, En!FrameEnd, En!PbuHead, En!Saved, En!PbuSize, En!callVars, En!imgVars,
           En!tileVars, En!cfgVars
  <1>b. En!TypeOK /\ EncLoopInv /\ EncHoldInv /\ EncRcInv /\ EncChainInv /\ EncMetaInv /\ EncHashInv
    BY DEF EncInv
  <1>c. /\ En!frm \in Frames /\ i \in 1..Len(frms) /\ i \in En!Slot /\ i \in Nat
        /\ Len(frms) \in Nat /\ DOMAIN frms = 1..Len(frms)
        /\ Len(frms) <= MaxFrms /\ MaxFrms \in Nat /\ MaxMetas \in Nat
        /\ En!frm.pic \in En!Pics /\ En!frm.group \in Groups /\ En!frm.size \in Nat \ {0}
        /\ cur \in Nat /\ room \in Nat
    BY <1>a, EncFrameInHand
  <1>d. /\ n \in Nat /\ n >= 8 /\ cur + n <= room /\ cur' = cur + n
        /\ (cur' - cur) - 4 = n - 4
    <2>1. n = 8 + En!frm.size
      OBVIOUS
    <2> HIDE DEF n
    <2>2. n \in Nat /\ n >= 8 /\ cur + n = cur + 8 + En!frm.size
      BY ONLY <1>c, <2>1
    <2>3. cur + n <= room /\ cur' = cur + n
      BY ONLY <1>a, <1>c, <2>2
    <2>4. (cur' - cur) - 4 = n - 4
      BY ONLY <1>c, <2>2, <2>3
    <2> QED BY <2>2, <2>3, <2>4
  <1>e. UNCHANGED <<En!frm, En!Held>>
    BY <1>a DEF En!frm, En!Held
  <1> HIDE DEF n
  <1>f. /\ cur' \in 0..room' /\ cur <= cur'
        /\ au' \in Seq(PbuIn(cur')) /\ Len(au') = Len(au) + 1 /\ DOMAIN au' = 1..Len(au')
        /\ \A k \in 1..Len(au) : au'[k] = au[k]
        /\ au'[Len(au) + 1] = [what |-> En!frm.pic, group |-> En!frm.group, beg |-> cur, size |-> n - 4, lost |-> 0]
        /\ \A k \in DOMAIN au' : En!NextAt(k)' = IF k < Len(au') THEN au'[k + 1].beg ELSE cur'
    BY <1>a, <1>b, <1>c, <1>d, EncAppended
  <1>g. Len(au) = i - 1 /\ Len(stat) = i - 1 /\ Len(au') = i
    BY <1>a, <1>b, <1>c, <1>f DEF EncChainInv
  <1>h. /\ stat' \in Seq(0..cur') /\ Len(stat') = i /\ DOMAIN stat' = 1..i
        /\ \A k \in 1..(i - 1) : stat'[k] = stat[k]
        /\ stat'[i] = n - 4
    <2>1. n - 4 \in 0..cur' /\ 0..cur \subseteq 0..cur' /\ stat' = Append(stat, n - 4)
      <3>1. stat' = Append(stat, n - 4)
        BY <1>a, <1>d
      <3> QED BY ONLY <1>c, <1>d, <3>1
    <2>2. stat \in Seq(0..cur')
      BY <1>b, <2>1, EncTypes, SeqMonotonic
    <2>3. /\ stat' \in Seq(0..cur') /\ Len(stat') = Len(stat) + 1
          /\ \A k \in 1..Len(stat) : stat'[k] = stat[k]
          /\ stat'[Len(stat) + 1] = n - 4
      BY <2>1, <2>2, AppendProperties
    <2>4. Len(stat) + 1 = i
      BY <1>c, <1>g
    <2>5. DOMAIN stat' = 1..i
      BY <2>3, <2>4, LenProperties
    <2> QED BY <1>g, <2>3, <2>4, <2>5
  <1>i. rc_frm' = coded /\ coded \in [En!Slot -> Seq(En!Pics)]
    BY <1>a, <1>b, EncTypes DEF EncRcInv, En!RcStaysWithSlot
  <1>1. En!TypeOK'
    <2>1. au' \in Seq([what : En!Pics \cup {En!NULL}, group : Groups, beg : 0..cur', size : -4..cur',
                           lost : Nat])
      BY <1>f DEF PbuIn
    <2>2. Len(au') <= MaxFrms + MaxMetas
      BY <1>c, <1>g
    <2> QED BY <1>a, <1>b, <1>f, <1>h, <1>i, <2>1, <2>2 DEF En!TypeOK
  <1>2. EncLoopInv'
    BY <1>a, <1>b, <1>e DEF EncLoopInv, Encoding, En!Acceptable
  <1>3. EncHoldInv'
    BY <1>a, <1>b, <1>e DEF EncHoldInv
  <1>4. EncRcInv'
    BY <1>a, <1>i DEF EncRcInv, En!RcStaysWithSlot
  <1>5. EncChainInv'
    <2>1. ASSUME NEW k \in DOMAIN stat'
          PROVE  /\ au'[k].what = frms'[k].pic /\ stat'[k] = au'[k].size
                 /\ au'[k].lost = 0 /\ au'[k].size >= 4
      <3>1. CASE k = i
        <4>1. Len(au) + 1 = i
          BY <1>c, <1>g
        <4>2. au'[i].what = En!frm.pic /\ au'[i].size = n - 4 /\ au'[i].lost = 0 /\ n - 4 >= 4
          BY <1>d, <1>f, <4>1
        <4> QED BY <1>a, <1>h, <3>1, <4>2 DEF En!frm
      <3>2. CASE k # i
        <4>1. k \in 1..(i - 1) /\ k \in DOMAIN stat /\ k \in 1..Len(au)
          <5>1. DOMAIN stat = 1..Len(stat)
            BY <1>b, EncTypes
          <5> QED BY <1>c, <1>g, <1>h, <3>2, <5>1
        <4>2. au[k].what = frms[k].pic /\ stat[k] = au[k].size /\ au[k].lost = 0 /\ au[k].size >= 4
          BY <1>a, <1>b, <4>1 DEF EncChainInv, Encoding
        <4> QED BY <1>a, <1>f, <1>h, <4>1, <4>2
      <3> QED BY <3>1, <3>2
    <2>2. au_size = 0
      BY <1>a, <1>b DEF EncLoopInv, Encoding
    <2> QED BY <1>a, <1>f, <1>g, <1>h, <2>1, <2>2 DEF EncChainInv
  <1>6. EncHashInv'
    BY <1>a, <1>b DEF EncHashInv, InContainer, En!Hashed
  <1>7. EncMetaInv'
    BY <1>a DEF EncMetaInv
  <1> QED BY <1>1, <1>2, <1>3, <1>4, <1>5, <1>6, <1>7 DEF EncInv

\* oapv_set_md5_pld: the hash of the picture is in the container, and what is
\* of other groups is as it was.
LEMMA EncHashStored ==
  ASSUME En!EncoderAssumption, EncInv, En!FrameDone
  PROVE  /\ mid' \in Seq(Group) /\ Len(mid') <= MaxMetas
         /\ En!Wanted => \E j \in DOMAIN mid' : /\ mid'[j].group = En!frm.group
                                                /\ mid'[j].hash = En!frm.pic
         /\ \A j \in DOMAIN mid : (En!Wanted => mid[j].group # En!frm.group) =>
              j \in DOMAIN mid' /\ mid'[j] = mid[j]
  <1>a. /\ pc = "hash"
        /\ En!Wanted => (En!InGroup = {} => Len(mid) < MaxMetas) /\ mid' = En!HashSet(shows[imgb_r])
        /\ ~En!Wanted => mid' = mid
    BY DEF En!FrameDone
  <1>b. /\ En!TypeOK /\ mid \in Seq(Group) /\ Len(mid) \in Nat /\ DOMAIN mid = 1..Len(mid)
        /\ \A k \in 1..Len(mid) : mid[k] \in Group
        /\ Len(mid) <= MaxMetas /\ MaxMetas \in Nat
    BY EncTypes DEF EncInv, En!TypeOK
  <1>c. En!frm.group \in Groups /\ En!frm.pic \in En!Pics
    <2>1. i \in Nat \ {0} /\ i <= Len(frms) /\ Len(frms) \in Nat
      BY <1>a, <1>b, EncTypes DEF EncInv, EncLoopInv
    <2>2. i \in 1..Len(frms)
      BY <2>1
    <2>3. En!frm \in Frames
      BY <1>b, <2>2, EncTypes DEF En!frm
    <2> QED BY <1>b, <2>3, EncTypes
  <1>d. En!Wanted => shows[imgb_r] = En!frm.pic
    <2>1. SUFFICES ASSUME En!Wanted  PROVE shows[imgb_r] = En!frm.pic
      OBVIOUS
    <2>2. i \in DOMAIN frms
      BY <1>a, <1>b, EncTypes DEF EncInv, EncLoopInv
    <2>3. En!frm.rec # En!NULL
      BY <1>a, <2>1, <2>2 DEF EncInv, EncLoopInv, Encoding, En!Acceptable, En!Wanted, En!frm
    <2>4. imgb_r = En!frm.rec
      BY <1>a DEF EncInv, EncHoldInv
    <2> QED BY <1>a, <2>3, <2>4 DEF EncInv, EncHoldInv
  <1>1. CASE ~En!Wanted
    BY <1>a, <1>b, <1>1
  <1>2. CASE En!Wanted /\ En!InGroup = {}
    <2> DEFINE new == [group |-> En!frm.group, hash |-> En!frm.pic, other |-> 0]
    <2>1. mid' = Append(mid, new) /\ Len(mid) < MaxMetas
      BY <1>a, <1>d, <1>2 DEF En!HashSet
    <2>2. new \in Group /\ new.group = En!frm.group /\ new.hash = En!frm.pic
      BY <1>c DEF Group
    <2> HIDE DEF new
    <2>3. /\ mid' \in Seq(Group) /\ Len(mid') = Len(mid) + 1
          /\ \A j \in 1..Len(mid) : mid'[j] = mid[j]
          /\ mid'[Len(mid) + 1] = new
      BY <1>b, <2>1, <2>2, AppendProperties
    <2>4. DOMAIN mid' = 1..Len(mid')
      BY <2>3, LenProperties
    <2>5. Len(mid') <= MaxMetas /\ Len(mid) + 1 \in DOMAIN mid' /\ DOMAIN mid \subseteq DOMAIN mid'
      BY <1>b, <2>1, <2>3, <2>4
    <2> QED BY <1>b, <2>2, <2>3, <2>5
  <1>3. CASE En!Wanted /\ En!InGroup # {}
    <2>1. mid' = [k \in DOMAIN mid |-> IF k \in En!InGroup THEN [mid[k] EXCEPT !.hash = En!frm.pic]
                                                          ELSE mid[k]]
      BY <1>a, <1>d, <1>3 DEF En!HashSet
    <2>2. ASSUME NEW k \in 1..Len(mid)
          PROVE  /\ mid'[k] \in Group
                 /\ k \in En!InGroup => mid'[k].group = En!frm.group /\ mid'[k].hash = En!frm.pic
                 /\ mid[k].group # En!frm.group => mid'[k] = mid[k]
      <3>1. mid'[k] = IF k \in En!InGroup THEN [mid[k] EXCEPT !.hash = En!frm.pic] ELSE mid[k]
        BY <1>b, <2>1
      <3>2. k \in En!InGroup <=> mid[k].group = En!frm.group
        BY <1>b DEF En!InGroup
      <3>3. mid[k] \in Group /\ En!frm.pic \in En!Pics
        BY <1>b, <1>c
      <3>4. [mid[k] EXCEPT !.hash = En!frm.pic]
              = [group |-> mid[k].group, hash |-> En!frm.pic, other |-> mid[k].other]
        BY <3>3 DEF Group
      <3>5. mid[k].group \in Groups /\ mid[k].other \in Nat
        BY <3>3 DEF Group
      <3>6. [group |-> mid[k].group, hash |-> En!frm.pic, other |-> mid[k].other] \in Group
        BY <3>3, <3>5 DEF Group
      <3> QED BY <3>1, <3>2, <3>3, <3>4, <3>6
    <2>3. mid' \in [1..Len(mid) -> Group]
      BY <1>b, <2>1, <2>2
    <2>4. mid' \in Seq(Group) /\ Len(mid') = Len(mid) /\ DOMAIN mid' = DOMAIN mid
      BY <1>b, <2>3, AsSeq
    <2>5. PICK k \in 1..Len(mid) : k \in En!InGroup
      BY <1>b, <1>3 DEF En!InGroup
    <2>6. \E j \in DOMAIN mid' : mid'[j].group = En!frm.group /\ mid'[j].hash = En!frm.pic
      BY <1>b, <2>2, <2>4, <2>5
    <2> QED BY <1>b, <1>3, <2>2, <2>4, <2>6
  <1> QED BY <1>1, <1>2, <1>3

LEMMA EncFrameDone ==
  ASSUME En!EncoderAssumption, EncInv, En!FrameDone
  PROVE  EncInv'
  <1>a. /\ pc = "hash" /\ En!Finished
        /\ IF i < Len(frms) THEN i' = i + 1 /\ pc' = "prepare" ELSE i' = 1 /\ pc' = "meta"
        /\ UNCHANGED <<held, frms, room, cur, au, au_size, stat, shows, cells, tile_cap,
                       rc, rc_frm, coded, hashes, rbau>>
    BY DEF En!FrameDone, En!callVars, En!outVars, En!tileVars, En!rcVars, En!cfgVars
  <1>b. En!TypeOK /\ EncLoopInv /\ EncHoldInv /\ EncRcInv /\ EncChainInv /\ EncMetaInv /\ EncHashInv
    BY DEF EncInv
  <1>c. /\ i \in Nat /\ i \in 1..Len(frms) /\ Len(frms) \in Nat /\ DOMAIN frms = 1..Len(frms)
        /\ DOMAIN stat = 1..Len(stat)
    <2>1. i \in Nat \ {0} /\ i <= Len(frms) /\ Len(frms) \in Nat
      BY <1>a, <1>b, EncTypes DEF EncLoopInv
    <2> QED BY <1>b, <2>1, EncTypes
  <1>d. /\ imgb_i' = En!NULL /\ imgb_r' = En!NULL
        /\ counts' \in [Images -> 0..1] /\ \A m \in Images : counts'[m] = 0
    BY <1>a, EncFinished
  <1>e. /\ mid' \in Seq(Group) /\ Len(mid') <= MaxMetas
        /\ En!Wanted => \E j \in DOMAIN mid' : /\ mid'[j].group = En!frm.group
                                               /\ mid'[j].hash = En!frm.pic
        /\ \A j \in DOMAIN mid : (En!Wanted => mid[j].group # En!frm.group) =>
             j \in DOMAIN mid' /\ mid'[j] = mid[j]
    BY EncHashStored
  <1>f. i' \in Nat \ {0} /\ pc' \in {"prepare", "meta"}
        /\ (pc' = "prepare" => i' <= Len(frms) /\ i' - 1 = i)
        /\ (pc' = "meta" => i' = 1 /\ i = Len(frms))
    <2>1. CASE i < Len(frms)
      BY <1>a, <1>c, <2>1
    <2>2. CASE ~(i < Len(frms))
      <3>1. i' = 1 /\ pc' = "meta"
        BY <1>a, <2>2
      <3>2. i <= Len(frms) /\ i >= Len(frms) /\ i \in Nat /\ Len(frms) \in Nat
        BY <1>c, <2>2
      <3>3. i = Len(frms)
        BY ONLY <3>2
      <3> QED BY <3>1, <3>3
    <2> QED BY <2>1, <2>2
  <1>1. En!TypeOK'
    BY <1>a, <1>b, <1>d, <1>e, <1>f DEF En!TypeOK, Group
  <1>2. EncLoopInv'
    <2>1. Len(mid') \in Nat
      BY <1>e, LenProperties
    <2>2. pc' = "meta" => i' <= Len(mid') + 1
      BY <1>f, <2>1
    <2>3. frms # << >> /\ En!Acceptable(frms) /\ au_size = 0
      BY <1>a, <1>b DEF EncLoopInv, Encoding
    <2> QED BY <1>a, <1>f, <2>2, <2>3 DEF EncLoopInv, Encoding, En!Acceptable
  <1>3. EncHoldInv'
    BY <1>a, <1>b, <1>d, <1>f DEF EncHoldInv
  <1>4. EncRcInv'
    BY <1>a, <1>b, <1>f DEF EncRcInv, En!RcStaysWithSlot
  <1>5. EncChainInv'
    <2>1. Len(au) = i /\ Len(stat) = i
      BY <1>a, <1>b DEF EncChainInv
    <2>2. \A k \in DOMAIN au : En!NextAt(k)' = IF k < Len(au) THEN au[k + 1].beg ELSE cur
      BY <1>a, <1>b DEF EncChainInv, En!NextAt
    <2>3. \A k \in DOMAIN stat : /\ au[k].what = frms[k].pic /\ stat[k] = au[k].size
                                 /\ au[k].lost = 0 /\ au[k].size >= 4
      BY <1>a, <1>b DEF EncChainInv, Encoding
    <2>4. au_size = 0
      BY <1>a, <1>b DEF EncLoopInv, Encoding
    <2>5. pc' = "meta" => Len(au) = Len(frms) + i' - 1 /\ Len(stat) = Len(frms) /\ 1..(i' - 1) = {}
      <3>1. SUFFICES ASSUME pc' = "meta"
                     PROVE  Len(au) = Len(frms) + i' - 1 /\ Len(stat) = Len(frms) /\ 1..(i' - 1) = {}
        OBVIOUS
      <3>2. i' = 1 /\ i = Len(frms)
        BY <1>f, <3>1
      <3>3. Len(frms) + 1 - 1 = Len(frms) /\ 1..(1 - 1) = {}
        BY <1>c
      <3> QED BY <2>1, <3>2, <3>3
    <2> QED BY <1>a, <1>f, <2>1, <2>2, <2>3, <2>4, <2>5 DEF EncChainInv
  <1>6. EncHashInv'
    <2>1. ASSUME NEW k \in 1..i, En!Hashed(k),
                 \A m \in (k + 1)..i : En!Hashed(m) => frms[m].group # frms[k].group
          PROVE  \E j \in DOMAIN mid' : mid'[j].group = frms[k].group /\ mid'[j].hash = frms[k].pic
      <3>1. CASE k = i
        <4>1. En!Wanted
          BY <2>1, <3>1 DEF En!Wanted, En!Hashed, En!frm
        <4> QED BY <1>e, <3>1, <4>1 DEF En!frm
      <3>2. CASE k # i
        <4>1. k \in 1..(i - 1) /\ i \in (k + 1)..i /\ (k + 1)..(i - 1) \subseteq (k + 1)..i
          BY <1>c, <3>2
        <4>2. PICK j \in DOMAIN mid : mid[j].group = frms[k].group /\ mid[j].hash = frms[k].pic
          BY <1>a, <1>b, <2>1, <4>1 DEF EncHashInv, InContainer
        <4>3. En!Wanted => frms[i].group # frms[k].group
          BY <2>1, <4>1 DEF En!Wanted, En!Hashed, En!frm
        <4>4. j \in DOMAIN mid' /\ mid'[j] = mid[j]
          BY <1>e, <4>2, <4>3 DEF En!frm
        <4> QED BY <4>2, <4>4
      <3> QED BY <3>1, <3>2
    <2>2. ASSUME NEW k \in 1..i, En!Hashed(k)',
                 \A m \in (k + 1)..i : En!Hashed(m)' => frms'[m].group # frms'[k].group
          PROVE  \E j \in DOMAIN mid' : mid'[j].group = frms'[k].group /\ mid'[j].hash = frms'[k].pic
      <3>1. \A m : En!Hashed(m)' <=> En!Hashed(m)
        BY <1>a DEF En!Hashed
      <3> QED BY <1>a, <2>1, <2>2, <3>1
    <2>3. CASE pc' = "prepare"
      BY <1>f, <2>2, <2>3 DEF EncHashInv, InContainer
    <2>4. CASE pc' = "meta"
      BY <1>a, <1>f, <2>2, <2>4 DEF EncHashInv, InContainer
    <2> QED BY <1>f, <2>3, <2>4
  <1>7. EncMetaInv'
    <2>1. pc' = "meta" => 1..(i' - 1) = {}
      BY <1>f
    <2> QED BY <2>1 DEF EncMetaInv
  <1> QED BY <1>1, <1>2, <1>3, <1>4, <1>5, <1>6, <1>7 DEF EncInv

\* What can be written in whole registers of eight bytes where there is room
\* for h and then for some of the body.
LEMMA Registers ==
  ASSUME NEW left \in Nat, NEW body \in Nat
  PROVE  LET h    == IF left >= 8 THEN 8 ELSE 0
             full == body \div 8
             fit  == (left - h) \div 8
             in   == h + 8 * (IF full <= fit THEN full ELSE fit) + (body % 8)
         IN  /\ in \in Nat /\ in <= 8 + body
             /\ in < 8 + body => left - in < 8
             /\ left < 8 => in < 8 + body
  <1> DEFINE h == IF left >= 8 THEN 8 ELSE 0
             full == body \div 8
             rest == body % 8
             fit == (left - h) \div 8
             over == (left - h) % 8
  <1>1. h \in Nat /\ left - h \in Nat /\ (left < 8 => h = 0 /\ left - h < 8) /\ (left >= 8 => h = 8)
    OBVIOUS
  <1>2. full \in Nat /\ rest \in 0..7 /\ body = 8 * full + rest
    OBVIOUS
  <1> HIDE DEF h
  <1>3. fit \in Nat /\ over \in 0..7 /\ left - h = 8 * fit + over
    BY <1>1
  <1> HIDE DEF full, rest, fit, over
  <1>4. CASE full <= fit
    BY <1>1, <1>2, <1>3, <1>4 DEF h, full, rest, fit
  <1>5. CASE ~(full <= fit)
    BY <1>1, <1>2, <1>3, <1>5 DEF h, full, rest, fit
  <1> QED BY <1>4, <1>5

\* A PBU of metadata: all of it, or what its registers could hold, and then
\* less than another register is left.
LEMMA EncBytesIn ==
  ASSUME En!EncoderAssumption, EncInv, pc = "meta", i \in 1..Len(mid)
  PROVE  /\ En!Body \in Nat /\ En!Body >= 4 /\ En!BytesIn \in Nat
         /\ En!BytesIn <= 8 + En!Body
         /\ En!BytesIn < 8 + En!Body => room - (cur + En!BytesIn) < 8
         /\ room - cur < 8 => En!BytesIn < 8 + En!Body
  <1>1. /\ room \in Nat /\ cur \in Nat /\ cur <= room /\ HashSize \in Nat
        /\ mid[i] \in Group
    BY EncTypes DEF EncInv
  <1>2. En!Body \in Nat /\ En!Body >= 4
    BY <1>1 DEF En!Body, Group
  <1>3. En!Left \in Nat /\ En!Left = room - cur
    BY <1>1 DEF En!Left
  <1>4. En!BytesIn = (IF En!Left >= 8 THEN 8 ELSE 0)
          + 8 * (IF En!Body \div 8 <= (En!Left - (IF En!Left >= 8 THEN 8 ELSE 0)) \div 8
                 THEN En!Body \div 8 ELSE (En!Left - (IF En!Left >= 8 THEN 8 ELSE 0)) \div 8)
          + (En!Body % 8)
    BY DEF En!BytesIn, En!HeadIn, En!FullIn, En!PbuHead
  <1> DEFINE in == En!BytesIn
             body == En!Body
             left == En!Left
  <1> HIDE DEF in, body, left
  <1>5. /\ in \in Nat /\ in <= 8 + body
        /\ in < 8 + body => left - in < 8
        /\ left < 8 => in < 8 + body
    <2>1. body \in Nat /\ left \in Nat
      BY <1>2, <1>3 DEF body, left
    <2> QED BY <1>4, <2>1, Registers DEF in, body, left
  <1>6. left = room - cur
    BY <1>3 DEF left
  <1>7. left - in = room - (cur + in)
    BY <1>1, <1>5, <1>6
  <1> QED BY <1>2, <1>5, <1>6, <1>7 DEF in, body

LEMMA StillLess ==
  ASSUME NEW r \in Nat, NEW a \in Nat, NEW b \in Nat, r < a + 8, a <= b
  PROVE  r < b + 8
  OBVIOUS

LEMMA EncMeta ==
  ASSUME En!EncoderAssumption, EncInv, En!MetaWritten \/ En!MetaCut
  PROVE  EncInv'
  <1> DEFINE n == En!BytesIn
             l == 8 + En!Body - n
             w == IF l = 0 THEN mid[i].hash ELSE En!NULL
  <1>m. /\ pc = "meta" /\ i <= Len(mid) /\ En!Unnoticed /\ En!MetaPbu(l)
    <2>1. i \in Nat \ {0} /\ Len(mid) \in Nat
      BY EncTypes DEF EncInv
    <2>2. pc = "meta" /\ i <= Len(mid) /\ En!Unnoticed
      BY DEF En!MetaWritten, En!MetaCut
    <2>3. En!Body \in Nat /\ n \in Nat
      BY <2>1, <2>2, EncBytesIn
    <2>4. CASE En!MetaWritten
      <3>1. l = 0
        BY <2>3, <2>4 DEF En!MetaWritten, En!PbuHead
      <3> QED BY <2>2, <2>4, <3>1 DEF En!MetaWritten
    <2>5. CASE En!MetaCut
      BY <2>2, <2>5 DEF En!MetaCut, En!PbuHead
    <2> QED BY <2>4, <2>5
  <1>a. /\ pc = "meta" /\ i <= Len(mid) /\ cur' = cur + n /\ i' = i + 1
        /\ au' = Append(au, [what |-> w, group |-> mid[i].group, beg |-> cur, size |-> n - 4, lost |-> l])
        /\ UNCHANGED <<held, pc, frms, room, au_size, stat, mid, imgb_i, imgb_r, counts, shows, cells,
                       tile_cap, rc, rc_frm, coded, hashes, rbau>>
    BY <1>m DEF En!MetaPbu, En!PbuSize, En!NULL, En!callVars, En!imgVars, En!tileVars, En!rcVars, En!cfgVars
  <1>b. En!TypeOK /\ EncLoopInv /\ EncHoldInv /\ EncRcInv /\ EncChainInv /\ EncMetaInv /\ EncHashInv
    BY DEF EncInv
  <1>c. /\ i \in Nat \ {0} /\ i \in 1..Len(mid) /\ Len(mid) \in Nat /\ Len(mid) <= MaxMetas
        /\ MaxMetas \in Nat /\ MaxFrms \in Nat /\ Len(frms) \in Nat /\ Len(frms) <= MaxFrms
        /\ mid[i].hash \in En!Pics \cup {En!NULL} /\ mid[i].group \in Groups
        /\ DOMAIN stat = 1..Len(stat) /\ cur \in Nat /\ room \in Nat
    <2>1. i \in Nat \ {0} /\ Len(mid) \in Nat
      BY <1>b, EncTypes
    <2>2. i \in 1..Len(mid)
      BY <1>a, <2>1
    <2>3. mid[i] \in Group
      BY <1>b, <2>2, EncTypes
    <2>4. Len(mid) <= MaxMetas /\ Len(frms) <= MaxFrms
      BY <1>a, <1>b DEF En!TypeOK, EncLoopInv, Encoding, En!Acceptable
    <2> QED BY <1>b, <2>1, <2>2, <2>3, <2>4, EncTypes DEF Group
  <1>n. /\ n \in Nat /\ l \in Nat /\ cur + n <= room /\ w \in En!Pics \cup {En!NULL}
        /\ l # 0 => room < cur' + 8
        /\ room < cur + 8 => l # 0
        /\ l = 0 => n - 4 >= 4
    <2>1. /\ En!Body \in Nat /\ En!Body >= 4 /\ n \in Nat /\ n <= 8 + En!Body
          /\ n < 8 + En!Body => room - (cur + n) < 8
          /\ room - cur < 8 => n < 8 + En!Body
      BY <1>a, <1>c, EncBytesIn
    <2>2. n < room - cur
      BY <1>m DEF En!Unnoticed, En!Left
    <2>3. l = 8 + En!Body - n /\ w \in {mid[i].hash, En!NULL}
      OBVIOUS
    <2> HIDE DEF n, l, w
    <2>4. l \in Nat /\ (l # 0 => n < 8 + En!Body) /\ (n < 8 + En!Body => l # 0) /\ (l = 0 => n - 4 >= 4)
      BY <2>1, <2>3
    <2> QED BY <1>a, <1>c, <2>1, <2>2, <2>3, <2>4
  <1>w. l = 0 => w = mid[i].hash
    OBVIOUS
  <1> HIDE DEF n, l, w
  <1>d. /\ cur' \in 0..room' /\ cur <= cur'
        /\ au' \in Seq(PbuIn(cur')) /\ Len(au') = Len(au) + 1 /\ DOMAIN au' = 1..Len(au')
        /\ \A k \in 1..Len(au) : au'[k] = au[k]
        /\ au'[Len(au) + 1] = [what |-> w, group |-> mid[i].group, beg |-> cur, size |-> n - 4, lost |-> l]
        /\ \A k \in DOMAIN au' : En!NextAt(k)' = IF k < Len(au') THEN au'[k + 1].beg ELSE cur'
    BY <1>a, <1>b, <1>c, <1>n, EncAppended
  <1>e. Len(au) = Len(frms) + i - 1 /\ Len(stat) = Len(frms)
    BY <1>a, <1>b DEF EncChainInv
  <1>f. Len(au') = Len(frms) + i' - 1 /\ Len(au) + 1 = Len(frms) + i /\ i' - 1 = i /\ i' \in Nat \ {0}
    <2>1. i' = i + 1 /\ i \in Nat \ {0} /\ Len(frms) \in Nat /\ Len(au') = Len(au) + 1
      BY <1>a, <1>c, <1>d
    <2> QED BY ONLY <1>e, <2>1
  <1>g. stat \in Seq(0..cur')
    <2>1. stat \in Seq(0..cur) /\ cur \in Nat
      BY <1>b, EncTypes
    <2>2. 0..cur \subseteq 0..cur'
      BY <1>d, <2>1
    <2> QED BY <2>1, <2>2, SeqMonotonic
  <1>1. En!TypeOK'
    <2>1. au' \in Seq([what : En!Pics \cup {En!NULL}, group : Groups, beg : 0..cur', size : -4..cur',
                           lost : Nat])
      BY <1>d DEF PbuIn
    <2>2. Len(au') <= MaxFrms + MaxMetas
      <3>1. Len(au') = Len(frms) + i /\ i <= Len(mid)
        BY <1>c, <1>d, <1>f
      <3> QED BY ONLY <1>c, <3>1
    <2> QED BY <1>a, <1>b, <1>d, <1>f, <1>g, <2>1, <2>2 DEF En!TypeOK
  <1>2. EncLoopInv'
    <2>1. i' <= Len(mid) + 1
      BY <1>a, <1>c
    <2>2. frms # << >> /\ En!Acceptable(frms) /\ au_size = 0
      BY <1>a, <1>b DEF EncLoopInv, Encoding
    <2> QED BY <1>a, <2>1, <2>2 DEF EncLoopInv, Encoding, En!Acceptable
  <1>3. EncHoldInv'
    BY <1>a, <1>b DEF EncHoldInv
  <1>4. EncRcInv'
    BY <1>a, <1>b DEF EncRcInv, En!RcStaysWithSlot
  <1>5. EncChainInv'
    <2>1. ASSUME NEW k \in DOMAIN stat
          PROVE  /\ au'[k].what = frms[k].pic /\ stat[k] = au'[k].size
                 /\ au'[k].lost = 0 /\ au'[k].size >= 4
      <3>1. k \in 1..Len(au)
        BY <1>c, <1>e
      <3>2. au[k].what = frms[k].pic /\ stat[k] = au[k].size /\ au[k].lost = 0 /\ au[k].size >= 4
        BY <1>a, <1>b DEF EncChainInv, Encoding
      <3> QED BY <1>d, <3>1, <3>2
    <2>3. au_size = 0
      BY <1>a, <1>b DEF EncLoopInv, Encoding
    <2> QED BY <1>a, <1>d, <1>e, <1>f, <2>1, <2>3 DEF EncChainInv
  <1>6. EncHashInv'
    BY <1>a, <1>b DEF EncHashInv, InContainer, En!Hashed
  <1>7. EncMetaInv'
    <2> DEFINE at(k) == Len(frms) + k
    <2>1. \A k \in 1..(i - 1) : at(k) \in 1..Len(au) /\ au'[at(k)] = au[at(k)]
      BY <1>c, <1>d, <1>e
    <2>2. au'[at(i)] = [what |-> w, group |-> mid[i].group, beg |-> cur, size |-> n - 4, lost |-> l]
      BY <1>d, <1>f
    <2>3. \A k \in 1..i : k \in 1..(i - 1) \/ k = i
      BY <1>c
    <2>4. cur <= cur' /\ cur' \in Nat
      BY <1>a, <1>c, <1>n
    <2>5. ASSUME NEW k \in 1..(i - 1)
          PROVE  /\ au'[at(k)].group = mid[k].group
                 /\ \/ Whole(k)'
                    \/ room < cur' + 8 /\ \A m \in k..i : au'[at(m)].lost # 0
      <3>1. /\ au[at(k)].group = mid[k].group
            /\ \/ Whole(k)
               \/ room < cur + 8 /\ \A m \in k..(i - 1) : au[at(m)].lost # 0
        BY <1>a, <1>b DEF EncMetaInv
      <3>2. CASE Whole(k)
        <4>1. Whole(k)'
          BY <1>a, <2>1, <3>2 DEF Whole
        <4> QED BY <2>1, <3>1, <4>1
      <3>3. CASE room < cur + 8 /\ \A m \in k..(i - 1) : au[at(m)].lost # 0
        <4>1. room < cur' + 8
          BY <1>c, <2>4, <3>3, StillLess
        <4>2. ASSUME NEW m \in k..i PROVE au'[at(m)].lost # 0
          <5>1. CASE m = i
            BY <1>n, <2>2, <3>3, <5>1
          <5>2. CASE m # i
            <6>1. m \in k..(i - 1) /\ m \in 1..(i - 1)
              BY <1>c, <5>2
            <6> QED BY <2>1, <3>3, <6>1
          <5> QED BY <5>1, <5>2
        <4> QED BY <2>1, <3>1, <4>1, <4>2
      <3> QED BY <3>1, <3>2, <3>3
    <2>6. ASSUME NEW k \in 1..i, k = i
          PROVE  /\ au'[at(k)].group = mid[k].group
                 /\ \/ Whole(k)'
                    \/ room < cur' + 8 /\ \A m \in k..i : au'[at(m)].lost # 0
      <3>1. CASE l = 0
        <4>1. au'[at(k)].lost = 0 /\ au'[at(k)].size = n - 4 /\ au'[at(k)].what = mid[k].hash
          BY <1>w, <2>2, <2>6, <3>1
        <4>2. n - 4 >= 4
          BY <1>n, <3>1
        <4>3. au'[at(k)].size >= 4
          BY <4>1, <4>2
        <4>4. Whole(k)'
          BY <1>a, <4>1, <4>3 DEF Whole
        <4> QED BY <2>2, <2>6, <4>4
      <3>2. CASE l # 0
        <4>1. \A m \in k..i : m = i
          BY <1>c, <2>6
        <4> QED BY <1>n, <2>2, <2>6, <3>2, <4>1
      <3> QED BY <3>1, <3>2
    <2> HIDE DEF at
    <2>7. ASSUME NEW k \in 1..i
          PROVE  /\ au'[at(k)].group = mid[k].group
                 /\ \/ Whole(k)'
                    \/ room < cur' + 8 /\ \A m \in k..i : au'[at(m)].lost # 0
      BY <2>3, <2>5, <2>6
    <2> QED BY <1>a, <1>f, <2>7 DEF EncMetaInv, at
  <1> QED BY <1>1, <1>2, <1>3, <1>4, <1>5, <1>6, <1>7 DEF EncInv

LEMMA EncEncodeDone ==
  ASSUME En!EncoderAssumption, EncInv, En!EncodeDone
  PROVE  EncInv'
  <1>a. /\ pc = "meta" /\ pc' = "idle" /\ au_size' = IF rbau THEN cur - 4 ELSE au_size
        /\ UNCHANGED <<held, frms, room, i, cur, au, stat, mid, imgb_i, imgb_r, counts, shows, cells,
                       tile_cap, rc, rc_frm, coded, hashes, rbau>>
    BY DEF En!EncodeDone, En!PbuSize, En!callVars, En!imgVars, En!tileVars, En!rcVars, En!cfgVars
  <1>b. /\ En!TypeOK /\ EncLoopInv /\ EncHoldInv /\ EncRcInv /\ EncChainInv
        /\ cur \in Nat /\ room \in Nat /\ cur <= room
    BY EncTypes DEF EncInv
  <1>c. au_size = 0 /\ au_size' \in -4..room /\ (au_size' # 0 => au_size' + 4 = cur)
    <2>1. au_size = 0
      BY <1>a, <1>b DEF EncLoopInv, Encoding
    <2>2. au_size' = cur - 4 \/ au_size' = 0
      BY <1>a, <2>1
    <2> QED BY <1>b, <2>1, <2>2
  <1>1. En!TypeOK'
    BY <1>a, <1>b, <1>c DEF En!TypeOK
  <1>2. EncLoopInv'
    BY <1>a DEF EncLoopInv, Encoding
  <1>3. EncHoldInv'
    BY <1>a, <1>b DEF EncHoldInv
  <1>4. EncRcInv'
    BY <1>a, <1>b DEF EncRcInv, En!RcStaysWithSlot
  <1>5. EncChainInv'
    BY <1>a, <1>b, <1>c DEF EncChainInv, Encoding, En!NextAt
  <1>6. EncHashInv'
    BY <1>a DEF EncHashInv
  <1>7. EncMetaInv'
    BY <1>a DEF EncMetaInv
  <1> QED BY <1>1, <1>2, <1>3, <1>4, <1>5, <1>6, <1>7 DEF EncInv

----------------------------------------------------------------------------
(* The invariant holds in every state                                      *)

LEMMA DecStarts ==
  ASSUME De!DecoderAssumption, De!Init
  PROVE  DecInv
  <1>a. /\ held = {} /\ pc = "none" /\ call = "DECODE" /\ todo = << >> /\ wanted = {}
        /\ serial = 0 /\ tile = << >> /\ tile_cap = 0 /\ num_tiles = 0
        /\ pos_tiles = << >> /\ pos_cap = 0 /\ imgb = 0 /\ out = << >> /\ res = "OK"
        /\ refs = [s \in De!Image |-> 0] /\ pix = [s \in De!Image |-> 0]
        /\ md5 = [s \in De!Image |-> 0] /\ unhashed = {}
    BY DEF De!Init, De!NULL
  <1>b. /\ Len(<< >>) = 0 /\ << >> \in Seq(Pbus) /\ << >> \in Seq(0..0) /\ << >> \in Seq(Nat)
        /\ << >> \in Seq(De!Labels)
    BY EmptySeq
  <1>c. MaxFrames \in Nat \ {0}
    BY DEF De!DecoderAssumption
  <1>d. \A s \in De!Image : s # 0
    BY <1>c DEF De!Image
  <1>1. De!TypeOK
    BY <1>a, <1>b, <1>c DEF De!TypeOK, De!NULL
  <1>2. DecLoopInv
    BY <1>a DEF DecLoopInv, InHand
  <1>3. DecHoldInv
    BY <1>a, <1>d DEF DecHoldInv, De!NULL
  <1>4. DecArrayInv
    BY <1>a DEF DecArrayInv
  <1>5. DecHashInv
    BY <1>a DEF DecHashInv, De!HashIsThePictures, De!NULL
  <1> QED BY <1>1, <1>2, <1>3, <1>4, <1>5 DEF DecInv

LEMMA EncStarts ==
  ASSUME En!EncoderAssumption, En!Init
  PROVE  EncInv
  <1>a. /\ held = {} /\ pc = "none" /\ frms = << >> /\ room = 0 /\ i = 1 /\ cur = 0
        /\ au = << >> /\ au_size = 0 /\ stat = << >> /\ mid = << >>
        /\ counts = [m \in Images |-> 0] /\ shows = [m \in Images |-> En!NULL]
        /\ imgb_i = En!NULL /\ imgb_r = En!NULL /\ cells = 0 /\ tile_cap = 0
        /\ rc = << >> /\ rc_frm = [s \in En!Slot |-> << >>] /\ coded = [s \in En!Slot |-> << >>]
        /\ hashes = [s \in En!Slot |-> FALSE] /\ rbau = TRUE
    BY DEF En!Init, En!NULL
  <1>b. /\ Len(<< >>) = 0 /\ DOMAIN << >> = {} /\ << >> \in Seq(Frames) /\ << >> \in Seq(0..0)
        /\ << >> \in Seq([what : En!Pics \cup {En!NULL}, group : Groups, beg : 0..0, size : -4..0, lost : Nat])
        /\ << >> \in Seq([group : Groups, hash : En!Pics \cup {En!NULL}, other : Nat])
        /\ << >> \in Seq(En!Pics)
    BY EmptySeq
  <1>c. MaxFrms \in Nat \ {0} /\ MaxMetas \in Nat /\ 0 <= MaxFrms + MaxMetas
    BY DEF En!EncoderAssumption
  <1>1. En!TypeOK
    BY <1>a, <1>b, <1>c DEF En!TypeOK
  <1>2. EncLoopInv
    BY <1>a DEF EncLoopInv, Encoding
  <1>3. EncHoldInv
    BY <1>a DEF EncHoldInv
  <1>4. EncRcInv
    BY <1>a DEF EncRcInv, En!RcStaysWithSlot
  <1>5. EncChainInv
    BY <1>a, <1>b DEF EncChainInv, Encoding
  <1>6. EncHashInv
    BY <1>a DEF EncHashInv
  <1>7. EncMetaInv
    BY <1>a DEF EncMetaInv
  <1> QED BY <1>1, <1>2, <1>3, <1>4, <1>5, <1>6, <1>7 DEF EncInv

\* A step in which nothing changes.
LEMMA Stutters ==
  ASSUME IInv, UNCHANGED vars
  PROVE  IInv'
  <1>a. UNCHANGED <<use, held, pc, serial, res, tile_cap>> /\ UNCHANGED decVars /\ UNCHANGED encVars
    BY DEF vars
  <1>1. CASE use = "dec"
    <2>1. DecInv
      BY <1>1 DEF IInv
    <2>2. UNCHANGED <<held, pc, serial, res, tile_cap, call, given, todo, limit, wanted, fh, tile,
                      num_tiles, pos_tiles, pos_cap, imgb, refs, use_hash, pix, md5, unhashed, out>>
      BY <1>a DEF decVars
    <2>3. De!TypeOK' /\ DecLoopInv' /\ DecHoldInv' /\ DecArrayInv' /\ DecHashInv'
      BY <2>1, <2>2 DEF DecInv, De!TypeOK, DecLoopInv, InHand, DecHoldInv, DecArrayInv, De!Count,
           De!DstIsThisCalls, De!SizesAreThisFrames, DecHashInv, De!HashIsThePictures
    <2> QED BY <1>1, <1>a, <2>3 DEF IInv, DecInv
  <1>2. CASE use = "enc"
    <2>1. EncInv
      BY <1>2 DEF IInv
    <2>2. UNCHANGED <<held, pc, serial, res, tile_cap, frms, room, i, cur, au, au_size, stat, mid,
                      imgb_i, imgb_r, rc, rc_frm, coded, rbau, cells, counts, hashes, shows>>
      BY <1>a DEF encVars
    <2>3. En!TypeOK' /\ EncLoopInv' /\ EncHoldInv' /\ EncRcInv'
      BY <2>1, <2>2 DEF EncInv, En!TypeOK, EncLoopInv, Encoding, En!Acceptable, En!frm, En!FrameEnd,
           EncHoldInv, En!Held, EncRcInv, En!RcStaysWithSlot
    <2>4. EncChainInv' /\ EncMetaInv' /\ EncHashInv'
      BY <2>1, <2>2 DEF EncInv, EncChainInv, Encoding, En!NextAt, EncMetaInv, Whole, EncHashInv,
           InContainer, En!Hashed
    <2> QED BY <1>2, <1>a, <2>3, <2>4 DEF IInv, EncInv
  <1> QED BY <1>1, <1>2 DEF IInv

\* The steps of a decoder, and those of an encoder.
DecStep ==
  \/ De!Create \/ De!Delete \/ \E k \in 0..(Len(De!Order) - 1) : De!CreateFails(k)
  \/ \E u \in CodedUnits, k \in Limits : De!Decode(u, k)
  \/ \E p \in Pbus : De!DecodeFrame(p)
  \/ \E p \in Pbus : p.kind = "FRAME" /\ \E w \in SUBSET DOMAIN p.real : De!DecodeTiles(p, w)
  \/ De!Config
  \/ De!PbuBroken \/ De!NotAFrame \/ De!OtherPbu \/ De!BadContent
  \/ De!NoRoomForFrame \/ De!ReadHeader \/ De!AllRead
  \/ De!SetupRejects \/ De!SetupNoMemory \/ De!Setup
  \/ De!SizesNoMemory \/ De!Sizes \/ De!HoldRejects \/ De!Hold
  \/ De!FrameTiles \/ De!HashRefused \/ De!FrameTail \/ De!WantedTiles

EncStep ==
  \/ En!Create \/ En!Delete \/ \E k \in 0..(Len(En!Order) - 1) : En!CreateFails(k)
  \/ En!ConfigFmt \/ En!ClearMetadata
  \/ \E s \in En!Slot : En!ConfigHash(s)
  \/ \E g \in Groups, n \in Payloads : En!FillMetadata(g, n)
  \/ \E fs \in FrameUnits : En!Refused(fs)
  \/ \E fs \in FrameUnits, n \in Rooms : En!Encode(fs, n)
  \/ En!PrepareRejects \/ En!PrepareNoMemory \/ En!PrepareRejectsLate
  \/ En!Prepared \/ En!FrameFails \/ En!FrameCoded \/ En!FrameFills \/ En!FrameSized
  \/ En!HashFails \/ En!FrameDone \/ En!MetaWritten \/ En!MetaFails \/ En!MetaCut
  \/ En!EncodeDone

LEMMA EitherKind ==
  ASSUME Next
  PROVE  /\ UNCHANGED use
         /\ \/ use = "dec" /\ DecStep
            \/ use = "enc" /\ EncStep
  <1>1. CASE use = "dec"
    BY <1>1 DEF Next, Dec, Enc, DecStep
  <1>2. CASE use = "enc"
    BY <1>2 DEF Next, Dec, Enc, EncStep
  <1>3. use \in {"dec", "enc"}
    BY DEF Next, Dec, Enc
  <1> QED BY <1>1, <1>2, <1>3

LEMMA DecPreserves ==
  ASSUME De!DecoderAssumption, DecInv, DecStep
  PROVE  DecInv'
  BY DecCreate, DecDelete, DecCalled, DecConfig, DecReturns, DecOtherPbu, DecReadHeader,
     DecSetupNoMemory, DecSetup, DecSizesNoMemory, DecSizes, DecHold, DecFrameTiles, DecFrameTail
  DEF DecStep

LEMMA EncPreserves ==
  ASSUME En!EncoderAssumption, EncInv, EncStep
  PROVE  EncInv'
  BY EncCreate, EncDelete, EncBetween, EncCalled, EncReturns, EncPrepared, EncFrameCoded,
     EncFrameSized, EncFrameDone, EncMeta, EncEncodeDone
  DEF EncStep

\* The invariant from which the properties follow, for every value of the
\* constants.
THEOREM Invariance == ASSUME CodecAssumption PROVE Spec => []IInv
  <1>1. Init => IInv
    BY DecStarts, EncStarts DEF Init, IInv, CodecAssumption
  <1>2. IInv /\ [Next]_vars => IInv'
    <2> SUFFICES ASSUME IInv, [Next]_vars  PROVE IInv'
      OBVIOUS
    <2>1. CASE UNCHANGED vars
      BY <2>1, Stutters
    <2>2. CASE Next
      <3>1. CASE use = "dec" /\ DecStep
        <4>1. DecInv'
          BY <3>1, DecPreserves DEF IInv, CodecAssumption
        <4> QED BY <2>2, <3>1, <4>1, EitherKind DEF IInv
      <3>2. CASE use = "enc" /\ EncStep
        <4>1. EncInv'
          BY <3>2, EncPreserves DEF IInv, CodecAssumption
        <4> QED BY <2>2, <3>2, <4>1, EitherKind DEF IInv
      <3> QED BY <2>2, <3>1, <3>2, EitherKind
    <2> QED BY <2>1, <2>2
  <1> QED BY <1>1, <1>2, PTL DEF Spec

----------------------------------------------------------------------------
(* What holds of every call                                                *)

\* Whatever failed before, the threads of a decoder compare with the sizes of
\* this frame's header and write where this call wants it, in arrays that have
\* a cell for each tile; and an encoder codes a frame with an array that holds
\* its tiles, into its own image for the reconstruction (dec_frm_prepare,
\* enc_frm_prepare and the allocations they keep between calls).
THEOREM WhatIsKeptIsThisFrames == ASSUME CodecAssumption PROVE Spec => []NothingStale
  <1>1. ASSUME DecInv PROVE De!NothingStale
    <2>1. tile_cap = Len(tile) /\ pos_cap = Len(pos_tiles)
      BY <1>1 DEF DecInv, De!TypeOK
    <2> QED BY <1>1, <2>1 DEF DecInv, DecArrayInv, De!NothingStale, De!ArraysCover
  <1>2. ASSUME EncInv PROVE En!NothingStale
    <2>1. cells = tile_cap
      BY <1>2 DEF EncInv, En!TypeOK
    <2> QED BY <1>2, <2>1 DEF EncInv, EncLoopInv, EncHoldInv, En!NothingStale
  <1>3. IInv => NothingStale
    BY <1>1, <1>2 DEF IInv, NothingStale
  <1> QED BY <1>3, Invariance, PTL

\* Every reference taken on a caller's image is given back on every way out of
\* a call, and an instance that is deleted or could not be created leaves
\* neither thread nor core nor lock behind, for any number of threads.
THEOREM NothingIsLeftHeld == ASSUME CodecAssumption PROVE Spec => []RefsBalanced
  <1>1. ASSUME DecInv PROVE De!RefsBalanced
    <2>1. De!Obtained(Len(De!Order)) = De!Range(De!Order)
      <3>1. De!Order \in Seq(Things)
        BY DecOrder DEF CodecAssumption
      <3>2. DOMAIN De!Order = 1..Len(De!Order)
        BY <3>1, LenProperties
      <3> QED BY <3>2 DEF De!Obtained, De!Range
    <2> QED BY <1>1, <2>1 DEF DecInv, DecHoldInv, De!RefsBalanced
  <1>2. ASSUME EncInv PROVE En!RefsBalanced
    <2>1. En!Obtained(Len(En!Order)) = En!Range(En!Order)
      <3>1. En!Order \in Seq(Things)
        BY EncOrder DEF CodecAssumption
      <3>2. DOMAIN En!Order = 1..Len(En!Order)
        BY <3>1, LenProperties
      <3> QED BY <3>2 DEF En!Obtained, En!Range
    <2> QED BY <1>2, <2>1 DEF EncInv, EncHoldInv, En!RefsBalanced
  <1>3. IInv => RefsBalanced
    BY <1>1, <1>2 DEF IInv, RefsBalanced
  <1> QED BY <1>3, Invariance, PTL

\* At the end of a call that succeeds every group has its PBU.
LEMMA AtReturn ==
  ASSUME En!EncoderAssumption, EncInv, En!Returning
  PROVE  /\ Len(frms) \in Nat /\ Len(mid) \in Nat /\ DOMAIN frms = 1..Len(frms)
         /\ DOMAIN mid = 1..Len(mid) /\ DOMAIN au = 1..Len(au) /\ DOMAIN stat = 1..Len(stat)
         /\ Len(au) = Len(frms) + Len(mid) /\ Len(stat) = Len(frms)
         /\ \A k \in 1..Len(au) : En!NextAt(k) = IF k < Len(au) THEN au[k + 1].beg ELSE cur
         /\ \A k \in 1..Len(mid) :
              /\ Len(frms) + k \in DOMAIN au /\ au[Len(frms) + k].group = mid[k].group
              /\ \/ En!Found(Len(frms) + k) /\ au[Len(frms) + k].what = mid[k].hash
                 \/ room < cur + 8 /\ \A n \in k..Len(mid) : ~En!Found(Len(frms) + n)
  <1>1. /\ Len(frms) \in Nat /\ Len(mid) \in Nat /\ DOMAIN frms = 1..Len(frms)
        /\ DOMAIN mid = 1..Len(mid) /\ DOMAIN au = 1..Len(au) /\ DOMAIN stat = 1..Len(stat)
        /\ i \in Nat
    BY EncTypes DEF EncInv
  <1>2. pc = "meta" /\ i > Len(mid) /\ i <= Len(mid) + 1
    BY DEF EncInv, EncLoopInv, En!Returning
  <1>3. i - 1 = Len(mid) /\ Len(frms) + i - 1 = Len(frms) + Len(mid)
    BY ONLY <1>1, <1>2
  <1>4. Len(au) = Len(frms) + i - 1 /\ Len(stat) = Len(frms)
    BY <1>2 DEF EncInv, EncChainInv
  <1>5. \A k \in 1..Len(au) : En!NextAt(k) = IF k < Len(au) THEN au[k + 1].beg ELSE cur
    BY <1>1 DEF EncInv, EncChainInv
  <1>6. ASSUME NEW k \in 1..Len(mid)
        PROVE  /\ Len(frms) + k \in DOMAIN au /\ au[Len(frms) + k].group = mid[k].group
               /\ \/ En!Found(Len(frms) + k) /\ au[Len(frms) + k].what = mid[k].hash
                  \/ room < cur + 8 /\ \A n \in k..Len(mid) : ~En!Found(Len(frms) + n)
    <2>1. Len(frms) + k \in 1..Len(au)
      BY <1>1, <1>3, <1>4
    <2>2. /\ au[Len(frms) + k].group = mid[k].group
          /\ \/ Whole(k)
             \/ room < cur + 8 /\ \A n \in k..Len(mid) : au[Len(frms) + n].lost # 0
      BY <1>2, <1>3 DEF EncInv, EncMetaInv
    <2>3. CASE Whole(k)
      BY <1>1, <1>5, <2>1, <2>2, <2>3 DEF Whole, En!Found
    <2>4. CASE room < cur + 8 /\ \A n \in k..Len(mid) : au[Len(frms) + n].lost # 0
      BY <1>1, <2>1, <2>2, <2>4 DEF En!Found
    <2> QED BY <2>2, <2>3, <2>4
  <1> QED BY <1>1, <1>3, <1>4, <1>5, <1>6

\* A hash that a decoder leaves in an image is of the frame the image holds
\* unless the image was found unfit for one, and a frame that is reported has
\* its hash exactly if hashes are asked for (oapv_imgb_set_md5 in
\* oapvd_decode).  For the last frame of each group whose hash is asked for an
\* encoder writes the hash of what it reconstructed, whatever hash the
\* container held; it is lost only where less than eight bytes are left (the
\* loop at the end of oapve_encode).
THEOREM HashesAreTrue == ASSUME CodecAssumption PROVE Spec => []HashIsThePictures
  <1>1. ASSUME EncInv PROVE En!HashIsTheFrames
    <2>1. SUFFICES ASSUME En!Returning, NEW k \in DOMAIN frms, En!LastHashed(k)
                   PROVE  \E n \in DOMAIN au :
                            /\ n > Len(frms) /\ au[n].group = frms[k].group
                            /\ \/ En!Found(n) /\ au[n].what = frms[k].pic
                               \/ room < cur + 8 /\ ~En!Found(n)
      BY DEF En!HashIsTheFrames
    <2>2. En!EncoderAssumption
      BY DEF CodecAssumption
    <2>3. /\ Len(frms) \in Nat /\ Len(mid) \in Nat /\ DOMAIN frms = 1..Len(frms)
          /\ DOMAIN mid = 1..Len(mid)
          /\ \A j \in 1..Len(mid) :
               /\ Len(frms) + j \in DOMAIN au /\ au[Len(frms) + j].group = mid[j].group
               /\ \/ En!Found(Len(frms) + j) /\ au[Len(frms) + j].what = mid[j].hash
                  \/ room < cur + 8 /\ \A n \in j..Len(mid) : ~En!Found(Len(frms) + n)
      BY <1>1, <2>1, <2>2, AtReturn
    <2>4. InContainer(Len(frms))
      BY <1>1, <2>1 DEF EncInv, EncHashInv, En!Returning
    <2>5. \A m \in (k + 1)..Len(frms) : En!Hashed(m) => frms[m].group # frms[k].group
      <3>1. \A m \in (k + 1)..Len(frms) : m \in DOMAIN frms /\ m > k
        BY <2>3
      <3> QED BY <2>1, <3>1 DEF En!LastHashed
    <2>6. PICK j \in DOMAIN mid : mid[j].group = frms[k].group /\ mid[j].hash = frms[k].pic
      BY <2>1, <2>3, <2>4, <2>5 DEF InContainer, En!LastHashed
    <2>7. Len(frms) + j \in DOMAIN au /\ Len(frms) + j > Len(frms) /\ j \in j..Len(mid)
      BY <2>3
    <2> QED BY <2>3, <2>6, <2>7
  <1>2. IInv => HashIsThePictures
    BY <1>1 DEF IInv, DecInv, DecHashInv, HashIsThePictures
  <1> QED BY <1>2, Invariance, PTL

\* What rate control has learned in a frame slot comes from the frames coded
\* in that slot, each of them once and in their order, for any number of calls
\* with any failures between them, those that come after the slot was saved
\* included (ctx->rc_param_frm in oapve_encode).
THEOREM RateControlKeepsToItsSlot == ASSUME CodecAssumption PROVE Spec => []RcStaysWithSlot
  <1>1. IInv => RcStaysWithSlot
    BY DEF IInv, EncInv, EncRcInv, RcStaysWithSlot
  <1> QED BY <1>1, Invariance, PTL

\* A reader that steps from size to size finds every frame of an access unit
\* that was encoded, whole, and every group of metadata, unless less than eight
\* bytes of the output are left, which may have cost the last groups.
THEOREM SizesLeadToTheEnd == ASSUME CodecAssumption PROVE Spec => []SizesLeadThrough
  <1>1. ASSUME EncInv PROVE En!SizesLeadThrough
    <2>1. au_size # 0 => au_size + 4 = cur
      BY <1>1 DEF EncInv, EncChainInv
    <2>2. SUFFICES ASSUME En!Returning
                   PROVE  /\ Len(au) = Len(frms) + Len(mid) /\ Len(stat) = Len(frms)
                          /\ \A k \in DOMAIN frms :
                               En!Found(k) /\ au[k].what = frms[k].pic /\ stat[k] = au[k].size
                          /\ \A k \in DOMAIN mid :
                               /\ au[Len(frms) + k].group = mid[k].group
                               /\ \/ En!Found(Len(frms) + k) /\ au[Len(frms) + k].what = mid[k].hash
                                  \/ room < cur + 8
                                     /\ \A n \in k..Len(mid) : ~En!Found(Len(frms) + n)
      BY <2>1 DEF En!SizesLeadThrough
    <2>3. /\ DOMAIN frms = 1..Len(frms) /\ DOMAIN mid = 1..Len(mid) /\ DOMAIN stat = 1..Len(stat)
          /\ Len(frms) \in Nat /\ Len(mid) \in Nat
          /\ Len(au) = Len(frms) + Len(mid) /\ Len(stat) = Len(frms)
          /\ \A k \in 1..Len(au) : En!NextAt(k) = IF k < Len(au) THEN au[k + 1].beg ELSE cur
          /\ \A k \in 1..Len(mid) :
               /\ au[Len(frms) + k].group = mid[k].group
               /\ \/ En!Found(Len(frms) + k) /\ au[Len(frms) + k].what = mid[k].hash
                  \/ room < cur + 8 /\ \A n \in k..Len(mid) : ~En!Found(Len(frms) + n)
      BY <1>1, <2>2, AtReturn DEF CodecAssumption
    <2>4. \A k \in DOMAIN stat : /\ au[k].what = frms[k].pic /\ stat[k] = au[k].size
                                 /\ au[k].lost = 0 /\ au[k].size >= 4
      BY <1>1, <2>2 DEF EncInv, EncChainInv, Encoding, En!Returning
    <2>5. \A k \in DOMAIN frms : En!Found(k) /\ k \in DOMAIN stat
      <3>1. \A k \in DOMAIN frms : k \in DOMAIN stat /\ k \in 1..Len(au)
        BY <2>3
      <3> QED BY <2>3, <2>4, <3>1 DEF En!Found
    <2> QED BY <2>3, <2>4, <2>5
  <1>2. IInv => SizesLeadThrough
    BY <1>1 DEF IInv, SizesLeadThrough
  <1> QED BY <1>2, Invariance, PTL

----------------------------------------------------------------------------
(* The frames among a sequence of PBUs                                     *)

FramePbu == {p \in Pbus : p.kind = "FRAME"}

\* FramesTo is the function its recursive definition describes.
LEMMA FramesToIs ==
  ASSUME NEW s \in Seq(Pbus)
  PROVE  De!FramesTo(s) = [n \in 0..Len(s) |->
           IF n = 0 THEN << >> ELSE IF s[n].kind = "FRAME" THEN Append(De!FramesTo(s)[n - 1], s[n])
                               ELSE De!FramesTo(s)[n - 1]]
  <1> DEFINE N == Len(s)
             Is(f) == f = [n \in 0..Len(s) |->
                             IF n = 0 THEN << >> ELSE IF s[n].kind = "FRAME" THEN Append(f[n - 1], s[n])
                                                 ELSE f[n - 1]]
             S == Seq(Pbus)
             Step(n, v) == IF s[n].kind = "FRAME" THEN Append(v, s[n]) ELSE v
  <1>0. N \in Nat /\ << >> \in S
    BY LenProperties, EmptySeq
  <1>1. PICK rule \in Rule(N, S) : \A n \in 1..N, v \in S : rule[n][v] = Step(n, v)
    <2>1. \A n \in 1..N, v \in S : Step(n, v) \in S
      BY ElementOfSeq, AppendProperties
    <2> HIDE DEF Step, S, N
    <2>2. [n \in 1..N |-> [v \in S |-> Step(n, v)]] \in Rule(N, S)
      BY <2>1 DEF Rule
    <2> QED BY <2>2
  <1>2. PICK f : Follows(f, N, S, << >>, rule)
    <2> HIDE DEF N, S
    <2> QED BY <1>0, Recursion
  <1>3. \A n \in 1..N : f[n] = Step(n, f[n - 1])
    <2>1. \A n \in 1..N : n - 1 \in 0..N
      BY <1>0
    <2>2. \A n \in 1..N : f[n - 1] \in S
      BY <1>2, <2>1 DEF Follows
    <2> HIDE DEF Step, S, N
    <2> QED BY <1>1, <1>2, <2>2 DEF Follows
  <1>4. Is(f)
    <2>1. f \in [0..N -> S] /\ f[0] = << >>
      BY <1>2 DEF Follows
    <2>2. ASSUME NEW n \in 0..N
          PROVE  f[n] = IF n = 0 THEN << >> ELSE Step(n, f[n - 1])
      <3>1. n = 0 \/ n \in 1..N
        BY <1>0
      <3> HIDE DEF Step
      <3> QED BY <1>3, <2>1, <3>1
    <2>3. f = [n \in 0..N |-> f[n]]
      BY <2>1
    <2> QED BY <2>2, <2>3
  <1>5. De!FramesTo(s) = CHOOSE g : Is(g)
    BY DEF De!FramesTo
  <1> HIDE DEF Is
  <1>6. Is(De!FramesTo(s))
    BY <1>4, <1>5
  <1> QED BY <1>6 DEF Is

\* They are sequences of frames, each the one before and the next PBU if that
\* is a frame.
LEMMA FramesGrow ==
  ASSUME NEW s \in Seq(Pbus)
  PROVE  /\ Len(s) \in Nat
         /\ De!FramesTo(s)[0] = << >>
         /\ \A n \in 0..Len(s) : De!FramesTo(s)[n] \in Seq(FramePbu)
         /\ \A n \in 1..Len(s) : De!FramesTo(s)[n] =
              IF s[n].kind = "FRAME" THEN Append(De!FramesTo(s)[n - 1], s[n])
              ELSE De!FramesTo(s)[n - 1]
  <1> DEFINE F == De!FramesTo(s)
             T == {n \in 0..Len(s) : F[n] \in Seq(FramePbu)}
  <1>1. F = [n \in 0..Len(s) |->
               IF n = 0 THEN << >> ELSE IF s[n].kind = "FRAME" THEN Append(F[n - 1], s[n])
                                   ELSE F[n - 1]]
    BY FramesToIs
  <1> HIDE DEF F
  <1>2. Len(s) \in Nat /\ \A n \in 1..Len(s) : s[n] \in Pbus
    BY LenProperties, ElementOfSeq
  <1>3. F[0] = << >> /\ \A n \in 1..Len(s) : F[n] = IF s[n].kind = "FRAME" THEN Append(F[n - 1], s[n])
                                                   ELSE F[n - 1]
    <2>1. 0 \in 0..Len(s) /\ \A n \in 1..Len(s) : n \in 0..Len(s) /\ n # 0
      BY <1>2
    <2>2. F[0] = << >>
      BY ONLY <1>1, <2>1
    <2>3. ASSUME NEW n \in 1..Len(s)
          PROVE  F[n] = IF s[n].kind = "FRAME" THEN Append(F[n - 1], s[n]) ELSE F[n - 1]
      <3>1. n \in 0..Len(s) /\ n # 0
        BY <2>1
      <3> QED BY ONLY <1>1, <3>1, Zenon
    <2> QED BY <2>2, <2>3
  <1>4. 0 \in T
    <2>1. << >> \in Seq(FramePbu) /\ 0 \in 0..Len(s)
      BY <1>2, EmptySeq
    <2> QED BY <1>3, <2>1
  <1>5. ASSUME NEW k \in T, k \in 0..(Len(s) - 1) PROVE k + 1 \in T
    <2>1. k + 1 \in 1..Len(s) /\ k + 1 \in 0..Len(s) /\ (k + 1) - 1 = k
      BY <1>2, <1>5
    <2>2. F[k] \in Seq(FramePbu)
      OBVIOUS
    <2>3. CASE s[k + 1].kind = "FRAME"
      <3>1. s[k + 1] \in FramePbu
        BY <1>2, <2>1, <2>3 DEF FramePbu
      <3>2. F[k + 1] = Append(F[k], s[k + 1])
        BY <1>3, <2>1, <2>3
      <3>3. Append(F[k], s[k + 1]) \in Seq(FramePbu)
        BY <2>2, <3>1, AppendProperties
      <3> QED BY <2>1, <3>2, <3>3
    <2>4. CASE s[k + 1].kind # "FRAME"
      <3>1. F[k + 1] = F[k]
        BY <1>3, <2>1, <2>4
      <3> QED BY <2>1, <2>2, <3>1
    <2> QED BY <2>3, <2>4
  <1> HIDE DEF T
  <1>6. \A n \in 0..Len(s) : n \in T
    BY <1>2, <1>4, <1>5, UpTo
  <1> QED BY <1>2, <1>3, <1>6 DEF F, T

\* There are no more of them among fewer PBUs.
LEMMA FramesMore ==
  ASSUME NEW s \in Seq(Pbus), NEW n \in 0..Len(s)
  PROVE  Len(De!FramesTo(s)[n]) <= Len(De!FramesTo(s)[Len(s)])
  <1> DEFINE F == De!FramesTo(s)
             N == Len(s) - n
             T == {k \in 0..N : Len(F[n]) <= Len(F[n + k])}
  <1>1. /\ Len(s) \in Nat
        /\ \A k \in 0..Len(s) : F[k] \in Seq(FramePbu)
        /\ \A k \in 1..Len(s) : F[k] = IF s[k].kind = "FRAME" THEN Append(F[k - 1], s[k]) ELSE F[k - 1]
    BY FramesGrow
  <1> HIDE DEF F
  <1>2. \A k \in 0..Len(s) : Len(F[k]) \in Nat
    BY <1>1, LenProperties
  <1>3. N \in Nat /\ n \in Nat /\ n + N = Len(s)
    BY <1>1
  <1>4. 0 \in T
    BY <1>2, <1>3
  <1>5. ASSUME NEW k \in T, k \in 0..(N - 1) PROVE k + 1 \in T
    <2>1. n + k \in 0..Len(s) /\ n + k + 1 \in 1..Len(s) /\ (n + k + 1) - 1 = n + k /\ k + 1 \in 0..N
          /\ n + (k + 1) = n + k + 1
      BY <1>3, <1>5
    <2>2. Len(F[n + k]) <= Len(F[n + k + 1])
      <3>1. CASE s[n + k + 1].kind = "FRAME"
        <4>1. F[n + k + 1] = Append(F[n + k], s[n + k + 1])
          BY <1>1, <2>1, <3>1
        <4>2. s[n + k + 1] \in FramePbu
          BY <2>1, <3>1, ElementOfSeq DEF FramePbu
        <4>3. Len(F[n + k + 1]) = Len(F[n + k]) + 1
          BY <1>1, <2>1, <4>1, <4>2, AppendProperties
        <4> QED BY <1>2, <2>1, <4>3
      <3>2. CASE s[n + k + 1].kind # "FRAME"
        <4>1. F[n + k + 1] = F[n + k]
          BY <1>1, <2>1, <3>2
        <4> QED BY <1>2, <2>1, <4>1
      <3> QED BY <3>1, <3>2
    <2>3. Len(F[n]) <= Len(F[n + k])
      OBVIOUS
    <2>4. Len(F[n]) \in Nat /\ Len(F[n + k]) \in Nat /\ Len(F[n + k + 1]) \in Nat
      BY <1>2, <2>1
    <2>5. Len(F[n]) <= Len(F[n + (k + 1)])
      BY <2>1, <2>2, <2>3, <2>4
    <2> QED BY <2>1, <2>5
  <1> HIDE DEF T, N
  <1>6. N \in T
    BY <1>3, <1>4, <1>5, UpTo
  <1> QED BY <1>3, <1>6 DEF F, T

\* Those of a front are those of the whole up to there.
LEMMA FramesOfFront ==
  ASSUME NEW s \in Seq(Pbus), NEW n \in 0..Len(s)
  PROVE  /\ SubSeq(s, 1, n) \in Seq(Pbus) /\ Len(SubSeq(s, 1, n)) = n
         /\ \A k \in 1..n : SubSeq(s, 1, n)[k] = s[k]
         /\ De!FramesTo(SubSeq(s, 1, n))[n] = De!FramesTo(s)[n]
  <1> DEFINE t == SubSeq(s, 1, n)
             T == {k \in 0..n : De!FramesTo(t)[k] = De!FramesTo(s)[k]}
  <1>1. Len(s) \in Nat /\ n \in Nat
    BY LenProperties
  <1>2. t \in Seq(Pbus) /\ Len(t) = n /\ \A k \in 1..n : t[k] = s[k]
    BY <1>1, SubSeqProperties
  <1> HIDE DEF t
  <1>3. 0 \in T
    BY <1>1, <1>2, FramesGrow
  <1>4. ASSUME NEW k \in T, k \in 0..(n - 1) PROVE k + 1 \in T
    <2>1. k + 1 \in 1..n /\ k + 1 \in 1..Len(s) /\ (k + 1) - 1 = k /\ k + 1 \in 0..n
      BY <1>1, <1>4
    <2>2. De!FramesTo(t)[k + 1] = IF t[k + 1].kind = "FRAME" THEN Append(De!FramesTo(t)[k], t[k + 1])
                                  ELSE De!FramesTo(t)[k]
      BY <1>2, <2>1, FramesGrow
    <2>3. De!FramesTo(s)[k + 1] = IF s[k + 1].kind = "FRAME" THEN Append(De!FramesTo(s)[k], s[k + 1])
                                  ELSE De!FramesTo(s)[k]
      BY <2>1, FramesGrow
    <2> QED BY <1>2, <2>1, <2>2, <2>3
  <1> HIDE DEF T
  <1>5. n \in T
    BY <1>1, <1>3, <1>4, UpTo
  <1> QED BY <1>2, <1>5 DEF T, t

----------------------------------------------------------------------------
(* The walk of a decoder over the PBUs of a call                           *)

\* The first n PBUs were sound, their frames are those reported, and each image
\* holds its frame.
Walked(n) ==
  /\ \A k \in 1..n : /\ given[k].kind # "BROKEN"
                     /\ given[k].kind = "FRAME" => given[k].header # "bad"
  /\ Len(out) = Len(De!FramesTo(given)[n])
  /\ \A k \in 1..Len(out) : LET p == De!FramesTo(given)[n][k]
                            IN  /\ out[k] = p.label /\ pix[k] = p.label
                                /\ p.sound /\ p.filler /\ p.hdr \in {<< >>, p.real}

\* What is left is the rest of what was given.
Rest == /\ Len(todo) <= Len(given)
        /\ \A k \in 1..Len(todo) : todo[k] = given[(Len(given) - Len(todo)) + k]

DecWalkInv ==
  /\ given \in Seq(Pbus)
  /\ call # "TILES" /\ (pc = "pbu" \/ InHand) =>
       res = "OK" /\ Rest /\ Walked(Len(given) - Len(todo))
  /\ call # "TILES" /\ InHand => fh.header # "bad"
  /\ call # "TILES" /\ pc = "tiles" => imgb = Len(out) + 1
  /\ call # "TILES" /\ pc = "tail" =>
       pix[Len(out) + 1] = fh.label /\ fh.sound /\ fh.hdr \in {<< >>, fh.real}
  /\ call # "TILES" /\ pc = "idle" /\ res = "OK" /\ serial > 0 => Walked(Len(given))

\* A call that fails, or that is not of this kind, has nothing to show.
LEMMA WalkEnds ==
  ASSUME DecWalkInv, UNCHANGED given,
         \/ pc' = "idle" /\ res' # "OK"
         \/ pc' = "idle" /\ call' = "TILES"
         \/ pc' = "none"
  PROVE  DecWalkInv'
  BY DEF DecWalkInv, InHand

\* A frame in hand moves nothing of what was reported.
LEMMA WalkGoesOn ==
  ASSUME DecWalkInv, pc = "pbu" \/ InHand, pc' \in {"setup", "sizes", "hold", "tiles"},
         UNCHANGED <<call, given, todo, out, pix, res>>,
         call # "TILES" => fh'.header # "bad",
         call # "TILES" /\ pc' = "tiles" => imgb' = Len(out) + 1
  PROVE  DecWalkInv'
  <1>1. /\ given' \in Seq(Pbus)
        /\ call # "TILES" => res = "OK" /\ Rest /\ Walked(Len(given) - Len(todo))
    BY DEF DecWalkInv
  <1>2. call # "TILES" => res' = "OK" /\ Rest' /\ Walked(Len(given) - Len(todo))'
    BY <1>1 DEF Rest, Walked
  <1> QED BY <1>1, <1>2 DEF DecWalkInv, InHand

\* The steps that end a call with an error.
LEMMA WalkFails ==
  ASSUME DecWalkInv,
         \/ De!PbuBroken \/ De!NotAFrame \/ De!BadContent \/ De!NoRoomForFrame
         \/ De!SetupRejects \/ De!SetupNoMemory \/ De!SizesNoMemory \/ De!HoldRejects
         \/ De!HashRefused
  PROVE  DecWalkInv'
  <1>1. pc' = "idle" /\ res' # "OK" /\ UNCHANGED given
    BY DEF De!PbuBroken, De!NotAFrame, De!BadContent, De!NoRoomForFrame, De!SetupRejects,
           De!SetupNoMemory, De!SizesNoMemory, De!HoldRejects, De!HashRefused, De!Fail, De!Same, De!callVars
  <1> QED BY <1>1, WalkEnds

\* The steps from the header of a frame to its tiles.
LEMMA WalkToTiles ==
  ASSUME De!DecoderAssumption, DecInv, DecWalkInv,
         De!ReadHeader \/ De!Setup \/ De!Sizes \/ De!Hold
  PROVE  DecWalkInv'
  <1>1. UNCHANGED <<given, call, out, pix>> /\ (pc = "pbu" \/ InHand)
    BY DEF De!ReadHeader, De!Setup, De!Sizes, De!Hold, De!Same, De!callVars, De!imgVars, InHand
  <1>2. CASE pc' = "idle"
    <2>1. res' # "OK"
      BY <1>2 DEF De!ReadHeader, De!Setup, De!Sizes, De!Hold, De!Fail
    <2> QED BY <1>1, <1>2, <2>1, WalkEnds
  <1>3. CASE pc' # "idle"
    <2>1. pc' \in {"setup", "sizes", "hold", "tiles"} /\ UNCHANGED <<todo, res>>
      BY <1>3 DEF De!ReadHeader, De!Setup, De!Sizes, De!Hold, De!Fail
    <2>2. call # "TILES" => fh'.header # "bad"
      <3>1. CASE De!ReadHeader
        BY <1>3, <3>1 DEF De!ReadHeader, De!Fail
      <3>2. CASE ~De!ReadHeader
        <4>1. InHand /\ UNCHANGED fh
          BY <3>2 DEF De!Setup, De!Sizes, De!Hold, InHand
        <4> QED BY <4>1 DEF DecWalkInv
      <3> QED BY <3>1, <3>2
    <2>3. call # "TILES" /\ pc' = "tiles" => imgb' = Len(out) + 1
      BY DEF De!ReadHeader, De!Setup, De!Sizes, De!Hold, De!Fail, De!nfrms
    <2> QED BY <1>1, <2>1, <2>2, <2>3, WalkGoesOn
  <1> QED BY <1>2, <1>3

\* The PBU in hand is the next of those given, and behind it lies the rest.
LEMMA WalkNext ==
  ASSUME given \in Seq(Pbus), todo \in Seq(Pbus), todo # << >>, Rest,
         NEW n, n = Len(given) - Len(todo)
  PROVE  /\ n \in Nat /\ n + 1 \in 1..Len(given) /\ n \in 0..Len(given)
         /\ given[n + 1] = Head(todo)
         /\ Len(given) - Len(Tail(todo)) = n + 1
         /\ (todo' = Tail(todo) /\ given' = given => Rest')
  <1>1. Len(given) \in Nat /\ Len(todo) \in Nat /\ Len(todo) # 0
    BY LenProperties, EmptySeq
  <1>2. Len(todo) <= Len(given) /\ \A k \in 1..Len(todo) : todo[k] = given[(Len(given) - Len(todo)) + k]
    BY DEF Rest
  <1>3. n \in Nat /\ n + 1 \in 1..Len(given) /\ n \in 0..Len(given) /\ 1 \in 1..Len(todo)
    BY <1>1, <1>2
  <1>4. Head(todo) = todo[1] /\ given[n + 1] = todo[1]
    BY <1>2, <1>3, HeadTailProperties
  <1>5. /\ Tail(todo) \in Seq(Pbus) /\ Len(Tail(todo)) = Len(todo) - 1
        /\ \A k \in 1..Len(Tail(todo)) : Tail(todo)[k] = todo[k + 1]
    BY HeadTailProperties
  <1>6. Len(given) - Len(Tail(todo)) = n + 1 /\ Len(Tail(todo)) <= Len(given)
    BY <1>1, <1>2, <1>5
  <1>7. ASSUME NEW k \in 1..Len(Tail(todo))
        PROVE  Tail(todo)[k] = given[(Len(given) - Len(Tail(todo))) + k]
    <2>1. k + 1 \in 1..Len(todo) /\ k \in Nat
      BY <1>1, <1>5
    <2>2. (Len(given) - Len(todo)) + (k + 1) = (Len(given) - Len(Tail(todo))) + k
      BY <1>1, <1>5, <2>1
    <2> QED BY <1>2, <1>5, <2>1, <2>2
  <1>8. todo' = Tail(todo) /\ given' = given => Rest'
    BY <1>6, <1>7 DEF Rest
  <1> QED BY <1>3, <1>4, <1>6, <1>8

\* Metadata, filler and access unit information are walked past.
LEMMA WalkOther ==
  ASSUME De!DecoderAssumption, DecInv, DecWalkInv, De!OtherPbu
  PROVE  DecWalkInv'
  <1> DEFINE n == Len(given) - Len(todo)
  <1>a. /\ pc = "pbu" /\ pc' = "pbu" /\ todo # << >> /\ todo' = Tail(todo) /\ call = "DECODE"
        /\ Head(todo).kind \in {"CONTENT", "AU_INFO"}
        /\ UNCHANGED <<call, given, pix, out, res>>
    BY DEF De!OtherPbu, De!Same, De!callVars, De!imgVars, De!Pbu
  <1>b. given \in Seq(Pbus) /\ todo \in Seq(Pbus) /\ res = "OK" /\ Rest /\ Walked(n)
    BY <1>a DEF DecWalkInv, DecInv, De!TypeOK
  <1> HIDE DEF n
  <1>1. /\ n \in Nat /\ n + 1 \in 1..Len(given) /\ given[n + 1] = Head(todo)
        /\ Len(given) - Len(todo') = n + 1 /\ Rest'
    BY <1>a, <1>b, WalkNext DEF n
  <1>2. De!FramesTo(given)[n + 1] = De!FramesTo(given)[n]
    <2>1. (n + 1) - 1 = n /\ given[n + 1].kind # "FRAME"
      BY <1>a, <1>1
    <2> QED BY <1>b, <1>1, <2>1, FramesGrow
  <1>3. \A k \in 1..(n + 1) : /\ given[k].kind # "BROKEN"
                              /\ given[k].kind = "FRAME" => given[k].header # "bad"
    <2> TAKE k \in 1..(n + 1)
    <2>1. k = n + 1 \/ k \in 1..n
      BY <1>1
    <2>2. given[n + 1].kind # "BROKEN" /\ given[n + 1].kind # "FRAME"
      BY <1>a, <1>1
    <2> QED BY <1>b, <2>1, <2>2 DEF Walked
  <1>4. Walked(n + 1)
    BY <1>b, <1>2, <1>3 DEF Walked
  <1>5. Walked(Len(given) - Len(todo))'
    BY <1>a, <1>1, <1>4 DEF Walked
  <1> QED BY <1>a, <1>b, <1>1, <1>5 DEF DecWalkInv, InHand

\* Tiles that were decoded are of a sound frame with true sizes, and fill its
\* image and no other.
LEMMA WalkFrameTiles ==
  ASSUME De!DecoderAssumption, DecInv, DecWalkInv, De!FrameTiles
  PROVE  DecWalkInv'
  <1>a. /\ pc = "tiles" /\ call # "TILES"
        /\ pix' = [pix EXCEPT ![imgb] = IF De!Decodes THEN fh.label ELSE De!NULL]
        /\ IF De!Decodes THEN pc' = "tail" /\ UNCHANGED <<res, todo>>
                         ELSE pc' = "idle" /\ res' = "MALFORMED"
        /\ UNCHANGED <<call, given, fh, out, num_tiles>>
    BY DEF De!FrameTiles, De!Fail, De!Same, De!callVars, De!keptVars
  <1>1. CASE ~De!Decodes
    BY <1>a, <1>1, WalkEnds
  <1>2. CASE De!Decodes
    <2>a. /\ given \in Seq(Pbus) /\ res = "OK" /\ Rest /\ Walked(Len(given) - Len(todo))
          /\ imgb = Len(out) + 1 /\ fh.header # "bad"
      BY <1>a DEF DecWalkInv, InHand
    <2>b. /\ fh \in Pbus /\ fh.kind = "FRAME" /\ Len(out) < MaxFrames /\ Len(out) \in Nat
          /\ MaxFrames \in Nat /\ pix \in [De!Image -> De!Labels \cup {De!NULL}]
      <3>1. fh \in Pbus /\ fh.kind = "FRAME" /\ Len(out) < MaxFrames
        BY <1>a DEF DecInv, DecLoopInv, InHand
      <3>2. out \in Seq(De!Labels) /\ pix \in [De!Image -> De!Labels \cup {De!NULL}]
        BY DEF DecInv, De!TypeOK
      <3>3. Len(out) \in Nat
        BY <3>2, LenProperties
      <3> QED BY <3>1, <3>2, <3>3 DEF De!DecoderAssumption
    <2>1. Len(out) + 1 \in De!Image
      BY <2>b DEF De!Image
    <2>2. pix'[Len(out) + 1] = fh.label /\ \A k \in 1..Len(out) : pix'[k] = pix[k]
      <3>1. \A k \in 1..Len(out) : k \in De!Image /\ k # Len(out) + 1
        BY <2>b DEF De!Image
      <3> QED BY <1>a, <1>2, <2>a, <2>b, <2>1, <3>1
    <2>3. fh.sound /\ fh.hdr \in {<< >>, fh.real}
      <3>1. fh.sound
        BY <1>2 DEF De!Decodes
      <3>2. CASE fh.hdr # << >>
        <4>1. /\ fh.real \in Seq(Nat) /\ fh.hdr \in Seq(Nat) /\ Len(fh.hdr) \in {0, Len(fh.real)}
          BY <2>b DEF De!DecoderAssumption
        <4>2. Len(fh.hdr) = Len(fh.real)
          BY <3>2, <4>1, EmptySeq
        <4>3. num_tiles = Len(fh.real)
          BY <1>a DEF DecInv, DecArrayInv, De!Count
        <4>4. \A k \in 1..num_tiles : pos_tiles[k] = fh.real[k] /\ pos_tiles[k] = fh.hdr[k]
          BY <1>a, <1>2, <3>2 DEF DecInv, DecArrayInv, De!SizesAreThisFrames, De!Decodes, De!Agreed
        <4>5. \A k \in 1..Len(fh.real) : fh.hdr[k] = fh.real[k]
          BY <4>3, <4>4
        <4>6. fh.hdr = fh.real
          BY <4>1, <4>2, <4>5, SeqEqual
        <4> QED BY <3>1, <4>6
      <3> QED BY <3>1, <3>2
    <2>4. Walked(Len(given) - Len(todo))'
      BY <1>a, <1>2, <2>a, <2>2 DEF Walked
    <2>5. Rest' /\ res' = "OK" /\ pc' = "tail"
      BY <1>a, <1>2, <2>a DEF Rest
    <2> QED BY <1>a, <2>a, <2>2, <2>3, <2>4, <2>5 DEF DecWalkInv, InHand
  <1> QED BY <1>1, <1>2

\* A frame with its filler is reported in its place.
LEMMA WalkFrameTail ==
  ASSUME De!DecoderAssumption, DecInv, DecWalkInv, De!FrameTail
  PROVE  DecWalkInv'
  <1> DEFINE n == Len(given) - Len(todo)
             F == De!FramesTo(given)
  <1>a. /\ pc = "tail"
        /\ \/ pc' = "pbu" /\ res' = res /\ todo' = Tail(todo) /\ out' = Append(out, fh.label)
              /\ fh.filler
           \/ pc' = "idle" /\ res' = "MALFORMED"
        /\ UNCHANGED <<call, given, fh, pix>>
    BY DEF De!FrameTail, De!Fail, De!callVars, De!imgVars, De!Reported
  <1>1. CASE pc' = "idle"
    BY <1>a, <1>1, WalkEnds
  <1>2. CASE pc' # "idle" /\ call = "TILES"
    BY <1>a, <1>2 DEF DecWalkInv, InHand
  <1>3. CASE pc' # "idle" /\ call # "TILES"
    <2>a. /\ given \in Seq(Pbus) /\ res = "OK" /\ Rest /\ Walked(n)
          /\ pix[Len(out) + 1] = fh.label /\ fh.sound /\ fh.hdr \in {<< >>, fh.real}
          /\ fh.header # "bad"
      BY <1>a, <1>3 DEF DecWalkInv, InHand
    <2>b. /\ todo # << >> /\ Head(todo) = fh /\ fh \in Pbus /\ fh.kind = "FRAME"
          /\ todo \in Seq(Pbus) /\ out \in Seq(De!Labels)
      BY <1>a DEF DecInv, DecLoopInv, InHand, De!TypeOK
    <2>c. Len(out) \in Nat
      BY <2>b, LenProperties
    <2>d. fh.label \in De!Labels /\ fh \in FramePbu
      BY <2>b DEF De!Labels, FramePbu
    <2>e. /\ Len(Append(out, fh.label)) = Len(out) + 1
          /\ Append(out, fh.label)[Len(out) + 1] = fh.label
          /\ \A k \in 1..Len(out) : Append(out, fh.label)[k] = out[k]
      BY <2>b, <2>d, AppendProperties
    <2>f. out' = Append(out, fh.label) /\ todo' = Tail(todo) /\ pc' = "pbu" /\ res' = "OK" /\ fh.filler
      BY <1>a, <1>3, <2>a
    <2> HIDE DEF n, F
    <2>1. /\ n \in Nat /\ n + 1 \in 1..Len(given) /\ n \in 0..Len(given) /\ given[n + 1] = fh
          /\ Len(given) - Len(todo') = n + 1 /\ Rest'
      <3>1. UNCHANGED given
        BY <1>a
      <3> QED BY <2>a, <2>b, <2>f, <3>1, WalkNext DEF n
    <2>2. F[n + 1] = Append(F[n], fh) /\ F[n] \in Seq(FramePbu)
      <3>1. (n + 1) - 1 = n
        BY <2>1
      <3>2. /\ \A k \in 0..Len(given) : F[k] \in Seq(FramePbu)
            /\ \A k \in 1..Len(given) : F[k] = IF given[k].kind = "FRAME"
                                              THEN Append(F[k - 1], given[k]) ELSE F[k - 1]
        BY <2>a, FramesGrow DEF F
      <3> QED BY <2>b, <2>1, <3>1, <3>2
    <2>3. /\ Len(F[n + 1]) = Len(F[n]) + 1 /\ F[n + 1][Len(F[n]) + 1] = fh
          /\ \A k \in 1..Len(F[n]) : F[n + 1][k] = F[n][k]
      BY <2>d, <2>2, AppendProperties
    <2>4. /\ Len(out) = Len(F[n])
          /\ \A k \in 1..n : /\ given[k].kind # "BROKEN"
                             /\ given[k].kind = "FRAME" => given[k].header # "bad"
          /\ \A k \in 1..Len(out) : /\ out[k] = F[n][k].label /\ pix[k] = F[n][k].label
                                    /\ F[n][k].sound /\ F[n][k].filler
                                    /\ F[n][k].hdr \in {<< >>, F[n][k].real}
      BY <2>a DEF Walked, F
    <2>5. \A k \in 1..(n + 1) : /\ given[k].kind # "BROKEN"
                                /\ given[k].kind = "FRAME" => given[k].header # "bad"
      <3> TAKE k \in 1..(n + 1)
      <3>1. k = n + 1 \/ k \in 1..n
        BY <2>1
      <3> QED BY <2>a, <2>b, <2>1, <2>4, <3>1
    <2>6. Len(out') = Len(F[n + 1])
      BY <2>e, <2>f, <2>3, <2>4
    <2>7. ASSUME NEW k \in 1..Len(out')
          PROVE  /\ out'[k] = F[n + 1][k].label /\ pix[k] = F[n + 1][k].label
                 /\ F[n + 1][k].sound /\ F[n + 1][k].filler
                 /\ F[n + 1][k].hdr \in {<< >>, F[n + 1][k].real}
      <3>1. k = Len(out) + 1 \/ k \in 1..Len(out)
        BY <2>c, <2>e, <2>f
      <3>2. CASE k = Len(out) + 1
        <4>1. F[n + 1][k] = fh /\ out'[k] = fh.label /\ pix[k] = fh.label
          BY <2>a, <2>e, <2>f, <2>3, <2>4, <3>2
        <4> QED BY <2>a, <2>f, <4>1
      <3>3. CASE k \in 1..Len(out)
        <4>1. F[n + 1][k] = F[n][k] /\ out'[k] = out[k]
          BY <2>e, <2>f, <2>3, <2>4, <3>3
        <4> QED BY <2>4, <3>3, <4>1
      <3> QED BY <3>1, <3>2, <3>3
    <2>8. Walked(Len(given) - Len(todo))'
      <3>1. UNCHANGED <<given, pix>>
        BY <1>a
      <3> QED BY <2>1, <2>5, <2>6, <2>7, <3>1 DEF Walked, F
    <2> QED BY <1>a, <2>a, <2>f, <2>1, <2>8 DEF DecWalkInv, InHand
  <1> QED BY <1>1, <1>2, <1>3

\* The end of what was given.
LEMMA WalkReturns ==
  ASSUME De!DecoderAssumption, DecInv, DecWalkInv, De!AllRead \/ De!WantedTiles
  PROVE  DecWalkInv'
  <1>1. CASE De!WantedTiles
    <2>1. pc' = "idle" /\ call' = "TILES" /\ UNCHANGED given
      BY <1>1 DEF De!WantedTiles, De!Fail, De!Same, De!callVars
    <2> QED BY <2>1, WalkEnds
  <1>2. CASE De!AllRead
    <2>1. pc = "pbu" /\ pc' = "idle" /\ todo = << >> /\ UNCHANGED <<call, given, out, pix, res>>
      BY <1>2 DEF De!AllRead, De!Same, De!callVars, De!imgVars
    <2>2. given \in Seq(Pbus) /\ (call # "TILES" => Walked(Len(given) - Len(todo)))
      BY <2>1 DEF DecWalkInv
    <2>3. Len(given) - Len(todo) = Len(given)
      BY <2>1, <2>2, EmptySeq, LenProperties
    <2>4. call # "TILES" => Walked(Len(given))'
      BY <2>1, <2>2, <2>3 DEF Walked
    <2> QED BY <2>1, <2>2, <2>4 DEF DecWalkInv, InHand
  <1> QED BY <1>1, <1>2

\* Nothing is walked when a call starts, nor when an instance is new.
LEMMA WalkCalled ==
  ASSUME De!DecoderAssumption, DecInv, DecWalkInv,
         \/ \E u \in CodedUnits, k \in Limits : De!Decode(u, k)
         \/ \E p \in Pbus : De!DecodeFrame(p)
         \/ \E p \in Pbus : p.kind = "FRAME" /\
              \E w \in SUBSET DOMAIN p.real : De!DecodeTiles(p, w)
  PROVE  DecWalkInv'
  <1>1. PICK s \in Seq(Pbus) : given' = s /\ todo' = s
    <2>1. CASE \E u \in CodedUnits, k \in Limits : De!Decode(u, k)
      BY <2>1 DEF De!Decode, De!Enter, De!DecoderAssumption
    <2>2. CASE \/ \E p \in Pbus : De!DecodeFrame(p)
               \/ \E p \in Pbus : p.kind = "FRAME" /\
                    \E w \in SUBSET DOMAIN p.real : De!DecodeTiles(p, w)
      <3>1. PICK p \in Pbus : given' = <<p>> /\ todo' = <<p>>
        BY <2>2 DEF De!DecodeFrame, De!DecodeTiles, De!Enter
      <3>2. <<p>> \in Seq(Pbus)
        OBVIOUS
      <3> QED BY <3>1, <3>2
    <2> QED BY <2>1, <2>2
  <1>2. pc' = "pbu" /\ res' = "OK" /\ out' = << >>
    BY DEF De!Decode, De!DecodeFrame, De!DecodeTiles, De!Enter
  <1>3. Walked(0)'
    <2>1. De!FramesTo(s)[0] = << >> /\ Len(<< >>) = 0 /\ 1..0 = {}
      BY FramesGrow, EmptySeq
    <2> QED BY <1>1, <1>2, <2>1 DEF Walked
  <1>4. Len(s) \in Nat /\ Len(s) - Len(s) = 0
    BY LenProperties
  <1>5. Walked(Len(given) - Len(todo))'
    BY <1>1, <1>3, <1>4 DEF Walked
  <1>6. Rest'
    <2>1. \A k \in 1..Len(s) : (Len(s) - Len(s)) + k = k
      BY <1>4
    <2> QED BY <1>1, <1>4, <2>1 DEF Rest
  <1> QED BY <1>1, <1>2, <1>5, <1>6 DEF DecWalkInv, InHand

\* Between the calls.
LEMMA WalkLife ==
  ASSUME De!DecoderAssumption, DecInv, DecWalkInv,
         \/ De!Create \/ De!Delete \/ \E k \in 0..(Len(De!Order) - 1) : De!CreateFails(k)
         \/ De!Config
  PROVE  DecWalkInv'
  <1>1. CASE De!Create
    <2>1. given' = << >> /\ out' = << >> /\ pc' = "idle"
      BY <1>1 DEF De!Create
    <2>2. << >> \in Seq(Pbus) /\ Len(<< >>) = 0
      BY EmptySeq
    <2>3. PICK s \in Seq(Pbus) : s = << >>
      BY <2>2
    <2>4. De!FramesTo(s)[0] = << >> /\ 1..0 = {}
      BY FramesGrow
    <2>5. Walked(Len(given))'
      BY <2>1, <2>2, <2>3, <2>4 DEF Walked
    <2> QED BY <2>1, <2>2, <2>5 DEF DecWalkInv, InHand
  <1>2. CASE De!Delete \/ \E k \in 0..(Len(De!Order) - 1) : De!CreateFails(k)
    BY <1>2, WalkEnds DEF De!Delete, De!CreateFails
  <1>3. CASE De!Config
    <2>1. pc = "idle" /\ UNCHANGED <<pc, call, given, out, pix, res, serial>>
      BY <1>3 DEF De!Config, De!callVars, De!imgVars
    <2> QED BY <2>1 DEF DecWalkInv, InHand, Walked
  <1> QED BY <1>1, <1>2, <1>3

----------------------------------------------------------------------------
(* The walk in every state                                                 *)

LEMMA WalkStarts ==
  ASSUME De!DecoderAssumption, De!Init
  PROVE  DecWalkInv
  <1>1. pc = "none" /\ given = << >>
    BY DEF De!Init
  <1>2. << >> \in Seq(Pbus)
    BY EmptySeq
  <1> QED BY <1>1, <1>2 DEF DecWalkInv, InHand

LEMMA WalkStep ==
  ASSUME De!DecoderAssumption, DecInv, DecWalkInv, DecStep
  PROVE  DecWalkInv'
  BY WalkLife, WalkCalled, WalkFails, WalkOther, WalkToTiles, WalkReturns, WalkFrameTiles,
     WalkFrameTail
  DEF DecStep

LEMMA WalkStutters ==
  ASSUME DecWalkInv, UNCHANGED vars
  PROVE  DecWalkInv'
  <1>1. UNCHANGED <<pc, res, serial, call, given, todo, fh, imgb, out, pix>>
    BY DEF vars, decVars
  <1> QED BY <1>1 DEF DecWalkInv, InHand, Rest, Walked

LEMMA WalkInvariance ==
  ASSUME CodecAssumption PROVE Spec => [](use = "dec" => DecWalkInv)
  <1> DEFINE W == use = "dec" => DecWalkInv
  <1>1. Init => W
    BY WalkStarts DEF Init, CodecAssumption
  <1>2. IInv /\ W /\ [Next]_vars => W'
    <2> SUFFICES ASSUME IInv, W, [Next]_vars, use' = "dec"  PROVE DecWalkInv'
      OBVIOUS
    <2>1. CASE UNCHANGED vars
      <3>1. use = "dec"
        BY <2>1 DEF vars
      <3> QED BY <2>1, <3>1, WalkStutters
    <2>2. CASE Next
      <3>1. use = "dec" /\ DecStep
        BY <2>2, EitherKind
      <3>2. DecInv /\ DecWalkInv
        BY <3>1 DEF IInv
      <3> QED BY <3>1, <3>2, WalkStep DEF CodecAssumption
    <2> QED BY <2>1, <2>2
  <1> HIDE DEF W
  <1>3. Spec => []W
    BY <1>1, <1>2, Invariance, PTL DEF Spec
  <1> QED BY <1>3 DEF W

----------------------------------------------------------------------------
(* What oapvd_info says of what a decode walked over                       *)

\* The labels are a sequence as long as the frames.
LEMMA LabelsOfFrames ==
  ASSUME NEW s \in Seq(Pbus)
  PROVE  /\ De!FramesOf(s) \in Seq(FramePbu) /\ Len(De!FramesOf(s)) \in Nat
         /\ De!FramesOf(s) = De!FramesTo(s)[Len(s)]
         /\ De!Labelled(s) \in Seq(De!Labels) /\ Len(De!Labelled(s)) = Len(De!FramesOf(s))
         /\ \A k \in 1..Len(De!FramesOf(s)) : De!Labelled(s)[k] = De!FramesOf(s)[k].label
  <1> DEFINE f == De!FramesOf(s)
             o == [k \in 1..Len(f) |-> f[k].label]
  <1>1. f \in Seq(FramePbu) /\ f = De!FramesTo(s)[Len(s)]
    <2>1. Len(s) \in 0..Len(s) /\ \A n \in 0..Len(s) : De!FramesTo(s)[n] \in Seq(FramePbu)
      BY FramesGrow
    <2> QED BY <2>1 DEF De!FramesOf
  <1>2. De!Labelled(s) = [k \in DOMAIN f |-> f[k].label]
    BY DEF De!Labelled
  <1> HIDE DEF f
  <1>3. Len(f) \in Nat /\ DOMAIN f = 1..Len(f)
    BY <1>1, LenProperties
  <1>4. \A k \in 1..Len(f) : f[k].label \in De!Labels
    <2> TAKE k \in 1..Len(f)
    <2>1. f[k] \in FramePbu
      BY <1>1, ElementOfSeq
    <2> QED BY <2>1 DEF FramePbu, De!Labels
  <1>5. o \in Seq(De!Labels) /\ Len(o) = Len(f) /\ \A k \in 1..Len(f) : o[k] = f[k].label
    <2>1. o \in [1..Len(f) -> De!Labels]
      BY <1>4
    <2>2. o \in Seq(De!Labels)
      BY <1>3, <2>1, SeqDef
    <2>3. Len(o) \in Nat /\ DOMAIN o = 1..Len(o)
      BY <2>2, LenProperties
    <2>4. 1..Len(o) = 1..Len(f)
      BY <2>1, <2>3
    <2>5. Len(o) = Len(f)
      BY ONLY <1>3, <2>3, <2>4
    <2> QED BY <2>2, <2>5
  <1> HIDE DEF o
  <1>6. De!Labelled(s) = o
    BY <1>2, <1>3 DEF o
  <1> QED BY <1>1, <1>3, <1>5, <1>6 DEF f

\* The first of the indices in a set, or 0.
LEMMA FirstOf ==
  ASSUME NEW I, I \subseteq Nat \ {0}
  PROVE  LET at == IF I # {} THEN De!Min(I) ELSE 0
         IN  IF at = 0 THEN I = {} ELSE at \in I /\ \A k \in I : at <= k
  <1>1. CASE I = {}
    BY <1>1
  <1>2. CASE I # {}
    <2>1. \E n \in I : \A m \in I : n <= m
      BY <1>2, LeastElement
    <2>2. De!Min(I) \in I /\ \A m \in I : De!Min(I) <= m
      BY <2>1 DEF De!Min
    <2>3. De!Min(I) # 0
      BY <2>2
    <2> QED BY <1>2, <2>2, <2>3
  <1> QED BY <1>1, <1>2

\* Of sound PBUs oapvd_info announces the frames a decode reports, unless the
\* access unit information says otherwise.
LEMMA InfoIsTheFrames ==
  ASSUME NEW s \in Seq(Pbus), NEW o, o = De!Labelled(s), MaxFrames \in Nat, Len(o) <= MaxFrames,
         \A k \in 1..Len(s) : /\ s[k].kind # "BROKEN"
                              /\ s[k].kind = "FRAME" => s[k].header # "bad"
                              /\ s[k].kind = "AU_INFO" => s[k].good /\ s[k].lists = o
  PROVE  De!Info(s) = De!Announced(o)
  <1> DEFINE I     == {k \in 1..Len(s) : s[k].kind = "AU_INFO"}
             at    == IF I # {} THEN De!Min(I) ELSE 0
             front == IF at = 0 THEN s ELSE SubSeq(s, 1, at - 1)
             bad   == \/ \E p \in De!Range(front) : \/ p.kind = "BROKEN"
                                                    \/ p.kind = "FRAME" /\ p.header = "bad"
                      \/ Len(De!Labelled(front)) > MaxFrames
  <1>1. De!Info(s) = IF bad THEN De!NoInfo ELSE IF at # 0 THEN De!AuInfo(s[at])
                                           ELSE De!Announced(De!Labelled(s))
    BY DEF De!Info, De!SelectInSeq
  <1>2. at = 0 \/ at \in I
    <2>1. I \subseteq Nat \ {0}
      OBVIOUS
    <2> QED BY <2>1, FirstOf
  <1>3. Len(s) \in Nat
    BY LenProperties
  <1> HIDE DEF at
  <1>4. PICK n \in 0..Len(s) : /\ front \in Seq(Pbus) /\ Len(front) = n
                               /\ \A k \in 1..n : front[k] = s[k]
                               /\ De!FramesTo(front)[n] = De!FramesTo(s)[n]
    <2>1. CASE at = 0
      BY <1>3, <2>1
    <2>2. CASE at # 0
      <3>1. at - 1 \in 0..Len(s) /\ front = SubSeq(s, 1, at - 1)
        BY <1>2, <1>3, <2>2
      <3> QED BY <3>1, FramesOfFront
    <2> QED BY <2>1, <2>2
  <1> HIDE DEF front
  <1>5. Len(De!Labelled(front)) <= Len(o)
    <2>1. Len(De!Labelled(front)) = Len(De!FramesTo(s)[n])
      BY <1>4, LabelsOfFrames
    <2>2. Len(o) = Len(De!FramesTo(s)[Len(s)])
      BY LabelsOfFrames
    <2> QED BY <2>1, <2>2, FramesMore
  <1>6. Len(De!Labelled(front)) \in Nat /\ Len(o) \in Nat
    BY <1>4, LabelsOfFrames
  <1>7. ASSUME NEW p \in De!Range(front)
        PROVE  p.kind # "BROKEN" /\ ~(p.kind = "FRAME" /\ p.header = "bad")
    <2>1. PICK k \in 1..n : p = front[k]
      BY <1>4, LenProperties DEF De!Range
    <2>2. k \in 1..Len(s) /\ p = s[k]
      BY <1>3, <1>4, <2>1
    <2> QED BY <2>2
  <1>8. ~bad
    BY <1>5, <1>6, <1>7
  <1> HIDE DEF bad
  <1>9. CASE at = 0
    BY <1>1, <1>8, <1>9
  <1>10. CASE at # 0
    <2>1. s[at].good /\ s[at].lists = o
      BY <1>2, <1>10
    <2>2. De!AuInfo(s[at]) = De!Announced(o)
      BY <2>1 DEF De!AuInfo
    <2> QED BY <1>1, <1>8, <1>10, <2>2
  <1> QED BY <1>9, <1>10

\* A decode that reports success has read the unit to its end: what it reports
\* are the frames of all its PBUs in their order, each sound, with the sizes its
\* header gave and with its filler, each image holds its frame, and oapvd_info
\* announces the same frames (the loop of oapvd_decode; oapvd_info).
THEOREM SuccessIsTheWholeUnit == ASSUME CodecAssumption PROVE Spec => []SuccessIsWholeUnit
  <1>1. ASSUME DecInv, DecWalkInv
        PROVE  De!SuccessIsWholeUnit
    <2>1. SUFFICES ASSUME pc = "idle", res = "OK", call # "TILES", serial > 0
                   PROVE  /\ out = [k \in DOMAIN De!GivenFrames |-> De!GivenFrames[k].label]
                          /\ (\A p \in De!Range(given) : p.kind = "AU_INFO" => p.good /\ p.lists = out)
                               => De!Info(given) = De!Announced(out)
                          /\ \A k \in DOMAIN De!GivenFrames :
                               /\ De!GivenFrames[k].sound /\ De!GivenFrames[k].filler
                               /\ De!GivenFrames[k].hdr \in {<< >>, De!GivenFrames[k].real}
                               /\ pix[k] = De!GivenFrames[k].label
      BY DEF De!SuccessIsWholeUnit
    <2>a. given \in Seq(Pbus) /\ Walked(Len(given))
      BY <1>1, <2>1 DEF DecWalkInv
    <2>b. out \in Seq(De!Labels) /\ Len(out) <= MaxFrames /\ MaxFrames \in Nat
      BY <1>1 DEF DecInv, De!TypeOK, CodecAssumption, De!DecoderAssumption
    <2>c. /\ De!GivenFrames \in Seq(FramePbu) /\ De!GivenFrames = De!FramesTo(given)[Len(given)]
          /\ De!Labelled(given) \in Seq(De!Labels) /\ Len(De!Labelled(given)) = Len(De!GivenFrames)
          /\ \A k \in 1..Len(De!GivenFrames) : De!Labelled(given)[k] = De!GivenFrames[k].label
      BY <2>a, LabelsOfFrames DEF De!GivenFrames
    <2>d. DOMAIN De!GivenFrames = 1..Len(De!GivenFrames)
      BY <2>c, LenProperties
    <2>2. /\ Len(out) = Len(De!GivenFrames)
          /\ \A k \in 1..Len(out) : /\ out[k] = De!GivenFrames[k].label /\ pix[k] = De!GivenFrames[k].label
                                    /\ De!GivenFrames[k].sound /\ De!GivenFrames[k].filler
                                    /\ De!GivenFrames[k].hdr \in {<< >>, De!GivenFrames[k].real}
      BY <2>a, <2>c DEF Walked
    <2>3. out = De!Labelled(given)
      BY <2>b, <2>c, <2>2, SeqEqual
    <2>4. De!Labelled(given) = [k \in DOMAIN De!GivenFrames |-> De!GivenFrames[k].label]
      BY DEF De!Labelled, De!GivenFrames
    <2>5. ASSUME \A p \in De!Range(given) : p.kind = "AU_INFO" => p.good /\ p.lists = out
          PROVE  De!Info(given) = De!Announced(out)
      <3>1. \A k \in 1..Len(given) : given[k] \in De!Range(given)
        BY <2>a, LenProperties DEF De!Range
      <3>2. \A k \in 1..Len(given) : /\ given[k].kind # "BROKEN"
                                     /\ given[k].kind = "FRAME" => given[k].header # "bad"
                                     /\ given[k].kind = "AU_INFO" => given[k].good /\ given[k].lists = out
        BY <2>a, <2>5, <3>1 DEF Walked
      <3> QED BY <2>a, <2>b, <2>3, <3>2, InfoIsTheFrames
    <2> QED BY <2>2, <2>3, <2>4, <2>5, <2>d
  <1>2. IInv /\ (use = "dec" => DecWalkInv) => SuccessIsWholeUnit
    BY <1>1 DEF IInv, SuccessIsWholeUnit
  <1> QED BY <1>2, Invariance, WalkInvariance, PTL
=============================================================================
