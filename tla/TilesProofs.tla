---------------------------- MODULE TilesProofs ----------------------------
(***************************************************************************)
(* Proofs about Tiles, for any number of threads, tiles and calls: what is *)
(* proved of each of the three ways to share the tiles of a frame holds of *)
(* a codec instance that uses any of them.  The proofs about DecTiles are  *)
(* the first part of the module; those about the other two are in          *)
(* DecTilesSelProofs and EncTilesProofs.                                   *)
(***************************************************************************)
EXTENDS Tiles, TLAPS

SP == INSTANCE DecTilesSelProofs WITH Frames <- ChosenFrames
EP == INSTANCE EncTilesProofs WITH Frames <- Pictures, MaxFrames <- MaxCalls

----------------------------------------------------------------------------
(* DecTiles: the inductive invariant                                       *)

\* The locals of oapvd_decode: how far its loops over the pool threads are.
CallInv ==
  /\ par <= D!Num
  /\ phase # "idle" => ci < par
  /\ phase = "main" => ci = par - 1
  /\ imgb <=> phase # "idle"

\* A core is under way from the step that starts it to the one that joins it.
Started(c) == \/ phase = "fork" /\ c < ci
              \/ phase = "main" /\ c <= ci
              \/ phase = "join" /\ ci <= c /\ c < par - 1

CoreInv == \A c \in D!Core : pc[c] # "off" <=> Started(c)

\* The tiles are taken one after the other, and one taken has one owner until
\* it is marked.
HoldInv ==
  /\ tile_idx <= D!Num
  /\ \A c \in D!Core : D!Holds(c) => tidx[c] < tile_idx /\ stat[tidx[c]] = "ON"
  /\ \A c, d \in D!Core : D!Holds(c) /\ D!Holds(d) /\ tidx[c] = tidx[d] => c = d
  /\ \A i \in 0..(D!Num - 1) : stat[i] = "DO" <=> i >= tile_idx

OwnerInv == \A i \in D!Tile : stat[i] = "ON" => D!Busy(i)

\* A core that has not yet told the owner of the next tile where to begin.
Owes(c) == pc[c] \in {"wait", "size", "hand", "fail"}

\* Nobody but the owner of tile i says where tile i + 1 begins, and it does
\* so once.
StartInv ==
  /\ phase # "idle" \/ tile_idx > 0 => bs_beg[0] = frm.beg
  /\ \A i \in 0..(D!Num - 1) : i > tile_idx => bs_beg[i] = D!NULL
  /\ \A c \in D!Core : Owes(c) /\ tidx[c] + 1 < D!Num => bs_beg[tidx[c] + 1] = D!NULL
  /\ \A c \in D!Core : pc[c] \in {"size", "hand", "dec", "fail"} => bs_beg[tidx[c]] # D!NULL

\* Tile i has the size that is spelt where it begins, and ends in the frame ...
Sized(i) == /\ bs_beg[i] # D!NULL
            /\ tile_size[i] = frm.size[bs_beg[i]]
            /\ D!End(i) <= frm.end
            /\ frm.inFh => tile_size[i] = frm.fh[i]

\* ... and the next tile begins where it ends.
Linked(i) == D!End(i) = IF i + 1 < D!Num THEN bs_beg[i + 1] ELSE tile_end

SizeInv ==
  /\ \A c \in D!Core : pc[c] \in {"hand", "dec"} => Sized(tidx[c])
  /\ \A c \in D!Core : pc[c] = "dec" => Linked(tidx[c])
  /\ \A i \in 0..(D!Num - 1) : stat[i] = "DONE" => Sized(i) /\ Linked(i)

\* A tile that failed, and who knows of it: a core that has not been joined,
\* or the return value.
Broken == \E i \in 0..(D!Num - 1) : stat[i] = "ERR"

FailInv ==
  /\ \A c \in D!Core : pc[c] # "off" /\ thread_ret[c] = "ERR" => Broken
  /\ phase = "join" /\ ret = "ERR" => Broken
  /\ Broken => \/ \E c \in D!Core : pc[c] # "off" /\ thread_ret[c] = "ERR"
               \/ phase = "join" /\ ret = "ERR"
               \/ phase = "idle" /\ result = "ERR"
  /\ \A c \in D!Core : pc[c] = "done" /\ thread_ret[c] = "OK" => tile_idx = D!Num
  /\ phase = "join" /\ ret = "OK" => tile_idx = D!Num

FrameInv == /\ D!TypeOK /\ CallInv /\ CoreInv /\ HoldInv /\ OwnerInv /\ StartInv
        /\ SizeInv /\ FailInv /\ D!SuccessIsWholeFrame

USE DEF FrameInv, D!NULL, D!Core, D!Tile, D!Num

\* What the types say of the constants, the frame, the tiles and the cores.
LEMMA FrameTypes ==
  ASSUME D!DecAssumption, D!TypeOK
  PROVE  /\ Threads \in Nat \ {0} /\ MaxTiles \in Nat \ {0} /\ LEN \in Nat \ {0} /\ MaxCalls \in Nat
         /\ D!Num \in 1..MaxTiles /\ frm.beg \in Nat /\ frm.end \in Nat
         /\ \A p \in 0..frm.end : frm.size[p] \in Nat
         /\ \A f \in WholeFrames : f.n \in 1..MaxTiles /\ f.beg \in Nat
         /\ tile_idx \in Nat /\ ci \in Nat /\ par \in 1..Threads
         /\ \A i \in D!Tile : stat[i] \in {"DO", "ON", "DONE", "ERR"} /\ tile_size[i] \in Nat
         /\ \A i \in D!Tile : bs_beg[i] \in Nat \cup {D!NULL}
         /\ \A c \in D!Core : tidx[c] \in Nat /\ thread_ret[c] \in {"OK", "ERR"}
         /\ ret \in {"OK", "ERR"}
  BY DEF D!DecAssumption, D!TypeOK

----------------------------------------------------------------------------
(* Every step keeps the invariant                                          *)

\* dec_frm_prepare accepts a frame.
LEMMA PrepareStep ==
  ASSUME D!DecAssumption, FrameInv, NEW f \in WholeFrames, D!Prepare(f) PROVE FrameInv'
  <1>a. /\ Threads \in Nat \ {0} /\ MaxTiles \in Nat \ {0}
        /\ f.n \in 1..MaxTiles /\ f.beg \in Nat
    BY FrameTypes
  <1>b. /\ frm' = f /\ phase = "idle" /\ phase' = "fork" /\ ci' = 0 /\ tile_idx' = 0
        /\ \A i \in 0..(f.n - 1) : stat'[i] = "DO" /\ bs_beg'[i] = IF i = 0 THEN f.beg ELSE D!NULL
        /\ \A i \in D!Tile : i >= f.n => stat'[i] = stat[i]
        /\ par' \in 1..Threads /\ par' <= f.n
        /\ imgb' = TRUE /\ UNCHANGED <<tile_size, tile_end, pc, tidx, thread_ret, ret, result>>
    BY <1>a DEF D!Prepare, D!coreVars
  <1>c. \A c \in D!Core : pc[c] = "off"
    BY <1>b DEF CoreInv, Started
  <1>1. D!TypeOK'
    <2>1. /\ bs_beg' \in [D!Tile -> Nat \cup {D!NULL}]
          /\ stat' \in [D!Tile -> {"DO", "ON", "DONE", "ERR"}]
      BY <1>a DEF D!Prepare, D!TypeOK
    <2>2. nfrm' \in 0..MaxCalls
      BY FrameTypes DEF D!Prepare, D!TypeOK
    <2> QED BY <1>a, <1>b, <2>1, <2>2 DEF D!TypeOK
  <1>2. CallInv'
    BY <1>a, <1>b DEF CallInv
  <1>3. CoreInv'
    BY <1>b, <1>c DEF CoreInv, Started
  <1>4. HoldInv' /\ StartInv' /\ SizeInv'
    BY <1>a, <1>b, <1>c DEF HoldInv, D!Holds, StartInv, Owes, SizeInv
  <1>5. OwnerInv'
    <2>1. \A i \in D!Tile : stat[i] # "ON"
      BY <1>c DEF OwnerInv, D!Busy, D!Holds
    <2> QED BY <1>a, <1>b, <2>1 DEF OwnerInv
  <1>6. FailInv'
    <2>1. ~Broken'
      BY <1>b DEF Broken
    <2> QED BY <1>b, <1>c, <2>1 DEF FailInv
  <1>7. D!SuccessIsWholeFrame'
    BY <1>b DEF D!SuccessIsWholeFrame
  <1> QED BY <1>1, <1>2, <1>3, <1>4, <1>5, <1>6, <1>7

\* A pool thread is given its core.
LEMMA RunStep == ASSUME D!DecAssumption, FrameInv, D!Run PROVE FrameInv'
  <1>a. /\ Threads \in Nat \ {0} /\ ci \in Nat /\ par \in 1..Threads
    BY FrameTypes
  <1>b. /\ phase = "fork" /\ ci < par - 1 /\ ci' = ci + 1 /\ ci \in D!Core
        /\ pc' = [pc EXCEPT ![ci] = "take"]
        /\ thread_ret' = [thread_ret EXCEPT ![ci] = "OK"]
        /\ UNCHANGED <<tile_idx, stat, bs_beg, tile_size, tile_end, tidx,
                       frm, imgb, phase, par, ret, result, nfrm>>
    BY <1>a DEF D!Run, D!Starts, D!tileVars
  <1>c. /\ \A c \in D!Core : pc'[c] = IF c = ci THEN "take" ELSE pc[c]
        /\ \A c \in D!Core : thread_ret'[c] = IF c = ci THEN "OK" ELSE thread_ret[c]
        /\ pc[ci] = "off"
    BY <1>a, <1>b DEF D!TypeOK, CoreInv, Started
  <1>1. D!TypeOK'
    BY <1>a, <1>b DEF D!TypeOK
  <1>2. CallInv' /\ CoreInv'
    BY <1>a, <1>b, <1>c DEF CallInv, CoreInv, Started
  <1>3. HoldInv'
    BY <1>b, <1>c DEF HoldInv, D!Holds
  <1>4. OwnerInv'
    BY <1>b, <1>c DEF OwnerInv, D!Busy, D!Holds
  <1>5. StartInv' /\ SizeInv'
    BY <1>b, <1>c DEF StartInv, Owes, SizeInv, Sized, Linked, D!End
  <1>6. FailInv'
    BY <1>b, <1>c DEF FailInv, Broken
  <1>7. D!SuccessIsWholeFrame'
    BY <1>b DEF D!SuccessIsWholeFrame
  <1> QED BY <1>1, <1>2, <1>3, <1>4, <1>5, <1>6, <1>7

\* The calling thread starts on its own core.
LEMMA OwnShareStep == ASSUME D!DecAssumption, FrameInv, D!OwnShare PROVE FrameInv'
  <1>a. /\ Threads \in Nat \ {0} /\ ci \in Nat /\ par \in 1..Threads
    BY FrameTypes
  <1>b. /\ phase = "fork" /\ phase' = "main" /\ ci = par - 1 /\ ci \in D!Core
        /\ pc' = [pc EXCEPT ![ci] = "take"]
        /\ thread_ret' = [thread_ret EXCEPT ![ci] = "OK"]
        /\ UNCHANGED <<tile_idx, stat, bs_beg, tile_size, tile_end, tidx,
                       frm, imgb, ci, par, ret, result, nfrm>>
    BY <1>a DEF D!OwnShare, D!Starts, D!tileVars
  <1>c. /\ \A c \in D!Core : pc'[c] = IF c = ci THEN "take" ELSE pc[c]
        /\ \A c \in D!Core : thread_ret'[c] = IF c = ci THEN "OK" ELSE thread_ret[c]
        /\ pc[ci] = "off"
    BY <1>a, <1>b DEF D!TypeOK, CoreInv, Started
  <1>1. D!TypeOK'
    BY <1>a, <1>b DEF D!TypeOK
  <1>2. CallInv' /\ CoreInv'
    BY <1>a, <1>b, <1>c DEF CallInv, CoreInv, Started
  <1>3. HoldInv'
    BY <1>b, <1>c DEF HoldInv, D!Holds
  <1>4. OwnerInv'
    BY <1>b, <1>c DEF OwnerInv, D!Busy, D!Holds
  <1>5. StartInv' /\ SizeInv'
    BY <1>b, <1>c DEF StartInv, Owes, SizeInv, Sized, Linked, D!End
  <1>6. FailInv'
    BY <1>b, <1>c DEF FailInv, Broken
  <1>7. D!SuccessIsWholeFrame'
    BY <1>b DEF D!SuccessIsWholeFrame
  <1> QED BY <1>1, <1>2, <1>3, <1>4, <1>5, <1>6, <1>7

\* The calling thread has done its own share.
LEMMA OwnShareEndsStep == ASSUME D!DecAssumption, FrameInv, D!OwnShareEnds PROVE FrameInv'
  <1>a. /\ Threads \in Nat \ {0} /\ ci \in Nat /\ par \in 1..Threads
    BY FrameTypes
  <1>b. /\ phase = "main" /\ phase' = "join" /\ ci' = 0 /\ ci = par - 1 /\ ci \in D!Core
        /\ pc[ci] = "done" /\ pc' = [pc EXCEPT ![ci] = "off"]
        /\ ret' = thread_ret[ci] /\ ret' \in {"OK", "ERR"}
        /\ UNCHANGED <<tile_idx, stat, bs_beg, tile_size, tile_end, tidx, thread_ret,
                       frm, imgb, par, result, nfrm>>
    BY <1>a, FrameTypes DEF D!OwnShareEnds, D!tileVars, CallInv
  <1>c. \A c \in D!Core : pc'[c] = IF c = ci THEN "off" ELSE pc[c]
    BY <1>b DEF D!TypeOK
  <1>1. D!TypeOK'
    BY <1>a, <1>b DEF D!TypeOK
  <1>2. CallInv' /\ CoreInv'
    BY <1>a, <1>b, <1>c DEF CallInv, CoreInv, Started
  <1>3. HoldInv'
    BY <1>b, <1>c DEF HoldInv, D!Holds
  <1>4. OwnerInv'
    BY <1>b, <1>c DEF OwnerInv, D!Busy, D!Holds
  <1>5. StartInv' /\ SizeInv'
    BY <1>b, <1>c DEF StartInv, Owes, SizeInv, Sized, Linked, D!End
  <1>6. FailInv'
    BY <1>b, <1>c DEF FailInv, Broken
  <1>7. D!SuccessIsWholeFrame'
    BY <1>b DEF D!SuccessIsWholeFrame
  <1> QED BY <1>1, <1>2, <1>3, <1>4, <1>5, <1>6, <1>7

\* A pool thread is joined.
LEMMA JoinStep == ASSUME D!DecAssumption, FrameInv, D!Join PROVE FrameInv'
  <1>a. /\ Threads \in Nat \ {0} /\ ci \in Nat /\ par \in 1..Threads
    BY FrameTypes
  <1>b. /\ phase = "join" /\ ci' = ci + 1 /\ ci < par - 1 /\ ci \in D!Core
        /\ pc[ci] = "done" /\ pc' = [pc EXCEPT ![ci] = "off"]
        /\ ret' = IF thread_ret[ci] = "ERR" THEN "ERR" ELSE ret
        /\ UNCHANGED <<tile_idx, stat, bs_beg, tile_size, tile_end, tidx, thread_ret,
                       frm, imgb, phase, par, result, nfrm>>
    BY <1>a, FrameTypes DEF D!Join, D!Fold, D!tileVars
  <1>c. \A c \in D!Core : pc'[c] = IF c = ci THEN "off" ELSE pc[c]
    BY <1>b DEF D!TypeOK
  <1>1. D!TypeOK'
    BY <1>a, <1>b DEF D!TypeOK
  <1>2. CallInv' /\ CoreInv'
    BY <1>a, <1>b, <1>c DEF CallInv, CoreInv, Started
  <1>3. HoldInv'
    BY <1>b, <1>c DEF HoldInv, D!Holds
  <1>4. OwnerInv'
    BY <1>b, <1>c DEF OwnerInv, D!Busy, D!Holds
  <1>5. StartInv' /\ SizeInv'
    BY <1>b, <1>c DEF StartInv, Owes, SizeInv, Sized, Linked, D!End
  <1>6. FailInv'
    BY <1>b, <1>c, FrameTypes DEF FailInv, Broken
  <1>7. D!SuccessIsWholeFrame'
    BY <1>b DEF D!SuccessIsWholeFrame
  <1> QED BY <1>1, <1>2, <1>3, <1>4, <1>5, <1>6, <1>7

\* All cores have been joined, and the call returns.
LEMMA FinishStep == ASSUME D!DecAssumption, FrameInv, D!Finish PROVE FrameInv'
  <1>a. /\ phase = "join" /\ phase' = "idle" /\ ci = par - 1
        /\ imgb' = FALSE /\ result' = ret
        /\ UNCHANGED <<tile_idx, stat, bs_beg, tile_size, tile_end, pc, tidx, thread_ret,
                       frm, ci, par, ret, nfrm>>
    BY DEF D!Finish, D!tileVars, D!coreVars
  <1>b. \A c \in D!Core : pc[c] = "off"
    BY <1>a, FrameTypes DEF CoreInv, Started
  <1>1. D!TypeOK'
    BY <1>a DEF D!TypeOK
  <1>2. CallInv' /\ CoreInv'
    BY <1>a, <1>b DEF CallInv, CoreInv, Started
  <1>3. HoldInv' /\ OwnerInv'
    BY <1>a DEF HoldInv, D!Holds, OwnerInv, D!Busy
  <1>4. StartInv' /\ SizeInv'
    BY <1>a DEF StartInv, Owes, SizeInv, Sized, Linked, D!End
  <1>5. FailInv'
    BY <1>a, <1>b DEF FailInv, Broken
  <1>6. D!SuccessIsWholeFrame'
    <2> SUFFICES ASSUME ret = "OK" PROVE D!SuccessIsWholeFrame'
      BY <1>a DEF D!SuccessIsWholeFrame
    <2>1. tile_idx = D!Num /\ ~Broken
      BY <1>a, <1>b DEF FailInv
    <2>2. \A i \in 0..(D!Num - 1) : i \in D!Tile /\ stat[i] \in {"DO", "ON", "DONE", "ERR"}
      BY FrameTypes
    <2>3. \A i \in 0..(D!Num - 1) : stat[i] # "ON"
      BY <1>b, <2>2 DEF OwnerInv, D!Busy, D!Holds
    <2>4. \A i \in 0..(D!Num - 1) : stat[i] # "DO"
      BY <2>1, FrameTypes DEF HoldInv
    <2>5. \A i \in 0..(D!Num - 1) : stat[i] = "DONE" /\ Sized(i) /\ Linked(i)
      BY <2>1, <2>2, <2>3, <2>4 DEF Broken, SizeInv
    <2>6. bs_beg[0] = frm.beg
      BY <1>a DEF StartInv
    <2> QED BY <1>a, <2>5, <2>6 DEF D!SuccessIsWholeFrame, Sized, Linked, D!End
  <1> QED BY <1>1, <1>2, <1>3, <1>4, <1>5, <1>6

\* A core takes the next tile, or finds there is none.
LEMMA TakeStep ==
  ASSUME D!DecAssumption, FrameInv, NEW c \in D!Core, D!Take(c) PROVE FrameInv'
  <1>a. /\ Threads \in Nat \ {0} /\ MaxTiles \in Nat \ {0} /\ D!Num \in 1..MaxTiles
        /\ tile_idx \in Nat /\ \A d \in D!Core : tidx[d] \in Nat
    BY FrameTypes
  <1>b. /\ pc[c] = "take"
        /\ UNCHANGED <<bs_beg, tile_size, tile_end, thread_ret, D!callVars>>
        /\ UNCHANGED <<frm, imgb, phase, ci, par, ret, result, nfrm>>
    BY DEF D!Take, D!callVars
  <1>c. \A d \in D!Core : tidx'[d] = IF d = c THEN tile_idx ELSE tidx[d]
    BY DEF D!Take, D!TypeOK
  <1>d. phase # "idle"
    BY <1>b DEF CoreInv, Started
  <1>1. CASE tile_idx < D!Num
    <2>a. /\ tile_idx \in D!Tile /\ tile_idx' = tile_idx + 1
          /\ \A d \in D!Core : pc'[d] = IF d = c THEN "wait" ELSE pc[d]
          /\ \A i \in D!Tile : stat'[i] = IF i = tile_idx THEN "ON" ELSE stat[i]
      BY <1>1, <1>a DEF D!Take, D!Goto, D!Past, D!TypeOK
    <2>1. D!TypeOK'
      <3>1. /\ pc' = [pc EXCEPT ![c] = "wait"] /\ tidx' = [tidx EXCEPT ![c] = tile_idx]
            /\ stat' = [stat EXCEPT ![tile_idx] = "ON"]
        BY <1>1 DEF D!Take, D!Goto
      <3> QED BY <1>a, <1>b, <1>1, <2>a, <3>1 DEF D!TypeOK
    <2>2. CallInv' /\ CoreInv'
      BY <1>b, <2>a DEF CallInv, CoreInv, Started
    <2>3. HoldInv'
      BY <1>1, <1>a, <1>b, <1>c, <2>a DEF HoldInv, D!Holds
    <2>4. OwnerInv'
      <3>1. \A i \in D!Tile : i = tile_idx => D!Busy(i)'
        BY <1>c, <2>a DEF D!Busy, D!Holds
      <3>2. \A i \in D!Tile : D!Busy(i) => D!Busy(i)'
        BY <1>b, <1>c, <2>a DEF D!Busy, D!Holds
      <3> QED BY <2>a, <3>1, <3>2 DEF OwnerInv
    <2>5. StartInv'
      BY <1>1, <1>a, <1>b, <1>c, <1>d, <2>a DEF StartInv, Owes
    <2>6. SizeInv'
      BY <1>a, <1>b, <1>c, <2>a DEF SizeInv, Sized, Linked, D!End
    <2>7. FailInv'
      <3>1. Broken' <=> Broken
        BY <1>1, <1>a, <1>b, <2>a DEF Broken, HoldInv
      <3>2. \A d \in D!Core : pc[d] # "done" \/ thread_ret[d] # "OK"
        BY <1>1, <1>a DEF FailInv
      <3>3. phase # "join" \/ ret # "OK"
        BY <1>1, <1>a DEF FailInv
      <3> QED BY <1>b, <2>a, <3>1, <3>2, <3>3 DEF FailInv
    <2>8. D!SuccessIsWholeFrame'
      BY <1>b, <1>d DEF D!SuccessIsWholeFrame
    <2> QED BY <2>1, <2>2, <2>3, <2>4, <2>5, <2>6, <2>7, <2>8
  <1>2. CASE tile_idx >= D!Num
    <2>a. /\ UNCHANGED <<tile_idx, stat>> /\ tile_idx = D!Num
          /\ pc' = [pc EXCEPT ![c] = "done"]
          /\ \A d \in D!Core : pc'[d] = IF d = c THEN "done" ELSE pc[d]
      BY <1>2, <1>a DEF D!Take, D!Goto, HoldInv, D!TypeOK
    <2>1. D!TypeOK'
      BY <1>2, <1>a, <1>b, <2>a DEF D!Take, D!TypeOK
    <2>2. CallInv' /\ CoreInv'
      BY <1>b, <2>a DEF CallInv, CoreInv, Started
    <2>3. HoldInv' /\ OwnerInv'
      BY <1>b, <1>c, <2>a DEF HoldInv, D!Holds, OwnerInv, D!Busy
    <2>4. StartInv' /\ SizeInv'
      BY <1>b, <1>c, <2>a DEF StartInv, Owes, SizeInv, Sized, Linked, D!End
    <2>5. FailInv'
      BY <1>b, <2>a DEF FailInv, Broken
    <2>6. D!SuccessIsWholeFrame'
      BY <1>b, <1>d DEF D!SuccessIsWholeFrame
    <2> QED BY <2>1, <2>2, <2>3, <2>4, <2>5, <2>6
  <1> QED BY <1>1, <1>2, <1>a

\* A core learns where its tile begins.
LEMMA ToldStep ==
  ASSUME D!DecAssumption, FrameInv, NEW c \in D!Core, D!Told(c) PROVE FrameInv'
  <1>b. /\ pc[c] = "wait" /\ bs_beg[tidx[c]] # D!NULL /\ pc' = [pc EXCEPT ![c] = "size"]
        /\ UNCHANGED <<tile_idx, stat, bs_beg, tile_size, tile_end, tidx, thread_ret>>
        /\ UNCHANGED <<frm, imgb, phase, ci, par, ret, result, nfrm>>
    BY DEF D!Told, D!Goto, D!tileVars, D!callVars
  <1>c. \A d \in D!Core : pc'[d] = IF d = c THEN "size" ELSE pc[d]
    BY <1>b DEF D!TypeOK
  <1>1. D!TypeOK'
    BY <1>b DEF D!TypeOK
  <1>2. CallInv' /\ CoreInv'
    BY <1>b, <1>c DEF CallInv, CoreInv, Started
  <1>3. HoldInv' /\ OwnerInv'
    BY <1>b, <1>c DEF HoldInv, D!Holds, OwnerInv, D!Busy
  <1>4. StartInv' /\ SizeInv'
    BY <1>b, <1>c DEF StartInv, Owes, SizeInv, Sized, Linked, D!End
  <1>5. FailInv'
    BY <1>b, <1>c DEF FailInv, Broken
  <1>6. D!SuccessIsWholeFrame'
    BY <1>b DEF D!SuccessIsWholeFrame, CoreInv, Started
  <1> QED BY <1>1, <1>2, <1>3, <1>4, <1>5, <1>6

\* A core reads and checks the size of its tile.
LEMMA ReadSizeStep ==
  ASSUME D!DecAssumption, FrameInv, NEW c \in D!Core, D!ReadSize(c) PROVE FrameInv'
  <1> DEFINE k == tidx[c]
             fine == D!HasSize(c) /\ D!Fits(c)
             next == IF fine THEN "hand" ELSE "fail"
  <1>a. /\ Threads \in Nat \ {0} /\ MaxTiles \in Nat \ {0} /\ LEN \in Nat \ {0}
        /\ D!Num \in 1..MaxTiles /\ frm.end \in Nat /\ tile_idx \in Nat
        /\ \A d \in D!Core : tidx[d] \in Nat
    BY FrameTypes
  <1>b. /\ pc[c] = "size" /\ pc' = [pc EXCEPT ![c] = next]
        /\ tile_size' = IF D!HasSize(c) THEN [tile_size EXCEPT ![k] = D!SizeRead(c)] ELSE tile_size
        /\ UNCHANGED <<tile_idx, stat, bs_beg, tile_end, tidx, thread_ret>>
        /\ UNCHANGED <<frm, imgb, phase, ci, par, ret, result, nfrm>>
    BY DEF D!ReadSize, D!Goto, D!callVars
  <1>c. \A d \in D!Core : pc'[d] = IF d = c THEN next ELSE pc[d]
    BY <1>b DEF D!TypeOK
  <1>d. k \in D!Tile /\ k < D!Num /\ bs_beg[k] \in Nat /\ stat[k] = "ON"
    BY <1>a, <1>b, FrameTypes DEF HoldInv, D!Holds, StartInv
  <1>e. D!HasSize(c) => D!SizeRead(c) \in Nat
    BY <1>a, <1>d, FrameTypes DEF D!HasSize, D!SizeRead, D!Beg
  <1>f. \A i \in D!Tile : i # k => tile_size'[i] = tile_size[i]
    BY <1>b DEF D!TypeOK
  <1>g. phase # "idle"
    BY <1>b DEF CoreInv, Started
  <1>1. D!TypeOK'
    BY <1>b, <1>d, <1>e DEF D!TypeOK
  <1>2. CallInv' /\ CoreInv'
    BY <1>b, <1>c DEF CallInv, CoreInv, Started
  <1>3. HoldInv' /\ OwnerInv'
    BY <1>b, <1>c DEF HoldInv, D!Holds, OwnerInv, D!Busy
  <1>4. StartInv'
    BY <1>b, <1>c DEF StartInv, Owes
  <1>5. SizeInv'
    <2>1. fine => Sized(k)'
      <3> SUFFICES ASSUME fine PROVE Sized(k)'
        OBVIOUS
      <3>1. tile_size'[k] = D!SizeRead(c)
        BY <1>b, <1>d DEF D!TypeOK
      <3> QED BY <1>a, <1>b, <1>d, <1>e, <3>1 DEF D!Fits, D!SizeRead, D!Beg, Sized, D!End
    <2>2. \A i \in D!Tile : i # k => Sized(i)' = Sized(i) /\ Linked(i)' = Linked(i)
      BY <1>b, <1>f DEF Sized, Linked, D!End
    <2>3. \A d \in D!Core : d # c /\ pc[d] \in {"hand", "dec"} => tidx[d] \in D!Tile /\ tidx[d] # k
      BY <1>a, <1>b DEF HoldInv, D!Holds
    <2>4. \A i \in 0..(D!Num - 1) : stat[i] = "DONE" => i \in D!Tile /\ i # k
      BY <1>a, <1>d
    <2> QED BY <1>b, <1>c, <2>1, <2>2, <2>3, <2>4 DEF SizeInv
  <1>6. FailInv'
    BY <1>b, <1>c DEF FailInv, Broken
  <1>7. D!SuccessIsWholeFrame'
    BY <1>b, <1>g DEF D!SuccessIsWholeFrame
  <1> QED BY <1>1, <1>2, <1>3, <1>4, <1>5, <1>6, <1>7

\* A core tells the owner of the next tile where to begin.
LEMMA HandOverStep ==
  ASSUME D!DecAssumption, FrameInv, NEW c \in D!Core, D!HandOver(c) PROVE FrameInv'
  <1> DEFINE k == tidx[c]
  <1>a. /\ Threads \in Nat \ {0} /\ MaxTiles \in Nat \ {0} /\ LEN \in Nat \ {0}
        /\ D!Num \in 1..MaxTiles /\ tile_idx \in Nat
        /\ \A d \in D!Core : tidx[d] \in Nat
    BY FrameTypes
  <1>b. /\ pc[c] = "hand" /\ pc' = [pc EXCEPT ![c] = "dec"]
        /\ bs_beg' = IF k + 1 < D!Num THEN [bs_beg EXCEPT ![k + 1] = D!End(k)] ELSE bs_beg
        /\ tile_end' = IF k + 1 < D!Num THEN tile_end ELSE D!End(k)
        /\ UNCHANGED <<tile_idx, stat, tile_size, tidx, thread_ret>>
        /\ UNCHANGED <<frm, imgb, phase, ci, par, ret, result, nfrm>>
    BY DEF D!HandOver, D!Goto, D!callVars
  <1>c. \A d \in D!Core : pc'[d] = IF d = c THEN "dec" ELSE pc[d]
    BY <1>b DEF D!TypeOK
  <1>d. k \in D!Tile /\ k < D!Num /\ stat[k] = "ON" /\ k < tile_idx
    BY <1>a, <1>b DEF HoldInv, D!Holds
  <1>e. bs_beg[k] \in Nat /\ tile_size[k] \in Nat /\ D!End(k) \in Nat
    BY <1>a, <1>b, <1>d, FrameTypes DEF SizeInv, Sized, D!End
  <1>f. \A i \in D!Tile : bs_beg'[i] = IF i = k + 1 /\ k + 1 < D!Num THEN D!End(k) ELSE bs_beg[i]
    BY <1>a, <1>b, <1>d DEF D!TypeOK
  <1>g. phase # "idle"
    BY <1>b DEF CoreInv, Started
  <1>h. k + 1 < D!Num => bs_beg[k + 1] = D!NULL /\ k + 1 \in D!Tile
    BY <1>a, <1>b, <1>d DEF StartInv, Owes
  <1>1. D!TypeOK'
    BY <1>a, <1>b, <1>d, <1>e DEF D!TypeOK
  <1>2. CallInv' /\ CoreInv'
    BY <1>b, <1>c DEF CallInv, CoreInv, Started
  <1>3. HoldInv' /\ OwnerInv'
    BY <1>b, <1>c DEF HoldInv, D!Holds, OwnerInv, D!Busy
  <1>4. StartInv'
    <2>1. bs_beg'[0] = bs_beg[0]
      BY <1>a, <1>d, <1>f
    <2>2. \A i \in 0..(D!Num - 1) : i > tile_idx => bs_beg'[i] = D!NULL
      BY <1>a, <1>d, <1>f DEF StartInv
    <2>3. \A d \in D!Core : Owes(d)' => d # c /\ Owes(d) /\ tidx[d] # k /\ tidx[d] \in D!Tile
      BY <1>a, <1>b, <1>c, <1>d DEF Owes, HoldInv, D!Holds
    <2>4. \A d \in D!Core : Owes(d)' /\ tidx[d] + 1 < D!Num => bs_beg'[tidx[d] + 1] = D!NULL
      BY <1>a, <1>d, <1>f, <2>3 DEF StartInv
    <2>5. \A d \in D!Core : pc'[d] \in {"size", "hand", "dec", "fail"} =>
            bs_beg[tidx[d]] # D!NULL /\ tidx[d] \in D!Tile
      BY <1>a, <1>b, <1>c DEF StartInv, HoldInv, D!Holds
    <2>6. \A d \in D!Core : pc'[d] \in {"size", "hand", "dec", "fail"} => bs_beg'[tidx[d]] # D!NULL
      BY <1>e, <1>f, <2>5
    <2> QED BY <1>b, <2>1, <2>2, <2>4, <2>6 DEF StartInv
  <1>5. SizeInv'
    <2>1. \A i \in D!Tile : i < D!Num /\ Sized(i) => Sized(i)' /\ D!End(i)' = D!End(i)
      BY <1>b, <1>f, <1>h DEF Sized, D!End
    <2>2. \A i \in 0..(D!Num - 1) : i # k /\ Sized(i) /\ Linked(i) => Linked(i)'
      BY <1>a, <1>b, <1>d, <1>f, <2>1 DEF Linked
    <2>3. Sized(k) /\ Linked(k)'
      BY <1>a, <1>b, <1>d, <1>f, <2>1 DEF SizeInv, Linked
    <2>4. \A d \in D!Core : d # c /\ pc[d] \in {"hand", "dec"}
                            => tidx[d] \in 0..(D!Num - 1) /\ tidx[d] # k
      BY <1>a, <1>b DEF HoldInv, D!Holds
    <2>5. \A i \in 0..(D!Num - 1) : i \in D!Tile /\ (stat[i] = "DONE" => i # k)
      BY <1>a, <1>d
    <2> QED BY <1>a, <1>b, <1>c, <1>d, <2>1, <2>2, <2>3, <2>4, <2>5 DEF SizeInv
  <1>6. FailInv'
    BY <1>b, <1>c DEF FailInv, Broken
  <1>7. D!SuccessIsWholeFrame'
    BY <1>b, <1>g DEF D!SuccessIsWholeFrame
  <1> QED BY <1>1, <1>2, <1>3, <1>4, <1>5, <1>6, <1>7

\* A core has decoded its tile, or failed to.
LEMMA MarkStep ==
  ASSUME D!DecAssumption, FrameInv, NEW c \in D!Core, NEW ok \in BOOLEAN, D!Mark(c, ok)
  PROVE  FrameInv'
  <1> DEFINE k == tidx[c]
             end == IF ok THEN "DONE" ELSE "ERR"
  <1>a. /\ Threads \in Nat \ {0} /\ MaxTiles \in Nat \ {0} /\ D!Num \in 1..MaxTiles
        /\ tile_idx \in Nat /\ \A d \in D!Core : tidx[d] \in Nat
    BY FrameTypes
  <1>b. /\ pc[c] = "dec" /\ pc' = [pc EXCEPT ![c] = "take"]
        /\ stat' = [stat EXCEPT ![k] = end]
        /\ thread_ret' = [thread_ret EXCEPT ![c] = IF ok THEN @ ELSE "ERR"]
        /\ UNCHANGED <<tile_idx, bs_beg, tile_size, tile_end, tidx>>
        /\ UNCHANGED <<frm, imgb, phase, ci, par, ret, result, nfrm>>
    BY DEF D!Mark, D!Goto, D!callVars
  <1>c. /\ \A d \in D!Core : pc'[d] = IF d = c THEN "take" ELSE pc[d]
        /\ \A d \in D!Core : thread_ret'[d] = IF d = c /\ ~ok THEN "ERR" ELSE thread_ret[d]
    BY <1>b DEF D!TypeOK
  <1>d. k \in 0..(D!Num - 1) /\ k \in D!Tile /\ stat[k] = "ON" /\ k < tile_idx
    BY <1>a, <1>b DEF HoldInv, D!Holds
  <1>e. \A i \in D!Tile : stat'[i] = IF i = k THEN end ELSE stat[i]
    BY <1>b, <1>d DEF D!TypeOK
  <1>f. \A d \in D!Core : D!Holds(d)' <=> d # c /\ D!Holds(d)
    BY <1>b, <1>c DEF D!Holds
  <1>g. \A d \in D!Core : D!Holds(d)' => tidx[d] # k /\ tidx[d] \in D!Tile /\ tidx[d] < D!Num
    BY <1>a, <1>b, <1>f DEF HoldInv, D!Holds
  <1>h. phase # "idle"
    BY <1>b DEF CoreInv, Started
  <1>1. D!TypeOK'
    BY <1>b, <1>d DEF D!TypeOK
  <1>2. CallInv' /\ CoreInv'
    BY <1>b, <1>c DEF CallInv, CoreInv, Started
  <1>3. HoldInv'
    BY <1>a, <1>b, <1>d, <1>e, <1>f, <1>g DEF HoldInv
  <1>4. OwnerInv'
    <2>1. \A i \in D!Tile : i # k /\ D!Busy(i) => D!Busy(i)'
      BY <1>b, <1>f DEF D!Busy
    <2> QED BY <1>e, <2>1 DEF OwnerInv
  <1>5. StartInv'
    BY <1>b, <1>c DEF StartInv, Owes
  <1>6. SizeInv'
    <2>1. \A i \in D!Tile : (Sized(i)' <=> Sized(i)) /\ (Linked(i)' <=> Linked(i))
      BY <1>b DEF Sized, Linked, D!End
    <2>2. Sized(k) /\ Linked(k)
      BY <1>b DEF SizeInv
    <2>3. \A i \in 0..(D!Num - 1) : i \in D!Tile
      BY <1>a
    <2> QED BY <1>b, <1>c, <1>d, <1>e, <1>g, <2>1, <2>2, <2>3 DEF SizeInv, D!Holds
  <1>7. FailInv'
    <2>1. \A i \in 0..(D!Num - 1) : i \in D!Tile
      BY <1>a
    <2>2. ok => (Broken' <=> Broken)
      BY <1>b, <1>d, <1>e, <2>1 DEF Broken
    <2>3. ~ok => Broken' /\ pc'[c] # "off" /\ thread_ret'[c] = "ERR"
      BY <1>b, <1>c, <1>d, <1>e DEF Broken
    <2> QED BY <1>b, <1>c, <2>2, <2>3 DEF FailInv
  <1>8. D!SuccessIsWholeFrame'
    BY <1>b, <1>h DEF D!SuccessIsWholeFrame
  <1> QED BY <1>1, <1>2, <1>3, <1>4, <1>5, <1>6, <1>7, <1>8

\* A core gives up its tile and leaves.
LEMMA FailStep ==
  ASSUME D!DecAssumption, FrameInv, NEW c \in D!Core, D!Fail(c) PROVE FrameInv'
  <1> DEFINE k == tidx[c]
  <1>a. /\ Threads \in Nat \ {0} /\ MaxTiles \in Nat \ {0} /\ D!Num \in 1..MaxTiles
        /\ tile_idx \in Nat /\ \A d \in D!Core : tidx[d] \in Nat
    BY FrameTypes
  <1>b. /\ pc[c] = "fail" /\ pc' = [pc EXCEPT ![c] = "done"]
        /\ stat' = [stat EXCEPT ![k] = "ERR"]
        /\ bs_beg' = IF k + 1 < D!Num THEN [bs_beg EXCEPT ![k + 1] = bs_beg[k]] ELSE bs_beg
        /\ thread_ret' = [thread_ret EXCEPT ![c] = "ERR"]
        /\ UNCHANGED <<tile_idx, tile_size, tile_end, tidx>>
        /\ UNCHANGED <<frm, imgb, phase, ci, par, ret, result, nfrm>>
    BY DEF D!Fail, D!Goto, D!PassOn, D!Beg, D!callVars
  <1>c. /\ \A d \in D!Core : pc'[d] = IF d = c THEN "done" ELSE pc[d]
        /\ \A d \in D!Core : thread_ret'[d] = IF d = c THEN "ERR" ELSE thread_ret[d]
    BY <1>b DEF D!TypeOK
  <1>d. k \in 0..(D!Num - 1) /\ k \in D!Tile /\ stat[k] = "ON" /\ k < tile_idx /\ bs_beg[k] \in Nat
    BY <1>a, <1>b, FrameTypes DEF HoldInv, D!Holds, StartInv
  <1>e. /\ \A i \in D!Tile : stat'[i] = IF i = k THEN "ERR" ELSE stat[i]
        /\ \A i \in D!Tile :
             bs_beg'[i] = IF i = k + 1 /\ k + 1 < D!Num THEN bs_beg[k] ELSE bs_beg[i]
    BY <1>a, <1>b, <1>d DEF D!TypeOK
  <1>f. \A d \in D!Core : D!Holds(d)' <=> d # c /\ D!Holds(d)
    BY <1>b, <1>c DEF D!Holds
  <1>g. \A d \in D!Core : D!Holds(d)' => tidx[d] # k /\ tidx[d] \in D!Tile /\ tidx[d] < D!Num
    BY <1>a, <1>b, <1>f DEF HoldInv, D!Holds
  <1>h. phase # "idle"
    BY <1>b DEF CoreInv, Started
  <1>i. k + 1 < D!Num => bs_beg[k + 1] = D!NULL /\ k + 1 \in D!Tile
    BY <1>a, <1>b, <1>d DEF StartInv, Owes
  <1>1. D!TypeOK'
    BY <1>a, <1>b, <1>d DEF D!TypeOK
  <1>2. CallInv' /\ CoreInv'
    BY <1>b, <1>c DEF CallInv, CoreInv, Started
  <1>3. HoldInv'
    BY <1>a, <1>b, <1>d, <1>e, <1>f, <1>g DEF HoldInv
  <1>4. OwnerInv'
    <2>1. \A i \in D!Tile : i # k /\ D!Busy(i) => D!Busy(i)'
      BY <1>b, <1>f DEF D!Busy
    <2> QED BY <1>e, <2>1 DEF OwnerInv
  <1>5. StartInv'
    <2>1. bs_beg'[0] = bs_beg[0]
      BY <1>a, <1>d, <1>e
    <2>2. \A i \in 0..(D!Num - 1) : i > tile_idx => bs_beg'[i] = D!NULL
      BY <1>a, <1>d, <1>e DEF StartInv
    <2>3. \A d \in D!Core : Owes(d)' => D!Holds(d)' /\ Owes(d)
      BY <1>c DEF Owes, D!Holds
    <2>4. \A d \in D!Core : Owes(d)' /\ tidx[d] + 1 < D!Num => bs_beg'[tidx[d] + 1] = D!NULL
      BY <1>a, <1>d, <1>e, <1>g, <2>3 DEF StartInv
    <2>5. \A d \in D!Core : pc'[d] \in {"size", "hand", "dec", "fail"} =>
            bs_beg[tidx[d]] # D!NULL /\ tidx[d] \in D!Tile
      BY <1>c, <1>g DEF StartInv, D!Holds
    <2>6. \A d \in D!Core : pc'[d] \in {"size", "hand", "dec", "fail"} => bs_beg'[tidx[d]] # D!NULL
      BY <1>d, <1>e, <2>5
    <2> QED BY <1>b, <2>1, <2>2, <2>4, <2>6 DEF StartInv
  <1>6. SizeInv'
    <2>1. \A i \in D!Tile : i < D!Num /\ Sized(i) => Sized(i)' /\ D!End(i)' = D!End(i)
      BY <1>b, <1>e, <1>i DEF Sized, D!End
    <2>2. \A i \in 0..(D!Num - 1) : i # k /\ Sized(i) /\ Linked(i) => Linked(i)'
      BY <1>a, <1>b, <1>d, <1>e, <2>1 DEF Linked
    <2>3. \A i \in 0..(D!Num - 1) : i \in D!Tile
      BY <1>a
    <2>4. \A d \in D!Core : pc'[d] \in {"hand", "dec"}
                            => tidx[d] \in 0..(D!Num - 1) /\ tidx[d] # k /\ pc'[d] = pc[d]
      BY <1>a, <1>c, <1>g DEF D!Holds
    <2>5. \A d \in D!Core : pc'[d] \in {"hand", "dec"} => Sized(tidx[d])'
      BY <1>a, <1>b, <2>1, <2>3, <2>4 DEF SizeInv
    <2>6. \A d \in D!Core : pc'[d] = "dec" => Linked(tidx[d])'
      BY <1>b, <2>2, <2>4 DEF SizeInv
    <2>7. \A i \in 0..(D!Num - 1) : stat'[i] = "DONE" => Sized(i)' /\ Linked(i)'
      BY <1>a, <1>d, <1>e, <2>1, <2>2, <2>3 DEF SizeInv
    <2> QED BY <1>b, <2>5, <2>6, <2>7 DEF SizeInv
  <1>7. FailInv'
    <2>1. Broken' /\ pc'[c] # "off" /\ thread_ret'[c] = "ERR"
      BY <1>b, <1>c, <1>d, <1>e DEF Broken
    <2> QED BY <1>b, <1>c, <2>1 DEF FailInv
  <1>8. D!SuccessIsWholeFrame'
    BY <1>b, <1>h DEF D!SuccessIsWholeFrame
  <1> QED BY <1>1, <1>2, <1>3, <1>4, <1>5, <1>6, <1>7, <1>8

\* Nothing changes.
LEMMA StutterStep == ASSUME FrameInv, UNCHANGED D!vars PROVE FrameInv'
  <1> USE DEF D!vars, D!tileVars, D!coreVars, D!callVars
  <1>1. D!TypeOK' /\ CallInv' /\ CoreInv'
    BY DEF D!TypeOK, CallInv, CoreInv, Started
  <1>2. HoldInv' /\ OwnerInv'
    BY DEF HoldInv, D!Holds, OwnerInv, D!Busy
  <1>3. StartInv' /\ SizeInv'
    BY DEF StartInv, Owes, SizeInv, Sized, Linked, D!End
  <1>4. FailInv'
    BY DEF FailInv, Broken
  <1>5. D!SuccessIsWholeFrame'
    BY DEF D!SuccessIsWholeFrame, D!End
  <1> QED BY <1>1, <1>2, <1>3, <1>4, <1>5

\* Every step keeps the invariant.
LEMMA FrameNextPreserves ==
  ASSUME D!DecAssumption, FrameInv, [D!Next]_(D!vars) PROVE FrameInv'
  <1>1. ASSUME NEW f \in WholeFrames, D!Prepare(f) PROVE FrameInv'
    BY <1>1, PrepareStep
  <1>2. CASE D!Caller
    BY <1>2, RunStep, OwnShareStep, OwnShareEndsStep, JoinStep, FinishStep DEF D!Caller
  <1>3. ASSUME NEW c \in D!Core, D!Worker(c) PROVE FrameInv'
    <2>1. CASE D!Spin(c)
      BY <2>1, StutterStep DEF D!Spin
    <2>2. ASSUME NEW ok \in BOOLEAN, D!Mark(c, ok)
  PROVE  FrameInv'
      BY <2>2, MarkStep
    <2> QED BY <1>3, <2>1, <2>2, TakeStep, ToldStep, ReadSizeStep, HandOverStep, FailStep
             DEF D!Worker
  <1>4. CASE UNCHANGED D!vars \/ D!Ended
    BY <1>4, StutterStep DEF D!Ended
  <1> QED BY <1>1, <1>2, <1>3, <1>4 DEF D!Next

\* A context whose tile array is cleared satisfies the invariant.
LEMMA FrameInitEstablishes == ASSUME D!DecAssumption, D!Init PROVE FrameInv
  <1>1. D!TypeOK
    <2>1. 0 \in 0..MaxTiles /\ 0 \in 0..Threads /\ 0 \in 0..MaxCalls /\ 1 \in 1..Threads
      BY DEF D!DecAssumption
    <2>2. /\ stat \in [D!Tile -> {"DO", "ON", "DONE", "ERR"}]
          /\ bs_beg \in [D!Tile -> Nat \cup {D!NULL}] /\ tile_size \in [D!Tile -> Nat]
          /\ tidx \in [D!Core -> 0..MaxTiles] /\ thread_ret \in [D!Core -> {"OK", "ERR"}]
          /\ pc \in [D!Core -> {"off", "take", "wait", "size", "hand", "dec", "fail", "done"}]
      BY <2>1 DEF D!Init
    <2> QED BY <2>1, <2>2 DEF D!Init, D!TypeOK
  <1>2. CallInv /\ CoreInv /\ HoldInv /\ OwnerInv
    BY <1>1, FrameTypes DEF D!Init, CallInv, CoreInv, Started, HoldInv, D!Holds, OwnerInv
  <1>3. StartInv /\ SizeInv
    BY <1>1, FrameTypes DEF D!Init, StartInv, Owes, SizeInv
  <1>4. FailInv /\ D!SuccessIsWholeFrame
    BY <1>1, FrameTypes DEF D!Init, FailInv, Broken, D!SuccessIsWholeFrame
  <1> QED BY <1>1, <1>2, <1>3, <1>4

\* Every reachable state satisfies the inductive invariant.
THEOREM FrameInvariance == ASSUME D!DecAssumption PROVE D!Spec => []FrameInv
  <1>1. D!Init => FrameInv
    BY FrameInitEstablishes
  <1>2. FrameInv /\ [D!Next]_(D!vars) => FrameInv'
    BY FrameNextPreserves
  <1> QED BY <1>1, <1>2, PTL DEF D!Spec

\* The fields of ctx and of its tiles keep their types: in particular no tile
\* is given a place or a size that is not a number (oapvd_decode,
\* dec_thread_tile).
THEOREM FrameTypeCorrect == ASSUME D!DecAssumption PROVE D!Spec => []D!TypeOK
  <1>1. FrameInv => D!TypeOK
    OBVIOUS
  <1> QED BY <1>1, FrameInvariance, PTL

\* dec_tile never reads beyond the bytes the caller handed in, whatever sizes
\* the bitstream spells and however the threads interleave, and it reads a
\* tile with the size the frame header gives, if it gives any.
THEOREM FrameInBounds == ASSUME D!DecAssumption PROVE D!Spec => []D!DecodedInBounds
  <1>1. FrameInv => D!DecodedInBounds
    BY DEF D!DecodedInBounds, SizeInv, Sized
  <1> QED BY <1>1, FrameInvariance, PTL

\* oapvd_decode returns OAPV_OK only when the threads have decoded together
\* what one thread would have decoded in order.
THEOREM FrameSucceedsWhole == ASSUME D!DecAssumption PROVE D!Spec => []D!SuccessIsWholeFrame
  <1>1. FrameInv => D!SuccessIsWholeFrame
    OBVIOUS
  <1> QED BY <1>1, FrameInvariance, PTL

\* No step moves a tile of the frame being decoded whose place is known.
LEMMA StartsStep == ASSUME FrameInv, D!Next, phase # "idle" PROVE D!StartsKept
  <1>1. ASSUME NEW c \in D!Core, D!HandOver(c) \/ D!Fail(c) PROVE D!StartsKept
    <2>1. /\ tidx[c] + 1 < D!Num => bs_beg[tidx[c] + 1] = D!NULL
          /\ bs_beg \in [D!Tile -> Nat \cup {D!NULL}]
      BY <1>1 DEF D!HandOver, D!Fail, StartInv, Owes, D!TypeOK
    <2>2. \A i \in D!Tile : (i = tidx[c] + 1 /\ tidx[c] + 1 < D!Num) \/ bs_beg'[i] = bs_beg[i]
      BY <1>1, <2>1 DEF D!HandOver, D!Fail, D!PassOn
    <2> QED BY <2>1, <2>2 DEF D!StartsKept
  <1>2. CASE UNCHANGED bs_beg
    BY <1>2 DEF D!StartsKept
  <1> QED BY <1>1, <1>2 DEF D!Next, D!Caller, D!Worker, D!Prepare, D!Run, D!OwnShare, D!OwnShareEnds,
          D!Join, D!Finish, D!Take, D!Spin, D!Told, D!ReadSize, D!Mark, D!Ended, D!vars, D!tileVars

\* While a frame is being decoded nobody moves a tile whose place is known,
\* so that reading bs_beg outside the critical section is safe
\* (dec_thread_tile).
THEOREM FrameStartsAreFinal == ASSUME D!DecAssumption PROVE D!Spec => D!StartIsFinal
  <1>1. FrameInv /\ [D!Next]_(D!vars) => [phase # "idle" => D!StartsKept]_(D!vars)
    BY StartsStep
  <1> QED BY <1>1, FrameInvariance, PTL DEF D!Spec, D!StartIsFinal

----------------------------------------------------------------------------
(* DecTiles implements TileWork                                            *)

FrameWork == INSTANCE TileWork WITH Tile  <- D!Tile,
                                    open  <- imgb,
                                    want  <- 0..(frm.n - 1),
                                    tiles <- [i \in D!Tile |-> D!TileState(i)],
                                    good  <- result = "OK"

FrameImplementsTileWork == FrameWork!Spec

\* What TileWork sees of a tile, which is never shared: its status when nobody
\* holds it.
Status(i) == IF D!Busy(i) THEN "busy" ELSE IF stat[i] = "DONE" THEN "done"
             ELSE IF stat[i] = "ERR" THEN "err" ELSE "todo"

\* The mapping's TileState is that.
LEMMA FrameStateOf == FrameInv => \A i \in D!Tile : D!TileState(i) = Status(i)
  <1> SUFFICES ASSUME FrameInv, NEW i \in D!Tile PROVE D!TileState(i) = Status(i)
    OBVIOUS
  <1>1. ~D!Shared(i)
    BY DEF HoldInv, D!Shared
  <1>2. stat[i] \in {"DO", "ON", "DONE", "ERR"}
    BY DEF D!TypeOK
  <1>3. D!Busy(i) => stat[i] = "ON"
    BY DEF HoldInv, D!Busy
  <1> QED BY <1>1, <1>2, <1>3 DEF D!TileState, Status

\* The same after a step.
LEMMA FrameStateAfter == (FrameInv => \A i \in D!Tile : D!TileState(i) = Status(i))'
  BY FrameStateOf, PTL

\* The steps that neither take a tile nor put one down.
LEMMA FrameWorkKept ==
  ASSUME FrameInv, FrameInv', UNCHANGED <<stat, frm, imgb, result>>,
         \A c \in D!Core : (D!Holds(c)' <=> D!Holds(c)) /\ (D!Holds(c) => tidx'[c] = tidx[c])
  PROVE  UNCHANGED FrameWork!vars
  <1>1. \A i \in D!Tile : D!Busy(i)' <=> D!Busy(i)
    BY DEF D!Busy
  <1>2. \A i \in D!Tile : D!TileState(i)' = D!TileState(i)
    BY <1>1, FrameStateOf, FrameStateAfter DEF Status
  <1> QED BY <1>2 DEF FrameWork!vars

\* One tile changes hands and no other does.
LEMMA FrameWorkMoves ==
  ASSUME D!DecAssumption, FrameInv, FrameInv', NEW k \in 0..(D!Num - 1), NEW from, NEW to,
         UNCHANGED <<frm, imgb, result>>, imgb,
         Status(k) = from, Status(k)' = to,
         \A i \in D!Tile : i # k => Status(i)' = Status(i)
  PROVE  FrameWork!Move(k, from, to)
  <1>1. /\ k \in D!Tile /\ D!TileState(k) = from /\ D!TileState(k)' = to
        /\ \A i \in D!Tile : i # k => D!TileState(i)' = D!TileState(i)
    BY FrameTypes, FrameStateOf, FrameStateAfter
  <1>2. [i \in D!Tile |-> D!TileState(i)]' = [[i \in D!Tile |-> D!TileState(i)] EXCEPT ![k] = to]
    BY <1>1
  <1> QED BY <1>1, <1>2 DEF FrameWork!Move

\* Nothing is decoded yet.
LEMMA FrameWorkInit == ASSUME D!DecAssumption, D!Init PROVE FrameWork!Init
  <1>1. FrameInv
    BY FrameInitEstablishes
  <1>2. \A i \in D!Tile : D!TileState(i) = "todo"
    BY <1>1, FrameStateOf DEF D!Init, Status, D!Busy, D!Holds
  <1>3. 0..(frm.n - 1) \in SUBSET D!Tile
    BY <1>1, FrameTypes
  <1> QED BY <1>2, <1>3 DEF D!Init, FrameWork!Init

\* Every step is a step of TileWork or a stutter.
LEMMA FrameWorkStep ==
  ASSUME D!DecAssumption, FrameInv, FrameInv', [D!Next]_(D!vars)
  PROVE  [FrameWork!Next]_(FrameWork!vars)
  <1> DEFINE Goal == [FrameWork!Next]_(FrameWork!vars)
  <1>1. ASSUME NEW f \in WholeFrames, D!Prepare(f) PROVE Goal
    <2>1. /\ f.n \in 1..MaxTiles /\ MaxTiles \in Nat
      BY FrameTypes
    <2>2. /\ phase = "idle" /\ ~imgb /\ imgb' /\ frm' = f /\ UNCHANGED result
          /\ \A c \in D!Core : pc[c] = "off" /\ pc'[c] = "off"
      BY <1>1 DEF D!Prepare, CallInv, CoreInv, Started, D!coreVars
    <2>3. \A i \in D!Tile : stat'[i] = IF i < f.n THEN "DO" ELSE stat[i]
      BY <1>1 DEF D!Prepare
    <2>4. \A i \in D!Tile : ~D!Busy(i) /\ ~D!Busy(i)'
      BY <2>2 DEF D!Busy, D!Holds
    <2>5. \A i \in D!Tile : D!TileState(i)' = IF i \in 0..(f.n - 1) THEN "todo" ELSE D!TileState(i)
      BY <2>1, <2>3, <2>4, FrameStateOf, FrameStateAfter DEF Status
    <2>6. 0 \in 0..(f.n - 1) /\ 0..(f.n - 1) \in SUBSET D!Tile
      BY <2>1
    <2>7. FrameWork!Begin(0..(f.n - 1))
      BY <2>2, <2>5, <2>6 DEF FrameWork!Begin
    <2> QED BY <2>6, <2>7 DEF FrameWork!Next
  <1>2. CASE D!Run \/ D!OwnShare \/ D!OwnShareEnds \/ D!Join
    <2>1. UNCHANGED <<stat, frm, imgb, result, tidx>>
      BY <1>2 DEF D!Run, D!OwnShare, D!OwnShareEnds, D!Join, D!tileVars
    <2>2. ci \in D!Core /\ pc[ci] \in {"off", "done"}
      BY <1>2, FrameTypes DEF D!Run, D!OwnShare, D!OwnShareEnds, D!Join, CallInv, CoreInv, Started
    <2>3. pc' = [pc EXCEPT ![ci] = "take"] \/ pc' = [pc EXCEPT ![ci] = "off"]
      BY <1>2 DEF D!Run, D!OwnShare, D!OwnShareEnds, D!Join, D!Starts
    <2>4. \A c \in D!Core : D!Holds(c)' <=> D!Holds(c)
      BY <2>2, <2>3 DEF D!Holds, D!TypeOK
    <2> QED BY <2>1, <2>4, FrameWorkKept
  <1>3. CASE D!Finish
    <2>1. /\ phase = "join" /\ ci = par - 1 /\ imgb /\ imgb' = FALSE /\ result' = ret
          /\ UNCHANGED <<stat, pc, tidx, frm>>
      BY <1>3 DEF D!Finish, CallInv, D!tileVars, D!coreVars
    <2>2. \A c \in D!Core : pc[c] = "off"
      BY <2>1, FrameTypes DEF CoreInv, Started
    <2>3. \A i \in D!Tile : ~D!Busy(i) /\ ~D!Busy(i)' /\ Status(i)' = Status(i)
      BY <2>1, <2>2 DEF D!Busy, D!Holds, Status
    <2>4. \A i \in D!Tile : D!TileState(i)' = D!TileState(i) /\ D!TileState(i) # "busy"
      BY <2>3, FrameStateOf, FrameStateAfter DEF Status
    <2>5. \A i \in 0..(D!Num - 1) : i \in D!Tile /\ stat[i] \in {"DO", "ON", "DONE", "ERR"}
      BY FrameTypes
    <2>6. \A i \in 0..(D!Num - 1) : stat[i] # "ON"
      BY <2>2, <2>5 DEF OwnerInv, D!Busy, D!Holds
    <2>7. ret = "OK" => \A i \in 0..(D!Num - 1) : D!TileState(i) = "done"
      <3> SUFFICES ASSUME ret = "OK" PROVE \A i \in 0..(D!Num - 1) : D!TileState(i) = "done"
        OBVIOUS
      <3>1. tile_idx = D!Num /\ ~Broken
        BY <2>1, <2>2 DEF FailInv
      <3>2. \A i \in 0..(D!Num - 1) : stat[i] = "DONE"
        BY <2>5, <2>6, <3>1, FrameTypes DEF HoldInv, Broken
      <3> QED BY <2>3, <2>5, <3>2, FrameStateOf DEF Status
    <2>8. ret # "OK" => \E i \in 0..(D!Num - 1) : D!TileState(i) = "err"
      <3> SUFFICES ASSUME ret # "OK" PROVE \E i \in 0..(D!Num - 1) : D!TileState(i) = "err"
        OBVIOUS
      <3>1. PICK i \in 0..(D!Num - 1) : stat[i] = "ERR"
        BY <2>1, FrameTypes DEF FailInv, Broken
      <3>2. D!TileState(i) = "err"
        BY <2>3, <2>5, <3>1, FrameStateOf DEF Status
      <3> QED BY <3>2
    <2>9. FrameWork!Quiet
      BY <2>4 DEF FrameWork!Quiet
    <2>10. FrameWork!AllDone <=> ret = "OK"
      BY <2>5, <2>7, <2>8 DEF FrameWork!AllDone
    <2>11. FrameWork!SomeFailed <=> ret # "OK"
      BY <2>5, <2>7, <2>8 DEF FrameWork!SomeFailed
    <2>12. (result' = "OK") = FrameWork!AllDone
      BY <2>1, <2>10 DEF FrameWork!AllDone
    <2>13. FrameWork!End
      BY <2>1, <2>4, <2>9, <2>10, <2>11, <2>12 DEF FrameWork!End
    <2> QED BY <2>13 DEF FrameWork!Next
  <1>4. ASSUME NEW c \in D!Core, D!Take(c), tile_idx < D!Num PROVE Goal
    <2>1. /\ pc[c] = "take" /\ tile_idx \in 0..(D!Num - 1) /\ tile_idx \in D!Tile
          /\ UNCHANGED <<frm, imgb, result>> /\ imgb
      BY <1>4, FrameTypes DEF D!Take, D!callVars, CallInv, CoreInv, Started
    <2>2. /\ \A d \in D!Core : pc'[d] = IF d = c THEN "wait" ELSE pc[d]
          /\ \A d \in D!Core : tidx'[d] = IF d = c THEN tile_idx ELSE tidx[d]
          /\ \A i \in D!Tile : stat'[i] = IF i = tile_idx THEN "ON" ELSE stat[i]
      BY <1>4, <2>1 DEF D!Take, D!Goto, D!TypeOK
    <2>3. \A i \in D!Tile : (D!Busy(i)' <=> i = tile_idx \/ D!Busy(i)) /\ (D!Busy(i) => i < tile_idx)
      BY <2>1, <2>2 DEF D!Busy, D!Holds, HoldInv
    <2>4. ~D!Busy(tile_idx) /\ stat[tile_idx] = "DO"
      BY <2>1, <2>3, FrameTypes DEF HoldInv
    <2>5. PICK k \in 0..(D!Num - 1) : k = tile_idx
      BY <2>1
    <2>6. Status(k) = "todo" /\ Status(k)' = "busy"
      BY <2>1, <2>3, <2>4, <2>5 DEF Status
    <2>7. \A i \in D!Tile : i # k => Status(i)' = Status(i)
      BY <2>2, <2>3, <2>5 DEF Status
    <2>8. FrameWork!Move(k, "todo", "busy")
      BY <2>1, <2>6, <2>7, FrameWorkMoves
    <2> QED BY <2>1, <2>5, <2>8 DEF FrameWork!Next, FrameWork!Take
  <1>5. ASSUME NEW c \in D!Core, D!Take(c), tile_idx >= D!Num PROVE Goal
    <2>1. /\ pc[c] = "take" /\ UNCHANGED <<stat, frm, imgb, result>>
          /\ pc' = [pc EXCEPT ![c] = "done"] /\ tidx' = [tidx EXCEPT ![c] = tile_idx]
      BY <1>5, FrameTypes DEF D!Take, D!Goto, D!callVars
    <2>2. \A d \in D!Core : (D!Holds(d)' <=> D!Holds(d)) /\ (D!Holds(d) => tidx'[d] = tidx[d])
      BY <2>1 DEF D!Holds, D!TypeOK
    <2> QED BY <2>1, <2>2, FrameWorkKept
  <1>6. ASSUME NEW c \in D!Core, D!Told(c) \/ D!ReadSize(c) \/ D!HandOver(c) PROVE Goal
    <2>1. /\ UNCHANGED <<stat, tidx>> /\ UNCHANGED <<frm, imgb, result>> /\ D!Holds(c)
      BY <1>6 DEF D!Told, D!ReadSize, D!HandOver, D!tileVars, D!callVars, D!Holds
    <2>2. PICK p \in {"size", "hand", "fail", "dec"} : pc' = [pc EXCEPT ![c] = p]
      BY <1>6 DEF D!Told, D!ReadSize, D!HandOver, D!Goto
    <2>3. \A d \in D!Core : D!Holds(d)' <=> D!Holds(d)
      BY <2>1, <2>2 DEF D!Holds, D!TypeOK
    <2> QED BY <2>1, <2>3, FrameWorkKept
  <1>7. ASSUME NEW c \in D!Core, D!Fail(c) \/ \E ok \in BOOLEAN : D!Mark(c, ok) PROVE Goal
    <2>1. PICK end \in {"DONE", "ERR"} : stat' = [stat EXCEPT ![tidx[c]] = end]
      BY <1>7 DEF D!Fail, D!Mark
    <2>2. /\ D!Holds(c) /\ UNCHANGED <<tidx, frm, imgb, result>> /\ imgb
      BY <1>7 DEF D!Fail, D!Mark, D!Holds, D!callVars, CallInv, CoreInv, Started
    <2>3. PICK k \in 0..(D!Num - 1) : k = tidx[c] /\ k \in D!Tile
      BY <2>2, FrameTypes DEF HoldInv
    <2>4. pc' = [pc EXCEPT ![c] = "take"] \/ pc' = [pc EXCEPT ![c] = "done"]
      BY <1>7 DEF D!Fail, D!Mark, D!Goto
    <2>5. \A d \in D!Core : D!Holds(d)' <=> d # c /\ D!Holds(d)
      BY <2>4 DEF D!Holds, D!TypeOK
    <2>6. D!Busy(k) /\ ~D!Busy(k)' /\ \A i \in D!Tile : i # k => (D!Busy(i)' <=> D!Busy(i))
      BY <2>2, <2>3, <2>5 DEF D!Busy, HoldInv
    <2>7. \A i \in D!Tile : stat'[i] = IF i = k THEN end ELSE stat[i]
      BY <2>1, <2>3 DEF D!TypeOK
    <2>8. Status(k) = "busy" /\ Status(k)' = IF end = "DONE" THEN "done" ELSE "err"
      BY <2>3, <2>6, <2>7 DEF Status
    <2>9. \A i \in D!Tile : i # k => Status(i)' = Status(i)
      BY <2>6, <2>7 DEF Status
    <2>10. FrameWork!Move(k, "busy", IF end = "DONE" THEN "done" ELSE "err")
      BY <2>2, <2>8, <2>9, FrameWorkMoves
    <2> QED BY <2>3, <2>10 DEF FrameWork!Next, FrameWork!PutDown
  <1>8. CASE UNCHANGED D!vars \/ D!Ended \/ \E c \in D!Core : D!Spin(c)
    <2>1. UNCHANGED <<stat, tidx, pc, frm, imgb, result>>
      BY <1>8 DEF D!Ended, D!Spin, D!vars, D!tileVars, D!coreVars, D!callVars
    <2> QED BY <2>1, FrameWorkKept DEF D!Holds
  <1>9. \A c \in D!Core : D!Take(c) => Goal
    BY <1>4, <1>5, FrameTypes
  <1> QED BY <1>1, <1>2, <1>3, <1>6, <1>7, <1>8, <1>9 DEF D!Next, D!Caller, D!Worker

\* However many threads share the tiles of a frame, every tile is worked on by
\* one of them and at most once, the image is given back when nobody works on
\* a tile any more, and the call tells truly whether all were decoded
\* (oapvd_decode, dec_thread_tile).
THEOREM DecodeImplementsTileWork == ASSUME D!DecAssumption PROVE D!Spec => FrameImplementsTileWork
  <1>1. D!Init => FrameWork!Init
    BY FrameWorkInit
  <1>2. FrameInv /\ FrameInv' /\ [D!Next]_(D!vars) => [FrameWork!Next]_(FrameWork!vars)
    BY FrameWorkStep
  <1> QED BY <1>1, <1>2, FrameInvariance, PTL DEF D!Spec, FrameWork!Spec, FrameImplementsTileWork

----------------------------------------------------------------------------
(* The modules the proofs are about are the ones Tiles is composed of.     *)

\* DecTilesSel.
LEMMA ChosenSame ==
  /\ (S!SelAssumption <=> SP!SelAssumption) /\ S!vars = SP!vars
  /\ S!Init <=> SP!Init
  /\ S!Next <=> SP!Next
  /\ S!DecodedInBounds <=> SP!DecodedInBounds
  /\ S!SuccessIsRequest <=> SP!SuccessIsRequest
  /\ \A i : S!TileState(i) = SP!TileState(i)
  <1> USE DEF S!Core, SP!Core, S!Tile, SP!Tile, S!NULL, SP!NULL, S!SelAssumption,
              SP!SelAssumption, S!tileVars, SP!tileVars, S!coreVars, SP!coreVars,
              S!callVars, SP!callVars, S!vars, SP!vars, S!TypeOK, SP!TypeOK, S!Init,
              SP!Init, S!Num, SP!Num, S!par, SP!par, S!DstOutside, SP!DstOutside,
              S!Setup, SP!Setup, S!Prepare, SP!Prepare, S!PrepareFails, SP!PrepareFails,
              S!SizeAt, SP!SizeAt, S!Readable, SP!Readable, S!Fits, SP!Fits, S!Place,
              SP!Place, S!Locate, SP!Locate, S!Starts, SP!Starts, S!Run, SP!Run,
              S!OwnShare, SP!OwnShare, S!OwnShareEnds, SP!OwnShareEnds, S!Fold, SP!Fold,
              S!Join, SP!Join, S!Return, SP!Return, S!Caller, SP!Caller, S!Goto,
              SP!Goto, S!NextWanted, SP!NextWanted, S!Past, SP!Past, S!Take, SP!Take,
              S!Agrees, SP!Agrees, S!CheckSize, SP!CheckSize, S!Decoded, SP!Decoded,
              S!Failed, SP!Failed, S!Worker, SP!Worker, S!Ended, SP!Ended, S!Next,
              SP!Next, S!Holds, SP!Holds, S!DecodedInBounds, SP!DecodedInBounds,
              S!SuccessIsRequest, SP!SuccessIsRequest, S!Shared, SP!Shared, S!Busy,
              SP!Busy, S!TileState, SP!TileState, S!Cardinality, SP!Cardinality
  <1>1. (S!SelAssumption <=> SP!SelAssumption) /\ S!vars = SP!vars
    OBVIOUS
  <1>2. S!Init <=> SP!Init
    OBVIOUS
  <1>3. S!Next <=> SP!Next
    OBVIOUS
  <1>4. S!DecodedInBounds <=> SP!DecodedInBounds
    OBVIOUS
  <1>5. S!SuccessIsRequest <=> SP!SuccessIsRequest
    OBVIOUS
  <1>6. \A i : S!TileState(i) = SP!TileState(i)
    OBVIOUS
  <1> QED BY ONLY <1>1, <1>2, <1>3, <1>4, <1>5, <1>6

\* EncTiles.
LEMMA EncodeSame ==
  /\ (E!EncAssumption <=> EP!EncAssumption) /\ E!vars = EP!vars
  /\ E!TileAssumption <=> EP!TileAssumption
  /\ E!Init <=> EP!Init
  /\ E!Next <=> EP!Next
  /\ E!CostsAreThisFrames <=> EP!CostsAreThisFrames
  /\ E!SuccessIsWholeFrame <=> EP!SuccessIsWholeFrame
  /\ \A i : E!TileState(i) = EP!TileState(i)
  <1> USE DEF E!Core, EP!Core, E!Tile, EP!Tile, E!EncAssumption, EP!EncAssumption,
              E!TileAssumption, EP!TileAssumption, E!tileVars, EP!tileVars, E!coreVars,
              EP!coreVars, E!ownVars, EP!ownVars, E!outVars, EP!outVars, E!endVars,
              EP!endVars, E!vars, EP!vars, E!TypeOK, EP!TypeOK, E!Zero, EP!Zero, E!Init,
              EP!Init, E!Num, EP!Num, E!par, EP!par, E!Reset, EP!Reset, E!Prepare,
              EP!Prepare, E!PrepareFails, EP!PrepareFails, E!Fork, EP!Fork, E!Finish,
              EP!Finish, E!HeaderFails, EP!HeaderFails, E!Header, EP!Header, E!Starts,
              EP!Starts, E!Run, EP!Run, E!OwnShare, EP!OwnShare, E!OwnShareEnds,
              EP!OwnShareEnds, E!Fold, EP!Fold, E!Join, EP!Join, E!Joined, EP!Joined,
              E!CostsKnown, EP!CostsKnown, E!Upto, EP!Upto, E!Sum, EP!Sum,
              E!StartEncoding, EP!StartEncoding, E!Encoded, EP!Encoded, E!Room, EP!Room,
              E!Copy, EP!Copy, E!Rewritten, EP!Rewritten, E!Rewrite, EP!Rewrite,
              E!Caller, EP!Caller, E!Goto, EP!Goto, E!Past, EP!Past, E!Take, EP!Take,
              E!Measure, EP!Measure, E!Sunk, EP!Sunk, E!Remained, EP!Remained, E!Encode,
              EP!Encode, E!Mark, EP!Mark, E!Fail, EP!Fail, E!Worker, EP!Worker, E!Ended,
              EP!Ended, E!Next, EP!Next, E!Holds, EP!Holds, E!CostsAreThisFrames,
              EP!CostsAreThisFrames, E!SuccessIsWholeFrame, EP!SuccessIsWholeFrame,
              E!Shared, EP!Shared, E!Busy, EP!Busy, E!TileState, EP!TileState
  <1>1. (E!EncAssumption <=> EP!EncAssumption) /\ E!vars = EP!vars
    OBVIOUS
  <1>2. E!TileAssumption <=> EP!TileAssumption
    OBVIOUS
  <1>3. E!Init <=> EP!Init
    OBVIOUS
  <1>4. E!Next <=> EP!Next
    OBVIOUS
  <1>5. E!CostsAreThisFrames <=> EP!CostsAreThisFrames
    OBVIOUS
  <1>6. E!SuccessIsWholeFrame <=> EP!SuccessIsWholeFrame
    OBVIOUS
  <1>7. \A i : E!TileState(i) = EP!TileState(i)
    OBVIOUS
  <1> QED BY ONLY <1>1, <1>2, <1>3, <1>4, <1>5, <1>6, <1>7

----------------------------------------------------------------------------
(* A behaviour of Tiles is one of the module it uses                       *)

USE DEF vars, common, decoders, frames, chosen, encoder

\* Every step of a decode of whole frames is one of DecTiles.
LEMMA FrameStep ==
  ASSUME use = "frame", [Next]_vars
  PROVE  use' = use /\ [D!Next]_(D!vars) /\ (Next => D!Next)
  <1>1. ASSUME Next PROVE use' = use /\ D!Next
    BY <1>1 DEF Next, DecodeFrame, DecodeChosen, EncodeFrame, InFrame, InChosen, InEncode,
            D!Next, D!Caller, D!Worker
  <1>2. ASSUME UNCHANGED vars PROVE use' = use /\ UNCHANGED D!vars
    BY <1>2 DEF D!vars, D!tileVars, D!coreVars, D!callVars
  <1> QED BY <1>1, <1>2

\* Every step of a decode of chosen tiles is one of DecTilesSel.
LEMMA ChosenStep ==
  ASSUME use = "chosen", [Next]_vars
  PROVE  use' = use /\ [SP!Next]_(SP!vars)
  <1>1. ASSUME Next PROVE use' = use /\ S!Next
    BY <1>1 DEF Next, DecodeFrame, DecodeChosen, EncodeFrame, InFrame, InChosen, InEncode,
            S!Next, S!Caller, S!Worker
  <1>2. CASE UNCHANGED vars
    BY <1>2 DEF SP!vars, SP!tileVars, SP!coreVars, SP!callVars
  <1> QED BY <1>1, <1>2, ChosenSame

\* Every step of an encode is one of EncTiles.
LEMMA EncodeStep ==
  ASSUME use = "encode", [Next]_vars
  PROVE  use' = use /\ [EP!Next]_(EP!vars)
  <1>1. ASSUME Next PROVE use' = use /\ E!Next
    BY <1>1 DEF Next, DecodeFrame, DecodeChosen, EncodeFrame, InFrame, InChosen, InEncode,
            E!Next, E!Caller, E!Worker
  <1>2. CASE UNCHANGED vars
    BY <1>2 DEF EP!vars, EP!tileVars, EP!coreVars, EP!ownVars, EP!outVars, EP!endVars
  <1> QED BY <1>1, <1>2, EncodeSame

\* The inductive invariant of the module in use.
IInv == /\ use \in {"frame", "chosen", "encode"}
        /\ use = "frame"  => FrameInv
        /\ use = "chosen" => SP!IInv
        /\ use = "encode" => EP!IInv

\* The assumptions are those of the three modules.
LEMMA Assumptions ==
  ASSUME TilesAssumption PROVE D!DecAssumption /\ SP!SelAssumption /\ EP!EncAssumption
  BY ChosenSame, EncodeSame DEF TilesAssumption

\* Every reachable state satisfies the inductive invariant.
THEOREM Invariance == ASSUME TilesAssumption PROVE Spec => []IInv
  <1> USE Assumptions
  <1>1. Init => IInv
    <2>1. CASE use = "frame" /\ D!Init
      BY <2>1, FrameInitEstablishes DEF IInv
    <2>2. CASE use = "chosen" /\ S!Init
      BY <2>2, ChosenSame, SP!InitEstablishes DEF IInv
    <2>3. CASE use = "encode" /\ E!Init
      BY <2>3, EncodeSame, EP!InitEstablishes DEF IInv
    <2> QED BY <2>1, <2>2, <2>3 DEF Init
  <1>2. ASSUME IInv, [Next]_vars PROVE IInv'
    <2>1. CASE use = "frame"
      <3>1. use' = use /\ [D!Next]_(D!vars)
        BY <1>2, <2>1, FrameStep
      <3>2. FrameInv'
        BY <1>2, <2>1, <3>1, FrameNextPreserves DEF IInv
      <3> QED BY <2>1, <3>1, <3>2 DEF IInv
    <2>2. CASE use = "chosen"
      <3>1. use' = use /\ [SP!Next]_(SP!vars)
        BY <1>2, <2>2, ChosenStep
      <3>2. SP!IInv'
        BY <1>2, <2>2, <3>1, SP!NextPreserves DEF IInv
      <3> QED BY <2>2, <3>1, <3>2 DEF IInv
    <2>3. CASE use = "encode"
      <3>1. use' = use /\ [EP!Next]_(EP!vars)
        BY <1>2, <2>3, EncodeStep
      <3>2. EP!IInv'
        BY <1>2, <2>3, <3>1, EP!NextPreserves DEF IInv
      <3> QED BY <2>3, <3>1, <3>2 DEF IInv
    <2> QED BY <1>2, <2>1, <2>2, <2>3 DEF IInv
  <1> QED BY <1>1, <1>2, PTL DEF Spec

----------------------------------------------------------------------------
(* What holds of every call                                                *)

\* Whatever the sizes in the bitstream and the frame header say and however
\* the threads interleave, no tile is decoded beyond the bytes the caller
\* handed in (oapvd_decode, oapvd_decode_frame, oapvd_decode_tiles).
THEOREM TilesStayInBounds == ASSUME TilesAssumption PROVE Spec => []DecodedInBounds
  <1>1. ASSUME FrameInv PROVE D!DecodedInBounds
    BY <1>1 DEF FrameInv, D!DecodedInBounds, SizeInv, Sized
  <1>2. ASSUME SP!IInv PROVE S!DecodedInBounds
    BY <1>2, ChosenSame, Assumptions, SP!InBounds
  <1>3. IInv => DecodedInBounds
    BY <1>1, <1>2 DEF IInv, DecodedInBounds
  <1> QED BY <1>3, Invariance, PTL

\* A decode that returns OAPV_OK has decoded every tile it was to decode, each
\* from the very place one thread going through them in order would have found.
THEOREM SuccessIsTheWholeFrame == ASSUME TilesAssumption PROVE Spec => []SuccessIsWholeFrame
  <1>1. IInv => SuccessIsWholeFrame
    BY ChosenSame DEF IInv, SuccessIsWholeFrame, FrameInv, SP!IInv
  <1> QED BY <1>1, Invariance, PTL

\* An encode that returns OAPV_OK has put out every tile once, whole and in
\* order, and its header lists their sizes, when no tile buffer ends just below
\* a multiple of 2^32 (oapve_encode, enc_frame, enc_tile).
THEOREM SuccessIsTheWholePicture ==
  ASSUME TilesAssumption, E!TileAssumption PROVE Spec => []SuccessIsCoded
  <1>1. IInv => SuccessIsCoded
    BY EncodeSame DEF IInv, SuccessIsCoded, EP!IInv, EP!WholeInv
  <1> QED BY <1>1, Invariance, PTL

\* What rate control divides by are the costs of exactly the tiles of this
\* picture, whichever threads measured them (enc_frame, get_tile_cost_thread).
THEOREM CostsAreOfThisFrame == ASSUME TilesAssumption PROVE Spec => []CostsAreThisFrames
  <1>1. IInv => CostsAreThisFrames
    BY EncodeSame DEF IInv, CostsAreThisFrames, EP!IInv
  <1> QED BY <1>1, Invariance, PTL

\* Where a tile begins is decided once per frame, so that its owner may read
\* bs_beg outside the critical section (dec_thread_tile).
THEOREM StartsAreFinal == ASSUME TilesAssumption PROVE Spec => StartIsFinal
  <1>1. ASSUME IInv, Next, use = "frame", phase # "idle" PROVE D!StartsKept
    BY <1>1, FrameStep, StartsStep DEF IInv
  <1>2. IInv /\ [Next]_vars => [use = "frame" /\ phase # "idle" => D!StartsKept]_vars
    BY <1>1
  <1> QED BY <1>2, Invariance, PTL DEF Spec, StartIsFinal

----------------------------------------------------------------------------
(* Tiles implements TileWork: what its mapping shows is what the mapping   *)
(* of the module in use does.                                              *)

\* In a decode of whole frames the initial states are those of DecTiles.
LEMMA FrameMapsInit == ASSUME use = "frame", FrameWork!Init PROVE Work!Init
  <1>1. \A i : TileState(i) = D!TileState(i)
    BY DEF TileState
  <1> QED BY <1>1 DEF FrameWork!Init, Work!Init, D!Tile

\* So are the steps.
LEMMA FrameMaps ==
  ASSUME use = "frame", use' = use
  PROVE  [FrameWork!Next]_(FrameWork!vars) => [Work!Next]_(Work!vars)
  <1> USE DEF D!Tile
  <1>a. \A i : TileState(i) = D!TileState(i)
    BY DEF TileState
  <1>c. \A i : TileState(i)' = D!TileState(i)'
    BY DEF TileState
  <1>1. ASSUME NEW T, FrameWork!Begin(T) PROVE Work!Begin(T)
    BY <1>1, <1>a, <1>c DEF FrameWork!Begin, Work!Begin
  <1>2. ASSUME NEW i, NEW from, NEW to, FrameWork!Move(i, from, to) PROVE Work!Move(i, from, to)
    BY <1>2, <1>a, <1>c DEF FrameWork!Move, Work!Move
  <1>3. FrameWork!End => Work!End
    BY <1>a, <1>c DEF FrameWork!End, FrameWork!Quiet, FrameWork!AllDone, FrameWork!SomeFailed,
                      Work!End, Work!Quiet, Work!AllDone, Work!SomeFailed
  <1>4. FrameWork!Arrange => Work!Arrange
    BY <1>a, <1>c DEF FrameWork!Arrange, Work!Arrange
  <1>5. UNCHANGED FrameWork!vars => UNCHANGED Work!vars
    BY <1>a, <1>c DEF FrameWork!vars, Work!vars
  <1> QED BY <1>1, <1>2, <1>3, <1>4, <1>5
          DEF FrameWork!Next, FrameWork!Take, FrameWork!PutDown, Work!Next, Work!Take, Work!PutDown

\* In a decode of chosen tiles the initial states are those of DecTilesSel.
LEMMA ChosenMapsInit == ASSUME use = "chosen", SP!Work!Init PROVE Work!Init
  <1>1. \A i : TileState(i) = SP!TileState(i)
    BY ChosenSame DEF TileState
  <1> QED BY <1>1 DEF SP!Work!Init, Work!Init, SP!Tile

\* So are the steps.
LEMMA ChosenMaps ==
  ASSUME use = "chosen", use' = use
  PROVE  [SP!Work!Next]_(SP!Work!vars) => [Work!Next]_(Work!vars)
  <1> USE DEF SP!Tile
  <1>a. \A i : TileState(i) = SP!TileState(i)
    BY ChosenSame DEF TileState
  <1>b. (\A i : S!TileState(i) = SP!TileState(i))'
    BY ChosenSame, PTL
  <1>c. \A i : TileState(i)' = SP!TileState(i)'
    BY <1>b DEF TileState
  <1>1. ASSUME NEW T, SP!Work!Begin(T) PROVE Work!Begin(T)
    BY <1>1, <1>a, <1>c DEF SP!Work!Begin, Work!Begin
  <1>2. ASSUME NEW i, NEW from, NEW to, SP!Work!Move(i, from, to) PROVE Work!Move(i, from, to)
    BY <1>2, <1>a, <1>c DEF SP!Work!Move, Work!Move
  <1>3. SP!Work!End => Work!End
    BY <1>a, <1>c DEF SP!Work!End, SP!Work!Quiet, SP!Work!AllDone, SP!Work!SomeFailed,
                      Work!End, Work!Quiet, Work!AllDone, Work!SomeFailed
  <1>4. SP!Work!Arrange => Work!Arrange
    BY <1>a, <1>c DEF SP!Work!Arrange, Work!Arrange
  <1>5. UNCHANGED SP!Work!vars => UNCHANGED Work!vars
    BY <1>a, <1>c DEF SP!Work!vars, Work!vars
  <1> QED BY <1>1, <1>2, <1>3, <1>4, <1>5
          DEF SP!Work!Next, SP!Work!Take, SP!Work!PutDown, Work!Next, Work!Take, Work!PutDown

\* In an encode the initial states are those of EncTiles.
LEMMA EncodeMapsInit == ASSUME use = "encode", EP!Work!Init PROVE Work!Init
  <1>1. \A i : TileState(i) = EP!TileState(i)
    BY EncodeSame DEF TileState
  <1> QED BY <1>1 DEF EP!Work!Init, Work!Init, EP!Tile

\* So are the steps.
LEMMA EncodeMaps ==
  ASSUME use = "encode", use' = use
  PROVE  [EP!Work!Next]_(EP!Work!vars) => [Work!Next]_(Work!vars)
  <1> USE DEF EP!Tile
  <1>a. \A i : TileState(i) = EP!TileState(i)
    BY EncodeSame DEF TileState
  <1>b. (\A i : E!TileState(i) = EP!TileState(i))'
    BY EncodeSame, PTL
  <1>c. \A i : TileState(i)' = EP!TileState(i)'
    BY <1>b DEF TileState
  <1>1. ASSUME NEW T, EP!Work!Begin(T) PROVE Work!Begin(T)
    BY <1>1, <1>a, <1>c DEF EP!Work!Begin, Work!Begin
  <1>2. ASSUME NEW i, NEW from, NEW to, EP!Work!Move(i, from, to) PROVE Work!Move(i, from, to)
    BY <1>2, <1>a, <1>c DEF EP!Work!Move, Work!Move
  <1>3. EP!Work!End => Work!End
    BY <1>a, <1>c DEF EP!Work!End, EP!Work!Quiet, EP!Work!AllDone, EP!Work!SomeFailed,
                      Work!End, Work!Quiet, Work!AllDone, Work!SomeFailed
  <1>4. EP!Work!Arrange => Work!Arrange
    BY <1>a, <1>c DEF EP!Work!Arrange, Work!Arrange
  <1>5. UNCHANGED EP!Work!vars => UNCHANGED Work!vars
    BY <1>a, <1>c DEF EP!Work!vars, Work!vars
  <1> QED BY <1>1, <1>2, <1>3, <1>4, <1>5
          DEF EP!Work!Next, EP!Work!Take, EP!Work!PutDown, Work!Next, Work!Take, Work!PutDown

\* However many threads share the tiles of a frame, in a decode of the frame, a
\* decode of chosen tiles or a pass of an encode: every tile is worked on by one
\* thread at a time and at most once, and the pass ends when no tile is worked
\* on any more, well exactly when all are done (oapvd_decode,
\* oapvd_decode_tiles, oapve_encode and their thread functions).
THEOREM CodecImplementsTileWork == ASSUME TilesAssumption PROVE Spec => ImplementsTileWork
  <1> USE Assumptions
  <1>1. Init => Work!Init
    <2>1. ASSUME use = "frame", D!Init PROVE Work!Init
      BY <2>1, FrameMapsInit, FrameWorkInit
    <2>2. ASSUME use = "chosen", S!Init PROVE Work!Init
      BY <2>2, ChosenSame, ChosenMapsInit, SP!WorkInit
    <2>3. ASSUME use = "encode", E!Init PROVE Work!Init
      BY <2>3, EncodeSame, EncodeMapsInit, EP!WorkInit
    <2> QED BY <2>1, <2>2, <2>3 DEF Init
  <1>2. ASSUME IInv, IInv', [Next]_vars PROVE [Work!Next]_(Work!vars)
    <2>1. CASE use = "frame"
      <3>1. use' = use /\ [D!Next]_(D!vars)
        BY <1>2, <2>1, FrameStep
      <3>2. [FrameWork!Next]_(FrameWork!vars)
        BY <1>2, <2>1, <3>1, FrameWorkStep DEF IInv
      <3> QED BY <2>1, <3>1, <3>2, FrameMaps
    <2>2. CASE use = "chosen"
      <3>1. use' = use /\ [SP!Next]_(SP!vars)
        BY <1>2, <2>2, ChosenStep
      <3>2. [SP!Work!Next]_(SP!Work!vars)
        BY <1>2, <2>2, <3>1, SP!WorkStep DEF IInv
      <3> QED BY <2>2, <3>1, <3>2, ChosenMaps
    <2>3. CASE use = "encode"
      <3>1. use' = use /\ [EP!Next]_(EP!vars)
        BY <1>2, <2>3, EncodeStep
      <3>2. [EP!Work!Next]_(EP!Work!vars)
        BY <1>2, <2>3, <3>1, EP!WorkStep DEF IInv
      <3> QED BY <2>3, <3>1, <3>2, EncodeMaps
    <2> QED BY <1>2, <2>1, <2>2, <2>3 DEF IInv
  <1> QED BY <1>1, <1>2, Invariance, PTL DEF Spec, ImplementsTileWork, Work!Spec
=============================================================================
