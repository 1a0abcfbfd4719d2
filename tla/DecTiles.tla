------------------------------ MODULE DecTiles ------------------------------
(***************************************************************************)
(* How oapvd_decode and oapvd_decode_frame (src/oapv.c) decode the tiles   *)
(* of a frame with several threads.  Nothing in the bitstream says where a *)
(* tile begins except the size at the head of the tile before it, so the   *)
(* thread that takes tile k reads its size, tells the owner of tile k + 1  *)
(* where to begin, and only then decodes; the owner of k + 1 spins until   *)
(* it is told.                                                             *)
(*                                                                         *)
(* Core c runs dec_thread_tile on pool thread c, except core par - 1,      *)
(* which the calling thread runs itself.  The pool is the one of           *)
(* TaskHandoff: run makes a core start, join waits until it has returned.  *)
(* A section between oapv_tpool_enter_cs and oapv_tpool_leave_cs is one    *)
(* action; what a core reads or writes outside such a section has actions  *)
(* of its own.                                                             *)
(***************************************************************************)
EXTENDS Integers

CONSTANTS Threads,    \* ctx->threads
          MaxTiles,   \* entries of ctx->tile
          Frames,     \* the frames a caller may submit
          MaxFrames,  \* bound: frames decoded
          LEN         \* OAPV_TILE_SIZE_LEN

Core == 0..(Threads - 1)
Tile == 0..(MaxTiles - 1)

\* A frame as far as the tiles go: n tiles from position beg on; end is
\* bs.end; size[p] is the tile_size the bits at position p spell; fh holds
\* the sizes of the frame header when inFh (tile_size_present_in_fh_flag).
Frame == [n : Nat, beg : Nat, end : Nat, size : [Nat -> Nat],
          inFh : BOOLEAN, fh : [Tile -> Nat]]

DecAssumption ==
  /\ Threads \in Nat \ {0} /\ MaxTiles \in Nat \ {0}
  /\ MaxFrames \in Nat /\ LEN \in Nat \ {0}
  /\ \A f \in Frames : /\ f.n \in 1..MaxTiles /\ f.beg \in Nat /\ f.end \in Nat
                       /\ f.inFh \in BOOLEAN
                       /\ \A i \in Tile : f.fh[i] \in Nat
                       /\ \A p \in 0..f.end : f.size[p] \in Nat

NULL == -1     \* the null pointer, among positions

VARIABLES frm,        \* the frame being decoded: ctx->fh, ctx->bs, num_tiles
          tile_idx,   \* ctx->tile_idx, the next tile to take
          stat, bs_beg, tile_size,   \* fields of ctx->tile[i]
          tile_end,   \* ctx->tile_end
          imgb,       \* is ctx->imgb set and its reference held?
          pc,         \* control point of each core
          tidx, thread_ret,          \* locals of dec_thread_tile
          phase,      \* control point of the calling thread
          ci,         \* its loop index over the pool threads
          par,        \* parallel_task
          ret,        \* its return value so far
          result,     \* what the last decode returned
          nfrm        \* number of frames submitted

tileVars == <<tile_idx, stat, bs_beg, tile_size, tile_end>>
coreVars == <<pc, tidx, thread_ret>>
callVars == <<frm, imgb, phase, ci, par, ret, result, nfrm>>
vars == <<tileVars, coreVars, callVars>>

TypeOK ==
  /\ frm \in Frames
  /\ tile_idx \in 0..MaxTiles
  /\ stat \in [Tile -> {"DO", "ON", "DONE", "ERR"}]
  /\ bs_beg \in [Tile -> Nat \cup {NULL}]
  /\ tile_size \in [Tile -> Nat]
  /\ tile_end \in Nat \cup {NULL}
  /\ imgb \in BOOLEAN
  /\ pc \in [Core -> {"off", "take", "wait", "size", "hand", "dec", "fail", "done"}]
  /\ tidx \in [Core -> 0..MaxTiles]
  /\ thread_ret \in [Core -> {"OK", "ERR"}]
  /\ phase \in {"idle", "fork", "main", "join"}
  /\ ci \in 0..Threads
  /\ par \in 1..Threads
  /\ ret \in {"OK", "ERR"}
  /\ result \in {"OK", "ERR"}
  /\ nfrm \in 0..MaxFrames

\* The tile array is allocated cleared.
Init ==
  /\ frm \in Frames
  /\ tile_idx = 0
  /\ stat = [i \in Tile |-> "DO"]
  /\ bs_beg = [i \in Tile |-> NULL]
  /\ tile_size = [i \in Tile |-> 0]
  /\ tile_end = NULL
  /\ imgb = FALSE
  /\ pc = [c \in Core |-> "off"]
  /\ tidx = [c \in Core |-> 0]
  /\ thread_ret = [c \in Core |-> "OK"]
  /\ phase = "idle" /\ ci = 0 /\ par = 1
  /\ ret = "OK" /\ result = "ERR" /\ nfrm = 0

Num == frm.n      \* ctx->num_tiles

----------------------------------------------------------------------------
(* The calling thread: oapvd_decode, for one frame                         *)

\* dec_frm_prepare, when it accepts the frame: dec_frm_setup clears where
\* the tiles of this frame begin, except the first.
Prepare(f) ==
  /\ phase = "idle" /\ nfrm < MaxFrames
  /\ nfrm' = nfrm + 1
  /\ frm' = f
  /\ bs_beg' = [i \in Tile |-> IF i >= f.n THEN bs_beg[i]
                               ELSE IF i = 0 THEN f.beg ELSE NULL]
  /\ stat' = [i \in Tile |-> IF i < f.n THEN "DO" ELSE stat[i]]
  /\ tile_idx' = 0
  /\ imgb' = TRUE
  /\ par' = IF Threads > f.n THEN f.n ELSE Threads
  /\ phase' = "fork" /\ ci' = 0
  /\ UNCHANGED <<tile_size, tile_end, coreVars, ret, result>>

Starts(c) == /\ pc' = [pc EXCEPT ![c] = "take"]
             /\ thread_ret' = [thread_ret EXCEPT ![c] = "OK"]

\* tpool->run for core ci.
Run ==
  /\ phase = "fork" /\ ci < par - 1
  /\ Starts(ci)
  /\ ci' = ci + 1
  /\ UNCHANGED <<tileVars, tidx, frm, imgb, phase, par, ret, result, nfrm>>

\* The calling thread runs core par - 1 itself ...
OwnShare ==
  /\ phase = "fork" /\ ci = par - 1
  /\ Starts(ci)
  /\ phase' = "main"
  /\ UNCHANGED <<tileVars, tidx, frm, imgb, ci, par, ret, result, nfrm>>

\* ... and its result is the first the return value is made of.
OwnShareEnds ==
  /\ phase = "main" /\ pc[ci] = "done"
  /\ pc' = [pc EXCEPT ![ci] = "off"]
  /\ ret' = thread_ret[ci]
  /\ phase' = "join" /\ ci' = 0
  /\ UNCHANGED <<tileVars, tidx, thread_ret, frm, imgb, par, result, nfrm>>

FoldLast(c) == thread_ret[c]

Fold(c) == IF thread_ret[c] # "OK" THEN thread_ret[c] ELSE ret

\* tpool->join for core ci.
Join ==
  /\ phase = "join" /\ ci < par - 1 /\ pc[ci] = "done"
  /\ pc' = [pc EXCEPT ![ci] = "off"]
  /\ ret' = Fold(ci)
  /\ ci' = ci + 1
  /\ UNCHANGED <<tileVars, tidx, thread_ret, frm, imgb, phase, par, result, nfrm>>

\* dec_frm_finish, also when a tile failed.
Finish ==
  /\ phase = "join" /\ ci = par - 1
  /\ imgb' = FALSE
  /\ result' = ret
  /\ phase' = "idle"
  /\ UNCHANGED <<tileVars, coreVars, frm, ci, par, ret, nfrm>>

Caller == Run \/ OwnShare \/ OwnShareEnds \/ Join \/ Finish

----------------------------------------------------------------------------
(* dec_thread_tile                                                         *)

Goto(c, p) == pc' = [pc EXCEPT ![c] = p]

\* The next tile, or the end of the work.
StillAt(k) == k
Past(k) == k + 1

Take(c) ==
  /\ pc[c] = "take"
  /\ tidx' = [tidx EXCEPT ![c] = tile_idx]
  /\ IF tile_idx < Num
     THEN /\ stat' = [stat EXCEPT ![tile_idx] = "ON"]
          /\ tile_idx' = Past(tile_idx)
          /\ Goto(c, "wait")
     ELSE UNCHANGED <<stat, tile_idx>> /\ Goto(c, "done")
  /\ UNCHANGED <<bs_beg, tile_size, tile_end, thread_ret, callVars>>

\* The thread spins for as long as nobody has said where the tile starts ...
Spin(c) == pc[c] = "wait" /\ bs_beg[tidx[c]] = NULL /\ UNCHANGED vars

\* ... and no longer.
Told(c) ==
  /\ pc[c] = "wait" /\ bs_beg[tidx[c]] # NULL
  /\ Goto(c, "size")
  /\ UNCHANGED <<tileVars, tidx, thread_ret, callVars>>

Beg(c)      == bs_beg[tidx[c]]
SizeRead(c) == frm.size[Beg(c)]
HasSize(c)  == Beg(c) + LEN <= frm.end /\ SizeRead(c) > 0

\* The checks on the size: it must fit in what is left of the frame, and be
\* the one the frame header gave if it gave any.
FitsUnchecked(c) == ~frm.inFh \/ SizeRead(c) = frm.fh[tidx[c]]

Fits(c) == /\ Beg(c) + SizeRead(c) + LEN <= frm.end
           /\ ~frm.inFh \/ SizeRead(c) = frm.fh[tidx[c]]

\* Outside any critical section: bs_beg is read, tile_size is written.
ReadSize(c) ==
  /\ pc[c] = "size"
  /\ IF HasSize(c)
     THEN /\ tile_size' = [tile_size EXCEPT ![tidx[c]] = SizeRead(c)]
          /\ Goto(c, IF Fits(c) THEN "hand" ELSE "fail")
     ELSE UNCHANGED tile_size /\ Goto(c, "fail")
  /\ UNCHANGED <<tile_idx, stat, bs_beg, tile_end, tidx, thread_ret, callVars>>

\* The end of tile i, by its size.
End(i) == bs_beg[i] + LEN + tile_size[i]

\* The end of this tile is where the next one begins, or the frame's end.
HandOver(c) ==
  /\ pc[c] = "hand"
  /\ IF tidx[c] + 1 < Num
     THEN /\ bs_beg' = [bs_beg EXCEPT ![tidx[c] + 1] = End(tidx[c])]
          /\ UNCHANGED tile_end
     ELSE tile_end' = End(tidx[c]) /\ UNCHANGED bs_beg
  /\ Goto(c, "dec")
  /\ UNCHANGED <<tile_idx, stat, tile_size, tidx, thread_ret, callVars>>

\* What the ERR label tells the owner of the next tile.
PassNothing(c) == UNCHANGED bs_beg

PassOn(c) == IF tidx[c] + 1 < Num
             THEN bs_beg' = [bs_beg EXCEPT ![tidx[c] + 1] = Beg(c)]
             ELSE UNCHANGED bs_beg

\* dec_tile returns, well or badly, and the tile is marked; the core goes on
\* with another tile either way.
MarkAndPass(c, ok) ==
  /\ pc[c] = "dec"
  /\ stat' = [stat EXCEPT ![tidx[c]] = IF ok THEN "DONE" ELSE "ERR"]
  /\ thread_ret' = [thread_ret EXCEPT ![c] = IF ok THEN @ ELSE "ERR"]
  /\ IF ok THEN Goto(c, "take") /\ UNCHANGED bs_beg ELSE Goto(c, "done") /\ PassOn(c)
  /\ UNCHANGED <<tile_idx, tile_size, tile_end, tidx, callVars>>

Mark(c, ok) ==
  /\ pc[c] = "dec"
  /\ stat' = [stat EXCEPT ![tidx[c]] = IF ok THEN "DONE" ELSE "ERR"]
  /\ thread_ret' = [thread_ret EXCEPT ![c] = IF ok THEN @ ELSE "ERR"]
  /\ Goto(c, "take")
  /\ UNCHANGED <<tile_idx, bs_beg, tile_size, tile_end, tidx, callVars>>

\* The ERR label: the core leaves for good, but not without telling the
\* owner of the next tile to go ahead.
Fail(c) ==
  /\ pc[c] = "fail"
  /\ stat' = [stat EXCEPT ![tidx[c]] = "ERR"]
  /\ PassOn(c)
  /\ thread_ret' = [thread_ret EXCEPT ![c] = "ERR"]
  /\ Goto(c, "done")
  /\ UNCHANGED <<tile_idx, tile_size, tile_end, tidx, callVars>>

Worker(c) == \/ Take(c) \/ Spin(c) \/ Told(c) \/ ReadSize(c) \/ HandOver(c)
             \/ \E ok \in BOOLEAN : Mark(c, ok)
             \/ Fail(c)

\* The application submits no more frames.
Ended == phase = "idle" /\ nfrm = MaxFrames /\ UNCHANGED vars

Next == \/ \E f \in Frames : Prepare(f)
        \/ Caller
        \/ \E c \in Core : Worker(c)
        \/ Ended

\* Every thread that can run is scheduled, and dec_tile, which walks a tile
\* of bounded size, returns.
Fairness == WF_vars(Caller) /\ \A c \in Core : WF_vars(Worker(c))

Spec == Init /\ [][Next]_vars /\ Fairness

----------------------------------------------------------------------------
(* Properties                                                              *)

\* Core c has taken a tile it has not put down yet.
Holds(c) == pc[c] \in {"wait", "size", "hand", "dec", "fail"}

\* Nothing of a tile is decoded beyond the bytes the caller handed in, and a
\* tile whose size the frame header gives is decoded with that size.
DecodedInBounds ==
  /\ TypeOK
  /\ \A c \in Core : pc[c] \in {"hand", "dec"} =>
       /\ End(tidx[c]) <= frm.end
       /\ frm.inFh => tile_size[tidx[c]] = frm.fh[tidx[c]]

\* A decode that reports success has decoded every tile, each from the byte
\* the tile before it ends at, and tile_end is where the last one ends: what
\* the threads did together is what one thread would have done in order.
SuccessIsWholeFrame ==
  phase = "idle" /\ result = "OK" =>
    /\ bs_beg[0] = frm.beg
    /\ \A i \in 0..(Num - 1) :
         /\ stat[i] = "DONE"
         /\ tile_size[i] = frm.size[bs_beg[i]]
         /\ End(i) <= frm.end
         /\ End(i) = IF i + 1 < Num THEN bs_beg[i + 1] ELSE tile_end

\* Where a tile begins is decided once per frame: the owner reads bs_beg
\* again and again outside the critical section that found it set.
StartsKept == \A i \in Tile : bs_beg[i] # NULL => bs_beg'[i] = bs_beg[i]

StartIsFinal == [][phase # "idle" => StartsKept]_vars

----------------------------------------------------------------------------
(* What TileWork sees of a tile (Tiles has the rest of the mapping): no    *)
(* tile is held by two cores, and the image is given back when no core     *)
(* holds one any more.                                                     *)

Shared(i) == \E c, d \in Core : c # d /\ Holds(c) /\ Holds(d) /\ tidx[c] = i /\ tidx[d] = i
Busy(i) == \E c \in Core : Holds(c) /\ tidx[c] = i

TileState(i) == CASE Shared(i) -> "shared"
                  [] ~Shared(i) /\ Busy(i) -> "busy"
                  [] stat[i] = "DONE" -> "done"
                  [] stat[i] = "ERR"  -> "err"
                  [] ~Busy(i) /\ stat[i] \in {"DO", "ON"} -> "todo"
=============================================================================
