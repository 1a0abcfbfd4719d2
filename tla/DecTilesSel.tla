---------------------------- MODULE DecTilesSel ----------------------------
(***************************************************************************)
(* How oapvd_decode_tiles (src/oapv.c) decodes chosen tiles of a frame     *)
(* with several threads, each into an image of its own.  Unlike a decode   *)
(* of the whole frame (DecTiles) nobody waits for anybody: the calling     *)
(* thread locates every tile first, from the sizes of the frame header or  *)
(* by walking the frame, and the threads pick the tiles that have a        *)
(* destination.  A tile located by the header is decoded only when its own *)
(* size field agrees; a core that finds a bad tile goes on with the next.  *)
(*                                                                         *)
(* The pool is the one of TaskHandoff, a critical section is one action,   *)
(* and what a core does outside of them has an action of its own.          *)
(***************************************************************************)
EXTENDS Integers, FiniteSets

CONSTANTS Threads,    \* ctx->threads
          MaxTiles,   \* the most tiles a frame has
          Frames,     \* the frames a caller may submit
          MaxCalls,   \* bound: calls made
          LEN         \* OAPV_TILE_SIZE_LEN

Core == 0..(Threads - 1)
Tile == 0..(MaxTiles - 1)
NULL == -1     \* the null pointer, among positions

\* A frame as far as the tiles go, as in DecTiles: n tiles from position beg
\* on; end is bs.end; size[p] is the tile_size the bits at p spell; fh holds
\* the sizes of the frame header when inFh.
SelAssumption ==
  /\ Threads \in Nat \ {0} /\ MaxTiles \in Nat \ {0}
  /\ MaxCalls \in Nat /\ LEN \in Nat \ {0}
  /\ \A f \in Frames : /\ f.n \in 1..MaxTiles /\ f.beg \in Nat /\ f.end \in Nat
                       /\ f.inFh \in BOOLEAN
                       /\ \A i \in Tile : f.fh[i] \in Nat
                       /\ \A p \in 0..f.end : f.size[p] \in Nat

VARIABLES frm,        \* the frame at hand: ctx->fh, ctx->bs, num_tiles
          want,       \* the indices the caller asked for, num_tiles of them
          tile_idx,   \* ctx->tile_idx
          dst,        \* the tiles whose dst is set
          bs_beg, tile_size,    \* fields of ctx->tile[i]
          tile_end,   \* ctx->tile_end
          fate,       \* history: what became of each tile in this call
          pc, tidx, thread_ret, \* control point and locals of each core
          phase,      \* control point of the calling thread
          ci,         \* its loop index over the pool threads
          ret,        \* its return value so far
          result,     \* what the last call returned
          ncall       \* number of calls

tileVars == <<tile_idx, dst, bs_beg, tile_size, tile_end>>
coreVars == <<pc, tidx, thread_ret>>
callVars == <<frm, want, phase, ci, ret, result, ncall>>
vars == <<tileVars, fate, coreVars, callVars>>

TypeOK ==
  /\ frm \in Frames
  /\ want \in SUBSET Tile
  /\ tile_idx \in 0..MaxTiles
  /\ dst \in SUBSET Tile
  /\ bs_beg \in [Tile -> Nat \cup {NULL}]
  /\ tile_size \in [Tile -> Nat]
  /\ tile_end \in Nat \cup {NULL}
  /\ fate \in [Tile -> {"todo", "done", "err"}]
  /\ pc \in [Core -> {"off", "take", "size", "dec", "fail", "done"}]
  /\ tidx \in [Core -> 0..MaxTiles]
  /\ thread_ret \in [Core -> {"OK", "ERR"}]
  /\ phase \in {"idle", "locate", "fork", "main", "join"}
  /\ ci \in 0..Threads
  /\ ret \in {"OK", "ERR"}
  /\ result \in {"OK", "ERR"}
  /\ ncall \in 0..MaxCalls

Init ==
  /\ frm \in Frames
  /\ want = {} /\ dst = {}
  /\ tile_idx = 0 /\ tile_end = NULL
  /\ bs_beg = [i \in Tile |-> NULL]
  /\ tile_size = [i \in Tile |-> 0]
  /\ fate = [i \in Tile |-> "todo"]
  /\ pc = [c \in Core |-> "off"]
  /\ tidx = [c \in Core |-> 0]
  /\ thread_ret = [c \in Core |-> "OK"]
  /\ phase = "idle" /\ ci = 0
  /\ ret = "OK" /\ result = "ERR" /\ ncall = 0

Num == frm.n                  \* ctx->num_tiles
par == LET k == Cardinality(want) IN IF Threads > k THEN k ELSE Threads

----------------------------------------------------------------------------
(* The calling thread                                                      *)

\* What dec_frm_setup leaves of the destinations of earlier calls.
DstKept(f) == dst
DstOutside(f) == dst \ 0..(f.n - 1)

\* dec_frm_setup, for frame f: the tiles of this frame have no destination
\* and only the first a place.
Setup(f) ==
  /\ phase = "idle" /\ ncall < MaxCalls
  /\ ncall' = ncall + 1
  /\ frm' = f
  /\ tile_idx' = 0
  /\ bs_beg' = [i \in Tile |-> IF i >= f.n THEN bs_beg[i]
                               ELSE IF i = 0 THEN f.beg ELSE NULL]

\* dec_tiles_prepare gives each of the tiles S its destination.
Prepare(f, S) ==
  /\ Setup(f)
  /\ S # {} /\ S \subseteq 0..(f.n - 1)
  /\ want' = S
  /\ dst' = DstOutside(f) \cup S
  /\ fate' = [i \in Tile |-> IF i \in S THEN "todo" ELSE fate[i]]
  /\ phase' = "locate"
  /\ UNCHANGED <<tile_size, tile_end, coreVars, ci, ret, result>>

\* It gives up at the first request that is out of range, asked for twice or
\* too small; the tiles S before it keep their destinations.
PrepareFails(f, S) ==
  /\ Setup(f)
  /\ S \subseteq 0..(f.n - 1)
  /\ dst' = DstOutside(f) \cup S
  /\ result' = "ERR"
  /\ UNCHANGED <<want, fate, tile_size, tile_end, coreVars, phase, ci, ret>>

\* The size a tile at position p is given, whether there is one, and whether
\* it passes.
SizeAt(i, p) == IF frm.inFh THEN frm.fh[i] ELSE frm.size[p]

Readable(i, p) == p + LEN <= frm.end /\ (frm.inFh \/ frm.size[p] > 0)

FitsLoose(i, p) == Readable(i, p)

Fits(i, p) == Readable(i, p) /\ SizeAt(i, p) <= frm.end - p - LEN

\* Where tile i begins, when all tiles before it pass, and NULL otherwise.
Place[i \in 0..MaxTiles] ==
  IF i = 0 THEN frm.beg
  ELSE LET p == Place[i - 1]
       IN  IF p = NULL \/ i > Num THEN NULL
           ELSE IF Fits(i - 1, p) THEN p + LEN + SizeAt(i - 1, p) ELSE NULL

\* dec_derive_tile_offsets: the tiles up to the first that does not pass,
\* which gets its size all the same.
Locate ==
  /\ phase = "locate"
  /\ bs_beg' = [i \in Tile |-> IF i < Num /\ Place[i + 1] # NULL THEN Place[i]
                               ELSE bs_beg[i]]
  /\ tile_size' = [i \in Tile |-> IF i < Num /\ Place[i] # NULL /\ Readable(i, Place[i])
                                  THEN SizeAt(i, Place[i]) ELSE tile_size[i]]
  /\ IF Place[Num] # NULL
     THEN tile_end' = Place[Num] /\ phase' = "fork" /\ ci' = 0 /\ UNCHANGED result
     ELSE phase' = "idle" /\ result' = "ERR" /\ UNCHANGED <<tile_end, ci>>
  /\ UNCHANGED <<tile_idx, dst, fate, coreVars, frm, want, ret, ncall>>

Starts(c) == /\ pc' = [pc EXCEPT ![c] = "take"]
             /\ thread_ret' = [thread_ret EXCEPT ![c] = "OK"]

\* tpool->run for core ci.
Run ==
  /\ phase = "fork" /\ ci < par - 1
  /\ Starts(ci)
  /\ ci' = ci + 1
  /\ UNCHANGED <<tileVars, fate, tidx, frm, want, phase, ret, result, ncall>>

\* The calling thread runs core par - 1 itself ...
OwnShare ==
  /\ phase = "fork" /\ ci = par - 1
  /\ Starts(ci)
  /\ phase' = "main"
  /\ UNCHANGED <<tileVars, fate, tidx, frm, want, ci, ret, result, ncall>>

\* ... and its result is the first the return value is made of.
OwnShareEnds ==
  /\ phase = "main" /\ pc[ci] = "done"
  /\ pc' = [pc EXCEPT ![ci] = "off"]
  /\ ret' = thread_ret[ci]
  /\ phase' = "join" /\ ci' = 0
  /\ UNCHANGED <<tileVars, fate, tidx, thread_ret, frm, want, result, ncall>>

Fold(c) == IF thread_ret[c] # "OK" THEN thread_ret[c] ELSE ret

\* tpool->join for core ci.
Join ==
  /\ phase = "join" /\ ci < par - 1 /\ pc[ci] = "done"
  /\ pc' = [pc EXCEPT ![ci] = "off"]
  /\ ret' = Fold(ci)
  /\ ci' = ci + 1
  /\ UNCHANGED <<tileVars, fate, tidx, thread_ret, frm, want, phase, result, ncall>>

Return ==
  /\ phase = "join" /\ ci = par - 1
  /\ result' = ret
  /\ phase' = "idle"
  /\ UNCHANGED <<tileVars, fate, coreVars, frm, want, ci, ret, ncall>>

Caller == Locate \/ Run \/ OwnShare \/ OwnShareEnds \/ Join \/ Return

----------------------------------------------------------------------------
(* dec_thread_tile_sel                                                     *)

Goto(c, p) == pc' = [pc EXCEPT ![c] = p]

\* The first tile from tile_idx on that has a destination, or num_tiles.
NextWanted ==
  CHOOSE k \in tile_idx..Num : /\ k < Num => k \in dst
                               /\ \A j \in tile_idx..(k - 1) : j \notin dst

\* The next tile, or the end of the work.
StillAt(k) == k
Past(k) == k + 1

Take(c) ==
  /\ pc[c] = "take"
  /\ tidx' = [tidx EXCEPT ![c] = NextWanted]
  /\ tile_idx' = IF NextWanted < Num THEN Past(NextWanted) ELSE NextWanted
  /\ Goto(c, IF NextWanted < Num THEN "size" ELSE "done")
  /\ UNCHANGED <<dst, bs_beg, tile_size, tile_end, fate, thread_ret, callVars>>

\* The tile's own size field must be there and agree.
AgreesUntested(i) == TRUE

Agrees(i) == frm.size[bs_beg[i]] = tile_size[i] /\ tile_size[i] > 0

CheckSize(c) ==
  /\ pc[c] = "size"
  /\ Goto(c, IF Agrees(tidx[c]) THEN "dec" ELSE "fail")
  /\ UNCHANGED <<tileVars, fate, tidx, thread_ret, callVars>>

\* dec_tile returns; well,
Decoded(c) ==
  /\ pc[c] = "dec"
  /\ fate' = [fate EXCEPT ![tidx[c]] = "done"]
  /\ Goto(c, "take")
  /\ UNCHANGED <<tileVars, tidx, thread_ret, callVars>>

\* or badly, or was never called.
Failed(c) ==
  /\ pc[c] \in {"dec", "fail"}
  /\ fate' = [fate EXCEPT ![tidx[c]] = "err"]
  /\ thread_ret' = [thread_ret EXCEPT ![c] = "ERR"]
  /\ Goto(c, "take")
  /\ UNCHANGED <<tileVars, tidx, callVars>>

Worker(c) == Take(c) \/ CheckSize(c) \/ Decoded(c) \/ Failed(c)

\* The application makes no more calls.
Ended == phase = "idle" /\ ncall = MaxCalls /\ UNCHANGED vars

Next == \/ \E f \in Frames, S \in SUBSET Tile : Prepare(f, S) \/ PrepareFails(f, S)
        \/ Caller
        \/ \E c \in Core : Worker(c)
        \/ Ended

\* Every thread that can run is scheduled, and dec_tile returns.
Fairness == WF_vars(Caller) /\ \A c \in Core : WF_vars(Worker(c))

Spec == Init /\ [][Next]_vars /\ Fairness

----------------------------------------------------------------------------
(* Properties                                                              *)

\* Core c has taken a tile it has not put down yet.
Holds(c) == pc[c] \in {"size", "dec", "fail"}

\* What a core reads of a tile lies within the bytes the caller handed in.
DecodedInBounds ==
  /\ TypeOK
  /\ \A c \in Core : Holds(c) => /\ bs_beg[tidx[c]] # NULL
                                 /\ bs_beg[tidx[c]] + LEN + tile_size[tidx[c]] <= frm.end

\* A call that reports success has decoded every tile that was asked for from
\* a place where a tile of that size begins, and when all were asked for these
\* are the places a decode of the whole frame finds (SuccessIsWholeFrame of
\* DecTiles): each tile begins where the one before it ends by its own size.
SuccessIsRequest ==
  phase = "idle" /\ result = "OK" =>
    \A i \in want :
      /\ fate[i] = "done"
      /\ tile_size[i] = frm.size[bs_beg[i]]
      /\ ~frm.inFh \/ want = 0..(Num - 1) =>
           bs_beg[i] = IF i = 0 THEN frm.beg
                       ELSE bs_beg[i - 1] + LEN + frm.size[bs_beg[i - 1]]

----------------------------------------------------------------------------
(* What TileWork sees of a tile (Tiles has the rest of the mapping): a     *)
(* core only holds tiles asked for in this call.  One without destination  *)
(* would be written through ctx->imgb, which is NULL here, one with the    *)
(* destination of an earlier call into an image its owner may have freed.  *)

Shared(i) == \E c, d \in Core : c # d /\ Holds(c) /\ Holds(d) /\ tidx[c] = i /\ tidx[d] = i
Busy(i) == \E c \in Core : Holds(c) /\ tidx[c] = i

TileState(i) == IF Shared(i) THEN "shared" ELSE IF Busy(i) THEN "busy" ELSE fate[i]
=============================================================================
