------------------------------ MODULE EncTiles ------------------------------
(***************************************************************************)
(* How oapve_encode (src/oapv.c) encodes the tiles of a frame with several *)
(* threads.  With rate control a first pass over the tiles measures their  *)
(* cost (get_tile_cost_thread of src/oapv_rc.c); the encoding pass writes  *)
(* each tile into a buffer of its own, and only when all threads have been *)
(* joined are the buffers copied, in order, behind the frame header, which *)
(* is then rewritten with the sizes the tiles came out with.               *)
(*                                                                         *)
(* Core c runs a pass on pool thread c, except core par - 1, which the     *)
(* calling thread runs itself; the pool is the one of TaskHandoff.  A      *)
(* section between oapv_tpool_enter_cs and oapv_tpool_leave_cs is one      *)
(* action, and so is the work on a tile, which touches that tile only.     *)
(***************************************************************************)
EXTENDS Integers

CONSTANTS Threads,    \* ctx->threads
          MaxTiles,   \* the most tiles a frame has
          Frames,     \* the frames an application may submit
          MaxFrames,  \* bound: frames submitted
          LEN,        \* OAPV_TILE_SIZE_LEN
          Wrap        \* 2^32, the range of an unsigned int

Core == 0..(Threads - 1)
Tile == 0..(MaxTiles - 1)

\* A frame as far as the tiles go: n of them; cost[i] is what the cost pass
\* finds; size[i] the bytes tile i takes, and at[i] and max[i] are its buffer,
\* bs_buf and bs_buf_max; end is bs->end, seen from the end of the frame
\* header; rc says whether rate control is on, and inFh whether the header
\* lists the tile sizes.
EncAssumption ==
  /\ Threads \in Nat \ {0} /\ MaxTiles \in Nat \ {0}
  /\ MaxFrames \in Nat /\ LEN \in Nat \ {0} /\ Wrap \in Nat \ {0}
  /\ \A f \in Frames : /\ f.n \in 1..MaxTiles /\ f.end \in Nat
                       /\ f.rc \in BOOLEAN /\ f.inFh \in BOOLEAN
                       /\ \A i \in Tile : /\ f.cost[i] \in Nat /\ f.at[i] \in Nat
                                          /\ f.size[i] \in Nat /\ f.max[i] \in Nat

\* What the result of a tile rests on besides: a tile takes the bytes of its
\* size field at least, a buffer is no longer than an unsigned int can say, and
\* it does not end just below a multiple of Wrap, where a tile that overflows
\* its buffer is taken for one that fits (see OverflowIsReported).
TileAssumption ==
  \A f \in Frames : \A i \in 0..(f.n - 1) :
    /\ LEN <= f.size[i] /\ f.max[i] <= Wrap
    /\ (0 - f.at[i]) % Wrap > f.max[i]

VARIABLES frm,        \* the frame being encoded: ctx->num_tiles, the picture
          cap,        \* ctx->tile_cap
          tile_idx,   \* ctx->tile_idx, the next tile to take
          stat, cost, bs_size, tile_size,    \* fields of ctx->tile[i]
          imgb,       \* is ctx->imgb_i set and its reference held?
          pc,         \* control point of each core
          tidx, thread_ret,      \* tile and result of each core
          phase,      \* control point of the calling thread
          pass,       \* which pass the cores run
          ci,         \* its loop index, over pool threads or tiles
          ret,        \* its return value so far
          cost_sum,   \* local of enc_frame
          header,     \* the tile sizes the frame header in the output lists
          put,        \* bytes of tiles copied behind the header
          result,     \* what the last encode returned
          good,       \* history: did the last pass end well?
          nfrm        \* number of frames submitted

tileVars == <<tile_idx, stat, cost, bs_size, tile_size>>
coreVars == <<pc, tidx, thread_ret>>
ownVars  == <<frm, cap, imgb, pass, nfrm>>
outVars  == <<header, put>>
endVars  == <<result, good>>
vars == <<tileVars, coreVars, ownVars, outVars, endVars, phase, ci, ret, cost_sum>>

TypeOK ==
  /\ frm \in Frames
  /\ cap \in 0..MaxTiles
  /\ tile_idx \in 0..MaxTiles
  /\ stat \in [Tile -> {"NOT", "ON", "ENCODED"}]
  /\ cost \in [Tile -> Nat] /\ bs_size \in [Tile -> Nat] /\ tile_size \in [Tile -> Nat]
  /\ imgb \in BOOLEAN
  /\ pc \in [Core -> {"off", "take", "work", "mark", "fail", "done"}]
  /\ tidx \in [Core -> 0..MaxTiles]
  /\ thread_ret \in [Core -> {"OK", "ERR"}]
  /\ phase \in {"idle", "header", "fork", "main", "join", "costed", "copy"}
  /\ pass \in {"cost", "enc"}
  /\ ci \in 0..(Threads + MaxTiles)
  /\ ret \in {"OK", "ERR"}
  /\ cost_sum \in Nat
  /\ header \in [Tile -> Nat]
  /\ put \in Nat
  /\ result \in {"OK", "ERR"} /\ good \in BOOLEAN
  /\ nfrm \in 0..MaxFrames

Zero == [i \in Tile |-> 0]

Init ==
  /\ frm \in Frames
  /\ cap = 0 /\ tile_idx = 0
  /\ stat = [i \in Tile |-> "NOT"]
  /\ cost = Zero /\ bs_size = Zero /\ tile_size = Zero
  /\ imgb = FALSE
  /\ pc = [c \in Core |-> "off"]
  /\ tidx = [c \in Core |-> 0]
  /\ thread_ret = [c \in Core |-> "OK"]
  /\ phase = "idle" /\ pass = "enc" /\ ci = 0 /\ ret = "OK"
  /\ cost_sum = 0 /\ header = Zero /\ put = 0
  /\ result = "ERR" /\ good = FALSE /\ nfrm = 0

Num == frm.n                                  \* ctx->num_tiles
par == IF Threads > Num THEN Num ELSE Threads  \* parallel_task

Reset == [i \in Tile |-> IF i < Num THEN "NOT" ELSE stat[i]]

----------------------------------------------------------------------------
(* The calling thread: oapve_encode, for one frame                         *)

\* enc_frm_prepare accepts the frame.  A tile array too small for it is
\* replaced by a cleared one.
Prepare(f) ==
  /\ phase = "idle" /\ nfrm < MaxFrames
  /\ nfrm' = nfrm + 1
  /\ frm' = f
  /\ LET grown == f.n > cap
         Old(v) == IF grown THEN Zero ELSE v
     IN  /\ cap' = IF grown THEN f.n ELSE cap
         /\ cost' = Old(cost) /\ bs_size' = Old(bs_size) /\ tile_size' = Old(tile_size)
         /\ stat' = [i \in Tile |-> IF grown \/ i < f.n THEN "NOT" ELSE stat[i]]
  /\ imgb' = TRUE
  /\ phase' = "header"
  /\ UNCHANGED <<tile_idx, coreVars, pass, ci, ret, cost_sum, outVars, endVars>>

\* ... or the tile array cannot be allocated: nothing is held.
PrepareFails(f) ==
  /\ phase = "idle" /\ nfrm < MaxFrames
  /\ f.n > cap
  /\ nfrm' = nfrm + 1
  /\ cap' = 0
  /\ result' = "ERR"
  /\ UNCHANGED <<frm, tileVars, coreVars, imgb, pass, phase, ci, ret, cost_sum,
                 outVars, good>>

Fork(p) == phase' = "fork" /\ pass' = p /\ ci' = 0 /\ tile_idx' = 0

\* enc_frm_finish
Finish(r) == imgb' = FALSE /\ result' = r /\ phase' = "idle"

\* enc_frame begins, but there is no room for the frame header.
HeaderFails ==
  /\ phase = "header"
  /\ Finish("ERR")
  /\ UNCHANGED <<frm, tileVars, coreVars, cap, pass, nfrm, outVars, good, ci, ret, cost_sum>>

\* Or there is.  The header lists the sizes the tile array holds, of
\* whatever frame was encoded last.  The cost pass, when there is one, marks
\* every tile as not done (again).
Header ==
  /\ phase = "header"
  /\ header' = IF frm.inFh THEN [i \in Tile |-> IF i < Num THEN tile_size[i] ELSE 0]
               ELSE Zero
  /\ put' = 0
  /\ stat' = IF frm.rc THEN Reset ELSE stat
  /\ cost_sum' = 0
  /\ Fork(IF frm.rc THEN "cost" ELSE "enc")
  /\ UNCHANGED <<cost, bs_size, tile_size, coreVars, frm, cap, imgb, nfrm, ret, endVars>>

Starts(c) == /\ pc' = [pc EXCEPT ![c] = "take"]
             /\ thread_ret' = [thread_ret EXCEPT ![c] = "OK"]

\* tpool->run for core ci.
Run ==
  /\ phase = "fork" /\ ci < par - 1
  /\ Starts(ci)
  /\ ci' = ci + 1
  /\ UNCHANGED <<tileVars, tidx, ownVars, outVars, endVars, phase, ret, cost_sum>>

\* The calling thread runs core par - 1 itself ...
OwnShare ==
  /\ phase = "fork" /\ ci = par - 1
  /\ Starts(ci)
  /\ phase' = "main"
  /\ UNCHANGED <<tileVars, tidx, ownVars, outVars, endVars, ci, ret, cost_sum>>

\* ... and its result is the first the return value is made of.
OwnShareEnds ==
  /\ phase = "main" /\ pc[ci] = "done"
  /\ pc' = [pc EXCEPT ![ci] = "off"]
  /\ ret' = thread_ret[ci]
  /\ phase' = "join" /\ ci' = 0
  /\ UNCHANGED <<tileVars, tidx, thread_ret, ownVars, outVars, endVars, cost_sum>>

Fold(c) == IF thread_ret[c] # "OK" THEN thread_ret[c] ELSE ret

\* tpool->join for core ci.
Join ==
  /\ phase = "join" /\ ci < par - 1 /\ pc[ci] = "done"
  /\ pc' = [pc EXCEPT ![ci] = "off"]
  /\ ret' = Fold(ci)
  /\ ci' = ci + 1
  /\ UNCHANGED <<tileVars, tidx, thread_ret, ownVars, outVars, endVars, phase, cost_sum>>

\* The end of the join loop, in a version that leaves it at a failure.
JoinedEarly == phase = "join" /\ (ci = par - 1 \/ ret # "OK")

Joined == phase = "join" /\ ci = par - 1

\* The cost pass has ended: the costs are summed and the tiles are to do
\* once more.  enc_frame ignores what the pass returned.
CostsKnown ==
  /\ Joined /\ pass = "cost"
  /\ phase' = "costed"
  /\ good' = (ret = "OK")
  /\ UNCHANGED <<tileVars, coreVars, ownVars, outVars, result, ci, ret, cost_sum>>

\* The sums of a loop over the tile array: Upto(g)[k] is what the values of g
\* at the first k tiles add up to.
Upto(g) == LET s[k \in 0..MaxTiles] == IF k = 0 THEN 0 ELSE s[k - 1] + g[k - 1]
           IN  s

SumAll == cost_sum' = Upto(cost)[MaxTiles]

Sum == cost_sum' = Upto(cost)[Num]

StartEncoding ==
  /\ phase = "costed"
  /\ Sum
  /\ stat' = Reset
  /\ Fork("enc")
  /\ UNCHANGED <<cost, bs_size, tile_size, coreVars, frm, cap, imgb, nfrm, outVars,
                 endVars, ret>>

\* The encoding pass has ended, well or badly.
Encoded ==
  /\ Joined /\ pass = "enc"
  /\ good' = (ret = "OK")
  /\ ci' = 0
  /\ IF ret = "OK" THEN phase' = "copy" /\ UNCHANGED <<imgb, result>>
     ELSE Finish("ERR")
  /\ UNCHANGED <<tileVars, coreVars, frm, cap, pass, nfrm, outVars, ret, cost_sum>>

Room == put + bs_size[ci] <= frm.end

\* The tile buffers are copied in the order of the tiles, one per step.
Copy ==
  /\ phase = "copy" /\ ci < Num
  /\ IF Room
     THEN /\ put' = put + bs_size[ci]
          /\ tile_size' = [tile_size EXCEPT ![ci] = (bs_size[ci] - LEN) % Wrap]
          /\ ci' = ci + 1
          /\ UNCHANGED <<imgb, result, phase>>
     ELSE Finish("ERR") /\ UNCHANGED <<put, tile_size, ci>>
  /\ UNCHANGED <<tile_idx, stat, cost, bs_size, coreVars, frm, cap, pass, nfrm, header,
                 good, ret, cost_sum>>

\* What the header says in the end.
HeaderKept == header

Rewritten == IF frm.inFh THEN [i \in Tile |-> IF i < Num THEN tile_size[i] ELSE 0]
             ELSE header

Rewrite ==
  /\ phase = "copy" /\ ci = Num
  /\ header' = Rewritten
  /\ Finish("OK")
  /\ UNCHANGED <<tileVars, coreVars, frm, cap, pass, nfrm, put, good, ci, ret, cost_sum>>

Caller == \/ Header \/ HeaderFails \/ Run \/ OwnShare \/ OwnShareEnds \/ Join
          \/ CostsKnown \/ StartEncoding \/ Encoded \/ Copy \/ Rewrite

----------------------------------------------------------------------------
(* enc_thread_tile and get_tile_cost_thread                                *)

Goto(c, p) == pc' = [pc EXCEPT ![c] = p]

\* The next tile, or the end of the work.
StillAt(k) == k
Past(k) == k + 1

Take(c) ==
  /\ pc[c] = "take"
  /\ tidx' = [tidx EXCEPT ![c] = tile_idx]
  /\ IF tile_idx < Num
     THEN /\ stat' = [stat EXCEPT ![tile_idx] = "ON"]
          /\ tile_idx' = Past(tile_idx)
          /\ Goto(c, "work")
     ELSE UNCHANGED <<stat, tile_idx>> /\ Goto(c, "done")
  /\ UNCHANGED <<cost, bs_size, tile_size, thread_ret, ownVars, outVars, endVars,
                 phase, ci, ret, cost_sum>>

\* oapve_rc_get_tile_cost, which cannot fail.
Measure(c) ==
  /\ pc[c] = "work" /\ pass = "cost"
  /\ cost' = [cost EXCEPT ![tidx[c]] = frm.cost[tidx[c]]]
  /\ Goto(c, "mark")
  /\ UNCHANGED <<tile_idx, stat, bs_size, tile_size, tidx, thread_ret, ownVars, outVars,
                 endVars, phase, ci, ret, cost_sum>>

\* What enc_tile takes for the bytes of tile i: the distance from the start
\* of the buffer to where the last sink says the writer stands, cut to 32
\* bits.  For a tile that overflowed its buffer that sink is NULL.
Sunk(i) == IF frm.size[i] < frm.max[i] THEN frm.at[i] + frm.size[i] ELSE 0

Remained(i) == (Sunk(i) - frm.at[i]) % Wrap

\* enc_tile: a tile found to be longer than its buffer keeps tile_size 0.
Encode(c) ==
  /\ pc[c] = "work" /\ pass = "enc"
  /\ LET i == tidx[c]
     IN  IF Remained(i) > frm.max[i]
         THEN /\ tile_size' = [tile_size EXCEPT ![i] = 0]
              /\ Goto(c, "fail")
              /\ UNCHANGED bs_size
         ELSE /\ bs_size' = [bs_size EXCEPT ![i] = Remained(i)]
              /\ tile_size' = [tile_size EXCEPT ![i] = (Remained(i) - LEN) % Wrap]
              /\ Goto(c, "mark")
  /\ UNCHANGED <<tile_idx, stat, cost, tidx, thread_ret, ownVars, outVars, endVars,
                 phase, ci, ret, cost_sum>>

Mark(c) ==
  /\ pc[c] = "mark"
  /\ stat' = [stat EXCEPT ![tidx[c]] = "ENCODED"]
  /\ Goto(c, "take")
  /\ UNCHANGED <<tile_idx, cost, bs_size, tile_size, tidx, thread_ret, ownVars, outVars,
                 endVars, phase, ci, ret, cost_sum>>

\* The ERR label: the core leaves for good, its tile still marked as being
\* encoded; the other cores go on.
Fail(c) ==
  /\ pc[c] = "fail"
  /\ thread_ret' = [thread_ret EXCEPT ![c] = "ERR"]
  /\ Goto(c, "done")
  /\ UNCHANGED <<tileVars, tidx, ownVars, outVars, endVars, phase, ci, ret, cost_sum>>

Worker(c) == Take(c) \/ Measure(c) \/ Encode(c) \/ Mark(c) \/ Fail(c)

\* The application submits no more frames.
Ended == phase = "idle" /\ nfrm = MaxFrames /\ UNCHANGED vars

Next == \/ \E f \in Frames : Prepare(f) \/ PrepareFails(f)
        \/ Caller
        \/ \E c \in Core : Worker(c)
        \/ Ended

\* Every thread that can run is scheduled; measuring and encoding a tile are
\* loops over its blocks, which end.
Fairness == WF_vars(Caller) /\ \A c \in Core : WF_vars(Worker(c))

Spec == Init /\ [][Next]_vars /\ Fairness

----------------------------------------------------------------------------
(* Properties                                                              *)

\* Core c has taken a tile it has not put down yet.
Holds(c) == pc[c] \in {"work", "mark", "fail"}

\* Rate control divides the bits of the picture by the costs of exactly the
\* tiles of this frame, none stale and none counted twice.
CostsAreThisFrames ==
  /\ TypeOK
  /\ frm.rc /\ pass = "enc" /\ phase \in {"fork", "main", "join", "copy"} =>
       cost_sum = Upto(frm.cost)[Num]

\* An encode that reports success has put out every tile once, whole, in the
\* bytes there were, and the header the decoder will read lists the sizes
\* the tiles have and not those of an earlier frame.
SuccessIsWholeFrame ==
  phase = "idle" /\ result = "OK" =>
    /\ \A i \in 0..(Num - 1) : /\ stat[i] = "ENCODED"
                               /\ bs_size[i] = frm.size[i]
                               /\ frm.inFh => header[i] = frm.size[i] - LEN
    /\ put = Upto(frm.size)[Num]
    /\ put <= frm.end

\* "OAPV_ERR_OUT_OF_BS_BUF: 'bitb' or cdesc.max_bs_buf_size is too small for
\* the coded AU": an encode that succeeds had room for every tile in the share
\* of the bitstream buffer the tile was given.
OverflowIsReported ==
  phase = "idle" /\ result = "OK" => \A i \in 0..(Num - 1) : frm.size[i] < frm.max[i]

----------------------------------------------------------------------------
(* What TileWork sees of a tile, in each pass.  A tile a core left for     *)
(* good without marking it encoded has failed.                             *)

Shared(i) == \E c, d \in Core : c # d /\ Holds(c) /\ Holds(d) /\ tidx[c] = i /\ tidx[d] = i
Busy(i) == \E c \in Core : Holds(c) /\ tidx[c] = i

TileState(i) == CASE Shared(i) -> "shared"
                  [] ~Shared(i) /\ Busy(i) -> "busy"
                  [] stat[i] = "ENCODED" -> "done"
                  [] stat[i] = "ON" /\ ~Busy(i) -> "err"
                  [] stat[i] = "NOT" -> "todo"
=============================================================================
