--------------------------- MODULE EncTilesProofs ---------------------------
(***************************************************************************)
(* Proofs about EncTiles, for any number of threads, tiles and frames and  *)
(* whatever the tiles cost and the bytes they take.                        *)
(***************************************************************************)
EXTENDS EncTiles, Induction

----------------------------------------------------------------------------
(* The inductive invariant                                                 *)

\* The cores run a pass.
Pass == phase \in {"fork", "main", "join"}

\* The locals of oapve_encode: how far its loops are and which pass this is.
CallInv ==
  /\ imgb <=> phase # "idle"
  /\ Pass => ci < par /\ put = 0
  /\ phase = "main" => ci = par - 1
  /\ phase = "costed" => pass = "cost" /\ put = 0
  /\ Pass /\ pass = "cost" => frm.rc
  /\ phase = "copy" => ci <= Num /\ pass = "enc"

\* A core is under way from the step that starts it to the one that joins it.
Started(c) == \/ phase = "fork" /\ c < ci
              \/ phase = "main" /\ c <= ci
              \/ phase = "join" /\ ci <= c /\ c < par - 1

CoreInv == \A c \in Core : pc[c] # "off" <=> Started(c)

\* The tiles are taken one after the other, and one taken has one owner until
\* it is marked.
HoldInv ==
  /\ \A c \in Core : Holds(c) => tidx[c] < tile_idx /\ stat[tidx[c]] = "ON"
  /\ \A c, d \in Core : Holds(c) /\ Holds(d) /\ tidx[c] = tidx[d] => c = d
  /\ Pass => /\ tile_idx <= Num
             /\ \A i \in 0..(Num - 1) : stat[i] = "NOT" <=> i >= tile_idx
  /\ phase = "header" => \A i \in 0..(Num - 1) : stat[i] = "NOT"

\* A tile that was left for good, and who knows of it: a core that has not
\* been joined, or the return value.  No tile of the cost pass is.
Lost == \E i \in 0..(Num - 1) : stat[i] = "ON" /\ ~Busy(i)

FailInv ==
  /\ \A c \in Core : pc[c] = "fail" => pass = "enc"
  /\ \A c \in Core : pc[c] # "off" /\ thread_ret[c] = "ERR" => Lost /\ pass = "enc"
  /\ phase = "join" /\ ret = "ERR" => Lost /\ pass = "enc"
  /\ Pass /\ Lost => \/ \E c \in Core : pc[c] # "off" /\ thread_ret[c] = "ERR"
                     \/ phase = "join" /\ ret = "ERR"
  /\ \A c \in Core : pc[c] = "done" /\ thread_ret[c] = "OK" => tile_idx = Num
  /\ phase = "join" /\ ret = "OK" => tile_idx = Num

\* A tile the cost pass is done with has the cost that pass found.
CostInv ==
  /\ \A c \in Core : pass = "cost" /\ pc[c] = "mark" => cost[tidx[c]] = frm.cost[tidx[c]]
  /\ Pass /\ pass = "cost" =>
       \A i \in 0..(Num - 1) : stat[i] = "ENCODED" => cost[i] = frm.cost[i]
  /\ phase = "costed" => \A i \in 0..(Num - 1) : cost[i] = frm.cost[i]

\* A tile the encoding pass is done with is whole and fitted its buffer.
Whole(i) == /\ bs_size[i] = frm.size[i] /\ tile_size[i] = frm.size[i] - LEN
            /\ frm.size[i] < frm.max[i]

WholeInv ==
  /\ \A c \in Core : pass = "enc" /\ pc[c] = "mark" => Whole(tidx[c])
  /\ Pass /\ pass = "enc" => \A i \in 0..(Num - 1) : stat[i] = "ENCODED" => Whole(i)
  /\ phase = "copy" => /\ \A i \in 0..(Num - 1) : stat[i] = "ENCODED" /\ Whole(i)
                       /\ put = Upto(frm.size)[ci] /\ put <= frm.end
  /\ SuccessIsWholeFrame /\ OverflowIsReported

IInv == /\ TypeOK /\ CallInv /\ CoreInv /\ HoldInv /\ FailInv /\ CostInv
        /\ CostsAreThisFrames
        /\ TileAssumption => WholeInv

USE DEF IInv, Core, Tile, Num, Pass

\* What the types say of the constants, the frame, the tiles and the cores.
LEMMA Types ==
  ASSUME EncAssumption, TypeOK
  PROVE  /\ Threads \in Nat \ {0} /\ MaxTiles \in Nat \ {0} /\ LEN \in Nat \ {0}
         /\ MaxFrames \in Nat /\ Wrap \in Nat \ {0}
         /\ Num \in 1..MaxTiles /\ frm.end \in Nat /\ frm.rc \in BOOLEAN
         /\ \A i \in Tile : /\ frm.cost[i] \in Nat /\ frm.size[i] \in Nat
                           /\ frm.at[i] \in Nat /\ frm.max[i] \in Nat
         /\ \A f \in Frames : f.n \in 1..MaxTiles
         /\ tile_idx \in Nat /\ ci \in Nat /\ par \in 1..Threads /\ par <= Num
         /\ \A i \in Tile : /\ stat[i] \in {"NOT", "ON", "ENCODED"} /\ cost[i] \in Nat
                           /\ bs_size[i] \in Nat /\ tile_size[i] \in Nat
         /\ \A c \in Core : tidx[c] \in Nat /\ thread_ret[c] \in {"OK", "ERR"}
         /\ ret \in {"OK", "ERR"} /\ put \in Nat
  BY DEF EncAssumption, TypeOK, par

----------------------------------------------------------------------------
(* The sums of the loops over the tiles                                    *)

\* Upto is the function its recursive definition describes.
LEMMA UptoIs ==
  ASSUME MaxTiles \in Nat, NEW g, \A i \in Tile : g[i] \in Nat
  PROVE  Upto(g) = [k \in 0..MaxTiles |-> IF k = 0 THEN 0 ELSE Upto(g)[k - 1] + g[k - 1]]
  <1> DEFINE Is(s) == s = [k \in 0..MaxTiles |-> IF k = 0 THEN 0 ELSE s[k - 1] + g[k - 1]]
  <1>1. PICK rule \in Rule(MaxTiles, Nat) :
          \A k \in 1..MaxTiles, v \in Nat : rule[k][v] = v + g[k - 1]
    <2>1. [k \in 1..MaxTiles |-> [v \in Nat |-> v + g[k - 1]]] \in Rule(MaxTiles, Nat)
      BY DEF Rule
    <2> QED BY <2>1
  <1>2. PICK f : Follows(f, MaxTiles, Nat, 0, rule)
    <2>1. 0 \in Nat
      OBVIOUS
    <2> QED BY <2>1, Recursion
  <1>3. \A k \in 1..MaxTiles : k - 1 \in 0..MaxTiles /\ f[k] = f[k - 1] + g[k - 1]
    <2>1. \A k \in 1..MaxTiles : k - 1 \in 0..MaxTiles
      OBVIOUS
    <2>2. \A k \in 1..MaxTiles : f[k - 1] \in Nat
      BY <1>2, <2>1 DEF Follows
    <2> QED BY <1>1, <1>2, <2>1, <2>2 DEF Follows
  <1>4. Is(f)
    BY <1>2, <1>3 DEF Follows
  <1>5. Upto(g) = CHOOSE s : Is(s)
    BY DEF Upto
  <1> HIDE DEF Is
  <1>6. Is(Upto(g))
    BY <1>4, <1>5
  <1> QED BY <1>6 DEF Is

\* The sums are natural numbers, and each is the one before and one value more.
LEMMA UptoGrows ==
  ASSUME MaxTiles \in Nat, NEW g, \A i \in Tile : g[i] \in Nat
  PROVE  /\ Upto(g)[0] = 0
         /\ \A k \in 0..MaxTiles : Upto(g)[k] \in Nat
         /\ \A k \in Tile : Upto(g)[k + 1] = Upto(g)[k] + g[k]
  <1> DEFINE s == Upto(g)
             T == {k \in 0..MaxTiles : s[k] \in Nat}
  <1>1. s = [k \in 0..MaxTiles |-> IF k = 0 THEN 0 ELSE s[k - 1] + g[k - 1]]
    BY UptoIs
  <1> HIDE DEF s
  <1>2. s[0] = 0 /\ \A k \in Tile : s[k + 1] = s[k] + g[k]
    BY <1>1
  <1>3. 0 \in T /\ \A k \in T : k \in 0..(MaxTiles - 1) => k + 1 \in T
    BY <1>2
  <1> HIDE DEF T
  <1>4. \A k \in 0..MaxTiles : k \in T
    BY <1>3, UpTo
  <1> QED BY <1>2, <1>4 DEF s, T

\* The sums depend on the values they are sums of, and on no others.
LEMMA UptoSame ==
  ASSUME MaxTiles \in Nat, NEW g, NEW h, NEW n \in 0..MaxTiles,
         \A i \in Tile : g[i] \in Nat /\ h[i] \in Nat,
         \A i \in 0..(n - 1) : g[i] = h[i]
  PROVE  Upto(g)[n] = Upto(h)[n]
  <1> DEFINE T == {k \in 0..n : Upto(g)[k] = Upto(h)[k]}
  <1>1. 0 \in T
    BY UptoGrows
  <1>2. ASSUME NEW k \in T, k \in 0..(n - 1) PROVE k + 1 \in T
    <2>1. k \in Tile /\ k + 1 \in 0..n /\ g[k] = h[k]
      BY <1>2
    <2>2. Upto(g)[k + 1] = Upto(g)[k] + g[k] /\ Upto(h)[k + 1] = Upto(h)[k] + h[k]
      BY <2>1, UptoGrows
    <2> QED BY <2>1, <2>2
  <1> HIDE DEF T
  <1>3. n \in Nat /\ n \in 0..n
    OBVIOUS
  <1>4. n \in T
    BY <1>1, <1>2, <1>3, UpTo
  <1> QED BY <1>4 DEF T

----------------------------------------------------------------------------
(* Lengths in an unsigned int                                              *)

\* A remainder is a number below the divisor.
LEMMA ModRange == ASSUME NEW a \in Int, NEW b \in Nat \ {0} PROVE a % b \in 0..(b - 1)
  OBVIOUS

\* A length that an unsigned int can say is not changed by being cut to one.
LEMMA ModSmall == ASSUME NEW a \in Nat, NEW b \in Nat \ {0}, a < b PROVE a % b = a
  <1>1. a = b * (a \div b) + (a % b) /\ a \div b \in Int
    OBVIOUS
  <1> QED BY <1>1, ModRange

----------------------------------------------------------------------------
(* Every step keeps the invariant                                          *)

\* Outside a pass no core is under way.
LEMMA NoneUnderWay == ASSUME CoreInv, ~Pass PROVE \A c \in Core : pc[c] = "off" /\ ~Holds(c)
  BY DEF CoreInv, Started, Holds

\* enc_frm_prepare accepts a frame.
LEMMA PrepareStep == ASSUME EncAssumption, IInv, NEW f \in Frames, Prepare(f) PROVE IInv'
  <1>a. /\ MaxTiles \in Nat \ {0} /\ f.n \in 1..MaxTiles
    BY Types
  <1>b. /\ phase = "idle" /\ phase' = "header" /\ frm' = f /\ imgb' = TRUE
        /\ \A i \in 0..(f.n - 1) : stat'[i] = "NOT"
        /\ UNCHANGED <<tile_idx, pc, tidx, thread_ret, pass, ci, ret, cost_sum, header, put, result, good>>
    BY <1>a DEF Prepare, coreVars, outVars, endVars
  <1>c. \A c \in Core : pc[c] = "off"
    BY <1>b, NoneUnderWay
  <1>1. TypeOK'
    <2>1. stat' \in [Tile -> {"NOT", "ON", "ENCODED"}] /\ cap' \in 0..MaxTiles
      BY <1>a DEF Prepare, TypeOK
    <2>3. /\ cost' \in [Tile -> Nat] /\ bs_size' \in [Tile -> Nat] /\ tile_size' \in [Tile -> Nat]
      BY DEF Prepare, TypeOK, Zero
    <2>2. nfrm' \in 0..MaxFrames
      BY Types DEF Prepare, TypeOK
    <2> QED BY <1>b, <2>1, <2>2, <2>3 DEF TypeOK
  <1>2. CallInv' /\ CoreInv' /\ HoldInv'
    BY <1>b, <1>c DEF CallInv, CoreInv, Started, HoldInv, Holds
  <1>3. FailInv' /\ CostInv'
    BY <1>b, <1>c DEF FailInv, CostInv
  <1>4. CostsAreThisFrames'
    BY <1>b, <1>1 DEF CostsAreThisFrames
  <1>5. WholeInv'
    BY <1>b, <1>c DEF WholeInv, SuccessIsWholeFrame, OverflowIsReported
  <1> QED BY <1>1, <1>2, <1>3, <1>4, <1>5

\* The tile array cannot be allocated.
LEMMA PrepareFailsStep == ASSUME EncAssumption, IInv, NEW f \in Frames, PrepareFails(f) PROVE IInv'
  <1>b. /\ phase = "idle" /\ cap' = 0 /\ result' = "ERR" /\ nfrm < MaxFrames /\ nfrm' = nfrm + 1
        /\ UNCHANGED <<frm, imgb, pass, phase, ci, ret, cost_sum, good, header, put>>
        /\ UNCHANGED <<tile_idx, stat, cost, bs_size, tile_size, pc, tidx, thread_ret>>
    BY DEF PrepareFails, tileVars, coreVars, outVars
  <1>c. \A c \in Core : pc[c] = "off"
    BY <1>b, NoneUnderWay
  <1>1. TypeOK'
    BY <1>b, Types DEF TypeOK
  <1>2. CallInv' /\ CoreInv' /\ HoldInv'
    BY <1>b, <1>c DEF CallInv, CoreInv, Started, HoldInv, Holds
  <1>3. FailInv' /\ CostInv'
    BY <1>b, <1>c DEF FailInv, CostInv
  <1>4. CostsAreThisFrames'
    BY <1>b, <1>1 DEF CostsAreThisFrames
  <1>5. WholeInv'
    BY <1>b, <1>c DEF WholeInv, SuccessIsWholeFrame, OverflowIsReported
  <1> QED BY <1>1, <1>2, <1>3, <1>4, <1>5

\* There is no room for the frame header.
LEMMA HeaderFailsStep == ASSUME EncAssumption, IInv, HeaderFails PROVE IInv'
  <1>b. /\ phase = "header" /\ phase' = "idle" /\ imgb' = FALSE /\ result' = "ERR"
        /\ UNCHANGED <<frm, cap, pass, nfrm, ci, ret, cost_sum, good, header, put>>
        /\ UNCHANGED <<tile_idx, stat, cost, bs_size, tile_size, pc, tidx, thread_ret>>
    BY DEF HeaderFails, Finish, tileVars, coreVars, outVars
  <1>c. \A c \in Core : pc[c] = "off"
    BY <1>b, NoneUnderWay
  <1>1. TypeOK'
    BY <1>b DEF TypeOK
  <1>2. CallInv' /\ CoreInv' /\ HoldInv'
    BY <1>b, <1>c DEF CallInv, CoreInv, Started, HoldInv, Holds
  <1>3. FailInv' /\ CostInv'
    BY <1>b, <1>c DEF FailInv, CostInv
  <1>4. CostsAreThisFrames'
    BY <1>b, <1>1 DEF CostsAreThisFrames
  <1>5. WholeInv'
    BY <1>b, <1>c DEF WholeInv, SuccessIsWholeFrame, OverflowIsReported
  <1> QED BY <1>1, <1>2, <1>3, <1>4, <1>5

\* The frame header is written, and the first pass begins.
LEMMA HeaderStep == ASSUME EncAssumption, IInv, Header PROVE IInv'
  <1>a. Threads \in Nat \ {0} /\ MaxTiles \in Nat \ {0} /\ Num \in 1..MaxTiles /\ frm.rc \in BOOLEAN /\ par \in 1..Threads
    BY Types
  <1>b. /\ phase = "header" /\ phase' = "fork" /\ ci' = 0 /\ tile_idx' = 0 /\ put' = 0 /\ cost_sum' = 0
        /\ pass' = IF frm.rc THEN "cost" ELSE "enc"
        /\ stat' = IF frm.rc THEN Reset ELSE stat
        /\ UNCHANGED <<frm, cap, imgb, nfrm, ret, result, good>>
        /\ UNCHANGED <<cost, bs_size, tile_size, pc, tidx, thread_ret>>
    BY DEF Header, Fork, coreVars, endVars
  <1>c. \A c \in Core : pc[c] = "off"
    BY <1>b, NoneUnderWay
  <1>d. \A i \in 0..(Num - 1) : stat'[i] = "NOT"
    BY <1>a, <1>b DEF HoldInv, Reset
  <1>1. TypeOK'
    <2>1. header' \in [Tile -> Nat]
      BY DEF Header, Zero, TypeOK
    <2>2. stat' \in [Tile -> {"NOT", "ON", "ENCODED"}]
      BY <1>b DEF Reset, TypeOK
    <2>3. /\ pass' \in {"cost", "enc"} /\ 0 \in 0..(Threads + MaxTiles) /\ 0 \in 0..MaxTiles
          /\ 0 \in Nat
      BY <1>a, <1>b
    <2> QED BY <1>b, <2>1, <2>2, <2>3 DEF TypeOK
  <1>2. CallInv' /\ CoreInv'
    BY <1>a, <1>b, <1>c DEF CallInv, CoreInv, Started, par
  <1>3. HoldInv'
    BY <1>a, <1>b, <1>c, <1>d DEF HoldInv, Holds
  <1>4. FailInv' /\ CostInv'
    <2>1. ~Lost'
      BY <1>b, <1>d DEF Lost
    <2> QED BY <1>b, <1>c, <1>d, <2>1 DEF FailInv, CostInv
  <1>5. CostsAreThisFrames'
    BY <1>a, <1>b, <1>1 DEF CostsAreThisFrames
  <1>6. WholeInv'
    BY <1>b, <1>c, <1>d DEF WholeInv, SuccessIsWholeFrame, OverflowIsReported
  <1> QED BY <1>1, <1>2, <1>3, <1>4, <1>5, <1>6

\* A pool thread is given its core.
LEMMA RunStep == ASSUME EncAssumption, IInv, Run PROVE IInv'
  <1>a. /\ Threads \in Nat \ {0} /\ MaxTiles \in Nat /\ ci \in Nat /\ par \in 1..Threads
    BY Types
  <1>b. /\ phase = "fork" /\ ci < par - 1 /\ ci' = ci + 1 /\ ci \in Core
        /\ pc' = [pc EXCEPT ![ci] = "take"]
        /\ thread_ret' = [thread_ret EXCEPT ![ci] = "OK"]
        /\ UNCHANGED <<tile_idx, stat, cost, bs_size, tile_size, tidx, header, put>>
        /\ UNCHANGED <<frm, cap, imgb, pass, nfrm, phase, ret, cost_sum, result, good>>
    BY <1>a DEF Run, Starts, tileVars, ownVars, outVars, endVars
  <1>c. /\ \A c \in Core : pc'[c] = IF c = ci THEN "take" ELSE pc[c]
        /\ \A c \in Core : thread_ret'[c] = IF c = ci THEN "OK" ELSE thread_ret[c]
        /\ pc[ci] = "off" /\ par' = par
    BY <1>a, <1>b DEF TypeOK, CoreInv, Started, par
  <1>1. TypeOK'
    BY <1>a, <1>b DEF TypeOK
  <1>2. CallInv' /\ CoreInv'
    BY <1>a, <1>b, <1>c DEF CallInv, CoreInv, Started
  <1>3. HoldInv'
    BY <1>b, <1>c DEF HoldInv, Holds
  <1>4. FailInv'
    <2>1. \A i \in Nat : Busy(i)' <=> Busy(i)
      BY <1>b, <1>c DEF Busy, Holds
    <2>2. Lost' <=> Lost
      BY <1>b, <2>1, Types DEF Lost
    <2> QED BY <1>b, <1>c, <2>2 DEF FailInv
  <1>5. CostInv'
    BY <1>b, <1>c DEF CostInv
  <1>6. CostsAreThisFrames'
    BY <1>b, <1>1 DEF CostsAreThisFrames
  <1>7. WholeInv => WholeInv'
    BY <1>b, <1>c DEF WholeInv, Whole, SuccessIsWholeFrame, OverflowIsReported
  <1> QED BY <1>1, <1>2, <1>3, <1>4, <1>5, <1>6, <1>7

\* The calling thread starts on its own core.
LEMMA OwnShareStep == ASSUME EncAssumption, IInv, OwnShare PROVE IInv'
  <1>a. /\ Threads \in Nat \ {0} /\ MaxTiles \in Nat /\ ci \in Nat /\ par \in 1..Threads
    BY Types
  <1>b. /\ phase = "fork" /\ phase' = "main" /\ ci = par - 1 /\ ci \in Core
        /\ pc' = [pc EXCEPT ![ci] = "take"]
        /\ thread_ret' = [thread_ret EXCEPT ![ci] = "OK"]
        /\ UNCHANGED <<tile_idx, stat, cost, bs_size, tile_size, tidx, header, put>>
        /\ UNCHANGED <<frm, cap, imgb, pass, nfrm, ci, ret, cost_sum, result, good>>
    BY <1>a DEF OwnShare, Starts, tileVars, ownVars, outVars, endVars
  <1>c. /\ \A c \in Core : pc'[c] = IF c = ci THEN "take" ELSE pc[c]
        /\ \A c \in Core : thread_ret'[c] = IF c = ci THEN "OK" ELSE thread_ret[c]
        /\ pc[ci] = "off" /\ par' = par
    BY <1>a, <1>b DEF TypeOK, CoreInv, Started, par
  <1>1. TypeOK'
    BY <1>a, <1>b DEF TypeOK
  <1>2. CallInv' /\ CoreInv'
    BY <1>a, <1>b, <1>c DEF CallInv, CoreInv, Started
  <1>3. HoldInv'
    BY <1>b, <1>c DEF HoldInv, Holds
  <1>4. FailInv'
    <2>1. \A i \in Nat : Busy(i)' <=> Busy(i)
      BY <1>b, <1>c DEF Busy, Holds
    <2>2. Lost' <=> Lost
      BY <1>b, <2>1, Types DEF Lost
    <2> QED BY <1>b, <1>c, <2>2 DEF FailInv
  <1>5. CostInv'
    BY <1>b, <1>c DEF CostInv
  <1>6. CostsAreThisFrames'
    BY <1>b, <1>1 DEF CostsAreThisFrames
  <1>7. WholeInv => WholeInv'
    BY <1>b, <1>c DEF WholeInv, Whole, SuccessIsWholeFrame, OverflowIsReported
  <1> QED BY <1>1, <1>2, <1>3, <1>4, <1>5, <1>6, <1>7

\* The calling thread has done its own share.
LEMMA OwnShareEndsStep == ASSUME EncAssumption, IInv, OwnShareEnds PROVE IInv'
  <1>a. /\ Threads \in Nat \ {0} /\ MaxTiles \in Nat /\ ci \in Nat /\ par \in 1..Threads
    BY Types
  <1>b. /\ phase = "main" /\ phase' = "join" /\ ci' = 0 /\ ci = par - 1 /\ ci \in Core
        /\ pc[ci] = "done" /\ pc' = [pc EXCEPT ![ci] = "off"]
        /\ ret' = thread_ret[ci] /\ ret' \in {"OK", "ERR"}
        /\ UNCHANGED <<tile_idx, stat, cost, bs_size, tile_size, tidx, thread_ret, header, put>>
        /\ UNCHANGED <<frm, cap, imgb, pass, nfrm, cost_sum, result, good>>
    BY <1>a, Types DEF OwnShareEnds, CallInv, tileVars, ownVars, outVars, endVars
  <1>c. par' = par /\ \A c \in Core : pc'[c] = IF c = ci THEN "off" ELSE pc[c]
    BY <1>b DEF TypeOK, par
  <1>1. TypeOK'
    BY <1>a, <1>b DEF TypeOK
  <1>2. CallInv' /\ CoreInv'
    BY <1>a, <1>b, <1>c DEF CallInv, CoreInv, Started
  <1>3. HoldInv'
    BY <1>b, <1>c DEF HoldInv, Holds
  <1>4. FailInv'
    <2>1. \A i \in Nat : Busy(i)' <=> Busy(i)
      BY <1>b, <1>c DEF Busy, Holds
    <2>2. Lost' <=> Lost
      BY <1>b, <2>1, Types DEF Lost
    <2> QED BY <1>b, <1>c, <2>2 DEF FailInv
  <1>5. CostInv'
    BY <1>b, <1>c DEF CostInv
  <1>6. CostsAreThisFrames'
    BY <1>b, <1>1 DEF CostsAreThisFrames
  <1>7. WholeInv => WholeInv'
    BY <1>b, <1>c DEF WholeInv, Whole, SuccessIsWholeFrame, OverflowIsReported
  <1> QED BY <1>1, <1>2, <1>3, <1>4, <1>5, <1>6, <1>7

\* A pool thread is joined.
LEMMA JoinStep == ASSUME EncAssumption, IInv, Join PROVE IInv'
  <1>a. /\ Threads \in Nat \ {0} /\ MaxTiles \in Nat /\ ci \in Nat /\ par \in 1..Threads
    BY Types
  <1>b. /\ phase = "join" /\ ci' = ci + 1 /\ ci < par - 1 /\ ci \in Core
        /\ pc[ci] = "done" /\ pc' = [pc EXCEPT ![ci] = "off"]
        /\ ret' = IF thread_ret[ci] = "ERR" THEN "ERR" ELSE ret
        /\ UNCHANGED <<tile_idx, stat, cost, bs_size, tile_size, tidx, thread_ret, header, put>>
        /\ UNCHANGED <<frm, cap, imgb, pass, nfrm, phase, cost_sum, result, good>>
    BY <1>a, Types DEF Join, Fold, tileVars, ownVars, outVars, endVars
  <1>c. par' = par /\ \A c \in Core : pc'[c] = IF c = ci THEN "off" ELSE pc[c]
    BY <1>b DEF TypeOK, par
  <1>1. TypeOK'
    <2>1. ci' \in 0..(Threads + MaxTiles) /\ ret' \in {"OK", "ERR"}
      BY <1>a, <1>b DEF TypeOK
    <2> QED BY <1>b, <2>1 DEF TypeOK
  <1>2. CallInv' /\ CoreInv'
    BY <1>a, <1>b, <1>c DEF CallInv, CoreInv, Started
  <1>3. HoldInv'
    BY <1>b, <1>c DEF HoldInv, Holds
  <1>4. FailInv'
    <2>1. \A i \in Nat : Busy(i)' <=> Busy(i)
      BY <1>b, <1>c DEF Busy, Holds
    <2>2. Lost' <=> Lost
      BY <1>b, <2>1, Types DEF Lost
    <2> QED BY <1>b, <1>c, <2>2, Types DEF FailInv
  <1>5. CostInv'
    BY <1>b, <1>c DEF CostInv
  <1>6. CostsAreThisFrames'
    BY <1>b, <1>1 DEF CostsAreThisFrames
  <1>7. WholeInv => WholeInv'
    BY <1>b, <1>c DEF WholeInv, Whole, SuccessIsWholeFrame, OverflowIsReported
  <1> QED BY <1>1, <1>2, <1>3, <1>4, <1>5, <1>6, <1>7

\* What is left of a pass when all cores have been joined: nobody holds a tile,
\* and without a failure every tile is done.
LEMMA PassEnds ==
  ASSUME EncAssumption, IInv, Joined
  PROVE  /\ \A c \in Core : pc[c] = "off" /\ ~Holds(c)
         /\ \A i \in Tile : ~Busy(i)
         /\ ret = "OK" => \A i \in 0..(Num - 1) : stat[i] = "ENCODED"
         /\ ret = "ERR" => Lost /\ pass = "enc"
         /\ ret \in {"OK", "ERR"}
  <1>1. phase = "join" /\ \A c \in Core : pc[c] = "off" /\ ~Holds(c)
    BY Types DEF Joined, CoreInv, Started, Holds
  <1>2. \A i \in Nat : ~Busy(i)
    BY <1>1 DEF Busy
  <1>3. ASSUME ret = "OK", NEW i \in 0..(Num - 1) PROVE stat[i] = "ENCODED"
    <2>1. tile_idx = Num /\ ~Lost
      BY <1>1, <1>3 DEF FailInv
    <2>2. i \in Nat /\ stat[i] \in {"NOT", "ON", "ENCODED"} /\ ~(i >= Num)
      BY <1>3, Types
    <2>3. stat[i] # "NOT"
      BY <1>1, <1>3, <2>1, <2>2 DEF HoldInv
    <2> QED BY <1>2, <1>3, <2>1, <2>2, <2>3 DEF Lost
  <1>4. \A i \in Tile : i \in Nat
    BY Types
  <1> QED BY <1>1, <1>2, <1>3, <1>4, Types DEF FailInv

\* The cost pass has ended.
LEMMA CostsKnownStep == ASSUME EncAssumption, IInv, CostsKnown PROVE IInv'
  <1>a. /\ Joined /\ phase = "join" /\ pass = "cost" /\ phase' = "costed" /\ good' = (ret = "OK")
        /\ UNCHANGED <<tile_idx, stat, cost, bs_size, tile_size, pc, tidx, thread_ret, header, put>>
        /\ UNCHANGED <<frm, cap, imgb, pass, nfrm, ci, ret, cost_sum, result>>
    BY DEF CostsKnown, Joined, tileVars, coreVars, ownVars, outVars
  <1>b. /\ \A c \in Core : pc[c] = "off"
        /\ \A i \in 0..(Num - 1) : stat[i] = "ENCODED"
    BY <1>a, PassEnds
  <1>1. TypeOK'
    BY <1>a DEF TypeOK
  <1>2. CallInv' /\ CoreInv' /\ HoldInv'
    BY <1>a, <1>b DEF CallInv, CoreInv, Started, HoldInv, Holds
  <1>3. FailInv'
    BY <1>a, <1>b DEF FailInv
  <1>4. CostInv'
    BY <1>a, <1>b DEF CostInv
  <1>5. CostsAreThisFrames'
    BY <1>a, <1>1 DEF CostsAreThisFrames
  <1>6. WholeInv => WholeInv'
    BY <1>a, <1>b DEF WholeInv, SuccessIsWholeFrame, OverflowIsReported
  <1> QED BY <1>1, <1>2, <1>3, <1>4, <1>5, <1>6

\* The costs are summed, and the encoding pass begins.
LEMMA StartEncodingStep == ASSUME EncAssumption, IInv, StartEncoding PROVE IInv'
  <1>a. /\ Threads \in Nat \ {0} /\ MaxTiles \in Nat \ {0} /\ Num \in 1..MaxTiles
        /\ par \in 1..Threads /\ Num \in 0..MaxTiles
        /\ \A i \in Tile : cost[i] \in Nat /\ frm.cost[i] \in Nat
    BY Types
  <1>b. /\ phase = "costed" /\ phase' = "fork" /\ pass' = "enc" /\ ci' = 0 /\ tile_idx' = 0
        /\ cost_sum' = Upto(cost)[Num] /\ stat' = Reset
        /\ UNCHANGED <<frm, cap, imgb, nfrm, header, put, result, good, ret>>
        /\ UNCHANGED <<cost, bs_size, tile_size, pc, tidx, thread_ret>>
    BY DEF StartEncoding, Sum, Fork, coreVars, outVars, endVars
  <1>c. \A c \in Core : pc[c] = "off"
    BY <1>b, NoneUnderWay
  <1>d. \A i \in 0..(Num - 1) : stat'[i] = "NOT"
    BY <1>a, <1>b DEF Reset
  <1>e. \A i \in 0..(Num - 1) : cost[i] = frm.cost[i]
    BY <1>b DEF CostInv
  <1>f. cost_sum' = Upto(frm.cost)[Num] /\ cost_sum' \in Nat
    <2>1. Upto(cost)[Num] = Upto(frm.cost)[Num]
      BY <1>a, <1>e, UptoSame
    <2>2. Upto(cost)[Num] \in Nat
      BY <1>a, UptoGrows
    <2> QED BY <1>b, <2>1, <2>2
  <1>1. TypeOK'
    <2>1. stat' \in [Tile -> {"NOT", "ON", "ENCODED"}]
      BY <1>b DEF Reset, TypeOK
    <2>2. 0 \in 0..(Threads + MaxTiles) /\ 0 \in 0..MaxTiles
      BY <1>a
    <2> QED BY <1>b, <1>f, <2>1, <2>2 DEF TypeOK
  <1>2. CallInv' /\ CoreInv'
    BY <1>a, <1>b, <1>c DEF CallInv, CoreInv, Started, par
  <1>3. HoldInv'
    BY <1>a, <1>b, <1>c, <1>d DEF HoldInv, Holds
  <1>4. FailInv' /\ CostInv'
    <2>1. ~Lost'
      BY <1>b, <1>d DEF Lost
    <2> QED BY <1>b, <1>c, <1>d, <2>1 DEF FailInv, CostInv
  <1>5. CostsAreThisFrames'
    <2>1. Upto(frm.cost)' = Upto(frm.cost)
      BY <1>b DEF Upto
    <2> QED BY <1>b, <1>f, <1>1, <2>1 DEF CostsAreThisFrames
  <1>6. WholeInv'
    BY <1>b, <1>c, <1>d DEF WholeInv, SuccessIsWholeFrame, OverflowIsReported
  <1> QED BY <1>1, <1>2, <1>3, <1>4, <1>5, <1>6

\* The encoding pass has ended.
LEMMA EncodedStep == ASSUME EncAssumption, IInv, Encoded PROVE IInv'
  <1>a. /\ Joined /\ phase = "join" /\ pass = "enc" /\ ci' = 0
        /\ phase' = IF ret = "OK" THEN "copy" ELSE "idle"
        /\ ret = "OK" => imgb' = imgb /\ result' = result
        /\ ret # "OK" => imgb' = FALSE /\ result' = "ERR"
        /\ good' \in BOOLEAN
        /\ UNCHANGED <<tile_idx, stat, cost, bs_size, tile_size, pc, tidx, thread_ret, header, put>>
        /\ UNCHANGED <<frm, cap, pass, nfrm, ret, cost_sum>>
    BY DEF Encoded, Joined, Finish, TypeOK, tileVars, coreVars, outVars
  <1>b. /\ \A c \in Core : pc[c] = "off"
        /\ ret = "OK" => \A i \in 0..(Num - 1) : stat[i] = "ENCODED"
    BY <1>a, PassEnds
  <1>1. TypeOK'
    <2>1. 0 \in 0..(Threads + MaxTiles)
      BY Types
    <2>2. imgb' \in BOOLEAN
      BY <1>a DEF TypeOK
    <2>3. result' \in {"OK", "ERR"}
      BY <1>a DEF TypeOK
    <2> QED BY <1>a, <2>1, <2>2, <2>3 DEF TypeOK
  <1>2. CallInv'
    <2>1. imgb' <=> phase' # "idle"
      <3>1. imgb /\ "copy" # "idle"
        BY <1>a DEF CallInv
      <3>2. CASE ret = "OK"
        BY <1>a, <3>1, <3>2
      <3>3. CASE ret # "OK"
        BY <1>a, <3>3
      <3> QED BY <3>2, <3>3
    <2>2. ci' <= Num
      BY <1>a, Types
    <2> QED BY <1>a, <2>1, <2>2 DEF CallInv
  <1>h. CoreInv' /\ HoldInv'
    BY <1>a, <1>b DEF CoreInv, Started, HoldInv, Holds
  <1>3. FailInv' /\ CostInv'
    BY <1>a, <1>b DEF FailInv, CostInv
  <1>4. CostsAreThisFrames'
    BY <1>a, <1>1 DEF CostsAreThisFrames
  <1>5. ASSUME WholeInv PROVE WholeInv'
    <2>1. put = 0 /\ Upto(frm.size)[0] = 0 /\ put <= frm.end
      BY <1>a, Types, UptoGrows DEF CallInv
    <2>2. (\A i \in 0..(Num - 1) : Whole(i))' <=> \A i \in 0..(Num - 1) : Whole(i)
      BY <1>a DEF Whole
    <2>3. ret = "OK" => \A i \in 0..(Num - 1) : Whole(i)
      BY <1>a, <1>b, <1>5 DEF WholeInv
    <2>4. Upto(frm.size)' = Upto(frm.size)
      BY <1>a DEF Upto
    <2> QED BY <1>a, <1>b, <2>1, <2>2, <2>3, <2>4 DEF WholeInv, SuccessIsWholeFrame, OverflowIsReported
  <1> QED BY <1>1, <1>2, <1>h, <1>3, <1>4, <1>5

\* The buffer of a tile is copied behind the ones before, if there is room.
LEMMA CopyStep == ASSUME EncAssumption, IInv, Copy PROVE IInv'
  <1>a. /\ MaxTiles \in Nat \ {0} /\ Num \in 1..MaxTiles /\ ci \in Nat /\ LEN \in Nat \ {0}
        /\ Wrap \in Nat \ {0} /\ Threads \in Nat \ {0} /\ put \in Nat /\ frm.end \in Nat
        /\ \A i \in Tile : frm.size[i] \in Nat /\ bs_size[i] \in Nat
    BY Types
  <1>b. /\ phase = "copy" /\ ci < Num /\ ci \in Tile /\ pass = "enc"
        /\ UNCHANGED <<tile_idx, stat, cost, bs_size, pc, tidx, thread_ret>>
        /\ UNCHANGED <<frm, cap, pass, nfrm, header, good, ret, cost_sum>>
    BY <1>a DEF Copy, CallInv, coreVars
  <1>c. \A c \in Core : pc[c] = "off"
    BY <1>b, NoneUnderWay
  <1>d. \/ /\ phase' = "copy" /\ put' = put + bs_size[ci] /\ ci' = ci + 1 /\ Room
           /\ tile_size' = [tile_size EXCEPT ![ci] = (bs_size[ci] - LEN) % Wrap]
           /\ UNCHANGED <<imgb, result>>
        \/ /\ phase' = "idle" /\ imgb' = FALSE /\ result' = "ERR"
           /\ UNCHANGED <<put, tile_size, ci>>
    BY <1>b DEF Copy, Finish
  <1>1. TypeOK'
    <2>1. tile_size' \in [Tile -> Nat]
      <3>1. (bs_size[ci] - LEN) \in Int /\ \A n \in 0..(Wrap - 1) : n \in Nat
        BY <1>a, <1>b
      <3>2. (bs_size[ci] - LEN) % Wrap \in Nat
        BY <1>a, <3>1, ModRange
      <3> QED BY <1>b, <1>d, <3>2 DEF TypeOK
    <2>2. put' \in Nat /\ ci' \in 0..(Threads + MaxTiles)
      BY <1>a, <1>b, <1>d
    <2> QED BY <1>b, <1>d, <2>1, <2>2 DEF TypeOK
  <1>2. CallInv'
    <2>1. imgb' <=> phase' # "idle"
      BY <1>b, <1>d DEF CallInv
    <2>2. phase' = "copy" => ci' <= Num
      BY <1>a, <1>b, <1>d
    <2> QED BY <1>b, <1>d, <2>1, <2>2 DEF CallInv
  <1>e. CoreInv' /\ HoldInv'
    BY <1>b, <1>c, <1>d DEF CoreInv, Started, HoldInv, Holds
  <1>3. FailInv' /\ CostInv'
    BY <1>b, <1>c, <1>d DEF FailInv, CostInv
  <1>4. CostsAreThisFrames'
    BY <1>b, <1>d, <1>1 DEF CostsAreThisFrames
  <1>5. ASSUME TileAssumption, WholeInv PROVE WholeInv'
    <2>1. CASE phase' = "idle"
      BY <1>b, <1>c, <1>d, <2>1 DEF WholeInv, SuccessIsWholeFrame, OverflowIsReported
    <2>2. CASE phase' = "copy"
      <3>1. /\ put' = put + bs_size[ci] /\ ci' = ci + 1 /\ Room
            /\ tile_size' = [tile_size EXCEPT ![ci] = (bs_size[ci] - LEN) % Wrap]
        BY <1>d, <2>2
      <3>2. (bs_size[ci] - LEN) % Wrap = tile_size[ci]
        <4>1. bs_size[ci] - LEN = tile_size[ci] /\ tile_size[ci] \in Nat /\ tile_size[ci] < Wrap
          <5>1. ci \in 0..(Num - 1) /\ tile_size[ci] \in Nat /\ frm.max[ci] \in Nat
            BY <1>a, <1>b, Types
          <5>4. frm \in Frames
            BY DEF TypeOK
          <5>2. Whole(ci)
            BY <1>b, <1>5, <5>1 DEF WholeInv
          <5>3. frm.max[ci] <= Wrap
            BY <1>5, <5>1, <5>4 DEF TileAssumption
          <5> QED BY <1>a, <1>b, <5>1, <5>2, <5>3 DEF Whole
        <4> QED BY <1>a, <4>1, ModSmall
      <3>3. \A i \in 0..(Num - 1) : stat'[i] = "ENCODED" /\ Whole(i)'
        <4>1. tile_size' = tile_size
          BY <1>b, <3>1, <3>2 DEF TypeOK
        <4> QED BY <1>b, <1>5, <4>1 DEF WholeInv, Whole
      <3>4. put' = Upto(frm.size)[ci'] /\ put' <= frm.end
        BY <1>a, <1>b, <1>5, <3>1, UptoGrows DEF WholeInv, Whole, Room
      <3>5. Upto(frm.size)' = Upto(frm.size)
        BY <1>b DEF Upto
      <3> QED BY <1>b, <1>c, <2>2, <3>3, <3>4, <3>5 DEF WholeInv, SuccessIsWholeFrame, OverflowIsReported
    <2> QED BY <1>d, <2>1, <2>2
  <1> QED BY <1>1, <1>2, <1>e, <1>3, <1>4, <1>5

\* The frame header is rewritten with the sizes of the tiles.
LEMMA RewriteStep == ASSUME EncAssumption, IInv, Rewrite PROVE IInv'
  <1>a. /\ MaxTiles \in Nat \ {0} /\ Num \in 1..MaxTiles
    BY Types
  <1>b. /\ phase = "copy" /\ ci = Num /\ header' = Rewritten /\ phase' = "idle" /\ imgb' = FALSE
        /\ UNCHANGED <<tile_idx, stat, cost, bs_size, tile_size, pc, tidx, thread_ret>>
        /\ UNCHANGED <<frm, cap, pass, nfrm, put, good, ci, ret, cost_sum>> /\ result' = "OK"
    BY DEF Rewrite, Finish, tileVars, coreVars
  <1>c. \A c \in Core : pc[c] = "off"
    BY <1>b, NoneUnderWay
  <1>1. TypeOK'
    <2>1. header' \in [Tile -> Nat]
      BY <1>b DEF Rewritten, TypeOK
    <2> QED BY <1>b, <2>1 DEF TypeOK
  <1>2. CallInv' /\ CoreInv' /\ HoldInv'
    BY <1>b, <1>c DEF CallInv, CoreInv, Started, HoldInv, Holds
  <1>3. FailInv' /\ CostInv'
    BY <1>b, <1>c DEF FailInv, CostInv
  <1>4. CostsAreThisFrames'
    BY <1>b, <1>1 DEF CostsAreThisFrames
  <1>5. ASSUME WholeInv PROVE WholeInv'
    <2>1. \A i \in 0..(Num - 1) : frm.inFh => header'[i] = frm.size[i] - LEN
      BY <1>a, <1>b, <1>5 DEF Rewritten, WholeInv, Whole
    <2>2. Upto(frm.size)' = Upto(frm.size)
      BY <1>b DEF Upto
    <2>3. SuccessIsWholeFrame' /\ OverflowIsReported'
      BY <1>b, <1>5, <2>1, <2>2 DEF SuccessIsWholeFrame, OverflowIsReported, WholeInv, Whole
    <2> QED BY <1>b, <1>c, <2>3 DEF WholeInv
  <1> QED BY <1>1, <1>2, <1>3, <1>4, <1>5

\* What is true of a core that holds a tile.
LEMMA Holder ==
  ASSUME EncAssumption, IInv, NEW c \in Core, Holds(c)
  PROVE  /\ Pass /\ imgb
         /\ tidx[c] \in 0..(Num - 1) /\ tidx[c] \in Tile
         /\ stat[tidx[c]] = "ON"
         /\ \A d \in Core : Holds(d) /\ d # c => tidx[d] # tidx[c] /\ tidx[d] \in Tile
  <1>1. MaxTiles \in Nat /\ Num \in 1..MaxTiles /\ tile_idx \in Nat /\ \A d \in Core : tidx[d] \in Nat
    BY Types
  <1>2. Pass
    BY DEF Holds, CoreInv, Started
  <1>3. tile_idx <= Num /\ \A d \in Core : Holds(d) => tidx[d] < tile_idx
    BY <1>2 DEF HoldInv
  <1>4. \A d \in Core : Holds(d) => tidx[d] \in 0..(Num - 1) /\ tidx[d] \in Tile
    BY <1>1, <1>3
  <1>5. stat[tidx[c]] = "ON" /\ \A d \in Core : Holds(d) /\ d # c => tidx[d] # tidx[c]
    BY DEF HoldInv
  <1> QED BY <1>2, <1>4, <1>5 DEF CallInv

\* A core takes the next tile, or finds there is none.
LEMMA TakeStep == ASSUME EncAssumption, IInv, NEW c \in Core, Take(c) PROVE IInv'
  <1>a. /\ Threads \in Nat \ {0} /\ MaxTiles \in Nat \ {0} /\ Num \in 1..MaxTiles
        /\ tile_idx \in Nat /\ \A d \in Core : tidx[d] \in Nat
    BY Types
  <1>b. /\ pc[c] = "take"
        /\ UNCHANGED <<cost, bs_size, tile_size, thread_ret, header, put, result, good>>
        /\ UNCHANGED <<frm, cap, imgb, pass, nfrm, phase, ci, ret, cost_sum>>
    BY DEF Take, ownVars, outVars, endVars
  <1>c. \A d \in Core : tidx'[d] = IF d = c THEN tile_idx ELSE tidx[d]
    BY DEF Take, TypeOK
  <1>d. Pass /\ par' = par
    BY <1>b DEF CoreInv, Started, par
  <1>e. tile_idx <= Num /\ \A i \in 0..(Num - 1) : stat[i] = "NOT" <=> i >= tile_idx
    BY <1>d DEF HoldInv
  <1>1. CASE tile_idx < Num
    <2>a. /\ tile_idx \in Tile /\ tile_idx' = tile_idx + 1 /\ stat[tile_idx] = "NOT"
          /\ \A d \in Core : pc'[d] = IF d = c THEN "work" ELSE pc[d]
          /\ \A i \in Tile : stat'[i] = IF i = tile_idx THEN "ON" ELSE stat[i]
      <3>1. tile_idx \in Tile /\ stat[tile_idx] = "NOT"
        BY <1>1, <1>a, <1>e
      <3> QED BY <1>1, <3>1 DEF Take, Goto, Past, TypeOK
    <2>1. TypeOK'
      <3>1. /\ pc' = [pc EXCEPT ![c] = "work"] /\ tidx' = [tidx EXCEPT ![c] = tile_idx]
            /\ stat' = [stat EXCEPT ![tile_idx] = "ON"]
        BY <1>1 DEF Take, Goto
      <3>2. tile_idx' \in 0..MaxTiles /\ tile_idx \in 0..MaxTiles
        BY <1>1, <1>a, <2>a
      <3> QED BY <1>b, <2>a, <3>1, <3>2 DEF TypeOK
    <2>2. CallInv' /\ CoreInv'
      BY <1>b, <1>d, <2>a DEF CallInv, CoreInv, Started
    <2>3. HoldInv'
      BY <1>1, <1>a, <1>b, <1>c, <1>d, <2>a DEF HoldInv, Holds
    <2>4. FailInv'
      <3>1. \A i \in Tile : Busy(i)' <=> i = tile_idx \/ Busy(i)
        BY <1>b, <1>c, <2>a DEF Busy, Holds
      <3>2. Lost' <=> Lost
        BY <1>a, <1>b, <2>a, <3>1 DEF Lost
      <3>3. \A d \in Core : pc[d] # "done" \/ thread_ret[d] # "OK"
        BY <1>1, <1>a DEF FailInv
      <3>4. phase # "join" \/ ret # "OK"
        BY <1>1, <1>a DEF FailInv
      <3> QED BY <1>b, <2>a, <3>2, <3>3, <3>4 DEF FailInv
    <2>5. CostInv'
      BY <1>a, <1>b, <1>c, <1>d, <2>a DEF CostInv
    <2>6. CostsAreThisFrames'
      BY <1>b, <2>1 DEF CostsAreThisFrames
    <2>7. WholeInv => WholeInv'
      BY <1>a, <1>b, <1>c, <1>d, <2>a DEF WholeInv, Whole, SuccessIsWholeFrame, OverflowIsReported
    <2> QED BY <2>1, <2>2, <2>3, <2>4, <2>5, <2>6, <2>7
  <1>2. CASE tile_idx >= Num
    <2>a. /\ UNCHANGED <<tile_idx, stat>> /\ tile_idx = Num
          /\ pc' = [pc EXCEPT ![c] = "done"] /\ tidx' = [tidx EXCEPT ![c] = tile_idx]
          /\ \A d \in Core : pc'[d] = IF d = c THEN "done" ELSE pc[d]
      <3>1. tile_idx = Num /\ ~(tile_idx < Num)
        BY <1>2, <1>a, <1>e
      <3> QED BY <3>1 DEF Take, Goto, TypeOK
    <2>1. TypeOK'
      BY <1>b, <2>a DEF TypeOK
    <2>2. CallInv' /\ CoreInv'
      BY <1>b, <1>d, <2>a DEF CallInv, CoreInv, Started
    <2>3. HoldInv'
      BY <1>b, <1>c, <2>a DEF HoldInv, Holds
    <2>4. FailInv'
      <3>1. \A i \in Tile : Busy(i)' <=> Busy(i)
        BY <1>b, <1>c, <2>a DEF Busy, Holds
      <3>2. Lost' <=> Lost
        BY <1>a, <1>b, <2>a, <3>1 DEF Lost
      <3> QED BY <1>b, <2>a, <3>2 DEF FailInv
    <2>5. CostInv' /\ CostsAreThisFrames'
      BY <1>b, <1>c, <2>a, <2>1 DEF CostInv, CostsAreThisFrames
    <2>6. WholeInv => WholeInv'
      BY <1>b, <1>c, <1>d, <2>a DEF WholeInv, Whole, SuccessIsWholeFrame, OverflowIsReported
    <2> QED BY <2>1, <2>2, <2>3, <2>4, <2>5, <2>6
  <1> QED BY <1>1, <1>2, <1>a

\* A core finds the cost of its tile.
LEMMA MeasureStep == ASSUME EncAssumption, IInv, NEW c \in Core, Measure(c) PROVE IInv'
  <1> DEFINE k == tidx[c]
  <1>a. /\ pc[c] = "work" /\ pass = "cost" /\ pc' = [pc EXCEPT ![c] = "mark"]
        /\ cost' = [cost EXCEPT ![k] = frm.cost[k]]
        /\ UNCHANGED <<tile_idx, stat, bs_size, tile_size, tidx, thread_ret, header, put, result, good>>
        /\ UNCHANGED <<frm, cap, imgb, pass, nfrm, phase, ci, ret, cost_sum>>
    BY DEF Measure, Goto, ownVars, outVars, endVars
  <1>b. /\ Pass /\ k \in 0..(Num - 1) /\ k \in Tile /\ stat[k] = "ON" /\ frm.cost[k] \in Nat
        /\ \A d \in Core : Holds(d) /\ d # c => tidx[d] # k /\ tidx[d] \in Tile
    BY <1>a, Holder, Types DEF Holds
  <1>c. /\ \A d \in Core : pc'[d] = IF d = c THEN "mark" ELSE pc[d]
        /\ \A i \in Tile : cost'[i] = IF i = k THEN frm.cost[k] ELSE cost[i]
        /\ par' = par
    BY <1>a DEF TypeOK, par
  <1>d. \A d \in Core : Holds(d)' <=> Holds(d)
    BY <1>a, <1>c DEF Holds
  <1>1. TypeOK'
    BY <1>a, <1>b DEF TypeOK
  <1>2. CallInv' /\ CoreInv'
    BY <1>a, <1>c DEF CallInv, CoreInv, Started
  <1>3. HoldInv'
    BY <1>a, <1>d DEF HoldInv
  <1>4. FailInv'
    <2>1. Lost' <=> Lost
      BY <1>a, <1>d DEF Lost, Busy
    <2> QED BY <1>a, <1>c, <2>1 DEF FailInv
  <1>5. CostInv'
    <2>1. \A d \in Core : pc'[d] = "mark" => cost'[tidx[d]] = frm.cost[tidx[d]]
      BY <1>a, <1>b, <1>c DEF CostInv, Holds
    <2>2. \A i \in 0..(Num - 1) : i \in Tile
      BY Types
    <2>3. \A i \in 0..(Num - 1) : stat[i] = "ENCODED" => cost'[i] = frm.cost[i]
      BY <1>a, <1>b, <1>c, <2>2 DEF CostInv
    <2> QED BY <1>a, <1>b, <2>1, <2>3 DEF CostInv
  <1>6. CostsAreThisFrames'
    BY <1>a, <1>1 DEF CostsAreThisFrames
  <1>7. WholeInv => WholeInv'
    BY <1>a, <1>b, <1>c DEF WholeInv, Whole, SuccessIsWholeFrame, OverflowIsReported
  <1> QED BY <1>1, <1>2, <1>3, <1>4, <1>5, <1>6, <1>7

\* What enc_tile takes for the bytes of a tile tells whether it fitted.
LEMMA Remains ==
  ASSUME EncAssumption, TypeOK, TileAssumption, NEW i \in 0..(Num - 1)
  PROVE  Remained(i) <= frm.max[i] => /\ Remained(i) = frm.size[i] /\ frm.size[i] < frm.max[i]
                                      /\ (Remained(i) - LEN) % Wrap = frm.size[i] - LEN
  <1>1. /\ i \in Tile /\ LEN \in Nat \ {0} /\ Wrap \in Nat \ {0}
        /\ frm.size[i] \in Nat /\ frm.max[i] \in Nat /\ frm.at[i] \in Nat
    BY Types
  <1>2. LEN <= frm.size[i] /\ frm.max[i] <= Wrap /\ (0 - frm.at[i]) % Wrap > frm.max[i]
    BY DEF TypeOK, TileAssumption
  <1>3. CASE frm.size[i] < frm.max[i]
    <2>1. Sunk(i) - frm.at[i] = frm.size[i] /\ frm.size[i] < Wrap
      BY <1>1, <1>2, <1>3 DEF Sunk
    <2>2. Remained(i) = frm.size[i]
      BY <1>1, <2>1, ModSmall DEF Remained
    <2>3. frm.size[i] - LEN \in Nat /\ frm.size[i] - LEN < Wrap
      BY <1>1, <1>2, <2>1
    <2>4. (frm.size[i] - LEN) % Wrap = frm.size[i] - LEN
      BY <1>1, <2>3, ModSmall
    <2> QED BY <1>3, <2>2, <2>4
  <1>4. CASE ~(frm.size[i] < frm.max[i])
    <2>1. Remained(i) = (0 - frm.at[i]) % Wrap
      BY <1>4 DEF Remained, Sunk
    <2>2. (0 - frm.at[i]) \in Int /\ \A n \in 0..(Wrap - 1) : n \in Int
      BY <1>1
    <2>3. Remained(i) \in Int
      BY <1>1, <2>1, <2>2, ModRange
    <2> QED BY <1>1, <1>2, <2>1, <2>3
  <1> QED BY <1>3, <1>4

\* A core encodes its tile, or finds it too long for its buffer.
LEMMA EncodeStep == ASSUME EncAssumption, IInv, NEW c \in Core, Encode(c) PROVE IInv'
  <1> DEFINE k == tidx[c]
             long == Remained(k) > frm.max[k]
             next == IF long THEN "fail" ELSE "mark"
  <1>a. /\ pc[c] = "work" /\ pass = "enc" /\ pc' = [pc EXCEPT ![c] = next]
        /\ bs_size' = IF long THEN bs_size ELSE [bs_size EXCEPT ![k] = Remained(k)]
        /\ tile_size' = [tile_size EXCEPT ![k] = IF long THEN 0 ELSE (Remained(k) - LEN) % Wrap]
        /\ UNCHANGED <<tile_idx, stat, cost, tidx, thread_ret, header, put, result, good>>
        /\ UNCHANGED <<frm, cap, imgb, pass, nfrm, phase, ci, ret, cost_sum>>
    BY DEF Encode, Goto, ownVars, outVars, endVars
  <1>b. /\ Pass /\ k \in 0..(Num - 1) /\ k \in Tile /\ stat[k] = "ON"
        /\ \A d \in Core : Holds(d) /\ d # c => tidx[d] # k /\ tidx[d] \in Tile
    BY <1>a, Holder DEF Holds
  <1>c. /\ \A d \in Core : pc'[d] = IF d = c THEN next ELSE pc[d]
        /\ \A i \in Tile : i # k => bs_size'[i] = bs_size[i] /\ tile_size'[i] = tile_size[i]
        /\ par' = par
    BY <1>a DEF TypeOK, par
  <1>d. \A d \in Core : Holds(d)' <=> Holds(d)
    BY <1>a, <1>c DEF Holds
  <1>e. Remained(k) \in Nat /\ (Remained(k) - LEN) % Wrap \in Nat
    <2>1. Wrap \in Nat \ {0} /\ LEN \in Nat /\ Sunk(k) - frm.at[k] \in Int /\ \A n \in 0..(Wrap - 1) : n \in Nat
      BY <1>b, Types DEF Sunk
    <2>2. Remained(k) \in Nat
      BY <2>1, ModRange DEF Remained
    <2>3. Remained(k) - LEN \in Int
      BY <2>1, <2>2
    <2> QED BY <2>1, <2>2, <2>3, ModRange
  <1>1. TypeOK'
    BY <1>a, <1>b, <1>e DEF TypeOK
  <1>2. CallInv' /\ CoreInv'
    BY <1>a, <1>c DEF CallInv, CoreInv, Started
  <1>3. HoldInv'
    BY <1>a, <1>d DEF HoldInv
  <1>4. FailInv'
    <2>1. Lost' <=> Lost
      BY <1>a, <1>d DEF Lost, Busy
    <2> QED BY <1>a, <1>c, <2>1 DEF FailInv
  <1>5. CostInv'
    BY <1>a, <1>b, <1>c DEF CostInv
  <1>6. CostsAreThisFrames'
    BY <1>a, <1>1 DEF CostsAreThisFrames
  <1>7. ASSUME TileAssumption, WholeInv PROVE WholeInv'
    <2>1. ~long => Whole(k)'
      <3> SUFFICES ASSUME ~long PROVE Whole(k)'
        OBVIOUS
      <3>1. Remained(k) <= frm.max[k]
        BY <1>b, <1>e, Types
      <3>2. /\ Remained(k) = frm.size[k] /\ frm.size[k] < frm.max[k]
            /\ (Remained(k) - LEN) % Wrap = frm.size[k] - LEN
        BY <1>b, <1>7, <3>1, Remains
      <3>3. bs_size'[k] = Remained(k) /\ tile_size'[k] = (Remained(k) - LEN) % Wrap
        BY <1>a, <1>b DEF TypeOK
      <3> QED BY <1>a, <3>2, <3>3 DEF Whole
    <2>2. \A i \in Tile : i # k /\ Whole(i) => Whole(i)'
      BY <1>a, <1>c DEF Whole
    <2>3. \A d \in Core : pc'[d] = "mark" => Whole(tidx[d])'
      BY <1>a, <1>b, <1>c, <1>7, <2>1, <2>2 DEF WholeInv, Holds
    <2>4. \A i \in 0..(Num - 1) : i \in Tile
      BY Types
    <2>5. \A i \in 0..(Num - 1) : stat[i] = "ENCODED" => Whole(i)'
      BY <1>a, <1>b, <1>7, <2>2, <2>4 DEF WholeInv
    <2> QED BY <1>a, <1>b, <2>3, <2>5 DEF WholeInv, SuccessIsWholeFrame, OverflowIsReported
  <1> QED BY <1>1, <1>2, <1>3, <1>4, <1>5, <1>6, <1>7

\* A core is done with its tile.
LEMMA MarkStep == ASSUME EncAssumption, IInv, NEW c \in Core, Mark(c) PROVE IInv'
  <1> DEFINE k == tidx[c]
  <1>a. /\ pc[c] = "mark" /\ pc' = [pc EXCEPT ![c] = "take"]
        /\ stat' = [stat EXCEPT ![k] = "ENCODED"]
        /\ UNCHANGED <<tile_idx, cost, bs_size, tile_size, tidx, thread_ret, header, put, result, good>>
        /\ UNCHANGED <<frm, cap, imgb, pass, nfrm, phase, ci, ret, cost_sum>>
    BY DEF Mark, Goto, ownVars, outVars, endVars
  <1>b. /\ Pass /\ k \in 0..(Num - 1) /\ k \in Tile /\ stat[k] = "ON"
        /\ \A d \in Core : Holds(d) /\ d # c => tidx[d] # k /\ tidx[d] \in Tile
        /\ \A i \in 0..(Num - 1) : i \in Tile
    BY <1>a, Holder, Types DEF Holds
  <1>c. /\ \A d \in Core : pc'[d] = IF d = c THEN "take" ELSE pc[d]
        /\ \A i \in Tile : stat'[i] = IF i = k THEN "ENCODED" ELSE stat[i]
        /\ par' = par
    BY <1>a DEF TypeOK, par
  <1>d. \A d \in Core : Holds(d)' <=> d # c /\ Holds(d)
    BY <1>a, <1>c DEF Holds
  <1>e. \A i \in Tile : Busy(i)' <=> i # k /\ Busy(i)
    BY <1>a, <1>b, <1>d DEF Busy, Holds
  <1>1. TypeOK'
    BY <1>a, <1>b DEF TypeOK
  <1>2. CallInv' /\ CoreInv'
    BY <1>a, <1>c DEF CallInv, CoreInv, Started
  <1>3. HoldInv'
    BY <1>a, <1>b, <1>c, <1>d DEF HoldInv
  <1>4. FailInv'
    <2>1. Busy(k)
      BY <1>a DEF Busy, Holds
    <2>2. Lost' <=> Lost
      BY <1>a, <1>b, <1>c, <1>e, <2>1 DEF Lost
    <2> QED BY <1>a, <1>c, <2>2 DEF FailInv
  <1>5. CostInv'
    BY <1>a, <1>b, <1>c DEF CostInv
  <1>6. CostsAreThisFrames'
    BY <1>a, <1>1 DEF CostsAreThisFrames
  <1>7. ASSUME WholeInv PROVE WholeInv'
    <2>1. \A i \in Tile : Whole(i)' <=> Whole(i)
      BY <1>a DEF Whole
    <2>2. \A d \in Core : pass = "enc" /\ pc'[d] = "mark" => Whole(tidx[d])'
      BY <1>a, <1>b, <1>c, <1>7, <2>1 DEF WholeInv, Holds
    <2>3. pass = "enc" => \A i \in 0..(Num - 1) : stat'[i] = "ENCODED" => Whole(i)'
      BY <1>a, <1>b, <1>c, <1>7, <2>1 DEF WholeInv
    <2> QED BY <1>a, <1>b, <2>2, <2>3 DEF WholeInv, SuccessIsWholeFrame, OverflowIsReported
  <1> QED BY <1>1, <1>2, <1>3, <1>4, <1>5, <1>6, <1>7

\* A core leaves for good.
LEMMA FailStep == ASSUME EncAssumption, IInv, NEW c \in Core, Fail(c) PROVE IInv'
  <1> DEFINE k == tidx[c]
  <1>a. /\ pc[c] = "fail" /\ pc' = [pc EXCEPT ![c] = "done"]
        /\ thread_ret' = [thread_ret EXCEPT ![c] = "ERR"]
        /\ UNCHANGED <<tile_idx, stat, cost, bs_size, tile_size, tidx, header, put, result, good>>
        /\ UNCHANGED <<frm, cap, imgb, pass, nfrm, phase, ci, ret, cost_sum>>
    BY DEF Fail, Goto, tileVars, ownVars, outVars, endVars
  <1>b. /\ Pass /\ k \in 0..(Num - 1) /\ k \in Tile /\ stat[k] = "ON" /\ pass = "enc"
        /\ \A d \in Core : Holds(d) /\ d # c => tidx[d] # k /\ tidx[d] \in Tile
    BY <1>a, Holder DEF Holds, FailInv
  <1>c. /\ \A d \in Core : pc'[d] = IF d = c THEN "done" ELSE pc[d]
        /\ \A d \in Core : thread_ret'[d] = IF d = c THEN "ERR" ELSE thread_ret[d]
        /\ par' = par
    BY <1>a DEF TypeOK, par
  <1>d. \A d \in Core : Holds(d)' <=> d # c /\ Holds(d)
    BY <1>a, <1>c DEF Holds
  <1>1. TypeOK'
    BY <1>a DEF TypeOK
  <1>2. CallInv' /\ CoreInv'
    BY <1>a, <1>c DEF CallInv, CoreInv, Started
  <1>3. HoldInv'
    BY <1>a, <1>d DEF HoldInv
  <1>4. FailInv'
    <2>1. ~Busy(k)'
      BY <1>a, <1>b, <1>d DEF Busy
    <2>2. Lost' /\ pc'[c] # "off" /\ thread_ret'[c] = "ERR"
      BY <1>a, <1>b, <1>c, <2>1 DEF Lost
    <2> QED BY <1>a, <1>b, <1>c, <2>2 DEF FailInv
  <1>5. CostInv'
    BY <1>a, <1>c DEF CostInv
  <1>6. CostsAreThisFrames'
    BY <1>a, <1>1 DEF CostsAreThisFrames
  <1>7. WholeInv => WholeInv'
    BY <1>a, <1>b, <1>c DEF WholeInv, Whole, SuccessIsWholeFrame, OverflowIsReported
  <1> QED BY <1>1, <1>2, <1>3, <1>4, <1>5, <1>6, <1>7

\* Nothing changes.
LEMMA StutterStep == ASSUME IInv, UNCHANGED vars PROVE IInv'
  <1> USE DEF vars, tileVars, coreVars, ownVars, outVars, endVars
  <1>1. TypeOK' /\ CallInv' /\ CoreInv'
    BY DEF TypeOK, CallInv, CoreInv, Started, par
  <1>2. HoldInv' /\ CostInv'
    BY DEF HoldInv, Holds, CostInv
  <1>3. FailInv'
    BY DEF FailInv, Lost, Busy, Holds
  <1>4. CostsAreThisFrames'
    BY <1>1 DEF CostsAreThisFrames
  <1>5. WholeInv => WholeInv'
    BY DEF WholeInv, Whole, SuccessIsWholeFrame, OverflowIsReported
  <1> QED BY <1>1, <1>2, <1>3, <1>4, <1>5

\* Every step keeps the invariant.
LEMMA NextPreserves == ASSUME EncAssumption, IInv, [Next]_vars PROVE IInv'
  <1>1. ASSUME NEW f \in Frames, Prepare(f) \/ PrepareFails(f) PROVE IInv'
    BY <1>1, PrepareStep, PrepareFailsStep
  <1>2. CASE Caller
    BY <1>2, HeaderStep, HeaderFailsStep, RunStep, OwnShareStep, OwnShareEndsStep, JoinStep,
       CostsKnownStep, StartEncodingStep, EncodedStep, CopyStep, RewriteStep DEF Caller
  <1>3. ASSUME NEW c \in Core, Worker(c) PROVE IInv'
    BY <1>3, TakeStep, MeasureStep, EncodeStep, MarkStep, FailStep DEF Worker
  <1>4. CASE UNCHANGED vars \/ Ended
    BY <1>4, StutterStep DEF Ended
  <1> QED BY <1>1, <1>2, <1>3, <1>4 DEF Next

\* A context that has encoded nothing satisfies the invariant.
LEMMA InitEstablishes == ASSUME EncAssumption, Init PROVE IInv
  <1>1. TypeOK
    <2>1. 0 \in 0..MaxTiles /\ 0 \in 0..(Threads + MaxTiles) /\ 0 \in 0..MaxFrames /\ 0 \in Nat
      BY DEF EncAssumption
    <2>2. /\ stat \in [Tile -> {"NOT", "ON", "ENCODED"}] /\ header \in [Tile -> Nat]
          /\ cost \in [Tile -> Nat] /\ bs_size \in [Tile -> Nat] /\ tile_size \in [Tile -> Nat]
          /\ tidx \in [Core -> 0..MaxTiles] /\ thread_ret \in [Core -> {"OK", "ERR"}]
          /\ pc \in [Core -> {"off", "take", "work", "mark", "fail", "done"}]
      BY <2>1 DEF Init, Zero
    <2> QED BY <2>1, <2>2 DEF Init, TypeOK
  <1>2. CallInv /\ CoreInv /\ HoldInv /\ FailInv /\ CostInv
    BY DEF Init, CallInv, CoreInv, Started, HoldInv, Holds, FailInv, CostInv
  <1>3. CostsAreThisFrames /\ WholeInv
    BY <1>1 DEF Init, CostsAreThisFrames, WholeInv, SuccessIsWholeFrame, OverflowIsReported
  <1> QED BY <1>1, <1>2, <1>3

\* Every reachable state satisfies the inductive invariant.
THEOREM Invariance == ASSUME EncAssumption PROVE Spec => []IInv
  <1>1. Init => IInv
    BY InitEstablishes
  <1>2. IInv /\ [Next]_vars => IInv'
    BY NextPreserves
  <1> QED BY <1>1, <1>2, PTL DEF Spec

\* Rate control is given the costs of exactly the tiles of the picture: every
\* one measured for it, none stale and none counted twice, whichever threads
\* measured them (enc_frame, get_tile_cost_thread).
THEOREM CostsAreOfThisFrame == ASSUME EncAssumption PROVE Spec => []CostsAreThisFrames
  <1>1. IInv => CostsAreThisFrames
    OBVIOUS
  <1> QED BY <1>1, Invariance, PTL

\* When no buffer ends just below a multiple of 2^32, oapve_encode returns
\* OAPV_OK only with every tile whole in the output, in order, and listed in
\* the header with its size (enc_tile, enc_frame).
THEOREM SuccessIsTheWholeFrame ==
  ASSUME EncAssumption, TileAssumption PROVE Spec => []SuccessIsWholeFrame
  <1>1. IInv => SuccessIsWholeFrame
    BY DEF WholeInv
  <1> QED BY <1>1, Invariance, PTL

\* Then an encode whose tiles do not fit their buffers is reported as failed,
\* as the interface documents (OAPV_ERR_OUT_OF_BS_BUF).
THEOREM OverflowsAreReported ==
  ASSUME EncAssumption, TileAssumption PROVE Spec => []OverflowIsReported
  <1>1. IInv => OverflowIsReported
    BY DEF WholeInv
  <1> QED BY <1>1, Invariance, PTL

----------------------------------------------------------------------------
(* EncTiles implements TileWork                                            *)

Work == INSTANCE TileWork WITH open  <- phase \in {"fork", "main", "join"},
                               want  <- 0..(frm.n - 1),
                               tiles <- [i \in Tile |-> TileState(i)],
                               good  <- good

ImplementsTileWork == Work!Spec

\* What TileWork sees of a tile, which is never shared: its status when nobody
\* holds it.
Status(i) == IF Busy(i) THEN "busy" ELSE IF stat[i] = "ENCODED" THEN "done"
             ELSE IF stat[i] = "ON" THEN "err" ELSE "todo"

\* The mapping's TileState is that.
LEMMA StateOf == IInv => \A i \in Tile : TileState(i) = Status(i)
  <1> SUFFICES ASSUME IInv, NEW i \in Tile PROVE TileState(i) = Status(i)
    OBVIOUS
  <1>1. ~Shared(i)
    BY DEF HoldInv, Shared
  <1>2. stat[i] \in {"NOT", "ON", "ENCODED"}
    BY DEF TypeOK
  <1>3. Busy(i) => stat[i] = "ON"
    BY DEF HoldInv, Busy
  <1> QED BY <1>1, <1>2, <1>3 DEF TileState, Status

\* The same after a step.
LEMMA StateAfter == (IInv => \A i \in Tile : TileState(i) = Status(i))'
  BY StateOf, PTL

\* The steps that neither take a tile nor put one down, nor begin or end a pass.
LEMMA WorkKept ==
  ASSUME IInv, IInv', UNCHANGED <<stat, frm, good>>, Pass' <=> Pass,
         \A c \in Core : (Holds(c)' <=> Holds(c)) /\ (Holds(c) => tidx'[c] = tidx[c])
  PROVE  UNCHANGED Work!vars
  <1>1. \A i \in Tile : Busy(i)' <=> Busy(i)
    BY DEF Busy
  <1>2. \A i \in Tile : TileState(i)' = TileState(i)
    BY <1>1, StateOf, StateAfter DEF Status
  <1>3. (phase \in {"fork", "main", "join"})' = (phase \in {"fork", "main", "join"})
    OBVIOUS
  <1> QED BY <1>2, <1>3 DEF Work!vars

\* One tile changes hands and no other does.
LEMMA WorkMoves ==
  ASSUME EncAssumption, IInv, IInv', NEW k \in 0..(Num - 1), NEW from, NEW to,
         UNCHANGED <<frm, good, phase>>, Pass,
         Status(k) = from, Status(k)' = to,
         \A i \in Tile : i # k => Status(i)' = Status(i)
  PROVE  Work!Move(k, from, to)
  <1>1. /\ k \in Tile /\ TileState(k) = from /\ TileState(k)' = to
        /\ \A i \in Tile : i # k => TileState(i)' = TileState(i)
    BY Types, StateOf, StateAfter
  <1>2. [i \in Tile |-> TileState(i)]' = [[i \in Tile |-> TileState(i)] EXCEPT ![k] = to]
    BY <1>1
  <1> QED BY <1>1, <1>2 DEF Work!Move

\* A pass begins with all its tiles to do.
LEMMA WorkBegins ==
  ASSUME EncAssumption, IInv, IInv', ~Pass, phase' = "fork", UNCHANGED <<frm, good, pc>>,
         \A i \in 0..(Num - 1) : stat'[i] = "NOT",
         \A i \in Tile : i >= Num => stat'[i] = stat[i]
  PROVE  Work!Next
  <1>1. MaxTiles \in Nat /\ Num \in 1..MaxTiles
    BY Types
  <1>2. \A i \in Tile : ~Busy(i) /\ ~Busy(i)'
    BY NoneUnderWay DEF Busy, Holds
  <1>3. \A i \in Tile : TileState(i)' = IF i \in 0..(frm.n - 1) THEN "todo" ELSE TileState(i)
    BY <1>1, <1>2, StateOf, StateAfter DEF Status
  <1>4. 0..(frm.n - 1) \in SUBSET Tile /\ 0..(frm.n - 1) # {}
    BY <1>1
  <1>5. Work!Begin(0..(frm.n - 1))
    BY <1>3, <1>4 DEF Work!Begin
  <1> QED BY <1>4, <1>5 DEF Work!Next

\* A pass ends when nobody holds a tile, well when all tiles are done.
LEMMA WorkEnds ==
  ASSUME EncAssumption, IInv, IInv', Joined, ~Pass', good' = (ret = "OK"),
         UNCHANGED <<stat, frm, pc>>
  PROVE  Work!Next
  <1>1. /\ phase = "join" /\ \A i \in Tile : ~Busy(i)
        /\ \A c \in Core : pc[c] = "off"
        /\ ret = "OK" => \A i \in 0..(Num - 1) : stat[i] = "ENCODED"
        /\ ret = "ERR" => Lost
        /\ ret \in {"OK", "ERR"}
    BY PassEnds DEF Joined
  <1>2. \A i \in Tile : ~Busy(i)'
    BY <1>1 DEF Busy, Holds
  <1>3. \A i \in Tile : TileState(i)' = TileState(i) /\ TileState(i) = Status(i) /\ TileState(i) # "busy"
    BY <1>1, <1>2, StateOf, StateAfter DEF Status
  <1>4. \A i \in 0..(Num - 1) : i \in Tile
    BY Types
  <1>5. ret = "OK" => \A i \in 0..(Num - 1) : TileState(i) = "done"
    BY <1>1, <1>3, <1>4 DEF Status
  <1>6. ret = "ERR" => \E i \in 0..(Num - 1) : TileState(i) = "err"
    BY <1>1, <1>3, <1>4 DEF Status, Lost
  <1>7. Work!Quiet
    BY <1>3 DEF Work!Quiet
  <1>8. Work!AllDone <=> ret = "OK"
    BY <1>1, <1>4, <1>5, <1>6 DEF Work!AllDone
  <1>9. Work!SomeFailed <=> ret = "ERR"
    BY <1>1, <1>4, <1>5, <1>6 DEF Work!SomeFailed
  <1>10. good' = Work!AllDone
    BY <1>8 DEF Work!AllDone
  <1>11. Work!End
    BY <1>1, <1>3, <1>7, <1>8, <1>9, <1>10 DEF Work!End
  <1> QED BY <1>11 DEF Work!Next

\* Nothing is encoded yet.
LEMMA WorkInit == ASSUME EncAssumption, Init PROVE Work!Init
  <1>1. IInv
    BY InitEstablishes
  <1>2. \A i \in Tile : TileState(i) = "todo"
    BY <1>1, StateOf DEF Init, Status, Busy, Holds
  <1>3. 0..(frm.n - 1) \in SUBSET Tile
    BY <1>1, Types
  <1>4. (phase \in {"fork", "main", "join"}) = FALSE /\ good \in BOOLEAN
    <2>1. phase = "idle" /\ good = FALSE
      BY DEF Init
    <2>2. phase \notin {"fork", "main", "join"}
      BY <2>1
    <2>3. (phase \in {"fork", "main", "join"}) = FALSE
      BY <2>2
    <2>4. good \in BOOLEAN
      BY <2>1
    <2> QED BY <2>3, <2>4
  <1>5. [i \in Tile |-> TileState(i)] \in [Tile -> {"todo", "done", "err"}]
    BY <1>2
  <1> QED BY <1>3, <1>4, <1>5 DEF Work!Init

\* Every step is a step of TileWork or a stutter.
LEMMA WorkStep == ASSUME EncAssumption, IInv, IInv', [Next]_vars PROVE [Work!Next]_(Work!vars)
  <1> DEFINE Goal == [Work!Next]_(Work!vars)
  <1>1. ASSUME NEW f \in Frames, Prepare(f) PROVE Goal
    <2>1. /\ phase = "idle" /\ phase' = "header" /\ UNCHANGED <<good, pc>>
          /\ f.n \in 1..MaxTiles /\ frm' = f /\ MaxTiles \in Nat
      BY <1>1, Types DEF Prepare, endVars, coreVars
    <2>2. \A i \in Tile : ~Busy(i)'
      BY <2>1, NoneUnderWay DEF Busy, Holds
    <2>3. \A i \in Tile : TileState(i)' \in {"todo", "done", "err"}
      BY <2>2, StateAfter DEF Status
    <2>4. 0..(f.n - 1) \in SUBSET Tile
      BY <2>1
    <2>5. Work!Arrange
      BY <2>1, <2>3, <2>4 DEF Work!Arrange
    <2> QED BY <2>5 DEF Work!Next
  <1>2. CASE Header
    <2>1. /\ phase = "header" /\ phase' = "fork" /\ UNCHANGED <<frm, good, pc>>
          /\ \A i \in Tile : i >= Num => stat'[i] = stat[i]
      BY <1>2, Types DEF Header, Fork, Reset, coreVars, endVars
    <2>2. \A i \in 0..(Num - 1) : stat'[i] = "NOT"
      BY <1>2, <2>1, Types DEF Header, HoldInv, Reset
    <2> QED BY <2>1, <2>2, WorkBegins
  <1>3. CASE StartEncoding
    <2>1. /\ phase = "costed" /\ phase' = "fork" /\ UNCHANGED <<frm, good, pc>>
          /\ \A i \in Tile : i >= Num => stat'[i] = stat[i]
          /\ \A i \in 0..(Num - 1) : stat'[i] = "NOT"
      BY <1>3, Types DEF StartEncoding, Fork, Reset, coreVars, endVars
    <2> QED BY <2>1, WorkBegins
  <1>4. CASE CostsKnown \/ Encoded
    <2>1. Joined /\ good' = (ret = "OK") /\ UNCHANGED <<stat, frm, pc>> /\ phase' \in {"costed", "copy", "idle"}
      BY <1>4 DEF CostsKnown, Encoded, Finish, tileVars, coreVars, ownVars
    <2> QED BY <2>1, WorkEnds
  <1>5. CASE Run \/ OwnShare \/ OwnShareEnds \/ Join
    <2>1. UNCHANGED <<stat, frm, good, tidx>> /\ Pass /\ Pass'
      BY <1>5 DEF Run, OwnShare, OwnShareEnds, Join, tileVars, ownVars, endVars
    <2>2. ci \in Core /\ pc[ci] \in {"off", "done"}
      BY <1>5, Types DEF Run, OwnShare, OwnShareEnds, Join, CallInv, CoreInv, Started
    <2>3. pc' = [pc EXCEPT ![ci] = "take"] \/ pc' = [pc EXCEPT ![ci] = "off"]
      BY <1>5 DEF Run, OwnShare, OwnShareEnds, Join, Starts
    <2>4. \A c \in Core : Holds(c)' <=> Holds(c)
      BY <2>2, <2>3 DEF Holds, TypeOK
    <2> QED BY <2>1, <2>4, WorkKept
  <1>6. CASE HeaderFails \/ Copy \/ Rewrite \/ UNCHANGED vars \/ Ended \/ \E f \in Frames : PrepareFails(f)
    <2>1. UNCHANGED <<stat, frm, good, pc, tidx>> /\ (Pass' <=> Pass)
      BY <1>6 DEF HeaderFails, Copy, Rewrite, Ended, PrepareFails, Finish,
         vars, tileVars, coreVars, ownVars, endVars
    <2> QED BY <2>1, WorkKept DEF Holds
  <1>7. ASSUME NEW c \in Core, Take(c), tile_idx < Num PROVE Goal
    <2>1. /\ pc[c] = "take" /\ UNCHANGED <<frm, good, phase>> /\ Pass
      BY <1>7 DEF Take, ownVars, endVars, CoreInv, Started
    <2>2. PICK k \in 0..(Num - 1) : k = tile_idx /\ k \in Tile
      BY <1>7, Types
    <2>3. /\ \A d \in Core : pc'[d] = IF d = c THEN "work" ELSE pc[d]
          /\ \A d \in Core : tidx'[d] = IF d = c THEN k ELSE tidx[d]
          /\ \A i \in Tile : stat'[i] = IF i = k THEN "ON" ELSE stat[i]
      BY <1>7, <2>2 DEF Take, Goto, TypeOK
    <2>4. \A d \in Core : tidx[d] \in Nat
      BY Types
    <2>5. \A i \in Tile : (Busy(i)' <=> i = k \/ Busy(i)) /\ (Busy(i) => i < k)
      BY <2>1, <2>2, <2>3, <2>4 DEF Busy, Holds, HoldInv
    <2>6. ~Busy(k) /\ stat[k] = "NOT"
      BY <2>1, <2>2, <2>5, Types DEF HoldInv
    <2>7. Status(k) = "todo" /\ Status(k)' = "busy"
      BY <2>2, <2>5, <2>6 DEF Status
    <2>8. \A i \in Tile : i # k => Status(i)' = Status(i)
      BY <2>3, <2>5 DEF Status
    <2>9. Work!Move(k, "todo", "busy")
      BY <2>1, <2>7, <2>8, WorkMoves
    <2> QED BY <2>2, <2>9 DEF Work!Next, Work!Take
  <1>8. ASSUME NEW c \in Core, Take(c), tile_idx >= Num PROVE Goal
    <2>1. /\ pc[c] = "take" /\ UNCHANGED <<stat, frm, good, phase>>
          /\ pc' = [pc EXCEPT ![c] = "done"] /\ tidx' = [tidx EXCEPT ![c] = tile_idx]
      BY <1>8, Types DEF Take, Goto, ownVars, endVars
    <2>2. \A d \in Core : (Holds(d)' <=> Holds(d)) /\ (Holds(d) => tidx'[d] = tidx[d])
      BY <2>1 DEF Holds, TypeOK
    <2> QED BY <2>1, <2>2, WorkKept
  <1>9. ASSUME NEW c \in Core, Measure(c) \/ Encode(c) PROVE Goal
    <2>1. UNCHANGED <<stat, frm, good, phase, tidx>> /\ Holds(c)
      BY <1>9 DEF Measure, Encode, ownVars, endVars, Holds
    <2>2. PICK p \in {"mark", "fail"} : pc' = [pc EXCEPT ![c] = p]
      BY <1>9 DEF Measure, Encode, Goto
    <2>3. \A d \in Core : Holds(d)' <=> Holds(d)
      BY <2>1, <2>2 DEF Holds, TypeOK
    <2> QED BY <2>1, <2>3, WorkKept
  <1>10. ASSUME NEW c \in Core, Mark(c) \/ Fail(c) PROVE Goal
    <2>1. UNCHANGED <<frm, good, phase, tidx>> /\ Holds(c)
      BY <1>10 DEF Mark, Fail, ownVars, endVars, Holds
    <2>2. Pass /\ \A d \in Core : Holds(d) /\ d # c => tidx[d] # tidx[c]
      BY <2>1, Holder
    <2>3. PICK k \in 0..(Num - 1) : k = tidx[c] /\ k \in Tile /\ stat[k] = "ON"
      BY <2>1, Holder
    <2>4. PICK p \in {"take", "done"} : pc' = [pc EXCEPT ![c] = p]
      BY <1>10 DEF Mark, Fail, Goto
    <2>5. \A d \in Core : Holds(d)' <=> d # c /\ Holds(d)
      BY <2>4 DEF Holds, TypeOK
    <2>6. Busy(k) /\ ~Busy(k)' /\ \A i \in Tile : i # k => (Busy(i)' <=> Busy(i))
      BY <2>1, <2>2, <2>3, <2>5 DEF Busy
    <2>7. /\ \A i \in Tile : i # k => stat'[i] = stat[i]
          /\ stat'[k] \in {"ON", "ENCODED"}
      BY <1>10, <2>3 DEF Mark, Fail, tileVars, TypeOK
    <2>8. PICK end \in {"done", "err"} : Status(k) = "busy" /\ Status(k)' = end
      BY <2>6, <2>7 DEF Status
    <2>9. \A i \in Tile : i # k => Status(i)' = Status(i)
      BY <2>6, <2>7 DEF Status
    <2>10. Work!Move(k, "busy", end)
      BY <2>1, <2>2, <2>8, <2>9, WorkMoves
    <2> QED BY <2>3, <2>10 DEF Work!Next, Work!PutDown
  <1>11. \A c \in Core : Take(c) => Goal
    BY <1>7, <1>8, Types
  <1> QED BY <1>1, <1>2, <1>3, <1>4, <1>5, <1>6, <1>9, <1>10, <1>11 DEF Next, Caller, Worker

\* However many threads share the tiles of a picture, every tile is worked on
\* by one thread at a time in each pass, and the pass ends when none is worked
\* on, well exactly when all are done: EncTiles implements TileWork.
THEOREM EncodeImplementsTileWork == ASSUME EncAssumption PROVE Spec => ImplementsTileWork
  <1>1. Init => Work!Init
    BY WorkInit
  <1>2. IInv /\ IInv' /\ [Next]_vars => [Work!Next]_(Work!vars)
    BY WorkStep
  <1> QED BY <1>1, <1>2, Invariance, PTL DEF Spec, ImplementsTileWork, Work!Spec
=============================================================================
