------------------------- MODULE DecTilesSelProofs -------------------------
(***************************************************************************)
(* Proofs about DecTilesSel, for any number of threads, tiles and frames,  *)
(* whatever tiles are asked for and whatever sizes the bitstream and the   *)
(* frame header spell.                                                     *)
(***************************************************************************)
EXTENDS DecTilesSel, Induction, FiniteSetTheorems

----------------------------------------------------------------------------
(* The inductive invariant                                                 *)

\* The cores decode the chosen tiles.
Pass == phase \in {"fork", "main", "join"}

\* From the moment the request is accepted it is about tiles of this frame,
\* and these are the tiles of the frame with a destination.
CallInv ==
  /\ phase # "idle" => want # {} /\ want = dst \cap 0..(Num - 1)
  /\ phase = "locate" => tile_idx = 0 /\ \A i \in want : fate[i] = "todo"
  /\ Pass => ci < par
  /\ phase = "main" => ci = par - 1

\* A core is under way from the step that starts it to the one that joins it.
Started(c) == \/ phase = "fork" /\ c < ci
              \/ phase = "main" /\ c <= ci
              \/ phase = "join" /\ ci <= c /\ c < par - 1

CoreInv == \A c \in Core : pc[c] # "off" <=> Started(c)

\* The tiles asked for are taken one after the other, and one taken has one
\* owner until it is put down.
HoldInv ==
  /\ Pass => tile_idx <= Num
  /\ \A c \in Core : Holds(c) => /\ tidx[c] < tile_idx /\ tidx[c] \in want
                                 /\ fate[tidx[c]] = "todo"
  /\ \A c, d \in Core : Holds(c) /\ Holds(d) /\ tidx[c] = tidx[d] => c = d
  /\ Pass => \A i \in want : i >= tile_idx => fate[i] = "todo"

OwnerInv == Pass => \A i \in want : i < tile_idx /\ fate[i] = "todo" => Busy(i)

\* Every tile of the frame has been located inside it, from the sizes of the
\* header or else from those the tiles have.
Placed(i) ==
  /\ bs_beg[i] # NULL
  /\ bs_beg[i] + LEN + tile_size[i] <= frm.end
  /\ ~frm.inFh => tile_size[i] = frm.size[bs_beg[i]]
  /\ bs_beg[i] = IF i = 0 THEN frm.beg ELSE bs_beg[i - 1] + LEN + tile_size[i - 1]

\* A tile that is decoded agrees with the place and the size it was given.
PlaceInv ==
  /\ Pass => \A i \in 0..(Num - 1) : Placed(i)
  /\ \A c \in Core : pc[c] = "dec" => Agrees(tidx[c])
  /\ Pass => \A i \in want : fate[i] = "done" => Agrees(i)

\* A tile that failed, and who knows of it: a core that has not been joined,
\* or the return value.
Broken == \E i \in want : fate[i] = "err"

FailInv ==
  /\ \A c \in Core : pc[c] # "off" /\ thread_ret[c] = "ERR" => Broken
  /\ phase = "join" /\ ret = "ERR" => Broken
  /\ Pass /\ Broken => \/ \E c \in Core : pc[c] # "off" /\ thread_ret[c] = "ERR"
                       \/ phase = "join" /\ ret = "ERR"
  /\ \A c \in Core : pc[c] = "done" => tile_idx = Num
  /\ phase = "join" => tile_idx = Num

IInv == /\ TypeOK /\ CallInv /\ CoreInv /\ HoldInv /\ OwnerInv /\ PlaceInv
        /\ FailInv /\ SuccessIsRequest

USE DEF IInv, NULL, Core, Tile, Num, Pass

\* What the types say of the constants, the frame, the tiles and the cores.
LEMMA Types ==
  ASSUME SelAssumption, TypeOK
  PROVE  /\ Threads \in Nat \ {0} /\ MaxTiles \in Nat \ {0} /\ LEN \in Nat \ {0} /\ MaxCalls \in Nat
         /\ Num \in 1..MaxTiles /\ frm.beg \in Nat /\ frm.end \in Nat /\ frm.inFh \in BOOLEAN
         /\ \A i \in Tile : frm.fh[i] \in Nat
         /\ \A p \in 0..frm.end : frm.size[p] \in Nat
         /\ \A f \in Frames : f.n \in 1..MaxTiles /\ f.beg \in Nat
         /\ tile_idx \in Nat /\ ci \in Nat
         /\ \A i \in Tile : tile_size[i] \in Nat /\ bs_beg[i] \in Nat \cup {NULL}
         /\ \A i \in Tile : fate[i] \in {"todo", "done", "err"}
         /\ \A c \in Core : tidx[c] \in Nat /\ thread_ret[c] \in {"OK", "ERR"}
         /\ ret \in {"OK", "ERR"} /\ want \subseteq Tile
  BY DEF SelAssumption, TypeOK

\* A call never uses more cores than there are threads, and one at least.
LEMMA ParIs ==
  ASSUME SelAssumption, TypeOK, CallInv, phase # "idle"
  PROVE  par \in 1..Threads
  <1>1. IsFiniteSet(0..(Num - 1))
    <2>1. 0 \in Int /\ Num - 1 \in Int
      BY Types
    <2> QED BY <2>1, FS_Interval
  <1>2. want \subseteq 0..(Num - 1) /\ want # {}
    BY DEF CallInv
  <1>3. IsFiniteSet(want)
    BY <1>1, <1>2, FS_Subset
  <1>4. Cardinality(want) \in Nat /\ Cardinality(want) # 0
    BY <1>2, <1>3, FS_EmptySet, FS_CardinalityType
  <1> QED BY <1>4, Types DEF par

----------------------------------------------------------------------------
(* Where the tiles begin                                                   *)

\* The place of tile k by the place p of the tile before.
After(k, p) == IF p = NULL \/ k > Num THEN NULL
               ELSE IF Fits(k - 1, p) THEN p + LEN + SizeAt(k - 1, p) ELSE NULL

\* A place is a position or NULL.
LEMMA AfterIs ==
  ASSUME SelAssumption, TypeOK, NEW k \in 1..MaxTiles, NEW p \in Nat \cup {NULL}
  PROVE  After(k, p) \in Nat \cup {NULL}
  <1> SUFFICES ASSUME p # NULL, k <= Num, Fits(k - 1, p)
               PROVE  p + LEN + SizeAt(k - 1, p) \in Nat
    BY Types DEF After
  <1>1. p \in Nat /\ p + LEN <= frm.end /\ LEN \in Nat /\ frm.end \in Nat
    BY Types DEF Fits, Readable
  <1>2. p \in 0..frm.end /\ k - 1 \in Tile
    BY <1>1, Types
  <1>3. SizeAt(k - 1, p) \in Nat
    BY <1>2, Types DEF SizeAt
  <1> QED BY <1>1, <1>3

\* Place is the function its recursive definition describes.
LEMMA PlaceIs ==
  ASSUME SelAssumption, TypeOK
  PROVE  Place = [i \in 0..MaxTiles |-> IF i = 0 THEN frm.beg ELSE After(i, Place[i - 1])]
  <1> DEFINE S == Nat \cup {NULL}
             Is(f) == f = [i \in 0..MaxTiles |-> IF i = 0 THEN frm.beg ELSE After(i, f[i - 1])]
  <1>a. MaxTiles \in Nat /\ frm.beg \in S
    BY Types
  <1>1. PICK rule \in Rule(MaxTiles, S) : \A k \in 1..MaxTiles, p \in S : rule[k][p] = After(k, p)
    <2>1. [k \in 1..MaxTiles |-> [p \in S |-> After(k, p)]] \in Rule(MaxTiles, S)
      BY AfterIs DEF Rule
    <2> QED BY <2>1
  <1>2. PICK f : Follows(f, MaxTiles, S, frm.beg, rule)
    <2> HIDE DEF S
    <2> QED BY <1>a, Recursion
  <1>3. \A k \in 1..MaxTiles : k - 1 \in 0..MaxTiles /\ f[k] = After(k, f[k - 1])
    <2>1. \A k \in 1..MaxTiles : k - 1 \in 0..MaxTiles
      BY <1>a
    <2>2. \A k \in 1..MaxTiles : f[k - 1] \in S
      BY <1>2, <2>1 DEF Follows
    <2> QED BY <1>1, <1>2, <2>1, <2>2 DEF Follows
  <1>4. Is(f)
    <2>1. f = [i \in 0..MaxTiles |-> f[i]] /\ f[0] = frm.beg
      BY <1>2 DEF Follows
    <2>2. \A i \in 0..MaxTiles : i # 0 => i \in 1..MaxTiles
      BY <1>a
    <2>3. \A i \in 0..MaxTiles : f[i] = IF i = 0 THEN frm.beg ELSE After(i, f[i - 1])
      BY <1>3, <2>1, <2>2
    <2> QED BY <2>1, <2>3
  <1>5. Place = CHOOSE f_1 : Is(f_1)
    BY DEF Place, After
  <1> HIDE DEF Is
  <1>6. Is(Place)
    BY <1>4, <1>5
  <1> QED BY <1>6 DEF Is

\* The first place is where the tiles of the frame begin, and each other one
\* is given by the place before it.
LEMMA PlaceGoesOn ==
  ASSUME SelAssumption, TypeOK
  PROVE  /\ Place[0] = frm.beg
         /\ \A k \in Tile : Place[k + 1] = After(k + 1, Place[k])
         /\ \A k \in 0..MaxTiles : Place[k] \in Nat \cup {NULL}
  <1> DEFINE T == {k \in 0..MaxTiles : Place[k] \in Nat \cup {NULL}}
  <1>a. MaxTiles \in Nat /\ frm.beg \in Nat
    BY Types
  <1>1. Place[0] = frm.beg /\ \A k \in Tile : Place[k + 1] = After(k + 1, Place[k])
    <2>1. \A i \in 0..MaxTiles : Place[i] = IF i = 0 THEN frm.beg ELSE After(i, Place[i - 1])
      BY PlaceIs
    <2>2. \A k \in Tile : k + 1 \in 0..MaxTiles /\ k + 1 # 0 /\ (k + 1) - 1 = k
      BY <1>a
    <2>3. 0 \in 0..MaxTiles
      BY <1>a
    <2> QED BY <2>1, <2>2, <2>3
  <1>2. 0 \in T
    BY <1>a, <1>1
  <1>3. ASSUME NEW k \in T, k \in 0..(MaxTiles - 1) PROVE k + 1 \in T
    <2>1. k + 1 \in 1..MaxTiles /\ k + 1 \in 0..MaxTiles /\ k \in Tile
      BY <1>a, <1>3
    <2>2. After(k + 1, Place[k]) \in Nat \cup {NULL}
      BY <2>1, AfterIs
    <2> QED BY <1>1, <2>1, <2>2
  <1> HIDE DEF T
  <1>4. \A k \in 0..MaxTiles : k \in T
    BY <1>a, <1>2, <1>3, UpTo
  <1> QED BY <1>1, <1>4 DEF T

\* When the frame's end has a place, every tile has passed and has one.
LEMMA AllPlaced ==
  ASSUME SelAssumption, TypeOK, Place[Num] # NULL
  PROVE  \A k \in 0..(Num - 1) :
           /\ Place[k] \in Nat /\ Place[k + 1] \in Nat /\ Fits(k, Place[k])
           /\ Place[k + 1] = Place[k] + LEN + SizeAt(k, Place[k])
  <1> DEFINE T == {j \in 0..Num : Place[Num - j] # NULL}
  <1>a. Num \in Nat /\ Num <= MaxTiles /\ MaxTiles \in Nat
    BY Types
  <1>1. 0 \in T
    BY <1>a
  <1>2. ASSUME NEW j \in T, j \in 0..(Num - 1) PROVE j + 1 \in T
    <2>1. Num - (j + 1) \in Tile /\ (Num - (j + 1)) + 1 = Num - j /\ j + 1 \in 0..Num
      BY <1>a, <1>2
    <2>2. Place[Num - j] = After(Num - j, Place[Num - (j + 1)])
      BY <2>1, PlaceGoesOn
    <2> QED BY <2>1, <2>2 DEF After
  <1> HIDE DEF T
  <1>3. \A j \in 0..Num : j \in T
    BY <1>a, <1>1, <1>2, UpTo
  <1>4. \A k \in 0..Num : Place[k] # NULL /\ Place[k] \in Nat
    <2>1. \A k \in 0..Num : Num - k \in 0..Num /\ Num - (Num - k) = k /\ k \in 0..MaxTiles
      BY <1>a
    <2>2. \A k \in 0..Num : Place[k] # NULL
      BY <1>3, <2>1 DEF T
    <2> QED BY <2>1, <2>2, PlaceGoesOn
  <1> SUFFICES ASSUME NEW k \in 0..(Num - 1)
               PROVE  /\ Fits(k, Place[k]) /\ Place[k] \in Nat /\ Place[k + 1] \in Nat
                      /\ Place[k + 1] = Place[k] + LEN + SizeAt(k, Place[k])
    OBVIOUS
  <1>5. k \in Tile /\ k \in 0..Num /\ k + 1 \in 0..Num /\ (k + 1) - 1 = k
    BY <1>a
  <1>6. Place[k + 1] = After(k + 1, Place[k]) /\ Place[k + 1] # NULL
    BY <1>4, <1>5, PlaceGoesOn
  <1> QED BY <1>4, <1>5, <1>6 DEF After

\* The next tile is one with a destination, and there is none before it, or
\* it is the number of tiles.
LEMMA NextWantedIs ==
  ASSUME SelAssumption, TypeOK, tile_idx <= Num
  PROVE  /\ NextWanted \in tile_idx..Num
         /\ NextWanted < Num => NextWanted \in dst
         /\ \A j \in tile_idx..(NextWanted - 1) : j \notin dst
  <1> DEFINE T == {k \in tile_idx..Num : k < Num => k \in dst}
             Is(k) == (k < Num => k \in dst) /\ \A j \in tile_idx..(k - 1) : j \notin dst
  <1>a. tile_idx \in Nat /\ Num \in Nat
    BY Types
  <1>1. Num \in T /\ T \subseteq Nat
    BY <1>a
  <1>2. PICK k \in T : \A m \in T : k <= m
    <2> HIDE DEF T
    <2> QED BY <1>1, LeastElement
  <1>3. k \in tile_idx..Num /\ Is(k)
    <2>1. \A j \in tile_idx..(k - 1) : j \in dst => j \in T /\ ~(k <= j)
      BY <1>a, <1>2
    <2> QED BY <1>2, <2>1
  <1>4. NextWanted = CHOOSE k_1 \in tile_idx..Num : Is(k_1)
    BY DEF NextWanted
  <1> HIDE DEF Is
  <1>5. NextWanted \in tile_idx..Num /\ Is(NextWanted)
    BY <1>3, <1>4
  <1> QED BY <1>5 DEF Is

----------------------------------------------------------------------------
(* Every step keeps the invariant                                          *)

\* Outside the pass no core is under way.
LEMMA NoneUnderWay == ASSUME CoreInv, ~Pass PROVE \A c \in Core : pc[c] = "off" /\ ~Holds(c)
  BY DEF CoreInv, Started, Holds

\* dec_frm_setup, in every call.
LEMMA SetupStep ==
  ASSUME SelAssumption, IInv, NEW f \in Frames, Setup(f)
  PROVE  /\ phase = "idle" /\ frm' = f /\ tile_idx' = 0 /\ f.n \in 1..MaxTiles /\ MaxTiles \in Nat
         /\ bs_beg' \in [Tile -> Nat \cup {NULL}] /\ ncall' \in 0..MaxCalls
         /\ \A c \in Core : pc[c] = "off"
  <1>a. MaxTiles \in Nat /\ f.n \in 1..MaxTiles /\ f.beg \in Nat /\ MaxCalls \in Nat
    BY Types
  <1>1. bs_beg' \in [Tile -> Nat \cup {NULL}]
    BY <1>a DEF Setup, TypeOK
  <1>2. ncall' \in 0..MaxCalls
    BY <1>a DEF Setup, TypeOK
  <1>3. phase = "idle" /\ frm' = f /\ tile_idx' = 0
    BY DEF Setup
  <1> QED BY <1>a, <1>1, <1>2, <1>3, NoneUnderWay

\* dec_tiles_prepare accepts the request.
LEMMA PrepareStep ==
  ASSUME SelAssumption, IInv, NEW f \in Frames, NEW S \in SUBSET Tile, Prepare(f, S) PROVE IInv'
  <1>a. /\ phase = "idle" /\ frm' = f /\ tile_idx' = 0 /\ f.n \in 1..MaxTiles /\ MaxTiles \in Nat
        /\ bs_beg' \in [Tile -> Nat \cup {NULL}] /\ ncall' \in 0..MaxCalls
        /\ \A c \in Core : pc[c] = "off"
    BY SetupStep DEF Prepare
  <1>b. /\ phase' = "locate" /\ want' = S /\ S # {} /\ S \subseteq 0..(f.n - 1)
        /\ dst' = (dst \ 0..(f.n - 1)) \cup S
        /\ fate' = [i \in Tile |-> IF i \in S THEN "todo" ELSE fate[i]]
        /\ UNCHANGED <<tile_size, tile_end, pc, tidx, thread_ret, ci, ret, result>>
    BY DEF Prepare, DstOutside, coreVars
  <1>1. TypeOK'
    <2>1. fate' \in [Tile -> {"todo", "done", "err"}]
      BY <1>b DEF TypeOK
    <2>2. dst' \in SUBSET Tile
      BY <1>b DEF TypeOK
    <2>3. tile_idx' \in 0..MaxTiles
      BY <1>a
    <2> QED BY <1>a, <1>b, <2>1, <2>2, <2>3 DEF TypeOK
  <1>2. CallInv' /\ CoreInv'
    BY <1>a, <1>b DEF CallInv, CoreInv, Started
  <1>3. HoldInv' /\ OwnerInv' /\ PlaceInv'
    BY <1>a, <1>b DEF HoldInv, Holds, OwnerInv, PlaceInv
  <1>4. FailInv' /\ SuccessIsRequest'
    BY <1>a, <1>b DEF FailInv, SuccessIsRequest
  <1> QED BY <1>1, <1>2, <1>3, <1>4

\* dec_tiles_prepare turns the request down.
LEMMA PrepareFailsStep ==
  ASSUME SelAssumption, IInv, NEW f \in Frames, NEW S \in SUBSET Tile, PrepareFails(f, S) PROVE IInv'
  <1>a. /\ phase = "idle" /\ frm' = f /\ tile_idx' = 0 /\ f.n \in 1..MaxTiles /\ MaxTiles \in Nat
        /\ bs_beg' \in [Tile -> Nat \cup {NULL}] /\ ncall' \in 0..MaxCalls
        /\ \A c \in Core : pc[c] = "off"
    BY SetupStep DEF PrepareFails
  <1>b. /\ result' = "ERR" /\ dst' = (dst \ 0..(f.n - 1)) \cup S
        /\ UNCHANGED <<want, fate, tile_size, tile_end, pc, tidx, thread_ret, phase, ci, ret>>
    BY DEF PrepareFails, DstOutside, coreVars
  <1>1. TypeOK'
    <2>1. dst' \in SUBSET Tile
      BY <1>b DEF TypeOK
    <2>2. tile_idx' \in 0..MaxTiles
      BY <1>a
    <2> QED BY <1>a, <1>b, <2>1, <2>2 DEF TypeOK
  <1>2. CallInv' /\ CoreInv'
    BY <1>a, <1>b DEF CallInv, CoreInv, Started
  <1>3. HoldInv' /\ OwnerInv' /\ PlaceInv'
    BY <1>a, <1>b DEF HoldInv, Holds, OwnerInv, PlaceInv
  <1>4. FailInv' /\ SuccessIsRequest'
    BY <1>a, <1>b DEF FailInv, SuccessIsRequest
  <1> QED BY <1>1, <1>2, <1>3, <1>4

\* dec_derive_tile_offsets, whether or not all tiles pass.
LEMMA LocateStep == ASSUME SelAssumption, IInv, Locate PROVE IInv'
  <1>a. /\ MaxTiles \in Nat /\ Num \in 1..MaxTiles /\ LEN \in Nat \ {0} /\ frm.end \in Nat
        /\ Threads \in Nat \ {0} /\ \A i \in Tile : tile_size[i] \in Nat
    BY Types
  <1>b. /\ phase = "locate" /\ UNCHANGED <<tile_idx, dst, fate, pc, tidx, thread_ret>>
        /\ UNCHANGED <<frm, want, ret, ncall>>
        /\ bs_beg' = [i \in Tile |-> IF i < Num /\ Place[i + 1] # NULL THEN Place[i] ELSE bs_beg[i]]
        /\ tile_size' = [i \in Tile |-> IF i < Num /\ Place[i] # NULL /\ Readable(i, Place[i])
                                        THEN SizeAt(i, Place[i]) ELSE tile_size[i]]
        /\ Place[Num] # NULL => /\ tile_end' = Place[Num] /\ phase' = "fork" /\ ci' = 0
                                /\ UNCHANGED result
        /\ Place[Num] = NULL => phase' = "idle" /\ result' = "ERR" /\ UNCHANGED <<tile_end, ci>>
    BY DEF Locate, coreVars
  <1>c. \A c \in Core : pc[c] = "off"
    BY <1>b, NoneUnderWay
  <1>d. \A i \in Tile : /\ Place[i] \in Nat \cup {NULL}
                        /\ Place[i] # NULL /\ Readable(i, Place[i]) => SizeAt(i, Place[i]) \in Nat
    <2>1. \A i \in Tile : Place[i] \in Nat \cup {NULL}
      BY <1>a, PlaceGoesOn
    <2>2. ASSUME NEW i \in Tile, Place[i] # NULL, Readable(i, Place[i]) PROVE SizeAt(i, Place[i]) \in Nat
      <3>1. Place[i] \in 0..frm.end
        BY <1>a, <2>1, <2>2 DEF Readable
      <3> QED BY <3>1, Types DEF SizeAt
    <2> QED BY <2>1, <2>2
  <1>1. TypeOK'
    <2>1. bs_beg' \in [Tile -> Nat \cup {NULL}]
      BY <1>b, <1>d DEF TypeOK
    <2>2. tile_size' \in [Tile -> Nat]
      BY <1>a, <1>b, <1>d
    <2>3. tile_end' \in Nat \cup {NULL} /\ ci' \in 0..Threads
      <3>1. Place[Num] \in Nat \cup {NULL} /\ 0 \in 0..Threads
        BY <1>a, PlaceGoesOn
      <3> QED BY <1>b, <3>1 DEF TypeOK
    <2>4. phase' \in {"idle", "fork"} /\ result' \in {"OK", "ERR"}
      BY <1>b DEF TypeOK
    <2> QED BY <1>b, <2>1, <2>2, <2>3, <2>4 DEF TypeOK
  <1>2. CallInv'
    <2>1. phase' = "fork" => par' \in 1..Threads
      <3>1. par' = par
        BY <1>b DEF par
      <3> QED BY <1>b, <3>1, ParIs
    <2> QED BY <1>a, <1>b, <2>1 DEF CallInv
  <1>3. CoreInv'
    BY <1>a, <1>b, <1>c DEF CoreInv, Started
  <1>4. HoldInv' /\ OwnerInv'
    BY <1>a, <1>b, <1>c DEF HoldInv, Holds, OwnerInv, CallInv
  <1>5. PlaceInv'
    <2> SUFFICES ASSUME Place[Num] # NULL PROVE \A i \in 0..(Num - 1) : Placed(i)'
      BY <1>b, <1>c DEF PlaceInv, CallInv
    <2>1. \A i \in 0..(Num - 1) : /\ i \in Tile /\ i < Num /\ Place[i] \in Nat /\ Place[i] # NULL
                                  /\ Place[i + 1] # NULL /\ Fits(i, Place[i]) /\ Readable(i, Place[i])
      BY <1>a, AllPlaced DEF Fits
    <2>2. \A i \in 0..(Num - 1) : bs_beg'[i] = Place[i] /\ tile_size'[i] = SizeAt(i, Place[i])
                                  /\ tile_size'[i] \in Nat
      <3>1. \A i \in 0..(Num - 1) : SizeAt(i, Place[i]) \in Nat
        BY <1>d, <2>1
      <3>2. \A i \in 0..(Num - 1) : bs_beg'[i] = Place[i]
        BY <1>b, <2>1
      <3>3. \A i \in 0..(Num - 1) : tile_size'[i] = SizeAt(i, Place[i])
        BY <1>b, <2>1
      <3> QED BY <3>1, <3>2, <3>3
    <2>3. Place[0] = frm.beg
      BY PlaceGoesOn
    <2>4. ASSUME NEW i \in 0..(Num - 1) PROVE Placed(i)'
      <3>1. /\ bs_beg'[i] \in Nat /\ bs_beg'[i] + LEN + tile_size'[i] <= frm.end
        BY <1>a, <2>1, <2>2 DEF Fits
      <3>2. ~frm.inFh => tile_size'[i] = frm.size[bs_beg'[i]]
        BY <2>2 DEF SizeAt
      <3>3. CASE i = 0
        <4>1. 0 \in 0..(Num - 1)
          BY <1>a
        <4>2. bs_beg'[0] = frm.beg
          BY <2>2, <2>3, <4>1
        <4>3. bs_beg'[i] # NULL
          BY <3>1
        <4> QED BY <1>b, <3>1, <3>2, <3>3, <4>2, <4>3 DEF Placed
      <3>4. CASE i # 0
        <4>1. i - 1 \in 0..(Num - 1) /\ (i - 1) + 1 = i
          BY <1>a, <3>4
        <4>2. Place[i] = Place[i - 1] + LEN + SizeAt(i - 1, Place[i - 1])
          BY <4>1, AllPlaced
        <4>3. bs_beg'[i] = bs_beg'[i - 1] + LEN + tile_size'[i - 1]
          BY <2>2, <4>1, <4>2
        <4> QED BY <1>b, <3>1, <3>2, <3>4, <4>3 DEF Placed
      <3> QED BY <3>3, <3>4
    <2> QED BY <2>4
  <1>6. FailInv' /\ SuccessIsRequest'
    <2>1. ~Broken'
      BY <1>b DEF Broken, CallInv
    <2> QED BY <1>b, <1>c, <2>1 DEF FailInv, SuccessIsRequest
  <1> QED BY <1>1, <1>2, <1>3, <1>4, <1>5, <1>6

\* A pool thread is given its core.
LEMMA RunStep == ASSUME SelAssumption, IInv, Run PROVE IInv'
  <1>a. /\ Threads \in Nat \ {0} /\ ci \in Nat
        /\ phase = "fork" => par \in 1..Threads
    BY Types, ParIs
  <1>b. /\ phase = "fork" /\ ci < par - 1 /\ ci' = ci + 1 /\ ci \in Core
        /\ pc' = [pc EXCEPT ![ci] = "take"]
        /\ thread_ret' = [thread_ret EXCEPT ![ci] = "OK"]
        /\ UNCHANGED <<tile_idx, dst, bs_beg, tile_size, tile_end, fate, tidx>>
        /\ UNCHANGED <<frm, want, phase, ret, result, ncall>>
    BY <1>a DEF Run, Starts, tileVars
  <1>c. /\ \A c \in Core : pc'[c] = IF c = ci THEN "take" ELSE pc[c]
        /\ \A c \in Core : thread_ret'[c] = IF c = ci THEN "OK" ELSE thread_ret[c]
        /\ pc[ci] = "off" /\ par' = par
    BY <1>a, <1>b DEF TypeOK, CoreInv, Started, par
  <1>1. TypeOK'
    BY <1>a, <1>b DEF TypeOK
  <1>2. CallInv' /\ CoreInv'
    BY <1>a, <1>b, <1>c DEF CallInv, CoreInv, Started
  <1>3. HoldInv'
    BY <1>b, <1>c DEF HoldInv, Holds
  <1>4. OwnerInv'
    BY <1>b, <1>c DEF OwnerInv, Busy, Holds
  <1>5. PlaceInv'
    BY <1>b, <1>c DEF PlaceInv, Placed, Agrees
  <1>6. FailInv'
    BY <1>b, <1>c DEF FailInv, Broken
  <1>7. SuccessIsRequest'
    BY <1>b DEF SuccessIsRequest
  <1> QED BY <1>1, <1>2, <1>3, <1>4, <1>5, <1>6, <1>7

\* The calling thread starts on its own core.
LEMMA OwnShareStep == ASSUME SelAssumption, IInv, OwnShare PROVE IInv'
  <1>a. /\ Threads \in Nat \ {0} /\ ci \in Nat
        /\ phase = "fork" => par \in 1..Threads
    BY Types, ParIs
  <1>b. /\ phase = "fork" /\ phase' = "main" /\ ci = par - 1 /\ ci \in Core
        /\ pc' = [pc EXCEPT ![ci] = "take"]
        /\ thread_ret' = [thread_ret EXCEPT ![ci] = "OK"]
        /\ UNCHANGED <<tile_idx, dst, bs_beg, tile_size, tile_end, fate, tidx>>
        /\ UNCHANGED <<frm, want, ci, ret, result, ncall>>
    BY <1>a DEF OwnShare, Starts, tileVars
  <1>c. /\ \A c \in Core : pc'[c] = IF c = ci THEN "take" ELSE pc[c]
        /\ \A c \in Core : thread_ret'[c] = IF c = ci THEN "OK" ELSE thread_ret[c]
        /\ pc[ci] = "off" /\ par' = par
    BY <1>a, <1>b DEF TypeOK, CoreInv, Started, par
  <1>1. TypeOK'
    BY <1>b DEF TypeOK
  <1>2. CallInv' /\ CoreInv'
    BY <1>a, <1>b, <1>c DEF CallInv, CoreInv, Started
  <1>3. HoldInv'
    BY <1>b, <1>c DEF HoldInv, Holds
  <1>4. OwnerInv'
    BY <1>b, <1>c DEF OwnerInv, Busy, Holds
  <1>5. PlaceInv'
    BY <1>b, <1>c DEF PlaceInv, Placed, Agrees
  <1>6. FailInv'
    BY <1>b, <1>c DEF FailInv, Broken
  <1>7. SuccessIsRequest'
    BY <1>b DEF SuccessIsRequest
  <1> QED BY <1>1, <1>2, <1>3, <1>4, <1>5, <1>6, <1>7

\* The calling thread has done its own share.
LEMMA OwnShareEndsStep == ASSUME SelAssumption, IInv, OwnShareEnds PROVE IInv'
  <1>a. /\ Threads \in Nat \ {0} /\ ci \in Nat
        /\ phase = "main" => par \in 1..Threads
    BY Types, ParIs
  <1>b. /\ phase = "main" /\ phase' = "join" /\ ci' = 0 /\ ci = par - 1 /\ ci \in Core
        /\ pc[ci] = "done" /\ pc' = [pc EXCEPT ![ci] = "off"]
        /\ ret' = thread_ret[ci] /\ ret' \in {"OK", "ERR"}
        /\ UNCHANGED <<tile_idx, dst, bs_beg, tile_size, tile_end, fate, tidx, thread_ret>>
        /\ UNCHANGED <<frm, want, result, ncall>>
    BY <1>a, Types DEF OwnShareEnds, tileVars, CallInv
  <1>c. par' = par /\ \A c \in Core : pc'[c] = IF c = ci THEN "off" ELSE pc[c]
    BY <1>b DEF TypeOK, par
  <1>1. TypeOK'
    BY <1>a, <1>b DEF TypeOK
  <1>2. CallInv' /\ CoreInv'
    BY <1>a, <1>b, <1>c DEF CallInv, CoreInv, Started
  <1>3. HoldInv'
    BY <1>b, <1>c DEF HoldInv, Holds
  <1>4. OwnerInv'
    BY <1>b, <1>c DEF OwnerInv, Busy, Holds
  <1>5. PlaceInv'
    BY <1>b, <1>c DEF PlaceInv, Placed, Agrees
  <1>6. FailInv'
    BY <1>b, <1>c DEF FailInv, Broken
  <1>7. SuccessIsRequest'
    BY <1>b DEF SuccessIsRequest
  <1> QED BY <1>1, <1>2, <1>3, <1>4, <1>5, <1>6, <1>7

\* A pool thread is joined.
LEMMA JoinStep == ASSUME SelAssumption, IInv, Join PROVE IInv'
  <1>a. /\ Threads \in Nat \ {0} /\ ci \in Nat
        /\ phase = "join" => par \in 1..Threads
    BY Types, ParIs
  <1>b. /\ phase = "join" /\ ci' = ci + 1 /\ ci < par - 1 /\ ci \in Core
        /\ pc[ci] = "done" /\ pc' = [pc EXCEPT ![ci] = "off"]
        /\ ret' = IF thread_ret[ci] = "ERR" THEN "ERR" ELSE ret
        /\ UNCHANGED <<tile_idx, dst, bs_beg, tile_size, tile_end, fate, tidx, thread_ret>>
        /\ UNCHANGED <<frm, want, phase, result, ncall>>
    BY <1>a, Types DEF Join, Fold, tileVars
  <1>c. par' = par /\ \A c \in Core : pc'[c] = IF c = ci THEN "off" ELSE pc[c]
    BY <1>b DEF TypeOK, par
  <1>1. TypeOK'
    <2>1. ret' \in {"OK", "ERR"} /\ ci' \in 0..Threads
      BY <1>a, <1>b DEF TypeOK
    <2> QED BY <1>b, <2>1 DEF TypeOK
  <1>2. CallInv' /\ CoreInv'
    BY <1>a, <1>b, <1>c DEF CallInv, CoreInv, Started
  <1>3. HoldInv'
    BY <1>b, <1>c DEF HoldInv, Holds
  <1>4. OwnerInv'
    BY <1>b, <1>c DEF OwnerInv, Busy, Holds
  <1>5. PlaceInv'
    BY <1>b, <1>c DEF PlaceInv, Placed, Agrees
  <1>6. FailInv'
    BY <1>b, <1>c, Types DEF FailInv, Broken
  <1>7. SuccessIsRequest'
    BY <1>b DEF SuccessIsRequest
  <1> QED BY <1>1, <1>2, <1>3, <1>4, <1>5, <1>6, <1>7

\* The last pool thread has been joined: nobody holds a tile, every tile asked
\* for has been decoded or has failed, and the return value tells which.
LEMMA PassEnds ==
  ASSUME SelAssumption, IInv, Return
  PROVE  /\ phase = "join" /\ \A c \in Core : pc[c] = "off" /\ ~Holds(c)
         /\ \A i \in Tile : ~Busy(i)
         /\ \A i \in want : fate[i] \in {"done", "err"}
         /\ ret = "ERR" <=> Broken
         /\ ret \in {"OK", "ERR"} /\ result' = ret
  <1>1. phase = "join" /\ ci = par - 1 /\ result' = ret
    BY DEF Return
  <1>2. \A c \in Core : pc[c] = "off" /\ ~Holds(c)
    BY <1>1, ParIs, Types DEF CoreInv, Started, Holds
  <1>3. \A i \in Tile : ~Busy(i)
    BY <1>2 DEF Busy
  <1>4. tile_idx = Num /\ (ret = "ERR" <=> Broken)
    BY <1>1, <1>2 DEF FailInv
  <1>5. ASSUME NEW i \in want PROVE fate[i] \in {"done", "err"}
    <2>1. i \in Tile /\ i < tile_idx
      BY <1>1, <1>4, Types DEF CallInv
    <2>2. fate[i] # "todo"
      BY <1>1, <1>3, <2>1 DEF OwnerInv
    <2> QED BY <2>1, <2>2, Types
  <1> QED BY <1>1, <1>2, <1>3, <1>4, <1>5, Types

\* oapvd_decode_tiles returns.
LEMMA ReturnStep == ASSUME SelAssumption, IInv, Return PROVE IInv'
  <1>a. /\ phase = "join" /\ phase' = "idle" /\ result' = ret
        /\ UNCHANGED <<tile_idx, dst, bs_beg, tile_size, tile_end, fate, pc, tidx, thread_ret>>
        /\ UNCHANGED <<frm, want, ci, ret, ncall>>
    BY DEF Return, tileVars, coreVars
  <1>b. /\ \A c \in Core : pc[c] = "off"
        /\ \A i \in want : fate[i] \in {"done", "err"}
        /\ ret = "ERR" <=> Broken
        /\ ret \in {"OK", "ERR"}
    BY PassEnds
  <1>1. TypeOK'
    BY <1>a, <1>b DEF TypeOK
  <1>2. CallInv' /\ CoreInv' /\ HoldInv' /\ OwnerInv'
    BY <1>a, <1>b DEF CallInv, CoreInv, Started, HoldInv, Holds, OwnerInv
  <1>3. PlaceInv' /\ FailInv'
    BY <1>a, <1>b DEF PlaceInv, FailInv
  <1>4. SuccessIsRequest'
    <2> SUFFICES ASSUME ret = "OK", NEW i \in want
                 PROVE  /\ fate[i] = "done" /\ tile_size[i] = frm.size[bs_beg[i]]
                        /\ ~frm.inFh \/ want = 0..(Num - 1) =>
                             bs_beg[i] = IF i = 0 THEN frm.beg
                                         ELSE bs_beg[i - 1] + LEN + frm.size[bs_beg[i - 1]]
      BY <1>a DEF SuccessIsRequest
    <2>1. \A j \in want : fate[j] = "done" /\ Agrees(j)
      BY <1>a, <1>b DEF Broken, PlaceInv
    <2>2. \A j \in want : tile_size[j] = frm.size[bs_beg[j]]
      BY <2>1 DEF Agrees
    <2>3. i \in 0..(Num - 1) /\ Num \in Nat
      BY <1>a, Types DEF CallInv
    <2>4. Placed(i) /\ \A j \in 0..(Num - 1) : Placed(j)
      BY <1>a, <2>3 DEF PlaceInv
    <2>5. ASSUME ~frm.inFh \/ want = 0..(Num - 1), i # 0
          PROVE  bs_beg[i] = bs_beg[i - 1] + LEN + frm.size[bs_beg[i - 1]]
      <3>1. i - 1 \in 0..(Num - 1)
        BY <2>3, <2>5
      <3>2. tile_size[i - 1] = frm.size[bs_beg[i - 1]]
        BY <2>2, <2>4, <2>5, <3>1 DEF Placed
      <3>3. bs_beg[i] = bs_beg[i - 1] + LEN + tile_size[i - 1]
        BY <2>4, <2>5 DEF Placed
      <3> QED BY <3>2, <3>3
    <2>6. i = 0 => bs_beg[i] = frm.beg
      BY <2>4 DEF Placed
    <2> QED BY <2>1, <2>2, <2>5, <2>6
  <1> QED BY <1>1, <1>2, <1>3, <1>4

\* What is true of a core that holds a tile.
LEMMA Holder ==
  ASSUME SelAssumption, IInv, NEW c \in Core, Holds(c)
  PROVE  /\ Pass /\ tidx[c] \in want /\ tidx[c] \in 0..(Num - 1) /\ tidx[c] \in Tile
         /\ tidx[c] < tile_idx /\ fate[tidx[c]] = "todo"
         /\ \A d \in Core : Holds(d) /\ d # c => tidx[d] # tidx[c]
  <1>1. Pass
    BY DEF Holds, CoreInv, Started
  <1>2. want \subseteq 0..(Num - 1) /\ want \subseteq Tile
    BY <1>1, Types DEF CallInv
  <1> QED BY <1>1, <1>2 DEF HoldInv

\* A core that has not ended its work is part of the pass.
LEMMA WorkerInPass == ASSUME CoreInv, NEW c \in Core, pc[c] # "off" PROVE Pass
  BY DEF CoreInv, Started

\* A core takes the next tile that has a destination, or finds there is none.
LEMMA TakeStep == ASSUME SelAssumption, IInv, NEW c \in Core, Take(c) PROVE IInv'
  <1> DEFINE k == NextWanted
             next == IF k < Num THEN "size" ELSE "done"
  <1>a. /\ pc[c] = "take" /\ tidx' = [tidx EXCEPT ![c] = k]
        /\ tile_idx' = IF k < Num THEN k + 1 ELSE k
        /\ pc' = [pc EXCEPT ![c] = next]
        /\ UNCHANGED <<dst, bs_beg, tile_size, tile_end, fate, thread_ret>>
        /\ UNCHANGED <<frm, want, phase, ci, ret, result, ncall>>
    BY DEF Take, Goto, Past, callVars
  <1>b. Pass /\ par' = par
    BY <1>a, WorkerInPass DEF par
  <1>c. /\ MaxTiles \in Nat /\ Num \in 1..MaxTiles /\ tile_idx \in Nat /\ tile_idx <= Num
        /\ \A d \in Core : tidx[d] \in Nat
        /\ want = dst \cap 0..(Num - 1)
    BY <1>b, Types DEF HoldInv, CallInv
  <1>d. /\ k \in tile_idx..Num /\ k \in Nat /\ k <= Num /\ tile_idx <= k
        /\ k < Num => k \in want /\ k \in Tile
        /\ \A i \in want : i < k => i < tile_idx
    <2>1. /\ k \in tile_idx..Num /\ (k < Num => k \in dst)
          /\ \A j \in tile_idx..(k - 1) : j \notin dst
      BY <1>c, NextWantedIs
    <2> HIDE DEF k
    <2>2. k \in Nat /\ k <= Num /\ tile_idx <= k
      BY <1>c, <2>1
    <2>3. k < Num => k \in want /\ k \in Tile
      BY <1>c, <2>1, <2>2
    <2>4. \A i \in want : i < k => i < tile_idx
      BY <1>c, <2>1, <2>2
    <2> QED BY <2>1, <2>2, <2>3, <2>4
  <1> HIDE DEF k
  <1>e. /\ \A d \in Core : pc'[d] = IF d = c THEN next ELSE pc[d]
        /\ \A d \in Core : tidx'[d] = IF d = c THEN k ELSE tidx[d]
        /\ tile_idx' \in Nat /\ tile_idx' <= Num /\ tile_idx <= tile_idx'
        /\ k < Num => tile_idx' = k + 1
        /\ ~(k < Num) => tile_idx' = Num
    BY <1>a, <1>c, <1>d DEF TypeOK
  <1>f. \A i \in want : i < tile_idx' <=> i < tile_idx \/ (k < Num /\ i = k)
    BY <1>c, <1>d, <1>e
  <1>1. TypeOK'
    <2>1. tile_idx' \in 0..MaxTiles /\ k \in 0..MaxTiles
      BY <1>c, <1>d, <1>e
    <2>2. pc' \in [Core -> {"off", "take", "size", "dec", "fail", "done"}]
      BY <1>a DEF TypeOK
    <2> QED BY <1>a, <2>1, <2>2 DEF TypeOK
  <1>2. CallInv' /\ CoreInv'
    BY <1>a, <1>b, <1>e DEF CallInv, CoreInv, Started
  <1>3. HoldInv'
    <2>1. \A d \in Core : Holds(d)' <=> Holds(d) \/ (d = c /\ k < Num)
      BY <1>a, <1>e DEF Holds
    <2>2. ~Holds(c) /\ \A d \in Core : Holds(d) => tidx[d] < tile_idx /\ tidx[d] < k
      BY <1>a, <1>c, <1>d DEF HoldInv, Holds
    <2>3. k < Num => fate[k] = "todo"
      BY <1>b, <1>d DEF HoldInv
    <2>4. \A d \in Core : Holds(d)' => /\ tidx'[d] < tile_idx' /\ tidx'[d] \in want
                                       /\ fate[tidx'[d]] = "todo"
      BY <1>c, <1>d, <1>e, <2>1, <2>2, <2>3 DEF HoldInv
    <2>5. \A d, e \in Core : Holds(d)' /\ Holds(e)' /\ tidx'[d] = tidx'[e] => d = e
      BY <1>c, <1>d, <1>e, <2>1, <2>2 DEF HoldInv
    <2>6. \A i \in want : i >= tile_idx' => fate[i] = "todo"
      BY <1>b, <1>c, <1>e DEF HoldInv
    <2> QED BY <1>a, <1>e, <2>4, <2>5, <2>6 DEF HoldInv
  <1>4. OwnerInv'
    <2>1. \A i \in Tile : Busy(i) \/ (k < Num /\ i = k) => Busy(i)'
      BY <1>a, <1>e DEF Busy, Holds
    <2>2. want \subseteq Tile
      BY Types
    <2> QED BY <1>a, <1>b, <1>f, <2>1, <2>2 DEF OwnerInv
  <1>5. PlaceInv'
    BY <1>a, <1>e DEF PlaceInv, Placed, Agrees
  <1>6. FailInv'
    <2>1. Broken' <=> Broken
      BY <1>a DEF Broken
    <2>2. \A d \in Core : (pc'[d] # "off" <=> pc[d] # "off") /\ (pc'[d] = "done" => tile_idx' = Num)
      BY <1>a, <1>c, <1>d, <1>e DEF FailInv
    <2>3. phase = "join" => tile_idx' = Num
      BY <1>c, <1>e DEF FailInv
    <2> QED BY <1>a, <2>1, <2>2, <2>3 DEF FailInv
  <1>7. SuccessIsRequest'
    BY <1>a, <1>b DEF SuccessIsRequest
  <1> QED BY <1>1, <1>2, <1>3, <1>4, <1>5, <1>6, <1>7

\* A core compares the size of its tile.
LEMMA CheckSizeStep == ASSUME SelAssumption, IInv, NEW c \in Core, CheckSize(c) PROVE IInv'
  <1> DEFINE next == IF Agrees(tidx[c]) THEN "dec" ELSE "fail"
  <1>a. /\ pc[c] = "size" /\ pc' = [pc EXCEPT ![c] = next]
        /\ UNCHANGED <<tile_idx, dst, bs_beg, tile_size, tile_end, fate, tidx, thread_ret>>
        /\ UNCHANGED <<frm, want, phase, ci, ret, result, ncall>>
    BY DEF CheckSize, Goto, tileVars, callVars
  <1>b. /\ \A d \in Core : pc'[d] = IF d = c THEN next ELSE pc[d]
        /\ Pass /\ par' = par
    BY <1>a, WorkerInPass DEF TypeOK, par
  <1>c. \A d \in Core : Holds(d)' <=> Holds(d)
    BY <1>a, <1>b DEF Holds
  <1>1. TypeOK'
    BY <1>a DEF TypeOK
  <1>2. CallInv' /\ CoreInv'
    BY <1>a, <1>b DEF CallInv, CoreInv, Started
  <1>3. HoldInv'
    BY <1>a, <1>c DEF HoldInv
  <1>4. OwnerInv'
    BY <1>a, <1>c DEF OwnerInv, Busy
  <1>5. PlaceInv'
    BY <1>a, <1>b DEF PlaceInv, Placed, Agrees
  <1>6. FailInv'
    BY <1>a, <1>b DEF FailInv, Broken
  <1>7. SuccessIsRequest'
    BY <1>a, <1>b DEF SuccessIsRequest
  <1> QED BY <1>1, <1>2, <1>3, <1>4, <1>5, <1>6, <1>7

\* A tile has been decoded.
LEMMA DecodedStep == ASSUME SelAssumption, IInv, NEW c \in Core, Decoded(c) PROVE IInv'
  <1> DEFINE k == tidx[c]
  <1>a. /\ pc[c] = "dec" /\ pc' = [pc EXCEPT ![c] = "take"]
        /\ fate' = [fate EXCEPT ![k] = "done"]
        /\ UNCHANGED <<tile_idx, dst, bs_beg, tile_size, tile_end, tidx, thread_ret>>
        /\ UNCHANGED <<frm, want, phase, ci, ret, result, ncall>>
    BY DEF Decoded, Goto, tileVars, callVars
  <1>b. /\ Pass /\ k \in want /\ k \in Tile /\ k < tile_idx /\ fate[k] = "todo" /\ want \subseteq Tile
        /\ \A d \in Core : Holds(d) /\ d # c => tidx[d] # k
    BY <1>a, Holder, Types DEF Holds
  <1>c. /\ \A d \in Core : pc'[d] = IF d = c THEN "take" ELSE pc[d]
        /\ \A i \in Tile : fate'[i] = IF i = k THEN "done" ELSE fate[i]
        /\ par' = par
    BY <1>a DEF TypeOK, par
  <1>d. \A d \in Core : Holds(d)' <=> d # c /\ Holds(d)
    BY <1>a, <1>c DEF Holds
  <1>1. TypeOK'
    BY <1>a DEF TypeOK
  <1>2. CallInv' /\ CoreInv'
    BY <1>a, <1>b, <1>c DEF CallInv, CoreInv, Started
  <1>3. HoldInv'
    BY <1>a, <1>b, <1>c, <1>d, Types DEF HoldInv
  <1>4. OwnerInv'
    <2>1. \A i \in Tile : Busy(i) /\ i # k => Busy(i)'
      BY <1>a, <1>d DEF Busy
    <2> QED BY <1>a, <1>b, <1>c, <2>1 DEF OwnerInv
  <1>5. PlaceInv'
    <2>1. Agrees(k)
      BY <1>a DEF PlaceInv
    <2> QED BY <1>a, <1>b, <1>c, <2>1 DEF PlaceInv, Placed, Agrees
  <1>6. FailInv'
    <2>1. Broken' <=> Broken
      BY <1>a, <1>b, <1>c DEF Broken
    <2> QED BY <1>a, <1>c, <2>1 DEF FailInv
  <1>7. SuccessIsRequest'
    BY <1>a, <1>b DEF SuccessIsRequest
  <1> QED BY <1>1, <1>2, <1>3, <1>4, <1>5, <1>6, <1>7

\* A tile has failed, and the core goes on with the next.
LEMMA FailedStep == ASSUME SelAssumption, IInv, NEW c \in Core, Failed(c) PROVE IInv'
  <1> DEFINE k == tidx[c]
  <1>a. /\ pc[c] \in {"dec", "fail"} /\ pc' = [pc EXCEPT ![c] = "take"]
        /\ fate' = [fate EXCEPT ![k] = "err"] /\ thread_ret' = [thread_ret EXCEPT ![c] = "ERR"]
        /\ UNCHANGED <<tile_idx, dst, bs_beg, tile_size, tile_end, tidx>>
        /\ UNCHANGED <<frm, want, phase, ci, ret, result, ncall>>
    BY DEF Failed, Goto, tileVars, callVars
  <1>b. /\ Pass /\ k \in want /\ k \in Tile /\ k < tile_idx /\ fate[k] = "todo" /\ want \subseteq Tile
        /\ \A d \in Core : Holds(d) /\ d # c => tidx[d] # k
    BY <1>a, Holder, Types DEF Holds
  <1>c. /\ \A d \in Core : pc'[d] = IF d = c THEN "take" ELSE pc[d]
        /\ \A d \in Core : thread_ret'[d] = IF d = c THEN "ERR" ELSE thread_ret[d]
        /\ \A i \in Tile : fate'[i] = IF i = k THEN "err" ELSE fate[i]
        /\ par' = par
    BY <1>a DEF TypeOK, par
  <1>d. \A d \in Core : Holds(d)' <=> d # c /\ Holds(d)
    BY <1>a, <1>c DEF Holds
  <1>1. TypeOK'
    BY <1>a DEF TypeOK
  <1>2. CallInv' /\ CoreInv'
    BY <1>a, <1>b, <1>c DEF CallInv, CoreInv, Started
  <1>3. HoldInv'
    BY <1>a, <1>b, <1>c, <1>d, Types DEF HoldInv
  <1>4. OwnerInv'
    <2>1. \A i \in Tile : Busy(i) /\ i # k => Busy(i)'
      BY <1>a, <1>d DEF Busy
    <2> QED BY <1>a, <1>b, <1>c, <2>1 DEF OwnerInv
  <1>5. PlaceInv'
    BY <1>a, <1>b, <1>c DEF PlaceInv, Placed, Agrees
  <1>6. FailInv'
    <2>1. Broken' /\ pc'[c] # "off" /\ thread_ret'[c] = "ERR"
      BY <1>a, <1>b, <1>c DEF Broken
    <2> QED BY <1>a, <1>c, <2>1 DEF FailInv
  <1>7. SuccessIsRequest'
    BY <1>a, <1>b DEF SuccessIsRequest
  <1> QED BY <1>1, <1>2, <1>3, <1>4, <1>5, <1>6, <1>7

\* Nothing changes.
LEMMA StutterStep == ASSUME IInv, UNCHANGED vars PROVE IInv'
  <1> USE DEF vars, tileVars, coreVars, callVars
  <1>1. TypeOK' /\ CallInv' /\ CoreInv'
    BY DEF TypeOK, CallInv, CoreInv, Started, par
  <1>2. HoldInv' /\ OwnerInv'
    BY DEF HoldInv, Holds, OwnerInv, Busy
  <1>3. PlaceInv' /\ FailInv'
    BY DEF PlaceInv, Placed, Agrees, FailInv, Broken
  <1>4. SuccessIsRequest'
    BY DEF SuccessIsRequest
  <1> QED BY <1>1, <1>2, <1>3, <1>4

\* Every step keeps the invariant.
LEMMA NextPreserves == ASSUME SelAssumption, IInv, [Next]_vars PROVE IInv'
  <1>1. ASSUME NEW f \in Frames, NEW S \in SUBSET Tile, Prepare(f, S) \/ PrepareFails(f, S) PROVE IInv'
    BY <1>1, PrepareStep, PrepareFailsStep
  <1>2. CASE Caller
    BY <1>2, LocateStep, RunStep, OwnShareStep, OwnShareEndsStep, JoinStep, ReturnStep DEF Caller
  <1>3. ASSUME NEW c \in Core, Worker(c) PROVE IInv'
    BY <1>3, TakeStep, CheckSizeStep, DecodedStep, FailedStep DEF Worker
  <1>4. CASE UNCHANGED vars \/ Ended
    BY <1>4, StutterStep DEF Ended
  <1> QED BY <1>1, <1>2, <1>3, <1>4 DEF Next

\* A decoder that has decoded nothing satisfies the invariant.
LEMMA InitEstablishes == ASSUME SelAssumption, Init PROVE IInv
  <1>1. TypeOK
    <2>1. 0 \in 0..MaxTiles /\ 0 \in 0..Threads /\ 0 \in 0..MaxCalls /\ 0 \in Nat
      BY DEF SelAssumption
    <2>2. /\ bs_beg \in [Tile -> Nat \cup {NULL}] /\ tile_size \in [Tile -> Nat]
          /\ fate \in [Tile -> {"todo", "done", "err"}]
          /\ tidx \in [Core -> 0..MaxTiles] /\ thread_ret \in [Core -> {"OK", "ERR"}]
          /\ pc \in [Core -> {"off", "take", "size", "dec", "fail", "done"}]
      BY <2>1 DEF Init
    <2> QED BY <2>1, <2>2 DEF Init, TypeOK
  <1>2. CallInv /\ CoreInv /\ HoldInv /\ OwnerInv
    BY DEF Init, CallInv, CoreInv, Started, HoldInv, Holds, OwnerInv
  <1>3. PlaceInv /\ FailInv /\ SuccessIsRequest
    BY DEF Init, PlaceInv, FailInv, SuccessIsRequest
  <1> QED BY <1>1, <1>2, <1>3

\* Every reachable state satisfies the inductive invariant.
THEOREM Invariance == ASSUME SelAssumption PROVE Spec => []IInv
  <1>1. Init => IInv
    BY InitEstablishes
  <1>2. IInv /\ [Next]_vars => IInv'
    BY NextPreserves
  <1> QED BY <1>1, <1>2, PTL DEF Spec

\* Whatever sizes the bitstream and the frame header spell, a core only reads
\* a tile within the bytes the caller handed in (dec_derive_tile_offsets,
\* dec_thread_tile_sel).
LEMMA InBounds == ASSUME SelAssumption, IInv PROVE DecodedInBounds
  <1> SUFFICES ASSUME NEW c \in Core, Holds(c)
               PROVE  /\ bs_beg[tidx[c]] # NULL
                      /\ bs_beg[tidx[c]] + LEN + tile_size[tidx[c]] <= frm.end
    BY DEF DecodedInBounds
  <1>1. Pass /\ tidx[c] \in 0..(Num - 1)
    BY Holder
  <1> QED BY <1>1 DEF PlaceInv, Placed

\* The same of every reachable state.
THEOREM ChosenTilesStayInBounds == ASSUME SelAssumption PROVE Spec => []DecodedInBounds
  BY InBounds, Invariance, PTL

\* oapvd_decode_tiles returns OAPV_OK only when every tile asked for has been
\* decoded, from a place where a tile of its size begins, and from the very
\* place a decode of the whole frame finds when all are asked for.
THEOREM SuccessIsTheRequest == ASSUME SelAssumption PROVE Spec => []SuccessIsRequest
  <1>1. IInv => SuccessIsRequest
    OBVIOUS
  <1> QED BY <1>1, Invariance, PTL

----------------------------------------------------------------------------
(* DecTilesSel implements TileWork                                         *)

Work == INSTANCE TileWork WITH open  <- phase \in {"fork", "main", "join"},
                               want  <- want,
                               tiles <- [i \in Tile |-> TileState(i)],
                               good  <- result = "OK"

ImplementsTileWork == Work!Spec

\* What TileWork sees of a tile, which is never shared.
Status(i) == IF Busy(i) THEN "busy" ELSE fate[i]

\* The mapping's TileState is that, and a tile nobody holds is settled or to do.
LEMMA StateOf ==
  IInv => \A i \in Tile : TileState(i) = Status(i) /\ fate[i] \in {"todo", "done", "err"}
  <1> SUFFICES ASSUME IInv, NEW i \in Tile
               PROVE  TileState(i) = Status(i) /\ fate[i] \in {"todo", "done", "err"}
    OBVIOUS
  <1>1. ~Shared(i)
    BY DEF HoldInv, Shared
  <1>2. fate[i] \in {"todo", "done", "err"}
    BY DEF TypeOK
  <1> QED BY <1>1, <1>2 DEF TileState, Status

\* The same after a step.
LEMMA StateAfter ==
  (IInv => \A i \in Tile : TileState(i) = Status(i) /\ fate[i] \in {"todo", "done", "err"})'
  BY StateOf, PTL

\* The steps that neither take a tile nor put one down, nor begin or end a pass.
LEMMA WorkKept ==
  ASSUME IInv, IInv', UNCHANGED <<fate, want, result>>, Pass' <=> Pass,
         \A c \in Core : (Holds(c)' <=> Holds(c)) /\ (Holds(c) => tidx'[c] = tidx[c])
  PROVE  UNCHANGED Work!vars
  <1>1. \A i \in Tile : Busy(i)' <=> Busy(i)
    BY DEF Busy
  <1>2. \A i \in Tile : TileState(i)' = TileState(i)
    BY <1>1, StateOf, StateAfter DEF Status
  <1>3. (phase \in {"fork", "main", "join"})' = (phase \in {"fork", "main", "join"})
    OBVIOUS
  <1>4. (result = "OK")' = (result = "OK")
    OBVIOUS
  <1> QED BY <1>2, <1>3, <1>4 DEF Work!vars

\* One tile changes hands and no other does.
LEMMA WorkMoves ==
  ASSUME IInv, IInv', NEW k \in want, k \in Tile, NEW from, NEW to,
         UNCHANGED <<want, result, phase>>, Pass,
         Status(k) = from, Status(k)' = to,
         \A i \in Tile : i # k => Status(i)' = Status(i)
  PROVE  Work!Move(k, from, to)
  <1>1. /\ TileState(k) = from /\ TileState(k)' = to
        /\ \A i \in Tile : i # k => TileState(i)' = TileState(i)
    BY StateOf, StateAfter
  <1>2. [i \in Tile |-> TileState(i)]' = [[i \in Tile |-> TileState(i)] EXCEPT ![k] = to]
    BY <1>1
  <1>3. (result = "OK")' = (result = "OK")
    OBVIOUS
  <1> QED BY <1>1, <1>2, <1>3 DEF Work!Move

\* What a call does before its pass only rearranges the tiles, or fails.
LEMMA WorkArranged ==
  ASSUME SelAssumption, IInv, IInv', ~Pass, ~Pass', result' \in {result, "ERR"}
  PROVE  Work!Next
  <1>1. \A i \in Tile : ~Busy(i)'
    BY NoneUnderWay DEF CoreInv, Started, Busy, Holds
  <1>2. [i \in Tile |-> TileState(i)]' \in [Tile -> {"todo", "done", "err"}]
    BY <1>1, StateAfter DEF Status
  <1>3. (result = "OK")' \in {result = "OK", FALSE}
    <2>1. CASE result' = result
      BY <2>1
    <2>2. CASE result' = "ERR"
      <3>1. (result' = "OK") = FALSE
        BY <2>2
      <3> QED BY <3>1
    <2> QED BY <2>1, <2>2
  <1>4. want' \in SUBSET Tile
    BY DEF TypeOK
  <1>5. (phase \in {"fork", "main", "join"})' = (phase \in {"fork", "main", "join"})
    OBVIOUS
  <1>6. Work!Arrange
    BY <1>2, <1>3, <1>4, <1>5 DEF Work!Arrange
  <1> QED BY <1>6 DEF Work!Next

\* No tile is decoded yet.
LEMMA WorkInit == ASSUME SelAssumption, Init PROVE Work!Init
  <1>1. IInv
    BY InitEstablishes
  <1>2. \A i \in Tile : TileState(i) = "todo"
    BY <1>1, StateOf DEF Init, Status, Busy, Holds
  <1>3. want \in SUBSET Tile
    BY <1>1, Types
  <1>4. (phase \in {"fork", "main", "join"}) = FALSE
    <2>1. phase \notin {"fork", "main", "join"}
      BY DEF Init
    <2> QED BY <2>1
  <1>5. (result = "OK") \in BOOLEAN
    OBVIOUS
  <1>6. [i \in Tile |-> TileState(i)] \in [Tile -> {"todo", "done", "err"}]
    BY <1>2
  <1> QED BY <1>3, <1>4, <1>5, <1>6 DEF Work!Init

\* A pass ends when nobody holds a tile, well when all tiles are done.
LEMMA WorkEnds == ASSUME SelAssumption, IInv, IInv', Return PROVE Work!Next
  <1>1. /\ phase = "join" /\ \A c \in Core : pc[c] = "off"
        /\ \A i \in Tile : ~Busy(i)
        /\ \A i \in want : fate[i] \in {"done", "err"}
        /\ ret = "ERR" <=> Broken
        /\ ret \in {"OK", "ERR"} /\ result' = ret
    BY PassEnds DEF Holds
  <1>2. phase' = "idle" /\ UNCHANGED <<fate, want, pc>>
    BY DEF Return, coreVars
  <1>3. \A i \in Tile : ~Busy(i)'
    BY <1>1, <1>2 DEF Busy, Holds
  <1>4. \A i \in Tile : TileState(i)' = TileState(i) /\ TileState(i) = fate[i] /\ TileState(i) # "busy"
    BY <1>1, <1>2, <1>3, StateOf, StateAfter DEF Status
  <1>5. want \subseteq Tile
    BY Types
  <1>6. Work!Quiet
    BY <1>4 DEF Work!Quiet
  <1>7. Work!SomeFailed <=> Broken
    BY <1>4, <1>5 DEF Work!SomeFailed, Broken
  <1>8. Work!AllDone <=> ~Broken
    BY <1>1, <1>4, <1>5 DEF Work!AllDone, Broken
  <1>9. (result = "OK")' = Work!AllDone
    <2>1. result' = "OK" <=> ~Broken
      BY <1>1
    <2> QED BY <1>8, <2>1 DEF Work!AllDone
  <1>10. UNCHANGED [i \in Tile |-> TileState(i)]
    BY <1>4
  <1>11. (phase \in {"fork", "main", "join"})' = FALSE
    <2>1. phase' \notin {"fork", "main", "join"}
      BY <1>2
    <2> QED BY <2>1
  <1>12. Work!End
    BY <1>1, <1>2, <1>6, <1>7, <1>8, <1>9, <1>10, <1>11 DEF Work!End
  <1> QED BY <1>12 DEF Work!Next

\* Every step is a step of TileWork or a stutter.
LEMMA WorkStep == ASSUME SelAssumption, IInv, IInv', [Next]_vars PROVE [Work!Next]_(Work!vars)
  <1> DEFINE Goal == [Work!Next]_(Work!vars)
  <1>1. ASSUME NEW f \in Frames, NEW S \in SUBSET Tile, Prepare(f, S) \/ PrepareFails(f, S) PROVE Goal
    <2>1. ~Pass /\ ~Pass' /\ result' \in {result, "ERR"}
      BY <1>1 DEF Prepare, PrepareFails, Setup
    <2> QED BY <2>1, WorkArranged
  <1>2. CASE Locate /\ phase' = "idle"
    <2>1. ~Pass /\ ~Pass' /\ result' \in {result, "ERR"}
      BY <1>2 DEF Locate
    <2> QED BY <2>1, WorkArranged
  <1>3. CASE Locate /\ phase' = "fork"
    <2>1. phase = "locate" /\ UNCHANGED <<want, fate, result, pc>> /\ phase' = "fork"
      BY <1>3 DEF Locate, coreVars
    <2>2. want # {} /\ want \in SUBSET Tile /\ \A i \in want : fate[i] = "todo"
      BY <2>1, Types DEF CallInv
    <2>3. \A i \in Tile : ~Busy(i) /\ ~Busy(i)'
      BY <2>1, NoneUnderWay DEF Busy, Holds
    <2>4. \A i \in Tile : TileState(i)' = IF i \in want THEN "todo" ELSE TileState(i)
      BY <2>1, <2>2, <2>3, StateOf, StateAfter DEF Status
    <2>5. (phase \in {"fork", "main", "join"})' = TRUE
      BY <2>1
    <2>6. (result = "OK")' = (result = "OK")
      BY <2>1
    <2>7. Work!Begin(want)
      BY <2>1, <2>2, <2>4, <2>5, <2>6 DEF Work!Begin
    <2> QED BY <2>2, <2>7 DEF Work!Next
  <1>4. CASE Run \/ OwnShare \/ OwnShareEnds \/ Join
    <2>1. UNCHANGED <<fate, want, result, tidx>> /\ Pass /\ Pass'
      BY <1>4 DEF Run, OwnShare, OwnShareEnds, Join
    <2>2. ci \in Core /\ pc[ci] \in {"off", "done"}
      BY <1>4, <2>1, ParIs, Types DEF Run, OwnShare, OwnShareEnds, Join, CallInv, CoreInv, Started
    <2>3. pc' = [pc EXCEPT ![ci] = "take"] \/ pc' = [pc EXCEPT ![ci] = "off"]
      BY <1>4 DEF Run, OwnShare, OwnShareEnds, Join, Starts
    <2>4. \A c \in Core : Holds(c)' <=> Holds(c)
      BY <2>2, <2>3 DEF Holds, TypeOK
    <2> QED BY <2>1, <2>4, WorkKept
  <1>5. CASE UNCHANGED vars \/ Ended
    <2>1. UNCHANGED <<fate, want, result, pc, tidx>> /\ (Pass' <=> Pass)
      BY <1>5 DEF Ended, vars, coreVars, callVars
    <2> QED BY <2>1, WorkKept DEF Holds
  <1>6. ASSUME NEW c \in Core, Take(c) PROVE Goal
    <2>1. /\ pc[c] = "take" /\ tidx' = [tidx EXCEPT ![c] = NextWanted]
          /\ pc' = [pc EXCEPT ![c] = IF NextWanted < Num THEN "size" ELSE "done"]
          /\ UNCHANGED <<fate, want, result, phase>>
      BY <1>6 DEF Take, Goto, callVars
    <2>2. Pass
      BY <2>1, WorkerInPass
    <2>3. CASE ~(NextWanted < Num)
      <3>1. \A d \in Core : (Holds(d)' <=> Holds(d)) /\ (Holds(d) => tidx'[d] = tidx[d])
        BY <2>1, <2>3 DEF Holds, TypeOK
      <3> QED BY <2>1, <3>1, WorkKept
    <2>4. CASE NextWanted < Num
      <3>1. NextWanted \in want /\ NextWanted \in Tile /\ NextWanted >= tile_idx /\ NextWanted \in Nat
        <4>1. tile_idx \in Nat /\ Num \in Nat /\ Num <= MaxTiles /\ MaxTiles \in Nat /\ tile_idx <= Num
          BY <2>2, Types DEF HoldInv
        <4>2. NextWanted \in tile_idx..Num /\ NextWanted \in dst
          BY <2>4, <4>1, NextWantedIs
        <4>3. NextWanted \in Nat /\ NextWanted >= tile_idx /\ NextWanted \in 0..(Num - 1)
          BY <2>4, <4>1, <4>2
        <4> QED BY <2>2, <4>1, <4>2, <4>3 DEF CallInv
      <3>2. PICK k \in want : k = NextWanted /\ k \in Tile /\ k \in Nat
        BY <3>1
      <3>3. /\ \A d \in Core : pc'[d] = IF d = c THEN "size" ELSE pc[d]
            /\ \A d \in Core : tidx'[d] = IF d = c THEN k ELSE tidx[d]
        BY <2>1, <2>4, <3>2 DEF TypeOK
      <3>4. fate[k] = "todo" /\ \A d \in Core : Holds(d) => tidx[d] < tile_idx /\ tidx[d] \in Nat
        BY <2>2, <3>1, <3>2, Types DEF HoldInv
      <3>5. \A d \in Core : Holds(d) => tidx[d] # k
        BY <3>1, <3>2, <3>4, Types
      <3>6. ~Busy(k) /\ \A i \in Tile : Busy(i)' <=> i = k \/ Busy(i)
        BY <2>1, <3>3, <3>5 DEF Busy, Holds
      <3>7. Status(k) = "todo" /\ Status(k)' = "busy" /\ \A i \in Tile : i # k => Status(i)' = Status(i)
        BY <2>1, <3>2, <3>4, <3>6 DEF Status
      <3>8. Work!Move(k, "todo", "busy")
        BY <2>1, <2>2, <3>2, <3>7, WorkMoves
      <3> QED BY <3>2, <3>8 DEF Work!Next, Work!Take
    <2> QED BY <2>3, <2>4
  <1>7. ASSUME NEW c \in Core, CheckSize(c) PROVE Goal
    <2>1. UNCHANGED <<fate, want, result, phase, tidx>> /\ pc[c] = "size"
      BY <1>7 DEF CheckSize, callVars
    <2>2. PICK p \in {"dec", "fail"} : pc' = [pc EXCEPT ![c] = p]
      BY <1>7 DEF CheckSize, Goto
    <2>3. \A d \in Core : Holds(d)' <=> Holds(d)
      BY <2>1, <2>2 DEF Holds, TypeOK
    <2> QED BY <2>1, <2>3, WorkKept
  <1>8. ASSUME NEW c \in Core, Decoded(c) \/ Failed(c) PROVE Goal
    <2>1. UNCHANGED <<want, result, phase, tidx>> /\ Holds(c) /\ pc' = [pc EXCEPT ![c] = "take"]
      BY <1>8 DEF Decoded, Failed, Goto, callVars, Holds
    <2>2. Pass /\ \A d \in Core : Holds(d) /\ d # c => tidx[d] # tidx[c]
      BY <2>1, Holder
    <2>3. PICK k \in want : k = tidx[c] /\ k \in Tile
      BY <2>1, Holder
    <2>4. PICK end \in {"done", "err"} : \A i \in Tile : fate'[i] = IF i = k THEN end ELSE fate[i]
      BY <1>8, <2>3 DEF Decoded, Failed, TypeOK
    <2>5. \A d \in Core : Holds(d)' <=> d # c /\ Holds(d)
      BY <2>1 DEF Holds, TypeOK
    <2>6. Busy(k) /\ ~Busy(k)' /\ \A i \in Tile : i # k => (Busy(i)' <=> Busy(i))
      BY <2>1, <2>2, <2>3, <2>5 DEF Busy
    <2>7. Status(k) = "busy" /\ Status(k)' = end /\ \A i \in Tile : i # k => Status(i)' = Status(i)
      BY <2>3, <2>4, <2>6 DEF Status
    <2>8. Work!Move(k, "busy", end)
      BY <2>1, <2>2, <2>3, <2>7, WorkMoves
    <2> QED BY <2>3, <2>8 DEF Work!Next, Work!PutDown
  <1>9. CASE Locate
    <2>1. phase' = "idle" \/ phase' = "fork"
      BY <1>9 DEF Locate
    <2> QED BY <1>2, <1>3, <1>9, <2>1
  <1>10. CASE Return
    BY <1>10, WorkEnds
  <1> QED BY <1>1, <1>4, <1>5, <1>6, <1>7, <1>8, <1>9, <1>10 DEF Next, Caller, Worker

\* However many threads decode the chosen tiles, every tile asked for is
\* decoded by one of them, no other is touched, and the call succeeds exactly
\* when all of them are done: DecTilesSel implements TileWork.
THEOREM DecodeChosenImplementsTileWork == ASSUME SelAssumption PROVE Spec => ImplementsTileWork
  <1>1. Init => Work!Init
    BY WorkInit
  <1>2. IInv /\ IInv' /\ [Next]_vars => [Work!Next]_(Work!vars)
    BY WorkStep
  <1> QED BY <1>1, <1>2, Invariance, PTL DEF Spec, ImplementsTileWork, Work!Spec
=============================================================================
