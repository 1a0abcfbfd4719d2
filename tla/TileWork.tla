------------------------------ MODULE TileWork ------------------------------
(***************************************************************************)
(* What a codec call promises about the tiles of one pass over a frame,    *)
(* however many threads share them: every tile of the pass is worked on at *)
(* most once and by one thread, the pass ends when nobody works on a tile  *)
(* any more, it ends well only when every one of them is done, and badly   *)
(* only when one of them failed.                                           *)
(* DecTiles, DecTilesSel and EncTiles are shown to implement this module.  *)
(***************************************************************************)
CONSTANT Tile       \* the entries of the tile array

VARIABLES open,     \* is a pass under way?
          want,     \* the tiles it is about
          tiles,    \* where each tile stands
          good      \* did the last pass end well?

vars == <<open, want, tiles, good>>

Init == /\ open = FALSE
        /\ want \in SUBSET Tile
        /\ tiles \in [Tile -> {"todo", "done", "err"}]
        /\ good \in BOOLEAN

\* Between two passes the tile array is the codec's to rearrange, and a call
\* may fail that never comes to a pass.
Arrange == /\ ~open
           /\ want' \in SUBSET Tile
           /\ tiles' \in [Tile -> {"todo", "done", "err"}]
           /\ good' \in {good, FALSE}
           /\ UNCHANGED open

Begin(S) == /\ ~open /\ S # {}
            /\ open' = TRUE
            /\ want' = S
            /\ tiles' = [i \in Tile |-> IF i \in S THEN "todo" ELSE tiles[i]]
            /\ UNCHANGED good

Move(i, from, to) == /\ open /\ i \in want /\ tiles[i] = from
                     /\ tiles' = [tiles EXCEPT ![i] = to]
                     /\ UNCHANGED <<open, want, good>>

Take(i)         == Move(i, "todo", "busy")
PutDown(i, end) == Move(i, "busy", end)

Quiet      == \A i \in Tile : tiles[i] # "busy"
AllDone    == \A i \in want : tiles[i] = "done"
SomeFailed == \E i \in want : tiles[i] = "err"

End == /\ open /\ Quiet /\ (AllDone \/ SomeFailed)
       /\ open' = FALSE
       /\ good' = AllDone
       /\ UNCHANGED <<want, tiles>>

Next == \/ \E S \in SUBSET Tile : Begin(S)
        \/ \E i \in Tile : Take(i)
        \/ \E i \in Tile, end \in {"done", "err"} : PutDown(i, end)
        \/ End
        \/ Arrange

Spec == Init /\ [][Next]_vars
=============================================================================
