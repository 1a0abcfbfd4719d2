------------------------------ MODULE MCTiles ------------------------------
(***************************************************************************)
(* Tiles for TLC, with frames of three tiles or fewer.                     *)
(***************************************************************************)
EXTENDS Tiles

(* Frames to decode, of three tiles or fewer in a few positions; a size    *)
(* field takes one.                                                        *)

\* The tile sizes z[1], z[2], ... laid out from position 0 on; the bits
\* between them spell w when they are read as a size.
Layout(z, n, end, inFh, fh, w) ==
  LET at[i \in 1..(n + 1)] == IF i = 1 THEN 0 ELSE at[i - 1] + 1 + z[i - 1]
  IN  [n |-> n, beg |-> 0, end |-> end, inFh |-> inFh,
       fh |-> [i \in 0..(MaxTiles - 1) |-> IF i < n THEN fh[i + 1] ELSE 0],
       size |-> [p \in 0..end |->
                   IF \E i \in 1..n : at[i] = p
                   THEN z[CHOOSE i \in 1..n : at[i] = p] ELSE w]]

MCWholeFrames ==
  { Layout(<<1, 2, 1>>, 3, 7, FALSE, <<1, 2, 1>>, 1),   \* good, no sizes in fh
    Layout(<<1, 2, 1>>, 3, 8, TRUE,  <<1, 2, 1>>, 1),   \* good, filler behind
    Layout(<<1, 1, 2>>, 3, 7, TRUE,  <<1, 2, 1>>, 2),   \* header disagrees
    Layout(<<1, 0, 1>>, 3, 7, FALSE, <<1, 1, 1>>, 1),   \* a zero size
    Layout(<<1, 2, 3>>, 3, 7, FALSE, <<1, 1, 1>>, 1),   \* last tile too long
    Layout(<<1, 2, 1>>, 3, 5, FALSE, <<1, 1, 1>>, 1),   \* no room for a size
    Layout(<<2>>,       1, 3, FALSE, <<2>>, 1) }        \* one tile

MCChosenFrames ==
  { Layout(<<1, 2, 1>>, 3, 7, FALSE, <<1, 2, 1>>, 1),   \* good, no sizes in fh
    Layout(<<1, 1, 2>>, 3, 7, TRUE,  <<1, 2, 1>>, 2),   \* header disagrees
    Layout(<<1, 0, 1>>, 3, 7, FALSE, <<1, 1, 1>>, 1),   \* a zero size
    Layout(<<2, 2>>,    2, 5, TRUE,  <<2, 2>>, 1),      \* last tile too long
    Layout(<<1, 2>>,    2, 5, TRUE,  <<1, 2>>, 1) }     \* good, two tiles

(* Frames to encode, of tiles of two or three units, the length of a size  *)
(* being one, in buffers of four.  An unsigned int has five bits.          *)

Frm(z, w, end, rc, inFh) ==
  [n |-> Cardinality(DOMAIN z), end |-> end, rc |-> rc, inFh |-> inFh,
   at |-> [i \in 0..(MaxTiles - 1) |-> 4 + 4 * i],
   max |-> [i \in 0..(MaxTiles - 1) |-> 4],
   size |-> [i \in 0..(MaxTiles - 1) |-> IF i + 1 \in DOMAIN z THEN z[i + 1] ELSE 0],
   cost |-> [i \in 0..(MaxTiles - 1) |-> IF i + 1 \in DOMAIN w THEN w[i + 1] ELSE 0]]

MCPictures ==
  { Frm(<<2, 3, 2>>, <<1, 2, 3>>, 8, TRUE,  TRUE),   \* rate control, room to spare
    Frm(<<3, 2>>,    <<2, 2>>,    5, FALSE, TRUE),   \* fits exactly
    Frm(<<2, 2, 3>>, <<1, 1, 1>>, 6, FALSE, FALSE),  \* too long by one
    Frm(<<2, 5, 3>>, <<1, 1, 2>>, 9, TRUE,  TRUE),   \* the second tile overflows
    Frm(<<4, 3, 6>>, <<1, 1, 1>>, 9, FALSE, TRUE),   \* two tiles overflow
    Frm(<<3>>,       <<2>>,       4, TRUE,  TRUE) }  \* one tile

ASSUME TilesAssumption /\ E!TileAssumption
=============================================================================
