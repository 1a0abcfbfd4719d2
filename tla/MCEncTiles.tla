----------------------------- MODULE MCEncTiles -----------------------------
(***************************************************************************)
(* EncTiles for TLC, with tile buffers that end just below a multiple of   *)
(* the range of an unsigned int, which has five bits here.                 *)
(***************************************************************************)
EXTENDS EncTiles, FiniteSets

Frm(z, w, end, rc, inFh, base) ==
  [n |-> Cardinality(DOMAIN z), end |-> end, rc |-> rc, inFh |-> inFh,
   at |-> [i \in Tile |-> base + 4 * i], max |-> [i \in Tile |-> 4],
   size |-> [i \in Tile |-> IF i + 1 \in DOMAIN z THEN z[i + 1] ELSE 0],
   cost |-> [i \in Tile |-> IF i + 1 \in DOMAIN w THEN w[i + 1] ELSE 0]]

MCHighFrames ==
  { Frm(<<2, 3, 5>>, <<1, 1, 2>>, 12, FALSE, TRUE, 20),
    Frm(<<2, 3, 3>>, <<1, 1, 2>>, 12, FALSE, TRUE, 20) }
=============================================================================
