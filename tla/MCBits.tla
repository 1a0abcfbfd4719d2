------------------------------- MODULE MCBits -------------------------------
(***************************************************************************)
(* Bits for TLC.  The writer has a register and three bytes more, the      *)
(* reader two registers and three bytes.                                   *)
(*                                                                         *)
(* The blocks have eleven coefficients, not zero at the places where the   *)
(* parameter of a run changes, with values at the places where that of a   *)
(* level does, and at both ends of the range of 16 bits.                   *)
(***************************************************************************)
EXTENDS Bits

Ac(c) == [p \in 1..(BlkD - 1) |-> IF p \in DOMAIN c THEN c[p] ELSE 0]

At2(p, v, q, u) == [k \in {p, q} |-> IF k = p THEN v ELSE u]

MCAcs == {Ac(<< >>)}
  \cup {Ac([k \in {p} |-> v]) : p \in {4, 10}, v \in {1, -4, 17, -32768, 32767}}
  \cup {Ac(At2(p, v, q, u)) : p \in {1, 5, 9}, v \in {-1, 9}, q \in {10}, u \in {-200}}

MCDcs == {0, -1, 9, -32768, 32767}

ASSUME BitsAssumption
=============================================================================
