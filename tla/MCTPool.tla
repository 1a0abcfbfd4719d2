------------------------------ MODULE MCTPool ------------------------------
(***************************************************************************)
(* Both variants of the pool for TLC: Err stands for every error code a   *)
(* task may return.                                                        *)
(***************************************************************************)
EXTENDS WinPool

CONSTANT Err
=============================================================================
