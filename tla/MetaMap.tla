------------------------------ MODULE MetaMap ------------------------------
(***************************************************************************)
(* What a metadata container promises its user: it is a map from a group   *)
(* and a kind of payload to a payload.  Setting a payload changes it and   *)
(* nothing else, an operation that reports an error has changed nothing,   *)
(* and what was never set, or was removed, is not found.                   *)
(* Metadata is shown to implement this module.                             *)
(***************************************************************************)
CONSTANTS Name,      \* a group and a kind of payload
          Value,     \* what may be stored under a name
          Nothing    \* answer for a name under which nothing is stored

VARIABLES map,       \* what a lookup of each name answers
          res        \* what the last operation returned

vars == <<map, res>>

Init == map = [n \in Name |-> Nothing] /\ res = "OK"

\* The names of which a step changes the answer.
Changed == {n \in Name : map'[n] # map[n]}

Clear == UNCHANGED res /\ map' = [n \in Name |-> Nothing]

\* A payload may also be set to what it was.
Put(changed) ==
  /\ res' = "OK"
  /\ LET now == map'
     IN  \E n \in Name : now[n] \in Value /\ changed \subseteq {n}

Refuse(changed) == changed = {} /\ res' \in {"INVALID", "OOM", "MAX"}

Remove(changed) ==
  /\ res' = "OK"
  /\ \E n \in changed : changed = {n} /\ map'[n] = Nothing

Missing(changed) ==
  /\ res' = "NOT_FOUND" /\ changed = {}
  /\ \E n \in Name : map[n] = Nothing

Next == \/ Clear
        \/ \E changed \in {Changed} :
             Put(changed) \/ Refuse(changed) \/ Remove(changed) \/ Missing(changed)

Spec == Init /\ [][Next]_vars
=============================================================================
