----------------------------- MODULE MCSchedule ------------------------------
(* Two neighbors: the autonomous cell of one shares the slot of this node's *)
(* own autonomous cell.                                                     *)
EXTENDS Schedule, TLC

CONSTANTS n1, n2
MCHash == (n1 :> 2) @@ (n2 :> 1)
=============================================================================
