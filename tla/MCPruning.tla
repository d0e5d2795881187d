------------------------------- MODULE MCPruning -------------------------------
(***************************************************************************)
(* A small instance of Pruning.  Distances below Epsilon and above it, and *)
(* two whose ratio is the second alpha; c2 lies behind c1, seen from the   *)
(* point, and c3 on the other side.                                        *)
(***************************************************************************)
EXTENDS Pruning, TLC

CONSTANTS p, c1, c2, c3, l1

MCPlace == p :> 5 @@ c1 :> 7 @@ c2 :> 8 @@ c3 :> 1

MCAlphas == << [num |-> 1, den |-> 1], [num |-> 6, den |-> 5] >>
================================================================================
