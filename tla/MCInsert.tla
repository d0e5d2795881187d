-------------------------------- MODULE MCInsert --------------------------------
(***************************************************************************)
(* Small instances of Insert.                                              *)
(***************************************************************************)
EXTENDS Insert, TLC

CONSTANTS n1, n2, n3, l1, l2

\* Without labels.
NoLabels == [n \in Node |-> {}]

\* One row has a label alone, one has both, one the other.
MixedLabels == [n \in Node |-> IF n = n1 THEN {l1} ELSE IF n = n2 THEN {l1, l2} ELSE {l2}]

\* Seen from any row, n1 is the nearest and n3 the farthest.
MCRank ==
  LET Place(m) == CASE m = n1 -> 1 [] m = n2 -> 2 [] m = n3 -> 3 [] OTHER -> 4
  IN  [n \in Node |-> [m \in Node |-> Place(m)]]

BackendSymmetry == Permutations(Backend)
================================================================================
