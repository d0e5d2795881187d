------------------------------ MODULE MCAdjacency ------------------------------
(***************************************************************************)
(* Small instances of Adjacency.  All updates meet on node a.              *)
(***************************************************************************)
EXTENDS Adjacency

CONSTANTS a, b1, b2, b3

\* From a, b1 is nearest and b3 farthest.
MCRank ==
  LET Place(m) == CASE m = a -> 0 [] m = b1 -> 1 [] m = b2 -> 2 [] m = b3 -> 3
  IN  [n \in Node |-> [m \in Node |-> Place(m)]]

\* Additions that include the node itself, as a start node is in its own search
\* result, and that together with what is there exceed NumNeighbors.
MixedAdditions == {<<a, b2>>, <<b3, b1>>}

MCTargets == {a}
================================================================================
