--------------------------------- MODULE MCBuild ---------------------------------
(***************************************************************************)
(* Small instances of Build.                                               *)
(***************************************************************************)
EXTENDS Build

CONSTANTS n1, n2, n3

\* Seen from any row, n1 is the nearest and n3 the farthest.
MCRank ==
  LET Place(m) == CASE m = n1 -> 1 [] m = n2 -> 2 [] OTHER -> 3
  IN  [n \in Node |-> [m \in Node |-> Place(m)]]

Request(plain, concurrent, forced, planned, reltuples) ==
  [plain |-> plain, concurrent |-> concurrent, forced |-> forced, planned |-> planned,
   reltuples |-> reltuples]

\* Two workers or one, for each reason there are, or none.
MCRequests == {
  Request(FALSE, FALSE, -1, 2, 3), Request(FALSE, TRUE, 1, 0, 0),
  Request(FALSE, FALSE, -1, 1, 3), Request(FALSE, TRUE, 0, 2, 3),
  Request(FALSE, FALSE, -1, 2, 2), Request(TRUE, FALSE, 2, 2, 3)}
================================================================================
