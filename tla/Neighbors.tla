------------------------------- MODULE Neighbors -------------------------------
(***************************************************************************)
(* The pure part of an adjacency update: from the neighbors a node has and *)
(* the neighbors a caller adds, the lists graph/mod.rs may write back.     *)
(* A neighbor list is a sequence of nodes (index pointers); the vectors    *)
(* enter only through Rank, the order of the other nodes by distance.      *)
(***************************************************************************)
EXTENDS Naturals, Sequences, FiniteSets

CONSTANTS
  Node,          \* index pointers of the nodes the tape has written
  NumNeighbors,  \* MetaPage::get_num_neighbors, the degree bound on disk
  Rank           \* Rank[n][m]: place of m in the order of distance from n

ASSUME NumNeighborsAssumption == NumNeighbors \in Nat \ {0}
ASSUME RankAssumption == Rank \in [Node -> [Node -> Nat]]

--------------------------------------------------------------------------------
(***************************************************************************)
(* Sequences used as ordered sets                                          *)
(***************************************************************************)
Elems(s) == {s[i] : i \in 1..Len(s)}

NoRepeats(s) == \A i, j \in 1..Len(s) : s[i] = s[j] => i = j

\* The sequences of at most k nodes of S, none twice.
ListsUpTo(k, S) ==
  {s \in UNION {[1..m -> S] : m \in 0..k} : NoRepeats(s)}

\* The sequences that hold every node of S once.
Listings(S) == {s \in [1..Cardinality(S) -> S] : NoRepeats(s) /\ Elems(s) = S}

FirstAt(t, x) ==
  CHOOSE i \in 1..Len(t) : t[i] = x /\ \A j \in 1..(i - 1) : t[j] # x

--------------------------------------------------------------------------------
(***************************************************************************)
(* Merge                                                                   *)
(***************************************************************************)

\* NeighborMergeMode: an insertion, a flush of a builder cache, an eviction.
Modes == {"Disk", "Flush", "Evict"}

\* Candidates in the order the code concatenates them.
Concatenated(disk, added, mode) ==
  IF mode = "Disk" THEN disk \o added ELSE added \o disk

CandidateSet(n, disk, added) == (Elems(disk) \cup Elems(added)) \ {n}

\* retain(|c| seen.insert(c)) with seen = {n}: the first of equal candidates
\* stays, the node itself never does.
Candidates(n, disk, added, mode) ==
  LET all == Concatenated(disk, added, mode)
  IN  {s \in Listings(CandidateSet(n, disk, added)) :
         \A i, j \in 1..Len(s) : i < j => FirstAt(all, s[i]) < FirstAt(all, s[j])}

\* A prune that starts from the farthest candidate.
PruneResultsFarthest(n, C) ==
  {s \in ListsUpTo(NumNeighbors, C) :
     C # {} => /\ s # << >>
               /\ \A c \in C : Rank[n][s[1]] >= Rank[n][c]}

\* What every result of prune_neighbors on the candidates C satisfies,
\* whatever the vectors, max_alpha and labels are: at most NumNeighbors of
\* the candidates, none twice, and the nearest candidate first, which no
\* neighbor chosen earlier can exclude.
PruneResults(n, C) ==
  {s \in ListsUpTo(NumNeighbors, C) :
     C # {} => /\ s # << >>
               /\ \A c \in C : Rank[n][s[1]] <= Rank[n][c]}

\* The builder's in-memory slack applied to the list on disk.
OverflowsSlack(list, mode) == mode = "Evict" \/ Len(list) > NumNeighbors + 1

Overflows(list, mode) == mode = "Evict" \/ Len(list) > NumNeighbors

\* The values merge_neighbors_on_disk can return, and write, for the adjacency
\* disk of node n: whether it pruned and the new list.
MergeResults(n, disk, added, mode) ==
  UNION {IF Overflows(c, mode)
           THEN {[pruned |-> TRUE, list |-> s] :
                    s \in PruneResults(n, CandidateSet(n, disk, added))}
           ELSE {[pruned |-> FALSE, list |-> c]}
         : c \in Candidates(n, disk, added, mode)}

\* The same for callers to whom the order of a list is no matter: the sets of
\* neighbors an insertion's merge leaves.
MergedNeighbors(n, disk, added) ==
  LET C == (disk \cup added) \ {n}
  IN  IF Cardinality(C) > NumNeighbors
        THEN {S \in SUBSET C :
                /\ Cardinality(S) <= NumNeighbors
                /\ \E x \in S : \A c \in C : Rank[n][x] <= Rank[n][c]}
        ELSE {C}
================================================================================
