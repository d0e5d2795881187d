-------------------------------- MODULE Pruning --------------------------------
(***************************************************************************)
(* Graph::prune_neighbors: which of the candidates become the neighbors of *)
(* a point.  The candidates are looked at in the order of their distance,  *)
(* in rounds with a growing alpha; one that is taken counts against those  *)
(* behind it, by how much nearer they are to it than to the point.         *)
(*                                                                         *)
(* A factor is only ever compared with an alpha, and the largest of some   *)
(* factors exceeds it if one of them does: against keeps the nodes whose   *)
(* factors are in max_factors.                                             *)
(***************************************************************************)
EXTENDS Naturals, Sequences, FiniteSets

CONSTANTS
  Point,         \* neighbors_of
  Candidate,     \* the candidates, none twice and the point not among them
  Label,
  Distance,      \* the values distances can take
  Epsilon,       \* f32::EPSILON; smaller distances count as equal vectors
  Place,         \* index pointers as places on a line (ItemPointer::ip_distance)
  NumNeighbors,
  Alphas         \* 1, 1.2, 1.44, ... up to max_alpha, as fractions

Pairs == {pair \in SUBSET Candidate : Cardinality(pair) = 2}

ASSUME PruningAssumption ==
  /\ IsFiniteSet(Candidate) /\ Point \notin Candidate
  /\ Distance \subseteq Nat /\ Epsilon \in Nat \ {0}
  /\ Place \in [Candidate \cup {Point} -> Nat]
  /\ \A x, y \in Candidate \cup {Point} : Place[x] = Place[y] => x = y
  /\ NumNeighbors \in Nat \ {0}

\* alpha starts with 1 and grows.
ASSUME AlphasAssumption ==
  /\ Alphas \in Seq([num : Nat, den : Nat \ {0}]) /\ Alphas # << >>
  /\ \A i \in 1..Len(Alphas) : Alphas[i].num >= Alphas[i].den

VARIABLES
  input,    \* distances from the point and between candidates, labels
  order,    \* the candidates sorted
  results,
  against,  \* against[c]: nodes taken that c has been compared with
  round,    \* the place of alpha in Alphas
  at,       \* the place in order
  done

vars == << input, order, results, against, round, at, done >>

Inputs == [dist : [Candidate -> Distance], between : [Pairs -> Distance],
           wanted : SUBSET Label, labels : [Candidate -> SUBSET Label]]

Kept == {results[i] : i \in 1..Len(results)}

--------------------------------------------------------------------------------
(***************************************************************************)
(* DistanceWithTieBreak                                                    *)
(***************************************************************************)

\* ip_distance
TieBreak(x, y) == IF Place[x] >= Place[y] THEN Place[x] - Place[y] ELSE Place[y] - Place[x]

\* cmp, for the distances of two candidates from the point.
Nearer(x, y) ==
  IF input.dist[x] = 0 /\ input.dist[y] = 0
    THEN TieBreak(Point, x) < TieBreak(Point, y)
    ELSE input.dist[x] < input.dist[y]

\* A factor that is f64::MAX for every divisor of zero.
FactorExceedsZero(c, e, alpha) ==
  LET far == input.dist[c]
      near == input.between[{c, e}]
  IN  near < Epsilon \/ far * alpha.den > alpha.num * near

\* get_factor(c from the point, c from e) is greater than alpha.
FactorExceeds(c, e, alpha) ==
  LET far == input.dist[c]
      near == input.between[{c, e}]
  IN  \/ near >= Epsilon /\ far * alpha.den > alpha.num * near
      \/ near < Epsilon /\ far >= Epsilon
      \/ /\ near < Epsilon /\ far < Epsilon
         /\ TieBreak(Point, c) * alpha.den > alpha.num * TieBreak(c, e)

\* The label test left out.
CoversAny(e, c) == TRUE

\* contains_intersection: e has every wanted label that c has.  An index without
\* labels skips the test, as if no label were wanted.
Covers(e, c) == input.labels[c] \cap input.wanted \subseteq input.labels[e]

\* max_factors[c] > alpha, for a candidate that is not taken.
Exceeds(c, alpha) == \E e \in against[c] : FactorExceeds(c, e, alpha)

--------------------------------------------------------------------------------
Listings == {s \in [1..Cardinality(Candidate) -> Candidate] :
               \A i, j \in DOMAIN s : s[i] = s[j] => i = j}

\* Candidates that are not sorted.
OrdersUnsorted == Listings

\* sort; equal ones stay in the order in which they came.
Orders == {s \in Listings : \A i, j \in DOMAIN s : i < j => ~Nearer(s[j], s[i])}

Init ==
  /\ input \in Inputs
  /\ order \in Orders
  /\ results = << >>
  /\ against = [c \in Candidate |-> {}]
  /\ round = 1 /\ at = 1
  /\ done = FALSE

Full == Len(results) >= NumNeighbors

Take ==
  LET x == order[at]
  IN  /\ ~done /\ at <= Len(order) /\ ~Full
      /\ x \notin Kept /\ ~Exceeds(x, Alphas[round])
      /\ results' = Append(results, x)
      /\ against' = [c \in Candidate |->
                       IF Covers(x, c) /\ \E j \in (at + 1)..Len(order) : c = order[j]
                         THEN against[c] \cup {x} ELSE against[c]]
      /\ at' = at + 1
      /\ UNCHANGED << input, order, round, done >>

Pass ==
  /\ ~done /\ at <= Len(order) /\ ~Full
  /\ order[at] \in Kept \/ Exceeds(order[at], Alphas[round])
  /\ at' = at + 1
  /\ UNCHANGED << input, order, results, against, round, done >>

NextRound ==
  /\ ~done /\ at > Len(order)
  /\ round < Len(Alphas) /\ ~Full
  /\ round' = round + 1 /\ at' = 1
  /\ UNCHANGED << input, order, results, against, done >>

Return ==
  /\ ~done
  /\ Full \/ (at > Len(order) /\ round = Len(Alphas))
  /\ done' = TRUE
  /\ UNCHANGED << input, order, results, against, round, at >>

Next == Take \/ Pass \/ NextRound \/ Return

Spec == Init /\ [][Next]_vars

--------------------------------------------------------------------------------
(***************************************************************************)
(* Properties                                                              *)
(***************************************************************************)

TypeOK ==
  /\ input \in Inputs
  /\ order \in Listings
  /\ results \in Seq(Candidate) /\ Len(results) <= NumNeighbors
  /\ against \in [Candidate -> SUBSET Candidate]
  /\ round \in 1..Len(Alphas)
  /\ at \in 1..(Len(order) + 1)
  /\ done \in BOOLEAN

(***************************************************************************)
(* The contract on which module Adjacency rests, with the order of the     *)
(* candidates by distance for its Rank.                                    *)
(***************************************************************************)
Contract == INSTANCE Neighbors WITH
  Node <- Candidate \cup {Point},
  Rank <- [n \in Candidate \cup {Point} |-> [c \in Candidate \cup {Point} |->
             Cardinality({x \in Candidate : c \in Candidate /\ Nearer(x, c)})]]

\* Whatever the distances, alphas and labels are, prune_neighbors answers with at
\* most num_neighbors of the candidates, none twice, and the nearest first
\* (Adjacency and Insert take no more of it for granted).
MeetsContract == done => results \in Contract!PruneResults(Point, Candidate)

Precedes(e, c) ==
  \E i, j \in 1..Len(order) : i < j /\ order[i] = e /\ order[j] = c

\* e is alpha times nearer to c than the point is.  Distances that a float does
\* not tell from zero have no ratio: the smaller one is nearer, and of vectors
\* that are all alike the one whose node is written nearer.
StandsFor(e, c, alpha) ==
  LET far == input.dist[c]
      near == input.between[{c, e}]
  IN  /\ \/ near < far
         \/ near < Epsilon /\ far < Epsilon /\ TieBreak(c, e) < TieBreak(Point, c)
      /\ near >= Epsilon => alpha.num * near < alpha.den * far

\* A candidate is dropped only if the list is full of nearer ones, or if a
\* search for it is better off with one that is kept: a neighbor that is nearer
\* to the point, has the wanted labels of the dropped one, and from which it is
\* nearer than from the point, by the largest alpha if there was room left.  So a
\* list with room left loses no wanted label that some candidate had, and no
\* candidate to a division by zero (get_factor).
DroppedForAReason ==
  done => \A c \in Candidate \ Kept :
    \/ Full /\ \A e \in Kept : Precedes(e, c)
    \/ \E e \in Kept :
         /\ Precedes(e, c)
         /\ \A l \in input.wanted : l \in input.labels[c] => l \in input.labels[e]
         /\ StandsFor(e, c, Alphas[IF Full THEN 1 ELSE Len(Alphas)])
================================================================================
