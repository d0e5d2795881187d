----------------------------- MODULE PruningProofs -----------------------------
(***************************************************************************)
(* Proofs about Pruning, for any candidates, distances, labels and alphas. *)
(* The invariant never expands what FactorExceeds says of floats and tie   *)
(* breaks; only the theorem about dropped candidates does.                 *)
(***************************************************************************)
EXTENDS Pruning, FiniteSetTheorems, TLAPS

\* Candidates are taken once, the first of them first.
Distinct == \A i, j \in 1..Len(results) : results[i] = results[j] => i = j

NearestTaken ==
  /\ results # << >> => order # << >> /\ results[1] = order[1]
  /\ order # << >> /\ (at > 1 \/ round > 1) => results # << >>

\* Nodes count only against candidates behind them whose wanted labels they have.
AgainstKept ==
  \A c \in Candidate : \A e \in against[c] :
    /\ e \in Kept /\ Precedes(e, c)
    /\ \A l \in input.wanted : l \in input.labels[c] => l \in input.labels[e]

\* A candidate looked at in some round, and not taken, exceeds the round's alpha.
Excused ==
  /\ \A i \in 1..Len(order) : i < at =>
       order[i] \in Kept \/ Exceeds(order[i], Alphas[round])
  /\ round > 1 => \A i \in 1..Len(order) :
       order[i] \in Kept \/ Exceeds(order[i], Alphas[1])

\* The first round takes candidates in their order.
FirstRoundInOrder ==
  round = 1 => \A e \in Kept : \E i \in 1..Len(order) : i < at /\ order[i] = e

Stopped == done => Full \/ (at > Len(order) /\ round = Len(Alphas))

IInv ==
  /\ TypeOK /\ order \in Orders
  /\ Distinct /\ NearestTaken /\ AgainstKept
  /\ Excused /\ FirstRoundInOrder /\ Stopped

--------------------------------------------------------------------------------
(***************************************************************************)
(* The order and the list                                                  *)
(***************************************************************************)

LEMMA FunctionIsSeq ==
  ASSUME NEW n \in Nat, NEW S, NEW s \in [1..n -> S]
  PROVE  s \in Seq(S) /\ Len(s) = n
OBVIOUS

LEMMA ElementOfSeq ==
  ASSUME NEW S, NEW s \in Seq(S), NEW i \in 1..Len(s)
  PROVE  s[i] \in S
OBVIOUS

LEMMA AlphasLength == Len(Alphas) \in Nat /\ 1 <= Len(Alphas)
<1>1. Alphas \in Seq([num : Nat, den : Nat \ {0}]) /\ Alphas # << >>
  BY AlphasAssumption
<1> QED
  BY <1>1

LEMMA DegreeIsPositive == NumNeighbors \in Nat /\ 1 <= NumNeighbors
<1>1. NumNeighbors \in Nat \ {0}
  BY PruningAssumption
<1> QED
  BY <1>1

\* A listing of the candidates is a sequence that shows each of them.
LEMMA ListingShowsAll ==
  ASSUME NEW s \in Listings
  PROVE  /\ s \in Seq(Candidate) /\ Len(s) = Cardinality(Candidate)
         /\ DOMAIN s = 1..Len(s) /\ Len(s) \in Nat
         /\ \A c \in Candidate : \E i \in 1..Len(s) : s[i] = c
<1> DEFINE n == Cardinality(Candidate)
<1>0. IsFiniteSet(Candidate)
  BY PruningAssumption
<1>1. n \in Nat
  BY <1>0, FS_CardinalityType
<1>2. s \in [1..n -> Candidate] /\ \A i, j \in 1..n : s[i] = s[j] => i = j
  BY DEF Listings
<1>3. s \in Seq(Candidate) /\ Len(s) = n
  BY <1>1, <1>2, FunctionIsSeq
<1>4. IsFiniteSet(1..n) /\ Cardinality(1..n) = n
  BY <1>1, FS_Interval
<1>5. s \in Injection(1..n, Candidate)
  BY <1>2 DEF Injection, IsInjective
<1>6. s \in Surjection(1..n, Candidate)
  BY <1>0, <1>4, <1>5, FS_Injection
<1>7. \A c \in Candidate : \E i \in 1..n : s[i] = c
  BY <1>6 DEF Surjection
<1> QED
  BY <1>1, <1>2, <1>3, <1>7

\* No candidate is nearer than itself.
LEMMA NearerIrreflexive ==
  ASSUME input \in Inputs, NEW x \in Candidate
  PROVE  ~Nearer(x, x)
<1>1. input.dist[x] \in Nat
  BY PruningAssumption DEF Inputs
<1>2. TieBreak(Point, x) \in Nat
  BY PruningAssumption DEF TieBreak
<1> QED
  BY <1>1, <1>2 DEF Nearer

\* The first of a sorted order has the least rank of the contract.
LEMMA FirstIsNearest ==
  ASSUME input \in Inputs, order \in Orders, order # << >>,
         NEW c \in Candidate
  PROVE  /\ order[1] \in Candidate
         /\ Cardinality({x \in Candidate : Nearer(x, order[1])})
              <= Cardinality({x \in Candidate : Nearer(x, c)})
<1>1. /\ order \in Seq(Candidate) /\ order \in Listings /\ Len(order) \in Nat
      /\ DOMAIN order = 1..Len(order)
      /\ \A x \in Candidate : \E i \in 1..Len(order) : order[i] = x
  BY ListingShowsAll DEF Orders
<1>2. 1 \in 1..Len(order) /\ order[1] \in Candidate
  BY <1>1
<1>3. \A x \in Candidate : ~Nearer(x, order[1])
  <2> SUFFICES ASSUME NEW x \in Candidate PROVE ~Nearer(x, order[1])
    OBVIOUS
  <2>1. PICK i \in 1..Len(order) : order[i] = x
    BY <1>1
  <2>2. CASE i = 1
    BY <2>1, <2>2, NearerIrreflexive
  <2>3. CASE i # 1
    <3>1. 1 < i /\ 1 \in DOMAIN order /\ i \in DOMAIN order
      BY <1>1, <1>2, <2>3
    <3> QED
      BY <2>1, <3>1 DEF Orders
  <2> QED
    BY <2>2, <2>3
<1>4. {x \in Candidate : Nearer(x, order[1])} = {}
  BY <1>3
<1>5. Cardinality({}) = 0
  BY FS_EmptySet
<1>6. Cardinality({x \in Candidate : Nearer(x, c)}) \in Nat
  BY FS_Subset, FS_CardinalityType, PruningAssumption
<1>7. Cardinality({x \in Candidate : Nearer(x, order[1])}) = 0
  BY <1>4, <1>5
<1> HIDE DEF Nearer
<1> QED
  BY <1>2, <1>6, <1>7

--------------------------------------------------------------------------------
(***************************************************************************)
(* The invariant                                                           *)
(***************************************************************************)

LEMMA InitInvariant == Init => IInv
<1> SUFFICES ASSUME Init PROVE IInv
  OBVIOUS
<1> USE DEF Init
<1>1. order \in Listings /\ order \in Seq(Candidate) /\ Len(order) \in Nat
  BY ListingShowsAll DEF Orders
<1>2. TypeOK
  <2>1. results \in Seq(Candidate) /\ Len(results) = 0
    OBVIOUS
  <2>2. against \in [Candidate -> SUBSET Candidate]
    OBVIOUS
  <2>3. round \in 1..Len(Alphas) /\ at \in 1..(Len(order) + 1)
    BY <1>1, AlphasLength
  <2>4. Len(results) <= NumNeighbors
    BY <2>1, DegreeIsPositive
  <2>5. input \in Inputs /\ done \in BOOLEAN
    OBVIOUS
  <2> HIDE DEF Init
  <2> QED
    BY <1>1, <2>1, <2>2, <2>3, <2>4, <2>5 DEF TypeOK
<1>3. Kept = {}
  BY DEF Kept
<1> QED
  BY <1>1, <1>2, <1>3
  DEF IInv, Distinct, NearestTaken, AgainstKept, Excused, FirstRoundInOrder, Stopped

\* Of the invariant, only Stopped and the type of done look at done.
LEMMA UnreadDone ==
  ASSUME IInv, UNCHANGED << input, order, results, against, round, at >>,
         done' \in BOOLEAN, Stopped'
  PROVE  IInv'
<1>1. Kept' = Kept
  BY DEF Kept
<1>2. TypeOK' /\ (order \in Orders)'
  BY DEF IInv, TypeOK, Orders, Nearer
<1>3. Distinct' /\ NearestTaken' /\ AgainstKept'
  BY <1>1 DEF IInv, Distinct, NearestTaken, AgainstKept, Precedes
<1>4. \A c, alpha : Exceeds(c, alpha) => Exceeds(c, alpha)'
  BY DEF Exceeds, FactorExceeds
<1>5. Excused' /\ FirstRoundInOrder'
  BY <1>1, <1>4 DEF IInv, Excused, FirstRoundInOrder
<1> QED
  BY <1>2, <1>3, <1>5 DEF IInv

LEMMA NextInvariant == IInv /\ [Next]_vars => IInv'
<1> SUFFICES ASSUME IInv, [Next]_vars PROVE IInv'
  OBVIOUS
<1>0. /\ order \in Listings /\ order \in Seq(Candidate) /\ Len(order) \in Nat
      /\ DOMAIN order = 1..Len(order)
      /\ \A c \in Candidate : \E i \in 1..Len(order) : order[i] = c
      /\ \A i, j \in 1..Len(order) : order[i] = order[j] => i = j
  BY ListingShowsAll DEF IInv, Orders, Listings
<1>1. CASE Take
  <2> DEFINE x == order[at]
  <2>1. /\ TypeOK /\ order \in Orders
        /\ Distinct /\ NearestTaken /\ AgainstKept
        /\ Excused /\ FirstRoundInOrder /\ Stopped
    BY DEF IInv
  <2>2. /\ input' = input /\ order' = order /\ round' = round /\ done' = done
        /\ at' = at + 1 /\ results' = Append(results, x) /\ ~done
        /\ at <= Len(order) /\ ~Full /\ x \notin Kept
        /\ ~Exceeds(x, Alphas[round])
        /\ against' = [c \in Candidate |->
             IF Covers(x, c) /\ \E j \in (at + 1)..Len(order) : c = order[j]
               THEN against[c] \cup {x} ELSE against[c]]
    BY <1>1 DEF Take
  <2>3. /\ at \in 1..Len(order) /\ x \in Candidate /\ round \in 1..Len(Alphas)
        /\ results \in Seq(Candidate) /\ Len(results) \in Nat
        /\ Len(results) < NumNeighbors
    BY <1>0, <2>1, <2>2, AlphasLength, DegreeIsPositive DEF TypeOK, Full
  <2>4. /\ results' \in Seq(Candidate) /\ Len(results') = Len(results) + 1
        /\ \A i \in 1..Len(results) : results'[i] = results[i]
        /\ results'[Len(results) + 1] = x
    BY <2>2, <2>3
  <2>5. Kept' = Kept \cup {x}
    BY <2>3, <2>4 DEF Kept
  <2>6. \A c \in Candidate : against[c] \subseteq against'[c]
                             /\ against'[c] \subseteq Candidate
    BY <2>1, <2>2, <2>3 DEF TypeOK
  <2>7. TypeOK'
    BY <1>0, <2>1, <2>2, <2>3, <2>4, <2>6, DegreeIsPositive DEF TypeOK
  <2>8. Distinct'
    BY <2>1, <2>2, <2>3, <2>4 DEF Distinct, Kept
  <2>9. NearestTaken'
    <3>1. CASE results = << >>
      <4>1. at = 1 /\ round = 1
        BY <2>1, <2>3, <3>1 DEF NearestTaken
      <4> QED
        BY <2>2, <2>3, <2>4, <3>1, <4>1 DEF NearestTaken
    <3>2. CASE results # << >>
      <4>1. 1 \in 1..Len(results)
        BY <2>3, <3>2
      <4>2. results'[1] = results[1] /\ results' # << >>
        BY <2>3, <2>4, <4>1
      <4> QED
        BY <2>1, <2>2, <3>2, <4>2 DEF NearestTaken
    <3> QED
      BY <3>1, <3>2
  <2>10. AgainstKept'
    <3> SUFFICES ASSUME NEW c \in Candidate, NEW e \in against'[c]
                 PROVE  /\ e \in Kept' /\ Precedes(e, c)'
                        /\ \A l \in input'.wanted :
                             l \in input'.labels[c] => l \in input'.labels[e]
      BY DEF AgainstKept
    <3>1. Precedes(e, c)' <=> Precedes(e, c)
      BY <2>2 DEF Precedes
    <3>2. CASE e \in against[c]
      BY <2>1, <2>2, <2>5, <3>1, <3>2 DEF AgainstKept
    <3>3. CASE e \notin against[c]
      <4>1. /\ e = x /\ Covers(x, c)
            /\ \E j \in (at + 1)..Len(order) : c = order[j]
        BY <2>2, <3>3
      <4>2. Precedes(x, c)
        BY <2>3, <4>1, <1>0 DEF Precedes
      <4> QED
        BY <2>2, <2>5, <3>1, <4>1, <4>2 DEF Covers
    <3> QED
      BY <3>2, <3>3
  <2>11. \A alpha : \A c \in Candidate : Exceeds(c, alpha) => Exceeds(c, alpha)'
    BY <2>2, <2>6 DEF Exceeds, FactorExceeds
  <2>12. Excused'
    <3>1. \A i \in 1..Len(order) :
            order[i] \in Kept \/ Exceeds(order[i], Alphas[round])
              => order[i] \in Kept' \/ Exceeds(order[i], Alphas[round])'
      BY <1>0, <2>2, <2>5, <2>11
    <3>2. \A i \in 1..Len(order) :
            order[i] \in Kept \/ Exceeds(order[i], Alphas[1])
              => order[i] \in Kept' \/ Exceeds(order[i], Alphas[1])'
      BY <1>0, <2>2, <2>5, <2>11
    <3>3. \A i \in 1..Len(order) : i < at + 1 => i < at \/ order[i] = x
      BY <2>3, <1>0
    <3>4. x \in Kept'
      BY <2>5
    <3> HIDE DEF x
    <3> QED
      BY <2>1, <2>2, <3>1, <3>2, <3>3, <3>4 DEF Excused
  <2>13. FirstRoundInOrder'
    BY <1>0, <2>1, <2>2, <2>3, <2>5 DEF FirstRoundInOrder
  <2> QED
    BY <2>1, <2>2, <2>7, <2>8, <2>9, <2>10, <2>12, <2>13 DEF IInv, Stopped, Orders, Nearer
<1>2. CASE Pass
  <2>1. /\ TypeOK /\ order \in Orders
        /\ Distinct /\ NearestTaken /\ AgainstKept
        /\ Excused /\ FirstRoundInOrder
    BY DEF IInv
  <2>2. /\ UNCHANGED << input, order, results, against, round, done >>
        /\ at' = at + 1 /\ ~done /\ at <= Len(order) /\ ~Full
        /\ order[at] \in Kept \/ Exceeds(order[at], Alphas[round])
    BY <1>2 DEF Pass
  <2>3. at \in 1..Len(order) /\ order[at] \in Candidate /\ round \in 1..Len(Alphas)
    BY <1>0, <2>1, <2>2 DEF TypeOK
  <2>4. TypeOK'
    BY <1>0, <2>1, <2>2, <2>3 DEF TypeOK
  <2>5. Kept' = Kept /\ Full' = Full
    BY <2>2 DEF Kept, Full
  <2>6. /\ \A c : Exceeds(c, Alphas[1])' <=> Exceeds(c, Alphas[1])
        /\ \A c : Exceeds(c, Alphas[round])' <=> Exceeds(c, Alphas[round])
    BY <2>2 DEF Exceeds, FactorExceeds
  <2>7. results # << >>
    <3>1. SUFFICES ASSUME results = << >> PROVE FALSE
      OBVIOUS
    <3>2. at = 1 /\ round = 1
      BY <2>1, <2>3, <3>1, <1>0 DEF NearestTaken
    <3>3. Kept = {}
      BY <3>1 DEF Kept
    <3>4. against[order[at]] = {}
      BY <2>1, <2>3, <3>3 DEF AgainstKept
    <3> QED
      BY <2>2, <3>3, <3>4 DEF Exceeds
  <2>8. Excused'
    <3>1. \A i \in 1..Len(order) : i < at + 1 => i < at \/ order[i] = order[at]
      BY <2>3, <1>0
    <3> QED
      BY <2>1, <2>2, <2>5, <2>6, <3>1 DEF Excused
  <2>9. FirstRoundInOrder'
    BY <1>0, <2>1, <2>2, <2>3, <2>5 DEF FirstRoundInOrder
  <2>10. AgainstKept' /\ Distinct'
    BY <2>1, <2>2, <2>5 DEF AgainstKept, Distinct, Precedes
  <2>11. NearestTaken'
    BY <2>1, <2>2, <2>7 DEF NearestTaken
  <2> QED
    BY <2>1, <2>2, <2>4, <2>8, <2>9, <2>10, <2>11 DEF IInv, Stopped, Orders, Nearer
<1>3. CASE NextRound
  <2>1. /\ TypeOK /\ order \in Orders
        /\ Distinct /\ NearestTaken /\ AgainstKept
        /\ Excused /\ FirstRoundInOrder
    BY DEF IInv
  <2>2. /\ UNCHANGED << input, order, results, against, done >>
        /\ round' = round + 1 /\ at' = 1 /\ ~done
        /\ at > Len(order) /\ round < Len(Alphas)
    BY <1>3 DEF NextRound
  <2>3. /\ at \in Nat /\ round \in 1..Len(Alphas)
        /\ round + 1 \in 1..Len(Alphas) /\ 1 \in 1..(Len(order) + 1)
    BY <1>0, <2>1, <2>2, AlphasLength DEF TypeOK
  <2>4. TypeOK'
    BY <1>0, <2>1, <2>2, <2>3 DEF TypeOK
  <2>5. Kept' = Kept
    BY <2>2 DEF Kept
  <2>6. \A i \in 1..Len(order) : order[i] \in Kept \/ Exceeds(order[i], Alphas[1])
    BY <1>0, <2>1, <2>2, <2>3 DEF Excused
  <2>7. \A c : Exceeds(c, Alphas[1])' <=> Exceeds(c, Alphas[1])
    BY <2>2 DEF Exceeds, FactorExceeds
  <2>8. Excused' /\ FirstRoundInOrder'
    BY <1>0, <2>2, <2>3, <2>5, <2>6, <2>7 DEF Excused, FirstRoundInOrder
  <2>9. AgainstKept' /\ Distinct'
    BY <2>1, <2>2, <2>5 DEF AgainstKept, Distinct, Precedes
  <2>10. NearestTaken'
    <3>1. order # << >> => at > 1
      BY <1>0, <2>2, <2>3
    <3> QED
      BY <2>1, <2>2, <3>1 DEF NearestTaken
  <2> QED
    BY <2>1, <2>2, <2>4, <2>8, <2>9, <2>10 DEF IInv, Stopped, Orders, Nearer
<1>4. CASE Return
  <2>1. /\ UNCHANGED << input, order, results, against, round, at >> /\ done' = TRUE
        /\ Full \/ (at > Len(order) /\ round = Len(Alphas))
    BY <1>4 DEF Return
  <2>2. Stopped'
    BY <2>1 DEF Stopped, Full
  <2> QED
    BY <2>1, <2>2, UnreadDone
<1>5. CASE UNCHANGED vars
  <2>1. UNCHANGED << input, order, results, against, round, at >> /\ done' = done
    BY <1>5 DEF vars
  <2>3. done' \in BOOLEAN
    BY <2>1 DEF IInv, TypeOK
  <2>2. Stopped'
    BY <2>1 DEF IInv, Stopped, Full
  <2> QED
    BY <2>1, <2>2, <2>3, UnreadDone
<1> QED
  BY <1>1, <1>2, <1>3, <1>4, <1>5 DEF Next

LEMMA Inductive == Spec => []IInv
BY InitInvariant, NextInvariant, PTL DEF Spec

--------------------------------------------------------------------------------
(***************************************************************************)
(* Theorems                                                                *)
(***************************************************************************)

\* The variables keep their types; prune_neighbors never answers with more than
\* num_neighbors nodes.
THEOREM TypeCorrect == Spec => []TypeOK
<1>1. IInv => TypeOK
  BY DEF IInv
<1> QED
  BY <1>1, Inductive, PTL

\* prune_neighbors keeps the contract on which the proofs about Adjacency and
\* Insert rest: some of the candidates, none twice, the nearest first.
THEOREM ContractHolds == Spec => []MeetsContract
<1>1. IInv => MeetsContract
  <2> SUFFICES ASSUME IInv, done PROVE results \in Contract!PruneResults(Point, Candidate)
    BY DEF MeetsContract
  <2>1. /\ TypeOK /\ order \in Orders /\ Distinct /\ NearestTaken /\ Stopped
    BY DEF IInv
  <2>2. /\ order \in Listings /\ order \in Seq(Candidate) /\ Len(order) \in Nat
        /\ \A c \in Candidate : \E i \in 1..Len(order) : order[i] = c
    BY <2>1, ListingShowsAll DEF Orders
  <2>3. /\ results \in Seq(Candidate) /\ Len(results) \in 0..NumNeighbors
        /\ results \in [1..Len(results) -> Candidate]
    BY <2>1, DegreeIsPositive DEF TypeOK
  <2>4. results \in Contract!ListsUpTo(NumNeighbors, Candidate)
    BY <2>1, <2>3 DEF Contract!ListsUpTo, Contract!NoRepeats, Distinct
  <2>5. ASSUME NEW c \in Candidate
        PROVE  /\ results # << >>
               /\ Cardinality({x \in Candidate : results[1] \in Candidate /\ Nearer(x, results[1])})
                    <= Cardinality({x \in Candidate : c \in Candidate /\ Nearer(x, c)})
    <3>1. order # << >>
      BY <2>2
    <3>2. results # << >>
      <4>1. CASE Full
        BY <2>3, <4>1, DegreeIsPositive DEF Full
      <4>2. CASE ~Full
        <5>1. at > Len(order) /\ Len(order) > 0 /\ at \in Nat
          BY <2>1, <2>2, <3>1, <4>2 DEF Stopped, TypeOK
        <5> QED
          BY <2>1, <2>2, <3>1, <5>1 DEF NearestTaken
      <4> QED
        BY <4>1, <4>2
    <3>3. results[1] = order[1]
      BY <2>1, <3>2 DEF NearestTaken
    <3>4. /\ order[1] \in Candidate
          /\ Cardinality({x \in Candidate : Nearer(x, order[1])})
               <= Cardinality({x \in Candidate : Nearer(x, c)})
      BY <2>1, <3>1, FirstIsNearest DEF TypeOK
    <3>5. /\ {x \in Candidate : results[1] \in Candidate /\ Nearer(x, results[1])}
               = {x \in Candidate : Nearer(x, order[1])}
          /\ {x \in Candidate : c \in Candidate /\ Nearer(x, c)}
               = {x \in Candidate : Nearer(x, c)}
      BY <3>3, <3>4
    <3> QED
      BY <3>2, <3>4, <3>5
  <2>6. Candidate # {} => results[1] \in Candidate
    <3>1. Candidate # {} => results # << >>
      BY <2>5
    <3>2. results # << >> => 1 \in 1..Len(results)
      BY <2>3
    <3> QED
      BY <2>3, <3>1, <3>2
  <2> QED
    BY <2>4, <2>5, <2>6 DEF Contract!PruneResults
<1> QED
  BY <1>1, Inductive, PTL

\* A product grows with its factor.
LEMMA ProductGrows ==
  ASSUME NEW x \in Nat, NEW y \in Nat, NEW z \in Nat, x >= y
  PROVE  x * z >= y * z
<1>1. PICK d \in Nat : x = y + d
  BY x - y \in Nat, x = y + (x - y)
<1>2. d * z \in Nat /\ y * z \in Nat
  OBVIOUS
<1>3. (y + d) * z = y * z + d * z
  OBVIOUS
<1> QED
  BY <1>1, <1>2, <1>3

\* A factor above an alpha, which is 1 or more, shows a neighbor that is nearer to
\* the candidate than the point is, also where distances count as zero.
LEMMA FactorStandsFor ==
  ASSUME NEW e \in Candidate, NEW c \in Candidate, e # c, input \in Inputs,
         NEW k \in 1..Len(Alphas), FactorExceeds(c, e, Alphas[k])
  PROVE  StandsFor(e, c, Alphas[k])
<1> DEFINE far == input.dist[c]
<1> DEFINE near == input.between[{c, e}]
<1> DEFINE num == Alphas[k].num
<1> DEFINE den == Alphas[k].den
<1>1. num \in Nat /\ den \in Nat /\ den > 0 /\ num >= den
  <2>1. Alphas[k] \in [num : Nat, den : Nat \ {0}]
    BY AlphasAssumption, ElementOfSeq
  <2>2. Alphas[k].num >= Alphas[k].den
    BY AlphasAssumption
  <2> QED
    BY <2>1, <2>2
<1>2. {c, e} \in Pairs
  <2>2. IsFiniteSet({e}) /\ Cardinality({e}) = 1
    BY FS_Singleton
  <2>3. Cardinality({c, e}) = 2
    <3>1. {c, e} = {e} \cup {c} /\ c \notin {e}
      OBVIOUS
    <3>2. Cardinality({e} \cup {c}) = Cardinality({e}) + 1
      BY <2>2, <3>1, FS_AddElement
    <3>3. Cardinality({e} \cup {c}) = 2
      BY <2>2, <3>2
    <3> QED
      BY <3>1, <3>3, Zenon
  <2> QED
    BY <2>3 DEF Pairs
<1>3. far \in Nat /\ near \in Nat /\ Epsilon \in Nat
  BY <1>2, PruningAssumption DEF Inputs
<1>4. TieBreak(Point, c) \in Nat /\ TieBreak(c, e) \in Nat
  BY PruningAssumption DEF TieBreak
<1>5. ASSUME NEW a \in Nat, NEW b \in Nat, a * den > num * b
      PROVE  b < a
  <2> HIDE DEF num, den
  <2>1. num * b >= den * b
    BY <1>1, ProductGrows
  <2>2. a * den > den * b /\ den * b = b * den
    BY <1>1, <1>5, <2>1
  <2>3. CASE b >= a
    <3>1. b * den >= a * den
      BY <1>1, <2>3, ProductGrows
    <3> QED
      BY <1>1, <2>2, <3>1
  <2> QED
    BY <2>3
<1>6. \/ near >= Epsilon /\ far * den > num * near
      \/ near < Epsilon /\ far >= Epsilon
      \/ near < Epsilon /\ far < Epsilon /\ TieBreak(Point, c) * den > num * TieBreak(c, e)
  BY DEF FactorExceeds
<1>7. /\ \/ near < far
         \/ near < Epsilon /\ far < Epsilon /\ TieBreak(c, e) < TieBreak(Point, c)
      /\ near >= Epsilon => far * den > num * near
  BY <1>3, <1>4, <1>5, <1>6
<1>8. far * den = den * far
  BY <1>1, <1>3
<1> QED
  BY <1>7, <1>8 DEF StandsFor

\* A candidate that prune_neighbors drops lies behind num_neighbors nearer ones, or
\* a kept neighbor with its wanted labels stands for it.
THEOREM DropsJustified == Spec => []DroppedForAReason
<1>1. IInv => DroppedForAReason
  <2> SUFFICES ASSUME IInv, done, NEW c \in Candidate \ Kept
               PROVE  \/ Full /\ \A e \in Kept : Precedes(e, c)
                      \/ \E e \in Kept :
                           /\ Precedes(e, c)
                           /\ \A l \in input.wanted :
                                l \in input.labels[c] => l \in input.labels[e]
                           /\ StandsFor(e, c, Alphas[IF Full THEN 1 ELSE Len(Alphas)])
    BY DEF DroppedForAReason
  <2>1. /\ TypeOK /\ order \in Orders /\ AgainstKept
        /\ Excused /\ FirstRoundInOrder /\ Stopped
    BY DEF IInv
  <2>2. /\ order \in Listings /\ Len(order) \in Nat
        /\ \E i \in 1..Len(order) : order[i] = c
    BY <2>1, ListingShowsAll DEF Orders
  <2>3. PICK i \in 1..Len(order) : order[i] = c
    BY <2>2
  <2>4. at \in 1..(Len(order) + 1) /\ round \in 1..Len(Alphas)
    BY <2>1 DEF TypeOK
  <2>5. ASSUME NEW k \in 1..Len(Alphas), Exceeds(c, Alphas[k])
        PROVE  \E e \in Kept :
                 /\ Precedes(e, c)
                 /\ \A l \in input.wanted :
                      l \in input.labels[c] => l \in input.labels[e]
                 /\ StandsFor(e, c, Alphas[k])
    <3>1. PICK e \in Kept : /\ Precedes(e, c)
                            /\ \A l \in input.wanted :
                                 l \in input.labels[c] => l \in input.labels[e]
                            /\ FactorExceeds(c, e, Alphas[k])
      BY <2>1, <2>5 DEF Exceeds, AgainstKept
    <3>2. e \in Candidate /\ e # c
      BY <2>1 DEF Kept, TypeOK
    <3>3. StandsFor(e, c, Alphas[k])
      BY <2>1, <3>1, <3>2, FactorStandsFor DEF TypeOK
    <3> QED
      BY <3>1, <3>3
  <2>6. CASE ~Full
    <3>1. i < at /\ round = Len(Alphas)
      BY <2>1, <2>2, <2>4, <2>6 DEF Stopped
    <3>2. Exceeds(c, Alphas[Len(Alphas)])
      BY <2>1, <2>3, <3>1 DEF Excused
    <3> QED
      BY <2>5, <2>6, <3>2, AlphasLength
  <2>7. CASE Full /\ (round > 1 \/ i < at)
    <3>1. Exceeds(c, Alphas[1])
      BY <2>1, <2>3, <2>4, <2>7, AlphasLength DEF Excused
    <3> QED
      BY <2>5, <2>7, <3>1, AlphasLength
  <2>8. CASE Full /\ round = 1 /\ at <= i
    <3>1. \A e \in Kept : Precedes(e, c)
      BY <2>1, <2>2, <2>3, <2>4, <2>8 DEF FirstRoundInOrder, Precedes
    <3> QED
      BY <2>8, <3>1
  <2> QED
    BY <2>2, <2>4, <2>6, <2>7, <2>8, AlphasLength
<1> QED
  BY <1>1, Inductive, PTL
================================================================================
