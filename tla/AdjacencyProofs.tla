----------------------------- MODULE AdjacencyProofs -----------------------------
(***************************************************************************)
(* Theorems about Adjacency, for every set of nodes and backends, every    *)
(* degree bound, every order of distances and every number of calls.       *)
(***************************************************************************)
EXTENDS Adjacency, FiniteSetTheorems, TLAPS

--------------------------------------------------------------------------------
(***************************************************************************)
(* Lists                                                                   *)
(***************************************************************************)

\* What membership in ListsUpTo means, without its UNION.
LEMMA ListsUpToFacts ==
  ASSUME NEW k \in Nat, NEW S, NEW s \in ListsUpTo(k, S)
  PROVE  /\ s \in Seq(S)
         /\ Len(s) \in 0..k
         /\ s \in [1..Len(s) -> S]
         /\ NoRepeats(s)
         /\ Elems(s) \subseteq S
<1>1. PICK m \in 0..k : s \in [1..m -> S]
  BY DEF ListsUpTo
<1>2. s \in Seq(S) /\ Len(s) = m
  BY <1>1
<1>3. NoRepeats(s)
  BY DEF ListsUpTo
<1> QED
  BY <1>1, <1>2, <1>3 DEF Elems

LEMMA ListsUpToIntro ==
  ASSUME NEW k \in Nat, NEW S, NEW s \in Seq(S), Len(s) <= k, NoRepeats(s)
  PROVE  s \in ListsUpTo(k, S)
<1>1. Len(s) \in 0..k /\ s \in [1..Len(s) -> S]
  OBVIOUS
<1>2. s \in UNION {[1..m -> S] : m \in 0..k}
  BY <1>1
<1> QED
  BY <1>2 DEF ListsUpTo

LEMMA SeqOfElems ==
  ASSUME NEW S, NEW s \in Seq(S), NEW T, Elems(s) \subseteq T
  PROVE  s \in Seq(T)
<1>1. s \in [1..Len(s) -> T]
  BY DEF Elems
<1> QED
  BY <1>1

\* The array of a node, after any write, reads back as exactly the list
\* written: what an earlier list left in it does not show (set_neighbors with
\* iter_neighbors, for any previous content of the array).
LEMMA ReadBack ==
  ASSUME NEW old \in Slots, NEW list \in ListsUpTo(NumNeighbors, Node)
  PROVE  /\ SetNeighbors(old, list) \in Slots
         /\ IterNeighbors(SetNeighbors(old, list)) = list
<1> DEFINE new == SetNeighbors(old, list)
<1>1. /\ list \in Seq(Node)
      /\ Len(list) \in 0..NumNeighbors
      /\ list \in [1..Len(list) -> Node]
  BY ListsUpToFacts, NumNeighborsAssumption
<1>2. new \in Slots
  BY <1>1 DEF SetNeighbors, Slots
<1>3. \A i \in 1..Len(list) : new[i] = list[i] /\ new[i] # InvalidPointer
  BY <1>1, NumNeighborsAssumption, InvalidPointerAssumption DEF SetNeighbors
<1>4. Len(list) < NumNeighbors => new[Len(list) + 1] = InvalidPointer
  BY <1>1, NumNeighborsAssumption DEF SetNeighbors
<1>5. StoredNeighbors(new) = Len(list)
  <2> DEFINE P(k) == /\ \A i \in 1..k : new[i] # InvalidPointer
                     /\ k < NumNeighbors => new[k + 1] = InvalidPointer
  <2>1. P(Len(list))
    BY <1>3, <1>4
  <2>2. ASSUME NEW k \in 0..NumNeighbors, P(k)
        PROVE  k = Len(list)
    <3> HIDE DEF new
    <3>1. CASE k < Len(list)
      <4>1. k + 1 \in 1..Len(list) /\ k < NumNeighbors
        BY <1>1, <3>1, NumNeighborsAssumption
      <4> QED
        BY <1>3, <2>2, <4>1
    <3>2. CASE k > Len(list)
      <4>1. Len(list) + 1 \in 1..k /\ Len(list) < NumNeighbors
        BY <1>1, <3>2, NumNeighborsAssumption
      <4> QED
        BY <1>4, <2>2, <4>1
    <3>3. Len(list) \in Nat /\ k \in Nat
      BY <1>1, NumNeighborsAssumption
    <3> QED
      BY <3>1, <3>2, <3>3
  <2>3. StoredNeighbors(new) = CHOOSE k \in 0..NumNeighbors : P(k)
    BY DEF StoredNeighbors
  <2> HIDE DEF P
  <2> QED
    BY <1>1, <2>1, <2>2, <2>3
<1>6. IterNeighbors(new) = [i \in 1..Len(list) |-> new[i]]
  BY <1>5 DEF IterNeighbors
<1>7. IterNeighbors(new) = list
  BY <1>1, <1>3, <1>6
<1> QED
  BY <1>2, <1>7

\* A new node has no neighbors.
LEMMA EmptyReadsEmpty == EmptySlots \in Slots /\ IterNeighbors(EmptySlots) = << >>
<1>1. EmptySlots \in Slots
  BY DEF EmptySlots, Slots
<1>2. StoredNeighbors(EmptySlots) = 0
  <2> DEFINE P(k) == /\ \A i \in 1..k : EmptySlots[i] # InvalidPointer
                     /\ k < NumNeighbors => EmptySlots[k + 1] = InvalidPointer
  <2>1. P(0)
    BY NumNeighborsAssumption DEF EmptySlots
  <2>2. \A k \in 0..NumNeighbors : P(k) => k = 0
    BY NumNeighborsAssumption DEF EmptySlots
  <2>3. StoredNeighbors(EmptySlots) = CHOOSE k \in 0..NumNeighbors : P(k)
    BY DEF StoredNeighbors
  <2> HIDE DEF P
  <2> QED
    BY <2>1, <2>2, <2>3, NumNeighborsAssumption
<1>3. IterNeighbors(EmptySlots) = << >>
  BY <1>2 DEF IterNeighbors
<1> QED
  BY <1>1, <1>3

--------------------------------------------------------------------------------
(***************************************************************************)
(* Merges                                                                  *)
(***************************************************************************)

\* The candidates of a merge are finitely many, whatever Node is.
LEMMA FiniteCandidates ==
  ASSUME NEW n, NEW disk \in Seq(Node), NEW added \in Seq(Node)
  PROVE  /\ IsFiniteSet(CandidateSet(n, disk, added))
         /\ Cardinality(CandidateSet(n, disk, added)) \in Nat
<1>1. ASSUME NEW s \in Seq(Node)
      PROVE  IsFiniteSet(Elems(s))
  <2>1. s \in Surjection(1..Len(s), Elems(s))
    BY DEF Elems, Surjection
  <2>2. IsFiniteSet(1..Len(s))
    BY FS_Interval
  <2> QED
    BY <2>1, <2>2, FS_Surjection
<1>2. IsFiniteSet(Elems(disk) \cup Elems(added))
  BY <1>1, FS_Union
<1>3. IsFiniteSet(CandidateSet(n, disk, added))
  BY <1>2, FS_Difference DEF CandidateSet
<1> QED
  BY <1>3, FS_CardinalityType

\* What a merge can return: a list for the array, without n and without
\* repetition, that keeps every candidate unless it pruned, and prunes only
\* on an eviction or above the degree bound.
LEMMA MergeResultFacts ==
  ASSUME NEW n \in Node, NEW disk \in Seq(Node), NEW added \in Seq(Node),
         NEW mode \in Modes, NEW r \in MergeResults(n, disk, added, mode)
  PROVE  /\ r = [pruned |-> r.pruned, list |-> r.list]
         /\ r.pruned \in BOOLEAN
         /\ r.list \in ListsUpTo(NumNeighbors, Node \ {n})
         /\ r.list \in ListsUpTo(NumNeighbors, Node)
         /\ r.list \in Seq(Node)
         /\ \/ Elems(r.list) = CandidateSet(n, disk, added)
            \/ mode = "Evict"
            \/ Cardinality(CandidateSet(n, disk, added)) > NumNeighbors
<1> DEFINE C == CandidateSet(n, disk, added)
<1>1. C \subseteq Node \ {n}
  BY DEF CandidateSet, Elems
<1>2. Cardinality(C) \in Nat
  BY FiniteCandidates
<1>3. PICK c \in Candidates(n, disk, added, mode) :
        IF Overflows(c, mode)
          THEN \E s \in PruneResults(n, C) : r = [pruned |-> TRUE, list |-> s]
          ELSE r = [pruned |-> FALSE, list |-> c]
  BY DEF MergeResults
<1>4. c \in [1..Cardinality(C) -> C] /\ NoRepeats(c) /\ Elems(c) = C
  BY <1>3 DEF Candidates, Listings
<1>5. c \in Seq(C) /\ Len(c) = Cardinality(C)
  BY <1>2, <1>4
<1> HIDE DEF C
<1>6. CASE Overflows(c, mode)
  <2>1. PICK s \in PruneResults(n, C) : r = [pruned |-> TRUE, list |-> s]
    BY <1>3, <1>6
  <2>2. s \in ListsUpTo(NumNeighbors, C)
    BY DEF PruneResults
  <2>3. s \in Seq(C) /\ Len(s) <= NumNeighbors /\ NoRepeats(s)
    BY <2>2, ListsUpToFacts, NumNeighborsAssumption
  <2>4. s \in Seq(Node \ {n}) /\ s \in Seq(Node)
    BY <1>1, <2>3
  <2>5. /\ s \in ListsUpTo(NumNeighbors, Node \ {n})
        /\ s \in ListsUpTo(NumNeighbors, Node)
    BY <2>3, <2>4, ListsUpToIntro, NumNeighborsAssumption
  <2>6. mode = "Evict" \/ Cardinality(C) > NumNeighbors
    BY <1>5, <1>6 DEF Overflows
  <2> QED
    BY <2>1, <2>4, <2>5, <2>6 DEF C
<1>7. CASE ~Overflows(c, mode)
  <2>1. r = [pruned |-> FALSE, list |-> c]
    BY <1>3, <1>7
  <2>2. Len(c) <= NumNeighbors
    BY <1>2, <1>5, <1>7, NumNeighborsAssumption DEF Overflows
  <2>3. c \in Seq(Node \ {n}) /\ c \in Seq(Node)
    BY <1>1, <1>5
  <2>4. /\ c \in ListsUpTo(NumNeighbors, Node \ {n})
        /\ c \in ListsUpTo(NumNeighbors, Node)
    BY <1>4, <2>2, <2>3, ListsUpToIntro, NumNeighborsAssumption
  <2> QED
    BY <1>4, <2>1, <2>3, <2>4 DEF C
<1> QED
  BY <1>6, <1>7

\* A merge keeps a neighbor at least as near as any candidate.
LEMMA MergeKeepsNearest ==
  ASSUME NEW n \in Node, NEW disk \in Seq(Node), NEW added \in Seq(Node),
         NEW mode \in Modes, NEW r \in MergeResults(n, disk, added, mode),
         NEW x \in CandidateSet(n, disk, added)
  PROVE  \E y \in Elems(r.list) : Rank[n][y] <= Rank[n][x]
<1> DEFINE C == CandidateSet(n, disk, added)
<1>1. PICK c \in Candidates(n, disk, added, mode) :
        IF Overflows(c, mode)
          THEN \E s \in PruneResults(n, C) : r = [pruned |-> TRUE, list |-> s]
          ELSE r = [pruned |-> FALSE, list |-> c]
  BY DEF MergeResults
<1>2. Elems(c) = C
  BY <1>1 DEF Candidates, Listings
<1>3. x \in Node
  BY DEF CandidateSet, Elems
<1>4. Rank[n][x] \in Nat
  BY <1>3, RankAssumption
<1> HIDE DEF C
<1>5. CASE Overflows(c, mode)
  <2>1. PICK s \in PruneResults(n, C) : r = [pruned |-> TRUE, list |-> s]
    BY <1>1, <1>5
  <2>2. s \in ListsUpTo(NumNeighbors, C) /\ s # << >> /\ Rank[n][s[1]] <= Rank[n][x]
    BY DEF PruneResults, C
  <2>3. s \in Seq(C)
    BY <2>2, ListsUpToFacts, NumNeighborsAssumption
  <2>4. 1 \in 1..Len(s)
    BY <2>2, <2>3
  <2>5. s[1] \in Elems(s)
    BY <2>4 DEF Elems
  <2> QED
    BY <2>1, <2>2, <2>5
<1>6. CASE ~Overflows(c, mode)
  BY <1>1, <1>2, <1>4, <1>6 DEF C
<1> QED
  BY <1>5, <1>6

\* To a caller that ignores the order of a list, an insertion's merge is the one
\* that module Insert takes as its step (merge_neighbors_on_disk for Disk).
THEOREM MergesAsSets ==
  ASSUME NEW n \in Node, NEW disk \in Seq(Node), NEW added \in Seq(Node),
         NEW r \in MergeResults(n, disk, added, "Disk")
  PROVE  Elems(r.list) \in MergedNeighbors(n, Elems(disk), Elems(added))
<1> DEFINE C == CandidateSet(n, disk, added)
<1>1. PICK c \in Candidates(n, disk, added, "Disk") :
        IF Overflows(c, "Disk")
          THEN \E s \in PruneResults(n, C) : r = [pruned |-> TRUE, list |-> s]
          ELSE r = [pruned |-> FALSE, list |-> c]
  BY DEF MergeResults
<1>2. c \in [1..Cardinality(C) -> C] /\ Elems(c) = C
  BY <1>1 DEF Candidates, Listings
<1>3. Cardinality(C) \in Nat /\ Len(c) = Cardinality(C)
  BY <1>2, FiniteCandidates
<1>4. MergedNeighbors(n, Elems(disk), Elems(added)) =
        IF Cardinality(C) > NumNeighbors
          THEN {S \in SUBSET C :
                  /\ Cardinality(S) <= NumNeighbors
                  /\ \E x \in S : \A y \in C : Rank[n][x] <= Rank[n][y]}
          ELSE {C}
  BY DEF MergedNeighbors, CandidateSet
<1> HIDE DEF C
<1>5. CASE Cardinality(C) > NumNeighbors
  <2>1. C # {}
    <3>1. Cardinality(C) # 0
      BY <1>3, <1>5, NumNeighborsAssumption
    <3> QED
      BY <3>1, FS_EmptySet, Zenon
  <2>2. PICK s \in PruneResults(n, C) : r = [pruned |-> TRUE, list |-> s]
    BY <1>1, <1>3, <1>5 DEF Overflows
  <2>3. s \in ListsUpTo(NumNeighbors, C)
    BY DEF PruneResults
  <2>4. s # << >> /\ \A y \in C : Rank[n][s[1]] <= Rank[n][y]
    BY <2>1 DEF PruneResults
  <2>5. s \in Seq(C) /\ Len(s) \in 0..NumNeighbors /\ Elems(s) \subseteq C
    BY <2>3, ListsUpToFacts, NumNeighborsAssumption
  <2>6. IsFiniteSet(1..Len(s)) /\ Cardinality(1..Len(s)) = Len(s)
    <3>1. Len(s) \in Nat
      BY <2>5
    <3>2. \A k \in Nat : IsFiniteSet(1..k) /\ Cardinality(1..k) = k
      BY FS_Interval
    <3> QED
      BY <3>1, <3>2
  <2>7. s \in Surjection(1..Len(s), Elems(s))
    BY <2>5 DEF Elems, Surjection
  <2>8. Cardinality(Elems(s)) <= Len(s) /\ Cardinality(Elems(s)) \in Nat
    BY <2>6, <2>7, FS_Surjection, FS_CardinalityType
  <2>9. 1 \in 1..Len(s)
    BY <2>4, <2>5
  <2>10. s[1] \in Elems(s)
    BY <2>9 DEF Elems
  <2>11. Cardinality(Elems(s)) <= NumNeighbors
    BY <2>5, <2>8, NumNeighborsAssumption
  <2> QED
    BY <1>4, <1>5, <2>2, <2>4, <2>5, <2>10, <2>11
<1>6. CASE ~(Cardinality(C) > NumNeighbors)
  BY <1>1, <1>2, <1>3, <1>4, <1>6 DEF Overflows
<1> QED
  BY <1>5, <1>6

--------------------------------------------------------------------------------
(***************************************************************************)
(* The inductive invariant                                                 *)
(***************************************************************************)

\* Between its snapshot and its validation a call holds a well-formed list,
\* and what it is about to write is a merge of that list with its additions.
LocalsMatch(o) ==
  /\ o.stage # "idle" => o.node \in Node
  /\ o.stage \in {"prune", "validate"} =>
       o.expected \in ListsUpTo(NumNeighbors, Node)
  /\ o.stage = "validate" =>
       [pruned |-> o.pruned, list |-> o.list] \in
         MergeResults(o.node, o.expected, o.added, o.mode)

IInv == TypeOK /\ WellFormed /\ \A b \in Backend : LocalsMatch(op[b])

\* The stored list of a node, as a list of nodes.
LEMMA WellFormedInNode ==
  ASSUME WellFormed, NEW n \in Node
  PROVE  /\ Adj(n) \in ListsUpTo(NumNeighbors, Node)
         /\ Adj(n) \in Seq(Node)
<1>1. /\ Adj(n) \in Seq(Node \ {n})
      /\ Len(Adj(n)) \in 0..NumNeighbors
      /\ NoRepeats(Adj(n))
  BY ListsUpToFacts, NumNeighborsAssumption DEF WellFormed
<1>2. Adj(n) \in Seq(Node)
  BY <1>1
<1> QED
  BY <1>1, <1>2, ListsUpToIntro, NumNeighborsAssumption

\* A validated replacement writes a merge of the list that is stored at that
\* moment, and touches no other node.
LEMMA ReplaceEffect ==
  ASSUME IInv, NEW b \in Backend, Replace(b), NEW n \in Node, op[b].node = n
  PROVE  /\ [pruned |-> op[b].pruned, list |-> op[b].list] \in
              MergeResults(n, Adj(n), op[b].added, op[b].mode)
         /\ op[b].list \in ListsUpTo(NumNeighbors, Node \ {n})
         /\ slots' \in [Node -> Slots]
         /\ Adj(n)' = op[b].list
         /\ \A m \in Node \ {n} : Adj(m)' = Adj(m)
<1> DEFINE list == op[b].list
           r == [pruned |-> op[b].pruned, list |-> list]
<1>1. r \in MergeResults(n, Adj(n), op[b].added, op[b].mode)
  BY DEF IInv, LocalsMatch, Replace
<1>2. /\ slots \in [Node -> Slots]
      /\ op[b].added \in Seq(Node) /\ op[b].mode \in Modes
  BY DEF IInv, TypeOK, Locals
<1>3. Adj(n) \in Seq(Node \ {n})
  BY ListsUpToFacts, NumNeighborsAssumption DEF IInv, WellFormed
<1>4. Adj(n) \in Seq(Node)
  BY <1>3
<1>5. /\ list \in ListsUpTo(NumNeighbors, Node \ {n})
      /\ list \in ListsUpTo(NumNeighbors, Node)
  <2>1. /\ r.list \in ListsUpTo(NumNeighbors, Node \ {n})
        /\ r.list \in ListsUpTo(NumNeighbors, Node)
    BY <1>1, <1>2, <1>4, MergeResultFacts
  <2> QED
    BY <2>1
<1>6. CASE Adj(n) = list
  <2>1. slots' = slots
    BY <1>6 DEF Replace
  <2> QED
    BY <1>1, <1>2, <1>5, <1>6, <2>1 DEF Adj
<1>7. CASE Adj(n) # list
  <2> DEFINE image == SetNeighbors(slots[n], list)
  <2>1. slots' = [slots EXCEPT ![n] = image]
    BY <1>7 DEF Replace, Write
  <2>2. image \in Slots /\ IterNeighbors(image) = list
    BY <1>2, <1>5, ReadBack
  <2> HIDE DEF image
  <2>3. slots' \in [Node -> Slots]
    BY <1>2, <2>1, <2>2
  <2>4. slots'[n] = image /\ \A m \in Node \ {n} : slots'[m] = slots[m]
    BY <1>2, <2>1
  <2> QED
    BY <1>1, <1>5, <2>2, <2>3, <2>4 DEF Adj
<1> QED
  BY <1>6, <1>7

LEMMA InvInit == Init => IInv
<1> SUFFICES ASSUME Init PROVE IInv
  OBVIOUS
<1>1. TypeOK
  BY EmptyReadsEmpty DEF Init, TypeOK, Idle, Locals, Stages, Modes
<1>2. WellFormed
  <2>1. ASSUME NEW n \in Node
        PROVE  Adj(n) \in ListsUpTo(NumNeighbors, Node \ {n})
    <3>1. Adj(n) = << >>
      BY EmptyReadsEmpty DEF Init, Adj
    <3>2. << >> \in [1..0 -> Node \ {n}] /\ NoRepeats(<< >>)
      BY DEF NoRepeats
    <3> QED
      BY <3>1, <3>2, NumNeighborsAssumption DEF ListsUpTo
  <2> QED
    BY <2>1 DEF WellFormed
<1>3. \A b \in Backend : LocalsMatch(op[b])
  BY DEF Init, Idle, LocalsMatch
<1> QED
  BY <1>1, <1>2, <1>3 DEF IInv

\* A step that only moves the call of b leaves the stored lists well-formed
\* and the other calls as they are.
LEMMA LocalStep ==
  ASSUME IInv, NEW b \in Backend, slots' = slots, tombstone' = tombstone,
         calls' \in [Backend -> Nat],
         NEW o \in Locals, LocalsMatch(o), op' = [op EXCEPT ![b] = o]
  PROVE  IInv'
<1>1. op'[b] = o /\ \A c \in Backend \ {b} : op'[c] = op[c]
  BY DEF IInv, TypeOK
<1>2. o.stage # "idle" => o.node \in Node
  BY DEF LocalsMatch
<1>3. TypeOK'
  BY <1>1, <1>2 DEF IInv, TypeOK
<1>4. WellFormed'
  BY DEF IInv, WellFormed, Adj
<1>5. \A c \in Backend : LocalsMatch(op[c])'
  BY <1>1 DEF IInv, LocalsMatch
<1> QED
  BY <1>3, <1>4, <1>5 DEF IInv

LEMMA InvNext == IInv /\ [Next]_vars => IInv'
<1> SUFFICES ASSUME IInv, [Next]_vars PROVE IInv'
  OBVIOUS
<1>0. /\ slots \in [Node -> Slots]
      /\ calls \in [Backend -> Nat]
      /\ tombstone \subseteq Node
      /\ op \in [Backend -> Locals]
      /\ \A b \in Backend : op[b] \in Locals /\ LocalsMatch(op[b])
  BY DEF IInv, TypeOK
<1>1. ASSUME NEW b \in Backend, NEW n \in Targets, NEW added \in Additions,
             NEW mode \in CallModes, Begin(b, n, added, mode)
      PROVE  IInv'
  <2> DEFINE o == [Idle EXCEPT !.stage = "snapshot", !.node = n,
                               !.added = added, !.mode = mode]
  <2>1. n \in Node /\ added \in Seq(Node) /\ mode \in Modes
    BY CallAssumption
  <2>2. o \in Locals
    <3>1. Idle \in Locals
      BY DEF Idle, Locals, Stages, Modes
    <3> QED
      BY <2>1, <3>1 DEF Locals, Stages
  <2>3. LocalsMatch(o)
    BY <2>1 DEF Idle, LocalsMatch
  <2>4. op' = [op EXCEPT ![b] = o] /\ slots' = slots /\ tombstone' = tombstone
    BY <1>1 DEF Begin
  <2>5. calls' \in [Backend -> Nat]
    BY <1>0, <1>1 DEF Begin
  <2> HIDE DEF o
  <2> QED
    BY <2>2, <2>3, <2>4, <2>5, LocalStep
<1>2. ASSUME NEW b \in Backend, Interrupt(b)
      PROVE  IInv'
  <2>1. op' = [op EXCEPT ![b] = Idle]
    BY <1>2 DEF Interrupt
  <2>2. slots' = slots /\ tombstone' = tombstone /\ calls' \in [Backend -> Nat]
    BY <1>0, <1>2 DEF Interrupt
  <2>3. Idle \in Locals
    BY DEF Idle, Locals, Stages, Modes
  <2>4. LocalsMatch(Idle)
    BY DEF Idle, LocalsMatch
  <2> QED
    BY <2>1, <2>2, <2>3, <2>4, LocalStep
<1>3. ASSUME NEW b \in Backend, Snapshot(b)
      PROVE  IInv'
  <2> DEFINE o == [op[b] EXCEPT !.stage = "prune", !.expected = Adj(op[b].node)]
  <2>1. op' = [op EXCEPT ![b] = o]
    BY <1>0, <1>3 DEF Snapshot
  <2>2. slots' = slots /\ tombstone' = tombstone /\ calls' \in [Backend -> Nat]
    BY <1>0, <1>3 DEF Snapshot
  <2>3. op[b].node \in Node
    BY <1>0, <1>3 DEF Snapshot, LocalsMatch
  <2>4. /\ Adj(op[b].node) \in ListsUpTo(NumNeighbors, Node)
        /\ Adj(op[b].node) \in Seq(Node)
    BY <2>3, WellFormedInNode DEF IInv
  <2>5. o \in Locals
    BY <1>0, <2>4 DEF Locals, Stages
  <2>6. LocalsMatch(o)
    BY <1>0, <2>3, <2>4 DEF LocalsMatch, Locals
  <2> HIDE DEF o
  <2> QED
    BY <2>1, <2>2, <2>5, <2>6, LocalStep
<1>4. ASSUME NEW b \in Backend, Prune(b)
      PROVE  IInv'
  <2>1. PICK r \in MergeResults(op[b].node, op[b].expected, op[b].added, op[b].mode) :
          op' = [op EXCEPT ![b].stage = "validate",
                           ![b].pruned = r.pruned, ![b].list = r.list]
    BY <1>4 DEF Prune
  <2> DEFINE o == [op[b] EXCEPT !.stage = "validate", !.pruned = r.pruned,
                                !.list = r.list]
  <2>2. op' = [op EXCEPT ![b] = o]
    BY <1>0, <2>1
  <2>3. slots' = slots /\ tombstone' = tombstone /\ calls' \in [Backend -> Nat]
    BY <1>0, <1>4 DEF Prune
  <2>4. /\ op[b].node \in Node
        /\ op[b].expected \in ListsUpTo(NumNeighbors, Node)
    BY <1>0, <1>4 DEF Prune, LocalsMatch
  <2>5. op[b].expected \in Seq(Node) /\ op[b].added \in Seq(Node) /\ op[b].mode \in Modes
    BY <1>0 DEF Locals
  <2>6. /\ r = [pruned |-> r.pruned, list |-> r.list]
        /\ r.pruned \in BOOLEAN /\ r.list \in Seq(Node)
    BY <2>4, <2>5, MergeResultFacts
  <2>7. o \in Locals
    BY <1>0, <2>6 DEF Locals, Stages
  <2>8. /\ o.stage = "validate" /\ o.node = op[b].node
        /\ o.expected = op[b].expected /\ o.added = op[b].added
        /\ o.mode = op[b].mode /\ o.pruned = r.pruned /\ o.list = r.list
    BY <1>0 DEF Locals
  <2> HIDE DEF o
  <2>9. LocalsMatch(o)
    BY <2>1, <2>4, <2>6, <2>8 DEF LocalsMatch
  <2> QED
    BY <2>2, <2>3, <2>7, <2>9, LocalStep
<1>5. ASSUME NEW b \in Backend, Replace(b)
      PROVE  IInv'
  <2> DEFINE o == [op[b] EXCEPT !.stage = "returned"]
  <2>1. PICK n \in Node : op[b].node = n /\ op[b].stage = "validate"
    BY <1>0, <1>5 DEF Replace, LocalsMatch
  <2>2. /\ op[b].list \in ListsUpTo(NumNeighbors, Node \ {n})
        /\ slots' \in [Node -> Slots]
        /\ Adj(n)' = op[b].list
        /\ \A m \in Node \ {n} : Adj(m)' = Adj(m)
    BY <1>5, <2>1, ReplaceEffect
  <2>3. op' = [op EXCEPT ![b] = o] /\ tombstone' = tombstone /\ calls' = calls
    BY <1>0, <1>5 DEF Replace, Return
  <2>4. o \in Locals /\ o.stage = "returned" /\ o.node \in Node
    BY <1>0, <2>1 DEF Locals, Stages
  <2> HIDE DEF o
  <2>5. op'[b] = o /\ \A c \in Backend \ {b} : op'[c] = op[c]
    BY <1>0, <2>3
  <2>6. TypeOK'
    BY <1>0, <2>2, <2>3, <2>4, <2>5 DEF IInv, TypeOK
  <2>7. WellFormed'
    BY <2>2 DEF IInv, WellFormed
  <2>8. \A c \in Backend : LocalsMatch(op[c])'
    BY <1>0, <2>4, <2>5 DEF LocalsMatch
  <2> QED
    BY <2>6, <2>7, <2>8 DEF IInv
<1>6. ASSUME NEW b \in Backend, Retry(b)
      PROVE  IInv'
  <2> DEFINE o == [op[b] EXCEPT !.stage = "snapshot"]
  <2>1. op' = [op EXCEPT ![b] = o]
    BY <1>0, <1>6 DEF Retry
  <2>2. slots' = slots /\ tombstone' = tombstone /\ calls' \in [Backend -> Nat]
    BY <1>0, <1>6 DEF Retry
  <2>3. o \in Locals
    BY <1>0 DEF Locals, Stages
  <2>4. LocalsMatch(o)
    BY <1>0, <1>6 DEF Retry, LocalsMatch, Locals
  <2> HIDE DEF o
  <2> QED
    BY <2>1, <2>2, <2>3, <2>4, LocalStep
<1>7. ASSUME NEW n \in Vacuumed, Tombstone(n)
      PROVE  IInv'
  <2>1. UNCHANGED << slots, op, calls >> /\ tombstone' \subseteq Node
    BY <1>0, <1>7, CallAssumption DEF Tombstone
  <2> QED
    BY <2>1 DEF IInv, TypeOK, WellFormed, Adj, LocalsMatch
<1>8. CASE UNCHANGED vars
  BY <1>8 DEF vars, IInv, TypeOK, WellFormed, Adj, LocalsMatch
<1> QED
  BY <1>1, <1>2, <1>3, <1>4, <1>5, <1>6, <1>7, <1>8 DEF Next

\* The invariant holds in every state of every behavior.
THEOREM Invariant == Spec => []IInv
  BY InvInit, InvNext, PTL DEF Spec

--------------------------------------------------------------------------------
(***************************************************************************)
(* Theorems                                                                *)
(***************************************************************************)

\* Every state of the model is well typed: no write resizes a neighbor array
\* or puts anything but nodes and the end mark into it.
THEOREM TypeCorrect == Spec => []TypeOK
<1>1. IInv => TypeOK
  BY DEF IInv
<1> QED
  BY <1>1, Invariant, PTL

\* Whatever updates follow each other, and however they interleave, a list
\* read back is one that was written whole.
THEOREM ListsWellFormed == Spec => []WellFormed
<1>1. IInv => WellFormed
  BY DEF IInv
<1> QED
  BY <1>1, Invariant, PTL

\* No list that try_set_neighbors_on_disk is given exceeds the array, whatever
\* the length of the cached list a build merges.
THEOREM ListsFit == Spec => []ListFits
<1>1. ASSUME IInv, NEW b \in Backend, op[b].stage = "validate"
      PROVE  Len(op[b].list) <= NumNeighbors
  <2> DEFINE r == [pruned |-> op[b].pruned, list |-> op[b].list]
  <2>1. /\ op[b].node \in Node /\ op[b].expected \in Seq(Node)
        /\ op[b].added \in Seq(Node) /\ op[b].mode \in Modes
    BY <1>1 DEF IInv, TypeOK, Locals
  <2>2. r \in MergeResults(op[b].node, op[b].expected, op[b].added, op[b].mode)
    BY <1>1 DEF IInv, LocalsMatch
  <2>3. r.list \in ListsUpTo(NumNeighbors, Node)
    BY <2>1, <2>2, MergeResultFacts
  <2>4. Len(r.list) \in 0..NumNeighbors
    BY <2>3, ListsUpToFacts, NumNeighborsAssumption
  <2> QED
    BY <2>4, NumNeighborsAssumption
<1>2. IInv => ListFits
  BY <1>1 DEF ListFits
<1> QED
  BY <1>2, Invariant, PTL

\* Only a validated replacement changes a stored list.
LEMMA ListsChangeByReplace ==
  ASSUME IInv, [Next]_vars, NEW n \in Node
  PROVE  \/ Adj(n)' = Adj(n)
         \/ \E b \in Backend : op[b].node = n /\ Replace(b)
<1>1. CASE slots' = slots
  BY <1>1 DEF Adj
<1>2. CASE slots' # slots
  <2>1. PICK b \in Backend : Replace(b)
    BY <1>2 DEF Next, vars, Begin, Interrupt, Snapshot, Prune, Retry, Tombstone
  <2>2. CASE op[b].node = n
    BY <2>1, <2>2
  <2>3. CASE op[b].node # n
    <3>1. op[b].node \in Node
      BY <2>1 DEF IInv, TypeOK, Replace
    <3> QED
      BY <2>1, <2>3, <3>1, ReplaceEffect
  <2> QED
    BY <2>2, <2>3
<1> QED
  BY <1>1, <1>2

\* No update is lost: an edge disappears only in the validated replacement of
\* a call whose candidates exceed the degree bound, or of an eviction.
THEOREM NoLostUpdates == Spec => EdgesLostOnlyByPruning
<1> DEFINE LostByPruning ==
      \A n \in Node : Elems(Adj(n)) \subseteq Elems(Adj(n)') \/
         \E b \in Backend :
           /\ op[b].stage = "validate" /\ op[b].node = n
           /\ \/ op[b].mode = "Evict"
              \/ Cardinality(CandidateSet(n, Adj(n), op[b].added)) > NumNeighbors
<1>1. ASSUME IInv, [Next]_vars PROVE LostByPruning
  <2>1. ASSUME NEW n \in Node, NEW b \in Backend, op[b].node = n, Replace(b)
        PROVE  \/ Elems(Adj(n)) \subseteq Elems(Adj(n)')
               \/ op[b].mode = "Evict"
               \/ Cardinality(CandidateSet(n, Adj(n), op[b].added)) > NumNeighbors
    <3> DEFINE r == [pruned |-> op[b].pruned, list |-> op[b].list]
    <3>1. r \in MergeResults(n, Adj(n), op[b].added, op[b].mode) /\ Adj(n)' = r.list
      BY <1>1, <2>1, ReplaceEffect
    <3>2. op[b].added \in Seq(Node) /\ op[b].mode \in Modes
      BY <1>1 DEF IInv, TypeOK, Locals
    <3>3. Adj(n) \in Seq(Node) /\ n \notin Elems(Adj(n))
      <4>1. Adj(n) \in ListsUpTo(NumNeighbors, Node \ {n})
        BY <1>1 DEF IInv, WellFormed
      <4>2. Elems(Adj(n)) \subseteq Node \ {n}
        BY <4>1, ListsUpToFacts, NumNeighborsAssumption
      <4> QED
        BY <1>1, <4>2, WellFormedInNode DEF IInv
    <3>4. Elems(Adj(n)) \subseteq CandidateSet(n, Adj(n), op[b].added)
      BY <3>3 DEF CandidateSet
    <3>5. \/ Elems(r.list) = CandidateSet(n, Adj(n), op[b].added)
          \/ op[b].mode = "Evict"
          \/ Cardinality(CandidateSet(n, Adj(n), op[b].added)) > NumNeighbors
      BY <3>1, <3>2, <3>3, MergeResultFacts
    <3> QED
      BY <3>1, <3>4, <3>5
  <2>2. ASSUME NEW n \in Node, Adj(n)' = Adj(n)
        PROVE  Elems(Adj(n)) \subseteq Elems(Adj(n)')
    BY <2>2
  <2> QED
    BY <1>1, <2>1, <2>2, ListsChangeByReplace DEF Replace
<1>2. IInv /\ [Next]_vars => [LostByPruning]_vars
  BY <1>1
<1>3. Spec => [][LostByPruning]_vars
  <2> HIDE DEF LostByPruning
  <2> QED
    BY <1>2, Invariant, PTL DEF Spec
<1> QED
  BY <1>3 DEF EdgesLostOnlyByPruning

\* Every neighbor a node has is, after any step, matched by one at least as
\* near, whatever prune_neighbors drops.
THEOREM NearestKept == Spec => NearestNeverFarther
<1> DEFINE Kept == \A n \in Node : \A x \in Elems(Adj(n)) :
                     \E y \in Elems(Adj(n)') : Rank[n][y] <= Rank[n][x]
<1>1. ASSUME IInv, [Next]_vars PROVE Kept
  <2> SUFFICES ASSUME NEW n \in Node, NEW x \in Elems(Adj(n))
               PROVE  \E y \in Elems(Adj(n)') : Rank[n][y] <= Rank[n][x]
    OBVIOUS
  <2>1. Adj(n) \in Seq(Node) /\ x \in Node \ {n}
    <3>1. Adj(n) \in ListsUpTo(NumNeighbors, Node \ {n})
      BY <1>1 DEF IInv, WellFormed
    <3>2. Elems(Adj(n)) \subseteq Node \ {n}
      BY <3>1, ListsUpToFacts, NumNeighborsAssumption
    <3> QED
      BY <1>1, <3>2, WellFormedInNode DEF IInv
  <2>2. Rank[n][x] \in Nat
    BY <2>1, RankAssumption
  <2>3. CASE Adj(n)' = Adj(n)
    BY <2>2, <2>3
  <2>4. ASSUME NEW b \in Backend, op[b].node = n, Replace(b)
        PROVE  \E y \in Elems(Adj(n)') : Rank[n][y] <= Rank[n][x]
    <3> DEFINE r == [pruned |-> op[b].pruned, list |-> op[b].list]
    <3>1. r \in MergeResults(n, Adj(n), op[b].added, op[b].mode) /\ Adj(n)' = r.list
      BY <1>1, <2>4, ReplaceEffect
    <3>2. op[b].added \in Seq(Node) /\ op[b].mode \in Modes
      BY <1>1 DEF IInv, TypeOK, Locals
    <3>3. x \in CandidateSet(n, Adj(n), op[b].added)
      BY <2>1 DEF CandidateSet
    <3>4. \E y \in Elems(r.list) : Rank[n][y] <= Rank[n][x]
      BY <2>1, <3>1, <3>2, <3>3, MergeKeepsNearest
    <3> QED
      BY <3>1, <3>4
  <2> QED
    BY <1>1, <2>3, <2>4, ListsChangeByReplace
<1>2. IInv /\ [Next]_vars => [Kept]_vars
  BY <1>1
<1>3. Spec => [][Kept]_vars
  <2> HIDE DEF Kept
  <2> QED
    BY <1>2, Invariant, PTL DEF Spec
<1> QED
  BY <1>3 DEF NearestNeverFarther

--------------------------------------------------------------------------------
(***************************************************************************)
(* Refinement of AtomicMerge: Begin is its Call, Replace its Merge,        *)
(* Interrupt its Cancel, and the other steps of a call are stutters.       *)
(***************************************************************************)

\* The call of AtomicMerge that the locals stand for.
LEMMA AbstractCallOf ==
  ASSUME NEW o \in Locals
  PROVE  /\ o.stage = "idle" => AbstractCall(o) = NoCall
         /\ o.stage \in Running =>
              AbstractCall(o) = [node |-> o.node, added |-> o.added, mode |-> o.mode]
         /\ o.stage = "returned" =>
              AbstractCall(o) = [node |-> o.node, pruned |-> o.pruned, list |-> o.list]
  BY DEF AbstractCall, Locals, Running, Stages

\* What one process does to its call, seen by the others.
LEMMA AbstractCallUpdate ==
  ASSUME op \in [Backend -> Locals], NEW b \in Backend, NEW o,
         op' = [op EXCEPT ![b] = o]
  PROVE  [c \in Backend |-> AbstractCall(op[c])]' =
           [[c \in Backend |-> AbstractCall(op[c])] EXCEPT ![b] = AbstractCall(o)]
<1>1. op'[b] = o /\ \A c \in Backend \ {b} : op'[c] = op[c]
  OBVIOUS
<1>2. /\ AbstractCall(op'[b]) = AbstractCall(o)
      /\ \A c \in Backend \ {b} : AbstractCall(op'[c]) = AbstractCall(op[c])
  BY <1>1
<1> QED
  BY <1>2

LEMMA RefineInit == Init => AM!Init
<1> SUFFICES ASSUME Init PROVE AM!Init
  OBVIOUS
<1>1. \A n \in Node : Adj(n) = << >>
  BY EmptyReadsEmpty DEF Init, Adj
<1>2. Idle \in Locals
  BY DEF Idle, Locals, Stages, Modes
<1>3. \A b \in Backend : AbstractCall(op[b]) = NoCall
  BY <1>2, AbstractCallOf DEF Init, Idle
<1> QED
  BY <1>1, <1>3 DEF Init, AM!Init

LEMMA RefineNext == IInv /\ [Next]_vars => [AM!Next]_AM!vars
<1> SUFFICES ASSUME IInv, [Next]_vars PROVE [AM!Next]_AM!vars
  OBVIOUS
<1> DEFINE adj == [n \in Node |-> Adj(n)]
           cl == [b \in Backend |-> AbstractCall(op[b])]
<1>0. /\ op \in [Backend -> Locals]
      /\ \A b \in Backend : op[b] \in Locals /\ LocalsMatch(op[b])
  BY DEF IInv, TypeOK
<1>a. slots' = slots => adj' = adj
  BY DEF Adj
<1>1. ASSUME NEW b \in Backend, NEW n \in Targets, NEW added \in Additions,
             NEW mode \in CallModes, Begin(b, n, added, mode)
      PROVE  AM!Next
  <2> DEFINE o == [Idle EXCEPT !.stage = "snapshot", !.node = n,
                               !.added = added, !.mode = mode]
             c == [node |-> n, added |-> added, mode |-> mode]
  <2>1. n \in Node /\ added \in Seq(Node) /\ mode \in Modes
    BY CallAssumption
  <2>2. o \in Locals /\ o.stage = "snapshot" /\ o.node = n /\ o.added = added /\ o.mode = mode
    <3>1. Idle \in Locals
      BY DEF Idle, Locals, Stages, Modes
    <3> QED
      BY <2>1, <3>1 DEF Locals, Stages
  <2>3. op' = [op EXCEPT ![b] = o] /\ slots' = slots /\ tombstone' = tombstone
    BY <1>1 DEF Begin
  <2> HIDE DEF o
  <2>4. AbstractCall(o) = c
    BY <2>2, AbstractCallOf DEF Running
  <2>5. c \in AM!Calls
    BY <2>1 DEF AM!Calls
  <2> HIDE DEF c
  <2>6. cl' = [cl EXCEPT ![b] = c]
    BY <1>0, <2>3, <2>4, AbstractCallUpdate
  <2>7. cl[b] \notin AM!Calls
    <3>1. op[b] \in Locals /\ op[b].stage \in {"idle", "returned"}
      BY <1>0, <1>1 DEF Begin
    <3>2. CASE op[b].stage = "idle"
      BY <3>1, <3>2, AbstractCallOf, NoCallAssumption DEF AM!Calls
    <3>3. CASE op[b].stage = "returned"
      <4>1. cl[b] = [node |-> op[b].node, pruned |-> op[b].pruned, list |-> op[b].list]
        BY <3>1, <3>3, AbstractCallOf
      <4>2. "added" \notin DOMAIN cl[b]
        BY <4>1
      <4>3. \A x \in AM!Calls : "added" \in DOMAIN x
        BY DEF AM!Calls
      <4> QED
        BY <4>2, <4>3
    <3> QED
      BY <3>1, <3>2, <3>3
  <2>8. cl'[b] = c
    BY <2>6
  <2>9. AM!Call(b)
    BY <1>a, <2>3, <2>5, <2>6, <2>7, <2>8 DEF AM!Call
  <2> QED
    BY <2>9 DEF AM!Next
<1>2. ASSUME NEW b \in Backend, Interrupt(b)
      PROVE  AM!Next
  <2>1. op' = [op EXCEPT ![b] = Idle] /\ slots' = slots /\ tombstone' = tombstone
    BY <1>2 DEF Interrupt
  <2>2. AbstractCall(Idle) = NoCall
    <3>1. Idle \in Locals /\ Idle.stage = "idle"
      BY DEF Idle, Locals, Stages, Modes
    <3> QED
      BY <3>1, AbstractCallOf
  <2>3. cl' = [cl EXCEPT ![b] = NoCall]
    BY <1>0, <2>1, <2>2, AbstractCallUpdate
  <2>4. cl[b] \in AM!Calls
    <3>1. op[b] \in Locals /\ op[b].stage = "snapshot" /\ op[b].node \in Node
      BY <1>0, <1>2 DEF Interrupt, LocalsMatch
    <3>2. cl[b] = [node |-> op[b].node, added |-> op[b].added, mode |-> op[b].mode]
      BY <3>1, AbstractCallOf DEF Running
    <3> QED
      BY <3>1, <3>2 DEF AM!Calls, Locals
  <2>5. AM!Cancel(b)
    BY <1>a, <2>1, <2>3, <2>4 DEF AM!Cancel
  <2> QED
    BY <2>5 DEF AM!Next
<1>3. ASSUME NEW b \in Backend, NEW o \in Locals, op' = [op EXCEPT ![b] = o],
             slots' = slots, tombstone' = tombstone,
             op[b].stage \in Running, o.stage \in Running,
             o.node = op[b].node, o.added = op[b].added, o.mode = op[b].mode
      PROVE  UNCHANGED AM!vars
  <2>1. AbstractCall(o) = AbstractCall(op[b])
    BY <1>0, <1>3, AbstractCallOf
  <2>2. cl' = [cl EXCEPT ![b] = AbstractCall(op[b])]
    BY <1>0, <1>3, <2>1, AbstractCallUpdate
  <2>3. cl' = cl
    BY <2>2
  <2> QED
    BY <1>a, <1>3, <2>3 DEF AM!vars
<1>4. ASSUME NEW b \in Backend, Snapshot(b)
      PROVE  UNCHANGED AM!vars
  <2> DEFINE o == [op[b] EXCEPT !.stage = "prune", !.expected = Adj(op[b].node)]
  <2>1. op' = [op EXCEPT ![b] = o] /\ slots' = slots /\ tombstone' = tombstone
    BY <1>0, <1>4 DEF Snapshot
  <2>2. op[b].stage = "snapshot" /\ op[b].node \in Node
    BY <1>0, <1>4 DEF Snapshot, LocalsMatch
  <2>3. Adj(op[b].node) \in Seq(Node)
    BY <2>2, WellFormedInNode DEF IInv
  <2>4. /\ o \in Locals /\ o.stage = "prune" /\ o.node = op[b].node
        /\ o.added = op[b].added /\ o.mode = op[b].mode
    BY <1>0, <2>3 DEF Locals, Stages
  <2> HIDE DEF o
  <2> QED
    BY <1>3, <2>1, <2>2, <2>4 DEF Running
<1>5. ASSUME NEW b \in Backend, Prune(b)
      PROVE  UNCHANGED AM!vars
  <2>1. PICK r \in MergeResults(op[b].node, op[b].expected, op[b].added, op[b].mode) :
          op' = [op EXCEPT ![b].stage = "validate",
                           ![b].pruned = r.pruned, ![b].list = r.list]
    BY <1>5 DEF Prune
  <2> DEFINE o == [op[b] EXCEPT !.stage = "validate", !.pruned = r.pruned,
                                !.list = r.list]
  <2>2. op' = [op EXCEPT ![b] = o] /\ slots' = slots /\ tombstone' = tombstone
    BY <1>0, <1>5, <2>1 DEF Prune
  <2>3. op[b].stage = "prune" /\ op[b].node \in Node
    BY <1>0, <1>5 DEF Prune, LocalsMatch
  <2>4. op[b].expected \in Seq(Node) /\ op[b].added \in Seq(Node) /\ op[b].mode \in Modes
    BY <1>0 DEF Locals
  <2>5. r.pruned \in BOOLEAN /\ r.list \in Seq(Node)
    BY <2>3, <2>4, MergeResultFacts
  <2>6. /\ o \in Locals /\ o.stage = "validate" /\ o.node = op[b].node
        /\ o.added = op[b].added /\ o.mode = op[b].mode
    BY <1>0, <2>5 DEF Locals, Stages
  <2> HIDE DEF o
  <2> QED
    BY <1>3, <2>2, <2>3, <2>6 DEF Running
<1>6. ASSUME NEW b \in Backend, Replace(b)
      PROVE  AM!Next
  <2> DEFINE o == [op[b] EXCEPT !.stage = "returned"]
             r == [pruned |-> op[b].pruned, list |-> op[b].list]
  <2>1. PICK n \in Node : op[b].node = n /\ op[b].stage = "validate"
    BY <1>0, <1>6 DEF Replace, LocalsMatch
  <2>2. /\ r \in MergeResults(n, Adj(n), op[b].added, op[b].mode)
        /\ Adj(n)' = r.list
        /\ \A m \in Node \ {n} : Adj(m)' = Adj(m)
    BY <1>6, <2>1, ReplaceEffect
  <2>3. op' = [op EXCEPT ![b] = o] /\ tombstone' = tombstone
    BY <1>0, <1>6 DEF Replace, Return
  <2>4. /\ o \in Locals /\ o.stage = "returned" /\ o.node = n
        /\ o.pruned = r.pruned /\ o.list = r.list
    BY <1>0, <2>1 DEF Locals, Stages
  <2> HIDE DEF o
  <2>5. AbstractCall(o) = [node |-> n, pruned |-> r.pruned, list |-> r.list]
    BY <2>4, AbstractCallOf
  <2>6. cl' = [cl EXCEPT ![b] = [node |-> n, pruned |-> r.pruned, list |-> r.list]]
    BY <1>0, <2>3, <2>5, AbstractCallUpdate
  <2>7. cl[b] = [node |-> n, added |-> op[b].added, mode |-> op[b].mode]
    BY <1>0, <2>1, AbstractCallOf DEF Running
  <2>8. cl[b] \in AM!Calls
    BY <1>0, <2>7 DEF AM!Calls, Locals
  <2>9. adj' = [adj EXCEPT ![n] = r.list]
    BY <2>2
  <2>10. AM!Merge(b)
    <3>1. cl[b].node = n /\ cl[b].added = op[b].added /\ cl[b].mode = op[b].mode
      BY <2>7
    <3>2. r \in MergeResults(n, adj[n], cl[b].added, cl[b].mode)
      BY <2>2, <3>1
    <3> HIDE DEF adj, cl, r
    <3> QED
      BY <2>3, <2>6, <2>8, <2>9, <3>1, <3>2 DEF AM!Merge, adj, cl
  <2> QED
    BY <2>10 DEF AM!Next
<1>7. ASSUME NEW b \in Backend, Retry(b)
      PROVE  UNCHANGED AM!vars
  <2> DEFINE o == [op[b] EXCEPT !.stage = "snapshot"]
  <2>1. op' = [op EXCEPT ![b] = o] /\ slots' = slots /\ tombstone' = tombstone
    BY <1>0, <1>7 DEF Retry
  <2>2. /\ o \in Locals /\ o.stage = "snapshot" /\ o.node = op[b].node
        /\ o.added = op[b].added /\ o.mode = op[b].mode
    BY <1>0 DEF Locals, Stages
  <2>3. op[b].stage = "validate"
    BY <1>7 DEF Retry
  <2> HIDE DEF o
  <2> QED
    BY <1>3, <2>1, <2>2, <2>3 DEF Running
<1>8. ASSUME NEW n \in Vacuumed, Tombstone(n)
      PROVE  AM!Next
  <2>1. n \in Node /\ tombstone' = tombstone \cup {n} /\ slots' = slots /\ op' = op
    BY <1>8, CallAssumption DEF Tombstone
  <2>2. cl' = cl
    BY <2>1
  <2>3. AM!Tombstone(n)
    BY <1>a, <2>1, <2>2 DEF AM!Tombstone
  <2> QED
    BY <2>1, <2>3 DEF AM!Next
<1>9. CASE UNCHANGED vars
  <2>1. cl' = cl
    BY <1>9 DEF vars
  <2> QED
    BY <1>9, <1>a, <2>1 DEF vars, AM!vars
<1> QED
  BY <1>1, <1>2, <1>4, <1>5, <1>6, <1>7, <1>8, <1>9 DEF Next

\* merge_neighbors_on_disk with validated replacement is linearizable: the
\* calls, their answers and the lists behave as if each call were one step.
THEOREM AtomicMergeRefinement == Spec => ImplementsAtomicMerge
  BY RefineInit, RefineNext, Invariant, PTL DEF Spec, AM!Spec, ImplementsAtomicMerge
================================================================================
