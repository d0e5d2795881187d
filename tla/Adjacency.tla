------------------------------- MODULE Adjacency -------------------------------
(***************************************************************************)
(* Concurrent updates of the neighbor lists stored on disk:                *)
(* Graph::merge_neighbors_on_disk with Storage::try_set_neighbors_on_disk, *)
(* the only code that replaces a stored list, beside VACUUM's tombstones.  *)
(*                                                                         *)
(* A call copies the list under the page's share lock, prunes the          *)
(* candidates without any lock and, under the exclusive lock, replaces the *)
(* list only if it still is the one copied; otherwise it starts over with  *)
(* the additions it was called with.  Each page lock scope is one action.  *)
(***************************************************************************)
EXTENDS NodePage

CONSTANTS
  Backend,    \* processes that insert or build
  NoCall,
  Additions,  \* neighbor lists a caller may add
  Targets,    \* nodes whose lists are updated
  CallModes,  \* merge modes in use
  Vacuumed,   \* nodes VACUUM may find dead
  MaxCalls    \* bound: calls per backend

ASSUME CallAssumption ==
  /\ Additions \subseteq Seq(Node)
  /\ Targets \subseteq Node
  /\ CallModes \subseteq Modes
  /\ Vacuumed \subseteq Node
  /\ MaxCalls \in Nat

\* NoCall is no call of AtomicMerge.
ASSUME NoCallAssumption == NoCall \notin [node : Node, added : Seq(Node), mode : Modes]

VARIABLES
  slots,      \* the neighbor array of every stored node
  tombstone,  \* nodes whose heap pointer is invalid (is_deleted)
  op,         \* the call each backend executes
  calls       \* number of calls each backend has made (bounded by MaxCalls)

vars == << slots, tombstone, op, calls >>

Adj(n) == IterNeighbors(slots[n])

\* The locals of merge_neighbors_on_disk.  stage is "idle" before the first
\* call and after a cancelled one, "returned" when the caller has the answer.
Stages == {"idle", "snapshot", "prune", "validate", "returned"}
Running == {"snapshot", "prune", "validate"}
Locals == [stage : Stages, node : Node \cup {InvalidPointer},
           added : Seq(Node), mode : Modes, expected : Seq(Node),
           pruned : BOOLEAN, list : Seq(Node)]
Idle == [stage |-> "idle", node |-> InvalidPointer, added |-> << >>,
         mode |-> "Disk", expected |-> << >>, pruned |-> FALSE, list |-> << >>]

--------------------------------------------------------------------------------
Init ==
  /\ slots = [n \in Node |-> EmptySlots]
  /\ tombstone = {}
  /\ op = [b \in Backend |-> Idle]
  /\ calls = [b \in Backend |-> 0]

Begin(b, n, added, mode) ==
  /\ op[b].stage \in {"idle", "returned"}
  /\ calls[b] < MaxCalls
  /\ op' = [op EXCEPT ![b] = [Idle EXCEPT !.stage = "snapshot", !.node = n,
                                          !.added = added, !.mode = mode]]
  /\ calls' = [calls EXCEPT ![b] = @ + 1]
  /\ UNCHANGED << slots, tombstone >>

\* check_for_interrupts at the head of the loop: the statement is cancelled.
Interrupt(b) ==
  /\ op[b].stage = "snapshot"
  /\ op' = [op EXCEPT ![b] = Idle]
  /\ UNCHANGED << slots, tombstone, calls >>

Snapshot(b) ==
  /\ op[b].stage = "snapshot"
  /\ op' = [op EXCEPT ![b].stage = "prune", ![b].expected = Adj(op[b].node)]
  /\ UNCHANGED << slots, tombstone, calls >>

\* Only immutable data (vectors, labels) of other nodes is read here.
Prune(b) ==
  /\ op[b].stage = "prune"
  /\ \E r \in MergeResults(op[b].node, op[b].expected, op[b].added, op[b].mode) :
       op' = [op EXCEPT ![b].stage = "validate",
                        ![b].pruned = r.pruned, ![b].list = r.list]
  /\ UNCHANGED << slots, tombstone, calls >>

--------------------------------------------------------------------------------
(***************************************************************************)
(* try_set_neighbors_on_disk, under the exclusive lock of the node's page  *)
(***************************************************************************)
Write(b, image) ==
  slots' = [slots EXCEPT ![op[b].node] = image]

Return(b) == op' = [op EXCEPT ![b].stage = "returned"]

\* Replace without comparing the stored list with the snapshot.
ReplaceUnvalidated(b) ==
  /\ op[b].stage = "validate"
  /\ Write(b, SetNeighbors(slots[op[b].node], op[b].list))
  /\ Return(b)
  /\ UNCHANGED << tombstone, calls >>

Replace(b) ==
  /\ op[b].stage = "validate"
  /\ Adj(op[b].node) = op[b].expected
  /\ IF Adj(op[b].node) = op[b].list
       THEN UNCHANGED slots
       ELSE Write(b, SetNeighbors(slots[op[b].node], op[b].list))
  /\ Return(b)
  /\ UNCHANGED << tombstone, calls >>

\* Retries that lose the caller's additions, or keep the old snapshot.
RetryFromPruned(b) ==
  /\ op[b].stage = "validate"
  /\ Adj(op[b].node) # op[b].expected
  /\ op' = [op EXCEPT ![b].stage = "snapshot", ![b].added = op[b].list]
  /\ UNCHANGED << slots, tombstone, calls >>

RetryFromOldSnapshot(b) ==
  /\ op[b].stage = "validate"
  /\ Adj(op[b].node) # op[b].expected
  /\ op' = [op EXCEPT ![b].stage = "prune"]
  /\ UNCHANGED << slots, tombstone, calls >>

Retry(b) ==
  /\ op[b].stage = "validate"
  /\ Adj(op[b].node) # op[b].expected
  /\ op' = [op EXCEPT ![b].stage = "snapshot"]
  /\ UNCHANGED << slots, tombstone, calls >>

\* bulk_delete_for_storage on one node: only the heap pointer is invalidated.
Tombstone(n) ==
  /\ n \notin tombstone
  /\ tombstone' = tombstone \cup {n}
  /\ UNCHANGED << slots, op, calls >>

Next ==
  \/ \E b \in Backend :
       \/ \E n \in Targets, added \in Additions, mode \in CallModes :
            Begin(b, n, added, mode)
       \/ Interrupt(b)
       \/ Snapshot(b)
       \/ Prune(b)
       \/ Replace(b)
       \/ Retry(b)
  \/ \E n \in Vacuumed : Tombstone(n)

Spec == Init /\ [][Next]_vars

\* A backend inside the loop keeps running; nothing makes it call or be
\* cancelled, and VACUUM need not come.
FairSpec ==
  /\ Spec
  /\ \A b \in Backend : WF_vars(Snapshot(b) \/ Prune(b) \/ Replace(b) \/ Retry(b))

--------------------------------------------------------------------------------
(***************************************************************************)
(* Properties                                                              *)
(***************************************************************************)

TypeOK ==
  /\ slots \in [Node -> Slots]
  /\ tombstone \subseteq Node
  /\ calls \in [Backend -> Nat]
  /\ op \in [Backend -> Locals]
  /\ \A b \in Backend : op[b].stage # "idle" => op[b].node \in Node

\* A list read from disk never shows what an earlier, longer list left behind
\* its mark, never names a node twice and never names the node itself, whatever
\* updates of different lengths follow each other (set_neighbors, num_neighbors
\* and the seen set of merge_neighbors_on_disk).
WellFormed ==
  \A n \in Node : Adj(n) \in ListsUpTo(NumNeighbors, Node \ {n})

\* The list try_set_neighbors_on_disk is given fits the array it is written to
\* (its assertion), also when a build's cache entry holds more neighbors.
ListFits == \A b \in Backend : op[b].stage = "validate" => Len(op[b].list) <= NumNeighbors

\* A list update never loses what another update wrote meanwhile: an edge
\* disappears only in the step of a call whose candidates, the stored list
\* included, exceed the degree bound, or of a cache eviction, which always
\* prunes (CONCURRENCY.md: validation prevents stale replacement, not pruning).
EdgesLostOnlyByPruning ==
  [][\A n \in Node : Elems(Adj(n)) \subseteq Elems(Adj(n)') \/
       \E b \in Backend :
         /\ op[b].stage = "validate" /\ op[b].node = n
         /\ \/ op[b].mode = "Evict"
            \/ Cardinality(CandidateSet(n, Adj(n), op[b].added)) > NumNeighbors]_vars

\* The distance from a node to the nearest of its neighbors never grows: for
\* every neighbor a node has, it keeps one at least as near through every
\* update, also when calls of several backends race (sorting in
\* prune_neighbors, validated replacement).
NearestNeverFarther ==
  [][\A n \in Node : \A x \in Elems(Adj(n)) :
       \E y \in Elems(Adj(n)') : Rank[n][y] <= Rank[n][x]]_vars

\* With boundedly many calls every call comes to an end: a failed validation
\* means that another call succeeded, and the retry sees what that one wrote.
CallsTerminate ==
  \A b \in Backend :
    (op[b].stage \in Running) ~> (op[b].stage \in {"idle", "returned"})

(***************************************************************************)
(* Every call takes effect in one step: the one that replaces the list, or *)
(* finds the list to be the wanted one already.                            *)
(***************************************************************************)
AbstractCall(o) ==
  CASE o.stage = "idle" -> NoCall
    [] o.stage \in Running -> [node |-> o.node, added |-> o.added, mode |-> o.mode]
    [] o.stage = "returned" -> [node |-> o.node, pruned |-> o.pruned, list |-> o.list]

AM == INSTANCE AtomicMerge WITH
        adjacency <- [n \in Node |-> Adj(n)],
        call <- [b \in Backend |-> AbstractCall(op[b])]

\* merge_neighbors_on_disk is atomic: the answer a caller gets and the list on
\* disk are those of one indivisible merge with the then current list.
ImplementsAtomicMerge == AM!Spec
================================================================================
