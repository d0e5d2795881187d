---------------------------------- MODULE Scan ----------------------------------
(***************************************************************************)
(* Index scans (scan.rs) while rows are inserted and deleted and VACUUM    *)
(* (vacuum.rs) tombstones index nodes and frees heap slots for new rows.   *)
(*                                                                         *)
(* A row is named by its index node.  An insertion's work on the graph is  *)
(* one step here, as module Insert shows what it leaves: every committed   *)
(* row can be reached from the default root, and from the root of each of  *)
(* its labels.  PostgreSQL's part is the heap: a scan sees the rows        *)
(* committed when it began and not yet deleted, and a slot is freed only   *)
(* if no scan can see its row and the index has been through ambulkdelete. *)
(* A scan may be restarted, with another query, as the inner side of a     *)
(* join is.                                                                *)
(***************************************************************************)
EXTENDS Naturals, FiniteSets

CONSTANTS
  Node,             \* rows, by the pointer of their index node
  Slot,             \* heap slots (HeapPointer)
  Scanner,
  BlockOf,          \* the index page of each node
  Label, DefaultRoot,
  LabelsOf,         \* the labels of each row
  Filters,          \* what queries ask for: {DefaultRoot}, any row, or one of some labels
  NoNode, NoSlot, NoBlock,
  SearchListSize,   \* diskann.query_search_list_size
  ResortSize,       \* diskann.query_rescore; 0 if the scan does not resort
  CopiesWhenFound   \* the plain storage

INSTANCE StartNodes

ASSUME ScanAssumption ==
  /\ IsFiniteSet(Node)
  /\ NoNode \notin Node /\ NoSlot \notin Slot /\ NoBlock \notin Nat
  /\ BlockOf \in [Node -> Nat]
  /\ DefaultRoot \notin Label /\ LabelsOf \in [Node -> SUBSET Label]
  /\ SearchListSize \in Nat \ {0} /\ ResortSize \in Nat
  /\ CopiesWhenFound \in BOOLEAN
  /\ {DefaultRoot} \in Filters /\ Filters \subseteq {{DefaultRoot}} \cup SUBSET Label
  /\ CopiesWhenFound => Filters = {{DefaultRoot}}

VARIABLES
  heap,    \* the row in each slot
  status,  \* what became of each row's transaction
  entry,   \* the heap pointer in each index node; NoSlot if deleted or not written
  adj,     \* neighbors
  roots,   \* the start nodes
  scan,    \* the scan of each scanner
  vacuum   \* the ambulkdelete in progress and its IndexBulkDeleteResult

vars == << heap, status, entry, adj, roots, scan, vacuum >>

\* A row with the heap pointer that was read from its index node.
Item == [node : Node, slot : Slot]
NoItem == [node |-> NoNode, slot |-> NoSlot]

\* The rows of S that a filter lets through.
Matching(f, S) == {n \in S : (LabelsOf[n] \cup {DefaultRoot}) \cap f # {}}

\* lsr (query is what it searches by, inserted is all that was ever found, links and slotOf what the plain
\* storage copied), the resort buffer, the item on its way to the executor,
\* last_buffer, and the executor's results.
Scans == [stage : {"idle", "search", "resort", "pin", "fetch", "returned", "done", "ended"},
          snapshot : SUBSET Node, filter : Filters, query : Filters, inserted : SUBSET Node,
          pending : SUBSET Node, frontier : SUBSET Node, visited : SUBSET Node,
          links : [Node -> SUBSET Node], slotOf : [Node -> Slot \cup {NoSlot}],
          buffer : SUBSET Item, item : Item \cup {NoItem},
          pin : Nat \cup {NoBlock}, results : SUBSET Node]

NoScan == [stage |-> "idle", snapshot |-> {}, filter |-> {DefaultRoot},
           query |-> {DefaultRoot}, inserted |-> {}, pending |-> {}, frontier |-> {},
           visited |-> {}, links |-> [n \in Node |-> {}],
           slotOf |-> [n \in Node |-> NoSlot], buffer |-> {}, item |-> NoItem,
           pin |-> NoBlock, results |-> {}]

Vacuums == [stage : {"idle", "pass", "heap"}, dead : SUBSET Slot, block : Nat,
            nblocks : Nat, removed : Nat, kept : Nat]

NoVacuum == [stage |-> "idle", dead |-> {}, block |-> 0, nblocks |-> 0,
             removed |-> 0, kept |-> 0]

\* The scan's snapshot is in use.
Active(p) == scan[p].stage \notin {"idle", "ended"}

Written == {n \in Node : status[n] # "none"}

--------------------------------------------------------------------------------
Init ==
  /\ heap = [s \in Slot |-> NoNode]
  /\ status = [n \in Node |-> "none"]
  /\ entry = [n \in Node |-> NoSlot]
  /\ adj = [n \in Node |-> {}]
  /\ roots = NoRoots
  /\ scan = [p \in Scanner |-> NoScan]
  /\ vacuum = NoVacuum

(***************************************************************************)
(* Rows                                                                    *)
(***************************************************************************)

\* The heap tuple and the index node of a row, linked with the nodes of W.
Insert(n, s, W) ==
  /\ status[n] = "none" /\ heap[s] = NoNode
  /\ heap' = [heap EXCEPT ![s] = n]
  /\ status' = [status EXCEPT ![n] = "new"]
  /\ entry' = [entry EXCEPT ![n] = s]
  /\ roots' = Published(roots, n, LabelsOf[n])
  /\ adj' = [m \in Node |-> CASE m = n -> W
                               [] m \in W -> adj[m] \cup {n}
                               [] OTHER -> adj[m]]
  /\ UNCHANGED << scan, vacuum >>

\* From the root for k through nodes with k, as all have for the default root.
Reachable(k, n) ==
  /\ roots[k] # NoNode
  /\ \A S \in SUBSET Node :
       (roots[k] \in S /\ \A x \in S : Matching({k}, adj[x]) \subseteq S) => n \in S

\* What module Insert guarantees of the graph when a row commits.
Joined(n) == \A k \in LabelsOf[n] \cup {DefaultRoot} : Reachable(k, n)

Commit(n) ==
  /\ status[n] = "new" /\ Joined(n)
  /\ status' = [status EXCEPT ![n] = "live"]
  /\ UNCHANGED << heap, entry, adj, roots, scan, vacuum >>

\* The insertion is cancelled, or another transaction deletes the row.
Die(n) ==
  /\ status[n] \in {"new", "live"}
  /\ status' = [status EXCEPT ![n] = "dead"]
  /\ UNCHANGED << heap, entry, adj, roots, scan, vacuum >>

--------------------------------------------------------------------------------
(***************************************************************************)
(* Scans                                                                   *)
(***************************************************************************)

\* A search by labels that starts from the default node.
StartNodesForAny(q) == {roots[DefaultRoot]} \ {NoNode}

\* get_for_node: labels without a root are left out.
StartNodesFor(q) == {roots[k] : k \in q} \ {NoNode}

\* from_scan_key_data: without a vector to order by, the labels are not looked at.
QueryFor(filter, null) == IF null THEN {DefaultRoot} ELSE filter

\* initialize: greedy_search_streaming_init from the metadata of the moment, in
\* place of what there was; last_buffer stays.
Restarted(o, snapshot, filter, query) ==
  LET found == StartNodesFor(query)
  IN  [NoScan EXCEPT !.stage = "search", !.snapshot = snapshot, !.filter = filter,
                     !.query = query, !.inserted = found, !.pin = o.pin,
                     !.pending = IF CopiesWhenFound THEN found ELSE {},
                     !.frontier = IF CopiesWhenFound THEN {} ELSE found]

\* ambeginscan and the first amrescan
BeginScan(p, filter, query) ==
  /\ scan[p].stage = "idle"
  /\ scan' = [scan EXCEPT ![p] =
                Restarted(scan[p], {n \in Node : status[n] = "live"}, filter, query)]
  /\ UNCHANGED << heap, status, entry, adj, roots, vacuum >>

\* amrescan within one statement: the snapshot is the same.
Rescan(p, filter, query) ==
  /\ scan[p].stage \in {"returned", "done"}
  /\ scan' = [scan EXCEPT ![p] = Restarted(scan[p], scan[p].snapshot, filter, query)]
  /\ UNCHANGED << heap, status, entry, adj, roots, vacuum >>

\* PlainStorageLsnPrivateData: neighbors and heap pointer as of now.
ReadFound(p, m) ==
  /\ scan[p].stage = "search" /\ m \in scan[p].pending
  /\ scan' = [scan EXCEPT ![p] = [scan[p] EXCEPT !.pending = @ \ {m}, !.frontier = @ \cup {m},
                                         !.links[m] = adj[m], !.slotOf[m] = entry[m]]]
  /\ UNCHANGED << heap, status, entry, adj, roots, vacuum >>

\* A test against the lists alone, which consume takes nodes out of.
UnseenInLists(o, S) == S \ (o.pending \cup o.frontier \cup o.visited)

\* prepare_insert
Unseen(o, S) == S \ o.inserted

\* visit_closest finds nothing to visit: no candidate is left, or enough are
\* visited and (for some order of distances) the next one is too far.
SearchEnds(o) ==
  /\ o.pending = {}
  /\ o.frontier = {} \/ Cardinality(o.visited) > SearchListSize

\* visit_lsn; the order of distances is left open.  A neighbor that the label
\* filter leaves out has been through prepare_insert.
Visit(p, m) ==
  LET o == scan[p]
      new == Unseen(o, IF CopiesWhenFound THEN o.links[m] ELSE adj[m])
      found == Matching(o.query, new)
  IN  /\ o.stage = "search" /\ o.pending = {} /\ m \in o.frontier
      /\ Cardinality(o.buffer) < ResortSize \/ ResortSize = 0
      /\ scan' = [scan EXCEPT ![p] =
           [o EXCEPT !.inserted = @ \cup new, !.visited = @ \cup {m}, !.links[m] = {},
                     !.pending = IF CopiesWhenFound THEN found ELSE {},
                     !.frontier = (@ \ {m}) \cup IF CopiesWhenFound THEN {} ELSE found]]
      /\ UNCHANGED << heap, status, entry, adj, roots, vacuum >>

Consumed(p, m) == [scan[p] EXCEPT !.visited = @ \ {m}, !.slotOf[m] = NoSlot]

\* return_lsn: the plain storage has its copy, SBQ reads the node now.
HeapPointer(p, m) == IF CopiesWhenFound THEN scan[p].slotOf[m] ELSE entry[m]

MayConsume(p, m) ==
  /\ scan[p].stage = "search" /\ SearchEnds(scan[p]) /\ m \in scan[p].visited
  /\ Cardinality(scan[p].buffer) < ResortSize \/ ResortSize = 0

\* next takes a deleted node for the end of the scan.
SkipEndsScan(p, m) ==
  /\ MayConsume(p, m) /\ HeapPointer(p, m) = NoSlot
  /\ scan' = [scan EXCEPT ![p] = [NoScan EXCEPT !.stage = "done",
                 !.snapshot = scan[p].snapshot, !.filter = scan[p].filter,
                 !.results = scan[p].results]]
  /\ UNCHANGED << heap, status, entry, adj, roots, vacuum >>

\* next goes on after a deleted node.
Skip(p, m) ==
  /\ MayConsume(p, m) /\ HeapPointer(p, m) = NoSlot
  /\ scan' = [scan EXCEPT ![p] = Consumed(p, m)]
  /\ UNCHANGED << heap, status, entry, adj, roots, vacuum >>

\* next returns an item, to be resorted or for the executor.
Consume(p, m) ==
  /\ MayConsume(p, m) /\ HeapPointer(p, m) # NoSlot
  /\ scan' = [scan EXCEPT ![p] =
                [Consumed(p, m) EXCEPT !.stage = IF ResortSize = 0 THEN "pin" ELSE "resort",
                                       !.item = [node |-> m, slot |-> HeapPointer(p, m)]]]
  /\ UNCHANGED << heap, status, entry, adj, roots, vacuum >>

\* The row that a heap fetch with the scan's snapshot finds.
Seen(p, s) == {heap[s]} \cap scan[p].snapshot

\* get_full_distance_for_resort; a row that is not seen is dropped.
Resort(p) ==
  /\ scan[p].stage = "resort"
  /\ scan' = [scan EXCEPT ![p] =
       [scan[p] EXCEPT !.stage = "search", !.item = NoItem,
                 !.buffer = @ \cup {i \in {scan[p].item} : Seen(p, i.slot) # {}}]]
  /\ UNCHANGED << heap, status, entry, adj, roots, vacuum >>

Exhausted(o) == o.pending = {} /\ o.frontier = {} /\ o.visited = {}

\* The nearest of a full buffer, or of what is left.
Pop(p, i) ==
  /\ scan[p].stage = "search" /\ i \in scan[p].buffer
  /\ Cardinality(scan[p].buffer) = ResortSize \/ Exhausted(scan[p])
  /\ scan' = [scan EXCEPT ![p] = [scan[p] EXCEPT !.buffer = @ \ {i}, !.item = i, !.stage = "pin"]]
  /\ UNCHANGED << heap, status, entry, adj, roots, vacuum >>

\* get_tuple pins the item's page, in place of the last one.
Pin(p) ==
  /\ scan[p].stage = "pin"
  /\ scan' = [scan EXCEPT ![p] = [scan[p] EXCEPT !.pin = BlockOf[scan[p].item.node], !.stage = "fetch"]]
  /\ UNCHANGED << heap, status, entry, adj, roots, vacuum >>

\* The executor fetches xs_heaptid and checks the qualification again
\* (xs_recheck).
Fetch(p) ==
  /\ scan[p].stage = "fetch"
  /\ scan' = [scan EXCEPT ![p] =
       [scan[p] EXCEPT !.results = @ \cup Matching(scan[p].filter, Seen(p, scan[p].item.slot)),
                 !.item = NoItem, !.stage = "returned"]]
  /\ UNCHANGED << heap, status, entry, adj, roots, vacuum >>

\* amgettuple
CallAgain(p) ==
  /\ scan[p].stage = "returned"
  /\ scan' = [scan EXCEPT ![p] = [scan[p] EXCEPT !.stage = "search"]]
  /\ UNCHANGED << heap, status, entry, adj, roots, vacuum >>

\* get_tuple without an item that leaves last_buffer alone.
FinishPinned(p) ==
  /\ scan[p].stage = "search" /\ Exhausted(scan[p]) /\ scan[p].buffer = {}
  /\ scan' = [scan EXCEPT ![p] = [scan[p] EXCEPT !.stage = "done"]]
  /\ UNCHANGED << heap, status, entry, adj, roots, vacuum >>

\* get_tuple without an item.
Finish(p) ==
  /\ scan[p].stage = "search" /\ Exhausted(scan[p]) /\ scan[p].buffer = {}
  /\ scan' = [scan EXCEPT ![p] = [scan[p] EXCEPT !.stage = "done", !.pin = NoBlock]]
  /\ UNCHANGED << heap, status, entry, adj, roots, vacuum >>

\* amendscan, at the end or before; the scan's memory goes, and the pin with it.
EndScan(p) ==
  /\ scan[p].stage \in {"returned", "done"}
  /\ scan' = [scan EXCEPT ![p] = [NoScan EXCEPT !.stage = "ended"]]
  /\ UNCHANGED << heap, status, entry, adj, roots, vacuum >>

--------------------------------------------------------------------------------
(***************************************************************************)
(* VACUUM                                                                  *)
(***************************************************************************)

\* Slots of rows that no snapshot sees.
DeadSlots ==
  {s \in Slot : /\ heap[s] # NoNode /\ status[heap[s]] = "dead"
                /\ \A p \in Scanner : Active(p) => heap[s] \notin scan[p].snapshot}

\* Lengths the index can have.
Lengths == {BlockOf[n] + 1 : n \in Node}

\* A loop that ends before the last block.
BeginPassShort(dead, nblocks) ==
  /\ vacuum.stage \in {"idle", "heap"} /\ dead # {}
  /\ \A n \in Written : BlockOf[n] <= nblocks
  /\ vacuum' = [vacuum EXCEPT !.stage = "pass", !.dead = dead, !.block = 0,
                              !.nblocks = nblocks]
  /\ UNCHANGED << heap, status, entry, adj, roots, scan >>

\* ambulkdelete for some dead slots, over all blocks there are now.  A VACUUM
\* that cannot hold all dead slots at once makes further passes, each with the
\* result of the one before.
BeginPass(dead, nblocks) ==
  /\ vacuum.stage \in {"idle", "heap"} /\ dead # {}
  /\ \A n \in Written : BlockOf[n] < nblocks
  /\ vacuum' = [vacuum EXCEPT !.stage = "pass", !.dead = dead, !.block = 0,
                              !.nblocks = nblocks]
  /\ UNCHANGED << heap, status, entry, adj, roots, scan >>

\* One block; if it has nodes, under a lock that waits for every pin to go.
VacuumBlock ==
  LET present == {n \in Node : BlockOf[n] = vacuum.block /\ entry[n] # NoSlot}
      deleted == {n \in present : entry[n] \in vacuum.dead}
      nodePage == \E n \in Written : BlockOf[n] = vacuum.block
  IN  /\ vacuum.stage = "pass" /\ vacuum.block < vacuum.nblocks
      /\ nodePage => \A p \in Scanner : scan[p].pin # vacuum.block
      /\ entry' = [n \in Node |-> IF n \in deleted THEN NoSlot ELSE entry[n]]
      /\ vacuum' = [vacuum EXCEPT !.block = @ + 1,
                                  !.removed = @ + Cardinality(deleted),
                                  !.kept = @ + Cardinality(present \ deleted)]
      /\ UNCHANGED << heap, status, adj, roots, scan >>

\* After ambulkdelete PostgreSQL frees the slots.
Reclaim ==
  /\ vacuum.stage = "pass" /\ vacuum.block = vacuum.nblocks
  /\ heap' = [s \in Slot |-> IF s \in vacuum.dead THEN NoNode ELSE heap[s]]
  /\ vacuum' = [vacuum EXCEPT !.stage = "heap", !.dead = {}, !.block = 0, !.nblocks = 0]
  /\ UNCHANGED << status, entry, adj, roots, scan >>

EndVacuum ==
  /\ vacuum.stage = "heap"
  /\ vacuum' = NoVacuum
  /\ UNCHANGED << heap, status, entry, adj, roots, scan >>

--------------------------------------------------------------------------------
ScanStep(p) ==
  \/ \E filter \in Filters, null \in BOOLEAN : BeginScan(p, filter, QueryFor(filter, null))
  \/ Resort(p) \/ Pin(p) \/ Fetch(p) \/ CallAgain(p) \/ Finish(p)
  \/ \E m \in Node : ReadFound(p, m) \/ Visit(p, m) \/ Skip(p, m) \/ Consume(p, m)
  \/ \E i \in scan[p].buffer : Pop(p, i)

Next ==
  \/ \E n \in Node :
       \/ \E s \in Slot, W \in SUBSET (Written \ {n}) : Insert(n, s, W)
       \/ Commit(n) \/ Die(n)
  \/ \E p \in Scanner :
       \/ ScanStep(p) \/ EndScan(p)
       \/ \E filter \in Filters, null \in BOOLEAN : Rescan(p, filter, QueryFor(filter, null))
  \/ \E dead \in SUBSET DeadSlots, nblocks \in Lengths : BeginPass(dead, nblocks)
  \/ VacuumBlock \/ Reclaim \/ EndVacuum

Spec == Init /\ [][Next]_vars

Restarts == \E p \in Scanner : Rescan(p, scan'[p].filter, scan'[p].query)

\* The executor asks for rows until a scan ends, and a join restarts its inner
\* side once for each row of the outer one; VACUUM's wait for a page ends when
\* nobody pins it.
FairSpec ==
  /\ Spec
  /\ <>[][~Restarts]_vars
  /\ \A p \in Scanner : WF_vars(ScanStep(p))
  /\ WF_vars(VacuumBlock) /\ WF_vars(Reclaim)

--------------------------------------------------------------------------------
(***************************************************************************)
(* Properties                                                              *)
(***************************************************************************)

TypeOK ==
  /\ heap \in [Slot -> Node \cup {NoNode}]
  /\ status \in [Node -> {"none", "new", "live", "dead"}]
  /\ entry \in [Node -> Slot \cup {NoSlot}]
  /\ adj \in [Node -> SUBSET Node]
  /\ roots \in Roots
  /\ scan \in [Scanner -> Scans]
  /\ vacuum \in Vacuums

\* The heap pointer of an index node that is not deleted leads to the node's own
\* row: VACUUM has tombstoned every node of the slots it frees (vacuum.rs goes
\* through all blocks there are when it begins).
EntriesNameTheirRows == \A n \in Node : entry[n] # NoSlot => heap[entry[n]] = n

\* Items on their way to the executor.
Items(p) == scan[p].buffer \cup ({scan[p].item} \ {NoItem})

\* A scan may hold a heap pointer for long (the plain storage's copies, the
\* resort buffer) while its slot gets a new row.  If the scan sees a row there,
\* it is the item's own, and was not returned before.
NoForeignOrRepeatedRows ==
  \A p \in Scanner : Active(p) =>
    /\ \A i \in Items(p) : Seen(p, i.slot) \subseteq {i.node} \ scan[p].results
    /\ \A i, j \in Items(p) : i.node = j.node => i = j

\* The rows a scan is asked for.
Wanted(p) == Matching(scan[p].filter, scan[p].snapshot)

\* A scan that runs to its end returns every row it sees that has one of the
\* labels asked for, though nodes on the way are deleted under it and others
\* are added, also when it was restarted; and no other row.
ScanComplete ==
  \A p \in Scanner : scan[p].stage = "done" => scan[p].results = Wanted(p)

\* VACUUM never waits for good on a page that a scan has pinned, and a scan
\* comes to its end although the graph grows; a scan that is restarted keeps its
\* last pin until the next row.
ScansAndPassesEnd ==
  /\ vacuum.stage = "pass" ~> vacuum.stage = "heap"
  /\ \A p \in Scanner : Active(p) ~> scan[p].stage \in {"done", "ended"}

\* "An index scan must maintain a pin on the index page holding the item last
\* returned by amgettuple" (get_tuple): the pin keeps VACUUM from deleting the
\* item until the executor has fetched its row.
ReturnedItemStays ==
  \A p \in Scanner : scan[p].stage = "fetch" => entry[scan[p].item.node] # NoSlot

\* After ambulkdelete num_index_tuples is the number of index tuples that were
\* kept (vacuum_after_abandoned_new_page asserts it of one pass).  Some of those
\* there are may have come too late to be counted.
TuplesCounted ==
  vacuum.stage = "heap" => vacuum.kept <= Cardinality({n \in Node : entry[n] # NoSlot})
================================================================================
