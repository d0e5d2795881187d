------------------------------- MODULE ScanProofs -------------------------------
(***************************************************************************)
(* Theorems about Scan: a scan returns each row it is asked for once and   *)
(* nothing else.  The argument: VACUUM frees a slot only when no index     *)
(* node names it and no snapshot has its row, so whenever a scan read a    *)
(* heap pointer, what it finds there is the node's row or none it sees     *)
(* (Faithful).  The lists of a search keep a node in one place each        *)
(* (ListsApart), and whatever encloses the nodes yet to be visited         *)
(* encloses the rows asked for and not yet found (Enclosed): a way to them *)
(* through nodes with one label stays open to every query for that label.  *)
(***************************************************************************)
EXTENDS Scan, FiniteSetTheorems, TLAPS

--------------------------------------------------------------------------------
(***************************************************************************)
(* The invariant                                                           *)
(***************************************************************************)

\* Rows and their nodes.
RowsOK ==
  /\ EntriesNameTheirRows
  /\ \A n \in Node : status[n] = "none" => entry[n] = NoSlot /\ adj[n] = {}
  /\ \A s \in Slot : heap[s] # NoNode => status[heap[s]] # "none"
  /\ \A n \in Node : status[n] \in {"new", "live"} => entry[n] # NoSlot

RootsOK == \A k \in Key : roots[k] # NoNode => roots[k] \in Matching({k}, Node)

LiveReachable == \A n \in Node : status[n] = "live" => Joined(n)

\* Slots that are to be freed, and the nodes that name one still.
PassOK ==
  /\ vacuum.stage # "pass" => vacuum.dead = {}
  /\ \A s \in vacuum.dead :
       /\ heap[s] # NoNode /\ status[heap[s]] = "dead"
       /\ \A p \in Scanner : Active(p) => heap[s] \notin scan[p].snapshot
  /\ \A n \in Node : entry[n] \in vacuum.dead =>
       vacuum.block <= BlockOf[n] /\ BlockOf[n] < vacuum.nblocks

\* The rows a scan sees keep their index nodes, and the ways to them.
SnapshotOK(p) ==
  /\ scan[p].query \in {scan[p].filter, {DefaultRoot}}
  /\ \A n \in scan[p].snapshot :
       status[n] \in {"live", "dead"} /\ entry[n] # NoSlot /\ Joined(n)

\* Where a node can be: found, and in at most one list or stage.
ListsApart(p) ==
  LET o == scan[p]
  IN  /\ o.item = NoItem <=> o.stage \in {"search", "returned", "done"}
      /\ o.item \notin o.buffer
      /\ o.pending \cap o.frontier = {}
      /\ (o.pending \cup o.frontier) \cap o.visited = {}
      /\ (o.pending \cup o.frontier \cup o.visited) \cap o.results = {}
      /\ o.pending \cup o.frontier \cup o.visited \cup o.results \subseteq o.inserted
      /\ o.results \subseteq Wanted(p)
      /\ \A i \in Items(p) :
           /\ i.node \in o.inserted
           /\ i.node \notin o.pending \cup o.frontier \cup o.visited \cup o.results
      /\ \A i, j \in Items(p) : i.node = j.node => i = j

\* What a scan finds at a heap pointer it holds for a node.
Faithful(p) ==
  LET o == scan[p]
  IN  /\ \A i \in Items(p) : Seen(p, i.slot) = {i.node} \cap o.snapshot
      /\ CopiesWhenFound => \A m \in o.frontier \cup o.visited :
           /\ o.slotOf[m] # NoSlot => Seen(p, o.slotOf[m]) = {m} \cap o.snapshot
           /\ m \in o.snapshot => o.slotOf[m] # NoSlot

\* The neighbors a visit of m looks at, and those it lets through.
Linked(p, m) == IF CopiesWhenFound /\ m \in scan[p].frontier THEN scan[p].links[m] ELSE adj[m]

Out(p, m) == Matching(scan[p].query, Linked(p, m))

Todo(p) == scan[p].pending \cup scan[p].frontier

\* S has what is to be visited, and what visits from there would find.
Encloses(p, S) ==
  /\ Todo(p) \subseteq S
  /\ \A x \in Matching(scan[p].query, S) : x \in Todo(p) \/ x \notin scan[p].inserted =>
       Out(p, x) \subseteq S \cup scan[p].inserted

Enclosed(p) ==
  \A S \in SUBSET Node : Encloses(p, S) => Wanted(p) \subseteq S \cup scan[p].inserted

\* A row asked for that was found is on its way, or returned.
FoundKept(p) ==
  \A n \in Wanted(p) \cap scan[p].inserted :
    \/ n \in Todo(p) \cup scan[p].visited \cup scan[p].results
    \/ \E i \in Items(p) : i.node = n

ScanOK(p) ==
  /\ SnapshotOK(p) /\ ListsApart(p) /\ Faithful(p) /\ Enclosed(p) /\ FoundKept(p)

ScansOK == \A p \in Scanner : Active(p) => ScanOK(p)

IInv == TypeOK /\ RowsOK /\ RootsOK /\ LiveReachable /\ PassOK /\ ScansOK /\ ScanComplete

--------------------------------------------------------------------------------
(***************************************************************************)
(* Types                                                                   *)
(***************************************************************************)

LEMMA NoItemIsNone == NoItem \notin Item
BY ScanAssumption DEF NoItem, Item

\* One scan changes.
ScanSet(p, r) == /\ r \in Scans
                 /\ scan' = [scan EXCEPT ![p] = r]
                 /\ UNCHANGED << heap, status, entry, adj, roots, vacuum >>

LEMMA OneScan ==
  ASSUME TypeOK, NEW p \in Scanner, NEW r, ScanSet(p, r)
  PROVE  TypeOK' /\ scan'[p] = r /\ \A q \in Scanner \ {p} : scan'[q] = scan[q]
<1>1. scan' \in [Scanner -> Scans]
  BY DEF TypeOK, ScanSet
<1> QED
  BY <1>1 DEF TypeOK, ScanSet

\* What each step of a scan makes of it.
LEMMA NoScanTyped == NoScan \in Scans
BY ScanAssumption DEF NoScan, Scans

LEMMA RestartedTyped ==
  ASSUME TypeOK, NEW p \in Scanner, NEW snapshot \in SUBSET Node,
         NEW filter \in Filters, NEW query \in Filters
  PROVE  /\ StartNodesFor(query) \subseteq Node
         /\ Restarted(scan[p], snapshot, filter, query) \in Scans
<1>1. query \subseteq Key
  BY ScanAssumption DEF Key
<1>2. StartNodesFor(query) \subseteq Node
  BY <1>1 DEF TypeOK, Roots, StartNodesFor
<1>3. scan[p].pin \in Nat \cup {NoBlock}
  BY DEF TypeOK, Scans
<1>4. ASSUME NEW F \in SUBSET Node
      PROVE  [NoScan EXCEPT !.stage = "search", !.snapshot = snapshot, !.filter = filter,
                !.query = query, !.inserted = F, !.pin = scan[p].pin,
                !.pending = IF CopiesWhenFound THEN F ELSE {},
                !.frontier = IF CopiesWhenFound THEN {} ELSE F] \in Scans
  BY <1>3, NoScanTyped DEF Scans
<1> QED
  BY <1>2, <1>4 DEF Restarted

LEMMA ReadFoundSets ==
  ASSUME TypeOK, NEW p \in Scanner, NEW m \in Node, ReadFound(p, m)
  PROVE  ScanSet(p, [scan[p] EXCEPT !.pending = @ \ {m}, !.frontier = @ \cup {m},
                                    !.links[m] = adj[m], !.slotOf[m] = entry[m]])
<1>1. scan[p] \in Scans /\ adj[m] \in SUBSET Node /\ entry[m] \in Slot \cup {NoSlot}
  BY DEF TypeOK
<1>2. [scan[p] EXCEPT !.pending = @ \ {m}, !.frontier = @ \cup {m},
                      !.links[m] = adj[m], !.slotOf[m] = entry[m]] \in Scans
  BY <1>1 DEF Scans
<1> QED
  BY <1>2 DEF ReadFound, ScanSet

New(p, m) == Unseen(scan[p], IF CopiesWhenFound THEN scan[p].links[m] ELSE adj[m])

Found(p, m) == Matching(scan[p].query, New(p, m))

LEMMA VisitSets ==
  ASSUME TypeOK, NEW p \in Scanner, NEW m \in Node, Visit(p, m)
  PROVE  /\ New(p, m) \subseteq Node
         /\ ScanSet(p,
              [scan[p] EXCEPT !.inserted = @ \cup New(p, m), !.visited = @ \cup {m},
                 !.links[m] = {},
                 !.pending = IF CopiesWhenFound THEN Found(p, m) ELSE {},
                 !.frontier = (@ \ {m}) \cup IF CopiesWhenFound THEN {} ELSE Found(p, m)])
<1>1. scan[p] \in Scans /\ adj[m] \in SUBSET Node
  BY DEF TypeOK
<1>2. New(p, m) \subseteq Node /\ Found(p, m) \subseteq Node
  BY <1>1 DEF New, Found, Matching, Unseen, Scans
<1>3. ASSUME NEW N \in SUBSET Node, NEW F \in SUBSET Node
      PROVE [scan[p] EXCEPT !.inserted = @ \cup N, !.visited = @ \cup {m}, !.links[m] = {},
                 !.pending = IF CopiesWhenFound THEN F ELSE {},
                 !.frontier = (@ \ {m}) \cup IF CopiesWhenFound THEN {} ELSE F] \in Scans
  BY <1>1 DEF Scans
<1> QED
  BY <1>2, <1>3 DEF Visit, ScanSet, New, Found

LEMMA SkipSets ==
  ASSUME TypeOK, NEW p \in Scanner, NEW m \in Node, Skip(p, m)
  PROVE  ScanSet(p, [scan[p] EXCEPT !.visited = @ \ {m}, !.slotOf[m] = NoSlot])
<1>1. scan[p] \in Scans
  BY DEF TypeOK
<1>2. [scan[p] EXCEPT !.visited = @ \ {m}, !.slotOf[m] = NoSlot] \in Scans
  BY <1>1 DEF Scans
<1> QED
  BY <1>2 DEF Skip, Consumed, ScanSet

LEMMA ConsumeSets ==
  ASSUME TypeOK, NEW p \in Scanner, NEW m \in Node, Consume(p, m)
  PROVE  /\ HeapPointer(p, m) \in Slot
         /\ ScanSet(p, [scan[p] EXCEPT !.visited = @ \ {m}, !.slotOf[m] = NoSlot,
                          !.stage = IF ResortSize = 0 THEN "pin" ELSE "resort",
                          !.item = [node |-> m, slot |-> HeapPointer(p, m)]])
<1>1. scan[p] \in Scans /\ entry[m] \in Slot \cup {NoSlot}
  BY DEF TypeOK
<1>2. HeapPointer(p, m) \in Slot
  BY <1>1 DEF Consume, HeapPointer, Scans
<1>3. [node |-> m, slot |-> HeapPointer(p, m)] \in Item
  BY <1>2 DEF Item
<1>4. ASSUME NEW i \in Item
      PROVE  [scan[p] EXCEPT !.visited = @ \ {m}, !.slotOf[m] = NoSlot,
                !.stage = IF ResortSize = 0 THEN "pin" ELSE "resort", !.item = i] \in Scans
  BY <1>1 DEF Scans
<1> QED
  BY <1>2, <1>3, <1>4 DEF Consume, Consumed, ScanSet

LEMMA ResortSets ==
  ASSUME TypeOK, NEW p \in Scanner, Resort(p), scan[p].item # NoItem
  PROVE  ScanSet(p, [scan[p] EXCEPT !.stage = "search", !.item = NoItem,
           !.buffer = @ \cup {i \in {scan[p].item} : Seen(p, i.slot) # {}}])
<1>1. scan[p] \in Scans
  BY DEF TypeOK
<1>2. {i \in {scan[p].item} : Seen(p, i.slot) # {}} \in SUBSET Item
  BY <1>1 DEF Scans
<1>3. ASSUME NEW I \in SUBSET Item
      PROVE  [scan[p] EXCEPT !.stage = "search", !.item = NoItem, !.buffer = @ \cup I] \in Scans
  BY <1>1 DEF Scans
<1> QED
  BY <1>2, <1>3 DEF Resort, ScanSet

LEMMA PopSets ==
  ASSUME TypeOK, NEW p \in Scanner, NEW i \in scan[p].buffer, Pop(p, i)
  PROVE  ScanSet(p, [scan[p] EXCEPT !.buffer = @ \ {i}, !.item = i, !.stage = "pin"])
<1>1. scan[p] \in Scans
  BY DEF TypeOK
<1>2. [scan[p] EXCEPT !.buffer = @ \ {i}, !.item = i, !.stage = "pin"] \in Scans
  BY <1>1 DEF Scans
<1> QED
  BY <1>2 DEF Pop, ScanSet

LEMMA PinSets ==
  ASSUME TypeOK, NEW p \in Scanner, Pin(p), scan[p].item # NoItem
  PROVE  \E block \in Nat : ScanSet(p, [scan[p] EXCEPT !.pin = block, !.stage = "fetch"])
<1>1. scan[p] \in Scans
  BY DEF TypeOK
<1>2. scan[p].item \in Item
  BY <1>1 DEF Scans
<1>3. BlockOf[scan[p].item.node] \in Nat
  BY <1>2, ScanAssumption DEF Item
<1>4. [scan[p] EXCEPT !.pin = BlockOf[scan[p].item.node], !.stage = "fetch"] \in Scans
  BY <1>1, <1>3 DEF Scans
<1> QED
  BY <1>3, <1>4 DEF Pin, ScanSet

LEMMA FetchSets ==
  ASSUME TypeOK, NEW p \in Scanner, Fetch(p)
  PROVE  ScanSet(p, [scan[p] EXCEPT
           !.results = @ \cup Matching(scan[p].filter, Seen(p, scan[p].item.slot)),
           !.item = NoItem, !.stage = "returned"])
<1>1. scan[p] \in Scans
  BY DEF TypeOK
<1>2. Matching(scan[p].filter, Seen(p, scan[p].item.slot)) \in SUBSET Node
  BY <1>1 DEF Matching, Seen, Scans
<1>3. ASSUME NEW R \in SUBSET Node
      PROVE  [scan[p] EXCEPT !.results = @ \cup R, !.item = NoItem, !.stage = "returned"]
               \in Scans
  BY <1>1 DEF Scans
<1> QED
  BY <1>2, <1>3 DEF Fetch, ScanSet

LEMMA CallAgainSets ==
  ASSUME TypeOK, NEW p \in Scanner, CallAgain(p)
  PROVE  ScanSet(p, [scan[p] EXCEPT !.stage = "search"])
<1>1. scan[p] \in Scans
  BY DEF TypeOK
<1>2. [scan[p] EXCEPT !.stage = "search"] \in Scans
  BY <1>1 DEF Scans
<1> QED
  BY <1>2 DEF CallAgain, ScanSet

LEMMA FinishSets ==
  ASSUME TypeOK, NEW p \in Scanner, Finish(p)
  PROVE  ScanSet(p, [scan[p] EXCEPT !.stage = "done", !.pin = NoBlock])
<1>1. scan[p] \in Scans
  BY DEF TypeOK
<1>2. [scan[p] EXCEPT !.stage = "done", !.pin = NoBlock] \in Scans
  BY <1>1 DEF Scans
<1> QED
  BY <1>2 DEF Finish, ScanSet

LEMMA EndScanSets ==
  ASSUME TypeOK, NEW p \in Scanner, EndScan(p)
  PROVE  ScanSet(p, [NoScan EXCEPT !.stage = "ended"])
<1>1. [NoScan EXCEPT !.stage = "ended"] \in Scans
  BY NoScanTyped DEF Scans
<1> QED
  BY <1>1 DEF EndScan, ScanSet

--------------------------------------------------------------------------------
(***************************************************************************)
(* Steps of transactions and VACUUM                                        *)
(***************************************************************************)

LEMMA ItemTypes ==
  ASSUME TypeOK, NEW p \in Scanner
  PROVE  \A i \in Items(p) : i \in Item /\ i.node \in Node /\ i.slot \in Slot
<1>1. scan[p] \in Scans
  BY DEF TypeOK
<1> QED
  BY <1>1 DEF Items, Scans, Item

\* Roots that are kept and edges that are added keep what can be reached.
LEMMA StillJoined ==
  ASSUME NEW n \in Node, Joined(n), LabelsOf[n] \subseteq Label,
         \A k \in Key : roots[k] # NoNode => roots'[k] = roots[k],
         \A m \in Node : adj[m] \subseteq adj'[m]
  PROVE  Joined(n)'
<1>1. SUFFICES ASSUME NEW k \in LabelsOf[n] \cup {DefaultRoot} PROVE Reachable(k, n)'
  BY DEF Joined
<1>2. Reachable(k, n) /\ k \in Key
  BY DEF Joined, Key
<1>3. roots[k] # NoNode /\ roots'[k] = roots[k]
  BY <1>2 DEF Reachable
<1>4. \A m \in Node : Matching({k}, adj[m]) \subseteq Matching({k}, adj'[m])
  BY DEF Matching
<1> QED
  BY <1>2, <1>3, <1>4 DEF Reachable

\* Scans do not notice: what they see in a slot stays, the rows of their
\* snapshots keep their nodes, and edges are only added.
LEMMA ScansUnaware ==
  ASSUME TypeOK, ScansOK, ScanComplete, scan' = scan, adj' \in [Node -> SUBSET Node],
         \A s \in Slot : \/ heap'[s] = heap[s]
                         \/ \A p \in Scanner : Active(p) =>
                              heap[s] \notin scan[p].snapshot /\ heap'[s] \notin scan[p].snapshot,
         \A p \in Scanner : Active(p) => \A n \in scan[p].snapshot :
           status'[n] \in {"live", "dead"} /\ entry'[n] # NoSlot,
         \A n \in Node : adj[n] \subseteq adj'[n],
         \A k \in Key : roots[k] # NoNode => roots'[k] = roots[k]
  PROVE  ScansOK' /\ ScanComplete'
<1>1. ASSUME NEW p \in Scanner, Active(p)' PROVE ScanOK(p)'
  <2>0. Active(p) /\ ScanOK(p) /\ scan[p] \in Scans
    BY <1>1 DEF Active, ScansOK, TypeOK
  <2>1. SnapshotOK(p)'
    <3>1. \A n \in scan[p].snapshot : n \in Node /\ LabelsOf[n] \subseteq Label /\ Joined(n)
      BY <2>0, ScanAssumption DEF ScanOK, SnapshotOK, Scans
    <3>2. \A n \in scan[p].snapshot : Joined(n)'
      BY <3>1, StillJoined
    <3> QED
      BY <2>0, <3>2 DEF ScanOK, SnapshotOK
  <2>2. ListsApart(p)'
    BY <2>0 DEF ScanOK, ListsApart, Items, Wanted
  <2>3. \A s \in Slot : Seen(p, s)' = Seen(p, s)
    BY <2>0 DEF Seen
  <2>4. Faithful(p)'
    <3>1. Items(p)' = Items(p)
      BY DEF Items
    <3>2. \A i \in Items(p) : Seen(p, i.slot)' = {i.node} \cap scan[p].snapshot
      BY <2>0, <2>3, ItemTypes DEF ScanOK, Faithful
    <3>3. \A m \in scan[p].frontier \cup scan[p].visited : scan[p].slotOf[m] \in Slot \cup {NoSlot}
      BY <2>0 DEF Scans
    <3> QED
      BY <2>0, <2>3, <3>1, <3>2, <3>3 DEF ScanOK, Faithful
  <2>5. Enclosed(p)'
    <3>1. SUFFICES ASSUME NEW S \in SUBSET Node, Encloses(p, S)'
                   PROVE  Wanted(p) \subseteq S \cup scan[p].inserted
      BY DEF Enclosed, Wanted
    <3>2. \A x \in Node : Out(p, x) \subseteq Out(p, x)'
      BY DEF Out, Linked, Matching
    <3>3. \A x \in Matching(scan[p].query, S) : x \in Node
      BY <3>1 DEF Matching
    <3>4. Encloses(p, S)
      BY <3>1, <3>2, <3>3 DEF Encloses, Todo
    <3> QED
      BY <2>0, <3>4 DEF ScanOK, Enclosed
  <2>6. FoundKept(p)'
    BY <2>0 DEF ScanOK, FoundKept, Todo, Items, Wanted
  <2> QED
    BY <2>1, <2>2, <2>4, <2>5, <2>6 DEF ScanOK
<1> QED
  BY <1>1 DEF ScansOK, ScanComplete, Wanted

LEMMA SameGraph ==
  ASSUME RootsOK, UNCHANGED << adj, roots >>
  PROVE  RootsOK' /\ \A n \in Node : Joined(n)' = Joined(n)
<1>1. \A k, n : Reachable(k, n)' = Reachable(k, n)
  BY DEF Reachable
<1> QED
  BY <1>1 DEF RootsOK, Joined

LEMMA InsertStep ==
  ASSUME IInv, NEW n \in Node, NEW s \in Slot, NEW W \in SUBSET (Written \ {n}), Insert(n, s, W)
  PROVE  IInv'
<1>0. TypeOK /\ RowsOK /\ PassOK /\ ScansOK /\ status[n] = "none" /\ heap[s] = NoNode
  BY DEF IInv, Insert
<1>w. W \subseteq Node /\ n \notin W /\ \A m \in W : status[m] # "none"
  BY DEF Written
<1>1. /\ heap' = [heap EXCEPT ![s] = n] /\ status' = [status EXCEPT ![n] = "new"]
      /\ entry' = [entry EXCEPT ![n] = s] /\ scan' = scan /\ vacuum' = vacuum
      /\ adj' \in [Node -> SUBSET Node]
      /\ \A m \in Node : /\ m = n => adj'[m] = W
                         /\ m \in W => adj'[m] = adj[m] \cup {n}
                         /\ m \notin W \cup {n} => adj'[m] = adj[m]
      /\ roots' = Published(roots, n, LabelsOf[n])
  BY <1>0, <1>w DEF Insert, TypeOK
<1>r. /\ roots' \in Roots /\ RootsOK'
      /\ \A k \in Key : roots[k] # NoNode => roots'[k] = roots[k]
  BY ScanAssumption DEF IInv, TypeOK, RootsOK, Published, Roots, Key, Matching, Insert
<1>2. TypeOK'
  BY <1>0, <1>1, <1>r DEF TypeOK
<1>3. \A m \in Node : adj[m] \subseteq adj'[m]
  BY <1>0, <1>1 DEF RowsOK
<1>4. RowsOK'
  <2>1. \A m \in Node : entry[m] # NoSlot => entry[m] # s
    BY <1>0, ScanAssumption DEF RowsOK, EntriesNameTheirRows
  <2>2. EntriesNameTheirRows'
    BY <1>0, <1>1, <2>1 DEF RowsOK, EntriesNameTheirRows, TypeOK
  <2>3. \A m \in Node : status'[m] = "none" => entry'[m] = NoSlot /\ adj'[m] = {}
    BY <1>0, <1>1, <1>w DEF RowsOK, TypeOK
  <2>4. \A t \in Slot : heap'[t] # NoNode => status'[heap'[t]] # "none"
    BY <1>0, <1>1 DEF RowsOK, TypeOK
  <2>5. \A m \in Node : status'[m] \in {"new", "live"} => entry'[m] # NoSlot
    BY <1>0, <1>1, ScanAssumption DEF RowsOK, TypeOK
  <2> QED
    BY <2>2, <2>3, <2>4, <2>5 DEF RowsOK
<1>5. LiveReachable'
  <2>1. SUFFICES ASSUME NEW m \in Node, status'[m] = "live" PROVE Joined(m)'
    BY DEF LiveReachable
  <2>2. Joined(m) /\ LabelsOf[m] \subseteq Label
    BY <1>0, <1>1, <2>1, ScanAssumption DEF LiveReachable, IInv, TypeOK
  <2> QED
    BY <1>3, <1>r, <2>2, StillJoined
<1>6. PassOK'
  <2>1. vacuum.dead \subseteq Slot /\ s \notin vacuum.dead
    BY <1>0, ScanAssumption DEF TypeOK, PassOK, Vacuums
  <2>2. \A t \in vacuum.dead : heap'[t] = heap[t] /\ status'[heap[t]] = "dead"
    BY <1>0, <1>1, <2>1 DEF PassOK, TypeOK
  <2> QED
    BY <1>0, <1>1, <2>1, <2>2 DEF PassOK, Active, TypeOK
<1>7. ScansOK' /\ ScanComplete'
  <2>1. \A p \in Scanner : Active(p) => /\ n \notin scan[p].snapshot
                                        /\ scan[p].snapshot \subseteq Node
    BY <1>0 DEF ScansOK, ScanOK, SnapshotOK, TypeOK, Scans
  <2>2. \A p \in Scanner : Active(p) => \A m \in scan[p].snapshot :
           status'[m] \in {"live", "dead"} /\ entry'[m] # NoSlot
    BY <1>0, <1>1, <2>1 DEF ScansOK, ScanOK, SnapshotOK, TypeOK
  <2>3. \A t \in Slot : \/ heap'[t] = heap[t]
                         \/ \A p \in Scanner : Active(p) =>
                              heap[t] \notin scan[p].snapshot /\ heap'[t] \notin scan[p].snapshot
    BY <1>0, <1>1, <2>1, ScanAssumption DEF TypeOK
  <2> QED
    BY <1>0, <1>1, <1>3, <1>r, <2>2, <2>3, ScansUnaware DEF IInv
<1> QED
  BY <1>2, <1>4, <1>5, <1>6, <1>7, <1>r DEF IInv

LEMMA CommitStep ==
  ASSUME IInv, NEW n \in Node, Commit(n)
  PROVE  IInv'
<1>0. TypeOK /\ RowsOK /\ PassOK /\ ScansOK /\ status[n] = "new" /\ Joined(n)
  BY DEF IInv, Commit
<1>1. /\ status' = [status EXCEPT ![n] = "live"]
      /\ UNCHANGED << heap, entry, adj, roots, scan, vacuum >>
  BY DEF Commit
<1>2. TypeOK'
  BY <1>0, <1>1 DEF TypeOK
<1>3. RowsOK'
  BY <1>0, <1>1 DEF RowsOK, EntriesNameTheirRows, TypeOK
<1>4. RootsOK' /\ LiveReachable'
  BY <1>0, <1>1, SameGraph DEF LiveReachable, IInv, TypeOK
<1>5. PassOK'
  BY <1>0, <1>1 DEF PassOK, Active, TypeOK, Vacuums
<1>6. ScansOK' /\ ScanComplete'
  <2>1. \A p \in Scanner : Active(p) => \A m \in scan[p].snapshot :
           status'[m] \in {"live", "dead"} /\ entry'[m] # NoSlot
    BY <1>0, <1>1 DEF ScansOK, ScanOK, SnapshotOK, TypeOK, Scans
  <2> QED
    BY <1>0, <1>1, <2>1, ScansUnaware DEF IInv, TypeOK
<1> QED
  BY <1>2, <1>3, <1>4, <1>5, <1>6 DEF IInv

LEMMA DieStep ==
  ASSUME IInv, NEW n \in Node, Die(n)
  PROVE  IInv'
<1>0. TypeOK /\ RowsOK /\ PassOK /\ ScansOK /\ status[n] \in {"new", "live"}
  BY DEF IInv, Die
<1>1. /\ status' = [status EXCEPT ![n] = "dead"]
      /\ UNCHANGED << heap, entry, adj, roots, scan, vacuum >>
  BY DEF Die
<1>2. TypeOK'
  BY <1>0, <1>1 DEF TypeOK
<1>3. RowsOK'
  BY <1>0, <1>1 DEF RowsOK, EntriesNameTheirRows, TypeOK
<1>4. RootsOK' /\ LiveReachable'
  BY <1>0, <1>1, SameGraph DEF LiveReachable, IInv, TypeOK
<1>5. PassOK'
  BY <1>0, <1>1 DEF PassOK, Active, TypeOK, Vacuums
<1>6. ScansOK' /\ ScanComplete'
  <2>1. \A p \in Scanner : Active(p) => \A m \in scan[p].snapshot :
           status'[m] \in {"live", "dead"} /\ entry'[m] # NoSlot
    BY <1>0, <1>1 DEF ScansOK, ScanOK, SnapshotOK, TypeOK, Scans
  <2> QED
    BY <1>0, <1>1, <2>1, ScansUnaware DEF IInv, TypeOK
<1> QED
  BY <1>2, <1>3, <1>4, <1>5, <1>6 DEF IInv

\* Steps that leave rows, nodes and scans alone.
LEMMA VacuumOnly ==
  ASSUME IInv, UNCHANGED << heap, status, entry, adj, roots, scan >>, vacuum' \in Vacuums, PassOK'
  PROVE  IInv'
<1>1. TypeOK'
  BY DEF IInv, TypeOK
<1>2. RowsOK' /\ RootsOK' /\ LiveReachable'
  BY SameGraph DEF IInv, RowsOK, EntriesNameTheirRows, LiveReachable
<1>3. ScansOK' /\ ScanComplete'
  <2>1. \A p \in Scanner : Active(p) => \A m \in scan[p].snapshot :
           status'[m] \in {"live", "dead"} /\ entry'[m] # NoSlot
    BY DEF IInv, ScansOK, ScanOK, SnapshotOK
  <2> QED
    BY <2>1, ScansUnaware DEF IInv, TypeOK
<1> QED
  BY <1>1, <1>2, <1>3 DEF IInv

LEMMA BeginPassStep ==
  ASSUME IInv, NEW dead \in SUBSET DeadSlots, NEW nblocks \in Lengths, BeginPass(dead, nblocks)
  PROVE  IInv'
<1>1. /\ vacuum' = [vacuum EXCEPT !.stage = "pass", !.dead = dead, !.block = 0, !.nblocks = nblocks]
      /\ UNCHANGED << heap, status, entry, adj, roots, scan >>
      /\ \A n \in Written : BlockOf[n] < nblocks
  BY DEF BeginPass
<1>2. nblocks \in Nat /\ dead \subseteq Slot /\ BlockOf \in [Node -> Nat]
  BY ScanAssumption DEF Lengths, DeadSlots
<1>3. vacuum' \in Vacuums
  BY <1>1, <1>2 DEF Vacuums, IInv, TypeOK
<1>4. vacuum'.stage = "pass" /\ vacuum'.dead = dead /\ vacuum'.block = 0
      /\ vacuum'.nblocks = nblocks
  BY <1>1 DEF IInv, TypeOK, Vacuums
<1>5. \A s \in dead : /\ heap[s] # NoNode /\ status[heap[s]] = "dead"
                      /\ \A p \in Scanner : Active(p) => heap[s] \notin scan[p].snapshot
  BY DEF DeadSlots
<1>6. \A n \in Node : entry[n] \in dead => 0 <= BlockOf[n] /\ BlockOf[n] < nblocks
  BY <1>1, <1>2, ScanAssumption DEF IInv, RowsOK, Written
<1>7. PassOK'
  BY <1>1, <1>4, <1>5, <1>6 DEF PassOK, Active
<1> QED
  BY <1>1, <1>3, <1>7, VacuumOnly

LEMMA EndVacuumStep == ASSUME IInv, EndVacuum PROVE IInv'
<1>1. vacuum' = NoVacuum /\ UNCHANGED << heap, status, entry, adj, roots, scan >>
  BY DEF EndVacuum
<1>2. vacuum' \in Vacuums
  BY <1>1 DEF NoVacuum, Vacuums
<1>3. PassOK'
  BY <1>1 DEF PassOK, NoVacuum
<1> QED
  BY <1>1, <1>2, <1>3, VacuumOnly

LEMMA VacuumBlockStep == ASSUME IInv, VacuumBlock PROVE IInv'
<1> DEFINE present == {n \in Node : BlockOf[n] = vacuum.block /\ entry[n] # NoSlot}
           deleted == {n \in present : entry[n] \in vacuum.dead}
<1>0. TypeOK /\ RowsOK /\ PassOK /\ ScansOK /\ vacuum \in Vacuums /\ BlockOf \in [Node -> Nat]
  BY ScanAssumption DEF IInv, TypeOK
<1>1. /\ entry' = [n \in Node |-> IF n \in deleted THEN NoSlot ELSE entry[n]]
      /\ vacuum' = [vacuum EXCEPT !.block = @ + 1, !.removed = @ + Cardinality(deleted),
                                  !.kept = @ + Cardinality(present \ deleted)]
      /\ UNCHANGED << heap, status, adj, roots, scan >>
  BY DEF VacuumBlock
<1>2. Cardinality(deleted) \in Nat /\ Cardinality(present \ deleted) \in Nat
  <2>1. IsFiniteSet(deleted) /\ IsFiniteSet(present \ deleted)
    BY FS_Subset, ScanAssumption
  <2> QED
    BY <2>1, FS_CardinalityType
<1>3. vacuum' \in Vacuums /\ vacuum'.block = vacuum.block + 1
      /\ vacuum'.dead = vacuum.dead /\ vacuum'.stage = vacuum.stage
      /\ vacuum'.nblocks = vacuum.nblocks
  <2>1. ASSUME NEW c \in Nat, NEW k \in Nat,
               vacuum' = [vacuum EXCEPT !.block = @ + 1, !.removed = @ + c, !.kept = @ + k]
        PROVE  vacuum' \in Vacuums /\ vacuum'.block = vacuum.block + 1
                 /\ vacuum'.dead = vacuum.dead /\ vacuum'.stage = vacuum.stage
                 /\ vacuum'.nblocks = vacuum.nblocks
    <3>1. /\ vacuum.block + 1 \in Nat /\ vacuum.removed + c \in Nat /\ vacuum.kept + k \in Nat
      BY <1>0 DEF Vacuums
    <3>2. ASSUME NEW b \in Nat, NEW r \in Nat, NEW t \in Nat,
                 vacuum' = [vacuum EXCEPT !.block = b, !.removed = r, !.kept = t]
          PROVE  vacuum' \in Vacuums /\ vacuum'.block = b
                   /\ vacuum'.dead = vacuum.dead /\ vacuum'.stage = vacuum.stage
                   /\ vacuum'.nblocks = vacuum.nblocks
      BY <1>0, <3>2 DEF Vacuums
    <3> QED
      BY <2>1, <3>1, <3>2
  <2> HIDE DEF present, deleted
  <2> QED
    BY <1>1, <1>2, <2>1
<1>4. TypeOK'
  BY <1>0, <1>1, <1>3 DEF TypeOK
<1>5. \A n \in deleted : status[n] = "dead" /\ \A p \in Scanner : Active(p) => n \notin scan[p].snapshot
  BY <1>0 DEF RowsOK, EntriesNameTheirRows, PassOK
<1>6. RowsOK'
  BY <1>0, <1>1, <1>5 DEF RowsOK, EntriesNameTheirRows, TypeOK
<1>7. RootsOK' /\ LiveReachable'
  BY <1>1, SameGraph DEF LiveReachable, IInv
<1>8. PassOK'
  <2>1. \A n \in Node : entry'[n] \in vacuum.dead => n \notin deleted /\ entry[n] \in vacuum.dead
    BY <1>0, <1>1, ScanAssumption DEF Vacuums
  <2>2. \A n \in Node : entry'[n] \in vacuum.dead => BlockOf[n] # vacuum.block
    BY <1>0, <2>1, ScanAssumption DEF Vacuums
  <2>3. \A n \in Node : entry'[n] \in vacuum.dead =>
           vacuum.block + 1 <= BlockOf[n] /\ BlockOf[n] < vacuum.nblocks
    BY <1>0, <2>1, <2>2 DEF PassOK, Vacuums
  <2> QED
    BY <1>0, <1>1, <1>3, <2>3 DEF PassOK, Active
<1>9. ScansOK' /\ ScanComplete'
  <2>1. \A p \in Scanner : Active(p) => \A m \in scan[p].snapshot :
           status'[m] \in {"live", "dead"} /\ entry'[m] # NoSlot
    BY <1>0, <1>1, <1>5 DEF ScansOK, ScanOK, SnapshotOK, TypeOK, Scans
  <2> QED
    BY <1>0, <1>1, <2>1, ScansUnaware DEF IInv, TypeOK
<1> QED
  BY <1>4, <1>6, <1>7, <1>8, <1>9 DEF IInv

LEMMA ReclaimStep == ASSUME IInv, Reclaim PROVE IInv'
<1>0. TypeOK /\ RowsOK /\ PassOK /\ ScansOK /\ vacuum \in Vacuums /\ BlockOf \in [Node -> Nat]
  BY ScanAssumption DEF IInv, TypeOK
<1>1. /\ heap' = [s \in Slot |-> IF s \in vacuum.dead THEN NoNode ELSE heap[s]]
      /\ vacuum' = [vacuum EXCEPT !.stage = "heap", !.dead = {}, !.block = 0, !.nblocks = 0]
      /\ vacuum.block = vacuum.nblocks
      /\ UNCHANGED << status, entry, adj, roots, scan >>
  BY DEF Reclaim
<1>2. vacuum' \in Vacuums /\ vacuum'.dead = {} /\ vacuum'.stage = "heap"
  BY <1>0, <1>1 DEF Vacuums
<1>3. TypeOK'
  BY <1>0, <1>1, <1>2 DEF TypeOK
<1>4. \A n \in Node : entry[n] \notin vacuum.dead
  BY <1>0, <1>1 DEF PassOK, Vacuums
<1>5. RowsOK'
  BY <1>0, <1>1, <1>4 DEF RowsOK, EntriesNameTheirRows, TypeOK
<1>6. RootsOK' /\ LiveReachable'
  BY <1>1, SameGraph DEF LiveReachable, IInv
<1>7. PassOK'
  BY <1>1, <1>2 DEF PassOK
<1>8. ScansOK' /\ ScanComplete'
  <2>1. \A p \in Scanner : Active(p) => \A m \in scan[p].snapshot :
           status'[m] \in {"live", "dead"} /\ entry'[m] # NoSlot
    BY <1>0, <1>1 DEF ScansOK, ScanOK, SnapshotOK
  <2>2. \A p \in Scanner : Active(p) => NoNode \notin scan[p].snapshot
    BY <1>0, ScanAssumption DEF TypeOK, Scans
  <2>3. \A s \in Slot : \/ heap'[s] = heap[s]
                         \/ \A p \in Scanner : Active(p) =>
                              heap[s] \notin scan[p].snapshot /\ heap'[s] \notin scan[p].snapshot
    BY <1>0, <1>1, <2>2 DEF PassOK
  <2> QED
    BY <1>0, <1>1, <2>1, <2>3, ScansUnaware DEF IInv, TypeOK
<1> QED
  BY <1>3, <1>5, <1>6, <1>7, <1>8 DEF IInv

--------------------------------------------------------------------------------
(***************************************************************************)
(* Steps of scans                                                          *)
(***************************************************************************)

\* A scan's step concerns that scan only, if its snapshot is safe from VACUUM.
LEMMA OneScanStep ==
  ASSUME IInv, NEW p \in Scanner, NEW r, ScanSet(p, r),
         Active(p)' => ScanOK(p)',
         Active(p)' => \A s \in vacuum.dead : heap[s] \notin r.snapshot,
         r.stage = "done" => r.results = Matching(r.filter, r.snapshot)
  PROVE  IInv'
<1>0. /\ TypeOK' /\ scan'[p] = r /\ \A q \in Scanner \ {p} : scan'[q] = scan[q]
      /\ UNCHANGED << heap, status, entry, adj, roots, vacuum >>
  BY OneScan DEF IInv, ScanSet
<1>1. RowsOK' /\ RootsOK' /\ LiveReachable'
  BY <1>0, SameGraph DEF IInv, RowsOK, EntriesNameTheirRows, LiveReachable
<1>2. PassOK'
  <2>1. ASSUME NEW s \in vacuum.dead, NEW q \in Scanner, Active(q)'
        PROVE  heap[s] \notin scan'[q].snapshot
    <3>1. CASE q = p
      BY <1>0, <2>1, <3>1
    <3>2. CASE q # p
      BY <1>0, <2>1, <3>2 DEF Active, IInv, PassOK
    <3> QED
      BY <3>1, <3>2
  <2> QED
    BY <1>0, <2>1 DEF IInv, PassOK
<1>3. ASSUME NEW q \in Scanner, q # p, Active(q)' PROVE ScanOK(q)'
  <2>1. Active(q) /\ scan'[q] = scan[q] /\ ScanOK(q)
    BY <1>0, <1>3 DEF Active, IInv, ScansOK
  <2>2. \A s : Seen(q, s)' = Seen(q, s)
    BY <1>0, <2>1 DEF Seen
  <2>3. /\ Items(q)' = Items(q) /\ Todo(q)' = Todo(q) /\ Wanted(q)' = Wanted(q)
        /\ \A x : Out(q, x)' = Out(q, x)
    BY <1>0, <2>1 DEF Items, Todo, Wanted, Out, Linked
  <2>4. SnapshotOK(q)' /\ ListsApart(q)'
    <3>1. \A n \in scan[q].snapshot : n \in Node
      BY DEF IInv, TypeOK, Scans
    <3>2. \A n \in scan[q].snapshot : Joined(n)' = Joined(n)
      BY <1>0, <3>1, SameGraph DEF IInv
    <3>3. SnapshotOK(q)'
      BY <1>0, <2>1, <3>2 DEF ScanOK, SnapshotOK
    <3> QED
      BY <2>1, <2>3, <3>3 DEF ScanOK, ListsApart
  <2>5. Faithful(q)'
    BY <2>1, <2>2, <2>3 DEF ScanOK, Faithful
  <2>6. Enclosed(q)'
    BY <2>1, <2>3 DEF ScanOK, Enclosed, Encloses
  <2>7. FoundKept(q)'
    BY <2>1, <2>3 DEF ScanOK, FoundKept
  <2> QED
    BY <2>4, <2>5, <2>6, <2>7 DEF ScanOK
<1>4. ScansOK'
  BY <1>3 DEF ScansOK
<1>5. ScanComplete'
  BY <1>0 DEF IInv, ScanComplete, Wanted
<1> QED
  BY <1>0, <1>1, <1>2, <1>4, <1>5 DEF IInv

\* What the invariant says of the scan that takes a step.
LEMMA Before ==
  ASSUME IInv, NEW p \in Scanner, Active(p)
  PROVE  /\ TypeOK /\ scan[p] \in Scans /\ SnapshotOK(p) /\ ListsApart(p) /\ Faithful(p)
         /\ Enclosed(p) /\ FoundKept(p)
         /\ \A s \in vacuum.dead : heap[s] \notin scan[p].snapshot
         /\ \A i \in Items(p) : i \in Item /\ i.node \in Node /\ i.slot \in Slot
BY ItemTypes DEF IInv, TypeOK, ScansOK, ScanOK, PassOK

\* A step of an active scan that goes on.
LEMMA SameSnapshot ==
  ASSUME IInv, NEW p \in Scanner, Active(p), scan'[p].snapshot = scan[p].snapshot,
         scan'[p].filter = scan[p].filter, scan'[p].query = scan[p].query,
         UNCHANGED << status, entry, adj, roots >>
  PROVE  SnapshotOK(p)'
<1>1. \A n \in scan[p].snapshot : n \in Node
  BY Before DEF Scans
<1>2. \A n \in scan[p].snapshot : Joined(n)' = Joined(n)
  BY <1>1, SameGraph DEF IInv
<1> QED
  BY <1>2, Before DEF SnapshotOK

\* A step of an active scan that finds no nodes.
LEMMA NothingFound ==
  ASSUME IInv, NEW p \in Scanner, Active(p), NEW r, ScanSet(p, r),
         r.snapshot = scan[p].snapshot, r.filter = scan[p].filter,
         r.query = scan[p].query, r.inserted = scan[p].inserted,
         r.pending = scan[p].pending, r.frontier = scan[p].frontier, r.links = scan[p].links
  PROVE  /\ scan'[p] = r /\ SnapshotOK(p)' /\ Enclosed(p)' /\ Wanted(p)' = Wanted(p)
         /\ \A s : Seen(p, s)' = Seen(p, s)
<1>0. /\ scan'[p] = r /\ UNCHANGED << heap, status, entry, adj, roots, vacuum >>
  BY OneScan DEF IInv, ScanSet
<1>1. SnapshotOK(p)'
  BY <1>0, SameSnapshot
<1>2. Todo(p)' = Todo(p) /\ Wanted(p)' = Wanted(p) /\ \A x : Out(p, x)' = Out(p, x)
  BY <1>0 DEF Todo, Wanted, Out, Linked
<1>3. Enclosed(p)'
  BY <1>0, <1>2, Before DEF Enclosed, Encloses
<1>4. \A s : Seen(p, s)' = Seen(p, s)
  BY <1>0 DEF Seen
<1> QED
  BY <1>0, <1>1, <1>2, <1>3, <1>4

\* The first amrescan, and those after it.
LEMMA RestartStep ==
  ASSUME IInv, NEW p \in Scanner, NEW snapshot \in SUBSET Node,
         NEW filter \in Filters, NEW query \in Filters, query \in {filter, {DefaultRoot}},
         \A n \in snapshot : status[n] \in {"live", "dead"} /\ entry[n] # NoSlot /\ Joined(n),
         \A s \in vacuum.dead : heap[s] \notin snapshot,
         scan' = [scan EXCEPT ![p] = Restarted(scan[p], snapshot, filter, query)],
         UNCHANGED << heap, status, entry, adj, roots, vacuum >>
  PROVE  IInv'
<1> DEFINE found == StartNodesFor(query)
           r == Restarted(scan[p], snapshot, filter, query)
<1>1. ScanSet(p, r) /\ found \subseteq Node
  BY RestartedTyped DEF IInv, ScanSet
<1>2. /\ r.stage = "search" /\ r.inserted = found /\ r.snapshot = snapshot
      /\ r.filter = filter /\ r.query = query
      /\ r.pending = (IF CopiesWhenFound THEN found ELSE {})
      /\ r.frontier = (IF CopiesWhenFound THEN {} ELSE found)
      /\ r.visited = {} /\ r.results = {} /\ r.buffer = {} /\ r.item = NoItem
  BY DEF Restarted, NoScan
<1> HIDE DEF r
<1>3. scan'[p] = r /\ UNCHANGED << heap, status, entry, adj, roots, vacuum >>
  BY <1>1, OneScan DEF IInv, ScanSet
<1>4. /\ Items(p)' = {} /\ Todo(p)' = found /\ Wanted(p)' = Matching(filter, snapshot)
      /\ \A n \in Node : Joined(n)' = Joined(n)
  BY <1>2, <1>3, SameGraph DEF Items, Todo, Wanted, IInv
<1>5. SnapshotOK(p)'
  BY <1>2, <1>3, <1>4 DEF SnapshotOK
<1>6. ListsApart(p)'
  BY <1>2, <1>3, <1>4 DEF ListsApart
<1>7. Faithful(p)'
  BY <1>2, <1>3, <1>4 DEF Faithful
<1>8. Enclosed(p)'
  <2>1. SUFFICES ASSUME NEW S \in SUBSET Node, Encloses(p, S)', NEW n \in Matching(filter, snapshot)
                 PROVE  n \in S
    BY <1>4 DEF Enclosed
  <2>2. n \in Node /\ Joined(n)
    BY DEF Matching
  <2>3. PICK k \in LabelsOf[n] \cup {DefaultRoot} : k \in query
    BY DEF Matching
  <2>4. Reachable(k, n) /\ k \in Key
    BY <2>2, ScanAssumption DEF Joined, Key
  <2>5. /\ roots[k] # NoNode /\ roots[k] \in found
        /\ roots[k] \in Matching({k}, Node)
    BY <2>3, <2>4 DEF Reachable, StartNodesFor, IInv, RootsOK
  <2> DEFINE T == Matching({k}, S)
  <2>6. roots[k] \in T
    BY <1>4, <2>1, <2>5 DEF Encloses, Matching
  <2>7. ASSUME NEW x \in T PROVE Matching({k}, adj[x]) \subseteq T
    <3>1. x \in Matching(query, S)
      BY <2>3 DEF Matching
    <3>2. Out(p, x)' = Matching(query, adj[x])
      BY <1>2, <1>3 DEF Out, Linked
    <3>3. Out(p, x)' \subseteq S \cup found
      BY <1>2, <1>3, <1>4, <2>1, <3>1 DEF Encloses
    <3>4. found \subseteq S
      BY <1>4, <2>1 DEF Encloses
    <3> QED
      BY <2>3, <3>2, <3>3, <3>4 DEF Matching
  <2>8. T \in SUBSET Node
    BY DEF Matching
  <2>9. n \in T
    BY <2>4, <2>6, <2>7, <2>8 DEF Reachable
  <2> QED
    BY <2>9 DEF Matching
<1>9. FoundKept(p)'
  BY <1>2, <1>3, <1>4 DEF FoundKept
<1> QED
  BY <1>1, <1>2, <1>5, <1>6, <1>7, <1>8, <1>9, OneScanStep DEF ScanOK

LEMMA QueryTyped ==
  ASSUME NEW filter \in Filters, NEW null \in BOOLEAN
  PROVE  QueryFor(filter, null) \in Filters \cap {filter, {DefaultRoot}}
BY ScanAssumption DEF QueryFor

LEMMA BeginScanStep ==
  ASSUME IInv, NEW p \in Scanner, NEW filter \in Filters, NEW null \in BOOLEAN,
         BeginScan(p, filter, QueryFor(filter, null))
  PROVE  IInv'
<1> DEFINE live == {n \in Node : status[n] = "live"}
<1>1. \A n \in live : entry[n] # NoSlot /\ Joined(n)
  BY DEF IInv, RowsOK, LiveReachable
<1>2. \A s \in vacuum.dead : heap[s] \notin live
  BY DEF IInv, PassOK
<1> QED
  BY <1>1, <1>2, QueryTyped, RestartStep DEF BeginScan

LEMMA RescanStep ==
  ASSUME IInv, NEW p \in Scanner, NEW filter \in Filters, NEW null \in BOOLEAN,
         Rescan(p, filter, QueryFor(filter, null))
  PROVE  IInv'
<1>1. Active(p)
  BY DEF Rescan, Active
<1>2. scan[p].snapshot \in SUBSET Node
  BY <1>1, Before DEF Scans
<1>3. \A n \in scan[p].snapshot :
        status[n] \in {"live", "dead"} /\ entry[n] # NoSlot /\ Joined(n)
  BY <1>1, Before DEF SnapshotOK
<1>4. \A s \in vacuum.dead : heap[s] \notin scan[p].snapshot
  BY <1>1, Before
<1> QED
  BY <1>2, <1>3, <1>4, QueryTyped, RestartStep DEF Rescan

LEMMA ReadFoundStep ==
  ASSUME IInv, NEW p \in Scanner, NEW m \in Node, ReadFound(p, m) PROVE IInv'
<1> DEFINE o == scan[p]
           r == [o EXCEPT !.pending = @ \ {m}, !.frontier = @ \cup {m},
                          !.links[m] = adj[m], !.slotOf[m] = entry[m]]
<1>0. o.stage = "search" /\ m \in o.pending /\ Active(p)
  BY DEF ReadFound, Active
<1>1. ScanSet(p, r)
  BY ReadFoundSets DEF IInv
<1>2. /\ r.stage = o.stage /\ r.snapshot = o.snapshot /\ r.inserted = o.inserted
      /\ r.filter = o.filter /\ r.query = o.query
      /\ r.pending = o.pending \ {m} /\ r.frontier = o.frontier \cup {m}
      /\ r.visited = o.visited /\ r.results = o.results
      /\ r.buffer = o.buffer /\ r.item = o.item
      /\ \A x \in Node : r.links[x] = IF x = m THEN adj[m] ELSE o.links[x]
      /\ \A x \in Node : r.slotOf[x] = IF x = m THEN entry[m] ELSE o.slotOf[x]
  BY <1>0, Before DEF Scans
<1> HIDE DEF r
<1>3. scan'[p] = r /\ UNCHANGED << heap, status, entry, adj, roots, vacuum >>
  BY <1>1, OneScan DEF IInv, ScanSet
<1>4. /\ Items(p)' = Items(p) /\ Todo(p)' = Todo(p) /\ Wanted(p)' = Wanted(p)
      /\ \A s : Seen(p, s)' = Seen(p, s)
  BY <1>0, <1>2, <1>3 DEF Items, Todo, Wanted, Seen
<1>b. ListsApart(p) /\ Faithful(p) /\ o.frontier \cup o.visited \cup o.pending \subseteq Node
  BY <1>0, Before DEF Scans
<1>5. SnapshotOK(p)'
  BY <1>0, <1>2, <1>3, SameSnapshot
<1>6. ListsApart(p)'
  BY <1>0, <1>2, <1>3, <1>4, <1>b DEF ListsApart
<1>7. Faithful(p)'
  <2>1. \A i \in Items(p)' : Seen(p, i.slot)' = {i.node} \cap r.snapshot
    BY <1>2, <1>4, <1>b DEF Faithful
  <2>2. ASSUME CopiesWhenFound, NEW x \in o.frontier \cup o.visited, x # m
        PROVE  /\ r.slotOf[x] # NoSlot => Seen(p, r.slotOf[x]) = {x} \cap r.snapshot
               /\ x \in r.snapshot => r.slotOf[x] # NoSlot
    BY <1>2, <1>b, <2>2 DEF Faithful
  <2>3. /\ entry[m] # NoSlot => Seen(p, entry[m]) = {m} \cap o.snapshot
        /\ m \in o.snapshot => entry[m] # NoSlot
    BY <1>0, Before DEF Seen, IInv, RowsOK, EntriesNameTheirRows, SnapshotOK
  <2> QED
    BY <1>2, <1>3, <1>4, <2>1, <2>2, <2>3 DEF Faithful
<1>8. Enclosed(p)'
  <2>1. \A x \in Node : Out(p, x)' = Out(p, x)
    BY <1>0, <1>2, <1>3, <1>b DEF Out, Linked, ListsApart
  <2>2. \A S \in SUBSET Node : Matching(o.query, S) \subseteq Node
    BY DEF Matching
  <2> QED
    BY <1>0, <1>2, <1>3, <1>4, <2>1, <2>2, Before DEF Enclosed, Encloses
<1>9. FoundKept(p)'
  BY <1>0, <1>2, <1>3, <1>4, Before DEF FoundKept
<1> QED
  BY <1>0, <1>1, <1>2, <1>5, <1>6, <1>7, <1>8, <1>9, Before, OneScanStep DEF ScanOK

LEMMA VisitStep ==
  ASSUME IInv, NEW p \in Scanner, NEW m \in Node, Visit(p, m) PROVE IInv'
<1> DEFINE o == scan[p]
           new == New(p, m)
           found == Found(p, m)
           r == [o EXCEPT !.inserted = @ \cup new, !.visited = @ \cup {m}, !.links[m] = {},
                   !.pending = IF CopiesWhenFound THEN found ELSE {},
                   !.frontier = (@ \ {m}) \cup IF CopiesWhenFound THEN {} ELSE found]
<1>0. o.stage = "search" /\ m \in o.frontier /\ o.pending = {} /\ Active(p)
  BY DEF Visit, Active
<1>1. ScanSet(p, r) /\ new \subseteq Node
  BY VisitSets DEF IInv
<1>2. /\ r.stage = o.stage /\ r.snapshot = o.snapshot /\ r.inserted = o.inserted \cup new
      /\ r.filter = o.filter /\ r.query = o.query
      /\ r.pending = (IF CopiesWhenFound THEN found ELSE {})
      /\ r.frontier = (o.frontier \ {m}) \cup (IF CopiesWhenFound THEN {} ELSE found)
      /\ r.visited = o.visited \cup {m} /\ r.results = o.results
      /\ r.buffer = o.buffer /\ r.item = o.item /\ r.slotOf = o.slotOf
      /\ \A x \in Node : x # m => r.links[x] = o.links[x]
  BY <1>0, Before DEF Scans
<1>d. /\ new = Linked(p, m) \ o.inserted /\ found = Matching(o.query, new)
      /\ found = Out(p, m) \ o.inserted /\ found \subseteq new
  BY <1>0 DEF New, Found, Matching, Unseen, Out, Linked
<1> HIDE DEF r, new, found
<1>3. scan'[p] = r /\ UNCHANGED << heap, status, entry, adj, roots, vacuum >>
  BY <1>1, OneScan DEF IInv, ScanSet
<1>4. /\ Items(p)' = Items(p) /\ Todo(p)' = (o.frontier \ {m}) \cup found
      /\ Wanted(p)' = Wanted(p) /\ \A s : Seen(p, s)' = Seen(p, s)
  BY <1>0, <1>2, <1>3 DEF Items, Todo, Wanted, Seen
<1>b. ListsApart(p) /\ Faithful(p) /\ o.frontier \subseteq Node /\ Todo(p) = o.frontier
  BY <1>0, Before DEF Scans, Todo
<1>5. SnapshotOK(p)'
  BY <1>0, <1>2, <1>3, SameSnapshot
<1>6. ListsApart(p)'
  <2>1. /\ found \cap o.inserted = {}
        /\ r.pending \cup r.frontier = (o.frontier \ {m}) \cup found
        /\ r.pending \cap r.frontier = {}
    BY <1>0, <1>2, <1>b, <1>d DEF ListsApart
  <2>2. /\ (r.pending \cup r.frontier) \cap r.visited = {}
        /\ (r.pending \cup r.frontier \cup r.visited) \cap r.results = {}
        /\ r.pending \cup r.frontier \cup r.visited \cup r.results \subseteq r.inserted
    <3>1. /\ r.visited = o.visited \cup {m} /\ r.results = o.results
          /\ r.inserted = o.inserted \cup new
      BY <1>2
    <3>2. /\ m \in o.frontier /\ o.frontier \cap o.visited = {}
          /\ (o.frontier \cup o.visited) \cap o.results = {}
          /\ o.frontier \cup o.visited \cup o.results \subseteq o.inserted
      BY <1>0, <1>b DEF ListsApart
    <3>3. found \cap (o.frontier \cup o.visited \cup o.results) = {}
      BY <2>1, <3>2
    <3>4. (r.pending \cup r.frontier) \cap r.visited = {}
      BY <2>1, <3>1, <3>2, <3>3
    <3>5. (r.pending \cup r.frontier \cup r.visited) \cap r.results = {}
      BY <2>1, <3>1, <3>2, <3>3
    <3>6. r.pending \cup r.frontier \cup r.visited \cup r.results \subseteq r.inserted
      BY <1>d, <2>1, <3>1, <3>2
    <3> QED
      BY <3>4, <3>5, <3>6
  <2>3. \A i \in Items(p) :
          /\ i.node \in r.inserted
          /\ i.node \notin r.pending \cup r.frontier \cup r.visited \cup r.results
    BY <1>0, <1>2, <1>b, <2>1 DEF ListsApart
  <2> QED
    BY <1>2, <1>3, <1>4, <1>b, <2>1, <2>2, <2>3 DEF ListsApart
<1>7. Faithful(p)'
  BY <1>0, <1>2, <1>3, <1>4, <1>b DEF Faithful
<1>w. Wanted(p) \subseteq Matching(o.query, o.snapshot)
  BY <1>0, Before DEF Wanted, Matching, SnapshotOK
<1>8. Enclosed(p)'
  <2>1. SUFFICES ASSUME NEW S \in SUBSET Node, Encloses(p, S)'
                 PROVE  Wanted(p) \subseteq S \cup o.inserted \cup new
    BY <1>2, <1>3, <1>4 DEF Enclosed
  <2> DEFINE T == S \cup {m}
  <2>2. Todo(p) \subseteq T /\ T \in SUBSET Node
    BY <1>4, <1>b, <2>1 DEF Encloses
  <2>3. ASSUME NEW x \in Matching(o.query, T), x \in Todo(p) \/ x \notin o.inserted
        PROVE  Out(p, x) \subseteq T \cup o.inserted
    <3>1. CASE x = m
      BY <1>4, <1>d, <2>1, <3>1 DEF Encloses
    <3>2. CASE x # m
      <4>0. x \in Node /\ x \in Matching(o.query, S)
        BY <2>2, <2>3, <3>2 DEF Matching
      <4>1. x \in Todo(p)' \/ x \notin scan'[p].inserted
        BY <1>2, <1>3, <1>4, <1>b, <1>d, <2>3, <3>2, <4>0 DEF Matching
      <4>2. Out(p, x)' = Out(p, x)
        BY <1>0, <1>2, <1>3, <1>b, <1>d, <2>3, <3>2, <4>0 DEF Out, Linked, ListsApart
      <4>3. Out(p, x) \subseteq S \cup o.inserted \cup new
        BY <1>2, <1>3, <2>1, <4>0, <4>1, <4>2 DEF Encloses
      <4>4. Out(p, x) \cap new \subseteq found
        BY <1>d DEF Out, Matching
      <4> QED
        BY <1>4, <2>1, <4>3, <4>4 DEF Encloses
    <3> QED
      BY <3>1, <3>2
  <2>4. Encloses(p, T)
    BY <2>2, <2>3 DEF Encloses
  <2>5. Wanted(p) \subseteq T \cup o.inserted
    BY <1>0, <2>2, <2>4, Before DEF Enclosed
  <2> QED
    BY <1>0, <1>b, <2>5 DEF ListsApart
<1>9. FoundKept(p)'
  <2>1. \A n \in Wanted(p) \cap new : n \in found
    BY <1>d, <1>w DEF Matching
  <2> QED
    BY <1>0, <1>2, <1>3, <1>4, <1>b, <2>1, Before DEF FoundKept
<1> QED
  BY <1>0, <1>1, <1>2, <1>5, <1>6, <1>7, <1>8, <1>9, Before, OneScanStep DEF ScanOK

LEMMA SkipStep ==
  ASSUME IInv, NEW p \in Scanner, NEW m \in Node, Skip(p, m) PROVE IInv'
<1> DEFINE o == scan[p]
           r == [o EXCEPT !.visited = @ \ {m}, !.slotOf[m] = NoSlot]
<1>0. o.stage = "search" /\ m \in o.visited /\ Active(p) /\ HeapPointer(p, m) = NoSlot
  BY DEF Skip, MayConsume, Active
<1>1. ScanSet(p, r)
  BY SkipSets DEF IInv
<1>2. /\ r.snapshot = o.snapshot /\ r.filter = o.filter /\ r.query = o.query
      /\ r.inserted = o.inserted /\ r.pending = o.pending
      /\ r.frontier = o.frontier /\ r.links = o.links
      /\ r.stage = o.stage /\ r.visited = o.visited \ {m} /\ r.results = o.results
      /\ r.buffer = o.buffer /\ r.item = o.item
      /\ \A x \in Node : x # m => r.slotOf[x] = o.slotOf[x]
  BY <1>0, Before DEF Scans
<1> HIDE DEF r
<1>3. /\ scan'[p] = r /\ SnapshotOK(p)' /\ Enclosed(p)' /\ Wanted(p)' = Wanted(p)
      /\ \A s : Seen(p, s)' = Seen(p, s)
  BY <1>0, <1>1, <1>2, NothingFound
<1>4. Items(p)' = Items(p) /\ Todo(p)' = Todo(p)
  BY <1>2, <1>3 DEF Items, Todo
<1>b. ListsApart(p) /\ Faithful(p) /\ o.frontier \cup o.visited \subseteq Node
  BY <1>0, Before DEF Scans
<1>5. ListsApart(p)'
  BY <1>2, <1>3, <1>4, <1>b DEF ListsApart
<1>6. Faithful(p)'
  BY <1>0, <1>2, <1>3, <1>4, <1>b DEF Faithful, ListsApart
<1>7. m \notin o.snapshot /\ m \notin Wanted(p)
  BY <1>0, Before DEF HeapPointer, Faithful, SnapshotOK, Wanted, Matching
<1>8. FoundKept(p)'
  BY <1>0, <1>2, <1>3, <1>4, <1>7, Before DEF FoundKept
<1> QED
  BY <1>0, <1>1, <1>2, <1>3, <1>5, <1>6, <1>8, Before, OneScanStep DEF ScanOK

LEMMA ConsumeStep ==
  ASSUME IInv, NEW p \in Scanner, NEW m \in Node, Consume(p, m) PROVE IInv'
<1> DEFINE o == scan[p]
           i == [node |-> m, slot |-> HeapPointer(p, m)]
           r == [o EXCEPT !.visited = @ \ {m}, !.slotOf[m] = NoSlot,
                          !.stage = IF ResortSize = 0 THEN "pin" ELSE "resort", !.item = i]
<1>0. /\ o.stage = "search" /\ m \in o.visited /\ Active(p) /\ HeapPointer(p, m) # NoSlot
  BY DEF Consume, MayConsume, Active
<1>1. ScanSet(p, r) /\ HeapPointer(p, m) \in Slot
  BY ConsumeSets DEF IInv
<1>2. /\ r.snapshot = o.snapshot /\ r.filter = o.filter /\ r.query = o.query
      /\ r.inserted = o.inserted /\ r.pending = o.pending
      /\ r.frontier = o.frontier /\ r.links = o.links
      /\ r.stage \in {"pin", "resort"} /\ r.visited = o.visited \ {m} /\ r.results = o.results
      /\ r.buffer = o.buffer /\ r.item = i
      /\ \A x \in Node : x # m => r.slotOf[x] = o.slotOf[x]
  BY <1>0, Before DEF Scans
<1> HIDE DEF r
<1>3. /\ scan'[p] = r /\ SnapshotOK(p)' /\ Enclosed(p)' /\ Wanted(p)' = Wanted(p)
      /\ \A s : Seen(p, s)' = Seen(p, s)
  BY <1>0, <1>1, <1>2, NothingFound
<1>b. /\ ListsApart(p) /\ Faithful(p) /\ o.frontier \cup o.visited \subseteq Node
      /\ o.buffer \subseteq Item /\ o.item = NoItem
  BY <1>0, Before DEF Scans, ListsApart
<1>4. i # NoItem /\ Items(p) = o.buffer /\ Items(p)' = o.buffer \cup {i} /\ Todo(p)' = Todo(p)
  <2>1. i \in Item
    BY <1>1 DEF Item
  <2> HIDE DEF i
  <2> QED
    BY <1>2, <1>3, <1>b, <2>1, NoItemIsNone DEF Items, Todo
<1>5. i.node = m /\ i.slot = HeapPointer(p, m)
  OBVIOUS
<1>6. Seen(p, i.slot) = {m} \cap o.snapshot
  <2>1. CASE CopiesWhenFound
    BY <1>0, <1>5, <1>b, <2>1 DEF HeapPointer, Faithful
  <2>2. CASE ~CopiesWhenFound
    BY <1>0, <1>5, <2>2 DEF HeapPointer, Seen, IInv, RowsOK, EntriesNameTheirRows
  <2> QED
    BY <2>1, <2>2
<1> HIDE DEF i
<1>7. ListsApart(p)'
  BY <1>0, <1>2, <1>3, <1>4, <1>5, <1>b DEF ListsApart
<1>8. Faithful(p)'
  BY <1>0, <1>2, <1>3, <1>4, <1>5, <1>6, <1>b DEF Faithful, ListsApart
<1>9. FoundKept(p)'
  BY <1>0, <1>2, <1>3, <1>4, <1>5, Before DEF FoundKept
<1> QED
  BY <1>0, <1>1, <1>2, <1>3, <1>7, <1>8, <1>9, Before, OneScanStep DEF ScanOK

LEMMA ResortStep == ASSUME IInv, NEW p \in Scanner, Resort(p) PROVE IInv'
<1> DEFINE o == scan[p]
           K == {i \in {o.item} : Seen(p, i.slot) # {}}
           r == [o EXCEPT !.stage = "search", !.item = NoItem, !.buffer = @ \cup K]
<1>0. o.stage = "resort" /\ Active(p)
  BY DEF Resort, Active
<1>b. /\ ListsApart(p) /\ Faithful(p) /\ o.item # NoItem /\ o.buffer \subseteq Item
      /\ Items(p) = o.buffer \cup {o.item} /\ o.item \in Item
  BY <1>0, Before DEF Scans, ListsApart, Items
<1>1. ScanSet(p, r)
  BY <1>b, ResortSets DEF IInv
<1>2. /\ r.snapshot = o.snapshot /\ r.filter = o.filter /\ r.query = o.query
      /\ r.inserted = o.inserted /\ r.pending = o.pending
      /\ r.frontier = o.frontier /\ r.links = o.links
      /\ r.stage = "search" /\ r.visited = o.visited /\ r.results = o.results
      /\ r.buffer = o.buffer \cup K /\ r.item = NoItem /\ r.slotOf = o.slotOf
  BY <1>0, Before DEF Scans
<1>k. K \subseteq {o.item} /\ (o.item.node \in Wanted(p) => o.item \in K)
  BY <1>b DEF Faithful, Wanted, Matching
<1> HIDE DEF r, K
<1>3. /\ scan'[p] = r /\ SnapshotOK(p)' /\ Enclosed(p)' /\ Wanted(p)' = Wanted(p)
      /\ \A s : Seen(p, s)' = Seen(p, s)
  BY <1>0, <1>1, <1>2, NothingFound
<1>4. Items(p)' = o.buffer \cup K /\ Todo(p)' = Todo(p) /\ NoItem \notin o.buffer \cup K
  BY <1>2, <1>3, <1>b, <1>k, NoItemIsNone DEF Items, Todo
<1>5. ListsApart(p)'
  BY <1>2, <1>3, <1>4, <1>b, <1>k DEF ListsApart
<1>6. Faithful(p)'
  BY <1>2, <1>3, <1>4, <1>b, <1>k DEF Faithful
<1>7. FoundKept(p)'
  BY <1>0, <1>2, <1>3, <1>4, <1>b, <1>k, Before DEF FoundKept
<1> QED
  BY <1>0, <1>1, <1>2, <1>3, <1>5, <1>6, <1>7, Before, OneScanStep DEF ScanOK

LEMMA PopStep ==
  ASSUME IInv, NEW p \in Scanner, NEW i \in scan[p].buffer, Pop(p, i) PROVE IInv'
<1> DEFINE o == scan[p]
           r == [o EXCEPT !.buffer = @ \ {i}, !.item = i, !.stage = "pin"]
<1>0. o.stage = "search" /\ Active(p)
  BY DEF Pop, Active
<1>b. /\ ListsApart(p) /\ Faithful(p) /\ o.item = NoItem /\ o.buffer \subseteq Item
      /\ Items(p) = o.buffer
  BY <1>0, Before DEF Scans, ListsApart, Items
<1>1. ScanSet(p, r)
  BY PopSets DEF IInv
<1>2. /\ r.snapshot = o.snapshot /\ r.filter = o.filter /\ r.query = o.query
      /\ r.inserted = o.inserted /\ r.pending = o.pending
      /\ r.frontier = o.frontier /\ r.links = o.links
      /\ r.stage = "pin" /\ r.visited = o.visited /\ r.results = o.results
      /\ r.buffer = o.buffer \ {i} /\ r.item = i /\ r.slotOf = o.slotOf
  BY <1>0, Before DEF Scans
<1> HIDE DEF r
<1>3. /\ scan'[p] = r /\ SnapshotOK(p)' /\ Enclosed(p)' /\ Wanted(p)' = Wanted(p)
      /\ \A s : Seen(p, s)' = Seen(p, s)
  BY <1>0, <1>1, <1>2, NothingFound
<1>4. Items(p)' = Items(p) /\ Todo(p)' = Todo(p) /\ i # NoItem
  BY <1>2, <1>3, <1>b, NoItemIsNone DEF Items, Todo
<1>5. ListsApart(p)'
  BY <1>2, <1>3, <1>4, <1>b DEF ListsApart
<1>6. Faithful(p)'
  BY <1>2, <1>3, <1>4, <1>b DEF Faithful
<1>7. FoundKept(p)'
  BY <1>0, <1>2, <1>3, <1>4, Before DEF FoundKept
<1> QED
  BY <1>0, <1>1, <1>2, <1>3, <1>5, <1>6, <1>7, Before, OneScanStep DEF ScanOK

LEMMA PinStep == ASSUME IInv, NEW p \in Scanner, Pin(p) PROVE IInv'
<1> DEFINE o == scan[p]
<1>0. o.stage = "pin" /\ Active(p)
  BY DEF Pin, Active
<1>b. ListsApart(p) /\ Faithful(p) /\ o.item # NoItem
  BY <1>0, Before DEF ListsApart
<1>1. PICK block \in Nat : ScanSet(p, [o EXCEPT !.pin = block, !.stage = "fetch"])
  BY <1>0, <1>b, PinSets DEF IInv
<1> DEFINE r == [o EXCEPT !.pin = block, !.stage = "fetch"]
<1>2. /\ r.snapshot = o.snapshot /\ r.filter = o.filter /\ r.query = o.query
      /\ r.inserted = o.inserted /\ r.pending = o.pending
      /\ r.frontier = o.frontier /\ r.links = o.links
      /\ r.stage = "fetch" /\ r.visited = o.visited /\ r.results = o.results
      /\ r.buffer = o.buffer /\ r.item = o.item /\ r.slotOf = o.slotOf
  BY <1>0, Before DEF Scans
<1>s. ScanSet(p, r)
  BY <1>1
<1> HIDE DEF r
<1>3. /\ scan'[p] = r /\ SnapshotOK(p)' /\ Enclosed(p)' /\ Wanted(p)' = Wanted(p)
      /\ \A s : Seen(p, s)' = Seen(p, s)
  BY <1>0, <1>s, <1>2, NothingFound
<1>4. Items(p)' = Items(p) /\ Todo(p)' = Todo(p)
  BY <1>2, <1>3 DEF Items, Todo
<1>5. ListsApart(p)'
  BY <1>2, <1>3, <1>4, <1>b DEF ListsApart
<1>6. Faithful(p)'
  BY <1>2, <1>3, <1>4, <1>b DEF Faithful
<1>7. FoundKept(p)'
  BY <1>0, <1>2, <1>3, <1>4, Before DEF FoundKept
<1> QED
  BY <1>0, <1>s, <1>2, <1>3, <1>5, <1>6, <1>7, Before, OneScanStep DEF ScanOK

LEMMA FetchStep == ASSUME IInv, NEW p \in Scanner, Fetch(p) PROVE IInv'
<1> DEFINE o == scan[p]
           r == [o EXCEPT !.results = @ \cup Matching(o.filter, Seen(p, o.item.slot)),
                          !.item = NoItem, !.stage = "returned"]
<1>0. o.stage = "fetch" /\ Active(p)
  BY DEF Fetch, Active
<1>b. /\ ListsApart(p) /\ Faithful(p) /\ o.item # NoItem /\ o.buffer \subseteq Item
      /\ Items(p) = o.buffer \cup {o.item} /\ o.item \notin o.buffer
  BY <1>0, Before DEF Scans, ListsApart, Items
<1>1. ScanSet(p, r)
  BY FetchSets DEF IInv
<1>2. /\ r.snapshot = o.snapshot /\ r.filter = o.filter /\ r.query = o.query
      /\ r.inserted = o.inserted /\ r.pending = o.pending
      /\ r.frontier = o.frontier /\ r.links = o.links
      /\ r.stage = "returned" /\ r.visited = o.visited
      /\ r.results = o.results \cup ({o.item.node} \cap Wanted(p))
      /\ r.buffer = o.buffer /\ r.item = NoItem /\ r.slotOf = o.slotOf
  <2>1. Matching(o.filter, Seen(p, o.item.slot)) = {o.item.node} \cap Wanted(p)
    BY <1>b DEF Faithful, Wanted, Matching
  <2> QED
    BY <1>0, <2>1, Before DEF Scans
<1> HIDE DEF r
<1>3. /\ scan'[p] = r /\ SnapshotOK(p)' /\ Enclosed(p)' /\ Wanted(p)' = Wanted(p)
      /\ \A s : Seen(p, s)' = Seen(p, s)
  BY <1>0, <1>1, <1>2, NothingFound
<1>4. Items(p)' = o.buffer /\ Todo(p)' = Todo(p) /\ NoItem \notin o.buffer
  BY <1>2, <1>3, <1>b, NoItemIsNone DEF Items, Todo
<1>5. ListsApart(p)'
  BY <1>2, <1>3, <1>4, <1>b DEF ListsApart
<1>6. Faithful(p)'
  BY <1>2, <1>3, <1>4, <1>b DEF Faithful
<1>7. FoundKept(p)'
  BY <1>0, <1>2, <1>3, <1>4, <1>b, Before DEF FoundKept
<1> QED
  BY <1>0, <1>1, <1>2, <1>3, <1>5, <1>6, <1>7, Before, OneScanStep DEF ScanOK

LEMMA CallAgainStep == ASSUME IInv, NEW p \in Scanner, CallAgain(p) PROVE IInv'
<1> DEFINE o == scan[p]
           r == [o EXCEPT !.stage = "search"]
<1>0. o.stage = "returned" /\ Active(p)
  BY DEF CallAgain, Active
<1>1. ScanSet(p, r)
  BY CallAgainSets DEF IInv
<1>2. /\ r.snapshot = o.snapshot /\ r.filter = o.filter /\ r.query = o.query
      /\ r.inserted = o.inserted /\ r.pending = o.pending
      /\ r.frontier = o.frontier /\ r.links = o.links
      /\ r.stage = "search" /\ r.visited = o.visited /\ r.results = o.results
      /\ r.buffer = o.buffer /\ r.item = o.item /\ r.slotOf = o.slotOf
  BY <1>0, Before DEF Scans
<1> HIDE DEF r
<1>b. ListsApart(p) /\ Faithful(p)
  BY <1>0, Before
<1>3. /\ scan'[p] = r /\ SnapshotOK(p)' /\ Enclosed(p)' /\ Wanted(p)' = Wanted(p)
      /\ \A s : Seen(p, s)' = Seen(p, s)
  BY <1>0, <1>1, <1>2, NothingFound
<1>4. Items(p)' = Items(p) /\ Todo(p)' = Todo(p)
  BY <1>2, <1>3 DEF Items, Todo
<1>5. ListsApart(p)'
  BY <1>0, <1>2, <1>3, <1>4, <1>b DEF ListsApart
<1>6. Faithful(p)'
  BY <1>2, <1>3, <1>4, <1>b DEF Faithful
<1>7. FoundKept(p)'
  BY <1>0, <1>2, <1>3, <1>4, Before DEF FoundKept
<1> QED
  BY <1>0, <1>1, <1>2, <1>3, <1>5, <1>6, <1>7, Before, OneScanStep DEF ScanOK

LEMMA FinishStep == ASSUME IInv, NEW p \in Scanner, Finish(p) PROVE IInv'
<1> DEFINE o == scan[p]
           r == [o EXCEPT !.stage = "done", !.pin = NoBlock]
<1>0. o.stage = "search" /\ Exhausted(o) /\ o.buffer = {} /\ Active(p)
  BY DEF Finish, Active
<1>1. ScanSet(p, r)
  BY FinishSets DEF IInv
<1>2. /\ r.snapshot = o.snapshot /\ r.filter = o.filter /\ r.query = o.query
      /\ r.inserted = o.inserted /\ r.pending = o.pending
      /\ r.frontier = o.frontier /\ r.links = o.links
      /\ r.stage = "done" /\ r.visited = o.visited /\ r.results = o.results
      /\ r.buffer = o.buffer /\ r.item = o.item /\ r.slotOf = o.slotOf
  BY <1>0, Before DEF Scans
<1> HIDE DEF r
<1>b. ListsApart(p) /\ Faithful(p)
  BY <1>0, Before
<1>3. /\ scan'[p] = r /\ SnapshotOK(p)' /\ Enclosed(p)' /\ Wanted(p)' = Wanted(p)
      /\ \A s : Seen(p, s)' = Seen(p, s)
  BY <1>0, <1>1, <1>2, NothingFound
<1>4. Items(p)' = Items(p) /\ Todo(p)' = Todo(p)
  BY <1>2, <1>3 DEF Items, Todo
<1>5. ListsApart(p)'
  BY <1>0, <1>2, <1>3, <1>4, <1>b DEF ListsApart
<1>6. Faithful(p)'
  BY <1>2, <1>3, <1>4, <1>b DEF Faithful
<1>7. FoundKept(p)'
  BY <1>0, <1>2, <1>3, <1>4, Before DEF FoundKept
<1>8. o.results = Wanted(p)
  <2>1. Todo(p) = {} /\ Items(p) = {} /\ o.visited = {}
    BY <1>0, <1>b DEF Exhausted, Todo, Items, ListsApart
  <2>2. Encloses(p, {})
    BY <2>1 DEF Encloses, Matching
  <2>3. Wanted(p) \subseteq o.inserted
    BY <1>0, <2>2, Before DEF Enclosed
  <2>4. o.results \subseteq Wanted(p)
    BY <1>b DEF ListsApart
  <2>5. ASSUME NEW n \in Wanted(p) PROVE n \in o.results
    <3>1. \/ n \in Todo(p) \cup o.visited \cup o.results
          \/ \E i \in Items(p) : i.node = n
      BY <1>0, <2>3, Before DEF FoundKept
    <3> QED
      BY <2>1, <3>1
  <2> QED
    BY <2>4, <2>5
<1>9. r.results = Matching(r.filter, r.snapshot)
  BY <1>2, <1>8 DEF Wanted
<1> QED
  BY <1>0, <1>1, <1>2, <1>3, <1>5, <1>6, <1>7, <1>9, Before, OneScanStep DEF ScanOK

LEMMA EndScanStep == ASSUME IInv, NEW p \in Scanner, EndScan(p) PROVE IInv'
<1> DEFINE r == [NoScan EXCEPT !.stage = "ended"]
<1>1. ScanSet(p, r) /\ r.stage = "ended"
  BY EndScanSets DEF IInv, NoScan
<1> HIDE DEF r
<1>2. ~Active(p)'
  BY <1>1, OneScan DEF Active, IInv
<1> QED
  BY <1>1, <1>2, OneScanStep

--------------------------------------------------------------------------------
(***************************************************************************)
(* The invariant holds                                                     *)
(***************************************************************************)

LEMMA InvInit == Init => IInv
<1> SUFFICES ASSUME Init PROVE IInv
  OBVIOUS
<1>1. NoScan \in Scans /\ NoScan.stage = "idle" /\ NoVacuum \in Vacuums
  BY NoScanTyped DEF NoScan, NoVacuum, Vacuums
<1>2. TypeOK /\ RootsOK
  BY <1>1 DEF Init, TypeOK, RootsOK, NoRoots, Roots
<1>3. RowsOK
  BY DEF Init, RowsOK, EntriesNameTheirRows
<1>4. LiveReachable
  BY DEF Init, LiveReachable
<1>5. PassOK
  BY DEF Init, PassOK, NoVacuum
<1>6. \A p \in Scanner : scan[p].stage = "idle"
  BY <1>1 DEF Init
<1>7. ScansOK /\ ScanComplete
  BY <1>6 DEF ScansOK, Active, ScanComplete
<1> QED
  BY <1>2, <1>3, <1>4, <1>5, <1>7 DEF IInv

LEMMA ScanStepStep == ASSUME IInv, NEW p \in Scanner, ScanStep(p) PROVE IInv'
<1>0. ASSUME NEW filter \in Filters, NEW null \in BOOLEAN,
             BeginScan(p, filter, QueryFor(filter, null))
      PROVE  IInv'
  BY <1>0, BeginScanStep
<1>1. CASE Resort(p) \/ Pin(p) \/ Fetch(p) \/ CallAgain(p) \/ Finish(p)
  BY <1>1, ResortStep, PinStep, FetchStep, CallAgainStep, FinishStep
<1>2. ASSUME NEW m \in Node, ReadFound(p, m) \/ Visit(p, m) \/ Skip(p, m) \/ Consume(p, m)
      PROVE  IInv'
  BY <1>2, ReadFoundStep, VisitStep, SkipStep, ConsumeStep
<1>3. ASSUME NEW i \in scan[p].buffer, Pop(p, i) PROVE IInv'
  BY <1>3, PopStep
<1> QED
  BY <1>0, <1>1, <1>2, <1>3 DEF ScanStep

LEMMA InvStep == IInv /\ [Next]_vars => IInv'
<1> SUFFICES ASSUME IInv, [Next]_vars PROVE IInv'
  OBVIOUS
<1>1. ASSUME NEW n \in Node, NEW s \in Slot, NEW W \in SUBSET (Written \ {n}), Insert(n, s, W)
      PROVE  IInv'
  BY <1>1, InsertStep
<1>2. ASSUME NEW n \in Node, Commit(n) \/ Die(n) PROVE IInv'
  BY <1>2, CommitStep, DieStep
<1>3. ASSUME NEW p \in Scanner, ScanStep(p) \/ EndScan(p) PROVE IInv'
  BY <1>3, ScanStepStep, EndScanStep
<1>4. ASSUME NEW dead \in SUBSET DeadSlots, NEW nblocks \in Lengths, BeginPass(dead, nblocks)
      PROVE  IInv'
  BY <1>4, BeginPassStep
<1>5. CASE VacuumBlock \/ Reclaim \/ EndVacuum
  BY <1>5, VacuumBlockStep, ReclaimStep, EndVacuumStep
<1>6. CASE UNCHANGED vars
  <2>1. UNCHANGED << heap, status, entry, adj, roots, scan, vacuum >>
    BY <1>6 DEF vars
  <2>2. vacuum' \in Vacuums /\ PassOK'
    BY <2>1 DEF IInv, TypeOK, PassOK, Active
  <2> QED
    BY <2>1, <2>2, VacuumOnly
<1>7. ASSUME NEW p \in Scanner, NEW filter \in Filters, NEW null \in BOOLEAN,
             Rescan(p, filter, QueryFor(filter, null))
      PROVE  IInv'
  BY <1>7, RescanStep
<1> QED
  BY <1>1, <1>2, <1>3, <1>4, <1>5, <1>6, <1>7 DEF Next

LEMMA Invariant == Spec => []IInv
BY InvInit, InvStep, PTL DEF Spec

--------------------------------------------------------------------------------
(***************************************************************************)
(* Theorems                                                                *)
(***************************************************************************)

\* The heap, the index nodes, the scans' lists and the VACUUM in progress keep
\* their types through every step of amrescan, amgettuple and ambulkdelete.
THEOREM TypeCorrect == Spec => []TypeOK
<1>1. IInv => TypeOK
  BY DEF IInv
<1> QED
  BY <1>1, Invariant, PTL

\* However ambulkdelete's passes mix with insertions that reuse slots, a heap
\* pointer that is left in an index node is that of the node's own row.
THEOREM EntriesStayTrue == Spec => []EntriesNameTheirRows
<1>1. IInv => EntriesNameTheirRows
  BY DEF IInv, RowsOK
<1> QED
  BY <1>1, Invariant, PTL

\* Heap pointers that next and next_with_resort hold on to never show a scan a
\* foreign row or one it has returned.
THEOREM ScansSeeOwnRows == Spec => []NoForeignOrRepeatedRows
<1>1. ASSUME IInv, NEW p \in Scanner, Active(p)
      PROVE  /\ \A i \in Items(p) : Seen(p, i.slot) \subseteq {i.node} \ scan[p].results
             /\ \A i, j \in Items(p) : i.node = j.node => i = j
  <2>1. ListsApart(p) /\ Faithful(p)
    BY <1>1, Before
  <2>2. \A i \in Items(p) : Seen(p, i.slot) \subseteq {i.node} /\ i.node \notin scan[p].results
    BY <2>1 DEF ListsApart, Faithful
  <2> QED
    BY <2>1, <2>2 DEF ListsApart
<1>2. IInv => NoForeignOrRepeatedRows
  BY <1>1 DEF NoForeignOrRepeatedRows
<1> QED
  BY <1>2, Invariant, PTL

\* A scan that amgettuple has brought to its end returned exactly the rows of
\* its snapshot that have one of the labels asked for, with or without
\* resorting, with either storage, and after each amrescan.
THEOREM ScansComplete == Spec => []ScanComplete
<1>1. IInv => ScanComplete
  BY DEF IInv
<1> QED
  BY <1>1, Invariant, PTL
================================================================================
