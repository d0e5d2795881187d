--------------------------------- MODULE Insert ---------------------------------
(***************************************************************************)
(* Whole insertions, by several backends into one graph: aminsert from the *)
(* metadata it fetches to the commit of its row.  An insertion writes its  *)
(* node, publishes the search roots its labels lack, and links the node:   *)
(* first from the roots of its labels, through nodes that share a label,   *)
(* then from the default root.  A search reads one node at a time while    *)
(* the others go on changing the graph.                                    *)
(*                                                                         *)
(* Modules Adjacency and MetaPage show that an adjacency update and a root *)
(* publication are atomic, so each is one step here, and neighbors are     *)
(* kept as sets.  The plain storage copies a node's neighbors when the     *)
(* search finds it, the SBQ storages when the search visits it.            *)
(***************************************************************************)
EXTENDS Neighbors

CONSTANTS
  Backend,
  Label,
  DefaultRoot,
  NoNode,
  LabelsOf,        \* the labels of the row each node is written for
  SearchListSize,  \* get_search_list_size_for_build
  CopiesWhenFound  \* the plain storage

INSTANCE StartNodes

ASSUME InsertAssumption ==
  /\ DefaultRoot \notin Label /\ NoNode \notin Node
  /\ LabelsOf \in [Node -> SUBSET Label]
  /\ SearchListSize \in Nat \ {0}
  /\ CopiesWhenFound \in BOOLEAN

VARIABLES
  graph,    \* tape: nodes written, adj: their neighbors, roots; as logged
  durable,  \* graph as of the last log record known to be flushed
  rows,     \* the nodes of committed insertions
  op        \* the insertion each backend executes

vars == << graph, durable, rows, op >>

Stages == {"idle", "fetched", "written", "search", "link", "done"}
Passes == {"labels", "default"}

\* meta is the backend's copy of the roots.  A search has nodes to read
\* (pending), candidates to visit (frontier) and visited ones; links are the
\* neighbors that still lack their back pointer.
Locals == [stage : Stages, pass : Passes, node : Node \cup {NoNode}, meta : Roots,
           pending : SUBSET Node, frontier : SUBSET Node, visited : SUBSET Node,
           copied : [Node -> SUBSET Node], links : SUBSET Node]

NoCopies == [m \in Node |-> {}]

Idle == [stage |-> "idle", pass |-> "labels", node |-> NoNode, meta |-> NoRoots,
         pending |-> {}, frontier |-> {}, visited |-> {}, copied |-> NoCopies,
         links |-> {}]

Labels(b) == LabelsOf[op[b].node]

--------------------------------------------------------------------------------
(***************************************************************************)
(* The parts of a search                                                   *)
(***************************************************************************)

\* get_for_node: labels without a root are left out.
StartNodesFor(meta, labels, pass) ==
  {meta[k] : k \in IF pass = "labels" THEN labels ELSE {DefaultRoot}} \ {NoNode}

\* greedy_search_for_build up to its first visit; the plain storage has yet to
\* read what is found.
BeginPass(o, pass) ==
  LET found == StartNodesFor(o.meta, LabelsOf[o.node], pass)
  IN  [stage |-> "search", pass |-> pass, node |-> o.node, meta |-> o.meta,
       pending |-> IF CopiesWhenFound THEN found ELSE {},
       frontier |-> IF CopiesWhenFound THEN {} ELSE found,
       visited |-> {}, copied |-> NoCopies, links |-> {}]

\* A search that skips the test whether a neighbor was found before.
UnseenOrVisited(o, S) == S \ o.frontier

\* prepare_insert, then the label filter of the first pass.
Unseen(o, S) ==
  {m \in S \ (o.frontier \cup o.visited) :
     o.pass = "labels" => LabelsOf[m] \cap LabelsOf[o.node] # {}}

\* visit_closest finds nothing to visit: no candidate is left, or enough are
\* visited and (for some order of distances) the next one is too far.
SearchEnds(o) ==
  /\ o.pending = {}
  /\ o.frontier = {} \/ Cardinality(o.visited) > SearchListSize

\* insert_internal is called for the labels, then without a filter.
NextPass(o) ==
  CASE o.links # {} -> o
    [] o.links = {} /\ o.pass = "labels" -> BeginPass(o, "default")
    [] o.links = {} /\ o.pass = "default" -> [Idle EXCEPT !.stage = "done", !.node = o.node]

FirstPass(o) == BeginPass(o, IF Label = {} THEN "default" ELSE "labels")

--------------------------------------------------------------------------------
Init ==
  /\ graph = [tape |-> {}, adj |-> [n \in Node |-> {}], roots |-> NoRoots]
  /\ durable = graph
  /\ rows = {}
  /\ op = [b \in Backend |-> Idle]

\* MetaPage::fetch, for a row whose node will be n.
Begin(b, n) ==
  /\ op[b].stage = "idle"
  /\ n \notin graph.tape
  /\ \A c \in Backend : op[c].node # n
  /\ op' = [op EXCEPT ![b] = [Idle EXCEPT !.stage = "fetched", !.node = n,
                                          !.meta = graph.roots]]
  /\ UNCHANGED << graph, durable, rows >>

\* The node is not written before its pointer is used.
WriteNodeLater(b) ==
  /\ op[b].stage = "fetched"
  /\ op' = [op EXCEPT ![b].stage = "written"]
  /\ UNCHANGED << graph, durable, rows >>

\* create_node
WriteNode(b) ==
  /\ op[b].stage = "fetched"
  /\ graph' = [graph EXCEPT !.tape = @ \cup {op[b].node}]
  /\ op' = [op EXCEPT ![b].stage = "written"]
  /\ UNCHANGED << durable, rows >>

\* update_start_nodes, early return.
HasRoots(b) ==
  /\ op[b].stage = "written"
  /\ Covers(op[b].meta, Labels(b))
  /\ op' = [op EXCEPT ![b] = FirstPass(op[b])]
  /\ UNCHANGED << graph, durable, rows >>

\* Publication of roots made from the backend's own copy.
PublishRootsStale(b) ==
  LET new == Published(op[b].meta, op[b].node, Labels(b))
  IN  /\ op[b].stage = "written"
      /\ ~Covers(op[b].meta, Labels(b))
      /\ graph' = [graph EXCEPT !.roots = new]
      /\ op' = [op EXCEPT ![b] = FirstPass([op[b] EXCEPT !.meta = new])]
      /\ UNCHANGED << durable, rows >>

\* update_start_nodes under its lock: made from the roots of that moment.
PublishRoots(b) ==
  LET new == Published(graph.roots, op[b].node, Labels(b))
  IN  /\ op[b].stage = "written"
      /\ ~Covers(op[b].meta, Labels(b))
      /\ graph' = [graph EXCEPT !.roots = new]
      /\ op' = [op EXCEPT ![b] = FirstPass([op[b] EXCEPT !.meta = new])]
      /\ UNCHANGED << durable, rows >>

\* The plain storage reads a found node and copies its neighbors.
ReadFound(b, m) ==
  /\ op[b].stage = "search" /\ m \in op[b].pending
  /\ op' = [op EXCEPT ![b].pending = @ \ {m}, ![b].frontier = @ \cup {m},
                      ![b].copied[m] = graph.adj[m]]
  /\ UNCHANGED << graph, durable, rows >>

\* visit_lsn; the order of distances is left open.
Visit(b, m) ==
  /\ op[b].stage = "search" /\ op[b].pending = {}
  /\ m \in op[b].frontier
  /\ LET o == [op[b] EXCEPT !.frontier = @ \ {m}, !.visited = @ \cup {m},
                            !.copied[m] = {}]
         found == Unseen(o, IF CopiesWhenFound THEN op[b].copied[m] ELSE graph.adj[m])
     IN  op' = [op EXCEPT ![b] = IF CopiesWhenFound THEN [o EXCEPT !.pending = found]
                                 ELSE [o EXCEPT !.frontier = @ \cup found]]
  /\ UNCHANGED << graph, durable, rows >>

\* merge_neighbors_on_disk with the nodes added.
Merge(n, added, kept) ==
  /\ kept \in MergedNeighbors(n, graph.adj[n], added)
  /\ graph' = [graph EXCEPT !.adj[n] = kept]
  /\ UNCHANGED << durable, rows >>

\* add_neighbors on the new node, with the visited nodes.
LinkNode(b) ==
  /\ op[b].stage = "search" /\ SearchEnds(op[b])
  /\ \E kept \in SUBSET Node :
       /\ Merge(op[b].node, op[b].visited, kept)
       /\ op' = [op EXCEPT ![b] =
                   NextPass([op[b] EXCEPT !.stage = "link", !.links = kept,
                               !.frontier = {}, !.visited = {}, !.copied = NoCopies])]

\* update_back_pointer; pruning may leave the new node out.
LinkBack(b, m) ==
  /\ op[b].stage = "link" /\ m \in op[b].links
  /\ \E kept \in SUBSET Node : Merge(m, {op[b].node}, kept)
  /\ op' = [op EXCEPT ![b] = NextPass([op[b] EXCEPT !.links = @ \ {m}])]

--------------------------------------------------------------------------------
(***************************************************************************)
(* Transactions, errors and crashes                                        *)
(***************************************************************************)
Commit(b) ==
  /\ op[b].stage = "done"
  /\ rows' = rows \cup {op[b].node}
  /\ durable' = graph
  /\ op' = [op EXCEPT ![b] = Idle]
  /\ UNCHANGED graph

Abort(b) ==
  /\ op[b].stage # "idle"
  /\ op' = [op EXCEPT ![b] = Idle]
  /\ UNCHANGED << graph, durable, rows >>

Flush ==
  /\ durable # graph
  /\ durable' = graph
  /\ UNCHANGED << graph, rows, op >>

Crash ==
  /\ graph' = durable
  /\ op' = [b \in Backend |-> Idle]
  /\ UNCHANGED << durable, rows >>

Next ==
  \/ \E b \in Backend :
       \/ \E n \in Node : Begin(b, n) \/ ReadFound(b, n) \/ Visit(b, n) \/ LinkBack(b, n)
       \/ WriteNode(b) \/ HasRoots(b) \/ PublishRoots(b) \/ LinkNode(b)
       \/ Commit(b) \/ Abort(b)
  \/ Flush
  \/ Crash

Spec == Init /\ [][Next]_vars

\* A backend goes on with its insertion; it need not commit.
Advance(b) ==
  \/ WriteNode(b) \/ HasRoots(b) \/ PublishRoots(b) \/ LinkNode(b)
  \/ \E m \in Node : ReadFound(b, m) \/ Visit(b, m) \/ LinkBack(b, m)

FairSpec == Spec /\ \A b \in Backend : WF_vars(Advance(b))

--------------------------------------------------------------------------------
(***************************************************************************)
(* Properties                                                              *)
(***************************************************************************)

Images == [tape : SUBSET Node, adj : [Node -> SUBSET Node], roots : Roots]

TypeOK ==
  /\ graph \in Images
  /\ durable \in Images
  /\ rows \subseteq Node
  /\ op \in [Backend -> Locals]
  /\ \A b \in Backend : op[b].stage # "idle" => op[b].node \in Node

\* A search that starts at the root for k and goes on through nodes of W only
\* reaches n: n is in every set that has the root and is closed under it.
Reaches(image, k, W, n) ==
  /\ image.roots[k] \in Node
  /\ \A S \in SUBSET Node :
       (image.roots[k] \in S /\ \A x \in S : image.adj[x] \cap W \subseteq S) => n \in S

Labeled(l) == {n \in Node : l \in LabelsOf[n]}

\* No pointer leads to a node that is not on the tape: a search never reads an
\* item that does not exist, neither now nor after a crash that loses the
\* unflushed end of the log, whatever insertions were cut off (create_node is
\* logged before update_start_nodes and add_neighbors use its pointer).
PointersOnTape ==
  \A image \in {graph, durable} :
    /\ \A n \in Node : image.adj[n] # {} => {n} \cup image.adj[n] \subseteq image.tape
    /\ \A k \in Key : image.roots[k] \in image.tape \cup {NoNode}

\* Every committed row can be found from the default root, at any time and after
\* a crash, however insertions overlapped, were cancelled halfway or lost the
\* race for a root.  Pruning may cut a node off (CONCURRENCY.md: validation
\* prevents stale replacement, not edge removal by pruning), so this is stated
\* for instances in which no list overflows.
RowsReachable ==
  \A image \in {graph, durable} : \A n \in rows :
    Reaches(image, DefaultRoot, Node, n)

\* A query for one label finds every committed row with it: from the label's
\* root, through nodes that have the label, also if another backend published
\* the root, or aborted after it did.
RowsReachableByLabel ==
  \A image \in {graph, durable} : \A n \in rows : \A l \in LabelsOf[n] :
    Reaches(image, l, Labeled(l), n)

\* Although other backends add edges under a search, it comes to an end, and
\* the insertion with it: a node is found at most once (ListSearchResult's
\* inserted set).
InsertionsFinish ==
  \A b \in Backend : (op[b].stage # "idle") ~> (op[b].stage \in {"idle", "done"})
================================================================================
