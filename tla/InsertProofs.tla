------------------------------ MODULE InsertProofs ------------------------------
(***************************************************************************)
(* Theorems about Insert, for any number of nodes, backends and labels.    *)
(***************************************************************************)
EXTENDS Insert, FiniteSetTheorems, TLAPS

USE DEF Passes, Stages

--------------------------------------------------------------------------------
(***************************************************************************)
(* The records of an insertion                                             *)
(***************************************************************************)

\* Idle, the state of a backend between insertions.
LEMMA IdleFields ==
  /\ Idle \in Locals /\ Idle.stage = "idle" /\ Idle.meta = NoRoots
  /\ Idle.pending = {} /\ Idle.frontier = {} /\ Idle.visited = {} /\ Idle.links = {}
  /\ Idle.copied = NoCopies
<1>1. NoRoots \in Roots
  BY DEF NoRoots, Roots
<1>2. NoCopies \in [Node -> SUBSET Node]
  BY DEF NoCopies
<1> QED
  BY <1>1, <1>2 DEF Idle, Locals

\* get_for_node returns nodes.
LEMMA StartNodesType ==
  ASSUME NEW meta \in Roots, NEW n \in Node, NEW pass
  PROVE  StartNodesFor(meta, LabelsOf[n], pass) \subseteq Node
<1>1. LabelsOf[n] \subseteq Label
  BY InsertAssumption
<1> QED
  BY <1>1 DEF StartNodesFor, Roots, Key

\* What a pass of insert_internal starts from: its start nodes are found, and
\* nothing else is.
LEMMA BeginPassFields ==
  ASSUME NEW o \in Locals, o.node \in Node, NEW pass \in Passes
  PROVE  LET s == BeginPass(o, pass)
         IN  /\ s \in Locals
             /\ s.stage = "search" /\ s.pass = pass
             /\ s.node = o.node /\ s.meta = o.meta
             /\ s.visited = {} /\ s.links = {} /\ s.copied = NoCopies
             /\ s.pending \cup s.frontier = StartNodesFor(o.meta, LabelsOf[o.node], pass)
<1>1. o.meta \in Roots /\ NoCopies \in [Node -> SUBSET Node]
  BY DEF Locals, NoCopies
<1>2. StartNodesFor(o.meta, LabelsOf[o.node], pass) \subseteq Node
  BY <1>1, StartNodesType
<1> QED
  BY <1>1, <1>2 DEF BeginPass, Locals

\* What insert_internal does after a back pointer, or without any: the next
\* back pointer, the next pass or nothing.
LEMMA NextPassFields ==
  ASSUME NEW o \in Locals, o.node \in Node, o.stage = "link"
  PROVE  /\ NextPass(o) \in Locals
         /\ NextPass(o).stage \in {"link", "search", "done"}
         /\ NextPass(o).node = o.node
         /\ o.links # {} => NextPass(o) = o
         /\ o.links = {} /\ o.pass = "labels" => NextPass(o) = BeginPass(o, "default")
         /\ o.links = {} /\ o.pass = "default" =>
              /\ NextPass(o).stage = "done" /\ NextPass(o).meta = NoRoots
              /\ NextPass(o).pending = {} /\ NextPass(o).frontier = {}
              /\ NextPass(o).visited = {} /\ NextPass(o).links = {}
              /\ NextPass(o).copied = NoCopies
<1>1. CASE o.links # {}
  BY <1>1 DEF NextPass
<1>2. CASE o.links = {} /\ o.pass = "labels"
  <2>1. NextPass(o) = BeginPass(o, "default")
    BY <1>2 DEF NextPass
  <2> QED
    BY <1>2, <2>1, BeginPassFields
<1>3. CASE o.links = {} /\ o.pass = "default"
  <2>1. NextPass(o) = [Idle EXCEPT !.stage = "done", !.node = o.node]
    BY <1>3 DEF NextPass
  <2> QED
    BY <1>3, <2>1, IdleFields DEF Locals
<1> QED
  BY <1>1, <1>2, <1>3 DEF Locals

\* A merge keeps neighbors that were there or are added, never the node itself
\* (merge_neighbors_on_disk).
LEMMA MergedSubset ==
  ASSUME NEW n, NEW disk, NEW added, NEW kept \in MergedNeighbors(n, disk, added)
  PROVE  kept \subseteq (disk \cup added) \ {n}
BY DEF MergedNeighbors

--------------------------------------------------------------------------------
(***************************************************************************)
(* Types                                                                   *)
(***************************************************************************)

\* One backend's step keeps the types if its graph and locals have them.
LEMMA TypeOfStep ==
  ASSUME TypeOK, NEW b \in Backend, NEW o \in Locals, o.stage # "idle" => o.node \in Node,
         op' = [op EXCEPT ![b] = o], graph' \in Images,
         durable' \in {durable, graph}, rows' = rows \/ rows' = rows \cup {op[b].node},
         rows' # rows => op[b].stage # "idle"
  PROVE  TypeOK'
BY DEF TypeOK

LEMMA TypeCorrectStep == TypeOK /\ [Next]_vars => TypeOK'
<1> SUFFICES ASSUME TypeOK, [Next]_vars PROVE TypeOK'
  OBVIOUS
<1>g. graph \in Images /\ graph.tape \subseteq Node /\ graph.adj \in [Node -> SUBSET Node]
        /\ graph.roots \in Roots
  BY DEF TypeOK, Images
<1>o. \A b \in Backend : op[b] \in Locals /\ (op[b].stage # "idle" => op[b].node \in Node)
  BY DEF TypeOK
<1>1. ASSUME NEW b \in Backend, NEW n \in Node, Begin(b, n) PROVE TypeOK'
  <2> DEFINE o == [Idle EXCEPT !.stage = "fetched", !.node = n, !.meta = graph.roots]
  <2>1. o \in Locals /\ o.node \in Node
    BY IdleFields, <1>g DEF Locals
  <2>2. op' = [op EXCEPT ![b] = o]
    BY <1>1 DEF Begin
  <2> HIDE DEF o
  <2> QED
    BY <1>1, <1>g, <2>1, <2>2, TypeOfStep DEF Begin
<1>2. ASSUME NEW b \in Backend, WriteNode(b) PROVE TypeOK'
  <2> DEFINE o == [op[b] EXCEPT !.stage = "written"]
  <2>1. op[b].node \in Node
    BY <1>2, <1>o DEF WriteNode
  <2>2. o \in Locals /\ o.node \in Node
    BY <1>o, <2>1 DEF Locals
  <2>3. op' = [op EXCEPT ![b] = o]
    BY <1>2, <1>o DEF WriteNode
  <2>4. graph' \in Images
    BY <1>2, <1>g, <2>1 DEF WriteNode, Images
  <2> HIDE DEF o
  <2> QED
    BY <1>2, <2>2, <2>3, <2>4, TypeOfStep DEF WriteNode
<1>3. ASSUME NEW b \in Backend, NEW meta \in Roots, op[b].stage # "idle"
      PROVE  /\ FirstPass([op[b] EXCEPT !.meta = meta]) \in Locals
             /\ FirstPass([op[b] EXCEPT !.meta = meta]).node \in Node
             /\ FirstPass(op[b]) \in Locals /\ FirstPass(op[b]).node \in Node
  <2>1. [op[b] EXCEPT !.meta = meta] \in Locals /\ [op[b] EXCEPT !.meta = meta].node \in Node
    BY <1>3, <1>o DEF Locals
  <2> QED
    BY <1>3, <1>o, <2>1, BeginPassFields DEF FirstPass
<1>4. ASSUME NEW b \in Backend, HasRoots(b) PROVE TypeOK'
  <2>1. op' = [op EXCEPT ![b] = FirstPass(op[b])] /\ op[b].stage # "idle"
    BY <1>4 DEF HasRoots
  <2> QED
    BY <1>4, <1>3, <1>g, <2>1, TypeOfStep DEF HasRoots
<1>5. ASSUME NEW b \in Backend, PublishRoots(b) PROVE TypeOK'
  <2> DEFINE new == Published(graph.roots, op[b].node, Labels(b))
  <2>1. op' = [op EXCEPT ![b] = FirstPass([op[b] EXCEPT !.meta = new])]
          /\ op[b].stage # "idle" /\ op[b].node \in Node
    BY <1>5, <1>o DEF PublishRoots
  <2>2. new \in Roots
    BY <1>g, <2>1 DEF Published, Roots
  <2>3. graph' \in Images
    BY <1>5, <1>g, <2>2 DEF PublishRoots, Images
  <2> HIDE DEF new
  <2> QED
    BY <1>5, <1>3, <2>1, <2>2, <2>3, TypeOfStep DEF PublishRoots
<1>6. ASSUME NEW b \in Backend, NEW m \in Node, ReadFound(b, m) PROVE TypeOK'
  <2> DEFINE o == [op[b] EXCEPT !.pending = @ \ {m}, !.frontier = @ \cup {m},
                                !.copied[m] = graph.adj[m]]
  <2>1. o \in Locals /\ o.node = op[b].node
    BY <1>o, <1>g DEF Locals
  <2>2. op' = [op EXCEPT ![b] = o] /\ op[b].node \in Node
    BY <1>6, <1>o DEF ReadFound
  <2> HIDE DEF o
  <2> QED
    BY <1>6, <1>g, <2>1, <2>2, TypeOfStep DEF ReadFound
<1>7. ASSUME NEW b \in Backend, NEW m \in Node, Visit(b, m) PROVE TypeOK'
  <2> DEFINE i == [op[b] EXCEPT !.frontier = @ \ {m}, !.visited = @ \cup {m},
                                !.copied[m] = {}]
  <2> DEFINE found == Unseen(i, IF CopiesWhenFound THEN op[b].copied[m] ELSE graph.adj[m])
  <2> DEFINE o == IF CopiesWhenFound THEN [i EXCEPT !.pending = found]
                                     ELSE [i EXCEPT !.frontier = @ \cup found]
  <2>1. op' = [op EXCEPT ![b] = o] /\ op[b].node \in Node
    BY <1>7, <1>o DEF Visit
  <2>2. i \in Locals /\ i.node = op[b].node
    BY <1>o DEF Locals
  <2>3. found \subseteq Node
    BY <1>o, <1>g DEF Unseen, Locals
  <2> HIDE DEF i, found
  <2>4. o \in Locals /\ o.node \in Node
    BY <2>1, <2>2, <2>3 DEF Locals
  <2> HIDE DEF o
  <2> QED
    BY <1>7, <1>g, <2>1, <2>4, TypeOfStep DEF Visit
<1>8. ASSUME NEW b \in Backend, LinkNode(b) PROVE TypeOK'
  <2>1. PICK kept \in SUBSET Node :
          /\ Merge(op[b].node, op[b].visited, kept)
          /\ op' = [op EXCEPT ![b] =
                      NextPass([op[b] EXCEPT !.stage = "link", !.links = kept,
                                  !.frontier = {}, !.visited = {}, !.copied = NoCopies])]
    BY <1>8 DEF LinkNode
  <2> DEFINE i == [op[b] EXCEPT !.stage = "link", !.links = kept, !.frontier = {},
                                !.visited = {}, !.copied = NoCopies]
  <2>2. i \in Locals /\ i.node \in Node /\ i.stage = "link"
    BY <1>8, <1>o DEF LinkNode, Locals, NoCopies
  <2>3. op' = [op EXCEPT ![b] = NextPass(i)]
    BY <2>1
  <2> HIDE DEF i
  <2>4. graph' \in Images
    BY <2>1, <1>g DEF Merge, Images
  <2> QED
    BY <2>1, <2>2, <2>3, <2>4, NextPassFields, TypeOfStep DEF Merge
<1>9. ASSUME NEW b \in Backend, NEW m \in Node, LinkBack(b, m) PROVE TypeOK'
  <2>1. PICK kept \in SUBSET Node : Merge(m, {op[b].node}, kept)
    BY <1>9 DEF LinkBack
  <2> DEFINE i == [op[b] EXCEPT !.links = @ \ {m}]
  <2>2. i \in Locals /\ i.node \in Node /\ i.stage = "link"
    BY <1>9, <1>o DEF LinkBack, Locals
  <2>3. op' = [op EXCEPT ![b] = NextPass(i)]
    BY <1>9 DEF LinkBack
  <2> HIDE DEF i
  <2>4. graph' \in Images
    BY <2>1, <1>g DEF Merge, Images
  <2> QED
    BY <2>1, <2>2, <2>3, <2>4, NextPassFields, TypeOfStep DEF Merge
<1>10. ASSUME NEW b \in Backend, Commit(b) \/ Abort(b) PROVE TypeOK'
  BY <1>10, <1>g, IdleFields, TypeOfStep DEF Commit, Abort
<1>11. CASE Flush \/ Crash
  BY <1>11, IdleFields DEF Flush, Crash, TypeOK
<1>12. CASE UNCHANGED vars
  BY <1>12 DEF vars, TypeOK
<1> QED
  BY <1>1, <1>2, <1>4, <1>5, <1>6, <1>7, <1>8, <1>9, <1>10, <1>11, <1>12 DEF Next

LEMMA TypeInit == Init => TypeOK
<1> SUFFICES ASSUME Init PROVE TypeOK
  OBVIOUS
<1>1. graph \in Images
  BY DEF Init, Images, NoRoots, Roots
<1> QED
  BY <1>1, IdleFields DEF Init, TypeOK

\* The variables of Insert keep their types, the roots of every backend's copy
\* of the metadata included.
THEOREM TypeCorrect == Spec => []TypeOK
BY TypeInit, TypeCorrectStep, PTL DEF Spec

--------------------------------------------------------------------------------
(***************************************************************************)
(* No dangling pointers                                                    *)
(***************************************************************************)

\* A logged image has no pointer off its tape.
ImageOnTape(g) ==
  /\ \A n \in Node : g.adj[n] # {} => {n} \cup g.adj[n] \subseteq g.tape
  /\ \A k \in Key : g.roots[k] \in g.tape \cup {NoNode}

\* Neither has what a backend remembers of it.
OnTape(g, o) ==
  /\ o.stage \notin {"idle", "fetched"} => o.node \in g.tape
  /\ \A k \in Key : o.meta[k] \in g.tape \cup {NoNode}
  /\ o.pending \cup o.frontier \cup o.visited \cup o.links \subseteq g.tape
  /\ \A m \in Node : o.copied[m] \subseteq g.tape

TapeInv ==
  /\ TypeOK
  /\ ImageOnTape(graph)
  /\ ImageOnTape(durable)
  /\ \A b \in Backend : OnTape(graph, op[b])

LEMMA IdleOnTape == ASSUME NEW g PROVE OnTape(g, Idle)
BY IdleFields DEF OnTape, NoRoots, NoCopies

\* The start nodes of a pass are on the tape if the roots known to it are.
LEMMA BeginPassOnTape ==
  ASSUME NEW g, NEW o \in Locals, o.node \in Node, NEW pass \in Passes,
         o.node \in g.tape, \A k \in Key : o.meta[k] \in g.tape \cup {NoNode}
  PROVE  OnTape(g, BeginPass(o, pass))
<1>1. LabelsOf[o.node] \subseteq Label
  BY InsertAssumption
<1>2. StartNodesFor(o.meta, LabelsOf[o.node], pass) \subseteq g.tape
  BY <1>1 DEF StartNodesFor, Key
<1> QED
  BY <1>2, BeginPassFields DEF OnTape, NoCopies

LEMMA NextPassOnTape ==
  ASSUME NEW g, NEW o \in Locals, o.node \in Node, o.stage = "link", OnTape(g, o)
  PROVE  OnTape(g, NextPass(o))
<1>1. CASE o.links # {}
  BY <1>1, NextPassFields
<1>2. CASE o.links = {} /\ o.pass = "labels"
  <2>1. OnTape(g, BeginPass(o, "default"))
    BY BeginPassOnTape DEF OnTape
  <2> QED
    BY <1>2, <2>1, NextPassFields
<1>3. CASE o.links = {} /\ o.pass = "default"
  <2>1. NextPass(o).node \in g.tape
    BY NextPassFields DEF OnTape
  <2> QED
    BY <1>3, <2>1, NextPassFields DEF OnTape, NoRoots, NoCopies
<1> QED
  BY <1>1, <1>2, <1>3 DEF Locals

\* A step of one backend that leaves no pointer off the tape and takes nothing
\* off it.
LEMMA TapeOfStep ==
  ASSUME TapeInv, TypeOK', NEW b \in Backend, NEW o, op' = [op EXCEPT ![b] = o],
         graph.tape \subseteq graph'.tape, ImageOnTape(graph'), OnTape(graph', o),
         durable' = durable \/ durable' = graph'
  PROVE  TapeInv'
<1>1. \A c \in Backend : c # b => op'[c] = op[c]
  BY DEF TapeInv, TypeOK
<1>2. op'[b] = o
  BY DEF TapeInv, TypeOK
<1>3. \A c \in Backend : OnTape(graph', op[c])
  BY DEF TapeInv, OnTape
<1>4. ImageOnTape(durable')
  BY DEF TapeInv
<1> QED
  BY <1>1, <1>2, <1>3, <1>4 DEF TapeInv

\* A merge with nodes of the tape, for a node of the tape.
LEMMA MergeOnTape ==
  ASSUME TapeInv, NEW n \in Node, NEW added, NEW kept, Merge(n, added, kept),
         n \in graph.tape, added \subseteq graph.tape
  PROVE  /\ kept \subseteq graph.tape
         /\ graph'.tape = graph.tape
         /\ ImageOnTape(graph')
         /\ durable' = durable
<1>1. graph' = [graph EXCEPT !.adj[n] = kept] /\ durable' = durable
        /\ kept \subseteq graph.adj[n] \cup added
  BY MergedSubset DEF Merge
<1>2. graph \in Images
  BY DEF TapeInv, TypeOK
<1>3. kept \subseteq graph.tape
  BY <1>1 DEF TapeInv, ImageOnTape
<1>4. graph'.tape = graph.tape /\ graph'.roots = graph.roots
        /\ graph'.adj = [graph.adj EXCEPT ![n] = kept]
  BY <1>1, <1>2 DEF Images
<1>5. \A m \in Node : graph'.adj[m] = IF m = n THEN kept ELSE graph.adj[m]
  BY <1>2, <1>4 DEF Images
<1> QED
  BY <1>1, <1>3, <1>4, <1>5 DEF ImageOnTape, TapeInv

LEMMA TapeStep == TapeInv /\ [Next]_vars => TapeInv'
<1> SUFFICES ASSUME TapeInv, [Next]_vars PROVE TapeInv'
  OBVIOUS
<1>t. TypeOK'
  BY TypeCorrectStep DEF TapeInv
<1>g. graph \in Images /\ graph.tape \subseteq Node /\ graph.adj \in [Node -> SUBSET Node]
        /\ graph.roots \in Roots
  BY DEF TapeInv, TypeOK, Images
<1>o. \A b \in Backend : op[b] \in Locals /\ (op[b].stage # "idle" => op[b].node \in Node)
  BY DEF TapeInv, TypeOK
<1>i. ImageOnTape(graph) /\ \A b \in Backend : OnTape(graph, op[b])
  BY DEF TapeInv
<1>1. ASSUME NEW b \in Backend, NEW n \in Node, Begin(b, n) PROVE TapeInv'
  <2> DEFINE o == [Idle EXCEPT !.stage = "fetched", !.node = n, !.meta = graph.roots]
  <2>1. OnTape(graph, o)
    BY IdleFields, <1>i DEF Locals, OnTape, ImageOnTape, NoCopies
  <2>2. op' = [op EXCEPT ![b] = o] /\ graph' = graph /\ durable' = durable
    BY <1>1 DEF Begin
  <2> HIDE DEF o
  <2> QED
    BY <1>t, <1>i, <2>1, <2>2, TapeOfStep
<1>2. ASSUME NEW b \in Backend, WriteNode(b) PROVE TapeInv'
  <2> DEFINE o == [op[b] EXCEPT !.stage = "written"]
  <2>1. op' = [op EXCEPT ![b] = o] /\ durable' = durable
    BY <1>2, <1>o DEF WriteNode
  <2>2. graph'.tape = graph.tape \cup {op[b].node} /\ graph'.adj = graph.adj
          /\ graph'.roots = graph.roots
    BY <1>2, <1>g DEF WriteNode, Images
  <2>3. OnTape(graph', o)
    BY <1>o, <1>i, <2>2 DEF OnTape, Locals
  <2>4. ImageOnTape(graph')
    BY <1>i, <2>2 DEF ImageOnTape
  <2> HIDE DEF o
  <2> QED
    BY <1>t, <2>1, <2>2, <2>3, <2>4, TapeOfStep
<1>3. ASSUME NEW b \in Backend, HasRoots(b) PROVE TapeInv'
  <2>1. op' = [op EXCEPT ![b] = FirstPass(op[b])] /\ op[b].stage = "written"
          /\ graph' = graph /\ durable' = durable
    BY <1>3 DEF HasRoots
  <2>2. OnTape(graph, FirstPass(op[b]))
    BY <1>i, <1>o, <2>1, BeginPassOnTape DEF OnTape, FirstPass
  <2> QED
    BY <1>t, <1>i, <2>1, <2>2, TapeOfStep
<1>4. ASSUME NEW b \in Backend, PublishRoots(b) PROVE TapeInv'
  <2> DEFINE new == Published(graph.roots, op[b].node, Labels(b))
  <2> DEFINE i == [op[b] EXCEPT !.meta = new]
  <2>1. op' = [op EXCEPT ![b] = FirstPass(i)] /\ op[b].stage = "written"
          /\ op[b].node \in Node /\ durable' = durable
    BY <1>4, <1>o DEF PublishRoots
  <2>2. new \in Roots /\ \A k \in Key : new[k] \in {graph.roots[k], op[b].node}
    BY <1>g, <2>1 DEF Published, Roots
  <2>3. graph'.tape = graph.tape /\ graph'.adj = graph.adj /\ graph'.roots = new
    BY <1>4, <1>g DEF PublishRoots, Images
  <2>4. op[b].node \in graph.tape
    BY <1>i, <2>1 DEF OnTape
  <2>5. \A k \in Key : new[k] \in graph.tape \cup {NoNode}
    BY <1>i, <2>2, <2>4 DEF ImageOnTape
  <2> HIDE DEF new
  <2>6. i \in Locals /\ i.node = op[b].node /\ i.meta = new
    BY <1>o, <2>2 DEF Locals
  <2> HIDE DEF i
  <2>7. OnTape(graph', FirstPass(i))
    BY <2>1, <2>3, <2>4, <2>5, <2>6, BeginPassOnTape DEF FirstPass
  <2>8. ImageOnTape(graph')
    BY <1>i, <2>3, <2>5 DEF ImageOnTape
  <2> QED
    BY <1>t, <2>1, <2>3, <2>7, <2>8, TapeOfStep
<1>5. ASSUME NEW b \in Backend, NEW m \in Node, ReadFound(b, m) PROVE TapeInv'
  <2> DEFINE o == [op[b] EXCEPT !.pending = @ \ {m}, !.frontier = @ \cup {m},
                                !.copied[m] = graph.adj[m]]
  <2>1. op' = [op EXCEPT ![b] = o] /\ m \in op[b].pending
          /\ graph' = graph /\ durable' = durable
    BY <1>5 DEF ReadFound
  <2>2. graph.adj[m] \subseteq graph.tape
    BY <1>i DEF ImageOnTape
  <2>3. OnTape(graph, o)
    BY <1>o, <1>i, <2>1, <2>2 DEF OnTape, Locals
  <2> HIDE DEF o
  <2> QED
    BY <1>t, <1>i, <2>1, <2>3, TapeOfStep
<1>6. ASSUME NEW b \in Backend, NEW m \in Node, Visit(b, m) PROVE TapeInv'
  <2> DEFINE i == [op[b] EXCEPT !.frontier = @ \ {m}, !.visited = @ \cup {m},
                                !.copied[m] = {}]
  <2> DEFINE found == Unseen(i, IF CopiesWhenFound THEN op[b].copied[m] ELSE graph.adj[m])
  <2> DEFINE o == IF CopiesWhenFound THEN [i EXCEPT !.pending = found]
                                     ELSE [i EXCEPT !.frontier = @ \cup found]
  <2>1. op' = [op EXCEPT ![b] = o] /\ m \in op[b].frontier
          /\ graph' = graph /\ durable' = durable
    BY <1>6 DEF Visit
  <2>2. /\ i \in Locals /\ i.stage = op[b].stage /\ i.node = op[b].node
        /\ i.meta = op[b].meta /\ i.pending = op[b].pending /\ i.links = op[b].links
        /\ i.frontier \cup i.visited \subseteq op[b].frontier \cup op[b].visited \cup {m}
        /\ \A x \in Node : i.copied[x] \subseteq op[b].copied[x]
    BY <1>o DEF Locals
  <2>3. graph.adj[m] \subseteq graph.tape /\ op[b].copied[m] \subseteq graph.tape
    BY <1>i DEF ImageOnTape, OnTape
  <2>4. found \subseteq graph.tape
    BY <2>3 DEF Unseen
  <2> HIDE DEF i, found
  <2>5. OnTape(graph, op[b]) /\ OnTape(graph, i)
    BY <1>i, <2>1, <2>2 DEF OnTape
  <2>6. OnTape(graph, o)
    BY <2>2, <2>4, <2>5 DEF Locals, OnTape
  <2> HIDE DEF o
  <2> QED
    BY <1>t, <1>i, <2>1, <2>6, TapeOfStep
<1>7. ASSUME NEW b \in Backend, LinkNode(b) PROVE TapeInv'
  <2>1. PICK kept \in SUBSET Node :
          /\ Merge(op[b].node, op[b].visited, kept)
          /\ op' = [op EXCEPT ![b] =
                      NextPass([op[b] EXCEPT !.stage = "link", !.links = kept,
                                  !.frontier = {}, !.visited = {}, !.copied = NoCopies])]
    BY <1>7 DEF LinkNode
  <2> DEFINE i == [op[b] EXCEPT !.stage = "link", !.links = kept, !.frontier = {},
                                !.visited = {}, !.copied = NoCopies]
  <2>2. op' = [op EXCEPT ![b] = NextPass(i)]
    BY <2>1
  <2>3. op[b].stage = "search" /\ op[b].node \in Node
    BY <1>7, <1>o DEF LinkNode
  <2>4. op[b].node \in graph.tape /\ op[b].visited \subseteq graph.tape
    BY <1>i, <2>3 DEF OnTape
  <2>5. kept \subseteq graph.tape /\ graph'.tape = graph.tape
          /\ ImageOnTape(graph') /\ durable' = durable
    BY <2>1, <2>3, <2>4, MergeOnTape
  <2>6. /\ i \in Locals /\ i.stage = "link" /\ i.node = op[b].node /\ i.meta = op[b].meta
        /\ i.pending = op[b].pending /\ i.frontier = {} /\ i.visited = {}
        /\ i.links = kept /\ i.copied = NoCopies
    BY <1>o DEF Locals, NoCopies
  <2> HIDE DEF i
  <2>7. OnTape(graph, op[b])
    BY <1>i
  <2>8. OnTape(graph', i)
    BY <2>3, <2>5, <2>6, <2>7 DEF OnTape, NoCopies
  <2>9. OnTape(graph', NextPass(i))
    BY <2>3, <2>6, <2>8, NextPassOnTape
  <2> QED
    BY <1>t, <2>2, <2>5, <2>9, TapeOfStep
<1>8. ASSUME NEW b \in Backend, NEW m \in Node, LinkBack(b, m) PROVE TapeInv'
  <2>1. PICK kept \in SUBSET Node : Merge(m, {op[b].node}, kept)
    BY <1>8 DEF LinkBack
  <2> DEFINE i == [op[b] EXCEPT !.links = @ \ {m}]
  <2>2. op' = [op EXCEPT ![b] = NextPass(i)]
    BY <1>8 DEF LinkBack
  <2>3. op[b].stage = "link" /\ op[b].node \in Node /\ m \in op[b].links
    BY <1>8, <1>o DEF LinkBack
  <2>4. op[b].node \in graph.tape /\ m \in graph.tape
    BY <1>i, <2>3 DEF OnTape
  <2>5. graph'.tape = graph.tape /\ ImageOnTape(graph') /\ durable' = durable
    BY <2>1, <2>4, MergeOnTape
  <2>6. i \in Locals /\ i.node \in Node /\ i.stage = "link" /\ OnTape(graph', i)
    BY <1>o, <1>i, <2>3, <2>5 DEF Locals, OnTape
  <2> HIDE DEF i
  <2>7. OnTape(graph', NextPass(i))
    BY <2>6, NextPassOnTape
  <2> QED
    BY <1>t, <2>2, <2>5, <2>7, TapeOfStep
<1>9. ASSUME NEW b \in Backend, Commit(b) \/ Abort(b) PROVE TapeInv'
  BY <1>9, <1>t, <1>i, IdleOnTape, TapeOfStep DEF Commit, Abort
<1>10. CASE Flush
  BY <1>10, <1>t DEF Flush, TapeInv
<1>11. CASE Crash
  BY <1>11, <1>t, IdleOnTape DEF Crash, TapeInv
<1>12. CASE UNCHANGED vars
  BY <1>12, <1>t DEF vars, TapeInv
<1> QED
  BY <1>1, <1>2, <1>3, <1>4, <1>5, <1>6, <1>7, <1>8, <1>9, <1>10, <1>11, <1>12 DEF Next

LEMMA TapeInit == Init => TapeInv
<1> SUFFICES ASSUME Init PROVE TapeInv
  OBVIOUS
<1>1. ImageOnTape(graph)
  BY DEF Init, ImageOnTape, NoRoots
<1> QED
  BY <1>1, TypeInit, IdleOnTape DEF Init, TapeInv

\* No list and no root leads off the tape, neither on disk nor in what a crash
\* leaves (create_node is logged before its pointer is used), also when lists
\* are pruned.
THEOREM NoDanglingPointers == Spec => []PointersOnTape
<1>1. TapeInv => PointersOnTape
  BY DEF TapeInv, ImageOnTape, PointersOnTape
<1> QED
  BY <1>1, TapeInit, TapeStep, PTL DEF Spec

--------------------------------------------------------------------------------
(***************************************************************************)
(* Committed rows stay reachable.  The argument: what an insertion visits  *)
(* contains the roots it starts from; it links its node with them in both  *)
(* directions; and as long as no list overflows roots and edges are never  *)
(* taken back.  So at the commit every root the row needs is its node or   *)
(* has it for a neighbor, and stays so.                                    *)
(***************************************************************************)


\* No list overflows, as in the exact-count experiments of CONCURRENCY.md.
NoPruning == IsFiniteSet(Node) /\ Cardinality(Node) <= NumNeighbors

\* No search of an insertion ends with candidates left to visit.
NoEarlyEnd == IsFiniteSet(Node) /\ Cardinality(Node) <= SearchListSize

\* The labels whose roots an insertion of node n is sure to visit.
SureLabels(n) == IF NoEarlyEnd THEN LabelsOf[n] ELSE {}

\* The root for k is n or has it for a neighbor.
Joined(g, k, n) ==
  /\ g.roots[k] \in Node
  /\ n = g.roots[k] \/ n \in g.adj[g.roots[k]]

RowJoined(g, n) == \A k \in SureLabels(n) \cup {DefaultRoot} : Joined(g, k, n)

\* h has the roots and the edges of g.
Grows(g, h) ==
  /\ \A k \in Key : g.roots[k] \in Node => h.roots[k] = g.roots[k]
  /\ \A m \in Node : g.adj[m] \ {m} \subseteq h.adj[m]

\* A backend's copy of the roots may lack some and has no other.
MetaOK(g, o) == \A k \in Key : o.meta[k] \in {NoNode, g.roots[k]}

HasMeta(o) == \A k \in LabelsOf[o.node] \cup {DefaultRoot} : o.meta[k] \in Node

\* The roots a search starts from are found, in the pass without labels first.
SearchOK(o) ==
  /\ o.pass = "labels" =>
       \A k \in LabelsOf[o.node] : o.meta[k] \in o.pending \cup o.frontier \cup o.visited
  /\ o.pass = "default" =>
       \/ o.meta[DefaultRoot] \in o.visited
       \/ /\ o.visited = {}
          /\ o.pending \cup o.frontier = {o.meta[DefaultRoot]}

PassKeys(o) == IF o.pass = "default" THEN {DefaultRoot} ELSE SureLabels(o.node)

\* A root that does not lead to the node yet is among the links left to do.
LinkOK(g, o) == \A k \in PassKeys(o) : o.meta[k] \in o.links \/ Joined(g, k, o.node)

\* What the first pass leaves behind.
LabelsJoined(g, o) == \A k \in SureLabels(o.node) : Joined(g, k, o.node)

OpOK(g, o) ==
  /\ MetaOK(g, o)
  /\ o.stage \in {"search", "link"} => HasMeta(o)
  /\ o.stage = "search" => SearchOK(o)
  /\ o.stage = "link" => LinkOK(g, o)
  /\ o.stage \in {"search", "link"} /\ o.pass = "default" => LabelsJoined(g, o)
  /\ o.stage = "done" => RowJoined(g, o.node)

ReachInv ==
  /\ TypeOK
  /\ \A b \in Backend : OpOK(graph, op[b])
  /\ \A n \in rows : RowJoined(graph, n) /\ RowJoined(durable, n)

--------------------------------------------------------------------------------
(***************************************************************************)
(* Growth keeps what is established                                        *)
(***************************************************************************)

LEMMA KeyFacts ==
  ASSUME NEW n \in Node
  PROVE  LabelsOf[n] \subseteq Label /\ SureLabels(n) \subseteq LabelsOf[n]
         /\ LabelsOf[n] \cup {DefaultRoot} \subseteq Key
         /\ SureLabels(n) \cup {DefaultRoot} \subseteq Key
BY InsertAssumption DEF SureLabels, Key

LEMMA GrowsJoined ==
  ASSUME NEW g, NEW h, Grows(g, h), NEW k \in Key, NEW n, Joined(g, k, n)
  PROVE  Joined(h, k, n)
BY DEF Grows, Joined

LEMMA GrowsOp ==
  ASSUME NEW g \in Images, NEW h, Grows(g, h), NEW o \in Locals,
         o.stage # "idle" => o.node \in Node, OpOK(g, o)
  PROVE  OpOK(h, o)
<1>1. \A k \in Key : g.roots[k] \in Node \cup {NoNode}
  BY DEF Images, Roots
<1>2. MetaOK(h, o)
  BY <1>1 DEF OpOK, MetaOK, Grows
<1>3. ASSUME o.stage # "idle", NEW k \in SureLabels(o.node) \cup {DefaultRoot},
             Joined(g, k, o.node)
      PROVE  Joined(h, k, o.node)
  BY <1>3, KeyFacts, GrowsJoined
<1>4. o.stage = "link" => LinkOK(h, o)
  BY <1>3 DEF OpOK, LinkOK, PassKeys
<1>5. o.stage \in {"search", "link"} /\ o.pass = "default" => LabelsJoined(h, o)
  BY <1>3 DEF OpOK, LabelsJoined
<1>6. o.stage = "done" => RowJoined(h, o.node)
  BY <1>3 DEF OpOK, RowJoined
<1> QED
  BY <1>2, <1>4, <1>5, <1>6 DEF OpOK

LEMMA GrowsRow ==
  ASSUME NEW g, NEW h, Grows(g, h), NEW n \in Node, RowJoined(g, n)
  PROVE  RowJoined(h, n)
BY KeyFacts, GrowsJoined DEF RowJoined

--------------------------------------------------------------------------------
(***************************************************************************)
(* The passes                                                              *)
(***************************************************************************)

LEMMA IdleOpOK == ASSUME NEW g PROVE OpOK(g, Idle)
BY IdleFields DEF OpOK, MetaOK, NoRoots

\* A pass starts with its roots found.
LEMMA BeginPassOpOK ==
  ASSUME NEW g, NEW o \in Locals, o.node \in Node, NEW pass \in Passes,
         MetaOK(g, o), HasMeta(o), pass = "default" => LabelsJoined(g, o)
  PROVE  OpOK(g, BeginPass(o, pass))
<1> DEFINE s == BeginPass(o, pass)
<1>1. /\ s.stage = "search" /\ s.pass = pass /\ s.node = o.node /\ s.meta = o.meta
      /\ s.visited = {}
      /\ s.pending \cup s.frontier = StartNodesFor(o.meta, LabelsOf[o.node], pass)
  BY BeginPassFields
<1> HIDE DEF s
<1>2. NoNode \notin Node
  BY InsertAssumption
<1>3. pass = "labels" =>
        \A k \in LabelsOf[o.node] : o.meta[k] \in StartNodesFor(o.meta, LabelsOf[o.node], pass)
  BY <1>2 DEF HasMeta, StartNodesFor
<1>4. pass = "default" =>
        StartNodesFor(o.meta, LabelsOf[o.node], pass) = {o.meta[DefaultRoot]}
  BY <1>2 DEF HasMeta, StartNodesFor
<1>5. SearchOK(s)
  BY <1>1, <1>3, <1>4 DEF SearchOK
<1>6. MetaOK(g, s) /\ HasMeta(s) /\ (pass = "default" => LabelsJoined(g, s))
  BY <1>1 DEF MetaOK, HasMeta, LabelsJoined
<1>7. OpOK(g, s)
  BY <1>1, <1>5, <1>6 DEF OpOK
<1> QED
  BY <1>7 DEF s

\* A pass without links left has joined the node to its roots.
LEMMA NextPassOpOK ==
  ASSUME NEW g, NEW o \in Locals, o.node \in Node, o.stage = "link", OpOK(g, o)
  PROVE  OpOK(g, NextPass(o))
<1>1. CASE o.links # {}
  BY <1>1, NextPassFields
<1>2. CASE o.links = {} /\ o.pass = "labels"
  <2>1. LabelsJoined(g, o)
    BY <1>2 DEF OpOK, LinkOK, PassKeys, LabelsJoined
  <2>2. OpOK(g, BeginPass(o, "default"))
    BY <2>1, BeginPassOpOK DEF OpOK
  <2> QED
    BY <1>2, <2>2, NextPassFields
<1>3. CASE o.links = {} /\ o.pass = "default"
  <2>1. RowJoined(g, o.node)
    BY <1>3 DEF OpOK, LinkOK, PassKeys, LabelsJoined, RowJoined
  <2>2. NextPass(o).stage = "done" /\ NextPass(o).node = o.node
          /\ NextPass(o).meta = NoRoots
    BY <1>3, NextPassFields
  <2> QED
    BY <2>1, <2>2 DEF OpOK, MetaOK, NoRoots
<1> QED
  BY <1>1, <1>2, <1>3 DEF Locals

--------------------------------------------------------------------------------
(***************************************************************************)
(* The steps                                                               *)
(***************************************************************************)

\* A merge adds the new neighbors and takes none away.
LEMMA MergeGrows ==
  ASSUME NoPruning, graph \in Images, NEW n \in Node, NEW added \in SUBSET Node,
         NEW kept, Merge(n, added, kept)
  PROVE  /\ kept = (graph.adj[n] \cup added) \ {n}
         /\ graph' \in Images
         /\ graph'.roots = graph.roots /\ graph'.adj[n] = kept
         /\ Grows(graph, graph')
         /\ durable' = durable /\ rows' = rows
<1> DEFINE C == (graph.adj[n] \cup added) \ {n}
<1>1. graph.adj \in [Node -> SUBSET Node] /\ C \in SUBSET Node
  BY DEF Images
<1>2. Cardinality(C) \in Nat /\ Cardinality(C) <= Cardinality(Node)
        /\ Cardinality(Node) \in Nat
  BY <1>1, FS_Subset, FS_CardinalityType DEF NoPruning
<1>3. ~(Cardinality(C) > NumNeighbors)
  BY <1>2, NumNeighborsAssumption DEF NoPruning
<1>4. kept = C
  BY <1>3 DEF Merge, MergedNeighbors
<1>5. graph' = [graph EXCEPT !.adj[n] = kept] /\ durable' = durable /\ rows' = rows
  BY DEF Merge
<1>6. graph' \in Images /\ graph'.roots = graph.roots
        /\ graph'.adj = [graph.adj EXCEPT ![n] = kept]
  BY <1>1, <1>4, <1>5 DEF Images
<1>7. \A m \in Node : graph'.adj[m] = IF m = n THEN kept ELSE graph.adj[m]
  BY <1>1, <1>6 DEF Images
<1>8. Grows(graph, graph')
  BY <1>4, <1>6, <1>7 DEF Grows
<1> QED
  BY <1>4, <1>5, <1>6, <1>7, <1>8

\* A step of one backend on a growing graph.
LEMMA ReachOfStep ==
  ASSUME ReachInv, TypeOK', NEW b \in Backend, NEW o, op' = [op EXCEPT ![b] = o],
         Grows(graph, graph'), OpOK(graph', o), rows' = rows, durable' = durable
  PROVE  ReachInv'
<1>1. \A c \in Backend : op'[c] = IF c = b THEN o ELSE op[c]
  BY DEF ReachInv, TypeOK
<1>2. \A c \in Backend : OpOK(graph', op[c])
  BY GrowsOp DEF ReachInv, TypeOK
<1>3. \A n \in rows : RowJoined(graph', n) /\ RowJoined(durable', n)
  BY GrowsRow DEF ReachInv, TypeOK
<1> QED
  BY <1>1, <1>2, <1>3 DEF ReachInv

\* A search that ends has visited the root of every label it is sure of, or the
\* default root.
LEMMA RootsVisited ==
  ASSUME NEW o \in Locals, o.node \in Node, SearchOK(o), SearchEnds(o),
         NEW k \in PassKeys(o)
  PROVE  o.meta[k] \in o.visited
<1>1. CASE o.pass = "labels"
  <2>1. NoEarlyEnd /\ k \in LabelsOf[o.node]
    BY <1>1 DEF PassKeys, SureLabels
  <2>2. o.visited \in SUBSET Node
    BY DEF Locals
  <2>3. Cardinality(o.visited) \in Nat /\ Cardinality(o.visited) <= Cardinality(Node)
          /\ Cardinality(Node) \in Nat
    BY <2>1, <2>2, FS_Subset, FS_CardinalityType DEF NoEarlyEnd
  <2>4. ~(Cardinality(o.visited) > SearchListSize)
    BY <2>1, <2>3, InsertAssumption DEF NoEarlyEnd
  <2>5. o.pending = {} /\ o.frontier = {}
    BY <2>4 DEF SearchEnds
  <2> QED
    BY <1>1, <2>1, <2>5 DEF SearchOK
<1>2. CASE o.pass = "default"
  <2>1. k = DefaultRoot
    BY <1>2 DEF PassKeys
  <2>2. SUFFICES ASSUME o.visited = {}, o.pending \cup o.frontier = {o.meta[DefaultRoot]}
                 PROVE  FALSE
    BY <1>2, <2>1 DEF SearchOK
  <2>3. ~(Cardinality(o.visited) > SearchListSize)
    BY <2>2, FS_EmptySet, InsertAssumption
  <2> QED
    BY <2>2, <2>3 DEF SearchEnds
<1> QED
  BY <1>1, <1>2 DEF Locals
LEMMA ReachStep == NoPruning /\ ReachInv /\ [Next]_vars => ReachInv'
<1> SUFFICES ASSUME NoPruning, ReachInv, [Next]_vars PROVE ReachInv'
  OBVIOUS
<1>t. TypeOK'
  BY TypeCorrectStep DEF ReachInv
<1>g. graph \in Images /\ graph.tape \subseteq Node /\ graph.adj \in [Node -> SUBSET Node]
        /\ graph.roots \in Roots
  BY DEF ReachInv, TypeOK, Images
<1>o. \A b \in Backend : /\ op[b] \in Locals /\ OpOK(graph, op[b])
                         /\ op[b].stage # "idle" => op[b].node \in Node
  BY DEF ReachInv, TypeOK
<1>s. Grows(graph, graph)
  BY DEF Grows
<1>1. ASSUME NEW b \in Backend, NEW n \in Node, Begin(b, n) PROVE ReachInv'
  <2> DEFINE o == [Idle EXCEPT !.stage = "fetched", !.node = n, !.meta = graph.roots]
  <2>1. o.stage = "fetched" /\ o.meta = graph.roots
    BY IdleFields DEF Locals
  <2>2. op' = [op EXCEPT ![b] = o] /\ graph' = graph /\ durable' = durable /\ rows' = rows
    BY <1>1 DEF Begin
  <2> HIDE DEF o
  <2>3. OpOK(graph, o)
    BY <2>1 DEF OpOK, MetaOK
  <2> QED
    BY <1>t, <1>s, <2>2, <2>3, ReachOfStep
<1>2. ASSUME NEW b \in Backend, WriteNode(b) PROVE ReachInv'
  <2> DEFINE o == [op[b] EXCEPT !.stage = "written"]
  <2>1. op' = [op EXCEPT ![b] = o] /\ durable' = durable /\ rows' = rows
    BY <1>2, <1>o DEF WriteNode
  <2>2. graph'.adj = graph.adj /\ graph'.roots = graph.roots
    BY <1>2, <1>g DEF WriteNode, Images
  <2>3. Grows(graph, graph')
    BY <2>2 DEF Grows
  <2>4. o.stage = "written" /\ o.meta = op[b].meta
    BY <1>o DEF Locals
  <2> HIDE DEF o
  <2>5. OpOK(graph', o)
    BY <1>o, <2>2, <2>4 DEF OpOK, MetaOK
  <2> QED
    BY <1>t, <2>1, <2>3, <2>5, ReachOfStep
<1>3. ASSUME NEW g, NEW i \in Locals, i.node \in Node, MetaOK(g, i), HasMeta(i)
      PROVE  OpOK(g, FirstPass(i))
  <2>1. Label = {} => LabelsJoined(g, i)
    BY <1>3, KeyFacts DEF LabelsJoined
  <2> QED
    BY <1>3, <2>1, BeginPassOpOK DEF FirstPass
<1>4. ASSUME NEW b \in Backend, HasRoots(b) PROVE ReachInv'
  <2>1. op' = [op EXCEPT ![b] = FirstPass(op[b])] /\ op[b].stage = "written"
          /\ graph' = graph /\ durable' = durable /\ rows' = rows
          /\ Covers(op[b].meta, LabelsOf[op[b].node])
    BY <1>4 DEF HasRoots, Labels
  <2>2. op[b].node \in Node /\ op[b].meta \in Roots
    BY <1>o, <2>1 DEF Locals
  <2>3. HasMeta(op[b])
    BY <2>1, <2>2, KeyFacts DEF Covers, HasMeta, Roots
  <2>4. OpOK(graph, FirstPass(op[b]))
    BY <1>3, <1>o, <2>2, <2>3 DEF OpOK
  <2> QED
    BY <1>t, <1>s, <2>1, <2>4, ReachOfStep
<1>5. ASSUME NEW b \in Backend, PublishRoots(b) PROVE ReachInv'
  <2> DEFINE new == Published(graph.roots, op[b].node, LabelsOf[op[b].node])
  <2> DEFINE i == [op[b] EXCEPT !.meta = new]
  <2>1. op' = [op EXCEPT ![b] = FirstPass(i)] /\ op[b].node \in Node
          /\ durable' = durable /\ rows' = rows
    BY <1>5, <1>o DEF PublishRoots, Labels
  <2>2. /\ new \in Roots
        /\ \A k \in Key : graph.roots[k] \in Node => new[k] = graph.roots[k]
        /\ \A k \in LabelsOf[op[b].node] \cup {DefaultRoot} : new[k] \in Node
    BY <1>g, <2>1, KeyFacts, InsertAssumption DEF Published, Roots
  <2>3. graph'.adj = graph.adj /\ graph'.roots = new
    BY <1>5, <1>g DEF PublishRoots, Images, Labels
  <2> HIDE DEF new
  <2>4. i \in Locals /\ i.node = op[b].node /\ i.meta = new
    BY <1>o, <2>2 DEF Locals
  <2> HIDE DEF i
  <2>5. MetaOK(graph', i) /\ HasMeta(i)
    BY <2>2, <2>3, <2>4 DEF MetaOK, HasMeta
  <2>6. OpOK(graph', FirstPass(i))
    BY <1>3, <2>1, <2>4, <2>5
  <2>7. Grows(graph, graph')
    BY <2>2, <2>3 DEF Grows
  <2> QED
    BY <1>t, <2>1, <2>6, <2>7, ReachOfStep
<1>6. ASSUME NEW b \in Backend, NEW m \in Node, ReadFound(b, m) PROVE ReachInv'
  <2> DEFINE o == [op[b] EXCEPT !.pending = @ \ {m}, !.frontier = @ \cup {m},
                                !.copied[m] = graph.adj[m]]
  <2>1. op' = [op EXCEPT ![b] = o] /\ m \in op[b].pending /\ op[b].stage = "search"
          /\ graph' = graph /\ durable' = durable /\ rows' = rows
    BY <1>6 DEF ReadFound
  <2>2. /\ o.stage = op[b].stage /\ o.pass = op[b].pass /\ o.node = op[b].node
        /\ o.meta = op[b].meta /\ o.visited = op[b].visited
        /\ o.pending \cup o.frontier = op[b].pending \cup op[b].frontier
    BY <1>o, <2>1 DEF Locals
  <2> HIDE DEF o
  <2>3. OpOK(graph, op[b])
    BY <1>o
  <2>4. OpOK(graph, o)
    BY <2>1, <2>2, <2>3 DEF OpOK, MetaOK, HasMeta, SearchOK, LabelsJoined
  <2> QED
    BY <1>t, <1>s, <2>1, <2>4, ReachOfStep
<1>7. ASSUME NEW b \in Backend, NEW m \in Node, Visit(b, m) PROVE ReachInv'
  <2> DEFINE i == [op[b] EXCEPT !.frontier = @ \ {m}, !.visited = @ \cup {m},
                                !.copied[m] = {}]
  <2> DEFINE found == Unseen(i, IF CopiesWhenFound THEN op[b].copied[m] ELSE graph.adj[m])
  <2> DEFINE o == IF CopiesWhenFound THEN [i EXCEPT !.pending = found]
                                     ELSE [i EXCEPT !.frontier = @ \cup found]
  <2>1. op' = [op EXCEPT ![b] = o] /\ m \in op[b].frontier /\ op[b].stage = "search"
          /\ op[b].pending = {} /\ graph' = graph /\ durable' = durable /\ rows' = rows
    BY <1>7 DEF Visit
  <2>2. /\ i \in Locals /\ i.stage = op[b].stage /\ i.pass = op[b].pass
        /\ i.node = op[b].node /\ i.meta = op[b].meta /\ i.pending = op[b].pending
        /\ i.frontier = op[b].frontier \ {m} /\ i.visited = op[b].visited \cup {m}
    BY <1>o DEF Locals
  <2> HIDE DEF i, found
  <2>3. /\ o.stage = "search" /\ o.pass = op[b].pass
        /\ o.node = op[b].node /\ o.meta = op[b].meta
        /\ op[b].frontier \ {m} \subseteq o.frontier
        /\ o.visited = op[b].visited \cup {m}
    BY <2>1, <2>2 DEF Locals
  <2> HIDE DEF o
  <2>4. OpOK(graph, op[b])
    BY <1>o
  <2>5. SearchOK(o)
    BY <2>1, <2>3, <2>4 DEF OpOK, SearchOK
  <2>6. OpOK(graph, o)
    BY <2>1, <2>3, <2>4, <2>5 DEF OpOK, MetaOK, HasMeta, LabelsJoined
  <2> QED
    BY <1>t, <1>s, <2>1, <2>6, ReachOfStep
<1>8. ASSUME NEW b \in Backend, LinkNode(b) PROVE ReachInv'
  <2>1. PICK kept \in SUBSET Node :
          /\ Merge(op[b].node, op[b].visited, kept)
          /\ op' = [op EXCEPT ![b] =
                      NextPass([op[b] EXCEPT !.stage = "link", !.links = kept,
                                  !.frontier = {}, !.visited = {}, !.copied = NoCopies])]
    BY <1>8 DEF LinkNode
  <2> DEFINE i == [op[b] EXCEPT !.stage = "link", !.links = kept, !.frontier = {},
                                !.visited = {}, !.copied = NoCopies]
  <2>2. op' = [op EXCEPT ![b] = NextPass(i)]
    BY <2>1
  <2>3. op[b].stage = "search" /\ SearchEnds(op[b]) /\ op[b].node \in Node
          /\ op[b].visited \in SUBSET Node
    BY <1>8, <1>o DEF LinkNode, Locals
  <2>4. /\ kept = (graph.adj[op[b].node] \cup op[b].visited) \ {op[b].node}
        /\ graph'.roots = graph.roots /\ Grows(graph, graph')
        /\ durable' = durable /\ rows' = rows
    BY <2>1, <2>3, <1>g, MergeGrows
  <2>5. /\ i \in Locals /\ i.stage = "link" /\ i.pass = op[b].pass
        /\ i.node = op[b].node /\ i.meta = op[b].meta /\ i.links = kept
    BY <1>o DEF Locals, NoCopies
  <2> HIDE DEF i
  <2>6. OpOK(graph, op[b]) /\ OpOK(graph', op[b])
    BY <1>o, <1>g, <2>4, GrowsOp
  <2>7. ASSUME NEW k \in PassKeys(i)
        PROVE  i.meta[k] \in i.links \/ Joined(graph', k, i.node)
    <3>1. k \in PassKeys(op[b])
      BY <2>5 DEF PassKeys
    <3>2. op[b].meta[k] \in op[b].visited
      BY <1>o, <2>3, <2>6, <3>1, RootsVisited DEF OpOK
    <3>3. k \in Key /\ op[b].meta[k] \in Node
      BY <2>3, <3>1, <3>2, KeyFacts DEF PassKeys
    <3>4. op[b].meta[k] = graph'.roots[k]
      BY <2>6, <3>3, InsertAssumption DEF OpOK, MetaOK
    <3> QED
      BY <2>4, <2>5, <3>2, <3>3, <3>4 DEF Joined
  <2>8. OpOK(graph', i)
    BY <2>3, <2>5, <2>6, <2>7 DEF OpOK, MetaOK, HasMeta, LinkOK, LabelsJoined
  <2>9. OpOK(graph', NextPass(i))
    BY <2>3, <2>5, <2>8, NextPassOpOK
  <2> QED
    BY <1>t, <2>2, <2>4, <2>9, ReachOfStep
<1>9. ASSUME NEW b \in Backend, NEW m \in Node, LinkBack(b, m) PROVE ReachInv'
  <2>1. PICK kept \in SUBSET Node : Merge(m, {op[b].node}, kept)
    BY <1>9 DEF LinkBack
  <2> DEFINE i == [op[b] EXCEPT !.links = @ \ {m}]
  <2>2. op' = [op EXCEPT ![b] = NextPass(i)]
    BY <1>9 DEF LinkBack
  <2>3. op[b].stage = "link" /\ op[b].node \in Node
    BY <1>9, <1>o DEF LinkBack
  <2>4. /\ graph'.adj[m] = (graph.adj[m] \cup {op[b].node}) \ {m}
        /\ graph'.roots = graph.roots /\ Grows(graph, graph')
        /\ durable' = durable /\ rows' = rows
    BY <2>1, <2>3, <1>g, MergeGrows
  <2>5. /\ i \in Locals /\ i.stage = "link" /\ i.pass = op[b].pass
        /\ i.node = op[b].node /\ i.meta = op[b].meta /\ i.links = op[b].links \ {m}
    BY <1>o, <2>3 DEF Locals
  <2> HIDE DEF i
  <2>6. OpOK(graph, op[b]) /\ OpOK(graph', op[b])
    BY <1>o, <1>g, <2>4, GrowsOp
  <2>7. ASSUME NEW k \in PassKeys(i)
        PROVE  i.meta[k] \in i.links \/ Joined(graph', k, i.node)
    <3>1. op[b].meta[k] \in op[b].links \/ Joined(graph', k, op[b].node)
      BY <2>3, <2>5, <2>6 DEF OpOK, LinkOK, PassKeys
    <3>2. CASE op[b].meta[k] = m
      <4>1. k \in Key
        BY <2>3, <2>5, KeyFacts DEF PassKeys
      <4>2. graph'.roots[k] = m
        BY <2>6, <3>2, <4>1, InsertAssumption DEF OpOK, MetaOK
      <4> QED
        BY <2>4, <2>5, <4>2 DEF Joined
    <3> QED
      BY <2>5, <3>1, <3>2
  <2>8. OpOK(graph', i)
    BY <2>3, <2>5, <2>6, <2>7 DEF OpOK, MetaOK, HasMeta, LinkOK, LabelsJoined
  <2>9. OpOK(graph', NextPass(i))
    BY <2>3, <2>5, <2>8, NextPassOpOK
  <2> QED
    BY <1>t, <2>2, <2>4, <2>9, ReachOfStep
<1>10. ASSUME NEW b \in Backend, Commit(b) PROVE ReachInv'
  <2>1. op[b].stage = "done" /\ graph' = graph /\ durable' = graph
          /\ rows' = rows \cup {op[b].node} /\ op' = [op EXCEPT ![b] = Idle]
    BY <1>10 DEF Commit
  <2>2. RowJoined(graph, op[b].node)
    BY <1>o, <2>1 DEF OpOK
  <2>3. \A c \in Backend : op'[c] \in {Idle, op[c]}
    BY <2>1 DEF ReachInv, TypeOK
  <2>4. \A c \in Backend : OpOK(graph', op'[c])
    BY <1>o, <2>1, <2>3, IdleOpOK
  <2>5. \A n \in rows' : RowJoined(graph', n) /\ RowJoined(durable', n)
    BY <2>1, <2>2 DEF ReachInv
  <2> QED
    BY <1>t, <2>4, <2>5 DEF ReachInv
<1>11. ASSUME NEW b \in Backend, Abort(b) PROVE ReachInv'
  BY <1>11, <1>t, <1>s, IdleOpOK, ReachOfStep DEF Abort
<1>12. CASE Flush
  BY <1>12, <1>t DEF Flush, ReachInv
<1>13. CASE Crash
  BY <1>13, <1>t, IdleOpOK DEF Crash, ReachInv
<1>14. CASE UNCHANGED vars
  BY <1>14, <1>t DEF vars, ReachInv
<1> QED
  BY <1>1, <1>2, <1>4, <1>5, <1>6, <1>7, <1>8, <1>9, <1>10, <1>11, <1>12, <1>13, <1>14
     DEF Next

LEMMA ReachInit == Init => ReachInv
BY TypeInit, IdleOpOK DEF Init, ReachInv

--------------------------------------------------------------------------------
(***************************************************************************)
(* Committed rows                                                          *)
(***************************************************************************)

\* A search for k that may go through n comes to it.
LEMMA JoinedReaches ==
  ASSUME NEW g, NEW k, NEW W, NEW n \in W, Joined(g, k, n)
  PROVE  Reaches(g, k, W, n)
BY DEF Joined, Reaches

LEMMA RowsJoined ==
  ASSUME ReachInv, NEW image \in {graph, durable}, NEW n \in rows
  PROVE  n \in Node /\ RowJoined(image, n)
BY DEF ReachInv, TypeOK

\* Every committed row is found from the default root, at any time and after a
\* crash, for any number of backends, whatever was cancelled halfway, as long as
\* no list is pruned.
THEOREM CommittedRowsReachable == ASSUME NoPruning PROVE Spec => []RowsReachable
<1>1. ReachInv => RowsReachable
  BY RowsJoined, JoinedReaches DEF RowsReachable, RowJoined
<1>2. ReachInv /\ [Next]_vars => ReachInv'
  BY ReachStep
<1> QED
  BY <1>1, <1>2, ReachInit, PTL DEF Spec

\* Every committed row is found by a search for any of its labels, through nodes
\* with that label, as long as no list is pruned and insertions visit all they
\* find.
THEOREM CommittedRowsReachableByLabel ==
  ASSUME NoPruning, NoEarlyEnd PROVE Spec => []RowsReachableByLabel
<1>1. ReachInv => RowsReachableByLabel
  <2> SUFFICES ASSUME ReachInv, NEW image \in {graph, durable}, NEW n \in rows,
                      NEW l \in LabelsOf[n]
               PROVE  Reaches(image, l, Labeled(l), n)
    BY DEF RowsReachableByLabel
  <2>1. n \in Labeled(l) /\ Joined(image, l, n)
    BY RowsJoined DEF RowJoined, SureLabels, Labeled
  <2> QED
    BY <2>1, JoinedReaches
<1>2. ReachInv /\ [Next]_vars => ReachInv'
  BY ReachStep
<1> QED
  BY <1>1, <1>2, ReachInit, PTL DEF Spec
================================================================================
