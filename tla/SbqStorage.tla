------------------------------- MODULE SbqStorage --------------------------------
(***************************************************************************)
(* The memory_optimized storage (sbq/): CREATE INDEX checks its options,   *)
(* trains the quantizer on the table and publishes its statistics; then    *)
(* sessions open the index, code vectors, write nodes, and answer what the *)
(* graph asks of a storage: neighbors with their distances, distances from *)
(* a node or a query, candidates that pass a label filter.  The sessions   *)
(* of a build and of an insertion keep codes in an LRU cache.              *)
(*                                                                         *)
(* One session is followed call by call, each read of a page being a step  *)
(* of its own; other sessions insert, relink and tombstone nodes meanwhile.*)
(* Which node is asked for next, and what lists the graph puts on pages or *)
(* in a builder's memory, is left open.                                    *)
(***************************************************************************)
EXTENDS Integers, Sequences, FiniteSets, Lru, LabelSets, Quantizer, IndexMeta

CONSTANTS
  Node,
  InvalidPointer,
  Fresh,        \* CREATE INDEX: the heap, the column and the options
  Legacy,       \* indexes of older versions: the heap, metadata, statistics
  Queries,      \* ORDER BY a vector, the array of a label filter
  StatsPointer, \* where the statistics are
  CacheBudget,  \* QUANTIZED_VECTOR_CACHE_SIZE of maintenance_work_mem, in bytes
  MaxSessions,  \* bound: sessions that use the index, one after the other
  MaxCalls,     \* bound: calls of these sessions
  MaxOthers     \* bound: steps of other sessions meanwhile

ASSUME SbqStorageAssumption ==
  /\ InvalidPointer \notin Node /\ StatsPointer # NoPointer
  /\ CacheBudget \in Nat /\ MaxSessions \in Nat /\ MaxCalls \in Nat
  /\ MaxOthers \in Nat /\ WordBits \in Nat \ {0}
  /\ IsFiniteSet(Node) /\ MinNeighbors \in Nat \ {0} /\ UsualNeighbors \in Nat \ {0}

\* Training is exact (see Quantizer).
ASSUME ScaleAssumption ==
  /\ Scale \in Nat \ {0}
  /\ \A k \in 1..Cardinality(Node) - 1 : \E j \in 0..Scale : Scale = j * (k * (k + 1))

\* Tables: a column of vectors of one dimension, an array of smallints; either may be NULL.
Tables(dims) ==
  [Node -> [vec : [1..dims -> Int] \cup {Null}, labels : Seq(Int \cup {Null}) \cup {Null}]]

\* What the parser of options and the types of columns leave to CREATE INDEX.
ASSUME FreshAssumption ==
  \A new \in Fresh :
    LET column == new.request.column
        option == new.request.option
    IN  /\ new.heap.there \subseteq Node
        /\ \A d \in Dimensions(column.typmod) : new.heap.row \in Tables(d)
        /\ column.typmod \in Int /\ column.labels \in BOOLEAN
        /\ option.neighbors \in Int /\ option.dims \in Int /\ option.bits \in Nat

\* What older versions wrote: metadata of one of two formats and, for codes, the
\* statistics of every indexed dimension.  The second format knew three storages.
ASSUME LegacyAssumption ==
  \A old \in Legacy :
    LET meta == old.page0.meta
    IN  /\ old.heap.there \subseteq Node /\ meta.dims \in Nat /\ old.heap.row \in Tables(meta.dims)
        /\ meta.neighbors \in Nat \ {0}
        /\ old.page0.type \in {"MetaV1", "MetaV2"}
        /\ old.page0.type = "MetaV1" => ValidDimensions(meta.dims, meta.dims) /\ meta.pq \in BOOLEAN
        /\ old.page0.type = "MetaV2" =>
             /\ meta.indexed \in Nat /\ ValidDimensions(meta.dims, meta.indexed)
             /\ meta.bits \in Nat \ {0} /\ meta.storage \in 0..2
             /\ StorageOfByte(meta.storage) = {"SbqCompression"} =>
                  /\ meta.quantizer = StatsPointer /\ old.means.type = "SbqMeansV1"
                  /\ DOMAIN old.means.stats.mean = 1..meta.indexed
                  /\ meta.bits > 1 => DOMAIN old.means.stats.m2 = 1..meta.indexed

ASSUME QueriesAssumption ==
  \A q \in Queries : q.vec \in Seq(Int) \cup {Null} /\ q.keys \in Seq(Int \cup {Null}) \cup {Null}

VARIABLES
  phase,    \* of CREATE INDEX: create, train, publish, graph; ready, refused, plain
  heap,     \* row: the row of each node; there: rows at CREATE INDEX
  request,
  page0,
  means,    \* the page at StatsPointer
  nodes,    \* pages of nodes
  session,
  used      \* of the bounds: sessions, their calls, steps of others

vars == << phase, heap, request, page0, means, nodes, session, used >>

NoPage == [type |-> "none"]

Page(NumNeighbors) == INSTANCE NodePage WITH Rank <- [n \in Node |-> [m \in Node |-> 0]]

--------------------------------------------------------------------------------
(***************************************************************************)
(* Vectors, nodes, caches                                                  *)
(***************************************************************************)

\* to_index_slice: the leading dimensions.
IndexSlice(m, vec) == SubSeq(vec, 1, m.indexed)

Vector(m, n) == IndexSlice(m, heap.row[n].vec)

Indexed(n) == heap.row[n].vec # Null

\* The kind of node that SbqNode::read and modify take every node of an index for.
Layout(m) == IF m.labels THEN "LabeledSbqNode" ELSE "ClassicSbqNode"

\* The kind of node taken from the row.
NewNodeByRow(m, q, n) ==
  [type |-> IF heap.row[n].labels = Null THEN "ClassicSbqNode" ELSE "LabeledSbqNode",
   deleted |-> FALSE, code |-> Quantize(q, Vector(m, n)),
   slots |-> Page(m.neighbors)!EmptySlots, labels |-> RowLabels(heap.row[n].labels, m.labels)]

\* SbqNode::with_meta: classic nodes store no labels.
NewNode(m, q, n) ==
  [type |-> Layout(m), deleted |-> FALSE, code |-> Quantize(q, Vector(m, n)),
   slots |-> Page(m.neighbors)!EmptySlots, labels |-> RowLabels(heap.row[n].labels, m.labels)]

Written == {n \in Node : nodes[n].type # "none"}

\* get_index_pointer_to_neighbors
NeighborsOnPage(m, n) == Page(m.neighbors)!IterNeighbors(nodes[n].slots)

\* entry_size: a pointer, the header of a vector, its words.
EntrySize(words) == 8 + 24 + 8 * words

\* QuantizedVectorCache::new and new_for_insert
CacheCapacity(m) ==
  LET fits == CacheBudget \div EntrySize(QuantizedSize(m.indexed, m.bits))
  IN  IF fits > m.neighbors THEN fits ELSE m.neighbors

\* SbqMeans::load, from either format of the page; no result is an error.
LoadQuantizer(m) ==
  {[NewQuantizer(m.bits) EXCEPT !.count = means.stats.count, !.mean = means.stats.mean,
                                !.m2 = means.stats.m2] :
     p \in {x \in QuantizerPointer(m) : x = StatsPointer /\ means.type \in {"SbqMeansV1", "SbqMeans"}}}

Closed == [mode |-> "none"]

\* new_for_build, load_for_insert, load_for_search: the last one has no cache.
Opened(mode, m, q) ==
  [mode |-> mode, meta |-> m, quantizer |-> q,
   cache |-> NewLru(IF mode = "search" THEN 0 ELSE CacheCapacity(m)),
   own |-> InvalidPointer, query |-> Null, unfiltered |-> FALSE,
   inserted |-> {}, candidates |-> {}, starts |-> {},
   call |-> "idle", of |-> InvalidPointer, code |-> {}, list |-> <<>>, todo |-> <<>>,
   answers |-> {}]

Open == session.mode \in {"build", "insert", "search"}

Ready(calls) == Open /\ session.call = "idle" /\ used.calls + calls <= MaxCalls

Caching == session.mode \in {"build", "insert"}

\* Lists of a graph: nodes there are, none twice, not the node itself.
Lists(n, k) == UNION {{f \in [1..l -> Written \ {n}] : \A i, j \in 1..l : f[i] = f[j] => i = j} : l \in 0..k}

--------------------------------------------------------------------------------
\* What an older version has written for the rows of its time: classic nodes, there
\* were no others.  The codes of neighbors in them are read by nothing and left out.
LegacyNode(n) ==
  LET found == UNION {{NewNode(m, q, n) : q \in LoadQuantizer(m)} : m \in Fetch(page0)}
  IN  IF n \in heap.there /\ Indexed(n) /\ found # {}
        THEN [(CHOOSE node \in found : TRUE) EXCEPT !.type = "ClassicSbqNode", !.labels = Null]
        ELSE NoPage

\* A new index on any table, or one that an older version has built.
Init ==
  /\ session = Closed
  /\ used = [sessions |-> 0, calls |-> 0, others |-> 0]
  /\ \/ /\ phase = "create"
        /\ \E new \in Fresh : heap = new.heap /\ request = new.request
        /\ page0 = NoPage /\ means = NoPage /\ nodes = [n \in Node |-> NoPage]
     \/ /\ phase = "ready" /\ request = Null
        /\ \E old \in Legacy : heap = old.heap /\ page0 = old.page0 /\ means = old.means
        /\ nodes = [n \in Node |-> LegacyNode(n)]

(***************************************************************************)
(* CREATE INDEX                                                            *)
(***************************************************************************)

\* get_meta_page stores the metadata; maybe_train_quantizer begins.
CreateIndex ==
  /\ phase = "create"
  /\ \E m \in Create(request.column, request.option) :
       /\ page0' = StoredMeta(m)
       /\ IF StorageOfByte(m.storage) = {"SbqCompression"}
            THEN /\ phase' = "train"
                 /\ session' = [mode |-> "train", meta |-> m, unseen |-> heap.there,
                                quantizer |-> StartTraining(m.bits, m.indexed)]
            ELSE phase' = "plain" /\ UNCHANGED session
  /\ UNCHANGED << heap, request, means, nodes, used >>

\* An error takes the index away.
Refuse ==
  /\ phase = "create" /\ Create(request.column, request.option) = {}
  /\ phase' = "refused"
  /\ UNCHANGED << heap, request, page0, means, nodes, session, used >>

\* build_callback_bq_train: rows without a vector are no samples.
TrainRow(n) ==
  /\ phase = "train" /\ n \in session.unseen
  /\ session' = [session EXCEPT !.unseen = @ \ {n},
                   !.quantizer = IF Indexed(n) THEN AddSample(@, Vector(session.meta, n)) ELSE @]
  /\ UNCHANGED << phase, heap, request, page0, means, nodes, used >>

\* SbqMeans::store, in the current format.
StoreMeans ==
  /\ phase = "train" /\ session.unseen = {}
  /\ means' = [type |-> "SbqMeans", stats |-> session.quantizer]
  /\ session' = [session EXCEPT !.meta.quantizer = StatsPointer]
  /\ phase' = "publish"
  /\ UNCHANGED << heap, request, page0, nodes, used >>

\* The pointer to them is stored before anyone else reads the metadata.
PublishMeta ==
  /\ phase = "publish"
  /\ page0' = StoredMeta(session.meta)
  /\ phase' = "graph" /\ session' = Closed
  /\ UNCHANGED << heap, request, means, nodes, used >>

\* finalize_index_build: every row of the scan has its node.
FinishBuild ==
  /\ phase = "graph" /\ session.mode = "build" /\ session.call = "idle"
  /\ \A n \in heap.there : Indexed(n) => n \in Written
  /\ phase' = "ready" /\ session' = Closed
  /\ UNCHANGED << heap, request, page0, means, nodes, used >>

--------------------------------------------------------------------------------
(***************************************************************************)
(* Sessions                                                                *)
(***************************************************************************)

OpenSession(mode) ==
  /\ session = Closed /\ used.sessions < MaxSessions
  /\ phase = (IF mode = "build" THEN "graph" ELSE "ready")
  /\ \E m \in Fetch(page0) : \E q \in LoadQuantizer(m) : session' = Opened(mode, m, q)
  /\ used' = [used EXCEPT !.sessions = @ + 1]
  /\ UNCHANGED << phase, heap, request, page0, means, nodes >>

CloseSession ==
  /\ Open /\ session.call = "idle" /\ session.mode # "build"
  /\ session' = Closed
  /\ UNCHANGED << phase, heap, request, page0, means, nodes, used >>

\* A session with no search under way.
NoSearch(s) == [s EXCEPT !.query = Null, !.unfiltered = FALSE, !.inserted = {},
                         !.candidates = {}, !.starts = {}]

\* create_node: a build writes all its rows' nodes, an insertion one.
CreateNode(n) ==
  /\ Ready(0) /\ Caching /\ Indexed(n) /\ n \notin Written
  /\ n \in heap.there <=> session.mode = "build"
  /\ session.mode = "insert" => session.own = InvalidPointer
  /\ LET node == NewNode(session.meta, session.quantizer, n)
     IN  /\ nodes' = [nodes EXCEPT ![n] = node]
         /\ session' = [NoSearch(session) EXCEPT !.own = n,
                          !.cache = LruPush(@, n, node.code)]
  /\ UNCHANGED << phase, heap, request, page0, means, used >>

\* get_query_distance_measure: for the row's own vector, in a search that
\* filters by its labels, if it has any, or in the one that does not (insert);
\* or for the query of a scan, which filters by the labels it has.  A vector of
\* other dimensions is an error (ensure_datum_dimension).
BeginSearch ==
  /\ Ready(1)
  /\ \E vec \in (IF Caching THEN {Vector(session.meta, n) : n \in {session.own} \cap Node}
                 ELSE {IndexSlice(session.meta, QueryVector(q.vec, session.meta.dims)) :
                         q \in {x \in Queries : x.vec = Null \/ Len(x.vec) = session.meta.dims}}),
        labels \in (IF Caching THEN {RowLabels(heap.row[n].labels, session.meta.labels) : n \in {session.own} \cap Node}
                    ELSE {QueryLabels(q.vec, q.keys) : q \in {x \in Queries : session.meta.labels \/ x.keys = Null}}),
        unfiltered \in BOOLEAN :
       /\ labels = Null => unfiltered
       /\ ~Caching => unfiltered = (labels \in {Null, <<>>})
       /\ session' = [NoSearch(session) EXCEPT !.unfiltered = unfiltered,
                        !.query = [vec |-> vec, labels |-> labels, code |-> Quantize(session.quantizer, vec)]]
  /\ used' = [used EXCEPT !.calls = @ + 1]
  /\ UNCHANGED << phase, heap, request, page0, means, nodes >>

Candidate(n, code) == [node |-> n, distance |-> DistanceXor(code, session.query.code)]

\* create_lsn_for_start_node: no filter, and nothing is remembered.
StartNode(n) ==
  /\ Ready(1) /\ session.query # Null /\ n \in Written \ session.inserted
  /\ session' = [session EXCEPT !.inserted = @ \cup {n}, !.starts = @ \cup {n},
                   !.candidates = @ \cup {Candidate(n, nodes[n].code)}]
  /\ used' = [used EXCEPT !.calls = @ + 1]
  /\ UNCHANGED << phase, heap, request, page0, means, nodes >>

\* visit_lsn: the neighbors on the page, or those in a builder's memory.
Visit(n) ==
  /\ Ready(1) /\ n \in {c.node : c \in session.candidates}
  /\ \E list \in (IF session.mode = "build" THEN Lists(n, session.meta.neighbors)
                  ELSE {NeighborsOnPage(session.meta, n)}) :
       session' = [session EXCEPT !.call = "visit", !.of = n, !.todo = list]
  /\ used' = [used EXCEPT !.calls = @ + 1]
  /\ UNCHANGED << phase, heap, request, page0, means, nodes >>

\* A filter that lets rows without labels pass.
PassesFilterUnlabeled(n) ==
  \/ session.query.labels = Null \/ session.unfiltered
  \/ nodes[n].labels = <<>>
  \/ Overlaps(session.query.labels, nodes[n].labels)

\* Labels of the node and the query, unless the search does not filter.
PassesFilter(n) ==
  \/ session.query.labels = Null \/ session.unfiltered
  \/ Overlaps(session.query.labels, nodes[n].labels)

\* cache.get, which reads the node on a miss; and the code it returns.
CacheAfterGet(n) == LruGetOrInsert(session.cache, n, nodes[n].code)
CodeFromCache(n) == LruValue(CacheAfterGet(n), n)

\* The codes a visit uses: the node's own, remembered if there is a cache, or,
\* in a build, the cache's.
VisitNeighbor ==
  LET n == Head(session.todo)
      s == [session EXCEPT !.todo = Tail(@), !.inserted = @ \cup {n}]
  IN  /\ Open /\ session.call = "visit" /\ session.todo # <<>>
      /\ session' =
           IF n \in session.inserted \/ ~PassesFilter(n) THEN s
           ELSE IF session.mode = "build"
             THEN [s EXCEPT !.cache = CacheAfterGet(n),
                            !.candidates = @ \cup {Candidate(n, CodeFromCache(n))}]
           ELSE [s EXCEPT !.cache = IF Caching THEN LruPush(@, n, nodes[n].code) ELSE @,
                          !.candidates = @ \cup {Candidate(n, nodes[n].code)}]
      /\ UNCHANGED << phase, heap, request, page0, means, nodes, used >>

\* get_node_distance_measure
Measure(n) ==
  /\ Ready(1) /\ Caching /\ n \in Written
  /\ session' = [session EXCEPT !.call = "measure", !.of = n,
                   !.code = CodeFromCache(n), !.cache = CacheAfterGet(n)]
  /\ used' = [used EXCEPT !.calls = @ + 1]
  /\ UNCHANGED << phase, heap, request, page0, means, nodes >>

Answer(n, code) == [node |-> n, distance |-> DistanceXor(code, session.code)]

\* SbqNodeDistanceMeasure::get_distance, asked once for each node.
MeasureTo(n) ==
  /\ Open /\ session.call = "measure" /\ n \in Written \ {a.node : a \in session.answers}
  /\ session' = [session EXCEPT !.cache = CacheAfterGet(n),
                   !.answers = @ \cup {Answer(n, CodeFromCache(n))}]
  /\ UNCHANGED << phase, heap, request, page0, means, nodes, used >>

\* get_neighbors_with_distances_from_disk: list and code of the node, under one lock.
Neighbors(n) ==
  /\ Ready(1) /\ Caching /\ n \in Written
  /\ LET list == NeighborsOnPage(session.meta, n)
     IN  session' = [session EXCEPT !.call = "neighbors", !.of = n,
                       !.code = nodes[n].code, !.list = list, !.todo = list]
  /\ used' = [used EXCEPT !.calls = @ + 1]
  /\ UNCHANGED << phase, heap, request, page0, means, nodes >>

\* Without labels to return, a neighbor's code may come from the cache.
NeighborDistance ==
  LET n == Head(session.todo)
      s == [session EXCEPT !.todo = Tail(@)]
  IN  /\ Open /\ session.call = "neighbors" /\ session.todo # <<>>
      /\ session' =
           IF session.meta.labels THEN [s EXCEPT !.answers = @ \cup {Answer(n, nodes[n].code)}]
           ELSE [s EXCEPT !.cache = CacheAfterGet(n), !.answers = @ \cup {Answer(n, CodeFromCache(n))}]
      /\ UNCHANGED << phase, heap, request, page0, means, nodes, used >>

\* try_set_neighbors_on_disk: the list the caller has pruned from its snapshot.
TrySetNeighbors ==
  /\ Open /\ session.call = "neighbors" /\ session.todo = <<>>
  /\ \E list \in Lists(session.of, session.meta.neighbors) :
       nodes' = IF NeighborsOnPage(session.meta, session.of) = session.list
                  THEN [nodes EXCEPT ![session.of].slots = Page(session.meta.neighbors)!SetNeighbors(@, list)]
                  ELSE nodes
  /\ session' = [session EXCEPT !.call = "idle", !.answers = {}, !.code = {}, !.list = <<>>,
                                !.of = InvalidPointer]
  /\ UNCHANGED << phase, heap, request, page0, means, used >>

Return ==
  /\ Open /\ session.call \in {"visit", "measure"} /\ session.todo = <<>>
  /\ session' = [session EXCEPT !.call = "idle", !.answers = {}, !.code = {}, !.of = InvalidPointer]
  /\ UNCHANGED << phase, heap, request, page0, means, nodes, used >>

--------------------------------------------------------------------------------
(***************************************************************************)
(* Other sessions, while the followed one has the index open               *)
(***************************************************************************)

Others ==
  /\ phase = "ready" /\ Open /\ used.others < MaxOthers
  /\ used' = [used EXCEPT !.others = @ + 1]

OthersInsert(n) ==
  /\ Others /\ Indexed(n) /\ n \notin heap.there \cup Written
  /\ \E m \in Fetch(page0) : \E q \in LoadQuantizer(m) :
       nodes' = [nodes EXCEPT ![n] = NewNode(m, q, n)]
  /\ UNCHANGED << phase, heap, request, page0, means, session >>

\* An adjacency update of theirs.
OthersRelink(n) ==
  /\ Others /\ n \in Written
  /\ \E list \in Lists(n, session.meta.neighbors) :
       nodes' = [nodes EXCEPT ![n].slots = Page(session.meta.neighbors)!SetNeighbors(@, list)]
  /\ UNCHANGED << phase, heap, request, page0, means, session >>

\* delete: the node stays, with all but its heap pointer.
Vacuum(n) ==
  /\ Others /\ n \in Written
  /\ nodes' = [nodes EXCEPT ![n].deleted = TRUE]
  /\ UNCHANGED << phase, heap, request, page0, means, session >>

\* A published root makes the metadata one of the current format.
PublishRoot ==
  /\ Others
  /\ \E m \in Fetch(page0) : page0' = StoredMeta(m)
  /\ UNCHANGED << phase, heap, request, means, nodes, session >>

--------------------------------------------------------------------------------
Next ==
  \/ CreateIndex \/ Refuse \/ StoreMeans \/ PublishMeta \/ FinishBuild
  \/ \E mode \in {"build", "insert", "search"} : OpenSession(mode)
  \/ CloseSession \/ BeginSearch \/ VisitNeighbor \/ NeighborDistance \/ TrySetNeighbors \/ Return
  \/ PublishRoot
  \/ \E n \in Node :
       \/ TrainRow(n) \/ CreateNode(n) \/ StartNode(n) \/ Visit(n)
       \/ Measure(n) \/ MeasureTo(n) \/ Neighbors(n)
       \/ OthersInsert(n) \/ OthersRelink(n) \/ Vacuum(n)

Spec == Init /\ [][Next]_vars

--------------------------------------------------------------------------------
(***************************************************************************)
(* Properties                                                              *)
(***************************************************************************)

Sampled == {n \in heap.there \ session.unseen : Indexed(n)}

\* However long the training scan, mean and m2 are those of the samples so far
\* (add_sample): count * mean = the sum, and m2 the squared distances from it.
TrainedExactly ==
  phase = "train" =>
    LET q == session.quantizer
    IN  /\ q.count = Cardinality(Sampled)
        /\ \A i \in 1..session.meta.indexed :
             LET at  == [n \in Sampled |-> Scale * Vector(session.meta, n)[i]]
                 off == [n \in Sampled |-> (at[n] - q.mean[i]) * (at[n] - q.mean[i])]
             IN  /\ q.count * q.mean[i] = SumFunctionOnSet(at, Sampled)
                 /\ q.bits > 1 => q.m2[i] = SumFunctionOnSet(off, Sampled)

\* What today's version cannot use: product quantization (the error of fetch), and
\* the storage whose byte was 1 (the panic of from_u8).
GivenUp(page) ==
  \/ page.type = "MetaV1" /\ page.meta.pq
  \/ page.type = "MetaV2" /\ page.meta.storage = 1

\* The storage is known and, for codes, the quantizer can be loaded with statistics
\* for every indexed dimension (SbqMeans::load), and every node is of the kind by
\* which it will be read (SbqNode::read).
Usable(m) ==
  \/ StorageOfByte(m.storage) = {"Plain"}
  \/ /\ StorageOfByte(m.storage) = {"SbqCompression"}
     /\ \E q \in LoadQuantizer(m) :
          DOMAIN q.mean = 1..m.indexed /\ (q.bits > 1 => DOMAIN q.m2 = 1..m.indexed)
     /\ \A n \in Written : nodes[n].type = Layout(m)

\* An index that CREATE INDEX accepted, or an older version has built, can be
\* opened and its nodes read, also after today's version has added nodes or
\* rewritten the metadata, exactly if it is not of a kind that was given up.
OpensAsBuilt ==
  phase \in {"graph", "ready", "plain"} =>
    (~GivenUp(page0) <=> \E m \in Fetch(page0) : Usable(m))

\* In a dimension in which the rows of CREATE INDEX do not differ the variance is
\* zero, and quantize divides by its root: a code has all of the dimension's ones
\* for a value above theirs and none of them for any other, theirs included; and
\* none for any value in an index that was built on no rows.
FlatDimensionsCoded ==
  Open /\ request # Null /\ session.meta.bits > 1 =>
    LET m == session.meta
        trained == {n \in heap.there : Indexed(n)}
        coded == {<< Vector(m, n), nodes[n].code >> : n \in Written}
                 \cup {<< q.vec, q.code >> : q \in {session.query} \ {Null}}
    IN  \A i \in 1..m.indexed :
          (\A a, b \in trained : Vector(m, a)[i] = Vector(m, b)[i]) =>
            \A c \in coded : \A k \in (i - 1) * m.bits..i * m.bits - 1 :
              k \in c[2] <=> \E a \in trained : c[1][i] > Vector(m, a)[i]

\* The statistics and what they make of a dimension.
StoredQuantizer == [NewQuantizer(session.meta.bits) EXCEPT
  !.count = means.stats.count, !.mean = means.stats.mean, !.m2 = means.stats.m2]

Apart(a, b) == IF a < b THEN b - a ELSE a - b

LevelDistance(v, w) ==
  SumFunction([i \in DOMAIN v |-> Apart(Level(StoredQuantizer, i, v[i]), Level(StoredQuantizer, i, w[i]))])

\* Every distance given to the graph, from a query or between nodes, with codes
\* read, cached, evicted and read again, by any session, counts the ranges
\* between the two vectors by the one quantizer of the index.
DistancesTrue ==
  Open =>
    /\ \A c \in session.candidates :
         c.distance = LevelDistance(session.query.vec, Vector(session.meta, c.node))
    /\ \A a \in session.answers :
         a.distance = LevelDistance(Vector(session.meta, session.of), Vector(session.meta, a.node))

\* The cache holds what is on the pages, each node once, within its capacity;
\* its counters account for every entry (CacheStats).
CacheSound ==
  Open /\ Caching =>
    /\ \A i, j \in DOMAIN session.cache.entries :
         session.cache.entries[i].key = session.cache.entries[j].key => i = j
    /\ \A n \in LruKeys(session.cache) : n \in Written /\ LruValue(session.cache, n) = nodes[n].code
    /\ Len(session.cache.entries) <= session.cache.cap
    /\ Len(session.cache.entries) = session.cache.stats.inserts - session.cache.stats.evictions

\* The labels of a row that an SQL filter would compare.
LabelsInRow(n) == IF heap.row[n].labels = Null THEN {} ELSE ToSet(heap.row[n].labels) \ {Null}

\* A search that filters keeps exactly the neighbors whose rows share a label
\* with the query; starting points are kept in any case (visit_lsn_internal).
FilterExact ==
  Open /\ session.query # Null =>
    {c.node : c \in session.candidates} =
      {n \in session.inserted :
         \/ n \in session.starts \/ session.unfiltered \/ session.query.labels = Null
         \/ LabelsInRow(n) \cap ToSet(session.query.labels) # {}}
================================================================================
