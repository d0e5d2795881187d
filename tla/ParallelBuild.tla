------------------------------ MODULE ParallelBuild ------------------------------
(***************************************************************************)
(* The processes that put a table's rows into a new index (build.rs).      *)
(* Workers share a heap scan, the pages of the graph, the root, and a few  *)
(* atomics; each keeps the neighbor lists it has touched in a cache of its *)
(* own (neighbor_store.rs) and merges them onto the pages when an entry is *)
(* evicted, at intervals, and in the end.  One worker inserts the first    *)
(* rows alone while the others wait.  The leader does the same for all     *)
(* rows when there are no workers, with no gate and no intervals.  Build   *)
(* has the leader's other steps.                                           *)
(*                                                                         *)
(* The merge of a list and the publication of the root are single steps,   *)
(* as Adjacency and MetaPage show.  Which entry the cache evicts or        *)
(* flushes next is left open.  Builds with labels are left out: they are   *)
(* serial, and Insert has the roots of labels.                             *)
(***************************************************************************)
EXTENDS Neighbors

CONSTANTS
  Worker,
  Leader,
  NoNode,
  SearchListSize,   \* search_list_size for the build
  MaxNeighbors,     \* get_max_neighbors_during_build
  CacheSize,        \* capacity of a worker's cache, in lists
  SeedCounts,       \* settings of diskann.parallel_initial_start_nodes_count
  FlushInterval,    \* flush_rate
  Occludes          \* vectors lie so that pruning may drop what there is room for

ASSUME ParallelBuildAssumption ==
  /\ NoNode \notin Node /\ Leader \notin Worker
  /\ SearchListSize \in Nat \ {0} /\ MaxNeighbors \in Nat /\ MaxNeighbors >= NumNeighbors
  /\ CacheSize \in Nat \ {0} /\ SeedCounts \subseteq Nat \ {0} /\ FlushInterval \in Nat \ {0}
  /\ Occludes \in BOOLEAN

VARIABLES
  rest,    \* rows the heap scan has yet to hand out
  disk,    \* the index: nodes written, their lists, the root
  shared,  \* ParallelBuildState and the setting; queue is the condition variable's
  worker

vars == << rest, disk, shared, worker >>

Stages == {"start", "check", "sleep", "open", "scan", "root", "search", "link",
           "flush", "count", "broadcast", "seed", "signal", "wake", "total",
           "drain", "ended"}

\* cached and lists are the cache; evicted is the entry that set_neighbors
\* has just pushed out and has to merge before anything else.
Locals == [stage : Stages, serial : BOOLEAN, init : BOOLEAN, prepared : BOOLEAN,
           root : Node \cup {NoNode}, cached : SUBSET Node, lists : [Node -> SUBSET Node],
           evicted : Node \cup {NoNode}, evictedList : SUBSET Node,
           node : Node \cup {NoNode}, frontier : SUBSET Node, visited : SUBSET Node,
           links : SUBSET Node, ntuples : Nat]

NoLists == [n \in Node |-> {}]

Starting == [stage |-> "start", serial |-> FALSE, init |-> FALSE, prepared |-> FALSE, root |-> NoNode,
             cached |-> {}, lists |-> NoLists, evicted |-> NoNode, evictedList |-> {},
             node |-> NoNode, frontier |-> {}, visited |-> {}, links |-> {}, ntuples |-> 0]

--------------------------------------------------------------------------------
(***************************************************************************)
(* Lists and caches                                                        *)
(***************************************************************************)

\* Results of prune_neighbors; without occlusion it drops only what there is
\* no room for.
PrunedSets(n, C) ==
  IF ~Occludes /\ Cardinality(C) <= NumNeighbors THEN {C}
  ELSE {S \in SUBSET C :
          /\ Cardinality(S) <= NumNeighbors
          /\ C # {} => \E x \in S : \A c \in C : Rank[n][x] <= Rank[n][c]}

\* add_neighbors in memory, where lists may outgrow the pages'.
CachedSets(n, C) == IF Cardinality(C) > MaxNeighbors THEN PrunedSets(n, C) ELSE {C}

\* get_neighbors_with_full_vector_distances
Got(o, n) == IF n \in o.cached THEN o.lists[n] ELSE disk.adj[n]

\* set_neighbors: a new entry may push out another one.
Pushes(o, n, list) ==
  IF n \in o.cached \/ Cardinality(o.cached) < CacheSize
    THEN {[o EXCEPT !.cached = @ \cup {n}, !.lists[n] = list]}
    ELSE {[o EXCEPT !.cached = (@ \ {v}) \cup {n},
                    !.lists = [@ EXCEPT ![v] = {}, ![n] = list],
                    !.evicted = v, !.evictedList = o.lists[v]] : v \in o.cached}

\* Nothing waits to be written back.
Free(o, stage) == o.stage = stage /\ o.evicted = NoNode

--------------------------------------------------------------------------------
InitWorkers ==
  /\ disk = [tape |-> {}, adj |-> NoLists, root |-> NoNode]
  /\ shared \in [seeds : SeedCounts, claimed : {FALSE}, ntuples : {0}, done : {FALSE}, queue : {{}}]
  /\ worker = [w \in Worker \cup {Leader} |-> Starting]

(***************************************************************************)
(* The gate                                                                *)
(***************************************************************************)

\* compare_exchange on start_nodes_initialized.
Claim(w) ==
  /\ worker[w].stage = "start"
  /\ worker' = [worker EXCEPT ![w].init = ~shared.claimed,
                              ![w].stage = IF shared.claimed THEN "check" ELSE "open"]
  /\ shared' = [shared EXCEPT !.claimed = TRUE]
  /\ UNCHANGED << rest, disk >>

GateOpen == shared.ntuples >= shared.seeds \/ shared.done

Check(w) ==
  /\ worker[w].stage = "check"
  /\ IF GateOpen
       THEN /\ worker' = [worker EXCEPT ![w].stage = "open"]
            /\ shared' = [shared EXCEPT !.queue = @ \ {w}]
       ELSE /\ worker' = [worker EXCEPT ![w].stage = "sleep"]
            /\ UNCHANGED shared
  /\ UNCHANGED << rest, disk >>

\* A sleep whose first call sleeps at once.
SleepUnchecked(w) ==
  /\ worker[w].stage = "sleep"
  /\ worker[w].prepared => w \notin shared.queue
  /\ worker' = [worker EXCEPT ![w].stage = IF worker[w].prepared THEN "check" ELSE @,
                              ![w].prepared = TRUE]
  /\ shared' = [shared EXCEPT !.queue = @ \cup {w}]
  /\ UNCHANGED << rest, disk >>

\* ConditionVariableSleep: the first call only joins the queue, a later one
\* returns, queued again, when a broadcast has taken the worker out.
Sleep(w) ==
  /\ worker[w].stage = "sleep"
  /\ worker[w].prepared => w \notin shared.queue
  /\ worker' = [worker EXCEPT ![w].stage = "check", ![w].prepared = TRUE]
  /\ shared' = [shared EXCEPT !.queue = @ \cup {w}]
  /\ UNCHANGED << rest, disk >>

\* MetaPage::fetch, and a tape of the worker's own.
Open(w) ==
  /\ worker[w].stage = "open"
  /\ worker' = [worker EXCEPT ![w].stage = "scan", ![w].root = disk.root]
  /\ UNCHANGED << rest, disk, shared >>

--------------------------------------------------------------------------------
(***************************************************************************)
(* A row                                                                   *)
(***************************************************************************)

\* create_node
NextRow(w, n) ==
  /\ worker[w].stage = "scan" /\ n \in rest
  /\ rest' = rest \ {n}
  /\ disk' = [disk EXCEPT !.tape = @ \cup {n}]
  /\ worker' = [worker EXCEPT ![w].stage = "root", ![w].node = n]
  /\ UNCHANGED shared

\* update_start_nodes: with the worker's root, with one found under the lock,
\* or with the row's own node.
FindRoot(w) ==
  LET o == worker[w]
      b == [o EXCEPT !.stage = "search"]
  IN  /\ Free(o, "root")
      /\ \/ /\ o.root # NoNode /\ UNCHANGED disk
            /\ worker' = [worker EXCEPT ![w] = [b EXCEPT !.frontier = {o.root}]]
         \/ /\ o.root = NoNode /\ disk.root # NoNode /\ UNCHANGED disk
            /\ worker' = [worker EXCEPT ![w] = [b EXCEPT !.root = disk.root,
                                                         !.frontier = {disk.root}]]
         \/ /\ o.root = NoNode /\ disk.root = NoNode
            /\ disk' = [disk EXCEPT !.root = o.node]
            /\ \E p \in Pushes(b, o.node, {}) :
                 worker' = [worker EXCEPT ![w] = [p EXCEPT !.root = o.node, !.frontier = {o.node}]]
      /\ UNCHANGED << rest, shared >>

\* visit_lsn with the builder's lists; a miss fills the cache.
Visit(w, m) ==
  LET o == worker[w]
  IN  /\ Free(o, "search") /\ m \in o.frontier
      /\ \E p \in Pushes(o, m, Got(o, m)) :
           worker' = [worker EXCEPT ![w] =
             [p EXCEPT !.visited = @ \cup {m},
                       !.frontier = (@ \cup Got(o, m)) \ (o.visited \cup {m})]]
      /\ UNCHANGED << rest, disk, shared >>

\* visit_closest has no candidate, or enough are visited and (for some order
\* of distances) the next one is too far.
SearchEnds(o) == o.frontier = {} \/ Cardinality(o.visited) > SearchListSize

FlushDue(o) ==
  LET completed == o.ntuples + 1
  IN  /\ ~o.serial
      /\ completed % FlushInterval = 0 \/ (o.init /\ completed = shared.seeds)

\* After the last back pointer: flush or not.
AfterLinks(o) ==
  [o EXCEPT !.stage = CASE o.links # {} -> "link"
                        [] o.links = {} /\ FlushDue(o) -> "flush"
                        [] OTHER -> "count"]

\* add_neighbors on the new node.
LinkNode(w) ==
  LET o == worker[w]
      n == worker[w].node
  IN  /\ Free(o, "search") /\ SearchEnds(o)
      /\ \E list \in CachedSets(n, (Got(o, n) \cup o.visited) \ {n}) :
           \E p \in Pushes([o EXCEPT !.links = list, !.frontier = {}, !.visited = {}], n, list) :
             worker' = [worker EXCEPT ![w] = AfterLinks(p)]
      /\ UNCHANGED << rest, disk, shared >>

\* update_back_pointer
LinkBack(w, m) ==
  LET o == worker[w]
  IN  /\ Free(o, "link") /\ m \in o.links
      /\ \E list \in CachedSets(m, (Got(o, m) \cup {o.node}) \ {m}) :
           \E p \in Pushes([o EXCEPT !.links = @ \ {m}], m, list) :
             worker' = [worker EXCEPT ![w] = AfterLinks(p)]
      /\ UNCHANGED << rest, disk, shared >>

\* merge_neighbors_on_disk for the evicted entry, which always prunes.
WriteBack(w) ==
  LET n == worker[w].evicted
      C == (disk.adj[n] \cup worker[w].evictedList) \ {n}
  IN  /\ n # NoNode
      /\ \E list \in PrunedSets(n, C) : disk' = [disk EXCEPT !.adj[n] = list]
      /\ worker' = [worker EXCEPT ![w].evicted = NoNode, ![w].evictedList = {}]
      /\ UNCHANGED << rest, shared >>

\* A flush that overwrites what other workers have written.
FlushEntryOver(w, n) ==
  LET o == worker[w]
  IN  /\ o.stage \in {"flush", "seed", "drain"} /\ o.evicted = NoNode /\ n \in o.cached
      /\ \E list \in MergedNeighbors(n, {}, o.lists[n]) :
           disk' = [disk EXCEPT !.adj[n] = list]
      /\ worker' = [worker EXCEPT ![w] = [o EXCEPT !.cached = @ \ {n}, !.lists[n] = {}]]
      /\ UNCHANGED << rest, shared >>

\* flush_neighbor_cache, and the drain of finalize_index_build.
FlushEntry(w, n) ==
  LET o == worker[w]
  IN  /\ o.stage \in {"flush", "seed", "drain"} /\ o.evicted = NoNode /\ n \in o.cached
      /\ \E list \in MergedNeighbors(n, disk.adj[n], o.lists[n]) :
           disk' = [disk EXCEPT !.adj[n] = list]
      /\ worker' = [worker EXCEPT ![w] = [o EXCEPT !.cached = @ \ {n}, !.lists[n] = {}]]
      /\ UNCHANGED << rest, shared >>

FlushEnds(w) ==
  /\ Free(worker[w], "flush") /\ worker[w].cached = {}
  /\ worker' = [worker EXCEPT ![w].stage = "count"]
  /\ UNCHANGED << rest, disk, shared >>

\* The seeds of the initializing worker that are counted at once.
Counted(o) == o.init /\ o.ntuples + 1 <= shared.seeds

\* increment_ntuples
Count(w) ==
  LET o == worker[w]
      opens == Counted(o) /\ shared.ntuples + 1 >= shared.seeds
  IN  /\ Free(o, "count")
      /\ worker' = [worker EXCEPT ![w].ntuples = @ + 1, ![w].node = NoNode,
                                  ![w].stage = IF opens THEN "broadcast" ELSE "scan"]
      /\ shared' = [shared EXCEPT !.ntuples = IF Counted(o) THEN @ + 1 ELSE @]
      /\ UNCHANGED << rest, disk >>

\* ConditionVariableBroadcast
Broadcast(w) ==
  /\ worker[w].stage \in {"broadcast", "wake"}
  /\ shared' = [shared EXCEPT !.queue = {}]
  /\ worker' = [worker EXCEPT ![w].stage = IF @ = "broadcast" THEN "scan" ELSE "total"]
  /\ UNCHANGED << rest, disk >>

--------------------------------------------------------------------------------
(***************************************************************************)
(* The end                                                                 *)
(***************************************************************************)

\* An initializing worker that leaves its lists to the drain.
FinishUnflushed(w) ==
  /\ worker[w].stage = "scan" /\ rest = {}
  /\ worker' = [worker EXCEPT ![w].stage = IF worker[w].init THEN "signal" ELSE "total"]
  /\ UNCHANGED << rest, disk, shared >>

\* finalize_remaining_parallel_nodes: the initializing worker flushes first;
\* a serial build drains its cache at once.
Finish(w) ==
  /\ worker[w].stage = "scan" /\ rest = {}
  /\ worker' = [worker EXCEPT ![w].stage =
                  CASE worker[w].serial -> "drain"
                    [] worker[w].init   -> "seed"
                    [] OTHER            -> "total"]
  /\ UNCHANGED << rest, disk, shared >>

SeedsFlushed(w) ==
  /\ worker[w].stage = "seed" /\ worker[w].cached = {}
  /\ worker' = [worker EXCEPT ![w].stage = "signal"]
  /\ UNCHANGED << rest, disk, shared >>

\* into_build_state
Signal(w) ==
  /\ worker[w].stage = "signal"
  /\ shared' = [shared EXCEPT !.done = TRUE]
  /\ worker' = [worker EXCEPT ![w].stage = "wake"]
  /\ UNCHANGED << rest, disk >>

\* update_shared_ntuples: saturating_sub for the initializing worker.
Total(w) ==
  LET seeds == IF worker[w].ntuples < shared.seeds THEN worker[w].ntuples ELSE shared.seeds
  IN  /\ worker[w].stage = "total"
      /\ shared' = [shared EXCEPT !.ntuples =
                      @ + worker[w].ntuples - (IF worker[w].init THEN seeds ELSE 0)]
      /\ worker' = [worker EXCEPT ![w].stage = "drain"]
      /\ UNCHANGED << rest, disk >>

DrainEnds(w) ==
  /\ worker[w].stage = "drain" /\ worker[w].cached = {}
  /\ worker' = [worker EXCEPT ![w].stage = "ended"]
  /\ UNCHANGED << rest, disk, shared >>

--------------------------------------------------------------------------------
Step(w) ==
  \/ Claim(w) \/ Check(w) \/ Sleep(w) \/ Open(w)
  \/ FindRoot(w) \/ LinkNode(w) \/ WriteBack(w) \/ FlushEnds(w) \/ Count(w) \/ Broadcast(w)
  \/ Finish(w) \/ SeedsFlushed(w) \/ Signal(w) \/ Total(w) \/ DrainEnds(w)
  \/ \E n \in Node :
       NextRow(w, n) \/ Visit(w, n) \/ LinkBack(w, n) \/ FlushEntry(w, n)

--------------------------------------------------------------------------------
\* Nodes that a search on the pages finds.
Reached ==
  {n \in Node : /\ disk.root # NoNode
                /\ \A S \in SUBSET Node :
                     (disk.root \in S /\ \A x \in S : disk.adj[x] \subseteq S) => n \in S}

\* A worker that has come through the gate.
Admitted(w) == worker[w].stage \notin {"start", "check", "sleep"} /\ ~worker[w].init

\* "Initialization publishes seed edges before waking the other workers"
\* (CONCURRENCY.md): when one comes through the gate, the seeds, or all rows if
\* there are fewer, can be found on the pages.
SeedsPublished ==
  (\E w \in Worker : Admitted(w)) =>
    Cardinality(Reached) >= shared.seeds \/ rest \cup disk.tape \subseteq Reached
================================================================================
