--------------------------------- MODULE Build ---------------------------------
(***************************************************************************)
(* ambuild (build.rs): CREATE INDEX writes the metadata, trains the        *)
(* quantizer on the table and publishes its statistics, then scans the     *)
(* table: with parallel workers if the index, the table and the settings   *)
(* allow any and PostgreSQL has some, or else alone.  The processes that   *)
(* scan are those of ParallelBuild.                                        *)
(*                                                                         *)
(* Built CONCURRENTLY, every scan has a snapshot of its own, and rows may  *)
(* come between them; otherwise the table is locked.                       *)
(***************************************************************************)
EXTENDS ParallelBuild, Integers

CONSTANTS
  Requests,   \* storage, settings and circumstances of a build
  MinVectors  \* diskann.min_vectors_for_parallel_build

ASSUME BuildAssumption ==
  /\ Requests \subseteq [plain : BOOLEAN, concurrent : BOOLEAN, forced : Int,
                         planned : Nat, reltuples : Nat]
  /\ MinVectors \in Nat

VARIABLES
  table,   \* rows visible to a new snapshot
  request,
  catalog, \* of the index: its metadata, the sample its statistics are of
  leader

buildVars == << table, request, catalog, leader >>
allVars == << table, request, catalog, leader, rest, disk, shared, worker >>

NoSample == [known |-> FALSE]

\* stage: what comes next.  parallel, context and snapshot are what the leader
\* holds; toScan are the rows of the registered snapshot.
LeaderIdle == [stage |-> "meta", asked |-> 0, parallel |-> FALSE, context |-> FALSE,
               snapshot |-> FALSE, toScan |-> {}, launched |-> {}, ntuples |-> 0]

Init ==
  /\ table \in SUBSET Node /\ request \in Requests
  /\ catalog = [page0 |-> "none", pointer |-> NoSample, stats |-> NoSample]
  /\ leader = LeaderIdle
  /\ rest = {} /\ InitWorkers

--------------------------------------------------------------------------------
\* Another transaction commits a row.
Arrive(n) ==
  /\ request.concurrent /\ n \notin table /\ leader.stage \notin {"dsm", "wait", "scan", "done"}
  /\ table' = table \cup {n}
  /\ UNCHANGED << request, catalog, leader, rest, disk, shared, worker >>

\* get_meta_page; maybe_train_quantizer is for memory_optimized alone.
WriteMeta ==
  /\ leader.stage = "meta"
  /\ catalog' = [catalog EXCEPT !.page0 = "written"]
  /\ leader' = [leader EXCEPT !.stage = IF request.plain THEN "store" ELSE "train"]
  /\ UNCHANGED << table, request, rest, disk, shared, worker >>

\* maybe_train_quantizer stores the statistics; the metadata still in memory
\* gets the pointer.
Train ==
  /\ leader.stage = "train"
  /\ catalog' = [catalog EXCEPT !.stats = [known |-> TRUE, sample |-> table]]
  /\ leader' = [leader EXCEPT !.stage = "store"]
  /\ UNCHANGED << table, request, rest, disk, shared, worker >>

\* A store left to the end of the build, as before workers read the metadata.
StoreMetaLater ==
  /\ leader.stage = "store"
  /\ leader' = [leader EXCEPT !.stage = "choose"]
  /\ UNCHANGED << table, request, catalog, rest, disk, shared, worker >>

\* meta_page.store with the pointer.
StoreMeta ==
  /\ leader.stage = "store"
  /\ catalog' = [catalog EXCEPT !.pointer = catalog.stats]
  /\ leader' = [leader EXCEPT !.stage = "choose"]
  /\ UNCHANGED << table, request, rest, disk, shared, worker >>

WorkersAllowed ==
  IF request.plain THEN 0
  ELSE IF request.forced >= 0 THEN request.forced
  ELSE IF request.reltuples >= MinVectors THEN request.planned ELSE 0

\* EnterParallelMode, CreateParallelContext, and RegisterSnapshot of a
\* concurrent build; another one scans with SnapshotAny.
Choose ==
  /\ leader.stage = "choose"
  /\ leader' = IF WorkersAllowed = 0 THEN [leader EXCEPT !.stage = "serial"]
               ELSE [leader EXCEPT !.stage = "dsm", !.asked = WorkersAllowed, !.toScan = table,
                       !.parallel = TRUE, !.context = TRUE, !.snapshot = request.concurrent]
  /\ UNCHANGED << table, request, catalog, rest, disk, shared, worker >>

\* cleanup_parallel_context
CleanedUp(l) == [l EXCEPT !.parallel = FALSE, !.context = FALSE, !.snapshot = FALSE]

\* A leader that falls back without a cleanup.
FallBackAsIs ==
  /\ leader.stage = "dsm"
  /\ leader' = [leader EXCEPT !.stage = "serial"]
  /\ UNCHANGED << table, request, catalog, rest, disk, shared, worker >>

\* No DSM segment, or no worker launched: the leader goes on alone.
FallBack ==
  /\ leader.stage = "dsm"
  /\ leader' = [CleanedUp(leader) EXCEPT !.stage = "serial"]
  /\ UNCHANGED << table, request, catalog, rest, disk, shared, worker >>

\* table_parallelscan_initialize, and some of the workers asked for.
Launch ==
  /\ leader.stage = "dsm"
  /\ \E some \in (SUBSET Worker) \ {{}} :
       /\ Cardinality(some) <= leader.asked
       /\ leader' = [leader EXCEPT !.stage = "wait", !.launched = some]
  /\ rest' = leader.toScan
  /\ UNCHANGED << table, request, catalog, disk, shared, worker >>

\* A result taken when the workers have attached.
TakeResultEarly ==
  /\ leader.stage = "wait" /\ \A w \in leader.launched : worker[w].stage # "start"
  /\ leader' = [CleanedUp(leader) EXCEPT !.stage = "done", !.ntuples = shared.ntuples]
  /\ UNCHANGED << table, request, catalog, rest, disk, shared, worker >>

\* WaitForParallelWorkersToFinish, the counter, and the cleanup.
TakeResult ==
  /\ leader.stage = "wait" /\ \A w \in leader.launched : worker[w].stage = "ended"
  /\ leader' = [CleanedUp(leader) EXCEPT !.stage = "done", !.ntuples = shared.ntuples]
  /\ UNCHANGED << table, request, catalog, rest, disk, shared, worker >>

\* do_heap_scan in the leader, with the metadata of its own.
ScanAlone ==
  /\ leader.stage = "serial"
  /\ leader' = [leader EXCEPT !.stage = "scan", !.toScan = table]
  /\ rest' = table
  /\ worker' = [worker EXCEPT ![Leader].serial = TRUE, ![Leader].stage = "scan"]
  /\ UNCHANGED << table, request, catalog, disk, shared >>

EndScan ==
  /\ leader.stage = "scan" /\ worker[Leader].stage = "ended"
  /\ leader' = [leader EXCEPT !.stage = "done", !.ntuples = worker[Leader].ntuples]
  /\ UNCHANGED << table, request, catalog, rest, disk, shared, worker >>

--------------------------------------------------------------------------------
Lead == WriteMeta \/ Train \/ StoreMeta \/ Choose \/ FallBack \/ Launch \/ TakeResult
        \/ ScanAlone \/ EndScan

\* A worker once launched, or the leader as the only one to scan.
Work(w) ==
  /\ IF w = Leader THEN leader.stage = "scan" ELSE leader.stage = "wait" /\ w \in leader.launched
  /\ Step(w) /\ UNCHANGED buildVars

Next ==
  \/ Lead
  \/ \E w \in Worker \cup {Leader} : Work(w)
  \/ \E n \in Node : Arrive(n)

Spec == Init /\ [][Next]_allVars

\* PostgreSQL runs the leader and every worker it has launched.
FairSpec == Spec /\ WF_allVars(Lead) /\ \A w \in Worker \cup {Leader} : WF_allVars(Work(w))

--------------------------------------------------------------------------------
(***************************************************************************)
(* Properties                                                              *)
(***************************************************************************)

LeaderStages == {"meta", "train", "store", "choose", "serial", "scan", "dsm", "wait", "done"}
Samples == {NoSample} \cup [known : {TRUE}, sample : SUBSET Node]

\* The variables keep their types, for the leader as for who scans.
TypeOK ==
  /\ table \subseteq Node /\ request \in Requests
  /\ catalog \in [page0 : {"none", "written"}, pointer : Samples, stats : Samples]
  /\ leader \in [stage : LeaderStages, asked : Nat, parallel : BOOLEAN, context : BOOLEAN,
                 snapshot : BOOLEAN, toScan : SUBSET Node, launched : SUBSET Worker, ntuples : Nat]
  /\ rest \subseteq Node
  /\ disk \in [tape : SUBSET Node, adj : [Node -> SUBSET Node], root : Node \cup {NoNode}]
  /\ shared \in [seeds : SeedCounts, claimed : BOOLEAN, ntuples : Nat, done : BOOLEAN,
                 queue : SUBSET (Worker \cup {Leader})]
  /\ worker \in [Worker \cup {Leader} -> Locals]

\* Though workers insert from caches that do not show each other's edges, in
\* the end the pages lead to every row the scan was to index, whichever way the
\* build has taken (finalize_index_build).
RowsReachable == leader.stage = "done" => leader.toScan \subseteq Reached

\* The result of ambuild counts each of these rows once: by the gate's counter
\* and the rest of each worker, or by the one that scanned alone.
RowsCounted == leader.stage = "done" => leader.ntuples = Cardinality(leader.toScan)

\* Whoever writes nodes does so by statistics that the metadata on disk leads
\* to, and that a locked table's rows have all gone into ("Train quantizer
\* before doing anything in parallel", ambuild).
TrainedBeforeUse ==
  disk.tape # {} /\ ~request.plain =>
    /\ catalog.pointer.known
    /\ ~request.concurrent => disk.tape \subseteq catalog.pointer.sample

\* Parallel mode, context and snapshot are held exactly while a context has
\* workers or waits for some: never over a scan of the leader's own, nor past
\* the end, and never given back while a worker scans (cleanup_parallel_context).
HeldForWorkersOnly ==
  /\ leader.parallel = leader.context
  /\ leader.snapshot => leader.parallel /\ request.concurrent
  /\ leader.stage \in {"serial", "scan", "done"} => ~leader.parallel
  /\ (\E w \in Worker : worker[w].stage \notin {"start", "ended"}) =>
       leader.parallel /\ leader.snapshot = request.concurrent

\* No wake-up is lost, no fallback is missed: every build comes to its end.
BuildEnds == <>(leader.stage = "done")
================================================================================
