# pgvectorscale in TLA+

This directory specifies the `diskann` index access method of pgvectorscale:
how several PostgreSQL backends insert into, build, scan and vacuum one graph
index at the same time, with cancellations and crashes. TLC checks small
instances of every module, TLAPS proves the main theorems for all values of the
constants. Paths below are relative to
`src/pgvectorscale/src/access_method/` unless they begin with `src/` or `util/`.

## 1. The system

An index is a file of 8 kB pages. Block 0 starts a chain that holds the
metadata; other pages hold graph nodes (a heap pointer, a vector or a quantized
vector, labels, and a fixed array of neighbor pointers). Backends share nothing
but these pages, PostgreSQL's locks, and, in a parallel build, one block of
atomics. There is no index-wide lock for writers.

| Component | State | Operations | Interacts with | What is hard | What makes it correct |
|---|---|---|---|---|---|
| Adjacency update (`graph/mod.rs` `merge_neighbors_on_disk`, `try_set_neighbors_on_disk` of both storages) | neighbor array of each node | copy, prune unlocked, compare and replace, retry | insertion, builder cache; VACUUM changes the same tuple | the stored list changes while a copy is pruned; retry; cancellation | each call is one atomic merge; edges go only by pruning; calls end |
| Stored node (`plain/node.rs`, `sbq/node.rs`) | the fixed array with its end mark, `heap_item_pointer` | read list, set list, delete | as above | lists of different lengths in one array | the array always reads as a proper list |
| Metadata and roots (`meta_page.rs`, `graph/start_nodes.rs`, `Graph::update_start_nodes`) | chain of pages, page lock on block 0 | fetch, publish | insertion, search, build | readers while the chain is replaced, crash between records, lost root | a reader sees one version; roots only grow; committed rows have roots |
| Chained tape (`util/chain.rs`) | pages with next links | prepare root, write, commit, read | metadata, quantizer | error between two pages | the root never leads to an unwritten page |
| Insertion (`build.rs` `aminsert`, `Graph::insert`) | the backend's metadata copy, search lists | write node, publish roots, two search-and-link passes | all of the above | insertions that do not see each other, cancellation and crash at any step | committed rows stay reachable, no dangling pointers, insertions end |
| Greedy search (`graph/mod.rs` `ListSearchResult`) | candidates, visited list, set of all found | visit closest, insert neighbor, consume | storages (`visit_lsn`), builder cache | the graph changes between visits | no node twice; every seen row is returned |
| Index scan (`scan.rs`) | snapshot, search state, resort buffer, pinned page | begin, get tuple, end | VACUUM, heap | heap pointers used long after they were read | no foreign or repeated row; all rows of the snapshot |
| VACUUM (`vacuum.rs`) | dead slots, block number, counts | `ambulkdelete` per block, cleanup | scans (pins), insertions | nodes written behind it; several passes | slots are reused only when no node points to them; it gets every page |
| Builder cache (`graph/neighbor_store.rs`, `util/lru.rs`) | lists of a worker, LRU bound | get, set, evict, flush, drain | adjacency update | stale entries, evictions in the middle of a search | no edge is lost |
| Index build (`build.rs`, `build/parallel.rs`) | leader: parallel mode, context, snapshot; shared: claim, gate, counters, condition variable | train, publish statistics, choose workers, launch or fall back, claim, wait, insert, flush, signal, finish | builder cache, metadata, quantizer, heap scan | gate, lost wake-ups, fewer rows than seeds, no worker to be had, rows that come during a concurrent build | statistics are on disk before nodes; seeds before the gate opens; what is taken for workers is given back; all rows found and counted; every build ends |
| Node tape (`util/tape.rs`), pages and WAL (`util/page.rs`, `util/buffer.rs`, `util/ports.rs`) | newest page of a type, buffer locks, Generic WAL state | resume, append, commit, abort | everything that writes | an extension cut off half way; two pages locked at once | one record per change; uninitialized pages are stepped over |
| Pruning (`Graph::prune_neighbors`, `graph/neighbor_with_distance.rs`) | factors of the candidates, within one call | take, pass over, next alpha | adjacency update, builder cache | label coverage, zero distances, a list that is full in mid-round | its contract; what is dropped has a nearer kept neighbor with its labels to stand for it |
| Labels (`labels/mod.rs`) | sorted arrays | build, overlap, coverage | insertion, scan, pruning | sortedness, duplicates, NULLs | set semantics |
| Quantizer and SBQ storage (`sbq/`) | means, squared distances, count; codes in nodes; a cache of codes per command | train, store, load, quantize, measure, relink | build, insertion, scan, VACUUM | running means, dimensions without spread, older layouts, cached codes while others write | distances are those of one quantizer's codes; caches agree with pages; filters are exact |
| Creation of the metadata (`meta_page.rs`, `options.rs`, `storage.rs`) | options, metadata | check, create, store, convert, fetch | everything | sentinels, limits, three layouts | what is accepted can be opened |
| Floating-point distances, cost estimate, statistics, SQL glue | none | numeric or reporting | | | not protocol state |

`PROJECT.json` lists every component with what is modelled of it, and the
hazards of the code at the lines where they bite.

## 2. Modules

```
Neighbors            pure part of an adjacency update (candidates, contract of pruning)
 +- NodePage         the stored array
 |   +- Adjacency    concurrent updates      --implements--> AtomicMerge
 |   +- SbqStorage   (its lists of neighbors)
 +- Insert           whole insertions        (merge = one step of AtomicMerge,
 |   |                                        publication = one step of EntryPoints)
 |   +- StartNodes   search roots
 |       +- MetaPage metadata chain          --implements--> EntryPoints
 +- ParallelBuild    the processes of a build: gate, caches (merge, publication as in Insert)
 |   +- Build        ambuild: training, workers or none, the result
 +- Pruning          prune_neighbors         --shown to meet the contract of Neighbors
Lru, LabelSets, Quantizer, IndexMeta         pure algorithms
 +- SbqStorage       the memory_optimized storage, from CREATE INDEX to scans
Scan                 scans, deletions, VACUUM (a committed row is reachable, as Insert shows);
                     uses StartNodes
Tape                 pages, their locks, the tape of nodes, VACUUM's walk
AdjacencyProofs, MetaPageProofs, InsertProofs,
PruningProofs, ScanProofs, TapeProofs,
BuildProofs, SbqProofs   theorems
MCAdjacency, MCMetaPage, MCInsert, MCScan,
MCBuild, MCPruning, MCTape, MCSbqStorage     instances for TLC
```

The system is decomposed by atomicity. At the lowest level `Adjacency` and
`MetaPage` have one action per lock scope or log record, and are shown to
implement specifications with one atomic step per call. `Insert` and
`ParallelBuild` use these steps and have one action per node visited, list
merged, or shared variable changed. `Scan` takes from `Insert` that a committed
row can be reached.

**Neighbors, NodePage, Adjacency, AtomicMerge.** A list is a sequence of nodes.
`Candidates` is the order-preserving deduplication of `merge_neighbors_on_disk`;
`PruneResults` is the contract of `prune_neighbors`: at most `NumNeighbors` of
the candidates, none twice, and the nearest first; module `Pruning` shows that the
alpha loop keeps it. Vectors appear only as `Rank`.
`slots` is the array in the tuple with what longer lists left behind the mark.
The stages `snapshot`, `prune`, `validate` of a backend are the three parts of
the loop; `Interrupt` is `check_for_interrupts` at its head. Plain and SBQ
storage share this protocol line by line. `CallModes` are the three merge modes.

**Pruning.** `prune_neighbors` step by step: `Take` and `Pass` are the two outcomes of
an iteration, `NextRound` the multiplication of alpha, `Return` the two ways out. The
input is any choice of distances, labels and order among equals. A distance is a
number of some unit, compared with `f32::EPSILON` in that unit, and zero distances are
told apart by how far the pointers lie from each other (`TieBreak`). `max_factors` is
only ever compared with an alpha, so the model keeps, for each candidate, the taken
nodes it was compared with (`against`); that a taken node is not considered again is
`Kept`. The list of alphas is not empty, and no alpha is below 1, because the option demands
`max_alpha >= 1`. `DroppedForAReason` does not ask `FactorExceeds` whether a drop was right: `StandsFor`
says, of the distances alone, when one node is nearer to a candidate than the point is, also
when distances are zero and have no ratio.

**StartNodes, MetaPage, EntryPoints.** `disk.pages` holds a chunk of some version
of the metadata on each block; `Chunks[v]` is the number of pages a version takes, `RowLabels`
the sets of labels a row may come with (any function and any sets of labels, as far as the
proofs go). `FetchRoot`, `FetchSuffix`, `FetchEnd` read
the chain under the root's share lock; `LockPage` is `MetaPageLock` with the
second fetch; `PrepareRoot`, `WriteChunk`, `CommitRoot` are `prepare_root`, the
records of `ChainTapeWriter::write`, and the record that replaces the root. Locks
are read off the stages. `durable` is what recovery would restore: `Flush` may
happen at any time, so `durable` ranges over all prefixes of the log. The empty
page that `ChainTapeWriter::new` logs before the first chunk is `NewPage`.
Pages of old suffixes are never reused. Only `start_nodes` changes after a build,
so it is the only field; the others are in `IndexMeta`.

**Insert.** One row per transaction. `graph` is the logged state, `durable` as above,
`rows` the committed rows. `Begin` .. `PublishRoots` are `aminsert` up to
`update_start_nodes`; a pass of `insert_internal` is `BeginPass`, `Visit` (with
`ReadFound` for the plain storage, which reads a node's neighbors when it is
found and not when it is visited), `LinkNode` (`add_neighbors`) and `LinkBack`
(`update_back_pointer`). Any visiting order is allowed, and a search may end as
soon as more than `SearchListSize` nodes are visited: this covers every order of
distances. `Abort` may come at any step; `Commit` assumes `synchronous_commit = on`.

**Scan.** A row is named by its index node. `heap` says which row is in which slot,
`entry` which slot an index node points to, `status` what became of the row's
transaction; MVCC visibility and the reuse of slots are PostgreSQL's part and are
marked external. `ReadFound` copies a node for the plain storage (neighbors and
heap pointer), `Consume` and `Skip` are `next`, `Resort` and `Pop` the resort
buffer, `Pin` what `get_tuple` does with `last_buffer`, `Fetch` the executor's heap
fetch, `Finish` and `EndScan` the two ways a scan ends. `BeginPass`, `VacuumBlock`, `Reclaim`
are one `ambulkdelete` and the heap pass after it; a VACUUM may make several.
`nblocks` is any length that includes the nodes written so far. A query asks for
rows with one of some labels, or for any row (`Filters`); `QueryFor` is what the search goes by,
which leaves the labels out when the vector to order by is NULL, and the executor's recheck in
`Fetch` (`xs_recheck`) brings them in again. A search by labels starts from the root of each
(`StartNodesFor`) and steps over neighbors with none of them (`Matching`), which count as found.
`Rescan` is a further `amrescan` on the same descriptor, with another query and the same
snapshot: everything starts anew but `last_buffer`, whose pin stays. `Joined`, the guard of
`Commit`, is what `RowsReachable` and `RowsReachableByLabel` say in Insert.

**ParallelBuild, Build.** `Build` is `ambuild`: `WriteMeta`, `Train`, `StoreMeta` and
`Choose` in the code's order, then `Launch` and `TakeResult` around the workers, or
`ScanAlone` and `EndScan` around the leader's own scan, with `FallBack` for the two
places where workers were asked for and none can be had. `WorkersAllowed` is the
choice by layout, forced number, and size of the table. `Arrive` (external) adds rows
during a concurrent build; each scan takes the rows of its beginning.
`ParallelBuild` is what a process does that scans. `Claim`, `Check`, `Sleep` are the entry of
a worker; `Sleep` models `ConditionVariableSleep` (external): the first call only joins
the queue and returns, a later one returns after a broadcast. `NextRow` .. `Count` insert a row
with the process's own cache; `Pushes` is `set_neighbors` with an eviction, whose
`WriteBack` comes before anything else of that process. Which entry is evicted or
flushed next is left open, which covers every LRU order. `Finish` .. `DrainEnds` are
`finalize_remaining_parallel_nodes` and `finalize_index_build`; a serial build (`serial`) goes from
the last row to the drain and has no gate and no intervals. Errors of a worker abort
the whole transaction and are left out; so are labels, with which a build is serial.
`Occludes = FALSE` restricts pruning to dropping what there is no room for (true of
some sets of vectors); evictions always prune, so reachability needs it. With stronger
pruning rows can be cut off; `CONCURRENCY.md` says so, and TLC shows it with
`NumNeighbors = 1`.

**Tape.** `pages` are the buffers, `log` and `durable` what a crash leaves of them: a page
whose record is lost is a page of zeros again, and the file may come back shorter, down to the
last page that is restored. `Begin`
and `ScanBlock` are `Tape::resume`, `LockCurrent` .. `AddAndCommit` are `Tape::write` with its
extension (`Extend`, `LockNew`, `Register`) under the lock of the full page. `Read`, `EvictNext`
and `Evict` are a builder that reads a node, misses, and must write another list
back, perhaps on the same page; `DropNode` is where the first page's share lock ends. `Abort` may come wherever an error
can be raised; VACUUM walks the blocks with `CheckPage` and `CleanPage`. A lock scope in
which nothing else is taken is one action.

**Lru, LabelSets, Quantizer, IndexMeta, SbqStorage.** The first four are operators without
state: the LRU map of `util/lru.rs`; label arrays; training and codes of the
quantizer; metadata from `CREATE INDEX` to its three layouts on disk. Numbers of the
quantizer are integers in units of `1/Scale`, chosen so that all divisions of the instance come
out even; the z-score comparison of several bits is done on squares. `SbqStorage`
follows one session at a time through the interface the graph uses: `CreateNode`,
`BeginSearch`, `StartNode`, `Visit` and `VisitNeighbor`, `Measure`, `Neighbors` and
`NeighborDistance`, `TrySetNeighbors`, with every read of a page a step of its own and steps of
other sessions between them (`OthersInsert`, `OthersRelink`, `Vacuum`). A legacy
index starts with the page and nodes an older version has left. `NewNode` is
`SbqNode::with_meta`, which takes the kind of node from the metadata (`Layout`) and not from
the row: a row without labels in an index with labels still gets a labeled node, as `SbqNode::read`
expects. `LegacyNode` is always a classic node. `Usable` asks that metadata and statistics load and that
every node is of the kind it is read as; `GivenUp` names what today's version refuses to open: product
quantization, and the storage byte 1 of the second format, for which `from_u8` panics. A query
has the dimensions of the column (`ensure_datum_dimension`).

## 3. Runs

| Run | Asks | Instance and why it is enough |
|---|---|---|
| adjacency | no lost updates, proper arrays, atomicity, calls end | 2 backends, 2 calls each, in insertion and eviction mode, lists of at most 2, added lists that contain the node itself and together exceed the array, tombstones in between: a call can lose the race twice |
| metapage | one version, roots grow, committed rows have roots, atomicity, no deadlock of page lock and buffer locks | 2 backends, 2 nodes with a row of one label each, 2 labels, of which the root of one takes a third page; blocks 0 to 4. The first version with roots replaces the one page of an empty index by 2 or 3 pages; a row with the other label then replaces 2 or 3 pages by 3 others while a backend that read the root page may still have the old rest of the chain before it. Errors and crashes between the pages |
| tape | no failure on pages of zeros, pointers keep their items, VACUUM sees every node, no circle of waits | 2 backends, 2 items, 3 blocks of one item each, one crash: every write after the first extends, and an extension may be cut off at each step |
| sbq | exact training, indexes open unless their kind was given up, codes of dimensions without spread, true distances, sound cache, exact filters | 3 rows in 2 dimensions (one without spread), 1 and 3 bits, tables of 0, 2 and 3 rows, refused options, indexes of both older formats with each storage byte there was; queries with several keys, an empty array of keys, no vector, and no keys; 2 sessions of 3 calls, a cache of fewer codes than nodes, one step of others |
| insert_labels | reachability from the default and from label roots | 3 backends, 3 rows with label sets that overlap pairwise or not at all, no overflow; SBQ reading |
| insert_pruned | no dangling pointers, termination | 3 rows, 2 backends, lists of one neighbor so that every merge prunes; plain reading |
| build | statistics before nodes, seeds on disk before the gate opens, all rows reachable and counted once, nothing held past its use, no lost wake-up, every build ends | every table of 0 to 3 rows, growing if concurrent; 2 workers, 1 or none, planned, forced or refused; 1 to 3 seeds, caches of 2 lists: evictions in the middle of a search, an interval flush, a gate opened by count and one opened by the end of a worker that found fewer rows than seeds |
| pruning | the contract of `prune_neighbors`; nothing is dropped for no reason | 3 candidates, 2 places, 2 alphas, one label; distances 0, below epsilon, and two whose ratio is the second alpha: every decision goes both ways |
| scan_safety | right rows, once, all of them, also after a restart | 3 rows, 2 slots (so that slots are reused), two pages, resort buffer of 2, copied heap pointers, several passes of VACUUM |
| scan_ends | scans and passes end, and return all rows asked for by label | 3 rows, 1 slot, no resort; rows with no, one and two labels, filters by one and by both, NULL to order by, restarts: the way from the default root to a row may lead through rows without its label |
| scan_pin, vacuum_count | two statements the code does not keep | see section 6 |

Bounds: `MaxCalls` (calls of a backend in Adjacency), `MaxBlock` (length of the
relation in MetaPage; a publication that finds no block waits and may be
cancelled, and `InsertionsPass` exempts that case; likewise in Tape), `Lengths` (lengths the index
can have in Scan), `MaxCrashes` in Tape, `MaxSessions`, `MaxCalls`, `MaxOthers` in SbqStorage. The number of insertions is bounded by `Node` in the other modules;
each node is written once. Elsewhere a crash may come any number of times.
`MCSbqStorage` also has two assumptions that TLC evaluates: `WalksAreSetOperations` compares the
walks over sorted label arrays with sets for all arrays of up to three labels, and
`AcceptedIsUsable` goes through all combinations of options at the limits of the
dimensions; both are theorems of SbqProofs for all arrays and all options. Deadlock is not checked: in every module there are states in which nothing is left to do.

The reachability properties are stated for instances in which no list overflows (Scan takes them as the guard of `Commit`):
pruning may legitimately cut a node off, and the repository's own
exact-cardinality tests use a no-pruning budget for the same reason
(`CONCURRENCY.md`). `RowsReachableByLabel` also needs a search list as large as the
set of nodes: a search that ends early need not visit the node through which a label's
rows are connected.

## 4. Fairness

Fairness is weak, per backend or worker, over the steps that the backend takes by itself:
PostgreSQL schedules every process. Nothing makes a backend begin, commit, or be
cancelled. `InsertionsPass` holds if from some time on no insertion begins: a
stream of readers may keep the root's exclusive lock away from a publisher
in the model, and no document promises more. `CallsTerminate` is for boundedly many
calls, as `CONCURRENCY.md` disclaims progress under unlimited contention. In
Scan the executor calls `amgettuple` until the scan ends, and restarts it finitely often (an
outer side has finitely many rows; with restarts for good a scan would never end); an abandoned cursor keeps its
pin and blocks VACUUM, as in PostgreSQL's own access methods. In Build the leader and each
launched worker are fair; the wake-up comes from the broadcast only. Tape and SbqStorage
have safety properties only.

## 5. Proofs

TLAPS checks the following for every value of the constants that the modules'
assumptions admit (any number of nodes, labels, backends, pages, any `Rank`).

- **AdjacencyProofs**: `TypeCorrect`, `ListsWellFormed`, `ListsFit`, `NoLostUpdates`,
  `NearestKept`, `AtomicMergeRefinement`, `MergesAsSets`. The inductive invariant
  adds to the type invariant that every stored array reads as a proper list, that
  a snapshot in use is such a list, and that the list a backend is about to write is a
  merge result of its snapshot and additions. Compare-and-replace then makes the
  step one merge with the current list. `MergesAsSets` links the list-level merge to the set-level
  merge `Insert` and `ParallelBuild` use.
- **MetaPageProofs**: `TypeCorrect` (proved only, no run checks it), `ChainsWhole`, `FetchesSeeOneVersion`,
  `CommittedRowsHaveRoots`, `RootsStayOnTape`, `PublishedRootsStay`,
  `EntryPointsRefinement`. The invariant: both images (current and durable)
  have a whole chain and roots on the tape; the durable roots are extended by the
  current ones; no page at or behind `nblocks` is written; lock exclusion; per backend, what was
  fetched so far is a prefix of the current chain, the metadata it works with is an
  older version, the current one under the lock, and the path it
  writes is unlinked, fresh and a correct partial chain. A crash is the reason for
  stating it of both images.
- **InsertProofs**: `TypeCorrect`, `NoDanglingPointers` (with pruning). The
  invariant adds every pointer a backend holds (found, visited, copied, to be
  linked, roots fetched) to those that must be on the tape. Then
  `CommittedRowsReachable` (no overflow) and
  `CommittedRowsReachableByLabel` (also no early end). A node is *joined* for a
  key if it is the root for that key or a neighbor of it. The invariant: a search
  has found the roots it started from (and visits the default root first); a root that does
  not lead to the new node yet is among the links still to be made; what the
  label pass has joined, the default pass keeps; committed rows are joined in both
  images. Without overflow roots and edges only grow, so joined stays joined.
- **PruningProofs**: `TypeCorrect`, `ContractHolds`, `DropsJustified`, for any
  candidates, distances, labels and alphas. The invariant: the first of the order is taken first; a
  candidate passed over is kept or exceeds the alpha of the round, and after the
  first round the first alpha; in the first round what is kept lies before the
  current place; nodes count only against candidates behind them whose wanted
  labels they have.
- **ScanProofs**: `TypeCorrect`, `EntriesStayTrue`, `ScansSeeOwnRows`,
  `ScansComplete`, for any rows, labels, filters, slots, blocks, scans, restarts, both storages
  and any resort buffer. The invariant: during a pass the nodes that still name a slot about to be
  freed lie in the blocks yet to come, and such a slot keeps a dead row that no snapshot
  has (`PassOK`); what a scan finds at a heap pointer it holds is the node's row, or
  none it sees (`Faithful`); a node is in one list or stage of a search (`ListsApart`);
  a set that has the nodes to be visited, and with a node all that a
  visit would find, has every row of the snapshot with a label searched by and not found so far
  (`Enclosed`): it replaces a path from the frontier to the row, and holds at
  the start of every search because rows that were live stay reachable from the root of each of
  their labels: roots and edges only grow (`RootsOK`, `SnapshotOK`, `StillJoined`). At the end nothing is to be visited,
  so the empty set encloses, and every row has been found and returned (`FoundKept`).
  That committed rows are reachable is the guard of `Commit` here and the theorems of
  InsertProofs there (the labels' under the conditions stated there).
- **TapeProofs**: `TypeCorrect`, `ReadersNeverFail`, `PointersStay`, `WalksComplete`,
  `NoDeadlock`, for any backends, items, capacity of a page, blocks and crashes. The
  invariant: the log, replayed to its end, gives the pages there are, and an
  unlogged page is zeros (`DiskOK`), so that a record is the only way to change what a crash
  leaves; a private image is the page under the lock that protects it, a page that was
  chosen or given out is initialised, and the page that is being added is known only to the holder
  of the extension lock (`CallOK`); what a walk has yet to examine lies ahead of it
  (`WalkOK`). There is no circle of waits because the holder of the extension lock waits
  for nobody, the holder of a full page only for the extension lock, and a reader
  has released its page before its cache evicts.
- **BuildProofs**: `TypeCorrect`, `HeldByBuildsWithWorkers`, `StatisticsBeforeNodes`,
  `EveryRowCountedOnce` (finite table), `BuildsReachEveryRow` and `SeedsBeforeWorkers`
  (`Roomy`). The invariant (`IInv`): what the leader holds follows from its stage (`LeadOK`);
  the rows not scanned and those on the tape make up the scan (`RowsOK`); only the workers
  launched, or only the leader, have begun (`ModeOK`); at most one worker initializes
  (`OneInit`), and no other is past its start before the gate opens (`ProcOK`).
  Counting: rows are assigned to the processes that took them, and the shared
  counter with the counts not yet added is the number of rows assigned (`CountOK`).
  Reachability: every search visits the root, so every node becomes a neighbor of the
  root; a row on the tape is the root, its neighbor on the page, or still carried
  by a process that will make it one (in its search, its links, its cache, or evicted and
  not yet merged; `Joined`). The gate opens once as many seeds, or all
  rows there are, are neighbors on the page (`SeedsOnPages`). `Roomy` says that
  pruning runs on overflow only, the table is finite, and a list has
  room for all other rows; the instance of the run *build* satisfies it. With
  overflow, pruning may drop any edge that the contract of `Neighbors` allows, so
  that the two statements are about builds without it.
- **SbqProofs**: `TrainingIsExact`, `IndexesOpen`, `FlatDimensionsAreCoded`, `DistancesAreTrue`,
  `CacheIsSound`, `FilterIsExact`, for any table, dimensions, bits, labels, queries, options, cache, sessions
  and indexes of older versions. What a session knows is stated of the rows, which no
  step changes: a cache entry is the code of its key's row (`CacheInv`), a candidate
  is a node seen that starts the search or whose row passes the filter, with the distance of its
  row's code (`SearchInv`), an answer is one for the node asked about (`CallInv`); and a node
  on a page has the code and labels of its row by the quantizer that any session loads,
  and leads to nodes only (`Stored`, in `NodesInv`). Then steps of others only add nodes, and
  whatever was cached or read before stays right. Before there are nodes, the invariant says
  what training has computed so far (`Trained`, in `PhaseInv`), and that what is about to be
  published can be loaded. Afterwards `Opens` keeps that exactly the metadata which is not given up loads,
  so that `IndexesOpen` is an equivalence, and `StatsInv` that the statistics on the page are those
  of the rows of `CREATE INDEX`: where these do not differ, the mean is their value and the
  squared distance is zero (`FlatStatistics`), and every code on a page or of a query then has all or none of the
  dimension's ones by the row's own value (`FlatLevel`), which is `FlatDimensionsAreCoded`.
  What these statements rest on is proved of the algorithms:
  `OverlapsCorrect` and `ContainsIntersectionCorrect` (the walks over sorted arrays compare
  sets), `CodesMeasureLevels` (the exclusive or of two codes counts the ranges between the
  vectors in every dimension), `AcceptedIsUsable` (any options), Welford's update (`SampleAdded`: mean and squared distances
  move to those of one sample more, and the quotient is exact by `ScaleExact`), `LruPushHolds` and
  `LruGetOrInsertHolds` (order of use, evictions and counters). Sums, walks and sizes are
  recursive functions: what is proved of them goes by induction over numbers or
  finite sets, with the predicate given as the set of those for which it holds
  (`NaturalInduction`, `SubsetInduction`, `SetInduction`).

Assumptions: those named in the modules (`NoCallAssumption`, `KeyAssumption`, ...),
which state that the special values are no nodes, types of constants, and
in the reachability theorems `NoPruning` (`Roomy` for builds) as a hypothesis of the theorem. For
`SbqStorage` they are: `ScaleAssumption` (the unit is fine enough for exact means, as long as
there are no more rows than nodes), `FreshAssumption` (rows have the column's dimensions,
options are integers: what PostgreSQL's types and the parser of options leave),
`LegacyAssumption` (an older version wrote valid dimensions, one of three storage bytes, and, for
codes, statistics for each dimension), and `QueriesAssumption`. For `Pruning`, `AlphasAssumption` (every alpha is at
least 1); for `MetaPage`, `RowLabelsAssumption` (what a row comes with is a set of labels). TLC evaluates the named assumptions in the runs.

Model-checked only: liveness (`CallsTerminate`, `InsertionsPass`, `InsertionsFinish`, `ScansAndPassesEnd`,
`BuildEnds`), which is beyond TLAPS.

## 6. Where code and statements differ

- **scan_pin**: `get_tuple` pins the page of the item after the heap pointer was read
  (and, with a resort buffer, long after). The comment at `scan.rs:418` says that a pin is
  held for the item last returned; VACUUM can tombstone the item in between. It does
  no harm to MVCC scans: `NoForeignOrRepeatedRows` holds without it, because a
  slot that is reused holds a row the snapshot does not see.
- **vacuum_count**: a VACUUM that makes several index passes hands the result of one pass
  to the next, and `ambulkdelete` adds to `num_index_tuples` without resetting it,
  so kept tuples are counted once per pass. The repository's test
  asserts the number after one pass.

## 7. Not modelled

Floating-point distances and their SIMD versions, cosine normalisation, datum conversion
(numeric; an order of distances, or exact fractions, stand for them). Byte layouts, except
where a property depends on them (the end mark of the neighbor array, the kind of a node).
The codes of neighbors inside old classic nodes (no code of today reads them). Cost estimates,
statistics, logging, GUC definitions, SQL glue and upgrade scripts (no protocol state). Labels in a build
and errors of workers.

## 8. Plan

Order of work: (1) Adjacency, (2) MetaPage, (3) Insert, (4) Scan with VACUUM,
(5) ParallelBuild and Build, (6) Pruning, (7) Tape, (8) SbqStorage with its algorithms,
done as above, with proofs of all safety properties. Next: labels in a build.
