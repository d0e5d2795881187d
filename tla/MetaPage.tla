-------------------------------- MODULE MetaPage --------------------------------
(***************************************************************************)
(* The metadata of an index and the search roots in it: MetaPage::fetch    *)
(* and MetaPage::store over the chain of pages util/chain.rs writes, and   *)
(* Graph::update_start_nodes, the one step of an insertion that changes    *)
(* them.                                                                   *)
(*                                                                         *)
(* Only start_nodes changes after a build; the other metadata is left out. *)
(* A version of it is written as one or more chunks: the first on block 0, *)
(* the root page, each next one on a page allocated for it.  A page holds  *)
(* its chunk or, as long as no record wrote it, nothing (NewPage).         *)
(*                                                                         *)
(* Locks are read off the stages: a backend in "load" holds the root's     *)
(* buffer lock in share mode, one in "prepare" in exclusive mode; `locked' *)
(* is the heavyweight MetaPageLock.                                        *)
(***************************************************************************)
EXTENDS StartNodes, Naturals, Sequences

CONSTANTS
  Backend,
  RowLabels, \* the sets of labels rows come with
  Chunks,    \* Chunks[v]: on how many pages version v is written
  NewPage,
  NoBlock,   \* InvalidBlockNumber
  Corrupt,   \* what mixed or missing chunks deserialize to
  NoView,
  MaxBlock   \* bound: the relation grows up to this block

META_BLOCK_NUMBER == 0
Block == 0..MaxBlock
Chunk == [of : Roots, part : Nat, next : Block \cup {NoBlock}]
Page == Chunk \cup {NewPage}

ASSUME RowLabelsAssumption == RowLabels \subseteq SUBSET Label
ASSUME ChunksAssumption == Chunks \in [Roots -> Nat \ {0}] /\ Chunks[NoRoots] = 1
ASSUME BlockAssumption == MaxBlock \in Nat /\ NoBlock \notin Block
ASSUME NewPageAssumption == NewPage \notin Chunk
ASSUME ViewAssumption == Corrupt \notin Roots /\ NoView \notin Roots \cup {Corrupt}

VARIABLES
  disk,     \* pages: block -> page, tape: nodes written; as committed records left them
  nblocks,  \* the length of the relation
  durable,  \* disk as of the last log record known to be flushed
  rows,     \* node and labels of every committed insertion
  op        \* the insertion each backend executes

vars == << disk, nblocks, durable, rows, op >>

Stages == {"idle", "fetch", "load", "have", "prepare", "done"}

Locals == [stage : Stages, locked : BOOLEAN, node : Node \cup {NoNode},
           labels : SUBSET Label, meta : Roots \cup {NoView, Corrupt},
           got : Seq(Page), at : Block \cup {NoBlock}, path : Seq(Block)]

Idle == [stage |-> "idle", locked |-> FALSE, node |-> NoNode, labels |-> {},
         meta |-> NoView, got |-> << >>, at |-> NoBlock, path |-> << >>]

--------------------------------------------------------------------------------
(***************************************************************************)
(* Versions                                                                *)
(***************************************************************************)

\* rkyv::from_bytes over what the pages of a chain hold.
IsVersion(got, v) ==
  /\ Len(got) = Chunks[v]
  /\ \A i \in 1..Len(got) : got[i] # NewPage /\ got[i].of = v /\ got[i].part = i

Deserialize(got) ==
  IF \E v \in Roots : IsVersion(got, v)
    THEN CHOOSE v \in Roots : IsVersion(got, v)
    ELSE Corrupt

--------------------------------------------------------------------------------
\* The metadata of an index that was built over an empty table.
Init ==
  /\ disk = [pages |-> [k \in Block |->
                          IF k = META_BLOCK_NUMBER
                            THEN [of |-> NoRoots, part |-> 1, next |-> NoBlock]
                            ELSE NewPage],
             tape |-> {}]
  /\ nblocks = 1
  /\ durable = disk
  /\ rows = {}
  /\ op = [b \in Backend |-> Idle]

--------------------------------------------------------------------------------
(***************************************************************************)
(* MetaPage::fetch: the root page is share-locked to the end of the chain  *)
(***************************************************************************)
Begin(b, labels) ==
  /\ op[b].stage = "idle"
  /\ op' = [op EXCEPT ![b] = [Idle EXCEPT !.stage = "fetch", !.labels = labels]]
  /\ UNCHANGED << disk, nblocks, durable, rows >>

NextBlock(page) == IF page = NewPage THEN NoBlock ELSE page.next

FetchRoot(b) ==
  /\ op[b].stage = "fetch"
  /\ \A c \in Backend : op[c].stage # "prepare"
  /\ LET root == disk.pages[META_BLOCK_NUMBER]
     IN  op' = [op EXCEPT ![b].stage = "load", ![b].got = << root >>,
                          ![b].at = NextBlock(root)]
  /\ UNCHANGED << disk, nblocks, durable, rows >>

FetchSuffix(b) ==
  /\ op[b].stage = "load"
  /\ op[b].at # NoBlock
  /\ LET page == disk.pages[op[b].at]
     IN  op' = [op EXCEPT ![b].got = Append(@, page), ![b].at = NextBlock(page)]
  /\ UNCHANGED << disk, nblocks, durable, rows >>

FetchEnd(b) ==
  /\ op[b].stage = "load"
  /\ op[b].at = NoBlock
  /\ op' = [op EXCEPT ![b].stage = "have", ![b].meta = Deserialize(op[b].got),
                      ![b].got = << >>]
  /\ UNCHANGED << disk, nblocks, durable, rows >>

--------------------------------------------------------------------------------
(***************************************************************************)
(* update_start_nodes                                                      *)
(***************************************************************************)

\* The node's page is not logged before the root that names it.
WriteNodeUnlogged(b, n) ==
  /\ op[b].stage = "have" /\ op[b].node = NoNode
  /\ n \notin disk.tape
  /\ op' = [op EXCEPT ![b].node = n]
  /\ UNCHANGED << disk, nblocks, durable, rows >>

\* create_node, before it: the new node is on the tape.
WriteNode(b, n) ==
  /\ op[b].stage = "have" /\ op[b].node = NoNode
  /\ n \notin disk.tape
  /\ disk' = [disk EXCEPT !.tape = @ \cup {n}]
  /\ op' = [op EXCEPT ![b].node = n]
  /\ UNCHANGED << nblocks, durable, rows >>

\* The early return, without the lock or after the recheck under it.
Covered(b) ==
  /\ op[b].stage = "have" /\ op[b].node # NoNode
  /\ Covers(op[b].meta, op[b].labels)
  /\ op' = [op EXCEPT ![b].stage = "done", ![b].locked = FALSE]
  /\ UNCHANGED << disk, nblocks, durable, rows >>

\* The lock is taken and the backend goes on with the metadata it has.
LockPageOnly(b) ==
  /\ op[b].stage = "have" /\ op[b].node # NoNode /\ ~op[b].locked
  /\ ~Covers(op[b].meta, op[b].labels)
  /\ \A c \in Backend : ~op[c].locked
  /\ op' = [op EXCEPT ![b].locked = TRUE]
  /\ UNCHANGED << disk, nblocks, durable, rows >>

\* MetaPageLock::new; the metadata is fetched again under the lock.
LockPage(b) ==
  /\ op[b].stage = "have" /\ op[b].node # NoNode /\ ~op[b].locked
  /\ ~Covers(op[b].meta, op[b].labels)
  /\ \A c \in Backend : ~op[c].locked
  /\ op' = [op EXCEPT ![b].locked = TRUE, ![b].stage = "fetch"]
  /\ UNCHANGED << disk, nblocks, durable, rows >>

NewVersion(b) == Published(op[b].meta, op[b].node, op[b].labels)

\* The suffix is written over the first page of the one it replaces.
PrepareRootInPlace(b) ==
  LET old == NextBlock(disk.pages[META_BLOCK_NUMBER])
  IN  /\ op[b].stage = "have" /\ op[b].locked
      /\ ~Covers(op[b].meta, op[b].labels)
      /\ \A c \in Backend : op[c].stage \notin {"load", "prepare"}
      /\ nblocks <= MaxBlock
      /\ nblocks' = nblocks + 1
      /\ \/ /\ old = NoBlock
            /\ op' = [op EXCEPT ![b].stage = "prepare",
                                ![b].path = << META_BLOCK_NUMBER, nblocks >>]
            /\ UNCHANGED disk
         \/ /\ old # NoBlock
            /\ disk' = [disk EXCEPT !.pages[old] =
                          [of |-> NewVersion(b), part |-> 2, next |-> nblocks]]
            /\ op' = [op EXCEPT ![b].stage = "prepare",
                                ![b].path = << META_BLOCK_NUMBER, old, nblocks >>]
      /\ UNCHANGED << durable, rows >>

\* prepare_root: the root is locked exclusively; what does not fit on it gets
\* a page of its own.
PrepareRoot(b) ==
  /\ op[b].stage = "have" /\ op[b].locked
  /\ ~Covers(op[b].meta, op[b].labels)
  /\ \A c \in Backend : op[c].stage \notin {"load", "prepare"}
  /\ \/ /\ Chunks[NewVersion(b)] = 1
        /\ op' = [op EXCEPT ![b].stage = "prepare", ![b].path = << META_BLOCK_NUMBER >>]
        /\ UNCHANGED nblocks
     \/ /\ Chunks[NewVersion(b)] > 1
        /\ nblocks <= MaxBlock
        /\ nblocks' = nblocks + 1
        /\ op' = [op EXCEPT ![b].stage = "prepare",
                            ![b].path = << META_BLOCK_NUMBER, nblocks >>]
  /\ UNCHANGED << disk, durable, rows >>

\* ChainTapeWriter::write: a chunk that is not the last links to a page that
\* is allocated but not written yet.
WriteChunk(b) ==
  LET path == op[b].path
      i == Len(path)
  IN  /\ op[b].stage = "prepare"
      /\ i > 1 /\ disk.pages[path[i]] = NewPage
      /\ \/ /\ i = Chunks[NewVersion(b)]
            /\ disk' = [disk EXCEPT !.pages[path[i]] =
                          [of |-> NewVersion(b), part |-> i, next |-> NoBlock]]
            /\ UNCHANGED << nblocks, op >>
         \/ /\ i < Chunks[NewVersion(b)]
            /\ nblocks <= MaxBlock
            /\ disk' = [disk EXCEPT !.pages[path[i]] =
                          [of |-> NewVersion(b), part |-> i, next |-> nblocks]]
            /\ op' = [op EXCEPT ![b].path = Append(@, nblocks)]
            /\ nblocks' = nblocks + 1
      /\ UNCHANGED << durable, rows >>

\* The root is replaced and the page lock kept.
ReplaceRootKeepsLock(b) ==
  LET path == op[b].path
  IN  /\ disk' = [disk EXCEPT !.pages[META_BLOCK_NUMBER] =
                    [of |-> NewVersion(b), part |-> 1,
                     next |-> IF Len(path) = 1 THEN NoBlock ELSE path[2]]]
      /\ op' = [op EXCEPT ![b].stage = "done", ![b].meta = NewVersion(b),
                          ![b].path = << >>]
      /\ UNCHANGED << nblocks, durable, rows >>

\* The record that replaces the root, then the end of both locks.
ReplaceRoot(b) ==
  LET path == op[b].path
  IN  /\ disk' = [disk EXCEPT !.pages[META_BLOCK_NUMBER] =
                    [of |-> NewVersion(b), part |-> 1,
                     next |-> IF Len(path) = 1 THEN NoBlock ELSE path[2]]]
      /\ op' = [op EXCEPT ![b].stage = "done", ![b].locked = FALSE,
                          ![b].meta = NewVersion(b), ![b].path = << >>]
      /\ UNCHANGED << nblocks, durable, rows >>

\* The root is replaced while its suffix is still being written.
CommitRootEarly(b) == op[b].stage = "prepare" /\ ReplaceRoot(b)

\* The suffix is complete.
CommitRoot(b) ==
  /\ op[b].stage = "prepare"
  /\ Len(op[b].path) = Chunks[NewVersion(b)]
  /\ Len(op[b].path) > 1 => disk.pages[op[b].path[Len(op[b].path)]] # NewPage
  /\ ReplaceRoot(b)

--------------------------------------------------------------------------------
(***************************************************************************)
(* Transactions, errors and crashes                                        *)
(***************************************************************************)

\* The inserting transaction commits and flushes the log up to its record;
\* module Insert has what an insertion does in between.
Commit(b) ==
  /\ op[b].stage = "done"
  /\ rows' = rows \cup {[node |-> op[b].node, labels |-> op[b].labels]}
  /\ durable' = disk
  /\ op' = [op EXCEPT ![b] = Idle]
  /\ UNCHANGED << disk, nblocks >>

\* An error or a cancellation: locks go, a prepared root is dropped, what was
\* logged stays.
Abort(b) ==
  /\ op[b].stage # "idle"
  /\ op' = [op EXCEPT ![b] = Idle]
  /\ UNCHANGED << disk, nblocks, durable, rows >>

Flush ==
  /\ durable # disk
  /\ durable' = disk
  /\ UNCHANGED << disk, nblocks, rows, op >>

\* Recovery replays the flushed part of the log.
Crash ==
  /\ disk' = durable
  /\ op' = [b \in Backend |-> Idle]
  /\ UNCHANGED << nblocks, durable, rows >>

Next ==
  \/ \E b \in Backend :
       \/ \E labels \in RowLabels : Begin(b, labels)
       \/ FetchRoot(b) \/ FetchSuffix(b) \/ FetchEnd(b)
       \/ \E n \in Node : WriteNode(b, n)
       \/ Covered(b) \/ LockPage(b)
       \/ PrepareRoot(b) \/ WriteChunk(b) \/ CommitRoot(b)
       \/ Commit(b) \/ Abort(b)
  \/ Flush
  \/ Crash

Spec == Init /\ [][Next]_vars

\* Every backend keeps running, and a backend that waits for a lock gets it
\* when nobody contends for it any more.
FairSpec ==
  /\ Spec
  /\ \A b \in Backend :
       WF_vars(\/ FetchRoot(b) \/ FetchSuffix(b) \/ FetchEnd(b)
               \/ Covered(b) \/ LockPage(b)
               \/ PrepareRoot(b) \/ WriteChunk(b) \/ CommitRoot(b))

--------------------------------------------------------------------------------
(***************************************************************************)
(* Properties                                                              *)
(***************************************************************************)

Images == [pages : [Block -> Page], tape : SUBSET Node]

TypeOK ==
  /\ disk \in Images
  /\ durable \in Images
  /\ nblocks \in 1..(MaxBlock + 1)
  /\ rows \subseteq [node : Node, labels : SUBSET Label]
  /\ op \in [Backend -> Locals]

CurrentRoots(image) == image.pages[META_BLOCK_NUMBER].of

\* The blocks on which an image holds all of version v.
ChainsOf(image, v) ==
  {path \in [1..Chunks[v] -> Block] :
     /\ path[1] = META_BLOCK_NUMBER
     /\ \A i \in 1..Chunks[v] :
          image.pages[path[i]] = [of |-> v, part |-> i,
                                  next |-> IF i < Chunks[v] THEN path[i + 1] ELSE NoBlock]}

\* The chain that starts at the root page holds one version of the metadata
\* and all of it: at any time, for readers and for a recovery that replays any
\* flushed part of the log, whatever publications were aborted or cut off
\* between their records (prepare_root, write, commit).
ChainWhole ==
  \A image \in {disk, durable} : ChainsOf(image, CurrentRoots(image)) # {}

\* MetaPage::fetch never mixes the chunks of two versions and never meets a
\* page that is allocated and not yet written, while other backends publish.
FetchSeesOneVersion == \A b \in Backend : op[b].meta # Corrupt

\* A root, once published, is never replaced or lost by another publication
\* (the comment in update_start_nodes: entrypoints only grow); a crash may take
\* back to the durable version.
RootsOnlyGrow ==
  [][\/ \A k \in Key : CurrentRoots(disk)[k] # NoNode =>
                         CurrentRoots(disk)'[k] = CurrentRoots(disk)[k]
     \/ disk' = durable]_vars

\* An insertion past update_start_nodes finds a root for each of its labels and
\* the default one, and a committed row still has them, and its node, after a
\* crash, also if another backend published them and has not committed.
RowsHaveRoots ==
  /\ \A b \in Backend :
       op[b].stage = "done" => Covers(CurrentRoots(disk), op[b].labels)
  /\ \A row \in rows : /\ row.node \in durable.tape
                        /\ Covers(CurrentRoots(durable), row.labels)

\* No root names a node that is not on the tape, neither now nor after a crash
\* that loses the unflushed end of the log (create_node comes before
\* update_start_nodes).
RootsOnTape ==
  \A image \in {disk, durable} : \A k \in Key :
     CurrentRoots(image)[k] \in image.tape \cup {NoNode}

\* An insertion that has written its node gets past update_start_nodes, or
\* fails, if from some time on no further insertion begins: no cycle of the
\* heavyweight lock, the root's share locks and its exclusive lock.
NoNewInsertions ==
  <>[][\A b \in Backend : op[b].stage = "idle" => op'[b].stage = "idle"]_vars

OutOfBlocks == nblocks > MaxBlock

InsertionsPass ==
  NoNewInsertions =>
    \A b \in Backend :
      (op[b].stage # "idle" /\ op[b].node # NoNode)
        ~> (op[b].stage \in {"done", "idle"} \/ OutOfBlocks)

(***************************************************************************)
(* A fetch takes effect when it reads the root, a publication when the     *)
(* root's record is logged.                                                *)
(***************************************************************************)
EP == INSTANCE EntryPoints WITH
        roots <- CurrentRoots(disk),
        durable <- CurrentRoots(durable),
        view <- [b \in Backend |->
                   IF op[b].stage = "load" THEN op[b].got[1].of ELSE op[b].meta]

\* Fetch and update_start_nodes are atomic on one grow-only map: each version
\* is made from the one before it, whatever chain of pages holds it.
ImplementsEntryPoints == EP!Spec
================================================================================
