---------------------------------- MODULE Tape ----------------------------------
(***************************************************************************)
(* Pages and the tape of nodes written on them: util/tape.rs over          *)
(* util/page.rs and util/buffer.rs.                                        *)
(*                                                                         *)
(* A writer finds the newest page of its type by reading the index from    *)
(* its end, adds its node to it under the page's exclusive lock and, when  *)
(* the page is full, extends the index while it keeps that lock.  The new  *)
(* page gets its content by one Generic WAL record only when the writer    *)
(* commits it: an error or a crash before leaves a page of zeros, which    *)
(* every later reader of the index meets.  A builder reads nodes of pages  *)
(* it writes evicted lists to, and VACUUM walks all pages.                 *)
(*                                                                         *)
(* Blocks are counted from 1 here; block 1 is the metadata page.  A scope  *)
(* of a page lock in which nothing else is taken is one action.            *)
(***************************************************************************)
EXTENDS Naturals, Sequences, FiniteSets

CONSTANTS
  Backend,     \* processes that write nodes
  NoBackend,
  NoItem,
  Item,        \* nodes and chunks of metadata, written at most once each
  Capacity,    \* items that fit on a page
  MaxBlock,    \* bound: blocks of the index
  MaxCrashes   \* bound: crashes

ASSUME PageAssumption ==
  /\ NoBackend \notin Backend
  /\ NoItem \notin Item
  /\ Capacity \in Nat \ {0}
  /\ MaxBlock \in Nat \ {0}
  /\ MaxCrashes \in Nat

VARIABLES
  pages,      \* the pages in shared buffers, in block order
  durable,    \* the pages as the log on disk restores them (Zeros: not logged)
  log,        \* Generic WAL records after it: a block and its new page
  exclusive,  \* backend that holds each page's exclusive lock
  shared,     \* block each backend keeps share-locked (0: none)
  extension,  \* holder of the relation extension lock
  op,         \* the call each backend executes
  vac,        \* the walk of VACUUM
  written,    \* what was last stored for each item, and where
  committed,  \* items of committed transactions
  crashes

disk == << pages, durable, log >>
locks == << exclusive, shared, extension >>
outcome == << written, committed, crashes >>
vars == << disk, locks, op, vac, outcome >>

--------------------------------------------------------------------------------
(***************************************************************************)
(* Pages                                                                   *)
(***************************************************************************)
\* The page types a Tape and a ChainTapeWriter write; chained ones are not
\* written by a Tape.
PageType == {"Node", "Meta"}
Chained(t) == t = "Meta"

Block == 1 .. MaxBlock
\* New is the page of zeros that extending the relation leaves.
Page == [type : PageType \cup {"New"},
         items : UNION {[1 .. n -> [item : Item, rev : BOOLEAN]] : n \in 0 .. Capacity}]
Zeros == [type |-> "New", items |-> << >>]

\* WritablePage::reinit: an empty page of one type.
Reinit(t) == [type |-> t, items |-> << >>]

IsNew(page) == page.type = "New"

\* The check of the special pointer and of the page id.  Zeros fail it, and
\* the transaction with it.
Verify(page) == page.type # "New"

HasRoom(page) == Len(page.items) < Capacity

AddItem(page, i) == [page EXCEPT !.items = Append(@, [item |-> i, rev |-> FALSE])]

\* A pointer is a block and an offset.
NoPointer == [block |-> 0, offset |-> 0]
Pointer == [block : 0 .. MaxBlock, offset : 0 .. Capacity]

HoldsAt(image, p, i, rev) ==
  /\ p.block \in DOMAIN image
  /\ p.offset \in DOMAIN image[p.block].items
  /\ image[p.block].items[p.offset] = [item |-> i, rev |-> rev]

--------------------------------------------------------------------------------
(***************************************************************************)
(* What a crash leaves: the pages as the log restores them, up to a record *)
(* past what is durable.  The file may be shorter than it was, but not     *)
(* than the last block restored; a block that is not restored is zeros.    *)
(***************************************************************************)
Replay(k, block) ==
  LET records == {i \in 1 .. k : log[i].block = block}
  IN  IF records = {} THEN durable[block]
      ELSE log[CHOOSE i \in records : \A j \in records : j <= i].page

Image(k) == [block \in Block |-> Replay(k, block)]

Sizes(image) ==
  {n \in 1 .. Len(pages) : \A block \in Block : ~IsNew(image[block]) => block <= n}

--------------------------------------------------------------------------------
Stages == {"idle", "scan", "new", "lock", "init", "write", "add", "full",
           "lockNext", "written", "reading", "evict", "failed"}
\* image is the private copy of a locked page that commit writes back.
Ops == [pc : Stages, type : PageType, item : Item \cup {NoItem},
        block : 0 .. MaxBlock, current : 0 .. MaxBlock, image : Page]
Idle == [pc |-> "idle", type |-> "Node", item |-> NoItem, block |-> 0,
         current |-> 0, image |-> Zeros]

NoWalk == [pc |-> "idle", block |-> 1, nblocks |-> 0, due |-> {}]

\* create: the metadata page is the first block.
Init ==
  /\ pages = << Reinit("Meta") >>
  /\ durable = [block \in Block |-> IF block = 1 THEN Reinit("Meta") ELSE Zeros]
  /\ log = << >>
  /\ exclusive = [block \in Block |-> NoBackend]
  /\ shared = [b \in Backend |-> 0]
  /\ extension = NoBackend
  /\ op = [b \in Backend |-> Idle]
  /\ vac = NoWalk
  /\ written = [i \in Item |-> [at |-> NoPointer, rev |-> FALSE]]
  /\ committed = {}
  /\ crashes = 0

NotShared(block) == \A b \in Backend : shared[b] # block
MayShare(block) == exclusive[block] = NoBackend
MayLock(block) == MayShare(block) /\ NotShared(block)

Goto(b, pc) == op' = [op EXCEPT ![b].pc = pc]

\* commit: the record and the page change together; the lock goes.
CommitPage(b, block, page) ==
  /\ pages' = [pages EXCEPT ![block] = page]
  /\ log' = Append(log, [block |-> block, page |-> page])
  /\ exclusive' = [exclusive EXCEPT ![block] = NoBackend]

--------------------------------------------------------------------------------
(***************************************************************************)
(* Writing an item.  A Tape resumes on the newest page of its type; a      *)
(* chain of metadata starts on a page of its own.                          *)
(***************************************************************************)
Begin(b, i, t) ==
  /\ op[b].pc = "idle"
  /\ written[i].at = NoPointer
  /\ \A c \in Backend : op[c].item # i
  /\ op' = [op EXCEPT ![b] = [Idle EXCEPT !.pc = IF Chained(t) THEN "new" ELSE "scan",
                                          !.type = t, !.item = i, !.block = Len(pages)]]
  /\ UNCHANGED << disk, locks, vac, outcome >>

\* A scan that asks new pages for their type, too.
SkipsNone(page) == FALSE
Skips(page) == IsNew(page)

ScanBlock(b) ==
  /\ op[b].pc = "scan"
  /\ MayShare(op[b].block)
  /\ LET page == pages[op[b].block]
     IN  IF ~Skips(page) /\ ~Verify(page) THEN Goto(b, "failed")
         ELSE IF ~Skips(page) /\ page.type = op[b].type
         THEN op' = [op EXCEPT ![b].pc = "write", ![b].current = op[b].block]
         ELSE op' = [op EXCEPT ![b].pc = IF op[b].block = 1 THEN "new" ELSE "scan",
                              ![b].block = @ - 1]
  /\ UNCHANGED << disk, locks, vac, outcome >>

(***************************************************************************)
(* WritablePage::new, for the first page of a tape ("new") or because the  *)
(* current page, still locked, is full ("full").  The extension lock is    *)
(* kept until the new page is locked; others may see its zeros before.     *)
(***************************************************************************)
Extend(b) ==
  /\ op[b].pc \in {"new", "full"}
  /\ extension = NoBackend
  /\ Len(pages) < MaxBlock
  /\ extension' = b
  /\ pages' = Append(pages, Zeros)
  /\ op' = [op EXCEPT ![b].pc = IF @ = "new" THEN "lock" ELSE "lockNext",
                      ![b].block = Len(pages) + 1]
  /\ UNCHANGED << durable, log, exclusive, shared, vac, outcome >>

\* The page that was full is unlocked, unchanged, once the next is locked.
LockNew(b) ==
  /\ op[b].pc \in {"lock", "lockNext"}
  /\ MayLock(op[b].block)
  /\ exclusive' = [block \in Block |->
                     IF block = op[b].block THEN b
                     ELSE IF exclusive[block] = b THEN NoBackend ELSE exclusive[block]]
  /\ extension' = NoBackend
  /\ op' = [op EXCEPT ![b].pc = IF @ = "lock" THEN "init" ELSE "add",
                      ![b].current = op[b].block, ![b].image = Reinit(op[b].type)]
  /\ UNCHANGED << disk, shared, vac, outcome >>

\* Tape::new commits its page empty.
CommitEmpty(b) ==
  /\ op[b].pc = "init"
  /\ CommitPage(b, op[b].current, op[b].image)
  /\ op' = [op EXCEPT ![b].pc = "write", ![b].image = Zeros]
  /\ UNCHANGED << durable, shared, extension, vac, outcome >>

\* modify: another writer may have filled the page since it was chosen.
Register(b, page) ==
  op' = [op EXCEPT ![b].pc = IF HasRoom(page) THEN "add" ELSE "full", ![b].image = page]

\* The copy taken before the lock is.
LockCurrentLate(b) ==
  /\ op[b].pc = "write"
  /\ exclusive[op[b].current] = NoBackend
  /\ Register(b, pages[op[b].current])
  /\ UNCHANGED << disk, locks, vac, outcome >>

LockCurrent(b) ==
  /\ op[b].pc = "write"
  /\ MayLock(op[b].current)
  /\ IF Verify(pages[op[b].current])
     THEN /\ exclusive' = [exclusive EXCEPT ![op[b].current] = b]
          /\ Register(b, pages[op[b].current])
     ELSE Goto(b, "failed") /\ UNCHANGED exclusive
  /\ UNCHANGED << disk, shared, extension, vac, outcome >>

AddAndCommit(b) ==
  /\ op[b].pc = "add"
  /\ LET page == AddItem(op[b].image, op[b].item)
     IN  /\ CommitPage(b, op[b].current, page)
         /\ written' = [written EXCEPT ![op[b].item] =
              [at |-> [block |-> op[b].current, offset |-> Len(page.items)], rev |-> FALSE]]
  /\ op' = [op EXCEPT ![b] = [Idle EXCEPT !.pc = "written", !.item = op[b].item]]
  /\ UNCHANGED << durable, shared, extension, vac, committed, crashes >>

CommitTransaction(b) ==
  /\ op[b].pc = "written"
  /\ durable' = Image(Len(log))
  /\ log' = << >>
  /\ committed' = committed \cup {op[b].item}
  /\ op' = [op EXCEPT ![b] = Idle]
  /\ UNCHANGED << pages, locks, vac, written, crashes >>

--------------------------------------------------------------------------------
(***************************************************************************)
(* A builder reads a node.  Its cache may then have to evict the list of   *)
(* another one, maybe of the same page, and write it; rev says that the    *)
(* node was rewritten, which happens once to each (a bound).               *)
(***************************************************************************)
Read(b, i) ==
  LET block == written[i].at.block
  IN  /\ op[b].pc = "idle"
      /\ written[i].at # NoPointer
      /\ MayShare(block)
      /\ shared' = [shared EXCEPT ![b] = block]
      /\ Goto(b, IF Verify(pages[block]) THEN "reading" ELSE "failed")
      /\ UNCHANGED << disk, exclusive, extension, vac, outcome >>

\* The list that the cache evicts, if any: "evict" goes on to write it.
EvictNext(b, i) ==
  op' = [op EXCEPT ![b] = [Idle EXCEPT !.pc = "evict", !.item = i,
                                       !.block = written[i].at.block]]
Evictable(i) == written[i].at # NoPointer /\ ~written[i].rev

\* The node kept locked while its neighbors are looked up.
DropNodeLate(b) ==
  /\ op[b].pc = "reading"
  /\ \/ /\ \E i \in Item : Evictable(i) /\ EvictNext(b, i)
        /\ UNCHANGED shared
     \/ /\ op' = [op EXCEPT ![b] = Idle]
        /\ shared' = [shared EXCEPT ![b] = 0]
  /\ UNCHANGED << disk, exclusive, extension, vac, outcome >>

DropNode(b) ==
  /\ op[b].pc = "reading"
  /\ shared' = [shared EXCEPT ![b] = 0]
  /\ \/ \E i \in Item : Evictable(i) /\ EvictNext(b, i)
     \/ op' = [op EXCEPT ![b] = Idle]
  /\ UNCHANGED << disk, exclusive, extension, vac, outcome >>

\* modify_bytes and commit.
Evict(b) ==
  LET i == op[b].item
      at == written[i].at
  IN  /\ op[b].pc = "evict"
      /\ MayLock(at.block)
      /\ CommitPage(b, at.block, [pages[at.block] EXCEPT !.items[at.offset].rev = TRUE])
      /\ written' = [written EXCEPT ![i].rev = TRUE]
      /\ op' = [op EXCEPT ![b] = Idle]
      /\ UNCHANGED << durable, shared, extension, vac, committed, crashes >>

--------------------------------------------------------------------------------
(***************************************************************************)
(* VACUUM reads the number of blocks once and walks them.  A node page is  *)
(* released before its cleanup lock is taken; due is what was stored when  *)
(* the walk began and has not been examined.                               *)
(***************************************************************************)
BeginWalk ==
  /\ vac.pc = "idle"
  /\ vac' = [NoWalk EXCEPT !.pc = "check", !.nblocks = Len(pages),
                           !.due = {i \in Item : written[i].at # NoPointer
                                     /\ pages[written[i].at.block].type = "Node"}]
  /\ UNCHANGED << disk, locks, op, outcome >>

SkipsPage(page) == IsNew(page) \/ page.type # "Node"

NextPage(due) == [pc |-> IF vac.block < vac.nblocks THEN "check" ELSE "done",
                  block |-> vac.block + 1, nblocks |-> vac.nblocks, due |-> due]

\* A walk that ends at the first new page.
CheckPageOrEnd ==
  /\ vac.pc = "check"
  /\ MayShare(vac.block)
  /\ vac' = IF IsNew(pages[vac.block]) THEN [vac EXCEPT !.pc = "done"]
            ELSE IF SkipsPage(pages[vac.block]) THEN NextPage(vac.due) ELSE [vac EXCEPT !.pc = "clean"]
  /\ UNCHANGED << disk, locks, op, outcome >>

CheckPage ==
  /\ vac.pc = "check"
  /\ MayShare(vac.block)
  /\ vac' = IF SkipsPage(pages[vac.block]) THEN NextPage(vac.due) ELSE [vac EXCEPT !.pc = "clean"]
  /\ UNCHANGED << disk, locks, op, outcome >>

CleanPage ==
  /\ vac.pc = "clean"
  /\ MayLock(vac.block)
  /\ vac' = IF ~Verify(pages[vac.block]) THEN [vac EXCEPT !.pc = "failed"]
            ELSE NextPage(vac.due \
                   {pages[vac.block].items[k].item : k \in DOMAIN pages[vac.block].items})
  /\ UNCHANGED << disk, locks, op, outcome >>

--------------------------------------------------------------------------------
(***************************************************************************)
(* An error ends the call: its locks go and its private image is dropped.  *)
(* A crash ends everything; the log survives up to a point past flushed.   *)
(***************************************************************************)
Abort(b) ==
  /\ op[b].pc # "idle"
  /\ op' = [op EXCEPT ![b] = Idle]
  /\ exclusive' = [block \in Block |->
                     IF exclusive[block] = b THEN NoBackend ELSE exclusive[block]]
  /\ shared' = [shared EXCEPT ![b] = 0]
  /\ extension' = IF extension = b THEN NoBackend ELSE extension
  /\ UNCHANGED << disk, vac, outcome >>

Crash ==
  /\ crashes < MaxCrashes
  /\ crashes' = crashes + 1
  /\ \E k \in 0 .. Len(log) :
       LET image == Image(k)
           Found(i) == {rev \in BOOLEAN : HoldsAt(image, written[i].at, i, rev)}
       IN  /\ \E size \in Sizes(image) : pages' = [block \in 1 .. size |-> image[block]]
           /\ durable' = image
           /\ log' = << >>
           /\ written' = [i \in Item |->
                IF Found(i) = {} THEN [at |-> NoPointer, rev |-> FALSE]
                ELSE [at |-> written[i].at, rev |-> TRUE \in Found(i)]]
  /\ exclusive' = [block \in Block |-> NoBackend]
  /\ shared' = [b \in Backend |-> 0]
  /\ extension' = NoBackend
  /\ op' = [b \in Backend |-> Idle]
  /\ vac' = NoWalk
  /\ UNCHANGED committed

--------------------------------------------------------------------------------
Step(b) ==
  \/ ScanBlock(b) \/ Extend(b) \/ LockNew(b) \/ CommitEmpty(b)
  \/ LockCurrent(b) \/ AddAndCommit(b) \/ CommitTransaction(b)
  \/ DropNode(b) \/ Evict(b)

Walk == BeginWalk \/ CheckPage \/ CleanPage

Next ==
  \/ \E b \in Backend :
       \/ Step(b)
       \/ Abort(b)
       \/ \E i \in Item : Read(b, i) \/ \E t \in PageType : Begin(b, i, t)
  \/ Walk
  \/ Crash

Spec == Init /\ [][Next]_vars

--------------------------------------------------------------------------------
(***************************************************************************)
(* The variables keep their types (type correctness of pages, locks and    *)
(* calls).                                                                 *)
(***************************************************************************)
TypeOK ==
  /\ pages \in Seq(Page) /\ Len(pages) \in 1 .. MaxBlock
  /\ durable \in [Block -> Page]
  /\ log \in Seq([block : Block, page : Page])
  /\ exclusive \in [Block -> Backend \cup {NoBackend}]
  /\ shared \in [Backend -> 0 .. MaxBlock]
  /\ extension \in Backend \cup {NoBackend}
  /\ op \in [Backend -> Ops]
  /\ vac \in [pc : {"idle", "check", "clean", "done", "failed"}, block : 1 .. MaxBlock + 1,
              nblocks : 0 .. MaxBlock, due : SUBSET Item]
  /\ written \in [Item -> [at : Pointer, rev : BOOLEAN]]
  /\ committed \subseteq Item
  /\ crashes \in 0 .. MaxCrashes

(***************************************************************************)
(* No call and no walk of VACUUM fails on a page of zeros that an          *)
(* interrupted extension or a crash has left: every page that is verified  *)
(* was initialised (TsvPageOpaqueData::verify, ReadablePage::is_new).      *)
(***************************************************************************)
NoPageFails ==
  /\ \A b \in Backend : op[b].pc # "failed"
  /\ vac.pc # "failed"

(***************************************************************************)
(* A pointer given out by Tape::write reads the item it was given for, in  *)
(* its last version, as long as no crash took that back; the items of      *)
(* committed transactions are in every image a crash can leave, under the  *)
(* same pointers (WritablePage's exclusive locks and private images).      *)
(***************************************************************************)
ItemsKept ==
  /\ \A i \in Item : written[i].at # NoPointer =>
       HoldsAt(pages, written[i].at, i, written[i].rev)
  /\ \A i \in committed : \A k \in 0 .. Len(log) :
       \E rev \in BOOLEAN : HoldsAt(Image(k), written[i].at, i, rev)

(***************************************************************************)
(* A walk of VACUUM has examined every node that was stored when it began, *)
(* whatever new, abandoned or foreign pages lie between                    *)
(* (bulk_delete_for_storage).                                              *)
(***************************************************************************)
WalkComplete == vac.pc = "done" => vac.due = {}

\* The lock a backend waits for, and its holders.
WaitsFor(b, c) ==
  \/ op[b].pc = "scan" /\ exclusive[op[b].block] = c
  \/ op[b].pc \in {"new", "full"} /\ extension = c
  \/ /\ op[b].pc \in {"lock", "lockNext", "evict"}
     /\ exclusive[op[b].block] = c \/ shared[c] = op[b].block
  \/ /\ op[b].pc = "write"
     /\ exclusive[op[b].current] = c \/ shared[c] = op[b].current

(***************************************************************************)
(* No backend waits for itself or in a circle with others: page locks are  *)
(* LWLocks, for which PostgreSQL detects no deadlock.  Tape::write keeps   *)
(* the full page locked while it extends, and a cache miss may evict, and  *)
(* lock, a node of the page that was just read.                            *)
(***************************************************************************)
NoWaitCircle ==
  \A S \in (SUBSET Backend) \ {{}} : \E b \in S : \A c \in S : ~WaitsFor(b, c)
================================================================================
