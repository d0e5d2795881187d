------------------------------ MODULE TapeProofs ------------------------------
(***************************************************************************)
(* Theorems about Tape: no reader fails on a page of zeros, pointers given *)
(* out stay good through crashes, VACUUM's walk misses no node, and no     *)
(* circle of backends waits for page locks.  The argument: a page that     *)
(* someone chose, was given a pointer to, or has left locked in favour of  *)
(* the next is initialised (CallOK); a private image is the page under its *)
(* lock (CallOK); and the log always restores the pages there are          *)
(* (DiskOK), so that a record is the only way to change what a crash       *)
(* leaves.                                                                 *)
(***************************************************************************)
EXTENDS Tape, Integers, SequenceTheorems, WellFoundedInduction, TLAPS

--------------------------------------------------------------------------------
(***************************************************************************)
(* The invariant                                                           *)
(***************************************************************************)

\* Pages without a type are zeros, and the log restores the pages there are.
DiskOK ==
  /\ \A block \in DOMAIN pages : IsNew(pages[block]) => pages[block] = Zeros
  /\ \A block \in Block : IsNew(durable[block]) => durable[block] = Zeros
  /\ \A k \in DOMAIN log : ~IsNew(log[k].page)
  /\ \A block \in Block :
       Replay(Len(log), block) = IF block \in DOMAIN pages THEN pages[block] ELSE Zeros

Holding == {"init", "add", "full", "lockNext"}
Writing == {"scan", "new", "lock", "init", "write", "add", "full", "lockNext"}

Initialised(block) == block \in DOMAIN pages /\ Verify(pages[block])

CallOK(b) ==
  LET o == op[b]
  IN  /\ o.pc # "failed"
      /\ o.pc \in Writing => o.item \in Item /\ written[o.item].at = NoPointer
      /\ o.pc \in {"evict", "written"} => o.item \in Item /\ written[o.item].at # NoPointer
      /\ o.pc = "evict" => o.block = written[o.item].at.block
      /\ o.pc = "scan" => o.block \in DOMAIN pages
      /\ o.pc \in {"lock", "lockNext"} =>
           /\ extension = b /\ o.block \in DOMAIN pages /\ pages[o.block] = Zeros
           /\ MayLock(o.block)
      /\ extension = b => o.pc \in {"lock", "lockNext"}
      /\ o.pc \in {"write", "full", "lockNext"} => Initialised(o.current)
      /\ o.pc \in Holding => o.current \in DOMAIN pages /\ exclusive[o.current] = b
      /\ \A block \in Block : exclusive[block] = b => o.pc \in Holding /\ block = o.current
      /\ o.pc = "init" => pages[o.current] = Zeros /\ o.image = Reinit(o.type)
      /\ o.pc = "add" =>
           /\ HasRoom(o.image)
           /\ \/ Verify(o.image) /\ o.image = pages[o.current]
              \/ pages[o.current] = Zeros /\ o.image = Reinit(o.type)
      /\ shared[b] # 0 => o.pc = "reading" /\ shared[b] \in DOMAIN pages

CallsOK == \A b \in Backend : CallOK(b)

\* An item has one writer.
WritersApart ==
  \A b, c \in Backend :
    b # c /\ op[b].pc \in Writing /\ op[c].pc \in Writing => op[b].item # op[c].item

WalkOK ==
  /\ vac.pc # "failed"
  /\ vac.pc \in {"check", "clean"} => vac.block <= vac.nblocks /\ vac.nblocks <= Len(pages)
  /\ vac.pc = "clean" => pages[vac.block].type = "Node"
  /\ vac.pc \in {"idle", "done"} => vac.due = {}
  /\ \A i \in vac.due :
       /\ written[i].at # NoPointer
       /\ vac.block <= written[i].at.block /\ written[i].at.block <= vac.nblocks
       /\ pages[written[i].at.block].type = "Node"

IInv == TypeOK /\ DiskOK /\ ItemsKept /\ CallsOK /\ WritersApart /\ WalkOK

--------------------------------------------------------------------------------
(***************************************************************************)
(* Pages                                                                   *)
(***************************************************************************)

Stored == [item : Item, rev : BOOLEAN]

LEMMA PageItems ==
  ASSUME NEW p \in Page
  PROVE  /\ p.type \in PageType \cup {"New"} /\ p = [type |-> p.type, items |-> p.items]
         /\ Len(p.items) \in 0 .. Capacity
         /\ DOMAIN p.items = 1 .. Len(p.items)
         /\ p.items \in Seq(Stored)
         /\ \A k \in 1 .. Len(p.items) : p.items[k] \in Stored
<1>1. /\ p.type \in PageType \cup {"New"} /\ p = [type |-> p.type, items |-> p.items]
      /\ p.items \in UNION {[1 .. n -> Stored] : n \in 0 .. Capacity}
  BY DEF Page, Stored
<1>2. PICK n \in 0 .. Capacity : p.items \in [1 .. n -> Stored]
  BY <1>1
<1>3. n \in Nat
  BY PageAssumption
<1>4. p.items \in Seq(Stored)
  BY <1>2, <1>3, SeqDef
<1>5. DOMAIN p.items = 1 .. Len(p.items) /\ Len(p.items) \in Nat
  BY <1>4, LenProperties
<1>6. Len(p.items) = n
  BY <1>2, <1>3, <1>5
<1> QED
  BY <1>1, <1>2, <1>4, <1>5, <1>6

LEMMA IsPage ==
  ASSUME NEW t \in PageType \cup {"New"}, NEW s \in Seq(Stored), Len(s) <= Capacity
  PROVE  [type |-> t, items |-> s] \in Page
<1>1. Len(s) \in Nat /\ s \in [1 .. Len(s) -> Stored]
  BY LenProperties
<1>2. Len(s) \in 0 .. Capacity
  BY <1>1, PageAssumption
<1>3. s \in UNION {[1 .. n -> Stored] : n \in 0 .. Capacity}
  BY <1>1, <1>2
<1> QED
  BY <1>3 DEF Page, Stored

LEMMA EmptyPages ==
  /\ Zeros \in Page /\ ~Verify(Zeros) /\ IsNew(Zeros) /\ Zeros.items = << >>
  /\ \A t \in PageType : Reinit(t) \in Page /\ Verify(Reinit(t)) /\ Reinit(t).items = << >>
                         /\ Reinit(t).type = t /\ HasRoom(Reinit(t)) /\ ~IsNew(Reinit(t))
<1>1. << >> \in Seq(Stored) /\ Len(<< >>) = 0
  BY EmptySeq
<1>2. 0 <= Capacity
  BY PageAssumption
<1>3. \A t \in PageType \cup {"New"} : [type |-> t, items |-> << >>] \in Page
  BY <1>1, <1>2, IsPage
<1>4. 0 < Capacity
  BY PageAssumption
<1> QED
  BY <1>1, <1>3, <1>4 DEF Zeros, Reinit, Verify, IsNew, PageType, HasRoom

\* A new item goes behind the others.
LEMMA ItemAdded ==
  ASSUME NEW p \in Page, HasRoom(p), NEW i \in Item
  PROVE  LET q == AddItem(p, i)
         IN  /\ q \in Page /\ q.type = p.type
             /\ Len(q.items) = Len(p.items) + 1 /\ Len(q.items) \in 1 .. Capacity
             /\ q.items[Len(q.items)] = [item |-> i, rev |-> FALSE]
             /\ \A k \in 1 .. Len(p.items) : q.items[k] = p.items[k]
<1> DEFINE e == [item |-> i, rev |-> FALSE]
           s == Append(p.items, e)
<1>1. e \in Stored
  BY DEF Stored
<1>2. p.items \in Seq(Stored) /\ Len(p.items) \in 0 .. Capacity /\ p.type \in PageType \cup {"New"}
  BY PageItems
<1>3. /\ s \in Seq(Stored) /\ Len(s) = Len(p.items) + 1
      /\ \A k \in 1 .. Len(p.items) : s[k] = p.items[k] /\ s[Len(p.items) + 1] = e
  BY <1>1, <1>2, AppendProperties
<1>4. s[Len(s)] = e
  BY <1>1, <1>2, <1>3, AppendProperties
<1>5. Len(s) \in 1 .. Capacity /\ Len(s) <= Capacity
  BY <1>2, <1>3, PageAssumption DEF HasRoom
<1>6. AddItem(p, i) = [type |-> p.type, items |-> s]
  BY PageItems DEF AddItem
<1> HIDE DEF s, e
<1>7. [type |-> p.type, items |-> s] \in Page
  BY <1>2, <1>3, <1>5, IsPage
<1> QED
  BY <1>3, <1>4, <1>5, <1>6, <1>7 DEF e

\* An item is rewritten in its place.
Rewritten(page, o) == [page EXCEPT !.items[o].rev = TRUE]

LEMMA ItemRewritten ==
  ASSUME NEW p \in Page, NEW o \in DOMAIN p.items
  PROVE  LET q == Rewritten(p, o)
         IN  /\ q \in Page /\ q.type = p.type /\ DOMAIN q.items = DOMAIN p.items
             /\ q.items[o] = [item |-> p.items[o].item, rev |-> TRUE]
             /\ \A k \in DOMAIN p.items \ {o} : q.items[k] = p.items[k]
<1> DEFINE e == [item |-> p.items[o].item, rev |-> TRUE]
           s == [p.items EXCEPT ![o] = e]
           q == Rewritten(p, o)
<1>1. /\ p.items \in Seq(Stored) /\ Len(p.items) \in 0 .. Capacity
      /\ p.type \in PageType \cup {"New"} /\ p.items[o] \in Stored
      /\ DOMAIN p.items = 1 .. Len(p.items)
  BY PageItems
<1>2. e \in Stored
  BY <1>1 DEF Stored
<1>3. /\ s \in Seq(Stored) /\ Len(s) = Len(p.items) /\ DOMAIN s = DOMAIN p.items
      /\ Len(s) <= Capacity
  BY <1>1, <1>2, ExceptSeq, PageAssumption
<1>4. ASSUME NEW r \in Stored, NEW x PROVE [r EXCEPT !.rev = x] = [item |-> r.item, rev |-> x]
  BY DEF Stored
<1>5. q = [type |-> p.type, items |-> s]
  <2>1. q = [p EXCEPT !.items = [p.items EXCEPT ![o] = [p.items[o] EXCEPT !.rev = TRUE]]]
    BY Zenon DEF Rewritten
  <2>2. [p.items[o] EXCEPT !.rev = TRUE] = e
    BY <1>1, <1>4
  <2>3. q = [p EXCEPT !.items = s]
    BY <2>1, <2>2, Zenon
  <2>4. ASSUME NEW x PROVE [p EXCEPT !.items = x] = [type |-> p.type, items |-> x]
    BY DEF Page
  <2> HIDE DEF s, e, q
  <2> QED
    BY <2>3, <2>4
<1>6. s[o] = e /\ \A k \in DOMAIN p.items \ {o} : s[k] = p.items[k]
  BY <1>1
<1> HIDE DEF s, e
<1>7. [type |-> p.type, items |-> s] \in Page
  BY <1>1, <1>3, IsPage
<1> QED
  BY <1>3, <1>5, <1>6, <1>7 DEF e

--------------------------------------------------------------------------------
(***************************************************************************)
(* What the log restores                                                   *)
(***************************************************************************)

\* A set of positions has a last one.
LEMMA LastOne ==
  ASSUME NEW k \in Nat, NEW T \in SUBSET (1 .. k), T # {}
  PROVE  \E x \in T : \A y \in T : y <= x
<1> DEFINE D == {k - i : i \in T}
<1>1. \A i \in T : i \in Nat /\ k - i \in D /\ k - i \in Nat
  OBVIOUS
<1>2. D # {}
  BY <1>1
<1>3. \A d \in D : d \in Nat /\ \E i \in T : d = k - i
  BY <1>1
<1>4. D \subseteq Nat
  BY <1>3
<1>5. \E R : IsWellFoundedOn(R, Nat) /\ \A d, e \in Nat : <<e, d>> \in R <=> e < d
  <2>1. \A d, e \in Nat : <<e, d>> \in OpToRel(<, Nat) <=> e < d
    BY DEF OpToRel
  <2> QED
    BY <2>1, NatLessThanWellFounded, Zenon
<1>6. PICK d \in D : \A e \in D : ~(e < d)
  BY <1>2, <1>4, <1>5, WFMin
<1>7. PICK x \in T : d = k - x
  BY <1>3
<1>8. \A y \in T : ~(k - y < k - x)
  BY <1>1, <1>6, <1>7
<1>9. \A y \in T : y <= x
  BY <1>1, <1>8
<1> QED
  BY <1>9

Record == [block : Block, page : Page]
RecordsOf(k, block) == {i \in 1 .. k : log[i].block = block}
Last(T) == CHOOSE i \in T : \A j \in T : j <= i

LEMMA LastIsLast ==
  ASSUME NEW k \in Nat, NEW T \in SUBSET (1 .. k), T # {}
  PROVE  Last(T) \in T /\ \A j \in T : j <= Last(T)
BY LastOne DEF Last

LEMMA ReplayIs ==
  ASSUME NEW k, NEW block
  PROVE  /\ RecordsOf(k, block) = {} => Replay(k, block) = durable[block]
         /\ RecordsOf(k, block) # {} => Replay(k, block) = log[Last(RecordsOf(k, block))].page
BY DEF Replay, RecordsOf, Last

LEMMA PagesThere ==
  ASSUME TypeOK
  PROVE  /\ Len(pages) \in 1 .. MaxBlock /\ DOMAIN pages = 1 .. Len(pages)
         /\ DOMAIN pages \subseteq Block /\ \A block \in DOMAIN pages : pages[block] \in Page
         /\ 0 \notin Block
         /\ Len(log) \in Nat /\ \A i \in 1 .. Len(log) : log[i] \in Record
         /\ DOMAIN log = 1 .. Len(log)
<1>1. /\ pages \in Seq(Page) /\ Len(pages) \in 1 .. MaxBlock /\ log \in Seq(Record)
      /\ MaxBlock \in Nat
  BY PageAssumption DEF TypeOK, Record
<1>2. DOMAIN pages = 1 .. Len(pages) /\ pages \in [1 .. Len(pages) -> Page]
  BY <1>1, LenProperties
<1>3. DOMAIN log = 1 .. Len(log) /\ log \in [1 .. Len(log) -> Record] /\ Len(log) \in Nat
  BY <1>1, LenProperties
<1> QED
  BY <1>1, <1>2, <1>3 DEF Block

\* What is restored was durable or comes from a record.
LEMMA ReplayFrom ==
  ASSUME TypeOK, NEW k \in 0 .. Len(log), NEW block \in Block
  PROVE  \/ Replay(k, block) = durable[block]
         \/ \E i \in 1 .. Len(log) : Replay(k, block) = log[i].page
<1>1. RecordsOf(k, block) \in SUBSET (1 .. k) /\ k \in Nat /\ k <= Len(log)
  BY PagesThere DEF RecordsOf
<1>2. CASE RecordsOf(k, block) = {}
  BY <1>2, ReplayIs
<1>3. CASE RecordsOf(k, block) # {}
  <2>1. Last(RecordsOf(k, block)) \in 1 .. k
    BY <1>1, <1>3, LastIsLast
  <2> QED
    BY <1>1, <1>3, <2>1, ReplayIs, PagesThere
<1> QED
  BY <1>2, <1>3

\* A record is the last word on its block, and no word on others.
LEMMA Appended ==
  ASSUME TypeOK, NEW len \in Nat, len = Len(log), NEW x \in Block, NEW q \in Page,
         log' = Append(log, [block |-> x, page |-> q]), durable' = durable
  PROVE  /\ log' \in Seq(Record) /\ Len(log') = len + 1
         /\ log'[len + 1].page = q /\ \A i \in 1 .. len : log'[i] = log[i]
         /\ \A k \in 0 .. len, block \in Block : Replay(k, block)' = Replay(k, block)
         /\ \A block \in Block :
              Replay(len + 1, block)' = IF block = x THEN q ELSE Replay(len, block)
<1> DEFINE r == [block |-> x, page |-> q]
<1>1. r \in Record /\ log \in Seq(Record) /\ r.block = x /\ r.page = q
  BY DEF Record, TypeOK
<1>2. /\ log' \in Seq(Record) /\ Len(log') = len + 1
      /\ \A i \in 1 .. len : log'[i] = log[i]
      /\ log'[len + 1] = r
  BY <1>1, AppendProperties
<1> HIDE DEF r
<1>3. ASSUME NEW k \in 0 .. len, NEW block \in Block
      PROVE  Replay(k, block)' = Replay(k, block)
  <2>1. RecordsOf(k, block)' = RecordsOf(k, block)
    BY <1>2 DEF RecordsOf
  <2>2. CASE RecordsOf(k, block) = {}
    <3>1. Replay(k, block)' = durable'[block]
      BY <2>1, <2>2 DEF Replay, RecordsOf
    <3> QED
      BY <2>2, <3>1, ReplayIs
  <2>3. CASE RecordsOf(k, block) # {}
    <3>1. RecordsOf(k, block) \in SUBSET (1 .. k) /\ k \in Nat
      BY DEF RecordsOf
    <3>2. Last(RecordsOf(k, block)) \in 1 .. k
      BY <2>3, <3>1, LastIsLast
    <3>3. Replay(k, block)' = log'[Last(RecordsOf(k, block)')].page
      BY <2>1, <2>3 DEF Replay, RecordsOf, Last
    <3> QED
      BY <1>2, <2>1, <2>3, <3>2, <3>3, ReplayIs
  <2> QED
    BY <2>2, <2>3
<1>4. ASSUME NEW block \in Block
      PROVE  Replay(len + 1, block)' = IF block = x THEN q ELSE Replay(len, block)
  <2>1. CASE block = x
    <3>1. /\ RecordsOf(len + 1, block)' \in SUBSET (1 .. len + 1)
          /\ len + 1 \in RecordsOf(len + 1, block)'
      BY <1>1, <1>2, <2>1 DEF RecordsOf
    <3>2. /\ Last(RecordsOf(len + 1, block)') \in RecordsOf(len + 1, block)'
          /\ len + 1 <= Last(RecordsOf(len + 1, block)')
      <4>1. len + 1 \in Nat
        OBVIOUS
      <4> QED
        BY <3>1, <4>1, LastIsLast
    <3>3. Last(RecordsOf(len + 1, block)') \in 1 .. len + 1
      BY <3>1, <3>2
    <3>4. Last(RecordsOf(len + 1, block)') = len + 1
      BY <3>2, <3>3
    <3>5. Replay(len + 1, block)' = log'[Last(RecordsOf(len + 1, block)')].page
      BY <3>1 DEF Replay, RecordsOf, Last
    <3> QED
      BY <1>1, <1>2, <2>1, <3>4, <3>5
  <2>2. CASE block # x
    <3>1. RecordsOf(len + 1, block)' = RecordsOf(len, block)'
      BY <1>1, <1>2, <2>2 DEF RecordsOf
    <3>2. Replay(len + 1, block)' = Replay(len, block)'
      <4>1. ASSUME NEW k
            PROVE  Replay(k, block)' = IF RecordsOf(k, block)' = {} THEN durable'[block]
                                       ELSE log'[Last(RecordsOf(k, block)')].page
        BY DEF Replay, RecordsOf, Last
      <4> QED
        BY <3>1, <4>1
    <3>3. len \in 0 .. len
      OBVIOUS
    <3> QED
      BY <1>3, <2>2, <3>2, <3>3
  <2> QED
    BY <2>1, <2>2
<1> QED
  BY <1>1, <1>2, <1>3, <1>4

--------------------------------------------------------------------------------
(***************************************************************************)
(* What steps leave alone                                                  *)
(***************************************************************************)

KeptOnPages ==
  \A i \in Item : written[i].at # NoPointer => HoldsAt(pages, written[i].at, i, written[i].rev)

KeptInImages ==
  \A i \in committed : \A k \in 0 .. Len(log) :
    \E rev \in BOOLEAN : HoldsAt(Image(k), written[i].at, i, rev)

LEMMA Kept == ItemsKept <=> KeptOnPages /\ KeptInImages
BY DEF ItemsKept, KeptOnPages, KeptInImages

\* A stored item is on an initialised page.
LEMMA ItemPlace ==
  ASSUME TypeOK, DiskOK, ItemsKept, NEW i \in Item, written[i].at # NoPointer
  PROVE  /\ written[i].at.block \in DOMAIN pages /\ Initialised(written[i].at.block)
         /\ written[i].at.offset \in DOMAIN pages[written[i].at.block].items
         /\ pages[written[i].at.block].items[written[i].at.offset]
              = [item |-> i, rev |-> written[i].rev]
<1>1. /\ written[i].at.block \in DOMAIN pages
      /\ written[i].at.offset \in DOMAIN pages[written[i].at.block].items
      /\ pages[written[i].at.block].items[written[i].at.offset]
              = [item |-> i, rev |-> written[i].rev]
  BY DEF ItemsKept, HoldsAt
<1>2. pages[written[i].at.block] # Zeros
  BY <1>1, EmptyPages, EmptySeq
<1> QED
  BY <1>1, <1>2 DEF DiskOK, Initialised, Verify, IsNew

LEMMA CommittedWritten ==
  ASSUME TypeOK, ItemsKept, NEW i \in committed
  PROVE  i \in Item /\ written[i].at # NoPointer
<1>1. i \in Item /\ 0 \in 0 .. Len(log)
  BY PagesThere DEF TypeOK
<1>2. written[i].at.block \in Block
  BY <1>1 DEF ItemsKept, HoldsAt, Image
<1> QED
  BY <1>1, <1>2, PagesThere DEF NoPointer

\* Pages only get their type once, and items their place.
Grows ==
  /\ \A block \in DOMAIN pages : /\ block \in DOMAIN pages'
                                 /\ Verify(pages[block]) => pages'[block].type = pages[block].type
  /\ \A i \in Item : written[i].at # NoPointer => written'[i].at = written[i].at

LEMMA WalkKept ==
  ASSUME IInv, TypeOK', Grows, vac' = vac
  PROVE  WalkOK'
<1>1. /\ TypeOK /\ DiskOK /\ ItemsKept /\ WalkOK
      /\ vac.block \in Nat \ {0} /\ vac.nblocks \in Nat /\ vac.due \subseteq Item
  BY PageAssumption DEF IInv, TypeOK
<1>2. Len(pages) <= Len(pages')
  BY <1>1, PagesThere DEF Grows, TypeOK
<1>3. vac.pc = "clean" => pages'[vac.block].type = "Node"
  BY <1>1, PagesThere DEF WalkOK, Grows, Verify
<1>4. ASSUME NEW i \in vac.due
      PROVE  /\ written'[i].at = written[i].at /\ written[i].at # NoPointer
             /\ pages'[written[i].at.block].type = "Node"
  BY <1>1, ItemPlace DEF WalkOK, Grows, Initialised
<1>5. \A n \in Nat : n <= Len(pages) => n <= Len(pages')
  BY <1>1, <1>2, PagesThere DEF TypeOK
<1> QED
  BY <1>1, <1>3, <1>4, <1>5 DEF WalkOK

\* The call of another backend.
LEMMA OtherCall ==
  ASSUME IInv, NEW c \in Backend, op'[c] = op[c], shared'[c] = shared[c],
         extension = c <=> extension' = c,
         \A block \in Block : exclusive[block] = c <=> exclusive'[block] = c,
         Grows,
         \A block \in DOMAIN pages : exclusive[block] = c => pages'[block] = pages[block],
         op[c].pc \in {"lock", "lockNext"} =>
           pages'[op[c].block] = Zeros /\ MayLock(op[c].block)',
         op[c].pc \in Writing => written'[op[c].item].at = NoPointer
  PROVE  CallOK(c)'
<1>1. CallOK(c) /\ TypeOK /\ DOMAIN pages \subseteq Block
  BY PagesThere DEF IInv, CallsOK
<1>2. \A block : Initialised(block) => Initialised(block)'
  BY DEF Initialised, Verify, Grows
<1>3. op[c].pc \in {"evict", "written"} =>
        /\ op[c].item \in Item /\ written'[op[c].item].at # NoPointer
        /\ written'[op[c].item].at = written[op[c].item].at
  BY <1>1 DEF CallOK, Grows
<1> QED
  BY <1>1, <1>2, <1>3 DEF CallOK, Grows, Holding

\* A step of one call that leaves the disk alone.
LEMMA CallStep ==
  ASSUME IInv, NEW b \in Backend, UNCHANGED << disk, outcome, vac >>, TypeOK',
         \A c \in Backend \ {b} :
           /\ op'[c] = op[c] /\ shared'[c] = shared[c]
           /\ extension = c <=> extension' = c
           /\ \A block \in Block : exclusive[block] = c <=> exclusive'[block] = c
           /\ op[c].pc \in {"lock", "lockNext"} => MayLock(op[c].block)',
         CallOK(b)',
         op'[b].pc \in Writing => op[b].pc \in Writing /\ op'[b].item = op[b].item
  PROVE  IInv'
<1>1. /\ pages' = pages /\ durable' = durable /\ log' = log /\ vac' = vac
      /\ written' = written /\ committed' = committed
  BY DEF disk, outcome
<1>2. Grows
  BY <1>1 DEF Grows
<1>3. DiskOK'
  <2>1. \A k, block : Replay(k, block)' = Replay(k, block)
    BY <1>1 DEF Replay
  <2> QED
    BY <1>1, <2>1 DEF DiskOK, IInv
<1>4. ItemsKept'
  <2>1. \A k : Image(k)' = Image(k)
    BY <1>1 DEF Image, Replay
  <2> QED
    BY <1>1, <2>1 DEF ItemsKept, HoldsAt, IInv
<1>5. ASSUME NEW c \in Backend \ {b} PROVE CallOK(c)'
  <2>1. CallOK(c)
    BY DEF IInv, CallsOK
  <2> QED
    BY <1>1, <1>2, <2>1, OtherCall DEF CallOK
<1>6. WritersApart'
  BY DEF IInv, WritersApart
<1>7. WalkOK'
  BY <1>1, <1>2, WalkKept
<1> QED
  BY <1>3, <1>4, <1>5, <1>6, <1>7 DEF IInv, CallsOK

\* A record for a page that was initialised, or gets its content.
LEMMA PageChanged ==
  ASSUME IInv, NEW x \in DOMAIN pages, NEW q \in Page, Verify(q),
         pages' = [pages EXCEPT ![x] = q], durable' = durable,
         log' = Append(log, [block |-> x, page |-> q]),
         committed' = committed, TypeOK', KeptOnPages',
         \A i \in Item : written[i].at # NoPointer => written'[i].at = written[i].at
  PROVE  DiskOK' /\ ItemsKept'
<1>0. TypeOK /\ DiskOK /\ ItemsKept /\ x \in Block
  BY PagesThere DEF IInv
<1>1. PICK len \in Nat : len = Len(log)
  BY <1>0, PagesThere
<1>2. /\ Len(log') = len + 1
      /\ log'[len + 1].page = q /\ \A i \in 1 .. len : log'[i] = log[i]
      /\ \A k \in 0 .. len, block \in Block : Replay(k, block)' = Replay(k, block)
      /\ \A block \in Block :
              Replay(len + 1, block)' = IF block = x THEN q ELSE Replay(len, block)
  BY <1>0, <1>1, Appended
<1>3. DOMAIN pages' = DOMAIN pages /\ \A block \in DOMAIN pages :
        pages'[block] = IF block = x THEN q ELSE pages[block]
  BY <1>0
<1>4. \A block \in Block :
        Replay(len + 1, block)' = IF block \in DOMAIN pages' THEN pages'[block] ELSE Zeros
  BY <1>0, <1>1, <1>2, <1>3 DEF DiskOK
<1>5. DiskOK'
  <2>1. \A block \in DOMAIN pages' : IsNew(pages'[block]) => pages'[block] = Zeros
    BY <1>0, <1>3 DEF DiskOK, Verify, IsNew
  <2>2. \A k \in DOMAIN log' : ~IsNew(log'[k].page)
    <3>1. DOMAIN log' = 1 .. len + 1 /\ DOMAIN log = 1 .. len
      BY <1>0, <1>1, <1>2, PagesThere, LenProperties DEF TypeOK
    <3> QED
      BY <1>0, <1>1, <1>2, <3>1 DEF DiskOK, Verify, IsNew
  <2>3. \A block \in Block :
           Replay(Len(log), block)' = IF block \in DOMAIN pages' THEN pages'[block] ELSE Zeros
    <3>1. ASSUME NEW block PROVE Replay(Len(log), block)' = Replay(len + 1, block)'
      <4>1. RecordsOf(Len(log), block)' = RecordsOf(len + 1, block)'
        BY <1>2 DEF RecordsOf
      <4>2. /\ Replay(Len(log), block)' = IF RecordsOf(Len(log), block)' = {} THEN durable'[block]
                                          ELSE log'[Last(RecordsOf(Len(log), block)')].page
            /\ Replay(len + 1, block)' = IF RecordsOf(len + 1, block)' = {} THEN durable'[block]
                                         ELSE log'[Last(RecordsOf(len + 1, block)')].page
        BY DEF Replay, RecordsOf, Last
      <4> QED
        BY <4>1, <4>2
    <3> QED
      BY <1>4, <3>1
  <2>4. \A block \in Block : IsNew(durable'[block]) => durable'[block] = Zeros
    BY <1>0 DEF DiskOK
  <2> QED
    BY <2>1, <2>2, <2>3, <2>4 DEF DiskOK
<1>6. KeptInImages'
  <2>1. SUFFICES ASSUME NEW i \in committed, NEW k \in 0 .. Len(log')
                 PROVE  \E rev \in BOOLEAN : HoldsAt(Image(k)', written'[i].at, i, rev)
    BY DEF KeptInImages, HoldsAt
  <2>2. i \in Item /\ written[i].at # NoPointer /\ written'[i].at = written[i].at
    BY <1>0, CommittedWritten
  <2>3. CASE k \in 0 .. len
    <3>1. Image(k)' = Image(k)
      BY <1>2, <2>3 DEF Image
    <3> QED
      BY <1>0, <1>1, <2>2, <2>3, <3>1 DEF ItemsKept
  <2>4. CASE k = len + 1
    <3>1. HoldsAt(pages', written'[i].at, i, written'[i].rev) /\ written'[i].rev \in BOOLEAN
      BY <2>2 DEF KeptOnPages, TypeOK, HoldsAt
    <3>2. DOMAIN pages' \subseteq Block
      BY <1>0, <1>3, PagesThere
    <3>3. DOMAIN Image(k)' = Block /\ \A block \in DOMAIN pages' : Image(k)'[block] = pages'[block]
      BY <1>4, <2>4, <3>2 DEF Image
    <3> QED
      BY <3>1, <3>2, <3>3 DEF HoldsAt
  <2> QED
    BY <1>2, <2>3, <2>4
<1>7. ItemsKept'
  BY <1>6 DEF ItemsKept, KeptOnPages, KeptInImages
<1> QED
  BY <1>5, <1>7

--------------------------------------------------------------------------------
(***************************************************************************)
(* Steps that take or release locks                                        *)
(***************************************************************************)

LEMMA Before ==
  ASSUME IInv, NEW b \in Backend
  PROVE  /\ TypeOK /\ DiskOK /\ ItemsKept /\ CallOK(b) /\ WalkOK /\ WritersApart
         /\ op[b] \in Ops /\ MaxBlock \in Nat \ {0}
         /\ Len(pages) \in 1 .. MaxBlock /\ DOMAIN pages = 1 .. Len(pages)
         /\ DOMAIN pages \subseteq Block /\ \A block \in DOMAIN pages : pages[block] \in Page
BY PagesThere, PageAssumption DEF IInv, CallsOK, TypeOK

\* No lock of another backend changes.
LEMMA LocksLeft ==
  ASSUME IInv, NEW c \in Backend, UNCHANGED locks, op'[c] = op[c]
  PROVE  /\ shared'[c] = shared[c] /\ (extension = c <=> extension' = c)
         /\ \A block \in Block : exclusive[block] = c <=> exclusive'[block] = c
         /\ op[c].pc \in {"lock", "lockNext"} => MayLock(op[c].block)'
BY DEF locks, IInv, CallsOK, CallOK, MayLock, MayShare, NotShared

LEMMA ScanBlockStep == ASSUME IInv, NEW b \in Backend, ScanBlock(b) PROVE IInv'
<1> DEFINE o == op[b]
           page == pages[o.block]
<1>0. /\ TypeOK /\ DiskOK /\ CallOK(b) /\ o \in Ops /\ o.pc = "scan" /\ o.block \in DOMAIN pages
      /\ DOMAIN pages = 1 .. Len(pages) /\ Len(pages) \in 1 .. MaxBlock /\ MaxBlock \in Nat \ {0}
      /\ o.item \in Item /\ written[o.item].at = NoPointer /\ shared[b] = 0 /\ extension # b
      /\ \A block \in Block : exclusive[block] # b
  BY Before DEF ScanBlock, CallOK, Writing, Holding
<1>1. UNCHANGED << disk, locks, vac, outcome >>
  BY DEF ScanBlock
<1>2. CASE ~Skips(page) /\ page.type = o.type /\ op' = [op EXCEPT ![b].pc = "write", ![b].current = o.block]
  <2>1. /\ op' \in [Backend -> Ops] /\ op'[b].pc = "write" /\ op'[b].current = o.block
        /\ op'[b].item = o.item /\ \A c \in Backend \ {b} : op'[c] = op[c]
    BY <1>0, <1>2 DEF TypeOK, Ops, Stages
  <2>2. Initialised(o.block)
    BY <1>0, <1>2 DEF Initialised, Skips, IsNew, Verify
  <2>3. CallOK(b)'
    BY <1>0, <1>1, <2>1, <2>2 DEF CallOK, Writing, Holding, Initialised, locks, disk, outcome
  <2>4. TypeOK'
    BY <1>0, <1>1, <2>1 DEF TypeOK, locks, disk, outcome
  <2> QED
    BY <1>0, <1>1, <2>1, <2>3, <2>4, LocksLeft, CallStep DEF Writing
<1>3. CASE op' = [op EXCEPT ![b].pc = IF o.block = 1 THEN "new" ELSE "scan", ![b].block = @ - 1]
  <2>1. /\ op' \in [Backend -> Ops] /\ op'[b].pc = (IF o.block = 1 THEN "new" ELSE "scan")
        /\ op'[b].block = o.block - 1
        /\ op'[b].item = o.item /\ \A c \in Backend \ {b} : op'[c] = op[c]
    <3>1. o.block - 1 \in 0 .. MaxBlock
      BY <1>0
    <3> QED
      BY <1>0, <1>3, <3>1 DEF TypeOK, Ops, Stages
  <2>2. o.block # 1 => o.block - 1 \in DOMAIN pages
    BY <1>0
  <2>3. CallOK(b)'
    BY <1>0, <1>1, <2>1, <2>2 DEF CallOK, Writing, Holding, locks, disk, outcome
  <2>4. TypeOK'
    BY <1>0, <1>1, <2>1 DEF TypeOK, locks, disk, outcome
  <2> QED
    BY <1>0, <1>1, <2>1, <2>3, <2>4, LocksLeft, CallStep DEF Writing
<1> QED
  BY <1>0, <1>2, <1>3 DEF ScanBlock, Skips, Verify, IsNew

LEMMA BeginStep ==
  ASSUME IInv, NEW b \in Backend, NEW i \in Item, NEW t \in PageType, Begin(b, i, t) PROVE IInv'
<1>0. /\ TypeOK /\ CallOK(b) /\ op[b].pc = "idle" /\ written[i].at = NoPointer
      /\ \A c \in Backend : op[c].item # i
      /\ DOMAIN pages = 1 .. Len(pages) /\ Len(pages) \in 1 .. MaxBlock /\ MaxBlock \in Nat \ {0}
      /\ UNCHANGED << disk, locks, vac, outcome >>
      /\ op' = [op EXCEPT ![b] = [Idle EXCEPT !.pc = IF Chained(t) THEN "new" ELSE "scan",
                                          !.type = t, !.item = i, !.block = Len(pages)]]
  BY Before DEF Begin
<1>1. /\ op' \in [Backend -> Ops] /\ op'[b].pc \in {"new", "scan"} /\ op'[b].item = i
      /\ op'[b].block = Len(pages) /\ \A c \in Backend \ {b} : op'[c] = op[c]
  <2>1. [Idle EXCEPT !.pc = IF Chained(t) THEN "new" ELSE "scan",
                     !.type = t, !.item = i, !.block = Len(pages)] \in Ops
    <3>1. Zeros \in Page /\ 0 \in 0 .. MaxBlock
      BY <1>0, EmptyPages
    <3>2. ASSUME NEW pc \in Stages, NEW n \in 0 .. MaxBlock
          PROVE  [Idle EXCEPT !.pc = pc, !.type = t, !.item = i, !.block = n] \in Ops
      BY <3>1 DEF Ops, Idle
    <3>3. (IF Chained(t) THEN "new" ELSE "scan") \in Stages /\ Len(pages) \in 0 .. MaxBlock
      BY <1>0 DEF Stages
    <3> QED
      BY <3>2, <3>3
  <2> QED
    BY <1>0, <2>1 DEF TypeOK, Idle
<1>2. CallOK(b)'
  BY <1>0, <1>1 DEF CallOK, Writing, Holding, locks, disk, outcome
<1>3. TypeOK'
  BY <1>0, <1>1 DEF TypeOK, locks, disk, outcome
<1>4. WritersApart'
  BY <1>0, <1>1 DEF WritersApart, IInv
<1>5. ASSUME NEW c \in Backend \ {b} PROVE CallOK(c)'
  <2>1. CallOK(c)
    BY DEF IInv, CallsOK
  <2> QED
    BY <1>0, <1>1, <2>1 DEF CallOK, Initialised, MayLock, MayShare, NotShared, locks, disk, outcome
<1>6. DiskOK' /\ ItemsKept' /\ WalkOK'
  <2>1. \A k, block : Replay(k, block)' = Replay(k, block)
    BY <1>0 DEF Replay, disk
  <2>2. \A k : Image(k)' = Image(k)
    BY <1>0 DEF Image, Replay, disk
  <2>3. DiskOK'
    BY <1>0, <2>1 DEF DiskOK, IInv, disk
  <2>4. ItemsKept'
    BY <1>0, <2>2 DEF ItemsKept, HoldsAt, IInv, disk, outcome
  <2> QED
    BY <1>0, <2>3, <2>4 DEF WalkOK, IInv, disk, outcome
<1> QED
  BY <1>1, <1>2, <1>3, <1>4, <1>5, <1>6 DEF IInv, CallsOK

LEMMA LockNewStep == ASSUME IInv, NEW b \in Backend, LockNew(b) PROVE IInv'
<1> DEFINE o == op[b]
<1>0. /\ TypeOK /\ CallOK(b) /\ o \in Ops /\ o.pc \in {"lock", "lockNext"} /\ extension = b
      /\ o.block \in DOMAIN pages /\ pages[o.block] = Zeros /\ o.block \in Block
      /\ o.item \in Item /\ written[o.item].at = NoPointer /\ shared[b] = 0
      /\ MayLock(o.block)
  BY Before DEF LockNew, CallOK, Writing
<1>1. /\ UNCHANGED << disk, shared, vac, outcome >> /\ extension' = NoBackend
      /\ exclusive' = [block \in Block |->
                         IF block = o.block THEN b
                         ELSE IF exclusive[block] = b THEN NoBackend ELSE exclusive[block]]
      /\ op' = [op EXCEPT ![b].pc = IF @ = "lock" THEN "init" ELSE "add",
                          ![b].current = op[b].block, ![b].image = Reinit(op[b].type)]
  BY DEF LockNew
<1>2. Reinit(o.type) \in Page /\ HasRoom(Reinit(o.type))
  BY <1>0, EmptyPages DEF Ops
<1>3. /\ op' \in [Backend -> Ops] /\ op'[b].pc = (IF o.pc = "lock" THEN "init" ELSE "add")
      /\ op'[b].current = o.block /\ op'[b].image = Reinit(o.type) /\ op'[b].type = o.type
      /\ op'[b].item = o.item /\ \A c \in Backend \ {b} : op'[c] = op[c]
  BY <1>0, <1>1, <1>2 DEF TypeOK, Ops, Stages
<1>4. TypeOK'
  BY <1>0, <1>1, <1>3 DEF TypeOK, disk, outcome
<1>5. CallOK(b)'
  BY <1>0, <1>1, <1>2, <1>3, PageAssumption DEF CallOK, Writing, Holding, disk, outcome
<1>6. ASSUME NEW c \in Backend \ {b}
      PROVE  /\ op'[c] = op[c] /\ shared'[c] = shared[c] /\ (extension = c <=> extension' = c)
             /\ \A block \in Block : exclusive[block] = c <=> exclusive'[block] = c
             /\ op[c].pc \in {"lock", "lockNext"} => MayLock(op[c].block)'
  <2>1. op[c].pc \notin {"lock", "lockNext"}
    BY <1>0 DEF IInv, CallsOK, CallOK
  <2>2. exclusive[o.block] = NoBackend
    BY <1>0 DEF MayLock, MayShare
  <2> QED
    BY <1>0, <1>1, <1>3, <2>1, <2>2, PageAssumption
<1> QED
  BY <1>0, <1>1, <1>3, <1>4, <1>5, <1>6, CallStep DEF Writing

LEMMA LockCurrentStep == ASSUME IInv, NEW b \in Backend, LockCurrent(b) PROVE IInv'
<1> DEFINE o == op[b]
           page == pages[o.current]
<1>0. /\ TypeOK /\ CallOK(b) /\ o \in Ops /\ o.pc = "write" /\ extension # b
      /\ Initialised(o.current) /\ o.current \in Block /\ page \in Page
      /\ o.item \in Item /\ written[o.item].at = NoPointer /\ shared[b] = 0
      /\ MayLock(o.current) /\ \A block \in Block : exclusive[block] # b
  BY Before DEF LockCurrent, CallOK, Writing, Holding, Initialised
<1>1. /\ UNCHANGED << disk, shared, extension, vac, outcome >>
      /\ exclusive' = [exclusive EXCEPT ![o.current] = b]
      /\ op' = [op EXCEPT ![b].pc = IF HasRoom(page) THEN "add" ELSE "full", ![b].image = page]
  BY <1>0 DEF LockCurrent, Register, Initialised
<1>3. /\ op' \in [Backend -> Ops] /\ op'[b].pc = (IF HasRoom(page) THEN "add" ELSE "full")
      /\ op'[b].current = o.current /\ op'[b].image = page /\ op'[b].type = o.type
      /\ op'[b].item = o.item /\ \A c \in Backend \ {b} : op'[c] = op[c]
  BY <1>0, <1>1 DEF TypeOK, Ops, Stages
<1>4. TypeOK'
  BY <1>0, <1>1, <1>3 DEF TypeOK, disk, outcome
<1>5. CallOK(b)'
  BY <1>0, <1>1, <1>3 DEF CallOK, Writing, Holding, Initialised, disk, outcome, TypeOK
<1>6. ASSUME NEW c \in Backend \ {b}
      PROVE  /\ op'[c] = op[c] /\ shared'[c] = shared[c] /\ (extension = c <=> extension' = c)
             /\ \A block \in Block : exclusive[block] = c <=> exclusive'[block] = c
             /\ op[c].pc \in {"lock", "lockNext"} => MayLock(op[c].block)'
  <2>1. exclusive[o.current] = NoBackend
    BY <1>0 DEF MayLock, MayShare
  <2>2. op[c].pc \in {"lock", "lockNext"} => op[c].block # o.current /\ MayLock(op[c].block)
    BY <1>0, EmptyPages DEF IInv, CallsOK, CallOK, Initialised
  <2> QED
    BY <1>0, <1>1, <1>3, <2>1, <2>2, PageAssumption DEF TypeOK, MayLock, MayShare, NotShared
<1> QED
  BY <1>0, <1>1, <1>3, <1>4, <1>5, <1>6, CallStep DEF Writing

LEMMA ReadStep == ASSUME IInv, NEW b \in Backend, NEW i \in Item, Read(b, i) PROVE IInv'
<1> DEFINE block == written[i].at.block
<1>0. /\ TypeOK /\ CallOK(b) /\ op[b] \in Ops /\ op[b].pc = "idle" /\ extension # b
      /\ Initialised(block) /\ block \in 0 .. MaxBlock
      /\ \A x \in Block : exclusive[x] # b
  <2>1. /\ TypeOK /\ DiskOK /\ ItemsKept /\ CallOK(b) /\ op[b] \in Ops /\ MaxBlock \in Nat
        /\ op[b].pc = "idle" /\ written[i].at # NoPointer
    BY Before DEF Read
  <2>2. extension # b /\ \A x \in Block : exclusive[x] # b
    BY <2>1 DEF CallOK, Holding
  <2>3. Initialised(block) /\ block \in DOMAIN pages
    BY <2>1, ItemPlace
  <2>4. block \in 0 .. MaxBlock
    BY <2>1, <2>3, PagesThere DEF Block
  <2> QED
    BY <2>1, <2>2, <2>3, <2>4
<1>1. /\ UNCHANGED << disk, exclusive, extension, vac, outcome >>
      /\ shared' = [shared EXCEPT ![b] = block]
      /\ op' = [op EXCEPT ![b].pc = "reading"]
  BY <1>0 DEF Read, Goto, Initialised
<1>2. /\ op' \in [Backend -> Ops] /\ op'[b].pc = "reading"
      /\ \A c \in Backend \ {b} : op'[c] = op[c]
  BY <1>0, <1>1 DEF TypeOK, Ops, Stages
<1>3. TypeOK'
  BY <1>0, <1>1, <1>2 DEF TypeOK, disk, outcome
<1>4. CallOK(b)'
  BY <1>0, <1>1, <1>2 DEF CallOK, Writing, Holding, Initialised, disk, TypeOK
<1>5. ASSUME NEW c \in Backend \ {b}
      PROVE  /\ op'[c] = op[c] /\ shared'[c] = shared[c] /\ (extension = c <=> extension' = c)
             /\ \A x \in Block : exclusive[x] = c <=> exclusive'[x] = c
             /\ op[c].pc \in {"lock", "lockNext"} => MayLock(op[c].block)'
  <2>1. op[c].pc \in {"lock", "lockNext"} => op[c].block # block /\ MayLock(op[c].block)
    BY <1>0, EmptyPages DEF IInv, CallsOK, CallOK, Initialised
  <2> QED
    BY <1>0, <1>1, <1>2, <2>1 DEF TypeOK, MayLock, MayShare, NotShared
<1> QED
  BY <1>0, <1>1, <1>2, <1>3, <1>4, <1>5, CallStep DEF Writing

\* Other calls when one gives up locks.
LEMMA LocksGivenUp ==
  ASSUME IInv, NEW b \in Backend, NEW c \in Backend \ {b}, op'[c] = op[c],
         shared' = [shared EXCEPT ![b] = 0],
         extension' = (IF extension = b THEN NoBackend ELSE extension),
         exclusive' = [block \in Block |->
                         IF exclusive[block] = b THEN NoBackend ELSE exclusive[block]]
  PROVE  /\ shared'[c] = shared[c] /\ (extension = c <=> extension' = c)
         /\ \A block \in Block : exclusive[block] = c <=> exclusive'[block] = c
         /\ op[c].pc \in {"lock", "lockNext"} => MayLock(op[c].block)'
<1>1. shared'[c] = shared[c] /\ (extension = c <=> extension' = c)
      /\ \A block \in Block : exclusive[block] = c <=> exclusive'[block] = c
  BY PageAssumption DEF IInv, TypeOK
<1>2. op[c].pc \in {"lock", "lockNext"} => op[c].block \in Block /\ MayLock(op[c].block)
  BY PagesThere DEF IInv, CallsOK, CallOK
<1>3. op[c].pc \in {"lock", "lockNext"} => \A d \in Backend : shared'[d] # op[c].block
  BY <1>2, PagesThere DEF IInv, TypeOK, MayLock, NotShared
<1>4. op[c].pc \in {"lock", "lockNext"} => exclusive'[op[c].block] = NoBackend
  BY <1>2 DEF MayLock, MayShare
<1> QED
  BY <1>1, <1>3, <1>4 DEF MayLock, MayShare, NotShared

LEMMA IdleCall == Idle \in Ops /\ Idle.pc = "idle" /\ Idle.item = NoItem
<1>1. Zeros \in Page /\ 0 \in 0 .. MaxBlock
  BY EmptyPages, PageAssumption
<1> QED
  BY <1>1 DEF Idle, Ops, Stages, PageType

\* A call that holds nothing and has no item to write.
LEMMA FreeCall ==
  ASSUME NEW b, op'[b].pc \in {"idle", "evict", "written"}, extension' # b, shared'[b] = 0,
         \A block \in Block : exclusive'[block] # b,
         op'[b].pc \in {"evict", "written"} =>
           op'[b].item \in Item /\ written'[op'[b].item].at # NoPointer,
         op'[b].pc = "evict" => op'[b].block = written'[op'[b].item].at.block
  PROVE  CallOK(b)'
BY DEF CallOK, Writing, Holding

LEMMA DropNodeStep == ASSUME IInv, NEW b \in Backend, DropNode(b) PROVE IInv'
<1>0. /\ TypeOK /\ CallOK(b) /\ op[b] \in Ops /\ op[b].pc = "reading" /\ extension # b
      /\ \A x \in Block : exclusive[x] # b
      /\ UNCHANGED << disk, exclusive, extension, vac, outcome >>
      /\ shared' = [shared EXCEPT ![b] = 0]
  BY Before DEF DropNode, CallOK, Holding
<1>1. PICK r \in Ops : /\ op' = [op EXCEPT ![b] = r]
                       /\ \/ r.pc = "idle"
                          \/ /\ r.pc = "evict" /\ r.item \in Item /\ Evictable(r.item)
                             /\ r.block = written[r.item].at.block
  <2>1. CASE op' = [op EXCEPT ![b] = Idle]
    BY <2>1, IdleCall
  <2>2. ASSUME NEW i \in Item, Evictable(i), EvictNext(b, i)
        PROVE  \E r \in Ops : /\ op' = [op EXCEPT ![b] = r]
                              /\ r.pc = "evict" /\ r.item = i
                              /\ r.block = written[i].at.block
    <3>1. written[i].at.block \in 0 .. MaxBlock
      BY <1>0 DEF TypeOK, Pointer
    <3>2. [Idle EXCEPT !.pc = "evict", !.item = i, !.block = written[i].at.block] \in Ops
      BY <3>1, IdleCall DEF Ops, Stages
    <3>3. ASSUME NEW n
          PROVE  /\ [Idle EXCEPT !.pc = "evict", !.item = i, !.block = n].pc = "evict"
                 /\ [Idle EXCEPT !.pc = "evict", !.item = i, !.block = n].item = i
                 /\ [Idle EXCEPT !.pc = "evict", !.item = i, !.block = n].block = n
      BY IdleCall DEF Ops
    <3> QED
      BY <2>2, <3>2, <3>3 DEF EvictNext
  <2> QED
    BY <2>1, <2>2 DEF DropNode
<1>2. op' \in [Backend -> Ops] /\ op'[b] = r /\ \A c \in Backend \ {b} : op'[c] = op[c]
  BY <1>0, <1>1 DEF TypeOK
<1>3. TypeOK'
  <2>1. shared' \in [Backend -> 0 .. MaxBlock]
    BY <1>0, PageAssumption DEF TypeOK
  <2> QED
    BY <1>0, <1>2, <2>1 DEF TypeOK, disk, outcome
<1>4. CallOK(b)'
  <2>1. extension' # b /\ shared'[b] = 0 /\ \A block \in Block : exclusive'[block] # b
    BY <1>0, PageAssumption DEF TypeOK
  <2>2. op'[b].pc = "evict" =>
          /\ op'[b].item \in Item /\ written'[op'[b].item].at # NoPointer
          /\ op'[b].block = written'[op'[b].item].at.block
    BY <1>0, <1>1, <1>2 DEF outcome, Evictable
  <2>3. op'[b].pc \in {"idle", "evict"}
    BY <1>1, <1>2
  <2> QED
    BY <2>1, <2>2, <2>3, FreeCall
<1>5. exclusive' = [block \in Block |->
                      IF exclusive[block] = b THEN NoBackend ELSE exclusive[block]]
  BY <1>0 DEF TypeOK
<1>6. extension' = (IF extension = b THEN NoBackend ELSE extension)
  BY <1>0
<1>7. \A c \in Backend \ {b} :
           /\ op'[c] = op[c] /\ shared'[c] = shared[c] /\ (extension = c <=> extension' = c)
           /\ \A block \in Block : exclusive[block] = c <=> exclusive'[block] = c
           /\ op[c].pc \in {"lock", "lockNext"} => MayLock(op[c].block)'
  BY <1>0, <1>2, <1>5, <1>6, LocksGivenUp
<1> QED
  BY <1>0, <1>1, <1>2, <1>3, <1>4, <1>7, CallStep DEF Writing

LEMMA AbortStep == ASSUME IInv, NEW b \in Backend, Abort(b) PROVE IInv'
<1>0. /\ TypeOK
      /\ UNCHANGED << disk, vac, outcome >> /\ op' = [op EXCEPT ![b] = Idle]
      /\ shared' = [shared EXCEPT ![b] = 0]
      /\ extension' = (IF extension = b THEN NoBackend ELSE extension)
      /\ exclusive' = [block \in Block |->
                         IF exclusive[block] = b THEN NoBackend ELSE exclusive[block]]
  BY DEF Abort, IInv
<1>1. op' \in [Backend -> Ops] /\ op'[b] = Idle /\ \A c \in Backend \ {b} : op'[c] = op[c]
  BY <1>0, IdleCall DEF TypeOK
<1>2. TypeOK'
  BY <1>0, <1>1, PageAssumption DEF TypeOK, disk, outcome
<1>3. CallOK(b)'
  <2>1. extension' # b /\ shared'[b] = 0 /\ \A block \in Block : exclusive'[block] # b
    BY <1>0, PageAssumption DEF TypeOK
  <2>2. op'[b].pc = "idle"
    BY <1>1, IdleCall
  <2> QED
    BY <2>1, <2>2, FreeCall
<1>4. \A c \in Backend \ {b} :
           /\ op'[c] = op[c] /\ shared'[c] = shared[c] /\ (extension = c <=> extension' = c)
           /\ \A block \in Block : exclusive[block] = c <=> exclusive'[block] = c
           /\ op[c].pc \in {"lock", "lockNext"} => MayLock(op[c].block)'
  BY <1>0, <1>1, LocksGivenUp
<1> QED
  BY <1>0, <1>1, <1>2, <1>3, <1>4, CallStep, IdleCall DEF Writing

--------------------------------------------------------------------------------
(***************************************************************************)
(* Steps that write pages                                                  *)
(***************************************************************************)

LEMMA SameLog ==
  ASSUME log' = log, durable' = durable
  PROVE  /\ \A k, block : Replay(k, block)' = Replay(k, block)
         /\ \A k : Image(k)' = Image(k)
BY DEF Replay, Image

LEMMA SameImages ==
  ASSUME log' = log, durable' = durable, written' = written, committed' = committed, KeptInImages
  PROVE  KeptInImages'
<1>1. ASSUME NEW i \in committed, NEW k \in 0 .. Len(log)
      PROVE  \E rev \in BOOLEAN : HoldsAt(Image(k)', written'[i].at, i, rev)
  BY SameLog DEF KeptInImages
<1> QED
  BY <1>1 DEF KeptInImages, HoldsAt

LEMMA ExtendStep == ASSUME IInv, NEW b \in Backend, Extend(b) PROVE IInv'
<1> DEFINE o == op[b]
<1>0. /\ TypeOK /\ DiskOK /\ CallOK(b) /\ o \in Ops /\ o.pc \in {"new", "full"}
      /\ o.item \in Item /\ written[o.item].at = NoPointer /\ shared[b] = 0
      /\ pages \in Seq(Page)
      /\ DOMAIN pages = 1 .. Len(pages) /\ Len(pages) \in 1 .. MaxBlock /\ MaxBlock \in Nat
      /\ Len(pages) < MaxBlock
  BY Before DEF Extend, CallOK, Writing, TypeOK
<1>1. PICK n \in Block : n = Len(pages) + 1
  BY <1>0 DEF Block
<1>2. /\ UNCHANGED << durable, log, exclusive, shared, vac, outcome >>
      /\ extension = NoBackend /\ extension' = b
      /\ pages' = Append(pages, Zeros)
      /\ op' = [op EXCEPT ![b].pc = IF @ = "new" THEN "lock" ELSE "lockNext", ![b].block = n]
  BY <1>1 DEF Extend
<1>3. /\ op' \in [Backend -> Ops] /\ op'[b].pc = (IF o.pc = "new" THEN "lock" ELSE "lockNext")
      /\ op'[b].current = o.current /\ op'[b].block = n
      /\ op'[b].item = o.item /\ \A c \in Backend \ {b} : op'[c] = op[c]
  <2>1. n \in 0 .. MaxBlock
    BY <1>0, <1>1
  <2> QED
    BY <1>0, <1>2, <2>1 DEF TypeOK, Ops, Stages
<1>4. /\ pages' \in Seq(Page) /\ Len(pages') = n /\ pages'[n] = Zeros
      /\ \A block \in DOMAIN pages : pages'[block] = pages[block] /\ block \in DOMAIN pages'
      /\ DOMAIN pages' = DOMAIN pages \cup {n} /\ n \notin DOMAIN pages
  <2>1. Zeros \in Page
    BY EmptyPages
  <2>2. /\ pages' \in Seq(Page) /\ Len(pages') = n /\ pages'[n] = Zeros
        /\ \A block \in 1 .. Len(pages) : pages'[block] = pages[block]
    BY <1>0, <1>1, <1>2, <2>1, AppendProperties
  <2>3. DOMAIN pages' = 1 .. n
    BY <2>2, LenProperties
  <2> QED
    BY <1>0, <1>1, <2>2, <2>3
<1>5. TypeOK'
  <2>1. n \in 1 .. MaxBlock
    BY <1>0, <1>1
  <2> QED
    BY <1>0, <1>2, <1>3, <1>4, <2>1 DEF TypeOK, outcome
<1>6. Grows
  BY <1>2, <1>4 DEF Grows, outcome
<1>7. MayLock(n)'
  <2>1. ASSUME NEW c \in Backend PROVE exclusive[n] # c
    BY <1>1, <1>4 DEF IInv, CallsOK, CallOK
  <2>2. ASSUME NEW c \in Backend PROVE shared[c] # n
    BY <1>0, <1>1, <1>4 DEF IInv, CallsOK, CallOK
  <2> QED
    BY <1>0, <1>1, <1>2, <2>1, <2>2 DEF TypeOK, MayLock, MayShare, NotShared
<1>8. CallOK(b)'
  <2>1. Initialised(o.current) => o.current \in DOMAIN pages' /\ Verify(pages'[o.current])
    BY <1>6 DEF Initialised, Verify, Grows
  <2> QED
    BY <1>0, <1>2, <1>3, <1>4, <1>7, <2>1 DEF CallOK, Writing, Holding, Initialised, outcome
<1>9. ASSUME NEW c \in Backend \ {b} PROVE CallOK(c)'
  <2>1. CallOK(c)
    BY DEF IInv, CallsOK
  <2>2. op[c].pc \notin {"lock", "lockNext"} /\ extension # c /\ extension' # c
    BY <1>2, <2>1, PageAssumption DEF CallOK
  <2>3. op[c].pc \in Writing => written'[op[c].item].at = NoPointer
    BY <1>2, <2>1 DEF CallOK, outcome
  <2> QED
    BY <1>2, <1>3, <1>4, <1>6, <2>2, <2>3, OtherCall
<1>10. WritersApart'
  BY <1>0, <1>3 DEF IInv, WritersApart, Writing
<1>11. DiskOK'
  <2>1. \A block \in Block :
           Replay(Len(log), block)' = IF block \in DOMAIN pages' THEN pages'[block] ELSE Zeros
    BY <1>0, <1>2, <1>4, SameLog DEF DiskOK
  <2> QED
    BY <1>0, <1>2, <1>4, <2>1 DEF DiskOK
<1>12. ItemsKept'
  <2>1. KeptOnPages /\ KeptInImages
    BY Kept DEF IInv
  <2>2. KeptOnPages'
    BY <1>2, <1>4, <2>1 DEF KeptOnPages, HoldsAt, outcome
  <2>3. KeptInImages'
    BY <1>2, <2>1, SameImages DEF outcome
  <2> QED
    BY <2>2, <2>3 DEF ItemsKept, KeptOnPages, KeptInImages
<1>13. WalkOK'
  BY <1>2, <1>5, <1>6, WalkKept
<1> QED
  BY <1>5, <1>8, <1>9, <1>10, <1>11, <1>12, <1>13 DEF IInv, CallsOK

\* A step of b that logs one page.
LEMMA PageWritten ==
  ASSUME IInv, NEW b \in Backend, NEW x \in DOMAIN pages, NEW q \in Page,
         CommitPage(b, x, q), UNCHANGED << durable, shared, extension, vac, committed, crashes >>,
         exclusive[x] \in {b, NoBackend},
         Verify(q), Verify(pages[x]) => q.type = pages[x].type,
         op' \in [Backend -> Ops], written' \in [Item -> [at : Pointer, rev : BOOLEAN]],
         \A i \in Item : written[i].at # NoPointer => written'[i].at = written[i].at,
         KeptOnPages',
         \A c \in Backend \ {b} :
           /\ op'[c] = op[c]
           /\ op[c].pc \in {"lock", "lockNext"} => op[c].block # x
           /\ op[c].pc \in Writing => written'[op[c].item].at = NoPointer,
         CallOK(b)',
         op'[b].pc \in Writing => op[b].pc \in Writing /\ op'[b].item = op[b].item
  PROVE  IInv'
<1>0. /\ TypeOK /\ x \in Block /\ pages \in Seq(Page)
      /\ DOMAIN pages = 1 .. Len(pages) /\ Len(pages) \in 1 .. MaxBlock
  BY Before DEF TypeOK
<1>1. /\ pages' = [pages EXCEPT ![x] = q]
      /\ log' = Append(log, [block |-> x, page |-> q])
      /\ exclusive' = [exclusive EXCEPT ![x] = NoBackend]
  BY DEF CommitPage
<1>2. /\ pages' \in Seq(Page) /\ Len(pages') = Len(pages) /\ DOMAIN pages' = DOMAIN pages
      /\ \A block \in DOMAIN pages : pages'[block] = IF block = x THEN q ELSE pages[block]
  BY <1>0, <1>1, ExceptSeq
<1>3. TypeOK'
  <2>1. log' \in Seq(Record)
    <3>1. PICK len \in Nat : len = Len(log)
      BY <1>0, PagesThere
    <3> QED
      BY <1>0, <1>1, <3>1, Appended
  <2> QED
    BY <1>0, <1>1, <1>2, <2>1 DEF TypeOK, Record
<1>4. Grows
  BY <1>2 DEF Grows
<1>5. DiskOK' /\ ItemsKept'
  BY <1>1, <1>3, PageChanged
<1>6. ASSUME NEW c \in Backend \ {b} PROVE CallOK(c)'
  <2>1. CallOK(c)
    BY DEF IInv, CallsOK
  <2>2. \A block \in Block : exclusive[block] = c <=> exclusive'[block] = c
    BY <1>0, <1>1, PageAssumption DEF TypeOK
  <2>3. \A block \in DOMAIN pages : exclusive[block] = c => pages'[block] = pages[block]
    BY <1>2, PageAssumption
  <2>4. op[c].pc \in {"lock", "lockNext"} =>
          pages'[op[c].block] = Zeros /\ MayLock(op[c].block)'
    BY <1>0, <1>1, <1>2, <2>1, PagesThere DEF CallOK, MayLock, MayShare, NotShared, TypeOK
  <2> QED
    BY <1>4, <2>2, <2>3, <2>4, OtherCall
<1>7. WritersApart'
  BY DEF IInv, WritersApart
<1>8. WalkOK'
  BY <1>3, <1>4, WalkKept
<1> QED
  BY <1>3, <1>5, <1>6, <1>7, <1>8 DEF IInv, CallsOK

LEMMA CommitEmptyStep == ASSUME IInv, NEW b \in Backend, CommitEmpty(b) PROVE IInv'
<1> DEFINE o == op[b]
<1>0. /\ TypeOK /\ DiskOK /\ ItemsKept /\ CallOK(b) /\ o \in Ops /\ o.pc = "init"
      /\ o.current \in DOMAIN pages /\ exclusive[o.current] = b /\ o.current \in Block
      /\ pages[o.current] = Zeros /\ o.image = Reinit(o.type) /\ o.type \in PageType
      /\ o.item \in Item /\ written[o.item].at = NoPointer /\ shared[b] = 0 /\ extension # b
      /\ \A block \in Block : exclusive[block] = b => block = o.current
      /\ DOMAIN pages \subseteq Block
  BY Before DEF CommitEmpty, CallOK, Writing, Holding, Ops
<1>1. /\ CommitPage(b, o.current, o.image)
      /\ op' = [op EXCEPT ![b].pc = "write", ![b].image = Zeros]
      /\ UNCHANGED << durable, shared, extension, vac, outcome >>
  BY DEF CommitEmpty
<1>2. PICK x \in DOMAIN pages : x = o.current
  BY <1>0
<1>3. PICK q \in Page : q = o.image /\ Verify(q) /\ q.items = << >>
  BY <1>0, EmptyPages
<1>4. /\ op' \in [Backend -> Ops] /\ op'[b].pc = "write" /\ op'[b].current = x
      /\ op'[b].item = o.item /\ \A c \in Backend \ {b} : op'[c] = op[c]
  BY <1>0, <1>1, <1>2, EmptyPages DEF TypeOK, Ops, Stages
<1>5. /\ \A block \in DOMAIN pages : pages'[block] = IF block = x THEN q ELSE pages[block]
      /\ DOMAIN pages' = DOMAIN pages
      /\ exclusive' = [exclusive EXCEPT ![x] = NoBackend]
  BY <1>1, <1>2, <1>3 DEF CommitPage
<1>6. KeptOnPages'
  <2>1. ASSUME NEW i \in Item, written[i].at # NoPointer
        PROVE  HoldsAt(pages', written[i].at, i, written[i].rev)
    <3>1. written[i].at.block \in DOMAIN pages /\ Initialised(written[i].at.block)
      BY <1>0, <2>1, ItemPlace
    <3>2. written[i].at.block # x
      BY <1>0, <1>2, <3>1, EmptyPages DEF Initialised
    <3> QED
      BY <1>0, <1>5, <2>1, <3>1, <3>2 DEF ItemsKept, HoldsAt
  <2> QED
    BY <1>1, <2>1 DEF KeptOnPages, HoldsAt, outcome
<1>7. CallOK(b)'
  <2>1. Verify(pages'[x]) /\ x \in DOMAIN pages'
    BY <1>3, <1>5
  <2>2. \A block \in Block : exclusive'[block] # b
    BY <1>0, <1>2, <1>5, PageAssumption DEF TypeOK
  <2> QED
    BY <1>0, <1>1, <1>4, <2>1, <2>2 DEF CallOK, Writing, Holding, Initialised, outcome
<1>8. ASSUME NEW c \in Backend \ {b}
      PROVE  /\ op[c].pc \in {"lock", "lockNext"} => op[c].block # x
             /\ op[c].pc \in Writing => written'[op[c].item].at = NoPointer
  <2>1. CallOK(c)
    BY DEF IInv, CallsOK
  <2> QED
    BY <1>0, <1>1, <1>2, <2>1, PageAssumption DEF CallOK, MayLock, MayShare, outcome
<1>9. UNCHANGED << durable, shared, extension, vac, committed, crashes >> /\ written' = written
  BY <1>1 DEF outcome
<1>10. ~Verify(pages[x])
  BY <1>0, <1>2, EmptyPages
<1>11. CommitPage(b, x, q)
  BY <1>1, <1>2, <1>3
<1>12. written' \in [Item -> [at : Pointer, rev : BOOLEAN]]
  BY <1>0, <1>9 DEF TypeOK
<1> QED
  BY <1>0, <1>2, <1>3, <1>4, <1>6, <1>7, <1>8, <1>9, <1>10, <1>11, <1>12, PageWritten DEF Writing

LEMMA AddAndCommitStep == ASSUME IInv, NEW b \in Backend, AddAndCommit(b) PROVE IInv'
<1> DEFINE o == op[b]
<1>0. /\ TypeOK /\ DiskOK /\ ItemsKept /\ WritersApart /\ CallOK(b) /\ o \in Ops /\ o.pc = "add"
      /\ o.current \in DOMAIN pages /\ exclusive[o.current] = b /\ o.current \in Block
      /\ o.image \in Page /\ HasRoom(o.image) /\ o.type \in PageType
      /\ \/ Verify(o.image) /\ o.image = pages[o.current]
         \/ pages[o.current] = Zeros /\ o.image = Reinit(o.type)
      /\ o.item \in Item /\ written[o.item].at = NoPointer /\ shared[b] = 0 /\ extension # b
      /\ \A block \in Block : exclusive[block] = b => block = o.current
      /\ DOMAIN pages \subseteq Block
  BY Before DEF AddAndCommit, CallOK, Writing, Holding, Ops
<1>1. PICK x \in DOMAIN pages : x = o.current
  BY <1>0
<1>2. PICK i \in Item : i = o.item
  BY <1>0
<1>3. PICK q \in Page :
        /\ q = AddItem(o.image, i) /\ q.type = o.image.type
        /\ Len(q.items) = Len(o.image.items) + 1 /\ Len(q.items) \in 1 .. Capacity
        /\ q.items[Len(q.items)] = [item |-> i, rev |-> FALSE]
        /\ \A k \in 1 .. Len(o.image.items) : q.items[k] = o.image.items[k]
  BY <1>0, ItemAdded
<1>4. Verify(q) /\ (Verify(pages[x]) => q.type = pages[x].type)
  BY <1>0, <1>1, <1>3, EmptyPages DEF Verify
<1>5. PICK at \in Pointer : at = [block |-> x, offset |-> Len(q.items)]
  <2>1. x \in 0 .. MaxBlock /\ Len(q.items) \in 0 .. Capacity
    BY <1>0, <1>1, <1>3, PageAssumption DEF Block
  <2> QED
    BY <2>1 DEF Pointer
<1>6. /\ CommitPage(b, x, q)
      /\ written' = [written EXCEPT ![i] = [at |-> at, rev |-> FALSE]]
      /\ op' = [op EXCEPT ![b] = [Idle EXCEPT !.pc = "written", !.item = i]]
      /\ UNCHANGED << durable, shared, extension, vac, committed, crashes >>
  BY <1>1, <1>2, <1>3, <1>5 DEF AddAndCommit
<1>7. /\ \A block \in DOMAIN pages : pages'[block] = IF block = x THEN q ELSE pages[block]
      /\ DOMAIN pages' = DOMAIN pages
      /\ exclusive' = [exclusive EXCEPT ![x] = NoBackend]
  BY <1>6 DEF CommitPage
<1>8. at # NoPointer /\ at.block = x /\ at.offset = Len(q.items)
  BY <1>0, <1>1, <1>5, PagesThere DEF NoPointer
<1>9. /\ written' \in [Item -> [at : Pointer, rev : BOOLEAN]]
      /\ written'[i].at = at /\ \A j \in Item \ {i} : written'[j] = written[j]
      /\ ~written'[i].rev
  BY <1>0, <1>6 DEF TypeOK
<1>10. /\ op' \in [Backend -> Ops] /\ op'[b].pc = "written" /\ op'[b].item = i
       /\ \A c \in Backend \ {b} : op'[c] = op[c]
  <2>1. /\ [Idle EXCEPT !.pc = "written", !.item = i] \in Ops
        /\ [Idle EXCEPT !.pc = "written", !.item = i].pc = "written"
        /\ [Idle EXCEPT !.pc = "written", !.item = i].item = i
    BY IdleCall DEF Ops, Stages
  <2> QED
    BY <1>0, <1>6, <2>1 DEF TypeOK
<1>11. DOMAIN q.items = 1 .. Len(q.items)
  BY PageItems
<1>12. KeptOnPages'
  <2>1. HoldsAt(pages', at, i, FALSE)
    BY <1>3, <1>7, <1>8, <1>11 DEF HoldsAt
  <2>2. ASSUME NEW j \in Item \ {i}, written[j].at # NoPointer
        PROVE  HoldsAt(pages', written[j].at, j, written[j].rev)
    <3>1. /\ written[j].at.block \in DOMAIN pages /\ Initialised(written[j].at.block)
          /\ written[j].at.offset \in DOMAIN pages[written[j].at.block].items
          /\ pages[written[j].at.block].items[written[j].at.offset]
               = [item |-> j, rev |-> written[j].rev]
      BY <1>0, <2>2, ItemPlace
    <3>2. CASE written[j].at.block = x
      <4>1. pages[x] = o.image
        BY <1>0, <1>1, <3>1, <3>2, EmptyPages DEF Initialised
      <4>2. DOMAIN o.image.items = 1 .. Len(o.image.items) /\ Len(o.image.items) \in Nat
        BY <1>0, PageItems, PageAssumption
      <4>3. PICK n \in 1 .. Len(o.image.items) : n = written[j].at.offset
        BY <3>1, <3>2, <4>1, <4>2
      <4>4. \A m \in Nat : n \in 1 .. m => n \in 1 .. m + 1
        OBVIOUS
      <4>5. n \in DOMAIN q.items /\ q.items[n] = o.image.items[n]
        BY <1>3, <1>11, <4>2, <4>4
      <4> QED
        BY <1>7, <3>1, <3>2, <4>1, <4>3, <4>5 DEF HoldsAt
    <3>3. CASE written[j].at.block # x
      BY <1>7, <3>1, <3>3 DEF HoldsAt
    <3> QED
      BY <3>2, <3>3
  <2>3. ASSUME NEW j \in Item, written'[j].at # NoPointer
        PROVE  HoldsAt(pages', written'[j].at, j, written'[j].rev)
    <3>1. CASE j = i
      <4>1. written'[i].rev = FALSE
        BY <1>0, <1>6 DEF TypeOK
      <4> QED
        BY <1>9, <2>1, <3>1, <4>1
    <3>2. CASE j # i
      BY <1>9, <2>2, <2>3, <3>2
    <3> QED
      BY <3>1, <3>2
  <2> QED
    BY <2>3 DEF KeptOnPages, HoldsAt
<1>13. CallOK(b)'
  <2>1. \A block \in Block : exclusive'[block] # b
    BY <1>0, <1>1, <1>7, PageAssumption DEF TypeOK
  <2> QED
    BY <1>0, <1>6, <1>8, <1>9, <1>10, <2>1, FreeCall
<1>14. ASSUME NEW c \in Backend \ {b}
       PROVE  /\ op[c].pc \in {"lock", "lockNext"} => op[c].block # x
              /\ op[c].pc \in Writing => written'[op[c].item].at = NoPointer
  <2>1. CallOK(c)
    BY DEF IInv, CallsOK
  <2>2. op[c].pc \in Writing => op[c].item # i
    BY <1>0, <1>2 DEF WritersApart, Writing
  <2>3. exclusive[x] # NoBackend
    BY <1>0, <1>1, PageAssumption
  <2> QED
    BY <1>9, <2>1, <2>2, <2>3 DEF CallOK, MayLock, MayShare
<1>15. \A j \in Item : written[j].at # NoPointer => written'[j].at = written[j].at
  BY <1>0, <1>2, <1>9
<1> QED
  BY <1>0, <1>1, <1>4, <1>6, <1>9, <1>10, <1>12, <1>13, <1>14, <1>15, PageWritten DEF Writing

LEMMA EvictStep == ASSUME IInv, NEW b \in Backend, Evict(b) PROVE IInv'
<1>0. /\ TypeOK /\ DiskOK /\ ItemsKept /\ CallOK(b) /\ op[b].pc = "evict"
      /\ op[b].item \in Item /\ written[op[b].item].at # NoPointer
      /\ shared[b] = 0 /\ extension # b /\ \A block \in Block : exclusive[block] # b
  BY Before DEF Evict, CallOK, Holding
<1>1. PICK i \in Item : i = op[b].item
  BY <1>0
<1>2. PICK x \in DOMAIN pages : x = written[i].at.block
  BY <1>0, <1>1, ItemPlace
<1>3. PICK k \in DOMAIN pages[x].items : k = written[i].at.offset
  BY <1>0, <1>1, <1>2, ItemPlace
<1>4. /\ pages[x] \in Page /\ x \in Block /\ Verify(pages[x])
      /\ pages[x].items[k] = [item |-> i, rev |-> written[i].rev]
  BY <1>0, <1>1, <1>2, <1>3, ItemPlace, PagesThere DEF Initialised
<1>5. PICK q \in Page :
        /\ q = Rewritten(pages[x], k)
        /\ q.type = pages[x].type /\ DOMAIN q.items = DOMAIN pages[x].items
        /\ q.items[k] = [item |-> i, rev |-> TRUE]
        /\ \A n \in DOMAIN pages[x].items \ {k} : q.items[n] = pages[x].items[n]
  BY <1>4, ItemRewritten
<1>6. /\ MayLock(x) /\ CommitPage(b, x, q)
      /\ written' = [written EXCEPT ![i].rev = TRUE]
      /\ op' = [op EXCEPT ![b] = Idle]
      /\ UNCHANGED << durable, shared, extension, vac, committed, crashes >>
  <2>1. LET at == written[op[b].item].at
        IN  /\ MayLock(at.block)
            /\ CommitPage(b, at.block, Rewritten(pages[at.block], at.offset))
    BY Zenon DEF Evict, Rewritten
  <2>2. MayLock(x) /\ CommitPage(b, x, q)
    BY <1>1, <1>2, <1>3, <1>5, <2>1
  <2>3. /\ written' = [written EXCEPT ![i].rev = TRUE]
        /\ op' = [op EXCEPT ![b] = Idle]
        /\ UNCHANGED << durable, shared, extension, vac, committed, crashes >>
    BY <1>1, Zenon DEF Evict
  <2> QED
    BY <2>2, <2>3, Zenon
<1>6a. /\ MayLock(x) /\ CommitPage(b, x, q) /\ op' = [op EXCEPT ![b] = Idle]
       /\ UNCHANGED << durable, shared, extension, vac, committed, crashes >>
  BY <1>6, Zenon
<1>7. /\ \A block \in DOMAIN pages : pages'[block] = IF block = x THEN q ELSE pages[block]
      /\ DOMAIN pages' = DOMAIN pages
      /\ exclusive' = [exclusive EXCEPT ![x] = NoBackend]
  BY <1>6a DEF CommitPage
<1>8. /\ written' \in [Item -> [at : Pointer, rev : BOOLEAN]]
      /\ written'[i] = [at |-> written[i].at, rev |-> TRUE]
      /\ \A j \in Item \ {i} : written'[j] = written[j]
  <2>1. ASSUME NEW w \in [at : Pointer, rev : BOOLEAN], NEW v
        PROVE  [w EXCEPT !.rev = v] = [at |-> w.at, rev |-> v]
    OBVIOUS
  <2>2. written[i] \in [at : Pointer, rev : BOOLEAN]
    BY <1>0 DEF TypeOK
  <2>3. [written[i] EXCEPT !.rev = TRUE] = [at |-> written[i].at, rev |-> TRUE]
    BY <2>1, <2>2
  <2>4. written' = [written EXCEPT ![i] = [at |-> written[i].at, rev |-> TRUE]]
    BY <1>6, <2>3, Zenon
  <2>5. [at |-> written[i].at, rev |-> TRUE] \in [at : Pointer, rev : BOOLEAN]
    BY <2>2
  <2> QED
    BY <1>0, <2>4, <2>5 DEF TypeOK
<1>9. op' \in [Backend -> Ops] /\ op'[b] = Idle /\ \A c \in Backend \ {b} : op'[c] = op[c]
  BY <1>0, <1>6a, IdleCall DEF TypeOK
<1>10. KeptOnPages'
  <2>1. ASSUME NEW j \in Item, written[j].at # NoPointer
        PROVE  HoldsAt(pages', written'[j].at, j, written'[j].rev)
    <3>1. /\ written[j].at.block \in DOMAIN pages
          /\ written[j].at.offset \in DOMAIN pages[written[j].at.block].items
          /\ pages[written[j].at.block].items[written[j].at.offset]
               = [item |-> j, rev |-> written[j].rev]
      BY <1>0, <2>1, ItemPlace
    <3>2. CASE j = i
      <4>1. x \in DOMAIN pages' /\ k \in DOMAIN pages'[x].items
            /\ pages'[x].items[k] = [item |-> i, rev |-> TRUE]
        BY <1>5, <1>7
      <4>2. written'[j].at.block = x /\ written'[j].at.offset = k /\ written'[j].rev = TRUE
        BY <1>2, <1>3, <1>8, <3>2
      <4> QED
        BY <3>2, <4>1, <4>2 DEF HoldsAt
    <3>3. CASE j # i
      <4>1. written[j].at.block = x => written[j].at.offset # k
        BY <1>4, <3>1, <3>3
      <4> QED
        BY <1>5, <1>7, <1>8, <3>1, <3>3, <4>1 DEF HoldsAt
    <3> QED
      BY <3>2, <3>3
  <2> QED
    BY <1>8, <2>1 DEF KeptOnPages, HoldsAt
<1>11. CallOK(b)'
  <2>1. \A block \in Block : exclusive'[block] # b
    BY <1>0, <1>7, PageAssumption DEF TypeOK
  <2> QED
    BY <1>0, <1>6a, <1>9, <2>1, FreeCall, IdleCall
<1>12. ASSUME NEW c \in Backend \ {b}
       PROVE  /\ op[c].pc \in {"lock", "lockNext"} => op[c].block # x
              /\ op[c].pc \in Writing => written'[op[c].item].at = NoPointer
  <2>1. CallOK(c)
    BY DEF IInv, CallsOK
  <2> QED
    BY <1>4, <1>8, <2>1, EmptyPages DEF CallOK
<1>13. \A j \in Item : written[j].at # NoPointer => written'[j].at = written[j].at
  BY <1>8
<1>14. exclusive[x] = NoBackend
  BY <1>6a DEF MayLock, MayShare
<1>15. Verify(q)
  BY <1>4, <1>5 DEF Verify
<1> QED
  BY <1>5, <1>6a, <1>8, <1>9, <1>10, <1>11, <1>12, <1>13, <1>14, <1>15, PageWritten, IdleCall
     DEF Writing
--------------------------------------------------------------------------------
(***************************************************************************)
(* Steps that make the log durable                                         *)
(***************************************************************************)

\* Every image is of pages, and those without a type are zeros.
LEMMA ImagePages ==
  ASSUME TypeOK, DiskOK, NEW k \in 0 .. Len(log)
  PROVE  /\ Image(k) \in [Block -> Page]
         /\ \A block \in Block : IsNew(Image(k)[block]) => Image(k)[block] = Zeros
<1>1. ASSUME NEW block \in Block
      PROVE  Replay(k, block) \in Page /\ (IsNew(Replay(k, block)) => Replay(k, block) = Zeros)
  <2>1. durable[block] \in Page /\ (IsNew(durable[block]) => durable[block] = Zeros)
    BY DEF TypeOK, DiskOK
  <2>2. ASSUME NEW n \in 1 .. Len(log) PROVE log[n].page \in Page /\ ~IsNew(log[n].page)
    BY PagesThere DEF DiskOK, Record
  <2> QED
    BY <2>1, <2>2, ReplayFrom
<1> QED
  BY <1>1 DEF Image

\* With an empty log there is one image.
LEMMA LogEmptied ==
  ASSUME NEW image \in [Block -> Page], log' = << >>, durable' = image
  PROVE  /\ log' \in Seq(Record) /\ Len(log') = 0 /\ DOMAIN log' = {}
         /\ \A k \in 0 .. Len(log') : Image(k)' = image
         /\ \A block \in Block : Replay(Len(log), block)' = image[block]
<1>1. log' \in Seq(Record) /\ Len(log') = 0 /\ DOMAIN log' = {}
  BY EmptySeq
<1>2. ASSUME NEW k, k = 0, NEW block PROVE Replay(k, block)' = image[block]
  <2>1. RecordsOf(k, block)' = {}
    BY <1>2 DEF RecordsOf
  <2> QED
    BY <2>1 DEF Replay, RecordsOf
<1>3. \A k \in 0 .. Len(log') : Image(k)' = image
  <2>1. ASSUME NEW k \in 0 .. Len(log') PROVE Image(k)' = image
    <3>1. k = 0
      BY <1>1
    <3>2. Image(k)' = [block \in Block |-> image[block]]
      BY <1>2, <3>1 DEF Image
    <3> QED
      BY <3>2
  <2> QED
    BY <2>1
<1>4. ASSUME NEW block \in Block PROVE Replay(Len(log), block)' = image[block]
  <2>1. RecordsOf(Len(log), block)' = {}
    BY <1>1 DEF RecordsOf
  <2> QED
    BY <2>1 DEF Replay, RecordsOf
<1> QED
  BY <1>1, <1>3, <1>4

LEMMA CommitTransactionStep ==
  ASSUME IInv, NEW b \in Backend, CommitTransaction(b) PROVE IInv'
<1>0. /\ TypeOK /\ DiskOK /\ ItemsKept /\ CallOK(b) /\ op[b].pc = "written"
      /\ op[b].item \in Item /\ written[op[b].item].at # NoPointer
      /\ shared[b] = 0 /\ extension # b /\ \A block \in Block : exclusive[block] # b
      /\ DOMAIN pages \subseteq Block
  BY Before DEF CommitTransaction, CallOK, Holding
<1>1. /\ UNCHANGED << pages, locks, vac, written, crashes >>
      /\ committed' = committed \cup {op[b].item} /\ op' = [op EXCEPT ![b] = Idle]
      /\ log' = << >>
  BY DEF CommitTransaction
<1>2. PICK image \in [Block -> Page] :
        /\ image = Image(Len(log)) /\ durable' = image
        /\ \A block \in Block : IsNew(image[block]) => image[block] = Zeros
  <2>1. Len(log) \in 0 .. Len(log)
    BY <1>0, PagesThere
  <2> QED
    BY <1>0, <2>1, ImagePages DEF CommitTransaction
<1>3. \A block \in Block : image[block] = IF block \in DOMAIN pages THEN pages[block] ELSE Zeros
  BY <1>0, <1>2 DEF Image, DiskOK
<1>4. /\ log' \in Seq(Record) /\ DOMAIN log' = {}
      /\ \A k \in 0 .. Len(log') : Image(k)' = image
      /\ \A block \in Block : Replay(Len(log), block)' = image[block]
  BY <1>1, <1>2, LogEmptied
<1>5. op' \in [Backend -> Ops] /\ op'[b] = Idle /\ \A c \in Backend \ {b} : op'[c] = op[c]
  BY <1>0, <1>1, IdleCall DEF TypeOK
<1>6. TypeOK'
  BY <1>0, <1>1, <1>2, <1>4, <1>5 DEF TypeOK, locks, Record
<1>7. DiskOK'
  BY <1>0, <1>1, <1>2, <1>3, <1>4 DEF DiskOK
<1>8. KeptOnPages' /\ KeptInImages'
  <2>1. KeptOnPages
    BY <1>0, Kept
  <2>2. KeptOnPages'
    BY <1>1, <2>1 DEF KeptOnPages, HoldsAt
  <2>3. ASSUME NEW i \in Item, written[i].at # NoPointer
        PROVE  written[i].rev \in BOOLEAN /\ HoldsAt(image, written[i].at, i, written[i].rev)
    BY <1>0, <1>3, <2>1, <2>3 DEF KeptOnPages, HoldsAt, TypeOK
  <2>4. ASSUME NEW i \in committed' PROVE i \in Item /\ written[i].at # NoPointer
    BY <1>0, <1>1, CommittedWritten
  <2>5. ASSUME NEW i \in committed', NEW k \in 0 .. Len(log')
        PROVE  \E rev \in BOOLEAN : HoldsAt(Image(k)', written'[i].at, i, rev)
    BY <1>1, <1>4, <2>3, <2>4
  <2> QED
    BY <2>2, <2>5 DEF KeptInImages, HoldsAt
<1>9. ItemsKept'
  BY <1>8 DEF ItemsKept, KeptOnPages, KeptInImages
<1>10. CallOK(b)'
  BY <1>0, <1>1, <1>5, FreeCall, IdleCall DEF locks
<1>11. Grows
  BY <1>1 DEF Grows
<1>12. ASSUME NEW c \in Backend \ {b} PROVE CallOK(c)'
  <2>1. CallOK(c)
    BY DEF IInv, CallsOK
  <2>2. op'[c] = op[c]
    BY <1>5
  <2>3. op[c].pc \in {"lock", "lockNext"} => pages'[op[c].block] = Zeros
    BY <1>1, <2>1 DEF CallOK
  <2>4. op[c].pc \in Writing => written'[op[c].item].at = NoPointer
    BY <1>1, <2>1 DEF CallOK
  <2> QED
    BY <1>1, <1>11, <2>2, <2>3, <2>4, LocksLeft, OtherCall
<1>13. WritersApart'
  BY <1>5, IdleCall DEF IInv, WritersApart, Writing
<1>14. WalkOK'
  BY <1>1, <1>6, <1>11, WalkKept
<1> QED
  BY <1>6, <1>7, <1>9, <1>10, <1>12, <1>13, <1>14 DEF IInv, CallsOK

LEMMA CrashStep == ASSUME IInv, Crash PROVE IInv'
<1>0. /\ TypeOK /\ DiskOK /\ ItemsKept /\ DOMAIN pages \subseteq Block
      /\ Len(pages) \in 1 .. MaxBlock /\ MaxBlock \in Nat /\ MaxCrashes \in Nat
      /\ crashes \in 0 .. MaxCrashes
  BY PagesThere, PageAssumption DEF IInv, TypeOK
<1>1. /\ crashes < MaxCrashes /\ crashes' = crashes + 1 /\ committed' = committed
      /\ exclusive' = [block \in Block |-> NoBackend] /\ shared' = [b \in Backend |-> 0]
      /\ extension' = NoBackend /\ op' = [b \in Backend |-> Idle] /\ vac' = NoWalk
      /\ log' = << >>
  BY DEF Crash
<1> DEFINE Found(image, i) == {rev \in BOOLEAN : HoldsAt(image, written[i].at, i, rev)}
<1>2. PICK k \in 0 .. Len(log), size \in 1 .. Len(pages) :
        /\ size \in Sizes(Image(k))
        /\ pages' = [block \in 1 .. size |-> Image(k)[block]]
        /\ durable' = Image(k)
        /\ written' = [i \in Item |->
                IF Found(Image(k), i) = {} THEN [at |-> NoPointer, rev |-> FALSE]
                ELSE [at |-> written[i].at, rev |-> TRUE \in Found(Image(k), i)]]
  BY DEF Crash, Sizes
<1>3. PICK image \in [Block -> Page] :
        /\ image = Image(k) /\ \A block \in Block : IsNew(image[block]) => image[block] = Zeros
  BY <1>0, ImagePages
<1>4. /\ size \in 1 .. Len(pages) /\ size \in 1 .. MaxBlock
      /\ \A block \in Block : ~IsNew(image[block]) => block <= size
  <2>1. size \in 1 .. Len(pages) /\ \A block \in Block : ~IsNew(image[block]) => block <= size
    BY <1>2, <1>3 DEF Sizes
  <2> QED
    BY <1>0, <2>1
<1>5. /\ pages' = [block \in 1 .. size |-> image[block]] /\ durable' = image
      /\ written' = [i \in Item |->
                IF Found(image, i) = {} THEN [at |-> NoPointer, rev |-> FALSE]
                ELSE [at |-> written[i].at, rev |-> TRUE \in Found(image, i)]]
  BY <1>2, <1>3
<1>6. /\ pages' \in Seq(Page) /\ Len(pages') = size /\ DOMAIN pages' = 1 .. size
      /\ \A block \in 1 .. size : block \in Block /\ pages'[block] = image[block]
  <2>1. size \in Nat /\ \A block \in 1 .. size : block \in Block
    BY <1>0, <1>4 DEF Block
  <2>2. pages' \in [1 .. size -> Page]
    BY <1>5, <2>1
  <2>3. pages' \in Seq(Page)
    BY <2>1, <2>2, SeqDef
  <2>4. DOMAIN pages' = 1 .. size /\ DOMAIN pages' = 1 .. Len(pages') /\ Len(pages') \in Nat
    BY <2>2, <2>3, LenProperties
  <2> QED
    BY <1>5, <2>1, <2>3, <2>4
<1>7. /\ log' \in Seq(Record) /\ DOMAIN log' = {}
      /\ \A n \in 0 .. Len(log') : Image(n)' = image
      /\ \A block \in Block : Replay(Len(log), block)' = image[block]
  BY <1>1, <1>5, LogEmptied
<1>8. written' \in [Item -> [at : Pointer, rev : BOOLEAN]]
  <2>1. NoPointer \in Pointer
    BY <1>0, PageAssumption DEF NoPointer, Pointer
  <2>2. \A i \in Item : written[i].at \in Pointer
    BY <1>0 DEF TypeOK
  <2> QED
    BY <1>5, <2>1, <2>2
<1>9. TypeOK'
  <2>1. crashes' \in 0 .. MaxCrashes
    BY <1>0, <1>1
  <2>2. /\ exclusive' \in [Block -> Backend \cup {NoBackend}]
        /\ shared' \in [Backend -> 0 .. MaxBlock] /\ extension' \in Backend \cup {NoBackend}
        /\ op' \in [Backend -> Ops]
    BY <1>0, <1>1, IdleCall
  <2>3. vac' \in [pc : {"idle", "check", "clean", "done", "failed"}, block : 1 .. MaxBlock + 1,
                  nblocks : 0 .. MaxBlock, due : SUBSET Item]
    BY <1>0, <1>1 DEF NoWalk
  <2>4. pages' \in Seq(Page) /\ Len(pages') \in 1 .. MaxBlock
    BY <1>4, <1>6
  <2>5. committed' \subseteq Item
    BY <1>0, <1>1 DEF TypeOK
  <2> QED
    BY <1>5, <1>7, <1>8, <2>1, <2>2, <2>3, <2>4, <2>5 DEF TypeOK, Record
<1>10. DiskOK'
  <2>1. ASSUME NEW block \in Block
        PROVE  image[block] = IF block \in DOMAIN pages' THEN pages'[block] ELSE Zeros
    <3>1. block \notin 1 .. size => ~(block <= size)
      BY <1>0, <1>4 DEF Block
    <3> QED
      BY <1>3, <1>4, <1>6, <3>1
  <2>2. /\ \A block \in DOMAIN pages' : IsNew(pages'[block]) => pages'[block] = Zeros
        /\ \A block \in Block : IsNew(durable'[block]) => durable'[block] = Zeros
        /\ \A n \in DOMAIN log' : ~IsNew(log'[n].page)
    BY <1>3, <1>5, <1>6, <1>7
  <2>3. \A block \in Block :
       Replay(Len(log), block)' = IF block \in DOMAIN pages' THEN pages'[block] ELSE Zeros
    BY <1>7, <2>1
  <2> QED
    BY <2>2, <2>3 DEF DiskOK
<1>11. ASSUME NEW i \in Item, Found(image, i) # {}
       PROVE  /\ written'[i].at = written[i].at /\ written'[i].rev \in BOOLEAN
              /\ HoldsAt(image, written'[i].at, i, written'[i].rev)
  <2>1. written'[i] = [at |-> written[i].at, rev |-> TRUE \in Found(image, i)]
    BY <1>5, <1>11
  <2>2. PICK rev \in BOOLEAN : HoldsAt(image, written[i].at, i, rev)
    BY <1>11
  <2>3. CASE TRUE \in Found(image, i)
    <3>1. written'[i].rev = TRUE /\ written'[i].at = written[i].at
      <4>1. (TRUE \in Found(image, i)) = TRUE
        BY <2>3, Zenon
      <4>2. written'[i] = [at |-> written[i].at, rev |-> TRUE]
        BY <2>1, <4>1, Zenon
      <4> QED
        BY <4>2
    <3>2. HoldsAt(image, written[i].at, i, TRUE)
      BY <2>3
    <3> QED
      BY <3>1, <3>2
  <2>4. CASE TRUE \notin Found(image, i)
    <3>1. written'[i].rev = FALSE /\ written'[i].at = written[i].at
      <4>1. (TRUE \in Found(image, i)) = FALSE
        <5>1. ASSUME NEW p \in BOOLEAN, ~p PROVE p = FALSE
          BY <5>1
        <5>2. (TRUE \in Found(image, i)) \in BOOLEAN
          OBVIOUS
        <5> QED
          BY <2>4, <5>1, <5>2
      <4>2. written'[i] = [at |-> written[i].at, rev |-> FALSE]
        BY <2>1, <4>1, Zenon
      <4> QED
        BY <4>2
    <3>2. rev # TRUE
      BY <2>2, <2>4
    <3>3. rev = FALSE
      BY <3>2
    <3> QED
      BY <2>2, <3>1, <3>3
  <2> QED
    BY <2>3, <2>4
<1>12. ASSUME NEW i \in Item, written'[i].at # NoPointer
       PROVE  HoldsAt(pages', written'[i].at, i, written'[i].rev)
  <2>1. Found(image, i) # {}
    BY <1>5, <1>12
  <2>2. HoldsAt(image, written'[i].at, i, written'[i].rev)
    BY <1>11, <2>1
  <2>3. PICK block \in Block : block = written'[i].at.block
    BY <1>3, <2>2 DEF HoldsAt
  <2>4. ~IsNew(image[block])
    BY <1>3, <2>2, <2>3, EmptyPages, EmptySeq DEF HoldsAt
  <2>5. block \in 1 .. size
    BY <1>0, <1>4, <2>4 DEF Block
  <2> QED
    BY <1>6, <2>2, <2>3, <2>5 DEF HoldsAt
<1>13. ASSUME NEW i \in committed', NEW n \in 0 .. Len(log')
       PROVE  \E rev \in BOOLEAN : HoldsAt(Image(n)', written'[i].at, i, rev)
  <2>1. i \in committed /\ i \in Item
    BY <1>0, <1>1 DEF TypeOK
  <2>2. \E rev \in BOOLEAN : HoldsAt(image, written[i].at, i, rev)
    BY <1>0, <1>2, <1>3, <2>1 DEF ItemsKept
  <2>3. Found(image, i) # {}
    BY <2>2
  <2> QED
    BY <1>7, <1>11, <2>1, <2>3
<1>14. ItemsKept'
  BY <1>12, <1>13 DEF ItemsKept, HoldsAt
<1>15. ASSUME NEW b \in Backend PROVE CallOK(b)'
  <2>1. /\ op'[b] = Idle /\ extension' # b /\ shared'[b] = 0
        /\ \A block \in Block : exclusive'[block] # b
    BY <1>1, PageAssumption
  <2> QED
    BY <2>1, FreeCall, IdleCall
<1>16. WritersApart'
  BY <1>1, IdleCall DEF WritersApart, Writing
<1>17. WalkOK'
  BY <1>1 DEF WalkOK, NoWalk
<1> QED
  BY <1>9, <1>10, <1>14, <1>15, <1>16, <1>17 DEF IInv, CallsOK
--------------------------------------------------------------------------------
(***************************************************************************)
(* Steps of VACUUM                                                         *)
(***************************************************************************)

Walks == [pc : {"idle", "check", "clean", "done", "failed"}, block : 1 .. MaxBlock + 1,
          nblocks : 0 .. MaxBlock, due : SUBSET Item]

LEMMA NothingElse ==
  ASSUME IInv, UNCHANGED << disk, locks, op, outcome >>, vac' \in Walks, WalkOK'
  PROVE  IInv'
<1>0. /\ pages' = pages /\ log' = log /\ durable' = durable
      /\ exclusive' = exclusive /\ shared' = shared /\ extension' = extension /\ op' = op
      /\ written' = written /\ committed' = committed /\ crashes' = crashes
  BY DEF disk, locks, outcome
<1>1. TypeOK'
  BY <1>0 DEF IInv, TypeOK, Walks
<1>2. DiskOK'
  BY <1>0, SameLog DEF IInv, DiskOK
<1>3. ItemsKept'
  <2>1. KeptOnPages /\ KeptInImages
    BY Kept DEF IInv
  <2>2. KeptOnPages'
    BY <1>0, <2>1 DEF KeptOnPages, HoldsAt
  <2>3. KeptInImages'
    BY <1>0, <2>1, SameImages
  <2> QED
    BY <2>2, <2>3 DEF ItemsKept, KeptOnPages, KeptInImages
<1>4. CallsOK'
  BY <1>0 DEF IInv, CallsOK, CallOK, Initialised, MayLock, MayShare, NotShared
<1>5. WritersApart'
  BY <1>0 DEF IInv, WritersApart
<1> QED
  BY <1>1, <1>2, <1>3, <1>4, <1>5 DEF IInv

LEMMA BeginWalkStep == ASSUME IInv, BeginWalk PROVE IInv'
<1> DEFINE Due == {i \in Item : written[i].at # NoPointer
                                 /\ pages[written[i].at.block].type = "Node"}
<1>0. /\ TypeOK /\ DiskOK /\ ItemsKept /\ WalkOK
      /\ DOMAIN pages = 1 .. Len(pages) /\ Len(pages) \in 1 .. MaxBlock /\ MaxBlock \in Nat
  BY PagesThere, PageAssumption DEF IInv
<1>1. /\ UNCHANGED << disk, locks, op, outcome >> /\ pages' = pages /\ written' = written
      /\ vac' = [pc |-> "check", block |-> 1, nblocks |-> Len(pages), due |-> Due]
  BY DEF BeginWalk, NoWalk, disk, outcome
<1>2. vac' \in Walks
  BY <1>0, <1>1 DEF Walks
<1>3. ASSUME NEW i \in Due
      PROVE  1 <= written[i].at.block /\ written[i].at.block <= Len(pages)
  <2>1. PICK x \in 1 .. Len(pages) : x = written[i].at.block
    BY <1>0, ItemPlace
  <2> QED
    BY <1>0, <2>1
<1>4. WalkOK'
  BY <1>0, <1>1, <1>3 DEF WalkOK
<1> QED
  BY <1>1, <1>2, <1>4, NothingElse

\* A walk goes on once no item of its page is due.
LEMMA NextPageStep ==
  ASSUME IInv, UNCHANGED << disk, locks, op, outcome >>, vac.pc \in {"check", "clean"},
         NEW due \in SUBSET vac.due, \A i \in due : written[i].at.block # vac.block,
         vac' = NextPage(due)
  PROVE  IInv'
<1>0. /\ TypeOK /\ DiskOK /\ ItemsKept /\ WalkOK
      /\ DOMAIN pages = 1 .. Len(pages) /\ Len(pages) \in 1 .. MaxBlock /\ MaxBlock \in Nat
      /\ vac \in Walks /\ pages' = pages /\ written' = written
  BY PagesThere, PageAssumption DEF IInv, TypeOK, Walks, disk, outcome
<1>1. PICK x \in Nat, n \in Nat : x = vac.block /\ n = vac.nblocks
  BY <1>0 DEF Walks
<1>2. 1 <= x /\ x <= n /\ n <= Len(pages)
  BY <1>0, <1>1 DEF WalkOK, Walks
<1>3. /\ vac'.pc = (IF x < n THEN "check" ELSE "done") /\ vac'.block = x + 1
      /\ vac'.nblocks = n /\ vac'.due = due /\ vac' \in Walks
  BY <1>0, <1>1, <1>2 DEF NextPage, Walks
<1>4. ASSUME NEW i \in due
      PROVE  /\ written[i].at # NoPointer /\ pages[written[i].at.block].type = "Node"
             /\ x + 1 <= written[i].at.block /\ written[i].at.block <= n
  <2>1. /\ written[i].at # NoPointer /\ pages[written[i].at.block].type = "Node"
        /\ x <= written[i].at.block /\ written[i].at.block <= n /\ i \in Item
    BY <1>0, <1>1 DEF WalkOK, Walks
  <2>2. PICK y \in 1 .. Len(pages) : y = written[i].at.block
    BY <1>0, <2>1, ItemPlace
  <2> QED
    BY <1>0, <1>1, <2>1, <2>2
<1>5. ~(x < n) => due = {}
  <2>1. ASSUME ~(x < n), NEW i \in due PROVE FALSE
    <3>1. PICK y \in 1 .. Len(pages) : y = written[i].at.block
      <4>1. i \in Item
        BY <1>0 DEF Walks
      <4> QED
        BY <1>0, <1>4, <4>1, ItemPlace
    <3> QED
      BY <1>0, <1>2, <1>4, <2>1, <3>1
  <2> QED
    BY <2>1
<1>6. WalkOK'
  <2>1. vac'.pc = "check" => x + 1 <= n /\ n <= Len(pages)
    BY <1>2, <1>3
  <2> QED
    BY <1>0, <1>3, <1>4, <1>5, <2>1 DEF WalkOK
<1> QED
  BY <1>3, <1>6, NothingElse

LEMMA CheckPageStep == ASSUME IInv, CheckPage PROVE IInv'
<1>0. /\ TypeOK /\ WalkOK /\ vac \in Walks /\ vac.pc = "check"
      /\ UNCHANGED << disk, locks, op, outcome >> /\ pages' = pages /\ written' = written
  BY DEF IInv, TypeOK, Walks, disk, outcome, CheckPage
<1>1. CASE SkipsPage(pages[vac.block])
  <2>1. pages[vac.block].type # "Node"
    BY <1>1 DEF SkipsPage, IsNew
  <2>2. \A i \in vac.due : written[i].at.block # vac.block
    BY <1>0, <2>1 DEF WalkOK
  <2>3. vac' = NextPage(vac.due)
    BY <1>1 DEF CheckPage
  <2> QED
    BY <1>0, <2>2, <2>3, NextPageStep
<1>2. CASE ~SkipsPage(pages[vac.block])
  <2>1. vac' = [vac EXCEPT !.pc = "clean"]
    BY <1>2 DEF CheckPage
  <2>2. /\ vac' \in Walks /\ vac'.pc = "clean" /\ vac'.block = vac.block
        /\ vac'.nblocks = vac.nblocks /\ vac'.due = vac.due
    BY <1>0, <2>1 DEF Walks
  <2>3. WalkOK'
    BY <1>0, <1>2, <2>2 DEF WalkOK, SkipsPage
  <2> QED
    BY <1>0, <2>2, <2>3, NothingElse
<1> QED
  BY <1>1, <1>2

LEMMA CleanPageStep == ASSUME IInv, CleanPage PROVE IInv'
<1> DEFINE seen == {pages[vac.block].items[k].item : k \in DOMAIN pages[vac.block].items}
<1>0. /\ TypeOK /\ DiskOK /\ ItemsKept /\ WalkOK /\ vac \in Walks /\ vac.pc = "clean"
      /\ UNCHANGED << disk, locks, op, outcome >>
  BY DEF IInv, TypeOK, Walks, CleanPage
<1>1. Verify(pages[vac.block])
  BY <1>0 DEF WalkOK, Verify
<1>2. vac' = NextPage(vac.due \ seen)
  BY <1>1 DEF CleanPage
<1>3. ASSUME NEW i \in vac.due \ seen PROVE written[i].at.block # vac.block
  <2>1. /\ i \in Item /\ written[i].at # NoPointer
    BY <1>0 DEF WalkOK, Walks
  <2>2. /\ written[i].at.offset \in DOMAIN pages[written[i].at.block].items
        /\ pages[written[i].at.block].items[written[i].at.offset].item = i
    <3>1. /\ written[i].at.offset \in DOMAIN pages[written[i].at.block].items
          /\ pages[written[i].at.block].items[written[i].at.offset]
               = [item |-> i, rev |-> written[i].rev]
      BY <1>0, <2>1, ItemPlace
    <3> QED
      BY <3>1
  <2> QED
    BY <2>2
<1> HIDE DEF seen
<1> QED
  BY <1>0, <1>2, <1>3, NextPageStep

--------------------------------------------------------------------------------
(***************************************************************************)
(* The invariant holds                                                     *)
(***************************************************************************)

LEMMA InvInit == Init => IInv
<1> SUFFICES ASSUME Init PROVE IInv
  OBVIOUS
<1>1. /\ Reinit("Meta") \in Page /\ Verify(Reinit("Meta")) /\ ~IsNew(Reinit("Meta"))
      /\ Zeros \in Page
  BY EmptyPages DEF PageType
<1>2. PICK q \in Page : q = Reinit("Meta") /\ ~IsNew(q)
  BY <1>1
<1>3. /\ pages = << q >> /\ durable = [block \in Block |-> IF block = 1 THEN q ELSE Zeros]
      /\ log = << >> /\ exclusive = [block \in Block |-> NoBackend]
      /\ shared = [b \in Backend |-> 0] /\ extension = NoBackend
      /\ op = [b \in Backend |-> Idle] /\ vac = NoWalk
      /\ written = [i \in Item |-> [at |-> NoPointer, rev |-> FALSE]]
      /\ committed = {} /\ crashes = 0
  BY <1>2 DEF Init
<1>4. /\ pages \in Seq(Page) /\ Len(pages) = 1 /\ DOMAIN pages = {1} /\ pages[1] = q
      /\ log \in Seq(Record) /\ DOMAIN log = {}
  BY <1>3
<1>5. /\ MaxBlock \in Nat \ {0} /\ MaxCrashes \in Nat /\ NoBackend \notin Backend
      /\ Capacity \in Nat
  BY PageAssumption
<1>6. TypeOK
  <2>1. vac \in Walks
    BY <1>3, <1>5 DEF NoWalk, Walks
  <2>2. written \in [Item -> [at : Pointer, rev : BOOLEAN]]
    BY <1>3, <1>5 DEF NoPointer, Pointer
  <2>3. durable \in [Block -> Page]
    BY <1>1, <1>3
  <2>4. Len(pages) \in 1 .. MaxBlock
    BY <1>4, <1>5
  <2>5. op \in [Backend -> Ops] /\ shared \in [Backend -> 0 .. MaxBlock] /\ crashes \in 0 .. MaxCrashes
    BY <1>3, <1>5, IdleCall
  <2> QED
    BY <1>3, <1>4, <2>1, <2>2, <2>3, <2>4, <2>5 DEF TypeOK, Record, Walks
<1>7. DiskOK
  <2>1. ASSUME NEW block \in Block PROVE Replay(Len(log), block) = durable[block]
    <3>1. RecordsOf(Len(log), block) = {}
      BY <1>3 DEF RecordsOf
    <3> QED
      BY <3>1, ReplayIs
  <2> QED
    BY <1>2, <1>3, <1>4, <2>1 DEF DiskOK
<1>8. ItemsKept
  BY <1>3 DEF ItemsKept
<1>9. ASSUME NEW b \in Backend PROVE CallOK(b)
  BY <1>3, <1>5, IdleCall DEF CallOK, Writing, Holding
<1>10. WritersApart /\ WalkOK
  BY <1>3, IdleCall DEF WritersApart, WalkOK, Writing, NoWalk
<1> QED
  BY <1>6, <1>7, <1>8, <1>9, <1>10 DEF IInv, CallsOK

LEMMA InvStep == IInv /\ [Next]_vars => IInv'
<1> SUFFICES ASSUME IInv, [Next]_vars PROVE IInv'
  OBVIOUS
<1>1. CASE UNCHANGED vars
  <2>1. UNCHANGED << disk, locks, op, outcome >> /\ vac' = vac
    BY <1>1 DEF vars
  <2>2. Grows /\ vac' \in Walks
    BY <2>1 DEF Grows, disk, outcome, IInv, TypeOK, Walks
  <2>3. WalkOK'
    BY <2>1 DEF IInv, WalkOK, disk, outcome
  <2> QED
    BY <2>1, <2>2, <2>3, NothingElse
<1>2. ASSUME NEW b \in Backend, Step(b) PROVE IInv'
  BY <1>2, ScanBlockStep, ExtendStep, LockNewStep, CommitEmptyStep, LockCurrentStep,
     AddAndCommitStep, CommitTransactionStep, DropNodeStep, EvictStep DEF Step
<1>3. ASSUME NEW b \in Backend, Abort(b) PROVE IInv'
  BY <1>3, AbortStep
<1>4. ASSUME NEW b \in Backend, NEW i \in Item, Read(b, i) PROVE IInv'
  BY <1>4, ReadStep
<1>5. ASSUME NEW b \in Backend, NEW i \in Item, NEW t \in PageType, Begin(b, i, t) PROVE IInv'
  BY <1>5, BeginStep
<1>6. CASE Walk
  BY <1>6, BeginWalkStep, CheckPageStep, CleanPageStep DEF Walk
<1>7. CASE Crash
  BY <1>7, CrashStep
<1> QED
  BY <1>1, <1>2, <1>3, <1>4, <1>5, <1>6, <1>7 DEF Next

LEMMA Invariant == Spec => []IInv
<1> QED
  BY InvInit, InvStep, PTL DEF Spec

--------------------------------------------------------------------------------
(***************************************************************************)
(* The variables of Tape keep their types, through every call of           *)
(* util/tape.rs, a walk of VACUUM, errors and crashes.                     *)
(***************************************************************************)
THEOREM TypeCorrect == Spec => []TypeOK
<1>1. IInv => TypeOK
  BY DEF IInv
<1> QED
  BY <1>1, Invariant, PTL

(***************************************************************************)
(* No call and no walk of VACUUM fails on a page of zeros, whatever an     *)
(* interrupted extension or a crash left (Tape::new, ReadablePage::is_new, *)
(* TsvPageOpaqueData::verify).                                             *)
(***************************************************************************)
THEOREM ReadersNeverFail == Spec => []NoPageFails
<1>1. IInv => NoPageFails
  BY DEF IInv, CallsOK, CallOK, WalkOK, NoPageFails
<1> QED
  BY <1>1, Invariant, PTL

(***************************************************************************)
(* A pointer given out by Tape::write reads its item as long as no crash   *)
(* takes it back, and never one of a committed transaction                 *)
(* (WritablePage::commit, one Generic WAL record for each page).           *)
(***************************************************************************)
THEOREM PointersStay == Spec => []ItemsKept
<1>1. IInv => ItemsKept
  BY DEF IInv
<1> QED
  BY <1>1, Invariant, PTL

(***************************************************************************)
(* VACUUM examines every node that was stored when its walk began          *)
(* (bulk_delete_for_storage).                                              *)
(***************************************************************************)
THEOREM WalksComplete == Spec => []WalkComplete
<1>1. IInv => WalkComplete
  BY DEF IInv, WalkOK, WalkComplete
<1> QED
  BY <1>1, Invariant, PTL

(***************************************************************************)
(* No circle of backends waits for page locks and the extension lock: who  *)
(* holds the extension lock waits for nobody, who holds a full page waits  *)
(* for the extension lock only, and a reader waits for nothing             *)
(* (Tape::write, WritablePage::new, BuilderNeighborCache).                 *)
(***************************************************************************)
THEOREM NoDeadlock == Spec => []NoWaitCircle
<1>1. ASSUME IInv PROVE NoWaitCircle
  <2>0. ASSUME NEW b \in Backend PROVE CallOK(b) /\ op[b] \in Ops /\ shared[b] \in 0 .. MaxBlock
    BY <1>1 DEF IInv, CallsOK, TypeOK
  <2>1. ASSUME NEW b \in Backend, op[b].pc \in {"lock", "lockNext"}, NEW c \in Backend
        PROVE  ~WaitsFor(b, c)
    BY <2>0, <2>1, PageAssumption DEF WaitsFor, CallOK, MayLock, MayShare, NotShared
  <2>2. ASSUME NEW b \in Backend, op[b].pc \in {"new", "full"}, NEW c \in Backend, WaitsFor(b, c)
        PROVE  op[c].pc \in {"lock", "lockNext"}
    BY <2>0, <2>2 DEF WaitsFor, CallOK
  <2>3. ASSUME NEW b \in Backend, op[b].pc \in {"init", "add", "reading"}, NEW c \in Backend
        PROVE  ~WaitsFor(b, c)
    BY <2>3 DEF WaitsFor
  <2>4. ASSUME NEW b \in Backend, op[b].pc \in {"scan", "write", "evict"},
               NEW c \in Backend, WaitsFor(b, c)
        PROVE  op[c].pc \in Holding \cup {"reading"}
    <3>1. PICK x \in Block : exclusive[x] = c \/ shared[c] = x
      <4>1. CASE op[b].pc = "scan"
        BY <1>1, <2>0, <2>4, <4>1, PagesThere DEF WaitsFor, CallOK, IInv
      <4>2. CASE op[b].pc = "write"
        BY <1>1, <2>0, <2>4, <4>2, PagesThere DEF WaitsFor, CallOK, IInv, Initialised
      <4>3. CASE op[b].pc = "evict"
        <5>1. op[b].block \in Block
          BY <1>1, <2>0, <4>3, ItemPlace, PagesThere DEF CallOK, IInv
        <5> QED
          BY <2>4, <4>3, <5>1 DEF WaitsFor
      <4> QED
        BY <2>4, <4>1, <4>2, <4>3
    <3>2. x # 0
      BY <1>1, PagesThere DEF IInv
    <3> QED
      BY <2>0, <3>1, <3>2 DEF CallOK
  <2>5. SUFFICES ASSUME NEW S \in (SUBSET Backend) \ {{}}, \A b \in S : \E c \in S : WaitsFor(b, c)
                 PROVE  FALSE
    BY DEF NoWaitCircle
  <2>6. \A b \in S : op[b].pc \notin {"lock", "lockNext", "init", "add", "reading"}
    BY <2>1, <2>3, <2>5
  <2>7. \A b \in S : op[b].pc \notin {"new", "full"}
    BY <2>2, <2>5, <2>6
  <2>8. \A b \in S : op[b].pc \in {"scan", "write", "evict"}
    BY <2>0, <2>5, <2>6, <2>7 DEF WaitsFor
  <2>9. PICK b \in S : TRUE
    <3>1. S # {}
      OBVIOUS
    <3> QED
      BY <3>1
  <2>10. PICK c \in S : WaitsFor(b, c)
    BY <2>5
  <2> QED
    BY <2>4, <2>6, <2>7, <2>8, <2>10 DEF Holding
<1> QED
  BY <1>1, Invariant, PTL
================================================================================
