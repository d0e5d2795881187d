----------------------------- MODULE MetaPageProofs -----------------------------
(***************************************************************************)
(* Theorems about MetaPage, for every set of backends, nodes and labels,   *)
(* every size of the metadata and every length of the relation.            *)
(***************************************************************************)
EXTENDS MetaPage, TLAPS

--------------------------------------------------------------------------------
(***************************************************************************)
(* Versions                                                                *)
(***************************************************************************)

\* Every root of v is a root of w.
Extends(v, w) == \A k \in Key : v[k] # NoNode => w[k] = v[k]

LEMMA PublishedFacts ==
  ASSUME NEW v \in Roots, NEW n \in Node, NEW labels \in SUBSET Label
  PROVE  /\ Published(v, n, labels) \in Roots
         /\ Extends(v, Published(v, n, labels))
         /\ Covers(Published(v, n, labels), labels)
         /\ \A k \in Key : Published(v, n, labels)[k] \in {v[k], n}
<1>1. n # NoNode
  BY KeyAssumption
<1>2. Published(v, n, labels) \in Roots
  BY DEF Published, Roots
<1>3. \A k \in Key : Published(v, n, labels)[k] =
                       IF k \in labels \cup {DefaultRoot} /\ v[k] = NoNode THEN n ELSE v[k]
  BY DEF Published
<1>4. labels \cup {DefaultRoot} \subseteq Key
  BY DEF Key
<1> QED
  BY <1>1, <1>2, <1>3, <1>4 DEF Extends, Covers

LEMMA CoversExtends ==
  ASSUME NEW v, NEW w, NEW labels \in SUBSET Label, Covers(v, labels), Extends(v, w)
  PROVE  Covers(w, labels)
  BY DEF Covers, Extends, Key

LEMMA ExtendsTransitive ==
  ASSUME NEW u, NEW v, NEW w, Extends(u, v), Extends(v, w)
  PROVE  Extends(u, w)
  BY DEF Extends

\* The chunks of one version, all of them and in order, deserialize to it.
LEMMA DeserializeVersion ==
  ASSUME NEW v \in Roots, NEW got, IsVersion(got, v)
  PROVE  Deserialize(got) = v
<1>1. 1 \in 1..Len(got)
  BY ChunksAssumption DEF IsVersion
<1>2. \A w \in Roots : IsVersion(got, w) => w = v
  BY <1>1 DEF IsVersion
<1> HIDE DEF IsVersion
<1> QED
  BY <1>2 DEF Deserialize

\* The first chunk of a whole chain is on the root page.
LEMMA ChainRoot ==
  ASSUME NEW image, NEW v \in Roots, NEW path \in ChainsOf(image, v)
  PROVE  /\ path \in [1..Chunks[v] -> Block]
         /\ path[1] = META_BLOCK_NUMBER
         /\ image.pages[META_BLOCK_NUMBER].of = v
         /\ \A i \in 1..Chunks[v] :
              /\ image.pages[path[i]] = [of |-> v, part |-> i,
                   next |-> IF i < Chunks[v] THEN path[i + 1] ELSE NoBlock]
              /\ image.pages[path[i]].next =
                   IF i < Chunks[v] THEN path[i + 1] ELSE NoBlock
<1>1. 1 \in 1..Chunks[v]
  BY ChunksAssumption
<1>2. /\ path \in [1..Chunks[v] -> Block]
      /\ path[1] = META_BLOCK_NUMBER
      /\ \A i \in 1..Chunks[v] : image.pages[path[i]] =
           [of |-> v, part |-> i,
            next |-> IF i < Chunks[v] THEN path[i + 1] ELSE NoBlock]
  BY DEF ChainsOf
<1>3. ASSUME NEW i \in 1..Chunks[v]
      PROVE  /\ image.pages[path[i]].of = v
             /\ image.pages[path[i]].next = IF i < Chunks[v] THEN path[i + 1] ELSE NoBlock
  <2> DEFINE next == IF i < Chunks[v] THEN path[i + 1] ELSE NoBlock
  <2>1. image.pages[path[i]] = [of |-> v, part |-> i, next |-> next]
    BY <1>2
  <2> HIDE DEF next
  <2>2. image.pages[path[i]].of = v /\ image.pages[path[i]].next = next
    BY <2>1
  <2> QED
    BY <2>2 DEF next
<1> QED
  BY <1>1, <1>2, <1>3

--------------------------------------------------------------------------------
(***************************************************************************)
(* The inductive invariant                                                 *)
(***************************************************************************)

Current == CurrentRoots(disk)

\* A reader's chunks are a prefix of the chain that is current, which its share
\* lock on the root keeps.
FetchOK(image, o) ==
  o.stage = "load" =>
    \E path \in ChainsOf(image, CurrentRoots(image)) :
      /\ Len(o.got) \in 1..Chunks[CurrentRoots(image)]
      /\ \A i \in 1..Len(o.got) : o.got[i] = image.pages[path[i]]
      /\ o.at = IF Len(o.got) < Chunks[CurrentRoots(image)]
                  THEN path[Len(o.got) + 1] ELSE NoBlock

\* What a backend knows of the roots is old, except under the heavyweight lock.
MetaOK(image, o) ==
  /\ o.meta # Corrupt
  /\ o.meta \in Roots => Extends(o.meta, CurrentRoots(image))
  /\ o.stage \in {"have", "prepare"} =>
       o.meta \in Roots /\ (o.locked => o.meta = CurrentRoots(image))
  /\ o.stage = "prepare" => o.locked
  /\ o.stage = "done" => Covers(CurrentRoots(image), o.labels) /\ o.node # NoNode
  /\ o.node # NoNode => o.node \in image.tape
  /\ o.locked => o.node # NoNode

\* The suffix a writer has finished, and the page it is to write next.
PathOK(image, length, o) ==
  o.stage = "prepare" =>
    LET v == Published(o.meta, o.node, o.labels)
        n == Len(o.path)
    IN  /\ n \in 1..Chunks[v]
        /\ o.path[1] = META_BLOCK_NUMBER
        /\ \A i \in 2..n : o.path[i] \in 1..(length - 1)
        /\ \A i \in 2..(n - 1) : image.pages[o.path[i]] =
             [of |-> v, part |-> i, next |-> o.path[i + 1]]
        /\ (n > 1 /\ image.pages[o.path[n]] # NewPage) =>
             /\ n = Chunks[v]
             /\ image.pages[o.path[n]] = [of |-> v, part |-> n, next |-> NoBlock]

Exclusion ==
  \A b, c \in Backend :
    /\ op[b].locked /\ op[c].locked => b = c
    /\ op[b].stage = "prepare" => op[c].stage # "load"

\* Unallocated pages are new, in every image.
Fresh ==
  \A k \in Block : k >= nblocks => disk.pages[k] = NewPage /\ durable.pages[k] = NewPage

\* An image that a reader, or recovery, can start from.
Sound(image) ==
  /\ image.pages[META_BLOCK_NUMBER] \in Chunk
  /\ ChainsOf(image, CurrentRoots(image)) # {}
  /\ \A k \in Key : CurrentRoots(image)[k] \in image.tape \cup {NoNode}

DurableOlder ==
  /\ Extends(CurrentRoots(durable), Current)
  /\ durable.tape \subseteq disk.tape

RowsOK ==
  \A row \in rows : row.node \in durable.tape /\ Covers(CurrentRoots(durable), row.labels)

IInv ==
  /\ TypeOK
  /\ Sound(disk) /\ Sound(durable)
  /\ DurableOlder /\ RowsOK /\ Fresh /\ Exclusion
  /\ \A b \in Backend :
       FetchOK(disk, op[b]) /\ MetaOK(disk, op[b]) /\ PathOK(disk, nblocks, op[b])

LEMMA InvInit == Init => IInv
<1> SUFFICES ASSUME Init PROVE IInv
  OBVIOUS
<1> DEFINE root == [of |-> NoRoots, part |-> 1, next |-> NoBlock]
<1>1. NoRoots \in Roots /\ Chunks[NoRoots] = 1
  BY ChunksAssumption DEF NoRoots, Roots
<1>2. 0 \in Block /\ MaxBlock \in Nat
  BY BlockAssumption DEF Block
<1>3. root \in Chunk /\ root # NewPage /\ root.of = NoRoots
  BY <1>1, NewPageAssumption DEF Chunk
<1>4. /\ disk.pages = [k \in Block |-> IF k = 0 THEN root ELSE NewPage]
      /\ disk.tape = {} /\ disk = [pages |-> disk.pages, tape |-> disk.tape]
      /\ durable = disk
  BY DEF Init, META_BLOCK_NUMBER
<1> HIDE DEF root
<1>5. disk.pages \in [Block -> Page] /\ disk.pages[0] = root
  BY <1>2, <1>3, <1>4 DEF Page
<1>6. Current = NoRoots
  BY <1>3, <1>5 DEF Current, CurrentRoots, META_BLOCK_NUMBER
<1>7. Idle \in Locals
  BY DEF Idle, Locals, Stages
<1>8. TypeOK
  BY <1>2, <1>4, <1>5, <1>7 DEF Init, TypeOK, Images
<1>9. Sound(disk)
  <2> DEFINE path == [i \in 1..1 |-> 0]
  <2>1. path \in ChainsOf(disk, NoRoots)
    BY <1>1, <1>2, <1>5 DEF ChainsOf, META_BLOCK_NUMBER, root
  <2>2. \A k \in Key : NoRoots[k] = NoNode
    BY DEF NoRoots
  <2> QED
    BY <1>3, <1>5, <1>6, <2>1, <2>2 DEF Sound, Current, META_BLOCK_NUMBER
<1>10. DurableOlder /\ RowsOK /\ Fresh
  BY <1>4 DEF Init, DurableOlder, RowsOK, Fresh, Extends, Current
<1>11. \A b \in Backend : op[b] = Idle
  BY DEF Init
<1>12. Exclusion
  BY <1>11 DEF Exclusion, Idle
<1>13. FetchOK(disk, Idle) /\ MetaOK(disk, Idle) /\ PathOK(disk, nblocks, Idle)
  <2>1. Idle.stage = "idle" /\ Idle.meta = NoView /\ ~Idle.locked /\ Idle.node = NoNode
    BY DEF Idle
  <2> QED
    BY <2>1, ViewAssumption DEF FetchOK, MetaOK, PathOK
<1> QED
  BY <1>4, <1>8, <1>9, <1>10, <1>11, <1>12, <1>13 DEF IInv

\* What the invariant says of the version that is current.
LEMMA CurrentFacts ==
  ASSUME IInv
  PROVE  /\ Current \in Roots
         /\ CurrentRoots(durable) \in Roots
         /\ ChainsOf(disk, Current) # {}
         /\ disk.pages \in [Block -> Page] /\ durable.pages \in [Block -> Page]
         /\ disk.tape \in SUBSET Node /\ durable.tape \in SUBSET Node
         /\ disk = [pages |-> disk.pages, tape |-> disk.tape]
         /\ op \in [Backend -> Locals]
         /\ \A b \in Backend : op[b] \in Locals
  BY DEF IInv, TypeOK, Sound, Chunk, Current, CurrentRoots, Images

\* An image in which pages, and nodes of the tape, were added to another one.
Grown(i, j) ==
  /\ \A k \in Block : i.pages[k] # NewPage => j.pages[k] = i.pages[k]
  /\ i.tape \subseteq j.tape

\* No page of a whole chain is new, so additions to an image keep its chains.
LEMMA ChainsKept ==
  ASSUME NEW i, NEW j, Grown(i, j), NEW v \in Roots, NEW path \in ChainsOf(i, v)
  PROVE  /\ path \in ChainsOf(j, v)
         /\ \A n \in 1..Chunks[v] : j.pages[path[n]] = i.pages[path[n]]
<1>1. Chunks[v] \in Nat \ {0}
  BY ChunksAssumption
<1>2. ASSUME NEW n \in 1..Chunks[v]
      PROVE  path[n] \in Block /\ i.pages[path[n]] # NewPage
  <2> DEFINE next == IF n < Chunks[v] THEN path[n + 1] ELSE NoBlock
  <2>1. /\ path \in [1..Chunks[v] -> Block]
        /\ i.pages[path[n]] = [of |-> v, part |-> n, next |-> next]
    BY ChainRoot
  <2>2. next \in Block \cup {NoBlock}
    BY <1>1, <2>1
  <2> HIDE DEF next
  <2>3. i.pages[path[n]] \in Chunk
    BY <2>1, <2>2 DEF Chunk
  <2> QED
    BY <2>1, <2>3, NewPageAssumption
<1>3. \A n \in 1..Chunks[v] : j.pages[path[n]] = i.pages[path[n]]
  BY <1>2 DEF Grown
<1> QED
  BY <1>3 DEF ChainsOf

\* A step that adds to the image and changes the locals of b.
LEMMA GrowStep ==
  ASSUME IInv, NEW b \in Backend, NEW o \in Locals, op' = [op EXCEPT ![b] = o],
         disk' \in Images, Grown(disk, disk'), durable' = durable, rows' = rows,
         nblocks' \in nblocks..(MaxBlock + 1),
         \A k \in Block : k >= nblocks' => disk'.pages[k] = NewPage,
         FetchOK(disk', o), MetaOK(disk', o), PathOK(disk', nblocks', o),
         \A c \in Backend \ {b} :
           /\ ~(o.locked /\ op[c].locked)
           /\ o.stage = "prepare" => op[c].stage # "load"
           /\ op[c].stage = "prepare" =>
                o.stage # "load" /\ disk'.pages = disk.pages /\ nblocks' = nblocks
  PROVE  IInv' /\ Current' = Current
<1>1. op'[b] = o /\ \A c \in Backend \ {b} : op'[c] = op[c]
  BY CurrentFacts
<1>2. TypeOK'
  BY <1>1, CurrentFacts, BlockAssumption DEF IInv, TypeOK
<1>3. Current \in Roots /\ CurrentRoots(disk') = Current
  <2>1. disk.pages[META_BLOCK_NUMBER] # NewPage /\ META_BLOCK_NUMBER \in Block
    BY NewPageAssumption, BlockAssumption DEF IInv, Sound, Block, META_BLOCK_NUMBER
  <2> QED
    BY <2>1, CurrentFacts DEF Grown, Current, CurrentRoots
<1>4. Sound(disk')
  <2>1. disk'.pages[META_BLOCK_NUMBER] \in Chunk
    BY NewPageAssumption, BlockAssumption DEF IInv, Sound, Grown, Block, META_BLOCK_NUMBER
  <2>2. ChainsOf(disk', Current) # {}
    BY <1>3, CurrentFacts, ChainsKept
  <2>3. \A k \in Key : Current[k] \in disk'.tape \cup {NoNode}
    BY DEF IInv, Sound, Grown, Current
  <2> QED
    BY <1>3, <2>1, <2>2, <2>3 DEF Sound
<1>5. Sound(durable')
  BY DEF IInv
<1>6. DurableOlder'
  BY <1>3 DEF IInv, DurableOlder, Grown, Current
<1>7. RowsOK'
  BY DEF IInv, RowsOK
<1>8. Fresh'
  BY CurrentFacts DEF IInv, Fresh, TypeOK, Block
<1>9. Exclusion'
  BY <1>1 DEF IInv, Exclusion
<1>10. ASSUME NEW c \in Backend \ {b}
       PROVE  FetchOK(disk', op[c]) /\ MetaOK(disk', op[c]) /\ PathOK(disk', nblocks', op[c])
  <2>1. FetchOK(disk, op[c]) /\ MetaOK(disk, op[c]) /\ PathOK(disk, nblocks, op[c])
    BY DEF IInv
  <2>2. FetchOK(disk', op[c])
    <3> SUFFICES ASSUME op[c].stage = "load"
                 PROVE  FetchOK(disk', op[c])
      BY DEF FetchOK, Current
    <3>1. PICK path \in ChainsOf(disk, Current) :
            /\ Len(op[c].got) \in 1..Chunks[Current]
            /\ \A i \in 1..Len(op[c].got) : op[c].got[i] = disk.pages[path[i]]
            /\ op[c].at = IF Len(op[c].got) < Chunks[Current]
                            THEN path[Len(op[c].got) + 1] ELSE NoBlock
      BY <2>1 DEF FetchOK, Current
    <3>2. path \in ChainsOf(disk', Current)
      BY <1>3, <3>1, ChainsKept
    <3>3. \A i \in 1..Chunks[Current] : disk'.pages[path[i]] = disk.pages[path[i]]
      BY <1>3, <3>1, ChainsKept
    <3>4. \A i \in 1..Len(op[c].got) : op[c].got[i] = disk'.pages[path[i]]
      BY <1>3, <3>1, <3>3, ChunksAssumption
    <3> QED
      BY <1>3, <3>1, <3>2, <3>4 DEF FetchOK, Current
  <2>3. MetaOK(disk', op[c])
    BY <1>3, <2>1 DEF MetaOK, Grown, Current
  <2>4. PathOK(disk', nblocks', op[c])
    BY <2>1 DEF PathOK
  <2> QED
    BY <2>2, <2>3, <2>4
<1>11. \A c \in Backend :
         FetchOK(disk', op'[c]) /\ MetaOK(disk', op'[c]) /\ PathOK(disk', nblocks', op'[c])
  BY <1>1, <1>10
<1> QED
  BY <1>2, <1>3, <1>4, <1>5, <1>6, <1>7, <1>8, <1>9, <1>11 DEF IInv, Current

\* A step that changes nothing but the locals of b.
LEMMA LocalStep ==
  ASSUME IInv, NEW b \in Backend, disk' = disk, nblocks' = nblocks,
         durable' = durable, rows' = rows,
         NEW o \in Locals, op' = [op EXCEPT ![b] = o],
         FetchOK(disk, o), MetaOK(disk, o), PathOK(disk, nblocks, o),
         \A c \in Backend \ {b} :
           /\ ~(o.locked /\ op[c].locked)
           /\ o.stage = "prepare" => op[c].stage # "load"
           /\ op[c].stage = "prepare" => o.stage # "load"
  PROVE  IInv'
<1>1. disk' \in Images /\ nblocks' \in nblocks..(MaxBlock + 1)
  BY BlockAssumption DEF IInv, TypeOK
<1>2. Grown(disk, disk')
  BY DEF Grown
<1>3. \A k \in Block : k >= nblocks' => disk'.pages[k] = NewPage
  BY DEF IInv, Fresh
<1>4. FetchOK(disk', o) /\ MetaOK(disk', o) /\ PathOK(disk', nblocks', o)
  OBVIOUS
<1> QED
  BY <1>1, <1>2, <1>3, <1>4, GrowStep

LEMMA BeginStep ==
  ASSUME IInv, NEW b \in Backend, NEW labels \in SUBSET Label, Begin(b, labels)
  PROVE  IInv'
<1> DEFINE o == [Idle EXCEPT !.stage = "fetch", !.labels = labels]
<1>1. Idle \in Locals /\ Idle.meta = NoView /\ Idle.locked = FALSE /\ Idle.node = NoNode
  BY DEF Idle, Locals, Stages
<1>2. /\ o \in Locals /\ o.stage = "fetch" /\ o.meta = NoView
      /\ o.locked = FALSE /\ o.node = NoNode
  BY <1>1 DEF Locals, Stages
<1>3. op' = [op EXCEPT ![b] = o] /\ disk' = disk /\ nblocks' = nblocks
      /\ durable' = durable /\ rows' = rows
  BY DEF Begin
<1> HIDE DEF o
<1>4. FetchOK(disk, o) /\ MetaOK(disk, o) /\ PathOK(disk, nblocks, o)
  BY <1>2, ViewAssumption DEF FetchOK, MetaOK, PathOK
<1> QED
  BY <1>2, <1>3, <1>4, LocalStep

LEMMA AbortStep ==
  ASSUME IInv, NEW b \in Backend, Abort(b)
  PROVE  IInv'
<1>1. /\ Idle \in Locals /\ Idle.meta = NoView /\ Idle.locked = FALSE
      /\ Idle.node = NoNode /\ Idle.stage = "idle"
  BY DEF Idle, Locals, Stages
<1>2. op' = [op EXCEPT ![b] = Idle] /\ disk' = disk /\ nblocks' = nblocks
      /\ durable' = durable /\ rows' = rows
  BY DEF Abort
<1>3. FetchOK(disk, Idle) /\ MetaOK(disk, Idle) /\ PathOK(disk, nblocks, Idle)
  BY <1>1, ViewAssumption DEF FetchOK, MetaOK, PathOK
<1> QED
  BY <1>1, <1>2, <1>3, LocalStep

\* A page of the current chain, and where it leads.
LEMMA ChainPage ==
  ASSUME IInv, NEW path \in ChainsOf(disk, Current), NEW i \in 1..Chunks[Current]
  PROVE  LET page == disk.pages[path[i]]
         IN  /\ page \in Page
             /\ NextBlock(page) = IF i < Chunks[Current] THEN path[i + 1] ELSE NoBlock
             /\ NextBlock(page) \in Block \cup {NoBlock}
             /\ page.of = Current
<1> DEFINE next == IF i < Chunks[Current] THEN path[i + 1] ELSE NoBlock
<1>1. Current \in Roots /\ Chunks[Current] \in Nat \ {0} /\ disk.pages \in [Block -> Page]
  BY CurrentFacts, ChunksAssumption
<1>2. path \in [1..Chunks[Current] -> Block]
      /\ disk.pages[path[i]] = [of |-> Current, part |-> i, next |-> next]
  BY <1>1, ChainRoot
<1>3. next \in Block \cup {NoBlock}
  BY <1>1, <1>2
<1> HIDE DEF next
<1>4. disk.pages[path[i]] \in Chunk
  BY <1>1, <1>2, <1>3 DEF Chunk
<1>5. disk.pages[path[i]] # NewPage
  BY <1>4, NewPageAssumption
<1>6. disk.pages[path[i]].next = next /\ disk.pages[path[i]].of = Current
  BY <1>2
<1> QED
  BY <1>3, <1>4, <1>5, <1>6 DEF NextBlock, Page, next

LEMMA FetchRootStep ==
  ASSUME IInv, NEW b \in Backend, FetchRoot(b)
  PROVE  IInv'
<1> DEFINE root == disk.pages[META_BLOCK_NUMBER]
           at == NextBlock(root)
           got == << root >>
           o == [op[b] EXCEPT !.stage = "load", !.got = got, !.at = at]
<1>1. PICK path \in ChainsOf(disk, Current) : TRUE
  BY CurrentFacts
<1>2. Current \in Roots /\ Chunks[Current] \in Nat \ {0}
  BY CurrentFacts, ChunksAssumption
<1>3. path[1] = META_BLOCK_NUMBER
  BY <1>1, <1>2, ChainRoot
<1>4. 1 \in 1..Chunks[Current]
  BY <1>2
<1>5. /\ root = disk.pages[path[1]] /\ root \in Page
      /\ at = IF 1 < Chunks[Current] THEN path[2] ELSE NoBlock
      /\ at \in Block \cup {NoBlock}
  BY <1>1, <1>3, <1>4, ChainPage
<1>6. op' = [op EXCEPT ![b] = o] /\ disk' = disk /\ nblocks' = nblocks
      /\ durable' = durable /\ rows' = rows
  BY CurrentFacts DEF FetchRoot
<1> HIDE DEF root, at
<1>7. got \in Seq(Page) /\ op[b] \in Locals /\ Len(got) = 1 /\ got[1] = root
  BY <1>5, CurrentFacts
<1> HIDE DEF got
<1>8. /\ o \in Locals /\ o.stage = "load" /\ o.got = got /\ o.at = at
      /\ o.meta = op[b].meta /\ o.locked = op[b].locked /\ o.node = op[b].node
  <2>1. o = [op[b] EXCEPT !.stage = "load", !.got = got, !.at = at]
    OBVIOUS
  <2> HIDE DEF o
  <2> QED
    BY <1>5, <1>7, <2>1 DEF Locals, Stages
<1>9. \A c \in Backend : op[c].stage # "prepare"
  BY DEF FetchRoot
<1>10. \A c \in Backend \ {b} : ~(op[b].locked /\ op[c].locked)
  BY DEF IInv, Exclusion
<1>11. MetaOK(disk, op[b])
  BY DEF IInv
<1> HIDE DEF o
<1>12. FetchOK(disk, o)
  <2>1. Len(o.got) = 1 /\ o.got[1] = root
    BY <1>7, <1>8
  <2>2. o.at = IF Len(o.got) < Chunks[Current] THEN path[Len(o.got) + 1] ELSE NoBlock
    BY <1>5, <1>8, <2>1
  <2>3. \A i \in 1..Len(o.got) : o.got[i] = disk.pages[path[i]]
    BY <1>5, <2>1
  <2>4. Len(o.got) \in 1..Chunks[Current]
    BY <1>4, <2>1
  <2> QED
    BY <1>1, <2>2, <2>3, <2>4 DEF FetchOK, Current
<1>13. MetaOK(disk, o) /\ PathOK(disk, nblocks, o)
  BY <1>8, <1>11 DEF MetaOK, PathOK
<1> QED
  BY <1>6, <1>8, <1>9, <1>10, <1>12, <1>13, LocalStep

LEMMA FetchSuffixStep ==
  ASSUME IInv, NEW b \in Backend, FetchSuffix(b)
  PROVE  IInv'
<1> DEFINE page == disk.pages[op[b].at]
           at == NextBlock(page)
           got == Append(op[b].got, page)
           n == Len(op[b].got) + 1
           o == [op[b] EXCEPT !.stage = "load", !.got = got, !.at = at]
<1>1. PICK path \in ChainsOf(disk, Current) :
        /\ Len(op[b].got) \in 1..Chunks[Current]
        /\ \A i \in 1..Len(op[b].got) : op[b].got[i] = disk.pages[path[i]]
        /\ op[b].at = IF Len(op[b].got) < Chunks[Current]
                        THEN path[Len(op[b].got) + 1] ELSE NoBlock
  BY DEF IInv, FetchOK, FetchSuffix, Current
<1>2. op[b].at # NoBlock /\ op[b].stage = "load" /\ op[b] \in Locals
  BY CurrentFacts DEF FetchSuffix
<1>3. Current \in Roots /\ Chunks[Current] \in Nat \ {0}
  BY CurrentFacts, ChunksAssumption
<1>4. n \in 1..Chunks[Current] /\ op[b].at = path[n] /\ n \in Nat
  BY <1>1, <1>2, <1>3
<1>5. /\ page = disk.pages[path[n]] /\ page \in Page
      /\ at = IF n < Chunks[Current] THEN path[n + 1] ELSE NoBlock
      /\ at \in Block \cup {NoBlock}
  BY <1>1, <1>4, ChainPage
<1>6. op' = [op EXCEPT ![b] = o]
  <2>1. o = [op[b] EXCEPT !.got = got, !.at = at]
    BY <1>2 DEF Locals
  <2> QED
    BY <1>2, <2>1, CurrentFacts DEF FetchSuffix
<1>7. disk' = disk /\ nblocks' = nblocks /\ durable' = durable /\ rows' = rows
  BY DEF FetchSuffix
<1> HIDE DEF page, at
<1>8. op[b].got \in Seq(Page)
  BY <1>2 DEF Locals
<1>9. /\ got \in Seq(Page) /\ Len(got) = n /\ got[n] = page
      /\ \A i \in 1..(n - 1) : got[i] = op[b].got[i]
  BY <1>5, <1>8
<1> HIDE DEF got
<1>10. /\ o \in Locals /\ o.stage = "load" /\ o.got = got /\ o.at = at
       /\ o.meta = op[b].meta /\ o.locked = op[b].locked /\ o.node = op[b].node
  <2>1. o = [op[b] EXCEPT !.stage = "load", !.got = got, !.at = at]
    OBVIOUS
  <2> HIDE DEF o
  <2> QED
    BY <1>2, <1>5, <1>9, <2>1 DEF Locals, Stages
<1>11. \A c \in Backend \ {b} : ~(op[b].locked /\ op[c].locked) /\ op[c].stage # "prepare"
  BY <1>2 DEF IInv, Exclusion
<1>12. MetaOK(disk, op[b])
  BY DEF IInv
<1> HIDE DEF o
<1>13. \A i \in 1..n : got[i] = disk.pages[path[i]]
  <2> TAKE i \in 1..n
  <2>1. CASE i = n
    BY <1>5, <1>9, <2>1
  <2>2. CASE i # n
    BY <1>1, <1>4, <1>9, <2>2
  <2> QED
    BY <2>1, <2>2
<1> HIDE DEF n
<1>14. FetchOK(disk, o)
  BY <1>1, <1>4, <1>5, <1>9, <1>10, <1>13 DEF FetchOK, Current
<1>15. MetaOK(disk, o) /\ PathOK(disk, nblocks, o)
  BY <1>10, <1>12 DEF MetaOK, PathOK
<1> QED
  BY <1>6, <1>7, <1>10, <1>11, <1>14, <1>15, LocalStep

LEMMA FetchEndStep ==
  ASSUME IInv, NEW b \in Backend, FetchEnd(b)
  PROVE  IInv' /\ op'[b].meta = Current
<1> DEFINE got == op[b].got
           o == [op[b] EXCEPT !.stage = "have", !.meta = Deserialize(got), !.got = << >>]
<1>1. PICK path \in ChainsOf(disk, Current) :
        /\ Len(got) \in 1..Chunks[Current]
        /\ \A i \in 1..Len(got) : got[i] = disk.pages[path[i]]
        /\ op[b].at = IF Len(got) < Chunks[Current] THEN path[Len(got) + 1] ELSE NoBlock
  BY DEF IInv, FetchOK, FetchEnd, Current
<1>2. /\ op[b].at = NoBlock /\ op[b].stage = "load" /\ op[b] \in Locals
      /\ Current \in Roots /\ Chunks[Current] \in Nat \ {0}
      /\ op' = [op EXCEPT ![b] = o]
  BY CurrentFacts, ChunksAssumption DEF FetchEnd
<1>3. Len(got) = Chunks[Current]
  <2> SUFFICES ASSUME Len(got) < Chunks[Current]
               PROVE  FALSE
    BY <1>1, <1>2
  <2>1. path \in [1..Chunks[Current] -> Block]
    BY <1>1, <1>2, ChainRoot
  <2> QED
    BY <1>1, <1>2, <2>1, BlockAssumption
<1>4. IsVersion(got, Current)
  <2>1. ASSUME NEW i \in 1..Len(got)
        PROVE  got[i] # NewPage /\ got[i].of = Current /\ got[i].part = i
    <3> DEFINE next == IF i < Chunks[Current] THEN path[i + 1] ELSE NoBlock
    <3>1. /\ got[i] = [of |-> Current, part |-> i, next |-> next]
          /\ path \in [1..Chunks[Current] -> Block]
      BY <1>1, <1>2, <1>3, ChainRoot
    <3>2. next \in Block \cup {NoBlock}
      BY <1>2, <1>3, <3>1
    <3> HIDE DEF next, got
    <3>3. got[i] \in Chunk
      BY <1>2, <1>3, <3>1, <3>2 DEF Chunk
    <3> QED
      BY <3>1, <3>3, NewPageAssumption
  <2> QED
    BY <1>3, <2>1 DEF IsVersion
<1>5. Deserialize(got) = Current
  BY <1>2, <1>4, DeserializeVersion
<1>6. /\ o \in Locals /\ o.stage = "have" /\ o.meta = Current
      /\ o.locked = op[b].locked /\ o.node = op[b].node
  <2>1. o = [op[b] EXCEPT !.stage = "have", !.meta = Current, !.got = << >>]
    BY <1>5
  <2>2. << >> \in Seq(Page)
    OBVIOUS
  <2> HIDE DEF o
  <2> QED
    BY <1>2, <2>1, <2>2 DEF Locals, Stages
<1>7. disk' = disk /\ nblocks' = nblocks /\ durable' = durable /\ rows' = rows
  BY DEF FetchEnd
<1>8. \A c \in Backend \ {b} : ~(op[b].locked /\ op[c].locked)
  BY DEF IInv, Exclusion
<1>9. MetaOK(disk, op[b])
  BY DEF IInv
<1> HIDE DEF o, got
<1>10. FetchOK(disk, o) /\ PathOK(disk, nblocks, o)
  BY <1>6 DEF FetchOK, PathOK
<1>11. MetaOK(disk, o)
  BY <1>2, <1>6, <1>9, ViewAssumption DEF MetaOK, Extends, Current
<1>12. op'[b] = o
  BY <1>2, CurrentFacts
<1> QED
  BY <1>2, <1>6, <1>7, <1>8, <1>10, <1>11, <1>12, LocalStep

LEMMA CoveredStep ==
  ASSUME IInv, NEW b \in Backend, Covered(b)
  PROVE  IInv'
<1> DEFINE o == [op[b] EXCEPT !.stage = "done", !.locked = FALSE]
<1>1. /\ op[b].stage = "have" /\ op[b].node # NoNode /\ op[b] \in Locals
      /\ Covers(op[b].meta, op[b].labels)
      /\ op' = [op EXCEPT ![b] = o]
      /\ disk' = disk /\ nblocks' = nblocks /\ durable' = durable /\ rows' = rows
  BY CurrentFacts DEF Covered
<1>2. /\ o \in Locals /\ o.stage = "done" /\ o.locked = FALSE
      /\ o.meta = op[b].meta /\ o.node = op[b].node /\ o.labels = op[b].labels
  BY <1>1 DEF Locals, Stages
<1>3. MetaOK(disk, op[b])
  BY DEF IInv
<1>4. Covers(Current, op[b].labels)
  <2>1. Extends(op[b].meta, Current) /\ op[b].labels \in SUBSET Label
    BY <1>1, <1>3 DEF MetaOK, Locals, Current
  <2> QED
    BY <1>1, <2>1, CoversExtends
<1> HIDE DEF o
<1>5. MetaOK(disk, o)
  BY <1>1, <1>2, <1>3, <1>4 DEF MetaOK, Current
<1>6. FetchOK(disk, o) /\ PathOK(disk, nblocks, o)
  BY <1>2 DEF FetchOK, PathOK
<1> QED
  BY <1>1, <1>2, <1>5, <1>6, LocalStep

LEMMA LockPageStep ==
  ASSUME IInv, NEW b \in Backend, LockPage(b)
  PROVE  IInv'
<1> DEFINE o == [op[b] EXCEPT !.locked = TRUE, !.stage = "fetch"]
<1>1. /\ op[b].stage = "have" /\ op[b].node # NoNode /\ op[b] \in Locals
      /\ \A c \in Backend : ~op[c].locked
      /\ op' = [op EXCEPT ![b] = o]
      /\ disk' = disk /\ nblocks' = nblocks /\ durable' = durable /\ rows' = rows
  BY CurrentFacts DEF LockPage
<1>2. /\ o \in Locals /\ o.stage = "fetch" /\ o.locked = TRUE
      /\ o.meta = op[b].meta /\ o.node = op[b].node /\ o.labels = op[b].labels
  BY <1>1 DEF Locals, Stages
<1>3. MetaOK(disk, op[b])
  BY DEF IInv
<1> HIDE DEF o
<1>4. MetaOK(disk, o)
  BY <1>1, <1>2, <1>3 DEF MetaOK
<1>5. FetchOK(disk, o) /\ PathOK(disk, nblocks, o)
  BY <1>2 DEF FetchOK, PathOK
<1> QED
  BY <1>1, <1>2, <1>4, <1>5, LocalStep

LEMMA WriteNodeStep ==
  ASSUME IInv, NEW b \in Backend, NEW n \in Node, WriteNode(b, n)
  PROVE  IInv' /\ Current' = Current
<1> DEFINE o == [op[b] EXCEPT !.node = n]
<1>1. /\ op[b].stage = "have" /\ op[b].node = NoNode /\ op[b] \in Locals
      /\ op' = [op EXCEPT ![b] = o]
      /\ nblocks' = nblocks /\ durable' = durable /\ rows' = rows
      /\ disk'.pages = disk.pages /\ disk'.tape = disk.tape \cup {n}
      /\ disk' \in Images
  BY CurrentFacts DEF WriteNode, Images
<1>2. /\ o \in Locals /\ o.stage = "have" /\ o.locked = op[b].locked
      /\ o.meta = op[b].meta /\ o.node = n /\ o.labels = op[b].labels
  BY <1>1 DEF Locals, Stages
<1>3. MetaOK(disk, op[b]) /\ n # NoNode
  BY KeyAssumption DEF IInv
<1>4. Grown(disk, disk')
  BY <1>1 DEF Grown
<1>5. nblocks' \in nblocks..(MaxBlock + 1)
      /\ \A k \in Block : k >= nblocks' => disk'.pages[k] = NewPage
  BY <1>1, BlockAssumption DEF IInv, TypeOK, Fresh
<1> HIDE DEF o
<1>6. MetaOK(disk', o)
  BY <1>1, <1>2, <1>3 DEF MetaOK, CurrentRoots
<1>7. FetchOK(disk', o) /\ PathOK(disk', nblocks', o)
  BY <1>2 DEF FetchOK, PathOK
<1>8. \A c \in Backend \ {b} : ~(op[b].locked /\ op[c].locked)
  BY DEF IInv, Exclusion
<1> QED
  BY <1>1, <1>2, <1>4, <1>5, <1>6, <1>7, <1>8, GrowStep

\* The version a backend is about to publish.
LEMMA NewVersionFacts ==
  ASSUME IInv, NEW b \in Backend, op[b].stage \in {"have", "prepare"}, op[b].locked
  PROVE  /\ op[b].meta = Current /\ Current \in Roots
         /\ op[b].node \in disk.tape /\ op[b].node \in Node
         /\ op[b].labels \in SUBSET Label
         /\ NewVersion(b) = Published(Current, op[b].node, op[b].labels)
         /\ NewVersion(b) \in Roots /\ Chunks[NewVersion(b)] \in Nat \ {0}
         /\ op[b].path \in Seq(Block)
<1>1. MetaOK(disk, op[b]) /\ op[b] \in Locals /\ disk.tape \in SUBSET Node
  BY CurrentFacts DEF IInv
<1>2. op[b].meta = Current /\ op[b].node # NoNode /\ op[b].node \in disk.tape
  BY <1>1 DEF MetaOK, Current
<1>3. op[b].labels \in SUBSET Label /\ op[b].path \in Seq(Block) /\ op[b].node \in Node
  BY <1>1, <1>2 DEF Locals
<1> QED
  BY <1>2, <1>3, CurrentFacts, PublishedFacts, ChunksAssumption DEF NewVersion

LEMMA PrepareRootStep ==
  ASSUME IInv, NEW b \in Backend, PrepareRoot(b)
  PROVE  IInv' /\ Current' = Current
<1> DEFINE v == NewVersion(b)
<1>1. /\ op[b].stage = "have" /\ op[b].locked /\ op[b] \in Locals
      /\ \A c \in Backend : op[c].stage \notin {"load", "prepare"}
      /\ disk' = disk /\ durable' = durable /\ rows' = rows /\ disk' \in Images
  BY CurrentFacts DEF PrepareRoot, IInv, TypeOK
<1>2. /\ v \in Roots /\ Chunks[v] \in Nat \ {0}
      /\ v = Published(op[b].meta, op[b].node, op[b].labels)
  BY <1>1, NewVersionFacts DEF NewVersion
<1>3. nblocks \in 1..(MaxBlock + 1) /\ MaxBlock \in Nat
  BY BlockAssumption DEF IInv, TypeOK
<1> HIDE DEF v
<1>4. PICK path \in Seq(Block) :
        /\ path[1] = META_BLOCK_NUMBER
        /\ op' = [op EXCEPT ![b].stage = "prepare", ![b].path = path]
        /\ nblocks' \in nblocks..(MaxBlock + 1)
        /\ \/ Chunks[v] = 1 /\ Len(path) = 1
           \/ /\ Chunks[v] > 1 /\ Len(path) = 2 /\ path[2] = nblocks
              /\ nblocks <= MaxBlock /\ nblocks' = nblocks + 1
  <2>1. CASE Chunks[v] = 1
    <3>1. << META_BLOCK_NUMBER >> \in Seq(Block)
      BY <1>3 DEF Block, META_BLOCK_NUMBER
    <3>2. /\ nblocks' = nblocks
          /\ op' = [op EXCEPT ![b].stage = "prepare", ![b].path = << META_BLOCK_NUMBER >>]
      BY <2>1 DEF PrepareRoot, v
    <3> WITNESS << META_BLOCK_NUMBER >> \in Seq(Block)
    <3> QED
      BY <1>3, <2>1, <3>2
  <2>2. CASE Chunks[v] > 1
    <3>1. nblocks <= MaxBlock /\ nblocks' = nblocks + 1
      BY <2>2 DEF PrepareRoot, v
    <3>2. << META_BLOCK_NUMBER, nblocks >> \in Seq(Block)
      BY <1>3, <3>1 DEF Block, META_BLOCK_NUMBER
    <3>3. op' = [op EXCEPT ![b].stage = "prepare",
                           ![b].path = << META_BLOCK_NUMBER, nblocks >>]
      BY <2>2 DEF PrepareRoot, v
    <3> WITNESS << META_BLOCK_NUMBER, nblocks >> \in Seq(Block)
    <3> QED
      BY <1>3, <2>2, <3>1, <3>3
  <2> QED
    BY <1>2, <2>1, <2>2
<1> DEFINE o == [op[b] EXCEPT !.stage = "prepare", !.path = path]
<1>5. /\ o \in Locals /\ o.stage = "prepare" /\ o.path = path /\ o.locked = op[b].locked
      /\ o.meta = op[b].meta /\ o.node = op[b].node /\ o.labels = op[b].labels
      /\ op' = [op EXCEPT ![b] = o]
  BY <1>1, <1>4, CurrentFacts DEF Locals, Stages
<1> HIDE DEF o
<1>6. Grown(disk, disk')
  BY <1>1 DEF Grown
<1>7. \A k \in Block : k >= nblocks' => disk'.pages[k] = NewPage
  BY <1>1, <1>3, <1>4 DEF IInv, Fresh, Block
<1>8. FetchOK(disk', o)
  BY <1>5 DEF FetchOK
<1>9. MetaOK(disk', o)
  <2>1. MetaOK(disk, op[b])
    BY DEF IInv
  <2> QED
    BY <1>1, <1>5, <2>1 DEF MetaOK
<1>10. PathOK(disk', nblocks', o)
  <2>1. v = Published(o.meta, o.node, o.labels)
    BY <1>2, <1>5
  <2>2. CASE Chunks[v] = 1 /\ Len(path) = 1
    BY <1>2, <1>4, <1>5, <2>1, <2>2 DEF PathOK
  <2>3. CASE /\ Chunks[v] > 1 /\ Len(path) = 2 /\ path[2] = nblocks
             /\ nblocks <= MaxBlock /\ nblocks' = nblocks + 1
    <3>1. disk'.pages[path[2]] = NewPage
      BY <1>1, <1>3, <2>3 DEF IInv, Fresh, Block
    <3>2. \A i \in 2..Len(path) : path[i] \in 1..(nblocks' - 1)
      <4> TAKE i \in 2..Len(path)
      <4>1. i = 2
        BY <2>3
      <4> QED
        BY <1>3, <2>3, <4>1
    <3>3. \A i \in 2..(Len(path) - 1) : FALSE
      BY <2>3
    <3>4. Len(path) \in 1..Chunks[v] /\ disk'.pages[path[Len(path)]] = NewPage
      BY <1>2, <2>3, <3>1
    <3> QED
      BY <1>4, <1>5, <2>1, <3>2, <3>3, <3>4 DEF PathOK
  <2> QED
    BY <1>4, <2>2, <2>3
<1>11. \A c \in Backend \ {b} : ~(o.locked /\ op[c].locked)
  BY <1>5 DEF IInv, Exclusion
<1> QED
  BY <1>1, <1>4, <1>5, <1>6, <1>7, <1>8, <1>9, <1>10, <1>11, GrowStep

\* What the invariant says of a backend in "prepare".
LEMMA PathFacts ==
  ASSUME IInv, NEW b \in Backend, op[b].stage = "prepare"
  PROVE  LET v == NewVersion(b)
             path == op[b].path
             n == Len(op[b].path)
         IN  /\ op[b].locked /\ n \in 1..Chunks[v] /\ n \in Nat
             /\ path \in Seq(Block)
             /\ path[1] = META_BLOCK_NUMBER
             /\ \A i \in 2..n : path[i] \in 1..(nblocks - 1) /\ path[i] \in Block
             /\ \A i \in 2..(n - 1) : disk.pages[path[i]] =
                  [of |-> v, part |-> i, next |-> path[i + 1]]
             /\ (n > 1 /\ disk.pages[path[n]] # NewPage) =>
                  /\ n = Chunks[v]
                  /\ disk.pages[path[n]] = [of |-> v, part |-> n, next |-> NoBlock]
             /\ \A c \in Backend \ {b} : ~op[c].locked /\ op[c].stage \notin {"load", "prepare"}
<1>1. PathOK(disk, nblocks, op[b]) /\ MetaOK(disk, op[b])
  BY DEF IInv
<1>2. op[b].locked
  BY <1>1 DEF MetaOK
<1>3. \A c \in Backend \ {b} : ~op[c].locked /\ op[c].stage \notin {"load", "prepare"}
  <2>1. \A c \in Backend : MetaOK(disk, op[c])
    BY DEF IInv
  <2> QED
    BY <1>2, <2>1 DEF IInv, Exclusion, MetaOK
<1>4. op[b].path \in Seq(Block)
  BY <1>2, NewVersionFacts
<1> QED
  BY <1>1, <1>2, <1>3, <1>4 DEF PathOK, NewVersion

LEMMA WriteChunkStep ==
  ASSUME IInv, NEW b \in Backend, WriteChunk(b)
  PROVE  IInv' /\ Current' = Current
<1> DEFINE v == NewVersion(b)
           path == op[b].path
           n == Len(op[b].path)
           next == IF n = Chunks[v] THEN NoBlock ELSE nblocks
           chunk == [of |-> v, part |-> n, next |-> next]
           newPath == IF n = Chunks[v] THEN path ELSE Append(path, nblocks)
           o == [op[b] EXCEPT !.path = newPath]
<1>1. /\ op[b].stage = "prepare" /\ n > 1 /\ disk.pages[path[n]] = NewPage
      /\ op[b] \in Locals /\ durable' = durable /\ rows' = rows
  BY CurrentFacts DEF WriteChunk
<1>2. /\ op[b].locked /\ n \in 1..Chunks[v] /\ n \in Nat /\ path \in Seq(Block)
      /\ path[1] = META_BLOCK_NUMBER
      /\ \A i \in 2..n : path[i] \in 1..(nblocks - 1) /\ path[i] \in Block
      /\ \A i \in 2..(n - 1) : disk.pages[path[i]] =
           [of |-> v, part |-> i, next |-> path[i + 1]]
      /\ \A c \in Backend \ {b} : ~op[c].locked /\ op[c].stage \notin {"load", "prepare"}
  BY <1>1, PathFacts
<1>3. v \in Roots /\ Chunks[v] \in Nat \ {0}
      /\ v = Published(op[b].meta, op[b].node, op[b].labels)
  BY <1>1, <1>2, NewVersionFacts DEF NewVersion
<1>4. nblocks \in 1..(MaxBlock + 1) /\ MaxBlock \in Nat
  BY BlockAssumption DEF IInv, TypeOK
<1>5. /\ disk' = [disk EXCEPT !.pages[path[n]] = chunk]
      /\ op' = [op EXCEPT ![b] = o]
      /\ \/ n = Chunks[v] /\ nblocks' = nblocks
         \/ n < Chunks[v] /\ nblocks' = nblocks + 1 /\ nblocks <= MaxBlock
  <2> HIDE DEF v
  <2>1. CASE n = Chunks[v]
    <3>1. o = op[b]
      BY <1>1, <2>1 DEF Locals
    <3> QED
      BY <2>1, <3>1, CurrentFacts DEF WriteChunk, v
  <2>2. CASE n < Chunks[v]
    <3>1. /\ disk' = [disk EXCEPT !.pages[path[n]] = chunk]
          /\ op' = [op EXCEPT ![b].path = Append(path, nblocks)]
          /\ nblocks' = nblocks + 1 /\ nblocks <= MaxBlock
      BY <1>2, <1>3, <2>2 DEF WriteChunk, v
    <3>2. newPath = Append(path, nblocks)
      BY <1>2, <1>3, <2>2
    <3> QED
      BY <2>2, <3>1, <3>2, CurrentFacts
  <2> QED
    BY <1>2, <1>3, <2>1, <2>2
<1>6. nblocks' \in nblocks..(MaxBlock + 1)
  BY <1>4, <1>5
<1>7. next \in Block \cup {NoBlock}
  BY <1>4, <1>5 DEF Block
<1> HIDE DEF v, next
<1>8. chunk \in Chunk
  BY <1>2, <1>3, <1>7 DEF Chunk
<1> HIDE DEF chunk
<1>9. path[n] \in Block
  BY <1>1, <1>2
<1>10. /\ disk'.pages = [disk.pages EXCEPT ![path[n]] = chunk] /\ disk'.tape = disk.tape
       /\ disk' \in Images
  BY <1>5, <1>8, <1>9, CurrentFacts DEF Images, Page
<1>11. disk'.pages[path[n]] = chunk
       /\ \A k \in Block : k # path[n] => disk'.pages[k] = disk.pages[k]
  BY <1>9, <1>10, CurrentFacts
<1>12. Grown(disk, disk')
  BY <1>1, <1>10, <1>11 DEF Grown
<1>13. path[n] < nblocks
  BY <1>1, <1>2, <1>4
<1>14. \A k \in Block : k >= nblocks => disk'.pages[k] = NewPage
  BY <1>4, <1>11, <1>13 DEF IInv, Fresh, Block
<1>15. \A k \in Block : k >= nblocks' => disk'.pages[k] = NewPage
  BY <1>4, <1>5, <1>14 DEF Block
<1>16. newPath \in Seq(Block)
  <2>1. CASE n = Chunks[v]
    BY <1>2, <2>1
  <2>2. CASE n < Chunks[v]
    <3>1. newPath = Append(path, nblocks) /\ nblocks \in Block
      BY <1>2, <1>3, <1>4, <1>5, <2>2 DEF Block
    <3> HIDE DEF newPath, path
    <3> QED
      BY <1>2, <3>1
  <2> QED
    BY <1>2, <1>3, <2>1, <2>2
<1>17. \/ n = Chunks[v] /\ newPath = path
       \/ /\ n < Chunks[v] /\ Len(newPath) = n + 1 /\ newPath[n + 1] = nblocks
          /\ \A i \in 1..n : newPath[i] = path[i]
  <2>1. CASE n = Chunks[v]
    BY <2>1
  <2>2. CASE n < Chunks[v]
    <3>1. newPath = Append(path, nblocks) /\ nblocks \in Block
      BY <1>2, <1>3, <1>4, <1>5, <2>2 DEF Block
    <3> HIDE DEF newPath
    <3> QED
      BY <1>2, <2>2, <3>1
  <2> QED
    BY <1>2, <1>3, <2>1, <2>2
<1> HIDE DEF newPath
<1>18. /\ o \in Locals /\ o.stage = "prepare" /\ o.path = newPath /\ o.locked = op[b].locked
       /\ o.meta = op[b].meta /\ o.node = op[b].node /\ o.labels = op[b].labels
  BY <1>1, <1>16 DEF Locals, Stages
<1> HIDE DEF o
<1>19. FetchOK(disk', o)
  BY <1>18 DEF FetchOK
<1>20. MetaOK(disk', o)
  <2>1. MetaOK(disk, op[b])
    BY DEF IInv
  <2>2. CurrentRoots(disk') = CurrentRoots(disk)
    <3>1. META_BLOCK_NUMBER \in Block /\ path[n] # META_BLOCK_NUMBER
      BY <1>1, <1>2, <1>4 DEF Block, META_BLOCK_NUMBER
    <3> QED
      BY <1>11, <3>1 DEF CurrentRoots
  <2> QED
    BY <1>1, <1>10, <1>18, <2>1, <2>2 DEF MetaOK
<1>21. \A i \in 2..(n - 1) : disk'.pages[path[i]] = [of |-> v, part |-> i, next |-> path[i + 1]]
  <2> TAKE i \in 2..(n - 1)
  <2>1. disk.pages[path[i]] = [of |-> v, part |-> i, next |-> path[i + 1]]
        /\ path[i] \in Block /\ path[i + 1] \in Block /\ i \in Nat
    BY <1>2
  <2>2. disk.pages[path[i]] \in Chunk
    BY <1>3, <2>1 DEF Chunk
  <2>3. path[i] # path[n]
    BY <1>1, <2>2, NewPageAssumption
  <2> QED
    BY <1>11, <2>1, <2>3
<1>22. PathOK(disk', nblocks', o)
  <2>1. v = Published(o.meta, o.node, o.labels) /\ o.path = newPath
    BY <1>3, <1>18
  <2>2. CASE n = Chunks[v]
    <3>1. newPath = path /\ nblocks' = nblocks
      BY <1>5, <1>17, <2>2
    <3>2. disk'.pages[path[n]] = [of |-> v, part |-> n, next |-> NoBlock]
      BY <1>11, <2>2 DEF chunk, next
    <3> QED
      BY <1>2, <1>21, <2>1, <2>2, <3>1, <3>2 DEF PathOK
  <2>3. CASE n < Chunks[v]
    <3>1. /\ Len(newPath) = n + 1 /\ newPath[n + 1] = nblocks
          /\ \A i \in 1..n : newPath[i] = path[i]
          /\ nblocks' = nblocks + 1 /\ nblocks \in Block
      BY <1>4, <1>5, <1>17, <2>3 DEF Block
    <3>2. disk'.pages[newPath[n]] = [of |-> v, part |-> n, next |-> newPath[n + 1]]
      <4>1. newPath[n] = path[n]
        BY <1>2, <3>1
      <4>2. chunk = [of |-> v, part |-> n, next |-> nblocks]
        BY <1>2, <1>3, <2>3 DEF chunk, next
      <4> QED
        BY <1>11, <3>1, <4>1, <4>2
    <3>3. \A i \in 2..n : disk'.pages[newPath[i]] =
            [of |-> v, part |-> i, next |-> newPath[i + 1]]
      <4> TAKE i \in 2..n
      <4>1. CASE i = n
        BY <3>2, <4>1
      <4>2. CASE i # n
        <5>1. i \in 2..(n - 1) /\ i \in 1..n /\ i + 1 \in 1..n
          BY <1>2, <4>2
        <5>2. newPath[i] = path[i] /\ newPath[i + 1] = path[i + 1]
          BY <3>1, <5>1
        <5> QED
          BY <1>21, <5>1, <5>2
      <4> QED
        BY <4>1, <4>2
    <3>4. \A i \in 2..(n + 1) : newPath[i] \in 1..nblocks
      <4> TAKE i \in 2..(n + 1)
      <4>1. CASE i = n + 1
        BY <1>4, <3>1, <4>1
      <4>2. CASE i # n + 1
        <5>1. i \in 2..n /\ i \in 1..n
          BY <1>2, <4>2
        <5>2. path[i] \in 1..(nblocks - 1) /\ newPath[i] = path[i]
          BY <1>2, <3>1, <5>1
        <5> QED
          BY <1>4, <5>2
      <4> QED
        BY <4>1, <4>2
    <3>5. disk'.pages[newPath[n + 1]] = NewPage
      BY <1>4, <1>14, <3>1
    <3>6. newPath[1] = META_BLOCK_NUMBER /\ n + 1 \in 1..Chunks[v]
      BY <1>2, <1>3, <2>3, <3>1
    <3>7. nblocks' - 1 = nblocks /\ (n + 1) - 1 = n
      BY <1>2, <1>4, <3>1
    <3> HIDE DEF n, path
    <3> QED
      BY <2>1, <3>1, <3>3, <3>4, <3>5, <3>6, <3>7 DEF PathOK
  <2> QED
    BY <1>2, <1>3, <2>2, <2>3
<1> QED
  BY <1>2, <1>5, <1>6, <1>10, <1>12, <1>15, <1>18, <1>19, <1>20, <1>22, <1>1, GrowStep

\* The root's record makes a prepared version current.
LEMMA CommitRootImage ==
  ASSUME IInv, NEW b \in Backend, CommitRoot(b)
  PROVE  LET v == NewVersion(b)
         IN  /\ disk' \in Images /\ Sound(disk')
             /\ CurrentRoots(disk') = v /\ disk'.tape = disk.tape
             /\ \A k \in Block \ {META_BLOCK_NUMBER} : disk'.pages[k] = disk.pages[k]
<1> DEFINE v == NewVersion(b)
           path == op[b].path
           n == Len(op[b].path)
           next == IF n = 1 THEN NoBlock ELSE path[2]
           root == [of |-> v, part |-> 1, next |-> next]
<1>1. /\ op[b].stage = "prepare" /\ n = Chunks[v]
      /\ n > 1 => disk.pages[path[n]] # NewPage
      /\ disk' = [disk EXCEPT !.pages[META_BLOCK_NUMBER] = root]
  BY DEF CommitRoot, ReplaceRoot
<1>2. /\ op[b].locked /\ n \in Nat /\ path \in Seq(Block) /\ path[1] = META_BLOCK_NUMBER
      /\ \A i \in 2..n : path[i] \in 1..(nblocks - 1) /\ path[i] \in Block
      /\ \A i \in 2..(n - 1) : disk.pages[path[i]] =
           [of |-> v, part |-> i, next |-> path[i + 1]]
      /\ n > 1 => disk.pages[path[n]] = [of |-> v, part |-> n, next |-> NoBlock]
  BY <1>1, PathFacts
<1>3. /\ v \in Roots /\ n \in Nat \ {0} /\ op[b].node \in disk.tape
      /\ v = Published(Current, op[b].node, op[b].labels)
      /\ Current \in Roots /\ op[b].node \in Node /\ op[b].labels \in SUBSET Label
  BY <1>1, <1>2, NewVersionFacts
<1>4. /\ next \in Block \cup {NoBlock} /\ META_BLOCK_NUMBER \in Block
      /\ next = IF 1 < n THEN path[2] ELSE NoBlock
  <2>1. META_BLOCK_NUMBER \in Block
    BY BlockAssumption DEF Block, META_BLOCK_NUMBER
  <2>2. CASE n = 1
    <3>1. next = NoBlock /\ ~(1 < n)
      BY <2>2
    <3> QED
      BY <2>1, <3>1
  <2>3. CASE n > 1
    <3>1. 2 \in 2..n /\ next = path[2]
      BY <1>3, <2>3
    <3>2. path[2] \in Block
      BY <1>2, <3>1
    <3> QED
      BY <2>1, <2>3, <3>1, <3>2
  <2> HIDE DEF n, next
  <2>4. n = 1 \/ n > 1
    BY <1>3
  <2> QED
    BY <2>2, <2>3, <2>4
<1>5. \A k \in Key : v[k] \in disk.tape \cup {NoNode}
  <2>1. \A k \in Key : Current[k] \in disk.tape \cup {NoNode}
    BY DEF IInv, Sound, Current
  <2> QED
    BY <1>3, <2>1, PublishedFacts
<1> HIDE DEF v, next
<1>6. root \in Chunk /\ root.of = v
  BY <1>3, <1>4 DEF Chunk
<1>7. root = [of |-> v, part |-> 1, next |-> next]
  OBVIOUS
<1> HIDE DEF root
<1>8. /\ disk'.pages = [disk.pages EXCEPT ![META_BLOCK_NUMBER] = root]
      /\ disk'.tape = disk.tape /\ disk' \in Images
  BY <1>1, <1>4, <1>6, CurrentFacts DEF Images, Page
<1>9. /\ disk'.pages[META_BLOCK_NUMBER] = root
      /\ \A k \in Block \ {META_BLOCK_NUMBER} : disk'.pages[k] = disk.pages[k]
  BY <1>4, <1>8, CurrentFacts
<1>10. ASSUME NEW i \in 1..n
       PROVE  disk'.pages[path[i]] = [of |-> v, part |-> i,
                next |-> IF i < n THEN path[i + 1] ELSE NoBlock]
  <2>1. CASE i = 1
    BY <1>2, <1>4, <1>7, <1>9, <2>1
  <2>2. CASE i # 1
    <3>1. i \in 2..n /\ path[i] # META_BLOCK_NUMBER /\ path[i] \in Block
      BY <1>2, <2>2 DEF META_BLOCK_NUMBER
    <3>2. disk'.pages[path[i]] = disk.pages[path[i]]
      BY <1>9, <3>1
    <3>3. CASE i = n
      BY <1>2, <3>1, <3>2, <3>3
    <3>4. CASE i # n
      <4>1. i \in 2..(n - 1) /\ i < n
        BY <1>2, <3>1, <3>4
      <4> QED
        BY <1>2, <3>2, <4>1
    <3> QED
      BY <3>3, <3>4
  <2> QED
    BY <2>1, <2>2
<1>11. path \in [1..Chunks[v] -> Block]
  BY <1>1, <1>2
<1>12. path \in ChainsOf(disk', v)
  BY <1>1, <1>2, <1>10, <1>11 DEF ChainsOf
<1>13. CurrentRoots(disk') = v
  BY <1>6, <1>9 DEF CurrentRoots
<1>14. Sound(disk')
  BY <1>5, <1>6, <1>8, <1>9, <1>12, <1>13 DEF Sound
<1> QED
  BY <1>8, <1>9, <1>13, <1>14 DEF v

LEMMA CommitRootStep ==
  ASSUME IInv, NEW b \in Backend, CommitRoot(b)
  PROVE  IInv' /\ Extends(Current, Current')
<1> DEFINE v == NewVersion(b)
           o == [op[b] EXCEPT !.stage = "done", !.locked = FALSE, !.meta = v, !.path = << >>]
<1>1. /\ op[b].stage = "prepare" /\ op[b] \in Locals
      /\ op' = [op EXCEPT ![b] = o]
      /\ nblocks' = nblocks /\ durable' = durable /\ rows' = rows
  BY CurrentFacts DEF CommitRoot, ReplaceRoot
<1>2. /\ disk' \in Images /\ Sound(disk')
      /\ CurrentRoots(disk') = v /\ disk'.tape = disk.tape
      /\ \A k \in Block \ {META_BLOCK_NUMBER} : disk'.pages[k] = disk.pages[k]
  BY CommitRootImage
<1>3. /\ op[b].locked
      /\ \A c \in Backend \ {b} : ~op[c].locked /\ op[c].stage \notin {"load", "prepare"}
  BY <1>1, PathFacts
<1>4. /\ v \in Roots /\ op[b].node \in disk.tape /\ op[b].node \in Node
      /\ v = Published(Current, op[b].node, op[b].labels)
      /\ Current \in Roots /\ op[b].labels \in SUBSET Label
  BY <1>1, <1>3, NewVersionFacts
<1>5. Extends(Current, v) /\ Covers(v, op[b].labels) /\ op[b].node # NoNode
  BY <1>4, PublishedFacts, KeyAssumption
<1>6. Extends(v, v)
  BY DEF Extends
<1> HIDE DEF v
<1>7. /\ o \in Locals /\ o.stage = "done" /\ o.locked = FALSE /\ o.meta = v
      /\ o.node = op[b].node /\ o.labels = op[b].labels
  <2>1. << >> \in Seq(Block)
    OBVIOUS
  <2> QED
    BY <1>1, <1>4, <2>1 DEF Locals, Stages
<1> HIDE DEF o
<1>8. op'[b] = o /\ \A c \in Backend \ {b} : op'[c] = op[c]
  BY <1>1, CurrentFacts
<1>9. TypeOK'
  BY <1>1, <1>2, <1>7, CurrentFacts DEF IInv, TypeOK
<1>10. DurableOlder'
  <2>1. Extends(CurrentRoots(durable), Current) /\ durable.tape \subseteq disk.tape
    BY DEF IInv, DurableOlder
  <2>2. Extends(CurrentRoots(durable), v)
    BY <1>5, <2>1, ExtendsTransitive
  <2> QED
    BY <1>1, <1>2, <2>1, <2>2 DEF DurableOlder, Current
<1>11. RowsOK' /\ Sound(durable')
  BY <1>1 DEF IInv, RowsOK
<1>12. Fresh'
  BY <1>1, <1>2, BlockAssumption DEF IInv, Fresh, TypeOK, Block, META_BLOCK_NUMBER
<1>13. Exclusion'
  BY <1>3, <1>7, <1>8 DEF Exclusion
<1>14. ASSUME NEW c \in Backend
       PROVE  FetchOK(disk', op'[c]) /\ MetaOK(disk', op'[c]) /\ PathOK(disk', nblocks', op'[c])
  <2>1. CASE c = b
    <3>1. MetaOK(disk', o)
      BY <1>2, <1>4, <1>5, <1>6, <1>7, ViewAssumption DEF MetaOK
    <3> QED
      BY <1>7, <1>8, <2>1, <3>1 DEF FetchOK, PathOK
  <2>2. CASE c # b
    <3>1. MetaOK(disk, op[c]) /\ op[c] \in Locals
      BY CurrentFacts DEF IInv
    <3>2. op[c].meta \in Roots => Extends(op[c].meta, v)
      BY <1>5, <3>1, ExtendsTransitive DEF MetaOK, Current
    <3>3. op[c].stage = "done" => Covers(v, op[c].labels)
      BY <1>5, <3>1, CoversExtends DEF MetaOK, Current, Locals
    <3>4. MetaOK(disk', op[c])
      BY <1>2, <1>3, <2>2, <3>1, <3>2, <3>3 DEF MetaOK
    <3> QED
      BY <1>3, <1>8, <2>2, <3>4 DEF FetchOK, PathOK
  <2> QED
    BY <2>1, <2>2
<1> QED
  BY <1>2, <1>5, <1>9, <1>10, <1>11, <1>12, <1>13, <1>14 DEF IInv, Current

\* A step that makes the current image durable.
LEMMA DurableStep ==
  ASSUME IInv, disk' = disk, durable' = disk, nblocks' = nblocks, TypeOK',
         RowsOK', Exclusion',
         \A b \in Backend : FetchOK(disk, op'[b]) /\ MetaOK(disk, op'[b])
                            /\ PathOK(disk, nblocks, op'[b])
  PROVE  IInv'
<1>1. Sound(disk)' /\ Sound(durable)'
  BY DEF IInv, Sound
<1>2. DurableOlder'
  BY DEF DurableOlder, Extends, Current
<1>3. Fresh'
  BY DEF IInv, Fresh
<1>4. \A b \in Backend : FetchOK(disk', op'[b]) /\ MetaOK(disk', op'[b])
                         /\ PathOK(disk', nblocks', op'[b])
  OBVIOUS
<1> QED
  BY <1>1, <1>2, <1>3, <1>4 DEF IInv

LEMMA IdleFacts ==
  ASSUME NEW image, NEW length
  PROVE  /\ Idle \in Locals /\ Idle.meta = NoView /\ Idle.locked = FALSE
         /\ Idle.node = NoNode /\ Idle.stage = "idle"
         /\ FetchOK(image, Idle) /\ MetaOK(image, Idle) /\ PathOK(image, length, Idle)
<1>1. /\ Idle \in Locals /\ Idle.meta = NoView /\ Idle.locked = FALSE
      /\ Idle.node = NoNode /\ Idle.stage = "idle"
  BY DEF Idle, Locals, Stages
<1> QED
  BY <1>1, ViewAssumption DEF FetchOK, MetaOK, PathOK

LEMMA CommitStep ==
  ASSUME IInv, NEW b \in Backend, Commit(b)
  PROVE  IInv'
<1> DEFINE row == [node |-> op[b].node, labels |-> op[b].labels]
<1>1. /\ op[b].stage = "done" /\ op[b] \in Locals /\ rows' = rows \cup {row}
      /\ durable' = disk /\ op' = [op EXCEPT ![b] = Idle]
      /\ disk' = disk /\ nblocks' = nblocks
  BY CurrentFacts DEF Commit
<1>2. MetaOK(disk, op[b])
  BY DEF IInv
<1>3. /\ op[b].node \in disk.tape /\ Covers(Current, op[b].labels)
      /\ op[b].node # NoNode
  BY <1>1, <1>2 DEF MetaOK, Current
<1>4. row \in [node : Node, labels : SUBSET Label]
  BY <1>1, <1>3 DEF Locals
<1>5. op'[b] = Idle /\ \A c \in Backend \ {b} : op'[c] = op[c]
  BY <1>1, CurrentFacts
<1>6. TypeOK'
  BY <1>1, <1>4, <1>5, IdleFacts, CurrentFacts DEF IInv, TypeOK
<1>7. RowsOK'
  <2>1. ASSUME NEW r \in rows
        PROVE  r.node \in disk.tape /\ Covers(Current, r.labels)
    <3>1. r.node \in durable.tape /\ Covers(CurrentRoots(durable), r.labels)
          /\ r.labels \in SUBSET Label
      BY DEF IInv, RowsOK, TypeOK
    <3> QED
      BY <3>1, CoversExtends DEF IInv, DurableOlder
  <2> QED
    BY <1>1, <1>3, <2>1 DEF RowsOK, Current
<1>8. Exclusion'
  BY <1>5, IdleFacts DEF IInv, Exclusion
<1>9. \A c \in Backend : FetchOK(disk, op'[c]) /\ MetaOK(disk, op'[c])
                         /\ PathOK(disk, nblocks, op'[c])
  BY <1>5, IdleFacts DEF IInv
<1> QED
  BY <1>1, <1>6, <1>7, <1>8, <1>9, DurableStep

LEMMA FlushStep ==
  ASSUME IInv, Flush
  PROVE  IInv'
<1>1. /\ durable' = disk /\ disk' = disk /\ nblocks' = nblocks
      /\ rows' = rows /\ op' = op
  BY DEF Flush
<1>2. TypeOK'
  BY <1>1 DEF IInv, TypeOK
<1>3. RowsOK'
  <2>1. ASSUME NEW r \in rows
        PROVE  r.node \in disk.tape /\ Covers(Current, r.labels)
    <3>1. r.node \in durable.tape /\ Covers(CurrentRoots(durable), r.labels)
          /\ r.labels \in SUBSET Label
      BY DEF IInv, RowsOK, TypeOK
    <3> QED
      BY <3>1, CoversExtends DEF IInv, DurableOlder
  <2> QED
    BY <1>1, <2>1 DEF RowsOK, Current
<1>4. Exclusion'
  BY <1>1 DEF IInv, Exclusion
<1>5. \A c \in Backend : FetchOK(disk, op'[c]) /\ MetaOK(disk, op'[c])
                         /\ PathOK(disk, nblocks, op'[c])
  BY <1>1 DEF IInv
<1> QED
  BY <1>1, <1>2, <1>3, <1>4, <1>5, DurableStep

LEMMA CrashStep ==
  ASSUME IInv, Crash
  PROVE  IInv'
<1>1. /\ disk' = durable /\ durable' = durable /\ nblocks' = nblocks /\ rows' = rows
      /\ op' = [c \in Backend |-> Idle]
  BY DEF Crash
<1>2. \A c \in Backend : op'[c] = Idle
  BY <1>1
<1>3. TypeOK'
  BY <1>1, IdleFacts DEF IInv, TypeOK
<1>4. Sound(disk)' /\ Sound(durable)'
  BY <1>1 DEF IInv, Sound
<1>5. DurableOlder' /\ RowsOK' /\ Fresh'
  BY <1>1 DEF IInv, DurableOlder, RowsOK, Fresh, Extends, Current
<1>6. Exclusion'
  BY <1>2, IdleFacts DEF Exclusion
<1>7. \A c \in Backend : FetchOK(disk', op'[c]) /\ MetaOK(disk', op'[c])
                         /\ PathOK(disk', nblocks', op'[c])
  BY <1>2, IdleFacts
<1> QED
  BY <1>3, <1>4, <1>5, <1>6, <1>7 DEF IInv

\* Every action preserves the invariant; only a published root and a crash
\* change the version that is current.
LEMMA InvNext ==
  ASSUME IInv, [Next]_vars
  PROVE  /\ IInv'
         /\ Extends(Current, Current') \/ disk' = durable
<1> DEFINE Kept == Current' = Current
<1>1. ASSUME NEW b \in Backend
      PROVE  /\ \A labels \in SUBSET Label : Begin(b, labels) => IInv' /\ Kept
             /\ FetchRoot(b) => IInv' /\ Kept
             /\ FetchSuffix(b) => IInv' /\ Kept
             /\ FetchEnd(b) => IInv' /\ Kept
  BY BeginStep, FetchRootStep, FetchSuffixStep, FetchEndStep
     DEF Begin, FetchRoot, FetchSuffix, FetchEnd, Current, CurrentRoots
<1>2. ASSUME NEW b \in Backend
      PROVE  /\ \A n \in Node : WriteNode(b, n) => IInv' /\ Kept
             /\ Covered(b) => IInv' /\ Kept
             /\ LockPage(b) => IInv' /\ Kept
             /\ PrepareRoot(b) => IInv' /\ Kept
             /\ WriteChunk(b) => IInv' /\ Kept
  <2>1. \A n \in Node : WriteNode(b, n) => IInv' /\ Kept
    BY WriteNodeStep
  <2>2. Covered(b) => IInv' /\ Kept
    BY CoveredStep DEF Covered, Current, CurrentRoots
  <2>3. LockPage(b) => IInv' /\ Kept
    BY LockPageStep DEF LockPage, Current, CurrentRoots
  <2> QED
    BY <2>1, <2>2, <2>3, PrepareRootStep, WriteChunkStep
<1>3. ASSUME NEW b \in Backend
      PROVE  /\ Commit(b) => IInv' /\ Kept
             /\ Abort(b) => IInv' /\ Kept
  BY CommitStep, AbortStep DEF Commit, Abort, Current, CurrentRoots
<1>4. Flush => IInv' /\ Kept
  BY FlushStep DEF Flush, Current, CurrentRoots
<1>5. UNCHANGED vars => IInv' /\ Kept
  <2> SUFFICES ASSUME UNCHANGED vars PROVE IInv' /\ Kept
    OBVIOUS
  <2>1. disk' = disk /\ nblocks' = nblocks /\ durable' = durable /\ rows' = rows /\ op' = op
    BY DEF vars
  <2>2. Kept
    BY <2>1 DEF Current, CurrentRoots
  <2>3. TypeOK' /\ Sound(disk)' /\ Sound(durable)'
    BY <2>1 DEF IInv, TypeOK
  <2>4. DurableOlder' /\ RowsOK' /\ Fresh' /\ Exclusion'
    BY <2>1, <2>2 DEF IInv, DurableOlder, RowsOK, Fresh, Exclusion
  <2>5. \A b \in Backend : FetchOK(disk', op'[b]) /\ MetaOK(disk', op'[b])
                           /\ PathOK(disk', nblocks', op'[b])
    BY <2>1 DEF IInv
  <2> QED
    BY <2>2, <2>3, <2>4, <2>5 DEF IInv
<1>6. Kept => Extends(Current, Current')
  BY DEF Extends
<1>7. ASSUME NEW b \in Backend, CommitRoot(b)
      PROVE  IInv' /\ Extends(Current, Current')
  BY <1>7, CommitRootStep
<1>8. Crash => IInv' /\ disk' = durable
  BY CrashStep DEF Crash
<1> HIDE DEF Kept
<1> QED
  BY <1>1, <1>2, <1>3, <1>4, <1>5, <1>6, <1>7, <1>8, RowLabelsAssumption DEF Next

\* The invariant holds in every state of every behavior.
THEOREM Invariant == Spec => []IInv
<1>1. IInv /\ [Next]_vars => IInv'
  BY InvNext
<1> QED
  BY <1>1, InvInit, PTL DEF Spec

--------------------------------------------------------------------------------
(***************************************************************************)
(* Theorems                                                                *)
(***************************************************************************)

\* Every state of the model is well typed.
THEOREM TypeCorrect == Spec => []TypeOK
<1>1. IInv => TypeOK
  BY DEF IInv
<1> QED
  BY <1>1, Invariant, PTL

\* The chain from the root page is one whole version, on the disk and in what a
\* recovery restores, whatever publications are cut short.
THEOREM ChainsWhole == Spec => []ChainWhole
<1>1. IInv => ChainWhole
  BY DEF IInv, Sound, ChainWhole
<1> QED
  BY <1>1, Invariant, PTL

\* No fetch mixes two versions or meets a page that was not written.
THEOREM FetchesSeeOneVersion == Spec => []FetchSeesOneVersion
<1>1. IInv => FetchSeesOneVersion
  BY DEF IInv, MetaOK, FetchSeesOneVersion
<1> QED
  BY <1>1, Invariant, PTL

\* Committed rows find their node and the roots of their labels, also after a
\* crash.
THEOREM CommittedRowsHaveRoots == Spec => []RowsHaveRoots
<1>1. IInv => RowsHaveRoots
  BY DEF IInv, MetaOK, RowsOK, RowsHaveRoots
<1> QED
  BY <1>1, Invariant, PTL

\* Every root is a node on the tape, also after a crash.
THEOREM RootsStayOnTape == Spec => []RootsOnTape
<1>1. IInv => RootsOnTape
  BY DEF IInv, Sound, RootsOnTape
<1> QED
  BY <1>1, Invariant, PTL

\* A published root is never replaced by another publication.
THEOREM PublishedRootsStay == Spec => RootsOnlyGrow
<1> DEFINE Grows == \/ \A k \in Key : CurrentRoots(disk)[k] # NoNode =>
                                        CurrentRoots(disk)'[k] = CurrentRoots(disk)[k]
                    \/ disk' = durable
<1>1. IInv /\ [Next]_vars => [Grows]_vars
  BY InvNext DEF Extends, Current
<1> QED
  BY <1>1, Invariant, PTL DEF Spec, RootsOnlyGrow

--------------------------------------------------------------------------------
(***************************************************************************)
(* Refinement                                                              *)
(***************************************************************************)
ViewOf(o) == IF o.stage = "load" THEN o.got[1].of ELSE o.meta

LEMMA RefineInit == Init => EP!Init
<1> SUFFICES ASSUME Init PROVE EP!Init
  OBVIOUS
<1>1. \A b \in Backend : op[b].stage = "idle" /\ op[b].meta = NoView
  BY DEF Init, Idle
<1>2. 0 \in Block
  BY BlockAssumption DEF Block
<1>3. CurrentRoots(disk) = NoRoots
  BY <1>2 DEF Init, CurrentRoots, META_BLOCK_NUMBER
<1>4. CurrentRoots(durable) = NoRoots
  BY <1>3 DEF Init
<1> QED
  BY <1>1, <1>3, <1>4 DEF EP!Init

\* A reader works with the version that is current as long as it reads.
LEMMA LoadView ==
  ASSUME IInv, NEW b \in Backend, op[b].stage = "load"
  PROVE  op[b].got[1].of = Current /\ Len(op[b].got) \in Nat \ {0} /\ op[b].got \in Seq(Page)
<1>1. PICK path \in ChainsOf(disk, Current) :
        /\ Len(op[b].got) \in 1..Chunks[Current]
        /\ \A i \in 1..Len(op[b].got) : op[b].got[i] = disk.pages[path[i]]
  BY DEF IInv, FetchOK, Current
<1>2. Current \in Roots /\ Chunks[Current] \in Nat \ {0} /\ op[b].got \in Seq(Page)
  BY CurrentFacts, ChunksAssumption DEF Locals
<1>3. 1 \in 1..Chunks[Current] /\ 1 \in 1..Len(op[b].got) /\ Len(op[b].got) \in Nat \ {0}
  BY <1>1, <1>2
<1>4. disk.pages[path[1]].of = Current
  BY <1>1, <1>3, ChainPage
<1> QED
  BY <1>1, <1>2, <1>3, <1>4

LEMMA RefineNext == IInv /\ [Next]_vars => [EP!Next]_EP!vars
<1> SUFFICES ASSUME IInv, [Next]_vars PROVE [EP!Next]_EP!vars
  OBVIOUS
<1> DEFINE view == [b \in Backend |-> ViewOf(op[b])]
<1>1. view = [b \in Backend |-> IF op[b].stage = "load" THEN op[b].got[1].of ELSE op[b].meta]
  BY DEF ViewOf
<1>2. op \in [Backend -> Locals] /\ \A b \in Backend : op[b] \in Locals
  BY CurrentFacts
<1>3. ASSUME NEW b \in Backend, NEW o \in Locals, op' = [op EXCEPT ![b] = o]
      PROVE  view' = [view EXCEPT ![b] = ViewOf(o)]
  BY <1>2, <1>3
<1>4. disk' = disk => CurrentRoots(disk)' = CurrentRoots(disk)
  BY DEF CurrentRoots
<1>5. durable' = durable => CurrentRoots(durable)' = CurrentRoots(durable)
  BY DEF CurrentRoots
<1>6. ViewOf(Idle) = NoView /\ Idle \in Locals
  BY IdleFacts DEF ViewOf
<1>7. ASSUME NEW b \in Backend, NEW labels \in SUBSET Label, Begin(b, labels)
      PROVE  EP!Next
  <2> DEFINE o == [Idle EXCEPT !.stage = "fetch", !.labels = labels]
  <2>1. op' = [op EXCEPT ![b] = o] /\ disk' = disk /\ durable' = durable
    BY <1>7 DEF Begin
  <2>2. o \in Locals /\ ViewOf(o) = NoView
    BY IdleFacts DEF ViewOf, Locals, Stages
  <2>3. EP!Forget(b)
    BY <1>1, <1>3, <1>4, <1>5, <2>1, <2>2 DEF EP!Forget, ViewOf
  <2> QED
    BY <2>3 DEF EP!Next
<1>8. ASSUME NEW b \in Backend, FetchRoot(b)
      PROVE  EP!Next
  <2> DEFINE root == disk.pages[META_BLOCK_NUMBER]
  <2>1. disk' = disk /\ durable' = durable
    BY <1>8 DEF FetchRoot
  <2>2. op' = [op EXCEPT ![b] = op'[b]] /\ op'[b] \in Locals
        /\ op'[b].stage = "load" /\ op'[b].got = << root >>
    <3>1. IInv'
      BY <1>8, FetchRootStep
    <3>2. op'[b] \in Locals
      BY <3>1 DEF IInv, TypeOK
    <3> QED
      BY <1>2, <1>8, <3>2 DEF FetchRoot, Locals
  <2>3. ViewOf(op'[b]) = CurrentRoots(disk)
    BY <2>2 DEF ViewOf, CurrentRoots
  <2>4. view' = [view EXCEPT ![b] = CurrentRoots(disk)]
    BY <1>3, <2>2, <2>3
  <2>5. EP!Fetch(b)
    BY <1>1, <1>4, <1>5, <2>1, <2>4 DEF EP!Fetch, ViewOf
  <2> QED
    BY <2>5 DEF EP!Next
<1>9. ASSUME NEW b \in Backend, FetchSuffix(b)
      PROVE  UNCHANGED EP!vars
  <2>1. disk' = disk /\ durable' = durable /\ op[b].stage = "load"
    BY <1>9 DEF FetchSuffix
  <2>2. IInv'
    BY <1>9, FetchSuffixStep
  <2>3. op' = [op EXCEPT ![b] = op'[b]] /\ op'[b] \in Locals /\ op'[b].stage = "load"
    <3>1. op'[b] \in Locals
      BY <2>2 DEF IInv, TypeOK
    <3> QED
      BY <1>2, <1>9, <2>1, <3>1 DEF FetchSuffix, Locals
  <2>4. ViewOf(op[b]) = Current
    BY <2>1, LoadView DEF ViewOf
  <2>5. ViewOf(op'[b]) = Current
    <3>1. op'[b].got = Append(op[b].got, disk.pages[op[b].at])
      BY <1>2, <1>9 DEF FetchSuffix, Locals
    <3>2. op[b].got \in Seq(Page) /\ Len(op[b].got) \in Nat \ {0} /\ op[b].got[1].of = Current
      BY <2>1, LoadView
    <3>3. op'[b].got[1] = op[b].got[1]
      BY <3>1, <3>2
    <3> QED
      BY <2>3, <3>2, <3>3 DEF ViewOf
  <2>6. view' = [view EXCEPT ![b] = ViewOf(op'[b])]
    BY <1>3, <2>3
  <2>7. view' = view
    BY <2>4, <2>5, <2>6
  <2> QED
    BY <1>1, <1>4, <1>5, <2>1, <2>7 DEF EP!vars, ViewOf
<1>10. ASSUME NEW b \in Backend, FetchEnd(b)
       PROVE  UNCHANGED EP!vars
  <2>1. disk' = disk /\ durable' = durable /\ op[b].stage = "load"
    BY <1>10 DEF FetchEnd
  <2>2. IInv'
    BY <1>10, FetchEndStep
  <2>3. op' = [op EXCEPT ![b] = op'[b]] /\ op'[b] \in Locals /\ op'[b].stage = "have"
    <3>1. op'[b] \in Locals
      BY <2>2 DEF IInv, TypeOK
    <3> QED
      BY <1>2, <1>10, <2>1, <3>1 DEF FetchEnd, Locals
  <2>4. ViewOf(op[b]) = Current
    BY <2>1, LoadView DEF ViewOf
  <2>5. op'[b].meta = Current
    BY <1>10, FetchEndStep
  <2>6. view' = [view EXCEPT ![b] = ViewOf(op'[b])]
    BY <1>3, <2>3
  <2>7. view' = view
    BY <2>3, <2>4, <2>5, <2>6 DEF ViewOf
  <2> QED
    BY <1>1, <1>4, <1>5, <2>1, <2>7 DEF EP!vars, ViewOf
<1>11. ASSUME NEW b \in Backend,
              \/ \E n \in Node : WriteNode(b, n)
              \/ Covered(b) \/ LockPage(b) \/ PrepareRoot(b) \/ WriteChunk(b)
       PROVE  UNCHANGED EP!vars
  <2>1. IInv' /\ Current' = Current
    BY <1>11, WriteNodeStep, CoveredStep, LockPageStep, PrepareRootStep, WriteChunkStep
       DEF Covered, LockPage, Current, CurrentRoots
  <2>2. op'[b] \in Locals
    BY <2>1 DEF IInv, TypeOK
  <2>3. durable' = durable
    BY <1>11 DEF WriteNode, Covered, LockPage, PrepareRoot, WriteChunk
  <2>4. /\ op' = [op EXCEPT ![b] = op'[b]]
        /\ op[b].stage # "load" /\ op'[b].stage # "load" /\ op'[b].meta = op[b].meta
    BY <1>2, <1>11, <2>2 DEF WriteNode, Covered, LockPage, PrepareRoot, WriteChunk, Locals
  <2>5. view' = [view EXCEPT ![b] = ViewOf(op'[b])]
    BY <1>3, <2>2, <2>4
  <2>6. view' = view
    BY <2>4, <2>5 DEF ViewOf
  <2> QED
    BY <1>1, <1>5, <2>1, <2>3, <2>6 DEF EP!vars, ViewOf, Current
<1>12. ASSUME NEW b \in Backend, CommitRoot(b)
       PROVE  EP!Next
  <2> DEFINE v == NewVersion(b)
  <2>1. durable' = durable /\ op[b].stage = "prepare"
    BY <1>12 DEF CommitRoot, ReplaceRoot
  <2>2. CurrentRoots(disk') = v
    BY <1>12, CommitRootImage
  <2>3. op[b].locked
    BY <2>1, PathFacts
  <2>4. /\ op[b].meta = Current /\ op[b].node \in Node /\ op[b].labels \in SUBSET Label
        /\ v = Published(Current, op[b].node, op[b].labels)
    BY <2>1, <2>3, NewVersionFacts
  <2>5. op' = [op EXCEPT ![b] = op'[b]] /\ op'[b] \in Locals
        /\ op'[b].stage = "done" /\ op'[b].meta = v
    <3>1. op'[b] \in Locals
      <4>1. IInv'
        BY <1>12, CommitRootStep
      <4> QED
        BY <4>1 DEF IInv, TypeOK
    <3> QED
      BY <1>2, <1>12, <3>1 DEF CommitRoot, ReplaceRoot, Locals
  <2>6. view' = [view EXCEPT ![b] = v]
    BY <1>3, <2>5 DEF ViewOf
  <2>7. view[b] = CurrentRoots(disk)
    BY <2>1, <2>4 DEF ViewOf, Current
  <2>8. PICK n \in Node, labels \in SUBSET Label : n = op[b].node /\ labels = op[b].labels
    BY <2>4
  <2>9. EP!Publish(b, n, labels)
    BY <1>1, <1>5, <2>1, <2>2, <2>4, <2>6, <2>7, <2>8 DEF EP!Publish, ViewOf, Current
  <2> QED
    BY <2>9 DEF EP!Next
<1>13. ASSUME NEW b \in Backend, Commit(b)
       PROVE  EP!Next
  <2>1. disk' = disk /\ durable' = disk /\ op' = [op EXCEPT ![b] = Idle]
    BY <1>13 DEF Commit
  <2>2. view' = [view EXCEPT ![b] = NoView]
    BY <1>3, <1>6, <2>1
  <2>3. EP!Commit(b)
    BY <1>1, <1>4, <2>1, <2>2 DEF EP!Commit, ViewOf
  <2> QED
    BY <2>3 DEF EP!Next
<1>14. ASSUME NEW b \in Backend, Abort(b)
       PROVE  EP!Next
  <2>1. disk' = disk /\ durable' = durable /\ op' = [op EXCEPT ![b] = Idle]
    BY <1>14 DEF Abort
  <2>2. view' = [view EXCEPT ![b] = NoView]
    BY <1>3, <1>6, <2>1
  <2>3. EP!Forget(b)
    BY <1>1, <1>4, <1>5, <2>1, <2>2 DEF EP!Forget, ViewOf
  <2> QED
    BY <2>3 DEF EP!Next
<1>15. CASE Flush
  <2>1. disk' = disk /\ durable' = disk /\ op' = op
    BY <1>15 DEF Flush
  <2>2. EP!Flush
    BY <1>4, <2>1 DEF EP!Flush
  <2> QED
    BY <2>2 DEF EP!Next
<1>16. CASE Crash
  <2>1. disk' = durable /\ durable' = durable /\ op' = [b \in Backend |-> Idle]
    BY <1>16 DEF Crash
  <2>2. view' = [b \in Backend |-> NoView]
    BY <1>6, <2>1
  <2>3. EP!Crash
    BY <1>1, <1>5, <2>1, <2>2 DEF EP!Crash, ViewOf
  <2> QED
    BY <2>3 DEF EP!Next
<1>17. CASE UNCHANGED vars
  BY <1>17 DEF vars, EP!vars
<1> QED
  BY <1>7, <1>8, <1>9, <1>10, <1>11, <1>12, <1>13, <1>14, <1>15, <1>16, <1>17,
     RowLabelsAssumption DEF Next

\* Fetch and update_start_nodes, over any chain of pages, behave as single
\* steps on one map of roots.
THEOREM EntryPointsRefinement == Spec => ImplementsEntryPoints
  BY RefineInit, RefineNext, Invariant, PTL DEF Spec, EP!Spec, ImplementsEntryPoints
================================================================================
