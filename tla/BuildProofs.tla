------------------------------ MODULE BuildProofs ------------------------------
(***************************************************************************)
(* Theorems about Build and its processes of ParallelBuild.  Without       *)
(* assumptions: nobody writes a node before the statistics are published,  *)
(* and parallel mode, context and snapshot are held for workers only.  For *)
(* finite tables: every row is counted once.  Without overflowing lists:   *)
(* the seeds are on the pages before others insert, and in the end every   *)
(* row can be reached.  The argument for the last two: a search visits the *)
(* root, so the root gets every row for a neighbor, first in the cache of  *)
(* the process that inserts it, and from there on the page.                *)
(***************************************************************************)
EXTENDS Build, FiniteSetTheorems, TLAPS

Procs == Worker \cup {Leader}

Rowing == {"search", "link", "flush", "count"}
Outside == {"start", "check", "sleep"}

USE DEF Stages, LeaderStages, Rowing, Outside

--------------------------------------------------------------------------------
(***************************************************************************)
(* The invariant                                                           *)
(***************************************************************************)

LeadOK ==
  /\ leader.parallel = leader.context
  /\ leader.stage \in {"dsm", "wait"} => leader.parallel /\ leader.snapshot = request.concurrent
  /\ leader.stage \notin {"dsm", "wait"} => ~leader.parallel /\ ~leader.snapshot
  /\ leader.stage = "train" => ~request.plain
  /\ leader.toScan \subseteq table
  /\ ~request.plain /\ leader.stage \notin {"meta", "train"} =>
       catalog.stats.known /\ (~request.concurrent => catalog.stats.sample = table)
  /\ ~request.plain /\ leader.stage \notin {"meta", "train", "store"} =>
       catalog.pointer = catalog.stats
  /\ leader.stage = "wait" => leader.launched # {}

Begun == leader.stage \in {"wait", "scan", "done"}

RowsOK ==
  /\ rest \cap disk.tape = {}
  /\ rest \cup disk.tape = IF Begun THEN leader.toScan ELSE {}
  /\ disk.root \in disk.tape \cup {NoNode}
  /\ leader.stage = "done" => rest = {}

\* Who scans: the workers launched, or the leader.
ModeOK ==
  /\ leader.stage \notin {"wait", "done"} =>
       /\ \A w \in Worker : worker[w] = Starting
       /\ ~shared.claimed /\ shared.ntuples = 0 /\ ~shared.done
  /\ leader.stage \notin {"scan", "done"} => worker[Leader] = Starting
  /\ leader.stage = "scan" => worker[Leader].serial
  /\ leader.stage = "done" =>
       /\ \A v \in Procs : worker[v] = Starting \/ worker[v].stage = "ended"
       /\ worker[Leader] = Starting \/ \A w \in Worker : worker[w] = Starting
  /\ \A w \in Worker \ leader.launched : worker[w] = Starting

ProcOK(v) ==
  LET o == worker[v]
  IN  /\ o.serial => v = Leader /\ o.stage \in Rowing \cup {"scan", "root", "drain", "ended"}
      /\ o.init => v \in Worker /\ ~o.serial /\ shared.claimed /\ o.stage \notin Outside
      /\ o.stage \in Outside => o.ntuples = 0
      /\ o.stage \in Outside \cup {"open", "signal", "wake", "ended"} => o.cached = {}
      /\ o.evicted # NoNode => o.stage \in Rowing
      /\ o.node # NoNode <=> o.stage \in Rowing \cup {"root"}
      /\ o.node # NoNode => o.node \in disk.tape
      /\ o.root \in {NoNode, disk.root} /\ (o.stage \in Rowing => o.root # NoNode)
      /\ o.stage # "search" => o.visited = {}
      /\ o.stage = "search" => \/ o.root \in o.visited
                               \/ o.visited = {} /\ o.frontier = {o.root}
      /\ o.stage \in {"seed", "signal", "wake", "total", "drain", "ended"} => rest = {}
      /\ o.stage = "count" /\ FlushDue(o) => o.cached = {}
      /\ o.stage \in {"seed", "signal", "wake"} => o.init
      /\ o.init /\ o.stage \in {"wake", "total", "drain", "ended"} => shared.done
      /\ v \in Worker /\ ~o.init /\ o.stage \notin Outside => GateOpen

ProcsOK == \A v \in Procs : ProcOK(v)

OneInit == \A w, v \in Worker : worker[w].init /\ worker[v].init => w = v

IInv == TypeOK /\ LeadOK /\ RowsOK /\ ModeOK /\ OneInit /\ ProcsOK

--------------------------------------------------------------------------------
(***************************************************************************)
(* Records                                                                 *)
(***************************************************************************)

LEMMA StartingIs ==
  /\ Starting \in Locals /\ Starting.stage = "start" /\ ~Starting.serial /\ ~Starting.init
  /\ Starting.cached = {} /\ Starting.evicted = NoNode /\ Starting.node = NoNode
  /\ Starting.root = NoNode /\ Starting.ntuples = 0 /\ Starting.visited = {}
BY DEF Starting, Locals, NoLists

LEMMA Typed ==
  ASSUME TypeOK
  PROVE  /\ disk.tape \subseteq Node /\ disk.root \in Node \cup {NoNode}
         /\ disk.adj \in [Node -> SUBSET Node]
         /\ shared.seeds \in Nat \ {0} /\ shared.ntuples \in Nat
         /\ \A v \in Procs : worker[v] \in Locals
         /\ NoNode \notin Node /\ Leader \notin Worker
BY ParallelBuildAssumption DEF TypeOK, Procs

\* A list that is put in a cache, and what it may push out.
Put(o, p, n, list) ==
  /\ p.stage = o.stage /\ p.serial = o.serial /\ p.init = o.init /\ p.root = o.root
  /\ p.node = o.node /\ p.frontier = o.frontier /\ p.visited = o.visited
  /\ p.links = o.links /\ p.ntuples = o.ntuples
  /\ n \in p.cached /\ p.lists[n] = list
  /\ p.evicted = o.evicted \/ p.evicted \in Node \ {n}
  /\ o.evicted = NoNode => \A m \in o.cached \ {n} :
       \/ m \in p.cached /\ p.lists[m] = o.lists[m]
       \/ p.evicted = m /\ p.evictedList = o.lists[m]

LEMMA PushesPut ==
  ASSUME NEW o \in Locals, NEW n \in Node, NEW list \in SUBSET Node, NEW p \in Pushes(o, n, list)
  PROVE  p \in Locals /\ Put(o, p, n, list)
<1>1. CASE p = [o EXCEPT !.cached = @ \cup {n}, !.lists[n] = list]
  <2>1. o.lists \in [Node -> SUBSET Node]
    BY DEF Locals
  <2>2. PICK f \in [Node -> SUBSET Node] : f = [o.lists EXCEPT ![n] = list]
    BY <2>1
  <2>3. p = [o EXCEPT !.cached = @ \cup {n}, !.lists = f]
    BY <1>1, <2>2, Zenon
  <2> QED
    BY <2>1, <2>2, <2>3 DEF Locals, Put
<1>2. ASSUME NEW v \in o.cached, n \notin o.cached,
             p = [o EXCEPT !.cached = (@ \ {v}) \cup {n}, !.lists = [@ EXCEPT ![v] = {}, ![n] = list],
                           !.evicted = v, !.evictedList = o.lists[v]]
      PROVE  p \in Locals /\ Put(o, p, n, list)
  <2>1. o.lists \in [Node -> SUBSET Node] /\ v \in Node
    BY DEF Locals
  <2>2. PICK f \in [Node -> SUBSET Node] : f = [o.lists EXCEPT ![v] = {}, ![n] = list]
    BY <2>1
  <2>3. p = [o EXCEPT !.cached = (@ \ {v}) \cup {n}, !.lists = f, !.evicted = v,
                      !.evictedList = o.lists[v]]
    BY <1>2, <2>2, Zenon
  <2>4. n # v
    BY <1>2, Zenon
  <2>5. /\ p.cached = (o.cached \ {v}) \cup {n} /\ p.lists = f /\ p.evicted = v
        /\ p.evictedList = o.lists[v] /\ p.stage = o.stage /\ p.serial = o.serial
        /\ p.init = o.init /\ p.root = o.root /\ p.node = o.node /\ p.frontier = o.frontier
        /\ p.visited = o.visited /\ p.links = o.links /\ p.ntuples = o.ntuples
        /\ p \in Locals
    BY <2>1, <2>3, <2>4 DEF Locals
  <2>6. f[n] = list /\ \A m \in Node \ {n, v} : f[m] = o.lists[m]
    BY <2>1, <2>2
  <2>7. o.cached \subseteq Node
    BY DEF Locals
  <2> QED
    BY <2>1, <2>4, <2>5, <2>6, <2>7 DEF Put
<1> QED
  BY <1>1, <1>2 DEF Pushes

\* A list that is dropped from a cache.
Drop(o, p, n) ==
  /\ p.stage = o.stage /\ p.serial = o.serial /\ p.init = o.init
  /\ p.root = o.root /\ p.node = o.node /\ p.ntuples = o.ntuples
  /\ p.links = o.links /\ p.visited = o.visited /\ p.evicted = o.evicted /\ p.evictedList = o.evictedList
  /\ p.cached = o.cached \ {n} /\ \A m \in Node \ {n} : p.lists[m] = o.lists[m]

LEMMA DroppedIs ==
  ASSUME NEW o \in Locals, NEW n \in Node
  PROVE  LET p == [o EXCEPT !.cached = @ \ {n}, !.lists[n] = {}]
         IN  p \in Locals /\ Drop(o, p, n)
<1>1. o.lists \in [Node -> SUBSET Node]
  BY DEF Locals
<1>2. PICK g \in [Node -> SUBSET Node] : g = [o.lists EXCEPT ![n] = {}]
  BY <1>1
<1>3. PICK p : p = [o EXCEPT !.cached = @ \ {n}, !.lists = g]
  OBVIOUS
<1>4. p = [o EXCEPT !.cached = @ \ {n}, !.lists[n] = {}]
  BY <1>2, <1>3, Zenon
<1>5. /\ p \in Locals /\ p.stage = o.stage /\ p.serial = o.serial /\ p.init = o.init
      /\ p.root = o.root /\ p.node = o.node /\ p.ntuples = o.ntuples
      /\ p.links = o.links /\ p.visited = o.visited /\ p.evicted = o.evicted /\ p.evictedList = o.evictedList
      /\ p.cached = o.cached \ {n} /\ p.lists = g
  BY <1>3 DEF Locals
<1>6. \A m \in Node \ {n} : g[m] = o.lists[m]
  BY <1>1, <1>2
<1>7. Drop(o, p, n)
  BY <1>5, <1>6, Zenon DEF Drop
<1> QED
  BY <1>4, <1>5, <1>7, Zenon

--------------------------------------------------------------------------------
(***************************************************************************)
(* Lists without overflow                                                  *)
(***************************************************************************)

\* Every list has room for all the other nodes, and none is pruned for more.
Roomy == ~Occludes /\ IsFiniteSet(Node) /\ Cardinality(Node) <= NumNeighbors + 1

LEMMA FitsRoomy ==
  ASSUME Roomy, NEW n \in Node, NEW C \in SUBSET (Node \ {n})
  PROVE  IsFiniteSet(C) /\ Cardinality(C) <= NumNeighbors /\ Cardinality(C) \in Nat
<1>1. IsFiniteSet(Node \ {n}) /\ Cardinality(Node \ {n}) = Cardinality(Node) - 1
  BY FS_RemoveElement DEF Roomy
<1>2. IsFiniteSet(C) /\ Cardinality(C) <= Cardinality(Node \ {n})
  BY <1>1, FS_Subset
<1>3. Cardinality(C) \in Nat /\ Cardinality(Node) \in Nat
  BY <1>2, FS_CardinalityType DEF Roomy
<1> QED
  BY <1>1, <1>2, <1>3, NumNeighborsAssumption DEF Roomy

LEMMA PrunedIs ==
  ASSUME NEW n \in Node, NEW C \in SUBSET (Node \ {n}),
         NEW list \in PrunedSets(n, C) \cup CachedSets(n, C)
  PROVE  list \in SUBSET Node /\ (Roomy => list = C)
<1>1. list \in SUBSET Node
  BY DEF PrunedSets, CachedSets
<1>2. ASSUME Roomy PROVE list = C
  <2>1. ~Occludes /\ Cardinality(C) <= NumNeighbors
    BY <1>2, FitsRoomy DEF Roomy
  <2> QED
    BY <2>1 DEF PrunedSets, CachedSets
<1> QED
  BY <1>1, <1>2

LEMMA MergedIs ==
  ASSUME NEW n \in Node, NEW a \in SUBSET Node, NEW b \in SUBSET Node,
         NEW list \in MergedNeighbors(n, a, b)
  PROVE  list \in SUBSET Node /\ (Roomy => list = (a \cup b) \ {n})
<1> DEFINE C == (a \cup b) \ {n}
<1>1. list \in SUBSET Node
  BY DEF MergedNeighbors
<1>2. ASSUME Roomy PROVE list = C
  <2>1. C \in SUBSET (Node \ {n})
    OBVIOUS
  <2>2. Cardinality(C) <= NumNeighbors /\ Cardinality(C) \in Nat
    BY <1>2, <2>1, FitsRoomy
  <2>3. ~(Cardinality(C) > NumNeighbors)
    BY <2>2, NumNeighborsAssumption
  <2> QED
    BY <2>3 DEF MergedNeighbors
<1> QED
  BY <1>1, <1>2

--------------------------------------------------------------------------------
(***************************************************************************)
(* The root's neighbors, and who has them                                  *)
(***************************************************************************)

Star == IF disk.root = NoNode THEN {} ELSE {disk.root} \cup disk.adj[disk.root]

\* A process that will put x among them.
Carries(o, x) ==
  \/ o.node = x /\ o.stage \in {"root", "search"}
  \/ o.node = x /\ o.stage = "link" /\ disk.root \in o.links
  \/ disk.root \in o.cached /\ x \in o.lists[disk.root]
  \/ disk.root # NoNode /\ o.evicted = disk.root /\ x \in o.evictedList

\* A step of w that lets go of none.
Kept(w) ==
  /\ disk.root # NoNode => disk'.root = disk.root
  /\ Star \subseteq Star'
  /\ \A x \in disk'.tape :
       \/ x \in Star' \/ Carries(worker[w], x)'
       \/ x \in disk.tape /\ x \notin Star /\ ~Carries(worker[w], x)

--------------------------------------------------------------------------------
(***************************************************************************)
(* What a step of one process leaves alone                                 *)
(***************************************************************************)

Active(w) == IF w = Leader THEN leader.stage = "scan" ELSE leader.stage = "wait" /\ w \in leader.launched

\* p is what is left of w, and the step is one of w.
Moves(w, p) ==
  /\ worker'[w] = p /\ p \in Locals /\ worker' \in [Procs -> Locals]
  /\ \A v \in Procs \ {w} : worker'[v] = worker[v]

\* The processes that have added their rows to the counter.
Totaled(w) == w \in Worker /\ worker[w].stage \in {"drain", "ended"}

\* A step of w that changes nothing that is counted.
SameCount(w) ==
  /\ Moves(w, worker'[w]) /\ disk'.tape = disk.tape
  /\ worker'[w].init = worker[w].init /\ worker'[w].ntuples = worker[w].ntuples
  /\ worker'[w].node = worker[w].node
  /\ shared'.ntuples = shared.ntuples /\ shared'.seeds = shared.seeds
  /\ Totaled(w)' <=> Totaled(w)

LEMMA MovesIs ==
  ASSUME TypeOK, NEW w \in Procs, NEW p \in Locals, worker' = [worker EXCEPT ![w] = p]
  PROVE  Moves(w, p)
BY DEF Moves, TypeOK, Procs

SharedSame ==
  /\ shared'.seeds = shared.seeds /\ shared'.claimed = shared.claimed
  /\ shared'.ntuples = shared.ntuples /\ shared'.done = shared.done

SharedTyped ==
  shared' \in [seeds : SeedCounts, claimed : BOOLEAN, ntuples : Nat, done : BOOLEAN,
               queue : SUBSET (Worker \cup {Leader})]

DiskTyped ==
  disk' \in [tape : SUBSET Node, adj : [Node -> SUBSET Node], root : Node \cup {NoNode}]

LEMMA WorkFrame ==
  ASSUME IInv, NEW w \in Procs, Active(w), UNCHANGED buildVars,
         NEW p, Moves(w, p), SharedTyped, DiskTyped,
         rest' \subseteq rest, disk.tape \subseteq disk'.tape,
         rest' \cup disk'.tape = rest \cup disk.tape, rest' \cap disk'.tape = {},
         disk'.root \in disk'.tape \cup {NoNode}, disk.root # NoNode => disk'.root = disk.root,
         shared'.seeds = shared.seeds, shared.claimed => shared'.claimed,
         shared.done => shared'.done, GateOpen => GateOpen',
         w = Leader => SharedSame /\ p.serial,
         p.init => worker[w].init \/ ~shared.claimed,
         ProcOK(w)'
  PROVE  IInv'
<1>0. /\ TypeOK /\ LeadOK /\ RowsOK /\ ModeOK /\ OneInit /\ ProcsOK
      /\ table' = table /\ request' = request /\ catalog' = catalog /\ leader' = leader
      /\ NoNode \notin Node /\ Leader \notin Worker
      /\ worker'[w] = p /\ \A v \in Procs \ {w} : worker'[v] = worker[v]
  BY Typed DEF IInv, buildVars, Moves
<1>1. TypeOK'
  BY <1>0 DEF TypeOK, Moves, SharedTyped, DiskTyped, Procs
<1>2. LeadOK'
  BY <1>0 DEF LeadOK
<1>3. leader.stage \in {"wait", "scan"}
  BY DEF Active
<1>4. RowsOK'
  BY <1>0, <1>3 DEF RowsOK, Begun
<1>5. ModeOK'
  <2>1. CASE w = Leader
    BY <1>0, <2>1 DEF Active, ModeOK, SharedSame, Procs
  <2>2. CASE w # Leader
    BY <1>0, <2>2 DEF Active, ModeOK, Procs
  <2> QED
    BY <2>1, <2>2
<1>6. OneInit'
  BY <1>0 DEF OneInit, ProcsOK, ProcOK, Procs
<1>7. ASSUME NEW v \in Procs \ {w} PROVE ProcOK(v)'
  <2>1. ProcOK(v) /\ worker'[v] = worker[v]
    BY <1>0 DEF ProcsOK
  <2>2. FlushDue(worker[v])' <=> FlushDue(worker[v])
    BY <2>1 DEF FlushDue
  <2> QED
    BY <1>0, <2>1, <2>2 DEF ProcOK
<1>8. ProcsOK'
  BY <1>7 DEF ProcsOK
<1> QED
  BY <1>1, <1>2, <1>4, <1>5, <1>6, <1>8 DEF IInv

--------------------------------------------------------------------------------
(***************************************************************************)
(* Steps that change no list                                               *)
(***************************************************************************)

LEMMA ActiveIs ==
  ASSUME IInv, NEW w \in Procs, Active(w)
  PROVE  /\ TypeOK /\ RowsOK /\ OneInit /\ ProcOK(w) /\ worker[w] \in Locals
         /\ (w = Leader <=> worker[w].serial)
         /\ (w # Leader => w \in Worker)
BY Typed DEF IInv, ProcsOK, Procs, Active, ModeOK, ProcOK

\* A step that leaves rows, pages, lists and counts to be what they are.
Quiet(w) ==
  LET o == worker[w]
      p == worker'[w]
  IN  /\ o.stage \notin {"root", "search", "link"}
      /\ p.serial = o.serial /\ p.node = o.node /\ p.ntuples = o.ntuples
      /\ p.cached = o.cached /\ p.lists = o.lists
      /\ p.evicted = o.evicted /\ p.evictedList = o.evictedList
      /\ Moves(w, p) /\ disk' = disk /\ rest' = rest

\* Nor does it change who is counted how.
Uncounted(w) ==
  /\ Quiet(w) /\ worker'[w].init = worker[w].init
  /\ shared'.ntuples = shared.ntuples /\ shared'.seeds = shared.seeds
  /\ Totaled(w)' <=> Totaled(w)

LEMMA QuietFrame ==
  ASSUME IInv, NEW w \in Procs, Active(w), UNCHANGED buildVars, Quiet(w), SharedTyped,
         shared'.seeds = shared.seeds, shared.claimed => shared'.claimed,
         shared.done => shared'.done, GateOpen => GateOpen',
         w = Leader => SharedSame,
         worker'[w].init => worker[w].init \/ ~shared.claimed,
         ProcOK(w)'
  PROVE  IInv'
<1> DEFINE p == worker'[w]
<1>1. /\ Moves(w, p) /\ disk' = disk /\ rest' = rest /\ p.serial = worker[w].serial
  BY DEF Quiet
<1>2. TypeOK /\ RowsOK /\ (w = Leader => worker[w].serial)
  BY ActiveIs
<1>3. DiskTyped
  BY <1>1, <1>2 DEF DiskTyped, TypeOK
<1> HIDE DEF p
<1> QED
  BY <1>1, <1>2, <1>3, WorkFrame DEF RowsOK, p

LEMMA SharedKept ==
  ASSUME TypeOK, shared' = shared
  PROVE  SharedTyped /\ SharedSame /\ (GateOpen <=> GateOpen')
BY DEF TypeOK, SharedTyped, SharedSame, GateOpen

LEMMA ClaimStep ==
  ASSUME IInv, NEW w \in Procs, Active(w), UNCHANGED buildVars, Claim(w)
  PROVE  /\ IInv' /\ Quiet(w) /\ SharedTyped /\ w \in Worker
         /\ worker[w].stage = "start" /\ worker'[w].stage \in {"check", "open"}
         /\ worker'[w].init = ~shared.claimed
         /\ shared'.ntuples = shared.ntuples /\ shared'.seeds = shared.seeds
         /\ shared'.done = shared.done
<1> DEFINE o == worker[w]
<1>0. /\ TypeOK /\ ProcOK(w) /\ o \in Locals /\ o.stage = "start" /\ w \in Worker /\ w # Leader
      /\ shared.seeds \in Nat /\ shared.ntuples \in Nat
  BY ActiveIs, Typed DEF Claim, ProcOK
<1>1. PICK p \in Locals : p = [o EXCEPT !.init = ~shared.claimed,
                                        !.stage = IF shared.claimed THEN "check" ELSE "open"]
  BY <1>0 DEF Locals, TypeOK
<1>2. /\ p.stage = (IF shared.claimed THEN "check" ELSE "open") /\ p.init = ~shared.claimed
      /\ p.serial = o.serial /\ p.node = o.node /\ p.ntuples = o.ntuples
      /\ p.cached = o.cached /\ p.lists = o.lists
      /\ p.visited = o.visited /\ p.evicted = o.evicted /\ p.evictedList = o.evictedList
      /\ p.root = o.root
  BY <1>0, <1>1 DEF Locals
<1>3. worker' = [worker EXCEPT ![w] = p] /\ disk' = disk /\ rest' = rest
      /\ shared' = [shared EXCEPT !.claimed = TRUE]
  BY <1>1 DEF Claim
<1>4. Moves(w, p)
  BY <1>0, <1>3, MovesIs
<1>5. /\ SharedTyped /\ shared'.seeds = shared.seeds /\ shared'.claimed
      /\ shared'.ntuples = shared.ntuples /\ shared'.done = shared.done
  BY <1>0, <1>3 DEF TypeOK, SharedTyped
<1>6. Quiet(w)
  BY <1>0, <1>2, <1>3, <1>4 DEF Quiet, Moves
<1>7. GateOpen <=> GateOpen'
  BY <1>5 DEF GateOpen
<1>8. ProcOK(w)'
  BY <1>0, <1>2, <1>3, <1>4, <1>5, <1>7 DEF ProcOK, Moves
<1>9. worker'[w] = p
  BY <1>4 DEF Moves
<1> QED
  BY <1>0, <1>2, <1>5, <1>6, <1>7, <1>8, <1>9, QuietFrame

LEMMA CheckStep ==
  ASSUME IInv, NEW w \in Procs, Active(w), UNCHANGED buildVars, Check(w)
  PROVE  /\ IInv' /\ Uncounted(w) /\ (GateOpen' <=> GateOpen)
<1> DEFINE o == worker[w]
<1>0. /\ TypeOK /\ ProcOK(w) /\ o \in Locals /\ o.stage = "check" /\ w \in Worker /\ w # Leader
      /\ shared.seeds \in Nat /\ shared.ntuples \in Nat
  BY ActiveIs, Typed DEF Check, ProcOK
<1>1. PICK p \in Locals : p = [o EXCEPT !.stage = IF GateOpen THEN "open" ELSE "sleep"]
  BY <1>0 DEF Locals, TypeOK
<1>2. /\ p.stage = (IF GateOpen THEN "open" ELSE "sleep") /\ p.init = o.init
      /\ p.serial = o.serial /\ p.node = o.node /\ p.ntuples = o.ntuples
      /\ p.cached = o.cached /\ p.lists = o.lists
      /\ p.visited = o.visited /\ p.evicted = o.evicted /\ p.evictedList = o.evictedList
      /\ p.root = o.root
  BY <1>0, <1>1 DEF Locals
<1>3. worker' = [worker EXCEPT ![w] = p] /\ disk' = disk /\ rest' = rest
  BY <1>0, <1>1 DEF Check
<1>4. Moves(w, p)
  BY <1>0, <1>3, MovesIs
<1>5. /\ SharedTyped /\ shared'.seeds = shared.seeds /\ shared'.claimed = shared.claimed
      /\ shared'.ntuples = shared.ntuples /\ shared'.done = shared.done
  BY <1>0 DEF TypeOK, SharedTyped, Check
<1>6. Quiet(w)
  BY <1>0, <1>2, <1>3, <1>4 DEF Quiet, Moves
<1>7. GateOpen <=> GateOpen'
  BY <1>5 DEF GateOpen
<1>8. ProcOK(w)'
  BY <1>0, <1>2, <1>3, <1>4, <1>5, <1>7 DEF ProcOK, Moves
<1>9. worker'[w] = p
  BY <1>4 DEF Moves
<1>10. Uncounted(w)
  BY <1>0, <1>2, <1>5, <1>6, <1>9 DEF Uncounted, Totaled
<1> QED
  BY <1>0, <1>2, <1>5, <1>6, <1>7, <1>8, <1>9, <1>10, QuietFrame

LEMMA SleepStep ==
  ASSUME IInv, NEW w \in Procs, Active(w), UNCHANGED buildVars, Sleep(w)
  PROVE  /\ IInv' /\ Uncounted(w) /\ (GateOpen' <=> GateOpen)
<1> DEFINE o == worker[w]
<1>0. /\ TypeOK /\ ProcOK(w) /\ o \in Locals /\ o.stage = "sleep" /\ w \in Worker /\ w # Leader
      /\ shared.seeds \in Nat /\ shared.ntuples \in Nat
  BY ActiveIs, Typed DEF Sleep, ProcOK
<1>1. PICK p \in Locals : p = [o EXCEPT !.stage = "check", !.prepared = TRUE]
  BY <1>0 DEF Locals, TypeOK
<1>2. /\ p.stage = "check" /\ p.init = o.init
      /\ p.serial = o.serial /\ p.node = o.node /\ p.ntuples = o.ntuples
      /\ p.cached = o.cached /\ p.lists = o.lists
      /\ p.visited = o.visited /\ p.evicted = o.evicted /\ p.evictedList = o.evictedList
      /\ p.root = o.root
  BY <1>0, <1>1 DEF Locals
<1>3. worker' = [worker EXCEPT ![w] = p] /\ disk' = disk /\ rest' = rest
  BY <1>0, <1>1 DEF Sleep
<1>4. Moves(w, p)
  BY <1>0, <1>3, MovesIs
<1>5. /\ SharedTyped /\ shared'.seeds = shared.seeds /\ shared'.claimed = shared.claimed
      /\ shared'.ntuples = shared.ntuples /\ shared'.done = shared.done
  BY <1>0 DEF TypeOK, SharedTyped, Sleep
<1>6. Quiet(w)
  BY <1>0, <1>2, <1>3, <1>4 DEF Quiet, Moves
<1>7. GateOpen <=> GateOpen'
  BY <1>5 DEF GateOpen
<1>8. ProcOK(w)'
  BY <1>0, <1>2, <1>3, <1>4, <1>5, <1>7 DEF ProcOK, Moves
<1>9. worker'[w] = p
  BY <1>4 DEF Moves
<1>10. Uncounted(w)
  BY <1>0, <1>2, <1>5, <1>6, <1>9 DEF Uncounted, Totaled
<1> QED
  BY <1>0, <1>2, <1>5, <1>6, <1>7, <1>8, <1>9, <1>10, QuietFrame

LEMMA OpenStep ==
  ASSUME IInv, NEW w \in Procs, Active(w), UNCHANGED buildVars, Open(w)
  PROVE  IInv' /\ Uncounted(w) /\ (GateOpen' <=> GateOpen)
<1> DEFINE o == worker[w]
<1>0. /\ TypeOK /\ ProcOK(w) /\ o \in Locals /\ o.stage = "open"
      /\ (w = Leader <=> o.serial) /\ (w # Leader => w \in Worker) /\ Leader \notin Worker
      /\ shared.seeds \in Nat /\ shared.ntuples \in Nat /\ disk.root \in Node \cup {NoNode}
  BY ActiveIs, Typed DEF Open, ProcOK, Free
<1>1. PICK p \in Locals : p = [o EXCEPT !.stage = "scan", !.root = disk.root]
  BY <1>0 DEF Locals, TypeOK
<1>2. /\ p.stage = "scan" /\ p.init = o.init
      /\ p.serial = o.serial /\ p.node = o.node /\ p.ntuples = o.ntuples
      /\ p.cached = o.cached /\ p.lists = o.lists
      /\ p.visited = o.visited /\ p.evicted = o.evicted /\ p.evictedList = o.evictedList
      /\ p.root = disk.root
  BY <1>0, <1>1 DEF Locals
<1>3. worker' = [worker EXCEPT ![w] = p] /\ disk' = disk /\ rest' = rest
  BY <1>0, <1>1 DEF Open
<1>4. Moves(w, p)
  BY <1>0, <1>3, MovesIs
<1>5. /\ SharedTyped /\ shared'.seeds = shared.seeds /\ shared'.claimed = shared.claimed
      /\ shared'.ntuples = shared.ntuples /\ shared'.done = shared.done
  BY <1>0, <1>3 DEF TypeOK, SharedTyped, Open
<1>6. Quiet(w)
  BY <1>0, <1>2, <1>3, <1>4 DEF Quiet, Moves
<1>7. GateOpen => GateOpen'
  BY <1>5 DEF GateOpen
<1>8. ProcOK(w)'
  BY <1>0, <1>2, <1>3, <1>4, <1>5, <1>7 DEF ProcOK, Moves
<1>9. worker'[w] = p
  BY <1>4 DEF Moves
<1>10. Uncounted(w)
  BY <1>0, <1>2, <1>5, <1>6, <1>9 DEF Uncounted, Totaled
<1>11. w = Leader => SharedSame
  BY <1>0, <1>5 DEF SharedSame, ProcOK
<1> QED
  BY <1>0, <1>2, <1>5, <1>6, <1>7, <1>8, <1>9, <1>10, <1>11, QuietFrame DEF GateOpen

LEMMA FlushEndsStep ==
  ASSUME IInv, NEW w \in Procs, Active(w), UNCHANGED buildVars, FlushEnds(w)
  PROVE  IInv' /\ Uncounted(w) /\ (GateOpen' <=> GateOpen)
<1> DEFINE o == worker[w]
<1>0. /\ TypeOK /\ ProcOK(w) /\ o \in Locals /\ o.stage = "flush" /\ o.cached = {}
      /\ (w = Leader <=> o.serial) /\ (w # Leader => w \in Worker) /\ Leader \notin Worker
      /\ shared.seeds \in Nat /\ shared.ntuples \in Nat /\ disk.root \in Node \cup {NoNode}
  BY ActiveIs, Typed DEF FlushEnds, ProcOK, Free
<1>1. PICK p \in Locals : p = [o EXCEPT !.stage = "count"]
  BY <1>0 DEF Locals, TypeOK
<1>2. /\ p.stage = "count" /\ p.init = o.init
      /\ p.serial = o.serial /\ p.node = o.node /\ p.ntuples = o.ntuples
      /\ p.cached = o.cached /\ p.lists = o.lists
      /\ p.visited = o.visited /\ p.evicted = o.evicted /\ p.evictedList = o.evictedList
      /\ p.root = o.root
  BY <1>0, <1>1 DEF Locals
<1>3. worker' = [worker EXCEPT ![w] = p] /\ disk' = disk /\ rest' = rest
  BY <1>0, <1>1 DEF FlushEnds
<1>4. Moves(w, p)
  BY <1>0, <1>3, MovesIs
<1>5. /\ SharedTyped /\ shared'.seeds = shared.seeds /\ shared'.claimed = shared.claimed
      /\ shared'.ntuples = shared.ntuples /\ shared'.done = shared.done
  BY <1>0, <1>3 DEF TypeOK, SharedTyped, FlushEnds
<1>6. Quiet(w)
  BY <1>0, <1>2, <1>3, <1>4 DEF Quiet, Moves
<1>7. GateOpen => GateOpen'
  BY <1>5 DEF GateOpen
<1>8. ProcOK(w)'
  BY <1>0, <1>2, <1>3, <1>4, <1>5, <1>7 DEF ProcOK, Moves
<1>9. worker'[w] = p
  BY <1>4 DEF Moves
<1>10. Uncounted(w)
  BY <1>0, <1>2, <1>5, <1>6, <1>9 DEF Uncounted, Totaled
<1>11. w = Leader => SharedSame
  BY <1>0, <1>5 DEF SharedSame, ProcOK
<1> QED
  BY <1>0, <1>2, <1>5, <1>6, <1>7, <1>8, <1>9, <1>10, <1>11, QuietFrame DEF GateOpen

LEMMA BroadcastStep ==
  ASSUME IInv, NEW w \in Procs, Active(w), UNCHANGED buildVars, Broadcast(w)
  PROVE  IInv' /\ Uncounted(w) /\ (GateOpen' <=> GateOpen)
<1> DEFINE o == worker[w]
<1>0. /\ TypeOK /\ ProcOK(w) /\ o \in Locals /\ o.stage \in {"broadcast", "wake"}
      /\ (w = Leader <=> o.serial) /\ (w # Leader => w \in Worker) /\ Leader \notin Worker
      /\ shared.seeds \in Nat /\ shared.ntuples \in Nat /\ disk.root \in Node \cup {NoNode}
  BY ActiveIs, Typed DEF Broadcast, ProcOK, Free
<1>1. PICK p \in Locals : p = [o EXCEPT !.stage = IF @ = "broadcast" THEN "scan" ELSE "total"]
  BY <1>0 DEF Locals, TypeOK
<1>2. /\ p.stage = (IF o.stage = "broadcast" THEN "scan" ELSE "total") /\ p.init = o.init
      /\ p.serial = o.serial /\ p.node = o.node /\ p.ntuples = o.ntuples
      /\ p.cached = o.cached /\ p.lists = o.lists
      /\ p.visited = o.visited /\ p.evicted = o.evicted /\ p.evictedList = o.evictedList
      /\ p.root = o.root
  BY <1>0, <1>1 DEF Locals
<1>3. worker' = [worker EXCEPT ![w] = p] /\ disk' = disk /\ rest' = rest
      /\ shared' = [shared EXCEPT !.queue = {}]
  BY <1>0, <1>1 DEF Broadcast
<1>4. Moves(w, p)
  BY <1>0, <1>3, MovesIs
<1>5. /\ SharedTyped /\ shared'.seeds = shared.seeds /\ shared'.claimed = shared.claimed
      /\ shared'.ntuples = shared.ntuples /\ shared'.done = shared.done
  BY <1>0, <1>3 DEF TypeOK, SharedTyped, Broadcast
<1>6. Quiet(w)
  BY <1>0, <1>2, <1>3, <1>4 DEF Quiet, Moves
<1>7. GateOpen => GateOpen'
  BY <1>5 DEF GateOpen
<1>8. ProcOK(w)'
  BY <1>0, <1>2, <1>3, <1>4, <1>5, <1>7 DEF ProcOK, Moves
<1>9. worker'[w] = p
  BY <1>4 DEF Moves
<1>10. Uncounted(w)
  BY <1>0, <1>2, <1>5, <1>6, <1>9 DEF Uncounted, Totaled
<1>11. w = Leader => SharedSame
  BY <1>0, <1>5 DEF SharedSame, ProcOK
<1> QED
  BY <1>0, <1>2, <1>5, <1>6, <1>7, <1>8, <1>9, <1>10, <1>11, QuietFrame DEF GateOpen

LEMMA FinishStep ==
  ASSUME IInv, NEW w \in Procs, Active(w), UNCHANGED buildVars, Finish(w)
  PROVE  IInv' /\ Uncounted(w) /\ (GateOpen' <=> GateOpen)
<1> DEFINE o == worker[w]
<1>0. /\ TypeOK /\ ProcOK(w) /\ o \in Locals /\ o.stage = "scan" /\ rest = {}
      /\ (w = Leader <=> o.serial) /\ (w # Leader => w \in Worker) /\ Leader \notin Worker
      /\ shared.seeds \in Nat /\ shared.ntuples \in Nat /\ disk.root \in Node \cup {NoNode}
  BY ActiveIs, Typed DEF Finish, ProcOK, Free
<1> DEFINE s == CASE o.serial -> "drain" [] o.init -> "seed" [] OTHER -> "total"
<1>1. PICK p \in Locals : p = [o EXCEPT !.stage = s]
  BY <1>0 DEF Locals, TypeOK
<1>2. s = IF o.serial THEN "drain" ELSE IF o.init THEN "seed" ELSE "total"
  BY <1>0 DEF Locals, ProcOK
<1>3. /\ p.stage = (IF o.serial THEN "drain" ELSE IF o.init THEN "seed" ELSE "total")
      /\ p.init = o.init
      /\ p.serial = o.serial /\ p.node = o.node /\ p.ntuples = o.ntuples
      /\ p.cached = o.cached /\ p.lists = o.lists
      /\ p.visited = o.visited /\ p.evicted = o.evicted /\ p.evictedList = o.evictedList
      /\ p.root = o.root
  BY <1>0, <1>1, <1>2 DEF Locals
<1>4. worker' = [worker EXCEPT ![w] = p] /\ disk' = disk /\ rest' = rest
  BY <1>0, <1>1 DEF Finish
<1>5. Moves(w, p)
  BY <1>0, <1>4, MovesIs
<1>6. /\ SharedTyped /\ shared'.seeds = shared.seeds /\ shared'.claimed = shared.claimed
      /\ shared'.ntuples = shared.ntuples /\ shared'.done = shared.done
  BY <1>0, <1>4 DEF TypeOK, SharedTyped, Finish
<1>7. Quiet(w)
  BY <1>0, <1>3, <1>4, <1>5 DEF Quiet, Moves
<1>8. GateOpen => GateOpen'
  BY <1>6 DEF GateOpen
<1>9. ProcOK(w)'
  BY <1>0, <1>3, <1>4, <1>5, <1>6, <1>8 DEF ProcOK, Moves
<1>10. worker'[w] = p
  BY <1>5 DEF Moves
<1>11. Uncounted(w)
  BY <1>0, <1>3, <1>6, <1>7, <1>10 DEF Uncounted, Totaled
<1>12. w = Leader => SharedSame
  BY <1>0, <1>6 DEF SharedSame, ProcOK
<1> QED
  BY <1>0, <1>3, <1>6, <1>7, <1>8, <1>9, <1>10, <1>11, <1>12, QuietFrame DEF GateOpen

LEMMA SeedsFlushedStep ==
  ASSUME IInv, NEW w \in Procs, Active(w), UNCHANGED buildVars, SeedsFlushed(w)
  PROVE  IInv' /\ Uncounted(w) /\ (GateOpen' <=> GateOpen)
<1> DEFINE o == worker[w]
<1>0. /\ TypeOK /\ ProcOK(w) /\ o \in Locals /\ o.stage = "seed" /\ o.cached = {}
      /\ (w = Leader <=> o.serial) /\ (w # Leader => w \in Worker) /\ Leader \notin Worker
      /\ shared.seeds \in Nat /\ shared.ntuples \in Nat /\ disk.root \in Node \cup {NoNode}
  BY ActiveIs, Typed DEF SeedsFlushed, ProcOK, Free
<1>1. PICK p \in Locals : p = [o EXCEPT !.stage = "signal"]
  BY <1>0 DEF Locals, TypeOK
<1>2. /\ p.stage = "signal" /\ p.init = o.init
      /\ p.serial = o.serial /\ p.node = o.node /\ p.ntuples = o.ntuples
      /\ p.cached = o.cached /\ p.lists = o.lists
      /\ p.visited = o.visited /\ p.evicted = o.evicted /\ p.evictedList = o.evictedList
      /\ p.root = o.root
  BY <1>0, <1>1 DEF Locals
<1>3. worker' = [worker EXCEPT ![w] = p] /\ disk' = disk /\ rest' = rest
  BY <1>0, <1>1 DEF SeedsFlushed
<1>4. Moves(w, p)
  BY <1>0, <1>3, MovesIs
<1>5. /\ SharedTyped /\ shared'.seeds = shared.seeds /\ shared'.claimed = shared.claimed
      /\ shared'.ntuples = shared.ntuples /\ shared'.done = shared.done
  BY <1>0, <1>3 DEF TypeOK, SharedTyped, SeedsFlushed
<1>6. Quiet(w)
  BY <1>0, <1>2, <1>3, <1>4 DEF Quiet, Moves
<1>7. GateOpen => GateOpen'
  BY <1>5 DEF GateOpen
<1>8. ProcOK(w)'
  BY <1>0, <1>2, <1>3, <1>4, <1>5, <1>7 DEF ProcOK, Moves
<1>9. worker'[w] = p
  BY <1>4 DEF Moves
<1>10. Uncounted(w)
  BY <1>0, <1>2, <1>5, <1>6, <1>9 DEF Uncounted, Totaled
<1>11. w = Leader => SharedSame
  BY <1>0, <1>5 DEF SharedSame, ProcOK
<1> QED
  BY <1>0, <1>2, <1>5, <1>6, <1>7, <1>8, <1>9, <1>10, <1>11, QuietFrame DEF GateOpen

LEMMA DrainEndsStep ==
  ASSUME IInv, NEW w \in Procs, Active(w), UNCHANGED buildVars, DrainEnds(w)
  PROVE  IInv' /\ Uncounted(w) /\ (GateOpen' <=> GateOpen)
<1> DEFINE o == worker[w]
<1>0. /\ TypeOK /\ ProcOK(w) /\ o \in Locals /\ o.stage = "drain" /\ o.cached = {}
      /\ (w = Leader <=> o.serial) /\ (w # Leader => w \in Worker) /\ Leader \notin Worker
      /\ shared.seeds \in Nat /\ shared.ntuples \in Nat /\ disk.root \in Node \cup {NoNode}
  BY ActiveIs, Typed DEF DrainEnds, ProcOK, Free
<1>1. PICK p \in Locals : p = [o EXCEPT !.stage = "ended"]
  BY <1>0 DEF Locals, TypeOK
<1>2. /\ p.stage = "ended" /\ p.init = o.init
      /\ p.serial = o.serial /\ p.node = o.node /\ p.ntuples = o.ntuples
      /\ p.cached = o.cached /\ p.lists = o.lists
      /\ p.visited = o.visited /\ p.evicted = o.evicted /\ p.evictedList = o.evictedList
      /\ p.root = o.root
  BY <1>0, <1>1 DEF Locals
<1>3. worker' = [worker EXCEPT ![w] = p] /\ disk' = disk /\ rest' = rest
  BY <1>0, <1>1 DEF DrainEnds
<1>4. Moves(w, p)
  BY <1>0, <1>3, MovesIs
<1>5. /\ SharedTyped /\ shared'.seeds = shared.seeds /\ shared'.claimed = shared.claimed
      /\ shared'.ntuples = shared.ntuples /\ shared'.done = shared.done
  BY <1>0, <1>3 DEF TypeOK, SharedTyped, DrainEnds
<1>6. Quiet(w)
  BY <1>0, <1>2, <1>3, <1>4 DEF Quiet, Moves
<1>7. GateOpen => GateOpen'
  BY <1>5 DEF GateOpen
<1>8. ProcOK(w)'
  BY <1>0, <1>2, <1>3, <1>4, <1>5, <1>7 DEF ProcOK, Moves
<1>9. worker'[w] = p
  BY <1>4 DEF Moves
<1>10. Uncounted(w)
  BY <1>0, <1>2, <1>5, <1>6, <1>9 DEF Uncounted, Totaled
<1>11. w = Leader => SharedSame
  BY <1>0, <1>5 DEF SharedSame, ProcOK
<1> QED
  BY <1>0, <1>2, <1>5, <1>6, <1>7, <1>8, <1>9, <1>10, <1>11, QuietFrame DEF GateOpen

LEMMA SignalStep ==
  ASSUME IInv, NEW w \in Procs, Active(w), UNCHANGED buildVars, Signal(w)
  PROVE  IInv' /\ Uncounted(w) /\ rest = {} /\ worker[w].init
<1> DEFINE o == worker[w]
<1>0. /\ TypeOK /\ ProcOK(w) /\ o \in Locals /\ o.stage = "signal"
      /\ (w = Leader <=> o.serial) /\ (w # Leader => w \in Worker) /\ Leader \notin Worker
      /\ shared.seeds \in Nat /\ shared.ntuples \in Nat /\ disk.root \in Node \cup {NoNode}
  BY ActiveIs, Typed DEF Signal, ProcOK, Free
<1>1. PICK p \in Locals : p = [o EXCEPT !.stage = "wake"]
  BY <1>0 DEF Locals, TypeOK
<1>2. /\ p.stage = "wake" /\ p.init = o.init
      /\ p.serial = o.serial /\ p.node = o.node /\ p.ntuples = o.ntuples
      /\ p.cached = o.cached /\ p.lists = o.lists
      /\ p.visited = o.visited /\ p.evicted = o.evicted /\ p.evictedList = o.evictedList
      /\ p.root = o.root
  BY <1>0, <1>1 DEF Locals
<1>3. worker' = [worker EXCEPT ![w] = p] /\ disk' = disk /\ rest' = rest
      /\ shared' = [shared EXCEPT !.done = TRUE]
  BY <1>0, <1>1 DEF Signal
<1>4. Moves(w, p)
  BY <1>0, <1>3, MovesIs
<1>5. /\ SharedTyped /\ shared'.seeds = shared.seeds /\ shared'.claimed = shared.claimed
      /\ shared'.ntuples = shared.ntuples /\ shared'.done
  BY <1>0, <1>3 DEF TypeOK, SharedTyped, Signal
<1>6. Quiet(w)
  BY <1>0, <1>2, <1>3, <1>4 DEF Quiet, Moves
<1>7. GateOpen => GateOpen'
  BY <1>5 DEF GateOpen
<1>8. ProcOK(w)'
  BY <1>0, <1>2, <1>3, <1>4, <1>5, <1>7 DEF ProcOK, Moves
<1>9. worker'[w] = p
  BY <1>4 DEF Moves
<1>10. Uncounted(w)
  BY <1>0, <1>2, <1>5, <1>6, <1>9 DEF Uncounted, Totaled
<1>11. w = Leader => SharedSame
  BY <1>0, <1>5 DEF SharedSame, ProcOK
<1> QED
  BY <1>0, <1>2, <1>5, <1>6, <1>7, <1>8, <1>9, <1>10, <1>11, QuietFrame DEF ProcOK

--------------------------------------------------------------------------------
(***************************************************************************)
(* Steps that change lists                                                 *)
(***************************************************************************)

LEMMA DataFrame ==
  ASSUME IInv, NEW w \in Procs, Active(w), UNCHANGED buildVars,
         NEW p, Moves(w, p), DiskTyped, rest' = rest, shared' = shared,
         disk'.tape = disk.tape, disk'.root \in disk.tape \cup {NoNode},
         disk.root # NoNode => disk'.root = disk.root,
         p.serial = worker[w].serial, p.init = worker[w].init,
         p.ntuples = worker[w].ntuples, p.node = worker[w].node,
         p.stage \in {"drain", "ended"} <=> worker[w].stage \in {"drain", "ended"},
         ProcOK(w)'
  PROVE  IInv' /\ SameCount(w)
<1>1. /\ TypeOK /\ RowsOK /\ (w = Leader => worker[w].serial) /\ worker'[w] = p
  BY ActiveIs DEF Moves
<1>2. SharedTyped /\ SharedSame /\ (GateOpen <=> GateOpen')
  BY <1>1, SharedKept
<1>3. IInv'
  BY <1>1, <1>2, WorkFrame DEF RowsOK, SharedSame
<1>4. SameCount(w)
  BY <1>1, <1>2 DEF SameCount, SharedSame, Totaled
<1> QED
  BY <1>3, <1>4

LEMMA FlushEntryStep ==
  ASSUME IInv, NEW w \in Procs, Active(w), UNCHANGED buildVars,
         NEW n \in Node, FlushEntry(w, n)
  PROVE  IInv' /\ SameCount(w) /\ shared' = shared /\ (Roomy => Kept(w))
<1> DEFINE o == worker[w]
           C == (disk.adj[n] \cup o.lists[n]) \ {n}
<1>0. /\ TypeOK /\ ProcOK(w) /\ o \in Locals /\ o.stage \in {"flush", "seed", "drain"}
      /\ o.evicted = NoNode /\ n \in o.cached
      /\ disk.adj \in [Node -> SUBSET Node] /\ disk.root \in disk.tape \cup {NoNode}
      /\ disk.tape \subseteq Node /\ NoNode \notin Node
      /\ rest' = rest /\ shared' = shared
  BY ActiveIs, Typed DEF FlushEntry, RowsOK
<1>1. PICK list \in MergedNeighbors(n, disk.adj[n], o.lists[n]) :
        disk' = [disk EXCEPT !.adj[n] = list]
  BY DEF FlushEntry
<1>2. o.lists \in [Node -> SUBSET Node] /\ o.cached \subseteq Node
  BY <1>0 DEF Locals
<1>3. C \in SUBSET (Node \ {n}) /\ disk.adj[n] \in SUBSET Node /\ o.lists[n] \in SUBSET Node
  BY <1>0, <1>2
<1>4. list \in SUBSET Node /\ (Roomy => list = C)
  BY <1>3, MergedIs
<1>5. PICK f \in [Node -> SUBSET Node] : f = [disk.adj EXCEPT ![n] = list]
  BY <1>0, <1>4
<1>6. disk' = [disk EXCEPT !.adj = f]
  BY <1>1, <1>5, Zenon
<1>7. DiskTyped /\ disk'.tape = disk.tape /\ disk'.root = disk.root /\ disk'.adj = f
  BY <1>0, <1>6 DEF TypeOK, DiskTyped
<1>8. PICK p : p = [o EXCEPT !.cached = @ \ {n}, !.lists[n] = {}]
  OBVIOUS
<1>9. worker' = [worker EXCEPT ![w] = p]
  BY <1>8, Zenon DEF FlushEntry
<1>10. p \in Locals /\ Drop(o, p, n)
  BY <1>0, <1>8, DroppedIs, Zenon
<1> HIDE <1>8
<1>11. /\ p \in Locals /\ p.stage = o.stage /\ p.serial = o.serial /\ p.init = o.init
       /\ p.root = o.root /\ p.node = o.node /\ p.ntuples = o.ntuples
       /\ p.links = o.links /\ p.visited = o.visited
       /\ p.evicted = NoNode /\ p.evictedList = o.evictedList
       /\ p.cached = o.cached \ {n} /\ \A m \in Node \ {n} : p.lists[m] = o.lists[m]
  BY <1>0, <1>10 DEF Drop
<1>12. Moves(w, p) /\ worker'[w] = p
  BY <1>0, <1>9, <1>11, MovesIs DEF Moves
<1>13. GateOpen' <=> GateOpen
  BY <1>0 DEF GateOpen
<1>14. FlushDue(worker[w])' => FlushDue(o)
  BY <1>0, <1>11, <1>12 DEF FlushDue
<1>15. ProcOK(w)'
  BY <1>0, <1>7, <1>11, <1>12, <1>13, <1>14 DEF ProcOK
<1>16. IInv' /\ SameCount(w)
  BY <1>0, <1>7, <1>11, <1>12, <1>15, DataFrame
<1>17. ASSUME Roomy PROVE Kept(w)
  <2>1. f[n] = C /\ \A m \in Node \ {n} : f[m] = disk.adj[m]
    BY <1>0, <1>4, <1>5, <1>17
  <2>2. Star \subseteq Star'
    BY <1>0, <1>7, <2>1 DEF Star
  <2>3. ASSUME NEW x \in disk.tape, Carries(o, x)
        PROVE  x \in Star' \/ Carries(worker[w], x)'
    <3>1. disk.root \in o.cached /\ x \in o.lists[disk.root]
      BY <1>0, <2>3 DEF Carries
    <3>2. CASE disk.root = n
      BY <1>0, <1>7, <2>1, <3>1, <3>2 DEF Star
    <3>3. CASE disk.root # n
      BY <1>2, <1>7, <1>11, <1>12, <3>1, <3>3 DEF Carries
    <3> QED
      BY <3>2, <3>3
  <2> QED
    BY <1>7, <2>2, <2>3 DEF Kept
<1> QED
  BY <1>0, <1>16, <1>17

LEMMA WriteBackStep ==
  ASSUME IInv, NEW w \in Procs, Active(w), UNCHANGED buildVars, WriteBack(w)
  PROVE  IInv' /\ SameCount(w) /\ shared' = shared /\ (Roomy => Kept(w))
<1> DEFINE o == worker[w]
           n == o.evicted
           C == (disk.adj[n] \cup o.evictedList) \ {n}
<1>0. /\ TypeOK /\ ProcOK(w) /\ o \in Locals /\ o.stage \in Rowing
      /\ n \in Node /\ o.evictedList \in SUBSET Node
      /\ disk.adj \in [Node -> SUBSET Node] /\ disk.root \in disk.tape \cup {NoNode}
      /\ disk.tape \subseteq Node /\ NoNode \notin Node
      /\ rest' = rest /\ shared' = shared
  BY ActiveIs, Typed DEF WriteBack, RowsOK, ProcOK, Locals
<1>1. PICK list \in PrunedSets(n, C) : disk' = [disk EXCEPT !.adj[n] = list]
  BY DEF WriteBack
<1>2. C \in SUBSET (Node \ {n})
  BY <1>0
<1>3. list \in SUBSET Node /\ (Roomy => list = C)
  BY <1>0, <1>2, PrunedIs
<1>4. PICK f \in [Node -> SUBSET Node] : f = [disk.adj EXCEPT ![n] = list]
  BY <1>0, <1>3
<1>5. disk' = [disk EXCEPT !.adj = f]
  BY <1>1, <1>4, Zenon
<1>6. DiskTyped /\ disk'.tape = disk.tape /\ disk'.root = disk.root /\ disk'.adj = f
  BY <1>0, <1>5 DEF TypeOK, DiskTyped
<1>7. PICK p \in Locals : p = [o EXCEPT !.evicted = NoNode, !.evictedList = {}]
  BY <1>0 DEF Locals
<1>8. /\ p.stage = o.stage /\ p.serial = o.serial /\ p.init = o.init /\ p.root = o.root
      /\ p.node = o.node /\ p.ntuples = o.ntuples /\ p.links = o.links
      /\ p.frontier = o.frontier /\ p.visited = o.visited
      /\ p.evicted = NoNode /\ p.cached = o.cached /\ p.lists = o.lists
  BY <1>0, <1>7 DEF Locals
<1>9. worker' = [worker EXCEPT ![w] = p]
  BY <1>7 DEF WriteBack
<1>10. Moves(w, p) /\ worker'[w] = p
  BY <1>0, <1>9, MovesIs DEF Moves
<1>11. GateOpen' <=> GateOpen
  BY <1>0 DEF GateOpen
<1>12. FlushDue(worker[w])' <=> FlushDue(o)
  BY <1>0, <1>8, <1>10 DEF FlushDue
<1>13. ProcOK(w)'
  BY <1>0, <1>6, <1>8, <1>10, <1>11, <1>12 DEF ProcOK
<1>14. IInv' /\ SameCount(w)
  BY <1>0, <1>6, <1>8, <1>10, <1>13, DataFrame
<1>15. ASSUME Roomy PROVE Kept(w)
  <2>1. f[n] = C /\ \A m \in Node \ {n} : f[m] = disk.adj[m]
    BY <1>0, <1>3, <1>4, <1>15
  <2>2. Star \subseteq Star'
    BY <1>0, <1>6, <2>1 DEF Star
  <2>3. ASSUME NEW x \in disk.tape, Carries(o, x)
        PROVE  x \in Star' \/ Carries(worker[w], x)'
    <3>1. CASE disk.root = n /\ x \in o.evictedList
      BY <1>0, <1>6, <2>1, <3>1 DEF Star
    <3>2. CASE ~(disk.root = n /\ x \in o.evictedList)
      BY <1>6, <1>8, <1>10, <2>3, <3>2 DEF Carries
    <3> QED
      BY <3>1, <3>2
  <2> QED
    BY <1>6, <2>2, <2>3 DEF Kept
<1> QED
  BY <1>0, <1>14, <1>15

LEMMA VisitStep ==
  ASSUME IInv, NEW w \in Procs, Active(w), UNCHANGED buildVars,
         NEW m \in Node, Visit(w, m)
  PROVE  IInv' /\ SameCount(w) /\ shared' = shared /\ Kept(w)
<1> DEFINE o == worker[w]
<1>0. /\ TypeOK /\ ProcOK(w) /\ o \in Locals /\ o.stage = "search" /\ m \in o.frontier
      /\ o.evicted = NoNode
      /\ disk.adj \in [Node -> SUBSET Node] /\ disk.root \in disk.tape \cup {NoNode}
      /\ disk.tape \subseteq Node /\ NoNode \notin Node
      /\ rest' = rest /\ shared' = shared /\ disk' = disk
  BY ActiveIs, Typed DEF Visit, Free, RowsOK
<1>1. Got(o, m) \in SUBSET Node
  BY <1>0 DEF Got, Locals
<1>2. PICK q \in Pushes(o, m, Got(o, m)) :
        worker' = [worker EXCEPT ![w] =
             [q EXCEPT !.visited = @ \cup {m},
                       !.frontier = (@ \cup Got(o, m)) \ (o.visited \cup {m})]]
  BY DEF Visit
<1>3. q \in Locals /\ Put(o, q, m, Got(o, m))
  BY <1>0, <1>1, PushesPut
<1>4. PICK p \in Locals : p = [q EXCEPT !.visited = @ \cup {m},
                       !.frontier = (@ \cup Got(o, m)) \ (o.visited \cup {m})]
  BY <1>1, <1>3 DEF Locals
<1>5. /\ p.stage = q.stage /\ p.serial = q.serial /\ p.init = q.init /\ p.root = q.root
      /\ p.node = q.node /\ p.ntuples = q.ntuples
      /\ p.evicted = q.evicted /\ p.evictedList = q.evictedList
      /\ p.cached = q.cached /\ p.lists = q.lists /\ p.visited = q.visited \cup {m}
  BY <1>3, <1>4 DEF Locals
<1>6. /\ p.stage = "search" /\ p.serial = o.serial /\ p.init = o.init /\ p.root = o.root
      /\ p.node = o.node /\ p.ntuples = o.ntuples /\ p.visited = o.visited \cup {m}
  BY <1>0, <1>3, <1>5 DEF Put
<1>7. worker' = [worker EXCEPT ![w] = p]
  BY <1>2, <1>4, Zenon
<1> HIDE <1>2, <1>4
<1>8. Moves(w, p) /\ worker'[w] = p
  BY <1>0, <1>7, MovesIs DEF Moves
<1>9. DiskTyped
  BY <1>0 DEF TypeOK, DiskTyped
<1>10. GateOpen' <=> GateOpen
  BY <1>0 DEF GateOpen
<1>11. ProcOK(w)'
  BY <1>0, <1>6, <1>8, <1>10 DEF ProcOK
<1>12. IInv' /\ SameCount(w)
  BY <1>0, <1>6, <1>8, <1>9, <1>11, DataFrame
<1>13. ASSUME NEW x \in disk.tape, Carries(o, x)
       PROVE  Carries(worker[w], x)'
  <2>1. CASE o.node = x
    BY <1>6, <1>8, <2>1 DEF Carries
  <2>2. CASE disk.root \in o.cached /\ x \in o.lists[disk.root]
    <3>1. m = disk.root => x \in Got(o, m)
      BY <2>2 DEF Got
    <3>2. disk.root \in Node
      BY <1>0, <2>2 DEF Locals
    <3>3. \/ disk.root \in q.cached /\ x \in q.lists[disk.root]
          \/ q.evicted = disk.root /\ x \in q.evictedList
      BY <1>0, <1>3, <2>2, <3>1, <3>2 DEF Put
    <3> QED
      BY <1>0, <1>5, <1>8, <3>2, <3>3 DEF Carries
  <2> QED
    BY <1>0, <1>13, <2>1, <2>2 DEF Carries
<1>14. Kept(w)
  BY <1>0, <1>13 DEF Kept, Star
<1> QED
  BY <1>0, <1>12, <1>14

\* A row that may have back pointers left.
After(p, a) ==
  /\ a.stage = (IF p.links # {} THEN "link" ELSE IF FlushDue(p) THEN "flush" ELSE "count")
  /\ a.serial = p.serial /\ a.init = p.init /\ a.root = p.root /\ a.node = p.node
  /\ a.ntuples = p.ntuples /\ a.visited = p.visited /\ a.links = p.links /\ a.evicted = p.evicted
  /\ a.evictedList = p.evictedList /\ a.cached = p.cached /\ a.lists = p.lists
  /\ FlushDue(a) <=> FlushDue(p)

LEMMA AfterLinksIs ==
  ASSUME NEW p \in Locals
  PROVE  AfterLinks(p) \in Locals /\ After(p, AfterLinks(p))
<1> DEFINE s == CASE p.links # {} -> "link"
                  [] p.links = {} /\ FlushDue(p) -> "flush"
                  [] OTHER -> "count"
<1>1. s = IF p.links # {} THEN "link" ELSE IF FlushDue(p) THEN "flush" ELSE "count"
  BY Zenon
<1>2. PICK a : a = [p EXCEPT !.stage = s]
  OBVIOUS
<1>3. AfterLinks(p) = a
  BY <1>2, Zenon DEF AfterLinks
<1> HIDE DEF s
<1>4. /\ a \in Locals /\ a.stage = s
      /\ a.serial = p.serial /\ a.init = p.init /\ a.root = p.root /\ a.node = p.node
      /\ a.ntuples = p.ntuples /\ a.visited = p.visited /\ a.links = p.links /\ a.evicted = p.evicted
      /\ a.evictedList = p.evictedList /\ a.cached = p.cached /\ a.lists = p.lists
  BY <1>1, <1>2 DEF Locals
<1>5. FlushDue(a) <=> FlushDue(p)
  BY <1>4 DEF FlushDue
<1>6. After(p, a)
  BY <1>1, <1>4, <1>5 DEF After
<1> QED
  BY <1>3, <1>4, <1>6, Zenon

LEMMA LinkNodeStep ==
  ASSUME IInv, NEW w \in Procs, Active(w), UNCHANGED buildVars, LinkNode(w)
  PROVE  IInv' /\ SameCount(w) /\ shared' = shared /\ (Roomy => Kept(w))
<1> DEFINE o == worker[w]
           n == o.node
           C == (Got(o, n) \cup o.visited) \ {n}
<1>0. /\ TypeOK /\ ProcOK(w) /\ o \in Locals /\ o.stage = "search" /\ o.evicted = NoNode
      /\ disk.adj \in [Node -> SUBSET Node] /\ disk.root \in disk.tape \cup {NoNode}
      /\ disk.tape \subseteq Node /\ NoNode \notin Node
      /\ rest' = rest /\ shared' = shared /\ disk' = disk /\ SearchEnds(o)
  BY ActiveIs, Typed DEF LinkNode, Free, RowsOK
<1>1. /\ n \in Node /\ n \in disk.tape /\ o.root = disk.root /\ disk.root \in Node
      /\ Got(o, n) \in SUBSET Node /\ C \in SUBSET (Node \ {n})
  BY <1>0 DEF ProcOK, Got, Locals
<1>2. disk.root \in o.visited
  <2>1. Cardinality({}) = 0 /\ ~(0 > SearchListSize)
    BY FS_EmptySet, ParallelBuildAssumption
  <2> QED
    BY <1>0, <1>1, <2>1 DEF ProcOK, SearchEnds
<1>3. PICK list \in CachedSets(n, C) :
        \E q \in Pushes([o EXCEPT !.links = list, !.frontier = {}, !.visited = {}], n, list) :
          worker' = [worker EXCEPT ![w] = AfterLinks(q)]
  BY DEF LinkNode
<1>4. list \in SUBSET Node /\ (Roomy => list = C)
  BY <1>1, PrunedIs
<1>5. PICK b : b = [o EXCEPT !.links = list, !.frontier = {}, !.visited = {}]
  OBVIOUS
<1>6. /\ b \in Locals
      /\ b.stage = o.stage /\ b.serial = o.serial /\ b.init = o.init /\ b.root = o.root
      /\ b.node = o.node /\ b.ntuples = o.ntuples /\ b.visited = {} /\ b.links = list
      /\ b.evicted = NoNode /\ b.cached = o.cached /\ b.lists = o.lists
  BY <1>0, <1>4, <1>5 DEF Locals
<1>7. PICK q \in Pushes(b, n, list) : worker' = [worker EXCEPT ![w] = AfterLinks(q)]
  BY <1>3, <1>5, Zenon
<1>8. q \in Locals /\ Put(b, q, n, list)
  BY <1>1, <1>4, <1>6, PushesPut
<1>9. PICK p \in Locals : p = AfterLinks(q) /\ After(q, p)
  BY <1>8, AfterLinksIs
<1>10. worker' = [worker EXCEPT ![w] = p]
  BY <1>7, <1>9, Zenon
<1> HIDE <1>5, <1>7
<1>11. Moves(w, p) /\ worker'[w] = p
  BY <1>0, <1>10, MovesIs DEF Moves
<1>12. /\ p.stage = (IF list # {} THEN "link" ELSE IF FlushDue(q) THEN "flush" ELSE "count")
       /\ p.serial = o.serial /\ p.init = o.init /\ p.root = o.root /\ p.node = n
       /\ p.visited = {} /\ p.ntuples = o.ntuples /\ p.links = list /\ p.evicted = q.evicted
       /\ p.evictedList = q.evictedList /\ p.cached = q.cached /\ p.lists = q.lists
       /\ FlushDue(p) <=> FlushDue(q)
  BY <1>6, <1>8, <1>9 DEF After, Put
<1>13. FlushDue(worker[w])' <=> FlushDue(p)
  BY <1>0, <1>11 DEF FlushDue
<1>14. DiskTyped /\ (GateOpen' <=> GateOpen)
  BY <1>0 DEF TypeOK, DiskTyped, GateOpen
<1>15. ProcOK(w)'
  BY <1>0, <1>1, <1>11, <1>12, <1>13, <1>14 DEF ProcOK
<1>16. IInv' /\ SameCount(w)
  BY <1>0, <1>11, <1>12, <1>14, <1>15, DataFrame
<1>17. ASSUME Roomy, NEW x \in disk.tape, x \notin Star, Carries(o, x)
       PROVE  Carries(worker[w], x)'
  <2>1. list = C /\ x # disk.root
    BY <1>0, <1>1, <1>4, <1>17 DEF Star
  <2>2. CASE x = n
    BY <1>0, <1>1, <1>2, <1>11, <1>12, <2>1, <2>2 DEF Carries
  <2>3. CASE x # n
    <3>1. disk.root \in b.cached /\ x \in b.lists[disk.root]
      BY <1>0, <1>6, <1>17, <2>3 DEF Carries
    <3>2. n = disk.root => x \in list
      BY <1>6, <2>1, <3>1 DEF Got
    <3>3. \/ disk.root \in q.cached /\ x \in q.lists[disk.root]
          \/ q.evicted = disk.root /\ x \in q.evictedList
      BY <1>1, <1>6, <1>8, <3>1, <3>2 DEF Put
    <3> QED
      BY <1>0, <1>1, <1>11, <1>12, <3>3 DEF Carries
  <2> QED
    BY <2>2, <2>3
<1>18. Roomy => Kept(w)
  BY <1>0, <1>17 DEF Kept, Star
<1> QED
  BY <1>0, <1>16, <1>18

LEMMA LinkBackStep ==
  ASSUME IInv, NEW w \in Procs, Active(w), UNCHANGED buildVars,
         NEW m \in Node, LinkBack(w, m)
  PROVE  IInv' /\ SameCount(w) /\ shared' = shared /\ (Roomy => Kept(w))
<1> DEFINE o == worker[w]
           C == (Got(o, m) \cup {o.node}) \ {m}
<1>0. /\ TypeOK /\ ProcOK(w) /\ o \in Locals /\ o.stage = "link" /\ o.evicted = NoNode
      /\ disk.adj \in [Node -> SUBSET Node] /\ disk.root \in disk.tape \cup {NoNode}
      /\ disk.tape \subseteq Node /\ NoNode \notin Node
      /\ rest' = rest /\ shared' = shared /\ disk' = disk
  BY ActiveIs, Typed DEF LinkBack, Free, RowsOK
<1>1. /\ o.node \in Node /\ o.root = disk.root /\ disk.root \in Node
      /\ Got(o, m) \in SUBSET Node /\ C \in SUBSET (Node \ {m})
  BY <1>0 DEF ProcOK, Got, Locals
<1>2. PICK list \in CachedSets(m, C) : \E q \in Pushes([o EXCEPT !.links = @ \ {m}], m, list) :
          worker' = [worker EXCEPT ![w] = AfterLinks(q)]
  BY DEF LinkBack
<1>3. list \in SUBSET Node /\ (Roomy => list = C)
  BY <1>1, PrunedIs
<1>4. PICK b : b = [o EXCEPT !.links = @ \ {m}]
  OBVIOUS
<1>5. /\ b \in Locals
      /\ b.stage = o.stage /\ b.serial = o.serial /\ b.init = o.init /\ b.root = o.root
      /\ b.node = o.node /\ b.ntuples = o.ntuples /\ b.visited = o.visited /\ b.links = o.links \ {m}
      /\ b.evicted = NoNode /\ b.cached = o.cached /\ b.lists = o.lists
  BY <1>0, <1>3, <1>4 DEF Locals
<1>6. PICK q \in Pushes(b, m, list) : worker' = [worker EXCEPT ![w] = AfterLinks(q)]
  BY <1>2, <1>4, Zenon
<1>7. q \in Locals /\ Put(b, q, m, list)
  BY <1>1, <1>3, <1>5, PushesPut
<1>8. PICK p \in Locals : p = AfterLinks(q) /\ After(q, p)
  BY <1>7, AfterLinksIs
<1>9. worker' = [worker EXCEPT ![w] = p]
  BY <1>6, <1>8, Zenon
<1> HIDE <1>4, <1>6
<1>10. Moves(w, p) /\ worker'[w] = p
  BY <1>0, <1>9, MovesIs DEF Moves
<1>11. /\ p.stage = (IF o.links \ {m} # {} THEN "link" ELSE IF FlushDue(q) THEN "flush" ELSE "count")
       /\ p.serial = o.serial /\ p.init = o.init /\ p.root = o.root /\ p.node = o.node
       /\ p.visited = o.visited /\ p.ntuples = o.ntuples /\ p.links = o.links \ {m} /\ p.evicted = q.evicted
       /\ p.evictedList = q.evictedList /\ p.cached = q.cached /\ p.lists = q.lists
       /\ FlushDue(p) <=> FlushDue(q)
  BY <1>5, <1>7, <1>8 DEF After, Put
<1>12. FlushDue(worker[w])' <=> FlushDue(p)
  BY <1>0, <1>10 DEF FlushDue
<1>13. DiskTyped /\ (GateOpen' <=> GateOpen)
  BY <1>0 DEF TypeOK, DiskTyped, GateOpen
<1>14. ProcOK(w)'
  BY <1>0, <1>1, <1>10, <1>11, <1>12, <1>13 DEF ProcOK
<1>15. IInv' /\ SameCount(w)
  BY <1>0, <1>10, <1>11, <1>13, <1>14, DataFrame
<1>16. ASSUME Roomy, NEW x \in disk.tape, x \notin Star, Carries(o, x)
       PROVE  Carries(worker[w], x)'
  <2>1. list = C /\ x # disk.root
    BY <1>0, <1>1, <1>3, <1>16 DEF Star
  <2>2. CASE o.node = x /\ disk.root \in o.links /\ disk.root # m
    BY <1>0, <1>1, <1>10, <1>11, <2>2 DEF Carries
  <2>3. CASE o.node = x /\ disk.root = m
    <3>1. m \in q.cached /\ x \in q.lists[m]
      BY <1>7, <2>1, <2>3 DEF Put
    <3> QED
      BY <1>0, <1>10, <1>11, <2>3, <3>1 DEF Carries
  <2>4. CASE disk.root \in o.cached /\ x \in o.lists[disk.root]
    <3>1. disk.root \in b.cached /\ x \in b.lists[disk.root]
      BY <1>5, <2>4
    <3>2. m = disk.root => x \in list
      BY <1>5, <2>1, <3>1 DEF Got
    <3>3. \/ disk.root \in q.cached /\ x \in q.lists[disk.root]
          \/ q.evicted = disk.root /\ x \in q.evictedList
      BY <1>1, <1>5, <1>7, <3>1, <3>2 DEF Put
    <3> QED
      BY <1>0, <1>1, <1>10, <1>11, <3>3 DEF Carries
  <2> QED
    BY <1>0, <1>16, <2>2, <2>3, <2>4 DEF Carries
<1>17. Roomy => Kept(w)
  BY <1>0, <1>16 DEF Kept, Star
<1> QED
  BY <1>0, <1>15, <1>17

LEMMA FindRootStep ==
  ASSUME IInv, NEW w \in Procs, Active(w), UNCHANGED buildVars, FindRoot(w)
  PROVE  IInv' /\ SameCount(w) /\ shared' = shared /\ Kept(w)
<1> DEFINE o == worker[w]
           n == o.node
<1>0. /\ TypeOK /\ ProcOK(w) /\ o \in Locals /\ o.stage = "root" /\ o.evicted = NoNode
      /\ disk.adj \in [Node -> SUBSET Node] /\ disk.root \in disk.tape \cup {NoNode}
      /\ disk.tape \subseteq Node /\ NoNode \notin Node
      /\ rest' = rest /\ shared' = shared
  BY ActiveIs, Typed DEF FindRoot, Free, RowsOK
<1>1. n \in Node /\ n \in disk.tape /\ o.root \in {NoNode, disk.root} /\ o.visited = {}
  BY <1>0 DEF ProcOK
<1>2. PICK b : b = [o EXCEPT !.stage = "search"]
  OBVIOUS
<1>3. /\ b \in Locals /\ b.stage = "search" /\ b.serial = o.serial /\ b.init = o.init
      /\ b.root = o.root /\ b.node = n /\ b.ntuples = o.ntuples /\ b.visited = {}
      /\ b.evicted = NoNode /\ b.cached = o.cached /\ b.lists = o.lists
  BY <1>0, <1>1, <1>2 DEF Locals
<1>4. GateOpen' <=> GateOpen
  BY <1>0 DEF GateOpen
<1>5. CASE disk.root # NoNode
  <2>1. disk' = disk
    BY <1>1, <1>5 DEF FindRoot
  <2>2. \/ worker' = [worker EXCEPT ![w] = [b EXCEPT !.frontier = {disk.root}]] /\ o.root = disk.root
        \/ worker' = [worker EXCEPT ![w] = [b EXCEPT !.root = disk.root, !.frontier = {disk.root}]]
    BY <1>1, <1>2, <1>5, Zenon DEF FindRoot
  <2>3. PICK p : /\ worker' = [worker EXCEPT ![w] = p]
                 /\ \/ p = [b EXCEPT !.frontier = {disk.root}] /\ o.root = disk.root
                    \/ p = [b EXCEPT !.root = disk.root, !.frontier = {disk.root}]
    BY <2>2, Zenon
  <2>4. /\ p \in Locals /\ p.stage = "search" /\ p.serial = o.serial /\ p.init = o.init
        /\ p.root = disk.root /\ p.node = n /\ p.ntuples = o.ntuples /\ p.visited = {}
        /\ p.frontier = {disk.root}
        /\ p.evicted = NoNode /\ p.cached = o.cached /\ p.lists = o.lists
    <3>1. disk.root \in Node
      BY <1>0, <1>5
    <3>2. CASE p = [b EXCEPT !.frontier = {disk.root}] /\ o.root = disk.root
      BY <1>3, <3>1, <3>2 DEF Locals
    <3>3. CASE p = [b EXCEPT !.root = disk.root, !.frontier = {disk.root}]
      BY <1>3, <3>1, <3>3 DEF Locals
    <3> QED
      BY <2>3, <3>2, <3>3
  <2>5. worker' = [worker EXCEPT ![w] = p]
    BY <2>3
  <2> HIDE <1>2, <2>2, <2>3
  <2>6. Moves(w, p) /\ worker'[w] = p
    BY <1>0, <2>4, <2>5, MovesIs DEF Moves
  <2>7. DiskTyped
    BY <1>0, <2>1 DEF TypeOK, DiskTyped
  <2>8. ProcOK(w)'
    BY <1>0, <1>1, <1>4, <1>5, <2>1, <2>4, <2>6 DEF ProcOK
  <2>9. IInv' /\ SameCount(w)
    BY <1>0, <2>1, <2>4, <2>6, <2>7, <2>8, DataFrame
  <2>10. Kept(w)
    BY <1>0, <2>1, <2>4, <2>6 DEF Kept, Star, Carries
  <2> QED
    BY <1>0, <2>9, <2>10
<1>6. CASE disk.root = NoNode
  <2>1. PICK q \in Pushes(b, n, {}) :
          worker' = [worker EXCEPT ![w] = [q EXCEPT !.root = n, !.frontier = {n}]]
    BY <1>1, <1>2, <1>6, Zenon DEF FindRoot
  <2>2. disk' = [disk EXCEPT !.root = n]
    BY <1>1, <1>6 DEF FindRoot
  <2>3. DiskTyped /\ disk'.tape = disk.tape /\ disk'.root = n /\ disk'.adj = disk.adj
    BY <1>0, <1>1, <2>2 DEF TypeOK, DiskTyped
  <2>4. q \in Locals /\ Put(b, q, n, {})
    BY <1>1, <1>3, PushesPut
  <2>5. PICK p : p = [q EXCEPT !.root = n, !.frontier = {n}]
    OBVIOUS
  <2>6. /\ p \in Locals /\ p.stage = q.stage /\ p.serial = q.serial /\ p.init = q.init
        /\ p.root = n /\ p.node = q.node /\ p.ntuples = q.ntuples /\ p.visited = q.visited
        /\ p.frontier = {n} /\ p.evicted = q.evicted
    BY <1>1, <2>4, <2>5 DEF Locals
  <2>7. /\ p.stage = "search" /\ p.serial = o.serial /\ p.init = o.init
        /\ p.node = n /\ p.ntuples = o.ntuples /\ p.visited = {}
    BY <1>3, <2>4, <2>6 DEF Put
  <2>8. worker' = [worker EXCEPT ![w] = p]
    BY <2>1, <2>5, Zenon
  <2> HIDE <1>2, <2>1, <2>5
  <2>9. Moves(w, p) /\ worker'[w] = p
    BY <1>0, <2>6, <2>8, MovesIs DEF Moves
  <2>10. ProcOK(w)'
    BY <1>0, <1>1, <1>4, <2>3, <2>6, <2>7, <2>9 DEF ProcOK
  <2>11. IInv' /\ SameCount(w)
    BY <1>0, <1>1, <1>6, <2>3, <2>6, <2>7, <2>9, <2>10, DataFrame
  <2>12. ASSUME NEW x \in disk.tape, Carries(o, x) PROVE x \in Star'
    <3>1. o.cached \subseteq Node
      BY <1>0 DEF Locals
    <3>2. x = n
      BY <1>0, <1>6, <2>12, <3>1 DEF Carries
    <3> QED
      BY <1>0, <1>1, <2>3, <3>2 DEF Star
  <2>13. Kept(w)
    BY <1>6, <2>3, <2>12 DEF Kept, Star
  <2> QED
    BY <1>0, <2>11, <2>13
<1> QED
  BY <1>5, <1>6

--------------------------------------------------------------------------------
(***************************************************************************)
(* Steps that are counted                                                  *)
(***************************************************************************)

LEMMA NextRowStep ==
  ASSUME IInv, NEW w \in Procs, Active(w), UNCHANGED buildVars,
         NEW n \in Node, NextRow(w, n)
  PROVE  /\ IInv' /\ Kept(w) /\ shared' = shared /\ Moves(w, worker'[w])
         /\ n \in rest /\ n \notin disk.tape /\ disk'.tape = disk.tape \cup {n}
         /\ worker[w].node = NoNode /\ worker'[w].node = n
         /\ worker'[w].init = worker[w].init /\ worker'[w].ntuples = worker[w].ntuples
         /\ worker[w].stage = "scan" /\ worker'[w].stage = "root"
<1> DEFINE o == worker[w]
<1>0. /\ TypeOK /\ RowsOK /\ ProcOK(w) /\ o \in Locals /\ o.stage = "scan"
      /\ n \in rest /\ n \notin disk.tape
      /\ disk.adj \in [Node -> SUBSET Node] /\ disk.root \in disk.tape \cup {NoNode}
      /\ disk.tape \subseteq Node /\ NoNode \notin Node
      /\ rest' = rest \ {n} /\ shared' = shared /\ (w = Leader => o.serial)
  BY ActiveIs, Typed DEF NextRow, RowsOK
<1>1. DiskTyped /\ disk'.tape = disk.tape \cup {n} /\ disk'.root = disk.root /\ disk'.adj = disk.adj
  BY <1>0 DEF NextRow, TypeOK, DiskTyped
<1>2. PICK p : p = [o EXCEPT !.stage = "root", !.node = n]
  OBVIOUS
<1>3. /\ p \in Locals /\ p.stage = "root" /\ p.serial = o.serial /\ p.init = o.init
      /\ p.root = o.root /\ p.node = n /\ p.ntuples = o.ntuples /\ p.visited = o.visited
      /\ p.evicted = o.evicted /\ p.cached = o.cached /\ p.lists = o.lists
  BY <1>0, <1>2 DEF Locals
<1>4. worker' = [worker EXCEPT ![w] = p]
  BY <1>2 DEF NextRow
<1> HIDE <1>2
<1>5. Moves(w, p) /\ worker'[w] = p
  BY <1>0, <1>3, <1>4, MovesIs DEF Moves
<1>6. SharedTyped /\ SharedSame /\ (GateOpen' <=> GateOpen)
  BY <1>0, SharedKept
<1>7. ProcOK(w)'
  BY <1>0, <1>1, <1>3, <1>5, <1>6 DEF ProcOK
<1>8. o.node = NoNode /\ o.evicted = NoNode
  BY <1>0 DEF ProcOK
<1>9. rest' \cup disk'.tape = rest \cup disk.tape /\ rest' \cap disk'.tape = {}
  BY <1>0, <1>1 DEF RowsOK
<1>10. IInv'
  BY <1>0, <1>1, <1>3, <1>5, <1>6, <1>7, <1>9, WorkFrame DEF SharedSame
<1>11. Kept(w)
  <2>1. Star' = Star
    BY <1>1 DEF Star
  <2>2. Carries(worker[w], n)'
    BY <1>3, <1>5 DEF Carries
  <2>3. \A x \in disk.tape : Carries(o, x) => Carries(worker[w], x)'
    BY <1>0, <1>1, <1>3, <1>5, <1>8 DEF Carries
  <2> QED
    BY <1>1, <2>1, <2>2, <2>3 DEF Kept
<1> QED
  BY <1>0, <1>1, <1>3, <1>5, <1>8, <1>10, <1>11

\* A row that is done with.
Done(o, p, k, s) ==
  /\ p.stage = s /\ p.serial = o.serial /\ p.init = o.init
  /\ p.root = o.root /\ p.node = NoNode /\ p.ntuples = k /\ p.visited = o.visited
  /\ p.evicted = o.evicted /\ p.cached = o.cached /\ p.lists = o.lists

LEMMA DoneIs ==
  ASSUME NEW o \in Locals, NEW k \in Nat, NEW s \in Stages
  PROVE  LET p == [o EXCEPT !.ntuples = k, !.node = NoNode, !.stage = s]
         IN  p \in Locals /\ Done(o, p, k, s)
<1>1. PICK p : p = [o EXCEPT !.ntuples = k, !.node = NoNode, !.stage = s]
  OBVIOUS
<1>2. p \in Locals
  BY <1>1 DEF Locals
<1>3. Done(o, p, k, s)
  BY <1>1 DEF Locals, Done
<1> QED
  BY <1>1, <1>2, <1>3, Zenon

LEMMA CountStep ==
  ASSUME IInv, NEW w \in Procs, Active(w), UNCHANGED buildVars, Count(w)
  PROVE  /\ IInv' /\ Kept(w) /\ Moves(w, worker'[w]) /\ disk' = disk /\ rest' = rest
         /\ worker[w].node \in disk.tape /\ worker'[w].node = NoNode
         /\ worker'[w].init = worker[w].init /\ worker'[w].ntuples = worker[w].ntuples + 1
         /\ worker[w].stage = "count" /\ worker'[w].stage \in {"scan", "broadcast"}
         /\ worker[w].evicted = NoNode
         /\ shared'.ntuples = shared.ntuples + (IF Counted(worker[w]) THEN 1 ELSE 0)
         /\ shared'.seeds = shared.seeds /\ shared'.done = shared.done
<1> DEFINE o == worker[w]
           opens == Counted(o) /\ shared.ntuples + 1 >= shared.seeds
<1>0. /\ TypeOK /\ RowsOK /\ ProcOK(w) /\ o \in Locals /\ o.stage = "count" /\ o.evicted = NoNode
      /\ o.ntuples \in Nat /\ o.node \in disk.tape /\ disk.tape \subseteq Node /\ NoNode \notin Node
      /\ rest' = rest /\ disk' = disk /\ (w = Leader => o.serial /\ ~o.init)
      /\ shared.seeds \in Nat /\ shared.ntuples \in Nat
  BY ActiveIs, Typed DEF Count, Free, ProcOK, Locals
<1>1. PICK s \in Stages : s = (IF opens THEN "broadcast" ELSE "scan")
  OBVIOUS
<1>2. s \in {"broadcast", "scan"} /\ (s = "broadcast" => o.init)
  BY <1>1 DEF Counted
<1>3. PICK k \in Nat : k = o.ntuples + 1
  BY <1>0
<1>4. PICK p : p = [o EXCEPT !.ntuples = k, !.node = NoNode, !.stage = s]
  OBVIOUS
<1>5. o \in Locals
  BY <1>0
<1>6. LET q == [o EXCEPT !.ntuples = k, !.node = NoNode, !.stage = s]
      IN  q \in Locals /\ Done(o, q, k, s)
  <2> HIDE DEF o
  <2> QED
    BY <1>5, DoneIs
<1>7. p \in Locals /\ Done(o, p, k, s)
  BY <1>4, <1>6, Zenon
<1>8. /\ p \in Locals /\ p.stage = s /\ p.serial = o.serial
      /\ p.init = o.init
      /\ p.root = o.root /\ p.node = NoNode /\ p.ntuples = k /\ p.visited = o.visited
      /\ p.evicted = NoNode /\ p.cached = o.cached /\ p.lists = o.lists
  BY <1>0, <1>7 DEF Done
<1>9. worker' = [worker EXCEPT ![w] = p]
  BY <1>1, <1>4, <1>3, Zenon DEF Count
<1>10. shared' = [shared EXCEPT !.ntuples = IF Counted(o) THEN @ + 1 ELSE @]
  BY DEF Count
<1> HIDE <1>1, <1>4
<1>11. Moves(w, p) /\ worker'[w] = p
  BY <1>0, <1>8, <1>9, MovesIs DEF Moves
<1>12. /\ SharedTyped /\ shared'.ntuples = shared.ntuples + (IF Counted(o) THEN 1 ELSE 0)
      /\ shared'.seeds = shared.seeds /\ shared'.done = shared.done
      /\ shared'.claimed = shared.claimed
  BY <1>0, <1>10 DEF TypeOK, SharedTyped
<1>13. GateOpen => GateOpen'
  BY <1>0, <1>12 DEF GateOpen
<1>14. ProcOK(w)'
  BY <1>0, <1>8, <1>2, <1>11, <1>12, <1>13 DEF ProcOK
<1>15. w = Leader => SharedSame
  BY <1>0, <1>12 DEF Counted, SharedSame
<1>16. DiskTyped
  BY <1>0 DEF TypeOK, DiskTyped
<1>17. IInv'
  BY <1>0, <1>8, <1>11, <1>12, <1>13, <1>14, <1>15, <1>16, WorkFrame DEF RowsOK
<1>18. Kept(w)
  BY <1>0, <1>8, <1>11 DEF Kept, Star, Carries
<1> QED
  BY <1>0, <1>8, <1>2, <1>3, <1>11, <1>12, <1>17, <1>18

LEMMA TotalStep ==
  ASSUME IInv, NEW w \in Procs, Active(w), UNCHANGED buildVars, Total(w)
  PROVE  /\ IInv' /\ Quiet(w) /\ w \in Worker
         /\ worker[w].stage = "total" /\ worker'[w].stage = "drain"
         /\ worker'[w].init = worker[w].init /\ worker[w].node = NoNode
         /\ shared'.ntuples = shared.ntuples + worker[w].ntuples -
              (IF ~worker[w].init THEN 0
               ELSE IF worker[w].ntuples < shared.seeds THEN worker[w].ntuples ELSE shared.seeds)
         /\ shared'.seeds = shared.seeds /\ shared'.done = shared.done
         /\ worker[w].init => shared.done
<1> DEFINE o == worker[w]
           s == IF o.ntuples < shared.seeds THEN o.ntuples ELSE shared.seeds
<1>0. /\ TypeOK /\ ProcOK(w) /\ o \in Locals /\ o.stage = "total" /\ w \in Worker /\ w # Leader
      /\ o.ntuples \in Nat /\ o.node = NoNode /\ (o.init => shared.done)
      /\ rest' = rest /\ disk' = disk
      /\ shared.seeds \in Nat /\ shared.ntuples \in Nat
  BY ActiveIs, Typed DEF Total, ProcOK, Locals
<1>1. PICK p : p = [o EXCEPT !.stage = "drain"]
  OBVIOUS
<1>2. /\ p \in Locals /\ p.stage = "drain" /\ p.init = o.init
      /\ p.serial = o.serial /\ p.node = o.node /\ p.ntuples = o.ntuples
      /\ p.cached = o.cached /\ p.lists = o.lists
      /\ p.visited = o.visited /\ p.evicted = o.evicted /\ p.evictedList = o.evictedList
      /\ p.root = o.root
  BY <1>0, <1>1 DEF Locals
<1>3. worker' = [worker EXCEPT ![w] = p]
  BY <1>1 DEF Total
<1>4. shared' = [shared EXCEPT !.ntuples = @ + o.ntuples - (IF o.init THEN s ELSE 0)]
  BY DEF Total
<1> HIDE <1>1
<1>5. Moves(w, p) /\ worker'[w] = p
  BY <1>0, <1>2, <1>3, MovesIs DEF Moves
<1>6. s \in Nat /\ s <= o.ntuples
  BY <1>0
<1>7. shared.ntuples + o.ntuples - (IF o.init THEN s ELSE 0) \in Nat
  BY <1>0, <1>6
<1>8. /\ SharedTyped /\ shared'.ntuples = shared.ntuples + o.ntuples - (IF o.init THEN s ELSE 0)
      /\ shared'.ntuples >= shared.ntuples
      /\ shared'.seeds = shared.seeds /\ shared'.done = shared.done
      /\ shared'.claimed = shared.claimed
  BY <1>0, <1>4, <1>6, <1>7 DEF TypeOK, SharedTyped
<1>9. GateOpen => GateOpen'
  BY <1>0, <1>7, <1>8 DEF GateOpen
<1>10. ProcOK(w)'
  BY <1>0, <1>2, <1>5, <1>8, <1>9 DEF ProcOK
<1>11. Quiet(w)
  BY <1>0, <1>2, <1>5 DEF Quiet
<1>12. IInv'
  BY <1>0, <1>2, <1>5, <1>8, <1>9, <1>10, <1>11, QuietFrame
<1> QED
  BY <1>0, <1>2, <1>5, <1>8, <1>11, <1>12

--------------------------------------------------------------------------------
(***************************************************************************)
(* Steps of the leader                                                     *)
(***************************************************************************)

\* Before the leader has begun a scan nobody has done anything.
LEMMA NotBegun ==
  ASSUME IInv, ~Begun
  PROVE  /\ \A v \in Procs : worker[v] = Starting
         /\ rest = {} /\ disk.tape = {} /\ disk.root = NoNode
         /\ ~shared.claimed /\ shared.ntuples = 0 /\ ~shared.done
BY DEF IInv, Begun, ModeOK, RowsOK, Procs

\* The leader's record keeps its type.
LeaderTyped ==
  leader' \in [stage : LeaderStages, asked : Nat, parallel : BOOLEAN, context : BOOLEAN,
               snapshot : BOOLEAN, toScan : SUBSET Node, launched : SUBSET Worker, ntuples : Nat]

CatalogTyped == catalog' \in [page0 : {"none", "written"}, pointer : Samples, stats : Samples]

LEMMA LeadFrame ==
  ASSUME IInv, rest' \subseteq Node, UNCHANGED << request, disk, shared >>,
         rest' = rest \/ ~Begun, worker' = worker \/ ~Begun,
         \A w \in Worker : worker'[w] = worker[w],
         worker' \in [Procs -> Locals], ProcOK(Leader)',
         table' \subseteq Node, CatalogTyped, LeaderTyped, LeadOK', RowsOK', ModeOK'
  PROVE  IInv'
<1>0. TypeOK /\ RowsOK /\ ModeOK /\ OneInit /\ ProcsOK /\ Leader \notin Worker
  BY Typed DEF IInv
<1>1. TypeOK'
  BY <1>0 DEF TypeOK, CatalogTyped, LeaderTyped, Procs
<1>2. OneInit'
  BY <1>0 DEF OneInit
<1>3. ASSUME NEW v \in Worker PROVE ProcOK(v)'
  <2>1. ProcOK(v) /\ worker'[v] = worker[v]
    BY <1>0 DEF ProcsOK, Procs
  <2>2. (FlushDue(worker[v])' <=> FlushDue(worker[v])) /\ (GateOpen' <=> GateOpen)
    BY <2>1 DEF FlushDue, GateOpen
  <2>3. CASE rest' = rest
    BY <2>1, <2>2, <2>3 DEF ProcOK
  <2>4. CASE ~Begun
    <3>1. worker[v] = Starting
      BY <2>4, NotBegun DEF Procs
    <3>2. ~(Starting.stage \in {"seed", "signal", "wake", "total", "drain", "ended"})
      BY StartingIs
    <3> QED
      BY <2>1, <2>2, <3>1, <3>2 DEF ProcOK
  <2> QED
    BY <2>3, <2>4
<1>4. ProcsOK'
  BY <1>3 DEF ProcsOK, Procs
<1> QED
  BY <1>1, <1>2, <1>4 DEF IInv

\* A step that changes nothing but what the leader has for itself.
LEMMA LeadAlone ==
  ASSUME IInv, UNCHANGED << request, rest, disk, shared, worker >>,
         table' \subseteq Node, CatalogTyped, LeaderTyped, LeadOK', RowsOK', ModeOK'
  PROVE  IInv'
<1>1. TypeOK /\ ProcOK(Leader)
  BY DEF IInv, ProcsOK, Procs
<1>2. (FlushDue(worker[Leader])' <=> FlushDue(worker[Leader])) /\ (GateOpen' <=> GateOpen)
  BY DEF FlushDue, GateOpen
<1>3. ProcOK(Leader)'
  BY <1>1, <1>2 DEF ProcOK
<1> QED
  BY <1>1, <1>3, LeadFrame DEF TypeOK, Procs

LEMMA LeaderIs ==
  ASSUME IInv
  PROVE  /\ leader \in [stage : LeaderStages, asked : Nat, parallel : BOOLEAN, context : BOOLEAN,
                        snapshot : BOOLEAN, toScan : SUBSET Node, launched : SUBSET Worker, ntuples : Nat]
         /\ catalog \in [page0 : {"none", "written"}, pointer : Samples, stats : Samples]
         /\ table \in SUBSET Node /\ request \in Requests
         /\ request.concurrent \in BOOLEAN /\ request.plain \in BOOLEAN
         /\ WorkersAllowed \in Nat
         /\ LeadOK /\ RowsOK /\ ModeOK /\ shared.ntuples \in Nat /\ worker[Leader].ntuples \in Nat
<1>1. TypeOK /\ LeadOK /\ RowsOK /\ ModeOK
  BY DEF IInv
<1>2. /\ request.concurrent \in BOOLEAN /\ request.plain \in BOOLEAN
      /\ request.forced \in Int /\ request.planned \in Nat
  BY <1>1, BuildAssumption DEF TypeOK
<1>3. WorkersAllowed \in Nat
  BY <1>2 DEF WorkersAllowed
<1>4. shared.ntuples \in Nat /\ worker[Leader] \in Locals
  BY <1>1, Typed DEF Procs
<1> QED
  BY <1>1, <1>2, <1>3, <1>4 DEF TypeOK, Locals

LEMMA WriteMetaStep == ASSUME IInv, WriteMeta PROVE IInv'
<1>0. /\ leader.stage = "meta" /\ UNCHANGED << table, request, rest, disk, shared, worker >>
      /\ catalog' = [catalog EXCEPT !.page0 = "written"]
  BY DEF WriteMeta
<1>1. PICK s \in LeaderStages : s = IF request.plain THEN "store" ELSE "train"
  OBVIOUS
<1>2. leader' = [leader EXCEPT !.stage = s]
  BY <1>1, Zenon DEF WriteMeta
<1>3. /\ LeaderTyped /\ leader'.stage = s /\ leader'.parallel = leader.parallel
      /\ leader'.context = leader.context /\ leader'.snapshot = leader.snapshot
      /\ leader'.toScan = leader.toScan /\ leader'.launched = leader.launched
  BY <1>2, LeaderIs DEF LeaderTyped
<1>4. CatalogTyped /\ catalog'.stats = catalog.stats /\ catalog'.pointer = catalog.pointer
  BY <1>0, LeaderIs DEF CatalogTyped
<1>5. LeadOK'
  BY <1>0, <1>1, <1>3, <1>4, LeaderIs DEF LeadOK
<1>6. RowsOK' /\ ModeOK'
  BY <1>0, <1>1, <1>3, LeaderIs DEF RowsOK, ModeOK, Begun
<1> QED
  BY <1>0, <1>3, <1>4, <1>5, <1>6, LeaderIs, LeadAlone

LEMMA TrainStep == ASSUME IInv, Train PROVE IInv'
<1>0. /\ leader.stage = "train" /\ UNCHANGED << table, request, rest, disk, shared, worker >>
      /\ leader' = [leader EXCEPT !.stage = "store"]
  BY DEF Train
<1>1. PICK t \in Samples : t = [known |-> TRUE, sample |-> table]
  BY LeaderIs DEF Samples
<1>2. catalog' = [catalog EXCEPT !.stats = t]
  BY <1>1, Zenon DEF Train
<1>3. /\ LeaderTyped /\ leader'.stage = "store" /\ leader'.parallel = leader.parallel
      /\ leader'.context = leader.context /\ leader'.snapshot = leader.snapshot
      /\ leader'.toScan = leader.toScan /\ leader'.launched = leader.launched
  BY <1>0, LeaderIs DEF LeaderTyped
<1>4. CatalogTyped /\ catalog'.stats = t /\ catalog'.pointer = catalog.pointer
  BY <1>2, LeaderIs DEF CatalogTyped
<1>5. t.known /\ t.sample = table
  BY <1>1
<1>6. LeadOK'
  BY <1>0, <1>3, <1>4, <1>5, LeaderIs DEF LeadOK
<1>7. RowsOK' /\ ModeOK'
  BY <1>0, <1>3, LeaderIs DEF RowsOK, ModeOK, Begun
<1> QED
  BY <1>0, <1>3, <1>4, <1>6, <1>7, LeaderIs, LeadAlone

LEMMA StoreMetaStep == ASSUME IInv, StoreMeta PROVE IInv'
<1>0. /\ leader.stage = "store" /\ UNCHANGED << table, request, rest, disk, shared, worker >>
      /\ leader' = [leader EXCEPT !.stage = "choose"]
      /\ catalog' = [catalog EXCEPT !.pointer = catalog.stats]
  BY DEF StoreMeta
<1>1. /\ LeaderTyped /\ leader'.stage = "choose" /\ leader'.parallel = leader.parallel
      /\ leader'.context = leader.context /\ leader'.snapshot = leader.snapshot
      /\ leader'.toScan = leader.toScan /\ leader'.launched = leader.launched
  BY <1>0, LeaderIs DEF LeaderTyped
<1>2. CatalogTyped /\ catalog'.stats = catalog.stats /\ catalog'.pointer = catalog.stats
  BY <1>0, LeaderIs DEF CatalogTyped
<1>3. LeadOK'
  BY <1>0, <1>1, <1>2, LeaderIs DEF LeadOK
<1>4. RowsOK' /\ ModeOK'
  BY <1>0, <1>1, LeaderIs DEF RowsOK, ModeOK, Begun
<1> QED
  BY <1>0, <1>1, <1>2, <1>3, <1>4, LeaderIs, LeadAlone

LEMMA ChooseStep == ASSUME IInv, Choose PROVE IInv'
<1>0. /\ leader.stage = "choose"
      /\ UNCHANGED << table, request, catalog, rest, disk, shared, worker >>
  BY DEF Choose
<1>1. CASE leader' = [leader EXCEPT !.stage = "serial"]
  <2>1. /\ LeaderTyped /\ leader'.stage = "serial" /\ leader'.parallel = leader.parallel
        /\ leader'.context = leader.context /\ leader'.snapshot = leader.snapshot
        /\ leader'.toScan = leader.toScan /\ leader'.launched = leader.launched
    BY <1>1, LeaderIs DEF LeaderTyped
  <2>2. LeadOK' /\ RowsOK' /\ ModeOK' /\ CatalogTyped
    BY <1>0, <2>1, LeaderIs DEF LeadOK, RowsOK, ModeOK, Begun, CatalogTyped
  <2> QED
    BY <1>0, <2>1, <2>2, LeaderIs, LeadAlone
<1>2. CASE leader' = [leader EXCEPT !.stage = "dsm", !.asked = WorkersAllowed, !.toScan = table,
                       !.parallel = TRUE, !.context = TRUE, !.snapshot = request.concurrent]
  <2>1. /\ LeaderTyped /\ leader'.stage = "dsm" /\ leader'.parallel /\ leader'.context
        /\ leader'.snapshot = request.concurrent
        /\ leader'.toScan = table /\ leader'.launched = leader.launched
    BY <1>2, LeaderIs DEF LeaderTyped
  <2>2. LeadOK' /\ RowsOK' /\ ModeOK' /\ CatalogTyped
    BY <1>0, <2>1, LeaderIs DEF LeadOK, RowsOK, ModeOK, Begun, CatalogTyped, LeaderTyped
  <2> QED
    BY <1>0, <2>1, <2>2, LeaderIs, LeadAlone
<1> QED
  BY <1>1, <1>2 DEF Choose

\* cleanup_parallel_context leaves nothing held.
CleanIs(l) ==
  /\ ~l.parallel /\ ~l.context /\ ~l.snapshot
  /\ l.toScan = leader.toScan /\ l.launched = leader.launched

LEMMA CleanedIs ==
  ASSUME IInv, NEW s \in LeaderStages
  PROVE  /\ leader' = [CleanedUp(leader) EXCEPT !.stage = s] =>
              LeaderTyped /\ leader'.stage = s /\ CleanIs(leader')
         /\ \A k \in Nat : leader' = [CleanedUp(leader) EXCEPT !.stage = s, !.ntuples = k] =>
              LeaderTyped /\ leader'.stage = s /\ CleanIs(leader') /\ leader'.ntuples = k
<1>1. PICK l : l = CleanedUp(leader)
  OBVIOUS
<1>2. /\ l \in [stage : LeaderStages, asked : Nat, parallel : BOOLEAN, context : BOOLEAN,
                snapshot : BOOLEAN, toScan : SUBSET Node, launched : SUBSET Worker, ntuples : Nat]
      /\ CleanIs(l)
  BY <1>1, LeaderIs DEF CleanedUp, CleanIs
<1>3. ASSUME leader' = [l EXCEPT !.stage = s]
      PROVE  LeaderTyped /\ leader'.stage = s /\ CleanIs(leader')
  BY <1>2, <1>3 DEF LeaderTyped, CleanIs
<1>4. ASSUME NEW k \in Nat, leader' = [l EXCEPT !.stage = s, !.ntuples = k]
      PROVE  LeaderTyped /\ leader'.stage = s /\ CleanIs(leader') /\ leader'.ntuples = k
  BY <1>2, <1>4 DEF LeaderTyped, CleanIs
<1> QED
  BY <1>1, <1>3, <1>4, Zenon

LEMMA FallBackStep == ASSUME IInv, FallBack PROVE IInv'
<1>0. leader.stage = "dsm" /\ UNCHANGED << table, request, catalog, rest, disk, shared, worker >>
  BY DEF FallBack
<1>1. LeaderTyped /\ leader'.stage = "serial" /\ CleanIs(leader')
  BY CleanedIs DEF FallBack
<1>2. LeadOK' /\ RowsOK' /\ ModeOK' /\ CatalogTyped
  BY <1>0, <1>1, LeaderIs DEF LeadOK, RowsOK, ModeOK, Begun, CatalogTyped, CleanIs, LeaderTyped
<1> QED
  BY <1>0, <1>1, <1>2, LeaderIs, LeadAlone

LEMMA LaunchStep == ASSUME IInv, Launch PROVE IInv' /\ rest' \in SUBSET Node
<1>0. /\ leader.stage = "dsm" /\ UNCHANGED << table, request, catalog, disk, shared, worker >>
      /\ rest' = leader.toScan
  BY DEF Launch
<1>1. PICK some \in SUBSET Worker :
        some # {} /\ leader' = [leader EXCEPT !.stage = "wait", !.launched = some]
  BY DEF Launch
<1>2. /\ LeaderTyped /\ leader'.stage = "wait" /\ leader'.parallel = leader.parallel
      /\ leader'.context = leader.context /\ leader'.snapshot = leader.snapshot
      /\ leader'.toScan = leader.toScan /\ leader'.launched = some
  BY <1>1, LeaderIs DEF LeaderTyped
<1>3. ~Begun
  BY <1>0 DEF Begun
<1>4. LeadOK' /\ CatalogTyped
  BY <1>0, <1>1, <1>2, LeaderIs DEF LeadOK, CatalogTyped
<1>5. RowsOK'
  BY <1>0, <1>2, <1>3, NotBegun DEF RowsOK, Begun
<1>6. ModeOK'
  BY <1>0, <1>2, <1>3, NotBegun DEF ModeOK, Procs
<1>7. ProcOK(Leader)' /\ worker' \in [Procs -> Locals] /\ rest' \in SUBSET Node
  <2>1. worker[Leader] = Starting /\ worker'[Leader] = worker[Leader] /\ ProcOK(Leader)
    BY <1>0, <1>3, NotBegun DEF Procs, IInv, ProcsOK
  <2>2. (FlushDue(worker[Leader])' <=> FlushDue(worker[Leader])) /\ (GateOpen' <=> GateOpen)
    BY <1>0 DEF FlushDue, GateOpen
  <2>3. ~(Starting.stage \in {"seed", "signal", "wake", "total", "drain", "ended"})
    BY StartingIs
  <2>4. ProcOK(Leader)'
    BY <1>0, <2>1, <2>2, <2>3 DEF ProcOK
  <2> QED
    BY <1>0, <2>4, LeaderIs DEF IInv, TypeOK, Procs
<1> QED
  BY <1>0, <1>2, <1>3, <1>4, <1>5, <1>6, <1>7, LeaderIs, LeadFrame

LEMMA TakeResultStep ==
  ASSUME IInv, TakeResult
  PROVE  IInv' /\ leader'.ntuples = shared.ntuples /\ leader'.toScan = leader.toScan
<1>0. /\ leader.stage = "wait" /\ \A w \in leader.launched : worker[w].stage = "ended"
      /\ UNCHANGED << table, request, catalog, rest, disk, shared, worker >>
  BY DEF TakeResult
<1>1. LeaderTyped /\ leader'.stage = "done" /\ CleanIs(leader') /\ leader'.ntuples = shared.ntuples
  BY LeaderIs, CleanedIs DEF TakeResult
<1>2. LeadOK' /\ CatalogTyped
  BY <1>0, <1>1, LeaderIs DEF LeadOK, CatalogTyped, CleanIs, LeaderTyped
<1>3. rest = {}
  <2>1. PICK w \in leader.launched : w \in Procs /\ worker[w].stage = "ended"
    BY <1>0, LeaderIs DEF LeadOK, Procs
  <2> QED
    BY <2>1 DEF IInv, ProcsOK, ProcOK
<1>4. RowsOK'
  BY <1>0, <1>1, <1>3, LeaderIs DEF RowsOK, Begun, CleanIs
<1>5. ModeOK'
  BY <1>0, <1>1, LeaderIs DEF ModeOK, CleanIs, Procs
<1> QED
  BY <1>0, <1>1, <1>2, <1>4, <1>5, LeaderIs, LeadAlone DEF CleanIs

LEMMA ScanAloneStep ==
  ASSUME IInv, ScanAlone
  PROVE  IInv' /\ ~Begun /\ disk' = disk /\ shared' = shared
<1>0. /\ leader.stage = "serial" /\ UNCHANGED << table, request, catalog, disk, shared >>
      /\ rest' = table /\ leader' = [leader EXCEPT !.stage = "scan", !.toScan = table]
  BY DEF ScanAlone
<1>1. /\ LeaderTyped /\ leader'.stage = "scan" /\ leader'.parallel = leader.parallel
      /\ leader'.context = leader.context /\ leader'.snapshot = leader.snapshot
      /\ leader'.toScan = table /\ leader'.launched = leader.launched
  BY <1>0, LeaderIs DEF LeaderTyped
<1>2. ~Begun
  BY <1>0 DEF Begun
<1>3. LeadOK' /\ CatalogTyped
  BY <1>0, <1>1, LeaderIs DEF LeadOK, CatalogTyped, LeaderTyped
<1>4. RowsOK'
  BY <1>0, <1>1, <1>2, NotBegun DEF RowsOK, Begun
<1>5. PICK p : p = [Starting EXCEPT !.serial = TRUE, !.stage = "scan"]
  OBVIOUS
<1>6. /\ p \in Locals /\ p.stage = "scan" /\ p.serial /\ ~p.init /\ p.root = NoNode
      /\ p.node = NoNode /\ p.ntuples = 0 /\ p.visited = {} /\ p.cached = {}
      /\ p.evicted = NoNode
  BY <1>5, StartingIs DEF Locals
<1>7. worker[Leader] = Starting /\ Leader \in Procs /\ worker \in [Procs -> Locals]
  BY <1>2, NotBegun DEF Procs, IInv, TypeOK
<1>8. worker' = [worker EXCEPT ![Leader] = p]
  BY <1>5, <1>7 DEF ScanAlone
<1> HIDE <1>5
<1>9. /\ worker' \in [Procs -> Locals] /\ worker'[Leader] = p
      /\ \A w \in Procs \ {Leader} : worker'[w] = worker[w]
  BY <1>6, <1>7, <1>8
<1>10. Leader \notin Worker
  BY ParallelBuildAssumption
<1>11. ModeOK'
  BY <1>0, <1>1, <1>2, <1>6, <1>9, <1>10, NotBegun DEF ModeOK, Procs
<1>12. ProcOK(Leader)'
  BY <1>6, <1>9, <1>10 DEF ProcOK
<1>13. \A w \in Worker : worker'[w] = worker[w]
  BY <1>9, <1>10 DEF Procs
<1> QED
  BY <1>0, <1>1, <1>2, <1>3, <1>4, <1>9, <1>11, <1>12, <1>13, LeaderIs, LeadFrame

LEMMA EndScanStep ==
  ASSUME IInv, EndScan
  PROVE  IInv' /\ leader'.ntuples = worker[Leader].ntuples /\ leader'.toScan = leader.toScan
<1>0. /\ leader.stage = "scan" /\ worker[Leader].stage = "ended"
      /\ UNCHANGED << table, request, catalog, rest, disk, shared, worker >>
      /\ leader' = [leader EXCEPT !.stage = "done", !.ntuples = worker[Leader].ntuples]
  BY DEF EndScan
<1>1. /\ LeaderTyped /\ leader'.stage = "done" /\ leader'.parallel = leader.parallel
      /\ leader'.context = leader.context /\ leader'.snapshot = leader.snapshot
      /\ leader'.toScan = leader.toScan /\ leader'.launched = leader.launched
      /\ leader'.ntuples = worker[Leader].ntuples
  BY <1>0, LeaderIs DEF LeaderTyped
<1>2. LeadOK' /\ CatalogTyped
  BY <1>0, <1>1, LeaderIs DEF LeadOK, CatalogTyped
<1>3. rest = {}
  BY <1>0 DEF IInv, ProcsOK, ProcOK, Procs
<1>4. RowsOK'
  BY <1>0, <1>1, <1>3, LeaderIs DEF RowsOK, Begun
<1>5. ModeOK'
  BY <1>0, <1>1, LeaderIs DEF ModeOK, Procs
<1> QED
  BY <1>0, <1>1, <1>2, <1>4, <1>5, LeaderIs, LeadAlone

LEMMA ArriveStep == ASSUME IInv, NEW n \in Node, Arrive(n) PROVE IInv'
<1>0. /\ request.concurrent /\ leader.stage \notin {"dsm", "wait", "scan", "done"}
      /\ table' = table \cup {n}
      /\ UNCHANGED << request, catalog, leader, rest, disk, shared, worker >>
  BY DEF Arrive
<1>1. LeadOK' /\ RowsOK' /\ ModeOK' /\ CatalogTyped /\ LeaderTyped
  BY <1>0, LeaderIs DEF LeadOK, RowsOK, ModeOK, Begun, CatalogTyped, LeaderTyped
<1> QED
  BY <1>0, <1>1, LeaderIs, LeadAlone

--------------------------------------------------------------------------------
(***************************************************************************)
(* For every request, setting and table                                    *)
(***************************************************************************)

LEMMA WorkStep ==
  ASSUME IInv, NEW w \in Procs, Active(w), UNCHANGED buildVars, Step(w)
  PROVE  IInv'
<1>1. CASE Claim(w) \/ Check(w) \/ Sleep(w) \/ Open(w)
  BY <1>1, ClaimStep, CheckStep, SleepStep, OpenStep
<1>2. CASE FindRoot(w) \/ LinkNode(w) \/ WriteBack(w) \/ FlushEnds(w) \/ Count(w) \/ Broadcast(w)
  BY <1>2, FindRootStep, LinkNodeStep, WriteBackStep, FlushEndsStep, CountStep, BroadcastStep
<1>3. CASE Finish(w) \/ SeedsFlushed(w) \/ Signal(w) \/ Total(w) \/ DrainEnds(w)
  BY <1>3, FinishStep, SeedsFlushedStep, SignalStep, TotalStep, DrainEndsStep
<1>4. ASSUME NEW n \in Node, NextRow(w, n) \/ Visit(w, n) \/ LinkBack(w, n) \/ FlushEntry(w, n)
      PROVE  IInv'
  BY <1>4, NextRowStep, VisitStep, LinkBackStep, FlushEntryStep
<1> QED
  BY <1>1, <1>2, <1>3, <1>4 DEF Step

LEMMA InvStep == IInv /\ [Next]_allVars => IInv'
<1> SUFFICES ASSUME IInv, [Next]_allVars PROVE IInv'
  OBVIOUS
<1>1. CASE Lead
  BY <1>1, WriteMetaStep, TrainStep, StoreMetaStep, ChooseStep, FallBackStep, LaunchStep,
     TakeResultStep, ScanAloneStep, EndScanStep DEF Lead
<1>2. ASSUME NEW w \in Worker \cup {Leader}, Work(w) PROVE IInv'
  BY <1>2, WorkStep DEF Work, Active, Procs
<1>3. ASSUME NEW n \in Node, Arrive(n) PROVE IInv'
  BY <1>3, ArriveStep
<1>4. CASE UNCHANGED allVars
  <2>1. UNCHANGED << table, request, catalog, leader, rest, disk, shared, worker >>
    BY <1>4 DEF allVars
  <2>2. LeadOK' /\ RowsOK' /\ ModeOK' /\ CatalogTyped /\ LeaderTyped
    BY <2>1, LeaderIs DEF LeadOK, RowsOK, ModeOK, Begun, CatalogTyped, LeaderTyped
  <2> QED
    BY <2>1, <2>2, LeaderIs, LeadAlone
<1> QED
  BY <1>1, <1>2, <1>3, <1>4 DEF Next

LEMMA InvInit == Init => IInv
<1> SUFFICES ASSUME Init PROVE IInv
  OBVIOUS
<1>1. /\ table \in SUBSET Node /\ request \in Requests /\ rest = {} /\ leader = LeaderIdle
      /\ catalog = [page0 |-> "none", pointer |-> NoSample, stats |-> NoSample]
      /\ disk = [tape |-> {}, adj |-> NoLists, root |-> NoNode]
      /\ shared \in [seeds : SeedCounts, claimed : {FALSE}, ntuples : {0}, done : {FALSE}, queue : {{}}]
      /\ worker = [w \in Procs |-> Starting]
  BY DEF Init, InitWorkers, Procs
<1>2. /\ leader \in [stage : LeaderStages, asked : Nat, parallel : BOOLEAN, context : BOOLEAN,
                     snapshot : BOOLEAN, toScan : SUBSET Node, launched : SUBSET Worker, ntuples : Nat]
      /\ leader.stage = "meta" /\ leader.parallel = leader.context /\ ~leader.parallel
      /\ ~leader.snapshot /\ leader.toScan = {}
  BY <1>1 DEF LeaderIdle
<1>3. catalog \in [page0 : {"none", "written"}, pointer : Samples, stats : Samples]
  BY <1>1 DEF Samples
<1>4. /\ shared \in [seeds : SeedCounts, claimed : BOOLEAN, ntuples : Nat, done : BOOLEAN,
                     queue : SUBSET (Worker \cup {Leader})]
      /\ ~shared.claimed /\ shared.ntuples = 0 /\ ~shared.done
  <2>1. shared.seeds \in SeedCounts /\ shared.claimed = FALSE /\ shared.ntuples = 0
        /\ shared.done = FALSE /\ shared.queue = {}
        /\ shared = [seeds |-> shared.seeds, claimed |-> shared.claimed, ntuples |-> shared.ntuples,
                     done |-> shared.done, queue |-> shared.queue]
    BY <1>1
  <2>2. shared.claimed \in BOOLEAN /\ shared.done \in BOOLEAN
    BY <2>1, Zenon
  <2>3. shared.queue = {} /\ shared.ntuples = 0
    BY <2>1, Zenon
  <2>4. shared.queue \in SUBSET (Worker \cup {Leader}) /\ shared.ntuples \in Nat
    BY <2>3
  <2>5. shared \in [seeds : SeedCounts, claimed : BOOLEAN, ntuples : Nat, done : BOOLEAN,
                    queue : SUBSET (Worker \cup {Leader})]
    BY <2>1, <2>2, <2>4, Zenon
  <2> QED
    BY <2>1, <2>5, Zenon
<1>5. /\ disk \in [tape : SUBSET Node, adj : [Node -> SUBSET Node], root : Node \cup {NoNode}]
      /\ disk.tape = {} /\ disk.root = NoNode
  BY <1>1 DEF NoLists
<1>6. \A v \in Procs : worker[v] = Starting
  BY <1>1
<1>7. TypeOK
  BY <1>1, <1>2, <1>3, <1>4, <1>5, StartingIs DEF TypeOK, Procs
<1>8. LeadOK /\ RowsOK
  BY <1>1, <1>2, <1>5 DEF LeadOK, RowsOK, Begun
<1>9. ModeOK
  BY <1>2, <1>4, <1>6 DEF ModeOK, Procs
<1>10. OneInit
  BY <1>6, StartingIs DEF OneInit, Procs
<1>11. ProcsOK
  BY <1>1, <1>5, <1>6, StartingIs DEF ProcsOK, ProcOK
<1> QED
  BY <1>7, <1>8, <1>9, <1>10, <1>11 DEF IInv

\* The claim and the gate, the stages and what each may hold (build.rs), as an
\* invariant of every build.
THEOREM Invariant == Spec => []IInv
BY InvInit, InvStep, PTL DEF Spec

\* The leader and the processes that scan keep to their stages, and their
\* lists, rows and counters to their types, whatever the build is asked for
\* (build.rs, the callbacks of the heap scan).
THEOREM TypeCorrect == Spec => []TypeOK
<1>1. IInv => TypeOK
  BY DEF IInv
<1> QED
  BY <1>1, Invariant, PTL

\* cleanup_parallel_context and the ways to it: parallel mode, context and
\* snapshot are held for a build that has workers, and for no other.
THEOREM HeldByBuildsWithWorkers == Spec => []HeldForWorkersOnly
<1>1. IInv => HeldForWorkersOnly
  <2> SUFFICES ASSUME IInv PROVE HeldForWorkersOnly
    OBVIOUS
  <2>1. LeadOK /\ ModeOK
    BY DEF IInv
  <2>2. ASSUME NEW w \in Worker, worker[w].stage \notin {"start", "ended"}
        PROVE  leader.stage = "wait"
    BY <2>1, <2>2, StartingIs DEF ModeOK, Procs
  <2> QED
    BY <2>1, <2>2 DEF HeldForWorkersOnly, LeadOK
<1> QED
  BY <1>1, Invariant, PTL

\* ambuild: nothing is written by statistics that are not yet published, nor,
\* with the table locked, by statistics of fewer rows than are scanned.
THEOREM StatisticsBeforeNodes == Spec => []TrainedBeforeUse
<1>1. IInv => TrainedBeforeUse
  <2> SUFFICES ASSUME IInv, disk.tape # {}, ~request.plain
               PROVE  /\ catalog.pointer.known
                      /\ ~request.concurrent => disk.tape \subseteq catalog.pointer.sample
    BY DEF TrainedBeforeUse
  <2>1. LeadOK /\ RowsOK
    BY DEF IInv
  <2>2. Begun /\ disk.tape \subseteq table
    BY <2>1 DEF RowsOK, LeadOK
  <2>3. catalog.pointer = catalog.stats
    BY <2>1, <2>2 DEF LeadOK, Begun
  <2> QED
    BY <2>1, <2>2, <2>3 DEF LeadOK, Begun
<1> QED
  BY <1>1, Invariant, PTL

--------------------------------------------------------------------------------
(***************************************************************************)
(* For finite tables: every row is counted                                 *)
(***************************************************************************)

\* The rows a process has taken, with the one it is at.
Taken(o) == o.ntuples + (IF o.node = NoNode THEN 0 ELSE 1)

TheLesser(a, b) == IF a < b THEN a ELSE b

RowsOf(f, v) == {x \in disk.tape : f[x] = v}

RowsTotaled(f) == {x \in disk.tape : Totaled(f[x])}

\* The shared counter has all rows of those who have added them, and the seeds
\* of the initializing worker if it has not.
CounterOK(f) ==
  \/ \E w \in Worker : /\ worker[w].init /\ ~Totaled(w)
                       /\ shared.ntuples = Cardinality(RowsTotaled(f))
                                           + TheLesser(worker[w].ntuples, shared.seeds)
  \/ /\ \A w \in Worker : worker[w].init => Totaled(w)
     /\ shared.ntuples = Cardinality(RowsTotaled(f))

\* f says who has taken which row.
Assigns(f) ==
  /\ \A v \in Procs : Cardinality(RowsOf(f, v)) = Taken(worker[v])
  /\ CounterOK(f)

CountOK == \E f \in [disk.tape -> Procs] : Assigns(f)

CountInv == IInv /\ CountOK /\ RowsCounted

LEMMA FiniteRows ==
  ASSUME IsFiniteSet(Node), TypeOK, NEW S, S \subseteq disk.tape
  PROVE  IsFiniteSet(S) /\ Cardinality(S) \in Nat /\ (Cardinality(S) = 0 <=> S = {})
<1>1. S \subseteq Node
  BY Typed
<1>2. IsFiniteSet(S)
  BY <1>1, FS_Subset
<1> QED
  BY <1>2, FS_CardinalityType, FS_EmptySet

LEMMA UncountedCounts ==
  ASSUME NEW w \in Procs, Uncounted(w) PROVE SameCount(w)
BY DEF Uncounted, Quiet, SameCount

\* What is counted depends on no more than this.
LEMMA CountsSame ==
  ASSUME CountOK, disk'.tape = disk.tape,
         shared'.ntuples = shared.ntuples, shared'.seeds = shared.seeds,
         \A v \in Procs : /\ worker'[v].init = worker[v].init /\ Taken(worker'[v]) = Taken(worker[v])
                          /\ worker'[v].ntuples = worker[v].ntuples
                          /\ Totaled(v)' <=> Totaled(v)
  PROVE  CountOK'
<1>1. PICK f \in [disk.tape -> Procs] : Assigns(f)
  BY DEF CountOK
<1>2. /\ \A v \in Procs : RowsOf(f, v)' = RowsOf(f, v)
      /\ RowsTotaled(f)' = RowsTotaled(f)
  BY <1>1 DEF RowsOf, RowsTotaled
<1>3. \A v \in Procs : Taken(worker[v])' = Taken(worker[v])
  BY DEF Taken
<1>4. CounterOK(f)'
  BY <1>1, <1>2 DEF Assigns, CounterOK, Procs
<1>5. Assigns(f)'
  BY <1>1, <1>2, <1>3, <1>4 DEF Assigns
<1> QED
  BY <1>1, <1>5 DEF CountOK

LEMMA SameCountStep ==
  ASSUME CountOK, NEW w \in Procs, SameCount(w) PROVE CountOK'
<1>1. \A v \in Procs \ {w} : worker'[v] = worker[v]
  BY DEF SameCount, Moves
<1>2. \A v \in Procs : /\ worker'[v].init = worker[v].init
                       /\ Taken(worker'[v]) = Taken(worker[v])
                       /\ worker'[v].ntuples = worker[v].ntuples
                       /\ Totaled(v)' <=> Totaled(v)
  BY <1>1 DEF SameCount, Totaled, Taken
<1> QED
  BY <1>2, CountsSame DEF SameCount

LEMMA ClaimCounts ==
  ASSUME IInv, CountOK, NEW w \in Procs, Active(w), UNCHANGED buildVars, Claim(w)
  PROVE  CountOK'
<1>0. /\ Quiet(w) /\ w \in Worker /\ worker[w].stage = "start"
      /\ worker'[w].stage \in {"check", "open"} /\ worker'[w].init = ~shared.claimed
      /\ shared'.ntuples = shared.ntuples /\ shared'.seeds = shared.seeds
  BY ClaimStep
<1>1. /\ \A v \in Procs \ {w} : worker'[v] = worker[v]
      /\ worker'[w].node = worker[w].node /\ worker'[w].ntuples = worker[w].ntuples
      /\ disk' = disk
  BY <1>0 DEF Quiet, Moves
<1>2. /\ worker[w].ntuples = 0 /\ ~worker[w].init
      /\ \A v \in Procs : worker[v].init => shared.claimed
      /\ shared.seeds \in Nat /\ shared.ntuples \in Nat
  BY <1>0, Typed DEF IInv, ProcsOK, ProcOK
<1>3. CASE shared.claimed
  <2>1. \A v \in Procs : /\ worker'[v].init = worker[v].init
                         /\ Taken(worker'[v]) = Taken(worker[v])
                         /\ worker'[v].ntuples = worker[v].ntuples
                         /\ Totaled(v)' <=> Totaled(v)
    <3>1. worker'[w].init = worker[w].init
      <4>1. worker[w] \in Locals /\ ~worker'[w].init
        BY <1>0, <1>3, Typed DEF IInv
      <4>2. worker'[w] \in Locals
        BY <1>0 DEF Quiet, Moves
      <4> QED
        BY <1>2, <4>1, <4>2 DEF Locals
    <3> QED
      BY <1>0, <1>1, <3>1 DEF Totaled, Taken
  <2> QED
    BY <1>0, <1>1, <2>1, CountsSame
<1>4. CASE ~shared.claimed
  <2>1. PICK f \in [disk.tape -> Procs] : Assigns(f)
    BY DEF CountOK
  <2>2. \A v \in Procs : Totaled(v)' <=> Totaled(v)
    BY <1>0, <1>1 DEF Totaled
  <2>3. /\ \A v \in Procs : RowsOf(f, v)' = RowsOf(f, v)
        /\ RowsTotaled(f)' = RowsTotaled(f)
    BY <1>1, <2>1, <2>2 DEF RowsOf, RowsTotaled
  <2>4. \A v \in Procs : Taken(worker[v])' = Taken(worker[v])
    BY <1>1 DEF Taken
  <2>5. shared.ntuples = Cardinality(RowsTotaled(f))
    BY <1>2, <1>4, <2>1 DEF Assigns, CounterOK, Procs
  <2>6. TheLesser(worker'[w].ntuples, shared'.seeds) = 0
    BY <1>0, <1>1, <1>2 DEF TheLesser
  <2>7. shared'.ntuples = Cardinality(RowsTotaled(f)') + 0
    BY <1>0, <1>2, <2>3, <2>5
  <2>8. CounterOK(f)'
    <3>1. worker'[w].init /\ ~Totaled(w)'
      BY <1>0, <1>4 DEF Totaled
    <3> QED
      BY <1>0, <2>6, <2>7, <3>1 DEF CounterOK
  <2> QED
    BY <1>1, <2>1, <2>3, <2>4, <2>8 DEF Assigns, CountOK
<1> QED
  BY <1>3, <1>4

LEMMA NextRowCounts ==
  ASSUME IsFiniteSet(Node), IInv, CountOK, NEW w \in Procs, Active(w), UNCHANGED buildVars,
         NEW n \in Node, NextRow(w, n)
  PROVE  CountOK'
<1>0. /\ shared' = shared /\ Moves(w, worker'[w])
      /\ n \in rest /\ n \notin disk.tape /\ disk'.tape = disk.tape \cup {n}
      /\ worker[w].node = NoNode /\ worker'[w].node = n
      /\ worker'[w].init = worker[w].init /\ worker'[w].ntuples = worker[w].ntuples
      /\ worker[w].stage = "scan" /\ worker'[w].stage = "root"
      /\ NoNode \notin Node /\ TypeOK /\ worker[w].ntuples \in Nat
  BY NextRowStep, Typed DEF IInv, Locals
<1>1. PICK f \in [disk.tape -> Procs] : Assigns(f)
  BY DEF CountOK
<1>2. PICK g \in [disk'.tape -> Procs] : g[n] = w /\ \A x \in disk.tape : g[x] = f[x]
  <2>1. [x \in disk'.tape |-> IF x = n THEN w ELSE f[x]] \in [disk'.tape -> Procs]
    BY <1>0, <1>1
  <2> QED
    BY <1>0, <2>1
<1>3. \A v \in Procs \ {w} : worker'[v] = worker[v]
  BY <1>0 DEF Moves
<1>4. \A v \in Procs : Totaled(v)' <=> Totaled(v)
  BY <1>0, <1>3 DEF Totaled
<1>5. \A v \in Procs \ {w} : RowsOf(g, v)' = RowsOf(f, v)
  BY <1>0, <1>1, <1>2 DEF RowsOf
<1>6. RowsOf(g, w)' = RowsOf(f, w) \cup {n} /\ n \notin RowsOf(f, w)
  BY <1>0, <1>1, <1>2 DEF RowsOf
<1>7. RowsTotaled(g)' = RowsTotaled(f)
  <2>1. ~Totaled(w)
    BY <1>0 DEF Totaled
  <2> QED
    BY <1>0, <1>1, <1>2, <1>4, <2>1 DEF RowsTotaled
<1>8. Cardinality(RowsOf(g, w)') = Cardinality(RowsOf(f, w)) + 1
  <2>1. IsFiniteSet(RowsOf(f, w))
    BY <1>0, FiniteRows DEF RowsOf
  <2> QED
    BY <1>6, <2>1, FS_AddElement
<1>9. \A v \in Procs : Cardinality(RowsOf(g, v)') = Taken(worker'[v])
  <2>1. Taken(worker'[w]) = Taken(worker[w]) + 1
    BY <1>0 DEF Taken
  <2>2. Cardinality(RowsOf(g, w)') = Taken(worker'[w])
    BY <1>1, <1>8, <2>1 DEF Assigns
  <2>3. ASSUME NEW v \in Procs \ {w} PROVE Cardinality(RowsOf(g, v)') = Taken(worker'[v])
    BY <1>1, <1>3, <1>5 DEF Assigns
  <2> QED
    BY <2>2, <2>3
<1>10. CounterOK(g)'
  <2>1. \A v \in Procs : worker'[v].init = worker[v].init /\ worker'[v].ntuples = worker[v].ntuples
    BY <1>0, <1>3
  <2>2. CounterOK(f)
    BY <1>1 DEF Assigns
  <2> QED
    BY <1>0, <1>4, <1>7, <2>1, <2>2 DEF CounterOK, Procs
<1>11. Assigns(g)'
  BY <1>9, <1>10 DEF Assigns, Taken
<1> QED
  BY <1>2, <1>11 DEF CountOK

LEMMA CountCounts ==
  ASSUME IsFiniteSet(Node), IInv, CountOK, NEW w \in Procs, Active(w), UNCHANGED buildVars, Count(w)
  PROVE  CountOK'
<1> DEFINE o == worker[w]
           c == IF Counted(o) THEN 1 ELSE 0
<1>0. /\ Moves(w, worker'[w]) /\ disk' = disk /\ o.node \in disk.tape /\ worker'[w].node = NoNode
      /\ worker'[w].init = o.init /\ worker'[w].ntuples = o.ntuples + 1
      /\ o.stage = "count" /\ worker'[w].stage \in {"scan", "broadcast"}
      /\ shared'.ntuples = shared.ntuples + c /\ shared'.seeds = shared.seeds
  BY CountStep
<1>1. /\ o.ntuples \in Nat /\ shared.seeds \in Nat /\ shared.ntuples \in Nat /\ OneInit
      /\ o.node # NoNode /\ (o.init => w \in Worker)
  BY <1>0, Typed DEF IInv, Locals, ProcsOK, ProcOK
<1>2. PICK f \in [disk.tape -> Procs] : Assigns(f)
  BY DEF CountOK
<1>3. \A v \in Procs \ {w} : worker'[v] = worker[v]
  BY <1>0 DEF Moves
<1>4. \A v \in Procs : Totaled(v)' <=> Totaled(v)
  BY <1>0, <1>3 DEF Totaled
<1>5. /\ \A v \in Procs : RowsOf(f, v)' = RowsOf(f, v)
      /\ RowsTotaled(f)' = RowsTotaled(f)
  BY <1>0, <1>2, <1>4 DEF RowsOf, RowsTotaled
<1>6. \A v \in Procs : Taken(worker[v])' = Taken(worker[v])
  <2>1. Taken(worker'[w]) = Taken(worker[w])
    BY <1>0, <1>1 DEF Taken
  <2> QED
    BY <1>3, <2>1 DEF Taken
<1>7. CounterOK(f)'
  <2>0. CounterOK(f)
    BY <1>2 DEF Assigns
  <2>1. CASE ~o.init
    <3>1. shared'.ntuples = shared.ntuples
      BY <1>0, <1>1, <2>1 DEF Counted
    <3>2. \A v \in Procs : worker'[v].init = worker[v].init /\ (worker[v].init => worker'[v] = worker[v])
      BY <1>0, <1>3, <2>1
    <3> QED
      BY <1>0, <1>4, <1>5, <2>0, <3>1, <3>2 DEF CounterOK, Procs
  <2>2. CASE o.init
    <3>1. w \in Worker /\ ~Totaled(w) /\ ~Totaled(w)'
      BY <1>0, <1>1, <2>2 DEF Totaled
    <3>2. \A v \in Worker : worker[v].init => v = w
      BY <1>1, <2>2, <3>1 DEF OneInit
    <3>3. shared.ntuples = Cardinality(RowsTotaled(f)) + TheLesser(o.ntuples, shared.seeds)
      BY <2>0, <2>2, <3>1, <3>2 DEF CounterOK
    <3>4. TheLesser(o.ntuples + 1, shared.seeds) = TheLesser(o.ntuples, shared.seeds) + c
      BY <1>1, <2>2 DEF TheLesser, Counted
    <3>5. /\ TheLesser(o.ntuples, shared.seeds) \in Nat /\ c \in Nat
          /\ TheLesser(o.ntuples, shared.seeds) + c = TheLesser(worker'[w].ntuples, shared'.seeds)
      BY <1>0, <1>1, <3>4 DEF TheLesser
    <3> DEFINE T == Cardinality(RowsTotaled(f))
    <3>6. RowsTotaled(f)' = RowsTotaled(f)
      BY <1>5
    <3>7. shared'.ntuples = T + TheLesser(worker'[w].ntuples, shared'.seeds)
      <4>1. T \in Nat
        <5>1. TypeOK /\ RowsTotaled(f) \subseteq disk.tape
          BY DEF IInv, RowsTotaled
        <5> QED
          BY <5>1, FiniteRows
      <4> HIDE DEF T, c
      <4> QED
        BY <1>0, <1>1, <3>3, <3>5, <4>1 DEF T
    <3> QED
      BY <1>0, <2>2, <3>1, <3>6, <3>7 DEF CounterOK
  <2> QED
    BY <2>1, <2>2
<1>8. Assigns(f)'
  BY <1>2, <1>5, <1>6, <1>7 DEF Assigns
<1> QED
  BY <1>0, <1>2, <1>8 DEF CountOK

LEMMA TotalCounts ==
  ASSUME IsFiniteSet(Node), IInv, CountOK, NEW w \in Procs, Active(w), UNCHANGED buildVars, Total(w)
  PROVE  CountOK'
<1> DEFINE o == worker[w]
<1>0. /\ Quiet(w) /\ w \in Worker /\ o.stage = "total" /\ worker'[w].stage = "drain"
      /\ worker'[w].init = o.init /\ o.node = NoNode
      /\ shared'.ntuples = shared.ntuples + o.ntuples -
           (IF ~o.init THEN 0 ELSE IF o.ntuples < shared.seeds THEN o.ntuples ELSE shared.seeds)
      /\ shared'.seeds = shared.seeds
  BY TotalStep
<1>1. /\ o.ntuples \in Nat /\ shared.seeds \in Nat /\ shared.ntuples \in Nat /\ OneInit /\ TypeOK
      /\ worker'[w].ntuples = o.ntuples /\ worker'[w].node = o.node /\ disk' = disk
      /\ \A v \in Procs \ {w} : worker'[v] = worker[v]
  BY <1>0, Typed DEF IInv, Locals, Quiet, Moves
<1>2. PICK f \in [disk.tape -> Procs] : Assigns(f)
  BY DEF CountOK
<1>3. Totaled(w)' /\ ~Totaled(w) /\ \A v \in Procs \ {w} : Totaled(v)' <=> Totaled(v)
  BY <1>0, <1>1 DEF Totaled
<1>4. \A v \in Procs : RowsOf(f, v)' = RowsOf(f, v)
  BY <1>1, <1>2 DEF RowsOf
<1>5. RowsTotaled(f)' = RowsTotaled(f) \cup RowsOf(f, w)
  BY <1>1, <1>2, <1>3 DEF RowsOf, RowsTotaled
<1>6. RowsTotaled(f) \cap RowsOf(f, w) = {}
  BY <1>3 DEF RowsOf, RowsTotaled
<1>7. /\ IsFiniteSet(RowsTotaled(f)) /\ Cardinality(RowsTotaled(f)) \in Nat
      /\ IsFiniteSet(RowsOf(f, w)) /\ Cardinality(RowsOf(f, w)) \in Nat
  <2>1. RowsTotaled(f) \subseteq disk.tape /\ RowsOf(f, w) \subseteq disk.tape
    BY DEF RowsTotaled, RowsOf
  <2> QED
    BY <1>1, <2>1, FiniteRows
<1>8. Cardinality(RowsTotaled(f)') = Cardinality(RowsTotaled(f)) + Cardinality(RowsOf(f, w))
  <2>1. Cardinality(RowsTotaled(f) \cup RowsOf(f, w)) =
          Cardinality(RowsTotaled(f)) + Cardinality(RowsOf(f, w)) - Cardinality({})
    BY <1>6, <1>7, FS_Union
  <2>2. Cardinality({}) = 0
    BY FS_EmptySet
  <2> QED
    BY <1>5, <1>7, <2>1, <2>2
<1>9. Cardinality(RowsOf(f, w)) = o.ntuples
  BY <1>0, <1>1, <1>2 DEF Assigns, Taken
<1>10. \A v \in Procs : Taken(worker[v])' = Taken(worker[v])
  <2>1. Taken(worker'[w]) = Taken(worker[w])
    BY <1>1 DEF Taken
  <2> QED
    BY <1>1, <2>1 DEF Taken
<1>11. CounterOK(f)'
  <2>0. CounterOK(f) /\ \A v \in Procs : worker'[v].init = worker[v].init
    BY <1>0, <1>1, <1>2 DEF Assigns
  <2>1. CASE ~o.init
    <3>1. shared'.ntuples = shared.ntuples + o.ntuples
      BY <1>0, <1>1, <2>1
    <3>2. \A v \in Worker : worker[v].init => v # w /\ worker'[v] = worker[v]
                                              /\ (Totaled(v)' <=> Totaled(v))
      BY <1>1, <1>3, <2>1 DEF Procs
    <3>3. CASE \E v \in Worker : /\ worker[v].init /\ ~Totaled(v)
                       /\ shared.ntuples = Cardinality(RowsTotaled(f))
                                           + TheLesser(worker[v].ntuples, shared.seeds)
      <4>1. PICK v \in Worker : /\ worker[v].init /\ ~Totaled(v)
                       /\ shared.ntuples = Cardinality(RowsTotaled(f))
                                           + TheLesser(worker[v].ntuples, shared.seeds)
        BY <3>3
      <4>2. worker[v].ntuples \in Nat
        BY <1>1, Typed DEF Procs, Locals
      <4>3. TheLesser(worker[v].ntuples, shared.seeds) \in Nat
        BY <1>1, <4>2 DEF TheLesser
      <4>4. shared'.ntuples = Cardinality(RowsTotaled(f)') + TheLesser(worker[v].ntuples, shared.seeds)
        BY <1>1, <1>7, <1>8, <1>9, <3>1, <4>1, <4>3
      <4> QED
        BY <1>0, <3>2, <4>1, <4>4 DEF CounterOK
    <3>4. CASE /\ \A v \in Worker : worker[v].init => Totaled(v)
               /\ shared.ntuples = Cardinality(RowsTotaled(f))
      <4>1. shared'.ntuples = Cardinality(RowsTotaled(f)')
        BY <1>7, <1>8, <1>9, <3>1, <3>4
      <4>2. \A v \in Worker : worker'[v].init => Totaled(v)'
        BY <2>0, <3>2, <3>4 DEF Procs
      <4> QED
        BY <4>1, <4>2 DEF CounterOK
    <3> QED
      BY <2>0, <3>3, <3>4 DEF CounterOK
  <2>2. CASE o.init
    <3>1. \A v \in Worker : worker[v].init => v = w
      BY <1>0, <1>1, <2>2 DEF OneInit
    <3>2. shared.ntuples = Cardinality(RowsTotaled(f)) + TheLesser(o.ntuples, shared.seeds)
      BY <1>0, <1>3, <2>0, <2>2, <3>1 DEF CounterOK
    <3>3. shared'.ntuples = Cardinality(RowsTotaled(f)')
      BY <1>0, <1>1, <1>7, <1>8, <1>9, <2>2, <3>2 DEF TheLesser
    <3>4. \A v \in Worker : worker'[v].init => Totaled(v)'
      BY <1>3, <2>0, <3>1 DEF Procs
    <3> QED
      BY <3>3, <3>4 DEF CounterOK
  <2> QED
    BY <2>1, <2>2
<1>12. Assigns(f)'
  BY <1>2, <1>4, <1>10, <1>11 DEF Assigns
<1> QED
  BY <1>1, <1>2, <1>12 DEF CountOK

LEMMA WorkCounts ==
  ASSUME IsFiniteSet(Node), IInv, CountOK,
         NEW w \in Procs, Active(w), UNCHANGED buildVars, Step(w)
  PROVE  CountOK'
<1>1. CASE Claim(w) \/ Count(w) \/ Total(w)
  BY <1>1, ClaimCounts, CountCounts, TotalCounts
<1>2. CASE Check(w) \/ Sleep(w) \/ Open(w) \/ FlushEnds(w) \/ Broadcast(w) \/ Finish(w)
           \/ SeedsFlushed(w) \/ Signal(w) \/ DrainEnds(w)
  <2>1. Uncounted(w)
    BY <1>2, CheckStep, SleepStep, OpenStep, FlushEndsStep, BroadcastStep, FinishStep,
       SeedsFlushedStep, SignalStep, DrainEndsStep
  <2> QED
    BY <2>1, UncountedCounts, SameCountStep
<1>3. CASE FindRoot(w) \/ LinkNode(w) \/ WriteBack(w)
  <2>1. SameCount(w)
    BY <1>3, FindRootStep, LinkNodeStep, WriteBackStep
  <2> QED
    BY <2>1, SameCountStep
<1>4. ASSUME NEW n \in Node, Visit(w, n) \/ LinkBack(w, n) \/ FlushEntry(w, n) PROVE CountOK'
  <2>1. SameCount(w)
    BY <1>4, VisitStep, LinkBackStep, FlushEntryStep
  <2> QED
    BY <2>1, SameCountStep
<1>5. ASSUME NEW n \in Node, NextRow(w, n) PROVE CountOK'
  BY <1>5, NextRowCounts
<1> QED
  BY <1>1, <1>2, <1>3, <1>4, <1>5 DEF Step

\* The leader's steps count nothing before the scan.
LEMMA LeadCounts ==
  ASSUME IInv, CountOK, RowsCounted, leader'.stage # "done" \/ leader' = leader,
         UNCHANGED << disk, shared, worker >>
  PROVE  CountOK' /\ RowsCounted'
<1>1. \A v \in Procs : Totaled(v)' <=> Totaled(v)
  BY DEF Totaled
<1>2. CountOK'
  BY <1>1, CountsSame
<1>3. RowsCounted'
  BY DEF RowsCounted
<1> QED
  BY <1>2, <1>3

LEMMA ScanAloneCounts ==
  ASSUME IsFiniteSet(Node), IInv, CountOK, ScanAlone
  PROVE  CountOK' /\ RowsCounted'
<1>0. /\ ~Begun /\ disk' = disk /\ shared' = shared /\ Leader \in Procs /\ Leader \notin Worker
      /\ worker' = [worker EXCEPT ![Leader].serial = TRUE, ![Leader].stage = "scan"]
      /\ worker \in [Procs -> Locals] /\ leader' = [leader EXCEPT !.stage = "scan", !.toScan = table]
  BY ScanAloneStep, Typed DEF ScanAlone, IInv, TypeOK, Procs
<1>1. PICK p : p = [worker[Leader] EXCEPT !.serial = TRUE, !.stage = "scan"]
  OBVIOUS
<1>2. worker[Leader] \in Locals
  BY <1>0
<1>3. /\ p.init = worker[Leader].init /\ p.node = worker[Leader].node
      /\ p.ntuples = worker[Leader].ntuples
  BY <1>1, <1>2 DEF Locals
<1>4. worker' = [worker EXCEPT ![Leader] = p]
  BY <1>0, <1>1
<1>5. worker'[Leader] = p /\ \A v \in Procs \ {Leader} : worker'[v] = worker[v]
  BY <1>0, <1>4
<1> HIDE <1>1, <1>4
<1>6. \A v \in Procs : /\ worker'[v].init = worker[v].init
                       /\ Taken(worker'[v]) = Taken(worker[v])
                       /\ worker'[v].ntuples = worker[v].ntuples
                       /\ Totaled(v)' <=> Totaled(v)
  BY <1>0, <1>3, <1>5 DEF Totaled, Taken
<1>7. CountOK'
  BY <1>0, <1>6, CountsSame
<1>8. leader'.stage = "scan"
  BY <1>0, LeaderIs
<1> QED
  BY <1>7, <1>8 DEF RowsCounted

LEMMA TakeResultCounts ==
  ASSUME IsFiniteSet(Node), IInv, CountOK, TakeResult
  PROVE  CountOK' /\ RowsCounted'
<1>0. /\ leader.stage = "wait" /\ \A w \in leader.launched : worker[w].stage = "ended"
      /\ UNCHANGED << rest, disk, shared, worker >>
      /\ leader'.ntuples = shared.ntuples /\ leader'.toScan = leader.toScan
      /\ TypeOK /\ RowsOK /\ ModeOK /\ RowsOK' /\ shared.ntuples \in Nat
      /\ leader.launched \subseteq Worker
  BY TakeResultStep, LeaderIs DEF TakeResult, IInv
<1>1. CountOK'
  <2>1. \A v \in Procs : Totaled(v)' <=> Totaled(v)
    BY <1>0 DEF Totaled
  <2> QED
    BY <1>0, <2>1, CountsSame
<1>2. PICK f \in [disk.tape -> Procs] : Assigns(f)
  BY DEF CountOK
<1>3. ASSUME NEW v \in Procs, ~Totaled(v) PROVE Taken(worker[v]) = 0 /\ ~worker[v].init
  <2>1. worker[v] = Starting
    BY <1>0, <1>3 DEF ModeOK, Totaled, Procs
  <2> QED
    BY <2>1, StartingIs DEF Taken
<1>4. RowsTotaled(f) = disk.tape
  <2>1. ASSUME NEW x \in disk.tape, ~Totaled(f[x]) PROVE FALSE
    <3>1. f[x] \in Procs /\ x \in RowsOf(f, f[x]) /\ RowsOf(f, f[x]) \subseteq disk.tape
      BY <1>2 DEF RowsOf
    <3>2. Cardinality(RowsOf(f, f[x])) = 0
      BY <1>2, <1>3, <2>1, <3>1 DEF Assigns
    <3> QED
      BY <1>0, <3>1, <3>2, FiniteRows
  <2> QED
    BY <2>1 DEF RowsTotaled
<1>5. shared.ntuples = Cardinality(disk.tape)
  BY <1>2, <1>3, <1>4 DEF Assigns, CounterOK, Procs
<1>6. leader'.stage = "done" /\ rest = {}
  <2>1. leader'.stage = "done"
    BY LeaderIs, CleanedIs DEF TakeResult
  <2> QED
    BY <1>0, <2>1 DEF RowsOK
<1>7. leader.toScan = disk.tape
  BY <1>0, <1>6 DEF RowsOK, Begun
<1> QED
  BY <1>0, <1>1, <1>5, <1>7 DEF RowsCounted

LEMMA EndScanCounts ==
  ASSUME IsFiniteSet(Node), IInv, CountOK, EndScan
  PROVE  CountOK' /\ RowsCounted'
<1>0. /\ leader.stage = "scan" /\ worker[Leader].stage = "ended"
      /\ UNCHANGED << rest, disk, shared, worker >>
      /\ leader'.ntuples = worker[Leader].ntuples /\ leader'.toScan = leader.toScan
      /\ TypeOK /\ RowsOK /\ ModeOK /\ ProcsOK /\ worker[Leader].ntuples \in Nat
  BY EndScanStep, LeaderIs DEF EndScan, IInv
<1>1. CountOK'
  <2>1. \A v \in Procs : Totaled(v)' <=> Totaled(v)
    BY <1>0 DEF Totaled
  <2> QED
    BY <1>0, <2>1, CountsSame
<1>2. PICK f \in [disk.tape -> Procs] : Assigns(f)
  BY DEF CountOK
<1>3. ASSUME NEW v \in Worker PROVE Taken(worker[v]) = 0
  <2>1. worker[v] = Starting
    BY <1>0 DEF ModeOK
  <2> QED
    BY <2>1, StartingIs DEF Taken
<1>4. RowsOf(f, Leader) = disk.tape
  <2>1. ASSUME NEW x \in disk.tape, f[x] # Leader PROVE FALSE
    <3>1. f[x] \in Worker /\ x \in RowsOf(f, f[x]) /\ RowsOf(f, f[x]) \subseteq disk.tape
      BY <1>2, <2>1 DEF RowsOf, Procs
    <3>2. Cardinality(RowsOf(f, f[x])) = 0
      BY <1>2, <1>3, <3>1 DEF Assigns, Procs
    <3> QED
      BY <1>0, <3>1, <3>2, FiniteRows
  <2> QED
    BY <2>1 DEF RowsOf
<1>5. worker[Leader].node = NoNode /\ rest = {} /\ Leader \in Procs
  BY <1>0 DEF ProcsOK, ProcOK, Procs
<1>6. worker[Leader].ntuples = Cardinality(disk.tape)
  BY <1>0, <1>2, <1>4, <1>5 DEF Assigns, Taken
<1>7. leader.toScan = disk.tape
  BY <1>0, <1>5 DEF RowsOK, Begun
<1> QED
  BY <1>0, <1>1, <1>6, <1>7 DEF RowsCounted

LEMMA CountNext == ASSUME IsFiniteSet(Node), CountInv, [Next]_allVars PROVE CountInv'
<1>0. IInv /\ CountOK /\ RowsCounted /\ IInv'
  BY InvStep DEF CountInv
<1>1. CASE WriteMeta \/ Train \/ StoreMeta \/ Choose \/ FallBack \/ Launch
  <2>1. UNCHANGED << disk, shared, worker >>
    BY <1>1 DEF WriteMeta, Train, StoreMeta, Choose, FallBack, Launch
  <2>2. leader'.stage # "done"
    <3>1. CASE WriteMeta
      BY <3>1, LeaderIs DEF WriteMeta
    <3>2. CASE Train \/ StoreMeta
      <4>1. leader' = [leader EXCEPT !.stage = "store"] \/ leader' = [leader EXCEPT !.stage = "choose"]
        BY <3>2, Zenon DEF Train, StoreMeta
      <4> QED
        BY <1>0, <4>1, LeaderIs
    <3>3. CASE Choose
      BY <3>3, LeaderIs DEF Choose
    <3>4. CASE FallBack
      BY <1>0, <3>4, CleanedIs DEF FallBack
    <3>5. CASE Launch
      BY <3>5, LeaderIs, <1>0 DEF Launch
    <3> QED
      BY <1>1, <3>1, <3>2, <3>3, <3>4, <3>5
  <2> QED
    BY <1>0, <2>1, <2>2, LeadCounts DEF CountInv
<1>2. CASE ScanAlone \/ TakeResult \/ EndScan
  BY <1>0, <1>2, ScanAloneCounts, TakeResultCounts, EndScanCounts DEF CountInv
<1>3. ASSUME NEW w \in Worker \cup {Leader}, Work(w) PROVE CountInv'
  <2>1. CountOK' /\ leader' = leader
    BY <1>0, <1>3, WorkCounts DEF Work, Active, Procs, buildVars
  <2> QED
    BY <1>0, <2>1 DEF CountInv, RowsCounted
<1>4. ASSUME NEW n \in Node, Arrive(n) PROVE CountInv'
  BY <1>0, <1>4, LeadCounts DEF CountInv, Arrive
<1>5. CASE UNCHANGED allVars
  BY <1>0, <1>5, LeadCounts DEF CountInv, allVars
<1> QED
  BY <1>1, <1>2, <1>3, <1>4, <1>5 DEF Next, Lead

LEMMA CountInit == ASSUME IsFiniteSet(Node), Init PROVE CountInv
<1>1. /\ IInv /\ disk.tape = {} /\ shared.ntuples = 0 /\ leader.stage = "meta"
      /\ \A v \in Procs : worker[v] = Starting
  BY InvInit DEF Init, InitWorkers, LeaderIdle, Procs
<1>2. PICK f : f \in [disk.tape -> Procs]
  <2>1. [x \in disk.tape |-> Leader] \in [disk.tape -> Procs]
    BY DEF Procs
  <2> QED
    BY <2>1
<1>3. Cardinality({}) = 0
  BY FS_EmptySet
<1>4. RowsTotaled(f) = {} /\ \A v \in Procs : RowsOf(f, v) = {}
  BY <1>1 DEF RowsTotaled, RowsOf
<1>5. CounterOK(f)
  BY <1>1, <1>3, <1>4, StartingIs DEF CounterOK, Procs
<1>6. \A v \in Procs : Cardinality(RowsOf(f, v)) = Taken(worker[v])
  BY <1>1, <1>3, <1>4, StartingIs DEF Taken
<1>7. Assigns(f)
  BY <1>5, <1>6 DEF Assigns
<1> QED
  BY <1>1, <1>2, <1>7 DEF CountInv, CountOK, RowsCounted

\* The result of ambuild: increment_ntuples at once for the seeds, and
\* update_shared_ntuples for the rest, count no row twice and miss none,
\* however the workers take turns and whoever claims the initialization.
THEOREM EveryRowCountedOnce == ASSUME IsFiniteSet(Node) PROVE Spec => []RowsCounted
<1>1. Init => CountInv
  BY CountInit
<1>2. CountInv /\ [Next]_allVars => CountInv'
  BY CountNext
<1>3. CountInv => RowsCounted
  BY DEF CountInv
<1> QED
  BY <1>1, <1>2, <1>3, PTL DEF Spec

--------------------------------------------------------------------------------
(***************************************************************************)
(* Without overflowing lists: every row is reached                         *)
(***************************************************************************)

Joined == \A x \in disk.tape : x \in Star \/ \E v \in Procs : Carries(worker[v], x)

SeedsOnPages ==
  GateOpen => Cardinality(Star) >= shared.seeds \/ rest \cup disk.tape \subseteq Star

JoinInv == CountInv /\ Joined /\ SeedsOnPages

LEMMA QuietKept ==
  ASSUME NEW w \in Procs, Quiet(w) PROVE Kept(w)
BY DEF Quiet, Kept, Star, Carries

LEMMA JoinedStep ==
  ASSUME IInv, Joined, NEW w \in Procs, Kept(w), Moves(w, worker'[w])
  PROVE  Joined'
<1> SUFFICES ASSUME NEW x \in disk'.tape, x \notin Star'
             PROVE  \E v \in Procs : Carries(worker[v], x)'
  BY DEF Joined
<1>1. CASE Carries(worker[w], x)'
  BY <1>1
<1>2. CASE x \in disk.tape /\ x \notin Star /\ ~Carries(worker[w], x)
  <2>1. PICK v \in Procs \ {w} : Carries(worker[v], x)
    BY <1>2 DEF Joined
  <2>2. worker'[v] = worker[v] /\ worker[v] \in Locals /\ NoNode \notin Node
    BY Typed DEF Moves, IInv
  <2>3. NoNode \notin worker[v].links /\ NoNode \notin worker[v].cached
    BY <2>2 DEF Locals
  <2>4. CASE disk.root = NoNode
    BY <2>1, <2>2, <2>3, <2>4 DEF Carries
  <2>5. CASE disk.root # NoNode
    BY <2>1, <2>2, <2>5 DEF Carries, Kept
  <2> QED
    BY <2>4, <2>5
<1> QED
  BY <1>1, <1>2 DEF Kept

LEMMA StarFinite ==
  ASSUME IsFiniteSet(Node), TypeOK
  PROVE  Star \subseteq Node /\ IsFiniteSet(Star) /\ Cardinality(Star) \in Nat
<1>1. Star \subseteq Node
  BY Typed DEF Star
<1> QED
  BY <1>1, FS_Subset, FS_CardinalityType

\* What is on the pages stays there, for those who have come in as for others.
LEMMA SeedsStay ==
  ASSUME IsFiniteSet(Node), TypeOK, TypeOK', SeedsOnPages, GateOpen, Star \subseteq Star',
         shared'.seeds = shared.seeds, rest' \cup disk'.tape = rest \cup disk.tape
  PROVE  SeedsOnPages'
<1>1. Star' \subseteq Node
  BY DEF Star, TypeOK
<1>2. IsFiniteSet(Star') /\ Cardinality(Star) <= Cardinality(Star')
  BY <1>1, FS_Subset
<1>3. Cardinality(Star) \in Nat /\ Cardinality(Star') \in Nat /\ shared.seeds \in Nat
  BY <1>2, StarFinite, FS_CardinalityType, Typed
<1> QED
  BY <1>2, <1>3 DEF SeedsOnPages

LEMMA NoCarry ==
  ASSUME NEW o, o.stage \notin {"root", "search", "link"}, o.cached = {}, o.evicted = NoNode, NEW x
  PROVE  ~Carries(o, x)
BY DEF Carries

\* While the gate is shut, the initializing worker is the only one to insert.
LEMMA AloneInside ==
  ASSUME IInv, NEW w \in Worker, Active(w), worker[w].init, ~GateOpen,
         NEW v \in Procs \ {w}
  PROVE  Taken(worker[v]) = 0 /\ ~Totaled(v) /\ \A x : ~Carries(worker[v], x)
<1>0. ProcOK(v) /\ OneInit /\ ModeOK /\ w # Leader
  BY Typed DEF IInv, ProcsOK
<1>1. worker[v].stage \in Outside
  <2>1. CASE v = Leader
    BY <1>0, <2>1, StartingIs DEF Active, ModeOK
  <2>2. CASE v \in Worker
    BY <1>0, <2>2 DEF OneInit, ProcOK
  <2> QED
    BY <2>1, <2>2 DEF Procs
<1>2. /\ worker[v].cached = {} /\ worker[v].evicted = NoNode /\ worker[v].node = NoNode
      /\ worker[v].ntuples = 0
  BY <1>0, <1>1 DEF ProcOK
<1> QED
  BY <1>1, <1>2, NoCarry DEF Taken, Totaled

LEMMA SignalOpens ==
  ASSUME Roomy, IInv, Joined, SeedsOnPages, NEW w \in Procs, Active(w), UNCHANGED buildVars, Signal(w)
  PROVE  SeedsOnPages'
<1>0. /\ IInv' /\ Uncounted(w) /\ rest = {} /\ worker[w].init /\ worker[w].stage = "signal"
      /\ ProcOK(w) /\ TypeOK
  BY SignalStep, ActiveIs DEF Signal
<1>1. disk' = disk /\ rest' = rest /\ shared'.seeds = shared.seeds /\ TypeOK' /\ Star' = Star
  BY <1>0 DEF Uncounted, Quiet, Star, IInv
<1>2. CASE GateOpen
  BY <1>0, <1>1, <1>2, SeedsStay DEF Roomy
<1>3. CASE ~GateOpen
  <2>1. w \in Worker
    BY <1>0 DEF ProcOK
  <2>2. \A x : ~Carries(worker[w], x)
    BY <1>0, NoCarry DEF ProcOK
  <2>3. disk.tape \subseteq Star
    BY <1>0, <1>3, <2>1, <2>2, AloneInside DEF Joined
  <2> QED
    BY <1>0, <1>1, <2>3 DEF SeedsOnPages
<1> QED
  BY <1>2, <1>3

LEMMA CountOpens ==
  ASSUME Roomy, IInv, CountOK, Joined, SeedsOnPages,
         NEW w \in Procs, Active(w), UNCHANGED buildVars, Count(w)
  PROVE  SeedsOnPages'
<1> DEFINE o == worker[w]
<1>0. /\ IInv' /\ disk' = disk /\ rest' = rest /\ o.node \in disk.tape /\ o.stage = "count"
      /\ o.evicted = NoNode
      /\ shared'.ntuples = shared.ntuples + (IF Counted(o) THEN 1 ELSE 0)
      /\ shared'.seeds = shared.seeds /\ shared'.done = shared.done
  BY CountStep
<1>1. TypeOK /\ TypeOK' /\ Star' = Star /\ ProcOK(w) /\ IsFiniteSet(Node)
      /\ o.ntuples \in Nat /\ shared.seeds \in Nat /\ shared.ntuples \in Nat
      /\ disk.tape \subseteq Node /\ NoNode \notin Node
  BY <1>0, ActiveIs, Typed DEF IInv, Star, Roomy, Locals
<1>2. CASE GateOpen
  BY <1>0, <1>1, <1>2, SeedsStay
<1>3. CASE ~GateOpen'
  BY <1>3 DEF SeedsOnPages
<1>4. CASE ~GateOpen /\ GateOpen'
  <2>1. Counted(o) /\ shared.ntuples + 1 = shared.seeds
    BY <1>0, <1>1, <1>4 DEF GateOpen
  <2>2. o.init /\ o.ntuples + 1 <= shared.seeds /\ w \in Worker /\ ~o.serial
    BY <1>1, <2>1 DEF Counted, ProcOK
  <2>3. \A v \in Procs \ {w} : /\ Taken(worker[v]) = 0 /\ ~Totaled(v)
                               /\ \A x : ~Carries(worker[v], x)
    BY <1>4, <2>2, AloneInside
  <2>4. ~Totaled(w)
    BY <1>0 DEF Totaled
  <2>5. PICK f \in [disk.tape -> Procs] : Assigns(f)
    BY DEF CountOK
  <2>6. RowsTotaled(f) = {} /\ Cardinality({}) = 0
    BY <2>3, <2>4, <2>5, FS_EmptySet DEF RowsTotaled
  <2>7. \A v \in Worker : worker[v].init => v = w
    BY <2>2 DEF IInv, OneInit
  <2>8. shared.ntuples = 0 + TheLesser(o.ntuples, shared.seeds)
    BY <2>2, <2>4, <2>5, <2>6, <2>7 DEF Assigns, CounterOK
  <2>9. o.ntuples + 1 = shared.seeds
    BY <1>1, <2>1, <2>2, <2>8 DEF TheLesser
  <2>10. o.cached = {}
    BY <1>0, <1>1, <2>2, <2>9 DEF FlushDue, ProcOK
  <2>11. disk.tape \subseteq Star
    <3>1. \A x : ~Carries(o, x)
      BY <1>0, <2>10, NoCarry
    <3> QED
      BY <2>3, <3>1 DEF Joined
  <2>12. RowsOf(f, w) = disk.tape
    <3>1. ASSUME NEW x \in disk.tape, f[x] # w PROVE FALSE
      <4>1. f[x] \in Procs \ {w} /\ x \in RowsOf(f, f[x]) /\ RowsOf(f, f[x]) \subseteq disk.tape
        BY <2>5, <3>1 DEF RowsOf
      <4>2. Cardinality(RowsOf(f, f[x])) = 0
        BY <2>3, <2>5, <4>1 DEF Assigns
      <4> QED
        BY <1>1, <4>1, <4>2, FiniteRows
    <3> QED
      BY <3>1 DEF RowsOf
  <2>13. Cardinality(disk.tape) = shared.seeds
    BY <1>0, <1>1, <2>5, <2>9, <2>12 DEF Assigns, Taken
  <2>14. Cardinality(disk.tape) <= Cardinality(Star)
    BY <1>1, <2>11, StarFinite, FS_Subset
  <2>15. Cardinality(Star) >= shared.seeds
    BY <1>1, <2>13, <2>14, StarFinite
  <2> QED
    BY <1>0, <1>1, <2>15 DEF SeedsOnPages
<1> QED
  BY <1>2, <1>3, <1>4

LEMMA WorkJoins ==
  ASSUME Roomy, JoinInv, NEW w \in Procs, Active(w), UNCHANGED buildVars, Step(w)
  PROVE  Joined' /\ SeedsOnPages'
<1>0. /\ IInv /\ CountOK /\ Joined /\ SeedsOnPages /\ IInv' /\ IsFiniteSet(Node)
      /\ TypeOK /\ TypeOK'
  BY WorkStep DEF JoinInv, CountInv, IInv, Roomy
<1>1. rest' \cup disk'.tape = rest \cup disk.tape
  <2>1. RowsOK /\ RowsOK' /\ leader' = leader
    BY <1>0 DEF IInv, buildVars
  <2> QED
    BY <2>1 DEF RowsOK, Begun
<1>2. CASE Signal(w)
  <2>1. Kept(w) /\ Moves(w, worker'[w])
    BY <1>0, <1>2, SignalStep, QuietKept DEF Uncounted, Quiet
  <2> QED
    BY <1>0, <1>2, <2>1, JoinedStep, SignalOpens
<1>3. CASE Count(w)
  BY <1>0, <1>3, CountStep, JoinedStep, CountOpens
<1>4. ASSUME Kept(w), Moves(w, worker'[w]), shared'.seeds = shared.seeds, GateOpen' => GateOpen
      PROVE  Joined' /\ SeedsOnPages'
  <2>1. Joined'
    BY <1>0, <1>4, JoinedStep
  <2>2. SeedsOnPages'
    BY <1>0, <1>1, <1>4, SeedsStay DEF Kept, SeedsOnPages
  <2> QED
    BY <2>1, <2>2
<1>5. CASE Claim(w)
  <2>1. Quiet(w) /\ shared'.seeds = shared.seeds /\ (GateOpen' => GateOpen)
    BY <1>0, <1>5, ClaimStep DEF GateOpen
  <2> QED
    BY <1>4, <2>1, QuietKept DEF Quiet
<1>6. CASE Check(w) \/ Sleep(w) \/ Open(w) \/ FlushEnds(w) \/ Broadcast(w) \/ Finish(w)
           \/ SeedsFlushed(w) \/ DrainEnds(w)
  <2>1. Uncounted(w) /\ (GateOpen' => GateOpen)
    BY <1>0, <1>6, CheckStep, SleepStep, OpenStep, FlushEndsStep, BroadcastStep, FinishStep,
       SeedsFlushedStep, DrainEndsStep
  <2> QED
    BY <1>4, <2>1, QuietKept DEF Uncounted, Quiet
<1>7. CASE Total(w)
  <2>1. Quiet(w) /\ shared'.seeds = shared.seeds
    BY <1>0, <1>7, TotalStep
  <2>2. GateOpen
    <3>1. w \in Worker /\ worker[w].stage = "total" /\ (worker[w].init => shared.done) /\ ProcOK(w)
      BY <1>0, <1>7, TotalStep, ActiveIs
    <3> QED
      BY <3>1 DEF ProcOK, GateOpen
  <2> QED
    BY <1>4, <2>1, <2>2, QuietKept DEF Quiet
<1>8. CASE FindRoot(w) \/ LinkNode(w) \/ WriteBack(w)
  <2>1. SameCount(w) /\ shared' = shared /\ Kept(w)
    BY <1>0, <1>8, FindRootStep, LinkNodeStep, WriteBackStep
  <2> QED
    BY <1>4, <2>1 DEF SameCount, GateOpen
<1>9. ASSUME NEW n \in Node, Visit(w, n) \/ LinkBack(w, n) \/ FlushEntry(w, n)
      PROVE  Joined' /\ SeedsOnPages'
  <2>1. SameCount(w) /\ shared' = shared /\ Kept(w)
    BY <1>0, <1>9, VisitStep, LinkBackStep, FlushEntryStep
  <2> QED
    BY <1>4, <2>1 DEF SameCount, GateOpen
<1>10. ASSUME NEW n \in Node, NextRow(w, n) PROVE Joined' /\ SeedsOnPages'
  BY <1>0, <1>4, <1>10, NextRowStep DEF GateOpen
<1> QED
  BY <1>2, <1>3, <1>5, <1>6, <1>7, <1>8, <1>9, <1>10 DEF Step

LEMMA JoinNext == ASSUME Roomy, JoinInv, [Next]_allVars PROVE JoinInv'
<1>0. /\ IInv /\ IInv' /\ CountInv' /\ Joined /\ SeedsOnPages
  BY CountNext DEF JoinInv, CountInv, Roomy
<1>1. ASSUME UNCHANGED << rest, disk, shared, worker >> PROVE JoinInv'
  BY <1>0, <1>1 DEF JoinInv, Joined, SeedsOnPages, Star, Carries, GateOpen
<1>2. CASE WriteMeta \/ Train \/ StoreMeta \/ Choose \/ FallBack \/ TakeResult \/ EndScan
  BY <1>1, <1>2 DEF WriteMeta, Train, StoreMeta, Choose, FallBack, TakeResult, EndScan
<1>3. CASE Launch \/ ScanAlone
  <2>1. ~Begun /\ disk' = disk /\ shared' = shared
    BY <1>3 DEF Launch, ScanAlone, Begun
  <2>2. /\ disk.tape = {} /\ shared.ntuples = 0 /\ ~shared.done /\ shared.seeds \in Nat \ {0}
    BY <1>0, <2>1, NotBegun, Typed DEF IInv
  <2>3. ~GateOpen'
    BY <2>1, <2>2 DEF GateOpen
  <2> QED
    BY <1>0, <2>1, <2>2, <2>3 DEF JoinInv, Joined, SeedsOnPages
<1>4. ASSUME NEW w \in Worker \cup {Leader}, Work(w) PROVE JoinInv'
  BY <1>0, <1>4, WorkJoins DEF Work, Active, Procs, JoinInv
<1>5. ASSUME NEW n \in Node, Arrive(n) PROVE JoinInv'
  BY <1>1, <1>5 DEF Arrive
<1>6. CASE UNCHANGED allVars
  BY <1>1, <1>6 DEF allVars
<1> QED
  BY <1>2, <1>3, <1>4, <1>5, <1>6 DEF Next, Lead

LEMMA JoinInit == ASSUME Roomy, Init PROVE JoinInv
<1>1. CountInv /\ disk.tape = {} /\ shared.ntuples = 0 /\ ~shared.done
  BY CountInit DEF Init, InitWorkers, Roomy
<1>2. shared.seeds \in Nat \ {0}
  BY <1>1, Typed DEF CountInv, IInv
<1>3. ~GateOpen
  BY <1>1, <1>2 DEF GateOpen
<1> QED
  BY <1>1, <1>3 DEF JoinInv, Joined, SeedsOnPages

LEMMA StarReached == ASSUME TypeOK PROVE Star \subseteq Reached
<1>1. ASSUME NEW x \in Star PROVE x \in Reached
  <2>1. disk.root \in Node /\ disk.root # NoNode /\ x \in {disk.root} \cup disk.adj[disk.root] /\ x \in Node
    BY <1>1, Typed DEF Star
  <2>2. ASSUME NEW S \in SUBSET Node, disk.root \in S, \A y \in S : disk.adj[y] \subseteq S
        PROVE  x \in S
    BY <2>1, <2>2
  <2> QED
    BY <2>1, <2>2 DEF Reached
<1> QED
  BY <1>1

\* finalize_index_build and the merges before it: without overflowing lists a
\* build, of any number of workers with any interleaving, flush interval and
\* cache, leads from the root to every row it scanned.
THEOREM BuildsReachEveryRow == ASSUME Roomy PROVE Spec => []RowsReachable
<1>1. Init => JoinInv
  BY JoinInit
<1>2. JoinInv /\ [Next]_allVars => JoinInv'
  BY JoinNext
<1>3. JoinInv => RowsReachable
  <2> SUFFICES ASSUME JoinInv, leader.stage = "done" PROVE leader.toScan \subseteq Reached
    BY DEF RowsReachable
  <2>1. TypeOK /\ RowsOK /\ ModeOK /\ ProcsOK /\ Joined
    BY DEF JoinInv, CountInv, IInv
  <2>2. ASSUME NEW v \in Procs, NEW x PROVE ~Carries(worker[v], x)
    <3>1. ProcOK(v) /\ worker[v].stage \in {"start", "ended"}
      BY <2>1, StartingIs DEF ModeOK, ProcsOK
    <3> QED
      BY <3>1, NoCarry DEF ProcOK
  <2>3. disk.tape \subseteq Star
    BY <2>1, <2>2 DEF Joined
  <2>4. leader.toScan = disk.tape
    BY <2>1 DEF RowsOK, Begun
  <2> QED
    BY <2>1, <2>3, <2>4, StarReached
<1> QED
  BY <1>1, <1>2, <1>3, PTL DEF Spec

\* "Initialization publishes seed edges before waking the other workers"
\* (CONCURRENCY.md), by the flush at the last seed or in
\* finalize_remaining_parallel_nodes: the rest of the workers start from them.
THEOREM SeedsBeforeWorkers == ASSUME Roomy PROVE Spec => []SeedsPublished
<1>1. Init => JoinInv
  BY JoinInit
<1>2. JoinInv /\ [Next]_allVars => JoinInv'
  BY JoinNext
<1>3. JoinInv => SeedsPublished
  <2> SUFFICES ASSUME JoinInv, NEW w \in Worker, Admitted(w)
               PROVE  Cardinality(Reached) >= shared.seeds \/ rest \cup disk.tape \subseteq Reached
    BY DEF SeedsPublished
  <2>1. TypeOK /\ ProcOK(w) /\ SeedsOnPages /\ shared.seeds \in Nat
    BY Typed DEF JoinInv, CountInv, IInv, ProcsOK, Procs
  <2>2. GateOpen
    BY <2>1 DEF Admitted, ProcOK
  <2>3. Reached \subseteq Node
    BY DEF Reached
  <2>4. /\ IsFiniteSet(Reached) /\ Cardinality(Reached) \in Nat
        /\ Cardinality(Star) \in Nat /\ Cardinality(Star) <= Cardinality(Reached)
    <3>1. IsFiniteSet(Reached)
      BY <2>3, FS_Subset DEF Roomy
    <3> QED
      BY <2>1, <3>1, StarReached, StarFinite, FS_Subset, FS_CardinalityType DEF Roomy
  <2> QED
    BY <2>1, <2>2, <2>4, StarReached DEF SeedsOnPages
<1> QED
  BY <1>1, <1>2, <1>3, PTL DEF Spec
================================================================================
