------------------------------ MODULE EntryPoints ------------------------------
(***************************************************************************)
(* What the metadata page promises: one map from search entries (the       *)
(* default one and one for each label) to nodes.  A backend sees a version *)
(* of it as of one moment; publication fills entries that are missing in   *)
(* the current version and changes no other; a crash goes back to the last *)
(* version that was made durable.                                          *)
(***************************************************************************)
CONSTANTS
  Backend,
  Node,
  Label,
  NoRoots,             \* the version of an empty index
  Published(_, _, _),  \* a version with its missing entries filled
  NoView               \* what a backend sees that has fetched nothing

VARIABLES
  roots,    \* the current version
  durable,  \* the version a crash goes back to
  view      \* the version each backend works with

vars == << roots, durable, view >>

Init ==
  /\ roots = NoRoots
  /\ durable = NoRoots
  /\ view = [b \in Backend |-> NoView]

Fetch(b) ==
  /\ view' = [view EXCEPT ![b] = roots]
  /\ UNCHANGED << roots, durable >>

Forget(b) ==
  /\ view' = [view EXCEPT ![b] = NoView]
  /\ UNCHANGED << roots, durable >>

\* The version before the step is the one the publishing backend has seen.
Publish(b, n, labels) ==
  /\ view[b] = roots
  /\ roots' = Published(roots, n, labels)
  /\ view' = [view EXCEPT ![b] = roots']
  /\ UNCHANGED durable

Flush ==
  /\ durable' = roots
  /\ UNCHANGED << roots, view >>

\* A transaction commits, its log with it.
Commit(b) ==
  /\ durable' = roots
  /\ view' = [view EXCEPT ![b] = NoView]
  /\ UNCHANGED roots

Crash ==
  /\ roots' = durable
  /\ view' = [b \in Backend |-> NoView]
  /\ UNCHANGED durable

Next ==
  \/ \E b \in Backend :
       \/ Fetch(b) \/ Forget(b) \/ Commit(b)
       \/ \E n \in Node, labels \in SUBSET Label : Publish(b, n, labels)
  \/ Flush
  \/ Crash

Spec == Init /\ [][Next]_vars
================================================================================
