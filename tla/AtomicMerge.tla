------------------------------ MODULE AtomicMerge ------------------------------
(***************************************************************************)
(* What an adjacency update promises its callers: each call takes effect   *)
(* in one step, on the neighbors the node has at that step.  Between the   *)
(* call and its effect, and between calls, nothing is visible; VACUUM's    *)
(* tombstones are never touched by a call.                                 *)
(***************************************************************************)
EXTENDS Sequences

CONSTANTS
  Node,
  Backend,
  Modes,                     \* the kinds of merge
  MergeResults(_, _, _, _),  \* what one merge may answer and store
  NoCall

VARIABLES
  adjacency,  \* the ordered neighbors of every node
  tombstone,  \* the nodes whose heap pointer VACUUM has invalidated
  call        \* for each backend: NoCall, its open call, or the answer

vars == << adjacency, tombstone, call >>

Calls == [node : Node, added : Seq(Node), mode : Modes]
Answers == [node : Node, pruned : BOOLEAN, list : Seq(Node)]

Init ==
  /\ adjacency = [n \in Node |-> << >>]
  /\ tombstone = {}
  /\ call = [b \in Backend |-> NoCall]

Call(b) ==
  /\ call[b] \notin Calls
  /\ call'[b] \in Calls
  /\ call' = [call EXCEPT ![b] = call'[b]]
  /\ UNCHANGED << adjacency, tombstone >>

Merge(b) ==
  /\ call[b] \in Calls
  /\ LET n == call[b].node
     IN  \E r \in MergeResults(n, adjacency[n], call[b].added, call[b].mode) :
           /\ adjacency' = [adjacency EXCEPT ![n] = r.list]
           /\ call' = [call EXCEPT ![b] = [node |-> n, pruned |-> r.pruned,
                                           list |-> r.list]]
  /\ UNCHANGED tombstone

\* The backend is cancelled; its call has no effect.
Cancel(b) ==
  /\ call[b] \in Calls
  /\ call' = [call EXCEPT ![b] = NoCall]
  /\ UNCHANGED << adjacency, tombstone >>

Tombstone(n) ==
  /\ tombstone' = tombstone \cup {n}
  /\ UNCHANGED << adjacency, call >>

Next ==
  \/ \E b \in Backend : Call(b) \/ Merge(b) \/ Cancel(b)
  \/ \E n \in Node : Tombstone(n)

Spec == Init /\ [][Next]_vars
================================================================================
