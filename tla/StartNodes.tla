------------------------------- MODULE StartNodes -------------------------------
(***************************************************************************)
(* graph/start_nodes.rs: the nodes at which a search enters the graph, one *)
(* default node and one node for each label that has been seen.            *)
(***************************************************************************)
CONSTANTS
  Node,
  Label,
  DefaultRoot,  \* the key of StartNodes::default_node
  NoNode

ASSUME KeyAssumption == DefaultRoot \notin Label /\ NoNode \notin Node

Key == Label \cup {DefaultRoot}

\* StartNodes; without a default node it is None.
Roots == [Key -> Node \cup {NoNode}]
NoRoots == [k \in Key |-> NoNode]

\* contains_all when the labels are not looked at.
CoversDefault(v, labels) == v[DefaultRoot] # NoNode

\* There are start nodes and contains_all(labels) holds of them.
Covers(v, labels) == \A k \in labels \cup {DefaultRoot} : v[k] # NoNode

\* An upsert without the test that there is no root yet, and one that never
\* made a default root.
PublishedAnew(v, n, labels) ==
  [k \in Key |-> IF k \in labels \cup {DefaultRoot} THEN n ELSE v[k]]

PublishedLabels(v, n, labels) ==
  [k \in Key |-> IF k \in labels /\ v[k] = NoNode THEN n ELSE v[k]]

\* What update_start_nodes stores: StartNodes::new for the first node, upsert
\* of the labels not contained.
Published(v, n, labels) ==
  [k \in Key |-> IF k \in labels \cup {DefaultRoot} /\ v[k] = NoNode THEN n ELSE v[k]]
================================================================================
