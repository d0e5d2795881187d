--------------------------------- MODULE MCScan ---------------------------------
(***************************************************************************)
(* Small instances of Scan.                                                *)
(***************************************************************************)
EXTENDS Scan, TLC

CONSTANTS n1, n2, n3, la, lb

\* Two nodes on the first page, one on the second.
TwoPages == [n \in Node |-> IF n = n3 THEN 1 ELSE 0]

NoFilter == {{DefaultRoot}}
LabelFilters == {{DefaultRoot}, {lb}, {la, lb}}

NoLabels == [n \in Node |-> {}]

\* The way to n3 from the default root may be through nodes without its labels.
OverlappingLabels ==
  [n \in Node |-> CASE n = n1 -> {} [] n = n2 -> {la} [] OTHER -> {la, lb}]

SlotSymmetry == Permutations(Slot)
================================================================================
