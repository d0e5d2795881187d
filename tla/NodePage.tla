-------------------------------- MODULE NodePage --------------------------------
(***************************************************************************)
(* The neighbor field of a stored graph node: a fixed array of             *)
(* NumNeighbors index pointers, a list ended by a pointer to               *)
(* InvalidBlockNumber when it is shorter than the array.  What lies behind *)
(* that mark is left over from earlier, longer lists.                      *)
(***************************************************************************)
EXTENDS Neighbors

CONSTANT InvalidPointer  \* ItemPointer(InvalidBlockNumber, InvalidOffsetNumber)

ASSUME InvalidPointerAssumption == InvalidPointer \notin Node

Slots == [1..NumNeighbors -> Node \cup {InvalidPointer}]

\* A node as the tape writes it: every slot invalid.
EmptySlots == [i \in 1..NumNeighbors |-> InvalidPointer]

\* position(|p| p.block_number == InvalidBlockNumber).unwrap_or(len)
StoredNeighbors(slots) ==
  CHOOSE k \in 0..NumNeighbors :
    /\ \A i \in 1..k : slots[i] # InvalidPointer
    /\ k < NumNeighbors => slots[k + 1] = InvalidPointer

IterNeighbors(slots) == [i \in 1..StoredNeighbors(slots) |-> slots[i]]

\* set_neighbors without the end mark, or cutting the array to the list.
SetNeighborsUnmarked(slots, list) ==
  [i \in 1..NumNeighbors |-> IF i <= Len(list) THEN list[i] ELSE slots[i]]

SetNeighborsResized(slots, list) == list

\* A list that fills the array needs no mark; a shorter one is marked.
SetNeighbors(slots, list) ==
  [i \in 1..NumNeighbors |-> IF i <= Len(list) THEN list[i]
                             ELSE IF i = Len(list) + 1 THEN InvalidPointer
                             ELSE slots[i]]
================================================================================
