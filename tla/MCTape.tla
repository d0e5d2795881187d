--------------------------------- MODULE MCTape ---------------------------------
(***************************************************************************)
(* A small instance of Tape.                                               *)
(***************************************************************************)
EXTENDS Tape, TLC

TapeSymmetry == Permutations(Backend) \cup Permutations(Item)
================================================================================
