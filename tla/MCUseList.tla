----------------------------- MODULE MCUseList -----------------------------
(* UseList for TLC: a constant or basic block and two instructions. *)
EXTENDS UseList
=============================================================================
