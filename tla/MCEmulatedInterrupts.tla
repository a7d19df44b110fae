------------------------ MODULE MCEmulatedInterrupts ------------------------
(* Instances of EmulatedInterrupts small enough for TLC. *)
EXTENDS EmulatedInterrupts, TLC

TaskSymmetry == Permutations(Tasks)
=============================================================================
