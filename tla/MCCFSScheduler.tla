--------------------------- MODULE MCCFSScheduler ---------------------------
(* Instances of CFSScheduler: SEs and tasks are interchangeable. *)
EXTENDS CFSScheduler, TLC

Symmetry == Permutations(Task) \cup Permutations(SE)
=============================================================================
