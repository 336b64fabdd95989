------------------------------ MODULE MCRemote ------------------------------
(* Remote for TLC: the goroutines that synchronise are interchangeable. *)
EXTENDS Remote, TLC

Symmetry == Permutations(SyncCallers)
=============================================================================
