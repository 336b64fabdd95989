---------------------------- MODULE MCSSHService ----------------------------
(* SSHService for TLC: all sessions are of one host. *)
EXTENDS SSHService, TLC

CONSTANT h1

OneHost == [s \in Callers |-> h1]

Symmetry == Permutations(Clients) \cup Permutations(Callers)
=============================================================================
