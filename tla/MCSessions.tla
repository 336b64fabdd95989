----------------------------- MODULE MCSessions -----------------------------
(* Sessions for TLC: every session is on the one host, so that sessions    *)
(* share its connection.                                                   *)
EXTENDS Sessions, TLC

CONSTANT Host1

SameHost == [s \in Ids |-> Host1]

Symmetry == Permutations(Ids) \cup Permutations(Procs) \cup Permutations(Clients)
=============================================================================
