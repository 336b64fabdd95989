---------------------------- MODULE PoolClients ----------------------------
(***************************************************************************)
(* The connection pool under callers that keep its contract: every         *)
(* reference a caller got or set is released at most once, by somebody who *)
(* holds it.  "held" counts, per key, the references that are out.         *)
(*                                                                         *)
(* The question is what the count of a key says about the references that  *)
(* are out, when GetConnection increments it under the read lock.          *)
(***************************************************************************)
EXTENDS ConnectionPool

CONSTANT MaxHeld   \* bound: references out per key

ASSUME MaxHeldAssumption == MaxHeld \in Nat

VARIABLE held      \* [HostKeys -> Nat]: gets and sets minus releases

vars == <<connections, refs, reading, closed, dialed, raced, held>>

\* References out, or about to be.
Claims(k) == held[k] + Cardinality(GettersOf(k))

Init == PoolInit /\ held = [k \in HostKeys |-> 0]

BeginGet(p, k) ==
    /\ Claims(k) < MaxHeld
    /\ GetLoad(p, k)
    /\ UNCHANGED held

EndGet(p) ==
    /\ GetStore(p)
    /\ held' = [held EXCEPT ![reading[p].key] = @ + 1]

Set(k, c) ==
    /\ Claims(k) < MaxHeld
    /\ SetConnection(k, c)
    /\ held' = [held EXCEPT ![k] = @ + 1]

Release(k) ==
    /\ held[k] > 0
    /\ ReleaseConnection(k)
    /\ held' = [held EXCEPT ![k] = @ - 1]

Next ==
    \/ \E p \in Procs, k \in HostKeys : BeginGet(p, k)
    \/ \E p \in Procs : EndGet(p)
    \/ \E k \in HostKeys, c \in Clients : Set(k, c)
    \/ \E k \in HostKeys : Release(k)

Spec == Init /\ [][Next]_vars

-----------------------------------------------------------------------------
TypeOK == PoolTypeOK /\ held \in [HostKeys -> Nat]

(* The race on refs[key]++ (session.go:321) can only lose references: the  *)
(* count never exceeds the references that are out, so a connection whose  *)
(* users have all released it is never kept open by the count.             *)
NeverOvercounts ==
    \A k \in HostKeys : refs[k] <= held[k]

(* The count is exact, whatever gets, sets and releases interleave, on     *)
(* every key on which no two increments overlapped; there the last release *)
(* and no earlier one closes the connection.  So the increment under the   *)
(* read lock is the one place where the pool miscounts.                    *)
ExactUnlessRaced ==
    \A k \in HostKeys \ raced : refs[k] = held[k]

-----------------------------------------------------------------------------
(* Used by goroutines that release what they hold, the pool implements     *)
(* SharedConnections: its users are the references out.  The increment     *)
(* under the read lock is the one thing that can break this.               *)
Shared == INSTANCE SharedConnections
            WITH client <- connections, users <- held, offered <- dialed, ended <- closed

(* Until two increments of a host overlap, every step of the pool          *)
(* (session.go:312-356) is a step of SharedConnections or changes nothing  *)
(* in it.                                                                  *)
ImplementsShared ==
    /\ Shared!Init
    /\ [][raced = {} => [Shared!Next]_(Shared!sharedVars)]_vars
=============================================================================
