----------------------------- MODULE SSHManager -----------------------------
(***************************************************************************)
(* SSHManager (internal/ssh/ssh.go): the clients it dialed and their       *)
(* reference counts, guarded by one RWMutex.                               *)
(*                                                                         *)
(* Connect looks for the host under the READ lock, and counts there.  When *)
(* the host is not connected it lets go of the lock, dials, and stores     *)
(* what it dialed with count 1, without looking again.  So two Connects of *)
(* a host may both dial, and the later one overwrites the client AND the   *)
(* count of the earlier one.  "call" says where each Connect is.           *)
(*                                                                         *)
(* This module has the state and the operations, SSHService the callers.   *)
(***************************************************************************)
EXTENDS Integers, FiniteSets

CONSTANTS HostKeys,   \* "user@host:port" strings, the keys of both maps
          Clients,    \* *ssh.Client values; each is dialed once
          Callers,    \* whoever calls Connect, once at a time
          NoClient    \* a nil *ssh.Client

ASSUME ManagerAssumption == NoClient \notin Clients

VARIABLES connections, \* m.connections
          refs,        \* m.refs; an absent entry is 0
          call,        \* where the Connect of each caller is
          dialedFor,   \* the host a client was dialed for, of every dialed client
          open,        \* dialed clients that were not closed
          raced        \* history: hosts with two dials or two increments at once

managerVars == <<connections, refs, call, dialedFor, open, raced>>

NoCall        == [at |-> "none"]
Counting(k, n) == [at |-> "count", key |-> k, n |-> n]
Dialing(k)    == [at |-> "dial", key |-> k]
Storing(k, c) == [at |-> "store", key |-> k, client |-> c]

CallTypes ==
    {NoCall} \cup [at : {"count"}, key : HostKeys, n : Nat]
             \cup [at : {"dial"}, key : HostKeys]
             \cup [at : {"store"}, key : HostKeys, client : Clients]

CallersAt(places, k) == {p \in Callers : call[p].at \in places /\ call[p].key = k}

\* Only an increment holds the read lock across a step.
WriteLockFree == \A p \in Callers : call[p].at # "count"

ManagerInit ==
    /\ connections = [k \in HostKeys |-> NoClient]
    /\ refs = [k \in HostKeys |-> 0]
    /\ call = [p \in Callers |-> NoCall]
    /\ dialedFor = [c \in {} |-> NoClient]
    /\ open = {}
    /\ raced = {}

-----------------------------------------------------------------------------
(* Connect, the host is connected: load the count.                         *)
ConnectHit(p, k) ==
    /\ call[p] = NoCall
    /\ connections[k] # NoClient
    /\ call' = [call EXCEPT ![p] = Counting(k, refs[k])]
    /\ raced' = IF CallersAt({"count"}, k) # {} THEN raced \cup {k} ELSE raced
    /\ UNCHANGED <<connections, refs, dialedFor, open>>

(* Store the incremented count, unlock, return the client.                 *)
ConnectCounted(p) ==
    /\ call[p].at = "count"
    /\ refs' = [refs EXCEPT ![call[p].key] = call[p].n + 1]
    /\ call' = [call EXCEPT ![p] = NoCall]
    /\ UNCHANGED <<connections, dialedFor, open, raced>>

(* Connect, the host is not connected: unlock and dial.                    *)
ConnectMiss(p, k) ==
    /\ call[p] = NoCall
    /\ connections[k] = NoClient
    /\ call' = [call EXCEPT ![p] = Dialing(k)]
    /\ raced' = IF CallersAt({"dial", "store"}, k) # {} THEN raced \cup {k} ELSE raced
    /\ UNCHANGED <<connections, refs, dialedFor, open>>

(* No authentication method, or no connection.                             *)
DialFails(p) ==
    /\ call[p].at = "dial"
    /\ call' = [call EXCEPT ![p] = NoCall]
    /\ UNCHANGED <<connections, refs, dialedFor, open, raced>>

(* The client is there and, with it, its keepalive goroutine.              *)
DialSucceeds(p, c) ==
    /\ call[p].at = "dial"
    /\ c \notin DOMAIN dialedFor
    /\ dialedFor' = [d \in DOMAIN dialedFor \cup {c} |->
                        IF d = c THEN call[p].key ELSE dialedFor[d]]
    /\ open' = open \cup {c}
    /\ call' = [call EXCEPT ![p] = Storing(call[p].key, c)]
    /\ UNCHANGED <<connections, refs, raced>>

\* Stores the client and leaves the count to be made later.
StoreForgetsCount(p) ==
    /\ call[p].at = "store"
    /\ WriteLockFree
    /\ connections' = [connections EXCEPT ![call[p].key] = call[p].client]
    /\ call' = [call EXCEPT ![p] = NoCall]
    /\ UNCHANGED <<refs, dialedFor, open, raced>>

(* Store it with count 1, whatever the map has by now; return it.          *)
ConnectStore(p) ==
    /\ call[p].at = "store"
    /\ WriteLockFree
    /\ connections' = [connections EXCEPT ![call[p].key] = call[p].client]
    /\ refs' = [refs EXCEPT ![call[p].key] = 1]
    /\ call' = [call EXCEPT ![p] = NoCall]
    /\ UNCHANGED <<dialedFor, open, raced>>

\* Closes a client that others still use.
DisconnectEarly(k) ==
    /\ WriteLockFree
    /\ IF refs[k] <= 2
         THEN /\ open' = open \ {connections[k]}
              /\ connections' = [connections EXCEPT ![k] = NoClient]
              /\ refs' = [refs EXCEPT ![k] = 0]
         ELSE /\ refs' = [refs EXCEPT ![k] = @ - 1]
              /\ UNCHANGED <<connections, open>>
    /\ UNCHANGED <<call, dialedFor, raced>>

\* Deletes the entries of the last reference and does not close the client.
DisconnectLeavesOpen(k) ==
    /\ WriteLockFree
    /\ IF refs[k] <= 1
         THEN /\ connections' = [connections EXCEPT ![k] = NoClient]
              /\ refs' = [refs EXCEPT ![k] = 0]
         ELSE /\ refs' = [refs EXCEPT ![k] = @ - 1]
              /\ UNCHANGED connections
    /\ UNCHANGED <<call, dialedFor, open, raced>>

(* Disconnect: the last reference closes the client and deletes both       *)
(* entries; nothing for a host without a count.                            *)
Disconnect(k) ==
    /\ WriteLockFree
    /\ IF refs[k] <= 1
         THEN /\ open' = open \ {connections[k]}
              /\ connections' = [connections EXCEPT ![k] = NoClient]
              /\ refs' = [refs EXCEPT ![k] = 0]
         ELSE /\ refs' = [refs EXCEPT ![k] = @ - 1]
              /\ UNCHANGED <<connections, open>>
    /\ UNCHANGED <<call, dialedFor, raced>>

-----------------------------------------------------------------------------
ManagerTypeOK ==
    /\ connections \in [HostKeys -> Clients \cup {NoClient}]
    /\ refs \in [HostKeys -> Nat]
    /\ call \in [Callers -> CallTypes]
    /\ DOMAIN dialedFor \subseteq Clients
    /\ \A c \in DOMAIN dialedFor : dialedFor[c] \in HostKeys
    /\ open \subseteq DOMAIN dialedFor
    /\ raced \subseteq HostKeys
=============================================================================
