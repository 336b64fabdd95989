--------------------------- MODULE ConnectionPool ---------------------------
(***************************************************************************)
(* SSHConnectionPool (internal/session/session.go): the map of shared SSH  *)
(* connections and the map of their reference counts, guarded by one       *)
(* RWMutex.                                                                *)
(*                                                                         *)
(* SetConnection and ReleaseConnection hold the write lock from their      *)
(* first statement to their last, so each is one step that excludes every  *)
(* reader.  GetConnection holds only the READ lock, and increments the     *)
(* count under it: two callers may be between the load and the store of    *)
(* refs[key]++ at the same time.  It is therefore two steps, GetLoad and   *)
(* GetStore, and "reading" names the callers between them.                 *)
(*                                                                         *)
(* A Go map entry that is absent reads as the zero value, and no operation *)
(* stores a count below 1, so an absent refs entry is the count 0 and an   *)
(* absent connections entry is NoClient.                                   *)
(*                                                                         *)
(* This module has the state and the operations; PoolClients closes it     *)
(* with callers that keep the contract, Sessions with the real ones.       *)
(***************************************************************************)
EXTENDS Integers, FiniteSets

CONSTANTS HostKeys,   \* "user@host:port" strings, the keys of both maps
          Clients,    \* *ssh.Client values
          Procs,      \* goroutines that call the pool
          NoClient    \* a nil *ssh.Client

ASSUME PoolAssumption == NoClient \notin Clients

VARIABLES connections, \* p.connections: [HostKeys -> Clients or NoClient]
          refs,        \* p.refs: [HostKeys -> Nat]
          reading,     \* the callers inside refs[key]++, with the count they loaded
          closed,      \* clients on which Close was called
          dialed,      \* clients that were ever given to SetConnection
          raced        \* history: keys on which two increments overlapped

poolVars == <<connections, refs, reading, closed, dialed, raced>>

-----------------------------------------------------------------------------
Pooled(k) == connections[k] # NoClient

\* A caller outside GetConnection, and one that loaded count n of key k.
Outside == [at |-> "out"]
InGet(k, n) == [at |-> "get", key |-> k, n |-> n]

GettersOf(k) == {p \in Procs : reading[p].at = "get" /\ reading[p].key = k}

\* The write lock is granted when no caller holds the read lock.
WriteLockFree == \A p \in Procs : reading[p].at = "out"

PoolTypeOK ==
    /\ connections \in [HostKeys -> Clients \cup {NoClient}]
    /\ refs \in [HostKeys -> Nat]
    /\ reading \in [Procs -> {Outside} \cup
                       [at : {"get"}, key : HostKeys, n : Nat]]
    /\ closed \subseteq Clients
    /\ dialed \subseteq Clients
    /\ raced \subseteq HostKeys

PoolInit ==
    /\ connections = [k \in HostKeys |-> NoClient]
    /\ refs = [k \in HostKeys |-> 0]
    /\ reading = [p \in Procs |-> Outside]
    /\ closed = {}
    /\ dialed = {}
    /\ raced = {}

-----------------------------------------------------------------------------
(* GetConnection(key), found: lock for reading, see the entry, load the    *)
(* count.                                                                  *)
GetLoad(p, k) ==
    /\ reading[p].at = "out"
    /\ Pooled(k)
    /\ reading' = [reading EXCEPT ![p] = InGet(k, refs[k])]
    /\ raced' = IF GettersOf(k) # {} THEN raced \cup {k} ELSE raced
    /\ UNCHANGED <<connections, refs, closed, dialed>>

(* GetConnection(key), found: store the incremented count, unlock.         *)
GetStore(p) ==
    /\ reading[p].at = "get"
    /\ refs' = [refs EXCEPT ![reading[p].key] = reading[p].n + 1]
    /\ reading' = [reading EXCEPT ![p] = Outside]
    /\ UNCHANGED <<connections, closed, dialed, raced>>

(* GetConnection(key), not found: the error "connection not found".        *)
GetMiss(p, k) ==
    /\ reading[p].at = "out"
    /\ ~Pooled(k)
    /\ UNCHANGED poolVars

\* Stores the client without looking whether the key has one.
SetOverwrites(k, c) ==
    /\ WriteLockFree
    /\ c \notin dialed
    /\ dialed' = dialed \cup {c}
    /\ connections' = [connections EXCEPT ![k] = c]
    /\ refs' = [refs EXCEPT ![k] = 1]
    /\ UNCHANGED <<reading, closed, raced>>

(* SetConnection(key, client): the first client of a key is stored with    *)
(* count 1; a later one is counted and DISCARDED, still open.              *)
SetConnection(k, c) ==
    /\ WriteLockFree
    /\ c \notin dialed
    /\ dialed' = dialed \cup {c}
    /\ IF Pooled(k)
         THEN /\ refs' = [refs EXCEPT ![k] = @ + 1]
              /\ UNCHANGED connections
         ELSE /\ connections' = [connections EXCEPT ![k] = c]
              /\ refs' = [refs EXCEPT ![k] = 1]
    /\ UNCHANGED <<reading, closed, raced>>

\* Forgets to delete the count with the connection.
ReleaseKeepsCount(k) ==
    /\ WriteLockFree
    /\ IF refs[k] <= 1
         THEN /\ closed' = closed \cup ({connections[k]} \ {NoClient})
              /\ connections' = [connections EXCEPT ![k] = NoClient]
              /\ UNCHANGED refs
         ELSE /\ refs' = [refs EXCEPT ![k] = @ - 1]
              /\ UNCHANGED <<connections, closed>>
    /\ UNCHANGED <<reading, dialed, raced>>

\* Closes one reference too early: "refs <= 1" instead of "refs <= 0".
ReleaseEarly(k) ==
    /\ WriteLockFree
    /\ IF refs[k] <= 2
         THEN /\ closed' = closed \cup ({connections[k]} \ {NoClient})
              /\ connections' = [connections EXCEPT ![k] = NoClient]
              /\ refs' = [refs EXCEPT ![k] = 0]
         ELSE /\ refs' = [refs EXCEPT ![k] = @ - 1]
              /\ UNCHANGED <<connections, closed>>
    /\ UNCHANGED <<reading, dialed, raced>>

\* Drops the test that the key has a count.
ReleaseUnknownKey(k) ==
    /\ WriteLockFree
    /\ IF refs[k] = 1
         THEN /\ closed' = closed \cup ({connections[k]} \ {NoClient})
              /\ connections' = [connections EXCEPT ![k] = NoClient]
              /\ refs' = [refs EXCEPT ![k] = 0]
         ELSE /\ refs' = [refs EXCEPT ![k] = @ - 1]
              /\ UNCHANGED <<connections, closed>>
    /\ UNCHANGED <<reading, dialed, raced>>

(* ReleaseConnection(key): nothing for a key without a count; the last     *)
(* reference closes the client and deletes both entries.                   *)
ReleaseConnection(k) ==
    /\ WriteLockFree
    /\ IF refs[k] <= 1
         THEN /\ closed' = closed \cup ({connections[k]} \ {NoClient})
              /\ connections' = [connections EXCEPT ![k] = NoClient]
              /\ refs' = [refs EXCEPT ![k] = 0]
         ELSE /\ refs' = [refs EXCEPT ![k] = @ - 1]
              /\ UNCHANGED <<connections, closed>>
    /\ UNCHANGED <<reading, dialed, raced>>

-----------------------------------------------------------------------------
(* The two maps have the same keys, and what the pool hands out is open:   *)
(* GetConnection (session.go:317) never returns a client ReleaseConnection *)
(* has closed, although it counts under the read lock only.                *)
PoolConsistent ==
    \A k \in HostKeys :
        /\ Pooled(k) <=> refs[k] > 0
        /\ Pooled(k) => connections[k] \in dialed \ closed

\* A client that was never given to the pool is not closed.
ClosedWereDialed == closed \subseteq dialed

\* No client is pooled under two keys, so closing one leaves the others open.
PooledOnce ==
    \A j, k \in HostKeys : Pooled(j) /\ connections[j] = connections[k] => j = k

(* A caller that saw the entry still finds it when it stores the count: no *)
(* release takes the connection away between the two halves of refs++.     *)
GetterSeesEntry ==
    \A p \in Procs : reading[p].at = "get" => Pooled(reading[p].key)

\* On a key without a race at most one caller is inside the increment, and
\* the count it loaded is still the count.
AloneUnlessRaced ==
    \A k \in HostKeys \ raced : \A p \in GettersOf(k) :
        /\ reading[p].n = refs[k]
        /\ \A q \in GettersOf(k) : q = p

\* What every operation keeps, whoever calls it.
PoolInv ==
    /\ PoolTypeOK
    /\ PoolConsistent
    /\ ClosedWereDialed
    /\ PooledOnce
    /\ GetterSeesEntry
    /\ AloneUnlessRaced
=============================================================================
