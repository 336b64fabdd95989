-------------------------- MODULE SSHServiceProofs --------------------------
(***************************************************************************)
(* Proofs about SSHService: its types, that an open client can be reached  *)
(* unless two dials of its host overlapped, that the sessions of a host    *)
(* share one open client until a race or an overtaken request, and that    *)
(* until then the service implements SharedConnections on that host.       *)
(*                                                                         *)
(* OpenIsReachable is lost when a store overwrites a client.  On a host    *)
(* without a race that cannot happen, because at most one Connect is       *)
(* between its look at the map and its store, and the map has no client    *)
(* of the host all that time (OneDialer): only a store puts one there.     *)
(* The refinement uses the same invariant: a store then brings the client  *)
(* in, and every other step of the service on that host takes or gives     *)
(* back a counted reference, or shows nothing.                             *)
(***************************************************************************)
EXTENDS SSHService, FiniteSetTheorems, TLAPS

\* A client is pooled, or about to be, under the host it was dialed for.
PooledForHost ==
    \A k \in HostKeys : connections[k] # NoClient =>
        connections[k] \in DOMAIN dialedFor /\ dialedFor[connections[k]] = k

StoredForHost ==
    \A s \in Sessions : call[s].at = "store" =>
        call[s].client \in DOMAIN dialedFor /\ dialedFor[call[s].client] = call[s].key

\* The Connects of a host without a race that have seen no client: at most
\* one, and there still is no client.
OneDialer ==
    \A k \in HostKeys \ raced : \A s \in CallersAt({"dial", "store"}, k) :
        /\ connections[k] = NoClient
        /\ \A t \in CallersAt({"dial", "store"}, k) : t = s

IInv == TypeOK /\ PooledForHost /\ StoredForHost /\ OneDialer /\ OpenIsReachable

-----------------------------------------------------------------------------
LEMMA InitIInv == Init => IInv
  BY ManagerAssumption
  DEF Init, ManagerInit, IInv, TypeOK, ManagerTypeOK, PooledForHost, StoredForHost, OneDialer,
      OpenIsReachable, CallersAt, CallTypes, NoCall, Sessions

\* Handlers and requests that leave the manager alone keep what concerns it.
LEMMA ManagerUnchanged ==
    ASSUME IInv, UNCHANGED managerVars
    PROVE  ManagerTypeOK' /\ PooledForHost' /\ StoredForHost' /\ OneDialer' /\ OpenIsReachable'
  BY DEF IInv, TypeOK, managerVars, ManagerTypeOK, PooledForHost, StoredForHost, OneDialer,
         OpenIsReachable, CallersAt

LEMMA HitKeeps ==
    ASSUME IInv, NEW s \in Sessions, NEW k \in HostKeys, ConnectHit(s, k)
    PROVE  ManagerTypeOK' /\ PooledForHost' /\ StoredForHost' /\ OneDialer' /\ OpenIsReachable'
<1> USE DEF IInv, TypeOK, ManagerTypeOK, ConnectHit, Counting, NoCall, Sessions
<1>1. call' \in [Callers -> CallTypes]
  BY DEF CallTypes
<1>2. raced \subseteq raced' /\ raced' \subseteq HostKeys
  OBVIOUS
<1>3. \A t \in Sessions : t # s => call'[t] = call[t]
  OBVIOUS
<1>4. call'[s].at = "count"
  OBVIOUS
<1>5. ManagerTypeOK'
  BY <1>1, <1>2
<1>6. PooledForHost' /\ StoredForHost'
  BY <1>3, <1>4 DEF PooledForHost, StoredForHost
<1>7. OneDialer'
  BY <1>2, <1>3, <1>4 DEF OneDialer, CallersAt
<1>8. OpenIsReachable'
  BY <1>2, <1>3, <1>4 DEF OpenIsReachable, Storing
<1>9. QED
  BY <1>5, <1>6, <1>7, <1>8

LEMMA MissKeeps ==
    ASSUME IInv, NEW s \in Sessions, NEW k \in HostKeys, ConnectMiss(s, k)
    PROVE  ManagerTypeOK' /\ PooledForHost' /\ StoredForHost' /\ OneDialer' /\ OpenIsReachable'
<1> USE DEF IInv, TypeOK, ManagerTypeOK, ConnectMiss, Dialing, NoCall, Sessions
<1>1. call' \in [Callers -> CallTypes]
  BY DEF CallTypes
<1>2. raced \subseteq raced' /\ raced' \subseteq HostKeys
  OBVIOUS
<1>3. \A t \in Sessions : t # s => call'[t] = call[t]
  OBVIOUS
<1>4. call'[s] = [at |-> "dial", key |-> k]
  OBVIOUS
<1>5. ManagerTypeOK'
  BY <1>1, <1>2
<1>6. PooledForHost' /\ StoredForHost'
  BY <1>3, <1>4 DEF PooledForHost, StoredForHost
<1>7. k \notin raced' => CallersAt({"dial", "store"}, k) = {}
  OBVIOUS
<1>8. OneDialer'
  BY <1>2, <1>3, <1>4, <1>7 DEF OneDialer, CallersAt
<1>9. OpenIsReachable'
  BY <1>2, <1>3, <1>4 DEF OpenIsReachable, Storing
<1>10. QED
  BY <1>5, <1>6, <1>8, <1>9

\* A call that ends without a change to the map or the clients.
LEMMA ReturnKeeps ==
    ASSUME IInv, NEW s \in Sessions, DialFails(s) \/ ConnectCounted(s)
    PROVE  ManagerTypeOK' /\ PooledForHost' /\ StoredForHost' /\ OneDialer' /\ OpenIsReachable'
<1> USE DEF IInv, TypeOK, ManagerTypeOK, DialFails, ConnectCounted, NoCall, Sessions
<1>1. call' \in [Callers -> CallTypes]
  BY DEF CallTypes
<1>2. /\ \A t \in Sessions : t # s => call'[t] = call[t]
      /\ call'[s].at = "none" /\ call[s].at # "store"
  OBVIOUS
<1>3. refs' \in [HostKeys -> Nat]
  BY DEF CallTypes
<1>4. UNCHANGED <<connections, dialedFor, open, raced>>
  OBVIOUS
<1>5. ManagerTypeOK'
  BY <1>1, <1>3, <1>4
<1>6. PooledForHost' /\ StoredForHost' /\ OneDialer'
  BY <1>2, <1>4 DEF PooledForHost, StoredForHost, OneDialer, CallersAt
<1>7. OpenIsReachable'
  BY <1>2, <1>4 DEF OpenIsReachable, Storing
<1>8. QED
  BY <1>5, <1>6, <1>7

LEMMA DialKeeps ==
    ASSUME IInv, NEW s \in Sessions, NEW c \in Clients, DialSucceeds(s, c)
    PROVE  ManagerTypeOK' /\ PooledForHost' /\ StoredForHost' /\ OneDialer' /\ OpenIsReachable'
<1> USE DEF IInv, TypeOK, ManagerTypeOK, DialSucceeds, Storing, NoCall, Sessions
<1> DEFINE k == call[s].key
<1>1. k \in HostKeys /\ s \in CallersAt({"dial", "store"}, k)
  BY DEF CallTypes, CallersAt
<1>2. call' \in [Callers -> CallTypes]
  BY <1>1 DEF CallTypes
<1>3. /\ \A t \in Sessions : t # s => call'[t] = call[t]
      /\ call'[s] = [at |-> "store", key |-> k, client |-> c]
  OBVIOUS
<1>4. /\ DOMAIN dialedFor' = DOMAIN dialedFor \cup {c}
      /\ dialedFor'[c] = k
      /\ \A d \in DOMAIN dialedFor : dialedFor'[d] = dialedFor[d]
  OBVIOUS
<1>5. UNCHANGED <<connections, refs, raced>> /\ open' = open \cup {c}
  OBVIOUS
<1>6. ManagerTypeOK'
  BY <1>1, <1>2, <1>4, <1>5
<1>7. PooledForHost' /\ StoredForHost'
  BY <1>3, <1>4, <1>5 DEF PooledForHost, StoredForHost
<1>8. \A j \in HostKeys :
          CallersAt({"dial", "store"}, j)' = CallersAt({"dial", "store"}, j)
  BY <1>1, <1>3 DEF CallersAt
<1>9. OneDialer'
  BY <1>5, <1>8 DEF OneDialer
<1>10. OpenIsReachable'
  BY <1>3, <1>4, <1>5 DEF OpenIsReachable
<1>11. QED
  BY <1>6, <1>7, <1>9, <1>10

LEMMA StoreKeeps ==
    ASSUME IInv, NEW s \in Sessions, ConnectStore(s)
    PROVE  ManagerTypeOK' /\ PooledForHost' /\ StoredForHost' /\ OneDialer' /\ OpenIsReachable'
<1> USE DEF IInv, TypeOK, ManagerTypeOK, ConnectStore, NoCall, Sessions
<1> DEFINE k == call[s].key
           c == call[s].client
<1>1. /\ k \in HostKeys /\ c \in Clients /\ call[s] = Storing(k, c)
      /\ s \in CallersAt({"dial", "store"}, k)
  BY DEF CallTypes, CallersAt, Storing
<1>2. c \in DOMAIN dialedFor /\ dialedFor[c] = k
  BY DEF StoredForHost
<1>3. /\ \A t \in Sessions : t # s => call'[t] = call[t]
      /\ call'[s].at = "none"
      /\ call' \in [Callers -> CallTypes]
  BY DEF CallTypes
<1>4. /\ connections' \in [HostKeys -> Clients \cup {NoClient}]
      /\ connections'[k] = c
      /\ \A j \in HostKeys : j # k => connections'[j] = connections[j]
  BY <1>1
<1>5. UNCHANGED <<dialedFor, open, raced>> /\ refs' \in [HostKeys -> Nat]
  OBVIOUS
<1>6. ManagerTypeOK'
  BY <1>3, <1>4, <1>5
<1>7. PooledForHost' /\ StoredForHost'
  BY <1>2, <1>3, <1>4, <1>5 DEF PooledForHost, StoredForHost
<1>8. k \notin raced => /\ connections[k] = NoClient
                        /\ \A t \in CallersAt({"dial", "store"}, k) : t = s
  BY <1>1 DEF OneDialer
<1>9. OneDialer'
  BY <1>3, <1>4, <1>5, <1>8 DEF OneDialer, CallersAt
<1>10. OpenIsReachable'
  BY <1>1, <1>2, <1>3, <1>4, <1>5, <1>8, ManagerAssumption DEF OpenIsReachable, Storing
<1>11. QED
  BY <1>6, <1>7, <1>9, <1>10

LEMMA DisconnectKeeps ==
    ASSUME IInv, NEW k \in HostKeys, Disconnect(k)
    PROVE  ManagerTypeOK' /\ PooledForHost' /\ StoredForHost' /\ OneDialer' /\ OpenIsReachable'
<1> USE DEF IInv, TypeOK, ManagerTypeOK, Disconnect, Sessions
<1>1. UNCHANGED <<call, dialedFor, raced>> /\ open' \subseteq open
  OBVIOUS
<1>2. /\ connections' \in [HostKeys -> Clients \cup {NoClient}]
      /\ \A j \in HostKeys : connections'[j] = connections[j] \/ connections'[j] = NoClient
      /\ \A j \in HostKeys : j # k => connections'[j] = connections[j]
  OBVIOUS
<1>3. refs' \in [HostKeys -> Nat]
  <2>1. CASE refs[k] <= 1
    BY <2>1
  <2>2. CASE ~(refs[k] <= 1)
    <3>1. refs[k] - 1 \in Nat
      BY <2>2
    <3>2. QED
      BY <2>2, <3>1
  <2>3. QED
    BY <2>1, <2>2
<1>4. ManagerTypeOK'
  BY <1>1, <1>2, <1>3
<1>5. PooledForHost' /\ StoredForHost' /\ OneDialer'
  BY <1>1, <1>2 DEF PooledForHost, StoredForHost, OneDialer, CallersAt
<1>6. connections'[k] = connections[k] \/ connections[k] \notin open'
  OBVIOUS
<1>7. OpenIsReachable'
  BY <1>1, <1>2, <1>6 DEF OpenIsReachable
<1>8. QED
  BY <1>4, <1>5, <1>7

-----------------------------------------------------------------------------
LEMMA NextIInv == IInv /\ [Next]_vars => IInv'
<1> SUFFICES ASSUME IInv, [Next]_vars PROVE IInv'
  OBVIOUS
<1> USE DEF Sessions
<1>1. ASSUME NEW s \in Sessions, RequestConnect(s) \/ RequestDisconnect(s)
      PROVE  IInv'
  BY <1>1, ManagerUnchanged DEF RequestConnect, RequestDisconnect, IInv, TypeOK
<1>2. ASSUME NEW s \in Sessions, HandleConnect(s)
      PROVE  IInv'
  <2>1. Host[s] \in HostKeys
    BY HostAssumption
  <2>2. ManagerTypeOK' /\ PooledForHost' /\ StoredForHost' /\ OneDialer' /\ OpenIsReachable'
    BY <1>2, <2>1, HitKeeps, MissKeeps DEF HandleConnect
  <2>3. QED
    BY <1>2, <2>2 DEF HandleConnect, IInv, TypeOK
<1>3. ASSUME NEW s \in Sessions, ConnectReturns(s)
      PROVE  IInv'
  <2>1. Host[s] \in HostKeys
    BY HostAssumption
  <2>2. ManagerTypeOK' /\ PooledForHost' /\ StoredForHost' /\ OneDialer' /\ OpenIsReachable'
    BY <1>3, ReturnKeeps, StoreKeeps DEF ConnectReturns
  <2>3. connections'[Host[s]] \in Clients \cup {NoClient}
    BY <2>1, <2>2 DEF ManagerTypeOK
  <2>4. QED
    BY <1>3, <2>2, <2>3 DEF ConnectReturns, IInv, TypeOK
<1>4. ASSUME NEW s \in Sessions, DialReturns(s)
      PROVE  IInv'
  BY <1>4, DialKeeps DEF DialReturns, serviceVars, IInv, TypeOK
<1>5. ASSUME NEW s \in Sessions, ConnectFails(s)
      PROVE  IInv'
  BY <1>5, ReturnKeeps DEF ConnectFails, IInv, TypeOK
<1>6. ASSUME NEW s \in Sessions, HandleDisconnect(s)
      PROVE  IInv'
  <2>1. Host[s] \in HostKeys
    BY HostAssumption
  <2>2. ManagerTypeOK' /\ PooledForHost' /\ StoredForHost' /\ OneDialer' /\ OpenIsReachable'
    BY <1>6, <2>1, DisconnectKeeps DEF HandleDisconnect
  <2>3. holds' \in [Sessions -> Nat] /\ overtaken' \subseteq HostKeys
    BY <1>6, <2>1 DEF HandleDisconnect, IInv, TypeOK
  <2>4. QED
    BY <1>6, <2>2, <2>3 DEF HandleDisconnect, IInv, TypeOK
<1>7. CASE UNCHANGED vars
  BY <1>7, ManagerUnchanged DEF vars, managerVars, IInv, TypeOK
<1>8. QED
  BY <1>1, <1>2, <1>3, <1>4, <1>5, <1>6, <1>7 DEF Next

LEMMA InvariantIInv == Spec => []IInv
  BY InitIInv, NextIInv, PTL DEF Spec

(* However requests and their handlers interleave, the counts stay natural *)
(* numbers and every client is known by the host it was dialed for.        *)
THEOREM ServiceTyped == Spec => []TypeOK
  BY InvariantIInv, PTL DEF IInv

(* For any number of sessions and hosts, an open client can be reached and *)
(* closed, unless two dials of its host overlapped.                        *)
THEOREM ServiceOpenIsReachable == Spec => []OpenIsReachable
  BY InvariantIInv, PTL DEF IInv
-----------------------------------------------------------------------------
(* UsersShareOpenClient.  Shared says of a host without a race or an       *)
(* overtaken connect what its users rely on, and what a Connect that is    *)
(* under way relies on: an increment has loaded the count that still is    *)
(* the count, and what is about to be stored is open.                      *)
CallsOwnHost == \A s \in Sessions : call[s].at # "none" => call[s].key = Host[s]

Shared(k) ==
    /\ IsFiniteSet(References(k)) /\ refs[k] = Cardinality(References(k))
    /\ refs[k] > 0 <=> connections[k] # NoClient
    /\ connections[k] # NoClient => connections[k] \in open
    /\ \A s \in SessionsOf(k) : holds[s] > 0 => client[s] = connections[k]
    /\ \A s \in CallersAt({"count"}, k) :
          /\ call[s].n = refs[k] /\ connections[k] # NoClient
          /\ \A t \in CallersAt({"count"}, k) : t = s
    /\ \A s \in CallersAt({"store"}, k) : call[s].client \in open

Unspoiled == HostKeys \ (raced \cup overtaken)

SharedInv == CallsOwnHost /\ \A k \in Unspoiled : Shared(k)

(* The references of a host are counted by their number. *)
LEMMA NoReferences ==
    ASSUME TypeOK, NEW k, References(k) = {}
    PROVE  \A s \in SessionsOf(k) : holds[s] = 0
<1> SUFFICES ASSUME NEW s \in SessionsOf(k), holds[s] # 0
             PROVE  FALSE
  OBVIOUS
<1>1. holds[s] \in Nat /\ 1 \in 1..holds[s]
  BY DEF TypeOK, SessionsOf
<1>2. <<s, 1>> \in References(k)
  BY <1>1 DEF References
<1>3. QED
  BY <1>2

LEMMA ReferenceTaken ==
    ASSUME TypeOK, NEW k, NEW s \in SessionsOf(k), IsFiniteSet(References(k)),
           holds' = [holds EXCEPT ![s] = @ + 1]
    PROVE  /\ IsFiniteSet(References(k)')
           /\ Cardinality(References(k)') = Cardinality(References(k)) + 1
<1>1. /\ holds[s] \in Nat /\ holds'[s] = holds[s] + 1
      /\ \A t \in SessionsOf(k) : t # s => holds'[t] = holds[t]
  BY DEF TypeOK, SessionsOf
<1>2. 1..holds'[s] = 1..holds[s] \cup {holds[s] + 1}
  BY <1>1
<1>3. SessionsOf(k)' = SessionsOf(k)
  BY DEF SessionsOf
<1>4. References(k)' = References(k) \cup {<<s, holds[s] + 1>>}
  BY <1>1, <1>2, <1>3 DEF References
<1>5. <<s, holds[s] + 1>> \notin References(k)
  BY <1>1 DEF References
<1>6. QED
  BY <1>4, <1>5, FS_AddElement

LEMMA ReferenceGiven ==
    ASSUME TypeOK, NEW k, NEW s \in SessionsOf(k), IsFiniteSet(References(k)),
           holds[s] > 0, holds' = [holds EXCEPT ![s] = @ - 1]
    PROVE  /\ IsFiniteSet(References(k)')
           /\ Cardinality(References(k)') = Cardinality(References(k)) - 1
<1>1. /\ holds[s] \in Nat /\ holds'[s] = holds[s] - 1
      /\ \A t \in SessionsOf(k) : t # s => holds'[t] = holds[t]
  BY DEF TypeOK, SessionsOf
<1>2. 1..holds'[s] = (1..holds[s]) \ {holds[s]}
  BY <1>1
<1>3. SessionsOf(k)' = SessionsOf(k)
  BY DEF SessionsOf
<1>4. References(k)' = References(k) \ {<<s, holds[s]>>}
  BY <1>1, <1>2, <1>3 DEF References
<1>5. <<s, holds[s]>> \in References(k)
  BY <1>1 DEF References
<1>6. QED
  BY <1>4, <1>5, FS_RemoveElement

\* What a step of a session's handler does to hosts other than its own.
LEMMA OtherHost ==
    ASSUME IInv, CallsOwnHost, CallsOwnHost', NEW s \in Sessions,
           NEW k \in HostKeys, k # Host[s], Shared(k),
           connections'[k] = connections[k], refs'[k] = refs[k],
           \A t \in Sessions \ {s} :
               call'[t] = call[t] /\ holds'[t] = holds[t] /\ client'[t] = client[t],
           open \ {connections[Host[s]]} \subseteq open'
    PROVE  Shared(k)'
<1> USE DEF Sessions
<1>1. SessionsOf(k)' = SessionsOf(k) /\ s \notin SessionsOf(k)
  BY DEF SessionsOf
<1>2. \A t \in SessionsOf(k) : holds'[t] = holds[t] /\ client'[t] = client[t]
  BY <1>1 DEF SessionsOf
<1>3. References(k)' = References(k)
  BY <1>1, <1>2 DEF References
<1>4. /\ CallersAt({"count"}, k)' = CallersAt({"count"}, k)
      /\ CallersAt({"store"}, k)' = CallersAt({"store"}, k)
      /\ \A t \in CallersAt({"count", "store"}, k) : call'[t] = call[t]
  BY DEF CallersAt, CallsOwnHost
<1>5. Host[s] \in HostKeys
  BY HostAssumption
<1>6. connections[k] \in open => connections[k] \in open'
  BY <1>5, ManagerAssumption DEF IInv, TypeOK, ManagerTypeOK, PooledForHost
<1>7. \A t \in CallersAt({"store"}, k) : call[t].client \in open'
  BY <1>5, ManagerAssumption
  DEF IInv, TypeOK, ManagerTypeOK, PooledForHost, StoredForHost, Shared, CallersAt
<1>8. QED
  BY <1>1, <1>2, <1>3, <1>4, <1>6, <1>7 DEF Shared, CallersAt

\* A step of a session's handler, when its own host and the other hosts keep
\* what they have to keep.
LEMMA OneHostMoves ==
    ASSUME IInv, SharedInv, CallsOwnHost', NEW s \in Sessions,
           raced \subseteq raced', overtaken \subseteq overtaken',
           \A k \in HostKeys \ {Host[s]} :
               connections'[k] = connections[k] /\ refs'[k] = refs[k],
           \A t \in Sessions \ {s} :
               call'[t] = call[t] /\ holds'[t] = holds[t] /\ client'[t] = client[t],
           open \ {connections[Host[s]]} \subseteq open',
           Host[s] \in Unspoiled' => Shared(Host[s])'
    PROVE  SharedInv'
<1>1. ASSUME NEW k \in Unspoiled', k # Host[s]
      PROVE  Shared(k)'
  <2>1. k \in HostKeys /\ Shared(k)
    BY <1>1 DEF SharedInv, Unspoiled
  <2>2. QED
    BY <1>1, <2>1, OtherHost DEF SharedInv
<1>2. QED
  BY <1>1 DEF SharedInv

LEMMA NothingShared ==
    ASSUME SharedInv, UNCHANGED <<managerVars, holds, client, overtaken>>
    PROVE  SharedInv'
  BY DEF SharedInv, CallsOwnHost, Shared, Unspoiled, managerVars, References, SessionsOf,
         CallersAt

LEMMA HitShares ==
    ASSUME IInv, SharedInv, NEW s \in Sessions, ConnectHit(s, Host[s]),
           UNCHANGED <<holds, client, overtaken>>
    PROVE  SharedInv'
<1> USE DEF IInv, TypeOK, ManagerTypeOK, ConnectHit, Counting, NoCall, Sessions
<1> DEFINE k == Host[s]
<1>1. /\ call'[s] = [at |-> "count", key |-> k, n |-> refs[k]]
      /\ \A t \in Sessions : t # s => call'[t] = call[t]
      /\ UNCHANGED <<connections, refs, open>> /\ raced \subseteq raced'
      /\ call[s].at = "none" /\ connections[k] # NoClient
  OBVIOUS
<1>2. CallsOwnHost'
  BY <1>1 DEF SharedInv, CallsOwnHost
<1>3. ASSUME k \in Unspoiled'
      PROVE  Shared(k)'
  <2>1. Shared(k)
    BY <1>3 DEF SharedInv, Unspoiled
  <2>2. CallersAt({"count"}, k) = {}
    BY <1>3 DEF Unspoiled
  <2>3. /\ CallersAt({"count"}, k)' = {s}
        /\ CallersAt({"store"}, k)' = CallersAt({"store"}, k)
        /\ \A t \in CallersAt({"store"}, k) : call'[t] = call[t]
    BY <1>1, <2>2 DEF CallersAt
  <2>4. References(k)' = References(k) /\ SessionsOf(k)' = SessionsOf(k)
    BY DEF References, SessionsOf
  <2>5. QED
    BY <1>1, <2>1, <2>3, <2>4 DEF Shared
<1>4. QED
  BY <1>1, <1>2, <1>3, OneHostMoves

\* A call that is not counting begins to dial, fails to dial, or has dialed.
LEMMA DialShares ==
    ASSUME IInv, SharedInv, NEW s \in Sessions,
           \/ ConnectMiss(s, Host[s]) \/ DialFails(s)
           \/ \E c \in Clients : DialSucceeds(s, c),
           UNCHANGED <<holds, client, overtaken>>
    PROVE  SharedInv'
<1> USE DEF IInv, TypeOK, ManagerTypeOK, ConnectMiss, DialFails, DialSucceeds, Dialing,
            Storing, NoCall, Sessions
<1> DEFINE k == Host[s]
<1>1. /\ call[s].at \in {"none", "dial"}
      /\ call[s].at = "dial" => call[s].key = k
  <2>1. ConnectMiss(s, k) \/ call[s].at = "dial"
    OBVIOUS
  <2>2. QED
    BY <2>1 DEF SharedInv, CallsOwnHost
<1>2. /\ call'[s].at \in {"none", "dial", "store"}
      /\ call'[s].at # "none" => call'[s].key = k
      /\ call'[s].at = "store" => call'[s].client \in open'
  <2>1. CASE ConnectMiss(s, k)
    <3>1. call'[s] = [at |-> "dial", key |-> k]
      BY <2>1
    <3>2. QED
      BY <3>1
  <2>2. CASE DialFails(s)
    <3>1. call'[s] = [at |-> "none"]
      BY <2>2
    <3>2. QED
      BY <3>1
  <2>3. ASSUME NEW c \in Clients, DialSucceeds(s, c)
        PROVE  call'[s].at = "store" /\ call'[s].key = k /\ call'[s].client \in open'
    <3>1. call'[s] = [at |-> "store", key |-> k, client |-> c] /\ c \in open'
      BY <1>1, <2>3
    <3>2. QED
      BY <3>1
  <2> HIDE DEF DialSucceeds
  <2>4. CASE \E c \in Clients : DialSucceeds(s, c)
    BY <2>3, <2>4
  <2>5. QED
    BY <2>1, <2>2, <2>4
<1>3. /\ \A t \in Sessions : t # s => call'[t] = call[t]
      /\ UNCHANGED <<connections, refs>> /\ raced \subseteq raced' /\ open \subseteq open'
  OBVIOUS
<1>4. CallsOwnHost'
  BY <1>2, <1>3 DEF SharedInv, CallsOwnHost
<1>5. ASSUME k \in Unspoiled'
      PROVE  Shared(k)'
  <2>1. Shared(k)
    BY <1>3, <1>5 DEF SharedInv, Unspoiled
  <2>2. /\ CallersAt({"count"}, k)' = CallersAt({"count"}, k)
        /\ \A t \in CallersAt({"count"}, k) : call'[t] = call[t]
        /\ \A t \in CallersAt({"store"}, k)' : t = s \/ t \in CallersAt({"store"}, k)
    BY <1>1, <1>2, <1>3 DEF CallersAt
  <2>3. References(k)' = References(k) /\ SessionsOf(k)' = SessionsOf(k)
    BY DEF References, SessionsOf
  <2>4. \A t \in CallersAt({"store"}, k)' : call'[t].client \in open'
    BY <1>2, <1>3, <2>1, <2>2 DEF Shared, CallersAt
  <2>5. QED
    BY <1>3, <2>1, <2>2, <2>3, <2>4 DEF Shared
<1>6. QED
  BY <1>3, <1>4, <1>5, OneHostMoves

\* A Connect returns: its session has one more reference, to what the map has.
Joins(s) ==
    /\ ConnectCounted(s) \/ ConnectStore(s)
    /\ holds' = [holds EXCEPT ![s] = @ + 1]
    /\ client' = [client EXCEPT ![s] = connections'[Host[s]]]
    /\ UNCHANGED overtaken

LEMMA CountedShares ==
    ASSUME IInv, SharedInv, NEW s \in Sessions, ConnectCounted(s), Joins(s)
    PROVE  SharedInv'
<1> USE DEF IInv, TypeOK, ManagerTypeOK, ConnectCounted, Joins, NoCall, Sessions
<1> DEFINE k == Host[s]
<1>1. k \in HostKeys /\ call[s].key = k /\ s \in CallersAt({"count"}, k)
  BY HostAssumption DEF SharedInv, CallsOwnHost, CallersAt
<1>2. /\ UNCHANGED <<connections, open, raced, overtaken>>
      /\ call'[s].at = "none"
      /\ \A t \in Sessions : t # s => call'[t] = call[t]
      /\ refs'[k] = call[s].n + 1
      /\ \A j \in HostKeys \ {k} : refs'[j] = refs[j]
      /\ client'[s] = connections[k]
      /\ \A t \in Sessions \ {s} : holds'[t] = holds[t] /\ client'[t] = client[t]
  BY <1>1
<1>3. CallsOwnHost'
  BY <1>2 DEF SharedInv, CallsOwnHost
<1>4. ASSUME k \in Unspoiled'
      PROVE  Shared(k)'
  <2>1. Shared(k)
    BY <1>2, <1>4 DEF SharedInv, Unspoiled
  <2>2. /\ refs'[k] = refs[k] + 1 /\ connections[k] # NoClient
        /\ CallersAt({"count"}, k) = {s}
    BY <1>1, <1>2, <2>1 DEF Shared
  <2>3. /\ CallersAt({"count"}, k)' = {}
        /\ CallersAt({"store"}, k)' = CallersAt({"store"}, k)
        /\ \A t \in CallersAt({"store"}, k) : call'[t] = call[t]
    BY <1>2, <2>2 DEF CallersAt
  <2>4. s \in SessionsOf(k) /\ SessionsOf(k)' = SessionsOf(k)
    BY DEF SessionsOf
  <2>5. /\ IsFiniteSet(References(k)')
        /\ Cardinality(References(k)') = Cardinality(References(k)) + 1
    BY <2>1, <2>4, ReferenceTaken DEF Shared
  <2>6. \A t \in SessionsOf(k)' : holds'[t] > 0 => client'[t] = connections'[k]
    BY <1>2, <2>1, <2>4 DEF Shared, SessionsOf
  <2>7. refs[k] \in Nat
    BY <1>1
  <2>8. QED
    BY <1>2, <2>1, <2>2, <2>3, <2>5, <2>6, <2>7 DEF Shared
<1>5. QED
  BY <1>2, <1>3, <1>4, OneHostMoves

LEMMA StoreShares ==
    ASSUME IInv, SharedInv, NEW s \in Sessions, ConnectStore(s), Joins(s)
    PROVE  SharedInv'
<1> USE DEF IInv, TypeOK, ManagerTypeOK, ConnectStore, Joins, NoCall, Sessions
<1> DEFINE k == Host[s]
           c == call[s].client
<1>1. /\ k \in HostKeys /\ call[s].key = k /\ s \in CallersAt({"store"}, k)
      /\ s \in CallersAt({"dial", "store"}, k)
      /\ c \in Clients
  BY HostAssumption DEF SharedInv, CallsOwnHost, CallersAt, CallTypes
<1>2. /\ UNCHANGED <<open, raced, overtaken>>
      /\ call'[s].at = "none"
      /\ \A t \in Sessions : t # s => call'[t] = call[t]
      /\ refs'[k] = 1 /\ connections'[k] = c
      /\ \A j \in HostKeys \ {k} : refs'[j] = refs[j] /\ connections'[j] = connections[j]
      /\ client'[s] = connections'[k]
      /\ \A t \in Sessions \ {s} : holds'[t] = holds[t] /\ client'[t] = client[t]
      /\ WriteLockFree
  BY <1>1
<1>3. CallsOwnHost'
  BY <1>2 DEF SharedInv, CallsOwnHost
<1>4. ASSUME k \in Unspoiled'
      PROVE  Shared(k)'
  <2>1. Shared(k) /\ k \notin raced
    BY <1>2, <1>4 DEF SharedInv, Unspoiled
  <2>2. connections[k] = NoClient /\ \A t \in CallersAt({"dial", "store"}, k) : t = s
    BY <1>1, <2>1 DEF OneDialer
  <2>3. refs[k] = 0 /\ Cardinality(References(k)) = 0 /\ IsFiniteSet(References(k))
    BY <1>1, <2>1, <2>2 DEF Shared
  <2>4. References(k) = {}
    BY <2>3, FS_EmptySet
  <2>5. CallersAt({"count"}, k)' = {} /\ CallersAt({"store"}, k)' = {}
    BY <1>2, <2>2 DEF CallersAt, WriteLockFree
  <2>6. s \in SessionsOf(k) /\ SessionsOf(k)' = SessionsOf(k)
    BY DEF SessionsOf
  <2>7. IsFiniteSet(References(k)') /\ Cardinality(References(k)') = 1
    <3>1. TypeOK /\ holds' = [holds EXCEPT ![s] = @ + 1]
      OBVIOUS
    <3> HIDE DEF TypeOK, Joins, ConnectStore, IInv
    <3>2. /\ IsFiniteSet(References(k)')
          /\ Cardinality(References(k)') = Cardinality(References(k)) + 1
      BY <2>3, <2>6, <3>1, ReferenceTaken
    <3>3. QED
      BY <2>3, <3>2
  <2>8. \A t \in SessionsOf(k)' : holds'[t] > 0 => client'[t] = connections'[k]
    <3>1. \A t \in SessionsOf(k) : holds[t] = 0
      <4>1. TypeOK
        OBVIOUS
      <4> HIDE DEF TypeOK
      <4>2. QED
        BY <2>4, <4>1, NoReferences
    <3>2. TAKE t \in SessionsOf(k)'
    <3>3. CASE t = s
      BY <1>2, <3>3
    <3>4. CASE t # s
      BY <1>2, <2>6, <3>1, <3>4 DEF SessionsOf
    <3>5. QED
      BY <3>3, <3>4
  <2>9. c \in open'
    BY <1>1, <1>2, <2>1 DEF Shared
  <2>10. QED
    BY <1>1, <1>2, <2>5, <2>7, <2>8, <2>9, ManagerAssumption DEF Shared
<1>5. QED
  BY <1>2, <1>3, <1>4, OneHostMoves

(* A disconnect of a session with a reference closes the client with the   *)
(* last reference of the host, and only then.                              *)
LEMMA DisconnectShares ==
    ASSUME IInv, SharedInv, NEW s \in Sessions, HandleDisconnect(s)
    PROVE  SharedInv'
<1> USE DEF IInv, TypeOK, ManagerTypeOK, HandleDisconnect, Disconnect, Sessions
<1> DEFINE k == Host[s]
<1>1. k \in HostKeys /\ refs[k] \in Nat /\ holds[s] \in Nat
  BY HostAssumption
<1>2. /\ UNCHANGED <<call, raced, client>> /\ overtaken \subseteq overtaken'
      /\ \A j \in HostKeys \ {k} : refs'[j] = refs[j] /\ connections'[j] = connections[j]
      /\ \A t \in Sessions \ {s} : holds'[t] = holds[t]
      /\ open \ {connections[k]} \subseteq open'
      /\ WriteLockFree
  BY <1>1
<1>3. CallsOwnHost'
  BY <1>2 DEF SharedInv, CallsOwnHost
<1>4. ASSUME k \in Unspoiled'
      PROVE  Shared(k)'
  <2>1. Shared(k) /\ holds[s] > 0 /\ holds' = [holds EXCEPT ![s] = @ - 1]
    BY <1>1, <1>2, <1>4 DEF SharedInv, Unspoiled
  <2>2. s \in SessionsOf(k) /\ SessionsOf(k)' = SessionsOf(k)
    BY DEF SessionsOf
  <2>3. /\ IsFiniteSet(References(k)')
        /\ Cardinality(References(k)') = refs[k] - 1
    BY <2>1, <2>2, ReferenceGiven DEF Shared
  <2>4. Cardinality(References(k)') \in Nat
    BY <2>3, FS_CardinalityType
  <2>5. CallersAt({"count"}, k)' = {} /\ CallersAt({"store"}, k)' = CallersAt({"store"}, k)
    BY <1>2 DEF CallersAt, WriteLockFree
  <2>6. \A t \in CallersAt({"store"}, k) : call[t].client \in open'
    <3>1. refs[k] > 0
      BY <1>1, <2>3, <2>4
    <3>2. connections[k] # NoClient
      BY <2>1, <3>1 DEF Shared
    <3>3. k \notin raced
      BY <1>2, <1>4 DEF Unspoiled
    <3>4. CallersAt({"store"}, k) = {}
      BY <1>1, <3>2, <3>3 DEF OneDialer, CallersAt
    <3>5. QED
      BY <3>4
  <2>7. CASE refs[k] <= 1
    <3>1. connections'[k] = NoClient /\ refs'[k] = 0
      BY <1>1, <2>7
    <3>2. Cardinality(References(k)') = 0
      BY <1>1, <2>3, <2>4, <2>7
    <3>3. References(k)' = {}
      BY <2>3, <3>2, FS_EmptySet
    <3>4. \A t \in SessionsOf(k)' : ~(holds'[t] > 0)
      <4>1. holds' \in [Sessions -> Nat]
        BY <1>1, <2>1
      <4>2. ASSUME NEW t \in SessionsOf(k)', holds'[t] > 0
            PROVE  FALSE
        <5>1. holds'[t] \in Nat /\ 1 \in 1..holds'[t]
          BY <2>2, <4>1, <4>2 DEF SessionsOf
        <5>2. <<t, 1>> \in References(k)'
          BY <4>2, <5>1 DEF References
        <5>3. QED
          BY <3>3, <5>2
      <4>3. QED
        BY <4>2
    <3>5. QED
      BY <1>2, <2>3, <2>5, <2>6, <3>1, <3>2, <3>4 DEF Shared
  <2>8. CASE ~(refs[k] <= 1)
    <3>1. refs'[k] = refs[k] - 1 /\ UNCHANGED <<connections, open>> /\ refs'[k] > 0
      BY <1>1, <2>8
    <3>2. \A t \in SessionsOf(k)' : holds'[t] > 0 => client'[t] = connections'[k]
      BY <1>2, <2>1, <2>2, <3>1 DEF Shared, SessionsOf
    <3>3. connections[k] # NoClient
      BY <1>1, <2>1, <2>8 DEF Shared
    <3>4. QED
      BY <1>2, <2>1, <2>3, <2>5, <2>6, <3>1, <3>2, <3>3 DEF Shared
  <2>9. QED
    BY <2>7, <2>8
<1>5. QED
  BY <1>2, <1>3, <1>4, OneHostMoves

LEMMA NextShared == IInv /\ SharedInv /\ [Next]_vars => SharedInv'
<1> SUFFICES ASSUME IInv, SharedInv, [Next]_vars
             PROVE  SharedInv'
  OBVIOUS
<1>1. ASSUME NEW s \in Sessions, ConnectReturns(s)
      PROVE  SharedInv'
  <2>1. Joins(s)
    BY <1>1 DEF ConnectReturns, Joins
  <2>2. QED
    BY <1>1, <2>1, CountedShares, StoreShares DEF ConnectReturns
<1>2. ASSUME NEW s \in Sessions,
             HandleConnect(s) \/ DialReturns(s) \/ ConnectFails(s)
      PROVE  SharedInv'
  BY <1>2, HitShares, DialShares DEF HandleConnect, DialReturns, ConnectFails, serviceVars
<1>3. ASSUME NEW s \in Sessions, RequestConnect(s) \/ RequestDisconnect(s)
      PROVE  SharedInv'
  BY <1>3, NothingShared DEF RequestConnect, RequestDisconnect
<1>4. CASE UNCHANGED vars
  BY <1>4, NothingShared DEF vars, managerVars
<1>5. QED
  BY <1>1, <1>2, <1>3, <1>4, DisconnectShares DEF Next

LEMMA InitShared == Init => SharedInv
<1> SUFFICES ASSUME Init
             PROVE  SharedInv
  OBVIOUS
<1>1. ASSUME NEW k \in HostKeys
      PROVE  Shared(k)
  <2>1. \A s \in SessionsOf(k) : 1..holds[s] = {}
    BY DEF Init, SessionsOf
  <2>2. References(k) = {}
    BY <2>1 DEF References
  <2>3. QED
    BY <2>2, FS_EmptySet
    DEF Init, ManagerInit, Shared, CallersAt, NoCall, Sessions, SessionsOf
<1>2. QED
  BY <1>1 DEF Init, ManagerInit, SharedInv, CallsOwnHost, Unspoiled, NoCall, Sessions

(* For any number of sessions, hosts and clients: on a host where neither  *)
(* two dials or increments overlapped nor a disconnect was handled before  *)
(* its connect, the users have one open client, the one in the map, and    *)
(* their number is its count.                                              *)
THEOREM ServiceUsersShareOpenClient == Spec => []UsersShareOpenClient
<1>1. IInv /\ SharedInv => UsersShareOpenClient
  <2> SUFFICES ASSUME IInv, SharedInv, NEW k \in HostKeys \ (raced \cup overtaken)
               PROVE  /\ refs[k] = Cardinality(References(k))
                      /\ \A s \in SessionsOf(k) : holds[s] > 0 =>
                            client[s] = connections[k] /\ client[s] \in open
    BY DEF UsersShareOpenClient
  <2>1. Shared(k)
    BY DEF SharedInv, Unspoiled
  <2>2. ASSUME NEW s \in SessionsOf(k), holds[s] > 0
        PROVE  connections[k] # NoClient
    <3>1. References(k) # {}
      <4>1. 1 \in 1..holds[s]
        BY <2>2 DEF IInv, TypeOK, SessionsOf
      <4>2. <<s, 1>> \in References(k)
        BY <4>1 DEF References
      <4>3. QED
        BY <4>2
    <3>2. Cardinality(References(k)) # 0
      BY <2>1, <3>1, FS_EmptySet DEF Shared
    <3>3. refs[k] > 0
      BY <2>1, <3>2 DEF Shared, IInv, TypeOK, ManagerTypeOK
    <3>4. QED
      BY <2>1, <3>3 DEF Shared
  <2>3. QED
    BY <2>1, <2>2 DEF Shared
<1>2. QED
  BY <1>1, InitShared, NextShared, InvariantIInv, PTL DEF Spec
-----------------------------------------------------------------------------
(* The refinement.  On each host the service is a pool of shared           *)
(* connections: a store is where somebody brings a client, the end of an   *)
(* increment where somebody joins, and a disconnect where somebody leaves. *)

\* Two stores under way are of two clients.
StoredOnce == \A s, t \in Sessions :
    call[s].at = "store" /\ call[t].at = "store" /\ call[s].client = call[t].client => s = t

\* Whoever stores tomorrow stores today, but for who has just dialed.
NoneBegins == \A t \in Sessions : call'[t].at = "store" => call'[t] = call[t]

LEMMA NextStoredOnce == IInv /\ StoredOnce /\ [Next]_vars => StoredOnce'
<1> SUFFICES ASSUME IInv, StoredOnce, [Next]_vars
             PROVE  StoredOnce'
  OBVIOUS
<1> USE DEF IInv, TypeOK, ManagerTypeOK, Sessions
<1>1. ASSUME NoneBegins PROVE StoredOnce'
  BY <1>1 DEF StoredOnce, NoneBegins
<1>2. ASSUME NEW s \in Sessions, RequestConnect(s) \/ RequestDisconnect(s) \/ HandleDisconnect(s)
      PROVE  call' = call
  BY <1>2 DEF RequestConnect, RequestDisconnect, HandleDisconnect, Disconnect, managerVars
<1>3. ASSUME NEW s \in Sessions, HandleConnect(s) \/ ConnectReturns(s) \/ ConnectFails(s)
      PROVE  NoneBegins
  <2>1. PICK r \in {"none", "count", "dial"} :
          call'[s].at = r /\ \A t \in Sessions : t # s => call'[t] = call[t]
    BY <1>3 DEF HandleConnect, ConnectReturns, ConnectFails, ConnectHit, ConnectMiss, ConnectCounted,
                ConnectStore, DialFails, NoCall, Counting, Dialing
  <2>2. QED
    BY <2>1 DEF NoneBegins
<1>4. ASSUME NEW s \in Sessions, NEW c \in Clients, DialSucceeds(s, c)
      PROVE  StoredOnce'
  <2>1. /\ c \notin DOMAIN dialedFor /\ call'[s].at = "store" /\ call'[s].client = c
        /\ \A t \in Sessions : t # s => call'[t] = call[t]
    BY <1>4 DEF DialSucceeds, Storing
  <2>2. \A t \in Sessions : call[t].at = "store" => call[t].client # c
    BY <2>1 DEF StoredForHost
  <2>3. QED
    BY <2>1, <2>2 DEF StoredOnce
<1>5. CASE UNCHANGED vars
  BY <1>5 DEF vars, StoredOnce
<1>6. NoneBegins \/ \E s \in Sessions, c \in Clients : DialSucceeds(s, c)
  <2>1. call' = call => NoneBegins
    BY DEF NoneBegins
  <2>2. QED
    BY <1>2, <1>3, <1>5, <2>1 DEF Next, DialReturns, vars
<1>7. QED
  BY <1>1, <1>4, <1>6

\* What a host's users see of a step that is not about their host.
LEMMA NothingSeen ==
    ASSUME NEW k, connections'[k] = connections[k], References(k)' = References(k),
           BroughtIn(k)' = BroughtIn(k), \A c \in BroughtIn(k) : c \in open' <=> c \in open
    PROVE  UNCHANGED SharedOn(k)!sharedVars
<1>1. (BroughtIn(k) \ open)' = BroughtIn(k) \ open
  OBVIOUS
<1>2. [j \in {k} |-> connections[k]]' = [j \in {k} |-> connections[k]]
  OBVIOUS
<1>3. QED
  BY <1>1, <1>2 DEF SharedOn!sharedVars

\* Calls that are not about to store bring nothing in.
LEMMA NothingBrought ==
    ASSUME IInv, NEW k, NEW s \in Sessions, UNCHANGED dialedFor,
           \A t \in Sessions : t # s => call'[t] = call[t],
           call[s].at # "store", call'[s].at # "store"
    PROVE  BroughtIn(k)' = BroughtIn(k)
  BY DEF BroughtIn

LEMMA DialBringsNothing ==
    ASSUME IInv, NEW k \in HostKeys, NEW s \in Sessions, NEW c \in Clients, DialSucceeds(s, c)
    PROVE  BroughtIn(k)' = BroughtIn(k) /\ c \notin BroughtIn(k)
<1> USE DEF IInv, TypeOK, ManagerTypeOK, Sessions
<1>1. /\ c \notin DOMAIN dialedFor /\ call'[s].at = "store" /\ call'[s].client = c
      /\ \A t \in Sessions : t # s => call'[t] = call[t]
      /\ DOMAIN dialedFor' = DOMAIN dialedFor \cup {c}
      /\ \A d \in DOMAIN dialedFor : dialedFor'[d] = dialedFor[d]
      /\ call[s].at = "dial"
  BY DEF DialSucceeds, Storing
<1>2. c \notin BroughtIn(k) /\ c \notin BroughtIn(k)'
  BY <1>1 DEF BroughtIn
<1>3. ASSUME NEW d, d # c
      PROVE  d \in BroughtIn(k)' <=> d \in BroughtIn(k)
  <2>1. d \in DOMAIN dialedFor' <=> d \in DOMAIN dialedFor
    BY <1>1, <1>3
  <2>2. ASSUME NEW t \in Sessions
        PROVE  (call'[t].at = "store" /\ call'[t].client = d) <=>
               (call[t].at = "store" /\ call[t].client = d)
    BY <1>1, <1>3
  <2>3. QED
    BY <1>1, <2>1, <2>2 DEF BroughtIn
<1>4. \A d : d \in BroughtIn(k)' <=> d \in BroughtIn(k)
  BY <1>2, <1>3
<1>5. QED
  BY <1>2, <1>4, Zenon

\* What a store brings in, on its host and on the others.
LEMMA StoreBrings ==
    ASSUME IInv, StoredOnce, CallsOwnHost, NEW k \in HostKeys, NEW s \in Sessions, ConnectStore(s)
    PROVE  /\ call[s].client \notin BroughtIn(k)
           /\ BroughtIn(k)' = IF k = Host[s] THEN BroughtIn(k) \cup {call[s].client} ELSE BroughtIn(k)
<1> USE DEF IInv, TypeOK, ManagerTypeOK, Sessions
<1> DEFINE c == call[s].client
<1>1. /\ call[s].at = "store" /\ call'[s].at = "none" /\ dialedFor' = dialedFor
      /\ \A t \in Sessions : t # s => call'[t] = call[t]
      /\ c \in DOMAIN dialedFor /\ dialedFor[c] = Host[s]
  BY DEF ConnectStore, NoCall, StoredForHost, CallsOwnHost
<1>2. c \notin BroughtIn(k)
  BY <1>1 DEF BroughtIn
<1>3. \A t \in Sessions : call'[t].at = "store" => call'[t].client # c
  BY <1>1 DEF StoredOnce
<1>4. c \in BroughtIn(k)' <=> k = Host[s]
  BY <1>1, <1>3 DEF BroughtIn
<1>5. ASSUME NEW d, d # c
      PROVE  d \in BroughtIn(k)' <=> d \in BroughtIn(k)
  <2>1. ASSUME NEW t \in Sessions
        PROVE  (call'[t].at = "store" /\ call'[t].client = d) <=>
               (call[t].at = "store" /\ call[t].client = d)
    BY <1>1, <1>5
  <2>2. QED
    BY <1>1, <2>1 DEF BroughtIn
<1> HIDE DEF c
<1>6. BroughtIn(k)' = IF k = Host[s] THEN BroughtIn(k) \cup {c} ELSE BroughtIn(k)
  <2>1. CASE k = Host[s]
    <3>1. \A d : d \in BroughtIn(k)' <=> d \in BroughtIn(k) \cup {c}
      BY <1>4, <1>5, <2>1
    <3>2. QED
      BY <2>1, <3>1, Zenon
  <2>2. CASE k # Host[s]
    <3>1. \A d : d \in BroughtIn(k)' <=> d \in BroughtIn(k)
      BY <1>2, <1>4, <1>5, <2>2
    <3>2. QED
      BY <2>2, <3>1, Zenon
  <2>3. QED
    BY <2>1, <2>2
<1>7. QED
  BY <1>2, <1>6 DEF c

LEMMA SameReferences ==
    ASSUME NEW k, \A t \in SessionsOf(k) : holds'[t] = holds[t]
    PROVE  References(k)' = References(k)
  BY DEF References, SessionsOf

\* A host's connection belongs to it, and is not one that is about to be stored.
LEMMA PooledWasBrought ==
    ASSUME IInv, CallsOwnHost, NEW k \in HostKeys \ raced, connections[k] # NoClient
    PROVE  connections[k] \in BroughtIn(k)
<1>1. connections[k] \in DOMAIN dialedFor /\ dialedFor[connections[k]] = k
  BY DEF IInv, PooledForHost
<1>2. ASSUME NEW t \in Sessions, call[t].at = "store", call[t].client = connections[k]
      PROVE  FALSE
  <2>1. call[t].key = k
    BY <1>1, <1>2 DEF IInv, StoredForHost
  <2>2. t \in CallersAt({"dial", "store"}, k)
    BY <1>2, <2>1 DEF CallersAt, Sessions
  <2>3. QED
    BY <2>2 DEF IInv, OneDialer
<1>3. QED
  BY <1>1, <1>2 DEF BroughtIn

LEMMA ConnectSeen ==
    ASSUME IInv, NEW k \in HostKeys, NEW s \in Sessions,
           HandleConnect(s) \/ ConnectFails(s) \/ DialReturns(s)
    PROVE  UNCHANGED SharedOn(k)!sharedVars
<1> USE DEF IInv, TypeOK, ManagerTypeOK, Sessions
<1>1. connections' = connections /\ holds' = holds
  BY DEF HandleConnect, ConnectFails, DialReturns, ConnectHit, ConnectMiss, DialFails, DialSucceeds,
         serviceVars
<1>2. References(k)' = References(k)
  BY <1>1, SameReferences
<1>3. CASE HandleConnect(s) \/ ConnectFails(s)
  <2>1. /\ UNCHANGED <<dialedFor, open>> /\ call[s].at # "store" /\ call'[s].at # "store"
        /\ \A t \in Sessions : t # s => call'[t] = call[t]
    BY <1>3 DEF HandleConnect, ConnectFails, ConnectHit, ConnectMiss, DialFails, NoCall, Counting,
                Dialing
  <2>2. BroughtIn(k)' = BroughtIn(k)
    BY <2>1, NothingBrought
  <2>3. QED
    BY <1>1, <1>2, <2>1, <2>2, NothingSeen
<1>4. ASSUME NEW c \in Clients, DialSucceeds(s, c)
      PROVE  UNCHANGED SharedOn(k)!sharedVars
  <2>1. BroughtIn(k)' = BroughtIn(k) /\ c \notin BroughtIn(k)
    BY <1>4, DialBringsNothing
  <2>2. \A d \in BroughtIn(k) : d \in open' <=> d \in open
    BY <1>4, <2>1 DEF DialSucceeds
  <2>3. QED
    BY <1>1, <1>2, <2>1, <2>2, NothingSeen
<1>5. QED
  BY <1>3, <1>4 DEF DialReturns

LEMMA CountedSeen ==
    ASSUME IInv, SharedInv, NEW k \in Unspoiled, NEW s \in Sessions, ConnectCounted(s), Joins(s)
    PROVE  [SharedOn(k)!Next]_(SharedOn(k)!sharedVars)
<1> USE DEF IInv, TypeOK, ManagerTypeOK, Sessions
<1>1. /\ UNCHANGED <<connections, dialedFor, open>> /\ k \in HostKeys
      /\ call[s].at = "count" /\ call[s].key = Host[s] /\ call'[s].at = "none"
      /\ \A t \in Sessions : t # s => call'[t] = call[t] /\ holds'[t] = holds[t]
  BY DEF ConnectCounted, Joins, NoCall, SharedInv, CallsOwnHost, Unspoiled
<1>2. BroughtIn(k)' = BroughtIn(k)
  BY <1>1, NothingBrought
<1>3. CASE k = Host[s]
  <2>1. Shared(k) /\ s \in CallersAt({"count"}, k) /\ s \in SessionsOf(k)
    BY <1>1, <1>3 DEF SharedInv, CallersAt, SessionsOf
  <2>2. refs[k] = Cardinality(References(k)) /\ refs[k] > 0 /\ IsFiniteSet(References(k))
    BY <2>1 DEF Shared
  <2>3. Cardinality(References(k)') = Cardinality(References(k)) + 1
    BY <2>1, <2>2, ReferenceTaken DEF Joins
  <2> DEFINE u == Cardinality(References(k))
  <2>4. u' = u + 1 /\ u > 0
    BY <2>2, <2>3
  <2>5. (BroughtIn(k) \ open)' = BroughtIn(k) \ open
    BY <1>1, <1>2
  <2> HIDE DEF u
  <2>6. SharedOn(k)!Join(k)
    BY <1>1, <1>2, <2>4, <2>5 DEF SharedOn!Join, u
  <2>7. QED
    BY <2>6 DEF SharedOn!Next
<1>4. CASE k # Host[s]
  <2>1. References(k)' = References(k)
    BY <1>1, <1>4, SameReferences DEF SessionsOf
  <2>2. QED
    BY <1>1, <1>2, <2>1, NothingSeen
<1>5. QED
  BY <1>3, <1>4

LEMMA StoreSeen ==
    ASSUME IInv, SharedInv, StoredOnce, NEW k \in Unspoiled, NEW s \in Sessions,
           ConnectStore(s), Joins(s)
    PROVE  [SharedOn(k)!Next]_(SharedOn(k)!sharedVars)
<1> USE DEF IInv, TypeOK, ManagerTypeOK, Sessions
<1> DEFINE c == call[s].client
<1>1. /\ UNCHANGED <<dialedFor, open>> /\ k \in HostKeys
      /\ call[s].at = "store" /\ call[s].key = Host[s] /\ c \in Clients
      /\ connections' = [connections EXCEPT ![Host[s]] = c]
      /\ \A t \in Sessions : t # s => holds'[t] = holds[t]
  <2>1. call[s].at = "store" /\ call[s].key = Host[s]
    BY DEF ConnectStore, SharedInv, CallsOwnHost
  <2>2. c \in Clients
    BY <2>1 DEF CallTypes, NoCall
  <2>3. k \in HostKeys
    BY DEF Unspoiled
  <2>4. QED
    BY <2>1, <2>2, <2>3 DEF ConnectStore, Joins
<1>2. /\ c \notin BroughtIn(k)
      /\ BroughtIn(k)' = IF k = Host[s] THEN BroughtIn(k) \cup {c} ELSE BroughtIn(k)
  BY <1>1, StoreBrings DEF SharedInv
<1> HIDE DEF c
<1>3. CASE k = Host[s]
  <2>1. /\ Shared(k) /\ s \in CallersAt({"store"}, k) /\ s \in CallersAt({"dial", "store"}, k)
        /\ s \in SessionsOf(k) /\ k \in HostKeys \ raced
    BY <1>1, <1>3 DEF SharedInv, CallersAt, SessionsOf, Unspoiled
  <2>2. connections[k] = NoClient
    BY <2>1 DEF OneDialer
  <2>3. Cardinality(References(k)) = 0 /\ IsFiniteSet(References(k))
    BY <1>1, <2>1, <2>2 DEF Shared
  <2>4. Cardinality(References(k)') = Cardinality(References(k)) + 1
    BY <2>1, <2>3, ReferenceTaken DEF Joins
  <2>5. c \in open
    BY <2>1 DEF Shared, c
  <2>6. (BroughtIn(k) \ open)' = BroughtIn(k) \ open
    BY <1>1, <1>2, <1>3, <2>5
  <2> DEFINE u == Cardinality(References(k))
  <2>7. u' = u + 1 /\ u = 0 /\ connections'[k] = c
    BY <1>1, <1>3, <2>3, <2>4
  <2> HIDE DEF u
  <2>8. SharedOn(k)!Offer(k, c)
    BY <1>2, <1>3, <2>6, <2>7 DEF SharedOn!Offer, u
  <2>9. QED
    BY <1>1, <2>8 DEF SharedOn!Next
<1>4. CASE k # Host[s]
  <2>1. References(k)' = References(k)
    BY <1>1, <1>4, SameReferences DEF SessionsOf
  <2>2. connections'[k] = connections[k]
    BY <1>1, <1>4
  <2>3. QED
    BY <1>1, <1>2, <1>4, <2>1, <2>2, NothingSeen
<1>5. QED
  BY <1>3, <1>4

LEMMA DisconnectSeen ==
    ASSUME IInv, SharedInv, NEW k \in Unspoiled, k \notin overtaken', NEW s \in Sessions,
           HandleDisconnect(s)
    PROVE  [SharedOn(k)!Next]_(SharedOn(k)!sharedVars)
<1> USE DEF IInv, TypeOK, ManagerTypeOK, Sessions
<1> DEFINE h == Host[s]
<1>1. h \in HostKeys /\ k \in HostKeys /\ refs[h] \in Nat /\ holds[s] \in Nat
  BY HostAssumption DEF Unspoiled
<1>2. /\ UNCHANGED <<call, dialedFor>>
      /\ connections' = IF refs[h] <= 1 THEN [connections EXCEPT ![h] = NoClient] ELSE connections
      /\ open' = IF refs[h] <= 1 THEN open \ {connections[h]} ELSE open
      /\ \A t \in Sessions \ {s} : holds'[t] = holds[t]
  BY DEF HandleDisconnect, Disconnect
<1>3. BroughtIn(k)' = BroughtIn(k)
  BY <1>2 DEF BroughtIn
<1>4. CASE k = h
  <2>1. holds[s] > 0 /\ holds' = [holds EXCEPT ![s] = @ - 1]
    BY <1>1, <1>4 DEF HandleDisconnect
  <2>2. Shared(k) /\ s \in SessionsOf(k)
    BY <1>4 DEF SharedInv, SessionsOf
  <2>3. /\ Cardinality(References(k)') = Cardinality(References(k)) - 1
        /\ IsFiniteSet(References(k)')
    BY <2>1, <2>2, ReferenceGiven DEF Shared
  <2>4. Cardinality(References(k)') \in Nat
    BY <2>3, FS_CardinalityType
  <2> DEFINE u == Cardinality(References(k))
  <2>5. u \in Nat /\ u > 0 /\ u' = u - 1 /\ u = refs[k]
    BY <1>1, <1>4, <2>2, <2>3, <2>4 DEF Shared
  <2>6. connections[k] # NoClient /\ connections[k] \in BroughtIn(k)
    <3>1. connections[k] # NoClient
      BY <2>2, <2>5 DEF Shared
    <3>2. QED
      BY <3>1, PooledWasBrought DEF SharedInv, Unspoiled
  <2> HIDE DEF u
  <2>7. CASE u = 1
    <3>1. /\ connections'[k] = NoClient
          /\ (BroughtIn(k) \ open)' = (BroughtIn(k) \ open) \cup {connections[k]}
      BY <1>1, <1>2, <1>3, <1>4, <2>5, <2>6, <2>7
    <3>2. SharedOn(k)!Leave(k)
      BY <1>3, <2>5, <2>7, <3>1 DEF SharedOn!Leave, u
    <3>3. QED
      BY <3>2 DEF SharedOn!Next
  <2>8. CASE u # 1
    <3>1. connections' = connections /\ open' = open
      BY <1>2, <1>4, <2>5, <2>8
    <3>2. (BroughtIn(k) \ open)' = BroughtIn(k) \ open
      BY <1>3, <3>1
    <3>3. SharedOn(k)!Leave(k)
      BY <1>3, <2>5, <2>8, <3>1, <3>2 DEF SharedOn!Leave, u
    <3>4. QED
      BY <3>3 DEF SharedOn!Next
  <2>9. QED
    BY <2>7, <2>8
<1>5. CASE k # h
  <2>1. References(k)' = References(k)
    BY <1>2, <1>5, SameReferences DEF SessionsOf
  <2>2. connections'[k] = connections[k]
    BY <1>2, <1>5
  <2>3. \A c \in BroughtIn(k) : c # connections[h]
    BY <1>1, <1>5, ManagerAssumption DEF BroughtIn, PooledForHost
  <2>4. QED
    BY <1>2, <1>3, <2>1, <2>2, <2>3, NothingSeen
<1>6. QED
  BY <1>4, <1>5

LEMMA StepSeen ==
    ASSUME IInv, SharedInv, StoredOnce, [Next]_vars, NEW k \in HostKeys \ (raced \cup overtaken')
    PROVE  [SharedOn(k)!Next]_(SharedOn(k)!sharedVars)
<1>1. CASE UNCHANGED vars
  <2>1. References(k)' = References(k)
    BY <1>1, SameReferences DEF vars
  <2>2. BroughtIn(k)' = BroughtIn(k)
    BY <1>1 DEF vars, BroughtIn
  <2>3. connections' = connections /\ open' = open
    BY <1>1 DEF vars
  <2>4. QED
    BY <2>1, <2>2, <2>3, NothingSeen
<1>2. ASSUME NEW s \in Sessions, RequestConnect(s) \/ RequestDisconnect(s)
      PROVE  UNCHANGED SharedOn(k)!sharedVars
  <2>1. UNCHANGED managerVars /\ UNCHANGED holds
    BY <1>2 DEF RequestConnect, RequestDisconnect
  <2>2. connections' = connections /\ open' = open /\ BroughtIn(k)' = BroughtIn(k)
    BY <2>1 DEF managerVars, BroughtIn
  <2>3. References(k)' = References(k)
    BY <2>1, SameReferences
  <2>4. QED
    BY <2>2, <2>3, NothingSeen
<1>3. ASSUME NEW s \in Sessions, ConnectReturns(s)
      PROVE  [SharedOn(k)!Next]_(SharedOn(k)!sharedVars)
  <2>1. Joins(s) /\ overtaken' = overtaken
    BY <1>3 DEF ConnectReturns, Joins
  <2>2. k \in Unspoiled
    BY <2>1 DEF Unspoiled
  <2>3. QED
    BY <1>3, <2>1, <2>2, CountedSeen, StoreSeen DEF ConnectReturns
<1>4. ASSUME NEW s \in Sessions, HandleDisconnect(s)
      PROVE  [SharedOn(k)!Next]_(SharedOn(k)!sharedVars)
  <2>1. overtaken \subseteq overtaken'
    BY <1>4 DEF HandleDisconnect
  <2>2. k \in Unspoiled /\ k \notin overtaken'
    BY <2>1 DEF Unspoiled
  <2>3. QED
    BY <1>4, <2>2, DisconnectSeen
<1>5. ASSUME NEW s \in Sessions, HandleConnect(s) \/ ConnectFails(s) \/ DialReturns(s)
      PROVE  UNCHANGED SharedOn(k)!sharedVars
  BY <1>5, ConnectSeen
<1>6. QED
  BY <1>1, <1>2, <1>3, <1>4, <1>5 DEF Next

LEMMA InitSeen ==
    ASSUME Init, NEW k \in HostKeys
    PROVE  SharedOn(k)!Init
<1>1. BroughtIn(k) = {}
  BY DEF Init, ManagerInit, BroughtIn
<1>2. \A s \in SessionsOf(k) : 1..holds[s] = {}
  BY DEF Init, SessionsOf
<1>3. References(k) = {}
  BY <1>2 DEF References
<1>4. Cardinality(References(k)) = 0
  BY <1>3, FS_EmptySet
<1>5. QED
  BY <1>1, <1>4 DEF SharedOn!Init, Init, ManagerInit

(* For any sessions, hosts and clients, and whatever happens on the other  *)
(* hosts: until two dials or increments of a host overlap, or a disconnect *)
(* of it is handled before its connect, its sessions are users of one      *)
(* shared client, which the last of them and nobody before closes.         *)
THEOREM ServiceImplementsShared == Spec => ImplementsShared
<1>1. Init => StoredOnce /\ \A k \in HostKeys : SharedOn(k)!Init
  BY InitSeen DEF Init, ManagerInit, StoredOnce, NoCall, Sessions
<1>2. IInv /\ SharedInv /\ StoredOnce /\ [Next]_vars =>
        \A k \in HostKeys \ (raced \cup overtaken') :
            [SharedOn(k)!Next]_(SharedOn(k)!sharedVars)
  BY StepSeen
<1>3. QED
  BY <1>1, <1>2, InitShared, NextShared, NextStoredOnce, InvariantIInv, PTL
  DEF Spec, ImplementsShared
=============================================================================
