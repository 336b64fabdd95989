--------------------------- MODULE SessionsProofs ---------------------------
(***************************************************************************)
(* SessionManager's invariants, for every set of sessions, hosts, clients  *)
(* and goroutines.  ConnectedIsPooled is not inductive: that a session has *)
(* its reference must survive the steps in which it is not "connected".    *)
(* IInv counts instead, per host, the sessions that own one reference      *)
(* (Claimants), and relates every goroutine's statement to the locks and   *)
(* to the half-done increments (CallInv).                                  *)
(***************************************************************************)
EXTENDS Sessions, ConnectionPoolProofs, FiniteSetTheorems

Shapes == { <<"none", "idle">>,
            <<"connect", "get">>, <<"connect", "store">>, <<"connect", "save">>,
            <<"connect", "saving">>,
            <<"disconnect", "lock">>, <<"disconnect", "release">>,
            <<"disconnect", "mark">>,
            <<"delete", "check">>, <<"delete", "lock">>, <<"delete", "release">>,
            <<"delete", "mark">>, <<"delete", "remove">>, <<"delete", "unlink">>,
            <<"client", "check">>, <<"client", "get">>, <<"client", "store">> }

\* What a goroutine's statement says of the locks it holds.
Shape(p) ==
    /\ <<op[p], pc[p]>> \in Shapes
    /\ pc[p] # "idle" => arg[p] \in Ids
    /\ mu = p <=> (op[p] = "connect" \/ pc[p] \in {"release", "mark"})
    /\ reading[p].at = "get" <=> pc[p] = "store"
    /\ pc[p] = "store" => reading[p].key = Host(p)
    /\ storeMu.by = p <=> At(p, "connect", "saving")

CallInv == \A p \in Procs : Shape(p)

\* s owns a reference: it is connected, or about to give its reference back.
Owns(s) ==
    /\ s \notin restored
    /\ \/ state[s] = "connected" /\ ~Disconnecting(s)
       \/ \E p \in Procs : pc[p] = "release" /\ arg[p] = s

Claimants(k) == {s \in Ids : HostOf[s] = k /\ Owns(s)}

Unspoiled(k) == k \notin raced \cup stolen

\* The count covers the sessions that own a reference.
Cover == \A k \in HostKeys : Unspoiled(k) => Cardinality(Claimants(k)) <= refs[k]

IInv == TypeOK /\ PoolInv /\ CallInv /\ Cover

-----------------------------------------------------------------------------
(* A goroutine inside a call works on a session, and its host is a key of  *)
(* the pool.                                                               *)
LEMMA InCall ==
    ASSUME TypeOK, CallInv, NEW p \in Procs, pc[p] # "idle"
    PROVE  arg[p] \in Ids /\ Host(p) \in HostKeys
  BY SessionsAssumption DEF CallInv, Shape, Host

(* What the pool's operations keep, SessionManager's use of them keeps. *)
LEMMA NextPool == IInv /\ [Next]_vars => PoolInv'
<1> SUFFICES ASSUME IInv, [Next]_vars
             PROVE  PoolInv'
  OBVIOUS
<1> USE DEF IInv
<1>1. CASE UNCHANGED poolVars
  BY <1>1, PoolStutter
<1>2. ASSUME NEW p \in Procs, Continue(p)
      PROVE  PoolInv'
  <2>1. CASE ConnectLoad(p) \/ ClientLoad(p)
    <3>1. Host(p) \in HostKeys /\ GetLoad(p, Host(p))
      BY <2>1, InCall DEF ConnectLoad, ClientLoad, At
    <3>2. QED
      BY <3>1, GetLoadInv
  <2>2. CASE ConnectStore(p) \/ ClientStore(p)
    BY <2>2, GetStoreInv DEF ConnectStore, ClientStore
  <2>3. CASE DisconnectRelease(p)
    <3>1. Host(p) \in HostKeys /\ ReleaseConnection(Host(p))
      BY <2>3, InCall DEF DisconnectRelease
    <3>2. QED
      BY <3>1, ReleaseConnectionInv
  <2>4. CASE ConnectMiss(p) \/ ClientMiss(p)
    BY <2>4, <1>1 DEF ConnectMiss, ClientMiss, GetMiss
  <2>5. QED
    BY <1>1, <1>2, <2>1, <2>2, <2>3, <2>4
    DEF Continue, ConnectSave, DisconnectLock, DisconnectMark,
        DeleteCheck, DeleteRemove, DeleteUnlink, ClientCheck
<1>3. ASSUME NEW k \in HostKeys, NEW c \in Clients, ProvideClient(k, c)
      PROVE  PoolInv'
  BY <1>3, SetConnectionInv DEF ProvideClient
<1>4. CASE Restart
  <2>1. /\ connections' = [k \in HostKeys |-> NoClient]
        /\ refs' = [k \in HostKeys |-> 0]
        /\ reading' = [p \in Procs |-> Outside]
        /\ closed' = dialed /\ dialed' = dialed /\ raced' = {}
        /\ dialed \subseteq Clients
    BY <1>4 DEF Restart, Listed, LoadedState, PoolInv, PoolTypeOK
  <2>2. QED
    BY <2>1, PoolAssumption
    DEF PoolInv, PoolTypeOK, PoolConsistent, ClosedWereDialed, PooledOnce,
        GetterSeesEntry, AloneUnlessRaced, Pooled, GettersOf, Outside
<1>5. QED
  BY <1>1, <1>2, <1>3, <1>4
  DEF Next, vars, poolVars, CreateSession, Call, ConnectSession, DisconnectSession,
      DeleteSession, GetSSHClient, Store, SaveEnd, SaveFails, SaveBegin, Worker,
      WorkerList, WorkerCheck, WorkerMark

-----------------------------------------------------------------------------
\* The step leaves goroutine q where it is, with the locks it had.
Unmoved(q) ==
    /\ op'[q] = op[q] /\ arg'[q] = arg[q] /\ pc'[q] = pc[q]
    /\ reading'[q] = reading[q]
    /\ mu' = q <=> mu = q
    /\ storeMu'.by = q <=> storeMu.by = q

LEMMA UnmovedShape ==
    ASSUME CallInv, NEW q \in Procs, Unmoved(q)
    PROVE  Shape(q)'
  BY DEF CallInv, Shape, Unmoved, At, Host

\* A step of p: the others do not move and p is left in a shape.
LEMMA OneMoves ==
    ASSUME CallInv, NEW p \in Procs, Shape(p)',
           \A q \in Procs \ {p} : Unmoved(q)
    PROVE  CallInv'
  BY UnmovedShape DEF CallInv

LEMMA NoneMoves ==
    ASSUME CallInv, \A q \in Procs : Unmoved(q)
    PROVE  CallInv'
  BY UnmovedShape DEF CallInv

(* The steps of ConnectSession. *)
LEMMA ConnectCalls ==
    ASSUME TypeOK, CallInv, NEW p \in Procs,
           \/ \E s \in Ids : ConnectSession(p, s)
           \/ ConnectMiss(p) \/ ConnectLoad(p) \/ ConnectStore(p)
           \/ ConnectSave(p)
    PROVE  CallInv'
<1> USE SessionsAssumption DEF TypeOK, PoolTypeOK, At, Goto, Return
<1>0. Shape(p) /\ \A q \in Procs \ {p} : Shape(q)
  BY DEF CallInv
<1>1. CASE \E s \in Ids : ConnectSession(p, s)
  <2>1. Shape(p)'
    BY <1>0, <1>1 DEF ConnectSession, Begin, poolVars, storeVars, Shape, Shapes
  <2>2. \A q \in Procs \ {p} : Unmoved(q)
    BY <1>0, <1>1 DEF ConnectSession, Begin, poolVars, storeVars, Unmoved, Shape
  <2>3. QED
    BY <2>1, <2>2, OneMoves
<1>2. CASE ConnectMiss(p)
  <2>1. Shape(p)'
    BY <1>0, <1>2 DEF ConnectMiss, GetMiss, poolVars, storeVars, Shape, Shapes
  <2>2. \A q \in Procs \ {p} : Unmoved(q)
    BY <1>0, <1>2 DEF ConnectMiss, GetMiss, poolVars, storeVars, Unmoved, Shape
  <2>3. QED
    BY <2>1, <2>2, OneMoves
<1>3. CASE ConnectLoad(p)
  <2>1. Shape(p)'
    BY <1>0, <1>3 DEF ConnectLoad, GetLoad, InGet, storeVars, Shape, Shapes, Host
  <2>2. \A q \in Procs \ {p} : Unmoved(q)
    BY <1>0, <1>3 DEF ConnectLoad, GetLoad, storeVars, Unmoved, Shape
  <2>3. QED
    BY <2>1, <2>2, OneMoves
<1>4. CASE ConnectStore(p)
  <2>1. Shape(p)'
    BY <1>0, <1>4 DEF ConnectStore, GetStore, Outside, storeVars, Shape, Shapes
  <2>2. \A q \in Procs \ {p} : Unmoved(q)
    BY <1>0, <1>4 DEF ConnectStore, GetStore, storeVars, Unmoved, Shape
  <2>3. QED
    BY <2>1, <2>2, OneMoves
<1>5. CASE ConnectSave(p)
  <2>1. Shape(p)'
    BY <1>0, <1>5 DEF ConnectSave, Saving, poolVars, Shape, Shapes
  <2>2. \A q \in Procs \ {p} : Unmoved(q)
    BY <1>0, <1>5 DEF ConnectSave, Saving, StoreFree, poolVars, Unmoved, Shape
  <2>3. QED
    BY <2>1, <2>2, OneMoves
<1>6. QED
  BY <1>1, <1>2, <1>3, <1>4, <1>5

(* The steps of DisconnectSession and DeleteSession. *)
LEMMA DisconnectCalls ==
    ASSUME TypeOK, CallInv, NEW p \in Procs,
           \/ \E s \in Ids : DisconnectSession(p, s) \/ DeleteSession(p, s)
           \/ DisconnectLock(p) \/ DisconnectRelease(p) \/ DisconnectMark(p)
           \/ DeleteCheck(p) \/ DeleteRemove(p) \/ DeleteUnlink(p)
    PROVE  CallInv'
<1> USE SessionsAssumption DEF TypeOK, PoolTypeOK, At, Goto, Return, AfterDisconnect
<1>0. Shape(p) /\ \A q \in Procs \ {p} : Shape(q)
  BY DEF CallInv
<1>1. CASE \E s \in Ids : DisconnectSession(p, s) \/ DeleteSession(p, s)
  <2>1. Shape(p)'
    BY <1>0, <1>1 DEF DisconnectSession, DeleteSession, Begin, poolVars, storeVars,
                      Shape, Shapes
  <2>2. \A q \in Procs \ {p} : Unmoved(q)
    BY <1>0, <1>1 DEF DisconnectSession, DeleteSession, Begin, poolVars, storeVars,
                      Unmoved, Shape
  <2>3. QED
    BY <2>1, <2>2, OneMoves
<1>2. CASE DisconnectLock(p)
  <2>1. Shape(p)'
    BY <1>0, <1>2 DEF DisconnectLock, poolVars, storeVars, Shape, Shapes
  <2>2. \A q \in Procs \ {p} : Unmoved(q)
    BY <1>0, <1>2 DEF DisconnectLock, poolVars, storeVars, Unmoved, Shape
  <2>3. QED
    BY <2>1, <2>2, OneMoves
<1>3. CASE DisconnectRelease(p)
  <2>1. Shape(p)'
    BY <1>0, <1>3 DEF DisconnectRelease, ReleaseConnection, storeVars, Shape, Shapes
  <2>2. \A q \in Procs \ {p} : Unmoved(q)
    BY <1>0, <1>3 DEF DisconnectRelease, ReleaseConnection, storeVars, Unmoved, Shape
  <2>3. QED
    BY <2>1, <2>2, OneMoves
<1>4. CASE DisconnectMark(p)
  <2>1. Shape(p)'
    BY <1>0, <1>4 DEF DisconnectMark, poolVars, storeVars, Shape, Shapes
  <2>2. \A q \in Procs \ {p} : Unmoved(q)
    BY <1>0, <1>4 DEF DisconnectMark, poolVars, storeVars, Unmoved, Shape
  <2>3. QED
    BY <2>1, <2>2, OneMoves
<1>5. CASE DeleteCheck(p) \/ DeleteRemove(p) \/ DeleteUnlink(p)
  <2>1. Shape(p)'
    BY <1>0, <1>5 DEF DeleteCheck, DeleteRemove, DeleteUnlink, poolVars, storeVars,
                      Shape, Shapes
  <2>2. \A q \in Procs \ {p} : Unmoved(q)
    BY <1>0, <1>5 DEF DeleteCheck, DeleteRemove, DeleteUnlink, poolVars, storeVars,
                      Unmoved, Shape
  <2>3. QED
    BY <2>1, <2>2, OneMoves
<1>6. QED
  BY <1>1, <1>2, <1>3, <1>4, <1>5

(* The steps of GetSSHClient. *)
LEMMA ClientCalls ==
    ASSUME TypeOK, CallInv, NEW p \in Procs,
           \/ \E s \in Ids : GetSSHClient(p, s)
           \/ ClientCheck(p) \/ ClientMiss(p) \/ ClientLoad(p) \/ ClientStore(p)
    PROVE  CallInv'
<1> USE SessionsAssumption DEF TypeOK, PoolTypeOK, At, Goto, Return
<1>0. Shape(p) /\ \A q \in Procs \ {p} : Shape(q)
  BY DEF CallInv
<1>1. CASE (\E s \in Ids : GetSSHClient(p, s)) \/ ClientCheck(p) \/ ClientMiss(p)
  <2>1. Shape(p)'
    BY <1>0, <1>1 DEF GetSSHClient, Begin, ClientCheck, ClientMiss, GetMiss,
                      poolVars, storeVars, Shape, Shapes
  <2>2. \A q \in Procs \ {p} : Unmoved(q)
    BY <1>0, <1>1 DEF GetSSHClient, Begin, ClientCheck, ClientMiss, GetMiss,
                      poolVars, storeVars, Unmoved, Shape
  <2>3. QED
    BY <2>1, <2>2, OneMoves
<1>2. CASE ClientLoad(p)
  <2>1. Shape(p)'
    BY <1>0, <1>2 DEF ClientLoad, GetLoad, InGet, storeVars, Shape, Shapes, Host
  <2>2. \A q \in Procs \ {p} : Unmoved(q)
    BY <1>0, <1>2 DEF ClientLoad, GetLoad, storeVars, Unmoved, Shape
  <2>3. QED
    BY <2>1, <2>2, OneMoves
<1>3. CASE ClientStore(p)
  <2>1. Shape(p)'
    BY <1>0, <1>3 DEF ClientStore, GetStore, Outside, storeVars, Shape, Shapes
  <2>2. \A q \in Procs \ {p} : Unmoved(q)
    BY <1>0, <1>3 DEF ClientStore, GetStore, storeVars, Unmoved, Shape
  <2>3. QED
    BY <2>1, <2>2, OneMoves
<1>4. QED
  BY <1>1, <1>2, <1>3

(* A save that ends returns to the ConnectSession that waits for it. *)
LEMMA SaveCalls ==
    ASSUME TypeOK, CallInv, SaveEnd \/ SaveFails
    PROVE  CallInv'
<1> USE SessionsAssumption DEF TypeOK, PoolTypeOK, Return
<1>1. /\ storeMu # StoreFree
      /\ storeMu' = StoreFree
      /\ SaveReturns
      /\ UNCHANGED reading
  BY DEF SaveEnd, SaveFails, poolVars
<1>2. CASE storeMu.by = Async
  <2>1. \A q \in Procs : Unmoved(q)
    BY <1>1, <1>2 DEF SaveReturns, callVars, Unmoved, StoreFree
  <2>2. QED
    BY <2>1, NoneMoves
<1>3. ASSUME NEW p \in Procs, storeMu.by = p
      PROVE  CallInv'
  <2>1. Shape(p) /\ \A q \in Procs \ {p} : Shape(q)
    BY DEF CallInv
  <2>2. Shape(p)'
    BY <1>1, <1>3, <2>1 DEF SaveReturns, StoreFree, Shape, Shapes, At
  <2>3. \A q \in Procs \ {p} : Unmoved(q)
    BY <1>1, <1>3, <2>1 DEF SaveReturns, StoreFree, Unmoved, Shape, At
  <2>4. QED
    BY <2>2, <2>3, OneMoves
<1>4. storeMu.by = Async \/ storeMu.by \in Procs
  BY <1>1
<1>5. QED
  BY <1>2, <1>3, <1>4

(* Every goroutine keeps to its calls and its locks. *)
LEMMA NextCalls == TypeOK /\ CallInv /\ [Next]_vars => CallInv'
<1> SUFFICES ASSUME TypeOK, CallInv, [Next]_vars
             PROVE  CallInv'
  OBVIOUS
<1>1. ASSUME NEW p \in Procs, Continue(p) \/ \E s \in Ids : Call(p, s)
      PROVE  CallInv'
  BY <1>1, ConnectCalls, DisconnectCalls, ClientCalls DEF Continue, Call
<1>2. CASE SaveEnd \/ SaveFails
  BY <1>2, SaveCalls
<1>3. CASE \/ \E s \in Ids : CreateSession(s) \/ SaveBegin(s)
           \/ \E k \in HostKeys, c \in Clients : ProvideClient(k, c)
           \/ Worker
           \/ UNCHANGED vars
  <2>1. /\ UNCHANGED <<callVars, mu, reading>>
        /\ storeMu' = storeMu \/ (storeMu = StoreFree /\ storeMu'.by = Async)
    BY <1>3 DEF CreateSession, SaveBegin, Saving, ProvideClient, SetConnection, Worker,
                WorkerList, WorkerCheck, WorkerMark, vars, poolVars, callVars, storeVars
  <2>2. \A q \in Procs : Unmoved(q)
    BY <2>1, SessionsAssumption DEF callVars, Unmoved, StoreFree
  <2>3. QED
    BY <2>2, NoneMoves
<1>4. CASE Restart
  <2>1. ASSUME NEW p \in Procs
        PROVE  Shape(p)'
    BY <1>4, SessionsAssumption
    DEF Restart, Listed, LoadedState, Shape, Shapes, At, StoreFree, Outside
  <2>2. QED
    BY <2>1 DEF CallInv
<1>5. QED
  BY <1>1, <1>2, <1>3, <1>4 DEF Next, Store

-----------------------------------------------------------------------------
(* The variables keep their types. *)
LEMMA NextType == IInv /\ [Next]_vars => TypeOK'
<1> SUFFICES ASSUME IInv, [Next]_vars
             PROVE  TypeOK'
  OBVIOUS
<1>1. PoolTypeOK' /\ TypeOK /\ CallInv
  BY NextPool DEF PoolInv, IInv
<1> USE SessionsAssumption
    DEF TypeOK, States, Steps, Calls, callVars, storeVars, workVars, histVars
<1>2. ASSUME NEW p \in Procs, NEW s \in Ids, Call(p, s)
      PROVE  TypeOK'
  BY <1>1, <1>2 DEF Call, ConnectSession, DisconnectSession, DeleteSession,
                    GetSSHClient, Begin
<1>3. ASSUME NEW p \in Procs, Continue(p)
      PROVE  TypeOK'
  <2> USE DEF Goto, Return
  <2>1. arg[p] \in Ids /\ Host(p) \in HostKeys
    <3>1. pc[p] # "idle"
      BY <1>3 DEF Continue, ConnectMiss, ConnectLoad, ConnectStore, ConnectSave,
                  DisconnectLock, DisconnectRelease, DisconnectMark,
                  DeleteCheck, DeleteRemove, DeleteUnlink, ClientCheck, ClientMiss,
                  ClientLoad, ClientStore, At
    <3>2. QED
      BY <1>1, <3>1, InCall
  <2>2. CASE ConnectMiss(p) \/ ConnectLoad(p) \/ ConnectStore(p)
    BY <1>1, <2>1, <2>2 DEF ConnectMiss, ConnectLoad, ConnectStore
  <2>3. CASE ConnectSave(p)
    <3>1. storeMu' \in [by : Procs \cup {Async}, id : Ids, state : States, err : BOOLEAN]
      BY <1>1, <2>1, <2>3 DEF ConnectSave, Saving
    <3>2. QED
      BY <1>1, <2>1, <2>3, <3>1 DEF ConnectSave
  <2>4. CASE DisconnectLock(p) \/ DisconnectRelease(p) \/ DisconnectMark(p)
    BY <1>1, <2>1, <2>4 DEF DisconnectLock, DisconnectRelease, DisconnectMark,
                            AfterDisconnect
  <2>5. CASE DeleteCheck(p) \/ DeleteRemove(p) \/ DeleteUnlink(p)
    BY <1>1, <2>1, <2>5 DEF DeleteCheck, DeleteRemove, DeleteUnlink
  <2>6. CASE ClientCheck(p) \/ ClientMiss(p) \/ ClientLoad(p) \/ ClientStore(p)
    BY <1>1, <2>1, <2>6 DEF ClientCheck, ClientMiss, ClientLoad, ClientStore
  <2>7. QED
    BY <1>3, <2>2, <2>3, <2>4, <2>5, <2>6 DEF Continue
<1>4. ASSUME NEW s \in Ids, SaveBegin(s)
      PROVE  TypeOK'
  <2>1. storeMu' \in [by : Procs \cup {Async}, id : Ids, state : States, err : BOOLEAN]
    BY <1>1, <1>4 DEF SaveBegin, Saving
  <2>2. QED
    BY <1>1, <1>4, <2>1 DEF SaveBegin
<1>5. CASE SaveEnd \/ SaveFails
  <2>1. /\ storeMu.id \in Ids /\ storeMu.state \in States
        /\ storeMu.by \in Procs \cup {Async}
    BY <1>1, <1>5 DEF SaveEnd, SaveFails
  <2>2. QED
    BY <1>1, <1>5, <2>1 DEF SaveEnd, SaveFails, SaveReturns, Return
<1>6. CASE Worker \/ UNCHANGED vars
  BY <1>1, <1>6 DEF Worker, WorkerList, WorkerCheck, WorkerMark, vars
<1>7. ASSUME NEW s \in Ids, CreateSession(s)
      PROVE  TypeOK'
  BY <1>1, <1>7 DEF CreateSession
<1>8. ASSUME NEW k \in HostKeys, NEW c \in Clients, ProvideClient(k, c)
      PROVE  TypeOK'
  BY <1>1, <1>8 DEF ProvideClient
<1>9. CASE Restart
  <2>1. state' \in [Ids -> States] /\ errored' \subseteq Ids /\ restored' \subseteq Ids
    BY <1>1, <1>9 DEF Restart, Listed, LoadedState
  <2>2. registered' \subseteq Ids
    BY <1>1, <1>9 DEF Restart, Listed, LoadedState
  <2>3. restarts' \in 0..MaxRestarts
    BY <1>1, <1>9 DEF Restart, Listed, LoadedState
  <2>4. QED
    BY <1>1, <1>9, <2>1, <2>2, <2>3 DEF Restart, Listed, LoadedState
<1>10. QED
  BY <1>2, <1>3, <1>4, <1>5, <1>6, <1>7, <1>8, <1>9 DEF Next, Store

-----------------------------------------------------------------------------
(* Sets of sessions are finite, so they can be counted. *)
LEMMA CountIsNat ==
    ASSUME NEW S \in SUBSET Ids
    PROVE  IsFiniteSet(S) /\ Cardinality(S) \in Nat
  BY SessionsAssumption, FS_Subset, FS_CardinalityType

LEMMA CountGrows ==
    ASSUME NEW S \in SUBSET Ids, NEW T \in SUBSET S
    PROVE  Cardinality(T) <= Cardinality(S)
  BY CountIsNat, FS_Subset

\* At DisconnectSession's release or right after it.
Releasing == {"release", "mark"}

\* No goroutine enters or leaves the release of a reference.
NoRelease ==
    \A q \in Procs :
        \/ pc'[q] = pc[q] /\ arg'[q] = arg[q]
        \/ pc[q] \notin Releasing /\ pc'[q] \notin Releasing

\* Only ConnectStore makes a session connected.
NoneConnects == \A s \in Ids : state'[s] = "connected" => state[s] = "connected"

\* The counts that still mean something do not go down.
CountsStay ==
    \A k \in HostKeys : Unspoiled(k)' => Unspoiled(k) /\ refs[k] <= refs'[k]

(* Where the owners do not grow and the counts do not shrink, the counts   *)
(* still cover the owners.                                                 *)
LEMMA CoverKept ==
    ASSUME TypeOK, TypeOK', Cover, CountsStay,
           \A s \in Ids : Owns(s)' => Owns(s)
    PROVE  Cover'
<1> SUFFICES ASSUME NEW k \in HostKeys, Unspoiled(k)'
             PROVE  Cardinality(Claimants(k)') <= refs'[k]
  BY DEF Cover
<1>1. Claimants(k)' \subseteq Claimants(k) /\ Claimants(k) \subseteq Ids
  BY DEF Claimants
<1>2. /\ Cardinality(Claimants(k)') <= Cardinality(Claimants(k))
      /\ Cardinality(Claimants(k)) \in Nat /\ Cardinality(Claimants(k)') \in Nat
  BY <1>1, CountGrows, CountIsNat
<1>3. Cardinality(Claimants(k)) <= refs[k] /\ refs[k] <= refs'[k]
  BY DEF Cover, CountsStay
<1>4. refs[k] \in Nat /\ refs'[k] \in Nat
  BY DEF TypeOK, PoolTypeOK
<1>5. QED
  BY <1>2, <1>3, <1>4

LEMMA QuietOwns ==
    ASSUME NoRelease, NoneConnects, restored \subseteq restored', NEW s \in Ids, Owns(s)'
    PROVE  Owns(s)
  BY DEF NoRelease, NoneConnects, Releasing, Owns, Disconnecting

(* Whoever is inside the release of a reference holds m.mu: he is alone. *)
LEMMA ReleaserHoldsMu ==
    ASSUME CallInv, NEW q \in Procs, pc[q] \in Releasing
    PROVE  mu = q
  BY DEF CallInv, Shape, Releasing

(* The reference that GetStore counts: it adds one, on a key without race. *)
LEMMA StoreCounts ==
    ASSUME TypeOK, PoolInv, CallInv, NEW p \in Procs, pc[p] = "store", GetStore(p)
    PROVE  /\ Host(p) \in HostKeys
           /\ \A k \in HostKeys : refs[k] \in Nat /\ refs'[k] \in Nat
           /\ \A k \in HostKeys \ raced :
                refs'[k] = IF k = Host(p) THEN refs[k] + 1 ELSE refs[k]
<1>1. reading[p].key = Host(p) /\ Host(p) \in HostKeys
  BY InCall DEF CallInv, Shape
<1>2. QED
  BY <1>1, GetStoreInv DEF PoolInv, PoolTypeOK

(* The sessions that own a reference stay covered: ConnectStore adds one   *)
(* owner and one count, DisconnectRelease takes one of each.               *)
LEMMA ConnectStoreCover ==
    ASSUME IInv, TypeOK', CallInv', NEW p \in Procs, ConnectStore(p)
    PROVE  Cover'
<1> DEFINE t == arg[p]
<1> USE DEF IInv
<1>1. /\ pc[p] = "store" /\ GetStore(p) /\ t \in Ids
      /\ UNCHANGED <<raced, stolen>>
      /\ \/ pc' = [pc EXCEPT ![p] = "save"] /\ UNCHANGED arg
         \/ pc' = [pc EXCEPT ![p] = "idle"] /\ arg' = [arg EXCEPT ![p] = NoId]
      /\ state' = [state EXCEPT ![t] = "connected"]
      /\ restored' = restored \ {t}
  BY InCall DEF ConnectStore, GetStore, At, Goto, Return
<1>2. NoRelease
  BY <1>1 DEF NoRelease, Releasing, TypeOK
<1>3. ASSUME NEW s \in Ids, s # t, Owns(s)'
      PROVE  Owns(s)
  BY <1>1, <1>2, <1>3 DEF NoRelease, Releasing, Owns, Disconnecting, TypeOK
<1>4. SUFFICES ASSUME NEW k \in HostKeys, Unspoiled(k)'
               PROVE  Cardinality(Claimants(k)') <= refs'[k]
  BY DEF Cover
<1>5. k \notin raced /\ Cardinality(Claimants(k)) <= refs[k]
  BY <1>1, <1>4 DEF Unspoiled, Cover
<1>6. refs[k] \in Nat /\ refs'[k] = IF k = HostOf[t] THEN refs[k] + 1 ELSE refs[k]
  BY <1>1, <1>5, StoreCounts DEF Host
<1>7. /\ Claimants(k) \in SUBSET Ids /\ Claimants(k)' \in SUBSET Ids
      /\ Claimants(k) \cup {t} \in SUBSET Ids
  BY <1>1 DEF Claimants
<1>8. IsFiniteSet(Claimants(k)) /\ Cardinality(Claimants(k)) \in Nat
      /\ Cardinality(Claimants(k)') \in Nat
  BY <1>7, CountIsNat
<1>9. CASE k = HostOf[t]
  <2>1. Claimants(k)' \in SUBSET (Claimants(k) \cup {t})
    BY <1>3 DEF Claimants
  <2>2. Cardinality(Claimants(k)') <= Cardinality(Claimants(k) \cup {t})
    BY <1>7, <2>1, CountGrows
  <2>3. Cardinality(Claimants(k) \cup {t}) =
          IF t \in Claimants(k) THEN Cardinality(Claimants(k))
                               ELSE Cardinality(Claimants(k)) + 1
    BY <1>8, FS_AddElement, Zenon
  <2>4. Cardinality(Claimants(k) \cup {t}) \in Nat
    BY <1>7, CountIsNat
  <2>5. QED
    BY <1>5, <1>6, <1>8, <1>9, <2>2, <2>3, <2>4
<1>10. CASE k # HostOf[t]
  <2>1. Claimants(k)' \in SUBSET Claimants(k)
    BY <1>3, <1>10 DEF Claimants
  <2>2. Cardinality(Claimants(k)') <= Cardinality(Claimants(k))
    BY <1>7, <2>1, CountGrows
  <2>3. QED
    BY <1>5, <1>6, <1>8, <1>10, <2>2
<1>11. QED
  BY <1>9, <1>10

LEMMA DisconnectReleaseCover ==
    ASSUME IInv, TypeOK', CallInv', NEW p \in Procs, DisconnectRelease(p)
    PROVE  Cover'
<1> DEFINE t == arg[p]
<1> USE DEF IInv
<1>1. /\ pc[p] = "release" /\ ReleaseConnection(HostOf[t])
      /\ t \in Ids /\ HostOf[t] \in HostKeys
      /\ UNCHANGED <<raced, arg, state, restored>>
      /\ pc' = [pc EXCEPT ![p] = "mark"]
      /\ stolen' = IF t \in restored THEN stolen \cup {HostOf[t]} ELSE stolen
  BY InCall DEF DisconnectRelease, ReleaseConnection, Goto, Host
<1>2. \A q \in Procs : q # p => pc[q] \notin Releasing /\ pc'[q] \notin Releasing
  BY <1>1, ReleaserHoldsMu DEF Releasing, TypeOK
<1>3. pc'[p] = "mark" /\ arg'[p] = t
  BY <1>1 DEF TypeOK
<1>4. ASSUME NEW s \in Ids, s = t
      PROVE  ~Owns(s)'
  BY <1>1, <1>2, <1>3, <1>4 DEF Releasing, Owns, Disconnecting
<1>5. ASSUME NEW s \in Ids, Owns(s)'
      PROVE  Owns(s) /\ s # t
  <2>1. s # t
    BY <1>4, <1>5
  <2>2. ~Disconnecting(s)
    BY <1>1, <1>2 DEF Releasing, Disconnecting
  <2>3. s \notin restored /\ state[s] = "connected"
    BY <1>1, <1>2, <1>3, <1>5, <2>1 DEF Releasing, Owns
  <2>4. QED
    BY <2>1, <2>2, <2>3 DEF Owns
<1>6. SUFFICES ASSUME NEW k \in HostKeys, Unspoiled(k)'
               PROVE  Cardinality(Claimants(k)') <= refs'[k]
  BY DEF Cover
<1>7. Unspoiled(k) /\ Cardinality(Claimants(k)) <= refs[k]
  BY <1>1, <1>6 DEF Unspoiled, Cover
<1>8. /\ Claimants(k) \in SUBSET Ids
      /\ Claimants(k)' \in SUBSET (Claimants(k) \ {t})
      /\ Claimants(k) \ {t} \in SUBSET Ids
  BY <1>5 DEF Claimants
<1>9. /\ IsFiniteSet(Claimants(k)) /\ Cardinality(Claimants(k)) \in Nat
      /\ Cardinality(Claimants(k) \ {t}) \in Nat
      /\ Cardinality(Claimants(k)') \in Nat
      /\ Cardinality(Claimants(k)') <= Cardinality(Claimants(k) \ {t})
  <2>1. Claimants(k)' \in SUBSET Ids
    BY <1>8
  <2>2. QED
    BY <1>8, <2>1, CountIsNat, CountGrows
<1>10. refs[k] \in Nat /\ refs'[k] =
         IF k # HostOf[t] THEN refs[k] ELSE IF refs[k] = 0 THEN 0 ELSE refs[k] - 1
  BY <1>1, ReleaseConnectionInv DEF TypeOK, PoolTypeOK
<1>11. CASE k = HostOf[t]
  <2>1. t \in Claimants(k)
    BY <1>1, <1>6, <1>11 DEF Unspoiled, Claimants, Owns
  <2>2. Cardinality(Claimants(k) \ {t}) = Cardinality(Claimants(k)) - 1
    BY <1>9, <2>1, FS_RemoveElement
  <2>3. QED
    BY <1>7, <1>9, <1>10, <1>11, <2>2
<1>12. CASE k # HostOf[t]
  <2>1. Cardinality(Claimants(k) \ {t}) <= Cardinality(Claimants(k))
    BY <1>8, CountGrows
  <2>2. QED
    BY <1>7, <1>9, <1>10, <1>12, <2>1
<1>13. QED
  BY <1>11, <1>12

(* The other steps of a goroutine: no owner is added, no count taken. *)
LEMMA QuietCover ==
    ASSUME IInv, TypeOK', NEW p \in Procs,
           \/ \E s \in Ids : Call(p, s)
           \/ ConnectMiss(p) \/ ConnectLoad(p) \/ ConnectSave(p)
           \/ DeleteCheck(p) \/ DeleteRemove(p) \/ DeleteUnlink(p)
           \/ ClientCheck(p) \/ ClientMiss(p) \/ ClientLoad(p) \/ ClientStore(p)
    PROVE  Cover'
<1> USE DEF IInv
<1>1. restored' = restored /\ stolen' = stolen /\ raced \subseteq raced'
  BY DEF Call, ConnectSession, DisconnectSession, DeleteSession, GetSSHClient,
         ConnectMiss, ConnectLoad, ConnectSave, DeleteCheck,
         DeleteRemove, DeleteUnlink, ClientCheck, ClientMiss, ClientLoad, ClientStore,
         GetMiss, GetLoad, GetStore, poolVars, histVars
<1>2. NoneConnects
  BY DEF Call, ConnectSession, DisconnectSession, DeleteSession, GetSSHClient,
         ConnectMiss, ConnectLoad, ConnectSave, DeleteCheck,
         DeleteRemove, DeleteUnlink, ClientCheck, ClientMiss, ClientLoad, ClientStore,
         NoneConnects, TypeOK
<1>3. NoRelease
  BY DEF Call, ConnectSession, DisconnectSession, DeleteSession, GetSSHClient, Begin,
         ConnectMiss, ConnectLoad, ConnectSave, DeleteCheck,
         DeleteRemove, DeleteUnlink, ClientCheck, ClientMiss, ClientLoad, ClientStore,
         At, Goto, Return, NoRelease, Releasing, TypeOK
<1>4. CountsStay
  <2>1. CASE ClientStore(p)
    BY <1>1, <2>1, StoreCounts DEF ClientStore, At, CountsStay, Unspoiled
  <2>2. CASE UNCHANGED refs
    BY <1>1, <2>2 DEF CountsStay, Unspoiled, TypeOK, PoolTypeOK
  <2>3. QED
    BY <2>1, <2>2
    DEF Call, ConnectSession, DisconnectSession, DeleteSession, GetSSHClient,
        ConnectMiss, ConnectLoad, ConnectSave, DeleteCheck,
        DeleteRemove, DeleteUnlink, ClientCheck, ClientMiss, ClientLoad,
        GetMiss, GetLoad, poolVars
<1>5. QED
  BY <1>1, <1>2, <1>3, <1>4, QuietOwns, CoverKept

(* DisconnectLock lets in an owner, DisconnectMark lets go of a session    *)
(* that owns nothing any more.                                             *)
LEMMA DisconnectCover ==
    ASSUME IInv, TypeOK', NEW p \in Procs, DisconnectLock(p) \/ DisconnectMark(p)
    PROVE  Cover'
<1> USE DEF IInv
<1>1. UNCHANGED <<refs, raced, stolen, restored>>
  BY DEF DisconnectLock, DisconnectMark, poolVars, histVars
<1>2. CountsStay
  BY <1>1 DEF CountsStay, Unspoiled, TypeOK, PoolTypeOK
<1>3. ASSUME NEW s \in Ids, Owns(s)'
      PROVE  Owns(s)
  <2>1. \A q \in Procs : q # p => pc'[q] = pc[q] /\ arg'[q] = arg[q]
    BY DEF DisconnectLock, DisconnectMark, AfterDisconnect, Goto, Return, TypeOK
  <2>2. CASE DisconnectLock(p)
    <3>1. \A q \in Procs : pc[q] \notin Releasing
      BY <2>2, ReleaserHoldsMu, SessionsAssumption DEF DisconnectLock
    <3>2. CASE pc'[p] = "release" /\ arg[p] = s
      <4>1. state[s] = "connected"
        BY <2>2, <3>2 DEF DisconnectLock, AfterDisconnect, Goto, Return, TypeOK
      <4>2. QED
        BY <1>1, <1>3, <3>1, <4>1 DEF Owns, Disconnecting, Releasing
    <3>3. CASE ~(pc'[p] = "release" /\ arg[p] = s)
      <4>1. ~\E q \in Procs : pc'[q] = "release" /\ arg'[q] = s
        BY <2>1, <2>2, <3>1, <3>3
        DEF Releasing, DisconnectLock, AfterDisconnect, Goto, Return, TypeOK
      <4>2. state[s] = "connected"
        BY <1>3, <2>2, <4>1 DEF DisconnectLock, Owns
      <4>3. QED
        BY <1>1, <1>3, <3>1, <4>2 DEF Owns, Disconnecting, Releasing
    <3>4. QED
      BY <3>2, <3>3
  <2>3. CASE DisconnectMark(p)
    <3>1. /\ \A q \in Procs : q # p => pc[q] \notin Releasing
          /\ pc[p] = "mark" /\ pc'[p] \notin Releasing
      BY <2>3, ReleaserHoldsMu
      DEF DisconnectMark, AfterDisconnect, Goto, Return, Releasing, TypeOK
    <3>2. state'[arg[p]] = "disconnected" /\ \A x \in Ids : x # arg[p] => state'[x] = state[x]
      <4>1. arg[p] \in Ids
        BY <3>1, InCall
      <4>2. QED
        BY <2>3, <4>1 DEF DisconnectMark, TypeOK
    <3>3. ~\E q \in Procs : pc'[q] = "release"
      BY <2>1, <3>1 DEF Releasing
    <3>4. s # arg[p] /\ state[s] = "connected"
      BY <1>3, <3>2, <3>3 DEF Owns
    <3>5. QED
      BY <1>1, <1>3, <3>1, <3>4 DEF Owns, Disconnecting, Releasing
  <2>4. QED
    BY <2>2, <2>3
<1>4. QED
  BY <1>2, <1>3, CoverKept

(* A new process has an empty pool, and only sessions that are restored    *)
(* are connected.                                                          *)
LEMMA RestartCover ==
    ASSUME IInv, Restart
    PROVE  Cover'
<1>1. ASSUME NEW k \in HostKeys
      PROVE  Claimants(k)' = {} /\ refs'[k] = 0
  BY DEF Restart, Listed, LoadedState, Claimants, Owns, Disconnecting
<1>2. QED
  BY <1>1, FS_EmptySet DEF Cover

LEMMA NextCover == IInv /\ [Next]_vars => Cover'
<1> SUFFICES ASSUME IInv, [Next]_vars
             PROVE  Cover'
  OBVIOUS
<1>1. TypeOK' /\ CallInv'
  BY NextType, NextCalls DEF IInv
<1>2. ASSUME NEW p \in Procs, Continue(p) \/ \E s \in Ids : Call(p, s)
      PROVE  Cover'
  BY <1>1, <1>2, ConnectStoreCover, DisconnectReleaseCover, DisconnectCover, QuietCover
  DEF Continue
<1>3. CASE \/ \E s \in Ids : CreateSession(s)
           \/ \E k \in HostKeys, c \in Clients : ProvideClient(k, c)
           \/ Worker
           \/ UNCHANGED vars
  <2>1. UNCHANGED <<pc, arg, restored, stolen, raced>>
    BY <1>3 DEF CreateSession, ProvideClient, SetConnection, Worker, WorkerList,
                WorkerCheck, WorkerMark, vars, poolVars, callVars, histVars
  <2>2. NoRelease
    BY <2>1 DEF NoRelease
  <2>3. NoneConnects
    BY <1>3 DEF CreateSession, ProvideClient, Worker, WorkerList, WorkerCheck,
                WorkerMark, vars, NoneConnects, IInv, TypeOK
  <2>4. \A k \in HostKeys : refs[k] <= refs'[k]
    <3>1. ASSUME NEW k \in HostKeys, NEW c \in Clients, ProvideClient(k, c)
          PROVE  \A j \in HostKeys : refs[j] <= refs'[j]
      BY <3>1, SetConnectionInv DEF ProvideClient, IInv, PoolInv, PoolTypeOK
    <3>2. CASE UNCHANGED refs
      BY <3>2 DEF IInv, PoolInv, PoolTypeOK
    <3>3. QED
      BY <1>3, <3>1, <3>2 DEF CreateSession, Worker, WorkerList, WorkerCheck,
                              WorkerMark, vars, poolVars
  <2>5. CountsStay
    BY <2>1, <2>4 DEF CountsStay, Unspoiled
  <2>6. QED
    BY <1>1, <2>1, <2>2, <2>3, <2>5, QuietOwns, CoverKept DEF IInv
<1>4. CASE Store
  <2>1. UNCHANGED <<refs, raced, state, restored, stolen>>
    BY <1>4 DEF Store, SaveBegin, SaveEnd, SaveFails, poolVars, histVars
  <2>2. NoRelease
    <3>1. ASSUME NEW s \in Ids, SaveBegin(s)
          PROVE  NoRelease
      BY <3>1 DEF SaveBegin, callVars, NoRelease
    <3>2. CASE SaveEnd \/ SaveFails
      <4>1. CASE UNCHANGED callVars
        BY <4>1 DEF callVars, NoRelease
      <4>2. ASSUME NEW p \in Procs, storeMu.by = p, Return(p)
            PROVE  NoRelease
        <5>1. pc[p] = "saving"
          BY <4>2 DEF IInv, CallInv, Shape, At
        <5>2. QED
          BY <4>2, <5>1 DEF Return, NoRelease, Releasing, IInv, TypeOK
      <4>3. storeMu.by = Async \/ storeMu.by \in Procs
        BY <3>2 DEF SaveEnd, SaveFails, IInv, TypeOK
      <4>4. QED
        BY <3>2, <4>1, <4>2, <4>3 DEF SaveEnd, SaveFails, SaveReturns
    <3>3. QED
      BY <1>4, <3>1, <3>2 DEF Store
  <2>3. NoneConnects /\ CountsStay
    BY <2>1 DEF NoneConnects, CountsStay, Unspoiled, IInv, TypeOK, PoolTypeOK
  <2>4. QED
    BY <1>1, <2>1, <2>2, <2>3, QuietOwns, CoverKept DEF IInv
<1>5. CASE Restart
  BY <1>5, RestartCover
<1>6. QED
  BY <1>2, <1>3, <1>4, <1>5 DEF Next

-----------------------------------------------------------------------------
LEMMA InitIInv == Init => IInv
<1> SUFFICES ASSUME Init
             PROVE  IInv
  OBVIOUS
<1>1. PoolInv
  BY PoolInitInv DEF Init
<1>2. TypeOK
  BY <1>1, SessionsAssumption
  DEF Init, TypeOK, PoolInv, States, Steps, Calls, StoreFree
<1>3. CallInv
  BY SessionsAssumption
  DEF Init, PoolInit, CallInv, Shape, Shapes, At, Outside, StoreFree
<1>4. Cover
  <2>1. ASSUME NEW k \in HostKeys
        PROVE  Claimants(k) = {} /\ refs[k] = 0
    BY DEF Init, PoolInit, Claimants, Owns, Disconnecting
  <2>2. QED
    BY <2>1, FS_EmptySet DEF Cover
<1>5. QED
  BY <1>1, <1>2, <1>3, <1>4 DEF IInv

LEMMA InvariantIInv == Spec => []IInv
<1>1. IInv /\ [Next]_vars => IInv'
  BY NextPool, NextCalls, NextType, NextCover DEF IInv
<1>2. QED
  BY InitIInv, <1>1, PTL DEF Spec

(* SessionManager's state keeps its types: every call stays in its         *)
(* statements and every count is a natural number.                         *)
THEOREM SessionsTyped == Spec => []TypeOK
<1>1. IInv => TypeOK
  BY DEF IInv
<1>2. QED
  BY <1>1, InvariantIInv, PTL

(* A session that reads connected owns one of the counted references, so   *)
(* the count is positive, so the connection is in the pool and open: for   *)
(* any number of sessions, hosts, goroutines, connections and restarts.    *)
THEOREM SessionsConnectedIsPooled == Spec => []ConnectedIsPooled
<1>1. IInv => ConnectedIsPooled
  <2> SUFFICES ASSUME IInv, NEW s \in Ids, state[s] = "connected",
                      s \notin restored, ~Disconnecting(s),
                      HostOf[s] \notin raced \cup stolen
               PROVE  Pooled(HostOf[s]) /\ connections[HostOf[s]] \notin closed
    BY DEF ConnectedIsPooled
  <2> DEFINE k == HostOf[s]
  <2>1. k \in HostKeys /\ s \in Claimants(k) /\ Claimants(k) \in SUBSET Ids
    BY SessionsAssumption DEF Claimants, Owns
  <2>2. Cardinality(Claimants(k)) <= refs[k]
    BY <2>1 DEF IInv, Cover, Unspoiled
  <2>3. Cardinality(Claimants(k)) \in Nat /\ Cardinality(Claimants(k)) # 0
    BY <2>1, CountIsNat, FS_EmptySet
  <2>4. refs[k] > 0
    BY <2>1, <2>2, <2>3 DEF IInv, TypeOK, PoolTypeOK
  <2>5. QED
    BY <2>1, <2>4 DEF IInv, PoolInv, PoolConsistent
<1>2. QED
  BY <1>1, InvariantIInv, PTL
-----------------------------------------------------------------------------
\* What has been saved, or is worked on, was created.
KnownIds ==
    /\ registered \subseteq created /\ saving \subseteq created
    /\ \A s \in Ids : file[s] # "none" => s \in created
    /\ storeMu # StoreFree => storeMu.id \in created
    /\ \A p \in Procs : pc[p] # "idle" => arg[p] \in created

\* Whoever is about to remove a file has removed the session first; it cannot
\* be registered again, as an id is created once.
Unregistered == \A p \in Procs : pc[p] = "unlink" => arg[p] \notin registered

DiskInv == KnownIds /\ Unregistered /\ RegisteredIsOnDisk

LEMMA CallDisk ==
    ASSUME TypeOK, CallInv, DiskInv, NEW p \in Procs, NEW s \in Ids, Call(p, s)
    PROVE  DiskInv'
<1> USE DEF DiskInv, Call, ConnectSession, DisconnectSession, DeleteSession,
            GetSSHClient, Begin, storeVars, TypeOK
<1>1. /\ UNCHANGED <<created, registered, storeVars>>
      /\ \A q \in Procs \ {p} : pc'[q] = pc[q] /\ arg'[q] = arg[q]
      /\ pc'[p] # "unlink" /\ arg'[p] = s /\ s \in registered \cup created
  OBVIOUS
<1>2. KnownIds'
  BY <1>1 DEF KnownIds
<1>3. Unregistered'
  BY <1>1 DEF Unregistered
<1>4. RegisteredIsOnDisk'
  BY <1>1 DEF RegisteredIsOnDisk
<1>5. QED
  BY <1>2, <1>3, <1>4

(* A goroutine in a call goes on: it saves, registers less, or removes the *)
(* file of a session that is not registered.                               *)
LEMMA ContinueDisk ==
    ASSUME TypeOK, CallInv, DiskInv, NEW p \in Procs, Continue(p)
    PROVE  DiskInv'
<1> USE DEF DiskInv, TypeOK
<1>0. arg[p] \in Ids /\ arg[p] \in created
  <2>1. pc[p] # "idle"
    BY DEF Continue, ConnectMiss, ConnectLoad, ConnectStore, ConnectSave,
           DisconnectLock, DisconnectRelease, DisconnectMark,
           DeleteCheck, DeleteRemove, DeleteUnlink, ClientCheck, ClientMiss,
           ClientLoad, ClientStore, At
  <2>2. QED
    BY <2>1, InCall DEF KnownIds
<1>1. /\ \A q \in Procs \ {p} : pc'[q] = pc[q] /\ arg'[q] = arg[q]
      /\ pc'[p] = "idle" \/ arg'[p] = arg[p]
  BY DEF Continue, ConnectMiss, ConnectLoad, ConnectStore, ConnectSave,
         DisconnectLock, DisconnectRelease, DisconnectMark,
         DeleteCheck, DeleteRemove, DeleteUnlink, ClientCheck, ClientMiss,
         ClientLoad, ClientStore, AfterDisconnect, Goto, Return
<1>2. CASE ConnectSave(p)
  <2>1. /\ UNCHANGED <<created, registered, saving, lost>> /\ pc'[p] = "saving"
        /\ storeMu'.id = arg[p]
        /\ file' = [file EXCEPT ![arg[p]] = "torn"]
        /\ storeMu = StoreFree
    BY <1>2 DEF ConnectSave, Goto, Saving
  <2>2. KnownIds'
    BY <1>0, <1>1, <2>1 DEF KnownIds
  <2>3. Unregistered'
    BY <1>1, <2>1 DEF Unregistered
  <2>4. RegisteredIsOnDisk'
    BY <1>0, <2>1, SessionsAssumption DEF RegisteredIsOnDisk, KnownIds, StoreFree
  <2>5. QED
    BY <2>2, <2>3, <2>4
<1>3. CASE DeleteRemove(p)
  <2>1. /\ UNCHANGED <<created, storeVars>> /\ registered' = registered \ {arg[p]}
        /\ IF HasStore THEN arg'[p] = arg[p] ELSE pc'[p] = "idle"
    BY <1>3 DEF DeleteRemove, Goto, Return
  <2>2. KnownIds'
    BY <1>0, <1>1, <2>1 DEF KnownIds, storeVars
  <2>3. Unregistered'
    BY <1>1, <2>1 DEF Unregistered
  <2>4. RegisteredIsOnDisk'
    BY <2>1 DEF RegisteredIsOnDisk, storeVars
  <2>5. QED
    BY <2>2, <2>3, <2>4
<1>4. CASE DeleteUnlink(p)
  <2>1. /\ UNCHANGED <<created, registered, storeMu, saving, lost>> /\ pc'[p] = "idle"
        /\ file' \in {file, [file EXCEPT ![arg[p]] = "none"]}
        /\ pc[p] = "unlink"
    BY <1>4 DEF DeleteUnlink, Return, At
  <2>2. arg[p] \notin registered
    BY <2>1 DEF Unregistered
  <2>3. KnownIds'
    BY <1>0, <1>1, <2>1 DEF KnownIds
  <2>4. Unregistered'
    BY <1>1, <2>1 DEF Unregistered
  <2>5. RegisteredIsOnDisk'
    BY <2>1, <2>2 DEF RegisteredIsOnDisk
  <2>6. QED
    BY <2>3, <2>4, <2>5
<1>5. CASE ~(ConnectSave(p) \/ DeleteRemove(p) \/ DeleteUnlink(p))
  <2>1. UNCHANGED <<created, registered, file, storeMu, saving, lost>> /\ pc'[p] # "unlink"
    BY <1>5 DEF Continue, ConnectMiss, ConnectLoad, ConnectStore,
                DisconnectLock, DisconnectRelease, DisconnectMark,
                DeleteCheck, ClientCheck, ClientMiss, ClientLoad, ClientStore,
                AfterDisconnect, Goto, Return, storeVars
  <2>2. KnownIds'
    BY <1>0, <1>1, <2>1 DEF KnownIds
  <2>3. Unregistered'
    BY <1>1, <2>1 DEF Unregistered
  <2>4. RegisteredIsOnDisk'
    BY <2>1 DEF RegisteredIsOnDisk
  <2>5. QED
    BY <2>2, <2>3, <2>4
<1>6. QED
  BY <1>2, <1>3, <1>4, <1>5

(* A save begins with the file torn, and ends with it whole or lost. *)
LEMMA StoreDisk ==
    ASSUME TypeOK, CallInv, DiskInv, Store
    PROVE  DiskInv'
<1> USE SessionsAssumption DEF DiskInv, TypeOK
<1>1. ASSUME NEW s \in Ids, SaveBegin(s)
      PROVE  DiskInv'
  <2>1. /\ UNCHANGED <<created, registered, lost, pc, arg>>
        /\ s \in saving /\ saving' = saving \ {s}
        /\ storeMu'.id = s
        /\ file' = [file EXCEPT ![s] = "torn"]
        /\ storeMu = StoreFree
    BY <1>1 DEF SaveBegin, Saving, callVars
  <2>2. KnownIds'
    BY <2>1 DEF KnownIds
  <2>3. Unregistered'
    BY <2>1 DEF Unregistered
  <2>4. RegisteredIsOnDisk'
    BY <2>1 DEF RegisteredIsOnDisk, KnownIds, StoreFree
  <2>5. QED
    BY <2>2, <2>3, <2>4
<1>2. CASE SaveEnd \/ SaveFails
  <2>1. /\ UNCHANGED <<created, registered, saving>>
        /\ storeMu' = StoreFree /\ storeMu.id \in Ids /\ storeMu.state \in States
        /\ \/ /\ file' = [file EXCEPT ![storeMu.id] = storeMu.state]
              /\ lost' = lost \ {storeMu.id}
           \/ /\ file' = file
              /\ lost' = lost \cup {storeMu.id}
    BY <1>2 DEF SaveEnd, SaveFails
  <2>2. \A q \in Procs : pc'[q] = "idle" \/ (pc'[q] = pc[q] /\ arg'[q] = arg[q])
    BY <1>2 DEF SaveEnd, SaveFails, SaveReturns, Return, callVars
  <2>3. storeMu.id \in created
    BY <1>2 DEF SaveEnd, SaveFails, KnownIds
  <2>4. KnownIds'
    BY <2>1, <2>2, <2>3 DEF KnownIds
  <2>5. Unregistered'
    BY <2>1, <2>2 DEF Unregistered
  <2>6. RegisteredIsOnDisk'
    BY <2>1 DEF RegisteredIsOnDisk
  <2>7. QED
    BY <2>4, <2>5, <2>6
<1>3. QED
  BY <1>1, <1>2 DEF Store

LEMMA NextDisk == IInv /\ DiskInv /\ [Next]_vars => DiskInv'
<1> SUFFICES ASSUME TypeOK, CallInv, DiskInv, [Next]_vars
             PROVE  DiskInv'
  BY DEF IInv
<1> USE DEF DiskInv
<1>1. ASSUME NEW s \in Ids, CreateSession(s)
      PROVE  DiskInv'
  <2>1. /\ UNCHANGED <<file, lost, storeMu, pc, arg>> /\ s \notin created
        /\ created' = created \cup {s} /\ registered' = registered \cup {s}
        /\ saving' \subseteq saving \cup {s}
        /\ HasStore => saving' = saving \cup {s}
    BY <1>1 DEF CreateSession, callVars
  <2>2. KnownIds'
    BY <2>1 DEF KnownIds
  <2>3. Unregistered'
    BY <2>1 DEF Unregistered, KnownIds
  <2>4. RegisteredIsOnDisk'
    BY <2>1 DEF RegisteredIsOnDisk
  <2>5. QED
    BY <2>2, <2>3, <2>4
<1>2. CASE Restart
  <2>1. /\ UNCHANGED <<created, file>> /\ \A q \in Procs : pc'[q] = "idle"
        /\ registered' = {s \in Ids : file[s] \in States}
        /\ saving' = {} /\ storeMu' = StoreFree
    BY <1>2 DEF Restart, Listed
  <2>2. KnownIds'
    BY <2>1 DEF KnownIds, States
  <2>3. Unregistered'
    BY <2>1 DEF Unregistered
  <2>4. RegisteredIsOnDisk'
    BY <2>1 DEF RegisteredIsOnDisk
  <2>5. QED
    BY <2>2, <2>3, <2>4
<1>3. CASE \/ \E k \in HostKeys, c \in Clients : ProvideClient(k, c)
           \/ Worker
           \/ UNCHANGED vars
  <2>1. UNCHANGED <<created, registered, file, storeMu, saving, lost, pc, arg>>
    BY <1>3 DEF ProvideClient, Worker, WorkerList, WorkerCheck, WorkerMark,
                vars, callVars, storeVars
  <2>2. QED
    BY <2>1 DEF KnownIds, Unregistered, RegisteredIsOnDisk
<1>4. QED
  BY <1>1, <1>2, <1>3, CallDisk, ContinueDisk, StoreDisk DEF Next

LEMMA InitDisk == Init => DiskInv
  BY DEF Init, DiskInv, KnownIds, Unregistered, RegisteredIsOnDisk

(* For any number of sessions, goroutines and crashes: a registered        *)
(* session is in its file, or is being saved, or its last save failed.     *)
(* What it rests on is that DeleteSession removes the session from the     *)
(* table before it removes the file, and that an id is created once.       *)
THEOREM SessionsRegisteredIsOnDisk == Spec => []RegisteredIsOnDisk
<1>1. DiskInv => RegisteredIsOnDisk
  BY DEF DiskInv
<1>2. QED
  BY <1>1, InitDisk, NextDisk, InvariantIInv, PTL DEF Spec

-----------------------------------------------------------------------------
(* Callers never wait in a circle.  CallInv says which statements hold     *)
(* which lock; from there: whoever holds m.mu is at a step without a lock, *)
(* waits for the store's lock, which only a save that is being written     *)
(* holds, or for the pool's, whose readers are at a step that waits for    *)
(* nothing.                                                                *)
LEMMA NeverStuck ==
    ASSUME TypeOK, CallInv
    PROVE  CallsNeverStuck
<1> SUFFICES ASSUME NEW p \in Procs, pc[p] # "idle", storeMu = StoreFree
             PROVE  \E q \in Procs : CanGoOn(q)
  BY DEF CallsNeverStuck
<1> USE DEF CanGoOn
<1>0. ASSUME NEW q \in Procs
      PROVE  Shape(q) /\ ~At(q, "connect", "saving")
  BY <1>0, SessionsAssumption DEF CallInv, Shape, StoreFree
<1>1. ASSUME NEW q \in Procs, mu = q
      PROVE  \E r \in Procs : CanGoOn(r)
  <2>1. pc[q] \in {"get", "store", "mark"} \/ pc[q] = "save" \/ pc[q] = "release"
    BY <1>0, <1>1 DEF Shape, Shapes, At
  <2>2. CASE pc[q] = "release"
    <3>1. CASE WriteLockFree
      BY <2>2, <3>1
    <3>2. CASE ~WriteLockFree
      <4>1. PICK r \in Procs : reading[r].at # "out"
        BY <3>2 DEF WriteLockFree
      <4>2. reading[r].at = "get"
        BY <4>1 DEF TypeOK, PoolTypeOK, Outside
      <4>3. pc[r] = "store"
        BY <1>0, <4>2 DEF Shape
      <4>4. QED
        BY <4>3
    <3>3. QED
      BY <3>1, <3>2
  <2>3. QED
    BY <2>1, <2>2
<1>2. CASE mu = NoProc
  BY <1>0, <1>2, SessionsAssumption DEF Shape, Shapes, At
<1>3. QED
  BY <1>1, <1>2 DEF TypeOK

(* While a call is under way, some call can go on or a file is being       *)
(* written (session.go:88-188 and store.go:35-57, with three locks).       *)
THEOREM SessionsCallsNeverStuck == Spec => []CallsNeverStuck
<1>1. IInv => CallsNeverStuck
  BY NeverStuck DEF IInv
<1>2. QED
  BY <1>1, InvariantIInv, PTL
=============================================================================
