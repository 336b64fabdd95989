------------------------------ MODULE Sessions ------------------------------
(***************************************************************************)
(* SessionManager (internal/session/session.go) over the connection pool   *)
(* and the session store, with the reconnect worker of the SSH service     *)
(* (internal/ssh/service.go) writing session states behind its back.       *)
(*                                                                         *)
(* A public call runs in a goroutine p: op[p] is the call, arg[p] its      *)
(* session, pc[p] the statement it is at.  A step is what the code does    *)
(* between two points where another goroutine can get in.  m.mu is a       *)
(* RWMutex: "mu" names the goroutine that holds it for writing, and a call *)
(* that takes it, for reading or writing, only around one statement needs  *)
(* it free in that step.  Three writes and reads do NOT take it: the       *)
(* worker's State = Reconnecting, the state check of DeleteSession and     *)
(* that of GetSSHClient.                                                   *)
(*                                                                         *)
(* A session id is new at every CreateSession (a time stamp), its host     *)
(* never changes (HostOf).  A manager with a store saves by itself; one    *)
(* without (HasStore, most tests) does the same less the steps on files.   *)
(* Windows, panes and events are left out: no step here reads them.        *)
(***************************************************************************)
EXTENDS ConnectionPool

CONSTANTS Ids,        \* session ids
          HostOf,     \* [Ids -> HostKeys]: user@host:port of a session
          NoProc,     \* nobody holds m.mu
          Async,      \* the goroutine of "go m.saveSession(session)"
          NoId,       \* the worker is not about to write
          HasStore,   \* m.store # nil
          HasWorker,  \* the SSH service is started
          MaxRefs,    \* bound: no call that takes a reference starts above it
          MaxRestarts \* bound: runs of the program after the first

ASSUME SessionsAssumption ==
    /\ IsFiniteSet(Ids) /\ HostOf \in [Ids -> HostKeys]
    /\ NoProc \notin Procs /\ Async \notin Procs
    /\ NoId \notin Ids
    /\ HasStore \in BOOLEAN /\ HasWorker \in BOOLEAN
    /\ MaxRefs \in Nat /\ MaxRestarts \in Nat

VARIABLES
    created,    \* ids ever handed out
    registered, \* the keys of m.sessions
    state,      \* session.State
    errored,    \* sessions with ErrorMsg # ""
    mu,         \* the writer inside m.mu, or NoProc
    op, arg, pc,
    file,       \* the State in <id>.json, or "none", or "torn"
    fileErr,    \* sessions whose file has an ErrorMsg
    storeMu,    \* the Save inside store.mu
    saving,     \* sessions whose first save has not begun
    lost,       \* sessions whose last save failed (logged, not returned)
    todo,       \* the worker's list: sessions it has still to look at
    target,     \* the session the worker has found broken, or NoId
    restarts,
    deleted,    \* history: sessions whose DeleteSession has removed the file
    restored,   \* history: sessions loaded as connected, not connected since
    stolen      \* history: hosts on which such a session released a reference

callVars  == <<op, arg, pc>>
storeVars == <<file, fileErr, storeMu, saving, lost>>
workVars  == <<todo, target>>
histVars  == <<restarts, deleted, restored, stolen>>
vars == <<connections, refs, reading, closed, dialed, raced, created, registered,
          state, errored, mu, op, arg, pc, file, fileErr, storeMu, saving, lost,
          todo, target, restarts, deleted, restored, stolen>>

States == {"disconnected", "connecting", "connected", "reconnecting", "error"}
Steps  == {"idle", "get", "store", "save", "saving", "lock", "release", "mark",
           "check", "remove", "unlink"}
Calls  == {"none", "connect", "disconnect", "delete", "client"}

StoreFree == [by |-> NoProc, id |-> NoId, state |-> "none", err |-> FALSE]
Saving(who, s) == [by |-> who, id |-> s, state |-> state[s], err |-> s \in errored]

-----------------------------------------------------------------------------
Init ==
    /\ PoolInit
    /\ created = {} /\ registered = {} /\ errored = {}
    /\ state = [s \in Ids |-> "disconnected"]
    /\ mu = NoProc
    /\ op = [p \in Procs |-> "none"]
    /\ arg = [p \in Procs |-> NoId]
    /\ pc = [p \in Procs |-> "idle"]
    /\ file = [s \in Ids |-> "none"] /\ fileErr = {}
    /\ storeMu = StoreFree
    /\ saving = {} /\ lost = {}
    /\ todo = {} /\ target = NoId
    /\ restarts = 0 /\ deleted = {} /\ restored = {} /\ stolen = {}

Goto(p, step) == pc' = [pc EXCEPT ![p] = step] /\ UNCHANGED <<op, arg>>

Begin(p, call, s, step) ==
    /\ pc[p] = "idle"
    /\ op' = [op EXCEPT ![p] = call]
    /\ arg' = [arg EXCEPT ![p] = s]
    /\ pc' = [pc EXCEPT ![p] = step]

Return(p) ==
    /\ op' = [op EXCEPT ![p] = "none"]
    /\ arg' = [arg EXCEPT ![p] = NoId]
    /\ pc' = [pc EXCEPT ![p] = "idle"]

At(p, call, step) == op[p] = call /\ pc[p] = step
Host(p) == HostOf[arg[p]]

-----------------------------------------------------------------------------
(* CreateSession: register the session, start its save in a goroutine.     *)
CreateSession(s) ==
    /\ mu = NoProc
    /\ s \notin created
    /\ created' = created \cup {s}
    /\ registered' = registered \cup {s}
    /\ saving' = IF HasStore THEN saving \cup {s} ELSE saving
    /\ UNCHANGED <<poolVars, state, errored, mu, callVars, file, fileErr, storeMu,
                   lost, workVars, histVars>>

(* ConnectSession: lock m.mu, to the end; State = Connecting.  (A session  *)
(* that is not registered is an error and changes nothing.)                *)
ConnectSession(p, s) ==
    /\ mu = NoProc
    /\ s \in registered
    /\ refs[HostOf[s]] < MaxRefs
    /\ Begin(p, "connect", s, "get")
    /\ mu' = p
    /\ state' = [state EXCEPT ![s] = "connecting"]
    /\ UNCHANGED <<poolVars, created, registered, errored, storeVars, workVars,
                   histVars>>

\* The error return of ConnectSession forgets to unlock.
ConnectMissKeepsLock(p) ==
    /\ At(p, "connect", "get")
    /\ GetMiss(p, Host(p))
    /\ state' = [state EXCEPT ![arg[p]] = "error"]
    /\ errored' = errored \cup {arg[p]}
    /\ Return(p)
    /\ UNCHANGED <<mu, created, registered, storeVars, workVars, histVars>>

(* The pool has no connection: State = Error, ErrorMsg set, return.        *)
ConnectMiss(p) ==
    /\ At(p, "connect", "get")
    /\ GetMiss(p, Host(p))
    /\ state' = [state EXCEPT ![arg[p]] = "error"]
    /\ errored' = errored \cup {arg[p]}
    /\ mu' = NoProc
    /\ Return(p)
    /\ UNCHANGED <<created, registered, storeVars, workVars, histVars>>

(* The pool has one: the first half of refs[key]++.                        *)
ConnectLoad(p) ==
    /\ At(p, "connect", "get")
    /\ GetLoad(p, Host(p))
    /\ Goto(p, "store")
    /\ UNCHANGED <<created, registered, state, errored, mu, storeVars, workVars,
                   histVars>>

(* The second half; State = Connected.  ErrorMsg is not cleared.  With no  *)
(* store that is all.                                                      *)
ConnectStore(p) ==
    /\ At(p, "connect", "store")
    /\ GetStore(p)
    /\ state' = [state EXCEPT ![arg[p]] = "connected"]
    /\ restored' = restored \ {arg[p]}
    /\ IF HasStore THEN Goto(p, "save") /\ UNCHANGED mu
                   ELSE Return(p) /\ mu' = NoProc
    /\ UNCHANGED <<created, registered, errored, storeVars, workVars, restarts,
                   deleted, stolen>>

(* m.saveSession, with m.mu held.                                          *)
ConnectSave(p) ==
    /\ At(p, "connect", "save")
    /\ storeMu = StoreFree
    /\ storeMu' = Saving(p, arg[p])
    /\ file' = [file EXCEPT ![arg[p]] = "torn"]
    /\ Goto(p, "saving")
    /\ UNCHANGED <<poolVars, created, registered, state, errored, mu, fileErr, saving,
                   lost, workVars, histVars>>

-----------------------------------------------------------------------------
(* DisconnectSession: called by the user, or by DeleteSession below.       *)
DisconnectSession(p, s) ==
    /\ s \in created
    /\ Begin(p, "disconnect", s, "lock")
    /\ UNCHANGED <<poolVars, created, registered, state, errored, mu, storeVars,
                   workVars, histVars>>

AfterDisconnect(p) ==
    \/ op[p] = "disconnect" /\ Return(p)
    \/ op[p] = "delete" /\ Goto(p, "remove")

\* Releases a reference of any session, connected or not.
DisconnectUnchecked(p) ==
    /\ pc[p] = "lock"
    /\ mu = NoProc
    /\ IF arg[p] \in registered
         THEN mu' = p /\ Goto(p, "release")
         ELSE UNCHANGED mu /\ AfterDisconnect(p)
    /\ UNCHANGED <<poolVars, created, registered, state, errored, storeVars,
                   workVars, histVars>>

(* Lock m.mu; a session that is gone or not connected needs nothing.       *)
DisconnectLock(p) ==
    /\ pc[p] = "lock"
    /\ mu = NoProc
    /\ IF arg[p] \in registered /\ state[arg[p]] = "connected"
         THEN mu' = p /\ Goto(p, "release")
         ELSE UNCHANGED mu /\ AfterDisconnect(p)
    /\ UNCHANGED <<poolVars, created, registered, state, errored, storeVars,
                   workVars, histVars>>

(* Give ONE reference back, whatever the session took.  One loaded from    *)
(* its file as connected took none: it gives back somebody else's.         *)
DisconnectRelease(p) ==
    /\ pc[p] = "release"
    /\ ReleaseConnection(Host(p))
    /\ stolen' = IF arg[p] \in restored THEN stolen \cup {Host(p)} ELSE stolen
    /\ Goto(p, "mark")
    /\ UNCHANGED <<created, registered, state, errored, mu, storeVars, workVars,
                   restarts, deleted, restored>>

(* State = Disconnected; unlock.  The file is not saved.                   *)
DisconnectMark(p) ==
    /\ pc[p] = "mark"
    /\ state' = [state EXCEPT ![arg[p]] = "disconnected"]
    /\ mu' = NoProc
    /\ AfterDisconnect(p)
    /\ UNCHANGED <<poolVars, created, registered, errored, storeVars, workVars,
                   histVars>>

-----------------------------------------------------------------------------
(* DeleteSession: GetSession, under the read lock.                         *)
DeleteSession(p, s) ==
    /\ mu = NoProc
    /\ s \in registered
    /\ Begin(p, "delete", s, "check")
    /\ UNCHANGED <<poolVars, created, registered, state, errored, mu, storeVars,
                   workVars, histVars>>

(* The session's state, read without the lock: disconnect first, or not.   *)
DeleteCheck(p) ==
    /\ At(p, "delete", "check")
    /\ Goto(p, IF state[arg[p]] = "connected" THEN "lock" ELSE "remove")
    /\ UNCHANGED <<poolVars, created, registered, state, errored, mu, storeVars,
                   workVars, histVars>>

\* Removes the file before the registry entry.
DeleteUnlinksFirst(p) ==
    /\ At(p, "delete", "remove")
    /\ storeMu = StoreFree
    /\ file' = [file EXCEPT ![arg[p]] = "none"]
    /\ Goto(p, "unlink")
    /\ UNCHANGED <<poolVars, created, registered, state, errored, mu, fileErr, storeMu,
                   saving, lost, workVars, histVars>>

(* delete(m.sessions, id), whatever happened to the session meanwhile; and *)
(* that is all with no store.                                              *)
DeleteRemove(p) ==
    /\ At(p, "delete", "remove")
    /\ mu = NoProc
    /\ registered' = registered \ {arg[p]}
    /\ IF HasStore THEN Goto(p, "unlink") ELSE Return(p)
    /\ UNCHANGED <<poolVars, created, state, errored, mu, storeVars, workVars,
                   histVars>>

(* m.store.Delete, whose error nobody looks at: the file may stay.         *)
DeleteUnlink(p) ==
    /\ At(p, "delete", "unlink")
    /\ storeMu = StoreFree
    /\ \/ /\ file' = [file EXCEPT ![arg[p]] = "none"]
          /\ deleted' = deleted \cup {arg[p]}
       \/ UNCHANGED <<file, deleted>>
    /\ Return(p)
    /\ UNCHANGED <<poolVars, created, registered, state, errored, mu, fileErr, storeMu,
                   saving, lost, workVars, restarts, restored, stolen>>

-----------------------------------------------------------------------------
(* GetSSHClient: GetSession, under the read lock.                          *)
GetSSHClient(p, s) ==
    /\ mu = NoProc
    /\ s \in registered
    /\ refs[HostOf[s]] < MaxRefs
    /\ Begin(p, "client", s, "check")
    /\ UNCHANGED <<poolVars, created, registered, state, errored, mu, storeVars,
                   workVars, histVars>>

(* The session's state, read without the lock: ErrSessionNotConnected, or  *)
(* on to the pool.                                                         *)
ClientCheck(p) ==
    /\ At(p, "client", "check")
    /\ IF state[arg[p]] = "connected" THEN Goto(p, "get") ELSE Return(p)
    /\ UNCHANGED <<poolVars, created, registered, state, errored, mu, storeVars,
                   workVars, histVars>>

ClientMiss(p) ==
    /\ At(p, "client", "get")
    /\ GetMiss(p, Host(p))
    /\ Return(p)
    /\ UNCHANGED <<created, registered, state, errored, mu, storeVars, workVars,
                   histVars>>

ClientLoad(p) ==
    /\ At(p, "client", "get")
    /\ GetLoad(p, Host(p))
    /\ Goto(p, "store")
    /\ UNCHANGED <<created, registered, state, errored, mu, storeVars, workVars,
                   histVars>>

(* The caller has the client.  No caller in the repository gives the       *)
(* reference back.                                                         *)
ClientStore(p) ==
    /\ At(p, "client", "store")
    /\ GetStore(p)
    /\ Return(p)
    /\ UNCHANGED <<created, registered, state, errored, mu, storeVars, workVars,
                   histVars>>

(* Whoever connects gives the pool the client (test/e2e/ssh_test.go:108).  *)
ProvideClient(k, c) ==
    /\ refs[k] < MaxRefs
    /\ SetConnection(k, c)
    /\ UNCHANGED <<created, registered, state, errored, mu, callVars, storeVars,
                   workVars, histVars>>

-----------------------------------------------------------------------------
(* SessionStore.Save in the goroutine CreateSession started: marshal the   *)
(* session as it is now, truncate the file.                                *)
SaveBegin(s) ==
    /\ s \in saving
    /\ storeMu = StoreFree
    /\ storeMu' = Saving(Async, s)
    /\ file' = [file EXCEPT ![s] = "torn"]
    /\ saving' = saving \ {s}
    /\ UNCHANGED <<poolVars, created, registered, state, errored, mu, callVars,
                   fileErr, lost, workVars, histVars>>

\* saveSession returns; a ConnectSession that called it returns and unlocks.
SaveReturns ==
    IF storeMu.by = Async
      THEN UNCHANGED <<mu, callVars>>
      ELSE mu' = NoProc /\ Return(storeMu.by)

(* The write succeeds.                                                     *)
SaveEnd ==
    /\ storeMu # StoreFree
    /\ file' = [file EXCEPT ![storeMu.id] = storeMu.state]
    /\ fileErr' = IF storeMu.err THEN fileErr \cup {storeMu.id}
                                 ELSE fileErr \ {storeMu.id}
    /\ lost' = lost \ {storeMu.id}
    /\ storeMu' = StoreFree
    /\ SaveReturns
    /\ UNCHANGED <<poolVars, created, registered, state, errored, saving, workVars,
                   histVars>>

(* It fails half way: a warning in the log, nothing else.                  *)
SaveFails ==
    /\ storeMu # StoreFree
    /\ lost' = lost \cup {storeMu.id}
    /\ storeMu' = StoreFree
    /\ SaveReturns
    /\ UNCHANGED <<poolVars, created, registered, state, errored, saving, file, fileErr,
                   workVars, histVars>>

-----------------------------------------------------------------------------
(* checkAndReconnect, on the worker's tick: ListSessions.                  *)
WorkerList ==
    /\ HasWorker
    /\ todo = {} /\ target = NoId
    /\ mu = NoProc
    /\ todo' = registered
    /\ UNCHANGED <<poolVars, created, registered, state, errored, mu, callVars,
                   storeVars, target, histVars>>

(* Read State and ErrorMsg without a lock.                                 *)
WorkerCheck(s) ==
    /\ s \in todo /\ target = NoId
    /\ todo' = todo \ {s}
    /\ target' = IF state[s] # "connected" /\ s \in errored THEN s ELSE NoId
    /\ UNCHANGED <<poolVars, created, registered, state, errored, mu, callVars,
                   storeVars, histVars>>

(* attemptReconnect: State = Reconnecting, whatever it is by now.          *)
WorkerMark ==
    /\ target # NoId
    /\ state' = [state EXCEPT ![target] = "reconnecting"]
    /\ target' = NoId
    /\ UNCHANGED <<poolVars, created, registered, errored, mu, callVars, storeVars,
                   todo, histVars>>

-----------------------------------------------------------------------------
(* SessionStore.List: the files that parse; the others are skipped with a  *)
(* warning.                                                                *)
Listed == {s \in Ids : file[s] \in States}

(* SessionStore.Load: the state as it was saved.                           *)
LoadedState(s) == IF s \in Listed THEN file[s] ELSE "disconnected"

(* The process ends at any point, and the next one loads what the files    *)
(* say (LoadSessions); the pool is empty.                                  *)
Restart ==
    /\ restarts < MaxRestarts
    /\ restarts' = restarts + 1
    /\ registered' = Listed
    /\ state' = [s \in Ids |-> LoadedState(s)]
    /\ errored' = Listed \cap fileErr
    /\ restored' = {s \in Listed : file[s] = "connected"}
    /\ connections' = [k \in HostKeys |-> NoClient]
    /\ refs' = [k \in HostKeys |-> 0]
    /\ reading' = [p \in Procs |-> Outside]
    /\ closed' = dialed
    /\ raced' = {} /\ stolen' = {}
    /\ mu' = NoProc
    /\ op' = [p \in Procs |-> "none"]
    /\ arg' = [p \in Procs |-> NoId]
    /\ pc' = [p \in Procs |-> "idle"]
    /\ storeMu' = StoreFree
    /\ saving' = {} /\ lost' = {}
    /\ todo' = {} /\ target' = NoId
    /\ UNCHANGED <<dialed, created, file, fileErr, deleted>>

-----------------------------------------------------------------------------
\* What the program does of itself in goroutine p, once a call has begun.
Continue(p) ==
    \/ ConnectMiss(p) \/ ConnectLoad(p) \/ ConnectStore(p) \/ ConnectSave(p)
    \/ DisconnectLock(p) \/ DisconnectRelease(p) \/ DisconnectMark(p)
    \/ DeleteCheck(p) \/ DeleteRemove(p) \/ DeleteUnlink(p)
    \/ ClientCheck(p) \/ ClientMiss(p) \/ ClientLoad(p) \/ ClientStore(p)

Call(p, s) ==
    \/ ConnectSession(p, s) \/ DisconnectSession(p, s) \/ DeleteSession(p, s)
    \/ GetSSHClient(p, s)

Store == SaveEnd \/ SaveFails \/ \E s \in Ids : SaveBegin(s)

Worker == WorkerList \/ WorkerMark \/ \E s \in Ids : WorkerCheck(s)

Next ==
    \/ \E s \in Ids : CreateSession(s)
    \/ \E p \in Procs, s \in Ids : Call(p, s)
    \/ \E p \in Procs : Continue(p)
    \/ \E k \in HostKeys, c \in Clients : ProvideClient(k, c)
    \/ Store
    \/ Worker
    \/ Restart

Spec == Init /\ [][Next]_vars

\* A goroutine that can run is run, and one that waits for a lock gets it
\* (sync.RWMutex starves neither readers nor writers): strong fairness for
\* each.  Users, crashes and the outcome of a write are not fair.
Fairness ==
    /\ \A p \in Procs : SF_vars(Continue(p))
    /\ SF_vars(Store)
    /\ SF_vars(Worker)

FairSpec == Spec /\ Fairness

-----------------------------------------------------------------------------
TypeOK ==
    /\ PoolTypeOK
    /\ created \subseteq Ids /\ registered \subseteq Ids
    /\ state \in [Ids -> States] /\ errored \subseteq Ids
    /\ mu \in Procs \cup {NoProc}
    /\ op \in [Procs -> Calls] /\ arg \in [Procs -> Ids \cup {NoId}]
    /\ pc \in [Procs -> Steps]
    /\ file \in [Ids -> States \cup {"none", "torn"}] /\ fileErr \subseteq Ids
    /\ storeMu \in {StoreFree} \cup
         [by : Procs \cup {Async}, id : Ids, state : States, err : BOOLEAN]
    /\ saving \subseteq Ids /\ lost \subseteq Ids
    /\ todo \subseteq Ids /\ target \in Ids \cup {NoId}
    /\ restarts \in 0..MaxRestarts /\ deleted \subseteq Ids
    /\ restored \subseteq Ids /\ stolen \subseteq HostKeys

\* Inside DisconnectSession, between the release and State = Disconnected.
Disconnecting(s) == \E p \in Procs : pc[p] = "mark" /\ arg[p] = s

(* A session that reads "connected" has its connection in the pool, open,  *)
(* however calls, deletions, the worker's unlocked writes and crashes      *)
(* interleave (session.go:88-188, service.go:192-206) - except on a host   *)
(* where two increments overlapped or where a session loaded as connected  *)
(* gave back a reference it never took, and except such sessions.          *)
ConnectedIsPooled ==
    \A s \in Ids :
        (/\ state[s] = "connected"
         /\ s \notin restored /\ ~Disconnecting(s)
         /\ HostOf[s] \notin raced \cup stolen)
            => Pooled(HostOf[s]) /\ connections[HostOf[s]] \notin closed

(* A registered session would survive a crash: its file is whole, or a     *)
(* save of it is under way, or its last save failed.  DeleteSession        *)
(* (session.go:163) never leaves a session registered and without a file.  *)
RegisteredIsOnDisk ==
    HasStore => \A s \in registered :
                   \/ file[s] \in States
                   \/ s \in saving \cup lost
                   \/ storeMu.id = s

\* Whether goroutine p is inside a call and what its next statement waits for
\* is there.
CanGoOn(p) ==
    \/ pc[p] \in {"get", "store", "mark", "check"}
    \/ pc[p] = "release" /\ WriteLockFree
    \/ pc[p] \in {"lock", "remove"} /\ mu = NoProc
    \/ pc[p] \in {"save", "unlink"} /\ storeMu = StoreFree

(* Callers never wait for each other in a circle: m.mu, the pool's lock    *)
(* and the store's lock are taken inside one another (session.go:91-119,   *)
(* 134-146), and a return that forgot one would stop everybody.  While any *)
(* call is under way one of them can go on, or a file is being written,    *)
(* which ends by itself.                                                   *)
CallsNeverStuck ==
    (\E p \in Procs : pc[p] # "idle")
        => storeMu # StoreFree \/ \E p \in Procs : CanGoOn(p)

(* Every call returns: m.mu, the pool's lock and the store's lock, taken   *)
(* one inside the other by ConnectSession and DisconnectSession, never     *)
(* leave the callers waiting for each other.                               *)
CallsReturn == \A p \in Procs : pc[p] # "idle" ~> pc[p] = "idle"

(* A session whose deletion has removed its file does not come back:       *)
(* test/integration/session_test.go:144 asserts ErrSessionNotFound.        *)
DeletedStaysDeleted ==
    registered \cap deleted = {}
=============================================================================
