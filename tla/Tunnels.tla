------------------------------ MODULE Tunnels ------------------------------
(***************************************************************************)
(* TunnelManager (internal/tunnel/tunnel.go) and the SOCKS5 start path of  *)
(* socks.go: the registry of tunnels, their listeners and contexts, and    *)
(* the accept loops that outlive the calls.                                *)
(*                                                                         *)
(* m.mu protects the map only.  StartTunnel checks the tunnel under the    *)
(* lock, unlocks, fetches the SSH client, listens, and then assigns        *)
(* t.listener, t.ctx and t.Status one after the other with no lock, while  *)
(* Stop, Delete and Close read and write the same fields under it.  Every  *)
(* such assignment is a step.                                              *)
(*                                                                         *)
(* A start that gets as far as its listener (or, for a remote forward, its *)
(* SSH session) is a RUN, with a number: run r has listener r, context r   *)
(* and goroutine r.  An accept loop closes the listener it was started     *)
(* with, but looks at t.ctx, which by then may belong to a later run.      *)
(*                                                                         *)
(* A loop that has accepted a connection only starts its handler; what the *)
(* handlers do with the connections is left out.                           *)
(***************************************************************************)
EXTENDS Integers, FiniteSets

CONSTANTS Tunnels,   \* tunnel ids; each is created once (a time stamp)
          Procs,     \* goroutines that call the manager
          NoProc,    \* nobody holds m.mu
          NoTunnel,  \* the argument of Close, and of no call
          MaxRuns    \* bound: starts that get a listener or a session

ASSUME TunnelsAssumption ==
    /\ NoProc \notin Procs /\ NoTunnel \notin Tunnels
    /\ MaxRuns \in Nat

VARIABLES
    created,    \* ids ever handed out
    remote,     \* those of type "remote"; the others listen
    tunnels,    \* the keys of m.tunnels
    listener,   \* t.listener: a run, or 0 for nil
    ctx,        \* t.ctx and t.cancel: a run, or 0 for nil
    status,     \* t.Status
    mu,         \* the writer inside m.mu, or NoProc
    op, arg, pc,
    runs,       \* runs begun
    owner,      \* owner[r]: the tunnel of run r, or NoTunnel
    mine,       \* mine[p]: the run the start in p has begun, or 0
    watch,      \* watch[r]: the context a remote forward's goroutine waits for
    open,       \* runs whose listener or SSH session is open
    cancelled,  \* runs whose own context is cancelled
    closing,    \* m.cancel was called
    loop,       \* loop[r]: where the goroutine of run r is
    overlapped  \* history: tunnels with a call begun during a start of theirs

callVars  == <<op, arg, pc, mine>>
idVars    == <<created, remote>>
fieldVars == <<listener, ctx, status>>
runVars   == <<runs, owner, watch, open, cancelled, loop>>
vars == <<created, remote, tunnels, listener, ctx, status, mu, op, arg, pc, runs, owner, mine,
          watch, open, cancelled, closing, loop, overlapped>>

Runs  == 1..MaxRuns
Calls == {"none", "start", "socks", "stop", "delete", "close"}
Steps == {"idle", "client", "find", "listen", "listener", "ctx", "status",
          "cancel", "hangup", "finish"}
Loops == {"none", "top", "accept", "check", "wait", "ended"}

\* A start between its check under m.mu and its return.
Starting(t) == {p \in Procs : op[p] \in {"start", "socks"} /\ arg[p] = t}

\* ctx.Done() is closed: a context ends with the manager's, its parent.
DoneAlone(r) == r \in cancelled
Done(r) == r \in cancelled \/ closing

-----------------------------------------------------------------------------
Init ==
    /\ created = {} /\ remote = {} /\ tunnels = {}
    /\ listener = [t \in Tunnels |-> 0]
    /\ ctx = [t \in Tunnels |-> 0]
    /\ status = [t \in Tunnels |-> "stopped"]
    /\ mu = NoProc
    /\ op = [p \in Procs |-> "none"]
    /\ arg = [p \in Procs |-> NoTunnel]
    /\ pc = [p \in Procs |-> "idle"]
    /\ runs = 0
    /\ owner = [r \in Runs |-> NoTunnel]
    /\ mine = [p \in Procs |-> 0]
    /\ watch = [r \in Runs |-> 0]
    /\ open = {} /\ cancelled = {} /\ closing = FALSE
    /\ loop = [r \in Runs |-> "none"]
    /\ overlapped = {}

Begin(p, call, t, step) ==
    /\ pc[p] = "idle"
    /\ op' = [op EXCEPT ![p] = call]
    /\ arg' = [arg EXCEPT ![p] = t]
    /\ pc' = [pc EXCEPT ![p] = step]
    /\ UNCHANGED mine

Goto(p, step) == pc' = [pc EXCEPT ![p] = step] /\ UNCHANGED <<op, arg, mine>>

Return(p) ==
    /\ op' = [op EXCEPT ![p] = "none"]
    /\ arg' = [arg EXCEPT ![p] = NoTunnel]
    /\ pc' = [pc EXCEPT ![p] = "idle"]
    /\ mine' = [mine EXCEPT ![p] = 0]

\* A call on t begins while t is being started.
Overlap(t) ==
    overlapped' = IF Starting(t) # {} THEN overlapped \cup {t} ELSE overlapped

-----------------------------------------------------------------------------
(* CreateTunnel: a new id, registered, of the type the caller says.        *)
CreateTunnel(t) ==
    /\ mu = NoProc
    /\ t \notin created
    /\ created' = created \cup {t}
    /\ remote' \in {remote, remote \cup {t}}
    /\ tunnels' = tunnels \cup {t}
    /\ UNCHANGED <<fieldVars, mu, callVars, runVars, closing, overlapped>>

(* StartTunnel: a tunnel without a listener may start.  A remote forward   *)
(* never has one.  (Unknown and running tunnels are errors.)               *)
StartTunnel(p, t) ==
    /\ mu = NoProc
    /\ t \in tunnels
    /\ listener[t] = 0
    /\ Begin(p, "start", t, "client")
    /\ Overlap(t)
    /\ UNCHANGED <<idVars, tunnels, fieldVars, mu, runVars, closing>>

(* StartDynamicForwardWithConfig creates its tunnel and starts it; from    *)
(* here on other calls may see it.                                         *)
StartSOCKS(p, t) ==
    /\ mu = NoProc
    /\ t \notin created
    /\ created' = created \cup {t}
    /\ tunnels' = tunnels \cup {t}
    /\ Begin(p, "socks", t, "client")
    /\ UNCHANGED <<remote, fieldVars, mu, runVars, closing, overlapped>>

(* GetSSHClient: an error ends the start.                                  *)
StartClient(p) ==
    /\ pc[p] = "client"
    /\ \/ Return(p)
       \/ Goto(p, IF op[p] = "socks" THEN "find" ELSE "listen")
    /\ UNCHANGED <<idVars, tunnels, fieldVars, mu, runVars, closing, overlapped>>

(* startSOCKS5WithConfig looks the tunnel up again, not its listener.      *)
StartFind(p) ==
    /\ pc[p] = "find"
    /\ mu = NoProc
    /\ IF arg[p] \in tunnels THEN Goto(p, "listen") ELSE Return(p)
    /\ UNCHANGED <<idVars, tunnels, fieldVars, mu, runVars, closing, overlapped>>

(* net.Listen, or client.NewSession, fails.                                *)
StartFails(p) ==
    /\ pc[p] = "listen"
    /\ Return(p)
    /\ UNCHANGED <<idVars, tunnels, fieldVars, mu, runVars, closing, overlapped>>

(* It succeeds.  (With a fixed port it fails while an earlier listener of  *)
(* the tunnel is open; with port 0 it never does.)                         *)
StartListens(p) ==
    /\ pc[p] = "listen"
    /\ runs < MaxRuns
    /\ runs' = runs + 1
    /\ owner' = [owner EXCEPT ![runs + 1] = arg[p]]
    /\ open' = open \cup {runs + 1}
    /\ mine' = [mine EXCEPT ![p] = runs + 1]
    /\ pc' = [pc EXCEPT ![p] = IF arg[p] \in remote THEN "ctx" ELSE "listener"]
    /\ UNCHANGED <<idVars, tunnels, fieldVars, mu, op, arg, watch, cancelled, closing, loop,
                   overlapped>>

(* t.listener = listener; t.client = client.                               *)
StartSetsListener(p) ==
    /\ pc[p] = "listener"
    /\ listener' = [listener EXCEPT ![arg[p]] = mine[p]]
    /\ Goto(p, "ctx")
    /\ UNCHANGED <<idVars, tunnels, ctx, status, mu, runVars, closing, overlapped>>

(* t.ctx, t.cancel = context.WithCancel(m.ctx): the previous ones are      *)
(* dropped, not cancelled.                                                 *)
StartSetsContext(p) ==
    /\ pc[p] = "ctx"
    /\ ctx' = [ctx EXCEPT ![arg[p]] = mine[p]]
    /\ Goto(p, "status")
    /\ UNCHANGED <<idVars, tunnels, listener, status, mu, runVars, closing, overlapped>>

(* t.Status = running; start the goroutine; return.                        *)
StartSetsStatus(p) ==
    /\ pc[p] = "status"
    /\ status' = [status EXCEPT ![arg[p]] = "running"]
    /\ loop' = [loop EXCEPT ![mine[p]] = "top"]
    /\ Return(p)
    /\ UNCHANGED <<idVars, tunnels, listener, ctx, mu, runs, owner, watch, open, cancelled,
                   closing, overlapped>>

-----------------------------------------------------------------------------
(* StopTunnel and DeleteTunnel lock m.mu to their end.                     *)
LockTunnel(p, t, call) ==
    /\ mu = NoProc
    /\ t \in tunnels
    /\ mu' = p
    /\ Begin(p, call, t, "cancel")
    /\ Overlap(t)
    /\ UNCHANGED <<idVars, tunnels, fieldVars, runVars, closing>>

StopTunnel(p, t)   == LockTunnel(p, t, "stop")
DeleteTunnel(p, t) == LockTunnel(p, t, "delete")

\* Forgets managed.cancel().
CancelNothing(p) ==
    /\ pc[p] = "cancel"
    /\ Goto(p, "hangup")
    /\ UNCHANGED <<idVars, tunnels, fieldVars, mu, runVars, closing, overlapped>>

(* managed.cancel(), when there is one.                                    *)
CancelContext(p) ==
    /\ pc[p] = "cancel"
    /\ cancelled' = cancelled \cup ({ctx[arg[p]]} \ {0})
    /\ Goto(p, "hangup")
    /\ UNCHANGED <<idVars, tunnels, fieldVars, mu, runs, owner, watch, open, closing, loop,
                   overlapped>>

(* managed.listener.Close(), when there is one; only Stop forgets it.      *)
CloseListener(p) ==
    /\ pc[p] = "hangup" /\ op[p] # "close"
    /\ open' = open \ {listener[arg[p]]}
    /\ listener' = IF op[p] = "stop" THEN [listener EXCEPT ![arg[p]] = 0] ELSE listener
    /\ Goto(p, "finish")
    /\ UNCHANGED <<idVars, tunnels, ctx, status, mu, runs, owner, watch, cancelled, closing,
                   loop, overlapped>>

(* Status = stopped, or delete(m.tunnels, id); unlock.                     *)
FinishStop(p) ==
    /\ pc[p] = "finish" /\ op[p] = "stop"
    /\ status' = [status EXCEPT ![arg[p]] = "stopped"]
    /\ mu' = NoProc
    /\ Return(p)
    /\ UNCHANGED <<idVars, tunnels, listener, ctx, runVars, closing, overlapped>>

FinishDelete(p) ==
    /\ pc[p] = "finish" /\ op[p] = "delete"
    /\ tunnels' = tunnels \ {arg[p]}
    /\ mu' = NoProc
    /\ Return(p)
    /\ UNCHANGED <<idVars, fieldVars, runVars, closing, overlapped>>

(* Close: cancel the manager's context, without the lock.                  *)
Close(p) ==
    /\ ~closing
    /\ closing' = TRUE
    /\ Begin(p, "close", NoTunnel, "hangup")
    /\ UNCHANGED <<idVars, tunnels, fieldVars, mu, runVars, overlapped>>

(* Under the lock, cancel and close whatever the map has; forget nothing.  *)
CloseAll(p) ==
    /\ pc[p] = "hangup" /\ op[p] = "close"
    /\ mu = NoProc
    /\ cancelled' = cancelled \cup ({ctx[t] : t \in tunnels} \ {0})
    /\ open' = open \ {listener[t] : t \in tunnels}
    /\ Return(p)
    /\ UNCHANGED <<idVars, tunnels, fieldVars, mu, runs, owner, watch, closing, loop,
                   overlapped>>

-----------------------------------------------------------------------------
\* Closes t.listener, the tunnel's present listener.
LoopClosesCurrent(r) ==
    /\ loop[r] = "top" /\ owner[r] \notin remote
    /\ IF Done(ctx[owner[r]])
         THEN /\ open' = open \ {listener[owner[r]]}
              /\ loop' = [loop EXCEPT ![r] = "ended"]
         ELSE /\ loop' = [loop EXCEPT ![r] = "accept"]
              /\ UNCHANGED open
    /\ UNCHANGED <<idVars, tunnels, fieldVars, mu, callVars, runs, owner, watch, cancelled,
                   closing, overlapped>>

(* The accept loop: is t.ctx done?  Then close the loop's own listener.    *)
LoopTop(r) ==
    /\ loop[r] = "top" /\ owner[r] \notin remote
    /\ IF Done(ctx[owner[r]])
         THEN /\ open' = open \ {r}
              /\ loop' = [loop EXCEPT ![r] = "ended"]
         ELSE /\ loop' = [loop EXCEPT ![r] = "accept"]
              /\ UNCHANGED open
    /\ UNCHANGED <<idVars, tunnels, fieldVars, mu, callVars, runs, owner, watch, cancelled,
                   closing, overlapped>>

(* Accept fails on a closed listener.                                      *)
LoopError(r) ==
    /\ loop[r] = "accept"
    /\ r \notin open
    /\ loop' = [loop EXCEPT ![r] = "check"]
    /\ UNCHANGED <<idVars, tunnels, fieldVars, mu, callVars, runs, owner, watch, open,
                   cancelled, closing, overlapped>>

(* A connection arrives: its handler is started.                           *)
LoopAccepts(r) ==
    /\ loop[r] = "accept"
    /\ r \in open
    /\ loop' = [loop EXCEPT ![r] = "top"]
    /\ UNCHANGED <<idVars, tunnels, fieldVars, mu, callVars, runs, owner, watch, open,
                   cancelled, closing, overlapped>>

(* After an error: is t.ctx done?  If not, try again, with no pause.       *)
LoopCheck(r) ==
    /\ loop[r] = "check"
    /\ loop' = [loop EXCEPT ![r] = IF Done(ctx[owner[r]]) THEN "ended" ELSE "top"]
    /\ UNCHANGED <<idVars, tunnels, fieldVars, mu, callVars, runs, owner, watch, open,
                   cancelled, closing, overlapped>>

(* A remote forward's goroutine reads t.ctx once, when it first runs.      *)
RemoteWatches(r) ==
    /\ loop[r] = "top" /\ owner[r] \in remote
    /\ watch' = [watch EXCEPT ![r] = ctx[owner[r]]]
    /\ loop' = [loop EXCEPT ![r] = "wait"]
    /\ UNCHANGED <<idVars, tunnels, fieldVars, mu, callVars, runs, owner, open,
                   cancelled, closing, overlapped>>

(* That context is done: close the SSH session.                            *)
RemoteEnds(r) ==
    /\ loop[r] = "wait"
    /\ Done(watch[r])
    /\ open' = open \ {r}
    /\ loop' = [loop EXCEPT ![r] = "ended"]
    /\ UNCHANGED <<idVars, tunnels, fieldVars, mu, callVars, runs, owner, watch,
                   cancelled, closing, overlapped>>

-----------------------------------------------------------------------------
\* What the program does of itself in goroutine p, once a call has begun.
Continue(p) ==
    \/ StartClient(p) \/ StartFind(p) \/ StartFails(p) \/ StartListens(p)
    \/ StartSetsListener(p) \/ StartSetsContext(p) \/ StartSetsStatus(p)
    \/ CancelContext(p) \/ CloseListener(p) \/ FinishStop(p) \/ FinishDelete(p)
    \/ CloseAll(p)

Loop(r) ==
    \/ LoopTop(r) \/ LoopError(r) \/ LoopCheck(r) \/ RemoteWatches(r) \/ RemoteEnds(r)

Next ==
    \/ \E t \in Tunnels : CreateTunnel(t)
    \/ \E p \in Procs, t \in Tunnels :
         StartTunnel(p, t) \/ StartSOCKS(p, t) \/ StopTunnel(p, t) \/ DeleteTunnel(p, t)
    \/ \E p \in Procs : Close(p) \/ Continue(p)
    \/ \E r \in Runs : Loop(r) \/ LoopAccepts(r)

Spec == Init /\ [][Next]_vars

\* Goroutines that can run are run, and the lock is granted in the end;
\* calls are not fair, and no connection has to arrive.
Fairness ==
    /\ \A p \in Procs : SF_vars(Continue(p))
    /\ \A r \in Runs : WF_vars(Loop(r))

FairSpec == Spec /\ Fairness

-----------------------------------------------------------------------------
TypeOK ==
    /\ created \subseteq Tunnels /\ remote \subseteq created /\ tunnels \subseteq created
    /\ listener \in [Tunnels -> 0..MaxRuns] /\ ctx \in [Tunnels -> 0..MaxRuns]
    /\ status \in [Tunnels -> {"stopped", "running"}]
    /\ mu \in Procs \cup {NoProc}
    /\ op \in [Procs -> Calls] /\ arg \in [Procs -> Tunnels \cup {NoTunnel}]
    /\ pc \in [Procs -> Steps] /\ mine \in [Procs -> 0..MaxRuns]
    /\ runs \in 0..MaxRuns /\ owner \in [Runs -> Tunnels \cup {NoTunnel}]
    /\ watch \in [Runs -> 0..MaxRuns]
    /\ open \subseteq Runs /\ cancelled \subseteq Runs /\ closing \in BOOLEAN
    /\ loop \in [Runs -> Loops]
    /\ overlapped \subseteq Tunnels

\* No call on t is under way.
Quiet(t) == \A p \in Procs : arg[p] # t

(* Between calls a tunnel that says "running" listens, one that says       *)
(* "stopped" or was deleted does not, and nothing listens in its name but  *)
(* t.listener - whatever the accept loops of its earlier runs still do.    *)
(* Tunnels on which a call began during a start are excepted: the fields   *)
(* StartTunnel writes without m.mu (tunnel.go:106-109) then tell nothing.  *)
ListensIffRunning ==
    ~closing => \A t \in created \ (remote \cup overlapped) : Quiet(t) =>
        {r \in open : owner[r] = t} =
            IF t \in tunnels /\ status[t] = "running" THEN {listener[t]} ELSE {}

(* An accept loop whose listener is closed comes to an end, or its tunnel  *)
(* has been started again: then Accept fails for ever and t.ctx, now that  *)
(* of the later run, does not stop it (tunnel.go:120-127).  A stop that    *)
(* overlapped a start may leave such a loop behind without a later run.    *)
LoopsEnd ==
    \A r \in Runs :
        (loop[r] \in {"top", "accept", "check"} /\ owner[r] \notin remote /\ r \notin open)
            ~> \/ loop[r] = "ended"
               \/ owner[r] \in overlapped
               \/ \E t \in Tunnels : owner[r] = t /\ ctx[t] # r

(* After Close every listener and every remote session comes to be closed  *)
(* and its goroutine ended, also when a start or a stop was under way -    *)
(* except on tunnels where a start overlapped another call: those may have *)
(* a listener that no field names, and its loop waits in Accept.           *)
CloseEndsAll ==
    \A r \in Runs :
        closing ~> \/ r \notin open /\ loop[r] \in {"none", "ended"}
                   \/ owner[r] \in overlapped
=============================================================================
