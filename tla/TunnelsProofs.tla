--------------------------- MODULE TunnelsProofs ---------------------------
(***************************************************************************)
(* ListensIffRunning, for any number of tunnels, goroutines and starts.    *)
(*                                                                         *)
(* A tunnel with no call under way is Settled.  What a call relies on from *)
(* one of its statements to the next is Underway: nobody else is working   *)
(* on the tunnel, because Stop and Delete hold m.mu to their end and a     *)
(* call during a start is an overlap.  An accept loop closes its own       *)
(* listener when it finds t.ctx cancelled; it does no harm because t.ctx   *)
(* is not cancelled as long as the listener of the loop is t.listener, and *)
(* because the loop of a run begins when the start is over.                *)
(*                                                                         *)
(* The second part is about the handlers of accepted connections, which    *)
(* share no state with this: where one of them may wait, and for how long. *)
(***************************************************************************)
EXTENDS Tunnels, Connections, TLAPS

HasRun == {"listener", "ctx", "status"}

\* The statements of each call.
Placed(p) ==
    \/ op[p] = "none" /\ pc[p] = "idle"
    \/ op[p] \in {"start", "socks"} /\ pc[p] \in {"client", "listen"} \cup HasRun
    \/ op[p] = "socks" /\ pc[p] = "find"
    \/ op[p] \in {"stop", "delete"} /\ pc[p] \in {"cancel", "hangup", "finish"}
    \/ op[p] = "close" /\ pc[p] = "hangup"

\* What a goroutine's statement says of its tunnel, its run and m.mu.
Shape(p) ==
    /\ Placed(p)
    /\ IF op[p] \in {"none", "close"} THEN arg[p] = NoTunnel ELSE arg[p] \in created
    /\ mu = p <=> op[p] \in {"stop", "delete"}
    /\ pc[p] \in HasRun => mine[p] \in 1..runs /\ owner[mine[p]] = arg[p]
    /\ op[p] = "close" => closing

CallInv == \A p \in Procs : Shape(p)

\* The fields of a tunnel name runs of that tunnel.
RunInv ==
    /\ open \subseteq 1..runs /\ cancelled \subseteq 1..runs
    /\ \A r \in Runs : IF r <= runs THEN owner[r] \in created
                                    ELSE owner[r] = NoTunnel /\ loop[r] = "none"
    /\ \A r \in Runs : loop[r] = "wait" => owner[r] \in remote
    /\ \A t \in Tunnels : listener[t] # 0 => listener[t] <= runs /\ owner[listener[t]] = t
    /\ \A t \in Tunnels : ctx[t] # 0 => ctx[t] <= runs /\ owner[ctx[t]] = t
    /\ \A t \in Tunnels \ created : listener[t] = 0 /\ status[t] = "stopped"

OpenOf(t) == {r \in open : owner[r] = t}

Settled(t) ==
    IF t \in tunnels /\ status[t] = "running"
      THEN OpenOf(t) = {listener[t]} /\ ctx[t] = listener[t] /\ ctx[t] \notin cancelled
      ELSE OpenOf(t) = {} /\ (t \in tunnels => listener[t] = 0)

Underway(p, t) ==
    /\ t \in tunnels
    /\ pc[p] \in {"client", "find", "listen"} \cup HasRun => status[t] = "stopped"
    /\ pc[p] \in {"client", "find", "listen"} => OpenOf(t) = {} /\ listener[t] = 0
    /\ pc[p] \in HasRun =>
         OpenOf(t) = {mine[p]} /\ loop[mine[p]] = "none" /\ mine[p] \notin cancelled
    /\ pc[p] \in {"ctx", "status"} => listener[t] = mine[p]
    /\ pc[p] = "status" => ctx[t] = mine[p]
    /\ pc[p] = "cancel" => Settled(t)
    /\ pc[p] = "hangup" => OpenOf(t) \subseteq {listener[t]}
    /\ pc[p] = "finish" => OpenOf(t) = {} /\ (op[p] = "stop" => listener[t] = 0)

Orderly(t) ==
    /\ \A p, q \in Procs : arg[p] = t /\ arg[q] = t => p = q
    /\ Quiet(t) => Settled(t)
    /\ \A p \in Procs : arg[p] = t => Underway(p, t)

Plain == created \ (remote \cup overlapped)

OrderInv == ~closing => \A t \in Plain : Orderly(t)

IInv == TypeOK /\ CallInv /\ RunInv /\ OrderInv

-----------------------------------------------------------------------------
(* Types.                                                                  *)

LEMMA NextType == TypeOK /\ CallInv /\ [Next]_vars => TypeOK'
<1> SUFFICES ASSUME TypeOK, CallInv, [Next]_vars
             PROVE  TypeOK'
  OBVIOUS
<1> USE TunnelsAssumption
    DEF TypeOK, Calls, Steps, Loops, callVars, idVars, fieldVars, runVars
<1>0. closing' \in BOOLEAN
  BY Zenon DEF Next, vars, CreateTunnel, StartTunnel, StartSOCKS, StopTunnel, DeleteTunnel,
     LockTunnel, Close, Continue, StartClient, StartFind, StartFails, StartListens,
     StartSetsListener, StartSetsContext, StartSetsStatus, CancelContext, CloseListener,
     FinishStop, FinishDelete, CloseAll, Loop, LoopTop, LoopError, LoopCheck,
     RemoteWatches, RemoteEnds, LoopAccepts
<1>1. ASSUME NEW t \in Tunnels, CreateTunnel(t)
      PROVE  TypeOK'
  BY <1>0, <1>1 DEF CreateTunnel
<1>2. ASSUME NEW p \in Procs, NEW t \in Tunnels,
             \/ StartTunnel(p, t) \/ StartSOCKS(p, t) \/ StopTunnel(p, t)
             \/ DeleteTunnel(p, t)
      PROVE  TypeOK'
  BY <1>0, <1>2 DEF StartTunnel, StartSOCKS, StopTunnel, DeleteTunnel, LockTunnel, Begin,
                    Overlap
<1>3. ASSUME NEW p \in Procs, Close(p)
      PROVE  TypeOK'
  BY <1>0, <1>3 DEF Close, Begin
<1>4. ASSUME NEW p \in Procs, Continue(p)
      PROVE  TypeOK'
  <2>1. arg[p] \in Tunnels \cup {NoTunnel} /\ mine[p] \in 0..MaxRuns /\ Shape(p)
    BY DEF CallInv
  <2>2. CASE StartClient(p) \/ StartFind(p) \/ StartFails(p) \/ StartSetsListener(p)
             \/ StartSetsContext(p) \/ StartSetsStatus(p)
    BY <1>0, <2>1, <2>2
    DEF StartClient, StartFind, StartFails, StartSetsListener, StartSetsContext,
        StartSetsStatus, Goto, Return
  <2>3. CASE StartListens(p)
    <3>1. runs + 1 \in 0..MaxRuns /\ runs + 1 \in Runs
      BY <2>3 DEF StartListens, Runs
    <3>2. QED
      BY <1>0, <2>1, <2>3, <3>1 DEF StartListens
  <2>4. CASE CancelContext(p)
    <3>1. ctx[arg[p]] \in 0..MaxRuns
      BY <2>1, <2>4 DEF CancelContext, Shape, Placed
    <3>2. {ctx[arg[p]]} \ {0} \subseteq Runs
      BY <3>1 DEF Runs
    <3>3. cancelled' \subseteq Runs
      BY <2>4, <3>2 DEF CancelContext
    <3>4. pc' \in [Procs -> Steps]
      BY <2>4 DEF CancelContext, Goto
    <3>5. QED
      BY <1>0, <2>4, <3>3, <3>4 DEF CancelContext, Goto
  <2>5. CASE CloseAll(p)
    <3>1. {ctx[t] : t \in tunnels} \ {0} \subseteq Runs
      BY DEF Runs
    <3>2. cancelled' \subseteq Runs /\ open' \subseteq Runs
      BY <2>5, <3>1 DEF CloseAll
    <3>3. /\ op' \in [Procs -> Calls] /\ arg' \in [Procs -> Tunnels \cup {NoTunnel}]
          /\ pc' \in [Procs -> Steps] /\ mine' \in [Procs -> 0..MaxRuns]
      BY <2>5 DEF CloseAll, Return
    <3>4. QED
      BY <1>0, <2>5, <3>2, <3>3 DEF CloseAll
  <2>6. CASE CloseListener(p) \/ FinishStop(p) \/ FinishDelete(p)
    BY <1>0, <2>1, <2>6 DEF CloseListener, FinishStop, FinishDelete, Goto, Return
  <2>7. QED
    BY <1>4, <2>2, <2>3, <2>4, <2>5, <2>6 DEF Continue
<1>5. ASSUME NEW r \in Runs, Loop(r) \/ LoopAccepts(r)
      PROVE  TypeOK'
  <2>1. watch' \in [Runs -> 0..MaxRuns]
    BY <1>5 DEF Loop, LoopTop, LoopError, LoopCheck, RemoteWatches, RemoteEnds, LoopAccepts
  <2>2. QED
    BY <1>0, <1>5, <2>1 DEF Loop, LoopTop, LoopError, LoopCheck, RemoteWatches, RemoteEnds, LoopAccepts
<1>6. CASE UNCHANGED vars
  BY <1>6 DEF vars
<1>7. QED
  BY <1>1, <1>2, <1>3, <1>4, <1>5, <1>6 DEF Next

-----------------------------------------------------------------------------
(* Calls and runs.                                                         *)

\* Ids, runs and the two flags that are never taken back only grow.
Grows ==
    /\ created \subseteq created' /\ (closing => closing')
    /\ runs' \in Nat /\ runs <= runs' /\ \A r \in 1..runs : owner'[r] = owner[r]

LEMMA NextGrows == TypeOK /\ [Next]_vars => Grows
<1> SUFFICES ASSUME TypeOK, [Next]_vars
             PROVE  Grows
  OBVIOUS
<1>1. CASE \E p \in Procs : StartListens(p)
  BY <1>1 DEF StartListens, Grows, TypeOK, idVars
<1>2. CASE ~\E p \in Procs : StartListens(p)
  BY <1>2 DEF Grows, TypeOK, idVars, runVars, Next, vars, CreateTunnel, StartTunnel, StartSOCKS,
     StopTunnel, DeleteTunnel, LockTunnel, Close, Continue, StartClient, StartFind,
     StartFails, StartSetsListener, StartSetsContext, StartSetsStatus, CancelContext,
     CloseListener, FinishStop, FinishDelete, CloseAll, Loop, LoopTop, LoopError,
     LoopCheck, RemoteWatches, RemoteEnds, LoopAccepts
<1>3. QED
  BY <1>1, <1>2

\* The step leaves goroutine q where it is.
Unmoved(q) ==
    /\ op'[q] = op[q] /\ arg'[q] = arg[q] /\ pc'[q] = pc[q] /\ mine'[q] = mine[q]
    /\ mu' = q <=> mu = q

LEMMA UnmovedShape ==
    ASSUME CallInv, Grows, TypeOK, NEW q \in Procs, Unmoved(q)
    PROVE  Shape(q)'
<1>1. Shape(q)
  BY DEF CallInv
<1>2. Placed(q)'
  BY <1>1 DEF Shape, Placed, Unmoved
<1>3. pc'[q] \in HasRun => mine'[q] \in 1..runs' /\ owner'[mine'[q]] = arg'[q]
  BY <1>1 DEF Shape, Unmoved, Grows, TypeOK
<1>4. IF op'[q] \in {"none", "close"} THEN arg'[q] = NoTunnel ELSE arg'[q] \in created'
  BY <1>1 DEF Shape, Unmoved, Grows
<1>5. /\ mu' = q <=> op'[q] \in {"stop", "delete"}
      /\ op'[q] = "close" => closing'
  BY <1>1 DEF Shape, Unmoved, Grows
<1>6. QED
  BY <1>2, <1>3, <1>4, <1>5 DEF Shape, HasRun

LEMMA OthersUnmoved ==
    ASSUME TypeOK, NEW p \in Procs, NEW q \in Procs, q # p,
           \/ Continue(p) \/ Close(p)
           \/ \E t \in Tunnels : \/ StartTunnel(p, t) \/ StartSOCKS(p, t)
                                 \/ StopTunnel(p, t) \/ DeleteTunnel(p, t),
           CallInv
    PROVE  Unmoved(q)
<1> USE TunnelsAssumption DEF TypeOK, Unmoved, callVars
<1>1. CASE \E t \in Tunnels : \/ StartTunnel(p, t) \/ StartSOCKS(p, t)
                              \/ StopTunnel(p, t) \/ DeleteTunnel(p, t)
  BY <1>1 DEF StartTunnel, StartSOCKS, StopTunnel, DeleteTunnel, LockTunnel, Begin
<1>2. CASE Close(p)
  BY <1>2 DEF Close, Begin
<1>3. CASE FinishStop(p) \/ FinishDelete(p)
  BY <1>3 DEF FinishStop, FinishDelete, Return, CallInv, Shape
<1>4. CASE Continue(p) /\ ~(FinishStop(p) \/ FinishDelete(p))
  BY <1>4 DEF Continue, StartClient, StartFind, StartFails, StartListens,
     StartSetsListener, StartSetsContext, StartSetsStatus, CancelContext, CloseListener,
     CloseAll, Goto, Return
<1>5. QED
  BY <1>1, <1>2, <1>3, <1>4

LEMMA NextCalls == TypeOK /\ CallInv /\ [Next]_vars => CallInv'
<1> SUFFICES ASSUME TypeOK, CallInv, [Next]_vars
             PROVE  CallInv'
  OBVIOUS
<1>0. Grows
  BY NextGrows
<1> USE TunnelsAssumption DEF TypeOK
<1>1. ASSUME NEW p \in Procs, NEW t \in Tunnels,
             \/ StartTunnel(p, t) \/ StartSOCKS(p, t) \/ StopTunnel(p, t)
             \/ DeleteTunnel(p, t)
      PROVE  CallInv'
  <2>1. Shape(p) /\ pc[p] = "idle"
    BY <1>1 DEF CallInv, StartTunnel, StartSOCKS, StopTunnel, DeleteTunnel, LockTunnel, Begin
  <2>2. Shape(p)'
    BY <1>1, <2>1 DEF StartTunnel, StartSOCKS, StopTunnel, DeleteTunnel, LockTunnel, Begin,
                      Shape, Placed, HasRun, idVars
  <2>3. QED
    BY <1>0, <1>1, <2>2, OthersUnmoved, UnmovedShape DEF CallInv
<1>2. ASSUME NEW p \in Procs, Close(p)
      PROVE  CallInv'
  <2>1. Shape(p)
    BY DEF CallInv
  <2>2. Shape(p)'
    BY <1>2, <2>1 DEF Close, Begin, Shape, Placed, HasRun
  <2>3. QED
    BY <1>0, <1>2, <2>2, OthersUnmoved, UnmovedShape DEF CallInv
<1>3. ASSUME NEW p \in Procs, Continue(p)
      PROVE  CallInv'
  <2>1. Shape(p)
    BY DEF CallInv
  <2>2. CASE StartListens(p)
    <3>1. arg[p] \in created /\ op[p] \in {"start", "socks"} /\ runs + 1 \in Runs /\ mu # p
      BY <2>1, <2>2 DEF StartListens, Shape, Placed, HasRun, Runs
    <3>2. /\ mine'[p] = runs + 1 /\ runs' = runs + 1 /\ owner'[runs + 1] = arg[p]
          /\ UNCHANGED <<op, arg, mu, created, closing>>
          /\ pc'[p] \in {"ctx", "listener"}
      BY <2>2, <3>1 DEF StartListens, idVars
    <3>3. Shape(p)'
      BY <3>1, <3>2 DEF Shape, Placed, HasRun
    <3>4. QED
      BY <1>0, <1>3, <3>3, OthersUnmoved, UnmovedShape DEF CallInv
  <2>3. CASE ~StartListens(p)
    <3>1. Shape(p)'
      BY <1>3, <2>1, <2>3
      DEF Continue, StartClient, StartFind, StartFails, StartSetsListener, StartSetsContext,
          StartSetsStatus, CancelContext, CloseListener, FinishStop, FinishDelete, CloseAll,
          Goto, Return, Shape, Placed, HasRun, idVars, runVars
    <3>2. QED
      BY <1>0, <1>3, <3>1, OthersUnmoved, UnmovedShape DEF CallInv
  <2>4. QED
    BY <2>2, <2>3
<1>4. CASE \/ \E t \in Tunnels : CreateTunnel(t)
           \/ \E r \in Runs : Loop(r) \/ LoopAccepts(r)
           \/ UNCHANGED vars
  <2>1. \A q \in Procs : Unmoved(q)
    BY <1>4 DEF CreateTunnel, Loop, LoopTop, LoopError, LoopCheck, RemoteWatches, RemoteEnds,
                LoopAccepts, vars, callVars, Unmoved
  <2>2. QED
    BY <1>0, <2>1, UnmovedShape DEF CallInv
<1>5. QED
  BY <1>1, <1>2, <1>3, <1>4 DEF Next

(* A step that begins no run. *)
LEMMA KeepsRuns ==
    ASSUME TypeOK, RunInv, UNCHANGED <<runs, owner>>,
           created \subseteq created', remote \subseteq remote',
           open' \subseteq open, cancelled' \subseteq 1..runs,
           \A r \in Runs : \/ loop'[r] = loop[r]
                           \/ r <= runs /\ (loop'[r] = "wait" => owner[r] \in remote),
           \A t \in Tunnels : \/ listener'[t] = listener[t]
                              \/ listener'[t] = 0
                              \/ /\ listener'[t] \in 1..runs /\ owner[listener'[t]] = t
                                 /\ t \in created,
           \A t \in Tunnels : \/ ctx'[t] = ctx[t]
                              \/ ctx'[t] \in 1..runs /\ owner[ctx'[t]] = t,
           \A t \in Tunnels : status'[t] = status[t] \/ status'[t] = "stopped" \/ t \in created
    PROVE  RunInv'
<1>1. open' \subseteq 1..runs' /\ cancelled' \subseteq 1..runs'
  BY DEF RunInv
<1>2. \A r \in Runs : IF r <= runs' THEN owner'[r] \in created'
                                   ELSE owner'[r] = NoTunnel /\ loop'[r] = "none"
  BY DEF RunInv
<1>3. \A r \in Runs : loop'[r] = "wait" => owner'[r] \in remote'
  BY DEF RunInv
<1>4. \A t \in Tunnels : listener'[t] # 0 => listener'[t] <= runs' /\ owner'[listener'[t]] = t
  BY DEF RunInv, TypeOK
<1>5. \A t \in Tunnels : ctx'[t] # 0 => ctx'[t] <= runs' /\ owner'[ctx'[t]] = t
  BY DEF RunInv, TypeOK
<1>6. \A t \in Tunnels \ created' : listener'[t] = 0 /\ status'[t] = "stopped"
  BY DEF RunInv
<1>7. QED
  BY <1>1, <1>2, <1>3, <1>4, <1>5, <1>6 DEF RunInv

LEMMA NextRuns == TypeOK /\ CallInv /\ RunInv /\ [Next]_vars => RunInv'
<1> SUFFICES ASSUME TypeOK, CallInv, RunInv, [Next]_vars
             PROVE  RunInv'
  OBVIOUS
<1>0. created \subseteq created' /\ runs \in Nat /\ cancelled \subseteq 1..runs
  BY NextGrows DEF Grows, TypeOK, RunInv
<1>1. CASE \E p \in Procs : StartListens(p)
  <2>1. PICK p \in Procs : StartListens(p)
    BY <1>1
  <2>2. arg[p] \in created /\ runs + 1 \in Runs /\ owner \in [Runs -> Tunnels \cup {NoTunnel}]
    <3>1. pc[p] = "listen" /\ Shape(p)
      BY <2>1 DEF StartListens, CallInv
    <3>2. arg[p] \in created
      BY <3>1 DEF Shape, Placed
    <3>3. runs + 1 \in Runs
      BY <1>0, <2>1, TunnelsAssumption DEF StartListens, Runs
    <3>4. QED
      BY <3>2, <3>3 DEF TypeOK
  <2>3. /\ runs' = runs + 1 /\ open' = open \cup {runs + 1}
        /\ owner' = [owner EXCEPT ![runs + 1] = arg[p]]
        /\ UNCHANGED <<created, remote, listener, ctx, status, cancelled, loop>>
    BY <2>1 DEF StartListens, idVars, fieldVars
  <2>4. /\ open' \subseteq 1..runs' /\ cancelled' \subseteq 1..runs'
        /\ \A t \in Tunnels \ created' : listener'[t] = 0 /\ status'[t] = "stopped"
    <3>1. 1..runs \subseteq 1..(runs + 1) /\ runs + 1 \in 1..(runs + 1)
      BY <1>0
    <3>2. open \subseteq 1..runs /\ cancelled \subseteq 1..runs
      BY DEF RunInv
    <3>3. \A t \in Tunnels \ created' : listener'[t] = 0 /\ status'[t] = "stopped"
      BY <2>3 DEF RunInv
    <3>4. QED
      BY <2>3, <3>1, <3>2, <3>3
  <2>5. \A r \in Runs : IF r <= runs' THEN owner'[r] \in created'
                                     ELSE owner'[r] = NoTunnel /\ loop'[r] = "none"
    <3> TAKE r \in Runs
    <3>1. CASE r = runs + 1
      BY <1>0, <2>2, <2>3, <3>1
    <3>2. CASE r # runs + 1
      <4>1. owner'[r] = owner[r] /\ loop'[r] = loop[r] /\ (r <= runs' <=> r <= runs)
        BY <1>0, <2>2, <2>3, <3>2 DEF Runs
      <4>2. QED
        BY <1>0, <4>1 DEF RunInv
    <3>3. QED
      BY <3>1, <3>2
  <2>6. \A r \in 1..runs : owner'[r] = owner[r]
    BY <1>0, <2>2, <2>3 DEF Runs, TypeOK
  <2>7. \A r \in Runs : loop'[r] = "wait" => owner'[r] \in remote'
    BY <1>0, <2>3, <2>6 DEF RunInv, Runs
  <2>8. /\ \A t \in Tunnels : listener'[t] # 0 => listener'[t] <= runs' /\ owner'[listener'[t]] = t
        /\ \A t \in Tunnels : ctx'[t] # 0 => ctx'[t] <= runs' /\ owner'[ctx'[t]] = t
    BY <1>0, <2>2, <2>3, <2>6 DEF RunInv, TypeOK
  <2>9. QED
    BY <2>4, <2>5, <2>7, <2>8 DEF RunInv
<1>2. ASSUME NEW t \in Tunnels, CreateTunnel(t)
      PROVE  RunInv'
  BY <1>0, <1>2, KeepsRuns DEF CreateTunnel, fieldVars, runVars
<1>3. ASSUME NEW p \in Procs, NEW t \in Tunnels,
             \/ StartTunnel(p, t) \/ StartSOCKS(p, t) \/ StopTunnel(p, t)
             \/ DeleteTunnel(p, t)
      PROVE  RunInv'
  BY <1>0, <1>3, KeepsRuns DEF StartTunnel, StartSOCKS, StopTunnel, DeleteTunnel, LockTunnel,
     idVars, fieldVars, runVars
<1>4. ASSUME NEW p \in Procs, Close(p)
      PROVE  RunInv'
  BY <1>0, <1>4, KeepsRuns DEF Close, idVars, fieldVars, runVars
<1>5. ASSUME NEW p \in Procs, Continue(p), ~StartListens(p)
      PROVE  RunInv'
  <2>0. Shape(p)
    BY DEF CallInv
  <2>1. CASE StartClient(p) \/ StartFind(p) \/ StartFails(p) \/ FinishDelete(p)
    BY <1>0, <2>1, KeepsRuns DEF StartClient, StartFind, StartFails, FinishDelete, idVars,
       fieldVars, runVars
  <2>2. CASE StartSetsListener(p) \/ StartSetsContext(p)
    <3>1. mine[p] \in 1..runs /\ owner[mine[p]] = arg[p] /\ arg[p] \in created
      BY <2>0, <2>2 DEF StartSetsListener, StartSetsContext, Shape, Placed, HasRun
    <3>2. /\ UNCHANGED <<created, remote, status, runs, owner, open, cancelled, loop>>
          /\ listener' \in {listener, [listener EXCEPT ![arg[p]] = mine[p]]}
          /\ ctx' \in {ctx, [ctx EXCEPT ![arg[p]] = mine[p]]}
      BY <2>2 DEF StartSetsListener, StartSetsContext, idVars, runVars
    <3>3. \A t \in Tunnels : listener'[t] = listener[t] \/ (t = arg[p] /\ listener'[t] = mine[p])
      BY <3>2 DEF TypeOK
    <3>4. \A t \in Tunnels : ctx'[t] = ctx[t] \/ (t = arg[p] /\ ctx'[t] = mine[p])
      BY <3>2 DEF TypeOK
    <3>5. QED
      BY <1>0, <3>1, <3>2, <3>3, <3>4, KeepsRuns
  <2>3. CASE StartSetsStatus(p)
    <3>1. mine[p] \in 1..runs /\ arg[p] \in created
      BY <2>0, <2>3 DEF StartSetsStatus, Shape, Placed, HasRun
    <3>2. /\ UNCHANGED <<created, remote, listener, ctx, runs, owner, open, cancelled>>
          /\ \A t \in Tunnels : status'[t] = status[t] \/ t = arg[p]
          /\ \A r \in Runs : loop'[r] = loop[r] \/ (r = mine[p] /\ loop'[r] = "top")
      BY <2>3 DEF StartSetsStatus, idVars, TypeOK
    <3>3. QED
      BY <1>0, <3>1, <3>2, KeepsRuns
  <2>4. CASE CancelContext(p)
    <3>1. arg[p] \in Tunnels
      BY <2>0, <2>4 DEF CancelContext, Shape, Placed, TypeOK
    <3>2. ctx[arg[p]] = 0 \/ ctx[arg[p]] \in 1..runs
      BY <3>1 DEF RunInv, TypeOK
    <3>3. cancelled' \subseteq 1..runs
      BY <1>0, <2>4, <3>2 DEF CancelContext
    <3>4. QED
      BY <1>0, <2>4, <3>3, KeepsRuns DEF CancelContext, idVars, fieldVars
  <2>5. CASE CloseListener(p) \/ FinishStop(p)
    <3>1. /\ UNCHANGED <<created, remote, ctx, runs, owner, cancelled, loop>>
          /\ open' \subseteq open
          /\ \A t \in Tunnels : listener'[t] \in {listener[t], 0}
          /\ \A t \in Tunnels : status'[t] \in {status[t], "stopped"}
      BY <2>5 DEF CloseListener, FinishStop, idVars, runVars, TypeOK
    <3>2. QED
      BY <1>0, <3>1, KeepsRuns
  <2>6. CASE CloseAll(p)
    <3>1. \A t \in tunnels : ctx[t] = 0 \/ ctx[t] \in 1..runs
      BY DEF RunInv, TypeOK
    <3>2. {ctx[t] : t \in tunnels} \ {0} \subseteq 1..runs
      BY <3>1
    <3>3. cancelled' \subseteq 1..runs /\ open' \subseteq open
      BY <1>0, <2>6, <3>2 DEF CloseAll
    <3>4. QED
      BY <1>0, <2>6, <3>3, KeepsRuns DEF CloseAll, idVars, fieldVars
  <2>7. QED
    BY <1>5, <2>1, <2>2, <2>3, <2>4, <2>5, <2>6 DEF Continue
<1>6. ASSUME NEW r \in Runs, Loop(r) \/ LoopAccepts(r)
      PROVE  RunInv'
  <2>1. /\ UNCHANGED <<created, remote, listener, ctx, status, runs, owner, cancelled>>
        /\ open' \subseteq open /\ loop[r] # "none"
        /\ \A s \in Runs : loop'[s] = loop[s] \/ (s = r /\ (loop'[s] = "wait" => owner[s] \in remote))
    BY <1>6 DEF Loop, LoopTop, LoopError, LoopCheck, RemoteWatches, RemoteEnds, LoopAccepts,
                idVars, fieldVars, TypeOK
  <2>2. r <= runs
    BY <2>1 DEF RunInv
  <2>3. QED
    BY <1>0, <2>1, <2>2, KeepsRuns
<1>7. CASE UNCHANGED vars
  BY <1>0, <1>7, KeepsRuns DEF vars
<1>8. QED
  BY <1>1, <1>2, <1>3, <1>4, <1>5, <1>6, <1>7 DEF Next
-----------------------------------------------------------------------------
(* One tunnel at a time.                                                   *)

\* Nothing the order of tunnel t rests on is changed.
Untouched(t) ==
    /\ OpenOf(t)' = OpenOf(t)
    /\ listener'[t] = listener[t] /\ ctx'[t] = ctx[t] /\ status'[t] = status[t]
    /\ t \in tunnels' <=> t \in tunnels
    /\ \A q \in Procs : arg[q] = t \/ arg'[q] = t => Unmoved(q)
    /\ \A r \in 1..runs : owner[r] = t => /\ r \in cancelled' => r \in cancelled
                                          /\ loop[r] = "none" => loop'[r] = "none"

LEMMA UntouchedOrderly ==
    ASSUME CallInv, RunInv, NEW t \in created, t # NoTunnel, Orderly(t), Untouched(t)
    PROVE  Orderly(t)'
<1>1. /\ OpenOf(t)' = OpenOf(t)
      /\ listener'[t] = listener[t] /\ ctx'[t] = ctx[t] /\ status'[t] = status[t]
      /\ t \in tunnels' <=> t \in tunnels
  BY DEF Untouched
<1>2. \A q \in Procs : arg[q] = t \/ arg'[q] = t => Unmoved(q)
  BY DEF Untouched
<1>3. \A r \in 1..runs : owner[r] = t => /\ r \in cancelled' => r \in cancelled
                                         /\ loop[r] = "none" => loop'[r] = "none"
  BY DEF Untouched
<1>4. \A q \in Procs : arg'[q] = t <=> arg[q] = t
  BY <1>2 DEF Unmoved
<1>5. ASSUME Settled(t)
      PROVE  Settled(t)'
  <2>1. CASE t \in tunnels /\ status[t] = "running"
    <3>1. listener[t] \in OpenOf(t) /\ ctx[t] = listener[t] /\ ctx[t] \notin cancelled
      BY <1>5, <2>1 DEF Settled
    <3>2. ctx[t] \in 1..runs /\ owner[ctx[t]] = t
      BY <3>1 DEF OpenOf, RunInv
    <3>3. ctx[t] \notin cancelled'
      BY <1>3, <3>1, <3>2
    <3>4. QED
      BY <1>1, <1>5, <2>1, <3>3 DEF Settled
  <2>2. CASE ~(t \in tunnels /\ status[t] = "running")
    BY <1>1, <1>5, <2>2 DEF Settled
  <2>3. QED
    BY <2>1, <2>2
<1>6. ASSUME NEW q \in Procs, arg[q] = t
      PROVE  Underway(q, t)'
  <2>1. Underway(q, t) /\ Shape(q)
    BY <1>6 DEF Orderly, CallInv
  <2>2. op'[q] = op[q] /\ pc'[q] = pc[q] /\ mine'[q] = mine[q]
    BY <1>2, <1>6 DEF Unmoved
  <2>3. CASE pc[q] \in HasRun
    <3>1. mine[q] \in 1..runs /\ owner[mine[q]] = t
      BY <1>6, <2>1, <2>3 DEF Shape
    <3>2. /\ OpenOf(t)' = {mine'[q]} /\ loop'[mine'[q]] = "none"
          /\ mine'[q] \notin cancelled'
      BY <1>1, <1>3, <2>1, <2>2, <2>3, <3>1 DEF Underway
    <3>3. QED
      BY <1>1, <2>1, <2>2, <2>3, <3>2 DEF Underway, HasRun
  <2>4. CASE pc[q] \notin HasRun
    BY <1>1, <1>5, <2>1, <2>2, <2>4 DEF Underway, HasRun
  <2>5. QED
    BY <2>3, <2>4
<1>7. (\A p, q \in Procs : arg[p] = t /\ arg[q] = t => p = q)'
  BY <1>4 DEF Orderly
<1>8. Quiet(t)' => Settled(t)'
  BY <1>4, <1>5 DEF Orderly, Quiet
<1>9. QED
  BY <1>4, <1>6, <1>7, <1>8 DEF Orderly

(* The only call on a tunnel moves on, or returns. *)
LEMMA OnlyCall ==
    ASSUME NEW p \in Procs, NEW t, t # NoTunnel,
           \A q \in Procs \ {p} : arg[q] # t /\ Unmoved(q),
           \/ arg'[p] = t /\ Underway(p, t)'
           \/ arg'[p] = NoTunnel /\ Settled(t)'
    PROVE  Orderly(t)'
<1>1. \A q \in Procs \ {p} : arg'[q] # t
  BY DEF Unmoved
<1>2. CASE arg'[p] = t /\ Underway(p, t)'
  <2>1. ~Quiet(t)'
    BY <1>2 DEF Quiet
  <2>2. QED
    BY <1>1, <1>2, <2>1 DEF Orderly
<1>3. CASE arg'[p] = NoTunnel /\ Settled(t)'
  BY <1>1, <1>3 DEF Orderly
<1>4. QED
  BY <1>2, <1>3

(* A call that may begin on a tunnel finds nobody there. *)
LEMMA AloneAtFirst ==
    ASSUME CallInv, NEW t \in Tunnels, mu = NoProc, Starting(t) = {}
    PROVE  Quiet(t)
<1> SUFFICES ASSUME NEW q \in Procs, arg[q] = t
             PROVE  FALSE
  BY DEF Quiet
<1>1. Shape(q) /\ t # NoTunnel /\ mu # q
  BY TunnelsAssumption DEF CallInv
<1>2. op[q] \in {"start", "socks"}
  BY <1>1 DEF Shape, Placed
<1>3. q \in Starting(t)
  BY <1>2 DEF Starting
<1>4. QED
  BY <1>3

LEMMA FreshTunnel ==
    ASSUME TypeOK, CallInv, RunInv, NEW t \in Tunnels \ created
    PROVE  OpenOf(t) = {} /\ listener[t] = 0 /\ status[t] = "stopped" /\ Quiet(t)
<1>1. \A r \in open : owner[r] \in created
  BY DEF RunInv, TypeOK, Runs
<1>2. OpenOf(t) = {}
  BY <1>1 DEF OpenOf
<1>3. \A q \in Procs : arg[q] # t
  BY TunnelsAssumption DEF CallInv, Shape
<1>4. QED
  BY <1>2, <1>3 DEF RunInv, Quiet

(* A settled tunnel without a listener is stopped, with nothing open. *)
LEMMA NoListener ==
    ASSUME RunInv, NEW t \in tunnels, Settled(t), listener[t] = 0
    PROVE  status[t] # "running" /\ OpenOf(t) = {}
<1>1. 0 \notin OpenOf(t)
  BY DEF OpenOf, RunInv
<1>2. QED
  BY <1>1 DEF Settled

(* What goroutine p does for its own tunnel leaves the others untouched. *)
LEMMA ContinueElsewhere ==
    ASSUME TypeOK, CallInv, RunInv, NEW p \in Procs, Continue(p), ~CloseAll(p),
           NEW t \in created, t # arg[p]
    PROVE  Untouched(t)
<1> DEFINE u == arg[p]
<1>1. Shape(p) /\ t \in Tunnels /\ t # NoTunnel
  BY TunnelsAssumption DEF CallInv, TypeOK
<1>2. \A q \in Procs : arg[q] = t \/ arg'[q] = t => Unmoved(q)
  <2>1. arg'[p] \in {arg[p], NoTunnel}
    BY DEF TypeOK, Continue, StartClient, StartFind, StartFails, StartListens,
       StartSetsListener, StartSetsContext, StartSetsStatus, CancelContext, CloseListener,
       FinishStop, FinishDelete, CloseAll, Goto, Return
  <2>2. QED
    BY <1>1, <2>1, OthersUnmoved
<1>3. u \in Tunnels
  BY <1>1 DEF TypeOK, Shape, Placed, HasRun, Continue, StartClient, StartFind, StartFails,
     StartListens, StartSetsListener, StartSetsContext, StartSetsStatus, CancelContext,
     CloseListener, FinishStop, FinishDelete
<1>4. CASE StartClient(p) \/ StartFind(p) \/ StartFails(p) \/ FinishDelete(p)
  <2>1. /\ UNCHANGED <<listener, ctx, status, owner, open, cancelled, loop>>
        /\ t \in tunnels' <=> t \in tunnels
    BY <1>4 DEF StartClient, StartFind, StartFails, FinishDelete, fieldVars, runVars
  <2>2. QED
    BY <1>2, <2>1 DEF Untouched, OpenOf
<1>5. CASE StartListens(p)
  <2>1. /\ UNCHANGED <<listener, ctx, status, cancelled, loop, tunnels>>
        /\ open' = open \cup {runs + 1} /\ owner' = [owner EXCEPT ![runs + 1] = u]
        /\ runs + 1 \in Runs /\ runs \in Nat
    BY <1>5, TunnelsAssumption DEF StartListens, fieldVars, Runs, TypeOK
  <2>2. OpenOf(t)' = OpenOf(t)
    <3>1. \A r \in open : r # runs + 1 /\ owner'[r] = owner[r]
      BY <2>1 DEF RunInv, TypeOK, Runs
    <3>2. owner'[runs + 1] # t
      BY <2>1 DEF TypeOK
    <3>3. QED
      BY <2>1, <3>1, <3>2 DEF OpenOf
  <2>3. QED
    BY <1>2, <2>1, <2>2 DEF Untouched
<1>6. CASE StartSetsListener(p) \/ StartSetsContext(p)
  <2>1. /\ UNCHANGED <<status, owner, open, cancelled, loop, tunnels>>
        /\ listener'[t] = listener[t] /\ ctx'[t] = ctx[t]
    BY <1>1, <1>6 DEF StartSetsListener, StartSetsContext, runVars, TypeOK
  <2>2. QED
    BY <1>2, <2>1 DEF Untouched, OpenOf
<1>7. CASE StartSetsStatus(p)
  <2>1. owner[mine[p]] = u
    BY <1>1, <1>7 DEF StartSetsStatus, Shape, HasRun
  <2>2. /\ UNCHANGED <<listener, ctx, owner, open, cancelled, tunnels>>
        /\ status'[t] = status[t]
        /\ \A r \in Runs : r # mine[p] => loop'[r] = loop[r]
    BY <1>1, <1>7 DEF StartSetsStatus, TypeOK
  <2>3. 1..runs \subseteq Runs
    BY TunnelsAssumption DEF TypeOK, Runs
  <2>4. \A r \in 1..runs : owner[r] = t => loop'[r] = loop[r]
    BY <1>1, <2>1, <2>2, <2>3
  <2>5. QED
    BY <1>2, <2>2, <2>4 DEF Untouched, OpenOf
<1>8. CASE CancelContext(p)
  <2>1. /\ UNCHANGED <<listener, ctx, status, owner, open, loop, tunnels>>
        /\ cancelled' = cancelled \cup ({ctx[u]} \ {0})
    BY <1>8 DEF CancelContext, fieldVars
  <2>2. ctx[u] = 0 \/ owner[ctx[u]] = u
    BY <1>3 DEF RunInv
  <2>3. \A r \in 1..runs : owner[r] = t /\ r \in cancelled' => r \in cancelled
    BY <2>1, <2>2
  <2>4. QED
    BY <1>2, <2>1, <2>3 DEF Untouched, OpenOf
<1>9. CASE CloseListener(p)
  <2>1. /\ UNCHANGED <<ctx, status, owner, cancelled, loop, tunnels>>
        /\ open' = open \ {listener[u]} /\ listener'[t] = listener[t]
    BY <1>1, <1>9 DEF CloseListener, TypeOK
  <2>2. listener[u] \notin OpenOf(t)
    BY <1>3 DEF RunInv, OpenOf
  <2>3. QED
    BY <1>2, <2>1, <2>2 DEF Untouched, OpenOf
<1>10. CASE FinishStop(p)
  <2>1. /\ UNCHANGED <<listener, ctx, owner, open, cancelled, loop, tunnels>>
        /\ status'[t] = status[t]
    BY <1>1, <1>10 DEF FinishStop, runVars, TypeOK
  <2>2. QED
    BY <1>2, <2>1 DEF Untouched, OpenOf
<1>11. QED
  BY <1>4, <1>5, <1>6, <1>7, <1>8, <1>9, <1>10 DEF Continue

(* And this is what it does to its own. *)
LEMMA ContinueHere ==
    ASSUME TypeOK, CallInv, RunInv, NEW p \in Procs, Continue(p), ~CloseAll(p),
           NEW t \in Plain, arg[p] = t, Orderly(t)
    PROVE  Orderly(t)'
<1>0. t \in Tunnels /\ t # NoTunnel /\ t \in created /\ t \notin remote
  BY TunnelsAssumption DEF Plain, TypeOK
<1>1. Shape(p) /\ Underway(p, t) /\ t \in Tunnels /\ t # NoTunnel /\ t \notin remote
  BY <1>0 DEF CallInv, Orderly
<1>2. \A q \in Procs \ {p} : arg[q] # t /\ Unmoved(q)
  BY OthersUnmoved DEF Orderly
<1>3. ASSUME \/ arg'[p] = t /\ Underway(p, t)'
             \/ arg'[p] = NoTunnel /\ Settled(t)'
      PROVE  Orderly(t)'
  BY <1>1, <1>2, <1>3, OnlyCall
<1> SUFFICES \/ arg'[p] = t /\ Underway(p, t)'
             \/ arg'[p] = NoTunnel /\ Settled(t)'
  BY <1>3
<1>4. ASSUME pc[p] \in {"client", "find", "listen"}, Goto(p, "find") \/ Goto(p, "listen"),
             UNCHANGED <<tunnels, listener, status, owner, open>>
      PROVE  arg'[p] = t /\ Underway(p, t)'
  <2>1. arg'[p] = t /\ pc'[p] \in {"find", "listen"}
    BY <1>4 DEF Goto, TypeOK
  <2>2. OpenOf(t)' = OpenOf(t)
    BY <1>4 DEF OpenOf
  <2>3. t \in tunnels /\ status[t] = "stopped" /\ OpenOf(t) = {} /\ listener[t] = 0
    BY <1>1, <1>4 DEF Underway
  <2>4. QED
    BY <1>4, <2>1, <2>2, <2>3 DEF Underway, HasRun
<1>5. ASSUME pc[p] \in {"client", "find", "listen"}, Return(p),
             UNCHANGED <<tunnels, listener, status, owner, open>>
      PROVE  arg'[p] = NoTunnel /\ Settled(t)'
  <2>1. arg'[p] = NoTunnel
    BY <1>5 DEF Return, TypeOK
  <2>2. OpenOf(t)' = OpenOf(t)
    BY <1>5 DEF OpenOf
  <2>3. status[t] = "stopped" /\ OpenOf(t) = {} /\ listener[t] = 0
    BY <1>1, <1>5 DEF Underway
  <2>4. QED
    BY <1>5, <2>1, <2>2, <2>3 DEF Settled
<1>6. CASE StartClient(p) \/ StartFind(p) \/ StartFails(p)
  <2>1. /\ pc[p] \in {"client", "find", "listen"}
        /\ UNCHANGED <<tunnels, listener, status, owner, open>>
        /\ Goto(p, "find") \/ Goto(p, "listen") \/ Return(p)
    BY <1>6 DEF StartClient, StartFind, StartFails, fieldVars, runVars
  <2>2. QED
    BY <1>4, <1>5, <2>1
<1>7. CASE StartListens(p)
  <2>1. /\ pc[p] = "listen" /\ runs + 1 \in Runs /\ runs \in Nat
        /\ UNCHANGED <<tunnels, listener, status, cancelled, loop, arg>>
        /\ open' = open \cup {runs + 1} /\ owner' = [owner EXCEPT ![runs + 1] = t]
        /\ mine'[p] = runs + 1 /\ pc'[p] = "listener"
    BY <1>1, <1>7, TunnelsAssumption DEF StartListens, fieldVars, Runs, TypeOK
  <2>2. t \in tunnels /\ status[t] = "stopped" /\ OpenOf(t) = {} /\ listener[t] = 0
    BY <1>1, <2>1 DEF Underway
  <2>3. OpenOf(t)' = {runs + 1}
    <3>1. \A r \in open : r # runs + 1 /\ owner'[r] = owner[r]
      BY <2>1 DEF RunInv, TypeOK, Runs
    <3>2. owner'[runs + 1] = t
      BY <2>1 DEF TypeOK
    <3>3. QED
      BY <2>1, <2>2, <3>1, <3>2 DEF OpenOf
  <2>4. loop'[runs + 1] = "none" /\ runs + 1 \notin cancelled'
    BY <2>1 DEF RunInv
  <2>5. QED
    BY <2>1, <2>2, <2>3, <2>4 DEF Underway, HasRun
<1>8. CASE StartSetsListener(p) \/ StartSetsContext(p)
  <2>1. pc[p] \in {"listener", "ctx"}
    BY <1>8 DEF StartSetsListener, StartSetsContext
  <2>2. /\ t \in tunnels /\ status[t] = "stopped" /\ OpenOf(t) = {mine[p]}
        /\ loop[mine[p]] = "none" /\ mine[p] \notin cancelled
    BY <1>1, <2>1 DEF Underway, HasRun
  <2>3. /\ UNCHANGED <<tunnels, status, owner, open, cancelled, loop, op, arg, mine>>
    BY <1>8 DEF StartSetsListener, StartSetsContext, Goto, runVars
  <2>4. listener'[t] = mine[p]
    BY <1>1, <1>8 DEF StartSetsListener, StartSetsContext, Underway, TypeOK
  <2>5. pc'[p] = "ctx" \/ (pc'[p] = "status" /\ ctx'[t] = mine[p])
    BY <1>1, <1>8 DEF StartSetsListener, StartSetsContext, Goto, TypeOK
  <2>6. OpenOf(t)' = OpenOf(t)
    BY <2>3 DEF OpenOf
  <2>7. QED
    BY <2>2, <2>3, <2>4, <2>5, <2>6 DEF Underway, HasRun
<1>9. CASE StartSetsStatus(p)
  <2>1. /\ t \in tunnels /\ OpenOf(t) = {mine[p]} /\ mine[p] \notin cancelled
        /\ listener[t] = mine[p] /\ ctx[t] = mine[p]
    BY <1>1, <1>9 DEF StartSetsStatus, Underway, HasRun
  <2>2. /\ UNCHANGED <<tunnels, listener, ctx, owner, open, cancelled>>
        /\ status'[t] = "running" /\ arg'[p] = NoTunnel
    BY <1>1, <1>9 DEF StartSetsStatus, Return, TypeOK
  <2>3. OpenOf(t)' = OpenOf(t)
    BY <2>2 DEF OpenOf
  <2>4. QED
    BY <2>1, <2>2, <2>3 DEF Settled
<1>10. CASE CancelContext(p)
  <2>1. /\ UNCHANGED <<tunnels, listener, owner, open, op, arg>>
        /\ pc[p] = "cancel" /\ pc'[p] = "hangup"
    BY <1>10 DEF CancelContext, Goto, fieldVars, TypeOK
  <2>2. t \in tunnels /\ OpenOf(t) \subseteq {listener[t]}
    BY <1>1, <2>1 DEF Underway, Settled
  <2>3. OpenOf(t)' = OpenOf(t)
    BY <2>1 DEF OpenOf
  <2>4. QED
    BY <2>1, <2>2, <2>3 DEF Underway, HasRun
<1>11. CASE CloseListener(p)
  <2>1. /\ UNCHANGED <<tunnels, owner, op, arg>>
        /\ pc[p] = "hangup" /\ pc'[p] = "finish" /\ open' = open \ {listener[t]}
        /\ op[p] = "stop" => listener'[t] = 0
    BY <1>1, <1>11 DEF CloseListener, Goto, TypeOK
  <2>2. t \in tunnels /\ OpenOf(t) \subseteq {listener[t]}
    BY <1>1, <2>1 DEF Underway
  <2>3. OpenOf(t)' = {}
    BY <2>1, <2>2 DEF OpenOf
  <2>4. QED
    BY <2>1, <2>2, <2>3 DEF Underway, HasRun
<1>12. CASE FinishStop(p) \/ FinishDelete(p)
  <2>1. /\ UNCHANGED <<listener, owner, open>> /\ pc[p] = "finish" /\ arg'[p] = NoTunnel
        /\ (status'[t] = "stopped" /\ op[p] = "stop") \/ t \notin tunnels'
    BY <1>1, <1>12 DEF FinishStop, FinishDelete, Return, fieldVars, runVars, TypeOK
  <2>2. OpenOf(t) = {} /\ (op[p] = "stop" => listener[t] = 0)
    BY <1>1, <2>1 DEF Underway
  <2>3. OpenOf(t)' = OpenOf(t)
    BY <2>1 DEF OpenOf
  <2>4. QED
    BY <2>1, <2>2, <2>3 DEF Settled
<1>13. QED
  BY <1>6, <1>7, <1>8, <1>9, <1>10, <1>11, <1>12 DEF Continue

(* A goroutine of tunnel t: its own listener is closed only where no call  *)
(* needs it.                                                               *)
LEMMA LoopHere ==
    ASSUME TypeOK, CallInv, RunInv, NEW r \in Runs, Loop(r) \/ LoopAccepts(r), ~closing,
           NEW t \in created, t \notin remote, Orderly(t)
    PROVE  Orderly(t)'
<1>1. /\ UNCHANGED <<listener, ctx, status, tunnels, owner, cancelled>>
      /\ loop[r] # "none" /\ \A s \in Runs : s # r => loop'[s] = loop[s]
      /\ \A q \in Procs : Unmoved(q)
  BY DEF Loop, LoopTop, LoopError, LoopCheck, RemoteWatches, RemoteEnds, LoopAccepts, fieldVars,
         callVars, TypeOK, Unmoved
<1>2. t \in Tunnels /\ t # NoTunnel /\ 1..runs \subseteq Runs
  BY TunnelsAssumption DEF TypeOK, Runs
<1>3. ASSUME OpenOf(t)' = OpenOf(t)
      PROVE  Orderly(t)'
  BY <1>1, <1>2, <1>3, UntouchedOrderly DEF Untouched
<1>4. CASE r \notin OpenOf(t) \/ ~(LoopTop(r) \/ RemoteEnds(r))
  <2>1. open' = open \/ (open' = open \ {r} /\ (LoopTop(r) \/ RemoteEnds(r)))
    BY DEF Loop, LoopTop, LoopError, LoopCheck, RemoteWatches, RemoteEnds, LoopAccepts
  <2>2. OpenOf(t)' = OpenOf(t)
    BY <1>1, <1>4, <2>1 DEF OpenOf
  <2>3. QED
    BY <1>3, <2>2
<1>5. CASE r \in OpenOf(t) /\ RemoteEnds(r)
  BY <1>5 DEF OpenOf, RemoteEnds, RunInv
<1>6. CASE r \in OpenOf(t) /\ LoopTop(r)
  <2>1. owner[r] = t /\ (open' = open \/ (open' = open \ {r} /\ ctx[t] \in cancelled))
    BY <1>6 DEF OpenOf, LoopTop, Done
  <2>2. CASE open' = open
    BY <1>1, <1>3, <2>2 DEF OpenOf
  <2>3. CASE open' = open \ {r} /\ ctx[t] \in cancelled
    <3>1. ~Settled(t)
      BY <1>6, <2>3 DEF Settled
    <3>2. PICK p \in Procs : arg[p] = t
      BY <3>1 DEF Orderly, Quiet
    <3>3. Underway(p, t) /\ Shape(p)
      BY <3>2 DEF Orderly, CallInv
    <3>4. pc[p] = "hangup"
      BY <1>1, <1>2, <1>6, <3>1, <3>2, <3>3 DEF Underway, Shape, Placed, HasRun
    <3>5. t \in tunnels /\ OpenOf(t) \subseteq {listener[t]}
      BY <3>3, <3>4 DEF Underway
    <3>6. OpenOf(t)' \subseteq {listener'[t]}
      BY <1>1, <2>3, <3>5 DEF OpenOf
    <3>7. Underway(p, t)' /\ arg'[p] = t
      BY <1>1, <3>2, <3>4, <3>5, <3>6 DEF Underway, Unmoved, HasRun
    <3>8. \A q \in Procs \ {p} : arg[q] # t /\ Unmoved(q)
      BY <1>1, <3>2 DEF Orderly
    <3>9. QED
      BY <1>2, <3>7, <3>8, OnlyCall
  <2>4. QED
    BY <2>1, <2>2, <2>3
<1>7. QED
  BY <1>4, <1>5, <1>6

(* A call that begins finds its tunnel settled, or new. *)
LEMMA BeginsHere ==
    ASSUME TypeOK, CallInv, RunInv, NEW p \in Procs, NEW t \in Tunnels,
           \/ StartTunnel(p, t) \/ StartSOCKS(p, t) \/ StopTunnel(p, t) \/ DeleteTunnel(p, t),
           t \notin overlapped', t \in created => Orderly(t)
    PROVE  Orderly(t)'
<1>1. /\ mu = NoProc /\ t # NoTunnel /\ arg'[p] = t
      /\ UNCHANGED <<listener, status, owner, open, ctx, cancelled>>
  BY TunnelsAssumption DEF StartTunnel, StartSOCKS, StopTunnel, DeleteTunnel, LockTunnel,
     Begin, fieldVars, runVars, TypeOK
<1>2. Quiet(t) /\ (t \in created => Settled(t))
  <2>1. CASE t \in created
    <3>1. Starting(t) = {}
      BY <2>1 DEF StartTunnel, StartSOCKS, StopTunnel, DeleteTunnel, LockTunnel, Overlap
    <3>2. QED
      BY <1>1, <2>1, <3>1, AloneAtFirst DEF Orderly
  <2>2. CASE t \notin created
    BY <2>2, FreshTunnel
  <2>3. QED
    BY <2>1, <2>2
<1>3. \A q \in Procs \ {p} : arg[q] # t /\ Unmoved(q)
  BY <1>2, OthersUnmoved DEF Quiet
<1>4. OpenOf(t)' = OpenOf(t)
  BY <1>1 DEF OpenOf
<1>5. CASE StartTunnel(p, t)
  <2>1. t \in tunnels' /\ t \in tunnels /\ listener[t] = 0 /\ pc'[p] = "client" /\ t \in created
    BY <1>5 DEF StartTunnel, Begin, TypeOK
  <2>2. status[t] # "running" /\ OpenOf(t) = {}
    BY <1>2, <2>1, NoListener
  <2>3. status[t] = "stopped"
    BY <2>2 DEF TypeOK
  <2>4. Underway(p, t)'
    BY <1>1, <1>4, <2>1, <2>2, <2>3 DEF Underway, HasRun
  <2>5. QED
    BY <1>1, <1>3, <2>4, OnlyCall
<1>6. CASE StartSOCKS(p, t)
  <2>1. t \in tunnels' /\ pc'[p] = "client" /\ t \notin created
    BY <1>6 DEF StartSOCKS, Begin, TypeOK
  <2>2. listener[t] = 0 /\ status[t] = "stopped" /\ OpenOf(t) = {}
    BY <2>1, FreshTunnel
  <2>3. Underway(p, t)'
    BY <1>1, <1>4, <2>1, <2>2 DEF Underway, HasRun
  <2>4. QED
    BY <1>1, <1>3, <2>3, OnlyCall
<1>7. CASE StopTunnel(p, t) \/ DeleteTunnel(p, t)
  <2>1. t \in tunnels' /\ t \in tunnels /\ pc'[p] = "cancel" /\ t \in created
    BY <1>7 DEF StopTunnel, DeleteTunnel, LockTunnel, Begin, TypeOK
  <2>2. Settled(t)'
    BY <1>1, <1>2, <1>4, <2>1 DEF Settled
  <2>3. Underway(p, t)'
    BY <2>1, <2>2 DEF Underway, HasRun
  <2>4. QED
    BY <1>1, <1>3, <2>3, OnlyCall
<1>8. QED
  BY <1>5, <1>6, <1>7

LEMMA BeginsElsewhere ==
    ASSUME TypeOK, CallInv, RunInv, NEW p \in Procs, NEW u \in Tunnels,
           \/ StartTunnel(p, u) \/ StartSOCKS(p, u) \/ StopTunnel(p, u) \/ DeleteTunnel(p, u),
           NEW t \in created, t # u
    PROVE  Untouched(t)
<1>1. /\ UNCHANGED <<listener, ctx, status, owner, open, cancelled, loop>>
      /\ t \in tunnels' <=> t \in tunnels
      /\ pc[p] = "idle" /\ arg'[p] = u
  BY DEF StartTunnel, StartSOCKS, StopTunnel, DeleteTunnel, LockTunnel, Begin, fieldVars,
     runVars, TypeOK
<1>2. arg[p] # t
  BY <1>1, TunnelsAssumption DEF CallInv, Shape, Placed, HasRun, TypeOK
<1>3. \A q \in Procs : arg[q] = t \/ arg'[q] = t => Unmoved(q)
  BY <1>1, <1>2, OthersUnmoved
<1>4. QED
  BY <1>1, <1>3 DEF Untouched, OpenOf

LEMMA NextOrder ==
    ASSUME TypeOK, CallInv, RunInv, OrderInv, [Next]_vars
    PROVE  OrderInv'
<1> SUFFICES ASSUME ~closing', NEW t \in Plain'
             PROVE  Orderly(t)'
  BY DEF OrderInv
<1>1. ~closing
  BY NextGrows DEF Grows
<1>2. /\ t \in Tunnels /\ t # NoTunnel /\ t \notin remote /\ t \notin overlapped
      /\ t \notin overlapped' /\ (t \in created => t \in Plain /\ Orderly(t))
  <2>1. overlapped \subseteq overlapped' /\ remote \subseteq remote'
    BY DEF Next, vars, idVars, CreateTunnel, StartTunnel, StartSOCKS, StopTunnel, DeleteTunnel,
       LockTunnel, Overlap, Close, Continue, StartClient, StartFind, StartFails, StartListens,
       StartSetsListener, StartSetsContext, StartSetsStatus, CancelContext, CloseListener,
       FinishStop, FinishDelete, CloseAll, Loop, LoopTop, LoopError, LoopCheck,
       RemoteWatches, RemoteEnds, LoopAccepts
  <2>2. t \in Tunnels
    <3>1. created' \subseteq Tunnels
      BY DEF TypeOK, Next, vars, idVars, CreateTunnel, StartTunnel, StartSOCKS, StopTunnel,
         DeleteTunnel, LockTunnel, Close, Continue, StartClient, StartFind, StartFails,
         StartListens, StartSetsListener, StartSetsContext, StartSetsStatus, CancelContext,
         CloseListener, FinishStop, FinishDelete, CloseAll, Loop, LoopTop, LoopError,
         LoopCheck, RemoteWatches, RemoteEnds, LoopAccepts
    <3>2. QED
      BY <3>1 DEF Plain
  <2>3. QED
    BY <1>1, <2>1, <2>2, TunnelsAssumption DEF Plain, OrderInv
<1>3. ASSUME NEW u \in Tunnels, CreateTunnel(u)
      PROVE  Orderly(t)'
  <2>1. /\ UNCHANGED <<listener, ctx, status, owner, open, cancelled, loop>>
        /\ tunnels' = tunnels \cup {u} /\ created' = created \cup {u} /\ u \notin created
        /\ \A q \in Procs : Unmoved(q)
    BY <1>3 DEF CreateTunnel, fieldVars, runVars, callVars, Unmoved
  <2>2. OpenOf(t)' = OpenOf(t)
    BY <2>1 DEF OpenOf
  <2>3. CASE t = u
    <3>1. OpenOf(t) = {} /\ listener[t] = 0 /\ status[t] = "stopped" /\ Quiet(t)
      BY <1>2, <2>1, <2>3, FreshTunnel
    <3>2. Settled(t)'
      BY <2>1, <2>2, <3>1 DEF Settled
    <3>3. \A q \in Procs : arg'[q] # t
      BY <2>1, <3>1 DEF Quiet, Unmoved
    <3>4. QED
      BY <3>2, <3>3 DEF Orderly
  <2>4. CASE t # u
    <3>1. t \in created
      BY <2>1, <2>4 DEF Plain
    <3>2. Untouched(t)
      BY <2>1, <2>2, <2>4 DEF Untouched
    <3>3. QED
      BY <1>2, <3>1, <3>2, UntouchedOrderly
  <2>5. QED
    BY <2>3, <2>4
<1>4. ASSUME NEW p \in Procs, NEW u \in Tunnels,
             \/ StartTunnel(p, u) \/ StartSOCKS(p, u) \/ StopTunnel(p, u)
             \/ DeleteTunnel(p, u)
      PROVE  Orderly(t)'
  <2>1. CASE t = u
    BY <1>2, <1>4, <2>1, BeginsHere
  <2>2. CASE t # u
    <3>1. t \in created
      BY <1>4, <2>2 DEF Plain, StartTunnel, StartSOCKS, StopTunnel, DeleteTunnel, LockTunnel,
                        idVars
    <3>2. Untouched(t)
      BY <1>4, <2>2, <3>1, BeginsElsewhere
    <3>3. QED
      BY <1>2, <3>1, <3>2, UntouchedOrderly
  <2>3. QED
    BY <2>1, <2>2
<1>5. ASSUME NEW p \in Procs, Close(p)
      PROVE  Orderly(t)'
  BY <1>5 DEF Close
<1>6. ASSUME NEW p \in Procs, Continue(p)
      PROVE  Orderly(t)'
  <2>1. ~CloseAll(p)
    BY <1>1 DEF CloseAll, CallInv, Shape
  <2>2. t \in created
    BY <1>6 DEF Plain, idVars, Continue, StartClient, StartFind, StartFails, StartListens,
       StartSetsListener, StartSetsContext, StartSetsStatus, CancelContext, CloseListener,
       FinishStop, FinishDelete, CloseAll
  <2>3. CASE arg[p] = t
    BY <1>2, <1>6, <2>1, <2>2, <2>3, ContinueHere
  <2>4. CASE arg[p] # t
    BY <1>2, <1>6, <2>1, <2>2, <2>4, ContinueElsewhere, UntouchedOrderly
  <2>5. QED
    BY <2>3, <2>4
<1>7. ASSUME NEW r \in Runs, Loop(r) \/ LoopAccepts(r)
      PROVE  Orderly(t)'
  <2>1. t \in created
    BY <1>7 DEF Plain, idVars, Loop, LoopTop, LoopError, LoopCheck, RemoteWatches, RemoteEnds,
       LoopAccepts
  <2>2. QED
    BY <1>1, <1>2, <1>7, <2>1, LoopHere
<1>8. CASE UNCHANGED vars
  <2>1. t \in created /\ Untouched(t)
    BY <1>8 DEF Plain, vars, Untouched, OpenOf, Unmoved
  <2>2. QED
    BY <1>2, <2>1, UntouchedOrderly
<1>9. QED
  BY <1>3, <1>4, <1>5, <1>6, <1>7, <1>8 DEF Next

-----------------------------------------------------------------------------
LEMMA InitIInv == Init => IInv
<1> SUFFICES ASSUME Init
             PROVE  IInv
  OBVIOUS
<1> USE TunnelsAssumption DEF Init
<1>1. TypeOK
  <2>1. 0 \in 0..MaxRuns
    OBVIOUS
  <2>2. /\ listener \in [Tunnels -> 0..MaxRuns] /\ ctx \in [Tunnels -> 0..MaxRuns]
        /\ mine \in [Procs -> 0..MaxRuns] /\ watch \in [Runs -> 0..MaxRuns]
        /\ runs \in 0..MaxRuns
    BY <2>1
  <2>3. /\ status \in [Tunnels -> {"stopped", "running"}]
        /\ op \in [Procs -> Calls] /\ arg \in [Procs -> Tunnels \cup {NoTunnel}]
        /\ pc \in [Procs -> Steps] /\ owner \in [Runs -> Tunnels \cup {NoTunnel}]
        /\ loop \in [Runs -> Loops]
    BY DEF Calls, Steps, Loops
  <2>4. /\ created \subseteq Tunnels /\ remote \subseteq created /\ tunnels \subseteq created
        /\ mu \in Procs \cup {NoProc} /\ open \subseteq Runs /\ cancelled \subseteq Runs
        /\ overlapped \subseteq Tunnels
    OBVIOUS
  <2>5. closing \in BOOLEAN
    OBVIOUS
  <2>6. QED
    BY <2>2, <2>3, <2>4, <2>5 DEF TypeOK
<1>2. CallInv
  BY DEF CallInv, Shape, Placed, HasRun
<1>3. RunInv
  BY DEF RunInv, Runs
<1>4. OrderInv
  BY DEF OrderInv, Plain
<1>5. QED
  BY <1>1, <1>2, <1>3, <1>4 DEF IInv

LEMMA OrderListens == IInv => ListensIffRunning
<1> SUFFICES ASSUME IInv, ~closing, NEW t \in created \ (remote \cup overlapped), Quiet(t)
             PROVE  OpenOf(t) = IF t \in tunnels /\ status[t] = "running" THEN {listener[t]} ELSE {}
  BY DEF ListensIffRunning, OpenOf
<1>1. Settled(t)
  BY DEF IInv, OrderInv, Plain, Orderly
<1>2. QED
  BY <1>1 DEF Settled

(* What a tunnel says of itself is what it does (tunnel.go:76-200): until  *)
(* the manager is closed, and between calls, a running tunnel has exactly  *)
(* its own listener open and a stopped or deleted one has none.            *)
THEOREM TunnelsListenIffRunning == Spec => []ListensIffRunning
<1>1. Init => IInv
  BY InitIInv
<1>2. IInv /\ [Next]_vars => IInv'
  BY NextType, NextCalls, NextRuns, NextOrder DEF IInv
<1>3. IInv => ListensIffRunning
  BY OrderListens
<1>4. QED
  BY <1>1, <1>2, <1>3, PTL DEF Spec
-----------------------------------------------------------------------------
(* The handlers of accepted connections.  A handler holds as many read     *)
(* locks as its statement says, a writer inside excludes them, and a copy  *)
(* that has ended tells which socket has closed.                           *)

LocksFit ==
  /\ \A c \in Conns : readers[c] = CASE step[c] = "nested" -> 1
                                     [] step[c] = "unlock" -> 2
                                     [] OTHER -> 0
  /\ writer = "inside" => \A c \in Conns : readers[c] = 0

\* While it relays, a connection lacks the copies whose socket has closed.
PumpsFit(c) ==
  /\ pumps[c] # {} => step[c] \in {"relay", "done"}
  /\ writing[c] \subseteq pumps[c]
  /\ step[c] = "relay" =>
       /\ target[c] # "none"
       /\ "out" \notin pumps[c] => peer[c] = "closed"
       /\ "in" \notin pumps[c] => target[c] = "closed"

ConnInv == ConnTypeOK /\ LocksFit /\ \A c \in Conns : PumpsFit(c)

LEMMA InitConn == ConnInit => ConnInv
  BY DEF ConnInit, ConnInv, ConnTypeOK, LocksFit, PumpsFit, Kinds, Steps5, Ways

\* The sockets' other ends, and the writer.
LEMMA OthersKeep ==
  ASSUME ConnInv,
         \/ WriterComes \/ WriterEnters \/ WriterLeaves
         \/ \E c \in Conns : PeerCloses(c) \/ TargetCloses(c)
         \/ UNCHANGED connVars
  PROVE  ConnInv'
<1> USE DEF ConnInv, WriterComes, WriterEnters, WriterLeaves, PeerCloses, TargetCloses, connVars
<1>1. ConnTypeOK'
  BY DEF ConnTypeOK, Steps5, IsSOCKS5
<1>2. LocksFit'
  BY DEF LocksFit, ConnTypeOK
<1>3. \A c \in Conns : PumpsFit(c)'
  BY DEF PumpsFit, ConnTypeOK
<1>4. QED
  BY <1>1, <1>2, <1>3

\* A handler on its way to the dial, with the locks it takes and gives back.
LEMMA HandlerKeeps ==
  ASSUME ConnInv, NEW c \in Conns,
         \/ Accepted(c) \/ GreetSOCKS(c) \/ ParseSOCKS(c) \/ Hello(c) \/ Authenticated(c)
         \/ Request(c) \/ Refuse(c) \/ LookUp(c) \/ FindTunnelByConn(c) \/ RUnlock(c)
         \/ DialRefused(c)
  PROVE  ConnInv'
<1> USE DEF ConnInv, ConnTypeOK, Steps5, IsSOCKS5, Kinds, At, Accepted, GreetSOCKS, ParseSOCKS,
            Hello, Authenticated, Request, Refuse, LookUp, FindTunnelByConn, RUnlock, DialRefused
<1>1. ConnTypeOK'
  OBVIOUS
<1>2. LocksFit'
  BY DEF LocksFit
<1>3. \A d \in Conns : PumpsFit(d)'
  BY DEF PumpsFit
<1>4. QED
  BY <1>1, <1>2, <1>3

\* The relay begins, the handler returns, ...
LEMMA RelayKeeps ==
  ASSUME ConnInv, NEW c \in Conns,
         Dial(c) \/ HandlerReturns(c)
  PROVE  ConnInv'
<1> USE DEF ConnInv, ConnTypeOK, Steps5, IsSOCKS5, Ways, At, Dial, HandlerReturns, RelayReturns,
            SOCKSReturns, SOCKS5Returns
<1>1. ConnTypeOK'
  OBVIOUS
<1>2. LocksFit'
  BY DEF LocksFit
<1>3. \A d \in Conns : PumpsFit(d)'
  BY DEF PumpsFit
<1>4. QED
  BY <1>1, <1>2, <1>3

\* ... and a copy reads, writes or ends.
LEMMA PumpKeeps ==
  ASSUME ConnInv, NEW c \in Conns, NEW way \in Ways,
         PumpReads(c, way) \/ PumpWrites(c, way) \/ PumpEnds(c, way)
  PROVE  ConnInv'
<1> USE DEF ConnInv, ConnTypeOK, Steps5, IsSOCKS5, Ways, PumpReads, PumpWrites, PumpEnds, SourceOver
<1>1. ConnTypeOK'
  OBVIOUS
<1>2. LocksFit'
  BY DEF LocksFit
<1>3. \A d \in Conns : PumpsFit(d)'
  BY DEF PumpsFit
<1>4. QED
  BY <1>1, <1>2, <1>3

LEMMA NextConn == ConnInv /\ [ConnNext]_connVars => ConnInv'
  BY OthersKeep, HandlerKeeps, RelayKeeps, PumpKeeps DEF ConnNext

LEMMA InvariantConn == ConnSpec => []ConnInv
  BY InitConn, NextConn, PTL DEF ConnSpec

(* For any number of connections of any kind: the handler of a connection  *)
(* whose peer has closed never waits for more than a lock that will be     *)
(* given back, except for a target that has not closed, in the SOCKS5      *)
(* relay (socks.go:316) and in a write of the peer's last bytes            *)
(* (tunnel.go:164), and between the two read locks (socks.go:158 and 273). *)
THEOREM HandlersAreNeverStuck == ConnSpec => []HandlersNeverStuck
<1>1. ASSUME ConnInv, NEW c \in Conns, step[c] # "none", peer[c] = "closed", ~Ended(c),
             ~HandlerCanGoOn(c), ~WriterCanGoOn, ~Wedged
      PROVE  (\E d \in Conns : step[d] = "unlock") \/ HeldUp(c)
  <2> USE <1>1 DEF ConnInv, ConnTypeOK
  <2>1. CASE step[c] \in {"lookup", "nested"}
    <3>1. writer = "waiting"
      BY <2>1 DEF HandlerCanGoOn, WriterCanGoOn
    <3>2. PICK d \in Conns : readers[d] # 0
      BY <3>1 DEF WriterCanGoOn
    <3>3. step[d] \in {"nested", "unlock"}
      BY <3>2 DEF LocksFit
    <3>4. QED
      BY <3>1, <3>3 DEF Wedged
  <2>2. CASE step[c] = "relay"
    <3>1. CASE "out" \in writing[c]
      <4>1. "out" \in pumps[c] /\ ~SinkOver(c, "out")
        BY <3>1 DEF HandlerCanGoOn, PumpsFit, Ways
      <4>2. target[c] = "open"
        BY <2>2, <4>1 DEF SinkOver, PumpsFit
      <4>3. QED
        BY <2>2, <3>1, <4>2 DEF HeldUp
    <3>2. CASE "out" \notin writing[c]
      <4>1. "out" \notin pumps[c]
        BY <3>2 DEF HandlerCanGoOn, SourceOver
      <4>2. IsSOCKS5(c) /\ "in" \in pumps[c]
        BY <2>2, <4>1 DEF HandlerCanGoOn, Ways
      <4>3. "in" \notin writing[c] /\ ~SourceOver(c, "in")
        BY <4>2 DEF HandlerCanGoOn, SinkOver
      <4>4. target[c] = "open"
        BY <2>2, <4>3 DEF SourceOver, PumpsFit
      <4>5. QED
        BY <2>2, <4>2, <4>4 DEF HeldUp
    <3>3. QED
      BY <3>1, <3>2
  <2>3. CASE step[c] = "done"
    BY <2>3 DEF Ended, HandlerCanGoOn, SinkOver, SourceOver
  <2>4. QED
    BY <2>1, <2>2, <2>3 DEF HandlerCanGoOn, Steps5
<1>2. ConnInv => HandlersNeverStuck
  BY <1>1 DEF HandlersNeverStuck
<1>3. QED
  BY <1>2, InvariantConn, PTL

(* A writer of the tunnel table that has come between the two read locks   *)
(* of one handler stops the table for good: no step of any handler, of the *)
(* writer or of a peer gets them apart again (socks.go:158 and 273).       *)
THEOREM WedgedForGood == ConnSpec => [](Wedged => []Wedged)
<1>1. ASSUME ConnInv, Wedged, [ConnNext]_connVars
      PROVE  Wedged'
  <2>1. PICK c \in Conns : step[c] = "nested"
    BY <1>1 DEF Wedged
  <2>2. writer = "waiting" /\ readers[c] = 1
    BY <1>1, <2>1 DEF Wedged, ConnInv, LocksFit
  <2>3. step \in [Conns -> {"none", "hello", "request", "dial", "relay", "done"} \cup Steps5]
    BY <1>1 DEF ConnInv, ConnTypeOK
  <2>4. writer' = "waiting"
    BY <1>1, <2>2
    DEF ConnNext, connVars, WriterComes, WriterEnters, WriterLeaves, PeerCloses, TargetCloses,
        Accepted, GreetSOCKS, ParseSOCKS, Hello, Authenticated, Request, Refuse, LookUp,
        FindTunnelByConn, RUnlock, Dial, DialRefused, HandlerReturns, RelayReturns,
        SOCKSReturns, SOCKS5Returns, PumpReads, PumpWrites, PumpEnds
  <2>5. step'[c] = "nested"
    BY <1>1, <2>1, <2>2, <2>3
    DEF ConnNext, connVars, At, WriterComes, WriterEnters, WriterLeaves, PeerCloses, TargetCloses,
        Accepted, GreetSOCKS, ParseSOCKS, Hello, Authenticated, Request, Refuse, LookUp,
        FindTunnelByConn, RUnlock, Dial, DialRefused, HandlerReturns, RelayReturns,
        SOCKSReturns, SOCKS5Returns, PumpReads, PumpWrites, PumpEnds
  <2>6. QED
    BY <2>4, <2>5 DEF Wedged
<1>2. QED
  BY <1>1, InvariantConn, PTL DEF ConnSpec
=============================================================================
