--------------------------- MODULE CommandProofs ---------------------------
(***************************************************************************)
(* The batch executor and the task scheduler, for any number of sessions,  *)
(* places, tasks and starts.                                               *)
(*                                                                         *)
(* Batch implements BoundedJobs.  The counters are where the work is: the  *)
(* semaphore has as many places taken as goroutines are between taking and *)
(* giving back, and the WaitGroup counts those that have not reported, so  *)
(* a zero means that every session was worked on.                          *)
(*                                                                         *)
(* The scheduler executes what is due once, because one loop at most is    *)
(* live; and a save that nothing crossed writes the tasks there are.       *)
(***************************************************************************)
EXTENDS Batch, Scheduler, FiniteSetTheorems, TLAPS

Unreported == {i \in Sessions : worker[i] \in {"lookup", "command", "release", "done"}}

\* The goroutines started are those of the sessions before "next".
StartedInOrder == \A i \in Sessions : worker[i] = "none" <=> i >= next

CountersExact == sem = Cardinality(InPlace) /\ wg = Cardinality(Unreported)

ResultBeforeRelease ==
    \A i \in Sessions :
        /\ worker[i] \in {"release", "done", "ended"} => results[i] # "nil"
        /\ worker[i] = "none" => results[i] = "nil"

ReturnedLast == returned => next > N /\ \A i \in Sessions : worker[i] = "ended"

BatchInv ==
    /\ TypeOK /\ StartedInOrder /\ CountersExact /\ ResultBeforeRelease
    /\ ReturnedLast

LEMMA SessionsFinite ==
    /\ IsFiniteSet(Sessions)
    /\ IsFiniteSet(InPlace) /\ IsFiniteSet(Unreported)
<1>1. IsFiniteSet(Sessions)
  BY BatchAssumption, FS_Interval DEF Sessions
<1>2. InPlace \subseteq Sessions /\ Unreported \subseteq Sessions
  BY DEF InPlace, Unreported
<1>3. QED
  BY <1>1, <1>2, FS_Subset

LEMMA InitBatch == BatchInit => BatchInv
<1> SUFFICES ASSUME BatchInit PROVE BatchInv
  OBVIOUS
<1>1. InPlace = {} /\ Unreported = {}
  BY DEF BatchInit, InPlace, Unreported
<1>2. CountersExact
  BY <1>1, FS_EmptySet DEF CountersExact, BatchInit
<1>3. TypeOK
  <2>1. worker \in [Sessions -> Places] /\ results \in [Sessions -> {"nil", "error", "output"}]
    BY DEF BatchInit, Places
  <2>2. next \in 1..(N + 1)
    BY BatchAssumption DEF BatchInit
  <2>3. QED
    BY <2>1, <2>2 DEF BatchInit, TypeOK
<1>4. StartedInOrder /\ ResultBeforeRelease /\ ReturnedLast
  BY BatchAssumption DEF BatchInit, StartedInOrder, ResultBeforeRelease, ReturnedLast, Sessions
<1>5. QED
  BY <1>2, <1>3, <1>4 DEF BatchInv

\* A counter that follows the size of a set by one.
LEMMA CountUp ==
    ASSUME NEW S, NEW e, IsFiniteSet(S), e \notin S
    PROVE  Cardinality(S \cup {e}) = Cardinality(S) + 1
  BY FS_AddElement

LEMMA CountDown ==
    ASSUME NEW S, NEW e, IsFiniteSet(S), e \in S
    PROVE  Cardinality(S \ {e}) = Cardinality(S) - 1 /\ Cardinality(S) \in Nat \ {0}
<1>1. Cardinality(S \ {e}) = Cardinality(S) - 1
  BY FS_RemoveElement
<1>2. Cardinality(S) \in Nat /\ S # {}
  BY FS_CardinalityType
<1>3. QED
  BY <1>1, <1>2, FS_EmptySet

LEMMA LaunchKeeps ==
    ASSUME BatchInv, Launch
    PROVE  /\ BatchInv'
           /\ next \in Sessions /\ worker[next] = "none"
           /\ InPlace' = InPlace \cup {next}
<1> USE DEF BatchInv, TypeOK, Launch
<1>1. next \in Sessions /\ worker[next] = "none"
  BY BatchAssumption DEF Sessions, StartedInOrder
<1>2. /\ worker'[next] = "lookup"
      /\ \A i \in Sessions : i # next => worker'[i] = worker[i]
  BY <1>1
<1>3. InPlace' = InPlace \cup {next} /\ next \notin InPlace
  BY <1>1, <1>2 DEF InPlace
<1>4. Unreported' = Unreported \cup {next} /\ next \notin Unreported
  BY <1>1, <1>2 DEF Unreported
<1>5. CountersExact'
  BY <1>3, <1>4, CountUp, SessionsFinite DEF CountersExact
<1>6. TypeOK'
  BY <1>1, BatchAssumption DEF Places
<1>7. StartedInOrder' /\ ResultBeforeRelease' /\ ReturnedLast'
  BY <1>1, <1>2, BatchAssumption
  DEF StartedInOrder, ResultBeforeRelease, ReturnedLast, Sessions
<1>8. QED
  BY <1>1, <1>3, <1>5, <1>6, <1>7

\* A goroutine that goes on with its place in the semaphore.
LEMMA WorkKeeps ==
    ASSUME BatchInv, NEW i \in Sessions, Lookup(i) \/ RunCommand(i)
    PROVE  BatchInv' /\ InPlace' = InPlace /\ worker' \in [Sessions -> Places]
                 /\ \A j \in Sessions : worker'[j] \in {"done", "ended"}
                                            <=> worker[j] \in {"done", "ended"}
<1> USE DEF BatchInv, TypeOK, Lookup, RunCommand
<1>1. /\ worker[i] \in {"lookup", "command"} /\ worker'[i] \in {"command", "release"}
      /\ \A j \in Sessions : j # i => worker'[j] = worker[j] /\ results'[j] = results[j]
      /\ worker'[i] = "release" => results'[i] # "nil"
  OBVIOUS
<1>2. InPlace' = InPlace /\ Unreported' = Unreported
  BY <1>1 DEF InPlace, Unreported
<1>3. CountersExact'
  BY <1>2 DEF CountersExact
<1>4. TypeOK'
  BY DEF Places
<1>5. StartedInOrder' /\ ResultBeforeRelease' /\ ReturnedLast'
  BY <1>1 DEF StartedInOrder, ResultBeforeRelease, ReturnedLast
<1>6. QED
  BY <1>1, <1>2, <1>3, <1>4, <1>5

LEMMA ReleaseKeeps ==
    ASSUME BatchInv, NEW i \in Sessions, Release(i)
    PROVE  BatchInv' /\ i \in InPlace /\ InPlace' = InPlace \ {i} /\ worker'[i] = "done"
                 /\ \A j \in Sessions : j # i => worker'[j] = worker[j]
<1> USE DEF BatchInv, TypeOK, Release
<1>1. /\ worker[i] = "release" /\ worker'[i] = "done"
      /\ \A j \in Sessions : j # i => worker'[j] = worker[j]
  OBVIOUS
<1>2. i \in InPlace /\ InPlace' = InPlace \ {i} /\ Unreported' = Unreported
  BY <1>1 DEF InPlace, Unreported
<1>3. CountersExact' /\ sem' \in Nat
  BY <1>2, CountDown, SessionsFinite DEF CountersExact
<1>4. TypeOK'
  BY <1>3 DEF Places
<1>5. StartedInOrder' /\ ResultBeforeRelease' /\ ReturnedLast'
  BY <1>1 DEF StartedInOrder, ResultBeforeRelease, ReturnedLast
<1>6. QED
  BY <1>1, <1>2, <1>3, <1>4, <1>5

LEMMA DoneKeeps ==
    ASSUME BatchInv, NEW i \in Sessions, Done(i)
    PROVE  BatchInv' /\ InPlace' = InPlace
                 /\ \A j \in Sessions : worker'[j] \in {"done", "ended"}
                                            <=> worker[j] \in {"done", "ended"}
<1> USE DEF BatchInv, TypeOK, Done
<1>1. /\ worker[i] = "done" /\ worker'[i] = "ended"
      /\ \A j \in Sessions : j # i => worker'[j] = worker[j]
  OBVIOUS
<1>2. InPlace' = InPlace /\ i \in Unreported /\ Unreported' = Unreported \ {i}
  BY <1>1 DEF InPlace, Unreported
<1>3. CountersExact' /\ wg' \in Nat
  BY <1>2, CountDown, SessionsFinite DEF CountersExact
<1>4. TypeOK'
  BY <1>3 DEF Places
<1>5. StartedInOrder' /\ ResultBeforeRelease' /\ ReturnedLast'
  BY <1>1 DEF StartedInOrder, ResultBeforeRelease, ReturnedLast
<1>6. QED
  BY <1>1, <1>2, <1>3, <1>4, <1>5

\* With every goroutine started, a zero WaitGroup means that all have reported.
LEMMA ReturnKeeps ==
    ASSUME BatchInv, Return
    PROVE  BatchInv' /\ \A i \in Sessions : worker[i] = "ended"
<1> USE DEF BatchInv, TypeOK, Return
<1>1. Unreported = {}
  BY SessionsFinite, FS_EmptySet DEF CountersExact
<1>2. \A i \in Sessions : worker[i] # "none"
  BY BatchAssumption DEF StartedInOrder, Sessions
<1>3. \A i \in Sessions : worker[i] = "ended"
  BY <1>1, <1>2 DEF Unreported, Places
<1>4. CountersExact'
  BY DEF CountersExact, InPlace, Unreported
<1>5. QED
  BY <1>3, <1>4 DEF StartedInOrder, ResultBeforeRelease, ReturnedLast

LEMMA NextBatch == BatchInv /\ [BatchNext]_batchVars => BatchInv'
<1> SUFFICES ASSUME BatchInv, [BatchNext]_batchVars PROVE BatchInv'
  OBVIOUS
<1>1. CASE UNCHANGED batchVars
  BY <1>1 DEF batchVars, BatchInv, TypeOK, StartedInOrder, CountersExact, ResultBeforeRelease,
              ReturnedLast, InPlace, Unreported
<1>2. QED
  BY <1>1, LaunchKeeps, WorkKeeps, ReleaseKeeps, DoneKeeps, ReturnKeeps DEF BatchNext

LEMMA InvariantBatch == BatchSpec => []BatchInv
  BY InitBatch, NextBatch, PTL DEF BatchSpec

(* What the caller gets has an entry for every session, whatever their     *)
(* number and the parallelism (batch.go:38-69).                            *)
ReturnsWhole == returned => \A i \in Sessions : results[i] # "nil"

(* Execute returns no batch with a result missing, for any number of       *)
(* sessions and any parallelism.                                           *)
THEOREM BatchReturnsWhole == BatchSpec => []ReturnsWhole
<1>1. BatchInv => ReturnsWhole
  BY DEF BatchInv, ReturnedLast, ResultBeforeRelease, ReturnsWhole
<1>2. QED
  BY <1>1, InvariantBatch, PTL

-----------------------------------------------------------------------------
LEMMA InitJobs == BatchInit => Jobs!Init
  BY DEF BatchInit, Jobs!Init, InPlace

\* The sessions that BoundedJobs calls finished.
Finished == {i \in Sessions : results[i] # "nil"} \ InPlace

LEMMA FinishedIsDone ==
    ASSUME BatchInv
    PROVE  Finished = {i \in Sessions : worker[i] \in {"done", "ended"}}
<1>1. \A i \in Sessions : worker[i] \in Places
  BY DEF BatchInv, TypeOK
<1>2. \A i \in Sessions : i \in Finished <=> worker[i] \in {"done", "ended"}
  BY <1>1 DEF BatchInv, ResultBeforeRelease, Finished, InPlace, Places
<1>3. QED
  BY <1>2 DEF Finished

LEMMA FinishedIsDoneNext ==
    ASSUME BatchInv'
    PROVE  Finished' = {i \in Sessions : worker'[i] \in {"done", "ended"}}
<1>1. \A i \in Sessions : worker'[i] \in Places
  BY DEF BatchInv, TypeOK
<1>2. \A i \in Sessions : i \in Finished' <=> worker'[i] \in {"done", "ended"}
  BY <1>1 DEF BatchInv, ResultBeforeRelease, Finished, InPlace, Places
<1>3. QED
  BY <1>2 DEF Finished

\* The cardinality BoundedJobs speaks of is the one the invariant speaks of.
LEMMA SameCardinality == \A S : Jobs!Cardinality(S) = Cardinality(S)
  BY DEF Jobs!Cardinality, Cardinality, Jobs!IsFiniteSet, IsFiniteSet

\* The step of the caller that takes a place starts a job.
LEMMA LaunchJobs ==
    ASSUME BatchInv, Launch
    PROVE  \E j \in Sessions : Jobs!Start(j)
<1>1. /\ next \in Sessions /\ worker[next] = "none"
      /\ InPlace' = InPlace \cup {next}
  BY LaunchKeeps
<1>2. /\ worker'[next] = "lookup"
      /\ \A i \in Sessions : i # next => worker'[i] = worker[i]
  BY <1>1 DEF Launch, BatchInv, TypeOK
<1>3. Cardinality(InPlace) < Parallel
  BY DEF Launch, BatchInv, CountersExact
<1>4. Finished' = Finished /\ next \notin Finished
  <2>1. BatchInv'
    BY LaunchKeeps
  <2>2. QED
    BY <1>1, <1>2, <2>1, FinishedIsDone, FinishedIsDoneNext
<1>5. next \notin InPlace /\ UNCHANGED returned
  BY <1>1 DEF InPlace, Launch
<1>6. Jobs!Start(next)
  BY <1>1, <1>3, <1>4, <1>5, SameCardinality DEF Jobs!Start, Finished
<1>7. QED
  BY <1>1, <1>6

LEMMA ReleaseJobs ==
    ASSUME BatchInv, NEW i \in Sessions, Release(i)
    PROVE  Jobs!Finish(i)
<1>1. UNCHANGED returned
  BY DEF Release
<1>2. /\ BatchInv' /\ i \in InPlace /\ InPlace' = InPlace \ {i} /\ worker'[i] = "done"
      /\ \A j \in Sessions : j # i => worker'[j] = worker[j]
  BY ReleaseKeeps
<1>3. Finished' = Finished \cup {i}
  BY <1>2, FinishedIsDone, FinishedIsDoneNext
<1>4. QED
  BY <1>1, <1>2, <1>3 DEF Jobs!Finish, Finished

LEMMA StepJobs == BatchInv /\ [BatchNext]_batchVars => [Jobs!Next]_(Jobs!jobVars)
<1> SUFFICES ASSUME BatchInv, [BatchNext]_batchVars
             PROVE  [Jobs!Next]_(Jobs!jobVars)
  OBVIOUS
<1>1. CASE Launch
  BY <1>1, LaunchJobs DEF Jobs!Next
<1>2. ASSUME NEW i \in Sessions, Release(i)
      PROVE  Jobs!Next
  BY <1>2, ReleaseJobs DEF Jobs!Next
<1>3. ASSUME NEW i \in Sessions, Lookup(i) \/ RunCommand(i)
      PROVE  UNCHANGED Jobs!jobVars
  <2>1. UNCHANGED returned
    BY <1>3 DEF Lookup, RunCommand
  <2>2. /\ BatchInv' /\ InPlace' = InPlace
        /\ \A j \in Sessions : worker'[j] \in {"done", "ended"}
                                  <=> worker[j] \in {"done", "ended"}
    BY <1>3, WorkKeeps
  <2>3. Finished' = Finished
    BY <2>2, FinishedIsDone, FinishedIsDoneNext
  <2>4. QED
    BY <2>1, <2>2, <2>3 DEF Jobs!jobVars, Finished
<1>4. ASSUME NEW i \in Sessions, Done(i)
      PROVE  UNCHANGED Jobs!jobVars
  <2>1. UNCHANGED returned
    BY <1>4 DEF Done
  <2>2. /\ BatchInv' /\ InPlace' = InPlace
        /\ \A j \in Sessions : worker'[j] \in {"done", "ended"}
                                  <=> worker[j] \in {"done", "ended"}
    BY <1>4, DoneKeeps
  <2>3. Finished' = Finished
    BY <2>2, FinishedIsDone, FinishedIsDoneNext
  <2>4. QED
    BY <2>1, <2>2, <2>3 DEF Jobs!jobVars, Finished
<1>5. CASE Return
  <2>1. \A i \in Sessions : worker[i] = "ended"
    BY <1>5, ReturnKeeps
  <2>2. Finished = Sessions
    BY <2>1, FinishedIsDone
  <2>3. returned' = TRUE /\ UNCHANGED <<InPlace, Finished>>
    BY <1>5 DEF Return, InPlace, Finished
  <2>4. Jobs!Return
    BY <2>2, <2>3 DEF Jobs!Return, Finished
  <2>5. QED
    BY <2>4 DEF Jobs!Next
<1>6. CASE UNCHANGED batchVars
  BY <1>6 DEF batchVars, Jobs!jobVars, InPlace
<1>7. QED
  BY <1>1, <1>2, <1>3, <1>4, <1>5, <1>6 DEF BatchNext

(* Execute runs every session once, at most Parallel at a time, and        *)
(* returns after the last, for any number of sessions and any parallelism. *)
THEOREM BatchImplementsJobs == BatchSpec => ImplementsJobs
  BY InitJobs, StepJobs, InvariantBatch, PTL DEF BatchSpec, ImplementsJobs, Jobs!Spec
-----------------------------------------------------------------------------
(* The scheduler.  A loop is live while it works or waits for the present  *)
(* ticker.  A start beside a busy loop is what "doubled" records, and a    *)
(* loop that waits loses its ticker to a new start: so there is one live   *)
(* loop at most, and what it executes nobody else can find due.            *)

Working == {"execute", "save", "write", "next"}

SchedulerTyped ==
    /\ tasks \subseteq added /\ added \subseteq Tasks /\ due \subseteq tasks
    /\ ticker \in 0..MaxStarts
    /\ loop \in [Loops -> {"none", "wait", "ended"} \cup Busy]
    /\ waits \in [Loops -> 0..MaxStarts]
    /\ task \in [Loops -> Tasks \cup {NoTask}]
    /\ saver \in (SUBSET Tasks) \cup {NotSaving}
    /\ draft \in [Loops -> (SUBSET Tasks) \cup {NotSaving}]
    /\ started \in [Tasks -> 0..2]

\* Loops are started one after the other; the last start has the ticker.
StartsInOrder ==
    /\ ticker # 0 => loop[ticker] # "none"
    /\ \A r \in Loops : /\ waits[r] <= ticker
                        /\ loop[r] = "none" => waits[r] = 0
                        /\ loop[r] \in Working => task[r] \in added

Live(r) == loop[r] \in Busy \/ (loop[r] = "wait" /\ waits[r] = ticker)

OneLive == \A q, r \in Loops : Live(q) /\ Live(r) => q = r

\* A task that is due has not been executed, or is being: the loop that is
\* about to execute one has found it due.
DueIsFresh ==
    /\ \A t \in due : \/ started[t] = 0
                      \/ \E r \in Loops : loop[r] \in Working \ {"execute"} /\ task[r] = t
    /\ \A r \in Loops : loop[r] = "execute" /\ task[r] \in tasks => task[r] \in due

RunInv ==
    /\ SchedulerTyped /\ StartsInOrder
    /\ ~doubled => OneLive /\ DueIsFresh /\ \A t \in Tasks : started[t] <= 1

\* A save that has had the file to itself has the tasks there are.  With
\* none under way, that is what the last one to begin alone has written.
SaveInv ==
    /\ \A r \in Loops : loop[r] = "write" <=> draft[r] # NotSaving
    /\ saver # NotSaving => saver = tasks
    /\ ~crossed => \A r \in Loops : draft[r] # NotSaving => draft[r] = tasks
    /\ DiskIsCurrent

LEMMA NextTyped ==
    ASSUME SchedulerTyped, [Next]_vars
    PROVE  SchedulerTyped'
<1> USE SchedulerAssumption DEF SchedulerTyped, Loops, Busy, loopVars, saveVars
<1>1. ASSUME NEW t \in Tasks, Add(t) \/ Remove(t) \/ BecomesDue(t)
      PROVE  SchedulerTyped'
  <2>1. CASE Add(t) \/ Remove(t)
    <3>1. /\ tasks' \subseteq added' /\ added' \subseteq Tasks /\ due' \subseteq tasks'
          /\ saver' \in SUBSET Tasks
      BY <2>1 DEF Add, Remove, Marshal
    <3>2. UNCHANGED <<ticker, loop, waits, task, draft, started>>
      BY <2>1 DEF Add, Remove, Marshal
    <3>3. QED
      BY <3>1, <3>2
  <2>2. CASE BecomesDue(t)
    BY <2>2 DEF BecomesDue
  <2>3. QED
    BY <1>1, <2>1, <2>2
<1>2. CASE WriteFile \/ Stop \/ Tick
  BY <1>2 DEF WriteFile, Stop, Tick
<1>3. CASE Start
  BY <1>3 DEF Start
<1>4. ASSUME NEW r \in Loops, Loop(r)
      PROVE  SchedulerTyped'
  <2>1. CASE LoopCheck(r) \/ LoopTick(r) \/ LoopMarshal(r) \/ LoopWrite(r) \/ LoopPassEnds(r)
    <3>1. CASE LoopCheck(r) \/ LoopTick(r) \/ LoopPassEnds(r)
      <4>1. /\ waits' \in [Loops -> 0..MaxStarts]
            /\ loop' \in [Loops -> {"none", "wait", "ended"} \cup Busy]
        <5>1. CASE LoopCheck(r) /\ running
          <6>1. waits' = [waits EXCEPT ![r] = ticker] /\ loop' = [loop EXCEPT ![r] = "wait"]
            BY <5>1 DEF LoopCheck
          <6>2. waits' \in [Loops -> 0..MaxStarts]
            BY <6>1
          <6>3. loop' \in [Loops -> {"none", "wait", "ended"} \cup Busy]
            BY <6>1
          <6>4. QED
            BY <6>2, <6>3
        <5>2. CASE LoopCheck(r) /\ ~running
          BY <5>2 DEF LoopCheck
        <5>3. CASE LoopTick(r)
          <6>1. 0 \in 0..MaxStarts
            OBVIOUS
          <6>2. QED
            BY <5>3, <6>1 DEF LoopTick
        <5>4. CASE LoopPassEnds(r)
          BY <5>4 DEF LoopPassEnds
        <5>5. QED
          BY <3>1, <5>1, <5>2, <5>3, <5>4
      <4>2. UNCHANGED <<tasks, added, due, ticker, task, saver, draft, started>>
        BY <3>1 DEF LoopCheck, LoopTick, LoopPassEnds
      <4>3. QED
        BY <4>1, <4>2
    <3>2. CASE LoopMarshal(r) \/ LoopWrite(r)
      <4>1. draft' \in [Loops -> (SUBSET Tasks) \cup {NotSaving}]
        BY <3>2 DEF LoopMarshal, LoopWrite
      <4>2. QED
        BY <3>2, <4>1 DEF LoopMarshal, LoopWrite
    <3>3. QED
      BY <2>1, <3>1, <3>2
  <2>2. ASSUME NEW t \in Tasks, LoopTask(r, t)
        PROVE  SchedulerTyped'
    BY <2>2 DEF LoopTask
  <2>3. CASE LoopExecute(r)
    <3>1. started' \in [Tasks -> 0..2]
      <4>1. \A t \in Tasks : (IF started[t] = 2 THEN 2 ELSE started[t] + 1) \in 0..2
        OBVIOUS
      <4>2. QED
        BY <2>3, <4>1 DEF LoopExecute
    <3>2. QED
      BY <2>3, <3>1 DEF LoopExecute
  <2>4. CASE LoopNext(r)
    BY <2>4 DEF LoopNext
  <2>5. QED
    BY <1>4, <2>1, <2>2, <2>3, <2>4 DEF Loop
<1>5. CASE UNCHANGED vars
  BY <1>5 DEF vars
<1>6. QED
  BY <1>1, <1>2, <1>3, <1>4, <1>5 DEF Next

(* What a start does: its number is the next one, above every ticker that  *)
(* a loop waits for.                                                       *)
LEMMA StartTakesTicker ==
    ASSUME SchedulerTyped, StartsInOrder, Start
    PROVE  \E r \in Loops :
             /\ ticker' = r /\ ticker < r /\ loop[r] = "none"
             /\ loop' = [loop EXCEPT ![r] = "check"]
             /\ \A q \in Loops : waits[q] < r
<1> USE SchedulerAssumption DEF Loops
<1>1. PICK r \in Loops : /\ \A q \in Loops : (q < r) <=> (loop[q] # "none")
                         /\ ticker' = r /\ loop' = [loop EXCEPT ![r] = "check"]
  BY DEF Start
<1>2. loop[r] = "none"
  BY <1>1
<1>3. ticker < r
  BY <1>1 DEF SchedulerTyped, StartsInOrder
<1>4. \A q \in Loops : waits[q] < r
  BY <1>3 DEF SchedulerTyped, StartsInOrder
<1>5. QED
  BY <1>1, <1>2, <1>3, <1>4

LEMMA NextStarts ==
    ASSUME SchedulerTyped, StartsInOrder, [Next]_vars
    PROVE  StartsInOrder'
<1> USE SchedulerAssumption DEF Loops, loopVars
<1>1. CASE \/ \E t \in Tasks : Add(t) \/ Remove(t) \/ BecomesDue(t)
           \/ WriteFile \/ Stop \/ Tick \/ UNCHANGED vars
  <2>1. UNCHANGED <<ticker, loop, waits, task>> /\ added \subseteq added'
    BY <1>1 DEF Add, Remove, BecomesDue, WriteFile, Stop, Tick, vars
  <2>2. QED
    BY <2>1 DEF StartsInOrder, Working
<1>2. CASE Start
  <2>1. PICK r \in Loops :
             /\ ticker' = r /\ ticker < r /\ loop[r] = "none"
             /\ loop' = [loop EXCEPT ![r] = "check"]
             /\ \A q \in Loops : waits[q] < r
    BY <1>2, StartTakesTicker
  <2>2. UNCHANGED <<waits, task, added>>
    BY <1>2 DEF Start
  <2>3. QED
    BY <2>1, <2>2 DEF StartsInOrder, SchedulerTyped, Working
<1>3. ASSUME NEW r \in Loops, Loop(r)
      PROVE  StartsInOrder'
  <2>1. UNCHANGED <<ticker, added>> /\ loop[r] # "none" /\ loop'[r] # "none"
    BY <1>3 DEF Loop, LoopCheck, LoopTick, LoopTask, LoopExecute, LoopMarshal, LoopWrite,
                LoopNext, LoopPassEnds, SchedulerTyped
  <2>2. \A q \in Loops \ {r} : loop'[q] = loop[q] /\ waits'[q] = waits[q] /\ task'[q] = task[q]
    <3>1. ASSUME NEW t \in Tasks, LoopTask(r, t)
          PROVE  /\ waits' = waits
                 /\ \A q \in Loops \ {r} : loop'[q] = loop[q] /\ task'[q] = task[q]
      BY <3>1 DEF LoopTask, SchedulerTyped
    <3>2. CASE LoopCheck(r) \/ LoopTick(r) \/ LoopExecute(r) \/ LoopMarshal(r)
      BY <3>2 DEF LoopCheck, LoopTick, LoopExecute, LoopMarshal, SchedulerTyped
    <3>3. CASE LoopWrite(r) \/ LoopNext(r) \/ LoopPassEnds(r)
      BY <3>3 DEF LoopWrite, LoopNext, LoopPassEnds, SchedulerTyped
    <3>4. QED
      BY <1>3, <3>1, <3>2, <3>3 DEF Loop
  <2>3. waits'[r] <= ticker
    BY <1>3 DEF Loop, LoopCheck, LoopTick, LoopTask, LoopExecute, LoopMarshal, LoopWrite,
                LoopNext, LoopPassEnds, SchedulerTyped, StartsInOrder
  <2>4. loop'[r] \in Working => task'[r] \in added
    <3>1. ASSUME NEW t \in Tasks, LoopTask(r, t)
          PROVE  loop'[r] \in Working => task'[r] \in added
      BY <3>1 DEF LoopTask, SchedulerTyped, Working, StartsInOrder
    <3>2. CASE ~\E t \in Tasks : LoopTask(r, t)
      BY <1>3, <3>2 DEF Loop, LoopCheck, LoopTick, LoopExecute, LoopMarshal, LoopWrite,
                LoopNext, LoopPassEnds, SchedulerTyped, StartsInOrder, Working
    <3>3. QED
      BY <3>1, <3>2
  <2>5. ticker # 0 => loop'[ticker] # "none"
    BY <2>1, <2>2 DEF StartsInOrder, SchedulerTyped
  <2>6. QED
    BY <2>1, <2>2, <2>3, <2>4, <2>5 DEF StartsInOrder
<1>4. QED
  BY <1>1, <1>2, <1>3 DEF Next

LEMMA NextLive ==
    ASSUME SchedulerTyped, StartsInOrder, OneLive, [Next]_vars, ~doubled'
    PROVE  OneLive'
<1> USE SchedulerAssumption DEF Loops, loopVars
<1>1. CASE \/ \E t \in Tasks : Add(t) \/ Remove(t) \/ BecomesDue(t)
           \/ WriteFile \/ Stop \/ Tick \/ UNCHANGED vars
  <2>1. UNCHANGED <<ticker, loop, waits>>
    BY <1>1 DEF Add, Remove, BecomesDue, WriteFile, Stop, Tick, vars
  <2>2. QED
    BY <2>1 DEF OneLive, Live, Busy
<1>2. CASE Start
  <2>1. PICK r \in Loops :
             /\ ticker' = r /\ ticker < r /\ loop[r] = "none"
             /\ loop' = [loop EXCEPT ![r] = "check"]
             /\ \A q \in Loops : waits[q] < r
    BY <1>2, StartTakesTicker
  <2>2. waits' = waits /\ \A q \in Loops : loop[q] \notin Busy
    BY <1>2 DEF Start
  <2>3. \A q \in Loops : q # r => ~Live(q)'
    BY <2>1, <2>2 DEF Live, SchedulerTyped, Busy
  <2>4. QED
    BY <2>3 DEF OneLive
<1>3. ASSUME NEW r \in Loops, Loop(r)
      PROVE  OneLive'
  <2>1. ticker' = ticker
    BY <1>3 DEF Loop, LoopCheck, LoopTick, LoopTask, LoopExecute, LoopMarshal, LoopWrite,
                LoopNext, LoopPassEnds
  <2>2. \A q \in Loops \ {r} : loop'[q] = loop[q] /\ waits'[q] = waits[q]
    BY <1>3 DEF Loop, LoopCheck, LoopTick, LoopTask, LoopExecute, LoopMarshal, LoopWrite,
                LoopNext, LoopPassEnds, SchedulerTyped
  <2>3. Live(r)
    BY <1>3 DEF Loop, LoopCheck, LoopTick, LoopTask, LoopExecute, LoopMarshal, LoopWrite,
                LoopNext, LoopPassEnds, Live, Busy
  <2>4. \A q \in Loops : Live(q)' => Live(q)
    BY <2>1, <2>2, <2>3 DEF Live, Busy
  <2>5. QED
    BY <2>4 DEF OneLive
<1>4. QED
  BY <1>1, <1>2, <1>3 DEF Next

LEMMA NextFresh ==
    ASSUME SchedulerTyped, StartsInOrder, OneLive, DueIsFresh, [Next]_vars, ~doubled',
           \A t \in Tasks : started[t] <= 1
    PROVE  DueIsFresh' /\ \A t \in Tasks : started'[t] <= 1
<1> USE SchedulerAssumption DEF Loops, loopVars
<1>1. ASSUME NEW t \in Tasks, Add(t)
      PROVE  DueIsFresh' /\ started' = started
  <2>1. /\ UNCHANGED <<loop, task, due, started>>
        /\ tasks' = tasks \cup {t} /\ t \notin added
    BY <1>1 DEF Add
  <2>2. \A r \in Loops : loop[r] = "execute" => task[r] # t
    BY <2>1 DEF StartsInOrder, Working
  <2>3. QED
    BY <2>1, <2>2 DEF DueIsFresh
<1>2. ASSUME NEW t \in Tasks, Remove(t)
      PROVE  DueIsFresh' /\ started' = started
  <2>1. /\ UNCHANGED <<loop, task, started>>
        /\ tasks' = tasks \ {t} /\ due' = due \ {t}
    BY <1>2 DEF Remove
  <2>2. QED
    BY <2>1 DEF DueIsFresh
<1>3. ASSUME NEW t \in Tasks, BecomesDue(t)
      PROVE  DueIsFresh' /\ \A u \in Tasks : started'[u] <= 1
  <2>1. /\ UNCHANGED <<loop, task, tasks>> /\ due' = due \cup {t}
        /\ \A u \in Tasks : started'[u] = IF u = t THEN 0 ELSE started[u]
    BY <1>3 DEF BecomesDue, SchedulerTyped
  <2>2. due \subseteq Tasks
    BY DEF SchedulerTyped
  <2>3. QED
    BY <2>1, <2>2 DEF DueIsFresh
<1>4. CASE WriteFile \/ Stop \/ Tick \/ UNCHANGED vars
  <2>1. UNCHANGED <<loop, task, tasks, due, started>>
    BY <1>4 DEF WriteFile, Stop, Tick, vars
  <2>2. QED
    BY <2>1 DEF DueIsFresh, Working
<1>5. CASE Start
  <2>1. UNCHANGED <<task, tasks, due, started>>
    BY <1>5 DEF Start
  <2>2. \A q \in Loops : loop'[q] = loop[q] \/ (loop[q] = "none" /\ loop'[q] = "check")
    BY <1>5, StartTakesTicker DEF SchedulerTyped
  <2>3. QED
    BY <2>1, <2>2 DEF DueIsFresh, Working
<1>6. ASSUME NEW r \in Loops, LoopCheck(r) \/ LoopTick(r) \/ LoopPassEnds(r)
      PROVE  DueIsFresh' /\ started' = started
  <2>1. /\ UNCHANGED <<task, tasks, due, started>> /\ loop[r] \notin Working
        /\ loop'[r] \notin Working /\ \A q \in Loops \ {r} : loop'[q] = loop[q]
    BY <1>6 DEF LoopCheck, LoopTick, LoopPassEnds, SchedulerTyped, Working
  <2>2. QED
    BY <2>1 DEF DueIsFresh, Working
<1>7. ASSUME NEW r \in Loops, NEW t \in Tasks, LoopTask(r, t)
      PROVE  DueIsFresh' /\ started' = started
  <2>1. /\ UNCHANGED <<tasks, due, started>> /\ loop[r] = "pass"
        /\ \A q \in Loops \ {r} : loop'[q] = loop[q] /\ task'[q] = task[q]
        /\ \/ loop'[r] = "pass"
           \/ loop'[r] = "execute" /\ task'[r] = t /\ t \in due
    BY <1>7 DEF LoopTask, SchedulerTyped
  <2>2. QED
    BY <2>1 DEF DueIsFresh, Working
<1>8. ASSUME NEW r \in Loops, LoopExecute(r)
      PROVE  DueIsFresh' /\ \A u \in Tasks : started'[u] <= 1
  <2>1. /\ UNCHANGED <<task, tasks, due>> /\ loop[r] = "execute"
        /\ \A q \in Loops \ {r} : loop'[q] = loop[q]
    BY <1>8 DEF LoopExecute, SchedulerTyped
  <2>2. CASE task[r] \in tasks
    <3>1. loop'[r] = "save" /\ task[r] \in Tasks
      BY <1>8, <2>2 DEF LoopExecute, SchedulerTyped
    <3>2. task[r] \in due
      BY <2>1, <2>2 DEF DueIsFresh
    <3>3. \A q \in Loops : loop[q] \in Working => q = r
      BY <2>1 DEF OneLive, Live, Working, Busy
    <3>4. started[task[r]] = 0
      BY <2>1, <3>2, <3>3 DEF DueIsFresh
    <3>5. \A u \in Tasks : started'[u] = IF u = task[r] THEN 1 ELSE started[u]
      BY <1>8, <2>2, <3>1, <3>4 DEF LoopExecute, SchedulerTyped
    <3>6. due \subseteq Tasks
      BY DEF SchedulerTyped
    <3>7. QED
      BY <2>1, <3>1, <3>5, <3>6 DEF DueIsFresh, Working
  <2>3. CASE task[r] \notin tasks
    <3>1. loop'[r] = "next" /\ started' = started
      BY <1>8, <2>3 DEF LoopExecute, SchedulerTyped
    <3>2. QED
      BY <2>1, <3>1 DEF DueIsFresh, Working
  <2>4. QED
    BY <2>2, <2>3
<1>9. ASSUME NEW r \in Loops, LoopMarshal(r) \/ LoopWrite(r)
      PROVE  DueIsFresh' /\ started' = started
  <2>1. /\ UNCHANGED <<task, tasks, due, started>> /\ loop[r] \in {"save", "write"}
        /\ loop'[r] \in {"write", "next"} /\ \A q \in Loops \ {r} : loop'[q] = loop[q]
    BY <1>9 DEF LoopMarshal, LoopWrite, SchedulerTyped
  <2>2. QED
    BY <2>1 DEF DueIsFresh, Working
<1>10. ASSUME NEW r \in Loops, LoopNext(r)
      PROVE  DueIsFresh' /\ started' = started
  <2>1. /\ UNCHANGED <<tasks, started>> /\ loop[r] = "next" /\ loop'[r] = "pass"
        /\ due' = due \ {task[r]}
        /\ \A q \in Loops \ {r} : loop'[q] = loop[q] /\ task'[q] = task[q]
    BY <1>10 DEF LoopNext, SchedulerTyped
  <2>2. \A q \in Loops : loop[q] \in Working => q = r
    BY <2>1 DEF OneLive, Live, Working, Busy
  <2>3. \A q \in Loops : loop'[q] # "execute"
    BY <2>1, <2>2 DEF Working
  <2>4. QED
    BY <2>1, <2>2, <2>3 DEF DueIsFresh, Working
<1>11. QED
  BY <1>1, <1>2, <1>3, <1>4, <1>5, <1>6, <1>7, <1>8, <1>9, <1>10 DEF Next, Loop

LEMMA NextRunInv == RunInv /\ [Next]_vars => RunInv'
<1> SUFFICES ASSUME RunInv, [Next]_vars
             PROVE  RunInv'
  OBVIOUS
<1>1. SchedulerTyped' /\ StartsInOrder'
  BY NextTyped, NextStarts DEF RunInv
<1>2. ~doubled' => ~doubled
  BY DEF Next, vars, Add, Remove, BecomesDue, WriteFile, Start, Stop, Tick, Loop, LoopCheck,
     LoopTick, LoopTask, LoopExecute, LoopMarshal, LoopWrite, LoopNext, LoopPassEnds
<1>3. ~doubled' => OneLive' /\ DueIsFresh' /\ \A t \in Tasks : started'[t] <= 1
  BY <1>2, NextLive, NextFresh DEF RunInv
<1>4. QED
  BY <1>1, <1>3 DEF RunInv

LEMMA InitRunInv == Init => RunInv
<1> SUFFICES ASSUME Init
             PROVE  RunInv
  OBVIOUS
<1> USE SchedulerAssumption DEF Init, Loops, Busy
<1>1. 0 \in 0..MaxStarts
  OBVIOUS
<1>2. SchedulerTyped
  BY <1>1 DEF SchedulerTyped
<1>3. StartsInOrder
  BY DEF StartsInOrder, Working
<1>4. OneLive /\ DueIsFresh
  BY DEF OneLive, Live, DueIsFresh
<1>5. QED
  BY <1>2, <1>3, <1>4 DEF RunInv

(* A task that came due is executed once (scheduler.go:143-186), for any   *)
(* number of tasks and starts, unless the scheduler was started while a    *)
(* loop of an earlier start was busy.                                      *)
THEOREM SchedulerRunsOnce == Spec => []OneRunPerDue
<1>1. RunInv => OneRunPerDue
  BY DEF RunInv, OneRunPerDue
<1>2. QED
  BY <1>1, InitRunInv, NextRunInv, PTL DEF Spec

-----------------------------------------------------------------------------
(* The task file.                                                          *)

LEMMA NextSave ==
    ASSUME SchedulerTyped, SaveInv, [Next]_vars
    PROVE  SaveInv'
<1> USE SchedulerAssumption DEF Loops, loopVars, saveVars
<1>1. ASSUME NEW t \in Tasks, Add(t) \/ Remove(t)
      PROVE  SaveInv'
  <2>1. /\ UNCHANGED <<loop, draft>> /\ saver' = tasks' /\ tasks' \in SUBSET Tasks
        /\ crossed' = SaveUnderWay /\ saver = NotSaving
    BY <1>1 DEF Add, Remove, Marshal, SaveBegins, MuFree, SchedulerTyped
  <2>2. saver' # NotSaving
    BY <2>1
  <2>3. ~crossed' => \A r \in Loops : draft'[r] = NotSaving
    BY <2>1 DEF SaveUnderWay
  <2>4. QED
    BY <2>1, <2>2, <2>3 DEF SaveInv, DiskIsCurrent, SaveUnderWay
<1>2. CASE WriteFile
  <2>1. /\ UNCHANGED <<loop, draft, tasks, crossed>>
        /\ Written(saver) /\ saver' = NotSaving /\ saver = tasks
    BY <1>2 DEF WriteFile, SaveInv
  <2>2. crossed' \/ failed' \/ disk' = tasks'
    BY <2>1 DEF Written
  <2>3. QED
    BY <2>1, <2>2 DEF SaveInv, DiskIsCurrent
<1>3. CASE UNCHANGED vars \/ Stop \/ Tick \/ \E t \in Tasks : BecomesDue(t)
  <2>1. UNCHANGED <<loop, draft, tasks, crossed, failed, saver, disk>>
    BY <1>3 DEF Stop, Tick, BecomesDue, vars
  <2>2. QED
    BY <2>1 DEF SaveInv, DiskIsCurrent, SaveUnderWay
<1>4. CASE Start
  <2>1. UNCHANGED <<draft, tasks, crossed, failed, saver, disk>>
    BY <1>4 DEF Start
  <2>2. \A q \in Loops : loop'[q] = "write" <=> loop[q] = "write"
    BY <1>4 DEF Start, SchedulerTyped
  <2>3. QED
    BY <2>1, <2>2 DEF SaveInv, DiskIsCurrent, SaveUnderWay
<1>5. ASSUME NEW r \in Loops, Loop(r), ~LoopMarshal(r), ~LoopWrite(r)
      PROVE  SaveInv'
  <2>1. UNCHANGED <<draft, tasks, crossed, failed, saver, disk>>
    BY <1>5 DEF Loop, LoopCheck, LoopTick, LoopTask, LoopExecute, LoopNext, LoopPassEnds
  <2>2. \A q \in Loops : loop'[q] = "write" <=> loop[q] = "write"
    <3>1. CASE LoopCheck(r) \/ LoopTick(r) \/ LoopExecute(r)
      BY <3>1 DEF LoopCheck, LoopTick, LoopExecute, SchedulerTyped
    <3>2. CASE LoopNext(r) \/ LoopPassEnds(r) \/ \E t \in Tasks : LoopTask(r, t)
      BY <3>2 DEF LoopTask, LoopNext, LoopPassEnds, SchedulerTyped
    <3>3. QED
      BY <1>5, <3>1, <3>2 DEF Loop
  <2>3. QED
    BY <2>1, <2>2 DEF SaveInv, DiskIsCurrent, SaveUnderWay
<1>6. ASSUME NEW r \in Loops, LoopMarshal(r)
      PROVE  SaveInv'
  <2>1. /\ UNCHANGED <<tasks, saver, disk>> /\ crossed' = SaveUnderWay
        /\ draft'[r] = tasks /\ loop'[r] = "write" /\ tasks # NotSaving
        /\ \A q \in Loops \ {r} : loop'[q] = loop[q] /\ draft'[q] = draft[q]
    BY <1>6 DEF LoopMarshal, SaveBegins, SchedulerTyped
  <2>2. (\A q \in Loops : loop[q] = "write" <=> draft[q] # NotSaving)'
    BY <2>1 DEF SaveInv
  <2>3. ~crossed' => \A q \in Loops : draft'[q] # NotSaving => draft'[q] = tasks'
    BY <2>1 DEF SaveUnderWay
  <2>4. SaveUnderWay'
    BY <2>1 DEF SaveUnderWay
  <2>5. QED
    BY <2>1, <2>2, <2>3, <2>4 DEF SaveInv, DiskIsCurrent
<1>7. ASSUME NEW r \in Loops, LoopWrite(r)
      PROVE  SaveInv'
  <2>1. /\ UNCHANGED <<tasks, saver, crossed>> /\ Written(draft[r]) /\ loop[r] = "write"
        /\ draft'[r] = NotSaving /\ loop'[r] = "next"
        /\ \A q \in Loops \ {r} : loop'[q] = loop[q] /\ draft'[q] = draft[q]
    BY <1>7 DEF LoopWrite, SchedulerTyped
  <2>2. crossed' \/ failed' \/ disk' = tasks'
    BY <2>1 DEF SaveInv, Written
  <2>3. QED
    BY <2>1, <2>2 DEF SaveInv, DiskIsCurrent
<1>8. QED
  BY <1>1, <1>2, <1>3, <1>4, <1>5, <1>6, <1>7 DEF Next, Loop

(* With no save under way the task file has the tasks there are, unless    *)
(* saves have overlapped (scheduler.go:202) since one last had the file to *)
(* itself, or the last write failed (scheduler.go:253-259): for any number *)
(* of tasks and starts, the next save that is alone and succeeds puts      *)
(* right whatever crossing and failing saves have left.                    *)
THEOREM SchedulerDiskIsCurrent == Spec => []DiskIsCurrent
<1>1. Init => SchedulerTyped /\ SaveInv
  <2>1. Init => SaveInv
    BY DEF Init, SaveInv, DiskIsCurrent, SaveUnderWay
  <2>2. QED
    BY <2>1, InitRunInv DEF RunInv
<1>2. SchedulerTyped /\ SaveInv /\ [Next]_vars => SchedulerTyped' /\ SaveInv'
  BY NextTyped, NextSave
<1>3. SaveInv => DiskIsCurrent
  BY DEF SaveInv, DiskIsCurrent
<1>4. QED
  BY <1>1, <1>2, <1>3, PTL DEF Spec
-----------------------------------------------------------------------------
(* The batch is never stuck: the semaphore and the WaitGroup count what    *)
(* they should, so a caller that has to wait waits for a goroutine.        *)

\* The caller or one of the goroutines has a step to take.
BatchCanGoOn ==
    \/ next <= N /\ sem < Parallel
    \/ next > N /\ wg = 0 /\ ~returned
    \/ \E i \in Sessions : worker[i] \in {"lookup", "command", "release", "done"}

BatchNeverStuck == Parallel > 0 /\ ~returned => BatchCanGoOn

(* Execute (batch.go:32-69) with a place to give never waits for itself,  *)
(* with any number of sessions and places: until it has returned, the      *)
(* caller or a goroutine can go on.                                        *)
THEOREM BatchIsNeverStuck == BatchSpec => []BatchNeverStuck
<1>1. ASSUME BatchInv, Parallel > 0, ~returned
      PROVE  BatchCanGoOn
  <2>1. CASE Unreported # {}
    BY <2>1 DEF Unreported, BatchCanGoOn
  <2>2. CASE Unreported = {}
    <3>1. InPlace = {}
      BY <2>2 DEF InPlace, Unreported
    <3>2. sem = 0 /\ wg = 0
      BY <2>2, <3>1, FS_EmptySet, <1>1 DEF BatchInv, CountersExact
    <3>3. next \in Nat
      BY <1>1, BatchAssumption DEF BatchInv, TypeOK
    <3>4. QED
      BY <1>1, <3>2, <3>3, BatchAssumption DEF BatchCanGoOn
  <2>3. QED
    BY <2>1, <2>2
<1>2. BatchInv => BatchNeverStuck
  BY <1>1 DEF BatchNeverStuck
<1>3. QED
  BY <1>2, InvariantBatch, PTL
=============================================================================
