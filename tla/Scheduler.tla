----------------------------- MODULE Scheduler -----------------------------
(***************************************************************************)
(* TaskScheduler (internal/command/scheduler.go): a loop per Start that    *)
(* waits for the ticker and then runs every task that is due, one after    *)
(* the other; and the task file, which every change and every execution    *)
(* rewrites.  A write may fail: the change stays, and the file is as it    *)
(* was or cut short until a later save.                                    *)
(*                                                                         *)
(* The loop holds no lock.  It reads s.running before each wait and        *)
(* s.ticker at each wait, so a loop that is busy while the scheduler is    *)
(* stopped and started again goes on beside the new one.  A loop that      *)
(* waits for a ticker that was stopped waits for ever.  Adding or removing *)
(* a task while a loop ranges over the map may be fatal to the process.    *)
(*                                                                         *)
(* Time is what it does to tasks: it makes them due.  The execution of a   *)
(* task is a batch (module Batch) and is one step here, however long.      *)
(***************************************************************************)
EXTENDS Integers, FiniteSets

CONSTANTS Tasks,     \* task ids, each added once
          MaxStarts  \* bound: starts of the scheduler

\* In the place of a set of tasks: there is none.
NotSaving == {"not saving"}
\* A file that was cut short, or written by two saves at once.
Torn == {"torn"}

ASSUME SchedulerAssumption == MaxStarts \in Nat /\ NotSaving \notin SUBSET Tasks
ASSUME TornAssumption == Torn \notin SUBSET Tasks

VARIABLES
    tasks,   \* the keys of s.tasks
    added,   \* ids ever added
    due,     \* tasks whose NextRun has come
    running, \* s.running
    ticker,  \* s.ticker: the number of the Start that made it
    tick,    \* the channel of s.ticker has a tick
    loop,    \* loop[r]: where the loop of Start r is
    waits,   \* waits[r]: the ticker that loop waits for, or 0
    todo,    \* todo[r]: tasks that were there when its pass began, not seen yet
    seen,    \* seen[r]: tasks its pass has seen
    task,    \* task[r]: the task it executes, or NoTask
    saver,   \* the task set Add or Remove has marshalled, s.mu held, or NotSaving
    draft,   \* draft[r]: the task set the loop has marshalled, or NotSaving
    disk,    \* the tasks in the file, or Torn
    started, \* history: executions by loops since the task came due (at most 2)
    doubled, \* history: the scheduler was started while a loop was busy
    crossed, \* history: saves have overlapped since one last began alone
    failed,  \* history: the last write of the file failed
    crashed  \* fatal error: concurrent map iteration and map write

loopVars == <<loop, waits, todo, seen, task>>
saveVars == <<saver, draft, disk, crossed, failed>>
vars == <<tasks, added, due, running, ticker, tick, loop, waits, todo, seen, task,
          saver, draft, disk, started, doubled, crossed, failed, crashed>>

Loops  == 1..MaxStarts
NoTask == "no task"
Busy   == {"check", "pass", "execute", "save", "write", "next"}

Init ==
    /\ tasks = {} /\ added = {} /\ due = {}
    /\ running = FALSE /\ ticker = 0 /\ tick = FALSE
    /\ loop = [r \in Loops |-> "none"]
    /\ waits = [r \in Loops |-> 0]
    /\ todo = [r \in Loops |-> {}] /\ seen = [r \in Loops |-> {}]
    /\ task = [r \in Loops |-> NoTask]
    /\ saver = NotSaving /\ draft = [r \in Loops |-> NotSaving]
    /\ disk = {}
    /\ started = [t \in Tasks |-> 0]
    /\ doubled = FALSE /\ crossed = FALSE /\ failed = FALSE /\ crashed = FALSE

\* s.mu is free: only Add and Remove hold it across a step.
MuFree == saver = NotSaving

-----------------------------------------------------------------------------
\* The map is written: fatal, perhaps, for a loop that is ranging over it.
MapWritten ==
    \/ UNCHANGED crashed
    \/ (\E r \in Loops : loop[r] = "pass") /\ crashed' = TRUE

\* A save under way: one that has marshalled the tasks and not written them.
SaveUnderWay == saver # NotSaving \/ \E r \in Loops : draft[r] # NotSaving

\* A save begins.  If it is the only one it will put right what crossed.
SaveBegins == crossed' = SaveUnderWay

\* os.MkdirAll and os.WriteFile, which may fail; of two writes at once the
\* file may keep a part of each.
Written(set) ==
    \/ disk' = set /\ failed' = FALSE
    \/ crossed /\ disk' = Torn /\ failed' = FALSE
    \/ disk' \in {disk, Torn} /\ failed' = TRUE

\* Marshal the task set in a call that holds s.mu.
Marshal(set) ==
    /\ saver' = set
    /\ SaveBegins
    /\ UNCHANGED <<draft, disk, failed>>

(* Add: a new task, its next run to come.                                  *)
Add(t) ==
    /\ MuFree
    /\ t \notin added
    /\ added' = added \cup {t}
    /\ tasks' = tasks \cup {t}
    /\ Marshal(tasks \cup {t})
    /\ MapWritten
    /\ UNCHANGED <<due, running, ticker, tick, loopVars, started, doubled>>

\* Saves before it removes.
RemoveSavesFirst(t) ==
    /\ MuFree
    /\ t \in tasks
    /\ tasks' = tasks \ {t}
    /\ due' = due \ {t}
    /\ Marshal(tasks)
    /\ MapWritten
    /\ UNCHANGED <<added, running, ticker, tick, loopVars, started, doubled>>

(* Remove.                                                                 *)
Remove(t) ==
    /\ MuFree
    /\ t \in tasks
    /\ tasks' = tasks \ {t}
    /\ due' = due \ {t}
    /\ Marshal(tasks \ {t})
    /\ MapWritten
    /\ UNCHANGED <<added, running, ticker, tick, loopVars, started, doubled>>

(* Both write the file and unlock; an error of the write is returned, and  *)
(* the change is kept.                                                     *)
WriteFile ==
    /\ saver # NotSaving
    /\ Written(saver)
    /\ saver' = NotSaving
    /\ UNCHANGED <<tasks, added, due, running, ticker, tick, loopVars, draft, started,
                   doubled, crossed, crashed>>

\* Starts no loop while one has not ended, be it in a wait that never ends.
StartReusesLoop ==
    /\ MuFree
    /\ ~running
    /\ \E r \in Loops :
         /\ \A q \in Loops : (q < r) <=> (loop[q] # "none")
         /\ ticker' = r
         /\ tick' = FALSE
         /\ loop' = IF \A q \in Loops : loop[q] \in {"none", "ended"}
                      THEN [loop EXCEPT ![r] = "check"] ELSE loop
    /\ running' = TRUE
    /\ doubled' = (doubled \/ \E q \in Loops : loop[q] \in Busy)
    /\ UNCHANGED <<tasks, added, due, waits, todo, seen, task, saveVars, started, crashed>>

(* Start: a new ticker and a new loop.                                     *)
Start ==
    /\ MuFree
    /\ ~running
    /\ \E r \in Loops :
         /\ \A q \in Loops : (q < r) <=> (loop[q] # "none")
         /\ ticker' = r
         /\ tick' = FALSE
         /\ loop' = [loop EXCEPT ![r] = "check"]
    /\ running' = TRUE
    /\ doubled' = (doubled \/ \E q \in Loops : loop[q] \in Busy)
    /\ UNCHANGED <<tasks, added, due, waits, todo, seen, task, saveVars, started, crashed>>

(* Stop: no tick of a stopped ticker is received (Go 1.23 and later).      *)
Stop ==
    /\ MuFree
    /\ running
    /\ running' = FALSE
    /\ tick' = FALSE
    /\ UNCHANGED <<tasks, added, due, ticker, loopVars, saveVars, started, doubled, crashed>>

-----------------------------------------------------------------------------
(* The ticker ticks; a tick nobody has received yet is enough.             *)
Tick ==
    /\ running
    /\ tick' = TRUE
    /\ UNCHANGED <<tasks, added, due, running, ticker, loopVars, saveVars, started, doubled,
                   crashed>>

(* The next run of a task comes.                                           *)
BecomesDue(t) ==
    /\ t \in tasks \ due
    /\ due' = due \cup {t}
    /\ started' = [started EXCEPT ![t] = 0]
    /\ UNCHANGED <<tasks, added, running, ticker, tick, loopVars, saveVars, doubled, crashed>>

(* "for s.running", and the channel to wait for.                           *)
LoopCheck(r) ==
    /\ loop[r] = "check"
    /\ IF running
         THEN /\ loop' = [loop EXCEPT ![r] = "wait"]
              /\ waits' = [waits EXCEPT ![r] = ticker]
         ELSE /\ loop' = [loop EXCEPT ![r] = "ended"]
              /\ UNCHANGED waits
    /\ UNCHANGED <<tasks, added, due, running, ticker, tick, todo, seen, task, saveVars,
                   started, doubled, crashed>>

(* A tick: begin to range over the tasks.                                  *)
LoopTick(r) ==
    /\ loop[r] = "wait"
    /\ waits[r] = ticker /\ tick
    /\ tick' = FALSE
    /\ loop' = [loop EXCEPT ![r] = "pass"]
    /\ todo' = [todo EXCEPT ![r] = tasks]
    /\ waits' = [waits EXCEPT ![r] = 0]
    /\ UNCHANGED <<tasks, added, due, running, ticker, seen, task, saveVars, started,
                   doubled, crashed>>

(* The range gives a task it has not given; a task that is due is looked   *)
(* up again, under the read lock, to be executed.                          *)
LoopTask(r, t) ==
    /\ loop[r] = "pass"
    /\ t \in tasks \ seen[r]
    /\ seen' = [seen EXCEPT ![r] = @ \cup {t}]
    /\ todo' = [todo EXCEPT ![r] = @ \ {t}]
    /\ IF t \in due
         THEN /\ loop' = [loop EXCEPT ![r] = "execute"]
              /\ task' = [task EXCEPT ![r] = t]
         ELSE UNCHANGED <<loop, task>>
    /\ UNCHANGED <<tasks, added, due, running, ticker, tick, waits, saveVars, started,
                   doubled, crashed>>

(* ExecuteTask: a task that was removed in between is an error; else the   *)
(* batch runs.                                                             *)
LoopExecute(r) ==
    /\ loop[r] = "execute"
    /\ MuFree
    /\ IF task[r] \in tasks
         THEN /\ loop' = [loop EXCEPT ![r] = "save"]
              /\ started' = [started EXCEPT ![task[r]] = IF @ = 2 THEN 2 ELSE @ + 1]
         ELSE /\ loop' = [loop EXCEPT ![r] = "next"]
              /\ UNCHANGED started
    /\ UNCHANGED <<tasks, added, due, running, ticker, tick, waits, todo, seen, task,
                   saveVars, doubled, crashed>>

(* Its Save holds no lock: marshal ...                                     *)
LoopMarshal(r) ==
    /\ loop[r] = "save"
    /\ draft' = [draft EXCEPT ![r] = tasks]
    /\ SaveBegins
    /\ loop' = [loop EXCEPT ![r] = "write"]
    /\ UNCHANGED <<tasks, added, due, running, ticker, tick, waits, todo, seen, task, saver,
                   disk, failed, started, doubled, crashed>>

(* ... and write; nobody looks at the error.                               *)
LoopWrite(r) ==
    /\ loop[r] = "write"
    /\ Written(draft[r])
    /\ draft' = [draft EXCEPT ![r] = NotSaving]
    /\ loop' = [loop EXCEPT ![r] = "next"]
    /\ UNCHANGED <<tasks, added, due, running, ticker, tick, waits, todo, seen, task, saver,
                   started, doubled, crossed, crashed>>

\* Forgets to work out the next run of a task.
LoopNextForgets(r) ==
    /\ loop[r] = "next"
    /\ loop' = [loop EXCEPT ![r] = "pass"]
    /\ task' = [task EXCEPT ![r] = NoTask]
    /\ UNCHANGED <<tasks, added, due, running, ticker, tick, waits, todo, seen, saveVars,
                   started, doubled, crashed>>

(* task.NextRun = calculateNextRun: the task is not due any more.          *)
LoopNext(r) ==
    /\ loop[r] = "next"
    /\ due' = due \ {task[r]}
    /\ loop' = [loop EXCEPT ![r] = "pass"]
    /\ task' = [task EXCEPT ![r] = NoTask]
    /\ UNCHANGED <<tasks, added, running, ticker, tick, waits, todo, seen, saveVars,
                   started, doubled, crashed>>

(* The range ends when it has given every task that was there from the     *)
(* beginning and is still; one that was added may be given or not.         *)
LoopPassEnds(r) ==
    /\ loop[r] = "pass"
    /\ todo[r] \cap tasks = {}
    /\ loop' = [loop EXCEPT ![r] = "check"]
    /\ todo' = [todo EXCEPT ![r] = {}] /\ seen' = [seen EXCEPT ![r] = {}]
    /\ UNCHANGED <<tasks, added, due, running, ticker, tick, waits, task, saveVars, started,
                   doubled, crashed>>

-----------------------------------------------------------------------------
Loop(r) ==
    \/ LoopCheck(r) \/ LoopTick(r) \/ (\E t \in Tasks : LoopTask(r, t)) \/ LoopExecute(r)
    \/ LoopMarshal(r) \/ LoopWrite(r) \/ LoopNext(r) \/ LoopPassEnds(r)

Next ==
    /\ ~crashed
    /\ \/ \E t \in Tasks : Add(t) \/ Remove(t) \/ BecomesDue(t)
       \/ WriteFile \/ Start \/ Stop \/ Tick
       \/ \E r \in Loops : Loop(r)

Spec == Init /\ [][Next]_vars

\* The ticker of a running scheduler ticks, goroutines run, and s.mu is
\* granted in the end; nobody has to call anything.
SchedulerFairness ==
    /\ WF_vars(~crashed /\ Tick) /\ WF_vars(~crashed /\ WriteFile)
    /\ \A r \in Loops : SF_vars(~crashed /\ Loop(r))

-----------------------------------------------------------------------------
(* Each time a task comes due the scheduler runs it once - unless it was   *)
(* started again while a loop of an earlier start was still busy           *)
(* (scheduler.go:143): then two loops take the ticks in turn, and one      *)
(* finds a task due that the other is executing.                           *)
OneRunPerDue == doubled \/ \A t \in Tasks : started[t] <= 1

(* A task that is due is executed and gets its next run, or is removed, if *)
(* the scheduler is not stopped - also after it was stopped and started    *)
(* while a loop was busy, or left waiting for a ticker that never ticks.   *)
DueTaskRuns ==
    \A t \in Tasks :
        (t \in tasks /\ t \in due /\ running) ~>
            (t \notin tasks \/ t \notin due \/ ~running \/ crashed)

(* With no save under way the file has the tasks there are - unless the    *)
(* last save wrote beside another (an execution saves without the lock,    *)
(* scheduler.go:202) or the last write failed (scheduler.go:253-259; the   *)
(* change is kept and the caller, if any, told).  Both last only until the *)
(* next save that has the file to itself and succeeds: a save writes all   *)
(* there is, and nothing that was lost from the file stays lost.           *)
DiskIsCurrent == ~SaveUnderWay => crossed \/ failed \/ disk = tasks
=============================================================================
