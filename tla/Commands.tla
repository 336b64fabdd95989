------------------------------ MODULE Commands ------------------------------
(***************************************************************************)
(* What runs commands: the batch executor and the scheduler, which hands   *)
(* each due task to the executor and waits for it.  A task's batch has no  *)
(* error for the scheduler to see, so that of the executor's steps it      *)
(* sees the return only (LoopExecute): they share no state.  "focus" picks *)
(* the one whose steps a behaviour takes, and the states to check are a    *)
(* sum and not a product.                                                  *)
(***************************************************************************)
EXTENDS Batch, Scheduler

VARIABLE focus

commandVars == <<batchVars, vars, focus>>

CommandsInit ==
  /\ BatchInit /\ Init
  /\ focus \in {"batch", "scheduler"}

CommandsNext ==
  /\ UNCHANGED focus
  /\ \/ focus = "batch" /\ BatchNext /\ UNCHANGED vars
     \/ focus = "scheduler" /\ Next /\ UNCHANGED batchVars

\* Every goroutine of a batch that can run is run.
BatchFairness ==
  /\ WF_batchVars(focus = "batch" /\ Launch) /\ WF_batchVars(focus = "batch" /\ Return)
  /\ \A i \in Sessions :
       WF_batchVars(focus = "batch" /\ (Lookup(i) \/ RunCommand(i) \/ Release(i) \/ Done(i)))

\* In its initial states the scheduler has no fair step.
CommandsSpec == CommandsInit /\ [][CommandsNext]_commandVars /\ BatchFairness /\ SchedulerFairness

(* Execute returns, when it has a place to give (Parallel > 0).            *)
BatchReturns == (focus = "batch" /\ Parallel > 0) => <>returned
=============================================================================
