------------------------------- MODULE Agents -------------------------------
(***************************************************************************)
(* An agent of the runtime (internal/agent/runtime.go) with its planner,   *)
(* executor and verifier.  The runtime's lock guards its table of agents   *)
(* only: Process, ExecutePlan and Stop work on the agent's state and       *)
(* history as they find them, also after Delete.                           *)
(*                                                                         *)
(* A plan is what the language model has answered: any steps, any names,   *)
(* any dependencies.  Execute runs every step it comes to and looks at the *)
(* dependencies after it.                                                  *)
(***************************************************************************)
EXTENDS Naturals, Sequences, SequencesExt

CONSTANTS
  Clients,                      \* goroutines that use the agent
  StepIDs, NoStep,              \* names of steps, and no dependency
  MaxSteps,                     \* bound: steps of a plan, or of two under way together
  MaxMessages                   \* bound: calls of Process

ASSUME AgentAssumption == MaxSteps \in Nat

VARIABLES
  registered,                   \* the runtime's table has the agent
  agentState,
  conversation,                 \* agent.Context.History
  use,                          \* use[c]: the call of c
  messages,                     \* calls of Process so far
  spoken,                       \* history: what was said, in its order
  overlapped                    \* history: two calls of Process ran at once

agentVars == <<registered, agentState, conversation, use, messages, spoken, overlapped>>

AgentSteps == [id : StepIDs, after : StepIDs \cup {NoStep}]
Plans == UNION {[1 .. n -> AgentSteps] : n \in 0 .. MaxSteps}

NoUse == [at |-> "none", process |-> FALSE, message |-> 0, seen |-> <<>>, plan |-> <<>>,
          ran |-> <<>>, results |-> [s \in StepIDs |-> "none"], status |-> "success"]

AgentInit ==
  /\ registered = TRUE
  /\ agentState = "idle"
  /\ conversation = <<>>
  /\ use = [c \in Clients |-> NoUse]
  /\ messages = 0 /\ spoken = <<>> /\ overlapped = FALSE

Becomes(c, u) == use' = [use EXCEPT ![c] = u]

AgentMoves(c, here, next) ==
  /\ use[c].at = here
  /\ Becomes(c, [use[c] EXCEPT !.at = next])

-----------------------------------------------------------------------------
\* Get finds the agent, and the call goes on with a pointer to it.
Process(c) ==
  /\ registered /\ use[c].at = "none" /\ messages < MaxMessages
  /\ messages' = messages + 1
  /\ Becomes(c, [NoUse EXCEPT !.at = "ask", !.process = TRUE, !.message = messages + 1,
                              !.seen = conversation])
  /\ spoken' = Append(spoken, <<"user", messages + 1>>)
  /\ overlapped' = (overlapped \/ \E d \in Clients : use[d].process)
  /\ UNCHANGED <<registered, agentState, conversation>>

\* Of a history that calls have written at once only that is kept: it may hold
\* any part of what was said.
Recorded(history) == IF overlapped THEN <<>> ELSE history

\* History = append(History, ...) reads and writes without a lock.
Ask(c) ==
  /\ use[c].at = "ask"
  /\ Becomes(c, [use[c] EXCEPT !.at = "plan", !.seen = <<>>])
  /\ conversation' = Recorded(Append(use[c].seen, <<"user", use[c].message>>))
  /\ UNCHANGED <<registered, agentState, messages, spoken, overlapped>>

SetPlanning(c) ==
  /\ AgentMoves(c, "plan", "planning")
  /\ agentState' = "planning"
  /\ UNCHANGED <<registered, conversation, messages, spoken, overlapped>>

\* The model fails, or answers what does not parse.
PlanFails(c) ==
  /\ use[c].at = "planning"
  /\ Becomes(c, NoUse)
  /\ agentState' = "error"
  /\ UNCHANGED <<registered, conversation, messages, spoken, overlapped>>

Fits(c, plan) == \A d \in Clients \ {c} : Len(plan) + Len(use[d].plan) <= MaxSteps

Planned(c, plan) ==
  /\ use[c].at = "planning" /\ Fits(c, plan)
  /\ Becomes(c, [use[c] EXCEPT !.at = "run", !.plan = plan])
  /\ agentState' = "executing"
  /\ UNCHANGED <<registered, conversation, messages, spoken, overlapped>>

ExecutePlan(c, plan) ==
  /\ registered /\ use[c].at = "none" /\ Fits(c, plan)
  /\ Becomes(c, [NoUse EXCEPT !.at = "start", !.plan = plan])
  /\ UNCHANGED <<registered, agentState, conversation, messages, spoken, overlapped>>

SetExecuting(c) ==
  /\ AgentMoves(c, "start", "run")
  /\ agentState' = "executing"
  /\ UNCHANGED <<registered, conversation, messages, spoken, overlapped>>

-----------------------------------------------------------------------------
NextStep(c) == use[c].plan[Len(use[c].ran) + 1]

Running(c) ==
  use[c].at = "run" /\ use[c].status = "success" /\ Len(use[c].ran) < Len(use[c].plan)

\* No such tool, an error, a result that says no, or a timeout.
StepFails(c) ==
  /\ Running(c)
  /\ Becomes(c, [use[c] EXCEPT !.ran = Append(@, "failed"),
                               !.results[NextStep(c).id] = "failed",
                               !.status = "failed"])
  /\ UNCHANGED <<registered, agentState, conversation, messages, spoken, overlapped>>

Fulfilled(c, steps) == NextStep(c).after \in {NoStep} \cup {s.id : s \in ToSet(steps)}

\* A bug that reads like the repair: a step whose dependency has not run is
\* skipped without running it.
StepSkipsFirst(c) ==
  /\ Running(c)
  /\ LET ready == Fulfilled(c, SubSeq(use[c].plan, 1, Len(use[c].ran)))
     IN  Becomes(c, [use[c] EXCEPT !.ran = Append(@, IF ready THEN "success" ELSE "not run"),
                   !.results[NextStep(c).id] = IF ready THEN "success" ELSE "skipped"])
  /\ UNCHANGED <<registered, agentState, conversation, messages, spoken, overlapped>>

\* The tool has run; its own step counts as executed when the dependencies
\* are looked at.
StepSucceeds(c) ==
  /\ Running(c)
  /\ LET ready == Fulfilled(c, SubSeq(use[c].plan, 1, Len(use[c].ran) + 1))
     IN  Becomes(c, [use[c] EXCEPT !.ran = Append(@, "success"),
                   !.results[NextStep(c).id] = IF ready THEN "success" ELSE "skipped"])
  /\ UNCHANGED <<registered, agentState, conversation, messages, spoken, overlapped>>

\* Execute returns no error whatever has failed.
Executed(c) == use[c].at = "run" /\ ~Running(c)

\* ExecutePlan returns, and so does the result.
PlanReturns(c) ==
  /\ Executed(c) /\ ~use[c].process
  /\ Becomes(c, NoUse)
  /\ agentState' = "idle"
  /\ UNCHANGED <<registered, conversation, messages, spoken, overlapped>>

SetVerifying(c) ==
  /\ Executed(c) /\ use[c].process
  /\ Becomes(c, [NoUse EXCEPT !.at = "verify", !.process = TRUE,
                              !.message = use[c].message, !.status = use[c].status])
  /\ agentState' = "verifying"
  /\ UNCHANGED <<registered, conversation, messages, spoken, overlapped>>

Verifies(c, next) ==
  /\ use[c].at = "verify"
  /\ Becomes(c, [use[c] EXCEPT !.at = "answer", !.seen = conversation, !.status = "success"])
  /\ agentState' = next
  /\ spoken' = Append(spoken, <<"assistant", use[c].message>>)
  /\ UNCHANGED <<registered, conversation, messages, overlapped>>

\* A bug: a failed verification does not come back to idle.
VerifyStays(c) ==
  Verifies(c, IF use[c].status = "failed" THEN agentState ELSE "idle")

\* Verify has no effect on the call; the state is idle whatever it says.
Verify(c) == Verifies(c, "idle")

Answer(c) ==
  /\ use[c].at = "answer"
  /\ conversation' = Recorded(Append(use[c].seen, <<"assistant", use[c].message>>))
  /\ Becomes(c, NoUse)
  /\ UNCHANGED <<registered, agentState, messages, spoken, overlapped>>

-----------------------------------------------------------------------------
\* Stop changes the state and stops nothing.
Stop ==
  /\ registered
  /\ agentState' = "idle"
  /\ UNCHANGED <<registered, conversation, use, messages, spoken, overlapped>>

DeleteAgent ==
  /\ registered
  /\ registered' = FALSE
  /\ UNCHANGED <<agentState, conversation, use, messages, spoken, overlapped>>

AgentNext ==
  \/ Stop \/ DeleteAgent
  \/ \E c \in Clients :
       \/ Process(c) \/ Ask(c) \/ SetPlanning(c) \/ PlanFails(c)
       \/ \E plan \in Plans : Planned(c, plan) \/ ExecutePlan(c, plan)
       \/ SetExecuting(c) \/ StepFails(c) \/ StepSucceeds(c)
       \/ PlanReturns(c) \/ SetVerifying(c) \/ Verify(c) \/ Answer(c)

-----------------------------------------------------------------------------
(***************************************************************************)
(* However calls of Process, ExecutePlan, Stop and Delete interleave on    *)
(* the unlocked agent (runtime.go:140-194, 205, 214, 229), when none is    *)
(* under way the agent is idle or in error, and its history is the whole   *)
(* conversation in order, unless two calls of Process overlapped.          *)
(***************************************************************************)
AgentsSettle ==
  (\A c \in Clients : use[c].at = "none") =>
    /\ agentState \in {"idle", "error"}
    /\ overlapped \/ conversation = spoken

(***************************************************************************)
(* What Execute reports is what the tools did, whatever names and          *)
(* dependencies the model gave its steps (executor.go:81-101): a success   *)
(* means that every step ran and succeeded, a failure that the last step   *)
(* that ran failed and every earlier one succeeded, and a failed step is   *)
(* never overwritten by one of the same name.  A step reported as skipped  *)
(* has run.                                                                *)
(***************************************************************************)
ResultsAreTrue ==
  \A c \in Clients : Executed(c) =>
    LET n == Len(use[c].ran) IN
    /\ \A i \in 1 .. n : use[c].ran[i] = "success" \/ (i = n /\ use[c].ran[i] = "failed")
    /\ IF use[c].status = "success"
       THEN n = Len(use[c].plan) /\ \A i \in 1 .. n : use[c].ran[i] = "success"
       ELSE use[c].ran[n] = "failed" /\ use[c].results[use[c].plan[n].id] = "failed"

AgentPlaces ==
  {"none", "ask", "plan", "planning", "start", "run", "verify", "answer"}
Said == {"user", "assistant"} \X Nat

AgentUse ==
  [at : AgentPlaces, process : BOOLEAN, message : Nat, seen : Seq(Said), plan : Seq(AgentSteps),
   ran : Seq({"success", "failed"}), status : {"success", "failed"},
   results : [StepIDs -> {"none", "success", "failed", "skipped"}]]

AgentTypeOK ==
  /\ registered \in BOOLEAN /\ overlapped \in BOOLEAN
  /\ agentState \in {"idle", "planning", "executing", "verifying", "error"}
  /\ conversation \in Seq(Said) /\ spoken \in Seq(Said)
  /\ messages \in Nat
  /\ use \in [Clients -> AgentUse]
=============================================================================
