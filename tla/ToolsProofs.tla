---------------------------- MODULE ToolsProofs ----------------------------
(***************************************************************************)
(* What holds of the tools whatever the names, groups, hosts, goroutines   *)
(* and plans.  Each part's invariant is about its own variables: ToolSteps *)
(* says what a step of the whole is to each part.                          *)
(***************************************************************************)
EXTENDS Tools, FiniteSetTheorems, WellFoundedInduction, TLAPS

\* Whatever moves, each of the tools moves by its own rules or stands still.
LEMMA ToolSteps ==
  ASSUME [ToolsNext]_toolVars
  PROVE  /\ [RegNext]_regVars /\ [HistNext]_histVars /\ [GroupNext]_groupVars
         /\ [BusNext]_busVars /\ [AuthNext]_authVars /\ [PluginNext]_pluginVars
         /\ [AgentNext]_agentVars /\ [SandboxNext]_sandboxVars /\ [RiskNext]_assessed
<1>1. CASE UNCHANGED toolVars
  BY <1>1 DEF toolVars, tableVars, pluginSideVars, agentSideVars, guardVars
<1>2. CASE TablesNext
  BY <1>2 DEF TablesNext, pluginSideVars, agentSideVars, guardVars
<1>3. CASE PluginSideNext
  BY <1>3 DEF PluginSideNext, tableVars, pluginSideVars, agentSideVars, guardVars
<1>4. CASE AgentSideNext
  BY <1>4 DEF AgentSideNext, tableVars, pluginSideVars, guardVars
<1> QED
  BY <1>1, <1>2, <1>3, <1>4 DEF ToolsNext

-----------------------------------------------------------------------------

RegInv == RegTypeOK /\ AliasesOwned

\* Before the first registration no alias leads anywhere.
LEMMA RegInitInv == RegInit => RegInv
  BY DEF RegInit, RegInv, RegTypeOK, AliasesOwned

\* Register: the new command owns its aliases, also those it takes over.
LEMMA RegisterInv ==
  ASSUME RegInv, NEW n \in Names, NEW as \in SUBSET Names, Register(n, as)
  PROVE  RegInv'
<1>1. RegTypeOK'
  BY DEF RegInv, RegTypeOK, Register
<1>2. AliasesOwned'
  <2> SUFFICES ASSUME NEW a \in DOMAIN aliases'
               PROVE  /\ aliases'[a] \in DOMAIN commands'
                      /\ a \in commands'[aliases'[a]]
    BY DEF AliasesOwned, Registered
  <2>1. CASE a \in as
    BY <2>1 DEF Register
  <2>2. CASE a \notin as
    <3>1. a \in DOMAIN aliases /\ aliases'[a] = aliases[a]
      BY <2>2 DEF Register
    <3>2. aliases[a] \in DOMAIN commands /\ a \in commands[aliases[a]]
      BY <3>1 DEF RegInv, AliasesOwned, Registered
    <3>3. aliases[a] # n
      BY <3>2 DEF Register, Registered
    <3> QED
      BY <3>1, <3>2, <3>3 DEF Register
  <2> QED
    BY <2>1, <2>2
<1> QED
  BY <1>1, <1>2 DEF RegInv

\* Unregister: whatever still led to the command was one of its aliases.
LEMMA UnregisterInv ==
  ASSUME RegInv, NEW n \in Names, Unregister(n)
  PROVE  RegInv'
<1>1. RegTypeOK'
  BY DEF RegInv, RegTypeOK, Unregister, Restrict
<1>2. AliasesOwned'
  <2> SUFFICES ASSUME NEW a \in DOMAIN aliases'
               PROVE  /\ aliases'[a] \in DOMAIN commands'
                      /\ a \in commands'[aliases'[a]]
    BY DEF AliasesOwned, Registered
  <2>1. /\ a \in DOMAIN aliases \ commands[n]
        /\ aliases'[a] = aliases[a]
    BY DEF Unregister, Restrict
  <2>2. aliases[a] \in DOMAIN commands /\ a \in commands[aliases[a]]
    BY <2>1 DEF RegInv, AliasesOwned, Registered
  <2>3. aliases[a] # n
    BY <2>1, <2>2
  <2> QED
    BY <2>1, <2>2, <2>3 DEF Unregister, Restrict
<1> QED
  BY <1>1, <1>2 DEF RegInv

LEMMA RegStepInv == RegInv /\ [ToolsNext]_toolVars => RegInv'
<1> SUFFICES ASSUME RegInv, [ToolsNext]_toolVars PROVE RegInv'
  OBVIOUS
<1>1. CASE RegNext
  BY <1>1, RegisterInv, UnregisterInv DEF RegNext
<1>2. CASE UNCHANGED regVars
  BY <1>2 DEF regVars, RegInv, RegTypeOK, AliasesOwned, Registered
<1> QED
  BY <1>1, <1>2, ToolSteps

(***************************************************************************)
(* Commands can always be got by their names, or by commands that asked    *)
(* for these names as aliases (registry.go:62-114).                        *)
(***************************************************************************)
THEOREM RegisteredNamesResolve == ToolsSpec => []NamesResolve
<1>1. ToolsInit => RegInv
  BY RegInitInv DEF ToolsInit
<1>2. RegInv => NamesResolve
  BY DEF RegInv, AliasesOwned, NamesResolve, Resolve, Registered
<1> QED
  BY <1>1, <1>2, RegStepInv, PTL DEF ToolsSpec

-----------------------------------------------------------------------------
\* One step of the groups: each way Save can end is a case of its own.
LEMMA GroupStepSaved == GroupsSaved /\ GroupNext => GroupsSaved'
<1> SUFFICES ASSUME GroupsSaved, GroupNext PROVE GroupsSaved'
  OBVIOUS
<1>1. ASSUME NEW table, Keep(table) PROVE GroupsSaved'
  BY <1>1 DEF Keep, Written, NotWritten, CutShort, GroupsSaved
<1>2. ASSUME NEW g, NEW hosts, Create(g, hosts) PROVE GroupsSaved'
  BY <1>2 DEF Create, Written, NotWritten, CutShort, GroupsSaved
<1>3. ASSUME NEW g, DeleteGroup(g) PROVE GroupsSaved'
  BY <1>1, <1>3 DEF DeleteGroup
<1>4. ASSUME NEW g, NEW h, AddHost(g, h) \/ RemoveHost(g, h)
      PROVE  GroupsSaved'
  BY <1>1, <1>4 DEF AddHost, RemoveHost
<1>5. CASE GroupsRestart
  BY <1>5 DEF GroupsRestart, GroupsSaved
<1> QED
  BY <1>2, <1>3, <1>4, <1>5 DEF GroupNext

(***************************************************************************)
(* The groups' file is behind the groups only after a failed call that     *)
(* could not be taken back (group.go:37-186).                              *)
(***************************************************************************)
THEOREM GroupsAreSaved == ToolsSpec => []GroupsSaved
<1>1. ToolsInit => GroupsSaved
  BY DEF ToolsInit, GroupInit, GroupsSaved
<1>2. GroupsSaved /\ [ToolsNext]_toolVars => GroupsSaved'
  BY GroupStepSaved, ToolSteps DEF groupVars, GroupsSaved
<1> QED
  BY <1>1, <1>2, PTL DEF ToolsSpec

-----------------------------------------------------------------------------
\* What a call has run so far, and where it may be.
RanWell(u) ==
  LET n == Len(u.ran) IN
  /\ u.at \in {"ask", "plan", "planning", "start"} => u.ran = << >> /\ u.status = "success"
  /\ u.at = "run" =>
       /\ n <= Len(u.plan)
       /\ \A i \in 1 .. n : u.ran[i] = "success" \/ (i = n /\ u.ran[i] = "failed")
       /\ u.status = "success" => \A i \in 1 .. n : u.ran[i] = "success"
       /\ u.status = "failed" =>
            n > 0 /\ u.ran[n] = "failed" /\ u.results[u.plan[n].id] = "failed"

PlacedWell(u) ==
  /\ u.at \in {"none", "start"} => ~u.process
  /\ u.at \in {"ask", "plan", "planning", "verify", "answer"} => u.process

\* Whoever makes the agent busy will make it idle, or has.
SomebodySettles ==
  agentState \in {"idle", "error"} \/ \E c \in Clients : use[c].at \notin {"none", "answer"}

\* Without an overlap the history is what was said, but for the sentence that
\* the one call of Process is about to add.
OneProcess ==
  \A c, d \in Clients : use[c].process /\ use[d].process => c = d

HeardBy(c) ==
  CASE use[c].at = "ask" ->
         /\ use[c].seen = conversation
         /\ spoken = Append(conversation, <<"user", use[c].message>>)
    [] use[c].at = "answer" ->
         /\ use[c].seen = conversation
         /\ spoken = Append(conversation, <<"assistant", use[c].message>>)
    [] OTHER -> conversation = spoken

Heard ==
  ~overlapped =>
    /\ OneProcess
    /\ (\A c \in Clients : ~use[c].process) => conversation = spoken
    /\ \A c \in Clients : use[c].process => HeardBy(c)

AgentInv ==
  /\ AgentTypeOK /\ SomebodySettles /\ Heard
  /\ \A c \in Clients : RanWell(use[c]) /\ PlacedWell(use[c])

\* A call that has run no step has run well.
LEMMA NothingRan ==
  ASSUME NEW u, u.ran = << >>, u.status = "success", u.plan \in Seq(AgentSteps)
  PROVE  RanWell(u)
<1>1. Len(u.ran) = 0 /\ Len(u.plan) \in Nat
  OBVIOUS
<1> QED
  BY <1>1 DEF RanWell

LEMMA NoUseTyped == NoUse \in AgentUse /\ RanWell(NoUse) /\ PlacedWell(NoUse)
<1>1. /\ << >> \in Seq(Said) /\ << >> \in Seq(AgentSteps)
      /\ << >> \in Seq({"success", "failed"})
  OBVIOUS
<1>2. [s \in StepIDs |-> "none"] \in [StepIDs -> {"none", "success", "failed", "skipped"}]
  OBVIOUS
<1>3. NoUse \in AgentUse
  BY <1>1, <1>2 DEF NoUse, AgentUse, AgentPlaces
<1>4. RanWell(NoUse)
  BY DEF NoUse, RanWell
<1> QED
  BY <1>3, <1>4 DEF NoUse, PlacedWell

LEMMA AgentInitInv == AgentInit => AgentInv
<1> SUFFICES ASSUME AgentInit PROVE AgentInv
  OBVIOUS
<1>1. AgentTypeOK
  <2>1. << >> \in Seq(Said)
    OBVIOUS
  <2> QED
    BY <2>1, NoUseTyped DEF AgentInit, AgentTypeOK
<1>2. SomebodySettles
  BY DEF AgentInit, SomebodySettles
<1>3. Heard
  BY DEF AgentInit, Heard, OneProcess, NoUse
<1> QED
  BY <1>1, <1>2, <1>3, NoUseTyped DEF AgentInit, AgentInv

\* What is left to show of a step of one call.
LEMMA BecomesInv ==
  ASSUME AgentInv, NEW c \in Clients, NEW u \in AgentUse, Becomes(c, u),
         RanWell(u), PlacedWell(u),
         registered' \in BOOLEAN, overlapped' \in BOOLEAN, messages' \in Nat,
         agentState' \in {"idle", "planning", "executing", "verifying", "error"},
         conversation' \in Seq(Said), spoken' \in Seq(Said),
         \/ agentState' \in {"idle", "error"}
         \/ u.at \notin {"none", "answer"}
         \/ agentState' = agentState /\ use[c].at \in {"none", "answer"},
         Heard'
  PROVE  AgentInv'
<1>1. /\ use' \in [Clients -> AgentUse] /\ use'[c] = u
      /\ \A d \in Clients \ {c} : use'[d] = use[d]
  BY DEF Becomes, AgentInv, AgentTypeOK
<1>2. AgentTypeOK'
  BY <1>1 DEF AgentTypeOK
<1>3. SomebodySettles'
  <2>1. CASE agentState' = agentState /\ use[c].at \in {"none", "answer"}
    BY <1>1, <2>1 DEF SomebodySettles, AgentInv
  <2> QED
    BY <1>1, <2>1 DEF SomebodySettles
<1>4. \A d \in Clients : RanWell(use'[d]) /\ PlacedWell(use'[d])
  BY <1>1 DEF AgentInv
<1> QED
  BY <1>2, <1>3, <1>4 DEF AgentInv

\* What is heard does not change when the call only moves on between places
\* where its sentence has been added.
LEMMA StillHeard ==
  ASSUME AgentInv, NEW c \in Clients, NEW u \in AgentUse, Becomes(c, u),
         UNCHANGED <<overlapped, conversation, spoken>>,
         use[c].at \notin {"ask", "answer"}, u.at \notin {"ask", "answer"},
         u.process => use[c].process
  PROVE  Heard'
<1> SUFFICES ASSUME ~overlapped PROVE Heard'
  BY DEF Heard
<1>1. /\ use' \in [Clients -> AgentUse] /\ use'[c] = u
      /\ \A d \in Clients \ {c} : use'[d] = use[d]
  BY DEF Becomes, AgentInv, AgentTypeOK
<1>2. Heard
  BY DEF AgentInv
<1>3. OneProcess'
  BY <1>1, <1>2 DEF Heard, OneProcess
<1>4. CASE use[c].process
  <2>1. conversation = spoken
    BY <1>2, <1>4 DEF Heard, HeardBy
  <2>2. \A d \in Clients : use'[d].process => d = c
    BY <1>1, <1>2, <1>4 DEF Heard, OneProcess
  <2> QED
    BY <1>1, <1>3, <2>1, <2>2 DEF Heard, HeardBy
<1>5. CASE ~use[c].process
  <2>1. \A d \in Clients : use'[d].process <=> use[d].process
    BY <1>1, <1>5 DEF AgentUse
  <2>2. ASSUME NEW d \in Clients, use'[d].process PROVE HeardBy(d)'
    BY <1>1, <1>2, <1>5, <2>1, <2>2 DEF Heard, HeardBy
  <2>3. (\A d \in Clients : ~use'[d].process) => conversation' = spoken'
    BY <1>2, <2>1 DEF Heard
  <2> QED
    BY <1>3, <2>2, <2>3 DEF Heard
<1> QED
  BY <1>4, <1>5

-----------------------------------------------------------------------------
LEMMA ProcessInv ==
  ASSUME AgentInv, NEW c \in Clients, Process(c)
  PROVE  AgentInv'
<1> DEFINE u == [NoUse EXCEPT !.at = "ask", !.process = TRUE, !.message = messages + 1,
                              !.seen = conversation]
<1>1. /\ u \in AgentUse /\ u.at = "ask" /\ u.process /\ u.message = messages + 1
      /\ u.seen = conversation /\ u.ran = << >> /\ u.status = "success"
  <2>1. messages + 1 \in Nat /\ conversation \in Seq(Said)
    BY DEF AgentInv, AgentTypeOK
  <2>2. u \in AgentUse
    BY <2>1, NoUseTyped DEF AgentUse, AgentPlaces
  <2> QED
    BY <2>2 DEF NoUse
<1>2. Becomes(c, u)
  BY DEF Process
<1> HIDE DEF u
<1>5. RanWell(u) /\ PlacedWell(u)
  BY <1>1, NothingRan DEF AgentUse, PlacedWell
<1>3. Heard'
  <2> SUFFICES ASSUME ~overlapped' PROVE Heard'
    BY DEF Heard
  <2>1. /\ use'[c] = u
        /\ \A d \in Clients \ {c} : use'[d] = use[d]
    BY <1>2 DEF Becomes, AgentInv, AgentTypeOK
  <2>2. ~overlapped /\ \A d \in Clients : ~use[d].process
    BY DEF Process
  <2>3. conversation = spoken
    BY <2>2 DEF AgentInv, Heard
  <2>4. \A d \in Clients : use'[d].process => d = c
    BY <2>1, <2>2
  <2>5. HeardBy(c)'
    BY <1>1, <2>1, <2>3 DEF Process, HeardBy
  <2> QED
    BY <1>1, <2>1, <2>4, <2>5 DEF Heard, OneProcess
<1>4. spoken' \in Seq(Said) /\ messages' \in Nat /\ overlapped' \in BOOLEAN
  BY DEF Process, AgentInv, AgentTypeOK, Said
<1> QED
  BY <1>1, <1>2, <1>3, <1>4, <1>5, BecomesInv DEF Process, AgentInv, AgentTypeOK

LEMMA AskInv ==
  ASSUME AgentInv, NEW c \in Clients, Ask(c)
  PROVE  AgentInv'
<1> DEFINE u == [use[c] EXCEPT !.at = "plan", !.seen = << >>]
<1>1. /\ u \in AgentUse /\ u.at = "plan" /\ u.process = use[c].process
      /\ u.ran = << >> /\ u.status = "success"
  <2>1. use[c] \in AgentUse /\ RanWell(use[c]) /\ use[c].at = "ask"
    BY DEF Ask, AgentInv, AgentTypeOK
  <2>2. u \in AgentUse
    <3>1. << >> \in Seq(Said) /\ "plan" \in AgentPlaces
      BY DEF AgentPlaces
    <3> QED
      BY <2>1, <3>1 DEF AgentUse
  <2>3. u.ran = use[c].ran /\ u.status = use[c].status
    BY <2>1 DEF AgentUse
  <2> QED
    BY <2>1, <2>2, <2>3 DEF AgentUse, RanWell
<1>2. Becomes(c, u)
  BY DEF Ask
<1> HIDE DEF u
<1>7. RanWell(u)
  BY <1>1, NothingRan DEF AgentUse
<1>3. /\ use'[c] = u
      /\ \A d \in Clients \ {c} : use'[d] = use[d]
  BY <1>2 DEF Becomes, AgentInv, AgentTypeOK
<1>4. use[c] \in AgentUse /\ use[c].process
  BY DEF Ask, AgentInv, AgentTypeOK, PlacedWell
<1>5. Heard'
  <2> SUFFICES ASSUME ~overlapped PROVE Heard'
    BY DEF Ask, Heard
  <2>1. OneProcess /\ HeardBy(c)
    BY <1>4 DEF AgentInv, Heard
  <2>2. conversation' = spoken'
    BY <2>1 DEF Ask, HeardBy, Recorded
  <2>3. OneProcess' /\ \A d \in Clients : use'[d].process => d = c
    BY <1>1, <1>3, <1>4, <2>1 DEF OneProcess
  <2> QED
    BY <1>1, <1>3, <2>2, <2>3 DEF Heard, HeardBy
<1>6. conversation' \in Seq(Said)
  BY <1>4 DEF Ask, Recorded, AgentUse, Said
<1>8. PlacedWell(u)
  BY <1>1, <1>4 DEF PlacedWell
<1> QED
  BY <1>1, <1>2, <1>5, <1>6, <1>7, <1>8, BecomesInv DEF Ask, AgentInv, AgentTypeOK

\* A step of a call that says nothing and has not yet run a tool.
LEMMA MovesInv ==
  ASSUME AgentInv, NEW c \in Clients, SetPlanning(c) \/ SetExecuting(c)
  PROVE  AgentInv'
<1> DEFINE v(next) == [use[c] EXCEPT !.at = next]
<1>1. /\ use[c] \in AgentUse /\ use[c].at \in {"plan", "start"}
      /\ use[c].ran = << >> /\ use[c].status = "success" /\ PlacedWell(use[c])
  BY DEF SetPlanning, SetExecuting, AgentMoves, AgentInv, AgentTypeOK, RanWell
<1>2. ASSUME NEW next \in {"planning", "run"}
      PROVE  /\ v(next) \in AgentUse /\ v(next).at = next
             /\ v(next).process = use[c].process
             /\ v(next).ran = << >> /\ v(next).status = "success"
  BY <1>1 DEF AgentUse, AgentPlaces
<1> HIDE DEF v
<1>3. ASSUME NEW next \in {"planning", "run"} PROVE RanWell(v(next))
  BY <1>2, NothingRan DEF AgentUse
<1>4. CASE SetPlanning(c)
  <2>1. Becomes(c, v("planning")) /\ use[c].at = "plan"
    BY <1>4 DEF SetPlanning, AgentMoves, v
  <2>2. PlacedWell(v("planning"))
    BY <1>1, <1>2, <2>1 DEF PlacedWell
  <2>3. Heard'
    BY <1>2, <1>4, <2>1, StillHeard DEF SetPlanning
  <2> QED
    BY <1>2, <1>3, <1>4, <2>1, <2>2, <2>3, BecomesInv DEF SetPlanning, AgentInv, AgentTypeOK
<1>5. CASE SetExecuting(c)
  <2>1. Becomes(c, v("run")) /\ use[c].at = "start"
    BY <1>5 DEF SetExecuting, AgentMoves, v
  <2>2. PlacedWell(v("run"))
    BY <1>1, <1>2, <2>1 DEF PlacedWell
  <2>3. Heard'
    BY <1>2, <1>5, <2>1, StillHeard DEF SetExecuting
  <2> QED
    BY <1>2, <1>3, <1>5, <2>1, <2>2, <2>3, BecomesInv DEF SetExecuting, AgentInv, AgentTypeOK
<1> QED
  BY <1>4, <1>5

\* A call ends.
LEMMA EndsInv ==
  ASSUME AgentInv, NEW c \in Clients, PlanFails(c) \/ PlanReturns(c) \/ Answer(c)
  PROVE  AgentInv'
<1>1. Becomes(c, NoUse)
  BY DEF PlanFails, PlanReturns, Answer
<1>2. NoUse.at = "none" /\ ~NoUse.process
  BY DEF NoUse
<1>3. CASE PlanFails(c) \/ PlanReturns(c)
  <2>1. use[c].at \in {"planning", "run"}
    BY <1>3 DEF PlanFails, PlanReturns, Executed
  <2>2. Heard'
    BY <1>1, <1>2, <1>3, <2>1, NoUseTyped, StillHeard DEF PlanFails, PlanReturns
  <2> QED
    BY <1>1, <1>3, <2>2, NoUseTyped, BecomesInv
       DEF PlanFails, PlanReturns, AgentInv, AgentTypeOK
<1>4. CASE Answer(c)
  <2>1. use[c] \in AgentUse /\ use[c].at = "answer" /\ use[c].process
    BY <1>4 DEF Answer, AgentInv, AgentTypeOK, PlacedWell
  <2>2. /\ use'[c] = NoUse
        /\ \A d \in Clients \ {c} : use'[d] = use[d]
    BY <1>1 DEF Becomes, AgentInv, AgentTypeOK
  <2>3. Heard'
    <3> SUFFICES ASSUME ~overlapped PROVE Heard'
      BY <1>4 DEF Answer, Heard
    <3>1. OneProcess /\ HeardBy(c)
      BY <2>1 DEF AgentInv, Heard
    <3>2. conversation' = spoken'
      BY <1>4, <2>1, <3>1 DEF Answer, HeardBy, Recorded
    <3>3. \A d \in Clients : ~use'[d].process
      BY <1>2, <2>1, <2>2, <3>1 DEF OneProcess
    <3> QED
      BY <3>2, <3>3 DEF Heard, OneProcess
  <2>4. conversation' \in Seq(Said)
    BY <1>4, <2>1 DEF Answer, Recorded, AgentUse, Said
  <2> QED
    BY <1>1, <1>4, <2>1, <2>3, <2>4, NoUseTyped, BecomesInv DEF Answer, AgentInv, AgentTypeOK
<1> QED
  BY <1>3, <1>4

LEMMA PlansTyped == ASSUME NEW plan \in Plans PROVE plan \in Seq(AgentSteps)
<1>1. PICK n \in 0 .. MaxSteps : plan \in [1 .. n -> AgentSteps]
  BY DEF Plans
<1>2. n \in Nat
  BY AgentAssumption
<1> QED
  BY <1>1, <1>2

\* A call gets its plan, from the model or from its caller.
LEMMA PlanInv ==
  ASSUME AgentInv, NEW c \in Clients, NEW plan \in Plans,
         Planned(c, plan) \/ ExecutePlan(c, plan)
  PROVE  AgentInv'
<1>1. plan \in Seq(AgentSteps)
  BY PlansTyped
<1>2. CASE Planned(c, plan)
  <2> DEFINE u == [use[c] EXCEPT !.at = "run", !.plan = plan]
  <2>1. /\ use[c] \in AgentUse /\ use[c].at = "planning" /\ use[c].ran = << >>
        /\ use[c].status = "success" /\ use[c].process
    BY <1>2 DEF Planned, AgentInv, AgentTypeOK, RanWell, PlacedWell
  <2>2. u \in AgentUse
    BY <1>1, <2>1 DEF AgentUse, AgentPlaces
  <2>3. /\ u.at = "run" /\ u.process = use[c].process
        /\ u.ran = << >> /\ u.status = "success"
    BY <2>1 DEF AgentUse
  <2>4. Becomes(c, u)
    BY <1>2 DEF Planned
  <2> HIDE DEF u
  <2>5. RanWell(u) /\ PlacedWell(u)
    BY <2>2, <2>3, NothingRan DEF AgentUse, PlacedWell
  <2>6. Heard'
    BY <1>2, <2>1, <2>2, <2>3, <2>4, StillHeard DEF Planned
  <2> QED
    BY <1>2, <2>2, <2>3, <2>4, <2>5, <2>6, BecomesInv DEF Planned, AgentInv, AgentTypeOK
<1>3. CASE ExecutePlan(c, plan)
  <2> DEFINE u == [NoUse EXCEPT !.at = "start", !.plan = plan]
  <2>1. u \in AgentUse
    BY <1>1, NoUseTyped DEF AgentUse, AgentPlaces
  <2>2. /\ u.at = "start" /\ ~u.process /\ u.ran = << >> /\ u.status = "success"
    BY DEF NoUse
  <2>3. Becomes(c, u) /\ use[c].at = "none"
    BY <1>3 DEF ExecutePlan
  <2> HIDE DEF u
  <2>4. RanWell(u) /\ PlacedWell(u)
    BY <2>1, <2>2, NothingRan DEF AgentUse, PlacedWell
  <2>5. Heard'
    BY <1>3, <2>1, <2>2, <2>3, StillHeard DEF ExecutePlan
  <2> QED
    BY <1>3, <2>1, <2>2, <2>3, <2>4, <2>5, BecomesInv DEF ExecutePlan, AgentInv, AgentTypeOK
<1> QED
  BY <1>2, <1>3

-----------------------------------------------------------------------------
\* A step of the plan has run.
LEMMA RunsInv ==
  ASSUME AgentInv, NEW c \in Clients, Running(c), NEW u \in AgentUse, Becomes(c, u),
         NEW outcome \in {"success", "failed"},
         u.at = "run", u.process = use[c].process, u.plan = use[c].plan,
         u.ran = Append(use[c].ran, outcome), u.status = outcome,
         outcome = "failed" => u.results[NextStep(c).id] = "failed",
         UNCHANGED <<registered, agentState, conversation, messages, spoken, overlapped>>
  PROVE  AgentInv'
<1> DEFINE n == Len(use[c].ran)
<1>1. /\ use[c] \in AgentUse /\ use[c].at = "run" /\ use[c].status = "success"
      /\ n < Len(use[c].plan) /\ RanWell(use[c])
  BY DEF Running, AgentInv, AgentTypeOK
<1>2. /\ use[c].ran \in Seq({"success", "failed"}) /\ use[c].plan \in Seq(AgentSteps)
      /\ n \in Nat /\ Len(use[c].plan) \in Nat
  BY <1>1 DEF AgentUse
<1>3. \A i \in 1 .. n : use[c].ran[i] = "success"
  BY <1>1 DEF RanWell
<1>4. /\ Len(u.ran) = n + 1 /\ u.ran[n + 1] = outcome
      /\ \A i \in 1 .. n : u.ran[i] = "success"
  <2> PICK ran : ran = use[c].ran
    OBVIOUS
  <2>1. /\ Len(Append(ran, outcome)) = Len(ran) + 1
        /\ Append(ran, outcome)[Len(ran) + 1] = outcome
        /\ \A i \in 1 .. Len(ran) : Append(ran, outcome)[i] = ran[i]
    BY <1>2
  <2>2. QED
    BY <1>3, <2>1
<1>5. u.plan[n + 1] = NextStep(c)
  BY DEF NextStep
<1> HIDE DEF n
<1>6. RanWell(u)
  BY <1>1, <1>2, <1>4, <1>5 DEF RanWell
<1>7. PlacedWell(u)
  BY DEF PlacedWell
<1>8. Heard'
  BY <1>1, StillHeard
<1> QED
  BY <1>1, <1>6, <1>7, <1>8, BecomesInv DEF AgentInv, AgentTypeOK

LEMMA NextStepTyped ==
  ASSUME AgentInv, NEW c \in Clients, Running(c)
  PROVE  /\ use[c] \in AgentUse /\ use[c].at = "run" /\ use[c].status = "success"
         /\ use[c].ran \in Seq({"success", "failed"}) /\ NextStep(c).id \in StepIDs
<1>1. use[c] \in AgentUse
  BY DEF AgentInv, AgentTypeOK
<1>2. /\ use[c].plan \in Seq(AgentSteps) /\ use[c].ran \in Seq({"success", "failed"})
      /\ Len(use[c].ran) < Len(use[c].plan)
  BY <1>1 DEF AgentUse, Running
<1>3. Len(use[c].ran) + 1 \in 1 .. Len(use[c].plan)
  BY <1>2
<1>4. NextStep(c) \in AgentSteps
  BY <1>2, <1>3 DEF NextStep
<1> QED
  BY <1>1, <1>2, <1>4 DEF AgentSteps, Running

LEMMA StepInv ==
  ASSUME AgentInv, NEW c \in Clients, StepFails(c) \/ StepSucceeds(c)
  PROVE  AgentInv'
<1> DEFINE id == NextStep(c).id
           told == IF Fulfilled(c, SubSeq(use[c].plan, 1, Len(use[c].ran) + 1))
                   THEN "success" ELSE "skipped"
           good == [use[c] EXCEPT !.ran = Append(@, "success"), !.results[id] = told]
           bad  == [use[c] EXCEPT !.ran = Append(@, "failed"), !.results[id] = "failed",
                                  !.status = "failed"]
<1>1. Running(c)
  BY DEF StepFails, StepSucceeds
<1>2. /\ use[c] \in AgentUse /\ use[c].at = "run" /\ use[c].status = "success"
      /\ use[c].ran \in Seq({"success", "failed"}) /\ id \in StepIDs
  BY <1>1, NextStepTyped
<1>3. told \in {"success", "skipped"}
  OBVIOUS
<1>4. CASE StepSucceeds(c)
  <2>1. Becomes(c, good)
    BY <1>4 DEF StepSucceeds
  <2> HIDE DEF told, id
  <2>2. Append(use[c].ran, "success") \in Seq({"success", "failed"})
    BY <1>2
  <2>3. [use[c].results EXCEPT ![id] = told]
          \in [StepIDs -> {"none", "success", "failed", "skipped"}]
    BY <1>2, <1>3 DEF AgentUse
  <2>4. good \in AgentUse
    BY <1>2, <2>2, <2>3 DEF AgentUse
  <2>5. /\ good.at = "run" /\ good.process = use[c].process /\ good.plan = use[c].plan
        /\ good.ran = Append(use[c].ran, "success") /\ good.status = "success"
    BY <1>2 DEF AgentUse
  <2> HIDE DEF good
  <2> QED
    BY <1>1, <1>4, <2>1, <2>4, <2>5, RunsInv DEF StepSucceeds
<1>5. CASE StepFails(c)
  <2>1. Becomes(c, bad)
    BY <1>5 DEF StepFails
  <2> HIDE DEF id
  <2>2. Append(use[c].ran, "failed") \in Seq({"success", "failed"})
    BY <1>2
  <2>3. /\ [use[c].results EXCEPT ![id] = "failed"]
             \in [StepIDs -> {"none", "success", "failed", "skipped"}]
        /\ [use[c].results EXCEPT ![id] = "failed"][id] = "failed"
    BY <1>2 DEF AgentUse
  <2>4. bad \in AgentUse
    BY <1>2, <2>2, <2>3 DEF AgentUse
  <2>5. /\ bad.at = "run" /\ bad.process = use[c].process /\ bad.plan = use[c].plan
        /\ bad.ran = Append(use[c].ran, "failed") /\ bad.status = "failed"
        /\ bad.results = [use[c].results EXCEPT ![id] = "failed"]
    BY <1>2 DEF AgentUse
  <2>6. bad.results[NextStep(c).id] = "failed"
    BY <2>3, <2>5 DEF id
  <2> HIDE DEF bad
  <2> QED
    BY <1>1, <1>5, <2>1, <2>4, <2>5, <2>6, RunsInv DEF StepFails
<1> QED
  BY <1>4, <1>5

\* The plan is done, and the call says what comes of it.
LEMMA SetVerifyingInv ==
  ASSUME AgentInv, NEW c \in Clients, SetVerifying(c)
  PROVE  AgentInv'
<1> DEFINE u == [NoUse EXCEPT !.at = "verify", !.process = TRUE,
                              !.message = use[c].message, !.status = use[c].status]
<1>1. use[c] \in AgentUse /\ use[c].at = "run" /\ use[c].process
  BY DEF SetVerifying, Executed, AgentInv, AgentTypeOK
<1>2. use[c].message \in Nat /\ use[c].status \in {"success", "failed"}
  BY <1>1 DEF AgentUse
<1>3. u \in AgentUse
  BY <1>2, NoUseTyped DEF AgentUse, AgentPlaces
<1>4. u.at = "verify" /\ u.process
  BY DEF NoUse
<1>5. Becomes(c, u)
  BY DEF SetVerifying
<1> HIDE DEF u
<1>6. RanWell(u) /\ PlacedWell(u)
  BY <1>4 DEF RanWell, PlacedWell
<1>7. Heard'
  BY <1>1, <1>3, <1>4, <1>5, StillHeard DEF SetVerifying
<1> QED
  BY <1>3, <1>4, <1>5, <1>6, <1>7, BecomesInv DEF SetVerifying, AgentInv, AgentTypeOK

LEMMA VerifyInv ==
  ASSUME AgentInv, NEW c \in Clients, Verify(c)
  PROVE  AgentInv'
<1> DEFINE u == [use[c] EXCEPT !.at = "answer", !.seen = conversation, !.status = "success"]
<1>1. use[c] \in AgentUse /\ use[c].at = "verify" /\ use[c].process
  BY DEF Verify, Verifies, AgentInv, AgentTypeOK, PlacedWell
<1>2. conversation \in Seq(Said) /\ spoken \in Seq(Said)
  BY DEF AgentInv, AgentTypeOK
<1>3. u \in AgentUse
  BY <1>1, <1>2 DEF AgentUse, AgentPlaces
<1>4. /\ u.at = "answer" /\ u.process /\ u.message = use[c].message
      /\ u.seen = conversation
  BY <1>1 DEF AgentUse
<1>5. Becomes(c, u)
  BY DEF Verify, Verifies
<1> HIDE DEF u
<1>6. RanWell(u) /\ PlacedWell(u)
  BY <1>4 DEF RanWell, PlacedWell
<1>7. /\ use'[c] = u
      /\ \A d \in Clients \ {c} : use'[d] = use[d]
  BY <1>5 DEF Becomes, AgentInv, AgentTypeOK
<1>8. Heard'
  <2> SUFFICES ASSUME ~overlapped PROVE Heard'
    BY DEF Verify, Verifies, Heard
  <2>1. OneProcess /\ HeardBy(c)
    BY <1>1 DEF AgentInv, Heard
  <2>2. conversation = spoken
    BY <1>1, <2>1 DEF HeardBy
  <2>3. HeardBy(c)'
    BY <1>4, <1>7, <2>2 DEF Verify, Verifies, HeardBy
  <2>4. \A d \in Clients : use'[d].process => d = c
    BY <1>1, <1>7, <2>1 DEF OneProcess
  <2> QED
    BY <1>4, <1>7, <2>3, <2>4 DEF Heard, OneProcess
<1>9. spoken' \in Seq(Said)
  BY <1>1, <1>2 DEF Verify, Verifies, AgentUse, Said
<1> QED
  BY <1>3, <1>4, <1>5, <1>6, <1>8, <1>9, BecomesInv DEF Verify, Verifies, AgentInv, AgentTypeOK

-----------------------------------------------------------------------------
LEMMA AgentStepInv == AgentInv /\ AgentNext => AgentInv'
<1> SUFFICES ASSUME AgentInv, AgentNext PROVE AgentInv'
  OBVIOUS
<1>1. CASE Stop \/ DeleteAgent
  BY <1>1 DEF Stop, DeleteAgent, AgentInv, AgentTypeOK, SomebodySettles, Heard, OneProcess,
              HeardBy
<1>2. ASSUME NEW c \in Clients, NEW plan \in Plans, Planned(c, plan) \/ ExecutePlan(c, plan)
      PROVE  AgentInv'
  BY <1>2, PlanInv
<1>3. ASSUME NEW c \in Clients, StepFails(c) \/ StepSucceeds(c) PROVE AgentInv'
  BY <1>3, StepInv
<1>4. ASSUME NEW c \in Clients, PlanFails(c) \/ PlanReturns(c) \/ Answer(c) PROVE AgentInv'
  BY <1>4, EndsInv
<1>5. ASSUME NEW c \in Clients, SetPlanning(c) \/ SetExecuting(c) PROVE AgentInv'
  BY <1>5, MovesInv
<1> QED
  BY <1>1, <1>2, <1>3, <1>4, <1>5, ProcessInv, AskInv, SetVerifyingInv, VerifyInv
     DEF AgentNext

LEMMA AgentInvHolds == ToolsSpec => []AgentInv
<1>1. ToolsInit => AgentInv
  BY AgentInitInv DEF ToolsInit
<1>2. AgentInv /\ [ToolsNext]_toolVars => AgentInv'
  <2> SUFFICES ASSUME AgentInv, [ToolsNext]_toolVars PROVE AgentInv'
    OBVIOUS
  <2>1. CASE AgentNext
    BY <2>1, AgentStepInv
  <2>2. CASE UNCHANGED agentVars
    BY <2>2 DEF agentVars, AgentInv, AgentTypeOK, SomebodySettles, Heard, OneProcess, HeardBy
  <2> QED
    BY <2>1, <2>2, ToolSteps
<1> QED
  BY <1>1, <1>2, PTL DEF ToolsSpec

(***************************************************************************)
(* However many calls of Process, ExecutePlan, Stop and Delete interleave  *)
(* on the unlocked agent (runtime.go:140-229), with none under way the     *)
(* agent is idle or in error, and without an overlap its history is what   *)
(* was said, in order.                                                     *)
(***************************************************************************)
THEOREM AgentComesToRest == ToolsSpec => []AgentsSettle
<1>1. AgentInv => AgentsSettle
  <2> SUFFICES ASSUME AgentInv, \A c \in Clients : use[c].at = "none"
               PROVE  /\ agentState \in {"idle", "error"}
                      /\ overlapped \/ conversation = spoken
    BY DEF AgentsSettle
  <2>1. agentState \in {"idle", "error"}
    BY DEF AgentInv, SomebodySettles
  <2>2. \A c \in Clients : ~use[c].process
    BY DEF AgentInv, PlacedWell
  <2> QED
    BY <2>1, <2>2 DEF AgentInv, Heard
<1> QED
  BY <1>1, AgentInvHolds, PTL

(***************************************************************************)
(* What Execute reports of a plan is what its tools did                    *)
(* (executor.go:81-101), for plans of any length, whatever names and       *)
(* dependencies the model has given their steps.                           *)
(***************************************************************************)
THEOREM ReportsAreTrue == ToolsSpec => []ResultsAreTrue
<1>1. AgentInv => ResultsAreTrue
  <2> SUFFICES ASSUME AgentInv, NEW c \in Clients, Executed(c)
               PROVE  LET n == Len(use[c].ran) IN
                      /\ \A i \in 1 .. n :
                           use[c].ran[i] = "success" \/ (i = n /\ use[c].ran[i] = "failed")
                      /\ IF use[c].status = "success"
                         THEN /\ n = Len(use[c].plan)
                              /\ \A i \in 1 .. n : use[c].ran[i] = "success"
                         ELSE /\ use[c].ran[n] = "failed"
                              /\ use[c].results[use[c].plan[n].id] = "failed"
    BY DEF ResultsAreTrue
  <2>1. /\ use[c] \in AgentUse /\ RanWell(use[c]) /\ use[c].at = "run"
        /\ use[c].status \in {"success", "failed"}
    BY DEF AgentInv, AgentTypeOK, AgentUse, Executed
  <2>2. Len(use[c].ran) \in Nat /\ Len(use[c].plan) \in Nat
    BY <2>1 DEF AgentUse
  <2>3. use[c].status = "success" => Len(use[c].ran) >= Len(use[c].plan)
    BY <2>1, <2>2 DEF Executed, Running
  <2> QED
    BY <2>1, <2>2, <2>3 DEF RanWell
<1> QED
  BY <1>1, AgentInvHolds, PTL
-----------------------------------------------------------------------------
(* The authorizer.  An answer names no request, so what makes a grant right *)
(* is that one request is about at a time: what the plugin asked for and    *)
(* what the decision holds are the same when the answer comes, and nobody   *)
(* can store another decision before the handler has taken this one.        *)

Decisions == [perms : SUBSET Permissions, granted : BOOLEAN]

AuthCalls == [at : {"idle", "store", "take", "mark", "grant", "delete", "marshal", "write"},
              perms : SUBSET Permissions, rec : Nat, data : Decisions \cup {NoDecision},
              revoking : BOOLEAN]

AuthTyped ==
  /\ records \in Seq(Decisions) /\ decision \in 0 .. Len(records)
  /\ authFile \in Decisions \cup {NoDecision}
  /\ granted \subseteq Permissions /\ allowed \subseteq Permissions
  /\ dialogs \subseteq SUBSET Permissions
  /\ thread \in [Threads -> AuthCalls]
  /\ \A t \in Threads : thread[t].at = "mark" => thread[t].rec \in 1 .. Len(records)

\* The decision in force holds no permissions beyond these.
DecisionWithin(perms) == decision = 0 \/ records[decision].perms \subseteq perms

Storing(t) == thread[t].at = "store"

\* What every handler of an answer is about to grant was allowed to.
AnswersAllowed ==
  /\ granted \subseteq allowed
  /\ \A t \in Threads :
       /\ thread[t].at = "take" => DecisionWithin(allowed) /\ \A u \in Threads : ~Storing(u)
       /\ thread[t].at = "mark" => records[thread[t].rec].perms \subseteq allowed
       /\ thread[t].at = "grant" => thread[t].perms \subseteq allowed

\* One request is about, and once it is stored the decision is about it.
OneRequest ==
  /\ \A t, u \in Threads : Storing(t) /\ Storing(u) => t = u
  /\ \A perms, others \in dialogs : perms = others
  /\ \A perms \in dialogs :
       /\ \A t \in Threads : Storing(t) => thread[t].perms = perms
       /\ (\A t \in Threads : ~Storing(t)) => DecisionWithin(perms)

AuthInv == AuthTyped /\ (~overtaken => AnswersAllowed /\ OneRequest)

LEMMA AuthInitInv == AuthInit => AuthInv
<1> SUFFICES ASSUME AuthInit
             PROVE  AuthInv
  OBVIOUS
<1>1. Free \in AuthCalls
  BY DEF Free, AuthCalls
<1>2. AuthTyped
  BY <1>1 DEF AuthInit, AuthTyped, Free
<1>3. AnswersAllowed /\ OneRequest
  BY DEF AuthInit, AnswersAllowed, OneRequest, Storing, Free
<1>4. QED
  BY <1>2, <1>3 DEF AuthInv

\* Goroutine t alone moves, to call c.
Turns(t, c) ==
  /\ thread'[t] = c
  /\ \A u \in Threads \ {t} : thread'[u] = thread[u]
  /\ thread' \in [Threads -> AuthCalls]

LEMMA TurnsTo ==
  ASSUME AuthTyped, NEW t \in Threads, NEW c \in AuthCalls,
         thread' = [thread EXCEPT ![t] = c]
  PROVE  Turns(t, c)
BY DEF Turns, AuthTyped

\* A goroutine that goes on keeps what its call holds.
LEMMA CallGoesOn ==
  ASSUME NEW held \in AuthCalls, NEW place \in {"take", "marshal"},
         NEW c, c = [held EXCEPT !.at = place]
  PROVE  c \in AuthCalls /\ c.at = place /\ c.perms = held.perms
BY DEF AuthCalls

LEMMA RequestInv ==
  ASSUME AuthInv, ~overtaken, NEW t \in Threads, NEW perms \in SUBSET Permissions,
         RequestAuthorization(t, perms)
  PROVE  AuthInv'
<1> DEFINE c == [Free EXCEPT !.at = "store", !.perms = perms]
<1>1. c \in AuthCalls /\ c.at = "store" /\ c.perms = perms
  BY DEF Free, AuthCalls
<1> HIDE DEF c
<1>2. Turns(t, c) /\ UNCHANGED <<records, decision, authFile, granted, allowed>>
  BY <1>1, TurnsTo DEF AuthInv, RequestAuthorization, c
<1>3. dialogs' = dialogs \cup {perms}
  BY DEF RequestAuthorization
<1>4. AuthTyped'
  BY <1>1, <1>2, <1>3 DEF AuthInv, AuthTyped, Turns
<1>5. ASSUME ~overtaken'
      PROVE  AnswersAllowed' /\ OneRequest'
  <2>1. dialogs = {} /\ \A u \in Threads : thread[u].at \notin {"store", "take"}
    BY <1>5 DEF RequestAuthorization
  <2>2. AnswersAllowed'
    BY <1>1, <1>2, <2>1 DEF AuthInv, AnswersAllowed, Turns, Storing
  <2>3. OneRequest'
    BY <1>1, <1>2, <1>3, <2>1 DEF OneRequest, Turns, Storing
  <2>4. QED
    BY <2>2, <2>3
<1>6. QED
  BY <1>4, <1>5 DEF AuthInv

LEMMA StoreInv ==
  ASSUME AuthInv, ~overtaken, NEW t \in Threads, StoreDecision(t)
  PROVE  AuthInv'
<1> DEFINE c == [Free EXCEPT !.at = "marshal"]
           d == [perms |-> thread[t].perms, granted |-> FALSE]
<1>1. c \in AuthCalls /\ c.at = "marshal"
  BY DEF Free, AuthCalls
<1>2. d \in Decisions /\ d.perms = thread[t].perms
  BY DEF Decisions, AuthInv, AuthTyped, AuthCalls
<1>3. /\ thread[t].at = "store" /\ records' = Append(records, d)
      /\ decision' = Len(records) + 1
      /\ UNCHANGED <<authFile, granted, dialogs, allowed, overtaken>>
  BY DEF StoreDecision, Stores
<1>4. Turns(t, c)
  BY <1>1, TurnsTo DEF AuthInv, StoreDecision, Stores
<1> HIDE DEF c, d
<1>5. /\ records' \in Seq(Decisions) /\ Len(records') = Len(records) + 1
      /\ Len(records) \in Nat
      /\ \A i \in 1 .. Len(records) : records'[i] = records[i]
      /\ records'[decision'] = d
  BY <1>2, <1>3 DEF AuthInv, AuthTyped
<1>6. AuthTyped'
  <2>1. decision' \in 0 .. Len(records')
    BY <1>3, <1>5
  <2>2. ASSUME NEW u \in Threads, thread'[u].at = "mark"
        PROVE  thread'[u].rec \in 1 .. Len(records')
    <3>1. u # t /\ thread'[u] = thread[u]
      BY <1>1, <1>4, <2>2 DEF Turns
    <3>2. thread[u].rec \in 1 .. Len(records)
      BY <2>2, <3>1 DEF AuthInv, AuthTyped
    <3>3. QED
      BY <1>5, <3>1, <3>2
  <2>3. UNCHANGED <<authFile, granted, allowed, dialogs>>
    BY <1>3
  <2>4. QED
    BY <1>4, <1>5, <2>1, <2>2, <2>3 DEF AuthInv, AuthTyped, Turns
<1>7. AnswersAllowed /\ OneRequest
  BY DEF AuthInv
<1>8. AnswersAllowed'
  <2>1. \A u \in Threads : thread'[u].at # "take"
    BY <1>1, <1>3, <1>4, <1>7 DEF AnswersAllowed, Storing, Turns
  <2>2. ASSUME NEW u \in Threads, thread'[u].at = "mark"
        PROVE  records'[thread'[u].rec].perms \subseteq allowed'
    <3>1. u # t /\ thread'[u] = thread[u]
      BY <1>1, <1>4, <2>2 DEF Turns
    <3>2. thread[u].rec \in 1 .. Len(records)
      BY <2>2, <3>1 DEF AuthInv, AuthTyped
    <3>3. QED
      BY <1>3, <1>5, <1>7, <2>2, <3>1, <3>2 DEF AnswersAllowed
  <2>3. \A u \in Threads : thread'[u].at = "grant" => thread'[u].perms \subseteq allowed'
    BY <1>1, <1>3, <1>4, <1>7 DEF AnswersAllowed, Turns
  <2>4. QED
    BY <1>3, <1>7, <2>1, <2>2, <2>3 DEF AnswersAllowed
<1>9. OneRequest'
  <2>1. \A u \in Threads : ~Storing(u)'
    BY <1>1, <1>3, <1>4, <1>7 DEF OneRequest, Storing, Turns
  <2>2. \A perms \in dialogs : d.perms = perms
    BY <1>2, <1>3, <1>7 DEF OneRequest, Storing
  <2>3. \A perms \in dialogs' : DecisionWithin(perms)'
    BY <1>3, <1>5, <2>2 DEF DecisionWithin
  <2>4. QED
    BY <1>3, <1>7, <2>1, <2>3 DEF OneRequest
<1>10. QED
  BY <1>6, <1>8, <1>9 DEF AuthInv

LEMMA AgreeInv ==
  ASSUME AuthInv, ~overtaken, NEW t \in Threads, NEW perms \in SUBSET Permissions,
         Agree(t, perms)
  PROVE  AuthInv'
<1> DEFINE c == [thread[t] EXCEPT !.at = "take"]
<1>0. thread[t] \in AuthCalls
  BY DEF AuthInv, AuthTyped
<1>1. /\ c \in AuthCalls /\ c.at = "take"
      /\ thread' = [thread EXCEPT ![t] = c]
  BY <1>0, CallGoesOn DEF AuthInv, AuthTyped, Agree, Moves
<1> HIDE DEF c
<1>2. Turns(t, c) /\ UNCHANGED <<records, decision, authFile, granted>>
  BY <1>1, TurnsTo DEF AuthInv, Agree
<1>3. /\ perms \in dialogs /\ dialogs' = dialogs \ {perms} /\ allowed' = allowed \cup perms
      /\ thread[t].at = "idle"
  BY DEF Agree, Moves
<1>4. AuthTyped'
  BY <1>1, <1>2, <1>3 DEF AuthInv, AuthTyped, Turns
<1>5. AnswersAllowed /\ OneRequest
  BY DEF AuthInv
<1>6. ASSUME ~overtaken'
      PROVE  AnswersAllowed' /\ OneRequest'
  <2>1. \A u \in Threads : ~Storing(u)
    BY <1>6 DEF Agree, Storing
  <2>2. \A u \in Threads : ~Storing(u)'
    BY <1>1, <1>2, <2>1 DEF Storing, Turns
  <2>3. DecisionWithin(perms)
    BY <1>3, <1>5, <2>1 DEF OneRequest
  <2>4. DecisionWithin(allowed)'
    BY <1>2, <1>3, <2>3 DEF DecisionWithin
  <2>5. AnswersAllowed'
    BY <1>1, <1>2, <1>3, <1>5, <2>2, <2>4 DEF AnswersAllowed, Turns
  <2>6. dialogs' = {}
    BY <1>3, <1>5 DEF OneRequest
  <2>7. OneRequest'
    BY <2>2, <2>6 DEF OneRequest
  <2>8. QED
    BY <2>5, <2>7
<1>7. QED
  BY <1>4, <1>6 DEF AuthInv

\* A step of goroutine t to a call that says less: the records stay.
LEMMA QuietStep ==
  ASSUME AuthInv, ~overtaken, ~overtaken', NEW t \in Threads, NEW c \in AuthCalls, Turns(t, c),
         UNCHANGED <<records, decision, authFile, granted, allowed>>, dialogs' \subseteq dialogs,
         thread[t].at # "store", c.at \notin {"store", "take"},
         c.at = "mark" => /\ c.rec \in 1 .. Len(records)
                          /\ records[c.rec].perms \subseteq allowed,
         c.at = "grant" => c.perms \subseteq allowed
  PROVE  AuthInv'
<1>1. AuthTyped'
  BY DEF AuthInv, AuthTyped, Turns
<1>2. AnswersAllowed /\ OneRequest
  BY DEF AuthInv
<1>3. \A u \in Threads : Storing(u)' <=> Storing(u)
  BY DEF Storing, Turns
<1>4. AnswersAllowed'
  BY <1>2, <1>3 DEF AnswersAllowed, Turns, DecisionWithin
<1>5. OneRequest'
  <2>1. \A u \in Threads : Storing(u) => thread'[u] = thread[u]
    BY DEF Storing, Turns
  <2>2. QED
    BY <1>2, <1>3, <2>1 DEF OneRequest, DecisionWithin
<1>6. QED
  BY <1>1, <1>4, <1>5 DEF AuthInv

LEMMA RevokeInv ==
  ASSUME AuthInv, ~overtaken, NEW t \in Threads,
         \/ RevokeAuthorization(t)
         \/ \E perms \in SUBSET Permissions : Refuse(t, perms)
  PROVE  AuthInv'
<1> DEFINE c == [Free EXCEPT !.at = "delete", !.revoking = TRUE]
<1>1. c \in AuthCalls /\ c.at = "delete"
  BY DEF Free, AuthCalls
<1>2. /\ thread' = [thread EXCEPT ![t] = c] /\ thread[t].at = "idle"
      /\ UNCHANGED <<records, decision, authFile, granted, allowed, overtaken>>
      /\ dialogs' \subseteq dialogs
  BY DEF RevokeAuthorization, Refuse
<1> HIDE DEF c
<1>3. Turns(t, c)
  BY <1>1, <1>2, TurnsTo DEF AuthInv
<1>4. QED
  BY <1>1, <1>2, <1>3, QuietStep

LEMMA TakeInv ==
  ASSUME AuthInv, ~overtaken, NEW t \in Threads, TakeDecision(t)
  PROVE  AuthInv'
<1> DEFINE c == IF decision = 0 THEN Free ELSE [thread[t] EXCEPT !.at = "mark", !.rec = decision]
<1>1. thread[t] \in AuthCalls /\ decision \in 0 .. Len(records) /\ Len(records) \in Nat
  BY DEF AuthInv, AuthTyped
<1>2. /\ c \in AuthCalls /\ c.at \in {"idle", "mark"}
      /\ c.at = "mark" => c.rec = decision /\ decision # 0
  <2>1. CASE decision = 0
    BY <2>1 DEF Free, AuthCalls
  <2>2. CASE decision # 0
    <3> DEFINE e == [thread[t] EXCEPT !.at = "mark", !.rec = decision]
    <3>1. decision \in Nat
      BY <1>1
    <3>2. e \in AuthCalls /\ e.at = "mark" /\ e.rec = decision
      BY <1>1, <3>1 DEF AuthCalls
    <3>3. c = e
      BY <2>2
    <3>4. QED
      BY <2>2, <3>2, <3>3
  <2>3. QED
    BY <2>1, <2>2
<1>3. /\ thread' = [thread EXCEPT ![t] = c] /\ thread[t].at = "take"
      /\ UNCHANGED <<records, decision, authFile, granted, dialogs, allowed, overtaken>>
  BY DEF AuthInv, AuthTyped, TakeDecision
<1> HIDE DEF c
<1>4. Turns(t, c)
  BY <1>2, <1>3, TurnsTo DEF AuthInv
<1>5. DecisionWithin(allowed)
  BY <1>3 DEF AuthInv, AnswersAllowed
<1>6. c.at = "mark" => /\ c.rec \in 1 .. Len(records)
                       /\ records[c.rec].perms \subseteq allowed
  BY <1>1, <1>2, <1>5 DEF DecisionWithin
<1>7. QED
  BY <1>2, <1>3, <1>4, <1>6, QuietStep

LEMMA MarkInv ==
  ASSUME AuthInv, ~overtaken, NEW t \in Threads, MarkGranted(t)
  PROVE  AuthInv'
<1> DEFINE r == thread[t].rec
           c == [Free EXCEPT !.at = "grant", !.perms = records[r].perms]
<1>1. /\ thread[t].at = "mark" /\ r \in 1 .. Len(records) /\ Len(records) \in Nat
      /\ records[r] \in Decisions
  BY DEF MarkGranted, AuthInv, AuthTyped
<1>2. c \in AuthCalls /\ c.at = "grant" /\ c.perms = records[r].perms
  BY <1>1 DEF Free, AuthCalls, Decisions
<1>3. /\ thread' = [thread EXCEPT ![t] = c]
      /\ records' = [records EXCEPT ![r].granted = TRUE]
      /\ UNCHANGED <<decision, authFile, granted, dialogs, allowed, overtaken>>
  BY DEF MarkGranted
<1>4. /\ records' \in Seq(Decisions) /\ Len(records') = Len(records)
      /\ \A i \in 1 .. Len(records) : records'[i].perms = records[i].perms
  <2> DEFINE d == [records[r] EXCEPT !.granted = TRUE]
  <2>1. d \in Decisions /\ d.perms = records[r].perms
    BY <1>1 DEF Decisions
  <2>2. records \in Seq(Decisions)
    BY DEF AuthInv, AuthTyped
  <2>3. records' = [records EXCEPT ![r] = d]
    BY <1>3
  <2> HIDE DEF d
  <2>4. QED
    BY <1>1, <2>1, <2>2, <2>3
<1> HIDE DEF c
<1>5. Turns(t, c)
  BY <1>2, <1>3, TurnsTo DEF AuthInv
<1>6. AnswersAllowed /\ OneRequest
  BY DEF AuthInv
<1>7. AuthTyped'
  <2>1. ASSUME NEW u \in Threads, thread'[u].at = "mark"
        PROVE  thread'[u].rec \in 1 .. Len(records')
    <3>1. thread'[u] = thread[u]
      BY <1>2, <1>5, <2>1 DEF Turns
    <3>2. QED
      BY <1>4, <2>1, <3>1 DEF AuthInv, AuthTyped
  <2>2. decision' \in 0 .. Len(records')
    BY <1>3, <1>4 DEF AuthInv, AuthTyped
  <2>3. QED
    BY <1>3, <1>4, <1>5, <2>1, <2>2 DEF AuthInv, AuthTyped, Turns
<1>8. \A u \in Threads : Storing(u)' <=> Storing(u)
  BY <1>1, <1>2, <1>5 DEF Storing, Turns
<1>9. ASSUME NEW perms, DecisionWithin(perms)
      PROVE  DecisionWithin(perms)'
  BY <1>3, <1>4, <1>9 DEF DecisionWithin, AuthInv, AuthTyped
<1>10. AnswersAllowed'
  <2>1. ASSUME NEW u \in Threads, thread'[u].at = "take"
        PROVE  DecisionWithin(allowed)' /\ \A w \in Threads : ~Storing(w)'
    <3>1. thread[u].at = "take"
      BY <1>2, <1>5, <2>1 DEF Turns
    <3>2. DecisionWithin(allowed)' /\ \A w \in Threads : ~Storing(w)
      <4>1. DecisionWithin(allowed) /\ \A w \in Threads : ~Storing(w)
        BY <1>6, <3>1 DEF AnswersAllowed
      <4>2. QED
        BY <1>3, <1>4, <4>1 DEF DecisionWithin, AuthInv, AuthTyped
    <3>3. QED
      BY <1>8, <3>2
  <2>2. ASSUME NEW u \in Threads, thread'[u].at = "mark"
        PROVE  records'[thread'[u].rec].perms \subseteq allowed'
    <3>1. thread'[u] = thread[u]
      BY <1>2, <1>5, <2>2 DEF Turns
    <3>2. /\ thread[u].rec \in 1 .. Len(records)
          /\ records[thread[u].rec].perms \subseteq allowed
      BY <1>6, <2>2, <3>1 DEF AuthInv, AuthTyped, AnswersAllowed
    <3>3. QED
      BY <1>3, <1>4, <3>1, <3>2
  <2>3. ASSUME NEW u \in Threads, thread'[u].at = "grant"
        PROVE  thread'[u].perms \subseteq allowed'
    <3>1. CASE u = t
      BY <1>1, <1>2, <1>3, <1>5, <1>6, <3>1 DEF AnswersAllowed, Turns
    <3>2. CASE u # t
      BY <1>3, <1>5, <1>6, <2>3, <3>2 DEF AnswersAllowed, Turns
    <3>3. QED
      BY <3>1, <3>2
  <2>4. QED
    BY <1>3, <1>6, <2>1, <2>2, <2>3 DEF AnswersAllowed
<1>11. OneRequest'
  <2>1. \A u \in Threads : Storing(u) => thread'[u] = thread[u]
    BY <1>1, <1>5 DEF Storing, Turns
  <2>2. ASSUME NEW perms \in dialogs', \A u \in Threads : ~Storing(u)'
        PROVE  DecisionWithin(perms)'
    <3>1. DecisionWithin(perms)
      BY <1>3, <1>6, <1>8, <2>2 DEF OneRequest
    <3>2. QED
      BY <1>3, <1>4, <3>1 DEF DecisionWithin, AuthInv, AuthTyped
  <2>3. QED
    BY <1>3, <1>6, <1>8, <2>1, <2>2 DEF OneRequest
<1>12. QED
  BY <1>7, <1>10, <1>11 DEF AuthInv

LEMMA GrantInv ==
  ASSUME AuthInv, ~overtaken, NEW t \in Threads, GrantEach(t)
  PROVE  AuthInv'
<1>1. /\ thread[t].at = "grant" /\ thread[t] \in AuthCalls
      /\ UNCHANGED <<records, decision, authFile, dialogs, allowed, overtaken>>
  BY DEF GrantEach, AuthInv, AuthTyped
<1>2. AnswersAllowed /\ OneRequest /\ thread[t].perms \subseteq allowed
  BY <1>1 DEF AuthInv, AnswersAllowed
<1>3. CASE thread[t].perms = {}
  <2> DEFINE c == [thread[t] EXCEPT !.at = "marshal"]
  <2>1. c \in AuthCalls /\ c.at = "marshal"
    BY <1>1, CallGoesOn
  <2>2. thread' = [thread EXCEPT ![t] = c] /\ granted' = granted
    BY <1>3 DEF GrantEach, Moves, AuthInv, AuthTyped
  <2> HIDE DEF c
  <2>3. Turns(t, c)
    BY <2>1, <2>2, TurnsTo DEF AuthInv
  <2>4. QED
    BY <1>1, <2>1, <2>2, <2>3, QuietStep
<1>4. ASSUME NEW perm \in thread[t].perms,
             granted' = granted \cup {perm},
             thread' = [thread EXCEPT ![t].perms = @ \ {perm}]
      PROVE  AuthInv'
  <2> DEFINE c == [thread[t] EXCEPT !.perms = @ \ {perm}]
  <2>1. c \in AuthCalls /\ c.at = "grant" /\ c.perms \subseteq allowed
    BY <1>1, <1>2 DEF AuthCalls
  <2>2. thread' = [thread EXCEPT ![t] = c]
    BY <1>4 DEF AuthInv, AuthTyped
  <2> HIDE DEF c
  <2>3. Turns(t, c)
    BY <2>1, <2>2, TurnsTo DEF AuthInv
  <2>4. AuthTyped'
    BY <1>1, <1>4, <2>1, <2>3 DEF AuthInv, AuthTyped, AuthCalls, Turns
  <2>5. \A u \in Threads : Storing(u)' <=> Storing(u)
    BY <1>1, <2>1, <2>3 DEF Storing, Turns
  <2>6. AnswersAllowed'
    <3>1. granted' \subseteq allowed'
      BY <1>1, <1>2, <1>4 DEF AnswersAllowed
    <3>2. \A u \in Threads : thread'[u].at = "take" => thread[u].at = "take"
      BY <2>1, <2>3 DEF Turns
    <3>3. \A u \in Threads : thread'[u].at = "mark" => thread'[u] = thread[u]
      BY <2>1, <2>3 DEF Turns
    <3>4. \A u \in Threads : thread'[u].at = "grant" => thread'[u].perms \subseteq allowed'
      BY <1>1, <1>2, <2>1, <2>3 DEF AnswersAllowed, Turns
    <3>5. QED
      BY <1>1, <1>2, <2>5, <3>1, <3>2, <3>3, <3>4 DEF AnswersAllowed, DecisionWithin
  <2>7. OneRequest'
    <3>1. \A u \in Threads : Storing(u) => thread'[u] = thread[u]
      BY <1>1, <2>3 DEF Storing, Turns
    <3>2. QED
      BY <1>1, <1>2, <2>5, <3>1 DEF OneRequest, DecisionWithin
  <2>8. QED
    BY <2>4, <2>6, <2>7 DEF AuthInv
<1>5. QED
  BY <1>3, <1>4 DEF GrantEach

LEMMA DeleteInv ==
  ASSUME AuthInv, ~overtaken, NEW t \in Threads, DeleteDecision(t)
  PROVE  AuthInv'
<1> DEFINE c == [thread[t] EXCEPT !.at = "marshal"]
<1>1. c \in AuthCalls /\ c.at = "marshal"
  <2>1. thread[t] \in AuthCalls
    BY DEF AuthInv, AuthTyped
  <2>2. QED
    BY <2>1, CallGoesOn
<1>2. /\ thread' = [thread EXCEPT ![t] = c] /\ thread[t].at = "delete" /\ decision' = 0
      /\ UNCHANGED <<records, authFile, granted, dialogs, allowed, overtaken>>
  BY DEF DeleteDecision, Moves, AuthInv, AuthTyped
<1> HIDE DEF c
<1>3. Turns(t, c)
  BY <1>1, <1>2, TurnsTo DEF AuthInv
<1>4. AuthTyped'
  BY <1>1, <1>2, <1>3 DEF AuthInv, AuthTyped, Turns
<1>5. AnswersAllowed /\ OneRequest
  BY DEF AuthInv
<1>6. \A u \in Threads : Storing(u)' <=> Storing(u)
  BY <1>1, <1>2, <1>3 DEF Storing, Turns
<1>7. AnswersAllowed'
  BY <1>1, <1>2, <1>3, <1>5, <1>6 DEF AnswersAllowed, Turns, DecisionWithin
<1>8. OneRequest'
  <2>1. \A u \in Threads : Storing(u) => thread'[u] = thread[u]
    BY <1>2, <1>3 DEF Storing, Turns
  <2>2. QED
    BY <1>2, <1>5, <1>6, <2>1 DEF OneRequest, DecisionWithin
<1>9. QED
  BY <1>4, <1>7, <1>8 DEF AuthInv

LEMMA MarshalInv ==
  ASSUME AuthInv, ~overtaken, NEW t \in Threads, Marshal(t)
  PROVE  AuthInv'
<1> DEFINE d == IF decision = 0 THEN NoDecision ELSE records[decision]
           c == [thread[t] EXCEPT !.at = "write", !.data = d]
<1>1. d \in Decisions \cup {NoDecision}
  BY DEF AuthInv, AuthTyped
<1>2. /\ thread[t].at = "marshal" /\ thread[t] \in AuthCalls
      /\ UNCHANGED <<records, decision, authFile, granted, dialogs, allowed, overtaken>>
  BY DEF Marshal, AuthInv, AuthTyped
<1>3. thread' = [thread EXCEPT ![t] = c]
  BY DEF Marshal, AuthInv, AuthTyped
<1> HIDE DEF d
<1>4. c \in AuthCalls /\ c.at = "write"
  BY <1>1, <1>2 DEF AuthCalls
<1> HIDE DEF c
<1>5. Turns(t, c)
  BY <1>3, <1>4, TurnsTo DEF AuthInv
<1>6. QED
  BY <1>2, <1>4, <1>5, QuietStep

LEMMA SaveAuthInv ==
  ASSUME AuthInv, ~overtaken, NEW t \in Threads, Save(t)
  PROVE  AuthInv'
<1> DEFINE c == IF thread[t].revoking THEN [Free EXCEPT !.at = "delete", !.revoking = TRUE]
                ELSE Free
<1>1. c \in AuthCalls /\ c.at \in {"delete", "idle"}
  BY DEF Free, AuthCalls
<1>2. /\ thread[t].at = "write" /\ thread' = [thread EXCEPT ![t] = c]
      /\ UNCHANGED <<records, decision, granted, dialogs, allowed, overtaken>>
      /\ authFile' \in {authFile, thread[t].data}
  BY DEF Save, AuthInv, AuthTyped
<1> HIDE DEF c
<1>3. Turns(t, c)
  BY <1>1, <1>2, TurnsTo DEF AuthInv
<1>4. authFile' \in Decisions \cup {NoDecision}
  BY <1>2 DEF AuthInv, AuthTyped, AuthCalls
<1>5. AuthTyped'
  BY <1>1, <1>2, <1>3, <1>4 DEF AuthInv, AuthTyped, Turns
<1>6. AnswersAllowed /\ OneRequest
  BY DEF AuthInv
<1>7. \A u \in Threads : Storing(u)' <=> Storing(u)
  BY <1>1, <1>2, <1>3 DEF Storing, Turns
<1>8. AnswersAllowed'
  BY <1>1, <1>2, <1>3, <1>6, <1>7 DEF AnswersAllowed, Turns, DecisionWithin
<1>9. OneRequest'
  <2>1. \A u \in Threads : Storing(u) => thread'[u] = thread[u]
    BY <1>2, <1>3 DEF Storing, Turns
  <2>2. QED
    BY <1>2, <1>6, <1>7, <2>1 DEF OneRequest, DecisionWithin
<1>10. QED
  BY <1>5, <1>8, <1>9 DEF AuthInv

LEMMA RestartAuthInv ==
  ASSUME AuthInv, RestartAuthorizer
  PROVE  AuthInv'
<1>1. authFile' \in Decisions \cup {NoDecision}
  BY DEF AuthInv, AuthTyped, RestartAuthorizer
<1>2. records' \in Seq(Decisions) /\ decision' \in 0 .. Len(records')
  BY <1>1 DEF RestartAuthorizer
<1>3. Free \in AuthCalls /\ Free.at = "idle"
  BY DEF Free, AuthCalls
<1>4. /\ thread' = [t \in Threads |-> Free]
      /\ granted' = {} /\ dialogs' = {} /\ allowed' = {}
  BY DEF RestartAuthorizer
<1>5. AuthTyped'
  BY <1>1, <1>2, <1>3, <1>4 DEF AuthTyped
<1>6. AnswersAllowed' /\ OneRequest'
  BY <1>3, <1>4 DEF AnswersAllowed, OneRequest, Storing
<1>7. QED
  BY <1>5, <1>6 DEF AuthInv

\* The table's own operations; a revocation counts when no handler of an
\* answer is about to grant.
LEMMA TableInv ==
  ASSUME AuthInv, ~overtaken, NEW perm \in Permissions, Grant(perm) \/ Revoke(perm)
  PROVE  AuthInv'
<1> USE DEF Grant, Revoke
<1>1. UNCHANGED <<records, decision, authFile, dialogs, thread, overtaken>>
  OBVIOUS
<1>2. AuthTyped'
  BY <1>1 DEF AuthInv, AuthTyped
<1>3. OneRequest'
  BY <1>1 DEF AuthInv, OneRequest, Storing, DecisionWithin
<1>4. AnswersAllowed'
  <2>1. \/ allowed \subseteq allowed' /\ granted' \subseteq allowed'
        \/ /\ \A t \in Threads : thread[t].at \notin {"take", "mark", "grant"}
           /\ granted' \subseteq allowed'
    BY DEF AuthInv, AnswersAllowed
  <2>2. QED
    BY <1>1, <2>1 DEF AuthInv, AnswersAllowed, DecisionWithin, Storing
<1>5. QED
  BY <1>2, <1>3, <1>4 DEF AuthInv

LEMMA AuthStep == AuthInv /\ [AuthNext]_authVars => AuthInv'
<1> SUFFICES ASSUME AuthInv, [AuthNext]_authVars
             PROVE  AuthInv'
  OBVIOUS
<1>1. CASE UNCHANGED authVars
  BY <1>1 DEF AuthInv, AuthTyped, AnswersAllowed, OneRequest, Storing, DecisionWithin, authVars
<1>2. CASE RestartAuthorizer
  BY <1>2, RestartAuthInv
<1>3. ASSUME ~overtaken, NEW t \in Threads, NEW perms \in SUBSET Permissions,
             RequestAuthorization(t, perms) \/ Agree(t, perms) \/ Refuse(t, perms)
      PROVE  AuthInv'
  BY <1>3, RequestInv, AgreeInv, RevokeInv
<1>4. ASSUME ~overtaken, NEW t \in Threads,
             \/ StoreDecision(t) \/ TakeDecision(t) \/ MarkGranted(t) \/ GrantEach(t)
             \/ RevokeAuthorization(t) \/ DeleteDecision(t) \/ Marshal(t) \/ Save(t)
      PROVE  AuthInv'
  BY <1>4, StoreInv, TakeInv, MarkInv, GrantInv, RevokeInv, DeleteInv, MarshalInv, SaveAuthInv
<1>5. ASSUME ~overtaken, NEW perm \in Permissions, Grant(perm) \/ Request(perm) \/ Revoke(perm)
      PROVE  AuthInv'
  BY <1>5, TableInv DEF Request
<1>6. QED
  BY <1>1, <1>2, <1>3, <1>4, <1>5 DEF AuthNext

(***************************************************************************)
(* A plugin has no permission but those of requests that were answered     *)
(* with yes since the program started (auth.go:83) and those a caller      *)
(* granted in the table (permission.go:39 and 83), less what was revoked   *)
(* since, with the excuse of the property.  That the permission table lies *)
(* within what is allowed is not inductive: what the handlers of answers   *)
(* hold, and what the decision and the dialog in force name, belongs to it.*)
(***************************************************************************)
THEOREM PermissionsWereAllowed == ToolsSpec => []OnlyAllowed
<1>1. ToolsInit => AuthInv
  BY AuthInitInv DEF ToolsInit
<1>2. AuthInv /\ [ToolsNext]_toolVars => AuthInv'
  BY AuthStep, ToolSteps
<1>3. AuthInv => OnlyAllowed
  BY DEF AuthInv, AnswersAllowed, OnlyAllowed
<1> QED
  BY <1>1, <1>2, <1>3, PTL DEF ToolsSpec
-----------------------------------------------------------------------------
(* Plugins.  While no call that ends the plugin runs beside another, a      *)
(* client that is not lost is the loaded record's, or is done with: no      *)
(* record names it and no call is about to start its process.               *)

PluginCalls ==
  [op : {"none", "load", "enable", "disable", "update", "uninstall", "execute", "install"},
   at : {"none", "loaded", "start", "enabled", "stop", "kill", "clear", "disable", "reread",
         "connect", "add", "failed", "unregister", "delete", "drop", "marshal", "write"},
   rec : Nat, client : Nat, saves : BOOLEAN, ok : BOOLEAN]

PluginRecs == [enabled : BOOLEAN, client : Nat]

PluginTyped ==
  /\ recs \in Seq(PluginRecs) /\ loaded \in 0 .. Len(recs)
  /\ clients \in Seq({"fresh", "running", "killed"})
  /\ binary \in BOOLEAN /\ stored \in BOOLEAN /\ storeFile \in BOOLEAN
  /\ raced \in BOOLEAN /\ removed \in BOOLEAN
  /\ doing \in [Users -> PluginCalls]
  /\ \A r \in DOMAIN recs : recs[r].client \in 0 .. Len(clients)

\* Where the calls of an operation may be, and what they have in hand there.
CallPlaced(v) ==
  /\ v.op = "none" <=> v.at = "none"
  /\ v.at \in {"stop", "kill", "clear", "disable"} => v.op \in Ending
  /\ v.at \in {"start", "enabled"} => v.op \in {"enable", "update"}
  /\ v.at \in {"unregister", "delete", "drop"} => v.op = "uninstall"
  /\ v.at \in {"marshal", "write"} => v.op \in {"install", "uninstall"}
  /\ v.at = "add" => v.op = "install"
  /\ v.at \in {"start", "enabled", "stop", "kill", "clear", "disable", "reread"} =>
       v.rec \in DOMAIN recs
  /\ v.at = "connect" => v.client \in DOMAIN clients

LoadedClient == IF loaded = 0 THEN 0 ELSE recs[loaded].client

\* Client k is at an end: it has no process, and will not get one.
DoneWith(k) ==
  /\ clients[k] # "running"
  /\ \A r \in DOMAIN recs : recs[r].client # k
  /\ \A u \in Users : doing[u].at = "connect" => doing[u].client # k

ClientsKnown ==
  /\ \A k \in DOMAIN clients : k \in lost \/ k = LoadedClient \/ DoneWith(k)
  /\ \A r \in DOMAIN recs : r # loaded => recs[r].client \in lost \cup {0}

\* A call that ends the plugin is alone.
EndsAlone ==
  \A u, v \in Users : u # v /\ doing[u].op \in Ending => doing[v].op = "none"

\* How far such a call has come.
EndingSteps(v) ==
  /\ v.at \in {"stop", "kill", "clear", "disable", "unregister"} =>
       v.rec = loaded /\ loaded # 0
  /\ v.at = "clear" => LoadedClient = 0 \/ clients[LoadedClient] # "running"
  /\ v.at \in {"disable", "unregister"} => LoadedClient = 0
  /\ v.op = "uninstall" =>
       /\ v.at \in {"delete", "drop", "marshal", "write"} => loaded = 0
       /\ v.at \in {"drop", "marshal", "write"} /\ v.ok => ~binary
       /\ v.at \in {"marshal", "write"} => ~stored
       /\ v.at = "write" => ~v.saves

\* A record that is not enabled has no client, or is being enabled.
DisabledHasNone ==
  loaded # 0 /\ ~recs[loaded].enabled =>
    \/ recs[loaded].client = 0
    \/ \E u \in Users : doing[u].at = "enabled" /\ doing[u].rec = loaded

\* After an uninstall nothing comes back without a call that is under way.
StaysRemoved ==
  removed => /\ loaded = 0 /\ ~binary /\ ~stored /\ ~storeFile
             /\ \A u \in Users : doing[u].op \in {"none", "uninstall"}

PluginOrder ==
  /\ ClientsKnown /\ EndsAlone /\ DisabledHasNone /\ StaysRemoved
  /\ \A u \in Users : EndingSteps(doing[u])

PluginInv ==
  /\ PluginTyped
  /\ \A u \in Users : CallPlaced(doing[u])
  /\ ~raced => PluginOrder

\* User u alone goes on, with call v.
UserTurns(u, v) ==
  /\ doing'[u] = v
  /\ \A w \in Users \ {u} : doing'[w] = doing[w]
  /\ doing' \in [Users -> PluginCalls]

LEMMA UserTurnsTo ==
  ASSUME PluginTyped, NEW u \in Users, NEW v \in PluginCalls,
         doing' = [doing EXCEPT ![u] = v]
  PROVE  UserTurns(u, v)
BY DEF UserTurns, PluginTyped

LEMMA PluginInitInv == PluginInit => PluginInv
<1> SUFFICES ASSUME PluginInit
             PROVE  PluginInv
  OBVIOUS
<1>1. NotDoing \in PluginCalls /\ NotDoing.op = "none" /\ NotDoing.at = "none"
  BY DEF NotDoing, PluginCalls
<1>2. /\ doing \in [Users -> PluginCalls]
      /\ \A u \in Users : doing[u] = NotDoing
  BY <1>1 DEF PluginInit
<1>3. /\ recs = <<>> /\ clients = <<>> /\ loaded = 0 /\ lost = {}
      /\ recs \in Seq(PluginRecs) /\ Len(recs) = 0
      /\ clients \in Seq({"fresh", "running", "killed"}) /\ Len(clients) = 0
      /\ DOMAIN recs = {} /\ DOMAIN clients = {}
  BY DEF PluginInit
<1>4. /\ binary \in BOOLEAN /\ stored \in BOOLEAN /\ storeFile \in BOOLEAN
      /\ raced \in BOOLEAN /\ removed \in BOOLEAN /\ removed = FALSE
  BY DEF PluginInit
<1>5. PluginTyped
  BY <1>2, <1>3, <1>4 DEF PluginTyped
<1>6. \A u \in Users : CallPlaced(doing[u]) /\ EndingSteps(doing[u])
  BY <1>1, <1>2 DEF CallPlaced, EndingSteps
<1>7. ClientsKnown /\ EndsAlone /\ DisabledHasNone /\ StaysRemoved
  BY <1>2, <1>3, <1>4, <1>1
     DEF ClientsKnown, EndsAlone, DisabledHasNone, StaysRemoved
<1>8. QED
  BY <1>5, <1>6, <1>7 DEF PluginInv, PluginOrder

LEMMA PlacedInv ==
  ASSUME \A w \in Users : CallPlaced(doing[w]), NEW u \in Users, NEW v \in PluginCalls,
         UserTurns(u, v), CallPlaced(v)',
         DOMAIN recs \subseteq DOMAIN recs', DOMAIN clients \subseteq DOMAIN clients'
  PROVE  \A w \in Users : CallPlaced(doing[w])'
<1> SUFFICES ASSUME NEW w \in Users
             PROVE  CallPlaced(doing[w])'
  OBVIOUS
<1>1. CASE w = u
  BY <1>1 DEF CallPlaced, UserTurns
<1>2. CASE w # u
  <2>1. doing'[w] = doing[w] /\ CallPlaced(doing[w])
    BY <1>2 DEF UserTurns
  <2>2. QED
    BY <2>1 DEF CallPlaced
<1>3. QED
  BY <1>1, <1>2

\* Unless something is raced, a call that goes on is beside none that ends
\* the plugin, and so is one that begins.
LEMMA AloneInv ==
  ASSUME PluginInv, ~raced, NEW u \in Users, NEW v \in PluginCalls, UserTurns(u, v),
         EndingSteps(v)', \A w \in Users \ {u} : doing[w].op \notin Ending,
         v.op \in Ending => \A w \in Users \ {u} : doing[w].op = "none"
  PROVE  EndsAlone' /\ \A w \in Users : EndingSteps(doing[w])'
<1>1. EndsAlone'
  BY DEF EndsAlone, UserTurns
<1>2. ASSUME NEW w \in Users
      PROVE  EndingSteps(doing[w])'
  <2>1. CASE w = u
    BY <2>1 DEF EndingSteps, UserTurns, LoadedClient
  <2>2. CASE w # u
    <3>1. doing'[w] = doing[w] /\ doing[w].op \notin Ending /\ CallPlaced(doing[w])
      BY <2>2 DEF UserTurns, PluginInv
    <3>2. QED
      BY <3>1 DEF EndingSteps, CallPlaced, Ending
  <2>3. QED
    BY <2>1, <2>2
<1>3. QED
  BY <1>1, <1>2

LEMMA OthersDoNotEnd ==
  ASSUME PluginInv, ~raced, NEW u \in Users, doing[u].op # "none"
  PROVE  /\ \A w \in Users \ {u} : doing[w].op \notin Ending
         /\ doing[u].op \in Ending => \A w \in Users \ {u} : doing[w].op = "none"
BY DEF PluginInv, PluginOrder, EndsAlone

\* Records, clients and what is lost stay: a call may come to read a client.
LEMMA KnownStays ==
  ASSUME ClientsKnown, NEW u \in Users, NEW v \in PluginCalls, UserTurns(u, v),
         UNCHANGED <<recs, loaded, clients, lost>>,
         v.at = "connect" => \E r \in DOMAIN recs : v.client = recs[r].client
  PROVE  ClientsKnown'
<1>1. \A k \in DOMAIN clients : DoneWith(k) => DoneWith(k)'
  BY DEF DoneWith, UserTurns
<1>2. LoadedClient' = LoadedClient
  BY DEF LoadedClient
<1>3. QED
  BY <1>1, <1>2 DEF ClientsKnown

LEMMA DisabledStays ==
  ASSUME DisabledHasNone, NEW u \in Users, NEW v \in PluginCalls, UserTurns(u, v),
         UNCHANGED <<recs, loaded>>, doing[u].at # "enabled"
  PROVE  DisabledHasNone'
<1> SUFFICES ASSUME loaded # 0, ~recs[loaded].enabled, recs[loaded].client # 0
             PROVE  \E w \in Users : doing'[w].at = "enabled" /\ doing'[w].rec = loaded
  BY DEF DisabledHasNone
<1>1. PICK w \in Users : doing[w].at = "enabled" /\ doing[w].rec = loaded
  BY DEF DisabledHasNone
<1>2. w # u /\ doing'[w] = doing[w]
  BY <1>1 DEF UserTurns
<1>3. QED
  BY <1>1, <1>2

\* A step of a call under way that leaves records and clients alone.
LEMMA PlainStep ==
  ASSUME PluginInv, NEW u \in Users, NEW v \in PluginCalls,
         doing' = [doing EXCEPT ![u] = v],
         UNCHANGED <<recs, loaded, clients, lost, raced>>,
         binary' \in BOOLEAN, stored' \in BOOLEAN, storeFile' \in BOOLEAN,
         removed' \in BOOLEAN, doing[u].op # "none", doing[u].at # "enabled",
         v.op \in {doing[u].op, "none"}, CallPlaced(v),
         v.at = "connect" => \E r \in DOMAIN recs : v.client = recs[r].client,
         ~raced => EndingSteps(v)' /\ StaysRemoved'
  PROVE  PluginInv'
<1>1. PluginTyped /\ \A w \in Users : CallPlaced(doing[w])
  BY DEF PluginInv
<1>2. UserTurns(u, v)
  BY <1>1, UserTurnsTo
<1>3. PluginTyped'
  BY <1>1, <1>2 DEF PluginTyped, UserTurns
<1>4. \A w \in Users : CallPlaced(doing[w])'
  <2>1. CallPlaced(v)'
    BY DEF CallPlaced
  <2>2. QED
    BY <1>1, <1>2, <2>1, PlacedInv
<1>5. ASSUME ~raced'
      PROVE  PluginOrder'
  <2>1. ~raced /\ PluginOrder
    BY <1>5 DEF PluginInv
  <2>2. ClientsKnown' /\ DisabledHasNone'
    BY <1>2, <2>1, KnownStays, DisabledStays DEF PluginOrder
  <2>3. /\ \A w \in Users \ {u} : doing[w].op \notin Ending
        /\ v.op \in Ending => \A w \in Users \ {u} : doing[w].op = "none"
    BY <2>1, OthersDoNotEnd DEF Ending
  <2>4. EndsAlone' /\ \A w \in Users : EndingSteps(doing[w])'
    BY <1>2, <2>1, <2>3, AloneInv
  <2>5. QED
    BY <2>1, <2>2, <2>4 DEF PluginOrder
<1>6. QED
  BY <1>3, <1>4, <1>5 DEF PluginInv

\* Where the others are when a call begins unraced.
LEMMA UnracedBegin ==
  ASSUME PluginInv, NEW u \in Users, NEW op, NEW at, NEW rec, CallBegins(u, op, at, rec)
  PROVE  /\ ~raced /\ doing[u].op = "none" /\ raced' \in BOOLEAN
         /\ ~raced' => /\ \A w \in Users \ {u} : doing[w].op \notin Ending
                       /\ op \in Ending => \A w \in Users \ {u} : doing[w].op = "none"
BY DEF CallBegins, Ending

Begun(op, at, rec) == [NotDoing EXCEPT !.op = op, !.at = at, !.rec = rec]

\* The beginning of a call that leaves records and clients alone.
LEMMA BeginStep ==
  ASSUME PluginInv, NEW u \in Users, NEW op, NEW at, NEW rec, CallBegins(u, op, at, rec),
         NEW v \in PluginCalls, v = Begun(op, at, rec),
         UNCHANGED <<recs, loaded, clients, lost, stored, storeFile>>,
         binary' \in BOOLEAN, removed' \in BOOLEAN,
         v.op = op, v.at # "connect", CallPlaced(v),
         ~raced' => EndingSteps(v)' /\ StaysRemoved'
  PROVE  PluginInv'
<1>1. PluginTyped /\ \A w \in Users : CallPlaced(doing[w])
  BY DEF PluginInv
<1>2. UserTurns(u, v)
  BY <1>1, UserTurnsTo DEF CallBegins, Begun
<1>3. /\ ~raced /\ doing[u].op = "none" /\ raced' \in BOOLEAN
      /\ ~raced' => /\ \A w \in Users \ {u} : doing[w].op \notin Ending
                    /\ op \in Ending => \A w \in Users \ {u} : doing[w].op = "none"
  BY UnracedBegin
<1>4. PluginTyped'
  BY <1>1, <1>2, <1>3 DEF PluginTyped, UserTurns
<1>5. \A w \in Users : CallPlaced(doing[w])'
  <2>1. CallPlaced(v)'
    BY DEF CallPlaced
  <2>2. QED
    BY <1>1, <1>2, <2>1, PlacedInv
<1>6. doing[u].at # "enabled"
  BY <1>1, <1>3 DEF CallPlaced
<1>7. ASSUME ~raced'
      PROVE  PluginOrder'
  <2>1. PluginOrder
    BY <1>3 DEF PluginInv
  <2>2. ClientsKnown' /\ DisabledHasNone'
    BY <1>2, <1>6, <2>1, KnownStays, DisabledStays DEF PluginOrder
  <2>3. EndsAlone' /\ \A w \in Users : EndingSteps(doing[w])'
    BY <1>2, <1>3, <1>7, AloneInv
  <2>4. QED
    BY <1>7, <2>1, <2>2, <2>3 DEF PluginOrder
<1>8. QED
  BY <1>4, <1>5, <1>7 DEF PluginInv

CallPlaces == {"none", "loaded", "start", "enabled", "stop", "kill", "clear", "disable",
               "reread", "connect", "add", "failed", "unregister", "delete", "drop",
               "marshal", "write"}

LEMMA Advanced ==
  ASSUME NEW held \in PluginCalls, NEW place \in CallPlaces,
         NEW v, v = [held EXCEPT !.at = place]
  PROVE  /\ v \in PluginCalls /\ v.at = place /\ v.op = held.op /\ v.rec = held.rec
         /\ v.client = held.client /\ v.ok = held.ok /\ v.saves = held.saves
BY DEF PluginCalls, CallPlaces

LEMMA CallOver ==
  /\ NotDoing \in PluginCalls /\ NotDoing.op = "none" /\ NotDoing.at = "none"
  /\ NotDoing.rec = 0 /\ NotDoing.client = 0
BY DEF NotDoing, PluginCalls

LEMMA ReturnsInv ==
  ASSUME PluginInv, NEW u \in Users, LoadReturns(u) \/ InstallReturns(u)
  PROVE  PluginInv'
<1>1. /\ doing' = [doing EXCEPT ![u] = NotDoing] /\ doing[u].at \in {"loaded", "failed"}
      /\ UNCHANGED <<recs, loaded, clients, binary, stored, storeFile, lost, raced, removed>>
  BY DEF LoadReturns, InstallReturns, Return, At
<1>2. PluginTyped /\ CallPlaced(doing[u])
  BY DEF PluginInv
<1>3. /\ binary' \in BOOLEAN /\ stored' \in BOOLEAN /\ storeFile' \in BOOLEAN
      /\ removed' \in BOOLEAN /\ doing[u].op # "none"
  BY <1>1, <1>2 DEF PluginTyped, CallPlaced
<1>4. CallPlaced(NotDoing) /\ EndingSteps(NotDoing)'
  BY CallOver DEF CallPlaced, EndingSteps
<1>5. ~raced => StaysRemoved'
  BY <1>1, CallOver DEF PluginInv, PluginOrder, StaysRemoved, PluginTyped
<1>6. QED
  BY <1>1, <1>3, <1>4, <1>5, CallOver, PlainStep

LEMMA CheckClientInv ==
  ASSUME PluginInv, NEW u \in Users, CheckClient(u)
  PROVE  PluginInv'
<1> PICK place : place = IF recs[doing[u].rec].client = 0 THEN "disable" ELSE "kill"
  OBVIOUS
<1> PICK v : v = [doing[u] EXCEPT !.at = place]
  OBVIOUS
<1>1. PluginTyped /\ CallPlaced(doing[u]) /\ doing[u] \in PluginCalls
  BY DEF PluginInv, PluginTyped
<1>2. place \in CallPlaces /\ place \in {"disable", "kill"}
  BY DEF CallPlaces
<1>3. /\ v \in PluginCalls /\ v.at = place /\ v.op = doing[u].op /\ v.rec = doing[u].rec
  BY <1>1, <1>2, Advanced
<1>4. /\ doing' = [doing EXCEPT ![u] = v] /\ doing[u].at = "stop"
      /\ UNCHANGED <<recs, loaded, clients, binary, stored, storeFile, lost, raced, removed>>
  BY <1>1 DEF CheckClient, GoesOn, At, PluginTyped
<1>5. /\ binary' \in BOOLEAN /\ stored' \in BOOLEAN /\ storeFile' \in BOOLEAN
      /\ removed' \in BOOLEAN /\ doing[u].op # "none"
  BY <1>1, <1>4 DEF PluginTyped, CallPlaced
<1>6. CallPlaced(v)
  BY <1>1, <1>2, <1>3, <1>4 DEF CallPlaced
<1>7. ASSUME ~raced
      PROVE  EndingSteps(v)' /\ StaysRemoved'
  <2>1. EndingSteps(doing[u]) /\ StaysRemoved
    BY <1>7 DEF PluginInv, PluginOrder
  <2>2. v.rec = loaded /\ loaded # 0
    BY <1>3, <1>4, <2>1 DEF EndingSteps
  <2>3. place = "disable" => LoadedClient = 0
    BY <1>3, <2>2 DEF LoadedClient
  <2>4. v.op # "uninstall" \/ v.at \notin {"delete", "drop", "marshal", "write"}
    BY <1>2, <1>3
  <2>5. EndingSteps(v)'
    BY <1>2, <1>3, <1>4, <2>2, <2>3 DEF EndingSteps, LoadedClient
  <2>6. \A w \in Users : doing'[w].op = doing[w].op
    BY <1>1, <1>3, <1>4 DEF PluginTyped
  <2>7. StaysRemoved'
    BY <1>4, <2>1, <2>6 DEF StaysRemoved
  <2>8. QED
    BY <2>5, <2>7
<1>8. QED
  BY <1>2, <1>3, <1>4, <1>5, <1>6, <1>7, PlainStep

LEMMA ReadClientInv ==
  ASSUME PluginInv, NEW u \in Users, ReadClient(u)
  PROVE  PluginInv'
<1> PICK k : k = recs[doing[u].rec].client
  OBVIOUS
<1> PICK v : v = [doing[u] EXCEPT !.at = "connect", !.client = k]
  OBVIOUS
<1>1. /\ PluginTyped /\ CallPlaced(doing[u]) /\ doing[u] \in PluginCalls
      /\ doing[u].at = "reread" /\ k # 0
  BY DEF PluginInv, PluginTyped, ReadClient, At
<1>2. doing[u].rec \in DOMAIN recs
  BY <1>1 DEF CallPlaced
<1>3. k \in Nat /\ k \in DOMAIN clients
  BY <1>1, <1>2 DEF PluginTyped
<1>4. /\ v \in PluginCalls /\ v.at = "connect" /\ v.op = doing[u].op /\ v.client = k
  BY <1>1, <1>3 DEF PluginCalls
<1>5. /\ doing' = [doing EXCEPT ![u] = v]
      /\ UNCHANGED <<recs, loaded, clients, binary, stored, storeFile, lost, raced, removed>>
  BY <1>1 DEF ReadClient, PluginTyped
<1>6. /\ binary' \in BOOLEAN /\ stored' \in BOOLEAN /\ storeFile' \in BOOLEAN
      /\ removed' \in BOOLEAN /\ doing[u].op # "none"
  BY <1>1, <1>5 DEF PluginTyped, CallPlaced
<1>7. CallPlaced(v)
  BY <1>1, <1>3, <1>4 DEF CallPlaced
<1>8. ASSUME ~raced
      PROVE  EndingSteps(v)' /\ StaysRemoved'
  <2>1. \A w \in Users : doing'[w].op = doing[w].op
    BY <1>1, <1>4, <1>5 DEF PluginTyped
  <2>2. StaysRemoved'
    BY <1>5, <1>8, <2>1 DEF PluginInv, PluginOrder, StaysRemoved
  <2>3. EndingSteps(v)'
    BY <1>4 DEF EndingSteps
  <2>4. QED
    BY <2>2, <2>3
<1>9. QED
  BY <1>1, <1>2, <1>4, <1>5, <1>6, <1>7, <1>8, PlainStep

\* The store's part: Add, and the end of Uninstall.
LEMMA AddInv ==
  ASSUME PluginInv, NEW u \in Users, Add(u)
  PROVE  PluginInv'
<1> PICK v : v = [doing[u] EXCEPT !.at = "marshal"]
  OBVIOUS
<1>1. /\ PluginTyped /\ CallPlaced(doing[u]) /\ doing[u] \in PluginCalls
      /\ doing[u].at = "add"
  BY DEF PluginInv, PluginTyped, Add, At
<1>2. v \in PluginCalls /\ v.at = "marshal" /\ v.op = doing[u].op
  BY <1>1, Advanced DEF CallPlaces
<1>3. /\ doing' = [doing EXCEPT ![u] = v] /\ stored' = TRUE
      /\ UNCHANGED <<recs, loaded, clients, binary, storeFile, lost, raced, removed>>
  BY <1>1 DEF Add, GoesOn, PluginTyped
<1>4. /\ binary' \in BOOLEAN /\ stored' \in BOOLEAN /\ storeFile' \in BOOLEAN
      /\ removed' \in BOOLEAN
  BY <1>1, <1>3 DEF PluginTyped
<1>5. doing[u].op = "install" /\ CallPlaced(v)
  BY <1>1, <1>2 DEF CallPlaced
<1>6. ASSUME ~raced
      PROVE  EndingSteps(v)' /\ StaysRemoved'
  <2>1. ~removed
    BY <1>5, <1>6 DEF PluginInv, PluginOrder, StaysRemoved
  <2>2. QED
    BY <1>2, <1>3, <1>5, <2>1 DEF EndingSteps, StaysRemoved
<1>7. QED
  BY <1>1, <1>2, <1>3, <1>4, <1>5, <1>6, PlainStep

LEMMA RemovalInv ==
  ASSUME PluginInv, NEW u \in Users, RemoveBinary(u) \/ RemoveEntry(u)
  PROVE  PluginInv'
<1>1. /\ PluginTyped /\ CallPlaced(doing[u]) /\ doing[u] \in PluginCalls
      /\ doing[u].at \in {"delete", "drop"}
  BY DEF PluginInv, PluginTyped, RemoveBinary, RemoveEntry, At
<1>2. doing[u].op = "uninstall"
  BY <1>1 DEF CallPlaced
<1>3. PICK v \in PluginCalls :
        /\ doing' = [doing EXCEPT ![u] = v] /\ v.op = "uninstall"
        /\ \/ /\ doing[u].at = "delete" /\ v.at = "drop" /\ v.ok = ~binary'
              /\ stored' = stored /\ binary' \in {FALSE, binary}
           \/ /\ doing[u].at = "drop" /\ v.at = "marshal" /\ v.ok = doing[u].ok
              /\ stored' = FALSE /\ binary' = binary
  <2>1. CASE RemoveBinary(u)
    <3> PICK v : v = [doing[u] EXCEPT !.at = "drop", !.ok = ~binary']
      OBVIOUS
    <3>1. v \in PluginCalls /\ v.at = "drop" /\ v.op = doing[u].op /\ v.ok = ~binary'
      BY <1>1 DEF PluginCalls
    <3>2. /\ doing' = [doing EXCEPT ![u] = v] /\ doing[u].at = "delete"
          /\ stored' = stored /\ binary' \in {FALSE, binary}
      BY <1>1, <2>1 DEF RemoveBinary, At, PluginTyped
    <3>3. QED
      BY <1>2, <3>1, <3>2
  <2>2. CASE RemoveEntry(u)
    <3> PICK v : v = [doing[u] EXCEPT !.at = "marshal"]
      OBVIOUS
    <3>1. /\ v \in PluginCalls /\ v.at = "marshal" /\ v.op = doing[u].op
          /\ v.ok = doing[u].ok
      BY <1>1, Advanced DEF CallPlaces
    <3>2. /\ doing' = [doing EXCEPT ![u] = v] /\ doing[u].at = "drop"
          /\ stored' = FALSE /\ binary' = binary
      BY <1>1, <2>2 DEF RemoveEntry, GoesOn, At, PluginTyped
    <3>3. QED
      BY <1>2, <3>1, <3>2
  <2>3. QED
    BY <2>1, <2>2
<1>4. UNCHANGED <<recs, loaded, clients, storeFile, lost, raced, removed>>
  BY DEF RemoveBinary, RemoveEntry
<1>5. /\ binary' \in BOOLEAN /\ stored' \in BOOLEAN /\ storeFile' \in BOOLEAN
      /\ removed' \in BOOLEAN
  BY <1>1, <1>3, <1>4 DEF PluginTyped
<1>6. CallPlaced(v)
  BY <1>3 DEF CallPlaced
<1>7. ASSUME ~raced
      PROVE  EndingSteps(v)' /\ StaysRemoved'
  <2>1. EndingSteps(doing[u]) /\ StaysRemoved
    BY <1>7 DEF PluginInv, PluginOrder
  <2>2. loaded = 0 /\ (doing[u].at = "drop" /\ doing[u].ok => ~binary)
    BY <1>1, <1>2, <2>1 DEF EndingSteps
  <2>3. EndingSteps(v)'
    <3>1. /\ v.at \in {"drop", "marshal"} /\ loaded' = 0
          /\ v.at = "marshal" => ~stored'
      BY <1>3, <1>4, <2>2
    <3>2. v.ok => ~binary'
      <4>1. CASE v.at = "drop"
        BY <1>3, <4>1
      <4>2. CASE v.at = "marshal"
        BY <1>3, <2>2, <4>2
      <4>3. QED
        BY <3>1, <4>1, <4>2
    <3>3. QED
      BY <3>1, <3>2 DEF EndingSteps
  <2>4. \A w \in Users : doing'[w].op = doing[w].op
    BY <1>1, <1>2, <1>3 DEF PluginTyped
  <2>5. StaysRemoved'
    BY <1>3, <1>4, <2>1, <2>4 DEF StaysRemoved
  <2>6. QED
    BY <2>3, <2>5
<1>8. QED
  BY <1>1, <1>2, <1>3, <1>4, <1>5, <1>6, <1>7, PlainStep

LEMMA MarshalStoreInv ==
  ASSUME PluginInv, NEW u \in Users, MarshalStore(u)
  PROVE  PluginInv'
<1> PICK v : v = [doing[u] EXCEPT !.at = "write", !.saves = stored]
  OBVIOUS
<1>1. /\ PluginTyped /\ CallPlaced(doing[u]) /\ doing[u] \in PluginCalls
      /\ doing[u].at = "marshal" /\ stored \in BOOLEAN
  BY DEF PluginInv, PluginTyped, MarshalStore, At
<1>2. /\ v \in PluginCalls /\ v.at = "write" /\ v.op = doing[u].op /\ v.saves = stored
      /\ v.ok = doing[u].ok
  BY <1>1 DEF PluginCalls
<1>3. /\ doing' = [doing EXCEPT ![u] = v]
      /\ UNCHANGED <<recs, loaded, clients, binary, stored, storeFile, lost, raced, removed>>
  BY <1>1 DEF MarshalStore, PluginTyped
<1>4. /\ binary' \in BOOLEAN /\ stored' \in BOOLEAN /\ storeFile' \in BOOLEAN
      /\ removed' \in BOOLEAN /\ doing[u].op # "none"
  BY <1>1, <1>3 DEF PluginTyped, CallPlaced
<1>5. CallPlaced(v)
  BY <1>1, <1>2 DEF CallPlaced
<1>6. ASSUME ~raced
      PROVE  EndingSteps(v)' /\ StaysRemoved'
  <2>1. EndingSteps(doing[u]) /\ StaysRemoved
    BY <1>6 DEF PluginInv, PluginOrder
  <2>2. EndingSteps(v)'
    BY <1>1, <1>2, <1>3, <2>1 DEF EndingSteps
  <2>3. \A w \in Users : doing'[w].op = doing[w].op
    BY <1>1, <1>2, <1>3 DEF PluginTyped
  <2>4. StaysRemoved'
    BY <1>3, <2>1, <2>3 DEF StaysRemoved
  <2>5. QED
    BY <2>2, <2>4
<1>7. QED
  BY <1>1, <1>2, <1>3, <1>4, <1>5, <1>6, PlainStep

LEMMA WriteStoreInv ==
  ASSUME PluginInv, NEW u \in Users, WriteStore(u)
  PROVE  PluginInv'
<1>1. /\ PluginTyped /\ CallPlaced(doing[u]) /\ doing[u] \in PluginCalls
      /\ doing[u].at = "write"
  BY DEF PluginInv, PluginTyped, WriteStore, At
<1>2. /\ doing' = [doing EXCEPT ![u] = NotDoing]
      /\ UNCHANGED <<recs, loaded, clients, binary, stored, lost, raced>>
  BY DEF WriteStore, Return
<1>3. \/ /\ storeFile' = doing[u].saves
         /\ removed' = (doing[u].op = "uninstall" /\ doing[u].ok)
      \/ storeFile' = storeFile /\ removed' = FALSE
  BY DEF WriteStore
<1>4. binary' \in BOOLEAN /\ stored' \in BOOLEAN /\ doing[u].op # "none"
  BY <1>1, <1>2 DEF PluginTyped, CallPlaced
<1>5. storeFile' \in BOOLEAN /\ removed' \in BOOLEAN
  BY <1>1, <1>3 DEF PluginTyped, PluginCalls
<1>6. CallPlaced(NotDoing) /\ EndingSteps(NotDoing)'
  BY CallOver DEF CallPlaced, EndingSteps
<1>7. ASSUME ~raced
      PROVE  StaysRemoved'
  <2> SUFFICES ASSUME removed'
               PROVE  StaysRemoved'
    BY DEF StaysRemoved
  <2>1. storeFile' = doing[u].saves /\ doing[u].op = "uninstall" /\ doing[u].ok
    BY <1>3
  <2>2. EndingSteps(doing[u])
    BY <1>7 DEF PluginInv, PluginOrder
  <2>3. loaded = 0 /\ ~binary /\ ~stored /\ ~doing[u].saves
    BY <1>1, <2>1, <2>2 DEF EndingSteps
  <2>4. \A w \in Users \ {u} : doing[w].op = "none"
    BY <1>4, <1>7, <2>1, OthersDoNotEnd DEF Ending
  <2>5. \A w \in Users : doing'[w].op = "none"
    BY <1>1, <1>2, <2>4, CallOver DEF PluginTyped
  <2>6. QED
    BY <1>2, <2>1, <2>3, <2>5 DEF StaysRemoved
<1>8. QED
  BY <1>1, <1>2, <1>4, <1>5, <1>6, <1>7, CallOver, PlainStep

-----------------------------------------------------------------------------
\* The calls that begin.
LEMMA CallBegun ==
  ASSUME NEW op \in {"load", "enable", "disable", "update", "uninstall", "execute", "install"},
         NEW at \in CallPlaces, NEW rec \in Nat, NEW v, v = Begun(op, at, rec)
  PROVE  v \in PluginCalls /\ v.op = op /\ v.at = at /\ v.rec = rec
BY DEF Begun, NotDoing, PluginCalls, CallPlaces

LEMMA BeginsInv ==
  ASSUME PluginInv, NEW u \in Users,
         \/ Enable(u) \/ Execute(u) \/ Install(u) \/ InstallFails(u)
         \/ \E op \in Ending : StopPlugin(u, op)
  PROVE  PluginInv'
<1>1. PluginTyped
  BY DEF PluginInv
<1>2. PICK op \in {"enable", "disable", "update", "execute", "install"},
           at \in {"start", "stop", "reread", "add", "failed"},
           rec \in {0, loaded} :
        /\ CallBegins(u, op, at, rec)
        /\ \/ op = "enable" /\ at = "start"
           \/ op = "execute" /\ at = "reread"
           \/ op = "install" /\ at \in {"add", "failed"}
           \/ op \in {"disable", "update"} /\ at = "stop"
        /\ at \in {"start", "stop", "reread"} => rec = loaded /\ loaded # 0
        /\ op = "install" => removed' = FALSE
        /\ op # "install" => removed' = removed /\ loaded # 0
  <2>1. CASE Enable(u)
    BY <2>1 DEF Enable
  <2>2. CASE Execute(u)
    BY <2>2 DEF Execute
  <2>3. CASE Install(u)
    BY <2>3 DEF Install
  <2>4. CASE InstallFails(u)
    BY <2>4 DEF InstallFails
  <2>5. ASSUME NEW op \in Ending, StopPlugin(u, op)
        PROVE  /\ op \in {"disable", "update"} /\ loaded # 0 /\ removed' = removed
               /\ CallBegins(u, op, "stop", loaded)
    BY <2>5 DEF StopPlugin
  <2>6. QED
    BY <2>1, <2>2, <2>3, <2>4, <2>5
<1>3. /\ UNCHANGED <<recs, loaded, clients, lost, stored, storeFile>>
      /\ binary' \in {TRUE, binary}
  BY DEF Enable, Execute, Install, InstallFails, StopPlugin
<1> PICK v : v = Begun(op, at, rec)
  OBVIOUS
<1>4. rec \in Nat /\ (loaded # 0 => loaded \in DOMAIN recs)
  BY <1>1 DEF PluginTyped
<1>5. v \in PluginCalls /\ v.op = op /\ v.at = at /\ v.rec = rec
  BY <1>4, CallBegun DEF CallPlaces
<1>6. CallPlaced(v)
  BY <1>2, <1>4, <1>5 DEF CallPlaced, Ending
<1>7. binary' \in BOOLEAN /\ removed' \in BOOLEAN
  BY <1>1, <1>2, <1>3 DEF PluginTyped
<1>8. ~raced
  BY <1>2 DEF CallBegins
<1>9. EndingSteps(v)'
  BY <1>2, <1>3, <1>5 DEF EndingSteps
<1>10. StaysRemoved'
  <2>1. StaysRemoved
    BY <1>8 DEF PluginInv, PluginOrder
  <2>2. ~removed'
    BY <1>2, <2>1 DEF StaysRemoved
  <2>3. QED
    BY <2>2 DEF StaysRemoved
<1>11. v.at # "connect"
  BY <1>2, <1>5
<1>12. QED
  BY <1>2, <1>3, <1>5, <1>6, <1>7, <1>9, <1>10, <1>11, BeginStep

LEMMA UninstallInv ==
  ASSUME PluginInv, NEW u \in Users, Uninstall(u)
  PROVE  PluginInv'
<1> PICK at : at = IF loaded = 0 THEN "delete" ELSE
                   IF recs[loaded].enabled THEN "stop" ELSE "unregister"
  OBVIOUS
<1>1. PluginTyped /\ at \in {"delete", "stop", "unregister"}
  BY DEF PluginInv
<1>2. /\ CallBegins(u, "uninstall", at, loaded)
      /\ UNCHANGED <<recs, loaded, clients, binary, stored, storeFile, lost, removed>>
  BY DEF Uninstall
<1> PICK v : v = Begun("uninstall", at, loaded)
  OBVIOUS
<1>3. loaded \in Nat /\ (loaded # 0 => loaded \in DOMAIN recs)
  BY <1>1 DEF PluginTyped
<1>4. v \in PluginCalls /\ v.op = "uninstall" /\ v.at = at /\ v.rec = loaded
  BY <1>1, <1>3, CallBegun DEF CallPlaces
<1>5. CallPlaced(v)
  BY <1>1, <1>3, <1>4 DEF CallPlaced, Ending
<1>6. binary' \in BOOLEAN /\ removed' \in BOOLEAN
  BY <1>1, <1>2 DEF PluginTyped
<1>7. ~raced /\ doing[u].op = "none" /\ doing[u].at = "none"
  BY <1>2 DEF CallBegins, PluginInv, CallPlaced
<1>8. ASSUME ~raced'
      PROVE  EndingSteps(v)' /\ StaysRemoved'
  <2>1. \A w \in Users \ {u} : doing[w].op = "none"
    BY <1>2, <1>8, UnracedBegin DEF Ending
  <2>2. \A w \in Users : doing[w].at # "enabled"
    BY <1>7, <2>1 DEF PluginInv, CallPlaced
  <2>3. DisabledHasNone /\ StaysRemoved
    BY <1>7 DEF PluginInv, PluginOrder
  <2>4. at = "unregister" => LoadedClient = 0
    BY <2>2, <2>3 DEF DisabledHasNone, LoadedClient
  <2>5. EndingSteps(v)'
    BY <1>1, <1>2, <1>4, <2>4 DEF EndingSteps, LoadedClient
  <2>6. \A w \in Users : doing'[w].op \in {"none", "uninstall"}
    <3>1. doing' = [doing EXCEPT ![u] = v]
      BY <1>2 DEF CallBegins, Begun
    <3>2. QED
      BY <1>1, <1>4, <2>1, <3>1 DEF PluginTyped
  <2>7. StaysRemoved'
    BY <1>2, <2>3, <2>6 DEF StaysRemoved
  <2>8. QED
    BY <2>5, <2>7
<1>9. v.at # "connect"
  BY <1>1, <1>4
<1>10. QED
  BY <1>2, <1>4, <1>5, <1>6, <1>8, <1>9, BeginStep

-----------------------------------------------------------------------------
\* The calls that change records and clients.
PluginData ==
  /\ recs \in Seq(PluginRecs) /\ loaded \in 0 .. Len(recs)
  /\ clients \in Seq({"fresh", "running", "killed"})
  /\ binary \in BOOLEAN /\ stored \in BOOLEAN /\ storeFile \in BOOLEAN
  /\ raced \in BOOLEAN /\ removed \in BOOLEAN
  /\ \A r \in DOMAIN recs : recs[r].client \in 0 .. Len(clients)

LEMMA TurnInv ==
  ASSUME PluginInv, NEW u \in Users, NEW v \in PluginCalls,
         doing' = [doing EXCEPT ![u] = v], PluginData', CallPlaced(v)',
         DOMAIN recs \subseteq DOMAIN recs', DOMAIN clients \subseteq DOMAIN clients',
         ~raced' =>
           /\ ~raced /\ \A w \in Users \ {u} : doing[w].op \notin Ending
           /\ v.op \in Ending => \A w \in Users \ {u} : doing[w].op = "none"
           /\ EndingSteps(v)' /\ ClientsKnown' /\ DisabledHasNone' /\ StaysRemoved'
  PROVE  PluginInv'
<1>1. PluginTyped /\ \A w \in Users : CallPlaced(doing[w])
  BY DEF PluginInv
<1>2. UserTurns(u, v)
  BY <1>1, UserTurnsTo
<1>3. PluginTyped'
  BY <1>2 DEF PluginTyped, PluginData, UserTurns
<1>4. \A w \in Users : CallPlaced(doing[w])'
  BY <1>1, <1>2, PlacedInv
<1>5. ASSUME ~raced'
      PROVE  PluginOrder'
  <2>1. EndsAlone' /\ \A w \in Users : EndingSteps(doing[w])'
    BY <1>2, <1>5, AloneInv
  <2>2. QED
    BY <1>5, <2>1 DEF PluginOrder
<1>6. QED
  BY <1>3, <1>4, <1>5 DEF PluginInv

LEMMA GoesOnInv ==
  ASSUME PluginInv, NEW u \in Users, NEW v \in PluginCalls,
         doing' = [doing EXCEPT ![u] = v], PluginData', CallPlaced(v)',
         DOMAIN recs \subseteq DOMAIN recs', DOMAIN clients \subseteq DOMAIN clients',
         raced' = raced, doing[u].op # "none", v.op \in {doing[u].op, "none"},
         ~raced => EndingSteps(v)' /\ ClientsKnown' /\ DisabledHasNone' /\ StaysRemoved'
  PROVE  PluginInv'
<1>1. ASSUME ~raced
      PROVE  /\ \A w \in Users \ {u} : doing[w].op \notin Ending
             /\ v.op \in Ending => \A w \in Users \ {u} : doing[w].op = "none"
  BY <1>1, OthersDoNotEnd DEF Ending
<1>2. QED
  BY <1>1, TurnInv

\* The loaded record and its client are the same, and so is every other's.
LEMMA ClientsSame ==
  ASSUME ClientsKnown, NEW u \in Users, NEW v \in PluginCalls, UserTurns(u, v),
         UNCHANGED <<loaded, clients, lost>>, DOMAIN recs' = DOMAIN recs,
         loaded # 0 => loaded \in DOMAIN recs,
         \A r \in DOMAIN recs : recs'[r].client = recs[r].client,
         v.at # "connect"
  PROVE  ClientsKnown'
<1>1. \A k \in DOMAIN clients : DoneWith(k) => DoneWith(k)'
  BY DEF DoneWith, UserTurns
<1>2. LoadedClient' = LoadedClient
  BY DEF LoadedClient
<1>3. QED
  BY <1>1, <1>2 DEF ClientsKnown

\* An uninstalled plugin stays so while the calls under way go on.
LEMMA RemovedStays ==
  ASSUME StaysRemoved, NEW u \in Users, NEW v \in PluginCalls, UserTurns(u, v),
         v.op \in {doing[u].op, "none"}, loaded' \in {loaded, 0},
         UNCHANGED <<binary, stored, storeFile, removed>>
  PROVE  StaysRemoved'
<1> SUFFICES ASSUME removed
             PROVE  StaysRemoved'
  BY DEF StaysRemoved
<1>1. \A w \in Users : doing'[w].op \in {"none", "uninstall"}
  BY DEF StaysRemoved, UserTurns
<1>2. QED
  BY <1>1 DEF StaysRemoved

\* A record that changes, and stays one.
LEMMA RecordChanged ==
  ASSUME recs \in Seq(PluginRecs), NEW r \in DOMAIN recs, NEW v \in PluginRecs,
         recs' = [recs EXCEPT ![r] = v]
  PROVE  /\ recs' \in Seq(PluginRecs) /\ Len(recs') = Len(recs)
         /\ DOMAIN recs' = DOMAIN recs /\ recs'[r] = v
         /\ \A q \in DOMAIN recs \ {r} : recs'[q] = recs[q]
OBVIOUS

LEMMA KillInv ==
  ASSUME PluginInv, NEW u \in Users, Kill(u)
  PROVE  PluginInv'
<1>v. PICK v : v = [doing[u] EXCEPT !.at = "clear"]
  OBVIOUS
<1>k. PICK k : k = recs[doing[u].rec].client
  OBVIOUS
<1>1. /\ PluginTyped /\ CallPlaced(doing[u]) /\ doing[u] \in PluginCalls
      /\ doing[u].at = "kill" /\ k # 0
  BY <1>k DEF PluginInv, PluginTyped, Kill, At
<1>2. /\ v \in PluginCalls /\ v.at = "clear" /\ v.op = doing[u].op /\ v.rec = doing[u].rec
  BY <1>v, <1>1, Advanced DEF CallPlaces
<1>3. /\ doing' = [doing EXCEPT ![u] = v]
      /\ UNCHANGED <<recs, loaded, binary, stored, storeFile, lost, raced, removed>>
      /\ clients' = [clients EXCEPT ![k] = IF @ = "running" THEN "killed" ELSE @]
  BY <1>1, <1>v, <1>k DEF Kill, GoesOn, PluginTyped
<1>4. /\ doing[u].rec \in DOMAIN recs /\ doing[u].op # "none" /\ doing[u].op \in Ending
  BY <1>1 DEF CallPlaced
<1>5. k \in DOMAIN clients
  BY <1>k, <1>1, <1>4 DEF PluginTyped
<1>6. /\ clients' \in Seq({"fresh", "running", "killed"}) /\ Len(clients') = Len(clients)
      /\ DOMAIN clients' = DOMAIN clients /\ clients'[k] # "running"
      /\ \A j \in DOMAIN clients : clients[j] # "running" => clients'[j] # "running"
  BY <1>1, <1>3, <1>5 DEF PluginTyped
<1>7. PluginData'
  BY <1>1, <1>3, <1>6 DEF PluginTyped, PluginData
<1>8. CallPlaced(v)'
  BY <1>1, <1>2, <1>3, <1>4 DEF CallPlaced
<1>9. UserTurns(u, v)
  BY <1>1, <1>2, <1>3, UserTurnsTo
<1>10. ASSUME ~raced
       PROVE  EndingSteps(v)' /\ ClientsKnown' /\ DisabledHasNone' /\ StaysRemoved'
  <2>1. PluginOrder
    BY <1>10 DEF PluginInv
  <2>2. v.rec = loaded /\ loaded # 0 /\ LoadedClient' = k /\ LoadedClient = k
    BY <1>k, <1>1, <1>2, <1>3, <2>1 DEF PluginOrder, EndingSteps, LoadedClient
  <2>3. EndingSteps(v)'
    BY <1>2, <1>3, <1>6, <2>2 DEF EndingSteps
  <2>4. \A j \in DOMAIN clients : DoneWith(j) => DoneWith(j)'
    BY <1>2, <1>3, <1>6, <1>9 DEF DoneWith, UserTurns
  <2>5. ClientsKnown'
    BY <1>3, <1>6, <2>1, <2>2, <2>4 DEF PluginOrder, ClientsKnown
  <2>6. DisabledHasNone'
    BY <1>1, <1>3, <1>9, <2>1, <1>2, DisabledStays DEF PluginOrder
  <2>7. StaysRemoved'
    BY <1>2, <1>3, <1>9, <2>1, RemovedStays DEF PluginOrder
  <2>8. QED
    BY <2>3, <2>5, <2>6, <2>7
<1>11. QED
  BY <1>2, <1>3, <1>4, <1>6, <1>7, <1>8, <1>10, GoesOnInv

LEMMA ClearClientInv ==
  ASSUME PluginInv, NEW u \in Users, ClearClient(u)
  PROVE  PluginInv'
<1> PICK v : v = [doing[u] EXCEPT !.at = "disable"]
  OBVIOUS
<1> PICK r : r = doing[u].rec
  OBVIOUS
<1>1. /\ PluginTyped /\ CallPlaced(doing[u]) /\ doing[u] \in PluginCalls
      /\ doing[u].at = "clear"
  BY DEF PluginInv, PluginTyped, ClearClient, At
<1>2. /\ v \in PluginCalls /\ v.at = "disable" /\ v.op = doing[u].op /\ v.rec = r
  BY <1>1, Advanced DEF CallPlaces
<1>3. /\ doing' = [doing EXCEPT ![u] = v]
      /\ UNCHANGED <<loaded, clients, binary, stored, storeFile, lost, raced, removed>>
      /\ recs' = [recs EXCEPT ![r].client = 0]
  BY <1>1 DEF ClearClient, GoesOn, PluginTyped
<1>4. r \in DOMAIN recs /\ doing[u].op # "none" /\ doing[u].op \in Ending
  BY <1>1 DEF CallPlaced
<1>5. /\ recs' \in Seq(PluginRecs) /\ Len(recs') = Len(recs) /\ DOMAIN recs' = DOMAIN recs
      /\ recs'[r].client = 0 /\ \A q \in DOMAIN recs \ {r} : recs'[q] = recs[q]
  <2> PICK new : new = [recs[r] EXCEPT !.client = 0]
    OBVIOUS
  <2>1. recs \in Seq(PluginRecs) /\ recs[r] \in PluginRecs
    BY <1>1, <1>4 DEF PluginTyped
  <2>2. new \in PluginRecs /\ new.client = 0
    BY <2>1 DEF PluginRecs
  <2>3. recs' = [recs EXCEPT ![r] = new]
    BY <1>3, <1>4, <2>1
  <2>4. QED
    BY <1>4, <2>1, <2>2, <2>3, RecordChanged
<1>6. PluginData'
  BY <1>1, <1>3, <1>5 DEF PluginTyped, PluginData
<1>7. CallPlaced(v)'
  BY <1>1, <1>2, <1>4, <1>5 DEF CallPlaced
<1>8. UserTurns(u, v)
  BY <1>1, <1>2, <1>3, UserTurnsTo
<1>9. ASSUME ~raced
      PROVE  EndingSteps(v)' /\ ClientsKnown' /\ DisabledHasNone' /\ StaysRemoved'
  <2>1. PluginOrder
    BY <1>9 DEF PluginInv
  <2>2. /\ r = loaded /\ loaded # 0
        /\ LoadedClient = 0 \/ clients[LoadedClient] # "running"
    BY <1>1, <2>1 DEF PluginOrder, EndingSteps
  <2>3. LoadedClient' = 0
    BY <1>3, <1>5, <2>2 DEF LoadedClient
  <2>4. EndingSteps(v)'
    BY <1>2, <1>3, <2>2, <2>3 DEF EndingSteps
  <2>5. \A w \in Users : doing'[w].at # "connect"
    <3>1. \A w \in Users \ {u} : doing[w].op = "none"
      BY <1>4, <1>9, OthersDoNotEnd
    <3>2. \A w \in Users \ {u} : doing[w].at = "none"
      BY <3>1 DEF PluginInv, CallPlaced
    <3>3. QED
      BY <1>2, <1>8, <3>2 DEF UserTurns
  <2>6. ASSUME NEW k \in DOMAIN clients
        PROVE  k \in lost \/ DoneWith(k)'
    <3>1. k \in Nat /\ k # 0
      BY <1>1 DEF PluginTyped
    <3>2. CASE k = LoadedClient /\ k \notin lost
      <4>1. clients'[k] # "running"
        BY <1>3, <2>2, <3>1, <3>2
      <4>2. \A q \in DOMAIN recs' : recs'[q].client # k
        BY <1>5, <2>1, <2>2, <3>1, <3>2 DEF PluginOrder, ClientsKnown
      <4>3. QED
        BY <2>5, <4>1, <4>2 DEF DoneWith
    <3>3. CASE DoneWith(k)
      BY <1>3, <1>5, <2>5, <3>1, <3>3 DEF DoneWith
    <3>4. QED
      BY <2>1, <3>2, <3>3 DEF PluginOrder, ClientsKnown
  <2>7. ClientsKnown'
    BY <1>3, <1>5, <2>1, <2>2, <2>6 DEF PluginOrder, ClientsKnown
  <2>8. DisabledHasNone'
    BY <1>3, <1>5, <2>2 DEF DisabledHasNone
  <2>9. StaysRemoved'
    BY <1>2, <1>3, <1>8, <2>1, RemovedStays DEF PluginOrder
  <2>10. QED
    BY <2>4, <2>7, <2>8, <2>9
<1>10. QED
  BY <1>2, <1>3, <1>4, <1>5, <1>6, <1>7, <1>9, GoesOnInv

\* The mark that a Start or a Stop puts on its record.
LEMMA Marked ==
  ASSUME PluginTyped, NEW r \in DOMAIN recs, NEW b \in BOOLEAN,
         recs' = [recs EXCEPT ![r].enabled = b],
         UNCHANGED <<loaded, clients, binary, stored, storeFile, raced, removed>>
  PROVE  /\ PluginData' /\ DOMAIN recs' = DOMAIN recs
         /\ \A q \in DOMAIN recs : recs'[q].client = recs[q].client
         /\ recs'[r].enabled = b
         /\ \A q \in DOMAIN recs \ {r} : recs'[q].enabled = recs[q].enabled
         /\ loaded # 0 => loaded \in DOMAIN recs
<1>1. /\ recs' \in Seq(PluginRecs) /\ Len(recs') = Len(recs) /\ DOMAIN recs' = DOMAIN recs
      /\ \A q \in DOMAIN recs : recs'[q].client = recs[q].client
      /\ recs'[r].enabled = b
      /\ \A q \in DOMAIN recs \ {r} : recs'[q].enabled = recs[q].enabled
  <2> PICK new : new = [recs[r] EXCEPT !.enabled = b]
    OBVIOUS
  <2>1. recs \in Seq(PluginRecs) /\ recs[r] \in PluginRecs
    BY DEF PluginTyped
  <2>2. new \in PluginRecs /\ new.client = recs[r].client /\ new.enabled = b
    BY <2>1 DEF PluginRecs
  <2>3. recs' = [recs EXCEPT ![r] = new]
    BY <2>1
  <2>4. QED
    BY <2>1, <2>2, <2>3, RecordChanged
<1>2. PluginData'
  BY <1>1 DEF PluginTyped, PluginData
<1>3. loaded # 0 => loaded \in DOMAIN recs
  BY DEF PluginTyped
<1>4. QED
  BY <1>1, <1>2, <1>3

LEMMA SetEnabledInv ==
  ASSUME PluginInv, NEW u \in Users, SetEnabled(u)
  PROVE  PluginInv'
<1> PICK r : r = doing[u].rec
  OBVIOUS
<1>1. /\ PluginTyped /\ CallPlaced(doing[u]) /\ doing[u].at = "enabled"
      /\ doing' = [doing EXCEPT ![u] = NotDoing]
      /\ UNCHANGED <<loaded, clients, binary, stored, storeFile, lost, raced, removed>>
      /\ recs' = [recs EXCEPT ![r].enabled = TRUE]
  BY DEF PluginInv, SetEnabled, At, Return
<1>2. r \in DOMAIN recs /\ doing[u].op \in {"enable", "update"}
  BY <1>1 DEF CallPlaced
<1>3. /\ PluginData' /\ DOMAIN recs' = DOMAIN recs
      /\ \A q \in DOMAIN recs : recs'[q].client = recs[q].client
      /\ recs'[r].enabled = TRUE
      /\ \A q \in DOMAIN recs \ {r} : recs'[q].enabled = recs[q].enabled
      /\ loaded # 0 => loaded \in DOMAIN recs
  BY <1>1, <1>2, Marked
<1>4. UserTurns(u, NotDoing)
  BY <1>1, CallOver, UserTurnsTo
<1>5. CallPlaced(NotDoing)' /\ EndingSteps(NotDoing)'
  BY CallOver DEF CallPlaced, EndingSteps
<1>6. ASSUME ~raced
      PROVE  ClientsKnown' /\ DisabledHasNone' /\ StaysRemoved'
  <2>1. PluginOrder
    BY <1>6 DEF PluginInv
  <2>2. ClientsKnown'
    BY <1>1, <1>3, <1>4, <2>1, CallOver, ClientsSame DEF PluginOrder
  <2>3. DisabledHasNone'
    <3> SUFFICES ASSUME loaded # 0, ~recs'[loaded].enabled, recs'[loaded].client # 0
                 PROVE  \E w \in Users : doing'[w].at = "enabled" /\ doing'[w].rec = loaded
      BY <1>1 DEF DisabledHasNone
    <3>1. r # loaded /\ ~recs[loaded].enabled /\ recs[loaded].client # 0
      BY <1>3
    <3>2. PICK w \in Users : doing[w].at = "enabled" /\ doing[w].rec = loaded
      BY <2>1, <3>1 DEF PluginOrder, DisabledHasNone
    <3>3. w # u
      BY <3>1, <3>2
    <3>4. QED
      BY <1>4, <3>2, <3>3 DEF UserTurns
  <2>4. StaysRemoved'
    BY <1>1, <1>4, <2>1, CallOver, RemovedStays DEF PluginOrder
  <2>5. QED
    BY <2>2, <2>3, <2>4
<1>7. QED
  BY <1>1, <1>2, <1>3, <1>5, <1>6, CallOver, GoesOnInv

LEMMA DisablePluginInv ==
  ASSUME PluginInv, NEW u \in Users, DisablePlugin(u)
  PROVE  PluginInv'
<1> PICK r : r = doing[u].rec
  OBVIOUS
<1>1. /\ PluginTyped /\ CallPlaced(doing[u]) /\ doing[u] \in PluginCalls
      /\ doing[u].at = "disable"
      /\ UNCHANGED <<loaded, clients, binary, stored, storeFile, lost, raced, removed>>
      /\ recs' = [recs EXCEPT ![r].enabled = FALSE]
  BY DEF PluginInv, PluginTyped, DisablePlugin, At
<1>2. r \in DOMAIN recs /\ doing[u].op \in Ending /\ doing[u].op # "none"
  BY <1>1 DEF CallPlaced
<1>3. /\ PluginData' /\ DOMAIN recs' = DOMAIN recs
      /\ \A q \in DOMAIN recs : recs'[q].client = recs[q].client
      /\ recs'[r].enabled = FALSE
      /\ \A q \in DOMAIN recs \ {r} : recs'[q].enabled = recs[q].enabled
      /\ loaded # 0 => loaded \in DOMAIN recs
  BY <1>1, <1>2, Marked
<1>4. PICK v \in PluginCalls :
        /\ doing' = [doing EXCEPT ![u] = v]
        /\ \/ v.op = "uninstall" /\ doing[u].op = "uninstall" /\ v.at = "unregister" /\ v.rec = r
           \/ /\ v.op = "update" /\ doing[u].op = "update" /\ v.at = "start"
              /\ v.rec = loaded /\ loaded # 0
           \/ v.op = "none" /\ v.at = "none"
  <2>1. CASE doing[u].op = "uninstall"
    <3> PICK v : v = [doing[u] EXCEPT !.at = "unregister"]
      OBVIOUS
    <3>1. v \in PluginCalls /\ v.at = "unregister" /\ v.op = doing[u].op /\ v.rec = r
      BY <1>1, Advanced DEF CallPlaces
    <3>2. doing' = [doing EXCEPT ![u] = v]
      BY <1>1, <2>1 DEF DisablePlugin, GoesOn, PluginTyped
    <3>3. QED
      BY <2>1, <3>1, <3>2
  <2>2. CASE doing[u].op = "update" /\ loaded # 0
    <3> PICK v : v = [doing[u] EXCEPT !.at = "start", !.rec = loaded]
      OBVIOUS
    <3>1. loaded \in Nat
      BY <1>1 DEF PluginTyped
    <3>2. v \in PluginCalls /\ v.at = "start" /\ v.op = doing[u].op /\ v.rec = loaded
      BY <1>1, <3>1 DEF PluginCalls
    <3>3. doing' = [doing EXCEPT ![u].at = "start", ![u].rec = loaded]
      BY <2>2 DEF DisablePlugin
    <3>4. doing' = [doing EXCEPT ![u] = v]
      BY <1>1, <3>3 DEF PluginTyped
    <3>5. QED
      BY <2>2, <3>2, <3>4
  <2>3. CASE doing[u].op # "uninstall" /\ ~(doing[u].op = "update" /\ loaded # 0)
    BY <2>3, CallOver DEF DisablePlugin, Return
  <2>4. QED
    BY <2>1, <2>2, <2>3
<1>5. v.op \in {doing[u].op, "none"} /\ v.at # "connect"
  BY <1>4
<1>6. UserTurns(u, v)
  BY <1>1, <1>4, UserTurnsTo
<1>7. CallPlaced(v)'
  BY <1>1, <1>2, <1>3, <1>4 DEF CallPlaced
<1>8. ASSUME ~raced
      PROVE  EndingSteps(v)' /\ ClientsKnown' /\ DisabledHasNone' /\ StaysRemoved'
  <2>1. PluginOrder
    BY <1>8 DEF PluginInv
  <2>2. r = loaded /\ loaded # 0 /\ LoadedClient = 0
    BY <1>1, <2>1 DEF PluginOrder, EndingSteps
  <2>3. recs'[loaded].client = 0 /\ LoadedClient' = 0
    BY <1>1, <1>3, <2>2 DEF LoadedClient
  <2>4. EndingSteps(v)'
    BY <1>1, <1>4, <2>2, <2>3 DEF EndingSteps
  <2>5. ClientsKnown'
    BY <1>1, <1>3, <1>5, <1>6, <2>1, ClientsSame DEF PluginOrder
  <2>6. DisabledHasNone'
    BY <1>1, <2>3 DEF DisabledHasNone
  <2>7. StaysRemoved'
    BY <1>1, <1>5, <1>6, <2>1, RemovedStays DEF PluginOrder
  <2>8. QED
    BY <2>4, <2>5, <2>6, <2>7
<1>9. QED
  BY <1>1, <1>2, <1>3, <1>4, <1>5, <1>7, <1>8, GoesOnInv

\* A client put into a record; nothing else sees the new one.
LEMMA SetClientInv ==
  ASSUME PluginInv, NEW u \in Users, SetClient(u)
  PROVE  PluginInv'
<1> PICK v : v = [doing[u] EXCEPT !.at = "enabled"]
  OBVIOUS
<1> PICK r : r = doing[u].rec
  OBVIOUS
<1> PICK n : n = Len(clients) + 1
  OBVIOUS
<1>1. /\ PluginTyped /\ CallPlaced(doing[u]) /\ doing[u] \in PluginCalls
      /\ doing[u].at = "start"
  BY DEF PluginInv, PluginTyped, SetClient, At
<1>2. /\ v \in PluginCalls /\ v.at = "enabled" /\ v.op = doing[u].op /\ v.rec = r
  BY <1>1, Advanced DEF CallPlaces
<1>3. /\ doing' = [doing EXCEPT ![u] = v]
      /\ UNCHANGED <<loaded, binary, stored, storeFile, raced, removed>>
      /\ recs' = [recs EXCEPT ![r].client = n] /\ clients' = Append(clients, "fresh")
      /\ lost' = lost \cup ({recs[r].client} \ {0}) \cup (IF r = loaded THEN {} ELSE {n})
  BY <1>1 DEF SetClient, GoesOn, PluginTyped
<1>4. r \in DOMAIN recs /\ doing[u].op \in {"enable", "update"}
  BY <1>1 DEF CallPlaced
<1>5. /\ recs' \in Seq(PluginRecs) /\ Len(recs') = Len(recs) /\ DOMAIN recs' = DOMAIN recs
      /\ recs'[r].client = n /\ \A q \in DOMAIN recs \ {r} : recs'[q] = recs[q]
  <2> PICK new : new = [recs[r] EXCEPT !.client = n]
    OBVIOUS
  <2>1. recs \in Seq(PluginRecs) /\ recs[r] \in PluginRecs /\ n \in Nat
    BY <1>1, <1>4 DEF PluginTyped
  <2>2. new \in PluginRecs /\ new.client = n
    BY <2>1 DEF PluginRecs
  <2>3. recs' = [recs EXCEPT ![r] = new]
    BY <1>3, <1>4, <2>1
  <2>4. QED
    BY <1>4, <2>1, <2>2, <2>3, RecordChanged
<1>6. /\ clients' \in Seq({"fresh", "running", "killed"}) /\ Len(clients') = n
      /\ DOMAIN clients' = DOMAIN clients \cup {n} /\ n \notin DOMAIN clients
      /\ \A k \in DOMAIN clients : clients'[k] = clients[k]
      /\ n \in Nat /\ \A q \in DOMAIN recs : recs[q].client \in 0 .. n
      /\ \A k \in DOMAIN clients : k # 0
  BY <1>1, <1>3 DEF PluginTyped
<1>7. loaded' \in 0 .. Len(recs') /\ loaded \in Nat
  BY <1>1, <1>3, <1>5 DEF PluginTyped
<1>8. PluginData'
  <2>1. \A q \in DOMAIN recs' : recs'[q].client \in 0 .. Len(clients')
    BY <1>5, <1>6
  <2>2. QED
    BY <1>1, <1>3, <1>5, <1>6, <1>7, <2>1 DEF PluginTyped, PluginData
<1>9. CallPlaced(v)'
  BY <1>1, <1>2, <1>4, <1>5 DEF CallPlaced
<1>10. UserTurns(u, v)
  BY <1>1, <1>2, <1>3, UserTurnsTo
<1>11. ASSUME ~raced
       PROVE  EndingSteps(v)' /\ ClientsKnown' /\ DisabledHasNone' /\ StaysRemoved'
  <2>1. PluginOrder
    BY <1>11 DEF PluginInv
  <2>2. EndingSteps(v)'
    BY <1>2, <1>4 DEF EndingSteps
  <2>3. LoadedClient' = IF r = loaded THEN n ELSE LoadedClient
    <3>1. loaded # 0 => loaded \in DOMAIN recs
      BY <1>1 DEF PluginTyped
    <3>2. r # 0
      BY <1>1, <1>4 DEF PluginTyped
    <3>3. QED
      BY <1>3, <1>5, <3>1, <3>2 DEF LoadedClient
  <2>4. ASSUME NEW k \in DOMAIN clients', ~(k \in lost' \/ k = LoadedClient')
        PROVE  DoneWith(k)'
    <3>1. k # n
      BY <1>3, <2>3, <2>4
    <3>2. k \in DOMAIN clients /\ k \notin lost /\ k # recs[r].client
      BY <1>3, <1>6, <2>4, <3>1
    <3>3. k # LoadedClient
      <4>1. CASE r = loaded
        BY <1>1, <1>4, <3>2, <4>1 DEF LoadedClient, PluginTyped
      <4>2. CASE r # loaded
        BY <2>3, <2>4, <4>2
      <4>3. QED
        BY <4>1, <4>2
    <3>4. DoneWith(k)
      BY <2>1, <3>2, <3>3 DEF PluginOrder, ClientsKnown
    <3>5. clients'[k] # "running" /\ \A q \in DOMAIN recs' : recs'[q].client # k
      BY <1>5, <1>6, <3>1, <3>2, <3>4 DEF DoneWith
    <3>6. \A w \in Users : doing'[w].at = "connect" => doing'[w].client # k
      BY <1>2, <1>10, <3>4 DEF DoneWith, UserTurns
    <3>7. QED
      BY <3>5, <3>6 DEF DoneWith
  <2>5. ClientsKnown'
    <3>1. \A q \in DOMAIN recs' : q # loaded => recs'[q].client \in lost' \cup {0}
      BY <1>3, <1>5, <2>1 DEF PluginOrder, ClientsKnown
    <3>2. QED
      BY <1>3, <2>4, <3>1 DEF ClientsKnown
  <2>6. DisabledHasNone'
    <3> SUFFICES ASSUME loaded # 0, ~recs'[loaded].enabled
                 PROVE  \/ recs'[loaded].client = 0
                        \/ \E w \in Users :
                             doing'[w].at = "enabled" /\ doing'[w].rec = loaded
      BY <1>3 DEF DisabledHasNone
    <3>1. CASE r = loaded
      BY <1>2, <1>10, <3>1 DEF UserTurns
    <3>2. CASE r # loaded
      <4>1. loaded \in DOMAIN recs
        BY <1>1 DEF PluginTyped
      <4>2. recs'[loaded] = recs[loaded]
        BY <1>5, <3>2, <4>1
      <4>3. \A w \in Users : doing[w].at = "enabled" => doing'[w] = doing[w]
        BY <1>1, <1>10 DEF UserTurns
      <4>4. QED
        BY <2>1, <4>2, <4>3 DEF PluginOrder, DisabledHasNone
    <3>3. QED
      BY <3>1, <3>2
  <2>7. StaysRemoved'
    BY <1>3, <1>4, <2>1 DEF PluginOrder, StaysRemoved
  <2>8. QED
    BY <2>2, <2>5, <2>6, <2>7
<1>12. DOMAIN clients \subseteq DOMAIN clients' /\ doing[u].op # "none"
  BY <1>4, <1>6
<1>13. QED
  BY <1>2, <1>3, <1>5, <1>8, <1>9, <1>11, <1>12, GoesOnInv

LEMMA UnregisterPluginInv ==
  ASSUME PluginInv, NEW u \in Users, UnregisterPlugin(u)
  PROVE  PluginInv'
<1> PICK v : v = [doing[u] EXCEPT !.at = "delete"]
  OBVIOUS
<1>1. /\ PluginTyped /\ CallPlaced(doing[u]) /\ doing[u] \in PluginCalls
      /\ doing[u].at = "unregister"
  BY DEF PluginInv, PluginTyped, UnregisterPlugin, At
<1>2. /\ v \in PluginCalls /\ v.at = "delete" /\ v.op = doing[u].op
  BY <1>1, Advanced DEF CallPlaces
<1>3. /\ doing' = [doing EXCEPT ![u] = v] /\ loaded' = 0
      /\ UNCHANGED <<recs, clients, binary, stored, storeFile, lost, raced, removed>>
  BY <1>1 DEF UnregisterPlugin, GoesOn, PluginTyped
<1>4. doing[u].op = "uninstall"
  BY <1>1 DEF CallPlaced
<1>5. PluginData'
  BY <1>1, <1>3 DEF PluginTyped, PluginData
<1>6. CallPlaced(v)'
  BY <1>2, <1>4 DEF CallPlaced
<1>7. UserTurns(u, v)
  BY <1>1, <1>2, <1>3, UserTurnsTo
<1>8. ASSUME ~raced
      PROVE  EndingSteps(v)' /\ ClientsKnown' /\ DisabledHasNone' /\ StaysRemoved'
  <2>1. PluginOrder
    BY <1>8 DEF PluginInv
  <2>2. loaded # 0 /\ LoadedClient = 0 /\ LoadedClient' = 0
    BY <1>1, <1>3, <2>1 DEF PluginOrder, EndingSteps, LoadedClient
  <2>3. EndingSteps(v)'
    BY <1>2, <1>3, <1>4 DEF EndingSteps
  <2>4. \A k \in DOMAIN clients : DoneWith(k) => DoneWith(k)'
    BY <1>2, <1>3, <1>7 DEF DoneWith, UserTurns
  <2>5. \A r \in DOMAIN recs : recs[r].client \in lost \cup {0}
    BY <2>1, <2>2 DEF PluginOrder, ClientsKnown, LoadedClient
  <2>6. ClientsKnown'
    BY <1>3, <2>1, <2>2, <2>4, <2>5 DEF PluginOrder, ClientsKnown
  <2>7. DisabledHasNone'
    BY <1>3 DEF DisabledHasNone
  <2>8. StaysRemoved'
    BY <1>2, <1>3, <1>7, <2>1, RemovedStays DEF PluginOrder
  <2>9. QED
    BY <2>3, <2>6, <2>7, <2>8
<1>9. QED
  BY <1>2, <1>3, <1>4, <1>5, <1>6, <1>8, GoesOnInv

\* A process starts only for a client somebody still has.
LEMMA ConnectInv ==
  ASSUME PluginInv, NEW u \in Users, Connect(u)
  PROVE  PluginInv'
<1> PICK k : k = doing[u].client
  OBVIOUS
<1>1. /\ PluginTyped /\ CallPlaced(doing[u]) /\ doing[u].at = "connect"
      /\ doing' = [doing EXCEPT ![u] = NotDoing]
      /\ UNCHANGED <<recs, loaded, binary, stored, storeFile, lost, raced, removed>>
      /\ clients' \in {clients, [clients EXCEPT ![k] = IF @ = "fresh" THEN "running" ELSE @]}
  BY DEF PluginInv, Connect, At, Return
<1>2. k \in DOMAIN clients /\ doing[u].op # "none"
  BY <1>1 DEF CallPlaced
<1>3. /\ clients' \in Seq({"fresh", "running", "killed"}) /\ Len(clients') = Len(clients)
      /\ DOMAIN clients' = DOMAIN clients
      /\ \A j \in DOMAIN clients : j # k => clients'[j] = clients[j]
  BY <1>1, <1>2 DEF PluginTyped
<1>4. PluginData'
  BY <1>1, <1>3 DEF PluginTyped, PluginData
<1>5. CallPlaced(NotDoing)' /\ EndingSteps(NotDoing)'
  BY CallOver DEF CallPlaced, EndingSteps
<1>6. UserTurns(u, NotDoing)
  BY <1>1, CallOver, UserTurnsTo
<1>7. ASSUME ~raced
      PROVE  ClientsKnown' /\ DisabledHasNone' /\ StaysRemoved'
  <2>1. PluginOrder
    BY <1>7 DEF PluginInv
  <2>2. ~DoneWith(k)
    BY <1>1 DEF DoneWith
  <2>3. ASSUME NEW j \in DOMAIN clients, DoneWith(j)
        PROVE  DoneWith(j)'
    <3>1. clients'[j] # "running"
      BY <1>3, <2>2, <2>3 DEF DoneWith
    <3>2. QED
      BY <1>1, <1>6, <2>3, <3>1, CallOver DEF DoneWith, UserTurns
  <2>4. LoadedClient' = LoadedClient
    BY <1>1 DEF LoadedClient
  <2>5. ClientsKnown'
    BY <1>1, <1>3, <2>1, <2>3, <2>4 DEF PluginOrder, ClientsKnown
  <2>6. DisabledHasNone'
    BY <1>1, <1>6, <2>1, CallOver, DisabledStays DEF PluginOrder
  <2>7. StaysRemoved'
    BY <1>1, <1>6, <2>1, CallOver, RemovedStays DEF PluginOrder
  <2>8. QED
    BY <2>5, <2>6, <2>7
<1>8. QED
  BY <1>1, <1>2, <1>3, <1>4, <1>5, <1>7, CallOver, GoesOnInv

LEMMA LoadPluginInv ==
  ASSUME PluginInv, NEW u \in Users, LoadPlugin(u)
  PROVE  PluginInv'
<1> PICK v : v = Begun("load", "loaded", 0)
  OBVIOUS
<1> PICK n : n = Len(recs) + 1
  OBVIOUS
<1> PICK new : new = [enabled |-> TRUE, client |-> 0]
  OBVIOUS
<1>1. /\ PluginTyped /\ \A w \in Users : CallPlaced(doing[w])
      /\ CallBegins(u, "load", "loaded", 0)
      /\ recs' = Append(recs, new) /\ loaded' = n /\ removed' = FALSE
      /\ lost' = lost \cup (IF loaded = 0 THEN {} ELSE {recs[loaded].client} \ {0})
      /\ UNCHANGED <<clients, binary, stored, storeFile>>
  BY DEF PluginInv, LoadPlugin
<1>2. v \in PluginCalls /\ v.op = "load" /\ v.at = "loaded"
  BY DEF Begun, NotDoing, PluginCalls
<1>3. doing' = [doing EXCEPT ![u] = v]
  BY <1>1 DEF CallBegins, Begun
<1>4. new \in PluginRecs /\ new.client = 0 /\ new.enabled
  BY DEF PluginRecs
<1>5. /\ recs' \in Seq(PluginRecs) /\ Len(recs') = n /\ n \in 1 .. Len(recs') /\ n # 0
      /\ DOMAIN recs' = DOMAIN recs \cup {n} /\ recs'[n] = new /\ n \notin DOMAIN recs
      /\ \A q \in DOMAIN recs : recs'[q] = recs[q]
  BY <1>1, <1>4 DEF PluginTyped
<1>6. /\ ~raced /\ doing[u].op = "none" /\ raced' \in BOOLEAN
      /\ ~raced' => \A w \in Users \ {u} : doing[w].op \notin Ending
  BY <1>1, UnracedBegin
<1>7. PluginData'
  <2>1. \A q \in DOMAIN recs' : recs'[q].client \in 0 .. Len(clients')
    <3>1. \A q \in DOMAIN recs : recs[q].client \in 0 .. Len(clients)
      BY <1>1 DEF PluginTyped
    <3>2. Len(clients) \in Nat /\ clients' = clients
      BY <1>1 DEF PluginTyped
    <3>3. recs'[n].client \in 0 .. Len(clients)
      BY <1>4, <1>5, <3>2
    <3>4. QED
      BY <1>5, <3>1, <3>2, <3>3
  <2>2. clients' \in Seq({"fresh", "running", "killed"}) /\ loaded' \in 0 .. Len(recs')
    BY <1>1, <1>5 DEF PluginTyped
  <2>3. /\ binary' \in BOOLEAN /\ stored' \in BOOLEAN /\ storeFile' \in BOOLEAN
        /\ removed' \in BOOLEAN
    BY <1>1 DEF PluginTyped
  <2>4. QED
    BY <1>5, <1>6, <2>1, <2>2, <2>3 DEF PluginData
<1>8. CallPlaced(v)' /\ EndingSteps(v)'
  BY <1>2 DEF CallPlaced, EndingSteps
<1>9. UserTurns(u, v)
  BY <1>1, <1>2, <1>3, UserTurnsTo
<1>10. PluginOrder
  BY <1>6 DEF PluginInv
<1>11. LoadedClient' = 0
  BY <1>1, <1>4, <1>5 DEF LoadedClient
<1>12. ASSUME NEW k \in DOMAIN clients, DoneWith(k)
       PROVE  DoneWith(k)'
  <2>1. \A q \in DOMAIN recs' : recs'[q].client # k
    BY <1>1, <1>4, <1>5, <1>12 DEF DoneWith, PluginTyped
  <2>2. QED
    BY <1>1, <1>2, <1>9, <1>12, <2>1 DEF DoneWith, UserTurns
<1>13. ClientsKnown'
  <2>1. ASSUME NEW k \in DOMAIN clients, k = LoadedClient
        PROVE  k \in lost'
    BY <1>1, <2>1 DEF LoadedClient, PluginTyped
  <2>2. \A q \in DOMAIN recs : recs[q].client \in lost' \cup {0}
    BY <1>1, <1>10 DEF PluginOrder, ClientsKnown, PluginTyped
  <2>3. \A q \in DOMAIN recs' : recs'[q].client \in lost' \cup {0}
    BY <1>4, <1>5, <2>2
  <2>4. \A k \in DOMAIN clients : k \in lost' \/ DoneWith(k)'
    BY <1>1, <1>10, <1>12, <2>1 DEF PluginOrder, ClientsKnown
  <2>5. QED
    BY <1>1, <2>3, <2>4 DEF ClientsKnown
<1>14. DisabledHasNone' /\ StaysRemoved'
  BY <1>1, <1>4, <1>5 DEF DisabledHasNone, StaysRemoved
<1>15. v.op \notin Ending
  BY <1>2 DEF Ending
<1>16. DOMAIN recs \subseteq DOMAIN recs' /\ DOMAIN clients \subseteq DOMAIN clients'
  BY <1>1, <1>5
<1>17. QED
  BY <1>2, <1>3, <1>6, <1>7, <1>8, <1>13, <1>14, <1>15, <1>16, TurnInv

LEMMA NilClientInv ==
  ASSUME PluginInv, NEW u \in Users, NilClient(u)
  PROVE  PluginInv'
<1>1. PluginTyped
  BY DEF PluginInv
<1>2. /\ recs' = <<>> /\ loaded' = 0 /\ stored' = storeFile /\ lost' = DOMAIN clients
      /\ raced' = FALSE /\ removed' = FALSE /\ UNCHANGED <<clients, binary, storeFile>>
      /\ doing' = [w \in Users |-> NotDoing]
  BY DEF NilClient
<1>3. recs' \in Seq(PluginRecs) /\ Len(recs') = 0 /\ DOMAIN recs' = {}
  BY <1>2
<1>4. doing' \in [Users -> PluginCalls] /\ \A w \in Users : doing'[w] = NotDoing
  BY <1>2, CallOver
<1>5. PluginTyped'
  <2>1. /\ binary' \in BOOLEAN /\ stored' \in BOOLEAN /\ storeFile' \in BOOLEAN
        /\ raced' \in BOOLEAN /\ removed' \in BOOLEAN
    BY <1>1, <1>2 DEF PluginTyped
  <2>2. clients' \in Seq({"fresh", "running", "killed"}) /\ loaded' \in 0 .. Len(recs')
    BY <1>1, <1>2, <1>3 DEF PluginTyped
  <2>3. \A r \in DOMAIN recs' : recs'[r].client \in 0 .. Len(clients')
    BY <1>3
  <2>4. QED
    BY <1>3, <1>4, <2>1, <2>2, <2>3 DEF PluginTyped
<1>6. \A w \in Users : CallPlaced(doing[w])' /\ EndingSteps(doing[w])'
  BY <1>4, CallOver DEF CallPlaced, EndingSteps
<1>7. ClientsKnown' /\ EndsAlone' /\ DisabledHasNone' /\ StaysRemoved'
  BY <1>2, <1>3, <1>4, CallOver
     DEF ClientsKnown, EndsAlone, DisabledHasNone, StaysRemoved
<1>8. QED
  BY <1>5, <1>6, <1>7 DEF PluginInv, PluginOrder

-----------------------------------------------------------------------------
LEMMA PluginStepInv == PluginInv /\ [PluginNext]_pluginVars => PluginInv'
<1> SUFFICES ASSUME PluginInv, [PluginNext]_pluginVars
             PROVE  PluginInv'
  OBVIOUS
<1>1. CASE UNCHANGED pluginVars
  BY <1>1 DEF pluginVars, PluginInv, PluginTyped, CallPlaced, PluginOrder, ClientsKnown,
              LoadedClient, DoneWith, EndsAlone, DisabledHasNone, StaysRemoved, EndingSteps
<1>2. ASSUME NEW u \in Users,
             \/ LoadPlugin(u) \/ LoadReturns(u) \/ Enable(u) \/ SetClient(u) \/ SetEnabled(u)
             \/ \E op \in Ending : StopPlugin(u, op)
             \/ CheckClient(u) \/ Kill(u) \/ ClearClient(u) \/ DisablePlugin(u)
             \/ Execute(u) \/ ReadClient(u) \/ Connect(u) \/ NilClient(u)
             \/ Install(u) \/ InstallFails(u) \/ InstallReturns(u) \/ Add(u)
             \/ Uninstall(u) \/ UnregisterPlugin(u) \/ RemoveBinary(u) \/ RemoveEntry(u)
             \/ MarshalStore(u) \/ WriteStore(u)
      PROVE  PluginInv'
  BY <1>2, LoadPluginInv, ReturnsInv, BeginsInv, SetClientInv, SetEnabledInv, CheckClientInv,
     KillInv, ClearClientInv, DisablePluginInv, ReadClientInv, ConnectInv, NilClientInv,
     AddInv, UninstallInv, UnregisterPluginInv, RemovalInv, MarshalStoreInv, WriteStoreInv
<1>3. QED
  BY <1>1, <1>2 DEF PluginNext

LEMMA PluginInvSuffices == PluginInv => UninstallLeavesNothing
<1> SUFFICES ASSUME PluginInv, Quiet, ~raced
             PROVE  UninstallLeavesNothing
  BY DEF UninstallLeavesNothing
<1>1. PluginOrder
  BY DEF PluginInv
<1>2. Live \subseteq lost \cup (IF loaded = 0 THEN {} ELSE {recs[loaded].client})
  <2> SUFFICES ASSUME NEW k \in DOMAIN clients, clients[k] = "running", k \notin lost
               PROVE  loaded # 0 /\ k = recs[loaded].client
    BY DEF Live
  <2>1. k = LoadedClient
    BY <1>1 DEF PluginOrder, ClientsKnown, DoneWith
  <2>2. k # 0
    BY DEF PluginInv, PluginTyped
  <2>3. QED
    BY <2>1, <2>2 DEF LoadedClient
<1>3. removed => loaded = 0 /\ ~binary /\ ~stored /\ ~storeFile
  BY <1>1 DEF PluginOrder, StaysRemoved
<1>4. QED
  BY <1>2, <1>3 DEF UninstallLeavesNothing

(***************************************************************************)
(* Once the calls are over, a plugin process belongs to the loaded record  *)
(* or to a client the code has lost, and an uninstall that did not fail    *)
(* leaves neither record, nor entry, nor file, nor binary (manager.go:53-  *)
(* 71 over runtime.go:52-132).  That a client of no record is done with   *)
(* needs the calls in between: who may still start its process, and how    *)
(* far the one call that ends the plugin has come.                         *)
(***************************************************************************)
THEOREM UninstallIsComplete == ToolsSpec => []UninstallLeavesNothing
<1>1. ToolsInit => PluginInv
  BY PluginInitInv DEF ToolsInit
<1>2. PluginInv /\ [ToolsNext]_toolVars => PluginInv'
  BY PluginStepInv, ToolSteps
<1>3. PluginInv => UninstallLeavesNothing
  BY PluginInvSuffices
<1> QED
  BY <1>1, <1>2, <1>3, PTL DEF ToolsSpec
-----------------------------------------------------------------------------
(* The command history.  Memory and file are apart as soon as one save      *)
(* fails, so the identity of IDs is kept for both, under a counter that is  *)
(* past all of them; and the global list rises in time, so that only its    *)
(* oldest entry can leave it alone.                                         *)

SavedEntries == IF file = Torn THEN {} ELSE InLists(file)

\* Entries that came before the next one, each with an ID of its own.
Before(es) ==
  /\ \A e \in es : e.ID < nextID /\ e.Timestamp <= now
  /\ \A d, e \in es : d.ID = e.ID => d = e

Rises(list) ==
  /\ Len(list) <= MaxSize
  /\ \A i, j \in 1 .. Len(list) : i < j => list[i].Timestamp < list[j].Timestamp

\* Younger entries than one of time t have filled the list.
FilledSince(list, t) ==
  Len(list) = MaxSize /\ \A d \in Elements(list) : t < d.Timestamp

RecentShown ==
  \A s \in Sessions : \A e \in Elements(entries[s]) :
    e.Timestamp > started => e \in Elements(global) \/ FilledSince(global, e.Timestamp)

HistInv ==
  /\ HistTypeOK /\ Before(InMemory) /\ Before(SavedEntries)
  /\ Rises(global) /\ RecentShown

LEMMA NothingListed == Elements(<< >>) = {}
BY DEF Elements

LEMMA ListedEntries ==
  ASSUME NEW list \in Seq(Entry)
  PROVE  /\ Elements(list) \subseteq Entry
         /\ \A e \in Elements(list) : \E i \in 1 .. Len(list) : e = list[i]
         /\ \A i \in 1 .. Len(list) : list[i] \in Elements(list)
BY DEF Elements

LEMMA NoneIsEmpty == InLists(None) = {} /\ None \in [Sessions -> Seq(Entry)]
BY NothingListed DEF InLists, None

\* What Add leaves of a list: all and the new entry, or without the oldest.
Joined(list, e, new) ==
  /\ new \in Seq(Entry) /\ Elements(new) \subseteq Elements(list) \cup {e}
  /\ new[Len(new)] = e /\ Len(new) > 0
  /\ \/ /\ Len(list) < MaxSize /\ Len(new) = Len(list) + 1
        /\ \A i \in 1 .. Len(list) : new[i] = list[i]
     \/ /\ Len(list) >= MaxSize /\ Len(new) = Len(list)
        /\ \A i \in 1 .. Len(list) - 1 : new[i] = list[i + 1]

LEMMA Trimmed ==
  ASSUME NEW list \in Seq(Entry), NEW e \in Entry, NEW new, new = Trim(Append(list, e))
  PROVE  Joined(list, e, new)
<1> PICK longer : longer = Append(list, e)
  OBVIOUS
<1>1. /\ longer \in Seq(Entry) /\ Len(longer) = Len(list) + 1 /\ Len(list) \in Nat
      /\ \A i \in 1 .. Len(list) : longer[i] = list[i]
      /\ longer[Len(list) + 1] = e
  OBVIOUS
<1>2. MaxSize \in Nat \ {0}
  BY HistoryAssumption
<1>3. CASE Len(list) < MaxSize
  <2>1. new = longer
    BY <1>1, <1>2, <1>3 DEF Trim
  <2>2. Elements(new) \subseteq Elements(list) \cup {e}
    BY <1>1, <2>1 DEF Elements
  <2>3. QED
    BY <1>1, <1>3, <2>1, <2>2 DEF Joined
<1>4. CASE Len(list) >= MaxSize
  <2>1. new = Tail(longer)
    BY <1>1, <1>2, <1>4 DEF Trim
  <2>2. /\ new \in Seq(Entry) /\ Len(new) = Len(list)
        /\ \A i \in 1 .. Len(list) : new[i] = longer[i + 1]
    BY <1>1, <2>1
  <2>3. new[Len(new)] = e /\ \A i \in 1 .. Len(list) - 1 : new[i] = list[i + 1]
    <3>1. Len(list) \in 1 .. Len(list)
      BY <1>1, <1>2, <1>4
    <3>2. new[Len(new)] = e
      BY <1>1, <2>2, <3>1
    <3>3. \A i \in 1 .. Len(list) - 1 : new[i] = list[i + 1]
      BY <1>1, <2>2
    <3>4. QED
      BY <3>2, <3>3
  <2>4. ASSUME NEW i \in 1 .. Len(new)
        PROVE  new[i] \in Elements(list) \cup {e}
    <3>1. new[i] = longer[i + 1] /\ i + 1 \in 2 .. Len(list) + 1
      BY <1>1, <2>2
    <3>2. CASE i = Len(list)
      BY <1>1, <3>1, <3>2
    <3>3. CASE i # Len(list)
      <4>1. i + 1 \in 1 .. Len(list) /\ new[i] = list[i + 1]
        BY <1>1, <2>2, <3>1, <3>3
      <4>2. QED
        BY <4>1, ListedEntries
    <3>4. QED
      BY <3>2, <3>3
  <2>5. QED
    <3>1. Elements(new) \subseteq Elements(list) \cup {e}
      BY <2>2, <2>4, ListedEntries
    <3>2. Len(new) > 0
      BY <1>1, <1>2, <1>4, <2>2
    <3>3. QED
      BY <1>4, <2>2, <2>3, <3>1, <3>2 DEF Joined
<1>5. QED
  BY <1>1, <1>2, <1>3, <1>4

\* Naturals below a bound have a greatest one.
LEMMA GreatestBelow ==
  ASSUME NEW S \in SUBSET Nat, S # {}, NEW n \in Nat, \A i \in S : i < n
  PROVE  \E m \in S : \A j \in S : j <= m
<1> DEFINE T == {k \in Nat : n - k \in S}
<1>1. PICK i \in S : TRUE
  OBVIOUS
<1>2. n - i \in Nat /\ n - (n - i) = i
  BY <1>1
<1>3. n - i \in T
  BY <1>1, <1>2
<1>4. T \subseteq Nat /\ T # {}
  BY <1>3
<1> HIDE DEF T
<1>5. PICK k \in T : \A y \in T : <<y, k>> \notin OpToRel(<, Nat)
  BY <1>4, NatLessThanWellFounded, WFMin
<1>6. \A y \in T : ~(y < k)
  BY <1>4, <1>5, Zenon DEF OpToRel
<1>7. k \in Nat /\ n - k \in S
  BY DEF T
<1>8. ASSUME NEW j \in S
      PROVE  j <= n - k
  <2>1. n - j \in Nat /\ n - (n - j) = j /\ j \in Nat
    BY <1>8
  <2>2. n - j \in T
    BY <1>8, <2>1 DEF T
  <2>3. QED
    BY <1>6, <1>7, <2>1, <2>2
<1>9. QED
  BY <1>7, <1>8

LEMMA SavedNow ==
  ASSUME HistTypeOK, HistSave, entries' \in [Sessions -> Seq(Entry)]
  PROVE  /\ file' \in [Sessions -> Seq(Entry)] \cup {Torn}
         /\ \A e \in SavedEntries' : e \in InLists(entries') \/ SavedEntries' = SavedEntries
<1>1. CASE file' = entries'
  BY <1>1 DEF SavedEntries
<1>2. CASE file' = file
  BY <1>2 DEF SavedEntries, HistTypeOK
<1>3. CASE file' = Torn
  BY <1>3 DEF SavedEntries
<1>4. QED
  BY <1>1, <1>2, <1>3 DEF HistSave

\* What was before the next entry stays so as the counter and the clock go on.
LEMMA StaysBefore ==
  ASSUME HistTypeOK, NEW es, es \subseteq Entry, Before(es), NEW fewer \in SUBSET es,
         nextID' \in Nat, now' \in Nat, nextID <= nextID', now <= now'
  PROVE  Before(fewer)'
<1>1. nextID \in Nat /\ now \in Nat
  BY DEF HistTypeOK
<1>2. ASSUME NEW e \in fewer
      PROVE  e.ID < nextID' /\ e.Timestamp <= now'
  <2>1. e.ID \in Nat /\ e.Timestamp \in Nat /\ e.ID < nextID /\ e.Timestamp <= now
    BY DEF Entry, Before
  <2>2. QED
    BY <1>1, <2>1
<1>3. QED
  BY <1>2 DEF Before

LEMMA EntriesKnown ==
  ASSUME HistTypeOK
  PROVE  InMemory \subseteq Entry /\ SavedEntries \subseteq Entry
<1>1. \A s \in Sessions : entries[s] \in Seq(Entry)
  BY DEF HistTypeOK
<1>2. InMemory \subseteq Entry
  BY <1>1, ListedEntries DEF InMemory, InLists, HistTypeOK
<1>3. file # Torn => \A s \in Sessions : file[s] \in Seq(Entry)
  BY DEF HistTypeOK
<1>4. SavedEntries \subseteq Entry
  BY <1>3, ListedEntries DEF SavedEntries, InLists
<1>5. QED
  BY <1>2, <1>4

LEMMA HistInitInv == HistInit => HistInv
<1> SUFFICES ASSUME HistInit
             PROVE  HistInv
  OBVIOUS
<1>1. /\ entries = None /\ file = None /\ global = << >>
      /\ nextID = 1 /\ now = 0 /\ started = 0
  BY DEF HistInit
<1>2. global \in Seq(Entry) /\ Len(global) = 0 /\ DOMAIN global = {} /\ 0 <= MaxSize
  BY <1>1, HistoryAssumption
<1>3. HistTypeOK
  BY <1>1, <1>2, NoneIsEmpty DEF HistTypeOK
<1>4. InMemory = {} /\ SavedEntries = {}
  BY <1>1, NoneIsEmpty, NothingListed DEF InMemory, SavedEntries, InLists
<1>5. Before(InMemory) /\ Before(SavedEntries)
  BY <1>4 DEF Before
<1>6. Rises(global)
  BY <1>2 DEF Rises
<1>7. RecentShown
  BY <1>4 DEF RecentShown, InMemory, InLists
<1>8. QED
  BY <1>3, <1>5, <1>6, <1>7 DEF HistInv

\* The lists lose entries.
LEMMA ClearsInv ==
  ASSUME HistInv, ClearAll \/ \E s \in Sessions : ClearSession(s)
  PROVE  HistInv'
<1>1. HistTypeOK /\ UNCHANGED <<nextID, now, started>> /\ HistSave
  BY DEF HistInv, ClearAll, ClearSession
<1>2. /\ entries' \in [Sessions -> Seq(Entry)] /\ global' \in Seq(Entry)
      /\ \A s \in Sessions : Elements(entries'[s]) \subseteq Elements(entries[s])
      /\ \/ global' = global
         \/ global' = << >> /\ InLists(entries') = {}
  <2>1. CASE ClearAll
    <3>1. entries' = None /\ global' = << >>
      BY <2>1 DEF ClearAll
    <3>2. \A s \in Sessions : Elements(entries'[s]) = {}
      BY <3>1, NothingListed DEF None
    <3>3. QED
      BY <3>1, <3>2, NoneIsEmpty
  <2>2. ASSUME NEW s \in Sessions, ClearSession(s)
        PROVE  /\ entries' \in [Sessions -> Seq(Entry)] /\ global' = global
               /\ \A r \in Sessions : Elements(entries'[r]) \subseteq Elements(entries[r])
    <3>1. entries' = [entries EXCEPT ![s] = << >>] /\ global' = global
      BY <2>2 DEF ClearSession
    <3>2. << >> \in Seq(Entry)
      OBVIOUS
    <3>3. QED
      BY <1>1, <3>1, <3>2, NothingListed DEF HistTypeOK
  <2>3. QED
    BY <1>1, <2>1, <2>2 DEF HistTypeOK
<1>3. /\ file' \in [Sessions -> Seq(Entry)] \cup {Torn}
      /\ \A e \in SavedEntries' : e \in InLists(entries') \/ SavedEntries' = SavedEntries
  BY <1>1, <1>2, SavedNow
<1>4. HistTypeOK'
  BY <1>1, <1>2, <1>3 DEF HistTypeOK
<1>5. InMemory' \in SUBSET InMemory /\ InLists(entries') \subseteq InMemory
  BY <1>2, NothingListed DEF InMemory, InLists
<1>6. InMemory \subseteq Entry /\ SavedEntries \subseteq Entry
  BY <1>1, EntriesKnown
<1>7. /\ nextID' \in Nat /\ now' \in Nat /\ nextID <= nextID' /\ now <= now'
  BY <1>1 DEF HistTypeOK
<1>8. Before(InMemory)'
  BY <1>1, <1>5, <1>6, <1>7, StaysBefore DEF HistInv
<1>9. Before(SavedEntries)'
  <2>1. SavedEntries' \subseteq InMemory \/ SavedEntries' = SavedEntries
    BY <1>3, <1>5
  <2>2. QED
    BY <1>1, <1>6, <1>7, <2>1, StaysBefore DEF HistInv
<1>10. Rises(global)'
  <2>1. CASE global' = global
    BY <2>1 DEF HistInv, Rises
  <2>2. CASE global' = << >>
    BY <2>2, HistoryAssumption DEF Rises
  <2>3. QED
    BY <1>2, <2>1, <2>2
<1>11. RecentShown'
  <2>1. CASE global' = global
    BY <1>1, <1>2, <2>1 DEF HistInv, RecentShown, FilledSince
  <2>2. CASE InLists(entries') = {}
    BY <2>2 DEF RecentShown, InLists
  <2>3. QED
    BY <1>2, <2>1, <2>2
<1>12. QED
  BY <1>4, <1>8, <1>9, <1>10, <1>11 DEF HistInv

LEMMA RestartInv ==
  ASSUME HistInv, Restart
  PROVE  HistInv'
<1>1. /\ HistTypeOK /\ global' = << >> /\ started' = now /\ UNCHANGED <<now, file>>
      /\ entries' = IF file = Torn THEN None ELSE file
  BY DEF HistInv, Restart, Load
<1>2. entries' \in [Sessions -> Seq(Entry)]
  BY <1>1, NoneIsEmpty DEF HistTypeOK
<1>3. InLists(entries') = SavedEntries
  BY <1>1, NoneIsEmpty DEF SavedEntries
<1>4. SavedEntries' = SavedEntries /\ InMemory' = SavedEntries
  BY <1>1, <1>3, NothingListed DEF SavedEntries, InMemory, InLists
<1>5. SavedEntries \subseteq Entry /\ Before(SavedEntries)
  BY <1>1, EntriesKnown DEF HistInv
<1>6. nextID' \in Nat /\ \A e \in SavedEntries : e.ID < nextID'
  <2>6. PICK IDs : IDs = {e.ID : e \in SavedEntries}
    OBVIOUS
  <2>0. SavedEntries = InLists(IF file = Torn THEN None ELSE file)
    BY NoneIsEmpty DEF SavedEntries
  <2>1. nextID' = IF IDs = {} THEN 1 ELSE 1 + (CHOOSE i \in IDs : \A j \in IDs : j <= i)
    BY <2>0, <2>6 DEF Restart, Load
  <2>2. IDs \in SUBSET Nat /\ nextID \in Nat /\ \A i \in IDs : i < nextID
    BY <1>1, <1>5, <2>6 DEF Entry, Before, HistTypeOK
  <2>3. CASE IDs = {}
    BY <2>1, <2>3, <2>6
  <2>4. CASE IDs # {}
    <3>1. \E m \in IDs : \A j \in IDs : j <= m
      BY <2>2, <2>4, GreatestBelow
    <3>2. PICK m \in IDs : nextID' = 1 + m /\ \A j \in IDs : j <= m
      BY <2>1, <2>4, <3>1
    <3>3. m \in Nat /\ nextID' \in Nat /\ \A j \in IDs : j < nextID'
      BY <2>2, <3>2
    <3>4. QED
      BY <2>6, <3>3
  <2>5. QED
    BY <2>3, <2>4
<1>7. Before(SavedEntries)' /\ Before(InMemory)'
  BY <1>1, <1>4, <1>5, <1>6 DEF Before
<1>8. HistTypeOK'
  BY <1>1, <1>2, <1>6 DEF HistTypeOK
<1>9. Rises(global)'
  BY <1>1, HistoryAssumption DEF Rises
<1>10. RecentShown'
  <2>1. ASSUME NEW s \in Sessions, NEW e \in Elements(entries'[s])
        PROVE  ~(e.Timestamp > started')
    <3>1. e \in SavedEntries
      BY <1>3 DEF InLists
    <3>2. e.Timestamp \in Nat /\ e.Timestamp <= now /\ now \in Nat
      BY <1>1, <1>5, <3>1 DEF Entry, Before, HistTypeOK
    <3>3. QED
      BY <1>1, <3>2
  <2>2. QED
    BY <2>1 DEF RecentShown
<1>11. QED
  BY <1>7, <1>8, <1>9, <1>10 DEF HistInv

\* An entry younger than all joins the global list.
LEMMA ListRises ==
  ASSUME NEW list \in Seq(Entry), NEW e \in Entry, NEW new, Joined(list, e, new), Rises(list),
         \A d \in Elements(list) : d.Timestamp < e.Timestamp
  PROVE  /\ Rises(new) /\ e \in Elements(new)
         /\ \A d \in Elements(list) : d \in Elements(new) \/ FilledSince(new, d.Timestamp)
         /\ \A t : t < e.Timestamp /\ FilledSince(list, t) => FilledSince(new, t)
<1> PICK n : n = Len(list)
  OBVIOUS
<1>1. /\ new \in Seq(Entry) /\ Elements(new) \subseteq Elements(list) \cup {e}
      /\ n \in Nat /\ Len(new) \in Nat /\ n <= MaxSize /\ MaxSize \in Nat \ {0}
      /\ \A i, j \in 1 .. n : i < j => list[i].Timestamp < list[j].Timestamp
      /\ new[Len(new)] = e /\ Len(new) \in 1 .. Len(new)
  BY HistoryAssumption DEF Joined, Rises
<1>2. /\ \A i \in 1 .. n : list[i] \in Elements(list) /\ list[i].Timestamp < e.Timestamp
      /\ \A i \in 1 .. Len(new) : new[i] \in Elements(new)
      /\ \A d \in Elements(list) : \E i \in 1 .. n : d = list[i]
      /\ \A d \in Elements(new) : \E i \in 1 .. Len(new) : d = new[i]
  BY <1>1, ListedEntries
<1>3. e \in Elements(new)
  BY <1>1, <1>2
<1>4. CASE n < MaxSize
  <2>1. Len(new) = n + 1 /\ \A i \in 1 .. n : new[i] = list[i]
    BY <1>1, <1>4 DEF Joined
  <2>2. new[n + 1] = e
    BY <1>1, <2>1
  <2>3. ASSUME NEW i \in 1 .. Len(new), NEW j \in 1 .. Len(new), i < j
        PROVE  new[i].Timestamp < new[j].Timestamp
    <3>1. i \in 1 .. n /\ new[i] = list[i]
      BY <1>1, <2>1, <2>3
    <3>2. CASE j = n + 1
      BY <1>2, <2>2, <3>1, <3>2
    <3>3. CASE j # n + 1
      <4>1. j \in 1 .. n /\ new[j] = list[j]
        BY <1>1, <2>1, <3>3
      <4>2. QED
        BY <1>1, <2>3, <3>1, <4>1
    <3>4. QED
      BY <3>2, <3>3
  <2>4. Len(new) <= MaxSize
    BY <1>1, <1>4, <2>1
  <2>5. Rises(new)
    BY <2>3, <2>4 DEF Rises
  <2>6. \A d \in Elements(list) : d \in Elements(new)
    <3>1. \A i \in 1 .. n : i \in 1 .. Len(new)
      BY <1>1, <2>1
    <3>2. QED
      BY <1>2, <2>1, <3>1
  <2>7. Len(list) # MaxSize
    BY <1>1, <1>4
  <2>8. QED
    BY <1>3, <2>5, <2>6, <2>7 DEF FilledSince
<1>5. CASE ~(n < MaxSize)
  <2>1. n = MaxSize /\ Len(new) = n /\ \A i \in 1 .. n - 1 : new[i] = list[i + 1]
    BY <1>1, <1>5 DEF Joined
  <2>2. n \in 1 .. n /\ new[n] = e
    BY <1>1, <2>1
  <2>3. \A i \in 1 .. n : i # n => i \in 1 .. n - 1 /\ i + 1 \in 1 .. n /\ new[i] = list[i + 1]
    BY <1>1, <2>1
  <2>4. ASSUME NEW i \in 1 .. n, NEW j \in 1 .. n, i < j
        PROVE  new[i].Timestamp < new[j].Timestamp
    <3>1. i # n /\ i + 1 \in 1 .. n /\ new[i] = list[i + 1]
      BY <1>1, <2>3, <2>4
    <3>2. CASE j = n
      BY <1>2, <2>2, <3>1, <3>2
    <3>3. CASE j # n
      <4>1. j + 1 \in 1 .. n /\ new[j] = list[j + 1] /\ i + 1 < j + 1
        BY <1>1, <2>3, <2>4, <3>3
      <4>2. QED
        BY <1>1, <3>1, <4>1
    <3>4. QED
      BY <3>2, <3>3
  <2>5. Rises(new)
    BY <1>1, <2>1, <2>4 DEF Rises
  <2>6. ASSUME NEW d \in Elements(list), d \notin Elements(new)
        PROVE  FilledSince(new, d.Timestamp)
    <3>1. PICK i \in 1 .. n : d = list[i]
      BY <1>2
    <3>2. i = 1
      <4>1. SUFFICES ASSUME i # 1
                     PROVE  FALSE
        OBVIOUS
      <4>2. i - 1 \in 1 .. n - 1 /\ i - 1 \in 1 .. n /\ (i - 1) + 1 = i
        BY <1>1, <4>1
      <4>3. new[i - 1] = d
        BY <2>1, <3>1, <4>2
      <4>4. QED
        BY <1>2, <2>1, <2>6, <4>2, <4>3
    <3>3. ASSUME NEW k \in 1 .. n
          PROVE  d.Timestamp < new[k].Timestamp
      <4>1. CASE k = n
        BY <1>2, <2>2, <3>1, <4>1
      <4>2. CASE k # n
        <5>1. k + 1 \in 1 .. n /\ new[k] = list[k + 1] /\ 1 < k + 1
          BY <1>1, <2>3, <4>2
        <5>2. QED
          BY <1>1, <3>1, <3>2, <5>1
      <4>3. QED
        BY <4>1, <4>2
    <3>4. \A c \in Elements(new) : d.Timestamp < c.Timestamp
      BY <1>2, <2>1, <3>3
    <3>5. QED
      BY <2>1, <3>4 DEF FilledSince
  <2>7. ASSUME NEW t, t < e.Timestamp, FilledSince(list, t)
        PROVE  FilledSince(new, t)
    <3>1. \A c \in Elements(new) : t < c.Timestamp
      BY <1>1, <2>7 DEF FilledSince
    <3>2. QED
      BY <2>1, <3>1 DEF FilledSince
  <2>8. QED
    BY <1>3, <2>5, <2>6, <2>7
<1>6. QED
  BY <1>4, <1>5

LEMMA HistAddInv ==
  ASSUME HistInv, NEW s \in Sessions \cup {NoSession}, HistAdd(s)
  PROVE  HistInv'
<1> PICK e : e = [ID |-> nextID, SessionID |-> s, Timestamp |-> now + 1]
  OBVIOUS
<1>1. HistTypeOK /\ Rises(global) /\ InMemory \subseteq Entry /\ SavedEntries \subseteq Entry
  BY EntriesKnown DEF HistInv
<1>2. nextID \in Nat /\ now \in Nat /\ started \in Nat
  BY <1>1 DEF HistTypeOK
<1>3. e \in Entry /\ e.ID = nextID /\ e.Timestamp = now + 1
  BY <1>2 DEF Entry
<1>4. /\ now' = now + 1 /\ nextID' = nextID + 1 /\ started' = started /\ HistSave
      /\ entries' = IF s = NoSession THEN entries
                    ELSE [entries EXCEPT ![s] = Trim(Append(@, e))]
      /\ global' = Trim(Append(global, e))
  BY DEF HistAdd
<1>5. global \in Seq(Entry) /\ \A r \in Sessions : entries[r] \in Seq(Entry)
  BY <1>1 DEF HistTypeOK
<1>6. /\ Joined(global, e, global')
      /\ global' \in Seq(Entry) /\ Elements(global') \subseteq Elements(global) \cup {e}
  <2> PICK new : new = Trim(Append(global, e))
    OBVIOUS
  <2>1. Joined(global, e, new)
    BY <1>3, <1>5, Trimmed
  <2>2. global' = new
    BY <1>4
  <2>3. QED
    BY <2>1, <2>2 DEF Joined
<1>7. /\ entries' \in [Sessions -> Seq(Entry)]
      /\ \A r \in Sessions : Elements(entries'[r]) \subseteq Elements(entries[r]) \cup {e}
  <2>1. CASE s = NoSession
    BY <1>1, <1>4, <2>1 DEF HistTypeOK
  <2>2. CASE s # NoSession
    <3> PICK new : new = Trim(Append(entries[s], e))
      OBVIOUS
    <3>1. s \in Sessions
      BY <2>2
    <3>2. new \in Seq(Entry) /\ Elements(new) \subseteq Elements(entries[s]) \cup {e}
      BY <1>3, <1>5, <3>1, Trimmed DEF Joined
    <3>3. entries' = [entries EXCEPT ![s] = new]
      BY <1>4, <2>2
    <3>4. QED
      BY <1>1, <3>1, <3>2, <3>3 DEF HistTypeOK
  <2>3. QED
    BY <2>1, <2>2
<1>8. /\ file' \in [Sessions -> Seq(Entry)] \cup {Torn}
      /\ \A d \in SavedEntries' : d \in InLists(entries') \/ SavedEntries' = SavedEntries
  BY <1>1, <1>4, <1>7, SavedNow
<1>9. nextID' \in Nat /\ now' \in Nat /\ nextID <= nextID' /\ now <= now'
  BY <1>2, <1>4
<1>10. HistTypeOK'
  BY <1>2, <1>4, <1>6, <1>7, <1>8, <1>9 DEF HistTypeOK
<1>11. InMemory' \subseteq InMemory \cup {e} /\ InLists(entries') \subseteq InMemory \cup {e}
  BY <1>6, <1>7 DEF InMemory, InLists
<1> PICK all : all = InMemory \cup {e}
  OBVIOUS
<1>12. Before(all)'
  <2>1. \A d \in InMemory : d.ID \in Nat /\ d.ID < nextID /\ d.Timestamp \in Nat
                            /\ d.Timestamp <= now
    BY <1>1 DEF Entry, HistInv, Before
  <2>2. \A d \in InMemory : d.ID < nextID' /\ d.Timestamp <= now' /\ d.ID # e.ID
    BY <1>2, <1>3, <1>4, <2>1
  <2>3. e.ID < nextID' /\ e.Timestamp <= now'
    BY <1>2, <1>3, <1>4
  <2>4. \A c, d \in InMemory : c.ID = d.ID => c = d
    BY DEF HistInv, Before
  <2>5. \A d \in all : d.ID < nextID' /\ d.Timestamp <= now'
    BY <2>2, <2>3
  <2>6. \A c, d \in all : c.ID = d.ID => c = d
    BY <2>2, <2>4
  <2>7. QED
    BY <2>5, <2>6 DEF Before
<1>13. Before(InMemory)'
  BY <1>11, <1>12 DEF Before
<1>14. Before(SavedEntries)'
  <2>1. CASE SavedEntries' = SavedEntries
    BY <1>1, <1>9, <2>1, StaysBefore DEF HistInv
  <2>2. CASE SavedEntries' \subseteq all
    BY <1>12, <2>2 DEF Before
  <2>3. QED
    BY <1>8, <1>11, <2>1, <2>2
<1>15. \A d \in InMemory : d.Timestamp < e.Timestamp /\ d \in Entry
  BY <1>1, <1>2, <1>3 DEF Entry, HistInv, Before
<1>16. /\ Rises(global') /\ e \in Elements(global')
       /\ \A d \in Elements(global) :
            d \in Elements(global') \/ FilledSince(global', d.Timestamp)
       /\ \A t : t < e.Timestamp /\ FilledSince(global, t) => FilledSince(global', t)
  <2>1. \A d \in Elements(global) : d.Timestamp < e.Timestamp
    BY <1>15 DEF InMemory
  <2>2. QED
    BY <1>1, <1>3, <1>5, <1>6, <2>1, ListRises
<1>17. RecentShown'
  <2> SUFFICES ASSUME NEW r \in Sessions, NEW d \in Elements(entries'[r]),
                      d.Timestamp > started'
               PROVE  d \in Elements(global') \/ FilledSince(global', d.Timestamp)
    BY DEF RecentShown, FilledSince
  <2>1. CASE d = e
    BY <1>16, <2>1
  <2>2. CASE d \in Elements(entries[r])
    <3>1. d \in InMemory
      BY <2>2 DEF InMemory, InLists
    <3>2. d \in Elements(global) \/ FilledSince(global, d.Timestamp)
      BY <1>4, <2>2 DEF HistInv, RecentShown
    <3>3. QED
      BY <1>15, <1>16, <3>1, <3>2
  <2>3. QED
    BY <1>7, <2>1, <2>2
<1>18. QED
  BY <1>10, <1>13, <1>14, <1>16, <1>17 DEF HistInv

LEMMA HistStepInv == HistInv /\ [HistNext]_histVars => HistInv'
<1> SUFFICES ASSUME HistInv, [HistNext]_histVars
             PROVE  HistInv'
  OBVIOUS
<1>1. CASE UNCHANGED histVars
  BY <1>1 DEF histVars, HistInv, HistTypeOK, Before, InMemory, SavedEntries, Rises,
              RecentShown, FilledSince
<1>2. CASE HistNext
  BY <1>2, HistAddInv, ClearsInv, RestartInv DEF HistNext
<1>3. QED
  BY <1>1, <1>2

(***************************************************************************)
(* No two entries in memory have one ID (history.go:59-84, 222-251).  The  *)
(* entries on file are part of the argument, as a restart puts them into   *)
(* memory: the counter that Load works out must be past the greatest of    *)
(* them, which exists because the old counter was past all of them.        *)
(***************************************************************************)
THEOREM HistoryIDsIdentify == ToolsSpec => []IDsIdentify
<1>1. ToolsInit => HistInv
  BY HistInitInv DEF ToolsInit
<1>2. HistInv /\ [ToolsNext]_toolVars => HistInv'
  BY HistStepInv, ToolSteps
<1>3. HistInv => IDsIdentify
  BY DEF HistInv, Before, IDsIdentify
<1> QED
  BY <1>1, <1>2, <1>3, PTL DEF ToolsSpec

\* A list that rises in time has as many entries as it is long.
LEMMA AllDifferent ==
  ASSUME HistTypeOK, Rises(global)
  PROVE  Cardinality(Elements(global)) = Len(global)
<1> PICK n : n = Len(global)
  OBVIOUS
<1>1. global \in Seq(Entry) /\ n \in Nat /\ DOMAIN global = 1 .. n /\ global \in [1 .. n -> Entry]
  BY DEF HistTypeOK
<1>2. \A i \in 1 .. n : global[i].Timestamp \in Nat
  BY <1>1 DEF Entry
<1>3. \A i, j \in 1 .. n : i # j => global[i] # global[j]
  <2> SUFFICES ASSUME NEW i \in 1 .. n, NEW j \in 1 .. n, i # j
               PROVE  global[i] # global[j]
    OBVIOUS
  <2>1. i < j \/ j < i
    BY <1>1
  <2>2. global[i].Timestamp < global[j].Timestamp \/ global[j].Timestamp < global[i].Timestamp
    BY <1>1, <2>1 DEF Rises
  <2>3. QED
    BY <1>2, <2>2
<1>4. /\ global \in [1 .. n -> Elements(global)]
      /\ \A e \in Elements(global) : \E i \in 1 .. n : global[i] = e
  BY <1>1 DEF Elements
<1>5. global \in Bijection(1 .. n, Elements(global))
  BY <1>3, <1>4 DEF Bijection, Injection, Surjection, IsInjective
<1>6. ExistsBijection(1 .. n, Elements(global))
  BY <1>5 DEF ExistsBijection
<1>7. IsFiniteSet(1 .. n) /\ Cardinality(1 .. n) = n
  <2>1. 1 \in Int /\ n \in Int
    BY <1>1
  <2>2. /\ IsFiniteSet(1 .. n)
        /\ Cardinality(1 .. n) = IF 1 > n THEN 0 ELSE n - 1 + 1
    BY <2>1, FS_Interval
  <2>3. QED
    BY <1>1, <2>2
<1>8. QED
  BY <1>6, <1>7, FS_Bijection

(***************************************************************************)
(* What a session's history has of this run, the global history has too,   *)
(* or MaxSize younger entries instead (history.go:76-84, 179-193): an      *)
(* entry is dropped from a full list only, and then from its old end, as   *)
(* the list rises in time.                                                 *)
(***************************************************************************)
THEOREM GlobalHistoryShowsRecent == ToolsSpec => []GlobalShowsRecent
<1>1. ToolsInit => HistInv
  BY HistInitInv DEF ToolsInit
<1>2. HistInv /\ [ToolsNext]_toolVars => HistInv'
  BY HistStepInv, ToolSteps
<1>3. HistInv => GlobalShowsRecent
  <2> SUFFICES ASSUME HistInv, NEW s \in Sessions, NEW e \in Elements(entries[s]),
                      e.Timestamp > started, e \notin Elements(global)
               PROVE  Cardinality({d \in Elements(global) : d.Timestamp > e.Timestamp}) = MaxSize
    BY DEF GlobalShowsRecent
  <2>1. FilledSince(global, e.Timestamp)
    BY DEF HistInv, RecentShown
  <2>2. e \in Entry /\ Elements(global) \subseteq Entry
    BY EntriesKnown DEF HistInv, InMemory, InLists
  <2>3. {d \in Elements(global) : d.Timestamp > e.Timestamp} = Elements(global)
    BY <2>1, <2>2 DEF FilledSince, Entry
  <2>4. QED
    BY <2>1, <2>3, AllDifferent DEF FilledSince, HistInv
<1> QED
  BY <1>1, <1>2, <1>3, PTL DEF ToolsSpec
-----------------------------------------------------------------------------
(* The event bus.  A slice that a Publish took has the handlers it is due   *)
(* to start as long as nothing was removed from its array, because what is  *)
(* subscribed meanwhile goes behind the topic's end, and that is not before *)
(* the slice's end.  A removal moves handlers over slots, but never Empty.  *)

Slices == [array : Nat, len : Nat]
Slots == Handlers \cup {Empty}

BusCalls == [at : {"idle", "loop", "ended"}, slice : Slices, started : Seq(Handlers),
             due : Seq(Handlers), raced : BOOLEAN]

BusTyped ==
  /\ arrays \in Seq(Seq(Slots)) /\ topic \in Slices /\ subscribers \in Seq(Handlers)
  /\ pub \in [Publishers -> BusCalls]

\* Slice s lies within its array, and there are functions in its slots.
FullTo(slots, k) == k <= Len(slots) /\ \A i \in 1 .. k : slots[i] \in Handlers

FitsIn(old, s) ==
  /\ s.array \in 0 .. Len(old) /\ (s.array = 0 => s.len = 0)
  /\ s.array # 0 => FullTo(old[s.array], s.len)

HasList(slots, k, list) == Len(list) = k /\ \A i \in 1 .. k : slots[i] = list[i]

HoldsIn(old, s, list) == HasList(old[s.array], s.len, list)

\* What slice s has in old, it has in bs.
StaysIn(old, bs, s) ==
  FitsIn(bs, s) /\ \A list : HoldsIn(old, s, list) => HoldsIn(bs, s, list)

TopicHolds == FitsIn(arrays, topic) /\ HoldsIn(arrays, topic, subscribers)

\* A loop under way: what it has read and what it will read.
LoopHolds(v) ==
  /\ FitsIn(arrays, v.slice) /\ Len(v.started) <= v.slice.len
  /\ ~v.raced => /\ HoldsIn(arrays, v.slice, v.due)
                 /\ \A i \in 1 .. Len(v.started) : v.started[i] = v.due[i]
                 /\ v.slice.array = topic.array => v.slice.len <= topic.len

CallHolds(v) ==
  /\ v.at = "loop" => LoopHolds(v)
  /\ v.at = "ended" /\ ~v.raced => v.started = v.due

BusInv == BusTyped /\ TopicHolds /\ \A p \in Publishers : CallHolds(pub[p])

LEMMA SliceStays ==
  ASSUME NEW old, NEW bs, NEW s \in Slices, FitsIn(old, s), Len(old) \in Nat, Len(bs) \in Nat,
         Len(old) <= Len(bs), s.array # 0 => bs[s.array] = old[s.array]
  PROVE  StaysIn(old, bs, s)
<1> PICK j : j = s.array
  OBVIOUS
<1> PICK k : k = s.len
  OBVIOUS
<1> PICK slots : slots = old[j]
  OBVIOUS
<1>1. j \in 0 .. Len(old) /\ (j = 0 => k = 0) /\ (j # 0 => FullTo(slots, k))
  BY DEF FitsIn
<1>2. j \in 0 .. Len(bs)
  BY <1>1
<1>3. j # 0 => bs[j] = slots
  OBVIOUS
<1>4. FitsIn(bs, s)
  BY <1>1, <1>2, <1>3 DEF FitsIn
<1>5. ASSUME NEW list, HasList(slots, k, list)
      PROVE  HasList(bs[j], k, list)
  <2>1. CASE j = 0
    <3>1. k = 0
      BY <1>1, <2>1
    <3>2. Len(list) = 0 /\ 1 .. k = {}
      BY <1>5, <3>1 DEF HasList
    <3>3. QED
      BY <3>1, <3>2 DEF HasList
  <2>2. CASE j # 0
    BY <1>3, <1>5, <2>2
  <2>3. QED
    BY <2>1, <2>2
<1>6. QED
  BY <1>4, <1>5 DEF StaysIn, HoldsIn

\* An array replaced by another.
IsPut(old, a, slots, bs) ==
  /\ Len(bs) = Len(old) /\ bs[a] = slots
  /\ \A b \in 1 .. Len(old) : b # a => bs[b] = old[b]

LEMMA PutArray ==
  ASSUME NEW T, NEW old \in Seq(T), NEW a \in 1 .. Len(old), NEW slots \in T
  PROVE  /\ [old EXCEPT ![a] = slots] \in Seq(T)
         /\ IsPut(old, a, slots, [old EXCEPT ![a] = slots])
BY DEF IsPut

\* Garbage is what no slice refers to.
IsKept(old, slices, bs) ==
  /\ Len(bs) = Len(old)
  /\ \A s \in slices : s.array \in 1 .. Len(old) => bs[s.array] = old[s.array]

LEMMA KeptArrays ==
  ASSUME NEW T, << >> \in T, NEW old \in Seq(T), NEW slices
  PROVE  Kept(old, slices) \in Seq(T) /\ IsKept(old, slices, Kept(old, slices))
<1> PICK n : n = Len(old)
  OBVIOUS
<1>1. n \in Nat /\ DOMAIN old = 1 .. n /\ \A a \in 1 .. n : old[a] \in T
  OBVIOUS
<1> PICK bs : bs = [a \in 1 .. n |-> IF \E s \in slices : s.array = a THEN old[a] ELSE << >>]
  OBVIOUS
<1>2. Kept(old, slices) = bs
  BY <1>1 DEF Kept
<1>3. bs \in [1 .. n -> T]
  BY <1>1
<1>4. bs \in Seq(T) /\ Len(bs) = n
  BY <1>1, <1>3
<1>5. \A s \in slices : s.array \in 1 .. n => bs[s.array] = old[s.array]
  OBVIOUS
<1>6. QED
  BY <1>2, <1>4, <1>5 DEF IsKept

LEMMA BusInitInv == BusInit => BusInv
<1> SUFFICES ASSUME BusInit
             PROVE  BusInv
  OBVIOUS
<1>1. NilSlice \in Slices /\ NilSlice.array = 0 /\ NilSlice.len = 0
  BY DEF NilSlice, Slices
<1>2. << >> \in Seq(Handlers) /\ << >> \in Seq(Seq(Slots)) /\ Len(<< >>) = 0
  OBVIOUS
<1>3. NoCall \in BusCalls /\ NoCall.at = "idle"
  BY <1>1, <1>2 DEF NoCall, BusCalls
<1>4. BusTyped
  BY <1>1, <1>2, <1>3 DEF BusInit, BusTyped
<1>5. TopicHolds
  BY <1>1, <1>2 DEF BusInit, TopicHolds, FitsIn, HoldsIn, HasList
<1>6. \A p \in Publishers : CallHolds(pub[p])
  BY <1>3 DEF BusInit, CallHolds
<1>7. QED
  BY <1>4, <1>5, <1>6 DEF BusInv

\* The calls that go on while the topic gets longer.
LEMMA CallsHold ==
  ASSUME BusTyped, NEW v \in BusCalls, CallHolds(v), arrays' \in Seq(Seq(Slots)),
         v.at = "loop" => FitsIn(arrays', v.slice),
         v.at = "loop" /\ ~v.raced =>
           /\ HoldsIn(arrays', v.slice, v.due)
           /\ v.slice.array = topic'.array => v.slice.len <= topic'.len
  PROVE  CallHolds(v)'
BY DEF CallHolds, LoopHolds

LEMMA PublishInv ==
  ASSUME BusInv, NEW p \in Publishers, Publish(p)
  PROVE  BusInv'
<1> PICK v : v = [NoCall EXCEPT !.at = "loop", !.slice = topic, !.due = subscribers]
  OBVIOUS
<1>1. BusTyped /\ TopicHolds /\ \A q \in Publishers : CallHolds(pub[q])
  BY DEF BusInv
<1>2. << >> \in Seq(Handlers) /\ Len(<< >>) = 0
  OBVIOUS
<1>3. /\ v \in BusCalls /\ v.at = "loop" /\ v.slice = topic /\ v.due = subscribers
      /\ v.started = << >> /\ ~v.raced
  BY <1>1, <1>2 DEF NoCall, BusCalls, BusTyped
<1>4. pub' = [pub EXCEPT ![p] = v] /\ UNCHANGED <<arrays, topic, subscribers>>
  BY DEF Publish
<1>5. BusTyped'
  BY <1>1, <1>3, <1>4 DEF BusTyped
<1>6. TopicHolds'
  BY <1>1, <1>4 DEF TopicHolds
<1>7. topic.len \in Nat
  BY <1>1 DEF BusTyped, Slices
<1>8. CallHolds(v)'
  BY <1>1, <1>2, <1>3, <1>4, <1>7 DEF CallHolds, LoopHolds, TopicHolds
<1>9. \A q \in Publishers : CallHolds(pub[q])'
  <2>1. ASSUME NEW q \in Publishers, q # p
        PROVE  CallHolds(pub[q])'
    BY <1>1, <1>4, <2>1 DEF CallHolds, LoopHolds, BusTyped
  <2>2. pub'[p] = v
    BY <1>1, <1>4 DEF BusTyped
  <2>3. CallHolds(pub[p])'
    BY <1>8, <2>2 DEF CallHolds, LoopHolds
  <2>4. QED
    BY <2>1, <2>3
<1>10. QED
  BY <1>5, <1>6, <1>9 DEF BusInv

\* One more handler, and the same as due.
IsStarted(run, h, list) ==
  /\ list \in Seq(Handlers) /\ Len(list) = Len(run) + 1
  /\ \A due : (/\ \A i \in 1 .. Len(run) : run[i] = due[i]
              /\ h = due[Len(run) + 1]) =>
       \A i \in 1 .. Len(list) : list[i] = due[i]

LEMMA StartedOneMore ==
  ASSUME NEW run \in Seq(Handlers), NEW h \in Handlers
  PROVE  IsStarted(run, h, Append(run, h))
<1> PICK list : list = Append(run, h)
  OBVIOUS
<1> PICK n : n = Len(run)
  OBVIOUS
<1>1. /\ n \in Nat /\ list \in Seq(Handlers) /\ Len(list) = n + 1 /\ list[n + 1] = h
      /\ \A i \in 1 .. n : list[i] = run[i]
  OBVIOUS
<1>2. \A i \in 1 .. n + 1 : i \in 1 .. n \/ i = n + 1
  BY <1>1
<1>3. QED
  BY <1>1, <1>2 DEF IsStarted

LEMMA StartsInv ==
  ASSUME BusInv, NEW p \in Publishers, Starts(p, pub[p].slice)
  PROVE  BusInv'
<1>1. PICK held : held = pub[p]
  OBVIOUS
<1>2. PICK n : n = Len(held.started)
  OBVIOUS
<1>3. PICK slots : slots = arrays[held.slice.array]
  OBVIOUS
<1>4. PICK list : list = Append(held.started, slots[n + 1])
  OBVIOUS
<1>5. PICK v : v = [held EXCEPT !.started = list]
  OBVIOUS
<1>6. /\ BusTyped /\ TopicHolds /\ held \in BusCalls /\ CallHolds(held)
      /\ \A q \in Publishers : CallHolds(pub[q])
  BY <1>1 DEF BusInv, BusTyped
<1>7. held.at = "loop" /\ n < held.slice.len
  BY <1>1, <1>2 DEF Starts
<1>8. pub' = [pub EXCEPT ![p] = v] /\ UNCHANGED <<arrays, topic, subscribers>>
  BY <1>1, <1>2, <1>3, <1>4, <1>5, <1>6 DEF Starts, BusTyped
<1>9. held.started \in Seq(Handlers) /\ held.slice.len \in Nat /\ n \in Nat
  BY <1>2, <1>6 DEF BusCalls, Slices
<1>10. n + 1 \in 1 .. held.slice.len /\ held.slice.len # 0
  BY <1>7, <1>9
<1>11. LoopHolds(held) /\ FitsIn(arrays, held.slice)
  BY <1>6, <1>7 DEF CallHolds, LoopHolds
<1>12. slots[n + 1] \in Handlers
  <2>1. FullTo(slots, held.slice.len)
    BY <1>3, <1>10, <1>11 DEF FitsIn
  <2>2. QED
    BY <1>10, <2>1 DEF FullTo
<1>13. ~held.raced => /\ \A i \in 1 .. n : held.started[i] = held.due[i]
                      /\ slots[n + 1] = held.due[n + 1]
  <2>1. ~held.raced => HasList(slots, held.slice.len, held.due)
    BY <1>3, <1>11 DEF LoopHolds, HoldsIn
  <2>2. ~held.raced => slots[n + 1] = held.due[n + 1]
    BY <1>10, <2>1 DEF HasList
  <2>3. QED
    BY <1>2, <1>11, <2>2 DEF LoopHolds
<1>14. IsStarted(held.started, slots[n + 1], list)
  BY <1>4, <1>9, <1>12, StartedOneMore
<1>15. /\ list \in Seq(Handlers) /\ Len(list) = n + 1
       /\ ~held.raced => \A i \in 1 .. Len(list) : list[i] = held.due[i]
  BY <1>2, <1>13, <1>14 DEF IsStarted
<1>16. /\ v \in BusCalls /\ v.started = list /\ v.at = "loop" /\ v.slice = held.slice
       /\ v.due = held.due /\ v.raced = held.raced
  BY <1>5, <1>6, <1>7, <1>15 DEF BusCalls
<1>17. Len(list) <= held.slice.len
  BY <1>7, <1>9, <1>15
<1>18. CallHolds(v)'
  BY <1>8, <1>11, <1>15, <1>16, <1>17 DEF CallHolds, LoopHolds
<1>19. BusTyped' /\ TopicHolds'
  BY <1>6, <1>8, <1>16 DEF BusTyped, TopicHolds
<1>20. \A q \in Publishers : CallHolds(pub[q])'
  <2>1. ASSUME NEW q \in Publishers, q # p
        PROVE  CallHolds(pub[q])'
    BY <1>6, <1>8, <2>1 DEF CallHolds, LoopHolds, BusTyped
  <2>2. pub'[p] = v
    BY <1>6, <1>8 DEF BusTyped
  <2>3. CallHolds(pub[p])'
    BY <1>18, <2>2 DEF CallHolds, LoopHolds
  <2>4. QED
    BY <2>1, <2>3
<1>21. QED
  BY <1>19, <1>20 DEF BusInv

LEMMA ReturnsFromLoopInv ==
  ASSUME BusInv, NEW p \in Publishers, Returns(p, pub[p].slice)
  PROVE  BusInv'
<1> PICK held : held = pub[p]
  OBVIOUS
<1> PICK v : v = [held EXCEPT !.at = "ended"]
  OBVIOUS
<1> PICK slices : slices = {topic} \cup
                   {pub[q].slice : q \in {r \in Publishers \ {p} : pub[r].at = "loop"}}
  OBVIOUS
<1>1. /\ BusTyped /\ TopicHolds /\ held \in BusCalls /\ CallHolds(held)
      /\ \A q \in Publishers : CallHolds(pub[q])
  BY DEF BusInv, BusTyped
<1>2. /\ held.at = "loop" /\ Len(held.started) >= held.slice.len
      /\ pub' = [pub EXCEPT ![p] = v] /\ UNCHANGED <<topic, subscribers>>
      /\ arrays' = Kept(arrays, slices)
  BY <1>1 DEF Returns, BusTyped
<1>3. /\ held.started \in Seq(Handlers) /\ held.due \in Seq(Handlers)
      /\ held.slice.len \in Nat
  BY <1>1 DEF BusCalls, Slices
<1>4. /\ v \in BusCalls /\ v.at = "ended" /\ v.started = held.started
      /\ v.due = held.due /\ v.raced = held.raced
  BY <1>1 DEF BusCalls
<1>5. ~held.raced => held.started = held.due
  <2> SUFFICES ASSUME ~held.raced
               PROVE  held.started = held.due
    OBVIOUS
  <2>1. /\ Len(held.due) = held.slice.len /\ Len(held.started) <= held.slice.len
        /\ \A i \in 1 .. Len(held.started) : held.started[i] = held.due[i]
    BY <1>1, <1>2 DEF CallHolds, LoopHolds, HoldsIn, HasList
  <2>2. Len(held.started) = Len(held.due)
    BY <1>2, <1>3, <2>1
  <2>3. QED
    BY <1>3, <2>1, <2>2
<1>6. arrays \in Seq(Seq(Slots)) /\ topic \in Slices
  BY <1>1 DEF BusTyped
<1>7. arrays' \in Seq(Seq(Slots)) /\ IsKept(arrays, slices, arrays')
  <2>1. << >> \in Seq(Slots)
    OBVIOUS
  <2>2. QED
    BY <1>2, <1>6, <2>1, KeptArrays
<1>8. ASSUME NEW s \in Slices, s \in slices, FitsIn(arrays, s)
      PROVE  StaysIn(arrays, arrays', s)
  <2>1. s.array # 0 => arrays'[s.array] = arrays[s.array]
    <3>1. s.array # 0 => s.array \in 1 .. Len(arrays)
      BY <1>8 DEF FitsIn, Slices
    <3>2. QED
      BY <1>7, <1>8, <3>1 DEF IsKept
  <2>2. Len(arrays) \in Nat /\ Len(arrays') \in Nat /\ Len(arrays) <= Len(arrays')
    BY <1>6, <1>7 DEF IsKept
  <2>3. QED
    BY <1>8, <2>1, <2>2, SliceStays
<1>9. TopicHolds'
  <2>1. StaysIn(arrays, arrays', topic)
    BY <1>1, <1>6, <1>8 DEF TopicHolds
  <2>2. QED
    BY <1>1, <1>2, <2>1 DEF TopicHolds, StaysIn
<1>10. BusTyped'
  BY <1>1, <1>2, <1>4, <1>7 DEF BusTyped
<1>11. \A q \in Publishers : CallHolds(pub[q])'
  <2>1. ASSUME NEW q \in Publishers, q # p
        PROVE  CallHolds(pub[q])'
    <3> PICK c : c = pub[q]
      OBVIOUS
    <3>1. c \in BusCalls /\ CallHolds(c) /\ pub'[q] = c /\ c.slice \in Slices
      BY <1>1, <1>2, <2>1 DEF BusTyped, BusCalls
    <3>2. ASSUME c.at = "loop"
          PROVE  StaysIn(arrays, arrays', c.slice)
      BY <1>8, <2>1, <3>1, <3>2 DEF CallHolds, LoopHolds
    <3>3. CallHolds(c)'
      BY <1>1, <1>2, <1>7, <3>1, <3>2, CallsHold DEF CallHolds, LoopHolds, StaysIn
    <3>4. QED
      BY <3>1, <3>3 DEF CallHolds, LoopHolds
  <2>2. pub'[p] = v
    BY <1>1, <1>2 DEF BusTyped
  <2>3. CallHolds(pub[p])'
    BY <1>4, <1>5, <2>2 DEF CallHolds
  <2>4. QED
    BY <2>1, <2>3
<1>12. QED
  BY <1>9, <1>10, <1>11 DEF BusInv

LEMMA DoneInv ==
  ASSUME BusInv, NEW p \in Publishers, Done(p)
  PROVE  BusInv'
<1>1. /\ BusTyped /\ TopicHolds /\ \A q \in Publishers : CallHolds(pub[q])
      /\ pub' = [pub EXCEPT ![p] = NoCall] /\ UNCHANGED <<arrays, topic, subscribers>>
  BY DEF BusInv, Done
<1>2. NoCall \in BusCalls /\ NoCall.at = "idle"
  <2>1. << >> \in Seq(Handlers)
    OBVIOUS
  <2>2. QED
    BY <2>1 DEF NoCall, NilSlice, BusCalls, Slices
<1>3. BusTyped' /\ TopicHolds'
  BY <1>1, <1>2 DEF BusTyped, TopicHolds
<1>4. ASSUME NEW q \in Publishers
      PROVE  CallHolds(pub[q])'
  <2>1. pub'[q] = IF q = p THEN NoCall ELSE pub[q]
    BY <1>1 DEF BusTyped
  <2>2. CASE q = p
    BY <1>2, <2>1, <2>2 DEF CallHolds
  <2>3. CASE q # p
    BY <1>1, <2>1, <2>3 DEF CallHolds, LoopHolds
  <2>4. QED
    BY <2>2, <2>3
<1>5. QED
  BY <1>3, <1>4 DEF BusInv

\* The topic's array and what the invariant says of it.
LEMMA TopicArray ==
  ASSUME BusTyped, TopicHolds
  PROVE  /\ topic.array \in Nat /\ topic.len \in Nat /\ Len(arrays) \in Nat
         /\ topic.array = 0 => topic.len = 0
         /\ topic.array # 0 => /\ topic.array \in 1 .. Len(arrays)
                               /\ arrays[topic.array] \in Seq(Slots)
                               /\ FullTo(arrays[topic.array], topic.len)
         /\ HasList(arrays[topic.array], topic.len, subscribers)
<1> PICK T : T = Seq(Slots)
  OBVIOUS
<1>1. arrays \in Seq(T) /\ topic.array \in Nat /\ topic.len \in Nat
  BY DEF BusTyped, Slices
<1>2. Len(arrays) \in Nat /\ \A b \in 1 .. Len(arrays) : arrays[b] \in T
  BY <1>1
<1>3. /\ topic.array \in 0 .. Len(arrays) /\ (topic.array = 0 => topic.len = 0)
      /\ topic.array # 0 => FullTo(arrays[topic.array], topic.len)
  BY DEF TopicHolds, FitsIn
<1>4. HasList(arrays[topic.array], topic.len, subscribers)
  BY DEF TopicHolds, HoldsIn
<1>5. topic.array # 0 => topic.array \in 1 .. Len(arrays)
  BY <1>1, <1>2, <1>3
<1>6. QED
  BY <1>1, <1>2, <1>3, <1>4, <1>5

\* A slice of another array than the one that is replaced.
LEMMA OtherArrays ==
  ASSUME NEW T, NEW old \in Seq(T), NEW bs \in Seq(T), NEW a, NEW slots,
         IsPut(old, a, slots, bs), NEW s \in Slices, FitsIn(old, s), s.array # a
  PROVE  StaysIn(old, bs, s)
<1>1. s.array # 0 => s.array \in 1 .. Len(old)
  BY DEF FitsIn, Slices
<1>2. s.array # 0 => bs[s.array] = old[s.array]
  BY <1>1 DEF IsPut
<1>3. Len(old) \in Nat /\ Len(bs) \in Nat /\ Len(old) <= Len(bs)
  BY DEF IsPut
<1>4. QED
  BY <1>2, <1>3, SliceStays

\* A slice of the array that is put.
LEMMA PutSlice ==
  ASSUME NEW old, NEW a, a \in 1 .. Len(old), Len(old) \in Nat, NEW slots, NEW bs,
         IsPut(old, a, slots, bs), NEW s, s.array = a, FullTo(slots, s.len)
  PROVE  FitsIn(bs, s) /\ \A list : HasList(slots, s.len, list) => HoldsIn(bs, s, list)
<1>1. bs[a] = slots /\ a \in 0 .. Len(bs) /\ a # 0
  BY DEF IsPut
<1>2. FitsIn(bs, s)
  BY <1>1 DEF FitsIn
<1>3. QED
  BY <1>1, <1>2 DEF HoldsIn

\* The topic's array gets a handler behind the topic's end, in place.
LEMMA SubscribeInPlace ==
  ASSUME BusInv, NEW h \in Handlers, Subscribe(h),
         ~(topic.array = 0 \/ topic.len = Len(arrays[topic.array]))
  PROVE  BusInv'
<1> PICK a : a = topic.array
  OBVIOUS
<1> PICK n : n = topic.len
  OBVIOUS
<1>s. PICK slots : slots = [arrays[a] EXCEPT ![n + 1] = h]
  OBVIOUS
<1>1. /\ BusTyped /\ TopicHolds /\ \A q \in Publishers : CallHolds(pub[q])
      /\ topic \in Slices /\ a \in Nat /\ n \in Nat
  BY DEF BusInv, BusTyped, Slices
<1>2. /\ topic' = [topic EXCEPT !.len = @ + 1] /\ pub' = pub
      /\ subscribers' = Append(subscribers, h)
      /\ arrays' = [arrays EXCEPT ![a][n + 1] = h]
  BY DEF Subscribe
<1>3. topic' \in Slices /\ topic'.array = a /\ topic'.len = n + 1
  BY <1>1, <1>2 DEF Slices
<1> PICK T : T = Seq(Slots)
  OBVIOUS
<1>4. /\ arrays \in Seq(T) /\ Len(arrays) \in Nat /\ a \in 1 .. Len(arrays) /\ a # 0
      /\ arrays[a] \in Seq(Slots) /\ FullTo(arrays[a], n)
  BY <1>1, TopicArray DEF BusTyped
<1>5. n <= Len(arrays[a]) /\ \A i \in 1 .. n : arrays[a][i] \in Handlers
  BY <1>4 DEF FullTo
<1>6. n + 1 \in 1 .. Len(arrays[a])
  BY <1>1, <1>4, <1>5
<1>7. /\ slots \in Seq(Slots) /\ Len(slots) = Len(arrays[a]) /\ slots[n + 1] = h
      /\ \A i \in 1 .. Len(slots) : i # n + 1 => slots[i] = arrays[a][i]
  BY <1>s, <1>4, <1>6 DEF Slots
<1>8. arrays' \in Seq(T) /\ IsPut(arrays, a, slots, arrays')
  <2>1. arrays' = [arrays EXCEPT ![a] = slots]
    BY <1>s, <1>2, <1>4
  <2>2. slots \in T
    BY <1>7
  <2>3. QED
    BY <1>4, <2>1, <2>2, PutArray
<1>9. /\ subscribers' \in Seq(Handlers) /\ Len(subscribers') = n + 1
      /\ \A i \in 1 .. n : subscribers'[i] = subscribers[i] /\ arrays[a][i] = subscribers[i]
      /\ subscribers'[n + 1] = h
  <2>1. /\ subscribers \in Seq(Handlers) /\ Len(subscribers) = n
        /\ \A i \in 1 .. n : arrays[a][i] = subscribers[i]
    BY <1>1, TopicArray DEF BusTyped, HasList
  <2>2. QED
    BY <1>1, <1>2, <2>1
<1>10. BusTyped'
  BY <1>1, <1>2, <1>3, <1>8, <1>9 DEF BusTyped
<1>11. \A i \in 1 .. n + 1 : slots[i] \in Handlers /\ slots[i] = subscribers'[i]
  <2> SUFFICES ASSUME NEW i \in 1 .. n + 1
               PROVE  slots[i] \in Handlers /\ slots[i] = subscribers'[i]
    OBVIOUS
  <2>1. CASE i = n + 1
    BY <1>7, <1>9, <2>1
  <2>2. CASE i # n + 1
    <3>1. i \in 1 .. n /\ i \in 1 .. Len(slots)
      BY <1>1, <1>4, <1>5, <1>7, <2>2
    <3>2. QED
      BY <1>4, <1>7, <1>9, <2>2, <3>1
  <2>3. QED
    BY <2>1, <2>2
<1>12. TopicHolds'
  <2>1. FullTo(slots, n + 1)
    BY <1>6, <1>7, <1>11 DEF FullTo
  <2>2. HasList(slots, n + 1, subscribers')
    BY <1>9, <1>11 DEF HasList
  <2>3. FitsIn(arrays', topic') /\ HoldsIn(arrays', topic', subscribers')
    BY <1>3, <1>4, <1>8, <2>1, <2>2, PutSlice
  <2>4. QED
    BY <2>3 DEF TopicHolds
<1>13. ASSUME NEW q \in Publishers
       PROVE  CallHolds(pub[q])'
  <2> PICK c : c = pub[q]
    OBVIOUS
  <2> PICK s : s = c.slice
    OBVIOUS
  <2>1. /\ c \in BusCalls /\ CallHolds(c) /\ pub'[q] = c /\ s \in Slices
        /\ s.array \in Nat /\ s.len \in Nat
    BY <1>1, <1>2 DEF BusTyped, BusCalls, Slices
  <2>2. CASE c.at = "loop" /\ s.array = a
    <3>1. LoopHolds(c) /\ FullTo(arrays[a], s.len)
      BY <1>4, <2>1, <2>2 DEF CallHolds, LoopHolds, FitsIn
    <3>2. \A i \in 1 .. s.len : i \in 1 .. Len(slots) /\ arrays[a][i] \in Handlers
      BY <1>7, <1>4, <2>1, <3>1 DEF FullTo
    <3>3. FullTo(slots, s.len)
      BY <1>7, <3>1, <3>2 DEF FullTo
    <3>4. /\ FitsIn(arrays', s)
          /\ \A list : HasList(slots, s.len, list) => HoldsIn(arrays', s, list)
      BY <1>4, <1>8, <2>2, <3>3, PutSlice
    <3>5. ASSUME ~c.raced
          PROVE  HoldsIn(arrays', s, c.due) /\ s.len <= topic'.len
      <4>1. s.len <= n /\ HasList(arrays[a], s.len, c.due)
        BY <2>2, <3>1, <3>5 DEF LoopHolds, HoldsIn
      <4>2. s.len <= n + 1 /\ \A i \in 1 .. s.len : i # n + 1
        BY <1>1, <2>1, <4>1
      <4>3. HasList(slots, s.len, c.due)
        BY <1>7, <3>2, <4>1, <4>2 DEF HasList
      <4>4. QED
        BY <1>3, <3>4, <4>2, <4>3
    <3>6. CallHolds(c)'
      BY <1>1, <1>8, <2>1, <3>4, <3>5, CallsHold
    <3>7. QED
      BY <2>1, <3>6 DEF CallHolds, LoopHolds
  <2>3. CASE c.at = "loop" /\ s.array # a
    <3>1. FitsIn(arrays, s)
      BY <2>1, <2>3 DEF CallHolds, LoopHolds
    <3>3. StaysIn(arrays, arrays', s)
      BY <1>4, <1>8, <2>1, <2>3, <3>1, OtherArrays
    <3>4. FitsIn(arrays', s) /\ (~c.raced => HoldsIn(arrays', s, c.due))
      BY <2>1, <2>3, <3>3 DEF CallHolds, LoopHolds, StaysIn
    <3>5. CallHolds(c)'
      BY <1>1, <1>3, <1>8, <2>1, <2>3, <3>4, CallsHold
    <3>6. QED
      BY <2>1, <3>5 DEF CallHolds, LoopHolds
  <2>4. CASE c.at # "loop"
    BY <2>1, <2>4 DEF CallHolds
  <2>5. QED
    BY <2>2, <2>3, <2>4
<1>14. QED
  BY <1>10, <1>12, <1>13 DEF BusInv

\* The array that append makes when there is no room.
IsGrown(h, new) ==
  /\ new \in Seq(Slots) /\ Len(new) >= topic.len + 1 /\ new[topic.len + 1] = h
  /\ \A i \in 1 .. topic.len : new[i] = arrays[topic.array][i] /\ new[i] \in Handlers

LEMMA GrownArray ==
  ASSUME BusTyped, TopicHolds, NEW h \in Handlers
  PROVE  IsGrown(h, Grown(h))
<1> PICK new : new = Grown(h)
  OBVIOUS
<1> PICK n : n = topic.len
  OBVIOUS
<1> PICK size : size = IF n = 0 THEN 1 ELSE 2 * n
  OBVIOUS
<1>1. n \in Nat
  BY DEF BusTyped, Slices
<1>2. size \in Nat /\ n + 1 \in 1 .. size /\ \A i \in 1 .. n : i \in 1 .. size
  BY <1>1
<1>3. \A i \in 1 .. n : arrays[topic.array][i] \in Handlers
  <2>1. CASE n = 0
    BY <2>1
  <2>2. CASE n # 0
    BY <2>2, TopicArray DEF FullTo
  <2>3. QED
    BY <2>1, <2>2
<1>4. new = [i \in 1 .. size |-> IF i <= n THEN arrays[topic.array][i]
                                ELSE IF i = n + 1 THEN h ELSE Empty]
  BY DEF Grown
<1>5. \A i \in 1 .. size :
        (IF i <= n THEN arrays[topic.array][i] ELSE IF i = n + 1 THEN h ELSE Empty) \in Slots
  <2> SUFFICES ASSUME NEW i \in 1 .. size
               PROVE  (IF i <= n THEN arrays[topic.array][i]
                       ELSE IF i = n + 1 THEN h ELSE Empty) \in Slots
    OBVIOUS
  <2>1. CASE i <= n
    BY <1>1, <1>2, <1>3, <2>1 DEF Slots
  <2>2. CASE ~(i <= n)
    BY <2>2 DEF Slots
  <2>3. QED
    BY <2>1, <2>2
<1>6. new \in [1 .. size -> Slots]
  BY <1>4, <1>5
<1>7. new \in Seq(Slots) /\ Len(new) = size
  BY <1>2, <1>6
<1>8. new[n + 1] = h /\ \A i \in 1 .. n : new[i] = arrays[topic.array][i]
  BY <1>1, <1>2, <1>4
<1>9. QED
  BY <1>2, <1>3, <1>7, <1>8 DEF IsGrown

LEMMA SubscribeAnew ==
  ASSUME BusInv, NEW h \in Handlers, Subscribe(h),
         topic.array = 0 \/ topic.len = Len(arrays[topic.array])
  PROVE  BusInv'
<1> PICK n : n = topic.len
  OBVIOUS
<1> PICK m : m = Len(arrays)
  OBVIOUS
<1> PICK new : new = Grown(h)
  OBVIOUS
<1> PICK longer : longer = Append(arrays, new)
  OBVIOUS
<1> PICK T : T = Seq(Slots)
  OBVIOUS
<1>1. /\ BusTyped /\ TopicHolds /\ \A q \in Publishers : CallHolds(pub[q])
      /\ topic \in Slices /\ n \in Nat /\ arrays \in Seq(T) /\ m \in Nat
  BY DEF BusInv, BusTyped, Slices
<1>2. /\ topic' = [array |-> m + 1, len |-> n + 1] /\ pub' = pub
      /\ subscribers' = Append(subscribers, h)
      /\ arrays' = Kept(longer, Sliced \cup {topic'})
  BY DEF Subscribe
<1>3. topic' \in Slices /\ topic'.array = m + 1 /\ topic'.len = n + 1
  BY <1>1, <1>2 DEF Slices
<1>4. /\ new \in Seq(Slots) /\ Len(new) >= n + 1 /\ new[n + 1] = h
      /\ \A i \in 1 .. n : new[i] = arrays[topic.array][i] /\ new[i] \in Handlers
  <2>1. IsGrown(h, Grown(h))
    BY <1>1, GrownArray
  <2>2. QED
    BY <2>1 DEF IsGrown
<1>5. /\ longer \in Seq(T) /\ Len(longer) = m + 1 /\ longer[m + 1] = new
      /\ \A b \in 1 .. m : longer[b] = arrays[b]
  BY <1>1, <1>4
<1> PICK slices : slices = Sliced \cup {topic'}
  OBVIOUS
<1>6. arrays' \in Seq(T) /\ IsKept(longer, slices, arrays')
  <2>1. << >> \in T
    OBVIOUS
  <2>2. QED
    BY <1>2, <1>5, <2>1, KeptArrays
<1>7. Len(arrays') = m + 1 /\ arrays'[m + 1] = new
  <2>1. topic' \in slices /\ topic'.array \in 1 .. Len(longer)
    BY <1>1, <1>3, <1>5
  <2>2. QED
    BY <1>3, <1>5, <1>6, <2>1 DEF IsKept
<1>8. /\ subscribers' \in Seq(Handlers) /\ Len(subscribers') = n + 1
      /\ \A i \in 1 .. n : subscribers'[i] = subscribers[i]
                           /\ arrays[topic.array][i] = subscribers[i]
      /\ subscribers'[n + 1] = h
  <2>1. /\ subscribers \in Seq(Handlers) /\ Len(subscribers) = n
        /\ \A i \in 1 .. n : arrays[topic.array][i] = subscribers[i]
    BY <1>1, TopicArray DEF BusTyped, HasList
  <2>2. subscribers' = Append(subscribers, h)
    BY <1>2
  <2>3. /\ subscribers' \in Seq(Handlers) /\ Len(subscribers') = n + 1
        /\ \A i \in 1 .. n : subscribers'[i] = subscribers[i]
        /\ subscribers'[n + 1] = h
    BY <2>1, <2>2
  <2>4. QED
    BY <2>1, <2>3
<1>9. BusTyped'
  BY <1>1, <1>2, <1>3, <1>6, <1>8 DEF BusTyped
<1>10. \A i \in 1 .. n + 1 : new[i] \in Handlers /\ new[i] = subscribers'[i]
  <2> SUFFICES ASSUME NEW i \in 1 .. n + 1
               PROVE  new[i] \in Handlers /\ new[i] = subscribers'[i]
    OBVIOUS
  <2>1. CASE i = n + 1
    BY <1>4, <1>8, <2>1
  <2>2. CASE i # n + 1
    <3>1. i \in 1 .. n
      BY <1>1, <2>2
    <3>2. QED
      BY <1>4, <1>8, <3>1
  <2>3. QED
    BY <2>1, <2>2
<1>11. TopicHolds'
  <2>1. FullTo(new, n + 1) /\ HasList(new, n + 1, subscribers')
    BY <1>4, <1>8, <1>10 DEF FullTo, HasList
  <2>2. m + 1 \in 0 .. Len(arrays') /\ m + 1 # 0
    BY <1>1, <1>7
  <2>3. FitsIn(arrays', topic')
    BY <1>3, <1>7, <2>1, <2>2 DEF FitsIn
  <2>4. HoldsIn(arrays', topic', subscribers')
    BY <1>3, <1>7, <2>1 DEF HoldsIn
  <2>5. QED
    BY <2>3, <2>4 DEF TopicHolds
<1>12. ASSUME NEW q \in Publishers
       PROVE  CallHolds(pub[q])'
  <2> PICK c : c = pub[q]
    OBVIOUS
  <2> PICK s : s = c.slice
    OBVIOUS
  <2>1. /\ c \in BusCalls /\ CallHolds(c) /\ pub'[q] = c /\ s \in Slices /\ s.array \in Nat
    BY <1>1, <1>2 DEF BusTyped, BusCalls, Slices
  <2>2. CASE c.at = "loop"
    <3>1. FitsIn(arrays, s) /\ s \in slices
      BY <2>1, <2>2 DEF CallHolds, LoopHolds, Sliced
    <3>2. s.array \in 0 .. m
      BY <3>1 DEF FitsIn
    <3>3. s.array # 0 => arrays'[s.array] = arrays[s.array]
      <4>1. s.array # 0 => s.array \in 1 .. m /\ s.array \in 1 .. m + 1
        BY <1>1, <3>2
      <4>2. QED
        BY <1>5, <1>6, <3>1, <4>1 DEF IsKept
    <3>4. Len(arrays) <= Len(arrays') /\ Len(arrays) \in Nat /\ Len(arrays') \in Nat
      BY <1>1, <1>7
    <3>5. StaysIn(arrays, arrays', s)
      BY <2>1, <3>1, <3>3, <3>4, SliceStays
    <3>6. FitsIn(arrays', s) /\ (~c.raced => HoldsIn(arrays', s, c.due))
      BY <2>1, <2>2, <3>5 DEF CallHolds, LoopHolds, StaysIn
    <3>7. s.array # topic'.array
      BY <1>1, <1>3, <3>2
    <3>8. arrays' \in Seq(Seq(Slots))
      BY <1>6
    <3>9. CallHolds(c)'
      BY <1>1, <2>1, <2>2, <3>6, <3>7, <3>8, CallsHold
    <3>10. QED
      BY <2>1, <3>9 DEF CallHolds, LoopHolds
  <2>3. CASE c.at # "loop"
    BY <2>1, <2>3 DEF CallHolds
  <2>4. QED
    BY <2>2, <2>3
<1>13. QED
  BY <1>9, <1>11, <1>12 DEF BusInv

\* Handlers move one slot down; loops on the array may miss one.
LEMMA UnsubscribeInv ==
  ASSUME BusInv, Unsubscribe
  PROVE  BusInv'
<1> PICK a : a = topic.array
  OBVIOUS
<1> PICK n : n = topic.len
  OBVIOUS
<1> PICK old : old = arrays[a]
  OBVIOUS
<1> PICK slots : slots = [i \in DOMAIN old |-> IF i < n THEN old[i + 1] ELSE old[i]]
  OBVIOUS
<1> PICK T : T = Seq(Slots)
  OBVIOUS
<1>1. /\ BusTyped /\ TopicHolds /\ \A q \in Publishers : CallHolds(pub[q])
      /\ topic \in Slices /\ a \in Nat /\ n \in Nat /\ n > 0
      /\ arrays \in Seq(T) /\ Len(arrays) \in Nat
  BY DEF BusInv, BusTyped, Slices, Unsubscribe
<1>2. /\ topic' = [topic EXCEPT !.len = @ - 1] /\ subscribers' = Tail(subscribers)
      /\ pub' = [p \in Publishers |-> [pub[p] EXCEPT !.raced = @ \/ pub[p].slice.array = a]]
      /\ arrays' = [arrays EXCEPT ![a] =
                      [i \in DOMAIN @ |-> IF i < n THEN @[i + 1] ELSE @[i]]]
  BY DEF Unsubscribe
<1>3. topic' \in Slices /\ topic'.array = a /\ topic'.len = n - 1 /\ n - 1 \in Nat
  <2>1. n - 1 \in Nat
    BY <1>1
  <2>2. topic' = [topic EXCEPT !.len = n - 1]
    BY <1>2
  <2>3. topic \in [array : Nat, len : Nat]
    BY <1>1 DEF Slices
  <2>4. QED
    BY <2>1, <2>2, <2>3 DEF Slices
<1>4. a \in 1 .. Len(arrays) /\ n <= Len(old) /\ \A i \in 1 .. n : old[i] \in Handlers
  <2>1. a \in 1 .. Len(arrays) /\ FullTo(old, n)
    BY <1>1, TopicArray
  <2>2. QED
    BY <2>1 DEF FullTo
<1>5. old \in Seq(Slots) /\ Len(old) \in Nat /\ DOMAIN old = 1 .. Len(old)
  <2>1. old \in Seq(Slots)
    BY <1>1, TopicArray
  <2>2. QED
    BY <2>1
<1>6. \A i \in 1 .. n : i < n => i + 1 \in 1 .. n
  BY <1>1
<1>7. \A i \in 1 .. Len(old) : /\ slots[i] = (IF i < n THEN old[i + 1] ELSE old[i])
                               /\ slots[i] \in Slots /\ old[i] \in Slots
  <2> SUFFICES ASSUME NEW i \in 1 .. Len(old)
               PROVE  /\ slots[i] = (IF i < n THEN old[i + 1] ELSE old[i])
                      /\ slots[i] \in Slots /\ old[i] \in Slots
    OBVIOUS
  <2>1. slots[i] = (IF i < n THEN old[i + 1] ELSE old[i]) /\ old[i] \in Slots
    BY <1>5
  <2>2. i < n => i + 1 \in 1 .. Len(old)
    BY <1>1, <1>4, <1>5
  <2>3. i < n => old[i + 1] \in Slots
    BY <1>5, <2>2
  <2>4. QED
    BY <2>1, <2>3
<1>8. slots \in Seq(Slots) /\ Len(slots) = Len(old)
  <2>1. slots \in [1 .. Len(old) -> Slots]
    BY <1>5, <1>7
  <2>2. QED
    BY <1>5, <2>1
<1>9. arrays' \in Seq(T) /\ IsPut(arrays, a, slots, arrays')
  <2>1. arrays' = [arrays EXCEPT ![a] = slots]
    BY <1>1, <1>2, <1>4
  <2>2. slots \in T
    BY <1>8
  <2>3. QED
    BY <1>1, <1>4, <2>1, <2>2, PutArray
<1>10. /\ subscribers' \in Seq(Handlers) /\ Len(subscribers') = n - 1
       /\ \A i \in 1 .. n - 1 : subscribers'[i] = old[i + 1]
  <2>1. /\ subscribers \in Seq(Handlers) /\ Len(subscribers) = n
        /\ \A i \in 1 .. n : old[i] = subscribers[i]
    BY <1>1, TopicArray DEF BusTyped, HasList
  <2>2. /\ subscribers' \in Seq(Handlers) /\ Len(subscribers') = n - 1
        /\ \A i \in 1 .. n - 1 : subscribers'[i] = subscribers[i + 1]
    BY <1>1, <1>2, <2>1
  <2>3. \A i \in 1 .. n - 1 : i + 1 \in 1 .. n
    BY <1>1
  <2>4. QED
    BY <2>1, <2>2, <2>3
<1>11. ASSUME NEW q \in Publishers
       PROVE  /\ pub'[q] \in BusCalls /\ pub'[q].at = pub[q].at /\ pub'[q].due = pub[q].due
              /\ pub'[q].slice = pub[q].slice /\ pub'[q].started = pub[q].started
              /\ ~pub'[q].raced => ~pub[q].raced /\ pub[q].slice.array # a
  <2> PICK c : c = pub[q]
    OBVIOUS
  <2> PICK r : r = (c.raced \/ c.slice.array = a)
    OBVIOUS
  <2> PICK v : v = [c EXCEPT !.raced = r]
    OBVIOUS
  <2>1. c \in BusCalls /\ r \in BOOLEAN
    BY <1>1 DEF BusTyped
  <2>2. /\ v \in BusCalls /\ v.at = c.at /\ v.due = c.due /\ v.slice = c.slice
        /\ v.started = c.started /\ v.raced = r
    BY <2>1 DEF BusCalls
  <2>3. pub'[q] = v
    BY <1>2, <2>1 DEF BusCalls
  <2>4. ~v.raced => ~c.raced /\ c.slice.array # a
    BY <2>2, Zenon
  <2>5. QED
    BY <2>2, <2>3, <2>4
<1>12. BusTyped'
  <2>1. pub' \in [Publishers -> BusCalls]
    BY <1>2, <1>11
  <2>2. QED
    BY <1>3, <1>9, <1>10, <2>1 DEF BusTyped
<1>13. \A i \in 1 .. n - 1 : slots[i] = old[i + 1] /\ slots[i] \in Handlers
  <2>1. \A i \in 1 .. n - 1 : i \in 1 .. Len(old) /\ i < n /\ i + 1 \in 1 .. n
    BY <1>1, <1>4, <1>5
  <2>2. QED
    BY <1>4, <1>7, <2>1
<1>14. TopicHolds'
  <2>1. FullTo(slots, n - 1)
    BY <1>1, <1>4, <1>5, <1>8, <1>13 DEF FullTo
  <2>2. HasList(slots, n - 1, subscribers')
    BY <1>10, <1>13 DEF HasList
  <2>3. FitsIn(arrays', topic') /\ HoldsIn(arrays', topic', subscribers')
    BY <1>1, <1>3, <1>4, <1>9, <2>1, <2>2, PutSlice
  <2>4. QED
    BY <2>3 DEF TopicHolds
<1>15. ASSUME NEW q \in Publishers
       PROVE  CallHolds(pub[q])'
  <2> PICK c : c = pub[q]
    OBVIOUS
  <2> PICK v : v = pub'[q]
    OBVIOUS
  <2> PICK s : s = c.slice
    OBVIOUS
  <2>1. /\ c \in BusCalls /\ CallHolds(c) /\ s \in Slices /\ s.array \in Nat /\ s.len \in Nat
        /\ v \in BusCalls /\ v.at = c.at /\ v.due = c.due /\ v.slice = s
        /\ v.started = c.started /\ (~v.raced => ~c.raced /\ s.array # a)
    BY <1>1, <1>11 DEF BusTyped, BusCalls, Slices
  <2>2. CASE c.at = "loop" /\ s.array = a
    <3>1. FullTo(old, s.len) /\ Len(v.started) <= s.len
      BY <1>1, <1>4, <2>1, <2>2 DEF CallHolds, LoopHolds, FitsIn
    <3>6. s.len <= Len(old) /\ \A i \in 1 .. s.len : old[i] \in Handlers
      BY <3>1 DEF FullTo
    <3>2. ASSUME NEW i \in 1 .. s.len
          PROVE  slots[i] \in Handlers
      <4>1. i \in 1 .. Len(old)
        BY <1>5, <2>1, <3>6
      <4>2. CASE i < n
        <5>1. i \in 1 .. n - 1
          BY <1>1, <4>1, <4>2
        <5>2. QED
          BY <1>13, <5>1
      <4>3. CASE ~(i < n)
        BY <1>7, <3>6, <4>1, <4>3
      <4>4. QED
        BY <4>2, <4>3
    <3>3. FitsIn(arrays', s)
      <4>1. FullTo(slots, s.len)
        BY <1>8, <3>2, <3>6 DEF FullTo
      <4>2. QED
        BY <1>1, <1>4, <1>9, <2>2, <4>1, PutSlice
    <3>4. v.raced
      BY <2>1, <2>2
    <3>5. QED
      BY <2>1, <2>2, <3>1, <3>3, <3>4 DEF CallHolds, LoopHolds
  <2>3. CASE c.at = "loop" /\ s.array # a
    <3>1. LoopHolds(c) /\ FitsIn(arrays, s)
      BY <2>1, <2>3 DEF CallHolds, LoopHolds
    <3>3. StaysIn(arrays, arrays', s)
      BY <1>1, <1>9, <2>1, <2>3, <3>1, OtherArrays
    <3>4. ~v.raced => /\ HoldsIn(arrays', s, v.due) /\ s.array # topic'.array
                      /\ \A i \in 1 .. Len(v.started) : v.started[i] = v.due[i]
      BY <1>3, <2>1, <3>1, <3>3 DEF LoopHolds, StaysIn
    <3>5. Len(v.started) <= s.len
      BY <2>1, <3>1 DEF LoopHolds
    <3>6. QED
      BY <2>1, <2>3, <3>3, <3>4, <3>5 DEF CallHolds, LoopHolds, StaysIn
  <2>4. CASE c.at # "loop"
    BY <2>1, <2>4 DEF CallHolds
  <2>5. QED
    BY <2>2, <2>3, <2>4
<1>16. QED
  BY <1>12, <1>14, <1>15 DEF BusInv

LEMMA BusStepInv == BusInv /\ [BusNext]_busVars => BusInv'
<1> SUFFICES ASSUME BusInv, [BusNext]_busVars
             PROVE  BusInv'
  OBVIOUS
<1>1. CASE UNCHANGED busVars
  BY <1>1 DEF busVars, BusInv, BusTyped, TopicHolds, CallHolds, LoopHolds
<1>2. CASE BusNext
  <2>1. ASSUME NEW h \in Handlers, Subscribe(h)
        PROVE  BusInv'
    BY <2>1, SubscribeInPlace, SubscribeAnew
  <2>2. ASSUME NEW p \in Publishers, Deliver(p)
        PROVE  BusInv'
    BY <2>2, StartsInv, ReturnsFromLoopInv DEF Deliver
  <2>3. QED
    BY <1>2, <2>1, <2>2, UnsubscribeInv, PublishInv, DoneInv DEF BusNext
<1>3. QED
  BY <1>1, <1>2

(***************************************************************************)
(* A Publish starts the handlers that were subscribed when it began, each  *)
(* once and in order, unless an Unsubscribe came in between, and never an  *)
(* empty slot (eventbus.go:24-67).  The loop reads the slots without the   *)
(* lock; that they keep what they had is the invariant: an append in place *)
(* writes behind the topic's end, and a slice taken from the array ends    *)
(* there or before, as nothing but a removal makes the topic shorter.      *)
(***************************************************************************)
THEOREM HandlersStartOnce == ToolsSpec => []DeliveredOnce
<1>1. ToolsInit => BusInv
  BY BusInitInv DEF ToolsInit
<1>2. BusInv /\ [ToolsNext]_toolVars => BusInv'
  BY BusStepInv, ToolSteps
<1>3. BusInv => DeliveredOnce
  <2> SUFFICES ASSUME BusInv, NEW p \in Publishers
               PROVE  /\ Empty \notin Range(pub[p].started)
                      /\ pub[p].at = "ended" /\ ~pub[p].raced => pub[p].started = pub[p].due
    BY DEF DeliveredOnce
  <2>1. pub[p].started \in Seq(Handlers) /\ CallHolds(pub[p])
    BY DEF BusInv, BusTyped, BusCalls
  <2>2. Range(pub[p].started) \subseteq Handlers
    BY <2>1 DEF Range
  <2>3. QED
    BY <2>1, <2>2, BusAssumption DEF CallHolds
<1> QED
  BY <1>1, <1>2, <1>3, PTL DEF ToolsSpec
-----------------------------------------------------------------------------
\* The sandbox's rules: what blocks by default and was not removed is there,
\* with nothing before it but what blocks by default too.
BlockingDefault(id) == Default(id, "block")
BlockingIDs == {"block_rm", "block_shutdown"}
InFront(i) == \A j \in 1 .. i - 1 : rules[j].action = "block"
DefaultsLead ==
  \A id \in BlockingIDs \ removedDefaults :
    \E i \in DOMAIN rules : rules[i] = BlockingDefault(id) /\ InFront(i)

RuleSet == [id : DefaultIDs \cup OwnRules, pattern : Patterns,
            action : {"block", "warn", "allow"}, tool : Tools]

SandboxInv == rules \in Seq(RuleSet) /\ DefaultsLead

LEMMA GuardInitInv == GuardInit => SandboxInv
<1> SUFFICES ASSUME GuardInit PROVE SandboxInv
  OBVIOUS
<1>1. rules = <<Default("block_rm", "block"), Default("block_shutdown", "block"),
                Default("warn_dangerous", "warn")>>
  BY DEF GuardInit, Defaults
<1>2. /\ {"block_rm", "block_shutdown", "warn_dangerous"} \subseteq DefaultIDs
      /\ DefaultIDs \subseteq Patterns
  <2>1. 1 \in DOMAIN Defaults /\ 2 \in DOMAIN Defaults /\ 3 \in DOMAIN Defaults
    BY DEF Defaults
  <2>2. Defaults[1].id \in DefaultIDs /\ Defaults[2].id \in DefaultIDs /\ Defaults[3].id \in DefaultIDs
    BY <2>1 DEF DefaultIDs
  <2>3. QED
    BY <2>2 DEF Defaults, Default, Patterns
<1>3. rules \in Seq(RuleSet)
  BY <1>1, <1>2 DEF RuleSet, Default, Tools
<1>4. DOMAIN rules = 1 .. 3
  BY <1>1
<1>5. rules[1] = BlockingDefault("block_rm") /\ InFront(1)
  BY <1>1 DEF InFront, BlockingDefault
<1>6. rules[2] = BlockingDefault("block_shutdown") /\ InFront(2)
  <2>1. rules[1].action = "block"
    BY <1>1 DEF Default
  <2>2. 1 .. 2 - 1 = {1}
    OBVIOUS
  <2>3. QED
    BY <1>1, <2>1, <2>2 DEF InFront, BlockingDefault
<1>7. QED
  BY <1>3, <1>4, <1>5, <1>6 DEF SandboxInv, DefaultsLead, BlockingIDs

\* A rule that is added goes behind all others.
LEMMA AddRuleInv ==
  ASSUME SandboxInv, NEW rule \in RuleSet, AddRule(rule)
  PROVE  SandboxInv'
<1>1. rules \in Seq(RuleSet) /\ rules' = Append(rules, rule) /\ removedDefaults' = removedDefaults
  BY DEF SandboxInv, AddRule
<1>2. rules' \in Seq(RuleSet)
  BY <1>1
<1>3. /\ DOMAIN rules \subseteq DOMAIN rules' /\ DOMAIN rules = 1 .. Len(rules) /\ Len(rules) \in Nat
      /\ \A i \in DOMAIN rules : rules'[i] = rules[i]
  BY <1>1
<1>4. ASSUME NEW id \in BlockingIDs \ removedDefaults
      PROVE  \E i \in DOMAIN rules' : rules'[i] = BlockingDefault(id) /\ InFront(i)'
  <2>1. PICK i \in DOMAIN rules : rules[i] = BlockingDefault(id) /\ InFront(i)
    BY <1>4 DEF SandboxInv, DefaultsLead
  <2>2. \A j \in 1 .. i - 1 : j \in DOMAIN rules
    BY <1>3
  <2>3. InFront(i)'
    BY <1>3, <2>1, <2>2 DEF InFront
  <2>4. QED
    BY <1>3, <2>1, <2>3
<1>5. QED
  BY <1>1, <1>2, <1>4 DEF SandboxInv, DefaultsLead

LEMMA BehindTheFirst ==
  ASSUME NEW S, NEW s \in Seq(S), NEW t \in Seq(S), NEW j \in 1 .. Len(s) + Len(t), ~(j <= Len(s))
  PROVE  (s \o t)[j] = t[j - Len(s)]
  OBVIOUS

\* What is behind the rule that is cut out moves up by one place.
LEMMA CutOut ==
  ASSUME NEW S, NEW s \in Seq(S), NEW i \in DOMAIN s
  PROVE  /\ RemoveAt(s, i) \in Seq(S) /\ Len(RemoveAt(s, i)) = Len(s) - 1
         /\ \A j \in 1 .. i - 1 : RemoveAt(s, i)[j] = s[j]
         /\ \A j \in i .. Len(s) - 1 : RemoveAt(s, i)[j] = s[j + 1]
<1>1. i \in 1 .. Len(s) /\ Len(s) \in Nat
  OBVIOUS
<1> DEFINE front == SubSeq(s, 1, i - 1)
           back == SubSeq(s, i + 1, Len(s))
<1>2. /\ front \in Seq(S) /\ Len(front) = i - 1
      /\ \A j \in 1 .. i - 1 : front[j] = s[j]
  BY <1>1
<1>3. /\ back \in Seq(S) /\ Len(back) = Len(s) - i
      /\ \A j \in 1 .. Len(s) - i : back[j] = s[i + j]
  BY <1>1
<1>4. RemoveAt(s, i) = front \o back
  BY DEF RemoveAt
<1> HIDE DEF front, back
<1>5. front \o back \in Seq(S) /\ Len(front \o back) = Len(s) - 1
  BY <1>1, <1>2, <1>3
<1>6. \A j \in 1 .. i - 1 : (front \o back)[j] = s[j]
  BY <1>1, <1>2, <1>3
<1>7. ASSUME NEW j \in i .. Len(s) - 1
      PROVE  (front \o back)[j] = s[j + 1]
  <2>1. j - (i - 1) \in 1 .. Len(s) - i /\ j \in 1 .. Len(front) + Len(back) /\ ~(j <= Len(front))
    BY <1>1, <1>2, <1>3
  <2>2. (front \o back)[j] = back[j - Len(front)]
    BY <1>2, <1>3, <2>1, BehindTheFirst
  <2>3. back[j - (i - 1)] = s[i + (j - (i - 1))] /\ i + (j - (i - 1)) = j + 1
    BY <1>1, <1>3, <2>1
  <2>4. QED
    BY <1>2, <2>2, <2>3
<1>8. QED
  BY <1>4, <1>5, <1>6, <1>7

\* A rule that is removed is a default no longer expected, or one beside it.
LEMMA RemoveRuleInv ==
  ASSUME SandboxInv, NEW id, RemoveRule(id)
  PROVE  SandboxInv'
<1>1. PICK r \in DOMAIN rules : rules[r].id = id /\ rules' = RemoveAt(rules, r)
  BY DEF RemoveRule
<1>2. rules \in Seq(RuleSet) /\ Len(rules) \in Nat /\ DOMAIN rules = 1 .. Len(rules)
  BY DEF SandboxInv
<1>3. /\ rules' \in Seq(RuleSet) /\ Len(rules') = Len(rules) - 1
      /\ \A j \in 1 .. r - 1 : rules'[j] = rules[j]
      /\ \A j \in r .. Len(rules) - 1 : rules'[j] = rules[j + 1]
  BY <1>1, <1>2, CutOut
<1>4. DOMAIN rules' = 1 .. Len(rules) - 1
  BY <1>3
<1>5. ASSUME NEW d \in BlockingIDs \ removedDefaults'
      PROVE  \E i \in DOMAIN rules' : rules'[i] = BlockingDefault(d) /\ InFront(i)'
  <2>1. d # id /\ d \notin removedDefaults
    BY <1>5 DEF RemoveRule, BlockingIDs, DefaultIDs, Defaults, Default
  <2>2. PICK i \in DOMAIN rules : rules[i] = BlockingDefault(d) /\ InFront(i)
    BY <1>5, <2>1 DEF SandboxInv, DefaultsLead
  <2>3. i # r
    BY <1>1, <2>1, <2>2 DEF BlockingDefault, Default
  <2>4. CASE i < r
    <3>1. i \in 1 .. r - 1 /\ i \in DOMAIN rules' /\ \A j \in 1 .. i - 1 : j \in 1 .. r - 1
      BY <1>1, <1>2, <1>4, <2>4
    <3>2. InFront(i)'
      BY <1>3, <2>2, <3>1 DEF InFront
    <3>3. QED
      BY <1>3, <2>2, <3>1, <3>2
  <2>5. CASE i > r
    <3> DEFINE k == i - 1
    <3>1. k \in DOMAIN rules' /\ k \in r .. Len(rules) - 1 /\ k + 1 = i
      BY <1>1, <1>2, <1>4, <2>5
    <3> HIDE DEF k
    <3>2. rules'[k] = BlockingDefault(d)
      BY <1>3, <2>2, <3>1
    <3>3. ASSUME NEW j \in 1 .. k - 1
          PROVE  rules'[j].action = "block"
      <4>1. CASE j < r
        <5>1. j \in 1 .. r - 1 /\ j \in 1 .. i - 1
          BY <1>1, <1>2, <3>1, <4>1
        <5>2. QED
          BY <1>3, <2>2, <5>1 DEF InFront
      <4>2. CASE ~(j < r)
        <5>1. j \in r .. Len(rules) - 1 /\ j + 1 \in 1 .. i - 1
          BY <1>1, <1>2, <3>1, <4>2
        <5>2. QED
          BY <1>3, <2>2, <5>1 DEF InFront
      <4>3. QED
        BY <4>1, <4>2
    <3>4. InFront(k)'
      BY <3>3 DEF InFront
    <3>5. QED
      BY <3>1, <3>2, <3>4
  <2>6. i < r \/ i > r
    BY <1>1, <1>2, <2>3
  <2>7. QED
    BY <2>4, <2>5, <2>6
<1>6. QED
  BY <1>3, <1>5 DEF SandboxInv, DefaultsLead

LEMMA SandboxStepInv == SandboxInv /\ [ToolsNext]_toolVars => SandboxInv'
<1> SUFFICES ASSUME SandboxInv, [ToolsNext]_toolVars PROVE SandboxInv'
  OBVIOUS
<1>1. CASE SandboxNext
  <2>1. ASSUME NEW id \in DefaultIDs \cup OwnRules, NEW pattern \in Patterns, NEW tool \in Tools,
               NEW action \in {"block", "warn", "allow"},
               AddRule([id |-> id, pattern |-> pattern, action |-> action, tool |-> tool])
        PROVE  SandboxInv'
    <3>1. [id |-> id, pattern |-> pattern, action |-> action, tool |-> tool] \in RuleSet
      BY DEF RuleSet
    <3>2. QED
      BY <2>1, <3>1, AddRuleInv
  <2>2. QED
    BY <1>1, <2>1, RemoveRuleInv DEF SandboxNext
<1>2. CASE UNCHANGED sandboxVars
  BY <1>2 DEF sandboxVars, SandboxInv, DefaultsLead, InFront
<1>3. QED
  BY <1>1, <1>2, ToolSteps

\* The least of a set of natural numbers.
LEMMA LeastOf ==
  ASSUME NEW S \in SUBSET Nat, S # {}
  PROVE  Min(S) \in S /\ \A j \in S : Min(S) <= j
<1>1. PICK k \in S : \A y \in S : <<y, k>> \notin OpToRel(<, Nat)
  BY NatLessThanWellFounded, WFMin
<1>2. \A y \in S : ~(y < k)
  BY <1>1, Zenon DEF OpToRel
<1>3. \A y \in S : k <= y
  BY <1>2
<1>4. QED
  BY <1>3, Zenon DEF Min

LEMMA DefaultsBlock ==
  ASSUME SandboxInv, NEW id \in BlockingIDs \ removedDefaults, NEW command, id \in command
  PROVE  ~Evaluate("ssh_exec", command)
<1> DEFINE d == Deciding("ssh_exec", command)
<1>1. PICK i \in DOMAIN rules : rules[i] = BlockingDefault(id) /\ InFront(i)
  BY DEF SandboxInv, DefaultsLead
<1>2. i \in d /\ d \in SUBSET Nat /\ DOMAIN rules \subseteq Nat
  BY <1>1 DEF SandboxInv, Deciding, BlockingDefault, Default
<1> HIDE DEF d
<1>3. Min(d) \in d /\ Min(d) <= i /\ Min(d) \in Nat
  BY <1>2, LeastOf
<1>4. Min(d) \in DOMAIN rules /\ i \in Nat /\ Min(d) >= 1
  BY <1>2, <1>3 DEF d, Deciding, SandboxInv
<1>5. rules[Min(d)].action = "block"
  <2>1. CASE Min(d) = i
    BY <1>1, <2>1 DEF BlockingDefault, Default
  <2>2. CASE Min(d) # i
    <3>1. Min(d) \in 1 .. i - 1
      BY <1>3, <1>4, <2>2
    <3>2. QED
      BY <1>1, <3>1 DEF InFront
  <2>3. QED
    BY <2>1, <2>2
<1>6. QED
  BY <1>2, <1>5 DEF Evaluate, d

\* The risk assessor, after the first n rules: the level is the highest found,
\* and the score is worth it.
Suspects(tool, hits, n) == {i \in 1 .. n : RiskRules[i].tool = tool /\ hits[i] > 0}
Confirms(a) == a.confirm = (a.level > 0)
Graded(a, tool, hits, n) ==
  /\ a.score \in Nat /\ a.level \in 0 .. 3
  /\ Confirms(a)
  /\ a.level = 1 => a.score >= 50
  /\ a.level = 2 => a.score >= 75
  /\ a.level = 3 => a.score >= 100
  /\ \A i \in Suspects(tool, hits, n) : RiskRules[i].level <= a.level
  /\ a.level = 0 \/ \E i \in Suspects(tool, hits, n) : RiskRules[i].level = a.level

LEMMA FiveRules ==
  /\ DOMAIN RiskRules = 1 .. 5
  /\ \A i \in 1 .. 5 : RiskRules[i].level \in 1 .. 3
<1>1. /\ RiskRules[1].level = 3 /\ RiskRules[2].level = 2 /\ RiskRules[3].level = 2
      /\ RiskRules[4].level = 1 /\ RiskRules[5].level = 1
  BY DEF RiskRules
<1>2. QED
  BY <1>1 DEF RiskRules

LEMMA Confirmed ==
  ASSUME NEW a, a.level \in 0 .. 3,
         (a.level > 0 /\ a.confirm = TRUE) \/ (~(a.level > 0) /\ a.confirm = FALSE)
  PROVE  Confirms(a)
<1>1. CASE a.level > 0 /\ a.confirm = TRUE
  <2>1. (a.level > 0) = TRUE
    BY <1>1, Zenon
  <2>2. QED
    BY <1>1, <2>1, Zenon DEF Confirms
<1>2. CASE ~(a.level > 0) /\ a.confirm = FALSE
  <2>1. (a.level > 0) = FALSE
    BY <1>2
  <2>2. QED
    BY <1>2, <2>1, Zenon DEF Confirms
<1>3. QED
  BY <1>1, <1>2, Zenon

LEMMA NothingSuspected == Unsuspected.level = 0 /\ Unsuspected.score = 0 /\ Confirms(Unsuspected)
<1>1. Unsuspected.level = 0 /\ Unsuspected.score = 0
  BY DEF Unsuspected
<1>2. Unsuspected.confirm = FALSE
  BY Zenon DEF Unsuspected
<1>3. ~(Unsuspected.level > 0) /\ Unsuspected.level \in 0 .. 3
  BY <1>1
<1>4. QED
  BY <1>1, <1>2, <1>3, Confirmed, Zenon

\* The keywords of one rule.
LEMMA KeywordsGrade ==
  ASSUME NEW tool, NEW hits, NEW a, NEW level \in 1 .. 3, NEW n \in 1 .. 4,
         a.score \in Nat, a.level \in 0 .. 3,
         a.level = 1 => a.score >= 50, a.level = 2 => a.score >= 75, a.level = 3 => a.score >= 100
  PROVE  LET b == KeywordsFound(a, level, n)
         IN  /\ b.score \in Nat /\ b.level \in 1 .. 3
             /\ b.level = 1 => b.score >= 50
             /\ b.level = 2 => b.score >= 75
             /\ b.level = 3 => b.score >= 100
             /\ level <= b.level /\ a.level <= b.level
             /\ b.level = level \/ b.level = a.level
<1>1. CASE level = 1
  <2>1. KeywordsFound(a, level, n) =
          [score |-> a.score + n * 50, level |-> IF a.level = 0 THEN 1 ELSE a.level, confirm |-> TRUE]
    BY <1>1 DEF KeywordsFound
  <2>2. a.score + n * 50 \in Nat /\ a.score + n * 50 >= a.score + 50
    OBVIOUS
  <2>3. QED
    BY <1>1, <2>1, <2>2
<1>2. CASE level = 2
  <2>1. KeywordsFound(a, level, n) =
          [score |-> a.score + n * 75, level |-> IF a.level # 3 THEN 2 ELSE 3, confirm |-> TRUE]
    BY <1>2 DEF KeywordsFound
  <2>2. a.score + n * 75 \in Nat /\ a.score + n * 75 >= a.score + 75
    OBVIOUS
  <2>3. QED
    BY <1>2, <2>1, <2>2
<1>3. CASE level = 3
  <2>1. KeywordsFound(a, level, n) = [score |-> a.score + n * 100, level |-> 3, confirm |-> TRUE]
    BY <1>3 DEF KeywordsFound
  <2>2. a.score + n * 100 \in Nat /\ a.score + n * 100 >= a.score + 100
    OBVIOUS
  <2>3. QED
    BY <1>3, <2>1, <2>2
<1>4. QED
  BY <1>1, <1>2, <1>3

LEMMA RuleGrades ==
  ASSUME NEW tool, NEW hits \in [1 .. 5 -> 0 .. 4], NEW a, NEW n \in 1 .. 5,
         Graded(a, tool, hits, n - 1)
  PROVE  Graded(AfterRule(n, a, tool, hits), tool, hits, n)
<1> DEFINE b == AfterRule(n, a, tool, hits)
<1>1. hits[n] \in 0 .. 4 /\ RiskRules[n].level \in 1 .. 3
  BY FiveRules
<1>2. \A i \in 1 .. n : i \in 1 .. n - 1 \/ i = n
  OBVIOUS
<1>3. 1 .. n - 1 \subseteq 1 .. n
  OBVIOUS
<1>4. CASE RiskRules[n].tool = tool /\ hits[n] > 0
  <2>1. b = KeywordsFound(a, RiskRules[n].level, hits[n]) /\ hits[n] \in 1 .. 4
    BY <1>1, <1>4 DEF AfterRule
  <2> HIDE DEF b
  <2>2. Suspects(tool, hits, n) = Suspects(tool, hits, n - 1) \cup {n}
    BY <1>2, <1>3, <1>4 DEF Suspects
  <2>3. /\ b.score \in Nat /\ b.level \in 1 .. 3
        /\ b.level = 1 => b.score >= 50
        /\ b.level = 2 => b.score >= 75
        /\ b.level = 3 => b.score >= 100
        /\ RiskRules[n].level <= b.level /\ a.level <= b.level
        /\ b.level = RiskRules[n].level \/ b.level = a.level
    BY <1>1, <2>1, KeywordsGrade DEF Graded
  <2>4. ASSUME NEW i \in Suspects(tool, hits, n)
        PROVE  RiskRules[i].level <= b.level
    <3>1. CASE i = n
      BY <2>3, <3>1
    <3>2. CASE i # n
      <4>1. RiskRules[i].level <= a.level /\ i \in 1 .. 5
        BY <2>2, <3>2 DEF Graded, Suspects
      <4>2. QED
        BY <2>3, <4>1, FiveRules DEF Graded
    <3>3. QED
      BY <3>1, <3>2
  <2>5. \E i \in Suspects(tool, hits, n) : RiskRules[i].level = b.level
    <3>1. CASE b.level = RiskRules[n].level
      BY <2>2, <3>1
    <3>2. CASE b.level = a.level
      <4>1. a.level # 0
        BY <2>3, <3>2
      <4>2. PICK i \in Suspects(tool, hits, n - 1) : RiskRules[i].level = a.level
        BY <4>1 DEF Graded
      <4>3. QED
        BY <2>2, <3>2, <4>2
    <3>3. QED
      BY <2>3, <3>1, <3>2
  <2>6. b.level \in 0 .. 3 /\ Confirms(b)
    <3>1. b.level \in 0 .. 3 /\ b.level > 0
      BY <2>3
    <3>2. b.confirm = TRUE
      BY <2>1, Zenon DEF KeywordsFound
    <3>3. QED
      BY <3>1, <3>2, Confirmed, Zenon
  <2>7. Graded(b, tool, hits, n)
    BY <2>3, <2>4, <2>5, <2>6 DEF Graded
  <2>8. QED
    BY <2>7 DEF b
<1>5. CASE ~(RiskRules[n].tool = tool /\ hits[n] > 0)
  <2>1. b = a
    BY <1>5 DEF AfterRule
  <2>2. Suspects(tool, hits, n) = Suspects(tool, hits, n - 1)
    BY <1>2, <1>3, <1>5 DEF Suspects
  <2>3. Graded(a, tool, hits, n)
    BY <2>2 DEF Graded
  <2>4. QED
    BY <2>1, <2>3
<1>6. QED
  BY <1>4, <1>5

LEMMA AllRulesGrade ==
  ASSUME NEW tool, NEW hits \in [1 .. 5 -> 0 .. 4]
  PROVE  Graded(Assessment(tool, hits), tool, hits, 5)
<1> DEFINE After(i, a) == AfterRule(i, a, tool, hits)
<1>1. Graded(Unsuspected, tool, hits, 0)
  <2>1. Suspects(tool, hits, 0) = {}
    BY DEF Suspects
  <2>2. QED
    BY <2>1, NothingSuspected DEF Graded
<1>2. ASSUME NEW a, NEW n \in 1 .. 5, Graded(a, tool, hits, n - 1)
      PROVE  Graded(After(n, a), tool, hits, n)
  BY <1>2, RuleGrades
<1> HIDE DEF After
<1>3. Graded(After(1, Unsuspected), tool, hits, 1)
  <2>1. Graded(Unsuspected, tool, hits, 1 - 1)
    BY <1>1
  <2>2. QED
    BY <1>2, <2>1
<1>4. Graded(After(2, After(1, Unsuspected)), tool, hits, 2)
  <2>1. Graded(After(1, Unsuspected), tool, hits, 2 - 1)
    BY <1>3
  <2>2. QED
    BY <1>2, <2>1
<1>5. Graded(After(3, After(2, After(1, Unsuspected))), tool, hits, 3)
  <2>1. Graded(After(2, After(1, Unsuspected)), tool, hits, 3 - 1)
    BY <1>4
  <2>2. QED
    BY <1>2, <2>1
<1>6. Graded(After(4, After(3, After(2, After(1, Unsuspected)))), tool, hits, 4)
  <2>1. Graded(After(3, After(2, After(1, Unsuspected))), tool, hits, 4 - 1)
    BY <1>5
  <2>2. QED
    BY <1>2, <2>1
<1>7. Graded(After(5, After(4, After(3, After(2, After(1, Unsuspected))))), tool, hits, 5)
  <2>1. Graded(After(4, After(3, After(2, After(1, Unsuspected)))), tool, hits, 5 - 1)
    BY <1>6
  <2>2. QED
    BY <1>2, <2>1
<1>8. QED
  BY <1>7, Zenon DEF Assessment, After

RiskInv ==
  /\ assessed.hits \in [1 .. 5 -> 0 .. 4]
  /\ Graded(assessed.a, assessed.tool, assessed.hits, 5)

LEMMA RiskInitInv == GuardInit => RiskInv
<1> SUFFICES ASSUME GuardInit PROVE RiskInv
  OBVIOUS
<1>1. /\ assessed.hits = [i \in 1 .. 5 |-> 0] /\ assessed.a = Unsuspected
  BY FiveRules DEF GuardInit
<1>2. \A i \in 1 .. 5 : assessed.hits[i] = 0
  BY <1>1
<1>3. Suspects(assessed.tool, assessed.hits, 5) = {}
  BY <1>2 DEF Suspects
<1>5. Graded(Unsuspected, assessed.tool, assessed.hits, 5)
  BY <1>3, NothingSuspected DEF Graded
<1>6. assessed.hits \in [1 .. 5 -> 0 .. 4]
  BY <1>1
<1>7. QED
  BY <1>1, <1>5, <1>6 DEF RiskInv

LEMMA RiskStepInv == RiskInv /\ [ToolsNext]_toolVars => RiskInv'
<1> SUFFICES ASSUME RiskInv, [ToolsNext]_toolVars PROVE RiskInv'
  OBVIOUS
<1>1. ASSUME NEW tool \in Tools, NEW hits \in Hits(tool), Assess(tool, hits)
      PROVE  RiskInv'
  <2>1. hits \in [1 .. 5 -> 0 .. 4]
    BY FiveRules DEF Hits
  <2>2. /\ assessed'.hits = hits /\ assessed'.tool = tool /\ assessed'.a = Assessment(tool, hits)
    BY <1>1 DEF Assess
  <2>3. Graded(Assessment(tool, hits), tool, hits, 5)
    BY <2>1, AllRulesGrade
  <2>4. QED
    BY <2>1, <2>2, <2>3, Zenon DEF RiskInv
<1>2. CASE UNCHANGED assessed
  BY <1>2 DEF RiskInv
<1>3. QED
  BY <1>1, <1>2, ToolSteps DEF RiskNext

LEMMA GradedLevel ==
  ASSUME RiskInv
  PROVE  LET levels == {RiskRules[i].level : i \in {j \in DOMAIN RiskRules :
                          assessed.hits[j] > 0 /\ RiskRules[j].tool = assessed.tool}}
         IN  /\ assessed.a.level = Max(levels \cup {0})
             /\ assessed.a.confirm = (assessed.a.level > 0)
             /\ assessed.a.level <= GetRiskLevel(assessed.a.score)
<1> DEFINE levels == {RiskRules[i].level : i \in {j \in DOMAIN RiskRules :
                        assessed.hits[j] > 0 /\ RiskRules[j].tool = assessed.tool}}
           L == assessed.a.level
<1>1. levels = {RiskRules[i].level : i \in Suspects(assessed.tool, assessed.hits, 5)}
  BY FiveRules DEF Suspects
<1>2. L \in 0 .. 3 /\ Graded(assessed.a, assessed.tool, assessed.hits, 5)
  BY DEF RiskInv, Graded
<1>3. L \in levels \cup {0} /\ \A x \in levels \cup {0} : L >= x
  <2>1. \A i \in Suspects(assessed.tool, assessed.hits, 5) :
          RiskRules[i].level <= L /\ RiskRules[i].level \in 1 .. 3
    BY <1>2, FiveRules DEF Graded, Suspects
  <2>2. L = 0 \/ L \in levels
    BY <1>1, <1>2 DEF Graded
  <2> HIDE DEF L
  <2>3. QED
    BY <1>1, <1>2, <2>1, <2>2
<1>4. \A x \in levels \cup {0} : x \in Int
  BY <1>1, FiveRules DEF Suspects
<1> HIDE DEF levels, L
<1>5. L = Max(levels \cup {0})
  <2>1. \A x \in levels \cup {0} : (\A y \in levels \cup {0} : x >= y) => x = L
    BY <1>2, <1>3, <1>4
  <2>2. QED
    BY <1>3, <2>1, Zenon DEF Max
<1>6. assessed.a.confirm = (L > 0)
  BY <1>2, Zenon DEF Graded, Confirms, L
<1>7. L <= GetRiskLevel(assessed.a.score)
  BY <1>2 DEF Graded, L, GetRiskLevel
<1>8. QED
  BY <1>5, <1>6, <1>7, Zenon DEF levels, L

(***************************************************************************)
(* Whatever rules are added, and whatever others are removed, a command    *)
(* that a default blocks is refused until that default is removed          *)
(* (sandbox.go:87); and an assessment's level is the highest of the rules  *)
(* it met, in whatever order it met them, and is never above what the      *)
(* score stands for (risk.go:66-121).                                      *)
(***************************************************************************)
THEOREM GuardsDecideWell == ToolsSpec => []GuardsHold
<1>1. ToolsInit => SandboxInv /\ RiskInv
  BY GuardInitInv, RiskInitInv DEF ToolsInit
<1>2. SandboxInv /\ RiskInv => GuardsHold
  <2> SUFFICES ASSUME SandboxInv, RiskInv PROVE GuardsHold
    OBVIOUS
  <2>1. \A id \in {"block_rm", "block_shutdown"} \ removedDefaults, command \in SUBSET Patterns :
          id \in command => ~Evaluate("ssh_exec", command)
    BY DefaultsBlock DEF BlockingIDs
  <2>2. QED
    BY <2>1, GradedLevel, Zenon DEF GuardsHold
<1>3. QED
  BY <1>1, <1>2, SandboxStepInv, RiskStepInv, PTL DEF ToolsSpec
=============================================================================
