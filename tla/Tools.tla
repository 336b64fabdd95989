------------------------------- MODULE Tools -------------------------------
(***************************************************************************)
(* The program's tools beside its sessions and tunnels: the three tables   *)
(* of the commands, the event bus, the plugins and their authorizer, the   *)
(* agent and its guards.  No two share state or a lock, and where one      *)
(* calls another its module has the call's outcomes, so that every         *)
(* behaviour is an interleaving of one behaviour of each and what is said  *)
(* of one does not depend on the others' steps: "focus" picks the tool     *)
(* that moves, and the states to check are a sum and not a product.        *)
(***************************************************************************)
EXTENDS CommandRegistry, History, Groups, EventBus, Authorizer, Plugins, Agents, Guards

VARIABLE focus                  \* the tool that moves

tableVars == <<regVars, histVars, groupVars>>
pluginSideVars == <<authVars, pluginVars>>
agentSideVars == <<agentVars, guardVars>>
toolVars == <<tableVars, busVars, pluginSideVars, agentSideVars, focus>>

ToolsInit ==
  /\ RegInit /\ HistInit /\ GroupInit
  /\ BusInit /\ AuthInit /\ PluginInit /\ AgentInit /\ GuardInit
  /\ focus \in {"registry", "history", "groups", "bus", "authorizer", "plugins", "agents",
                "sandbox", "risk"}

TablesNext ==
  /\ \/ focus = "registry" /\ RegNext /\ UNCHANGED <<histVars, groupVars>>
     \/ focus = "history" /\ HistNext /\ UNCHANGED <<regVars, groupVars>>
     \/ focus = "groups" /\ GroupNext /\ UNCHANGED <<regVars, histVars>>
  /\ UNCHANGED <<busVars, pluginSideVars, agentSideVars>>

PluginSideNext ==
  /\ \/ focus = "bus" /\ BusNext /\ UNCHANGED pluginSideVars
     \/ focus = "authorizer" /\ AuthNext /\ UNCHANGED <<busVars, pluginVars>>
     \/ focus = "plugins" /\ PluginNext /\ UNCHANGED <<busVars, authVars>>
  /\ UNCHANGED <<tableVars, agentSideVars>>

AgentSideNext ==
  /\ \/ focus = "agents" /\ AgentNext /\ UNCHANGED guardVars
     \/ focus = "sandbox" /\ SandboxNext /\ UNCHANGED <<agentVars, assessed>>
     \/ focus = "risk" /\ RiskNext /\ UNCHANGED <<agentVars, sandboxVars>>
  /\ UNCHANGED <<tableVars, busVars, pluginSideVars>>

ToolsNext == UNCHANGED focus /\ (TablesNext \/ PluginSideNext \/ AgentSideNext)

ToolsSpec == ToolsInit /\ [][ToolsNext]_toolVars
=============================================================================
