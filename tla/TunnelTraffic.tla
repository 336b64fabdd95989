--------------------------- MODULE TunnelTraffic ---------------------------
(***************************************************************************)
(* What runs beside the tunnel manager's calls and accept loops: the       *)
(* handlers of accepted connections and the traffic monitor.  They share   *)
(* no state: "focus" picks the one whose steps a behaviour takes, and the  *)
(* states to check are a sum and not a product.                            *)
(***************************************************************************)
EXTENDS Connections, TrafficMonitor

VARIABLE focus

vars == <<connVars, monitorVars, focus>>

Init ==
  /\ ConnInit /\ MonitorInit
  /\ focus \in {"connections", "monitor"}
  \* The kinds of connections matter to behaviours about them only.
  /\ focus = "monitor" => kind = [c \in Conns |-> "forward"]

Next ==
  /\ UNCHANGED focus
  /\ \/ focus = "connections" /\ ConnNext /\ UNCHANGED monitorVars
     \/ focus = "monitor" /\ MonitorNext /\ UNCHANGED connVars

\* No fair step of a part is possible in its initial states.
Spec == Init /\ [][Next]_vars /\ ConnFairness /\ MonitorFairness
=============================================================================
