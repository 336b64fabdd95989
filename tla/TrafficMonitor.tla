--------------------------- MODULE TrafficMonitor ---------------------------
(***************************************************************************)
(* The traffic monitor of one tunnel (internal/tunnel/monitor.go).  Every  *)
(* StartMonitor puts a new record into the table and starts a goroutine    *)
(* with a channel of its own; StopMonitor takes the record out and tells   *)
(* nobody.  A goroutine looks the record up at each tick, by the tunnel's  *)
(* name, and ends when it finds none: one that has slept over a stop and a *)
(* start goes on with the new record.                                      *)
(***************************************************************************)
EXTENDS Naturals

CONSTANTS
  Watchers,                     \* bound: calls of StartMonitor
  Capacity                      \* of a channel: 100 in the code

VARIABLES
  monitored,                    \* m.stats has a record for the tunnel
  watcher,                      \* watcher[w]: "none", "watching" or "ended"
  queued,                       \* queued[w]: what waits in w's channel
  managerDone                   \* the tunnel manager's context

monitorVars == <<monitored, watcher, queued, managerDone>>

MonitorInit ==
  /\ monitored = FALSE
  /\ watcher = [w \in Watchers |-> "none"]
  /\ queued = [w \in Watchers |-> 0]
  /\ managerDone = FALSE

\* The record is made anew, also when there is one.
StartMonitor(w) ==
  /\ watcher[w] = "none"
  /\ monitored' = TRUE
  /\ watcher' = [watcher EXCEPT ![w] = "watching"]
  /\ UNCHANGED <<queued, managerDone>>

StopMonitor ==
  /\ monitored' = FALSE
  /\ UNCHANGED <<watcher, queued, managerDone>>

\* The channel is closed; what waits in it can still be read.
Ends(w) ==
  /\ watcher' = [watcher EXCEPT ![w] = "ended"]
  /\ UNCHANGED <<monitored, queued, managerDone>>

\* A bug: the send waits for room.
WatchBlocks(w) ==
  /\ watcher[w] = "watching" /\ queued[w] < Capacity
  /\ IF ~monitored THEN Ends(w)
     ELSE /\ queued' = [queued EXCEPT ![w] = @ + 1]
          /\ UNCHANGED <<monitored, watcher, managerDone>>

\* At a tick: a copy of the record is sent if the channel has room.
Watch(w) ==
  /\ watcher[w] = "watching"
  /\ IF ~monitored THEN Ends(w)
     ELSE /\ queued' = [queued EXCEPT ![w] = IF @ < Capacity THEN @ + 1 ELSE @]
          /\ UNCHANGED <<monitored, watcher, managerDone>>

ManagerEnds(w) ==
  /\ watcher[w] = "watching" /\ managerDone
  /\ Ends(w)

\* Whoever has the channel may read it, or not.
Receive(w) ==
  /\ queued[w] > 0
  /\ queued' = [queued EXCEPT ![w] = @ - 1]
  /\ UNCHANGED <<monitored, watcher, managerDone>>

CancelManager ==
  /\ ~managerDone /\ managerDone' = TRUE
  /\ UNCHANGED <<monitored, watcher, queued>>

MonitorNext ==
  \/ \E w \in Watchers : StartMonitor(w) \/ Watch(w) \/ ManagerEnds(w) \/ Receive(w)
  \/ StopMonitor \/ CancelManager

\* The ticker ticks, and select looks at a context that is done.
MonitorFairness ==
  \A w \in Watchers : WF_monitorVars(Watch(w)) /\ SF_monitorVars(ManagerEnds(w))

-----------------------------------------------------------------------------
(***************************************************************************)
(* A goroutine whose tunnel is not monitored any more ends, whether or not *)
(* anybody reads its channel, and so does every one when the manager is    *)
(* closed.  Only a StartMonitor before its next tick keeps it, and then    *)
(* two goroutines watch one record (monitor.go:50).                        *)
(***************************************************************************)
WatchersEnd ==
  \A w \in Watchers :
    (watcher[w] = "watching" /\ (~monitored \/ managerDone))
      ~> (watcher[w] = "ended" \/ (monitored /\ ~managerDone))
=============================================================================
