----------------------------- MODULE SSHService -----------------------------
(***************************************************************************)
(* The connect and disconnect requests of the SSH service                  *)
(* (internal/ssh/service.go) on the SSH manager.                           *)
(*                                                                         *)
(* A request is an event, and the bus runs each handler in a goroutine of  *)
(* its own: handlers of one session may run in any order and at the same   *)
(* time.  A session asks for a connection when it has none and gives it    *)
(* back when it has asked for one; the service itself does not check.      *)
(***************************************************************************)
EXTENDS SSHManager

CONSTANTS Host       \* the host of each session: [Callers -> HostKeys]

\* A goroutine that connects does it for one session, so sessions are the callers.
Sessions == Callers

ASSUME HostAssumption == Host \in [Callers -> HostKeys]

VARIABLES want,          \* the last request of each session: "on" or "off"
          connecting,    \* sessions whose connect handler has not begun
          disconnecting, \* sessions whose disconnect handler has not run
          holds,         \* references a session has: connects less disconnects
          client,        \* the client of a session's last ssh.client.ready
          overtaken      \* history: hosts where a disconnect came before its connect

serviceVars == <<want, connecting, disconnecting, holds, client, overtaken>>
vars == <<connections, refs, call, dialedFor, open, raced,
          want, connecting, disconnecting, holds, client, overtaken>>

SessionsOf(k) == {s \in Sessions : Host[s] = k}

\* The references that sessions have to a host, each with its number.
References(k) == UNION {{s} \X (1..holds[s]) : s \in SessionsOf(k)}

Init ==
    /\ ManagerInit
    /\ want = [s \in Sessions |-> "off"]
    /\ connecting = {} /\ disconnecting = {}
    /\ holds = [s \in Sessions |-> 0]
    /\ client = [s \in Sessions |-> NoClient]
    /\ overtaken = {}

-----------------------------------------------------------------------------
(* RequestConnect publishes session.connect.request.  (Bound: one connect  *)
(* handler per session at a time.)                                         *)
RequestConnect(s) ==
    /\ want[s] = "off"
    /\ s \notin connecting /\ call[s] = NoCall
    /\ want' = [want EXCEPT ![s] = "on"]
    /\ connecting' = connecting \cup {s}
    /\ UNCHANGED <<managerVars, disconnecting, holds, client, overtaken>>

(* RequestDisconnect publishes session.disconnect.request.  (Bound: one    *)
(* disconnect handler per session at a time.)                              *)
RequestDisconnect(s) ==
    /\ want[s] = "on"
    /\ s \notin disconnecting
    /\ want' = [want EXCEPT ![s] = "off"]
    /\ disconnecting' = disconnecting \cup {s}
    /\ UNCHANGED <<managerVars, connecting, holds, client, overtaken>>

(* handleConnectRequest: look the session up and call Connect.             *)
HandleConnect(s) ==
    /\ s \in connecting
    /\ ConnectHit(s, Host[s]) \/ ConnectMiss(s, Host[s])
    /\ connecting' = connecting \ {s}
    /\ UNCHANGED <<want, disconnecting, holds, client, overtaken>>

(* Connect returns a client: publish ssh.client.ready.                     *)
ConnectReturns(s) ==
    /\ ConnectCounted(s) \/ ConnectStore(s)
    /\ holds' = [holds EXCEPT ![s] = @ + 1]
    /\ client' = [client EXCEPT ![s] = connections'[Host[s]]]
    /\ UNCHANGED <<want, connecting, disconnecting, overtaken>>

DialReturns(s) ==
    /\ \E c \in Clients : DialSucceeds(s, c)
    /\ UNCHANGED serviceVars

(* session.connect.failed: the requester knows it has no connection.       *)
ConnectFails(s) ==
    /\ DialFails(s)
    /\ want' = [want EXCEPT ![s] = "off"]
    /\ UNCHANGED <<connecting, disconnecting, holds, client, overtaken>>

(* handleDisconnectRequest: Disconnect the session's host, without asking  *)
(* whether the session has a reference.                                    *)
HandleDisconnect(s) ==
    /\ s \in disconnecting
    /\ Disconnect(Host[s])
    /\ disconnecting' = disconnecting \ {s}
    /\ IF holds[s] > 0
         THEN holds' = [holds EXCEPT ![s] = @ - 1] /\ UNCHANGED overtaken
         ELSE overtaken' = overtaken \cup {Host[s]} /\ UNCHANGED holds
    /\ UNCHANGED <<want, connecting, client>>

Next == \E s \in Sessions :
    \/ RequestConnect(s) \/ RequestDisconnect(s)
    \/ HandleConnect(s) \/ ConnectReturns(s) \/ DialReturns(s) \/ ConnectFails(s)
    \/ HandleDisconnect(s)

Spec == Init /\ [][Next]_vars

-----------------------------------------------------------------------------
TypeOK ==
    /\ ManagerTypeOK
    /\ want \in [Sessions -> {"on", "off"}]
    /\ connecting \subseteq Sessions /\ disconnecting \subseteq Sessions
    /\ holds \in [Sessions -> Nat]
    /\ client \in [Sessions -> Clients \cup {NoClient}]
    /\ overtaken \subseteq HostKeys

(* The users of a host share one open client, the one the next Connect     *)
(* will get, and the count of the host says how many they are - on every   *)
(* host where no two dials or increments overlapped (ssh.go:126, 162) and  *)
(* no disconnect request was handled before the connect it follows         *)
(* (service.go:153).                                                       *)
UsersShareOpenClient ==
    \A k \in HostKeys \ (raced \cup overtaken) :
        /\ refs[k] = Cardinality(References(k))
        /\ \A s \in SessionsOf(k) :
              holds[s] > 0 => client[s] = connections[k] /\ client[s] \in open

(* A client that is open can be reached and so closed: it is in the map,   *)
(* or a Connect is about to put it there - on every host where no two      *)
(* dials or increments overlapped (a lost increment lets a Disconnect      *)
(* close the client early, never lose it, but one history has both), in    *)
(* whatever order requests are handled.                                    *)
OpenIsReachable ==
    \A c \in open :
        \/ dialedFor[c] \in raced
        \/ connections[dialedFor[c]] = c
        \/ \E s \in Sessions : call[s] = Storing(dialedFor[c], c)

(* What the service promises of each host, without calls and counts: see    *)
(* SharedConnections.  Its clients are those that a Connect of the host has *)
(* stored; its users are the references that sessions have.                *)
BroughtIn(k) ==
    {c \in DOMAIN dialedFor :
        /\ dialedFor[c] = k
        /\ \A s \in Sessions : call[s].at = "store" => call[s].client # c}

SharedOn(k) == INSTANCE SharedConnections
                 WITH HostKeys <- {k},
                      client <- [j \in {k} |-> connections[k]],
                      users <- [j \in {k} |-> Cardinality(References(k))],
                      offered <- BroughtIn(k),
                      ended <- BroughtIn(k) \ open

(* Every step of requests, dials and handlers is, on each host, a step of  *)
(* users who share a client that the last of them closes, or is none there *)
(* - until two dials or increments of that host overlap (ssh.go:126, 162), *)
(* or a disconnect of it is handled before its connect (service.go:153).   *)
(* What happens on other hosts does not matter.                            *)
ImplementsShared ==
    /\ \A k \in HostKeys : SharedOn(k)!Init
    /\ [][\A k \in HostKeys \ (raced \cup overtaken') :
            [SharedOn(k)!Next]_(SharedOn(k)!sharedVars)]_vars

(* test/integration/ssh_test.go:133, "Connection pool should reuse the     *)
(* same client": whoever is connected to a host has the same client.       *)
ConnectsReuseClient ==
    \A s, t \in Sessions :
        Host[s] = Host[t] /\ holds[s] > 0 /\ holds[t] > 0 => client[s] = client[t]
=============================================================================
