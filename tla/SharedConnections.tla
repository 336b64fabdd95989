------------------------- MODULE SharedConnections -------------------------
(***************************************************************************)
(* What a pool of shared connections promises, without locks or counts:    *)
(* the users of a host share one client; it is there while somebody uses   *)
(* it, and is closed, at once, when the last user leaves.                  *)
(*                                                                         *)
(* RemoteProofs shows that SSHConnectionPool implements this as long as    *)
(* no two increments of a key overlap, SSHServiceProofs that the SSH       *)
(* service does, host by host, while a host's calls do not race.           *)
(***************************************************************************)
EXTENDS Integers

CONSTANTS HostKeys, Clients, NoClient

VARIABLES client,  \* the client the users of a host share
          users,   \* how many there are
          offered, \* clients that were ever brought in
          ended    \* clients that were closed

sharedVars == <<client, users, offered, ended>>

Init ==
    /\ client = [k \in HostKeys |-> NoClient]
    /\ users = [k \in HostKeys |-> 0]
    /\ offered = {} /\ ended = {}

\* Somebody joins the users of a client that is there.
Join(k) ==
    /\ users[k] > 0
    /\ users' = [users EXCEPT ![k] = @ + 1]
    /\ UNCHANGED <<client, offered, ended>>

\* Somebody brings a new client: the first is shared, a later one is not used.
Offer(k, c) ==
    /\ c \notin offered
    /\ offered' = offered \cup {c}
    /\ client' = IF users[k] = 0 THEN [client EXCEPT ![k] = c] ELSE client
    /\ users' = [users EXCEPT ![k] = @ + 1]
    /\ UNCHANGED ended

\* A user leaves; the last one closes the client.
Leave(k) ==
    /\ users[k] > 0
    /\ users' = [users EXCEPT ![k] = @ - 1]
    /\ IF users[k] = 1
         THEN /\ client' = [client EXCEPT ![k] = NoClient]
              /\ ended' = ended \cup {client[k]}
         ELSE UNCHANGED <<client, ended>>
    /\ UNCHANGED offered

Next == \E k \in HostKeys : Join(k) \/ Leave(k) \/ \E c \in Clients : Offer(k, c)

Spec == Init /\ [][Next]_sharedVars
=============================================================================
