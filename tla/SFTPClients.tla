---------------------------- MODULE SFTPClients ----------------------------
(***************************************************************************)
(* The client cache of SFTPManager (internal/sftp/sftp.go:23-64, 312-320), *)
(* for one session: every file operation takes the cached client or, when  *)
(* there is none, makes one and caches it.  It looks, makes and stores     *)
(* without a lock in between.  Clients are numbered as they are made.      *)
(***************************************************************************)
EXTENDS Integers

CONSTANTS Actors,     \* goroutines in a file operation
          MaxClients  \* bound: clients made

ASSUME SFTPClientsAssumption == MaxClients \in Nat

VARIABLES cached,   \* m.clients[session], or 0
          made,     \* clients made so far
          open,     \* clients that are open
          client,   \* client[a]: the client a works with, or 0
          creating, \* actors that found no client and have not stored theirs
          doubled   \* history: two actors were creating at once

cacheVars == <<cached, made, open, client, creating, doubled>>

CacheInit ==
    /\ cached = 0 /\ made = 0 /\ open = {}
    /\ client = [a \in Actors |-> 0]
    /\ creating = {} /\ doubled = FALSE

(* Operations begin that have no client yet.                               *)
NoClients ==
    /\ client' = [a \in Actors |-> 0]
    /\ UNCHANGED <<cached, made, open, creating, doubled>>

(* getOrCreateClient: there is a client.                                   *)
CacheHit(a) ==
    /\ cached # 0
    /\ client' = [client EXCEPT ![a] = cached]
    /\ UNCHANGED <<cached, made, open, creating, doubled>>

(* There is none: on to make one.                                          *)
CacheMiss(a) ==
    /\ cached = 0
    /\ creating' = creating \cup {a}
    /\ doubled' = (doubled \/ creating # {})
    /\ UNCHANGED <<cached, made, open, client>>

(* GetSSHClient or sftp.NewClient fails.                                   *)
NewClientFails(a) ==
    /\ creating' = creating \ {a}
    /\ client' = [client EXCEPT ![a] = 0]
    /\ UNCHANGED <<cached, made, open, doubled>>

NewClient(a) ==
    /\ made < MaxClients
    /\ made' = made + 1
    /\ open' = open \cup {made + 1}
    /\ client' = [client EXCEPT ![a] = made + 1]
    /\ UNCHANGED <<cached, creating, doubled>>

(* Cache it, over whatever is cached by now.                               *)
StoreClient(a) ==
    /\ cached' = client[a]
    /\ creating' = creating \ {a}
    /\ UNCHANGED <<made, open, client, doubled>>

\* Forgets the client without closing it.
CloseClientForgets ==
    /\ cached # 0
    /\ cached' = 0
    /\ UNCHANGED <<made, open, client, creating, doubled>>

(* CloseClient, whoever works with the client.                             *)
CloseClient ==
    /\ cached # 0
    /\ open' = open \ {cached}
    /\ cached' = 0
    /\ UNCHANGED <<made, client, creating, doubled>>

(* The connection breaks: its clients are dead, and the cache keeps one.   *)
ConnectionLost ==
    /\ open # {}
    /\ open' = {}
    /\ UNCHANGED <<cached, made, client, creating, doubled>>

-----------------------------------------------------------------------------
CacheTypeOK ==
    /\ made \in Nat
    /\ cached \in 0..made
    /\ open \subseteq 1..made
    /\ client \in [Actors -> 0..made]
    /\ creating \subseteq Actors
    /\ doubled \in BOOLEAN

(* A client that is open can be closed: it is cached, or somebody who has  *)
(* just made it is about to cache it - unless two operations found no      *)
(* client at the same time (sftp.go:41-61), when the second client         *)
(* replaces the first.                                                     *)
OpenIsCached ==
    doubled \/ \A c \in open :
        c = cached \/ \E a \in creating : client[a] = c
=============================================================================
