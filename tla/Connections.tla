---------------------------- MODULE Connections ----------------------------
(***************************************************************************)
(* What the tunnels do with an accepted connection: handleLocalForward and *)
(* handleSOCKS (internal/tunnel/tunnel.go), handleSOCKS5 with its access   *)
(* checks (internal/tunnel/socks.go), and the two relays.                  *)
(*                                                                         *)
(* A handler talks with a peer, dials a target and copies both ways in two *)
(* goroutines, each of which reads one socket and writes the other, and    *)
(* waits in either: a write waits for an other end that does not read.     *)
(* The forwards' handlers end with the first of the two, and close both    *)
(* sockets, which ends the second; the SOCKS5 handler waits for both.      *)
(* It also looks its tunnel up under the manager's read lock, and   *)
(* takes the read lock once more inside: Go's RWMutex lets no reader in    *)
(* while a writer waits.                                                   *)
(***************************************************************************)
EXTENDS Naturals, FiniteSets

CONSTANTS Conns                 \* accepted connections

VARIABLES
  kind,                         \* the type of the connection's tunnel, and "login" for
                                \* a SOCKS5 one whose config has a name and a password
  step,                         \* step[c]: where c's handler is
  peer,                         \* the accepted socket: its other end is open
  target,                       \* the dialled socket: "none", or its other end
  pumps,                        \* the copying goroutines that still run: "out" from
                                \* the peer to the target, "in" the other way
  writing,                      \* those of them that write what they have read
  readers,                      \* read locks that c's handler holds
  writer                        \* a StartTunnel, StopTunnel or CreateTunnel at m.mu

connVars == <<kind, step, peer, target, pumps, writing, readers, writer>>

Kinds == {"forward", "socks", "socks5", "login"}
Ways == {"out", "in"}
IsSOCKS5(c) == kind[c] \in {"socks5", "login"}
Steps5 == {"auth", "lookup", "nested", "unlock"}

ConnTypeOK ==
  /\ kind \in [Conns -> Kinds]
  /\ step \in [Conns -> {"none", "hello", "request", "dial", "relay", "done"} \cup Steps5]
  /\ peer \in [Conns -> {"open", "closed"}]
  /\ target \in [Conns -> {"none", "open", "closed"}]
  /\ pumps \in [Conns -> SUBSET Ways] /\ writing \in [Conns -> SUBSET Ways]
  /\ readers \in [Conns -> 0 .. 2]
  /\ writer \in {"none", "waiting", "inside"}
  /\ \A c \in Conns : step[c] \in Steps5 => IsSOCKS5(c)

ConnInit ==
  /\ kind \in [Conns -> Kinds]
  /\ step = [c \in Conns |-> "none"]
  /\ peer = [c \in Conns |-> "open"]
  /\ target = [c \in Conns |-> "none"]
  /\ pumps = [c \in Conns |-> {}] /\ writing = [c \in Conns |-> {}]
  /\ readers = [c \in Conns |-> 0]
  /\ writer = "none"

At(c, here, next) ==
  /\ step[c] = here
  /\ step' = [step EXCEPT ![c] = next]

-----------------------------------------------------------------------------
\* The other ends, which may close at any time, both directions at once.
PeerCloses(c) ==
  /\ step[c] # "none" /\ peer[c] = "open"
  /\ peer' = [peer EXCEPT ![c] = "closed"]
  /\ UNCHANGED <<kind, step, target, pumps, writing, readers, writer>>

TargetCloses(c) ==
  /\ target[c] = "open"
  /\ target' = [target EXCEPT ![c] = "closed"]
  /\ UNCHANGED <<kind, step, peer, pumps, writing, readers, writer>>

\* A writer of the tunnel table: it waits, with new readers held off, for the
\* readers inside.
WriterComes ==
  /\ writer = "none" /\ writer' = "waiting"
  /\ UNCHANGED <<kind, step, peer, target, pumps, writing, readers>>

WriterEnters ==
  /\ writer = "waiting" /\ \A c \in Conns : readers[c] = 0
  /\ writer' = "inside"
  /\ UNCHANGED <<kind, step, peer, target, pumps, writing, readers>>

WriterLeaves ==
  /\ writer = "inside" /\ writer' = "none"
  /\ UNCHANGED <<kind, step, peer, target, pumps, writing, readers>>

-----------------------------------------------------------------------------
\* The accept loop starts the handler.
Accepted(c) ==
  /\ At(c, "none", IF kind[c] = "forward" THEN "dial" ELSE "hello")
  /\ UNCHANGED <<kind, peer, target, pumps, writing, readers, writer>>

\* handleSOCKS: it answers any greeting of version 5 with "no password", and
\* dials an address it takes from the request (by the command's byte, not by
\* that of the address type: tunnel.go:274).
GreetSOCKS(c) ==
  /\ kind[c] = "socks" /\ At(c, "hello", "request")
  /\ UNCHANGED <<kind, peer, target, pumps, writing, readers, writer>>

ParseSOCKS(c) ==
  /\ kind[c] = "socks" /\ At(c, "request", "dial")
  /\ UNCHANGED <<kind, peer, target, pumps, writing, readers, writer>>

\* handleSOCKS5: the password method if it has a name to compare and the peer
\* offers the method, else none.
Hello(c) ==
  /\ IsSOCKS5(c)
  /\ At(c, "hello", "request") \/ (kind[c] = "login" /\ At(c, "hello", "auth"))
  /\ UNCHANGED <<kind, peer, target, pumps, writing, readers, writer>>

Authenticated(c) ==
  /\ At(c, "auth", "request")
  /\ UNCHANGED <<kind, peer, target, pumps, writing, readers, writer>>

\* A CONNECT with an address that parses and that the rules allow.
Request(c) ==
  /\ IsSOCKS5(c) /\ At(c, "request", "lookup")
  /\ UNCHANGED <<kind, peer, target, pumps, writing, readers, writer>>

\* Anything else: another version, a wrong password, an address that does not
\* parse or is denied, and a peer that has closed.  The handler returns.
Refuse(c) ==
  /\ step[c] \in {"hello", "auth", "request"}
  /\ step' = [step EXCEPT ![c] = "done"]
  /\ UNCHANGED <<kind, peer, target, pumps, writing, readers, writer>>

\* m.mu.RLock, then findTunnelByConn with a second one, which picks any
\* tunnel that listens.
LookUp(c) ==
  /\ At(c, "lookup", "nested") /\ writer = "none"
  /\ readers' = [readers EXCEPT ![c] = 1]
  /\ UNCHANGED <<kind, peer, target, pumps, writing, writer>>

FindTunnelByConn(c) ==
  /\ At(c, "nested", "unlock") /\ writer = "none"
  /\ readers' = [readers EXCEPT ![c] = 2]
  /\ UNCHANGED <<kind, peer, target, pumps, writing, writer>>

RUnlock(c) ==
  /\ At(c, "unlock", "dial")
  /\ readers' = [readers EXCEPT ![c] = 0]
  /\ UNCHANGED <<kind, peer, target, pumps, writing, writer>>

\* Through the tunnel's SSH client, or from this host when RemoteDNS is off.
Dial(c) ==
  /\ At(c, "dial", "relay")
  /\ target' = [target EXCEPT ![c] = "open"]
  /\ pumps' = [pumps EXCEPT ![c] = Ways]
  /\ UNCHANGED <<kind, peer, writing, readers, writer>>

DialRefused(c) ==
  /\ At(c, "dial", "done")
  /\ UNCHANGED <<kind, peer, target, pumps, writing, readers, writer>>

\* A goroutine's sockets are no more: the handler has returned and closed
\* this end, or the other end has closed.
SourceOver(c, way) ==
  step[c] = "done" \/ (IF way = "out" THEN peer[c] ELSE target[c]) = "closed"
SinkOver(c, way) ==
  step[c] = "done" \/ (IF way = "out" THEN target[c] ELSE peer[c]) = "closed"

\* Read gives something, from an end that has closed what it sent before.
PumpReads(c, way) ==
  /\ step[c] # "done" /\ way \in pumps[c] \ writing[c]
  /\ writing' = [writing EXCEPT ![c] = @ \cup {way}]
  /\ UNCHANGED <<kind, step, peer, target, pumps, readers, writer>>

\* Write returns: the other end has read, or there is none and the write
\* fails.  Nobody looks at its error.
PumpWrites(c, way) ==
  /\ way \in writing[c]
  /\ writing' = [writing EXCEPT ![c] = @ \ {way}]
  /\ UNCHANGED <<kind, step, peer, target, pumps, readers, writer>>

\* Read has an error, and the goroutine ends.
PumpEnds(c, way) ==
  /\ way \in pumps[c] \ writing[c] /\ SourceOver(c, way)
  /\ pumps' = [pumps EXCEPT ![c] = @ \ {way}]
  /\ UNCHANGED <<kind, step, peer, target, writing, readers, writer>>

\* A bug: the forwards wait for both directions too.
RelayReturnsLast(c) ==
  /\ kind[c] = "forward" /\ At(c, "relay", "done")
  /\ pumps[c] = {}
  /\ UNCHANGED <<kind, peer, target, pumps, writing, readers, writer>>

\* The deferred calls close both sockets: after <-done, for the first of the
\* two directions, in the forwards and in handleSOCKS, ...
RelayReturns(c) ==
  /\ kind[c] = "forward" /\ At(c, "relay", "done")
  /\ pumps[c] # Ways
  /\ UNCHANGED <<kind, peer, target, pumps, writing, readers, writer>>

SOCKSReturns(c) ==
  /\ kind[c] = "socks" /\ At(c, "relay", "done")
  /\ pumps[c] # Ways
  /\ UNCHANGED <<kind, peer, target, pumps, writing, readers, writer>>

\* ... and after wg.Wait, for both, in transferSOCKSData.
SOCKS5Returns(c) ==
  /\ IsSOCKS5(c) /\ At(c, "relay", "done")
  /\ pumps[c] = {}
  /\ UNCHANGED <<kind, peer, target, pumps, writing, readers, writer>>

HandlerReturns(c) == RelayReturns(c) \/ SOCKSReturns(c) \/ SOCKS5Returns(c)

ConnNext ==
  \/ WriterComes \/ WriterEnters \/ WriterLeaves
  \/ \E c \in Conns :
       \/ PeerCloses(c) \/ TargetCloses(c)
       \/ Accepted(c) \/ GreetSOCKS(c) \/ ParseSOCKS(c)
       \/ Hello(c) \/ Authenticated(c) \/ Request(c) \/ Refuse(c)
       \/ LookUp(c) \/ FindTunnelByConn(c) \/ RUnlock(c)
       \/ Dial(c) \/ DialRefused(c) \/ HandlerReturns(c)
       \/ \E way \in Ways : PumpReads(c, way) \/ PumpWrites(c, way) \/ PumpEnds(c, way)

ConnSpec == ConnInit /\ [][ConnNext]_connVars

\* Goroutines go on when they can, the lock is given to who waits for it, a
\* dial ends one way or the other, a write to a closed socket returns, and so
\* does, when what was sent before has been read, a read from one.  Nobody
\* has to send, to read, to close or to accept.
ConnFairness ==
  /\ WF_connVars(WriterEnters \/ WriterLeaves)
  /\ \A c \in Conns :
       /\ SF_connVars(LookUp(c) \/ FindTunnelByConn(c))
       /\ WF_connVars(RUnlock(c) \/ Dial(c) \/ DialRefused(c) \/ HandlerReturns(c)
                        \/ (peer[c] = "closed" /\ Refuse(c)))
       /\ WF_connVars(\E way \in Ways : SinkOver(c, way) /\ PumpWrites(c, way))
       /\ SF_connVars(\E way \in Ways : PumpEnds(c, way))

-----------------------------------------------------------------------------
\* A reader waits for the writer that waits for it.
Wedged == writer = "waiting" /\ \E c \in Conns : step[c] = "nested"

Ended(c) == step[c] = "done" /\ pumps[c] = {}

\* The target holds the handler up: it has not closed and, unless the relay
\* waits for it to close, does not read what the peer has sent.
HeldUp(c) ==
  step[c] = "relay" /\ target[c] = "open" /\ (IsSOCKS5(c) \/ "out" \in writing[c])

\* A step of c's handler or of its copying goroutines is possible, although
\* nobody sends or reads, and nobody closes anything more.
HandlerCanGoOn(c) ==
  \/ step[c] \in {"hello", "auth", "request"} /\ peer[c] = "closed"
  \/ step[c] \in {"lookup", "nested"} /\ writer = "none"
  \/ step[c] \in {"unlock", "dial"}
  \/ step[c] = "relay" /\ IF IsSOCKS5(c) THEN pumps[c] = {} ELSE pumps[c] # Ways
  \/ \E way \in pumps[c] : IF way \in writing[c] THEN SinkOver(c, way) ELSE SourceOver(c, way)

WriterCanGoOn ==
  \/ writer = "inside"
  \/ writer = "waiting" /\ \A c \in Conns : readers[c] = 0

\* The handler of a closed connection, or who it waits for, can go on, unless
\* it is held up in one of the places that HandlersEnd excuses.
HandlersNeverStuck ==
  \A c \in Conns :
    (step[c] # "none" /\ peer[c] = "closed" /\ ~Ended(c)) =>
      \/ HandlerCanGoOn(c) \/ WriterCanGoOn \/ \E d \in Conns : step[d] = "unlock"
      \/ Wedged \/ HeldUp(c)

(***************************************************************************)
(* A connection whose peer has closed ends: its handler returns and both   *)
(* copying goroutines with it, from wherever it was.  What can keep it is  *)
(* a target that holds it up for ever - one that does not close while the  *)
(* SOCKS5 relay waits for it (socks.go:316), or that does not read while   *)
(* the goroutine that has the peer's last bytes waits to write them        *)
(* (tunnel.go:164) - or a writer that came between the two read locks of   *)
(* the SOCKS5 handler (socks.go:158 and 273), which stops the whole table. *)
(***************************************************************************)
HandlersEnd ==
  \A c \in Conns :
    <>[](step[c] # "none" /\ peer[c] = "closed" /\ ~Ended(c) /\ ~Wedged) => <>[]HeldUp(c)
=============================================================================
