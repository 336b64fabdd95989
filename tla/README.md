# termbus: TLA+ verification project

termbus is a terminal workbench in Go: it keeps SSH sessions, shares their
connections, forwards ports, moves files, runs and schedules commands on hosts,
loads plugins and drives an LLM agent. This directory has TLA+ models of its
concurrent parts, the TLC configurations that check them on small instances, and
proofs, checked by TLAPS, that the main invariants hold for every instance.

Each module is translated from the Go code at the lines `PROJECT.json` ("map")
names. Run everything from this directory:

    tlc -config MCSessionStore.cfg MCSessions.tla     # model-check one configuration
    tlapm SessionsProofs.tla                          # check the proofs of one module

## 1. Inventory of the system

| Component (source) | State | Operations | What is hard | What makes it correct |
|---|---|---|---|---|
| **Connection pool** (`internal/session/session.go:297-356`) | `connections`, `refs`, a RWMutex | Get, Set, Release | `refs[key]++` under the *read* lock | a count is the references out; a pooled client is open |
| **Session manager** (`session.go:22-295, 358-403`) | `sessions`, each session's `State`, `ErrorMsg`, `activeSessionID` | Create, Connect, Disconnect, Delete, GetSSHClient, Load/SaveAll | unlocked reads of `State`; a save started in a goroutine; the reconnect worker writes `State` without the lock | a connected session has an open pooled connection; a registered one survives a crash; deleted ones stay deleted; calls return |
| **Session store** (`session/store.go`) | one JSON file per session, a RWMutex | Save, Load, Delete, List, SaveAll, LoadAll, Clean | in-place writes; `LoadAll` takes the read lock three times, one inside the other | a file is whole, or its save is under way or has failed; calls return |
| **SSH manager** (`internal/ssh/ssh.go`) | `connections`, `refs` | Connect (check, dial, store), Disconnect, keepalive | two dials of the same host; its client is shared with the pool | an open client is reachable by its users and closed with the last |
| **SSH service** (`ssh/service.go`) | worker, subscriptions | connect/disconnect requests, reconnect tick, Stop | events without a subscriber; the worker races with the user | what the worker writes never shows a session connected that has no open connection |
| **Event bus** (`internal/eventbus`) | handlers per event | Subscribe, Unsubscribe, Publish | a goroutine per handler; the handler slice is edited in place while a Publish reads it | a Publish starts what was subscribed when it began, once each |
| **Tunnels** (`internal/tunnel/tunnel.go`) | `tunnels`, each with status, listener, context | Create, Start, Stop, Delete, Close, accept loops | two lock regions in Start; accept loops and forwarders outlive their tunnel | a stopped or deleted tunnel does not listen; nothing waits for ever in Close |
| **Connections and monitor** (`tunnel/socks.go, monitor.go, port.go`, the handlers of `tunnel.go`) | per connection: two sockets, two copying goroutines; the monitor's records and goroutines | greeting, login, request, dial, relay (reads and writes that block); StartMonitor, StopMonitor | a read lock taken inside itself, relays half closed, a stop and start within a tick | a handler ends when its peer has closed; a goroutine ends with its record |
| **SFTP manager** (`internal/sftp/sftp.go`) | client cache per session | file operations | check-then-create of the cached client; a cached client of a dead connection | one client per session |
| **Chunked transfer** (`sftp/chunk.go`), **resume** (`resume.go`), **sync** (`sync.go`) | chunk files, progress records | split, parallel transfer, merge; resume; one- and two-way sync | failures that are only logged; stale chunk files; two saves that reorder | success means the file is the source's; a record says what was reported last; no older edit takes a newer one's place |
| **Command tools** (`internal/command`) | registry, aliases, groups, history, batches, scheduled tasks | run, batch, schedule, record | bounded parallelism; two run loops after stop and start; ids after a reload | at most `Parallel` at once and every host once; a due task runs once |
| **Agent** (`internal/agent`) | per agent: `State`, `Context.History`; the runtime's table; rules of sandbox and risk assessor | Process, ExecutePlan, Stop, Delete; plan, execute, verify; add and remove rules | the runtime's lock guards the table only: calls work on the agent as they find it; plans are what a language model answers | with no call under way the agent is at rest and its history is the conversation; what a plan reports is what its tools did; a blocking rule blocks |
| **Plugins** (`internal/plugin`) | the runtime's table of records, clients (processes), store and its file, binaries; decisions and permissions | install, load, start, execute, stop, update, uninstall; request, answer, revoke | records are not locked; a client is made twice; an answer names no request; a revocation publishes the event it handles | an uninstall leaves no process, record, entry or file; no permission but those agreed to or granted in the table |
| **Security** (`internal/security`, `config/secure_config.go`) | a ring's entries and salt, one file | open, Set, Get, Delete, Clear | entries of several passwords and salts in one file, written whole by rings that have not read each other's | a stored secret is read with its password and with no other |
| **Configuration, logger** (`internal/config/config.go`, `logger`) | library objects | load, log | library I/O | (not modelled) |
| **TUI, SDK, RPC types, examples, main** (`tui`, `plugin-sdk`, `pkg`, `plugins`, `cmd`, `examples`) | views | rendering, wiring | sequential UI code, wiring | (not modelled) |

**How they interact.** Sessions and SFTP take connections from the pool and the
session manager; the SSH manager dials them and, in the end-to-end tests, its
clients are given to the pool with `SetConnection`. The event bus carries
`session.*`, `tunnel.*` and `plugin.*` events; every handler runs in its own
goroutine. The reconnect worker holds `*types.Session` pointers and writes them
directly. Tunnels take a client from a session. `cmd/termbus/main.go` wires the
managers but starts neither the SSH service nor `LoadSessions`; tests and
examples do.

## 2. The plan

The order is by what would hurt most if it were wrong: connections that sessions
share, then everything that borrows them, then the tables and helpers around.

| Stage | Modules | State of the work |
|---|---|---|
| 1 | `ConnectionPool`, `PoolClients`; abstract: `SharedConnections` | modelled, checked, proved, refinement proved |
| 1 | `Sessions` (manager, store, reconnect worker, restarts) | modelled, checked, safety proved |
| 1 | `Tunnels` | modelled, checked, safety proved |
| 1 | `SSHManager`, `SSHService` | modelled, checked, safety proved, refinement proved |
| 1 | `Batch`, abstract: `BoundedJobs`; `Scheduler`; composed in `Commands` | modelled, checked, safety proved, refinement proved |
| 1 | `SFTPClients`, `ChunkTransfer` | modelled, checked, safety proved, refinement proved |
| 1 | `CommandRegistry`, `History`, `Groups` | modelled, checked, proved |
| 2 | `Connections`, `TrafficMonitor`, composed in `TunnelTraffic` | modelled, checked for termination; that handlers are never stuck is proved |
| 2 | `EventBus`; `Authorizer`, `Plugins` | modelled, checked, proved |
| 2 | `Agents` | modelled, checked, proved |
| 2 | `Guards` | modelled, checked, proved |
| 2 | `Sync`, `Resume` | modelled, checked, proved |
| 2 | `Keyring` | modelled, checked, proved |
| 2 | `Tools`: the tables of stage 1, the bus, plugins, agent and guards, composed | checked; the proofs of its parts are about its specification |
| 2 | `Remote`: the pool's callers, `Sync`, `Resume`, `Keyring`, composed | checked; a behaviour of it is one of each part (`RemoteParts`), which the proofs are about |

Of the plan one thing was not done: an abstract specification of the session store
as a file per session, which the code meets only outside failed and crossing saves,
so that `RegisteredIsOnDisk` says what there is to say. The type invariants of the
parts of `Tools` and `Remote` are among the lemmas of their proofs.

How the modules hang together:

    ConnectionPool <- PoolClients            (callers that keep the contract)
                   <- Sessions               (the real callers)
    PoolClients    implements SharedConnections
    SSHManager     <- SSHService             (requests as events)
    SSHService     implements SharedConnections, host by host
    Batch          implements BoundedJobs
    Batch, Scheduler <- Commands
    SFTPClients    <- ChunkTransfer
    ChunkTransfer  implements BoundedJobs, between its loop and its merge
    Connections, TrafficMonitor <- TunnelTraffic
    CommandRegistry, History, Groups, EventBus, Authorizer, Plugins,
      Agents, Guards <- Tools
    PoolClients, Sync, Resume, Keyring <- Remote

Proofs of `M` are in `MProofs` (`ConnectionPoolProofs` are lemmas that both
`RemoteProofs` and `SessionsProofs` extend), but for these: `CommandProofs` is
about `Batch` and `Scheduler`, `TransferProofs` about `ChunkTransfer`,
`TunnelsProofs` about `Tunnels` and `Connections`, `ToolsProofs` about every
part of `Tools`, and `RemoteProofs` about every part of `Remote`.

A module to the left of an arrow holds a component's state and operations, the
one to the right extends it with whoever calls it. `MC*` modules only give
symmetry sets and constant values to a configuration; where a module needs
none, its configuration names it directly. Operators whose comment calls them a
bug, or says what they forget, drop or keep (`ReleaseEarly`, `VerifyStays`, ...),
are faulty variants of a definition near them: no specification uses them, they
are what the properties are tried against.

`Tools`, `Remote`, `Commands` and `TunnelTraffic` compose parts that share neither
state nor a lock. A constant of each behaviour, `focus` or `part`, picks the part
that moves, so a run's states are the sum of the parts' and not their product. What is said of one part
mentions the state of that part only, so it holds when the others move too.

## 3. The modules and the code

**`ConnectionPool` / `PoolClients`.** The two maps are total functions, an absent
entry being `NoClient` or 0. `SetConnection` and `ReleaseConnection` hold the
write lock throughout and are one step. `GetConnection` increments under the
read lock, so it is `GetLoad` (read the count) and `GetStore` (write it), and
several callers may be between the two. `raced` is a history variable: the hosts
on which two increments have overlapped. `PoolClients` adds callers who release
only what they hold.

**`Sessions`.** A call of a goroutine `p` is `op[p]`, its session `arg[p]`, the
statement it has reached `pc[p]`; `mu` and `storeMu` are the locks of the manager
and the store, so the nesting of ConnectSession (m.mu, pool, store) is in the
model. What the code does without `m.mu` is without it here: the worker's `State
= reconnecting`, the state checks of DeleteSession and GetSSHClient, the save
that CreateSession starts in a goroutine (`saving`). `file` is what is on disk,
`torn` between the truncation and the end of a write, and removing it may fail; `Restart`
ends the program in any state and loads what it finds. `HasStore` says whether the
manager has a store, `HasWorker` whether the reconnect worker runs: in a process
either may be missing. `restored` and `stolen` are history: the
sessions loaded as connected, and the hosts whose reference such a session gave
back.

**`SSHManager` / `SSHService`.** Connect is the look (`ConnectHit`,
`ConnectMiss`), the dial without the lock, and the store; the increment of a hit
under the read lock is two steps. In the service every request is an event whose
handler may run at any later time. `raced` and `overtaken` are history. To
`SharedConnections` a host looks like this: its client is the one in the map, its
users are the references its sessions hold (`References`), it has been brought
the clients that a Connect has stored (`BroughtIn`), and those of them that are
not open have ended. Hosts are looked at one by one (`SharedOn`), as a race on one
spoils nothing on the others.

**`Tunnels`.** Each unlocked assignment of `listener`, `ctx` and `Status` in the
three kinds of start is a step; a start that gets its listener is a numbered
run, with an accept loop that reads `t.ctx` afresh at every turn, as the code
does. `overlapped` is history: tunnels on which two calls overlapped.

**`Batch`.** The caller's loop (`Launch`), the goroutines (`Lookup`,
`RunCommand`, `Release`, `Done`), the wait (`Return`).

**`Scheduler`.** A loop per Start; a tick is a message in a channel with room for
one; time is the action `BecomesDue`. A loop that ranges over the map while Add
or Remove writes it may end the process (`crashed`): Go permits either outcome. A
save marshals and then writes, and the write may be refused or cut short, with the
change kept in memory (`Written`); two writes at once may leave a file that is
neither. `crossed` and `failed` are history: saves have been under way together
since one last began alone, and the last write failed.

**`Commands`.** The scheduler calls the executor and waits; the only thing that
comes back is the return, so the two are put beside each other.

**`SFTPClients` / `ChunkTransfer`.** One session and one pair of files, call after
call. Actor 0 is the caller, 1, 2, ... the chunk goroutines; a place of an actor
is a statement. Of contents only the writing call and the length are kept.
To `BoundedJobs` the chunks that run are those whose goroutine has a slot
(`InSlot`), the finished ones those whose goroutine has ended (`Ended`), and the
phase is over when the caller goes on to the merge; every call starts it afresh.
`hidden` is history: the failures the code swallows, which excuse `OkIsWhole`;
`doubled`: two clients were made at once.

**`CommandRegistry`, `History`, `Groups`.** Every operation holds its lock to the
end, write of the file included, and is one step; the write has three outcomes
(done, not begun, cut short). `Timestamp` is the number of the addition, `behind`
is history.

**`Connections`.** One handler per accepted connection: `step` is the statement it
is at, from the greeting over the request and the dial to the relay. `peer` and
`target` are the two sockets, each with whether its other end is open; `pumps` the two
copying goroutines, `writing` those inside `Write`, which returns when the other end
reads or has closed. A forward's handler ends with the first pump and closes both
sockets, the SOCKS5 one waits for both pumps and closes nothing before. `readers`
counts the read locks a handler holds, `writer` is a call that waits for the
write lock or has it: Go lets no reader in past a waiting writer. What was
greeted, asked and answered is one of the outcomes the code tells apart. Assumed of
the other ends: a dial is answered; what the handler itself sends (a few bytes of
greeting and reply) fits the socket's buffer; and an end closes both directions at
once (half a TCP shutdown would look like a silent, open end).

**`TrafficMonitor`.** A goroutine per StartMonitor, which looks its record up by
the tunnel's name at every tick; the channel has its capacity, and a send that
finds it full is dropped (`monitor.go`).

**`EventBus`.** A Go slice is a backing array and a length: append writes behind
the end while there is room and makes a new array otherwise, a removal moves the
later handlers down in place. Publish takes the slice under the lock and reads a
slot a step outside it.

**`Authorizer`.** A request, its answer, the grant, the revocation and the store's
two halves (marshal, write) are steps of threads, as the bus runs every handler
in a goroutine of its own. The dialog is external: no code in `src/` answers as
it should, so any answer may come at any time. The table's own Grant, Request
(which asks nobody, as `test/e2e/plugin_test.go` expects) and Revoke are actions of
whoever calls them; `allowed` and `overtaken` are history.

**`Plugins`.** One plugin's path through manager, runtime, installer and store.
The records are shared by pointer: Start, Stop and Execute check and use the
client of a record in separate steps. A client is "fresh" until Execute first
connects it, which starts its process. `raced` and `lost` are history.

**`Agents`.** `use[c]` is the call of a goroutine: where it is, what it has read
of the history, its plan and what has run of it. A plan is any sequence of
steps with any IDs and dependencies, as a language model may answer. Stop
and Delete touch the state and the table and leave the calls be.
`spoken` and `overlapped` are history.

**`Guards`.** A command is what the guards see of it: the patterns it matches and
how many keywords of each risk rule it contains. Rules are appended and the first of an
ID is cut out; the first rule that blocks or warns decides. The default rules, levels and
scores are those of the code.

**`Sync`.** Each caller has a call of its own, and nothing locks: an upload and a
download of the same directories may run beside each other. The call's two looks
(`seenLocal`, `seenRemote`) are taken before its copies and deletions, which are a
goroutine each, `Parallel` at a time; edits by users, copies that fail and leave half
a file dated now, scans cut short and passing seconds come in between. A copy opens
its source and truncates its target in `StartCopy`, so that of two opposite copies
each may have read what the other has just cut (`opened`). A listing has a
subdirectory as a file (`Folder`), as the code does not look at `IsDir`, and nothing
below it (`Nested`). `newest` is history, `excused` the files whose last edit the code
may drop: what was edited while a call was copying or deleting it or had decided to
copy onto it, whose target changed between look and decision, what the caller asked
to delete or to compare by other things than time, and what an upload copies onto
unseen in a subdirectory. Copies that fail are not excused: that they may end with
both sides cut short is part of the property.

**`Resume`.** A record is entered under the lock, its file written outside it, and
progress set without either: each is a step, and a write may fail before or after it
has truncated the file. UpdateProgress takes any number; `reported` is the last one
asked for, and the property relates table and file to it. Where the bytes of a resumed
transfer land is not modelled: from an offset other than 0 the code writes the remote
file from its start, or reads it from its start (`sftp.go:353`, 395), which one
transfer on its own shows. `RestartResume` ends the program between any two steps.

**`Keyring`.** A secret under a key made of password and salt is the pair of both,
and opens with no other key. Every opening draws a fresh salt, an entry keeps the
salt it was stored with; a save writes one ring's table over the file.

## 4. What the runs check

| Run | Bounds | What it shows |
|---|---|---|
| `remote` | 2 hosts, 3 clients, 3 goroutines, 3 references a host; 2 synchronising callers, 3 paths, 2 seconds, 2 edits, 2 calls, one copy at a time a call; 2 callers, 2 parts, 2 records, 1 restart; 2 rings, 2 passwords, 2 openings | `PoolConsistent`: what the pool hands out is open. `NeverOvercounts`: a lost increment never keeps a connection open. `ExactUnlessRaced`: the race is the only miscount. `ImplementsShared`. `NewestSurvives`, `RecordIsCurrent`, `SecretsReadable`. |
| `session_store` | 2 sessions of a host, 2 goroutines, 1 client, at most 2 references, no worker, 1 restart | `RegisteredIsOnDisk` and `ConnectedIsPooled` with saves, failed saves and removals and a crash between any two steps: a session loaded as connected beside one that connects. |
| `session_pool` | 2 sessions of a host, 2 goroutines, 2 clients, 4 references, the worker, no store | `ConnectedIsPooled` where it is hard: the worker writes a state between any two steps, and two sessions and whoever provided the client hold references at once. The store touches neither the states nor the pool, so that it is left to the run above. |
| `session_calls` | 1 session, 2 goroutines, the worker | `CallsReturn`: the nested locks never leave a call waiting. `CallsNeverStuck`: whatever is under way, somebody can go on. |
| `session_delete` | 1 session, 1 goroutine, 1 restart | finding: a deleted session comes back. The save of CreateSession runs after the delete has removed the file and the next start loads it; `test/integration/session_test.go` expects it gone. |
| `tunnels` | 1 tunnel of any kind, 2 goroutines, 2 runs | `ListensIffRunning` (unless two calls overlapped), `LoopsEnd`, `CloseEndsAll`. Calls on different tunnels share only the lock, so one tunnel and two callers are every conflict. |
| `ssh_service` | 3 sessions of a host, 3 clients | `UsersShareOpenClient`, `OpenIsReachable` up to races the history names, `ImplementsShared`. |
| `ssh_reuse` | 2 sessions, 2 clients | finding: two simultaneous connects of a host get different clients, where `test/integration/ssh_test.go` says the pool should reuse one. |
| `commands` | 5 sessions, 2 places; 1 task, 2 starts | `ImplementsJobs`, `BatchReturns`: more sessions than twice the places, so places are reused. `OneRunPerDue` (unless a second start overlapped), `DiskIsCurrent` (unless saves crossed or failed), `DueTaskRuns`. Two loops is what one stop and start can leave. |
| `transfers` | 2 chunks, 0 to 2 at a time, 2 calls, 2 clients | `OkIsWhole`: success is the whole file of this call, also with leftovers of the last. `OpenIsCached`, `DownloadSharesClient`, `ImplementsJobs`, `TransferReturns`. The second call is what leftovers need. |
| `connections` | 2 connections of any kind, 2 calls of StartMonitor, a channel of 2 | `HandlersEnd`: a connection whose peer has closed ends, unless its target stays open and holds it up - by not closing in the SOCKS5 relay, by not reading elsewhere - or the nested read lock does. `WatchersEnd`. Two connections are one in the nested lock and one that goes on; two watchers both fall between two ticks. |
| `tools` | 3 names; 2 sessions, lists of 2, 5 entries; 2 groups, 2 hosts; 2 handlers, 3 arrays; 2 permissions, 2 requests, 1 restart; 2 records and 2 clients of a plugin; 2 clients and plans of 2 steps of an agent; 2 added rules | `NamesResolve`, `IDsIdentify`, `GlobalShowsRecent`, `GroupsSaved`, `DeliveredOnce`, `OnlyAllowed`, `UninstallLeavesNothing`, `AgentsSettle`, `ResultsAreTrue`, `GuardsHold`. |

In `tools` three names let a third command take an alias another has taken; five
entries fill lists twice over; an array with room and one without are made by
two handlers and three arrays; a second request is the one that overtakes; the
second record or client is the one that replaces; two steps of one ID with a
dependency are the least plan in which a result could be overwritten.

In `remote` three goroutines are two overlapping increments and a release that
waits; the three paths are a file, a file in a subdirectory and that subdirectory;
two edits with a second between them are the least in which the older could win, and
two calls an upload and a download beside each other; two callers of the resume
manager are a save that passes another; the second opening draws the second salt.

Bounds are constants with the comment "bound:"; they limit how often users act
(references, starts, calls, entries, restarts), never what the program does with
what it has begun.

**Where a property has an exception.** Several invariants hold only outside a
race that the code has: the history variable of the race is part of the
invariant, so that the run says *exactly* where the guarantee ends (two
increments at once under a read lock, two dials at once, a disconnect handled
before its connect, two SFTP clients made at once, two overlapping calls on a
tunnel, a second Start while a loop is busy, saves that cross, a write that failed).
What happens inside the race is then a hazard that the run does not catch;
`PROJECT.json` ("hazards") says so at each. They are not findings, as no
document of the repository promises otherwise; the two violation runs are.

**Deadlock.** Runs with bounded clients, starts or calls switch the deadlock
check off: when the bound is used up the model stops and the program does not.
That nobody waits for ever is said by `CallsReturn`, `CloseEndsAll`,
`BatchReturns`, `DueTaskRuns`, `TransferReturns`, `HandlersEnd` and `WatchersEnd`
instead, and for every instance by the theorems of section 6 that nothing is stuck.

## 5. Fairness

Goroutines that can run are run by Go's scheduler: weak fairness of each
goroutine's steps where nothing can disable them, strong fairness where a step
waits for a mutex or a channel that others keep taking, because `sync.Mutex`,
`sync.RWMutex` and channels hand over to waiters in turn. The ticker of a
running scheduler ticks. Nothing is assumed of users, incoming connections,
crashes, or which way a write, a dial or a copy ends; in a transfer every
request ends one way or another. For connections: a handler that may take a lock
does in the end, a writer enters and leaves, a dial is answered, a write to an end
that has closed returns, and a read from one has an error once what was sent before
has been read (strong fairness: reads that still find something disable it, and an
end that has closed sends no more); nothing makes a peer or a target close, send or
read. For the monitor: the
ticker ticks, and `select` looks at a context that is done. In `Commands` the
batch's fairness holds while `focus` is on it; `Tools` and `Remote` state no
fairness: their properties are invariants and a refinement of steps.

## 6. What is proved

The assumptions of all proofs are the named `ASSUME`s of the modules, that
is: naturals are naturals and "nobody" is nobody. TLC evaluates each of them.

* **Pool** (`ConnectionPoolProofs`, `RemoteProofs`). `PoolInv` is what each
  operation keeps whoever calls it; the increment in two halves needs
  `GetterSeesEntry` (no release takes away the entry between the halves, as the
  read lock is held) and `AloneUnlessRaced` (the loaded count is still the
  count). `PoolClients` adds `LoadedIsCovered`, and types, `PoolConsistent`,
  `NeverOvercounts` and `ExactUnlessRaced` follow.
* **Refinement of the pool** (`RemoteProofs`). Up to the first overlap every
  step is a step of `SharedConnections` or a stutter: the users are the
  references held, and the end of a get is where a user joins.
* **Sessions** (`SessionsProofs`). `ConnectedIsPooled` is not inductive: a
  session's reference must survive steps in which it is not "connected".
  `IInv` counts, per host, the sessions that own a reference (`Claimants`)
  and shows the count covers them (`Cover`); `CallInv` relates each goroutine's
  statement to the locks and half-done increments. It reuses the pool's lemmas.
  `RegisteredIsOnDisk` is inductive once it is known that whoever removes a file has
  removed the session first (`Unregistered`), and that an id is created once
  (`KnownIds`), so the session is not registered again in between.
* **SSH service** (`SSHServiceProofs`). Types, and `OpenIsReachable` from
  `OneDialer`: on a host without a race at most one Connect is between its look
  and its store, and the map has no client of the host all the while.
  `UsersShareOpenClient` counts: on a host that nothing has spoiled, the manager's
  count is the number of references the sessions hold, and an increment half done
  has loaded the count that still is the count (`Shared`); so the last to leave
  closes the client and nobody earlier.
* **Refinement of the SSH service** (`SSHServiceProofs`, `ServiceImplementsShared`).
  On a host that no race and no overtaken request has met, a store is an `Offer`: it
  finds no client of the host in the map, and what it brings in is not what another
  Connect brings (`StoredOnce`). The end of an increment is a `Join`, a disconnect a
  `Leave`, and all other steps change nothing there.
* **Refinement of the transfers** (`TransferProofs`, `TransferImplementsJobs`). A slot
  taken is a start and a goroutine's last step a finish, whichever way it leaves; that
  no more than `MaxParallel` run is the counter of slots being the number of those
  who hold one, and that the merge waits for all is its guard.
* **Tunnels** (`TunnelsProofs`). `ListensIffRunning` from what each call relies on
  between its lock regions (`CallInv`), what the accept loop of each numbered run
  may still close (`RunInv`), and that a tunnel without a call is settled while
  one with a call has that call only (`OrderInv`): a loop closes its own listener
  when it sees `t.ctx` cancelled, which it is not while the listener is the tunnel's.
* **Batch** (`CommandProofs`). The counters are cardinalities (`CountersExact`):
  the semaphore of the goroutines in place, the WaitGroup of those that have not
  reported. From this `ReturnsWhole`, and that every step is one of
  `BoundedJobs` or a stutter.
* **Scheduler** (`CommandProofs`). `OneRunPerDue`: unless a Start came while a loop
  was busy, one loop at most is live (`OneLive`), a task that is due has not been
  started for it (`DueIsFresh`). `DiskIsCurrent`: a save that no other crossed has
  marshalled the tasks there are (`SaveInv`), and a write that ends says whether it failed.
* **Transfers** (`TransferProofs`). Types (the slot counter is the number of
  goroutines that hold one), `OpenIsCached` and `DownloadSharesClient`, from who
  may be creating a client in which phase (`OneCreator`, `DownloadCached`).
  `OkIsWhole` follows the chunks: with no failure swallowed (`hidden`), and for a
  download in chunks of whole buffers (`Fits`), the chunk of a job that is done is
  the file's or missing, and what has been merged is a beginning of the file
  (`WellMade`). `RoundedUp` is the arithmetic: whole buffers are the chunk then.
* **Tools** (`ToolsProofs`). `ToolSteps` says that a step of the composition is a
  step of one part and leaves the others' variables alone; every theorem about a
  part is its inductive invariant and this lemma. `NamesResolve` from `AliasesOwned` (an
  alias belongs to a registered command that asked for it); `GroupsSaved` is
  inductive as it stands.
* **Key ring** (`RemoteProofs`). `SecretsReadable` from `PromisesOnFile`: a promised
  secret is in the file, under the key of its password and of the salt its entry
  keeps. `SavesInv` is the one lemma for the three operations that write.
* **Agent** (`ToolsProofs`). `AgentInv` holds what a call may have run where it is
  (`RanWell`), which calls are of Process (`PlacedWell`), that a busy agent has a
  call that will make it idle (`SomebodySettles`), and what of the conversation
  the one call of Process has still to add (`Heard`). `BecomesInv` is what is left
  to show of any step; `AgentsSettle` and `ResultsAreTrue` follow.

* **Authorizer** (`ToolsProofs`). Each thread that stores, takes, marks or grants
  carries permissions that are allowed (`AnswersAllowed`); that needs one request
  at a time, whose dialog, thread and stored decision are about the same permissions
  (`OneRequest`). Both hold until `overtaken`.
* **Resumed transfers** (`RemoteProofs`). `RecordIsCurrent`: while no calls have
  crossed there is one change at most, and at each of its statements the record, the
  marshalled number and the file are related to what was reported (`RecordInv`).
* **Synchronisation** (`RemoteProofs`). `NewestSurvives` is not inductive: an older edit
  survives only beside the newest one and is not dated later (`LaterHolds`), what a
  copy reads is the newest or cut short (`CopiesWell`), and what a call has seen is not
  younger than what is there (`TimesGrow`). So a decision by times never picks an
  older edit (`TaskIsNewest`), and whatever order copies end in, each leaves the newest
  edit or half a file on its target while its source has one of them (`CopyKept`).
* **Plugins** (`ToolsProofs`). While nothing has raced, a call that ends the plugin
  is alone (`EndsAlone`), the client it has read is the loaded record's at each of
  its steps (`EndingSteps`), and every live client is the loaded record's, known to
  a call under way, or lost (`ClientsKnown`).
* **History** (`ToolsProofs`). Identities of entries in memory and on file are below
  the counter (`Before`): a finite set of naturals has a greatest element
  (`GreatestBelow`, from the well-foundedness of the naturals), so the counter that
  Load works out is above all of them. The global list rises in time (`Rises`), so
  what was pushed out is older than all it has.
* **Guards** (`ToolsProofs`). A rule that blocks by default and was not removed is in the list,
  and before it there are only rules that block (`DefaultsLead`): additions go to the
  end, and a removal moves up what is behind it. So the first rule that decides a
  command it matches is one that blocks. For the assessor each of the five rules is one step on (`Graded`): the level is the
  highest met so far and the score at least what that level asks.
* **Event bus** (`ToolsProofs`). What is subscribed while a Publish reads its slice
  goes behind the topic's end, and the slice of a loop that has not raced ends there
  or before (`LoopHolds`); so the slots still to be read have what they had.

**Nothing is stuck.** That something happens in the end is liveness and stays with
TLC. Its safety half, that something *can* happen, is proved for every instance:
in any reachable state in which somebody waits, a named statement of somebody is
ready. A lock that is not given back on some way out, a slot that is lost or two
locks taken in different orders would break it. That the conditions named
`CanGoOn` are those under which a step is possible has been confirmed by TLC.

* `SessionsCallsNeverStuck`: `m.mu`, the pool's lock and the store's lock. From
  `CallInv`: who holds which lock is at a statement inside its region.
* `BatchIsNeverStuck`: the loop's semaphore and the WaitGroup of Execute. From
  `CountersExact`: no place is free only if some goroutine has it.
* `TransferIsNeverStuck`: the same for chunks, whose goroutines leave by many ways;
  there the caller of each phase is at one of its statements (`CallerStands`), and
  every goroutine of the parallel phase has been started (`AllStarted`).
* `HandlersAreNeverStuck`: the lock of the tunnel table that handlers take twice, and
  the pumps, of which each may be in a `Read` or in a `Write` that blocks. The excuse is
  a target that stays open and holds the connection up (`HeldUp`). A handler that waits for the lock waits for a writer that is inside or
  for readers that will let go (`LocksFit`), but for the wedge: `WedgedForGood`
  proves that one which came between the two read locks of a handler (`socks.go:158`
  and 273) stops the table for ever, which is why it is excused and not just rare.

## 7. What is only model-checked

Everything temporal (`CallsReturn`, `LoopsEnd`, `CloseEndsAll`, `BatchReturns`,
`DueTaskRuns`, `TransferReturns`, `HandlersEnd`, `WatchersEnd`): liveness under
fairness is out of the proof system's reach, and so is ENABLED, by which one would
say that a step is possible. Every other property that a passing run checks,
invariant or refinement, has a theorem; `ReturnsWhole` of `Batch` is proved and in no run.
`DeletedStaysDeleted` and `ConnectsReuseClient` are false of the code.

Writing the proofs has corrected the models in one place. `UninstallLeavesNothing`
was not inductive, for a reason the run's two callers could not show: a Start
that has passed its check may put its client into a record that a Load of a third
caller has replaced. Such a client has no owner, so it is among the `lost` ones
now (`Plugins.SetClient`).

## 8. What is not modelled

`PROJECT.json` lists every component with its status. Not modelled at all:

* the command parser and executor (a sequential tokenizer; a lookup in the
  modelled registry, then a call of the handler) and the users' aliases (a table
  with a file like that of the host groups);
* the configuration file and the logger, which wire libraries;
* rendering, the plugin SDK, RPC declarations, types, examples and `main`.

Left out of modelled components:

* formatting and logging; windows and panes of a session; authentication and host
  keys of SSH; the loads of a running session store (a load happens at a restart
  only, so the nested read locks of `LoadAll` cannot meet a writer in the model);
* connections dropped by the server in `SSHManager`: keepalive returns and the
  dead client stays in the table (`ssh.go:282`); a broken connection is in
  `ChunkTransfer`;
* where the bytes of a transfer resumed from inside the file land (`sftp.go:353`, 395:
  neither seeks the remote file);
* the work of a batch's command, which the code does not do yet;
* of tunnels: byte counters, the bytes of addresses (`handleSOCKS` takes the
  command byte for the address type, and the address from the bytes before it,
  `tunnel.go:274`; here a request is one whose dial succeeds or does not), and
  the port probe, most of which is a stub;
* of the agent: the HTTP client of the language model, prompts, the tools'
  parameters, and the rollback manager, which undoes nothing yet (`risk.go:192`);
* of plugins: downloads, archives, signatures, the audit log, the check lists of
  permissions;
* cryptography: keys and ciphers are terms that open with their own key only.
