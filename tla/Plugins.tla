------------------------------ MODULE Plugins ------------------------------
(***************************************************************************)
(* One plugin, known by its path, from installation to removal: the        *)
(* manager (internal/plugin/manager.go) over the runtime (runtime.go), the *)
(* installer (installer.go) and the store (store.go).                      *)
(*                                                                         *)
(* The runtime's table is locked, the records are shared by pointer and    *)
(* are not.  A client of the plugin library starts its process when        *)
(* Execute first asks it for a connection; Kill ends a started process,    *)
(* and does nothing to a client that has not started one.                  *)
(***************************************************************************)
EXTENDS Naturals, Sequences, FiniteSets

CONSTANTS
  Users,                        \* goroutines that call the manager and the runtime
  MaxLoads, MaxClients          \* bounds: records and clients made

VARIABLES
  recs,                         \* the records made: enabled, and the client or 0
  loaded,                       \* r.plugins[path], 0 for none
  clients,                      \* the clients made: "fresh", "running" or "killed"
  binary,                       \* the plugin's file is in the install directory
  stored, storeFile,            \* the path is in the store, and in its file
  doing,                        \* doing[u]: the call of u
  lost,                         \* history: clients of records that a Load replaced, and
                                \* those that another Start overwrote
  raced,                        \* history: a call that ends the plugin ran beside another
  removed                       \* history: an Uninstall was the last to end, and has not
                                \* failed to remove the file or to save the store

pluginVars == <<recs, loaded, clients, binary, stored, storeFile, doing, lost, raced, removed>>

NotDoing == [op |-> "none", at |-> "none", rec |-> 0, client |-> 0, saves |-> FALSE, ok |-> TRUE]

Quiet == \A u \in Users : doing[u].op = "none"
Live == {k \in DOMAIN clients : clients[k] = "running"}

PluginInit ==
  /\ recs = <<>> /\ loaded = 0 /\ clients = <<>>
  /\ binary = FALSE /\ stored = FALSE /\ storeFile = FALSE
  /\ doing = [u \in Users |-> NotDoing]
  /\ lost = {} /\ raced = FALSE /\ removed = FALSE

\* A call begins.  Those that end the plugin expect nobody beside them; after
\* such a race nothing is promised, and no call begins (a bound).
Ending == {"disable", "update", "uninstall"}

CallBegins(u, op, at, rec) ==
  /\ doing[u].op = "none" /\ ~raced
  /\ doing' = [doing EXCEPT ![u] = [NotDoing EXCEPT !.op = op, !.at = at, !.rec = rec]]
  /\ raced' = (\E v \in Users \ {u} : doing[v].op # "none" /\
                  (op \in Ending \/ doing[v].op \in Ending))

GoesOn(u, next) == doing' = [doing EXCEPT ![u].at = next]
At(u, here) == doing[u].at = here
Return(u) == doing' = [doing EXCEPT ![u] = NotDoing]

-----------------------------------------------------------------------------
\* runtime.Load makes a record anew, whatever the table has for the path.
LoadPlugin(u) ==
  /\ Len(recs) < MaxLoads
  /\ CallBegins(u, "load", "loaded", 0)
  /\ recs' = Append(recs, [enabled |-> TRUE, client |-> 0])
  /\ loaded' = Len(recs) + 1
  /\ lost' = lost \cup (IF loaded = 0 THEN {} ELSE {recs[loaded].client} \ {0})
  /\ removed' = FALSE
  /\ UNCHANGED <<clients, binary, stored, storeFile>>

LoadReturns(u) ==
  /\ At(u, "loaded")
  /\ Return(u)
  /\ UNCHANGED <<recs, loaded, clients, binary, stored, storeFile, lost, raced, removed>>

\* Start: Get, a new client into the record, and the mark.  Get finds the
\* record, or the call is refused.
Enable(u) ==
  /\ loaded # 0
  /\ CallBegins(u, "enable", "start", loaded)
  /\ UNCHANGED <<recs, loaded, clients, binary, stored, storeFile, lost, removed>>

\* The record may be one that a Load has replaced since.
SetClient(u) ==
  /\ At(u, "start") /\ Len(clients) < MaxClients
  /\ clients' = Append(clients, "fresh")
  /\ recs' = [recs EXCEPT ![doing[u].rec].client = Len(clients) + 1]
  /\ lost' = lost \cup ({recs[doing[u].rec].client} \ {0})
                  \cup (IF doing[u].rec = loaded THEN {} ELSE {Len(clients) + 1})
  /\ GoesOn(u, "enabled")
  /\ UNCHANGED <<loaded, binary, stored, storeFile, raced, removed>>

SetEnabled(u) ==
  /\ At(u, "enabled")
  /\ recs' = [recs EXCEPT ![doing[u].rec].enabled = TRUE]
  /\ Return(u)
  /\ UNCHANGED <<loaded, clients, binary, stored, storeFile, lost, raced, removed>>

\* Stop on its own (Disable), before a Start (Update, Reload), or inside
\* Uninstall.
StopPlugin(u, op) ==
  /\ loaded # 0 /\ op \in {"disable", "update"}
  /\ CallBegins(u, op, "stop", loaded)
  /\ UNCHANGED <<recs, loaded, clients, binary, stored, storeFile, lost, removed>>

CheckClient(u) ==
  /\ At(u, "stop")
  /\ GoesOn(u, IF recs[doing[u].rec].client = 0 THEN "disable" ELSE "kill")
  /\ UNCHANGED <<recs, loaded, clients, binary, stored, storeFile, lost, raced, removed>>

\* The field is read again.
Kill(u) ==
  LET k == recs[doing[u].rec].client IN
  /\ At(u, "kill") /\ k # 0
  /\ clients' = [clients EXCEPT ![k] = IF @ = "running" THEN "killed" ELSE @]
  /\ GoesOn(u, "clear")
  /\ UNCHANGED <<recs, loaded, binary, stored, storeFile, lost, raced, removed>>

ClearClient(u) ==
  /\ At(u, "clear")
  /\ recs' = [recs EXCEPT ![doing[u].rec].client = 0]
  /\ GoesOn(u, "disable")
  /\ UNCHANGED <<loaded, clients, binary, stored, storeFile, lost, raced, removed>>

\* A Restart looks the record up again.
DisablePlugin(u) ==
  /\ At(u, "disable")
  /\ recs' = [recs EXCEPT ![doing[u].rec].enabled = FALSE]
  /\ CASE doing[u].op = "uninstall"              -> GoesOn(u, "unregister")
       [] doing[u].op = "update" /\ loaded # 0 ->
            doing' = [doing EXCEPT ![u].at = "start", ![u].rec = loaded]
       [] OTHER                                  -> Return(u)
  /\ UNCHANGED <<loaded, clients, binary, stored, storeFile, lost, raced, removed>>

-----------------------------------------------------------------------------
\* Execute looks at the record, and then reads its client again.
Execute(u) ==
  /\ loaded # 0 /\ recs[loaded].enabled /\ recs[loaded].client # 0
  /\ CallBegins(u, "execute", "reread", loaded)
  /\ UNCHANGED <<recs, loaded, clients, binary, stored, storeFile, lost, removed>>

ReadClient(u) ==
  /\ At(u, "reread") /\ recs[doing[u].rec].client # 0
  /\ doing' = [doing EXCEPT ![u].at = "connect", ![u].client = recs[doing[u].rec].client]
  /\ UNCHANGED <<recs, loaded, clients, binary, stored, storeFile, lost, raced, removed>>

\* Client() starts the process the first time, unless that fails; after a
\* Kill it gives an error.  The call itself changes nothing here.
Connect(u) ==
  /\ At(u, "connect")
  /\ clients' \in {clients,
                   [clients EXCEPT ![doing[u].client] = IF @ = "fresh" THEN "running" ELSE @]}
  /\ Return(u)
  /\ UNCHANGED <<recs, loaded, binary, stored, storeFile, lost, raced, removed>>

\* A nil client where a moment before there was one: the program ends, the
\* plugins' processes stay, and the next program loads the store's file.
NilClient(u) ==
  /\ At(u, "kill") \/ At(u, "reread")
  /\ recs[doing[u].rec].client = 0
  /\ recs' = <<>> /\ loaded' = 0
  /\ stored' = storeFile
  /\ doing' = [v \in Users |-> NotDoing]
  /\ lost' = DOMAIN clients
  /\ raced' = FALSE /\ removed' = FALSE
  /\ UNCHANGED <<clients, binary, storeFile>>

-----------------------------------------------------------------------------
\* InstallFromURL, else FromFile, else FromDir, which copies nothing.  Install
\* does not load the plugin into the runtime.
Install(u) ==
  /\ CallBegins(u, "install", "add", 0)
  /\ binary' \in {TRUE, binary}
  /\ removed' = FALSE
  /\ UNCHANGED <<recs, loaded, clients, stored, storeFile, lost>>

\* All three may fail, the first after it has created the file.
InstallFails(u) ==
  /\ CallBegins(u, "install", "failed", 0)
  /\ binary' \in {TRUE, binary}
  /\ removed' = FALSE
  /\ UNCHANGED <<recs, loaded, clients, stored, storeFile, lost>>

InstallReturns(u) ==
  /\ At(u, "failed")
  /\ Return(u)
  /\ UNCHANGED <<recs, loaded, clients, binary, stored, storeFile, lost, raced, removed>>

Add(u) ==
  /\ At(u, "add")
  /\ stored' = TRUE
  /\ GoesOn(u, "marshal")
  /\ UNCHANGED <<recs, loaded, clients, binary, storeFile, lost, raced, removed>>

\* A bug: out of the table first, where the Stop that follows finds nothing.
UnloadFirst(u) ==
  /\ CallBegins(u, "uninstall", "delete", 0)
  /\ loaded' = 0
  /\ UNCHANGED <<recs, clients, binary, stored, storeFile, lost, removed>>

\* Uninstall drops every error.  Unload stops the plugin if it is enabled.
Uninstall(u) ==
  /\ CallBegins(u, "uninstall", IF loaded = 0 THEN "delete" ELSE
                            IF recs[loaded].enabled THEN "stop" ELSE "unregister", loaded)
  /\ UNCHANGED <<recs, loaded, clients, binary, stored, storeFile, lost, removed>>

UnregisterPlugin(u) ==
  /\ At(u, "unregister")
  /\ loaded' = 0
  /\ GoesOn(u, "delete")
  /\ UNCHANGED <<recs, clients, binary, stored, storeFile, lost, raced, removed>>

RemoveBinary(u) ==
  /\ At(u, "delete")
  /\ binary' \in {FALSE, binary}
  /\ doing' = [doing EXCEPT ![u].at = "drop", ![u].ok = ~binary']
  /\ UNCHANGED <<recs, loaded, clients, stored, storeFile, lost, raced, removed>>

RemoveEntry(u) ==
  /\ At(u, "drop")
  /\ stored' = FALSE
  /\ GoesOn(u, "marshal")
  /\ UNCHANGED <<recs, loaded, clients, binary, storeFile, lost, raced, removed>>

\* Save marshals the store without its lock, and writes.
MarshalStore(u) ==
  /\ At(u, "marshal")
  /\ doing' = [doing EXCEPT ![u].at = "write", ![u].saves = stored]
  /\ UNCHANGED <<recs, loaded, clients, binary, stored, storeFile, lost, raced, removed>>

WriteStore(u) ==
  /\ At(u, "write")
  /\ \/ /\ storeFile' = doing[u].saves
        /\ removed' = (doing[u].op = "uninstall" /\ doing[u].ok)
     \/ UNCHANGED storeFile /\ removed' = FALSE
  /\ Return(u)
  /\ UNCHANGED <<recs, loaded, clients, binary, stored, lost, raced>>

PluginNext ==
  \E u \in Users :
    \/ LoadPlugin(u) \/ LoadReturns(u) \/ Enable(u) \/ SetClient(u) \/ SetEnabled(u)
    \/ \E op \in Ending : StopPlugin(u, op)
    \/ CheckClient(u) \/ Kill(u) \/ ClearClient(u) \/ DisablePlugin(u)
    \/ Execute(u) \/ ReadClient(u) \/ Connect(u) \/ NilClient(u)
    \/ Install(u) \/ InstallFails(u) \/ InstallReturns(u) \/ Add(u)
    \/ Uninstall(u) \/ UnregisterPlugin(u) \/ RemoveBinary(u) \/ RemoveEntry(u)
    \/ MarshalStore(u) \/ WriteStore(u)

-----------------------------------------------------------------------------
(***************************************************************************)
(* When no call is under way, every plugin process that runs belongs to    *)
(* the client of the loaded record, and after an Uninstall nothing is left *)
(* of the plugin: no process, no record, no entry in the store or its      *)
(* file, no binary, unless the removal or the save itself has failed.  The *)
(* code loses the client that a second Start or Load overwrites            *)
(* (runtime.go:58, 99) and the one that a Start puts into a record that a  *)
(* Load has replaced meanwhile, and promises nothing to calls that run     *)
(* beside a Stop, an Update or an Uninstall, as records are not locked     *)
(* (runtime.go:120, 178).                                                  *)
(***************************************************************************)
UninstallLeavesNothing ==
  Quiet /\ ~raced =>
    /\ Live \subseteq lost \cup (IF loaded = 0 THEN {} ELSE {recs[loaded].client})
    /\ removed =>
         loaded = 0 /\ ~binary /\ ~stored /\ ~storeFile

PluginTypeOK ==
  /\ loaded \in 0 .. Len(recs)
  /\ \A r \in DOMAIN recs : recs[r].enabled \in BOOLEAN /\ recs[r].client \in 0 .. Len(clients)
  /\ \A u \in Users : doing[u].rec \in 0 .. Len(recs) /\ doing[u].client \in 0 .. Len(clients)
  /\ lost \subseteq DOMAIN clients
=============================================================================
