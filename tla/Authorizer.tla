----------------------------- MODULE Authorizer -----------------------------
(***************************************************************************)
(* A plugin's permissions: the authorizer (internal/plugin/auth.go), the   *)
(* permission table it fills (permission.go) and the user who answers.     *)
(*                                                                         *)
(* A request is published first and stored after.  The answer comes back   *)
(* as an event that names only the plugin: its handler, a goroutine of the *)
(* event bus, grants what the table holds by then.  RevokeAuthorization is *)
(* what the handler of "revoked" calls, and publishes "revoked" itself: a  *)
(* first revocation is followed by others without end.                     *)
(*                                                                         *)
(* Beside the authorizer a caller may grant and revoke in the permission   *)
(* table itself; the table's Request asks nobody.                          *)
(*                                                                         *)
(* The answer is external: the dialog that tui/views/app.go:79 prepares    *)
(* for it casts the permissions to a string, so names none, and is written *)
(* to a copy of the model that is never drawn (app.go:92); whoever         *)
(* subscribes to the request may answer it.                                *)
(***************************************************************************)
EXTENDS Naturals, Sequences

CONSTANTS
  Permissions,
  NoDecision,
  Threads,                      \* callers and handlers of events
  MaxRequests,                  \* bound: requests in one life of the program
  MaxCrashes                    \* bound: restarts

VARIABLES
  records,                      \* the decisions made, shared by pointer
  decision,                     \* a.decisions[plugin]: one of them, 0 for none
  authFile,                     \* the decision in the file, or NoDecision
  granted,                      \* the permission table
  dialogs,                      \* the requests not yet answered
  thread,                       \* where each call is
  crashes,
  allowed,                      \* history: the permissions of requests answered with yes,
                                \* and those a caller granted, but for what was revoked
  overtaken                     \* history: a request came before the last was through,
                                \* or an answer before its request was stored

authVars == <<records, decision, authFile, granted, dialogs, thread, crashes, allowed, overtaken>>

Free == [at |-> "idle", perms |-> {}, rec |-> 0, data |-> NoDecision, revoking |-> FALSE]

AuthInit ==
  /\ records = <<>> /\ decision = 0
  /\ authFile = NoDecision
  /\ granted = {} /\ dialogs = {}
  /\ thread = [t \in Threads |-> Free]
  /\ crashes = 0
  /\ allowed = {} /\ overtaken = FALSE

Moves(t, here, next) ==
  /\ thread[t].at = here
  /\ thread' = [thread EXCEPT ![t].at = next]

-----------------------------------------------------------------------------
\* The event goes out before the decision is stored.
RequestAuthorization(t, perms) ==
  /\ thread[t].at = "idle" /\ Len(records) < MaxRequests
  /\ thread' = [thread EXCEPT ![t] = [Free EXCEPT !.at = "store", !.perms = perms]]
  /\ dialogs' = dialogs \cup {perms}
  /\ overtaken' = (dialogs # {} \/
                     \E u \in Threads : thread[u].at \in {"store", "take"})
  /\ UNCHANGED <<records, decision, authFile, granted, crashes, allowed>>

Stores(t, perms) ==
  /\ thread[t].at = "store"
  /\ thread' = [thread EXCEPT ![t] = [Free EXCEPT !.at = "marshal"]]
  /\ records' = Append(records, [perms |-> perms, granted |-> FALSE])
  /\ decision' = Len(records) + 1
  /\ UNCHANGED <<authFile, granted, dialogs, crashes, allowed, overtaken>>

\* A bug: what was asked for before is asked for again.
StoreAdds(t) ==
  Stores(t, thread[t].perms \cup (IF decision = 0 THEN {} ELSE records[decision].perms))

StoreDecision(t) == Stores(t, thread[t].perms)

\* The user's answer, taken up by a handler.
Agree(t, perms) ==
  /\ perms \in dialogs /\ Moves(t, "idle", "take")
  /\ dialogs' = dialogs \ {perms}
  /\ allowed' = allowed \cup perms
  /\ overtaken' = (overtaken \/ \E u \in Threads : thread[u].at = "store")
  /\ UNCHANGED <<records, decision, authFile, granted, crashes>>

Refuse(t, perms) ==
  /\ perms \in dialogs
  /\ thread[t].at = "idle"
  /\ thread' = [thread EXCEPT ![t] = [Free EXCEPT !.at = "delete", !.revoking = TRUE]]
  /\ dialogs' = dialogs \ {perms}
  /\ UNCHANGED <<records, decision, authFile, granted, crashes, allowed, overtaken>>

\* GrantAll: the decision under the lock, its mark and its permissions after.
TakeDecision(t) ==
  /\ thread[t].at = "take"
  /\ thread' = [thread EXCEPT ![t] = IF decision = 0 THEN Free
                                     ELSE [@ EXCEPT !.at = "mark", !.rec = decision]]
  /\ UNCHANGED <<records, decision, authFile, granted, dialogs, crashes, allowed, overtaken>>

MarkGranted(t) ==
  /\ thread[t].at = "mark"
  /\ records' = [records EXCEPT ![thread[t].rec].granted = TRUE]
  /\ thread' = [thread EXCEPT ![t] = [Free EXCEPT !.at = "grant",
                                        !.perms = records[thread[t].rec].perms]]
  /\ UNCHANGED <<decision, authFile, granted, dialogs, crashes, allowed, overtaken>>

GrantEach(t) ==
  /\ thread[t].at = "grant"
  /\ IF thread[t].perms = {}
     THEN Moves(t, "grant", "marshal") /\ UNCHANGED granted
     ELSE \E perm \in thread[t].perms :
            /\ granted' = granted \cup {perm}
            /\ thread' = [thread EXCEPT ![t].perms = @ \ {perm}]
  /\ UNCHANGED <<records, decision, authFile, dialogs, crashes, allowed, overtaken>>

\* Takes no permission back: nothing in the program calls the table's Revoke.
RevokeAuthorization(t) ==
  /\ thread[t].at = "idle"
  /\ thread' = [thread EXCEPT ![t] = [Free EXCEPT !.at = "delete", !.revoking = TRUE]]
  /\ UNCHANGED <<records, decision, authFile, granted, dialogs, crashes, allowed, overtaken>>

DeleteDecision(t) ==
  /\ Moves(t, "delete", "marshal")
  /\ decision' = 0
  /\ UNCHANGED <<records, authFile, granted, dialogs, crashes, allowed, overtaken>>

-----------------------------------------------------------------------------
\* The permission table's own operations, by who calls them directly.
Grant(perm) ==
  /\ granted' = granted \cup {perm} /\ allowed' = allowed \cup {perm}
  /\ UNCHANGED <<records, decision, authFile, dialogs, thread, crashes, overtaken>>

\* "Stub for UI flow".
Request(perm) == Grant(perm)

\* A GrantAll under way may give the permission again: then it stays allowed.
Revoke(perm) ==
  /\ granted' = granted \ {perm}
  /\ allowed' = IF \E t \in Threads : thread[t].at \in {"take", "mark", "grant"}
                THEN allowed ELSE allowed \ {perm}
  /\ UNCHANGED <<records, decision, authFile, dialogs, thread, crashes, overtaken>>

-----------------------------------------------------------------------------
\* Save marshals the table, and then writes the file, under no lock.
Marshal(t) ==
  /\ thread[t].at = "marshal"
  /\ thread' = [thread EXCEPT ![t].at = "write",
                  ![t].data = IF decision = 0 THEN NoDecision ELSE records[decision]]
  /\ UNCHANGED <<records, decision, authFile, granted, dialogs, crashes, allowed, overtaken>>

\* Whether Save fails is not looked at.  A revocation then publishes, and the
\* handler of its event revokes again.
Save(t) ==
  /\ thread[t].at = "write"
  /\ thread' = [thread EXCEPT ![t] = IF @.revoking
                                     THEN [Free EXCEPT !.at = "delete", !.revoking = TRUE]
                                     ELSE Free]
  /\ authFile' \in {authFile, thread[t].data}
  /\ UNCHANGED <<records, decision, granted, dialogs, crashes, allowed, overtaken>>

\* Permissions are not kept.  A file cut short while it was written does not
\* load.
RestartAuthorizer ==
  /\ crashes < MaxCrashes
  /\ crashes' = crashes + 1
  /\ \/ UNCHANGED authFile
     \/ authFile' = NoDecision /\ \E t \in Threads : thread[t].at = "write"
  /\ records' = IF authFile' = NoDecision THEN <<>> ELSE <<authFile'>>
  /\ decision' = Len(records')
  /\ granted' = {} /\ dialogs' = {}
  /\ thread' = [t \in Threads |-> Free]
  /\ allowed' = {} /\ overtaken' = FALSE

\* Once nothing is promised any more, only a new start is of interest (a bound).
AuthNext ==
  \/ ~overtaken /\ \E t \in Threads :
       \/ \E perms \in SUBSET Permissions \ {{}} :
            RequestAuthorization(t, perms) \/ Agree(t, perms) \/ Refuse(t, perms)
       \/ StoreDecision(t) \/ TakeDecision(t) \/ MarkGranted(t) \/ GrantEach(t)
       \/ RevokeAuthorization(t) \/ DeleteDecision(t) \/ Marshal(t) \/ Save(t)
  \/ ~overtaken /\ \E perm \in Permissions : Grant(perm) \/ Request(perm) \/ Revoke(perm)
  \/ RestartAuthorizer

-----------------------------------------------------------------------------
(***************************************************************************)
(* A plugin has no permission but those of requests that were answered     *)
(* with yes since the program started and those a caller granted in the    *)
(* table (permission.go:39; Request is such a grant and asks nobody,       *)
(* permission.go:83) - and of these none that was revoked since, whatever  *)
(* decisions the file of an earlier life held and however the handlers of  *)
(* older answers and revocations run on (auth.go:83).  The answer names no *)
(* request: excused is who asks again before the last request is through,  *)
(* and an answer that is faster than the request's own store               *)
(* (auth.go:70-75).                                                        *)
(***************************************************************************)
OnlyAllowed == overtaken \/ granted \subseteq allowed

AuthTypeOK ==
  /\ decision \in 0 .. Len(records)
  /\ granted \subseteq Permissions /\ allowed \subseteq Permissions
  /\ \A t \in Threads : /\ thread[t].perms \subseteq Permissions
                        /\ thread[t].rec \in 0 .. Len(records)
=============================================================================
