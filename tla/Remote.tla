------------------------------- MODULE Remote -------------------------------
(***************************************************************************)
(* What depends on other hosts and is none of a session's: the callers of  *)
(* the connection pool, synchronisation, resumed transfers, and the ring   *)
(* with the keys and passwords of the hosts.  No two share state or a      *)
(* lock, so that every behaviour is an interleaving of one behaviour of    *)
(* each: "part" picks the one that moves, and the states to check are a    *)
(* sum and not a product.                                                  *)
(***************************************************************************)
EXTENDS PoolClients, Sync, Resume, Keyring

VARIABLE part                   \* the one that moves

remoteVars == <<vars, syncVars, resumeVars, keyringVars, part>>

RemoteInit ==
  /\ Init /\ SyncInit /\ ResumeInit /\ KeyringInit
  /\ part \in {"pool", "sync", "resume", "keyring"}
  /\ key = "upload" \/ part = "resume"

RemoteNext ==
  /\ UNCHANGED part
  /\ \/ part = "pool" /\ Next /\ UNCHANGED <<syncVars, resumeVars, keyringVars>>
     \/ part = "sync" /\ SyncNext /\ UNCHANGED <<vars, resumeVars, keyringVars>>
     \/ part = "resume" /\ ResumeNext /\ UNCHANGED <<vars, syncVars, keyringVars>>
     \/ part = "keyring" /\ KeyringNext /\ UNCHANGED <<vars, syncVars, resumeVars>>

RemoteSpec == RemoteInit /\ [][RemoteNext]_remoteVars
=============================================================================
