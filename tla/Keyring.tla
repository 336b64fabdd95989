------------------------------ MODULE Keyring ------------------------------
(***************************************************************************)
(* The secrets a user keeps under a password: the key ring                 *)
(* (internal/security/keyring.go), the ciphers of crypto.go and the names  *)
(* that config/secure_config.go gives the secrets.                         *)
(*                                                                         *)
(* Every opening of the ring draws a salt, with which it encrypts what it  *)
(* stores; an entry keeps the salt of its own.  Nothing locks the file:    *)
(* two rings may be open, and a save writes one ring's entries over all    *)
(* that the file has.                                                      *)
(***************************************************************************)
EXTENDS Naturals

CONSTANTS
  Machines, Services,           \* hosts with a password, services with an API key
  Secrets, Passwords,
  NoSecret,                     \* no entry, or an answer with an error
  Wreck,                        \* a file that does not load
  Rings,                        \* key rings: one per process, or per manager
  MaxOpenings                   \* bound

HostKey(machine) == <<"host", machine>>
ApiKey(service) == <<"api", service>>
SecretKeys == {HostKey(h) : h \in Machines} \cup {ApiKey(s) : s \in Services}

\* An entry: its salt, and the secret under the key made of it.
Sealed == [salt : Nat, cipher : [key : Passwords \X Nat, secret : Secrets]]
EntryTable == [SecretKeys -> Sealed \cup {NoSecret}]

ASSUME KeyringAssumption ==
  /\ NoSecret \notin Sealed
  /\ Wreck \notin EntryTable
  /\ MaxOpenings \in Nat

VARIABLES
  ring,                         \* r -> its password, salt and entries; salt 0: not open
  openings,                     \* salts drawn
  ringFile,                     \* the entries in the file, or Wreck
  promised                      \* history: the secret last set, and its password

keyringVars == <<ring, openings, ringFile, promised>>

NoEntries == [k \in SecretKeys |-> NoSecret]
Closed == [password |-> NoSecret, salt |-> 0, entries |-> NoEntries]

KeyringInit ==
  /\ ring = [r \in Rings |-> Closed]
  /\ openings = 0
  /\ ringFile = NoEntries
  /\ promised = NoEntries

-----------------------------------------------------------------------------
\* AES-GCM: another key opens nothing.
DerivedKey(password, salt) == <<password, salt>>
Encrypt(key, secret) == [key |-> key, secret |-> secret]
Decrypt(key, cipher) == IF cipher.key = key THEN cipher.secret ELSE NoSecret

\* A bug: every entry is read with the salt of the ring that reads it.
GetOwnSalt(kr, k) ==
  IF kr.entries[k] = NoSecret THEN NoSecret
  ELSE Decrypt(DerivedKey(kr.password, kr.salt), kr.entries[k].cipher)

GetSecret(kr, k) ==
  IF kr.entries[k] = NoSecret THEN NoSecret
  ELSE Decrypt(DerivedKey(kr.password, kr.entries[k].salt), kr.entries[k].cipher)

\* NewSecureStorage makes a salt for every opening.
FreshSalt == openings + 1

\* What a ring opened on the file would be.
OnFile(password, salt) == [password |-> password, salt |-> salt, entries |-> ringFile]

\* A file that cannot be read or parsed leaves the ring empty, with a warning.
NewKeyring(r, password) ==
  /\ ring[r].salt = 0 /\ openings < MaxOpenings
  /\ openings' = openings + 1
  /\ \/ ringFile # Wreck /\ ring' = [ring EXCEPT ![r] = OnFile(password, FreshSalt)]
     \/ ring' = [ring EXCEPT ![r] = [OnFile(password, FreshSalt) EXCEPT !.entries = NoEntries]]
  /\ UNCHANGED <<ringFile, promised>>

\* Its program ends.
Close(r) ==
  /\ ring[r].salt # 0
  /\ ring' = [ring EXCEPT ![r] = Closed]
  /\ UNCHANGED <<openings, ringFile, promised>>

\* The entries change and are saved.  The change stays in the ring when the
\* file cannot be written, or only in part.  What others have stored since r
\* was opened, or r could not load, goes; a failed save promises nothing.
Saves(r, keys, entries, promise) ==
  /\ ring' = [ring EXCEPT ![r].entries = entries]
  /\ \/ /\ ringFile' = entries
        /\ promised' = [k \in SecretKeys |->
                          IF k \in keys THEN promise
                          ELSE IF ringFile # Wreck /\ entries[k] = ringFile[k]
                               THEN promised[k] ELSE NoSecret]
     \/ ringFile' = Wreck /\ promised' = NoEntries
     \/ UNCHANGED ringFile
        /\ promised' = [k \in SecretKeys |-> IF k \in keys THEN NoSecret ELSE promised[k]]
  /\ UNCHANGED openings

SetSecret(r, k, secret) ==
  /\ ring[r].salt # 0
  /\ Saves(r, {k},
       [ring[r].entries EXCEPT ![k] =
          [salt |-> ring[r].salt,
           cipher |-> Encrypt(DerivedKey(ring[r].password, ring[r].salt), secret)]],
       [secret |-> secret, password |-> ring[r].password])

DeleteSecret(r, k) ==
  /\ ring[r].salt # 0 /\ ring[r].entries[k] # NoSecret
  /\ Saves(r, {k}, [ring[r].entries EXCEPT ![k] = NoSecret], NoSecret)

ClearRing(r) ==
  /\ ring[r].salt # 0
  /\ Saves(r, SecretKeys, NoEntries, NoSecret)

KeyringNext ==
  \E r \in Rings :
    \/ \E password \in Passwords : NewKeyring(r, password)
    \/ \E k \in SecretKeys, secret \in Secrets : SetSecret(r, k, secret)
    \/ \E k \in SecretKeys : DeleteSecret(r, k)
    \/ ClearRing(r) \/ Close(r)

KeyringSpec == KeyringInit /\ [][KeyringNext]_keyringVars

-----------------------------------------------------------------------------
(***************************************************************************)
(* A secret whose Set has reported success can be read by every ring that  *)
(* is opened with its password from then on, with whatever passwords the   *)
(* ring was opened before and after and whatever other secrets were stored *)
(* or deleted under them, and is a secret to the other passwords.  Excused *)
(* is a ring that had not loaded it and saves its own entries over it      *)
(* (keyring.go:47, 175), and a save that fails.                            *)
(***************************************************************************)
SecretsReadable ==
  \A k \in SecretKeys : promised[k] # NoSecret =>
    \A password \in Passwords :
      GetSecret(OnFile(password, FreshSalt), k) =
        IF password = promised[k].password THEN promised[k].secret ELSE NoSecret

KeyringTypeOK ==
  /\ openings \in Nat
  /\ ring \in [Rings -> [password : Passwords \cup {NoSecret}, salt : Nat, entries : EntryTable]]
  /\ \A r \in Rings : ring[r].salt # 0 => ring[r].password \in Passwords
  /\ ringFile \in EntryTable \cup {Wreck}
  /\ promised \in [SecretKeys -> [secret : Secrets, password : Passwords] \cup {NoSecret}]
=============================================================================
