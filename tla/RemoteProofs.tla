---------------------------- MODULE RemoteProofs ----------------------------
(***************************************************************************)
(* What holds of the pool's callers, of synchronisation, of resumed        *)
(* transfers and of the key ring, for every set of hosts, clients,         *)
(* goroutines, files and secrets and every bound.  The theorems are about  *)
(* the parts, each by itself; RemoteParts says that a behaviour of Remote  *)
(* is one of each.                                                         *)
(***************************************************************************)
EXTENDS Remote, ConnectionPoolProofs, FiniteSetTheorems

(* A behaviour of the whole is one of each part. *)
THEOREM RemoteParts == RemoteSpec => Spec /\ SyncSpec /\ ResumeSpec /\ KeyringSpec
<1>1. RemoteInit => Init /\ SyncInit /\ ResumeInit /\ KeyringInit
  BY DEF RemoteInit
<1>2. [RemoteNext]_remoteVars =>
        [Next]_vars /\ [SyncNext]_syncVars /\ [ResumeNext]_resumeVars /\ [KeyringNext]_keyringVars
  BY DEF RemoteNext, remoteVars
<1> QED
  BY <1>1, <1>2, PTL DEF RemoteSpec, Spec, SyncSpec, ResumeSpec, KeyringSpec

-----------------------------------------------------------------------------
(* The pool's callers.  IInv adds to the checked invariants what the        *)
(* pool's operations keep (PoolInv) and what a caller between the two       *)
(* halves of refs[key]++ knows: the count it loaded is covered.             *)

\* A loaded count is covered by the references that are out.
LoadedIsCovered ==
    \A p \in Procs : reading[p].at = "get" => reading[p].n <= held[reading[p].key]

IInv ==
    /\ PoolInv
    /\ TypeOK
    /\ NeverOvercounts
    /\ ExactUnlessRaced
    /\ LoadedIsCovered

LEMMA InitIInv == Init => IInv
  BY PoolInitInv
  DEF Init, PoolInit, IInv, PoolInv, TypeOK, NeverOvercounts, ExactUnlessRaced,
      LoadedIsCovered, Outside

LEMMA BeginGetIInv ==
    ASSUME IInv, NEW p \in Procs, NEW k \in HostKeys, BeginGet(p, k)
    PROVE  IInv'
<1> USE DEF BeginGet, IInv
<1>1. PoolInv' /\ TypeOK'
  BY GetLoadInv DEF TypeOK, PoolInv
<1>2. NeverOvercounts' /\ ExactUnlessRaced'
  BY DEF GetLoad, NeverOvercounts, ExactUnlessRaced, TypeOK, PoolTypeOK
<1>3. LoadedIsCovered'
  <2>1. /\ reading'[p] = InGet(k, refs[k])
        /\ \A q \in Procs : q # p => reading'[q] = reading[q]
    BY DEF GetLoad, TypeOK, PoolTypeOK
  <2>2. QED
    BY <2>1 DEF LoadedIsCovered, NeverOvercounts, InGet
<1>4. QED
  BY <1>1, <1>2, <1>3

(* On a raced key the stored count may lag behind, never run ahead. *)
LEMMA EndGetIInv ==
    ASSUME IInv, NEW p \in Procs, EndGet(p)
    PROVE  IInv'
<1> DEFINE k == reading[p].key
           n == reading[p].n
<1>1. /\ PoolInv'
      /\ k \in HostKeys /\ n \in Nat
      /\ refs'[k] = n + 1
      /\ \A j \in HostKeys : j # k => refs'[j] = refs[j]
      /\ k \notin raced => n = refs[k]
  BY GetStoreInv DEF EndGet, IInv
<1>2. n <= held[k]
  BY DEF EndGet, GetStore, IInv, LoadedIsCovered
<1>3. /\ held \in [HostKeys -> Nat] /\ held' \in [HostKeys -> Nat]
      /\ held'[k] = held[k] + 1
      /\ \A j \in HostKeys : j # k => held'[j] = held[j]
      /\ raced' = raced
  BY <1>1 DEF EndGet, GetStore, IInv, TypeOK
<1>4. TypeOK'
  BY <1>1, <1>3 DEF TypeOK, PoolInv
<1>5. NeverOvercounts' /\ ExactUnlessRaced'
  BY <1>1, <1>2, <1>3 DEF IInv, NeverOvercounts, ExactUnlessRaced
<1>6. LoadedIsCovered'
  <2>1. /\ reading'[p].at = "out"
        /\ \A q \in Procs : q # p => reading'[q] = reading[q]
    BY DEF EndGet, GetStore, IInv, TypeOK, PoolTypeOK, Outside
  <2>2. \A q \in Procs : reading[q].at = "get" =>
          reading[q].key \in HostKeys /\ reading[q].n \in Nat
    BY GetterType DEF IInv, TypeOK
  <2>3. \A j \in HostKeys : held[j] <= held'[j] /\ held[j] \in Nat /\ held'[j] \in Nat
    BY <1>3
  <2>4. QED
    BY <2>1, <2>2, <2>3 DEF IInv, LoadedIsCovered
<1>7. QED
  BY <1>1, <1>4, <1>5, <1>6 DEF IInv

LEMMA SetIInv ==
    ASSUME IInv, NEW k \in HostKeys, NEW c \in Clients, Set(k, c)
    PROVE  IInv'
<1>1. /\ PoolInv'
      /\ refs'[k] = refs[k] + 1
      /\ \A j \in HostKeys : j # k => refs'[j] = refs[j]
  BY SetConnectionInv DEF Set, IInv
<1>2. TypeOK'
  BY <1>1 DEF Set, IInv, TypeOK, PoolInv
<1>3. NeverOvercounts' /\ ExactUnlessRaced' /\ LoadedIsCovered'
  BY <1>1 DEF Set, SetConnection, WriteLockFree, IInv, TypeOK, PoolTypeOK,
              NeverOvercounts, ExactUnlessRaced, LoadedIsCovered
<1>4. QED
  BY <1>1, <1>2, <1>3 DEF IInv

LEMMA ReleaseIInv ==
    ASSUME IInv, NEW k \in HostKeys, Release(k)
    PROVE  IInv'
<1>1. /\ PoolInv'
      /\ refs'[k] = IF refs[k] = 0 THEN 0 ELSE refs[k] - 1
      /\ \A j \in HostKeys : j # k => refs'[j] = refs[j]
  BY ReleaseConnectionInv DEF Release, IInv
<1>2. TypeOK'
  BY <1>1 DEF Release, IInv, TypeOK, PoolInv
<1>3. NeverOvercounts' /\ ExactUnlessRaced' /\ LoadedIsCovered'
  BY <1>1 DEF Release, ReleaseConnection, WriteLockFree, IInv, TypeOK, PoolTypeOK,
              NeverOvercounts, ExactUnlessRaced, LoadedIsCovered
<1>4. QED
  BY <1>1, <1>2, <1>3 DEF IInv

(* Every step keeps IInv. *)
LEMMA NextIInv == IInv /\ [Next]_vars => IInv'
<1> SUFFICES ASSUME IInv, [Next]_vars
             PROVE  IInv'
  OBVIOUS
<1>1. ASSUME NEW p \in Procs, NEW k \in HostKeys, BeginGet(p, k)
      PROVE  IInv'
  BY <1>1, BeginGetIInv
<1>2. ASSUME NEW p \in Procs, EndGet(p)
      PROVE  IInv'
  BY <1>2, EndGetIInv
<1>3. ASSUME NEW k \in HostKeys, NEW c \in Clients, Set(k, c)
      PROVE  IInv'
  BY <1>3, SetIInv
<1>4. ASSUME NEW k \in HostKeys, Release(k)
      PROVE  IInv'
  BY <1>4, ReleaseIInv
<1>5. CASE UNCHANGED vars
  BY <1>5, PoolStutter
  DEF vars, poolVars, IInv, TypeOK, PoolTypeOK, NeverOvercounts, ExactUnlessRaced,
      LoadedIsCovered
<1>6. QED
  BY <1>1, <1>2, <1>3, <1>4, <1>5 DEF Next

LEMMA InvariantIInv == Spec => []IInv
  BY InitIInv, NextIInv, PTL DEF Spec

(* The state of the pool and the counts of its callers keep their types: a *)
(* count never goes below zero, however gets overlap with releases.        *)
THEOREM PoolTyped == Spec => []TypeOK
<1>1. IInv => TypeOK
  BY DEF IInv
<1>2. QED
  BY <1>1, InvariantIInv, PTL

(* The two maps always have the same keys and pooled clients are open. *)
THEOREM PoolIsConsistent == Spec => []PoolConsistent
<1>1. IInv => PoolConsistent
  BY DEF IInv, PoolInv
<1>2. QED
  BY <1>1, InvariantIInv, PTL

(* A count never exceeds the references that are out. *)
THEOREM PoolNeverOvercounts == Spec => []NeverOvercounts
<1>1. IInv => NeverOvercounts
  BY DEF IInv
<1>2. QED
  BY <1>1, InvariantIInv, PTL

(* A count is the number of references out unless two increments of its    *)
(* key have overlapped.                                                    *)
THEOREM PoolExactUnlessRaced == Spec => []ExactUnlessRaced
<1>1. IInv => ExactUnlessRaced
  BY DEF IInv
<1>2. QED
  BY <1>1, InvariantIInv, PTL

-----------------------------------------------------------------------------
(* The refinement, shown up to the first overlap of two increments.        *)
LEMMA InitShared == Init => Shared!Init
  BY DEF Init, PoolInit, Shared!Init

\* The end of a get is where a user joins: the count it loaded is the count.
LEMMA EndGetShared ==
    ASSUME IInv, raced = {}, NEW p \in Procs, EndGet(p)
    PROVE  \E k \in HostKeys : Shared!Join(k)
<1> DEFINE k == reading[p].key
<1>1. k \in HostKeys /\ Pooled(k)
  BY GetterType DEF EndGet, GetStore, IInv, PoolInv, GetterSeesEntry
<1>2. held[k] > 0
  BY <1>1 DEF IInv, PoolInv, PoolConsistent, ExactUnlessRaced
<1>3. Shared!Join(k)
  BY <1>1, <1>2 DEF EndGet, GetStore, Shared!Join
<1>4. QED
  BY <1>1, <1>3

LEMMA SetShared ==
    ASSUME IInv, raced = {}, NEW k \in HostKeys, NEW c \in Clients, Set(k, c)
    PROVE  Shared!Offer(k, c)
<1>1. Pooled(k) <=> held[k] # 0
  BY DEF IInv, PoolInv, PoolConsistent, ExactUnlessRaced, TypeOK
<1>2. QED
  BY <1>1 DEF Set, SetConnection, Shared!Offer

LEMMA ReleaseShared ==
    ASSUME IInv, raced = {}, NEW k \in HostKeys, Release(k)
    PROVE  Shared!Leave(k)
<1>1. held[k] \in Nat /\ held[k] > 0 /\ refs[k] = held[k]
  BY DEF Release, IInv, ExactUnlessRaced, TypeOK
<1>2. connections[k] # NoClient
  BY <1>1 DEF IInv, PoolInv, PoolConsistent, Pooled
<1>3. refs[k] <= 1 <=> held[k] = 1
  BY <1>1
<1>4. QED
  BY <1>1, <1>2, <1>3 DEF Release, ReleaseConnection, Shared!Leave

LEMMA StepShared ==
    IInv /\ raced = {} /\ [Next]_vars => [Shared!Next]_(Shared!sharedVars)
<1> SUFFICES ASSUME IInv, raced = {}, [Next]_vars
             PROVE  [Shared!Next]_(Shared!sharedVars)
  OBVIOUS
<1>1. ASSUME NEW p \in Procs, NEW k \in HostKeys, BeginGet(p, k)
      PROVE  UNCHANGED Shared!sharedVars
  BY <1>1 DEF BeginGet, GetLoad, Shared!sharedVars
<1>2. CASE UNCHANGED vars
  BY <1>2 DEF vars, Shared!sharedVars
<1>3. QED
  BY <1>1, <1>2, EndGetShared, SetShared, ReleaseShared DEF Next, Shared!Next

(* For any hosts, clients, goroutines and bound: until two increments      *)
(* overlap, the pool shares one client among the users of a host and       *)
(* closes it with the last one.                                            *)
THEOREM PoolImplementsShared == Spec => ImplementsShared
<1>1. IInv /\ [Next]_vars => (raced = {} => [Shared!Next]_(Shared!sharedVars))
  BY StepShared
<1>2. QED
  BY <1>1, InitShared, InvariantIInv, PTL DEF Spec, ImplementsShared

-----------------------------------------------------------------------------
\* A promised secret is on file, under the key of its password and its salt.
OnFileAs(k) ==
  /\ ringFile # Wreck
  /\ ringFile[k] # NoSecret
  /\ ringFile[k].cipher =
       Encrypt(DerivedKey(promised[k].password, ringFile[k].salt), promised[k].secret)

PromisesOnFile == \A k \in SecretKeys : promised[k] # NoSecret => OnFileAs(k)

KeyringInv == KeyringTypeOK /\ PromisesOnFile

LEMMA KeyringInitInv == KeyringInit => KeyringInv
  BY DEF KeyringInit, KeyringInv, KeyringTypeOK, PromisesOnFile, Closed, NoEntries, EntryTable

\* A save of a table in which the changed entries are as promised.
LEMMA SavesInv ==
  ASSUME KeyringInv, NEW r \in Rings, NEW keys \in SUBSET SecretKeys, NEW table \in EntryTable,
         NEW promise \in [secret : Secrets, password : Passwords] \cup {NoSecret},
         Saves(r, keys, table, promise),
         promise # NoSecret =>
           \A k \in keys :
             /\ table[k] # NoSecret
             /\ table[k].cipher = Encrypt(DerivedKey(promise.password, table[k].salt), promise.secret)
  PROVE  KeyringInv'
<1> DEFINE WithPromise == [k \in SecretKeys |->
                             IF k \in keys THEN promise
                             ELSE IF ringFile # Wreck /\ table[k] = ringFile[k]
                                  THEN promised[k] ELSE NoSecret]
           Without == [k \in SecretKeys |-> IF k \in keys THEN NoSecret ELSE promised[k]]
<1>1. \/ ringFile' = table /\ promised' = WithPromise
      \/ ringFile' = Wreck /\ promised' = NoEntries
      \/ ringFile' = ringFile /\ promised' = Without
  BY DEF Saves
<1>2. KeyringTypeOK'
  <2> USE DEF KeyringInv, KeyringTypeOK
  <2>1. openings' \in Nat
    BY DEF Saves
  <2>2. [ring[r] EXCEPT !.entries = table]
          \in [password : Passwords \cup {NoSecret}, salt : Nat, entries : EntryTable]
    OBVIOUS
  <2>3. /\ ring' \in [Rings -> [password : Passwords \cup {NoSecret}, salt : Nat,
                                entries : EntryTable]]
        /\ \A s \in Rings : ring'[s].salt # 0 => ring'[s].password \in Passwords
    BY <2>2 DEF Saves
  <2>4. ringFile' \in EntryTable \cup {Wreck}
    BY <1>1
  <2>5. promised' \in [SecretKeys -> [secret : Secrets, password : Passwords] \cup {NoSecret}]
    BY <1>1 DEF NoEntries
  <2> QED
    BY <2>1, <2>3, <2>4, <2>5
<1>3. PromisesOnFile'
  <2> SUFFICES ASSUME NEW k \in SecretKeys, promised'[k] # NoSecret PROVE OnFileAs(k)'
    BY DEF PromisesOnFile
  <2>1. CASE ringFile' = table /\ promised' = WithPromise
    <3>1. table # Wreck
      BY KeyringAssumption
    <3>2. CASE k \in keys
      BY <2>1, <3>1, <3>2 DEF OnFileAs
    <3>3. CASE k \notin keys
      BY <2>1, <3>1, <3>3 DEF OnFileAs, KeyringInv, PromisesOnFile
    <3> QED
      BY <3>2, <3>3
  <2>2. CASE ringFile' = Wreck /\ promised' = NoEntries
    BY <2>2 DEF NoEntries
  <2>3. CASE ringFile' = ringFile /\ promised' = Without
    BY <2>3 DEF OnFileAs, KeyringInv, PromisesOnFile
  <2> QED
    BY <1>1, <2>1, <2>2, <2>3
<1> QED
  BY <1>2, <1>3 DEF KeyringInv

LEMMA KeyringStepInv == KeyringInv /\ KeyringNext => KeyringInv'
<1> SUFFICES ASSUME KeyringInv, NEW r \in Rings,
                    \/ \E password \in Passwords : NewKeyring(r, password)
                    \/ \E k \in SecretKeys, secret \in Secrets : SetSecret(r, k, secret)
                    \/ \E k \in SecretKeys : DeleteSecret(r, k)
                    \/ ClearRing(r)
                    \/ Close(r)
             PROVE  KeyringInv'
  BY DEF KeyringNext
<1>1. ASSUME NEW password \in Passwords, NewKeyring(r, password) PROVE KeyringInv'
  <2>1. NoEntries \in EntryTable
    BY DEF NoEntries, EntryTable
  <2>2. KeyringTypeOK'
    BY <1>1, <2>1 DEF KeyringInv, KeyringTypeOK, NewKeyring, OnFile, FreshSalt
  <2> QED
    BY <1>1, <2>2 DEF KeyringInv, PromisesOnFile, OnFileAs, NewKeyring
<1>2. ASSUME NEW k \in SecretKeys, NEW secret \in Secrets, SetSecret(r, k, secret) PROVE KeyringInv'
  <2> DEFINE sealer == DerivedKey(ring[r].password, ring[r].salt)
             entry == [salt |-> ring[r].salt, cipher |-> Encrypt(sealer, secret)]
             table == [ring[r].entries EXCEPT ![k] = entry]
             promise == [secret |-> secret, password |-> ring[r].password]
  <2>1. /\ ring[r].password \in Passwords /\ ring[r].salt \in Nat
        /\ ring[r].entries \in EntryTable
    BY <1>2 DEF SetSecret, KeyringInv, KeyringTypeOK
  <2>2. entry \in Sealed /\ entry # NoSecret
    BY <2>1, KeyringAssumption DEF Sealed, Encrypt, DerivedKey
  <2>3. table \in EntryTable /\ table[k] = entry
    BY <2>1, <2>2 DEF EntryTable
  <2>4. Saves(r, {k}, table, promise)
    BY <1>2 DEF SetSecret
  <2>5. promise \in [secret : Secrets, password : Passwords]
    BY <2>1
  <2>6. entry.cipher = Encrypt(DerivedKey(promise.password, entry.salt), promise.secret)
    OBVIOUS
  <2> HIDE DEF entry, table, promise
  <2> QED
    BY <2>2, <2>3, <2>4, <2>5, <2>6, SavesInv
<1>3. ASSUME NEW k \in SecretKeys, DeleteSecret(r, k) PROVE KeyringInv'
  <2>1. [ring[r].entries EXCEPT ![k] = NoSecret] \in EntryTable
    BY DEF KeyringInv, KeyringTypeOK, EntryTable
  <2> QED
    BY <1>3, <2>1, SavesInv DEF DeleteSecret
<1>4. CASE ClearRing(r)
  <2>1. NoEntries \in EntryTable
    BY DEF NoEntries, EntryTable
  <2> QED
    BY <1>4, <2>1, SavesInv DEF ClearRing
<1>5. CASE Close(r)
  <2>1. Closed \in [password : Passwords \cup {NoSecret}, salt : Nat, entries : EntryTable]
    BY DEF Closed, NoEntries, EntryTable
  <2>2. KeyringTypeOK'
    BY <1>5, <2>1 DEF KeyringInv, KeyringTypeOK, Close, Closed
  <2> QED
    BY <1>5, <2>2 DEF KeyringInv, PromisesOnFile, OnFileAs, Close
<1> QED
  BY <1>1, <1>2, <1>3, <1>4, <1>5

(***************************************************************************)
(* A secret that was stored can be read with its password by every ring    *)
(* that loads the file, and with no other (keyring.go:55-101), for any     *)
(* number of rings, passwords and secrets - as long as no save of a ring   *)
(* that had not loaded it has taken it from the file (keyring.go:175),     *)
(* which ends the promise.                                                 *)
(***************************************************************************)
THEOREM StoredSecretsReadable == KeyringSpec => []SecretsReadable
<1>1. KeyringInv /\ [KeyringNext]_keyringVars => KeyringInv'
  <2> SUFFICES ASSUME KeyringInv, [KeyringNext]_keyringVars PROVE KeyringInv'
    OBVIOUS
  <2>1. CASE KeyringNext
    BY <2>1, KeyringStepInv
  <2>2. CASE UNCHANGED keyringVars
    BY <2>2 DEF keyringVars, KeyringInv, KeyringTypeOK, PromisesOnFile, OnFileAs
  <2> QED
    BY <2>1, <2>2
<1>2. KeyringInv => SecretsReadable
  <2> SUFFICES ASSUME KeyringInv, NEW k \in SecretKeys, promised[k] # NoSecret,
                      NEW password \in Passwords
               PROVE  GetSecret(OnFile(password, FreshSalt), k) =
                        IF password = promised[k].password THEN promised[k].secret
                        ELSE NoSecret
    BY DEF SecretsReadable
  <2>1. OnFileAs(k)
    BY DEF KeyringInv, PromisesOnFile
  <2> QED
    BY <2>1 DEF OnFileAs, GetSecret, OnFile, Decrypt, Encrypt, DerivedKey
<1> QED
  BY <1>1, <1>2, KeyringInitInv, PTL DEF KeyringSpec

-----------------------------------------------------------------------------
(* Resumed transfers.  While calls do not overlap, one caller at a time has *)
(* a record to change or to enter, and what it has in hand is what was      *)
(* asked for last; once it is through, the file and the table have that.    *)

SaverPlaces == {"idle", "set", "register", "marshal", "write", "delete", "remove", "read",
                "loaded", "resume"}

\* A call that changes a record has one.
Changing == {"set", "register", "marshal"}
SaverCalls ==
  {v \in [at : SaverPlaces, rec : Records \cup {NoRecord}, data : Nat] :
     v.at \in Changing => v.rec \in Records}

ResumeTyped ==
  /\ state \in Records \cup {NoRecord}
  /\ transferred \in [Records -> Nat]
  /\ made \in Nat
  /\ resumeFile \in Nat \cup {NoRecord}
  /\ saver \in [Callers -> SaverCalls]
  /\ reported \in Nat \cup {NoRecord}
  /\ callsCrossed \in BOOLEAN /\ saveFailed \in BOOLEAN

\* What a call that nobody disturbs has in hand.
CallCurrent(v) ==
  /\ v.at = "set" => v.rec \in Records /\ v.data = reported
  /\ v.at \in {"register", "marshal", "write"} => v.rec \in Records /\ transferred[v.rec] = reported
  /\ v.at \in {"marshal", "write"} => state = v.rec
  /\ v.at = "write" => v.data = reported
  /\ v.at \in {"delete", "remove"} => reported = NoRecord
  /\ v.at \in {"remove", "read", "loaded"} => state = NoRecord
  /\ v.at = "loaded" => v.rec \in Records /\ (saveFailed \/ transferred[v.rec] = reported)

OneBusy == \A c, d \in Callers : Busy(c) /\ Busy(d) => c = d

StoredCurrent ==
  (\A c \in Callers : ~Storing(c)) =>
    saveFailed \/ (resumeFile = reported /\ (state # NoRecord => transferred[state] = reported))

RecordInv ==
  /\ ResumeTyped
  /\ ~callsCrossed => OneBusy /\ StoredCurrent /\ \A c \in Callers : CallCurrent(saver[c])

LEMMA ResumeInitInv == ResumeInit => RecordInv
<1> SUFFICES ASSUME ResumeInit PROVE RecordInv
  OBVIOUS
<1>1. NotCalling \in SaverCalls /\ NotCalling.at = "idle"
  BY DEF NotCalling, SaverCalls, SaverPlaces, Changing
<1>2. saver \in [Callers -> SaverCalls] /\ \A c \in Callers : saver[c] = NotCalling
  BY <1>1 DEF ResumeInit
<1>3. ResumeTyped
  BY <1>2 DEF ResumeInit, ResumeTyped
<1>4. \A c \in Callers : ~Busy(c) /\ CallCurrent(saver[c])
  BY <1>1, <1>2 DEF Busy, Storing, CallCurrent
<1>5. StoredCurrent
  BY DEF ResumeInit, StoredCurrent
<1> QED
  BY <1>3, <1>4, <1>5 DEF RecordInv, OneBusy

\* What a call is set to is a call, and the others' stay.
LEMMA CallersTyped ==
  ASSUME ResumeTyped, NEW c \in Callers
  PROVE  /\ \A at \in SaverPlaces :
              Goes(c, at) /\ (at \in Changing => saver[c].rec \in Records) =>
                saver' \in [Callers -> SaverCalls]
         /\ \A at \in SaverPlaces, r \in Records \cup {NoRecord}, n \in Nat :
              Calls(c, at, r, n) /\ (at \in Changing => r \in Records) =>
                saver' \in [Callers -> SaverCalls]
         /\ Returned(c) => saver' \in [Callers -> SaverCalls]
<1>1. saver[c] \in SaverCalls
  BY DEF ResumeTyped
<1>2. \A at \in SaverPlaces :
        (at \in Changing => saver[c].rec \in Records) => [saver[c] EXCEPT !.at = at] \in SaverCalls
  BY <1>1 DEF SaverCalls
<1>3. \A at \in SaverPlaces, r \in Records \cup {NoRecord}, n \in Nat :
        (at \in Changing => r \in Records) => [at |-> at, rec |-> r, data |-> n] \in SaverCalls
  BY DEF SaverCalls
<1>4. NotCalling \in SaverCalls
  BY DEF NotCalling, SaverCalls, SaverPlaces, Changing
<1> QED
  BY <1>1, <1>2, <1>3, <1>4 DEF ResumeTyped, Goes, Calls, Returned

\* Numbers stay numbers, and what is in hand is a record.
LEMMA ResumeTypes == ResumeTyped /\ ResumeNext => ResumeTyped'
<1> SUFFICES ASSUME ResumeTyped, ResumeNext PROVE ResumeTyped'
  OBVIOUS
<1> USE ResumeAssumption
<1> DEFINE CallsTyped == saver' \in [Callers -> SaverCalls]
<1>1. CASE RestartResume
  <2>1. NotCalling \in SaverCalls
    BY DEF NotCalling, SaverCalls, SaverPlaces, Changing
  <2>2. CallsTyped /\ transferred' \in [Records -> Nat]
    BY <1>1, <2>1 DEF RestartResume
  <2> QED
    BY <1>1, <2>2 DEF RestartResume, ResumeTyped
<1>2. ASSUME NEW c \in Callers,
             \/ CreateResumeState(c) \/ DeleteState(c) \/ \E n \in 0 .. Parts : UpdateProgress(c, n)
             \/ FileChanged(c)
      PROVE  ResumeTyped'
  <2>a. BesideOthers(c) \in BOOLEAN
    BY DEF BesideOthers
  <2>1. CASE CreateResumeState(c)
    <3>1. made + 1 \in Records /\ made' \in Nat /\ transferred' \in [Records -> Nat]
      BY <2>1 DEF CreateResumeState, Makes, Records, ResumeTyped
    <3>2. "register" \in SaverPlaces
      BY DEF SaverPlaces
    <3>3. CallsTyped
      BY <2>1, <3>1, <3>2, CallersTyped DEF CreateResumeState
    <3> QED
      BY <2>1, <3>1, <3>3, <2>a DEF CreateResumeState, Reports, ResumeTyped
  <2>2. CASE DeleteState(c)
    <3>1. "delete" \in SaverPlaces \ Changing
      BY DEF SaverPlaces, Changing
    <3>2. CallsTyped
      BY <2>2, <3>1, CallersTyped DEF DeleteState
    <3> QED
      BY <2>2, <3>2, <2>a DEF DeleteState, Reports, ResumeTyped
  <2>3. ASSUME NEW n \in 0 .. Parts, UpdateProgress(c, n) PROVE ResumeTyped'
    <3>1. "set" \in SaverPlaces /\ n \in Nat
      BY DEF SaverPlaces
    <3>2. CallsTyped
      BY <2>3, <3>1, CallersTyped DEF UpdateProgress, ResumeTyped
    <3> QED
      BY <2>3, <3>1, <3>2, <2>a DEF UpdateProgress, Reports, ResumeTyped
  <2>4. CASE FileChanged(c)
    <3>1. "delete" \in SaverPlaces \ Changing
      BY DEF SaverPlaces, Changing
    <3>2. CallsTyped
      BY <2>4, <3>1, CallersTyped DEF FileChanged
    <3> QED
      BY <2>4, <3>2, <2>a DEF FileChanged, Reports, ResumeTyped
  <2> QED
    BY <1>2, <2>1, <2>2, <2>3, <2>4
<1>3. ASSUME NEW c \in Callers, SetTransferred(c) \/ EnterState(c) \/ MarshalState(c)
      PROVE  ResumeTyped'
  <2>1. saver[c] \in SaverCalls
    BY DEF ResumeTyped
  <2>2. saver[c].rec \in Records /\ saver[c].data \in Nat
    BY <1>3, <2>1 DEF SaverCalls, Changing, SetTransferred, EnterState, MarshalState
  <2>3. {"register", "marshal"} \subseteq SaverPlaces /\ "write" \in SaverPlaces \ Changing
    BY DEF SaverPlaces, Changing
  <2>4. CASE SetTransferred(c)
    BY <2>2, <2>3, <2>4, CallersTyped DEF SetTransferred, ResumeTyped
  <2>5. CASE EnterState(c)
    BY <2>2, <2>3, <2>5, CallersTyped DEF EnterState, ResumeTyped
  <2>6. CASE MarshalState(c)
    <3>1. transferred[saver[c].rec] \in Nat
      BY <2>2 DEF ResumeTyped
    <3>2. [saver[c] EXCEPT !.at = "write", !.data = transferred[saver[c].rec]] \in SaverCalls
      BY <2>1, <2>3, <3>1 DEF SaverCalls
    <3>3. CallsTyped
      BY <2>6, <3>2 DEF MarshalState, ResumeTyped
    <3> QED
      BY <2>6, <3>3 DEF MarshalState, ResumeTyped
  <2> QED
    BY <1>3, <2>4, <2>5, <2>6
<1>4. ASSUME NEW c \in Callers,
             WriteState(c) \/ WriteFails(c) \/ Forget(c) \/ RemoveFile(c) \/ TransferReturns(c)
      PROVE  ResumeTyped'
  <2>1. "remove" \in SaverPlaces \ Changing
    BY DEF SaverPlaces, Changing
  <2>2. CallsTyped
    BY <1>4, <2>1, CallersTyped DEF WriteState, WriteFails, Forget, RemoveFile, TransferReturns
  <2>3. saver[c].data \in Nat
    BY DEF ResumeTyped, SaverCalls
  <2> QED
    BY <1>4, <2>2, <2>3 DEF WriteState, WriteFails, Forget, RemoveFile, TransferReturns, ResumeTyped
<1>5. ASSUME NEW c \in Callers, LoadState(c) \/ ReadState(c) \/ ReadFails(c) \/ LoadEnters(c)
      PROVE  ResumeTyped'
  <2>1. {"resume", "read", "loaded"} \subseteq SaverPlaces \ Changing
    BY DEF SaverPlaces, Changing
  <2>2. CASE LoadState(c)
    <3>1. CallsTyped
      BY <2>1, <2>2, CallersTyped DEF LoadState, ResumeTyped
    <3> QED
      BY <2>2, <3>1 DEF LoadState, ResumeTyped
  <2>3. CASE ReadState(c)
    <3>1. made + 1 \in Records /\ made' \in Nat /\ transferred' \in [Records -> Nat]
      BY <2>3 DEF ReadState, Makes, Records, ResumeTyped
    <3>2. CallsTyped
      BY <2>1, <2>3, <3>1, CallersTyped DEF ReadState
    <3> QED
      BY <2>3, <3>1, <3>2 DEF ReadState, ResumeTyped
  <2>4. CASE ReadFails(c)
    BY <2>4, CallersTyped DEF ReadFails, ResumeTyped
  <2>5. CASE LoadEnters(c)
    <3>1. saver[c].rec \in Records \cup {NoRecord}
      BY DEF ResumeTyped, SaverCalls
    <3> QED
      BY <2>1, <2>5, <3>1, CallersTyped DEF LoadEnters, ResumeTyped
  <2> QED
    BY <1>5, <2>2, <2>3, <2>4, <2>5
<1> QED
  BY <1>1, <1>2, <1>3, <1>4, <1>5 DEF ResumeNext

\* One caller is busy at most, and it is as it should be.
LEMMA AloneIsCurrent ==
  ASSUME ResumeTyped, ResumeTyped', NEW c \in Callers, saver' = [saver EXCEPT ![c] = saver'[c]],
         \A d \in Callers \ {c} : ~Busy(d),
         CallCurrent(saver[c])', StoredCurrent'
  PROVE  RecordInv'
<1>1. \A d \in Callers \ {c} : saver'[d] = saver[d]
  BY DEF ResumeTyped
<1>2. ASSUME NEW d \in Callers \ {c} PROVE ~Busy(d)' /\ CallCurrent(saver[d])'
  BY <1>1, <1>2 DEF Busy, Storing, CallCurrent
<1> QED
  BY <1>2 DEF RecordInv, OneBusy

\* A change begins: it has the record to itself, or calls have crossed.
LEMMA ChangeBegins ==
  ASSUME RecordInv, ResumeTyped', NEW c \in Callers, NEW at, NEW r, NEW data, NEW what,
         Calls(c, at, r, data), Reports(c, what), at \in {"set", "register", "delete"},
         at = "set" => r \in Records /\ data = what,
         at = "register" => r \in Records /\ transferred'[r] = what,
         at = "delete" => what = NoRecord
  PROVE  RecordInv'
<1> DEFINE v == [at |-> at, rec |-> r, data |-> data]
<1>1. CASE callsCrossed'
  BY <1>1 DEF RecordInv
<1>2. CASE ~callsCrossed'
  <2>1. \A d \in Callers \ {c} : ~Busy(d)
    BY <1>2 DEF Reports, BesideOthers
  <2>2. saver' = [saver EXCEPT ![c] = saver'[c]] /\ saver'[c] = v
    BY DEF Calls, RecordInv, ResumeTyped
  <2>3. CallCurrent(saver[c])'
    BY <2>2 DEF CallCurrent, Reports
  <2>4. StoredCurrent'
    BY <2>2 DEF StoredCurrent, Storing
  <2> QED
    BY <2>1, <2>2, <2>3, <2>4, AloneIsCurrent DEF RecordInv
<1> QED
  BY <1>1, <1>2 DEF RecordInv, ResumeTyped

LEMMA ChangesInv ==
  ASSUME RecordInv, ResumeTyped', NEW c \in Callers,
         \/ CreateResumeState(c) \/ DeleteState(c) \/ \E n \in 0 .. Parts : UpdateProgress(c, n)
         \/ FileChanged(c)
  PROVE  RecordInv'
<1>1. CASE CreateResumeState(c)
  <2>1. made + 1 \in Records /\ transferred'[made + 1] = 0
    BY <1>1, ResumeAssumption DEF CreateResumeState, Makes, Records, RecordInv, ResumeTyped
  <2> QED
    BY <1>1, <2>1, ChangeBegins DEF CreateResumeState
<1>2. CASE DeleteState(c)
  BY <1>2, ChangeBegins DEF DeleteState
<1>3. ASSUME NEW n \in 0 .. Parts, UpdateProgress(c, n) PROVE RecordInv'
  <2>1. state \in Records
    BY <1>3 DEF UpdateProgress, RecordInv, ResumeTyped
  <2> QED
    BY <1>3, <2>1, ChangeBegins DEF UpdateProgress
<1>4. CASE FileChanged(c)
  <2>1. saver[c] \in SaverCalls
    BY DEF RecordInv, ResumeTyped
  <2>2. [saver[c] EXCEPT !.at = "delete"] =
          [at |-> "delete", rec |-> saver[c].rec, data |-> saver[c].data]
    BY <2>1 DEF SaverCalls
  <2>3. Calls(c, "delete", saver[c].rec, saver[c].data)
    BY <1>4, <2>2 DEF FileChanged, Goes, Calls, RecordInv, ResumeTyped
  <2> QED
    BY <1>4, <2>3, ChangeBegins DEF FileChanged
<1> QED
  BY <1>1, <1>2, <1>3, <1>4

\* A busy caller that nobody disturbs goes on.
LEMMA StoringInv ==
  ASSUME RecordInv, ResumeTyped', NEW c \in Callers,
         \/ SetTransferred(c) \/ EnterState(c) \/ MarshalState(c) \/ WriteState(c) \/ WriteFails(c)
         \/ Forget(c) \/ RemoveFile(c) \/ ReadState(c) \/ ReadFails(c) \/ LoadEnters(c)
  PROVE  RecordInv'
<1> USE DEF SaverPlaces
<1>1. UNCHANGED callsCrossed
  BY DEF SetTransferred, EnterState, MarshalState, WriteState, WriteFails, Forget, RemoveFile,
         ReadState, ReadFails, LoadEnters
<1>2. CASE callsCrossed
  BY <1>1, <1>2 DEF RecordInv
<1>3. CASE ~callsCrossed
  <2> DEFINE v == saver'[c]
  <2>1. /\ Busy(c)
        /\ saver' = [saver EXCEPT ![c] = v]
    BY DEF SetTransferred, EnterState, MarshalState, WriteState, WriteFails, Forget, RemoveFile,
           ReadState, ReadFails, LoadEnters, Busy, Storing, Calls, Goes, Returned, RecordInv,
           ResumeTyped
  <2>2. \A d \in Callers \ {c} : ~Busy(d)
    BY <1>3, <2>1 DEF RecordInv, OneBusy
  <2>3. CallCurrent(saver[c]) /\ (\A d \in Callers \ {c} : ~Storing(d))
    BY <1>3, <2>2 DEF RecordInv, Busy
  <2>4. saver[c] \in SaverCalls
    BY DEF RecordInv, ResumeTyped
  <2>5. transferred \in [Records -> Nat]
    BY DEF RecordInv, ResumeTyped
  <2>6. ~Storing(c) => StoredCurrent /\ \A d \in Callers : ~Storing(d)
    BY <1>3, <2>3 DEF RecordInv
  <2>7. CASE SetTransferred(c)
    <3>1. v.at = "register" /\ v.rec = saver[c].rec
      BY <2>7, <2>4 DEF SetTransferred, Goes, RecordInv, ResumeTyped
    <3>2. CallCurrent(saver[c])'
      BY <2>7, <2>3, <2>5, <3>1 DEF CallCurrent, SetTransferred
    <3>3. StoredCurrent'
      BY <3>1 DEF StoredCurrent, Storing
    <3> QED
      BY <2>1, <2>2, <3>2, <3>3, AloneIsCurrent DEF RecordInv
  <2>8. CASE EnterState(c)
    <3>1. v.at = "marshal" /\ v.rec = saver[c].rec
      BY <2>8, <2>4 DEF EnterState, Goes, RecordInv, ResumeTyped
    <3>2. CallCurrent(saver[c])'
      BY <2>8, <2>3, <3>1 DEF CallCurrent, EnterState
    <3>3. StoredCurrent'
      BY <3>1 DEF StoredCurrent, Storing
    <3> QED
      BY <2>1, <2>2, <3>2, <3>3, AloneIsCurrent DEF RecordInv
  <2>9. CASE MarshalState(c)
    <3>1. v.at = "write" /\ v.rec = saver[c].rec /\ v.data = transferred[v.rec]
      BY <2>9, <2>4 DEF MarshalState, RecordInv, ResumeTyped
    <3>2. CallCurrent(saver[c])'
      BY <2>9, <2>3, <3>1 DEF CallCurrent, MarshalState
    <3>3. StoredCurrent'
      BY <3>1 DEF StoredCurrent, Storing
    <3> QED
      BY <2>1, <2>2, <3>2, <3>3, AloneIsCurrent DEF RecordInv
  <2>10. CASE Forget(c)
    <3>1. v.at = "remove"
      BY <2>10, <2>4 DEF Forget, Goes, RecordInv, ResumeTyped
    <3>2. CallCurrent(saver[c])'
      BY <2>10, <2>3, <3>1 DEF CallCurrent, Forget
    <3>3. StoredCurrent'
      BY <3>1 DEF StoredCurrent, Storing
    <3> QED
      BY <2>1, <2>2, <3>2, <3>3, AloneIsCurrent DEF RecordInv
  <2>11. CASE WriteState(c) \/ WriteFails(c) \/ RemoveFile(c) \/ ReadFails(c)
    <3>1. v.at = "idle"
      BY <2>11 DEF WriteState, WriteFails, RemoveFile, ReadFails, Returned, NotCalling, RecordInv,
                   ResumeTyped
    <3>2. CallCurrent(saver[c])'
      BY <3>1 DEF CallCurrent
    <3>3. StoredCurrent'
      <4>1. CASE WriteState(c)
        BY <1>3, <4>1, <2>3 DEF StoredCurrent, WriteState, CallCurrent
      <4>2. CASE WriteFails(c)
        BY <4>2 DEF StoredCurrent, WriteFails
      <4>3. CASE RemoveFile(c)
        BY <4>3, <2>3 DEF StoredCurrent, RemoveFile, CallCurrent
      <4>4. CASE ReadFails(c)
        BY <4>4, <2>6 DEF StoredCurrent, ReadFails, Storing
      <4> QED
        BY <2>11, <4>1, <4>2, <4>3, <4>4
    <3> QED
      BY <2>1, <2>2, <3>2, <3>3, AloneIsCurrent DEF RecordInv
  <2>12. CASE ReadState(c)
    <3>1. made + 1 \in Records
      BY <2>12, ResumeAssumption DEF ReadState, Makes, Records, RecordInv, ResumeTyped
    <3>2. v.at = "loaded" /\ v.rec = made + 1 /\ transferred'[made + 1] = resumeFile
      BY <2>12, <3>1 DEF ReadState, Calls, Makes, RecordInv, ResumeTyped
    <3>3. state = NoRecord /\ (saveFailed \/ resumeFile = reported)
      BY <2>12, <2>3, <2>6 DEF ReadState, CallCurrent, StoredCurrent, Storing
    <3>4. CallCurrent(saver[c])'
      BY <2>12, <3>1, <3>2, <3>3 DEF CallCurrent, ReadState
    <3>5. StoredCurrent'
      BY <2>12, <3>3 DEF StoredCurrent, ReadState
    <3> QED
      BY <2>1, <2>2, <3>4, <3>5, AloneIsCurrent DEF RecordInv
  <2>13. CASE LoadEnters(c)
    <3>1. v.at = "resume"
      BY <2>13, <2>4 DEF LoadEnters, Goes, RecordInv, ResumeTyped
    <3>2. CallCurrent(saver[c])'
      BY <3>1 DEF CallCurrent
    <3>3. StoredCurrent'
      BY <2>13, <2>3, <2>6 DEF StoredCurrent, LoadEnters, CallCurrent, Storing
    <3> QED
      BY <2>1, <2>2, <3>2, <3>3, AloneIsCurrent DEF RecordInv
  <2> QED
    BY <2>7, <2>8, <2>9, <2>10, <2>11, <2>12, <2>13
<1> QED
  BY <1>2, <1>3

\* A load that finds its record in the table changes nothing; another one
\* crosses whoever is busy.
LEMMA LoadsInv ==
  ASSUME RecordInv, ResumeTyped', NEW c \in Callers, LoadState(c) \/ TransferReturns(c)
  PROVE  RecordInv'
<1> DEFINE v == saver'[c]
<1>1. /\ UNCHANGED <<state, transferred, resumeFile, reported, saveFailed>>
      /\ saver' = [saver EXCEPT ![c] = v]
      /\ v.at \in {"idle", "resume", "read"} /\ ~Busy(c)
  BY DEF LoadState, TransferReturns, Calls, Returned, NotCalling, Busy, Storing, RecordInv,
         ResumeTyped
<1>2. \A d \in Callers \ {c} : saver'[d] = saver[d]
  BY <1>1 DEF RecordInv, ResumeTyped
<1>3. \A d \in Callers : Storing(d)' <=> Storing(d)
  BY <1>1, <1>2 DEF Storing, Busy
<1>4. StoredCurrent => StoredCurrent'
  BY <1>1, <1>3 DEF StoredCurrent
<1>5. ASSUME ~callsCrossed' PROVE OneBusy' /\ StoredCurrent' /\ \A d \in Callers : CallCurrent(saver[d])'
  <2>1. ~callsCrossed /\ StoredCurrent'
    BY <1>4, <1>5 DEF LoadState, TransferReturns, RecordInv, ResumeTyped
  <2>2. \A d \in Callers \ {c} : CallCurrent(saver[d])' /\ (Busy(d)' <=> Busy(d))
    BY <1>1, <1>2, <2>1 DEF RecordInv, CallCurrent, Busy, Storing
  <2>3. CASE v.at = "read"
    <3>1. state = NoRecord /\ \A d \in Callers \ {c} : ~Busy(d)
      BY <1>5, <2>3, <2>1 DEF LoadState, TransferReturns, BesideOthers, Calls, Returned, NotCalling,
                         RecordInv, ResumeTyped
    <3>2. CallCurrent(saver[c])'
      BY <1>1, <2>3, <3>1 DEF CallCurrent
    <3> QED
      BY <2>1, <2>2, <3>1, <3>2 DEF OneBusy
  <2>4. CASE v.at # "read"
    <3>1. ~Busy(c)' /\ CallCurrent(saver[c])'
      BY <1>1, <2>4 DEF Busy, Storing, CallCurrent
    <3> QED
      BY <2>1, <2>2, <3>1 DEF OneBusy, RecordInv
  <2> QED
    BY <2>3, <2>4
<1> QED
  BY <1>5 DEF RecordInv

LEMMA RestartResumeInv ==
  ASSUME RecordInv, ResumeTyped', RestartResume
  PROVE  RecordInv'
<1>1. \A c \in Callers : saver'[c] = NotCalling
  BY DEF RestartResume
<1>2. OneBusy' /\ \A c \in Callers : CallCurrent(saver[c])'
  BY <1>1 DEF OneBusy, Busy, Storing, CallCurrent, NotCalling
<1>3. ASSUME ~callsCrossed' PROVE StoredCurrent'
  <2>1. ~callsCrossed /\ \A c \in Callers : ~Storing(c)
    BY <1>3 DEF RestartResume, RecordInv, ResumeTyped
  <2>2. resumeFile' = resumeFile
    BY <2>1 DEF RestartResume, Storing
  <2> QED
    BY <2>1, <2>2 DEF RestartResume, RecordInv, StoredCurrent
<1> QED
  BY <1>2, <1>3 DEF RecordInv

LEMMA RecordStepInv == RecordInv /\ [ResumeNext]_resumeVars => RecordInv'
<1> SUFFICES ASSUME RecordInv, [ResumeNext]_resumeVars PROVE RecordInv'
  OBVIOUS
<1>1. CASE UNCHANGED resumeVars
  BY <1>1 DEF resumeVars, RecordInv, ResumeTyped, OneBusy, StoredCurrent, CallCurrent, Busy, Storing
<1>2. CASE ResumeNext
  BY <1>2, ResumeTypes, ChangesInv, StoringInv, LoadsInv, RestartResumeInv DEF ResumeNext, RecordInv
<1> QED
  BY <1>1, <1>2

(***************************************************************************)
(* What a transfer would go on from, in the table and in the file, is what *)
(* was reported of it last (resume.go:44-92, 206-231), with the excuses of *)
(* the property, for any number of callers, records and crashes and any    *)
(* progress.  That is not inductive: a change under way must hold what was *)
(* reported, and so must a load that has yet to enter its record.          *)
(***************************************************************************)
THEOREM RecordStaysCurrent == ResumeSpec => []RecordIsCurrent
<1>1. RecordInv => RecordIsCurrent
  BY DEF RecordInv, StoredCurrent, RecordIsCurrent
<1> QED
  BY <1>1, ResumeInitInv, RecordStepInv, PTL DEF ResumeSpec

-----------------------------------------------------------------------------
(* Synchronisation.  An older edit of a file survives only beside the       *)
(* newest one and is not dated later; so nothing decides by dates to copy   *)
(* it there, and what is copied is the newest edit or was cut short.        *)

SyncCalls == [up : BOOLEAN, mode : Modes, delete : BOOLEAN,
              at : {"idle", "first", "second", "decide", "run"}]
Sides == [Files -> Versions \cup {Absent, Directory}]
Looks == [Files -> Versions \cup {Absent}]
Jobs == [Files -> {"none", "queued", "copying"}]

SyncTyped ==
  /\ clock \in Nat /\ edits \in Nat
  /\ local \in Sides /\ remote \in Sides
  /\ call \in [SyncCallers -> SyncCalls]
  /\ seenLocal \in [SyncCallers -> Looks] /\ seenRemote \in [SyncCallers -> Looks]
  /\ orphans \in [SyncCallers -> SUBSET Files]
  /\ job \in [SyncCallers -> Jobs]
  /\ opened \in [SyncCallers -> [Files -> Nat]]
  /\ newest \in [Files -> Nat]

\* A file is no directory and not from the future, and what was seen of it is
\* no later than it is.
Dated(v) == v # Directory /\ (v # Absent => v.mtime <= clock)
Seen(v, seen) == seen # Absent => seen.mtime <= clock /\ (v # Absent => seen.mtime <= v.mtime)

TimesGrow ==
  \A f \in Files \ {Folder} :
    /\ Dated(local[f]) /\ Dated(remote[f])
    /\ \A c \in SyncCallers : Seen(local[f], seenLocal[c][f]) /\ Seen(remote[f], seenRemote[c][f])

CallsOrdered ==
  /\ \A c \in SyncCallers : /\ orphans[c] \subseteq excused
                            /\ \A f \in Files : job[c][f] # "none" => call[c].at = "run"
  /\ \A f \in Files : newest[f] # 0 => f # Folder

Older(v, f) == v \notin {Absent, Directory} /\ v.data \notin {newest[f], HalfCopy}

LaterHolds(here, there, f) ==
  Older(here[f], f) => /\ f \in Plain(there) /\ there[f].data = newest[f]
                       /\ here[f].mtime <= there[f].mtime

CopiesWell(c, f) ==
  /\ job[c][f] # "none" => ~Older(Source(c)[f], f)
  /\ Copying(c, f) => /\ f \in Plain(Source(c)) /\ ~Older(Target(c)[f], f)
                      /\ opened[c][f] \in {newest[f], HalfCopy}

FileKept(f) ==
  /\ OnASide(f, newest[f]) \/ CutShort(f)
  /\ LaterHolds(local, remote, f) /\ LaterHolds(remote, local, f)
  /\ \A c \in SyncCallers : CopiesWell(c, f)

NewestKept == \A f \in Files \ excused : newest[f] # 0 => FileKept(f)

SyncInv == SyncTyped /\ TimesGrow /\ CallsOrdered /\ NewestKept

LEMMA SyncInitInv == SyncInit => SyncInv
<1> SUFFICES ASSUME SyncInit PROVE SyncInv
  OBVIOUS
<1>1. Idle \in SyncCalls
  BY DEF Idle, SyncCalls, Modes
<1>2. /\ Nothing \in Sides /\ Nothing \in Looks /\ NoJobs \in Jobs
      /\ \A f \in Files : Nothing[f] = Absent /\ NoJobs[f] = "none"
  BY DEF Nothing, NoJobs, Sides, Looks, Jobs
<1>3. [f \in Files |-> HalfCopy] \in [Files -> Nat]
  BY DEF HalfCopy
<1>4. SyncTyped
  BY <1>1, <1>2, <1>3 DEF SyncInit, SyncTyped
<1>5. TimesGrow
  BY <1>2, SyncAssumption DEF SyncInit, TimesGrow, Dated, Seen
<1>6. CallsOrdered /\ NewestKept
  BY <1>2 DEF SyncInit, CallsOrdered, NewestKept
<1> QED
  BY <1>4, <1>5, <1>6 DEF SyncInv

-----------------------------------------------------------------------------
\* A file that a step does not touch, but for a copy that is not made.
LEMMA KeptElsewhere ==
  ASSUME NEW f \in Files, FileKept(f), newest'[f] = newest[f],
         local'[f] = local[f], remote'[f] = remote[f],
         local \in Sides, remote \in Sides, local' \in Sides, remote' \in Sides,
         \A c \in SyncCallers :
           \/ job'[c][f] = "none"
           \/ job'[c][f] = job[c][f] /\ opened'[c][f] = opened[c][f] /\ call'[c].up = call[c].up
  PROVE  FileKept(f)'
<1>1. /\ Plain(local) = {g \in Files : local[g] \notin {Absent, Directory}}
      /\ Plain(remote) = {g \in Files : remote[g] \notin {Absent, Directory}}
      /\ Plain(local)' = {g \in Files : local'[g] \notin {Absent, Directory}}
      /\ Plain(remote)' = {g \in Files : remote'[g] \notin {Absent, Directory}}
  BY DEF Plain
<1>2. (OnASide(f, newest[f]) \/ CutShort(f))'
  BY <1>1 DEF FileKept, OnASide, CutShort
<1>3. LaterHolds(local, remote, f)' /\ LaterHolds(remote, local, f)'
  BY <1>1 DEF FileKept, LaterHolds, Older
<1>4. ASSUME NEW c \in SyncCallers PROVE CopiesWell(c, f)'
  <2>1. CASE job'[c][f] = "none"
    BY <2>1 DEF CopiesWell, Copying
  <2>2. CASE job'[c][f] = job[c][f] /\ opened'[c][f] = opened[c][f] /\ call'[c].up = call[c].up
    BY <1>1, <2>2 DEF FileKept, CopiesWell, Copying, Source, Target, Older
  <2> QED
    BY <2>1, <2>2
<1> QED
  BY <1>2, <1>3, <1>4 DEF FileKept

\* Time goes on, a file is left, removed or written now, and a look sees what
\* there is.
LEMMA TimesKept ==
  ASSUME SyncInv, SyncTyped', clock' >= clock,
         \A f \in Files \ {Folder} :
           /\ local'[f] \in {local[f], Absent} \/ (local'[f] \in Versions /\ local'[f].mtime = clock)
           /\ remote'[f] \in {remote[f], Absent} \/ (remote'[f] \in Versions /\ remote'[f].mtime = clock),
         \A c \in SyncCallers, f \in Files \ {Folder} :
           /\ seenLocal'[c][f] \in {seenLocal[c][f], local[f], Absent}
           /\ seenRemote'[c][f] \in {seenRemote[c][f], remote[f], Absent}
  PROVE  TimesGrow'
<1>1. clock \in Nat /\ clock' \in Nat /\ Directory \notin Versions /\ Absent # Directory
      /\ Absent \notin Versions
  BY SyncAssumption DEF SyncInv, SyncTyped
<1>2. ASSUME NEW f \in Files \ {Folder} PROVE Dated(local[f])' /\ Dated(remote[f])'
  <2>1. /\ local[f] \in Versions \cup {Absent, Directory}
        /\ remote[f] \in Versions \cup {Absent, Directory}
        /\ \A v \in Versions : v.mtime \in Nat
    BY DEF SyncInv, SyncTyped, Sides, Versions
  <2>2. Dated(local[f]) /\ Dated(remote[f])
    BY DEF SyncInv, TimesGrow
  <2> QED
    BY <1>1, <2>1, <2>2 DEF Dated
<1>3. ASSUME NEW f \in Files \ {Folder}, NEW c \in SyncCallers
      PROVE  Seen(local[f], seenLocal[c][f])' /\ Seen(remote[f], seenRemote[c][f])'
  <2>1. /\ local[f] \in Versions \cup {Absent, Directory}
        /\ remote[f] \in Versions \cup {Absent, Directory}
        /\ seenLocal[c][f] \in Versions \cup {Absent} /\ seenRemote[c][f] \in Versions \cup {Absent}
        /\ \A v \in Versions : v.mtime \in Nat
    BY DEF SyncInv, SyncTyped, Sides, Looks, Versions
  <2>2. /\ Dated(local[f]) /\ Seen(local[f], seenLocal[c][f])
        /\ Dated(remote[f]) /\ Seen(remote[f], seenRemote[c][f])
    BY DEF SyncInv, TimesGrow
  <2>3. Seen(local[f], seenLocal[c][f])'
    BY <1>1, <2>1, <2>2 DEF Dated, Seen
  <2>4. Seen(remote[f], seenRemote[c][f])'
    BY <1>1, <2>1, <2>2 DEF Dated, Seen
  <2> QED
    BY <2>3, <2>4
<1> QED
  BY <1>2, <1>3 DEF TimesGrow

-----------------------------------------------------------------------------
\* Steps that touch no file and give nothing more to copy.
LEMMA StillKept ==
  ASSUME SyncInv, SyncTyped', UNCHANGED <<local, remote, newest, excused, opened>>,
         clock' >= clock,
         \A c \in SyncCallers, f \in Files :
           \/ job'[c][f] = "none"
           \/ job'[c][f] = job[c][f] /\ call'[c] = call[c],
         \A c \in SyncCallers : orphans'[c] \subseteq orphans[c],
         \A c \in SyncCallers, f \in Files \ {Folder} :
           /\ seenLocal'[c][f] \in {seenLocal[c][f], local[f], Absent}
           /\ seenRemote'[c][f] \in {seenRemote[c][f], remote[f], Absent}
  PROVE  SyncInv'
<1>1. TimesGrow'
  BY TimesKept
<1>2. CallsOrdered'
  BY DEF SyncInv, CallsOrdered
<1>3. NewestKept'
  BY KeptElsewhere DEF SyncInv, NewestKept, SyncTyped
<1> QED
  BY <1>1, <1>2, <1>3 DEF SyncInv

LEMMA TickInv == SyncInv /\ Tick => SyncInv'
<1> SUFFICES ASSUME SyncInv, Tick PROVE SyncInv'
  OBVIOUS
<1>1. clock' = clock + 1 /\ clock \in Nat
      /\ UNCHANGED <<edits, local, remote, call, seenLocal, seenRemote, orphans, job, opened,
                     newest, excused>>
  BY DEF Tick, SyncInv, SyncTyped
<1>2. SyncTyped'
  BY <1>1 DEF SyncInv, SyncTyped
<1> QED
  BY <1>1, <1>2, StillKept

LEMMA SyncCallInv ==
  ASSUME SyncInv, NEW c \in SyncCallers, NEW up \in BOOLEAN, NEW mode \in Modes,
         NEW delete \in BOOLEAN, SyncCall(c, up, mode, delete)
  PROVE  SyncInv'
<1> DEFINE begun == [up |-> up, mode |-> mode, delete |-> delete, at |-> "first"]
<1>1. /\ call[c].at = "idle" /\ call' = [call EXCEPT ![c] = begun] /\ begun \in SyncCalls
      /\ UNCHANGED <<clock, edits, local, remote, seenLocal, seenRemote, orphans, job, opened,
                     newest, excused>>
  BY DEF SyncCall, SyncCalls
<1> HIDE DEF begun
<1>2. SyncTyped'
  BY <1>1 DEF SyncInv, SyncTyped
<1>3. \A f \in Files : job[c][f] = "none"
  BY <1>1 DEF SyncInv, CallsOrdered
<1>4. \A d \in SyncCallers \ {c} : call'[d] = call[d]
  BY <1>1 DEF SyncInv, SyncTyped
<1>5. clock' >= clock
  BY <1>1 DEF SyncInv, SyncTyped
<1> QED
  BY <1>1, <1>2, <1>3, <1>4, <1>5, StillKept

LEMMA LookInv ==
  ASSUME SyncInv, NEW c \in SyncCallers, ScanLocalDir(c) \/ List(c)
  PROVE  SyncInv'
<1>1. /\ call[c] \in SyncCalls /\ local \in Sides /\ remote \in Sides /\ clock \in Nat
      /\ seenLocal[c] \in Looks /\ seenRemote[c] \in Looks
  BY DEF SyncInv, SyncTyped
<1>2. PICK at \in {"second", "decide"} :
        /\ call[c].at \in {"first", "second"} /\ call' = [call EXCEPT ![c].at = at]
        /\ UNCHANGED <<clock, edits, calls, local, remote, orphans, job, opened, newest, excused>>
  <2>1. CASE ScanLocalDir(c)
    BY <1>1, <2>1, Zenon DEF ScanLocalDir, Look
  <2>2. CASE List(c)
    BY <1>1, <2>2, Zenon DEF List, Look
  <2> QED
    BY <2>1, <2>2
<1>3. call' \in [SyncCallers -> SyncCalls] /\ \A d \in SyncCallers \ {c} : call'[d] = call[d]
  <2>1. [call[c] EXCEPT !.at = at] \in SyncCalls
    BY <1>1 DEF SyncCalls
  <2> QED
    BY <1>2, <2>1 DEF SyncInv, SyncTyped
<1>4. \A f \in Files : job[c][f] = "none"
  BY <1>2 DEF SyncInv, CallsOrdered
<1>5. CASE ScanLocalDir(c)
  <2>1. PICK seen : /\ seenLocal' = [seenLocal EXCEPT ![c] =
                                      [f \in Files |-> IF f \in seen THEN local[f] ELSE Absent]]
                    /\ seen \subseteq Plain(local) /\ seenRemote' = seenRemote
    BY <1>5 DEF ScanLocalDir
  <2> DEFINE look == [f \in Files |-> IF f \in seen THEN local[f] ELSE Absent]
  <2>2. look \in Looks /\ \A f \in Files : look[f] \in {local[f], Absent}
    BY <1>1, <2>1 DEF Looks, Sides, Plain
  <2>3. seenLocal' = [seenLocal EXCEPT ![c] = look]
    BY <2>1
  <2> HIDE DEF look
  <2>4. SyncTyped'
    BY <1>2, <1>3, <2>1, <2>2, <2>3 DEF SyncInv, SyncTyped
  <2>5. \A d \in SyncCallers, f \in Files :
          seenLocal'[d][f] \in {seenLocal[d][f], local[f], Absent}
    BY <2>2, <2>3 DEF SyncInv, SyncTyped
  <2>6. clock' >= clock
    BY <1>1, <1>2
  <2> QED
    BY <1>2, <1>3, <1>4, <2>1, <2>4, <2>5, <2>6, StillKept
<1>6. CASE List(c)
  <2> DEFINE look == [f \in Files |-> IF f \in Nested THEN Absent
                                      ELSE IF remote[f] = Directory THEN [data |-> 1, mtime |-> clock]
                                      ELSE remote[f]]
  <2>1. seenRemote' = [seenRemote EXCEPT ![c] = look] /\ seenLocal' = seenLocal
    BY <1>6 DEF List
  <2>2. [data |-> 1, mtime |-> clock] \in Versions
    BY <1>1 DEF Versions
  <2>3. ASSUME NEW f \in Files
        PROVE  /\ look[f] \in Versions \cup {Absent}
               /\ remote[f] # Directory => look[f] \in {remote[f], Absent}
    <3>1. CASE f \in Nested
      BY <3>1
    <3>2. CASE f \notin Nested /\ remote[f] = Directory
      BY <2>2, <3>2
    <3>3. CASE f \notin Nested /\ remote[f] # Directory
      BY <1>1, <3>3 DEF Sides
    <3> QED
      BY <3>1, <3>2, <3>3
  <2>4. look \in Looks
    BY <2>3 DEF Looks
  <2> HIDE DEF look
  <2>5. SyncTyped'
    BY <1>2, <1>3, <2>1, <2>4 DEF SyncInv, SyncTyped
  <2>6. \A d \in SyncCallers, f \in Files \ {Folder} :
          seenRemote'[d][f] \in {seenRemote[d][f], remote[f], Absent}
    BY <2>1, <2>3 DEF SyncInv, SyncTyped, TimesGrow, Dated
  <2>7. clock' >= clock
    BY <1>1, <1>2
  <2> QED
    BY <1>2, <1>3, <1>4, <2>1, <2>5, <2>6, <2>7, StillKept
<1> QED
  BY <1>5, <1>6

LEMMA CallEndsInv ==
  ASSUME SyncInv, NEW c \in SyncCallers, LookFails(c) \/ SyncReturns(c)
  PROVE  SyncInv'
<1>1. /\ call' = [call EXCEPT ![c] = Idle]
      /\ seenLocal' = [seenLocal EXCEPT ![c] = Nothing]
      /\ seenRemote' = [seenRemote EXCEPT ![c] = Nothing]
      /\ UNCHANGED <<clock, edits, local, remote, orphans, job, opened, newest, excused>>
  BY DEF LookFails, SyncReturns, Ends
<1>2. Idle \in SyncCalls /\ Nothing \in Looks /\ \A f \in Files : Nothing[f] = Absent
  BY DEF Idle, SyncCalls, Modes, Nothing, Looks
<1>3. SyncTyped'
  BY <1>1, <1>2 DEF SyncInv, SyncTyped
<1>4. \A f \in Files : job[c][f] = "none"
  <2>1. CASE LookFails(c)
    BY <2>1 DEF LookFails, SyncInv, CallsOrdered
  <2>2. CASE SyncReturns(c)
    BY <2>2 DEF SyncReturns, NoJobs
  <2> QED
    BY <2>1, <2>2
<1>5. \A d \in SyncCallers \ {c} : call'[d] = call[d]
  BY <1>1 DEF SyncInv, SyncTyped
<1>6. \A d \in SyncCallers, f \in Files :
        /\ seenLocal'[d][f] \in {seenLocal[d][f], Absent}
        /\ seenRemote'[d][f] \in {seenRemote[d][f], Absent}
  BY <1>1, <1>2 DEF SyncInv, SyncTyped
<1>7. clock' >= clock
  BY <1>1 DEF SyncInv, SyncTyped
<1> QED
  BY <1>1, <1>3, <1>4, <1>5, <1>6, <1>7, StillKept

LEMMA CopyRefusedInv ==
  ASSUME SyncInv, NEW c \in SyncCallers, NEW f \in Files, CopyRefused(c, f)
  PROVE  SyncInv'
<1>1. /\ job' = [job EXCEPT ![c][f] = "none"]
      /\ UNCHANGED <<clock, edits, local, remote, call, seenLocal, seenRemote, orphans, opened,
                     newest, excused>>
  BY DEF CopyRefused
<1>2. /\ job' \in [SyncCallers -> Jobs]
      /\ \A d \in SyncCallers, g \in Files : job'[d][g] \in {job[d][g], "none"}
  BY <1>1 DEF SyncInv, SyncTyped, Jobs
<1>3. SyncTyped'
  BY <1>1, <1>2 DEF SyncInv, SyncTyped
<1>4. clock' >= clock
  BY <1>1 DEF SyncInv, SyncTyped
<1> QED
  BY <1>1, <1>2, <1>3, <1>4, StillKept

-----------------------------------------------------------------------------
\* An edit is dated now, so it is later than anything that it leaves old, and
\* nothing is under way that could replace it.
LEMMA EditKept ==
  ASSUME SyncInv, SyncTyped', NEW f \in Files, NEW overwritten,
         Edited(f, local, overwritten) \/ Edited(f, remote, overwritten),
         f \notin excused',
         NEW here \in Versions, here = [data |-> edits + 1, mtime |-> clock],
         \/ local'[f] = here /\ remote'[f] = remote[f] /\ overwritten = SyncCallers \ Uploads
         \/ remote'[f] = here /\ local'[f] = local[f] /\ overwritten = Uploads
  PROVE  FileKept(f)'
<1>1. /\ edits \in Nat /\ f # Folder /\ newest'[f] = edits + 1 /\ here.data = edits + 1
      /\ here.mtime = clock /\ newest' = [newest EXCEPT ![f] = edits + 1]
      /\ UNCHANGED <<clock, call, orphans, job, opened>>
      /\ \A c \in SyncCallers : ~Copying(c, f) /\ (c \in overwritten => job[c][f] # "queued")
  BY DEF Edited, SyncInv, SyncTyped
<1>2. here \notin {Absent, Directory} /\ ~Older(here, f)'
  BY <1>1, SyncAssumption DEF Older
<1>3. Dated(local[f]) /\ Dated(remote[f])
  BY <1>1 DEF SyncInv, TimesGrow
<1>4. ASSUME NEW c \in SyncCallers PROVE job[c][f] \in {"none", "queued"}
  BY <1>1 DEF Copying, SyncInv, SyncTyped, Jobs
<1>5. /\ Plain(local)' = {g \in Files : local'[g] \notin {Absent, Directory}}
      /\ Plain(remote)' = {g \in Files : remote'[g] \notin {Absent, Directory}}
  BY DEF Plain
<1>6. CASE local'[f] = here /\ remote'[f] = remote[f] /\ overwritten = SyncCallers \ Uploads
  <2>1. OnASide(f, newest[f])'
    BY <1>1, <1>2, <1>5, <1>6 DEF OnASide
  <2>2. LaterHolds(local, remote, f)' /\ LaterHolds(remote, local, f)'
    BY <1>1, <1>2, <1>3, <1>5, <1>6 DEF LaterHolds, Older, Dated
  <2>3. ASSUME NEW c \in SyncCallers PROVE CopiesWell(c, f)'
    <3>1. job[c][f] = "queued" => call[c].up
      BY <1>1, <1>6 DEF Uploads
    <3> QED
      BY <1>1, <1>2, <1>4, <1>6, <3>1 DEF CopiesWell, Copying, Source
  <2> QED
    BY <2>1, <2>2, <2>3 DEF FileKept
<1>7. CASE remote'[f] = here /\ local'[f] = local[f] /\ overwritten = Uploads
  <2>1. OnASide(f, newest[f])'
    BY <1>1, <1>2, <1>5, <1>7 DEF OnASide
  <2>2. LaterHolds(local, remote, f)' /\ LaterHolds(remote, local, f)'
    BY <1>1, <1>2, <1>3, <1>5, <1>7 DEF LaterHolds, Older, Dated
  <2>3. ASSUME NEW c \in SyncCallers PROVE CopiesWell(c, f)'
    <3>1. job[c][f] = "queued" => ~call[c].up
      BY <1>1, <1>7 DEF Uploads
    <3> QED
      BY <1>1, <1>2, <1>4, <1>7, <3>1 DEF CopiesWell, Copying, Source
  <2> QED
    BY <2>1, <2>2, <2>3 DEF FileKept
<1> QED
  BY <1>6, <1>7

LEMMA EditInv ==
  ASSUME SyncInv, NEW f \in Files, EditLocal(f) \/ EditRemote(f)
  PROVE  SyncInv'
<1> DEFINE here == [data |-> edits + 1, mtime |-> clock]
<1>1. PICK overwritten :
        \/ /\ Edited(f, local, overwritten) /\ local' = After(local, f) /\ remote' = remote
           /\ overwritten = SyncCallers \ Uploads
        \/ /\ Edited(f, remote, overwritten) /\ remote' = After(remote, f) /\ local' = local
           /\ overwritten = Uploads
  BY DEF EditLocal, EditRemote
<1>2. /\ edits \in Nat /\ clock \in Nat /\ f # Folder /\ edits' = edits + 1
      /\ newest' = [newest EXCEPT ![f] = edits + 1]
      /\ UNCHANGED <<clock, call, seenLocal, seenRemote, orphans, job, opened>>
      /\ \A g \in Files \ {f} : g \in excused' <=> g \in excused
      /\ f \notin excused' => \A c \in SyncCallers : f \notin orphans[c]
  BY <1>1 DEF Edited, SyncInv, SyncTyped
<1>3. here \in Versions /\ here.mtime = clock
  BY <1>2 DEF Versions
<1> HIDE DEF here
<1>4. ASSUME NEW side \in Sides
      PROVE  /\ After(side, f) \in Sides /\ After(side, f)[f] = here
             /\ \A g \in Files \ {f, Folder} : After(side, f)[g] = side[g]
  <2>1. ASSUME NEW g \in Files PROVE After(side, f)[g] \in Versions \cup {Absent, Directory}
    <3>1. CASE g = f
      BY <1>2, <1>3, <3>1 DEF After, here
    <3>2. CASE g # f /\ g = Folder /\ f \in Nested
      BY <3>2 DEF After
    <3>3. CASE g # f /\ ~(g = Folder /\ f \in Nested)
      BY <3>3 DEF After, Sides
    <3> QED
      BY <3>1, <3>2, <3>3
  <2>2. After(side, f) \in Sides
    BY <2>1 DEF After, Sides
  <2>3. After(side, f)[f] = here
    BY <1>2 DEF After, here
  <2>4. \A g \in Files \ {f, Folder} : After(side, f)[g] = side[g]
    BY DEF After
  <2> QED
    BY <2>2, <2>3, <2>4
<1>5. /\ local \in Sides /\ remote \in Sides
  BY DEF SyncInv, SyncTyped
<1>6. /\ local' \in Sides /\ remote' \in Sides
      /\ \/ local'[f] = here /\ remote'[f] = remote[f] /\ overwritten = SyncCallers \ Uploads
         \/ remote'[f] = here /\ local'[f] = local[f] /\ overwritten = Uploads
      /\ \A g \in Files \ {f, Folder} : local'[g] = local[g] /\ remote'[g] = remote[g]
  BY <1>1, <1>4, <1>5
<1>7. SyncTyped'
  BY <1>2, <1>6 DEF SyncInv, SyncTyped
<1>8. TimesGrow'
  BY <1>2, <1>3, <1>6, <1>7, TimesKept
<1>9. CallsOrdered'
  BY <1>2 DEF SyncInv, SyncTyped, CallsOrdered
<1>10. NewestKept'
  <2> SUFFICES ASSUME NEW g \in Files, g \notin excused', newest'[g] # 0 PROVE FileKept(g)'
    BY DEF NewestKept
  <2>1. CASE g = f
    BY <1>1, <1>3, <1>6, <1>7, <2>1, EditKept DEF here
  <2>2. CASE g # f
    <3>1. newest'[g] = newest[g] /\ g \notin excused
      BY <1>2, <2>2 DEF SyncInv, SyncTyped
    <3>2. g # Folder /\ FileKept(g)
      BY <3>1 DEF SyncInv, CallsOrdered, NewestKept
    <3> QED
      BY <1>2, <1>5, <1>6, <2>2, <3>1, <3>2, KeptElsewhere
  <2> QED
    BY <2>1, <2>2
<1> QED
  BY <1>7, <1>8, <1>9, <1>10 DEF SyncInv

-----------------------------------------------------------------------------
\* Decided by modification time on a target that is as it was seen: what is to
\* be copied is no older edit.
LEMMA TaskIsNewest ==
  ASSUME SyncInv, NEW c \in SyncCallers, NEW f \in Files \ {Folder}, FileKept(f),
         f \in Tasks(c), call[c].mode = "mtime", TargetAsSeen(c, f)
  PROVE  ~Older(Source(c)[f], f)
<1>1. /\ local[f] \in Versions \cup {Absent, Directory}
      /\ remote[f] \in Versions \cup {Absent, Directory}
      /\ seenLocal[c][f] \in Versions \cup {Absent} /\ seenRemote[c][f] \in Versions \cup {Absent}
      /\ \A v \in Versions : v.mtime \in Nat
  BY DEF SyncInv, SyncTyped, Sides, Looks, Versions
<1>2. /\ Dated(local[f]) /\ Seen(local[f], seenLocal[c][f])
      /\ Dated(remote[f]) /\ Seen(remote[f], seenRemote[c][f])
  BY DEF SyncInv, TimesGrow
<1>3. LaterHolds(local, remote, f) /\ LaterHolds(remote, local, f)
  BY DEF FileKept
<1>4. CASE call[c].up
  <2>1. /\ seenLocal[c][f] # Absent /\ remote[f] = seenRemote[c][f]
        /\ seenRemote[c][f] = Absent \/ seenLocal[c][f].mtime > seenRemote[c][f].mtime
    BY <1>4 DEF Tasks, UploadTasks, NeedSync, TargetAsSeen, Present
  <2> QED
    BY <1>1, <1>2, <1>3, <1>4, <2>1 DEF Source, LaterHolds, Older, Plain, Seen, Dated
<1>5. CASE ~call[c].up
  <2>1. /\ seenRemote[c][f] # Absent /\ local[f] = seenLocal[c][f]
        /\ seenLocal[c][f] = Absent \/ seenLocal[c][f].mtime < seenRemote[c][f].mtime
    BY <1>5 DEF Tasks, DownloadTasks, NeedSyncLocal, TargetAsSeen, Present
  <2> QED
    BY <1>1, <1>2, <1>3, <1>5, <2>1 DEF Source, LaterHolds, Older, Plain, Seen, Dated
<1> QED
  BY <1>4, <1>5

LEMMA DecideInv ==
  ASSUME SyncInv, NEW c \in SyncCallers, Decide(c)
  PROVE  SyncInv'
<1> DEFINE queue == [f \in Files |-> IF f \in Tasks(c) THEN "queued" ELSE "none"]
<1>1. /\ call[c].at = "decide" /\ call' = [call EXCEPT ![c].at = "run"]
      /\ orphans' = [orphans EXCEPT ![c] = Orphans(c)]
      /\ job' = [job EXCEPT ![c] = queue]
      /\ seenLocal' = [seenLocal EXCEPT ![c] = Nothing]
      /\ seenRemote' = [seenRemote EXCEPT ![c] = Nothing]
      /\ excused \subseteq excused' /\ Orphans(c) \subseteq excused'
      /\ \A f \in Tasks(c) \ excused' : call[c].mode = "mtime" /\ TargetAsSeen(c, f)
      /\ UNCHANGED <<clock, edits, local, remote, opened, newest>>
  BY DEF Decide
<1>2. /\ queue \in Jobs /\ \A f \in Files : queue[f] = "queued" <=> f \in Tasks(c)
      /\ \A f \in Files : queue[f] \in {"none", "queued"}
  BY DEF Jobs
<1> HIDE DEF queue
<1>3. Nothing \in Looks /\ \A f \in Files : Nothing[f] = Absent
  BY DEF Nothing, Looks
<1>4. Orphans(c) \subseteq Files
  BY DEF Orphans, Present
<1>5. /\ call' \in [SyncCallers -> SyncCalls] /\ call'[c].at = "run"
      /\ \A d \in SyncCallers : call'[d].up = call[d].up
      /\ \A d \in SyncCallers \ {c} : call'[d] = call[d]
  <2>1. [call[c] EXCEPT !.at = "run"] \in SyncCalls
    BY DEF SyncInv, SyncTyped, SyncCalls
  <2> QED
    BY <1>1, <2>1 DEF SyncInv, SyncTyped, SyncCalls
<1>6. SyncTyped'
  BY <1>1, <1>2, <1>3, <1>4, <1>5 DEF SyncInv, SyncTyped
<1>7. /\ \A d \in SyncCallers, f \in Files :
           /\ seenLocal'[d][f] \in {seenLocal[d][f], Absent}
           /\ seenRemote'[d][f] \in {seenRemote[d][f], Absent}
      /\ clock' >= clock
  BY <1>1, <1>3 DEF SyncInv, SyncTyped
<1>8. TimesGrow'
  BY <1>1, <1>6, <1>7, TimesKept
<1>9. \A d \in SyncCallers \ {c} : job'[d] = job[d] /\ orphans'[d] = orphans[d]
  BY <1>1 DEF SyncInv, SyncTyped
<1>10. job'[c] = queue /\ orphans'[c] = Orphans(c)
  BY <1>1 DEF SyncInv, SyncTyped
<1>11. CallsOrdered'
  BY <1>1, <1>5, <1>9, <1>10 DEF SyncInv, CallsOrdered
<1>12. NewestKept'
  <2> SUFFICES ASSUME NEW f \in Files, f \notin excused', newest'[f] # 0 PROVE FileKept(f)'
    BY DEF NewestKept
  <2>1. f # Folder /\ FileKept(f)
    BY <1>1 DEF SyncInv, CallsOrdered, NewestKept
  <2>2. (OnASide(f, newest[f]) \/ CutShort(f))'
    BY <1>1, <2>1 DEF FileKept, OnASide, CutShort, Plain
  <2>3. LaterHolds(local, remote, f)' /\ LaterHolds(remote, local, f)'
    BY <1>1, <2>1 DEF FileKept, LaterHolds, Older, Plain
  <2>4. ASSUME NEW d \in SyncCallers PROVE CopiesWell(d, f)'
    <3>1. /\ CopiesWell(d, f) /\ call'[d].up = call[d].up
          /\ UNCHANGED <<local, remote, newest, opened>>
      BY <1>1, <1>5, <2>1 DEF FileKept
    <3>2. CASE d # c
      BY <1>9, <3>1, <3>2 DEF CopiesWell, Copying, Source, Target, Older, Plain
    <3>3. CASE d = c
      <4>1. job'[c][f] # "copying"
        BY <1>2, <1>10
      <4>2. job'[c][f] # "none" => ~Older(Source(c)[f], f)
        BY <1>1, <1>2, <1>10, <2>1, TaskIsNewest
      <4> QED
        BY <3>1, <3>3, <4>1, <4>2 DEF CopiesWell, Copying, Source, Older
    <3> QED
      BY <3>2, <3>3
  <2> QED
    BY <2>2, <2>3, <2>4 DEF FileKept
<1> QED
  BY <1>6, <1>8, <1>11, <1>12 DEF SyncInv

LEMMA DeleteInv ==
  ASSUME SyncInv, NEW c \in SyncCallers, NEW f \in Files, Delete(c, f)
  PROVE  SyncInv'
<1>1. /\ f \in orphans[c] /\ orphans' = [orphans EXCEPT ![c] = @ \ {f}]
      /\ local' = local \/ local' = [local EXCEPT ![f] = Absent]
      /\ remote' = remote \/ remote' = [remote EXCEPT ![f] = Absent]
      /\ UNCHANGED <<clock, edits, call, seenLocal, seenRemote, job, opened, newest, excused>>
  BY DEF Delete
<1>2. local \in Sides /\ remote \in Sides /\ clock \in Nat
  BY DEF SyncInv, SyncTyped
<1>3. /\ local' \in Sides /\ remote' \in Sides
      /\ \A g \in Files : /\ local'[g] \in {local[g], Absent} /\ remote'[g] \in {remote[g], Absent}
                          /\ g # f => local'[g] = local[g] /\ remote'[g] = remote[g]
  BY <1>1, <1>2 DEF Sides
<1>4. \A d \in SyncCallers : orphans'[d] \subseteq orphans[d]
  BY <1>1 DEF SyncInv, SyncTyped
<1>5. SyncTyped'
  BY <1>1, <1>3 DEF SyncInv, SyncTyped
<1>6. TimesGrow'
  BY <1>1, <1>2, <1>3, <1>5, TimesKept
<1>7. CallsOrdered'
  BY <1>1, <1>4 DEF SyncInv, CallsOrdered
<1>8. NewestKept'
  <2>1. f \in excused
    BY <1>1 DEF SyncInv, CallsOrdered
  <2> QED
    BY <1>1, <1>2, <1>3, <2>1, KeptElsewhere DEF SyncInv, NewestKept
<1> QED
  BY <1>5, <1>6, <1>7, <1>8 DEF SyncInv

-----------------------------------------------------------------------------
LEMMA TargetIs ==
  ASSUME SyncTyped, NEW c \in SyncCallers, NEW f \in Files, NEW data \in Nat,
         TargetWritten(c, f, data)
  PROVE  /\ local' \in Sides /\ remote' \in Sides
         /\ \A g \in Files \ {f} : local'[g] = local[g] /\ remote'[g] = remote[g]
         /\ [data |-> data, mtime |-> clock] \in Versions
         /\ \/ /\ call[c].up /\ local' = local
               /\ remote'[f] = [data |-> data, mtime |-> clock]
            \/ /\ ~call[c].up /\ remote' = remote
               /\ local'[f] = [data |-> data, mtime |-> clock]
<1> DEFINE v == [data |-> data, mtime |-> clock]
<1>1. v \in Versions
  BY DEF SyncTyped, Versions
<1>2. \/ call[c].up /\ local' = local /\ remote' = [remote EXCEPT ![f] = v]
      \/ ~call[c].up /\ remote' = remote /\ local' = [local EXCEPT ![f] = v]
  BY DEF TargetWritten, Target
<1> HIDE DEF v
<1> QED
  BY <1>1, <1>2 DEF SyncTyped, Sides, v

\* A file that a copy writes to, whose source is no older edit.
LEMMA CopyKept ==
  ASSUME SyncTyped, NEW c \in SyncCallers, NEW f \in Files, FileKept(f),
         f \in Plain(Source(c)), ~Older(Source(c)[f], f),
         NEW data \in Nat, data \in {newest[f], HalfCopy}, TargetWritten(c, f, data),
         newest' = newest, call' = call,
         \A d \in SyncCallers \ {c} : job'[d] = job[d] /\ opened'[d] = opened[d],
         \/ job'[c][f] = "none"
         \/ opened'[c][f] \in {newest[f], HalfCopy}
  PROVE  FileKept(f)'
<1>1. PICK v \in Versions :
        /\ v.data = data
        /\ \/ call[c].up /\ local' = local /\ remote'[f] = v
           \/ ~call[c].up /\ remote' = remote /\ local'[f] = v
  BY TargetIs
<1>2. v \notin {Absent, Directory}
  BY <1>1, SyncAssumption
<1>3. ~Older(v, f)'
  BY <1>1 DEF Older
<1>4. /\ Plain(local) = {g \in Files : local[g] \notin {Absent, Directory}}
      /\ Plain(remote) = {g \in Files : remote[g] \notin {Absent, Directory}}
      /\ Plain(local)' = {g \in Files : local'[g] \notin {Absent, Directory}}
      /\ Plain(remote)' = {g \in Files : remote'[g] \notin {Absent, Directory}}
  BY DEF Plain
<1>5. CASE call[c].up /\ local' = local /\ remote'[f] = v
  <2>1. /\ f \in Plain(local) /\ f \in Plain(local)' /\ f \in Plain(remote)'
        /\ local[f].data \in {newest[f], HalfCopy} /\ ~Older(local[f], f)'
    BY <1>2, <1>4, <1>5 DEF Source, Older
  <2>2. (OnASide(f, newest[f]) \/ CutShort(f))'
    BY <1>1, <1>5, <2>1 DEF OnASide, CutShort
  <2>3. LaterHolds(local, remote, f)' /\ LaterHolds(remote, local, f)'
    BY <1>3, <1>5, <2>1 DEF LaterHolds
  <2>4. ASSUME NEW d \in SyncCallers PROVE CopiesWell(d, f)'
    <3>1. ~Older(Source(d)[f], f)' /\ (f \in Plain(Source(d)))' /\ ~Older(Target(d)[f], f)'
      BY <1>3, <1>5, <2>1 DEF Source, Target
    <3>2. Copying(d, f)' => (opened[d][f] \in {newest[f], HalfCopy})'
      BY DEF FileKept, CopiesWell, Copying
    <3> QED
      BY <3>1, <3>2 DEF CopiesWell
  <2> QED
    BY <2>2, <2>3, <2>4 DEF FileKept
<1>6. CASE ~call[c].up /\ remote' = remote /\ local'[f] = v
  <2>1. /\ f \in Plain(remote) /\ f \in Plain(remote)' /\ f \in Plain(local)'
        /\ remote[f].data \in {newest[f], HalfCopy} /\ ~Older(remote[f], f)'
    BY <1>2, <1>4, <1>6 DEF Source, Older
  <2>2. (OnASide(f, newest[f]) \/ CutShort(f))'
    BY <1>1, <1>6, <2>1 DEF OnASide, CutShort
  <2>3. LaterHolds(local, remote, f)' /\ LaterHolds(remote, local, f)'
    BY <1>3, <1>6, <2>1 DEF LaterHolds
  <2>4. ASSUME NEW d \in SyncCallers PROVE CopiesWell(d, f)'
    <3>1. ~Older(Source(d)[f], f)' /\ (f \in Plain(Source(d)))' /\ ~Older(Target(d)[f], f)'
      BY <1>3, <1>6, <2>1 DEF Source, Target
    <3>2. Copying(d, f)' => (opened[d][f] \in {newest[f], HalfCopy})'
      BY DEF FileKept, CopiesWell, Copying
    <3> QED
      BY <3>1, <3>2 DEF CopiesWell
  <2> QED
    BY <2>2, <2>3, <2>4 DEF FileKept
<1> QED
  BY <1>1, <1>5, <1>6

\* The steps of a copy of f: one that ends beside its target, and one that
\* writes to it.
LEMMA CopyStepInv ==
  ASSUME SyncInv, NEW c \in SyncCallers, NEW f \in Files, job[c][f] # "none",
         NEW now \in {"none", "copying"}, NEW content \in Nat,
         job' = [job EXCEPT ![c][f] = now], opened' = [opened EXCEPT ![c][f] = content],
         UNCHANGED <<clock, edits, call, seenLocal, seenRemote, orphans, newest, excused>>,
         \/ now = "none" /\ UNCHANGED <<local, remote>>
         \/ \E data \in Nat :
              /\ TargetWritten(c, f, data)
              /\ f \notin excused /\ newest[f] # 0 =>
                   /\ f \in Plain(Source(c)) /\ data \in {newest[f], HalfCopy}
                   /\ now = "none" \/ content \in {newest[f], HalfCopy}
  PROVE  SyncInv'
<1>1. /\ local \in Sides /\ remote \in Sides /\ clock \in Nat
      /\ job \in [SyncCallers -> Jobs] /\ opened \in [SyncCallers -> [Files -> Nat]]
  BY DEF SyncInv, SyncTyped
<1>2. /\ local' \in Sides /\ remote' \in Sides
      /\ \A g \in Files \ {f} : local'[g] = local[g] /\ remote'[g] = remote[g]
      /\ local'[f] = local[f] \/ (local'[f] \in Versions /\ local'[f].mtime = clock)
      /\ remote'[f] = remote[f] \/ (remote'[f] \in Versions /\ remote'[f].mtime = clock)
  <2>1. CASE UNCHANGED <<local, remote>>
    BY <1>1, <2>1
  <2>2. CASE \E data \in Nat : TargetWritten(c, f, data)
    <3>1. PICK data \in Nat : TargetWritten(c, f, data)
      BY <2>2
    <3>2. PICK v \in Versions :
            /\ v.mtime = clock
            /\ \/ local' = local /\ remote'[f] = v
               \/ remote' = remote /\ local'[f] = v
      BY <3>1, TargetIs DEF SyncInv
    <3>3. /\ local' \in Sides /\ remote' \in Sides
          /\ \A g \in Files \ {f} : local'[g] = local[g] /\ remote'[g] = remote[g]
      BY <3>1, TargetIs DEF SyncInv
    <3> QED
      BY <3>2, <3>3
  <2> QED
    BY <2>1, <2>2
<1>3. /\ job' \in [SyncCallers -> Jobs] /\ opened' \in [SyncCallers -> [Files -> Nat]]
      /\ job'[c][f] = now /\ opened'[c][f] = content
      /\ \A d \in SyncCallers \ {c} : job'[d] = job[d] /\ opened'[d] = opened[d]
      /\ \A g \in Files \ {f} : job'[c][g] = job[c][g] /\ opened'[c][g] = opened[c][g]
  BY <1>1 DEF Jobs
<1>4. SyncTyped'
  BY <1>2, <1>3 DEF SyncInv, SyncTyped
<1>5. TimesGrow'
  BY <1>1, <1>2, <1>4, TimesKept
<1>6. CallsOrdered'
  BY <1>3 DEF SyncInv, CallsOrdered
<1>7. NewestKept'
  <2> SUFFICES ASSUME NEW g \in Files, g \notin excused', newest'[g] # 0 PROVE FileKept(g)'
    BY DEF NewestKept
  <2>1. FileKept(g) /\ g \notin excused /\ newest[g] # 0
    BY DEF SyncInv, NewestKept
  <2>2. CASE g # f
    BY <1>1, <1>2, <1>3, <2>1, <2>2, KeptElsewhere
  <2>3. CASE g = f /\ now = "none" /\ UNCHANGED <<local, remote>>
    <3>1. \A d \in SyncCallers :
            \/ job'[d][f] = "none"
            \/ job'[d][f] = job[d][f] /\ opened'[d][f] = opened[d][f] /\ call'[d].up = call[d].up
      BY <1>3, <2>3
    <3> QED
      BY <1>1, <2>1, <2>3, <3>1, KeptElsewhere
  <2>4. CASE /\ g = f
             /\ \E data \in Nat : /\ TargetWritten(c, f, data) /\ data \in {newest[f], HalfCopy}
                                  /\ f \in Plain(Source(c))
                                  /\ now = "none" \/ content \in {newest[f], HalfCopy}
    <3>1. ~Older(Source(c)[f], f)
      BY <2>1, <2>4 DEF FileKept, CopiesWell
    <3> QED
      BY <1>3, <2>1, <2>4, <3>1, CopyKept DEF SyncInv
  <2> QED
    BY <2>1, <2>2, <2>3, <2>4
<1> QED
  BY <1>4, <1>5, <1>6, <1>7 DEF SyncInv

LEMMA StartCopyInv ==
  ASSUME SyncInv, NEW c \in SyncCallers, NEW f \in Files, StartCopy(c, f)
  PROVE  SyncInv'
<1> DEFINE content == IF Source(c)[f] = Directory THEN HalfCopy ELSE Source(c)[f].data
<1>1. /\ job[c][f] = "queued" /\ Source(c)[f] # Absent
      /\ job' = [job EXCEPT ![c][f] = "copying"]
      /\ opened' = [opened EXCEPT ![c][f] = content]
      /\ TargetWritten(c, f, HalfCopy)
      /\ UNCHANGED <<clock, edits, call, seenLocal, seenRemote, orphans, newest, excused>>
  BY DEF StartCopy, CopyBegins
<1>2. Source(c)[f] \in Versions \cup {Absent, Directory} /\ HalfCopy \in Nat
  BY DEF Source, SyncInv, SyncTyped, Sides, HalfCopy
<1>3. content \in Nat
  BY <1>1, <1>2 DEF Versions
<1>4. ASSUME f \notin excused, newest[f] # 0
      PROVE  f \in Plain(Source(c)) /\ content \in {newest[f], HalfCopy}
  <2>1. f # Folder /\ FileKept(f)
    BY <1>4 DEF SyncInv, CallsOrdered, NewestKept
  <2>2. Source(c)[f] # Directory
    BY <2>1 DEF SyncInv, TimesGrow, Dated, Source
  <2>3. ~Older(Source(c)[f], f)
    BY <1>1, <2>1 DEF FileKept, CopiesWell
  <2> QED
    BY <1>1, <2>2, <2>3 DEF Plain, Older
<1> HIDE DEF content
<1> QED
  BY <1>1, <1>2, <1>3, <1>4, CopyStepInv

LEMMA CopyEndsInv ==
  ASSUME SyncInv, NEW c \in SyncCallers, NEW f \in Files, FinishCopy(c, f) \/ CopyFails(c, f)
  PROVE  SyncInv'
<1> DEFINE outcomes == {Source(c)[f].data, opened[c][f], HalfCopy, Target(c)[f].data}
<1>1. /\ job[c][f] = "copying" /\ job' = [job EXCEPT ![c][f] = "none"]
      /\ opened' = [opened EXCEPT ![c][f] = HalfCopy]
      /\ UNCHANGED <<clock, edits, call, seenLocal, seenRemote, orphans, newest, excused>>
  BY DEF FinishCopy, CopyFails, CopyEnds, Copying
<1>2. \/ UNCHANGED <<local, remote>>
      \/ /\ f \in Plain(Target(c))
         /\ \E data : /\ TargetWritten(c, f, data)
                      /\ \/ data \in {opened[c][f], HalfCopy, Target(c)[f].data}
                         \/ data = Source(c)[f].data /\ f \in Plain(Source(c))
  <2>1. CASE FinishCopy(c, f)
    BY <2>1 DEF FinishCopy, CopyEnds
  <2>2. CASE CopyFails(c, f)
    BY <2>2 DEF CopyFails, CopyEnds
  <2> QED
    BY <2>1, <2>2
<1>3. /\ Source(c)[f] \in Versions \cup {Absent, Directory}
      /\ Target(c)[f] \in Versions \cup {Absent, Directory}
      /\ opened[c][f] \in Nat /\ HalfCopy \in Nat /\ \A v \in Versions : v.data \in Nat
  BY DEF Source, Target, SyncInv, SyncTyped, Sides, HalfCopy, Versions
<1>4. CASE UNCHANGED <<local, remote>>
  BY <1>1, <1>3, <1>4, CopyStepInv
<1>5. ASSUME f \in Plain(Target(c)), NEW data, TargetWritten(c, f, data),
             \/ data \in {opened[c][f], HalfCopy, Target(c)[f].data}
             \/ data = Source(c)[f].data /\ f \in Plain(Source(c))
      PROVE  SyncInv'
  <2>1. data \in Nat
    BY <1>3, <1>5 DEF Plain
  <2>2. ASSUME f \notin excused, newest[f] # 0
        PROVE  f \in Plain(Source(c)) /\ data \in {newest[f], HalfCopy}
    <3>1. CopiesWell(c, f)
      BY <2>2 DEF SyncInv, NewestKept, FileKept
    <3>2. /\ f \in Plain(Source(c)) /\ ~Older(Source(c)[f], f) /\ ~Older(Target(c)[f], f)
          /\ opened[c][f] \in {newest[f], HalfCopy}
      BY <1>1, <3>1 DEF CopiesWell, Copying
    <3> QED
      BY <1>5, <3>2 DEF Older, Plain
  <2> QED
    BY <1>1, <1>3, <1>5, <2>1, <2>2, CopyStepInv
<1> QED
  BY <1>2, <1>4, <1>5

-----------------------------------------------------------------------------
LEMMA SyncStepInv == SyncInv /\ [SyncNext]_syncVars => SyncInv'
<1> SUFFICES ASSUME SyncInv, [SyncNext]_syncVars PROVE SyncInv'
  OBVIOUS
<1>1. CASE Tick
  BY <1>1, TickInv
<1>2. ASSUME NEW f \in Files, EditLocal(f) \/ EditRemote(f) PROVE SyncInv'
  BY <1>2, EditInv
<1>3. ASSUME NEW c \in SyncCallers, NEW up \in BOOLEAN, NEW delete \in BOOLEAN, NEW mode \in Modes,
             SyncCall(c, up, mode, delete)
      PROVE  SyncInv'
  BY <1>3, SyncCallInv
<1>4. ASSUME NEW c \in SyncCallers, ScanLocalDir(c) \/ List(c) PROVE SyncInv'
  BY <1>4, LookInv
<1>5. ASSUME NEW c \in SyncCallers, LookFails(c) \/ SyncReturns(c) PROVE SyncInv'
  BY <1>5, CallEndsInv
<1>6. ASSUME NEW c \in SyncCallers, Decide(c) PROVE SyncInv'
  BY <1>6, DecideInv
<1>7. ASSUME NEW c \in SyncCallers, NEW f \in Files, Delete(c, f) PROVE SyncInv'
  BY <1>7, DeleteInv
<1>8. ASSUME NEW c \in SyncCallers, NEW f \in Files, StartCopy(c, f) PROVE SyncInv'
  BY <1>8, StartCopyInv
<1>9. ASSUME NEW c \in SyncCallers, NEW f \in Files, CopyRefused(c, f) PROVE SyncInv'
  BY <1>9, CopyRefusedInv
<1>10. ASSUME NEW c \in SyncCallers, NEW f \in Files, FinishCopy(c, f) \/ CopyFails(c, f)
       PROVE  SyncInv'
  BY <1>10, CopyEndsInv
<1>11. CASE UNCHANGED syncVars
  BY <1>11 DEF syncVars, SyncInv, SyncTyped, TimesGrow, Seen, Dated, CallsOrdered, NewestKept,
               FileKept, OnASide, CutShort, Plain, LaterHolds, Older, CopiesWell, Copying, Source,
               Target
<1> QED
  BY <1>1, <1>2, <1>3, <1>4, <1>5, <1>6, <1>7, <1>8, <1>9, <1>10, <1>11 DEF SyncNext

\* Synchronising two directories by modification time never leaves an older
\* edit of a file in place of its newest, whatever number of calls in either
\* direction overlap and whichever copies fail (sync.go:50-230): the newest is
\* on a side, or both sides have the file cut short.  Nothing is said of the
\* files in "excused", which Sync lists and why.
THEOREM NewestEditKept == SyncSpec => []NewestSurvives
<1>1. SyncInv => NewestSurvives
  BY DEF SyncInv, NewestKept, FileKept, NewestSurvives
<1> QED
  BY <1>1, SyncInitInv, SyncStepInv, PTL DEF SyncSpec
=============================================================================
