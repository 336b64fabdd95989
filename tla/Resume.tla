------------------------------- MODULE Resume -------------------------------
(***************************************************************************)
(* The resume manager (internal/sftp/resume.go): what is recorded of a     *)
(* transfer, so that it can go on after a failure.  A record is kept in    *)
(* the table and in a file of its own.  The table is locked, the records   *)
(* are not: callers share them by pointer, and the file is written outside *)
(* the lock.                                                               *)
(*                                                                         *)
(* What a record says is what its callers report: UpdateProgress takes any *)
(* number.  Where the bytes of a transfer that goes on from an offset land *)
(* (sftp.go:336-439) is not modelled, the record learns nothing of it.     *)
(***************************************************************************)
EXTENDS Integers, Functions

CONSTANTS
  Callers,                      \* goroutines
  NoRecord,
  Parts,                        \* the size of the file (a bound on progress, too)
  MaxRecords,                   \* bound: records made in one life of the program
  MaxRestarts                   \* bound

ASSUME ResumeAssumption == Parts \in Nat /\ MaxRecords \in Nat

\* Key joins session, direction, local and remote path; ResumeDownload looks
\* for session, direction, remote and local path, the "swapped" key, which only
\* a caller who swaps the paths has created.
Keys == {"upload", "download", "swapped"}
LookedUp == {"upload", "swapped"}

Records == 1 .. MaxRecords

VARIABLES
  key,                          \* the transfer's key: no call touches two of them
  state,                        \* its entry in m.states: a record, or NoRecord
  transferred,                  \* record -> state.Transferred
  made,                         \* records made since the start
  resumeFile,                   \* the progress in its file; NoRecord: none, or not whole
  saver,                        \* caller -> where its call is
  restarts,
  reported,                     \* history: the progress last asked to be recorded, or
                                \* NoRecord after a deletion was asked for
  callsCrossed,                 \* history: calls overlapped, or the program ended in one,
                                \* since a change last began alone
  saveFailed                    \* history: the last write or removal of the file failed

resumeVars == <<key, state, transferred, made, resumeFile, saver, restarts, reported,
                callsCrossed, saveFailed>>

NotCalling == [at |-> "idle", rec |-> NoRecord, data |-> 0]

ResumeInit ==
  /\ key \in Keys
  /\ state = NoRecord
  /\ transferred = [r \in Records |-> 0]
  /\ made = 0
  /\ resumeFile = NoRecord
  /\ saver = [c \in Callers |-> NotCalling]
  /\ restarts = 0
  /\ reported = NoRecord
  /\ callsCrossed = FALSE /\ saveFailed = FALSE

\* Who is changing the record, and who may yet enter one in the table.
Storing(c) == saver[c].at \in {"set", "register", "marshal", "write", "delete", "remove"}
Busy(c) == Storing(c) \/ saver[c].at \in {"read", "loaded"}

BesideOthers(c) == \E d \in Callers \ {c} : Busy(d)

\* A change to "what" begins; if nobody is about, it puts right what went wrong
\* before.
Reports(c, what) == reported' = what /\ callsCrossed' = BesideOthers(c)

Calls(c, at, r, data) == saver' = [saver EXCEPT ![c] = [at |-> at, rec |-> r, data |-> data]]

Goes(c, at) == saver' = [saver EXCEPT ![c].at = at]

Returned(c) == saver' = [saver EXCEPT ![c] = NotCalling]

\* A record is made.
Makes(progress) ==
  /\ made < MaxRecords
  /\ made' = made + 1
  /\ transferred' = [transferred EXCEPT ![made + 1] = progress]

-----------------------------------------------------------------------------
\* CreateResumeState makes a record with nothing transferred and saves it.
CreateResumeState(c) ==
  /\ saver[c].at = "idle"
  /\ Makes(0)
  /\ Calls(c, "register", made + 1, 0)
  /\ Reports(c, 0)
  /\ UNCHANGED <<key, state, resumeFile, restarts, saveFailed>>

\* UpdateProgress of a key that is not in the table does nothing.
UpdateProgress(c, n) ==
  /\ saver[c].at = "idle" /\ state # NoRecord
  /\ Calls(c, "set", state, n)
  /\ Reports(c, n)
  /\ UNCHANGED <<key, state, transferred, made, resumeFile, restarts, saveFailed>>

\* state.Transferred = transferred, without the lock.
SetTransferred(c) ==
  /\ saver[c].at = "set"
  /\ transferred' = [transferred EXCEPT ![saver[c].rec] = saver[c].data]
  /\ Goes(c, "register")
  /\ UNCHANGED <<key, state, made, resumeFile, restarts, reported, callsCrossed, saveFailed>>

\* SaveState: into the table, then marshalled, then written.  Both callers
\* drop its result.
EnterState(c) ==
  /\ saver[c].at = "register"
  /\ state' = saver[c].rec
  /\ Goes(c, "marshal")
  /\ UNCHANGED <<key, transferred, made, resumeFile, restarts, reported, callsCrossed,
                 saveFailed>>

MarshalState(c) ==
  /\ saver[c].at = "marshal"
  /\ saver' = [saver EXCEPT ![c].at = "write", ![c].data = transferred[saver[c].rec]]
  /\ UNCHANGED <<key, state, transferred, made, resumeFile, restarts, reported,
                 callsCrossed, saveFailed>>

\* Two writes at once may leave a file that is not JSON.
WriteState(c) ==
  /\ saver[c].at = "write"
  /\ \/ resumeFile' = saver[c].data
     \/ callsCrossed /\ resumeFile' = NoRecord
  /\ saveFailed' = FALSE
  /\ Returned(c)
  /\ UNCHANGED <<key, state, transferred, made, restarts, reported, callsCrossed>>

\* Before the file was opened, or after it was truncated.
WriteFails(c) ==
  /\ saver[c].at = "write"
  /\ resumeFile' \in {resumeFile, NoRecord}
  /\ saveFailed' = TRUE
  /\ Returned(c)
  /\ UNCHANGED <<key, state, transferred, made, restarts, reported, callsCrossed>>

-----------------------------------------------------------------------------
\* ResumeUpload and ResumeDownload load their records, each by its key: from
\* the table ...
LoadState(c) ==
  /\ key \in LookedUp
  /\ saver[c].at = "idle"
  /\ IF state # NoRecord
       THEN Calls(c, "resume", state, 0) /\ UNCHANGED callsCrossed
       ELSE Calls(c, "read", NoRecord, 0) /\ callsCrossed' = (callsCrossed \/ BesideOthers(c))
  /\ UNCHANGED <<key, state, transferred, made, resumeFile, restarts, reported, saveFailed>>

\* ... or from the file, outside the lock, ...
ReadState(c) ==
  /\ saver[c].at = "read" /\ resumeFile # NoRecord
  /\ Makes(resumeFile)
  /\ Calls(c, "loaded", made + 1, 0)
  /\ UNCHANGED <<key, state, resumeFile, restarts, reported, callsCrossed, saveFailed>>

\* ... if there is one that can be read and parsed.
ReadFails(c) ==
  /\ saver[c].at = "read"
  /\ Returned(c)
  /\ UNCHANGED <<key, state, transferred, made, resumeFile, restarts, reported,
                 callsCrossed, saveFailed>>

LoadEnters(c) ==
  /\ saver[c].at = "loaded"
  /\ state' = saver[c].rec
  /\ Goes(c, "resume")
  /\ UNCHANGED <<key, transferred, made, resumeFile, restarts, reported, callsCrossed,
                 saveFailed>>

TransferOver(c) == transferred[saver[c].rec] >= Parts

\* The source is anybody's to change.  ResumeUpload compares its checksum with
\* the record's, ResumeDownload its size, and only once the transfer is over;
\* the record goes when they differ.
FileChanged(c) ==
  /\ saver[c].at = "resume"
  /\ key = "upload" \/ TransferOver(c)
  /\ Goes(c, "delete")
  /\ Reports(c, NoRecord)
  /\ UNCHANGED <<key, state, transferred, made, resumeFile, restarts, saveFailed>>

\* An upload that is over returns; every other transfer goes on from the
\* record's offset, to the end or to an error.
TransferReturns(c) ==
  /\ saver[c].at = "resume"
  /\ Returned(c)
  /\ UNCHANGED <<key, state, transferred, made, resumeFile, restarts, reported,
                 callsCrossed, saveFailed>>

DeleteState(c) ==
  /\ saver[c].at = "idle"
  /\ Calls(c, "delete", NoRecord, 0)
  /\ Reports(c, NoRecord)
  /\ UNCHANGED <<key, state, transferred, made, resumeFile, restarts, saveFailed>>

\* Leaves the file where it is.
ForgetInMemory(c) ==
  /\ saver[c].at = "delete"
  /\ state' = NoRecord
  /\ Returned(c)
  /\ UNCHANGED <<key, transferred, made, resumeFile, restarts, reported, callsCrossed,
                 saveFailed>>

Forget(c) ==
  /\ saver[c].at = "delete"
  /\ state' = NoRecord
  /\ Goes(c, "remove")
  /\ UNCHANGED <<key, transferred, made, resumeFile, restarts, reported, callsCrossed,
                 saveFailed>>

\* os.Remove; that there is no file is no failure.
RemoveFile(c) ==
  /\ saver[c].at = "remove"
  /\ \/ resumeFile' = NoRecord /\ saveFailed' = FALSE
     \/ UNCHANGED resumeFile /\ saveFailed' = TRUE
  /\ Returned(c)
  /\ UNCHANGED <<key, state, transferred, made, restarts, reported, callsCrossed>>

-----------------------------------------------------------------------------
\* The program ends, whatever it was doing; the files stay, but for one that
\* was being written and is cut short.
RestartResume ==
  /\ restarts < MaxRestarts
  /\ restarts' = restarts + 1
  /\ state' = NoRecord
  /\ transferred' = [r \in Records |-> 0]
  /\ made' = 0
  /\ saver' = [c \in Callers |-> NotCalling]
  /\ callsCrossed' = (callsCrossed \/ \E c \in Callers : Storing(c))
  /\ \/ UNCHANGED resumeFile
     \/ (\E c \in Callers : saver[c].at = "write") /\ resumeFile' = NoRecord
  /\ UNCHANGED <<key, reported, saveFailed>>

ResumeNext ==
  \/ \E c \in Callers :
       \/ CreateResumeState(c) \/ DeleteState(c) \/ \E n \in 0 .. Parts : UpdateProgress(c, n)
       \/ SetTransferred(c) \/ EnterState(c) \/ MarshalState(c) \/ WriteState(c)
       \/ WriteFails(c) \/ Forget(c) \/ RemoveFile(c)
       \/ LoadState(c) \/ ReadState(c) \/ ReadFails(c) \/ LoadEnters(c)
       \/ FileChanged(c) \/ TransferReturns(c)
  \/ RestartResume

ResumeSpec == ResumeInit /\ [][ResumeNext]_resumeVars

-----------------------------------------------------------------------------
(***************************************************************************)
(* What a transfer would go on from is what was reported of it last: with  *)
(* no change under way the file has it, and so has the record in the       *)
(* table, if there is one, through any sequence of creations, reports,     *)
(* deletions, loads and crashes - except after calls that overlapped       *)
(* (SaveState writes outside the lock, resume.go:44-66, and LoadState      *)
(* enters what it has read, resume.go:76-92), after a change that a crash  *)
(* cut short, and after a write or removal that failed.  Each lasts only   *)
(* until the next change that has the record to itself and succeeds: what  *)
(* overlapping calls leave behind in the table, in the file or in records  *)
(* still held by pointer does not come back after it.                      *)
(***************************************************************************)
RecordIsCurrent ==
  (\A c \in Callers : ~Storing(c)) =>
    \/ callsCrossed \/ saveFailed
    \/ resumeFile = reported /\ (state # NoRecord => transferred[state] = reported)
=============================================================================
