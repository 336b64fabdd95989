-------------------------------- MODULE Sync --------------------------------
(***************************************************************************)
(* Directory synchronisation (internal/sftp/sync.go) over the plain file   *)
(* operations of sftp.go.  SyncUpload and SyncDownload take one look at    *)
(* each side, decide from the two looks what to copy and what to delete,   *)
(* and copy in goroutines, "Parallel" at a time.  Nothing locks anything:  *)
(* calls overlap, of the same two directories too, and users go on editing *)
(* both sides meanwhile.                                                   *)
(*                                                                         *)
(* A file's contents are the number of the edit that made them, or         *)
(* HalfCopy: cut short, by a copy that is under way or has ended there.    *)
(* Both hosts' clocks agree and count whole seconds, which is all that     *)
(* Unix() leaves of a modification time.                                   *)
(***************************************************************************)
EXTENDS Integers, FiniteSets, Functions

CONSTANTS
  SyncCallers,                  \* goroutines that synchronise
  Files,                        \* paths below the two directories
  Nested,                       \* those in a subdirectory: List shows none of them
  Folder,                       \* the name of that subdirectory, a path as well
  Ignored,                      \* those that a pattern of opts.Ignore matches
  Absent,                       \* no such file
  Directory,                    \* a directory of that name
  Parallel,                     \* opts.Parallel: copies at a time
  MaxTime,                      \* bound: seconds
  MaxEdits,                     \* bound: edits by users
  MaxCalls                      \* bound: calls

\* A file as either side keeps it.
Versions == [data : Nat, mtime : Nat]

ASSUME SyncAssumption ==
  /\ Absent \notin Versions /\ Directory \notin Versions /\ Absent # Directory
  /\ Nested \subseteq Files \ {Folder} /\ Ignored \subseteq Files
  /\ Parallel \in Nat \ {0} /\ MaxTime \in Nat /\ MaxEdits \in Nat /\ MaxCalls \in Nat

VARIABLES
  clock,                        \* seconds on both clocks
  edits, calls,                 \* edits and calls so far
  local, remote,                \* path -> [data, mtime], Directory or Absent
  call,                         \* caller -> its call: direction, options, how far
  seenLocal, seenRemote,        \* caller -> scanLocalDir's and List's answers
  orphans,                      \* caller -> what its call has yet to delete
  job,                          \* caller -> path -> its copy, "none" outside a call
  opened,                       \* caller -> path -> the contents that the copy has opened
  newest,                       \* history: the last edit of a file, 0 for none
  excused                       \* history: files whose last edit the code may drop

syncVars == <<clock, edits, calls, local, remote, call, seenLocal, seenRemote, orphans, job,
              opened, newest, excused>>

HalfCopy == 0
Modes == {"size", "mtime", "checksum"}
Nothing == [f \in Files |-> Absent]
NoJobs == [f \in Files |-> "none"]
Idle == [up |-> FALSE, mode |-> "mtime", delete |-> FALSE, at |-> "idle"]

Present(side) == {f \in Files : side[f] # Absent}
Plain(side) == {f \in Files : side[f] \notin {Absent, Directory}}

\* Two edits may leave a file at the same length, a torn file is shorter.
Length(data) == IF data = HalfCopy THEN 0 ELSE 1 + (data % 2)

Copying(c, f) == job[c][f] = "copying"

SyncInit ==
  /\ clock = 1 /\ edits = 0 /\ calls = 0
  /\ local = Nothing /\ remote = Nothing
  /\ call = [c \in SyncCallers |-> Idle]
  /\ seenLocal = [c \in SyncCallers |-> Nothing]
  /\ seenRemote = [c \in SyncCallers |-> Nothing]
  /\ orphans = [c \in SyncCallers |-> {}]
  /\ job = [c \in SyncCallers |-> NoJobs]
  /\ opened = [c \in SyncCallers |-> [f \in Files |-> HalfCopy]]
  /\ newest = [f \in Files |-> 0]
  /\ excused = {}

-----------------------------------------------------------------------------
Tick ==
  /\ clock < MaxTime
  /\ clock' = clock + 1
  /\ UNCHANGED <<edits, calls, local, remote, call, seenLocal, seenRemote, orphans, job, opened,
                 newest, excused>>

\* An edit, which makes the directory that the file needs.
After(side, f) ==
  [g \in Files |-> CASE g = f -> [data |-> edits + 1, mtime |-> clock]
                     [] g = Folder /\ f \in Nested -> Directory
                     [] OTHER -> side[g]]

\* A user's edit is the newest, and is safe again, unless the file is being
\* copied or deleted, or a copy onto it has been decided.
Edited(f, side, overwritten) ==
  /\ edits < MaxEdits
  /\ f # Folder
  /\ f \in Nested => side[Folder] \in {Absent, Directory}
  /\ edits' = edits + 1
  /\ newest' = [newest EXCEPT ![f] = edits + 1]
  /\ excused' = IF \E c \in SyncCallers : \/ f \in orphans[c] \/ Copying(c, f)
                                          \/ job[c][f] = "queued" /\ c \in overwritten
                  THEN excused \cup {f} ELSE excused \ {f}
  /\ UNCHANGED <<clock, calls, call, seenLocal, seenRemote, orphans, job, opened>>

Uploads == {c \in SyncCallers : call[c].up}

EditLocal(f) ==
  /\ Edited(f, local, SyncCallers \ Uploads)
  /\ local' = After(local, f)
  /\ UNCHANGED remote

EditRemote(f) ==
  /\ Edited(f, remote, Uploads)
  /\ remote' = After(remote, f)
  /\ UNCHANGED local

-----------------------------------------------------------------------------
SyncCall(c, up, mode, delete) ==
  /\ call[c].at = "idle" /\ calls < MaxCalls
  /\ calls' = calls + 1
  /\ call' = [call EXCEPT ![c] = [up |-> up, mode |-> mode, delete |-> delete, at |-> "first"]]
  /\ UNCHANGED <<clock, edits, local, remote, seenLocal, seenRemote, orphans, job, opened,
                 newest, excused>>

\* An upload scans and then lists, a download lists and then scans.
Look(c, first) ==
  /\ call[c].at = IF first THEN "first" ELSE "second"
  /\ call' = [call EXCEPT ![c].at = IF first THEN "second" ELSE "decide"]
  /\ UNCHANGED <<clock, edits, calls, local, remote, orphans, job, opened, newest, excused>>

\* The files, at any depth, without the directories.  A download takes a scan
\* that ended at a file that vanished for a local directory that is not there,
\* and goes on with what it had seen.
ScanLocalDir(c) ==
  /\ Look(c, call[c].up)
  /\ \E seen \in IF call[c].up THEN {Plain(local)} ELSE SUBSET Plain(local) :
       seenLocal' = [seenLocal EXCEPT ![c] = [f \in Files |-> IF f \in seen THEN local[f] ELSE Absent]]
  /\ UNCHANGED seenRemote

\* The entries of the directory itself, a subdirectory among them, which
\* nobody tells from a file: it has a size and a date, here as late as may be.
List(c) ==
  /\ Look(c, ~call[c].up)
  /\ seenRemote' = [seenRemote EXCEPT ![c] =
       [f \in Files |-> IF f \in Nested THEN Absent
                       ELSE IF remote[f] = Directory THEN [data |-> 1, mtime |-> clock]
                       ELSE remote[f]]]
  /\ UNCHANGED seenLocal

Ends(c) ==
  /\ call' = [call EXCEPT ![c] = Idle]
  /\ seenLocal' = [seenLocal EXCEPT ![c] = Nothing]
  /\ seenRemote' = [seenRemote EXCEPT ![c] = Nothing]

\* A look that fails otherwise ends the call.
LookFails(c) ==
  /\ call[c].at \in {"first", "second"}
  /\ Ends(c)
  /\ UNCHANGED <<clock, edits, calls, local, remote, orphans, job, opened, newest, excused>>

\* A file of the same second counts as newer.
NeedSyncSameSecond(mode, here, there) == here.mtime >= there.mtime

\* The remote checksums are read from files that nothing writes: an upload
\* by checksum copies everything, a download by checksum nothing.
NeedSync(mode, here, there) ==
  CASE mode = "size"     -> Length(here.data) # Length(there.data)
    [] mode = "mtime"    -> here.mtime > there.mtime
    [] mode = "checksum" -> TRUE

NeedSyncLocal(mode, here, there) ==
  CASE mode = "size"     -> Length(here.data) # Length(there.data)
    [] mode = "mtime"    -> here.mtime < there.mtime
    [] mode = "checksum" -> FALSE

ShouldIgnore(f) == f \in Ignored

UploadTasks(mode, here, there) ==
  {f \in Present(here) \ {g \in Files : ShouldIgnore(g)} :
     there[f] = Absent \/ NeedSync(mode, here[f], there[f])}

DownloadTasks(mode, here, there) ==
  {f \in Present(there) \ {g \in Files : ShouldIgnore(g)} :
     here[f] = Absent \/ NeedSyncLocal(mode, here[f], there[f])}

Tasks(c) ==
  IF call[c].up THEN UploadTasks(call[c].mode, seenLocal[c], seenRemote[c])
                ELSE DownloadTasks(call[c].mode, seenLocal[c], seenRemote[c])

\* findOrphans and findLocalOrphans: ignored files too, the subdirectory in an
\* upload, and every nested local file in a download, as the listing has none.
Orphans(c) ==
  IF ~call[c].delete THEN {}
  ELSE IF call[c].up THEN Present(seenRemote[c]) \ Present(seenLocal[c])
       ELSE Present(seenLocal[c]) \ Present(seenRemote[c])

\* Whether what f would be copied onto is what the call has seen.
TargetAsSeen(c, f) ==
  IF call[c].up THEN remote[f] = seenRemote[c][f] ELSE local[f] = seenLocal[c][f]

\* A nested file that exists on the far side is not seen there.  What a mode
\* other than modification times overwrites, what a copy overwrites unseen and
\* what the caller has asked to delete is not the code's to keep.
Decide(c) ==
  /\ call[c].at = "decide"
  /\ call' = [call EXCEPT ![c].at = "run"]
  /\ orphans' = [orphans EXCEPT ![c] = Orphans(c)]
  /\ job' = [job EXCEPT ![c] = [f \in Files |-> IF f \in Tasks(c) THEN "queued" ELSE "none"]]
  /\ seenLocal' = [seenLocal EXCEPT ![c] = Nothing]
  /\ seenRemote' = [seenRemote EXCEPT ![c] = Nothing]
  /\ excused' = excused \cup Orphans(c)
                  \cup {f \in Tasks(c) : call[c].mode # "mtime" \/ f \in Nested \/ ~TargetAsSeen(c, f)}
  /\ UNCHANGED <<clock, edits, calls, local, remote, opened, newest>>

\* Failed deletions are not looked at; that of a directory with a file in it
\* always fails.
Delete(c, f) ==
  /\ call[c].at = "run" /\ f \in orphans[c]
  /\ orphans' = [orphans EXCEPT ![c] = @ \ {f}]
  /\ \/ UNCHANGED <<local, remote>>
     \/ /\ call[c].up
        /\ remote[f] = Directory => Nested \cap Present(remote) = {}
        /\ remote' = [remote EXCEPT ![f] = Absent] /\ UNCHANGED local
     \/ /\ ~call[c].up /\ local[f] # Directory
        /\ local' = [local EXCEPT ![f] = Absent] /\ UNCHANGED remote
  /\ UNCHANGED <<clock, edits, calls, call, seenLocal, seenRemote, job, opened, newest, excused>>

-----------------------------------------------------------------------------
Source(c) == IF call[c].up THEN local ELSE remote
Target(c) == IF call[c].up THEN remote ELSE local

TargetWritten(c, f, data) ==
  LET written == [Target(c) EXCEPT ![f] = [data |-> data, mtime |-> clock]]
  IN IF call[c].up THEN remote' = written /\ UNCHANGED local
                   ELSE local' = written /\ UNCHANGED remote

\* The semaphore that each call makes for its goroutines.
CopyBegins(c, f) ==
  /\ call[c].at = "run" /\ orphans[c] = {} /\ job[c][f] = "queued"
  /\ Cardinality({g \in Files : Copying(c, g)}) < Parallel

\* A goroutine takes a slot, opens the source - a directory as well - and
\* truncates the target.  Only the local directory is made for it.
StartCopy(c, f) ==
  /\ CopyBegins(c, f)
  /\ Source(c)[f] # Absent /\ Target(c)[f] # Directory
  /\ f \in Nested => IF call[c].up THEN remote[Folder] = Directory
                                   ELSE local[Folder] = Directory
  /\ job' = [job EXCEPT ![c][f] = "copying"]
  /\ opened' = [opened EXCEPT ![c][f] = IF Source(c)[f] = Directory THEN HalfCopy
                                                                 ELSE Source(c)[f].data]
  /\ TargetWritten(c, f, HalfCopy)
  /\ UNCHANGED <<clock, edits, calls, call, seenLocal, seenRemote, orphans, newest, excused>>

\* No directory for it, or one of the two files cannot be opened.
CopyRefused(c, f) ==
  /\ CopyBegins(c, f)
  /\ job' = [job EXCEPT ![c][f] = "none"]
  /\ UNCHANGED <<clock, edits, calls, local, remote, call, seenLocal, seenRemote, orphans, opened,
                 newest, excused>>

\* A copy ends and leaves one of these.  A target that was deleted meanwhile
\* is written to and gone.
CopyEnds(c, f, outcomes) ==
  /\ Copying(c, f)
  /\ IF f \in Plain(Target(c)) THEN \E data \in outcomes : TargetWritten(c, f, data)
                               ELSE UNCHANGED <<local, remote>>
  /\ job' = [job EXCEPT ![c][f] = "none"]
  /\ opened' = [opened EXCEPT ![c][f] = HalfCopy]
  /\ UNCHANGED <<clock, edits, calls, call, seenLocal, seenRemote, orphans, newest, excused>>

\* What was opened.  If the source was written to since, that, or what there is
\* now, or a part.
FinishCopy(c, f) ==
  LET source == Source(c)[f] IN
    CopyEnds(c, f, IF f \in Plain(Source(c)) /\ source.data # opened[c][f]
                     THEN {source.data, opened[c][f], HalfCopy} ELSE {opened[c][f]})

\* An error in the middle, which is logged, or, if it comes from reading, not
\* even noticed.  What has arrived stays, dated now, newer than the source;
\* what another copy has written to the target may be whole.
CopyFails(c, f) == CopyEnds(c, f, {HalfCopy, Target(c)[f].data})

\* wg.Wait returns, and the call returns nil whatever has failed.
SyncReturns(c) ==
  /\ call[c].at = "run" /\ orphans[c] = {} /\ job[c] = NoJobs
  /\ Ends(c)
  /\ UNCHANGED <<clock, edits, calls, local, remote, orphans, job, opened, newest, excused>>

SyncNext ==
  \/ Tick
  \/ \E f \in Files : EditLocal(f) \/ EditRemote(f)
  \/ \E c \in SyncCallers :
       \/ \E up, delete \in BOOLEAN, mode \in Modes : SyncCall(c, up, mode, delete)
       \/ ScanLocalDir(c) \/ List(c) \/ LookFails(c) \/ Decide(c) \/ SyncReturns(c)
       \/ \E f \in Files : \/ Delete(c, f) \/ StartCopy(c, f) \/ CopyRefused(c, f)
                           \/ FinishCopy(c, f) \/ CopyFails(c, f)

SyncSpec == SyncInit /\ [][SyncNext]_syncVars

-----------------------------------------------------------------------------
OnASide(f, data) == \E side \in {local, remote} : f \in Plain(side) /\ side[f].data = data
CutShort(f) == \A side \in {local, remote} : f \in Plain(side) /\ side[f].data = HalfCopy

(***************************************************************************)
(* Synchronising by modification time (the default, sync.go:53) leaves no  *)
(* older edit of a file in the place of the newest: however overlapping    *)
(* calls in both directions, edits on both sides, failed copies and        *)
(* seconds interleave, the last edit is on one of the sides, or both have  *)
(* the file cut short.  The latter is what becomes of a copy that failed,  *)
(* dated later than its source, when the next call copies it back, and of  *)
(* an upload and a download that truncate each other's source.             *)
(*                                                                         *)
(* Excused until the next edit is a file that was edited while a call was  *)
(* copying or deleting it or had decided to copy onto it, or whose target  *)
(* had changed between a call's look and its decision (edits again, and    *)
(* local files that a scan cut short did not list), or that a call asked   *)
(* to delete orphans or to go by size or checksum touched, or that is in a *)
(* subdirectory, where an upload does not see what it copies onto.         *)
(***************************************************************************)
NewestSurvives ==
  \A f \in Files \ excused :
    newest[f] # 0 => OnASide(f, newest[f]) \/ CutShort(f)
=============================================================================
