------------------------------ MODULE History ------------------------------
(***************************************************************************)
(* The command history (internal/command/history.go).  An entry is in the  *)
(* list of its session and in the global list; each list keeps the last    *)
(* MaxSize.  Only the session lists are saved, so a program that starts    *)
(* again and loads has its sessions' entries, an empty global list and an  *)
(* ID counter worked out from what it found.  Every operation holds the    *)
(* lock to its end, the write of the file included, and is one step.       *)
(***************************************************************************)
EXTENDS Naturals, Sequences, FiniteSets

CONSTANTS
  Sessions,                     \* session IDs other than ""
  NoSession,                    \* "": an entry of the global list only
  Torn,                         \* history.json cut short: no valid JSON
  MaxSize,                      \* config.MaxSize after its default
  MaxEntries                    \* bound: entries ever added

ASSUME HistoryAssumption ==
  /\ NoSession \notin Sessions
  /\ MaxSize \in Nat \ {0}
  /\ MaxEntries \in Nat

VARIABLES
  entries,                      \* session -> its list
  global,
  nextID,
  now,                          \* the clock entries are stamped by
  started,                      \* when the program last started
  file                          \* history.json: the lists saved, or Torn

histVars == <<entries, global, nextID, now, started, file>>

None == [s \in Sessions |-> << >>]   \* no list has anything; also no file

Entry == [ID : Nat, SessionID : Sessions \cup {NoSession}, Timestamp : Nat]

HistTypeOK ==
  /\ entries \in [Sessions -> Seq(Entry)]
  /\ global \in Seq(Entry)
  /\ nextID \in Nat
  /\ now \in Nat
  /\ started \in Nat
  /\ file \in [Sessions -> Seq(Entry)] \cup {Torn}

Elements(list) == {list[i] : i \in DOMAIN list}
InLists(lists) == UNION {Elements(lists[s]) : s \in Sessions}

HistInit ==
  /\ entries = None
  /\ global = << >>
  /\ nextID = 1
  /\ now = 0
  /\ started = 0
  /\ file = None

\* Save: all is written, nothing is, or the file is left cut short.
HistSave ==
  \/ file' = entries'
  \/ UNCHANGED file
  \/ file' = Torn

\* A bug: a full list loses the entry that was just added.
TrimNewest(list) == IF Len(list) > MaxSize THEN SubSeq(list, 1, MaxSize) ELSE list

Trim(list) == IF Len(list) > MaxSize THEN Tail(list) ELSE list

HistAdd(s) ==
  LET entry == [ID |-> nextID, SessionID |-> s, Timestamp |-> now + 1] IN
  /\ now < MaxEntries
  /\ now' = now + 1
  /\ nextID' = nextID + 1
  /\ entries' = IF s = NoSession THEN entries
                ELSE [entries EXCEPT ![s] = Trim(Append(@, entry))]
  /\ global' = Trim(Append(global, entry))
  /\ UNCHANGED started
  /\ HistSave

ClearAll ==
  /\ entries' = None
  /\ global' = << >>
  /\ UNCHANGED <<nextID, now, started>>
  /\ HistSave

\* The entries of one session go, those it has in the global list stay.
ClearSession(s) ==
  /\ entries' = [entries EXCEPT ![s] = << >>]
  /\ UNCHANGED <<global, nextID, now, started>>
  /\ HistSave

\* A bug: the counter starts again at one.
LoadCountsFromOne ==
  /\ entries' = IF file = Torn THEN None ELSE file
  /\ nextID' = 1

\* Load in a new program.  A torn file is an error and loads nothing.
Load ==
  LET found == IF file = Torn THEN None ELSE file
      IDs   == {e.ID : e \in InLists(found)}
  IN /\ entries' = found
     /\ nextID' = IF IDs = {} THEN 1
                  ELSE 1 + (CHOOSE i \in IDs : \A j \in IDs : j <= i)

\* The program ends and another starts: NewHistoryManager, then Load.
Restart ==
  /\ Load
  /\ global' = << >>
  /\ started' = now
  /\ UNCHANGED <<now, file>>

HistNext ==
  \/ \E s \in Sessions \cup {NoSession} : HistAdd(s)
  \/ ClearAll
  \/ \E s \in Sessions : ClearSession(s)
  \/ Restart

-----------------------------------------------------------------------------
InMemory == Elements(global) \cup InLists(entries)

(***************************************************************************)
(* Of the entries in memory no two have one ID, whatever was saved, lost   *)
(* or torn before the program started again: the counter Load works out    *)
(* (history.go:241-249) is past every ID that is still to be found, those  *)
(* being all on file, although the entries of no session never are.        *)
(***************************************************************************)
IDsIdentify ==
  \A d, e \in InMemory : d.ID = e.ID => d = e

(***************************************************************************)
(* What a session's history shows of this run of the program, the global   *)
(* history shows too, until MaxSize younger entries have pushed it out:    *)
(* the two lists are trimmed and cleared apart (history.go:76-84, 188-193) *)
(* and neither loses an entry the other should still have.                 *)
(***************************************************************************)
GlobalShowsRecent ==
  \A s \in Sessions : \A e \in Elements(entries[s]) :
    e.Timestamp > started =>
      \/ e \in Elements(global)
      \/ Cardinality({d \in Elements(global) : d.Timestamp > e.Timestamp}) = MaxSize
=============================================================================
