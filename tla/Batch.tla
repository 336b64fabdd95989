------------------------------- MODULE Batch -------------------------------
(***************************************************************************)
(* BatchExecutor.Execute (internal/command/batch.go): one command on many  *)
(* sessions.  The caller takes a place in a semaphore - a channel with     *)
(* room for Parallel - and then starts a goroutine, session after session; *)
(* a goroutine gives its place back before it reports to the WaitGroup the *)
(* caller waits for in the end.                                            *)
(***************************************************************************)
EXTENDS Integers, FiniteSets

CONSTANTS N,        \* len(batch.SessionIDs)
          Parallel  \* batch.Parallel as the caller set it

ASSUME BatchAssumption == N \in Nat /\ Parallel \in Nat

VARIABLES next,     \* the session the caller's loop is at, N+1 after the loop
          sem,      \* places taken in the semaphore
          wg,       \* the counter of the WaitGroup
          worker,   \* where the goroutine of each session is
          results,  \* results[i], or "nil"
          returned  \* Execute has returned

batchVars == <<next, sem, wg, worker, results, returned>>

Sessions == 1..N
Places   == {"none", "lookup", "command", "release", "done", "ended"}

BatchInit ==
    /\ next = 1 /\ sem = 0 /\ wg = 0
    /\ worker = [i \in Sessions |-> "none"]
    /\ results = [i \in Sessions |-> "nil"]
    /\ returned = FALSE

-----------------------------------------------------------------------------
\* Starts the goroutine first and takes the place in it.
LaunchUnbounded ==
    /\ next <= N
    /\ wg' = wg + 1
    /\ sem' = sem + 1
    /\ worker' = [worker EXCEPT ![next] = "lookup"]
    /\ next' = next + 1
    /\ UNCHANGED <<results, returned>>

(* wg.Add(1), take a place, start the goroutine.  The channel is made      *)
(* before Parallel gets its default, so with Parallel = 0 nobody ever      *)
(* takes a place.                                                          *)
Launch ==
    /\ next <= N
    /\ sem < Parallel
    /\ wg' = wg + 1
    /\ sem' = sem + 1
    /\ worker' = [worker EXCEPT ![next] = "lookup"]
    /\ next' = next + 1
    /\ UNCHANGED <<results, returned>>

\* Leaves at once, with its place, when the session is unknown.
LookupKeepsPlace(i) ==
    /\ worker[i] = "lookup"
    /\ \/ /\ worker' = [worker EXCEPT ![i] = "command"]
          /\ UNCHANGED results
       \/ /\ worker' = [worker EXCEPT ![i] = "done"]
          /\ results' = [results EXCEPT ![i] = "error"]
    /\ UNCHANGED <<next, sem, wg, returned>>

(* GetSession: an unknown session is a result of its own.                  *)
Lookup(i) ==
    /\ worker[i] = "lookup"
    /\ \/ /\ worker' = [worker EXCEPT ![i] = "command"]
          /\ UNCHANGED results
       \/ /\ worker' = [worker EXCEPT ![i] = "release"]
          /\ results' = [results EXCEPT ![i] = "error"]
    /\ UNCHANGED <<next, sem, wg, returned>>

(* executeCommand, which has no error; store the result.                   *)
RunCommand(i) ==
    /\ worker[i] = "command"
    /\ results' = [results EXCEPT ![i] = "output"]
    /\ worker' = [worker EXCEPT ![i] = "release"]
    /\ UNCHANGED <<next, sem, wg, returned>>

(* The deferred calls, last first: give the place back ...                 *)
Release(i) ==
    /\ worker[i] = "release"
    /\ sem' = sem - 1
    /\ worker' = [worker EXCEPT ![i] = "done"]
    /\ UNCHANGED <<next, wg, results, returned>>

(* ... and then wg.Done.                                                   *)
Done(i) ==
    /\ worker[i] = "done"
    /\ wg' = wg - 1
    /\ worker' = [worker EXCEPT ![i] = "ended"]
    /\ UNCHANGED <<next, sem, results, returned>>

\* Does not wait for the goroutines.
ReturnUnwaited ==
    /\ next > N
    /\ ~returned
    /\ returned' = TRUE
    /\ UNCHANGED <<next, sem, wg, worker, results>>

(* wg.Wait, and the results are returned.                                  *)
Return ==
    /\ next > N
    /\ wg = 0
    /\ ~returned
    /\ returned' = TRUE
    /\ UNCHANGED <<next, sem, wg, worker, results>>

BatchNext ==
    \/ Launch \/ Return
    \/ \E i \in Sessions : Lookup(i) \/ RunCommand(i) \/ Release(i) \/ Done(i)

BatchSpec == BatchInit /\ [][BatchNext]_batchVars

-----------------------------------------------------------------------------
TypeOK ==
    /\ next \in 1..(N + 1)
    /\ sem \in Nat /\ wg \in Nat
    /\ worker \in [Sessions -> Places]
    /\ results \in [Sessions -> {"nil", "error", "output"}]
    /\ returned \in BOOLEAN

\* The sessions that have a place in the semaphore.
InPlace == {i \in Sessions : worker[i] \in {"lookup", "command", "release"}}

(* Execute is a bounded parallel map: a session is worked on while its     *)
(* goroutine has a place in the semaphore, and done with when it has given *)
(* the place back and there is a result: what the caller gets has one for  *)
(* every session (GetBatchSummary, batch.go:191, reads them all without a  *)
(* nil check).                                                             *)
Jobs == INSTANCE BoundedJobs
          WITH Jobs <- Sessions, Limit <- Parallel,
               running <- InPlace,
               finished <- {i \in Sessions : results[i] # "nil"} \ InPlace,
               over <- returned
ImplementsJobs == Jobs!Spec
=============================================================================
