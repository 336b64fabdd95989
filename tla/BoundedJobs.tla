---------------------------- MODULE BoundedJobs ----------------------------
(***************************************************************************)
(* What a batch (Batch) and the parallel phase of a chunked transfer       *)
(* (ChunkTransfer) promise, without channels or goroutines: every job runs *)
(* once, at most Limit of them at a time, and it is over when all of them  *)
(* have run.                                                               *)
(***************************************************************************)
EXTENDS Integers, FiniteSets

CONSTANTS Jobs, Limit

VARIABLES running,  \* jobs under way
          finished, \* jobs that have run
          over      \* all have run, and their caller has gone on

jobVars == <<running, finished, over>>

Init == running = {} /\ finished = {} /\ over = FALSE

Start(j) ==
    /\ j \notin running \cup finished
    /\ Cardinality(running) < Limit
    /\ running' = running \cup {j}
    /\ UNCHANGED <<finished, over>>

Finish(j) ==
    /\ j \in running
    /\ running' = running \ {j}
    /\ finished' = finished \cup {j}
    /\ UNCHANGED over

Return ==
    /\ finished = Jobs
    /\ over' = TRUE
    /\ UNCHANGED <<running, finished>>

Next == Return \/ \E j \in Jobs : Start(j) \/ Finish(j)

Spec == Init /\ [][Next]_jobVars
=============================================================================
