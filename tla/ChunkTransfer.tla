--------------------------- MODULE ChunkTransfer ---------------------------
(***************************************************************************)
(* UploadWithChunk and DownloadWithChunk (internal/sftp/chunk.go) on one   *)
(* session and one pair of files, call after call: the file is cut in      *)
(* chunks, a goroutine per chunk writes a chunk file beside the target,    *)
(* and the caller then merges the chunk files.  A goroutine that fails     *)
(* only logs it, so the merge is what finds a missing chunk; chunk files   *)
(* of a failed call stay for the next one.  Meanwhile somebody may close   *)
(* the session's client, or the connection breaks.                         *)
(*                                                                         *)
(* Of a file's content the model keeps the call that wrote it and its      *)
(* length, where a byte less stands for any short file; the source changes *)
(* between calls and not during one.  The caller of a transfer reads its   *)
(* progress channel, or gave none.                                         *)
(***************************************************************************)
EXTENDS Sequences, FiniteSets, SFTPClients

CONSTANTS Sizes,       \* sizes of the source file
          ChunkSizes,  \* config.ChunkSize of a call
          Parallels,   \* config.MaxParallel of a call
          Buffer,      \* bytes a download reads at once (32 KiB)
          MaxCalls,    \* bound: calls
          MaxChunks    \* bound: chunks of a call

Jobs == 1..MaxChunks

ASSUME ChunkTransferAssumption ==
    /\ Sizes \subseteq Nat /\ ChunkSizes \subseteq Nat \ {0}
    /\ Parallels \subseteq Nat /\ Buffer \in Nat \ {0} /\ MaxCalls \in Nat
    /\ MaxChunks \in Nat /\ Actors = 0..MaxChunks
    /\ \A s \in Sizes, c \in ChunkSizes : (s + c - 1) \div c \in Actors

VARIABLES dir,       \* "up" or "down", the same for all calls
          calls,     \* calls so far; the running call's number
          size,      \* size of the source
          chunkSize, \* the call's config.ChunkSize
          parallel,  \* the call's config.MaxParallel
          phase,     \* what the caller is at
          place,     \* where the caller (0) and the goroutines are
          slots,     \* len(sem)
          chunks,    \* chunks[i]: the chunk file, or None
          out,       \* what the call has written to the target file
          result,    \* of the last call
          hidden,    \* history: the call went on over a failure that left a file
          closed     \* history: the client was closed during a call

callVars == <<dir, calls, size, chunkSize, parallel>>
fileVars == <<chunks, out, hidden>>
vars == <<callVars, phase, place, slots, fileVars, result, closed, cacheVars>>

None     == [ver |-> 0, len |-> 0]
Count    == (size + chunkSize - 1) \div chunkSize
Offset(i) == (i - 1) * chunkSize
Expected(i) == IF Offset(i) + chunkSize > size THEN size - Offset(i) ELSE chunkSize
Whole    == [i \in 1..Count |-> [ver |-> calls, len |-> Expected(i)]]
Piece(n) == [ver |-> calls, len |-> n]

Alive(a) == client[a] \in open

\* A download reads whole buffers until it has enough or the file ends.
Reads(i) ==
    LET full == ((Expected(i) + Buffer - 1) \div Buffer) * Buffer
    IN  IF Offset(i) + full > size THEN size - Offset(i) ELSE full

Init ==
    /\ dir \in {"up", "down"} /\ calls = 0 /\ size = 0 /\ chunkSize = 1 /\ parallel = 0
    /\ phase = "idle" /\ place = [a \in Actors |-> "none"] /\ slots = 0
    /\ chunks = [i \in Jobs |-> None] /\ out = <<>>
    /\ result = "none" /\ hidden = FALSE /\ closed = FALSE
    /\ CacheInit

At(a, p)   == place[a] = p
Goto(a, p) == place' = [place EXCEPT ![a] = p]

\* The caller returns r.
End(r) ==
    /\ phase' = "idle" /\ result' = r
    /\ Goto(0, "none")

\* A goroutine per chunk.
Launched(p) == [a \in Actors |-> IF a \in 1..Count THEN p ELSE "none"]

-----------------------------------------------------------------------------
\* Starts the goroutines of a download without asking for the size first.
BeginUnasked(s, c, k) ==
    /\ phase = "idle" /\ calls < MaxCalls
    /\ calls' = calls + 1 /\ size' = s /\ chunkSize' = c /\ parallel' = k
    /\ IF s > c
         THEN phase' = "jobs" /\ place' = Launched("slot")'
         ELSE phase' = "plain" /\ Goto(0, "client")
    /\ out' = <<>> /\ result' = "none" /\ hidden' = FALSE
    /\ NoClients
    /\ UNCHANGED <<dir, slots, chunks, closed>>

(* UploadWithChunk knows the size and starts with the goroutines, or hands *)
(* a small file to Upload; DownloadWithChunk has to ask for the size.      *)
Begin(s, c, k) ==
    /\ phase = "idle" /\ calls < MaxCalls
    /\ calls' = calls + 1 /\ size' = s /\ chunkSize' = c /\ parallel' = k
    /\ IF dir = "up" /\ s > c
         THEN phase' = "jobs" /\ place' = Launched("slot")'
         ELSE /\ phase' = IF dir = "up" THEN "plain" ELSE "size"
              /\ Goto(0, "client")
    /\ out' = <<>> /\ result' = "none" /\ hidden' = FALSE
    /\ NoClients
    /\ UNCHANGED <<dir, slots, chunks, closed>>

-----------------------------------------------------------------------------
(* getOrCreateClient of the caller or a goroutine.                         *)
LookUp(a) ==
    /\ At(a, "client")
    /\ \/ CacheHit(a) /\ Goto(a, "open")
       \/ CacheMiss(a) /\ Goto(a, "dial")
    /\ UNCHANGED <<callVars, phase, slots, fileVars, result, closed>>

Dial(a) ==
    /\ At(a, "dial")
    /\ NewClient(a)
    /\ Goto(a, "store")
    /\ UNCHANGED <<callVars, phase, slots, fileVars, result, closed>>

Store(a) ==
    /\ At(a, "store")
    /\ StoreClient(a)
    /\ Goto(a, "open")
    /\ UNCHANGED <<callVars, phase, slots, fileVars, result, closed>>

\* A goroutine returns and gives its slot back.
JobEnds(i) ==
    /\ slots' = slots - 1
    /\ Goto(i, "done")

\* One that fails leaves the chunk file alone, and any that was there before.
JobFails(i) ==
    /\ JobEnds(i)
    /\ hidden' = (hidden \/ chunks[i] # None)
    /\ UNCHANGED <<phase, chunks, out, result>>

\* Keeps the slot when there is no client.
DialFailsKeepsSlot(a) ==
    /\ At(a, "dial")
    /\ NewClientFails(a)
    /\ IF a = 0 THEN End("error") ELSE Goto(a, "done") /\ UNCHANGED <<phase, result>>
    /\ UNCHANGED <<callVars, slots, fileVars, closed>>

DialFails(a) ==
    /\ At(a, "dial")
    /\ NewClientFails(a)
    /\ IF a = 0 THEN End("error") /\ UNCHANGED <<slots, fileVars>> ELSE JobFails(a)
    /\ UNCHANGED <<callVars, closed>>

-----------------------------------------------------------------------------
\* Does not count the slot.
TakeSlotUncounted(i) ==
    /\ At(i, "slot")
    /\ slots < parallel
    /\ Goto(i, IF dir = "up" THEN "read" ELSE "client")
    /\ UNCHANGED <<callVars, phase, slots, fileVars, result, closed, cacheVars>>

(* A goroutine waits for a slot after it has been started.                 *)
TakeSlot(i) ==
    /\ At(i, "slot")
    /\ slots < parallel
    /\ slots' = slots + 1
    /\ Goto(i, IF dir = "up" THEN "read" ELSE "client")
    /\ UNCHANGED <<callVars, phase, fileVars, result, closed, cacheVars>>

(* An upload reads the chunk before it asks for a client.                  *)
ReadChunk(i) ==
    /\ At(i, "read")
    /\ \/ /\ Goto(i, "client")
          /\ UNCHANGED <<phase, slots, fileVars, result>>
       \/ JobFails(i)
    /\ UNCHANGED <<callVars, closed, cacheVars>>

(* Open and seek the source of a download; create, that is empty, the      *)
(* chunk file.  A dead client can do neither.                              *)
CreateChunk(i) ==
    /\ At(i, "open")
    /\ \/ /\ Alive(i)
          /\ chunks' = [chunks EXCEPT ![i] = Piece(0)]
          /\ Goto(i, "copy")
          /\ UNCHANGED <<phase, slots, out, hidden, result>>
       \/ JobFails(i)
    /\ UNCHANGED <<callVars, closed, cacheVars>>

(* Fill it.  An error leaves a short chunk file: an upload logs it, a      *)
(* download does not notice.                                               *)
CopyChunk(i) ==
    /\ At(i, "copy")
    /\ \/ /\ Alive(i)
          /\ chunks' = [chunks EXCEPT ![i] =
                           Piece(IF dir = "up" THEN Expected(i) ELSE Reads(i))]
          /\ UNCHANGED hidden
       \/ /\ chunks' = [chunks EXCEPT ![i] = Piece(Expected(i) - 1)]
          /\ hidden' = TRUE
    /\ JobEnds(i)
    /\ UNCHANGED <<callVars, phase, out, result, closed, cacheVars>>

-----------------------------------------------------------------------------
(* GetFileSize; a small file is left to Download.                          *)
Size ==
    /\ phase = "size" /\ At(0, "open")
    /\ \/ End("error")
       \/ /\ Alive(0)
          /\ IF size > chunkSize
               THEN phase' = "jobs" /\ place' = Launched("slot")
               ELSE phase' = "plain" /\ Goto(0, "client")
          /\ UNCHANGED result
    /\ UNCHANGED <<callVars, slots, fileVars, closed, cacheVars>>

(* Upload and Download: a write error is returned, a read error ends the   *)
(* copy like the end of the file.                                          *)
Plain ==
    /\ phase = "plain" /\ At(0, "open")
    /\ \/ End("error") /\ UNCHANGED <<out, hidden>>
       \/ /\ Alive(0)
          /\ \/ /\ End("ok")
                /\ out' = Whole
                /\ UNCHANGED hidden
             \/ \E r \in {"ok", "error"} :
                  /\ size > 0
                  /\ End(r)
                  /\ out' = <<Piece(size - 1)>>
                  /\ hidden' = TRUE
    /\ UNCHANGED <<callVars, slots, chunks, closed, cacheVars>>

(* wg.Wait.  The merge of an upload needs a client.                        *)
JobsDone ==
    /\ phase = "jobs"
    /\ \A i \in 1..Count : At(i, "done")
    /\ phase' = "merge"
    /\ place' = [a \in Actors |-> IF a # 0 THEN "none"
                                  ELSE IF dir = "up" THEN "client" ELSE "open"]
    /\ NoClients
    /\ UNCHANGED <<callVars, slots, fileVars, result, closed>>

CanMerge == dir = "down" \/ Alive(0)

(* Create the target.                                                      *)
MergeCreate ==
    /\ phase = "merge" /\ At(0, "open")
    /\ \/ End("error") /\ UNCHANGED out
       \/ /\ CanMerge
          /\ out' = <<>>
          /\ Goto(0, "copy")
          /\ UNCHANGED <<phase, result>>
    /\ UNCHANGED <<callVars, slots, chunks, hidden, closed, cacheVars>>

\* Takes a missing chunk file for an empty one.
MergeMissing ==
    LET i == Len(out) + 1
    IN /\ phase = "merge" /\ At(0, "copy") /\ i <= Count
       /\ CanMerge
       /\ out' = Append(out, chunks[i])
       /\ chunks' = [chunks EXCEPT ![i] = None]
       /\ UNCHANGED <<callVars, phase, place, slots, hidden, result, closed, cacheVars>>

(* Append the next chunk file and remove it; that it cannot be read to its *)
(* end, or cannot be removed, goes unnoticed.                              *)
MergeChunk ==
    LET i == Len(out) + 1
    IN /\ phase = "merge" /\ At(0, "copy") /\ i <= Count
       /\ \/ End("error") /\ UNCHANGED <<chunks, out, hidden>>
          \/ /\ CanMerge /\ chunks[i] # None
             /\ \/ out' = Append(out, chunks[i]) /\ UNCHANGED hidden
                \/ /\ chunks[i].len > 0
                   /\ out' = Append(out, [chunks[i] EXCEPT !.len = @ - 1])
                   /\ hidden' = TRUE
             /\ chunks' \in {chunks, [chunks EXCEPT ![i] = None]}
             /\ UNCHANGED <<phase, place, result>>
       /\ UNCHANGED <<callVars, slots, closed, cacheVars>>

(* A download also removes the directory of its chunk files.               *)
MergeEnd ==
    /\ phase = "merge" /\ At(0, "copy") /\ Len(out) = Count
    /\ End("ok")
    /\ chunks' = IF dir = "down" THEN [i \in Jobs |-> None] ELSE chunks
    /\ UNCHANGED <<callVars, slots, out, hidden, closed, cacheVars>>

-----------------------------------------------------------------------------
Close ==
    /\ CloseClient
    /\ closed' = (closed \/ phase # "idle")
    /\ UNCHANGED <<callVars, phase, place, slots, fileVars, result>>

Lose ==
    /\ ConnectionLost
    /\ UNCHANGED <<callVars, phase, place, slots, fileVars, result, closed>>

CallerStep ==
    \/ LookUp(0) \/ Dial(0) \/ DialFails(0) \/ Store(0)
    \/ Size \/ Plain \/ JobsDone \/ MergeCreate \/ MergeChunk \/ MergeEnd

JobStep(i) ==
    \/ TakeSlot(i) \/ ReadChunk(i) \/ CreateChunk(i) \/ CopyChunk(i)
    \/ LookUp(i) \/ Dial(i) \/ DialFails(i) \/ Store(i)

Next ==
    \/ \E s \in Sizes, c \in ChunkSizes, k \in Parallels : Begin(s, c, k)
    \/ CallerStep
    \/ \E i \in Jobs : JobStep(i)
    \/ Close \/ Lose

Spec == Init /\ [][Next]_vars

\* A goroutine that can go on goes on, the caller too.
FairSpec == Spec /\ WF_vars(CallerStep) /\ \A i \in Jobs : WF_vars(JobStep(i))

-----------------------------------------------------------------------------
Places == {"none", "slot", "read", "client", "dial", "store", "open", "copy", "done"}
Pieces == [ver : Nat, len : Int]

(* The number of taken slots never goes below zero, and each client is one *)
(* that was made (chunk.go:57-58, sftp.go:54-63).                          *)
TypeOK ==
    /\ dir \in {"up", "down"} /\ calls \in Nat /\ parallel \in Nat
    /\ size \in Nat /\ chunkSize \in Nat \ {0}
    /\ phase \in {"idle", "size", "plain", "jobs", "merge"}
    /\ place \in [Actors -> Places]
    /\ slots \in Nat
    /\ chunks \in [Jobs -> Pieces] /\ out \in Seq(Pieces)
    /\ result \in {"none", "ok", "error"}
    /\ hidden \in BOOLEAN /\ closed \in BOOLEAN
    /\ CacheTypeOK

\* Chunks a download fills with whole buffers fit the chunk size.
Fits == dir = "up" \/ size <= chunkSize \/ chunkSize % Buffer = 0

(* A transfer that reports success has written the file of this call,      *)
(* whatever an earlier call has left behind and although the goroutines    *)
(* report nothing (chunk.go:66-131) - as long as no failure left a file    *)
(* for the merge to take, and the chunk size is a multiple of the buffer   *)
(* of a download.                                                          *)
OkIsWhole == result = "ok" /\ ~hidden /\ Fits => out = Whole

(* A download's goroutines share one client, because GetFileSize has       *)
(* cached it before they start (chunk.go:153) - unless it is closed under  *)
(* them.                                                                   *)
DownloadSharesClient == dir = "down" /\ ~closed => ~doubled

\* The chunks whose goroutine has a slot, and those whose goroutine has ended;
\* the caller that goes on to the merge forgets where they were.
InSlot == {i \in Jobs : place[i] \in {"read", "client", "dial", "store", "open", "copy"}}
Ended  == IF phase = "merge" THEN 1..Count ELSE {i \in Jobs : At(i, "done")}

(* The parallel phase of a call of n chunks, k at a time, is a run of      *)
(* BoundedJobs: it begins with no chunk started, every chunk is worked on  *)
(* once and by at most MaxParallel goroutines together, and the merge      *)
(* begins when all have ended (chunk.go:49-134, 174-253) - whatever fails, *)
(* and whichever of its ends a goroutine leaves by.                        *)
ChunkJobs(n, k) == INSTANCE BoundedJobs
                     WITH Jobs <- 1..n, Limit <- k,
                          running <- InSlot, finished <- Ended,
                          over <- phase = "merge"
ImplementsJobs ==
    [][\A n \in 0..MaxChunks, k \in Parallels :
          n = Count' /\ k = parallel' =>
              /\ phase # "jobs" /\ phase' = "jobs" => ChunkJobs(n, k)!Init'
              /\ phase = "jobs" => [ChunkJobs(n, k)!Next]_(ChunkJobs(n, k)!jobVars)]_vars

(* Every call returns, however its goroutines end (chunk.go:56, 181), when *)
(* there is a slot to give.                                                *)
TransferReturns == (phase # "idle" /\ parallel > 0) ~> (phase = "idle")
=============================================================================
