-------------------------- MODULE TransferProofs --------------------------
(***************************************************************************)
(* For any number of chunks, slots, calls and clients: the slots taken are *)
(* those of the goroutines under way, a client that is open can be closed  *)
(* unless two were made at once, and the goroutines of a download share a  *)
(* client.  The last two rest on where the actors stand: who is creating a *)
(* client is at "dial" or "store", and outside of a call's parallel phase  *)
(* that can only be the caller.  The parallel phase itself is shown to be  *)
(* a run of BoundedJobs.                                                   *)
(***************************************************************************)
EXTENDS ChunkTransfer, FiniteSetTheorems, TLAPS

Holding == {"read", "client", "dial", "store", "open", "copy"}
Held    == {i \in Jobs : place[i] \in Holding}

\* Where the actors are in each phase.
Stands ==
    /\ phase # "jobs" => \A i \in Jobs : place[i] = "none"
    /\ phase \in {"idle", "jobs"} => place[0] = "none"
    /\ dir = "down" /\ phase = "merge" => place[0] \in {"open", "copy"}
    /\ \A i \in Jobs : place[i] # "none" => i \in 1..Count

SlotsCounted == slots = Cardinality(Held)

Creators ==
    /\ creating = {a \in Actors : place[a] \in {"dial", "store"}}
    /\ \A a \in Actors : place[a] = "store" => client[a] # 0

\* Until two create at once, one creates at a time, and only when no client
\* is open.
OneCreator ==
    ~doubled =>
        /\ \A a, b \in creating : a = b
        /\ creating # {} => cached = 0
        /\ \A a \in Actors : place[a] = "dial" => open = {}

DownloadCached ==
    dir = "down" /\ ~closed =>
        /\ ~doubled
        /\ phase = "jobs" => cached # 0
        /\ phase \in {"size", "plain"} /\ place[0] = "open" => cached # 0

\* A call has at most MaxChunks chunks.
Bounded == Count \in Actors

IInv == /\ TypeOK /\ Bounded /\ Stands /\ SlotsCounted /\ Creators
        /\ OneCreator /\ OpenIsCached /\ DownloadCached

LEMMA ActorsJobs ==
    /\ Actors = Jobs \cup {0} /\ 0 \notin Jobs /\ 0 \in Actors
    /\ IsFiniteSet(Jobs)
    /\ Held \subseteq Jobs /\ IsFiniteSet(Held)
<1>1. Actors = Jobs \cup {0} /\ 0 \notin Jobs
  BY ChunkTransferAssumption DEF Jobs
<1>2. IsFiniteSet(Jobs)
  BY ChunkTransferAssumption, FS_Interval DEF Jobs
<1>3. Held \subseteq Jobs
  BY DEF Held
<1>4. QED
  BY <1>1, <1>2, <1>3, FS_Subset

\* What the steps that begin or end an actor's work do to the places.
LEMMA Moves ==
    ASSUME TypeOK, NEW a \in Actors, NEW p \in Places, Goto(a, p)
    PROVE  /\ place' \in [Actors -> Places]
           /\ place'[a] = p
           /\ \A b \in Actors : b # a => place'[b] = place[b]
  BY DEF TypeOK, Goto

\* Nobody is anywhere but waiting for a slot.
LEMMA LaunchedPlaces ==
    /\ Launched("slot") \in [Actors -> Places]
    /\ \A a \in Actors : Launched("slot")[a] \in {"slot", "none"}
    /\ \A a \in Actors : Launched("slot")[a] = "slot" => a \in 1..Count
    /\ Launched("slot")[0] = "none"
<1>1. Launched("slot")[0] = "none"
  BY ActorsJobs DEF Launched
<1>2. QED
  BY <1>1 DEF Launched, Places

THEOREM InitIInv == Init => IInv
<1> SUFFICES ASSUME Init PROVE IInv
  OBVIOUS
<1> USE DEF Init, CacheInit
<1>1. TypeOK
  <2>1. place \in [Actors -> Places] /\ chunks \in [Jobs -> Pieces]
    BY DEF Places, Pieces, None
  <2>0. doubled \in BOOLEAN /\ hidden \in BOOLEAN /\ closed \in BOOLEAN
    BY Zenon
  <2>2. CacheTypeOK
    <3>1. client \in [Actors -> 0..made] /\ open \subseteq 1..made
      OBVIOUS
    <3>2. made \in Nat /\ cached \in 0..made /\ creating \subseteq Actors
      OBVIOUS
    <3>3. QED
      BY <2>0, <3>1, <3>2, Zenon DEF CacheTypeOK
  <2>3. out \in Seq(Pieces)
    OBVIOUS
  <2>4. QED
    BY <2>0, <2>1, <2>2, <2>3 DEF TypeOK
<1>2. Stands /\ Creators /\ OneCreator /\ OpenIsCached /\ DownloadCached
  BY ActorsJobs DEF Stands, Creators, OneCreator, OpenIsCached, DownloadCached
<1>5. Bounded
  <2>1. Count = 0
    BY DEF Count
  <2>2. QED
    BY <2>1, ActorsJobs DEF Bounded
<1>3. SlotsCounted
  <2>1. Held = {}
    BY ActorsJobs DEF Held, Holding
  <2>2. QED
    BY <2>1, FS_EmptySet DEF SlotsCounted
<1>4. QED
  BY <1>1, <1>2, <1>3, <1>5 DEF IInv

-----------------------------------------------------------------------------
(* The counter of slots.                                                   *)

LEMMA HeldSame ==
    ASSUME SlotsCounted, Held' = Held, slots' = slots
    PROVE  SlotsCounted'
  BY DEF SlotsCounted

LEMMA HeldMore ==
    ASSUME SlotsCounted, NEW i \in Jobs, i \notin Held,
           Held' = Held \cup {i}, slots' = slots + 1
    PROVE  SlotsCounted'
  BY ActorsJobs, FS_AddElement DEF SlotsCounted

\* A goroutine that is under way has a slot to give back.
LEMMA HeldLess ==
    ASSUME SlotsCounted, NEW i \in Held, Held' = Held \ {i}, slots' = slots - 1
    PROVE  SlotsCounted' /\ slots' \in Nat
<1>1. Cardinality(Held \ {i}) = Cardinality(Held) - 1
  BY ActorsJobs, FS_RemoveElement
<1>2. IsFiniteSet(Held \ {i})
  BY ActorsJobs, FS_Subset, Held \ {i} \subseteq Held
<1>3. Cardinality(Held \ {i}) \in Nat
  BY <1>2, FS_CardinalityType
<1>4. QED
  BY <1>1, <1>3 DEF SlotsCounted

LEMMA EndedSlot ==
    ASSUME TypeOK, SlotsCounted, NEW i \in Held, JobEnds(i)
    PROVE  SlotsCounted' /\ slots' \in Nat
<1>1. i \in Jobs /\ i \in Actors
  BY ActorsJobs
<1>2. place'[i] = "done" /\ \A b \in Actors : b # i => place'[b] = place[b]
  BY <1>1, Moves DEF JobEnds, Places
<1>3. Held' = Held \ {i}
  BY <1>1, <1>2, ActorsJobs DEF Held, Holding
<1>4. QED
  BY <1>3, HeldLess DEF JobEnds

LEMMA SlotsKept ==
    ASSUME IInv, Next
    PROVE  SlotsCounted' /\ slots' \in Nat
<1> USE ActorsJobs DEF IInv
<1>0. slots \in Nat
  BY DEF TypeOK
<1>1. CASE \E s \in Sizes, c \in ChunkSizes, k \in Parallels : Begin(s, c, k)
  <2>1. Held = {} /\ Held' = {} /\ slots' = slots
    BY <1>1, LaunchedPlaces DEF Begin, Stands, Held, Holding, Goto, Launched, TypeOK
  <2>2. QED
    BY <1>0, <2>1, HeldSame
<1>2. CASE Size
  <2>1. Held = {} /\ Held' = {} /\ slots' = slots
    BY <1>2, LaunchedPlaces DEF Size, Stands, Held, Holding, Goto, End, Launched, TypeOK
  <2>2. QED
    BY <1>0, <2>1, HeldSame
<1>3. CASE JobsDone
  <2>1. \A i \in Jobs : place[i] \in {"none", "done"}
    BY <1>3 DEF JobsDone, Stands, At
  <2>2. Held = {} /\ Held' = {} /\ slots' = slots
    BY <1>3, <2>1 DEF JobsDone, Held, Holding
  <2>3. QED
    BY <1>0, <2>2, HeldSame
<1>4. CASE Plain \/ MergeCreate \/ MergeChunk \/ MergeEnd \/ Close \/ Lose
  <2>1. slots' = slots /\ \A i \in Jobs : place'[i] = place[i]
    BY <1>4 DEF Plain, MergeCreate, MergeChunk, MergeEnd, Close, Lose, Goto, End, TypeOK
  <2>2. Held' = Held
    BY <2>1 DEF Held
  <2>3. QED
    BY <1>0, <2>1, <2>2, HeldSame
<1>5. ASSUME NEW a \in Actors, LookUp(a) \/ Dial(a) \/ Store(a)
      PROVE  SlotsCounted' /\ slots' \in Nat
  <2>1. slots' = slots /\ place[a] \in Holding /\ place'[a] \in Holding
        /\ \A b \in Actors : b # a => place'[b] = place[b]
    BY <1>5 DEF LookUp, Dial, Store, Goto, At, Holding, TypeOK
  <2>2. Held' = Held
    BY <2>1 DEF Held
  <2>3. QED
    BY <1>0, <2>1, <2>2, HeldSame
<1>6. ASSUME NEW a \in Actors, DialFails(a)
      PROVE  SlotsCounted' /\ slots' \in Nat
  <2>1. CASE a = 0
    <3>1. slots' = slots /\ \A i \in Jobs : place'[i] = place[i]
      BY <1>6, <2>1 DEF DialFails, End, Goto, TypeOK
    <3>2. Held' = Held
      BY <3>1 DEF Held
    <3>3. QED
      BY <1>0, <3>1, <3>2, HeldSame
  <2>2. CASE a \in Jobs
    <3>1. a \in Held /\ JobEnds(a)
      BY <1>6, <2>2 DEF DialFails, JobFails, At, Held, Holding
    <3>2. QED
      BY <3>1, EndedSlot
  <2>3. QED
    BY <2>1, <2>2
<1>7. ASSUME NEW i \in Jobs, TakeSlot(i)
      PROVE  SlotsCounted' /\ slots' \in Nat
  <2>1. i \notin Held /\ Held' = Held \cup {i} /\ slots' = slots + 1
    BY <1>7 DEF TakeSlot, At, Goto, Held, Holding, TypeOK
  <2>2. QED
    BY <1>0, <2>1, HeldMore
<1>8. ASSUME NEW i \in Jobs, ReadChunk(i) \/ CreateChunk(i) \/ CopyChunk(i)
      PROVE  SlotsCounted' /\ slots' \in Nat
  <2>1. i \in Held
    BY <1>8 DEF ReadChunk, CreateChunk, CopyChunk, At, Held, Holding
  <2>2. CASE JobEnds(i)
    BY <2>1, <2>2, EndedSlot
  <2>3. CASE ~JobEnds(i)
    <3>1. slots' = slots /\ place'[i] \in Holding
          /\ \A b \in Actors : b # i => place'[b] = place[b]
      BY <1>8, <2>3 DEF ReadChunk, CreateChunk, CopyChunk, JobFails, Goto, Holding, TypeOK
    <3>2. Held' = Held
      BY <2>1, <3>1 DEF Held
    <3>3. QED
      BY <1>0, <3>1, <3>2, HeldSame
  <2>4. QED
    BY <2>2, <2>3
<1>9. QED
  BY <1>1, <1>2, <1>3, <1>4, <1>5, <1>6, <1>7, <1>8
  DEF Next, CallerStep, JobStep

-----------------------------------------------------------------------------
(* Types.                                                                  *)

LEMMA Lengths ==
    ASSUME TypeOK, NEW i \in Jobs
    PROVE  Expected(i) \in Int /\ Reads(i) \in Int /\ Count \in Int
<1>1. i \in Int
  BY ChunkTransferAssumption DEF Jobs
<1>2. Offset(i) \in Int
  BY <1>1 DEF TypeOK, Offset
<1>3. Expected(i) \in Int
  BY <1>2 DEF TypeOK, Expected
<1>4. (Expected(i) + Buffer - 1) \div Buffer \in Int
  BY <1>3, ChunkTransferAssumption
<1>5. Reads(i) \in Int
  BY <1>2, <1>4, ChunkTransferAssumption DEF TypeOK, Reads
<1>6. Count \in Int
  BY DEF TypeOK, Count
<1>7. QED
  BY <1>3, <1>5, <1>6

LEMMA CacheTyped ==
    ASSUME CacheTypeOK, NEW a \in Actors,
           \/ CacheHit(a) \/ CacheMiss(a) \/ NewClientFails(a) \/ NewClient(a)
           \/ StoreClient(a) \/ CloseClient \/ ConnectionLost \/ NoClients
           \/ UNCHANGED cacheVars
    PROVE  CacheTypeOK'
<1>1. doubled' \in BOOLEAN
  <2>1. CASE CacheMiss(a)
    BY <2>1, Zenon DEF CacheMiss
  <2>2. CASE doubled' = doubled
    BY <2>2, Zenon DEF CacheTypeOK
  <2>3. QED
    BY <2>1, <2>2 DEF CacheHit, NewClientFails, NewClient, StoreClient, CloseClient,
                      ConnectionLost, NoClients, cacheVars
<1>2. /\ made' \in Nat /\ made <= made'
      /\ 0..made \subseteq 0..made' /\ 1..made \subseteq 1..made'
  BY DEF CacheTypeOK, CacheHit, CacheMiss, NewClientFails, NewClient, StoreClient,
         CloseClient, ConnectionLost, NoClients, cacheVars
<1>3. cached' \in 0..made'
  BY <1>2 DEF CacheTypeOK, CacheHit, CacheMiss, NewClientFails, NewClient, StoreClient,
              CloseClient, ConnectionLost, NoClients, cacheVars
<1>4. open' \subseteq 1..made'
  <2>1. CASE NewClient(a)
    <3>1. made' \in 1..made' /\ open' = open \cup {made'}
      BY <1>2, <2>1 DEF NewClient, CacheTypeOK
    <3>2. QED
      BY <1>2, <3>1 DEF CacheTypeOK
  <2>2. CASE open' \subseteq open
    BY <1>2, <2>2 DEF CacheTypeOK
  <2>3. QED
    BY <2>1, <2>2 DEF CacheHit, CacheMiss, NewClientFails, StoreClient,
                      CloseClient, ConnectionLost, NoClients, cacheVars
<1>5. client' \in [Actors -> 0..made']
  <2>1. client \in [Actors -> 0..made']
    BY <1>2 DEF CacheTypeOK
  <2>2. 0 \in 0..made' /\ cached \in 0..made' /\ made' \in 0..made'
    BY <1>2 DEF CacheTypeOK
  <2>3. \/ client' = client \/ client' = [b \in Actors |-> 0]
        \/ \E c \in {0, cached, made'} : client' = [client EXCEPT ![a] = c]
    BY DEF CacheHit, CacheMiss, NewClientFails, NewClient, StoreClient,
           CloseClient, ConnectionLost, NoClients, cacheVars
  <2>4. QED
    BY <2>1, <2>2, <2>3
<1>6. creating' \subseteq Actors
  BY DEF CacheTypeOK, CacheHit, CacheMiss, NewClientFails, NewClient, StoreClient,
         CloseClient, ConnectionLost, NoClients, cacheVars
<1>7. QED
  BY <1>1, <1>2, <1>3, <1>4, <1>5, <1>6, Zenon DEF CacheTypeOK

\* The part of TypeOK that the caller's progress is about.
CallTypeOK ==
    /\ dir \in {"up", "down"} /\ calls \in Nat /\ parallel \in Nat
    /\ size \in Nat /\ chunkSize \in Nat \ {0}
    /\ phase \in {"idle", "size", "plain", "jobs", "merge"}
    /\ place \in [Actors -> Places]
    /\ result \in {"none", "ok", "error"}

FileTypeOK == chunks \in [Jobs -> Pieces] /\ out \in Seq(Pieces)

LEMMA CallTyped ==
    ASSUME TypeOK, Next
    PROVE  CallTypeOK'
<1> USE ActorsJobs DEF TypeOK, CallTypeOK, callVars, Goto, End
<1>1. CASE \E s \in Sizes, c \in ChunkSizes, k \in Parallels : Begin(s, c, k)
  <2> PICK s \in Sizes, c \in ChunkSizes, k \in Parallels : Begin(s, c, k)
    BY <1>1
  <2>1. s \in Nat /\ c \in Nat \ {0} /\ k \in Nat
    BY ChunkTransferAssumption
  <2>2. place' \in [Actors -> Places]
    BY DEF Begin, Launched, Places
  <2>3. QED
    BY <2>1, <2>2 DEF Begin
<1>2. CASE Size
  BY <1>2, LaunchedPlaces DEF Size, Places
<1>3. CASE Plain \/ JobsDone \/ MergeCreate \/ MergeChunk \/ MergeEnd \/ Close \/ Lose
  BY <1>3 DEF Plain, JobsDone, MergeCreate, MergeChunk, MergeEnd, Close, Lose, Places
<1>4. ASSUME NEW a \in Actors, LookUp(a) \/ Dial(a) \/ DialFails(a) \/ Store(a)
      PROVE  CallTypeOK'
  BY <1>4 DEF LookUp, Dial, DialFails, Store, JobFails, JobEnds, Places
<1>5. ASSUME NEW i \in Jobs, TakeSlot(i) \/ ReadChunk(i) \/ CreateChunk(i) \/ CopyChunk(i)
      PROVE  CallTypeOK'
  BY <1>5 DEF TakeSlot, ReadChunk, CreateChunk, CopyChunk, JobFails, JobEnds, Places
<1>6. QED
  BY <1>1, <1>2, <1>3, <1>4, <1>5 DEF Next, CallerStep, JobStep

LEMMA Shorter ==
    /\ None \in Pieces
    /\ \A q \in Pieces : [q EXCEPT !.len = @ - 1] \in Pieces
<1>1. \A q \in Pieces : [q EXCEPT !.len = @ - 1] = [ver |-> q.ver, len |-> q.len - 1]
  BY DEF Pieces
<1>2. QED
  BY <1>1 DEF Pieces, None

LEMMA CountBounded ==
    ASSUME IInv, Next
    PROVE  Bounded'
<1>1. CASE \E s \in Sizes, c \in ChunkSizes, k \in Parallels : Begin(s, c, k)
  BY <1>1, ChunkTransferAssumption DEF Begin, Bounded, Count
<1>2. CASE UNCHANGED <<size, chunkSize>>
  BY <1>2 DEF IInv, Bounded, Count
<1>3. QED
  BY <1>1, <1>2
  DEF Next, CallerStep, JobStep, callVars, LookUp, Dial, DialFails, Store, Size, Plain,
      JobsDone, MergeCreate, MergeChunk, MergeEnd, TakeSlot, ReadChunk, CreateChunk,
      CopyChunk, Close, Lose

LEMMA FlagsTyped ==
    ASSUME TypeOK, Next
    PROVE  hidden' \in BOOLEAN /\ closed' \in BOOLEAN
<1>1. hidden' \in BOOLEAN
  <2>1. CASE hidden' = hidden \/ hidden' = TRUE \/ hidden' = FALSE
    BY <2>1, Zenon DEF TypeOK
  <2>2. ASSUME NEW i, JobFails(i)
        PROVE  hidden' \in BOOLEAN
    BY <2>2, Zenon DEF JobFails
  <2>3. QED
    BY <2>1, <2>2
    DEF Next, CallerStep, JobStep, fileVars, Begin, LookUp, Dial, DialFails, Store, Size,
        Plain, JobsDone, MergeCreate, MergeChunk, MergeEnd, TakeSlot, ReadChunk,
        CreateChunk, CopyChunk, Close, Lose
<1>2. closed' \in BOOLEAN
  <2>1. CASE closed' = closed
    BY <2>1, Zenon DEF TypeOK
  <2>2. CASE Close
    BY <2>2, Zenon DEF Close
  <2>3. QED
    BY <2>1, <2>2
    DEF Next, CallerStep, JobStep, Begin, LookUp, Dial, DialFails, Store, Size,
        Plain, JobsDone, MergeCreate, MergeChunk, MergeEnd, TakeSlot, ReadChunk,
        CreateChunk, CopyChunk, Lose
<1>3. QED
  BY <1>1, <1>2

LEMMA FileTyped ==
    ASSUME IInv, Next
    PROVE  FileTypeOK'
<1> USE ActorsJobs DEF IInv, TypeOK, FileTypeOK, fileVars
<1>0. Count \in 0..MaxChunks /\ 1..Count \subseteq Jobs
  BY ChunkTransferAssumption DEF Bounded, Jobs
<1>1. CASE \E s \in Sizes, c \in ChunkSizes, k \in Parallels : Begin(s, c, k)
  BY <1>1 DEF Begin
<1>2. CASE Size \/ JobsDone \/ Close \/ Lose
  BY <1>2 DEF Size, JobsDone, Close, Lose
<1>3. CASE Plain
  <2>1. \A i \in 1..Count : [ver |-> calls, len |-> Expected(i)] \in Pieces
    BY <1>0, Lengths DEF Pieces
  <2>2. Whole \in Seq(Pieces)
    BY <1>0, <2>1 DEF Whole
  <2>3. <<Piece(size - 1)>> \in Seq(Pieces)
    BY DEF Piece, Pieces
  <2>4. chunks' = chunks /\ out' \in {out, Whole, <<Piece(size - 1)>>}
    BY <1>3 DEF Plain
  <2>5. QED
    BY <2>2, <2>3, <2>4
<1>4. CASE MergeCreate
  <2>1. chunks' = chunks /\ out' \in {out, <<>>}
    BY <1>4 DEF MergeCreate
  <2>2. QED
    BY <2>1
<1>5. CASE MergeChunk
  <2> DEFINE i == Len(out) + 1
  <2>1. i \in Jobs
    BY <1>0, <1>5 DEF MergeChunk
  <2>2. PICK q \in Pieces : q = chunks[i]
    BY <2>1
  <2>3. /\ out' = out \/ out' = Append(out, q) \/ out' = Append(out, [q EXCEPT !.len = @ - 1])
        /\ chunks' \in {chunks, [chunks EXCEPT ![i] = None]}
    BY <1>5, <2>2 DEF MergeChunk
  <2>4. [q EXCEPT !.len = @ - 1] \in Pieces /\ None \in Pieces
    BY Shorter
  <2>5. out' \in Seq(Pieces)
    <3>1. \A r \in Pieces : Append(out, r) \in Seq(Pieces)
      OBVIOUS
    <3>2. QED
      BY <2>3, <2>4, <3>1
  <2>6. chunks' \in [Jobs -> Pieces]
    BY <2>3, <2>4
  <2>7. QED
    BY <2>5, <2>6
<1>6. CASE MergeEnd
  <2>1. None \in Pieces
    BY DEF None, Pieces
  <2>2. QED
    BY <1>6, <2>1 DEF MergeEnd
<1>7. ASSUME NEW a \in Actors, LookUp(a) \/ Dial(a) \/ DialFails(a) \/ Store(a)
      PROVE  FileTypeOK'
  BY <1>7 DEF LookUp, Dial, DialFails, Store, JobFails
<1>8. ASSUME NEW i \in Jobs, TakeSlot(i) \/ ReadChunk(i) \/ CreateChunk(i) \/ CopyChunk(i)
      PROVE  FileTypeOK'
  <2>1. Piece(0) \in Pieces /\ Piece(Expected(i)) \in Pieces /\ Piece(Reads(i)) \in Pieces
        /\ Piece(Expected(i) - 1) \in Pieces
    BY Lengths DEF Piece, Pieces
  <2>2. /\ out' = out
        /\ chunks' = chunks \/ \E q \in Pieces : chunks' = [chunks EXCEPT ![i] = q]
    BY <1>8, <2>1 DEF TakeSlot, ReadChunk, CreateChunk, CopyChunk, JobFails
  <2>3. QED
    BY <2>2
<1>9. QED
  BY <1>1, <1>2, <1>3, <1>4, <1>5, <1>6, <1>7, <1>8 DEF Next, CallerStep, JobStep

LEMMA TypesKept ==
    ASSUME IInv, Next
    PROVE  TypeOK'
<1>1. CacheTypeOK'
  <2>1. PICK a \in Actors :
           \/ CacheHit(a) \/ CacheMiss(a) \/ NewClientFails(a) \/ NewClient(a)
           \/ StoreClient(a) \/ CloseClient \/ ConnectionLost \/ NoClients
           \/ UNCHANGED cacheVars
    BY ActorsJobs
    DEF Next, CallerStep, JobStep, Begin, LookUp, Dial, DialFails, Store, Size,
        Plain, JobsDone, MergeCreate, MergeChunk, MergeEnd, TakeSlot, ReadChunk,
        CreateChunk, CopyChunk, Close, Lose
  <2>2. QED
    BY <2>1, CacheTyped DEF IInv, TypeOK
<1>2. QED
  BY <1>1, CallTyped, FileTyped, FlagsTyped, SlotsKept
  DEF IInv, TypeOK, CallTypeOK, FileTypeOK

-----------------------------------------------------------------------------
(* Where the actors stand, and who is creating a client.                   *)

\* A goroutine never moves outside of the parallel phase, the caller never
\* in it.
LEMMA StandsKept ==
    ASSUME IInv, Next
    PROVE  Stands'
<1> USE ActorsJobs DEF IInv, TypeOK, Stands, callVars
<1>0. ASSUME UNCHANGED <<size, chunkSize>>
      PROVE  Count' = Count
  BY <1>0 DEF Count
<1>1. CASE \E s \in Sizes, c \in ChunkSizes, k \in Parallels : Begin(s, c, k)
  <2>1. CASE phase' = "jobs"
    <3>1. place' = Launched("slot")'
      BY <1>1, <2>1 DEF Begin
    <3>2. place'[0] = "none" /\ \A i \in Jobs : place'[i] # "none" => i \in (1..Count)'
      <4>1. \A a \in Actors : place'[a] = IF a \in (1..Count)' THEN "slot" ELSE "none"
        BY <3>1 DEF Launched
      <4>2. 0 \notin (1..Count)'
        OBVIOUS
      <4>3. QED
        BY <4>1, <4>2
    <3>3. QED
      BY <2>1, <3>2
  <2>2. CASE phase' # "jobs"
    BY <1>1, <2>2 DEF Begin, Goto
  <2>3. QED
    BY <2>1, <2>2
<1>2. CASE Size
  <2>1. CASE phase' = "jobs"
    BY <1>0, <1>2, <2>1, LaunchedPlaces DEF Size, End
  <2>2. CASE phase' # "jobs"
    BY <1>0, <1>2, <2>2 DEF Size, End, Goto
  <2>3. QED
    BY <2>1, <2>2
<1>3. CASE Plain \/ MergeCreate \/ MergeChunk \/ MergeEnd
  BY <1>0, <1>3 DEF Plain, MergeCreate, MergeChunk, MergeEnd, End, Goto
<1>4. CASE JobsDone
  BY <1>0, <1>4 DEF JobsDone
<1>5. CASE Close \/ Lose
  BY <1>0, <1>5 DEF Close, Lose
<1>6. ASSUME NEW a \in Actors, LookUp(a) \/ Dial(a) \/ Store(a)
      PROVE  Stands'
  <2>1. place[a] \in {"client", "dial", "store"} /\ phase' = phase /\ dir' = dir
        /\ \A b \in Actors : b # a => place'[b] = place[b]
    BY <1>6 DEF LookUp, Dial, Store, At, Goto
  <2>2. UNCHANGED <<size, chunkSize>>
    BY <1>6 DEF LookUp, Dial, Store
  <2>3. QED
    BY <1>0, <2>1, <2>2
<1>7. ASSUME NEW a \in Actors, DialFails(a)
      PROVE  Stands'
  BY <1>0, <1>7 DEF DialFails, At, Goto, End, JobFails, JobEnds
<1>8. ASSUME NEW i \in Jobs, TakeSlot(i) \/ ReadChunk(i) \/ CreateChunk(i) \/ CopyChunk(i)
      PROVE  Stands'
  <2>1. place[i] \notin {"none"} /\ phase' = phase /\ dir' = dir
        /\ \A b \in Actors : b # i => place'[b] = place[b]
    BY <1>8 DEF TakeSlot, ReadChunk, CreateChunk, CopyChunk, JobFails, JobEnds, At, Goto
  <2>2. UNCHANGED <<size, chunkSize>>
    BY <1>8 DEF TakeSlot, ReadChunk, CreateChunk, CopyChunk
  <2>3. QED
    BY <1>0, <2>1, <2>2
<1>9. QED
  BY <1>1, <1>2, <1>3, <1>4, <1>5, <1>6, <1>7, <1>8 DEF Next, CallerStep, JobStep

Creating(p) == p \in {"dial", "store"}

\* The steps that are not about clients.
Aside ==
    /\ UNCHANGED <<cached, made, open, creating, doubled>>
    /\ \A a \in Actors : Creating(place[a]) <=> Creating(place'[a])
    /\ \A a \in Actors : Creating(place'[a]) => place'[a] = place[a] /\ client'[a] = client[a]

LEMMA AsideSteps ==
    ASSUME IInv,
           \/ \E s \in Sizes, c \in ChunkSizes, k \in Parallels : Begin(s, c, k)
           \/ Size \/ Plain \/ JobsDone \/ MergeCreate \/ MergeChunk \/ MergeEnd
           \/ \E i \in Jobs : TakeSlot(i) \/ ReadChunk(i) \/ CreateChunk(i) \/ CopyChunk(i)
           \/ \E a \in Actors : LookUp(a) /\ CacheHit(a)
    PROVE  Aside
<1> USE ActorsJobs DEF IInv, TypeOK, Stands, cacheVars, Aside, Creating
<1>1. CASE \E s \in Sizes, c \in ChunkSizes, k \in Parallels : Begin(s, c, k)
  <2>1. \A a \in Actors : place[a] = "none" /\ place'[a] \in {"none", "slot", "client"}
    BY <1>1 DEF Begin, Launched, Goto
  <2>2. QED
    BY <1>1, <2>1 DEF Begin, NoClients
<1>2. CASE Size
  BY <1>2, LaunchedPlaces DEF Size, At, End, Goto
<1>3. CASE Plain \/ MergeCreate \/ MergeChunk \/ MergeEnd
  BY <1>3 DEF Plain, MergeCreate, MergeChunk, MergeEnd, At, End, Goto
<1>4. CASE JobsDone
  <2>1. \A a \in Actors : place[a] \in {"none", "done"}
    BY <1>4 DEF JobsDone, At
  <2>2. QED
    BY <1>4, <2>1 DEF JobsDone, NoClients
<1>5. ASSUME NEW i \in Jobs, TakeSlot(i) \/ ReadChunk(i) \/ CreateChunk(i) \/ CopyChunk(i)
      PROVE  Aside
  BY <1>5 DEF TakeSlot, ReadChunk, CreateChunk, CopyChunk, JobFails, JobEnds, At, Goto
<1>6. ASSUME NEW a \in Actors, LookUp(a), CacheHit(a)
      PROVE  Aside
  <2>1. place[a] = "client" /\ client' = [client EXCEPT ![a] = cached]
        /\ UNCHANGED <<cached, made, open, creating, doubled>>
    BY <1>6 DEF LookUp, CacheHit, At
  <2>2. place'[a] \in {"open", "dial"}
    BY <1>6 DEF LookUp, Goto
  <2>3. place'[a] = "open"
    BY <1>6 DEF LookUp, CacheHit, CacheMiss, Goto
  <2>4. \A b \in Actors : b # a => place'[b] = place[b]
    BY <1>6 DEF LookUp, Goto
  <2>5. QED
    BY <2>1, <2>3, <2>4 DEF CacheTypeOK
<1>7. QED
  BY <1>1, <1>2, <1>3, <1>4, <1>5, <1>6

ClientInv == Creators /\ OneCreator /\ OpenIsCached

LEMMA AsideKeeps ==
    ASSUME IInv, Aside
    PROVE  ClientInv'
<1> USE DEF IInv, Aside, Creating
<1>1. Creators'
  BY DEF Creators
<1>2. OneCreator'
  BY DEF OneCreator
<1>3. OpenIsCached'
  BY DEF OpenIsCached, Creators
<1>4. QED
  BY <1>1, <1>2, <1>3 DEF ClientInv

\* Another creator beside one makes two.
LEMMA MissKeeps ==
    ASSUME IInv, NEW a \in Actors, LookUp(a), CacheMiss(a)
    PROVE  ClientInv'
<1> USE DEF IInv, TypeOK, CacheTypeOK
<1>1. /\ place[a] = "client" /\ place'[a] = "dial" /\ cached = 0
      /\ \A b \in Actors : b # a => place'[b] = place[b]
      /\ creating' = creating \cup {a} /\ UNCHANGED <<cached, made, open, client>>
  BY DEF LookUp, CacheMiss, CacheHit, At, Goto
<1>2. ~doubled' => ~doubled /\ creating = {}
  BY DEF CacheMiss
<1>3. Creators'
  BY <1>1 DEF Creators
<1>4. ~doubled' => open = {}
  <2> SUFFICES ASSUME ~doubled', NEW c \in open PROVE FALSE
    OBVIOUS
  <2>1. c = cached
    BY <1>2 DEF OpenIsCached
  <2>2. c \in 1..made
    OBVIOUS
  <2>3. QED
    BY <1>1, <2>1, <2>2
<1>5. OneCreator'
  BY <1>1, <1>2, <1>4 DEF OneCreator
<1>6. OpenIsCached'
  BY <1>1, <1>4 DEF OpenIsCached
<1>7. QED
  BY <1>3, <1>5, <1>6 DEF ClientInv

LEMMA DialKeeps ==
    ASSUME IInv, NEW a \in Actors, Dial(a)
    PROVE  ClientInv'
<1> USE DEF IInv, TypeOK, CacheTypeOK
<1>1. /\ place[a] = "dial" /\ place'[a] = "store"
      /\ \A b \in Actors : b # a => place'[b] = place[b] /\ client'[b] = client[b]
      /\ client'[a] = made + 1 /\ open' = open \cup {made + 1}
      /\ UNCHANGED <<cached, creating, doubled>>
  BY DEF Dial, NewClient, At, Goto
<1>2. a \in creating /\ made + 1 # 0
  BY <1>1 DEF Creators
<1>3. Creators'
  BY <1>1, <1>2 DEF Creators
<1>4. ~doubled => \A b \in Actors : place'[b] # "dial"
  BY <1>1, <1>2, <1>3 DEF OneCreator, Creators
<1>5. OneCreator'
  BY <1>1, <1>4 DEF OneCreator
<1>6. ~doubled => open = {}
  BY <1>1 DEF OneCreator
<1>7. OpenIsCached'
  BY <1>1, <1>2, <1>6 DEF OpenIsCached
<1>8. QED
  BY <1>3, <1>5, <1>7 DEF ClientInv

LEMMA DialFailsKeeps ==
    ASSUME IInv, NEW a \in Actors, DialFails(a)
    PROVE  ClientInv'
<1> USE DEF IInv, TypeOK, CacheTypeOK
<1>1. /\ place[a] = "dial" /\ place'[a] \in {"none", "done"}
      /\ \A b \in Actors : b # a => place'[b] = place[b] /\ client'[b] = client[b]
      /\ creating' = creating \ {a}
      /\ UNCHANGED <<cached, made, open, doubled>>
  BY DEF DialFails, NewClientFails, JobFails, JobEnds, End, At, Goto
<1>2. Creators'
  BY <1>1 DEF Creators
<1>3. OneCreator'
  BY <1>1 DEF OneCreator
<1>4. OpenIsCached'
  BY <1>1 DEF OpenIsCached, OneCreator
<1>5. QED
  BY <1>2, <1>3, <1>4 DEF ClientInv

LEMMA StoreKeeps ==
    ASSUME IInv, NEW a \in Actors, Store(a)
    PROVE  ClientInv'
<1> USE DEF IInv, TypeOK, CacheTypeOK
<1>1. /\ place[a] = "store" /\ place'[a] = "open"
      /\ \A b \in Actors : b # a => place'[b] = place[b]
      /\ creating' = creating \ {a} /\ cached' = client[a]
      /\ UNCHANGED <<made, open, client, doubled>>
  BY DEF Store, StoreClient, At, Goto
<1>2. Creators'
  BY <1>1 DEF Creators
<1>3. ~doubled => creating = {a} /\ cached = 0
  BY <1>1 DEF OneCreator, Creators
<1>4. OneCreator'
  BY <1>1, <1>2, <1>3 DEF OneCreator, Creators
<1>5. OpenIsCached'
  <2> SUFFICES ASSUME ~doubled, NEW c \in open PROVE c = client[a]
    BY <1>1 DEF OpenIsCached
  <2>1. c # 0
    OBVIOUS
  <2>2. QED
    BY <1>3, <2>1 DEF OpenIsCached
<1>6. QED
  BY <1>2, <1>4, <1>5 DEF ClientInv

LEMMA DropKeeps ==
    ASSUME IInv, Close \/ Lose
    PROVE  ClientInv'
<1>1. /\ UNCHANGED <<place, client, creating, doubled>>
      /\ cached' \in {0, cached} /\ open' \subseteq open \ ({cached} \ {cached'})
  BY DEF Close, Lose, CloseClient, ConnectionLost
<1>2. Creators'
  BY <1>1 DEF IInv, Creators
<1>3. OneCreator'
  BY <1>1 DEF IInv, OneCreator
<1>4. OpenIsCached'
  BY <1>1 DEF IInv, OpenIsCached
<1>5. QED
  BY <1>2, <1>3, <1>4 DEF ClientInv

LEMMA ClientsKept ==
    ASSUME IInv, Next
    PROVE  ClientInv'
<1>1. CASE \E a \in Actors : LookUp(a)
  BY <1>1, AsideSteps, AsideKeeps, MissKeeps DEF LookUp
<1>2. CASE \E a \in Actors : Dial(a) \/ DialFails(a) \/ Store(a)
  BY <1>2, DialKeeps, DialFailsKeeps, StoreKeeps
<1>3. QED
  BY <1>1, <1>2, ActorsJobs, AsideSteps, AsideKeeps, DropKeeps DEF Next, CallerStep, JobStep

-----------------------------------------------------------------------------
(* Downloads.                                                              *)

\* Until a client is closed under a download, its goroutines find one, so
\* only the caller creates.
LEMMA DownloadKept ==
    ASSUME IInv, Next
    PROVE  DownloadCached'
<1> USE ActorsJobs DEF IInv, TypeOK, DownloadCached
<1> SUFFICES ASSUME dir' = "down", ~closed'
             PROVE  /\ ~doubled'
                    /\ phase' = "jobs" => cached' # 0
                    /\ phase' \in {"size", "plain"} /\ place'[0] = "open" => cached' # 0
  OBVIOUS
<1>0. dir = "down" /\ ~closed
  <2>1. dir' = dir /\ (closed => closed')
    BY DEF Next, CallerStep, JobStep, callVars, Begin, LookUp, Dial, DialFails, Store, Size,
           Plain, JobsDone, MergeCreate, MergeChunk, MergeEnd, TakeSlot, ReadChunk,
           CreateChunk, CopyChunk, Close, Lose
  <2>2. QED
    BY <2>1
<1>1. CASE \E s \in Sizes, c \in ChunkSizes, k \in Parallels : Begin(s, c, k)
  BY <1>0, <1>1 DEF Begin, NoClients, Goto
<1>2. CASE Size
  BY <1>0, <1>2 DEF Size, At, End, Goto, cacheVars
<1>3. CASE Plain \/ JobsDone \/ MergeCreate \/ MergeChunk \/ MergeEnd
  BY <1>0, <1>3 DEF Plain, JobsDone, MergeCreate, MergeChunk, MergeEnd, At, End, Goto,
                    cacheVars, NoClients
<1>4. CASE Close
  BY <1>0, <1>4 DEF Close, CloseClient
<1>5. CASE Lose
  BY <1>0, <1>5 DEF Lose, ConnectionLost
<1>6. ASSUME NEW a \in Actors, LookUp(a)
      PROVE  /\ ~doubled'
             /\ phase' = "jobs" => cached' # 0
             /\ phase' \in {"size", "plain"} /\ place'[0] = "open" => cached' # 0
  <2>1. CASE CacheHit(a)
    BY <1>0, <1>6, <2>1 DEF LookUp, CacheHit
  <2>2. CASE CacheMiss(a)
    <3>1. phase # "jobs" /\ a = 0
      BY <1>0, <1>6, <2>2 DEF CacheMiss, LookUp, At, Stands
    <3>2. creating = {}
      BY <1>6, <3>1 DEF Creators, Stands, LookUp, At
    <3>3. ~doubled'
      BY <1>0, <2>2, <3>2 DEF CacheMiss
    <3>4. place'[0] = "dial" /\ phase' = phase
      BY <1>6, <2>2, <3>1 DEF LookUp, CacheMiss, CacheHit, Goto
    <3>5. QED
      BY <3>1, <3>3, <3>4
  <2>3. QED
    BY <1>6, <2>1, <2>2 DEF LookUp
<1>7. ASSUME NEW a \in Actors, Dial(a) \/ DialFails(a)
      PROVE  /\ ~doubled'
             /\ phase' = "jobs" => cached' # 0
             /\ phase' \in {"size", "plain"} /\ place'[0] = "open" => cached' # 0
  BY <1>0, <1>7 DEF Dial, DialFails, NewClient, NewClientFails, JobFails, JobEnds, End, Goto
<1>8. ASSUME NEW a \in Actors, Store(a)
      PROVE  /\ ~doubled'
             /\ phase' = "jobs" => cached' # 0
             /\ phase' \in {"size", "plain"} /\ place'[0] = "open" => cached' # 0
  BY <1>0, <1>8 DEF Store, StoreClient, At, Goto, Creators
<1>9. ASSUME NEW i \in Jobs, TakeSlot(i) \/ ReadChunk(i) \/ CreateChunk(i) \/ CopyChunk(i)
      PROVE  /\ ~doubled'
             /\ phase' = "jobs" => cached' # 0
             /\ phase' \in {"size", "plain"} /\ place'[0] = "open" => cached' # 0
  BY <1>0, <1>9 DEF TakeSlot, ReadChunk, CreateChunk, CopyChunk, JobFails, JobEnds, Goto,
                    cacheVars
<1>10. QED
  BY <1>1, <1>2, <1>3, <1>4, <1>5, <1>6, <1>7, <1>8, <1>9 DEF Next, CallerStep, JobStep

-----------------------------------------------------------------------------
LEMMA InvKept == IInv /\ [Next]_vars => IInv'
<1> SUFFICES ASSUME IInv, [Next]_vars PROVE IInv'
  OBVIOUS
<1>1. CASE Next
  BY <1>1, TypesKept, CountBounded, StandsKept, SlotsKept, ClientsKept, DownloadKept
  DEF IInv, ClientInv
<1>2. CASE UNCHANGED vars
  BY <1>2
  DEF vars, callVars, fileVars, cacheVars, IInv, TypeOK, CacheTypeOK, Bounded, Count,
      Stands, SlotsCounted, Held, Creators, OneCreator, OpenIsCached, DownloadCached
<1>3. QED
  BY <1>1, <1>2

THEOREM Invariance == Spec => []IInv
<1>1. QED
  BY InitIInv, InvKept, PTL DEF Spec

(* The types hold and no slot is given back twice.                         *)
THEOREM TransfersTyped == Spec => []TypeOK
<1>1. IInv => TypeOK
  BY DEF IInv
<1>2. QED
  BY <1>1, Invariance, PTL

(* No open client is out of reach of CloseClient, but for two made at once *)
(* (sftp.go:41-61).                                                        *)
THEOREM OpenClientsAreCached == Spec => []OpenIsCached
<1>1. IInv => OpenIsCached
  BY DEF IInv
<1>2. QED
  BY <1>1, Invariance, PTL

(* However many chunks a download has, its goroutines share the client     *)
(* that GetFileSize has cached (chunk.go:153), unless that is closed.      *)
THEOREM DownloadsShareClients == Spec => []DownloadSharesClient
<1>1. IInv => DownloadSharesClient
  BY DEF IInv, DownloadCached, DownloadSharesClient
<1>2. QED
  BY <1>1, Invariance, PTL
-----------------------------------------------------------------------------
(* OkIsWhole.  As long as no failure left a file, the chunk file of a      *)
(* goroutine that is done is the chunk or is missing, and what has been    *)
(* merged is the chunks before those that are left.                        *)

\* What the chunk file of a chunk has to be.
Chunk(i) == Piece(Expected(i))

WellCut(i) == chunks[i] \in {None, Chunk(i)}

WellMade ==
    /\ phase = "jobs" => \A i \in 1..Count : place[i] = "done" => WellCut(i)
    /\ phase = "merge" /\ place[0] # "copy" => \A i \in 1..Count : WellCut(i)
    /\ phase = "merge" /\ place[0] = "copy" =>
         /\ Len(out) <= Count
         /\ \A i \in 1..Len(out) : out[i] = Chunk(i)
         /\ \A i \in 1..Count : i > Len(out) => WellCut(i)

OkInv ==
    /\ result # "none" => phase = "idle"
    /\ phase = "jobs" => size > chunkSize
    /\ OkIsWhole
    /\ ~hidden /\ Fits => WellMade

(* Whole buffers, up to the end of the file, are the chunk when the chunk  *)
(* size is a multiple of the buffer.                                       *)
LEMMA RoundedUp ==
    ASSUME NEW e \in Nat, NEW b \in Nat \ {0}
    PROVE  /\ ((e + b - 1) \div b) * b \in Int
           /\ ((e + b - 1) \div b) * b >= e
           /\ e % b = 0 => ((e + b - 1) \div b) * b = e
<1> DEFINE q == (e + b - 1) \div b
           r == (e + b - 1) % b
<1>1. q \in Int /\ r \in 0..(b - 1) /\ e + b - 1 = q * b + r
  OBVIOUS
<1>2. q * b >= e
  BY <1>1
<1>3. ASSUME e % b = 0
      PROVE  q * b = e
  <2> DEFINE m == e \div b
             d == q - m
  <2>1. m \in Int /\ e = m * b
    BY <1>3
  <2>2. d \in Int /\ d * b = b - 1 - r
    BY <1>1, <2>1
  <2>3. d = 0
    <3> HIDE DEF d, r
    <3>1. d * b < b /\ d * b > -b
      BY <1>1, <2>2
    <3>2. d >= 1 => d * b >= b
      BY <2>2
    <3>3. d <= -1 => d * b <= -b
      BY <2>2
    <3>4. QED
      BY <2>2, <3>1, <3>2, <3>3
  <2>4. QED
    BY <1>1, <2>1, <2>3
<1>4. QED
  BY <1>1, <1>2, <1>3

LEMMA ReadsWhole ==
    ASSUME TypeOK, Fits, dir = "down", size > chunkSize, NEW i \in Jobs, Offset(i) <= size
    PROVE  Reads(i) = Expected(i)
<1> DEFINE e == Expected(i)
           full == ((e + Buffer - 1) \div Buffer) * Buffer
<1>1. i \in Int /\ Buffer \in Nat \ {0} /\ size \in Nat /\ chunkSize \in Nat \ {0}
  BY ChunkTransferAssumption DEF Jobs, TypeOK
<1>2. Offset(i) \in Int
  BY <1>1 DEF Offset
<1>3. e \in Nat /\ (e = chunkSize \/ Offset(i) + e = size) /\ Offset(i) + e <= size
  BY <1>1, <1>2 DEF Expected
<1>4. chunkSize % Buffer = 0
  BY <1>1 DEF Fits
<1>5. full \in Int /\ full >= e /\ (e % Buffer = 0 => full = e)
  <2> HIDE DEF e
  <2>1. QED
    BY <1>1, <1>3, RoundedUp
<1>6. Reads(i) = IF Offset(i) + full > size THEN size - Offset(i) ELSE full
  BY DEF Reads
<1> HIDE DEF e, full
<1>7. CASE e = chunkSize
  BY <1>1, <1>2, <1>3, <1>4, <1>5, <1>6, <1>7 DEF e
<1>8. CASE Offset(i) + e = size
  BY <1>1, <1>2, <1>3, <1>5, <1>6, <1>8 DEF e
<1>9. QED
  BY <1>3, <1>7, <1>8

\* A chunk begins before the end of the file.
LEMMA OffsetInside ==
    ASSUME TypeOK, NEW i \in 1..Count
    PROVE  Offset(i) <= size
<1>1. i \in Int /\ i >= 1 /\ i <= Count /\ size \in Nat /\ chunkSize \in Nat \ {0}
  BY DEF TypeOK, Count
<1> DEFINE r == (size + chunkSize - 1) % chunkSize
<1>2. Count \in Int /\ r >= 0 /\ size + chunkSize - 1 = Count * chunkSize + r
  BY <1>1 DEF Count
<1>3. (i - 1) * chunkSize <= (Count - 1) * chunkSize
  BY <1>1, <1>2
<1>4. (Count - 1) * chunkSize = Count * chunkSize - chunkSize
  BY <1>1, <1>2
<1>5. (i - 1) * chunkSize \in Int /\ Count * chunkSize \in Int
  BY <1>1, <1>2
<1> HIDE DEF r
<1>6. r \in Int
  BY <1>1 DEF r
<1>7. (i - 1) * chunkSize <= size
  BY <1>1, <1>2, <1>3, <1>4, <1>5, <1>6
<1>8. QED
  BY <1>7 DEF Offset

\* The chunks of a call stay the same.
LEMMA SameCall ==
    ASSUME UNCHANGED callVars
    PROVE  /\ Count' = Count /\ (Fits' <=> Fits) /\ Whole' = Whole
           /\ \A i : Chunk(i)' = Chunk(i)
           /\ UNCHANGED <<dir, calls, size, chunkSize>>
<1> USE DEF callVars
<1>1. Count' = Count /\ (Fits' <=> Fits)
  BY DEF Count, Fits
<1>2. \A i : Chunk(i)' = Chunk(i)
  BY DEF Chunk, Piece, Expected, Offset
<1>3. Whole' = Whole
  BY <1>1 DEF Whole, Expected, Offset
<1>4. QED
  BY <1>1, <1>2, <1>3

\* A goroutine moves on: it matters only when it is done.
LEMMA JobMoves ==
    ASSUME IInv, OkInv, NEW i \in Jobs, phase = "jobs", UNCHANGED <<callVars, phase, result>>,
           \A j \in Jobs : j # i => place'[j] = place[j] /\ chunks'[j] = chunks[j],
           ~hidden' => ~hidden,
           ~hidden' /\ Fits /\ place'[i] = "done" => WellCut(i)'
    PROVE  OkInv'
<1>1. result = "none"
  BY DEF OkInv, IInv, TypeOK
<1>2. Count \in Actors /\ 1..Count \subseteq Jobs
  BY ChunkTransferAssumption DEF IInv, Bounded, Jobs
<1>3. ~hidden' /\ Fits' => \A j \in 1..Count : place'[j] = "done" => WellCut(j)'
  BY <1>2, SameCall DEF OkInv, WellMade, WellCut, None
<1>4. QED
  BY <1>1, <1>3, SameCall DEF OkInv, OkIsWhole, WellMade

\* A goroutine that fails hides it only when a chunk file is left.
LEMMA JobFailsOk ==
    ASSUME IInv, OkInv, NEW i \in Jobs, place[i] # "none", JobFails(i), UNCHANGED callVars
    PROVE  OkInv'
<1>1. phase = "jobs"
  BY DEF IInv, Stands
<1>2. \A j \in Jobs : j # i => place'[j] = place[j] /\ chunks'[j] = chunks[j]
  BY ActorsJobs DEF JobFails, JobEnds, Goto, IInv, TypeOK
<1>3. ~hidden' => ~hidden /\ chunks'[i] = None
  BY DEF JobFails
<1>4. QED
  BY <1>1, <1>2, <1>3, JobMoves DEF JobFails, WellCut, None

LEMMA JobsOk ==
    ASSUME IInv, OkInv, NEW i \in Jobs,
           TakeSlot(i) \/ ReadChunk(i) \/ CreateChunk(i) \/ CopyChunk(i)
    PROVE  OkInv'
<1> USE DEF IInv, TypeOK
<1>0. phase = "jobs" /\ place[i] # "none" /\ i \in 1..Count /\ i \in Actors
  BY ActorsJobs DEF Stands, TakeSlot, ReadChunk, CreateChunk, CopyChunk, At
<1>1. CASE JobFails(i)
  BY <1>0, <1>1, JobFailsOk DEF TakeSlot, ReadChunk, CreateChunk, CopyChunk
<1>2. CASE CopyChunk(i)
  <2>1. /\ UNCHANGED <<callVars, phase, result>>
        /\ \A j \in Jobs : j # i => place'[j] = place[j] /\ chunks'[j] = chunks[j]
    BY <1>2, ActorsJobs DEF CopyChunk, JobEnds, Goto
  <2>2. ~hidden' => /\ ~hidden
                    /\ chunks'[i] = Piece(IF dir = "up" THEN Expected(i) ELSE Reads(i))
    BY <1>2 DEF CopyChunk
  <2>3. Fits /\ dir = "down" => Reads(i) = Expected(i)
    BY <1>0, OffsetInside, ReadsWhole DEF OkInv
  <2>4. ~hidden' /\ Fits => chunks'[i] = Chunk(i)
    BY <2>2, <2>3 DEF Chunk
  <2>5. ~hidden' /\ Fits => WellCut(i)'
    BY <2>1, <2>4, SameCall DEF WellCut
  <2>6. QED
    BY <1>0, <2>1, <2>2, <2>5, JobMoves
<1>3. CASE ~JobFails(i) /\ ~CopyChunk(i)
  <2>1. /\ UNCHANGED <<callVars, phase, result, hidden>>
        /\ place'[i] # "done"
        /\ \A j \in Jobs : j # i => place'[j] = place[j] /\ chunks'[j] = chunks[j]
    BY <1>3, ActorsJobs DEF TakeSlot, ReadChunk, CreateChunk, Goto, fileVars
  <2>2. QED
    BY <1>0, <2>1, JobMoves
<1>4. QED
  BY <1>1, <1>2, <1>3

LEMMA ClientsOk ==
    ASSUME IInv, OkInv, NEW a \in Actors, LookUp(a) \/ Dial(a) \/ Store(a) \/ DialFails(a)
    PROVE  OkInv'
<1> USE DEF IInv, TypeOK
<1>1. CASE DialFails(a) /\ a # 0
  <2>1. a \in Jobs /\ place[a] # "none" /\ JobFails(a) /\ UNCHANGED callVars
    BY <1>1, ActorsJobs DEF DialFails, At
  <2>2. QED
    BY <2>1, JobFailsOk
<1>2. CASE DialFails(a) /\ a = 0
  <2>1. phase' = "idle" /\ result' = "error"
    BY <1>2 DEF DialFails, End
  <2>2. QED
    BY <2>1 DEF OkInv, OkIsWhole, WellMade
<1>3. CASE LookUp(a) \/ Dial(a) \/ Store(a)
  <2>1. /\ UNCHANGED <<callVars, phase, chunks, out, hidden, result>>
        /\ place[a] \in {"client", "dial", "store"}
        /\ place'[a] \notin {"done", "copy"}
        /\ \A b \in Actors : b # a => place'[b] = place[b]
    BY <1>3 DEF LookUp, Dial, Store, At, Goto, fileVars
  <2>2. \A i : WellCut(i) => WellCut(i)'
    BY <2>1, SameCall DEF WellCut, None
  <2>3. phase = "jobs" => a # 0
    BY <2>1 DEF Stands
  <2>4. phase = "merge" => a = 0
    BY <2>1, ActorsJobs DEF Stands
  <2>5. 1..Count \subseteq Actors
    BY ChunkTransferAssumption DEF Bounded
  <2>6. WellMade => WellMade'
    BY <2>1, <2>2, <2>3, <2>4, <2>5, SameCall DEF WellMade
  <2>7. QED
    BY <2>1, <2>6, SameCall DEF OkInv, OkIsWhole
<1>4. QED
  BY <1>1, <1>2, <1>3

\* A call that has no goroutine yet, or ends.
LEMMA CallOk ==
    ASSUME IInv, OkInv,
           \/ \E s \in Sizes, c \in ChunkSizes, k \in Parallels : Begin(s, c, k)
           \/ Size \/ Plain
    PROVE  OkInv'
<1> USE DEF IInv, TypeOK
<1>1. CASE \E s \in Sizes, c \in ChunkSizes, k \in Parallels : Begin(s, c, k)
  <2>1. /\ result' = "none" /\ phase' \in {"jobs", "plain", "size"}
        /\ phase' = "jobs" => size' > chunkSize' /\ place' = Launched("slot")'
    BY <1>1 DEF Begin
  <2>2. phase' = "jobs" => \A i \in (1..Count)' : place'[i] # "done"
    <3>1. \A i \in Actors : Launched("slot")'[i] # "done"
      BY DEF Launched
    <3>2. (1..Count)' \subseteq Actors
      BY <1>1, CountBounded, ChunkTransferAssumption DEF Bounded, Next
    <3>3. QED
      BY <2>1, <3>1, <3>2
  <2>3. QED
    BY <2>1, <2>2 DEF OkInv, OkIsWhole, WellMade
<1>2. CASE Size
  <2>1. CASE End("error")
    BY <2>1 DEF End, OkInv, OkIsWhole, WellMade
  <2>2. CASE ~End("error")
    <3>1. /\ UNCHANGED <<callVars, result>> /\ result = "none"
          /\ phase' \in {"jobs", "plain"}
          /\ phase' = "jobs" => size > chunkSize /\ place' = Launched("slot")
      BY <1>2, <2>2 DEF Size, OkInv
    <3>2. 1..Count \subseteq Actors
      BY ChunkTransferAssumption DEF Bounded
    <3>3. phase' = "jobs" => \A i \in 1..Count : place'[i] # "done"
      BY <3>1, <3>2, LaunchedPlaces
    <3>4. QED
      BY <3>1, <3>3, SameCall DEF OkInv, OkIsWhole, WellMade
  <2>3. QED
    BY <2>1, <2>2
<1>3. CASE Plain
  <2>1. phase' = "idle" /\ UNCHANGED callVars
    BY <1>3 DEF Plain, End
  <2>2. result' = "ok" /\ ~hidden' => out' = Whole
    BY <1>3 DEF Plain, End
  <2>3. QED
    BY <2>1, <2>2, SameCall DEF OkInv, OkIsWhole, WellMade
<1>4. QED
  BY <1>1, <1>2, <1>3

\* The merge takes the chunks in order.
LEMMA MergeOk ==
    ASSUME IInv, OkInv, JobsDone \/ MergeCreate \/ MergeChunk \/ MergeEnd
    PROVE  OkInv'
<1> USE DEF IInv, TypeOK
<1>0. UNCHANGED callVars /\ Count \in 0..MaxChunks /\ 1..Count \subseteq Jobs /\ 0 \in Actors
  BY ChunkTransferAssumption, ActorsJobs
  DEF Bounded, Jobs, JobsDone, MergeCreate, MergeChunk, MergeEnd
<1>1. CASE End("error")
  BY <1>1 DEF End, OkInv, OkIsWhole, WellMade
<1>2. CASE JobsDone
  <2>1. /\ UNCHANGED <<chunks, hidden, result>> /\ phase = "jobs" /\ phase' = "merge"
        /\ place'[0] # "copy" /\ \A i \in 1..Count : place[i] = "done"
    BY <1>0, <1>2 DEF JobsDone, At, fileVars
  <2>2. \A i : WellCut(i) => WellCut(i)'
    BY <1>0, <2>1, SameCall DEF WellCut, None
  <2>3. WellMade => WellMade'
    BY <1>0, <2>1, <2>2, SameCall DEF WellMade
  <2>4. QED
    BY <1>0, <2>1, <2>3, SameCall DEF OkInv, OkIsWhole
<1>3. CASE MergeCreate /\ ~End("error")
  <2>1. /\ UNCHANGED <<chunks, hidden, result, phase>> /\ phase = "merge" /\ out' = <<>>
        /\ place[0] = "open" /\ place'[0] = "copy"
    BY <1>0, <1>3 DEF MergeCreate, At, Goto
  <2>2. \A i : WellCut(i) => WellCut(i)'
    BY <1>0, <2>1, SameCall DEF WellCut, None
  <2>3. Len(out') = 0
    BY <2>1
  <2>4. WellMade => WellMade'
    BY <1>0, <2>1, <2>2, <2>3, SameCall DEF WellMade
  <2>5. QED
    BY <1>0, <2>1, <2>4, SameCall DEF OkInv, OkIsWhole
<1>4. CASE MergeChunk /\ ~End("error")
  <2> DEFINE n == Len(out) + 1
  <2>1. /\ UNCHANGED <<place, phase, result>> /\ phase = "merge" /\ place[0] = "copy"
        /\ n <= Count /\ chunks[n] # None
        /\ chunks' \in {chunks, [chunks EXCEPT ![n] = None]}
        /\ ~hidden' => ~hidden /\ out' = Append(out, chunks[n])
    BY <1>4 DEF MergeChunk, At
  <2>2. Len(out) \in Nat /\ n \in 1..Count
    BY <1>0, <2>1
  <2>3. ASSUME ~hidden', Fits', WellMade
        PROVE  WellMade'
    <3>1. chunks[n] = Chunk(n) /\ out' = Append(out, Chunk(n))
      BY <2>1, <2>2, <2>3 DEF WellMade, WellCut
    <3>2. /\ Len(out') = n /\ out'[n] = Chunk(n)
          /\ \A i \in 1..Len(out) : out'[i] = out[i]
      <4>1. chunks[n] \in Pieces
        BY <1>0, <2>2
      <4>2. QED
        BY <3>1, <4>1
    <3>3. \A i \in 1..n : out'[i] = Chunk(i)
      BY <2>1, <2>2, <2>3, <3>2 DEF WellMade
    <3>4. \A i \in 1..Count : i > n => WellCut(i)'
      <4>1. \A i \in 1..Count : i > n => chunks'[i] = chunks[i]
        BY <1>0, <2>1, <2>2
      <4>2. \A i \in 1..Count : i > n => WellCut(i)
        BY <2>1, <2>2, <2>3 DEF WellMade
      <4>3. QED
        BY <1>0, <4>1, <4>2, SameCall DEF WellCut, None
    <3>5. QED
      BY <1>0, <2>1, <2>2, <3>2, <3>3, <3>4, SameCall DEF WellMade
  <2>4. result' = "none"
    BY <2>1 DEF OkInv
  <2>5. QED
    BY <1>0, <2>1, <2>3, <2>4, SameCall DEF OkInv, OkIsWhole
<1>5. CASE MergeEnd
  <2>1. /\ UNCHANGED <<out, hidden>> /\ phase = "merge" /\ place[0] = "copy"
        /\ Len(out) = Count /\ phase' = "idle"
    BY <1>5 DEF MergeEnd, At, End
  <2>2. ASSUME ~hidden, Fits
        PROVE  out = Whole
    <3>1. \A i \in 1..Count : out[i] = Chunk(i)
      BY <2>1, <2>2 DEF OkInv, WellMade
    <3>2. out = [i \in 1..Count |-> out[i]]
      BY <2>1
    <3>3. Whole = [i \in 1..Count |-> Chunk(i)]
      BY DEF Whole, Chunk, Piece
    <3>4. QED
      BY <3>1, <3>2, <3>3
  <2>3. QED
    BY <1>0, <2>1, <2>2, SameCall DEF OkInv, OkIsWhole, WellMade
<1>6. QED
  BY <1>1, <1>2, <1>3, <1>4, <1>5

LEMMA NextOk == IInv /\ OkInv /\ [Next]_vars => OkInv'
<1> SUFFICES ASSUME IInv, OkInv, [Next]_vars PROVE OkInv'
  OBVIOUS
<1>1. CASE Close \/ Lose \/ UNCHANGED vars
  <2>1. UNCHANGED <<callVars, phase, place, chunks, out, hidden, result>>
    BY <1>1 DEF Close, Lose, vars, fileVars
  <2>2. \A i : WellCut(i) => WellCut(i)'
    BY <2>1, SameCall DEF WellCut, None
  <2>3. WellMade => WellMade'
    BY <2>1, <2>2, SameCall DEF WellMade
  <2>4. QED
    BY <2>1, <2>3, SameCall DEF OkInv, OkIsWhole
<1>2. QED
  BY <1>1, JobsOk, ClientsOk, CallOk, MergeOk, ActorsJobs DEF Next, CallerStep, JobStep

(* For any number of chunks, goroutines and calls: a transfer that reports *)
(* success has written every chunk of the file, each from this call, in    *)
(* order - unless a failure left a file, or a download's chunk size is not *)
(* a multiple of its buffer.                                               *)
THEOREM SuccessIsWhole == Spec => []OkIsWhole
<1>1. Init => OkInv
  BY DEF Init, OkInv, OkIsWhole, WellMade
<1>2. OkInv => OkIsWhole
  BY DEF OkInv
<1>3. QED
  BY <1>1, <1>2, NextOk, Invariance, PTL DEF Spec
-----------------------------------------------------------------------------
(* The parallel phase is a run of BoundedJobs.  What its cardinality       *)
(* counts is what the channel's length counts (SlotsCounted), and only the *)
(* goroutines of this call's chunks are anywhere (Stands).                 *)

LEMMA SameCount ==
    ASSUME NEW n, NEW k
    PROVE  \A S : ChunkJobs(n, k)!Cardinality(S) = Cardinality(S)
  BY DEF ChunkJobs!Cardinality, Cardinality, ChunkJobs!IsFiniteSet, IsFiniteSet

\* A step that begins the parallel phase finds no goroutine in it.
LEMMA JobsBegin ==
    ASSUME IInv, Next, phase # "jobs", phase' = "jobs", NEW n, NEW k
    PROVE  ChunkJobs(n, k)!Init'
<1>1. place' = Launched("slot") \/ place' = Launched("slot")'
  BY DEF Next, CallerStep, JobStep, Begin, Size, End, Plain, JobsDone, MergeCreate,
         MergeChunk, MergeEnd, Close, Lose, LookUp, Dial, DialFails, Store, TakeSlot,
         ReadChunk, CreateChunk, CopyChunk, JobFails
<1>2. \A i \in Jobs : place'[i] \in {"slot", "none"}
  BY <1>1, ActorsJobs DEF Launched
<1>3. InSlot' = {} /\ Ended' = {} /\ ~(phase = "merge")'
  BY <1>2 DEF InSlot, Ended, At
<1>4. QED
  BY <1>3 DEF ChunkJobs!Init

\* The parallel phase of a call of n chunks, k at a time.
InParallel(n, k) == IInv /\ phase = "jobs" /\ n = Count /\ k = parallel

LEMMA ChunksOnly ==
    ASSUME NEW n, NEW k, InParallel(n, k)
    PROVE  /\ Held = InSlot /\ InSlot \subseteq 1..Count
           /\ Ended = {i \in Jobs : place[i] = "done"} /\ Ended \subseteq 1..Count
           /\ place[0] = "none"
  BY DEF InParallel, IInv, Stands, Held, Holding, InSlot, Ended, At

\* A goroutine takes a slot: a job starts.
LEMMA SlotStarts ==
    ASSUME NEW n, NEW k, InParallel(n, k), NEW i \in Jobs, TakeSlot(i)
    PROVE  ChunkJobs(n, k)!Start(i) /\ i \in 1..n
<1>0. place \in [Actors -> Places] /\ i \in Actors
  BY ActorsJobs DEF InParallel, IInv, TypeOK
<1>1. place[i] = "slot" /\ phase' = "jobs" /\ slots < parallel
      /\ \E p \in {"read", "client"} : place' = [place EXCEPT ![i] = p]
  BY DEF TakeSlot, At, Goto, InParallel
<1>2. i \in 1..Count /\ i \notin InSlot \cup Ended
  BY <1>1, ChunksOnly DEF InParallel, IInv, Stands, InSlot
<1>3. InSlot' = InSlot \cup {i}
  BY <1>0, <1>1, ActorsJobs DEF InSlot
<1>4. Ended' = Ended
  BY <1>0, <1>1, ActorsJobs DEF Ended, At, InParallel
<1>5. Cardinality(InSlot) < parallel
  BY <1>1, ChunksOnly DEF InParallel, IInv, SlotsCounted
<1>6. QED
  BY <1>1, <1>2, <1>3, <1>4, <1>5, SameCount DEF ChunkJobs!Start, InParallel

\* A goroutine ends, done or failed: a job has run.
LEMMA EndFinishes ==
    ASSUME NEW n, NEW k, InParallel(n, k), NEW i \in InSlot, JobEnds(i), phase' = phase
    PROVE  ChunkJobs(n, k)!Finish(i)
<1>0. place \in [Actors -> Places] /\ i \in Actors /\ i \in Jobs
  BY ActorsJobs DEF InParallel, IInv, TypeOK, InSlot
<1>1. place' = [place EXCEPT ![i] = "done"]
  BY DEF JobEnds, Goto
<1>2. InSlot' = InSlot \ {i}
  BY <1>0, <1>1, ActorsJobs DEF InSlot
<1>3. Ended' = Ended \cup {i}
  BY <1>0, <1>1, ActorsJobs DEF Ended, At, InParallel
<1>4. QED
  BY <1>2, <1>3 DEF ChunkJobs!Finish, InParallel

\* A goroutine goes on from statement to statement: nothing to see.
LEMMA WorkUnseen ==
    ASSUME NEW n, NEW k, InParallel(n, k), NEW i \in InSlot, NEW p \in Holding, Goto(i, p), phase' = phase
    PROVE  UNCHANGED ChunkJobs(n, k)!jobVars
<1>0. place \in [Actors -> Places] /\ i \in Actors /\ i \in Jobs
  BY ActorsJobs DEF InParallel, IInv, TypeOK, InSlot
<1>1. InSlot' = InSlot
  BY <1>0, ActorsJobs DEF InSlot, Goto, Holding
<1>2. Ended' = Ended
  BY <1>0, ActorsJobs DEF Ended, At, InParallel, Goto, InSlot, Holding
<1>3. QED
  BY <1>1, <1>2 DEF ChunkJobs!jobVars, InParallel

\* The caller has waited for all of them.
LEMMA WaitReturns ==
    ASSUME NEW n, NEW k, InParallel(n, k), JobsDone
    PROVE  ChunkJobs(n, k)!Return
<1>1. /\ Ended = 1..Count /\ InSlot = {}
  BY ChunksOnly, ActorsJobs, ChunkTransferAssumption
  DEF JobsDone, InParallel, IInv, Bounded, Ended, InSlot, At, Jobs
<1>2. Count' = Count /\ phase' = "merge"
  BY DEF JobsDone, callVars, Count
<1>3. InSlot' = {} /\ Ended' = 1..Count
  BY <1>2, ActorsJobs DEF JobsDone, InSlot, Ended
<1>4. (phase = "merge")' = TRUE
  BY <1>2
<1>5. n = Count
  BY DEF InParallel
<1>6. Ended = 1..n /\ UNCHANGED <<InSlot, Ended>>
  BY <1>1, <1>3, <1>5
<1>7. QED
  BY <1>4, <1>6, Zenon DEF ChunkJobs!Return

\* Within the phase the call is the same one.
LEMMA CallKept ==
    ASSUME IInv, phase = "jobs", [Next]_vars
    PROVE  Count' = Count /\ parallel' = parallel
<1>0. place[0] = "none" /\ Actors = Jobs \cup {0}
  BY ActorsJobs DEF IInv, Stands
<1>1. UNCHANGED callVars
  BY <1>0 DEF Next, CallerStep, JobStep, Begin, Size, Plain, JobsDone, MergeCreate,
         MergeChunk, MergeEnd, Close, Lose, LookUp, Dial, DialFails, Store, TakeSlot,
         ReadChunk, CreateChunk, CopyChunk, vars
<1>2. QED
  BY <1>1 DEF callVars, Count

LEMMA JobsStep ==
    ASSUME NEW n, NEW k, InParallel(n, k), [Next]_vars
    PROVE  [ChunkJobs(n, k)!Next]_(ChunkJobs(n, k)!jobVars)
<1>0. place[0] = "none" /\ phase = "jobs" /\ Actors = Jobs \cup {0}
  BY ChunksOnly, ActorsJobs DEF InParallel
<1>2. Count' = Count
  BY CallKept DEF InParallel
<1>3. ASSUME NEW i \in Jobs, JobStep(i)
      PROVE  [ChunkJobs(n, k)!Next]_(ChunkJobs(n, k)!jobVars)
  <2>1. CASE TakeSlot(i)
    BY <2>1, SlotStarts DEF ChunkJobs!Next
  <2>2. CASE ~TakeSlot(i)
    <3>0. i # 0 /\ phase' = phase
      BY <1>3, <2>2, ActorsJobs DEF JobStep, LookUp, Dial, DialFails, Store, ReadChunk,
             CreateChunk, CopyChunk, JobFails
    <3>1. i \in InSlot
      BY <1>3, <2>2 DEF JobStep, LookUp, Dial, DialFails, Store, ReadChunk,
             CreateChunk, CopyChunk, At, InSlot
    <3>2. JobEnds(i) \/ \E p \in Holding : Goto(i, p)
      BY <1>3, <2>2, <3>0 DEF JobStep, LookUp, Dial, DialFails, Store, ReadChunk,
             CreateChunk, CopyChunk, JobFails, Holding
    <3>3. i \in 1..n
      BY <3>1, ChunksOnly DEF InParallel
    <3>4. QED
      BY <3>0, <3>1, <3>2, <3>3, EndFinishes, WorkUnseen DEF ChunkJobs!Next
  <2>3. QED
    BY <2>1, <2>2
<1>4. CASE JobsDone
  BY <1>4, WaitReturns DEF ChunkJobs!Next
<1>5. CASE Close \/ Lose \/ UNCHANGED vars
  <2>1. UNCHANGED <<place, phase>>
    BY <1>5 DEF Close, Lose, vars
  <2>2. UNCHANGED <<InSlot, Ended>>
    BY <1>2, <2>1 DEF InSlot, Ended, At
  <2>3. QED
    BY <2>1, <2>2 DEF ChunkJobs!jobVars
<1>6. Next => JobsDone \/ Close \/ Lose \/ \E i \in Jobs : JobStep(i)
  BY <1>0 DEF Next, CallerStep, Begin, Size, Plain, MergeCreate, MergeChunk, MergeEnd,
         LookUp, Dial, DialFails, Store, At
<1>7. QED
  BY <1>2, <1>3, <1>4, <1>5, <1>6

(* For any number of chunks and slots: every chunk of a call is worked on  *)
(* once, by at most MaxParallel goroutines together, and the merge begins  *)
(* when the last of them has ended, however they end.                      *)
THEOREM TransferImplementsJobs == Spec => ImplementsJobs
<1> DEFINE Steps ==
      \A n \in 0..MaxChunks, k \in Parallels :
          n = Count' /\ k = parallel' =>
              /\ phase # "jobs" /\ phase' = "jobs" => ChunkJobs(n, k)!Init'
              /\ phase = "jobs" => [ChunkJobs(n, k)!Next]_(ChunkJobs(n, k)!jobVars)
<1>1. IInv /\ [Next]_vars => [Steps]_vars
  <2> SUFFICES ASSUME IInv, Next, NEW n \in 0..MaxChunks, NEW k \in Parallels,
                      n = Count', k = parallel'
               PROVE  /\ phase # "jobs" /\ phase' = "jobs" => ChunkJobs(n, k)!Init'
                      /\ phase = "jobs" =>
                           [ChunkJobs(n, k)!Next]_(ChunkJobs(n, k)!jobVars)
    OBVIOUS
  <2>1. phase # "jobs" /\ phase' = "jobs" => ChunkJobs(n, k)!Init'
    BY JobsBegin
  <2>2. CASE phase = "jobs"
    <3>1. Count' = Count /\ parallel' = parallel
      BY <2>2, CallKept
    <3>2. InParallel(n, k)
      BY <2>2, <3>1 DEF InParallel
    <3>3. QED
      BY <2>2, <3>2, JobsStep
  <2>3. QED
    BY <2>1, <2>2
<1>2. QED
  BY <1>1, Invariance, PTL DEF Spec, ImplementsJobs
-----------------------------------------------------------------------------
(* A transfer is never stuck: the caller stands where one of its steps     *)
(* begins, or waits for goroutines; and of these one has a slot and a step *)
(* to take, or there is a slot to take.                                    *)

Creation == {"client", "dial", "store", "open"}

CallerStands ==
    /\ phase \in {"size", "plain"} => place[0] \in Creation
    /\ phase = "merge" => place[0] \in Creation \cup {"copy"}
    /\ phase = "merge" /\ place[0] = "copy" => Len(out) <= Count

\* Every goroutine of the call has been started.
AllStarted == phase = "jobs" => \A i \in 1..Count : place[i] # "none"

\* The caller has a step to take, or a goroutine has.
TransferCanGoOn ==
    \/ \E a \in Actors : place[a] \in {"client", "dial", "store"}
    \/ phase \in {"size", "plain", "merge"} /\ At(0, "open")
    \/ phase = "merge" /\ At(0, "copy") /\ Len(out) <= Count
    \/ \E i \in Jobs : place[i] \in {"read", "open", "copy"}
    \/ \E i \in Jobs : At(i, "slot") /\ slots < parallel
    \/ phase = "jobs" /\ \A i \in 1..Count : At(i, "done")

TransferNeverStuck == phase # "idle" /\ parallel > 0 => TransferCanGoOn

LEMMA CallerKept ==
    ASSUME IInv, CallerStands, [Next]_vars
    PROVE  CallerStands'
<1> USE ActorsJobs DEF CallerStands, Creation
<1>0. place \in [Actors -> Places] /\ out \in Seq(Pieces) /\ Count \in Nat
  BY DEF IInv, TypeOK, Bounded
<1>1. CASE \E s \in Sizes, c \in ChunkSizes, k \in Parallels : Begin(s, c, k)
  BY <1>0, <1>1 DEF Begin, Goto
<1>2. CASE Size \/ Plain
  BY <1>0, <1>2 DEF Size, Plain, End, Goto
<1>3. CASE JobsDone
  BY <1>0, <1>3 DEF JobsDone
<1>4. CASE MergeCreate
  <2>1. out' = <<>> => Len(out') = 0
    OBVIOUS
  <2>2. Count' = Count
    BY <1>4 DEF MergeCreate, callVars, Count
  <2>3. QED
    BY <1>0, <1>4, <2>1, <2>2 DEF MergeCreate, End, Goto
<1>5. CASE MergeChunk \/ MergeEnd
  <2>1. Count' = Count
    BY <1>5 DEF MergeChunk, MergeEnd, callVars, Count
  <2>2. phase' = "idle" \/ (phase' = phase /\ place' = place /\ Len(out') = Len(out) + 1
                              /\ Len(out) + 1 <= Count)
    BY <1>0, <1>5 DEF MergeChunk, MergeEnd, End
  <2>3. QED
    BY <2>1, <2>2
<1>6. CASE Close \/ Lose \/ UNCHANGED vars
  <2>1. UNCHANGED <<phase, place, out, Count>>
    BY <1>6 DEF Close, Lose, vars, fileVars, callVars, Count
  <2>2. QED
    BY <2>1
<1>7. ASSUME LookUp(0) \/ Dial(0) \/ DialFails(0) \/ Store(0)
      PROVE  CallerStands'
  <2>1. phase' = "idle" \/ (phase' = phase /\ place'[0] \in Creation)
    BY <1>0, <1>7 DEF LookUp, Dial, DialFails, Store, Goto, End
  <2>2. QED
    BY <2>1
<1>8. ASSUME NEW i \in Jobs, JobStep(i)
      PROVE  CallerStands'
  <2>1. phase = "jobs"
    BY <1>8 DEF IInv, Stands, JobStep, TakeSlot, ReadChunk, CreateChunk, CopyChunk,
                LookUp, Dial, DialFails, Store, At
  <2>2. phase' = phase
    BY <1>8 DEF JobStep, TakeSlot, ReadChunk, CreateChunk, CopyChunk, JobFails,
                LookUp, Dial, DialFails, Store
  <2>3. QED
    BY <2>1, <2>2
<1>9. QED
  BY <1>1, <1>2, <1>3, <1>4, <1>5, <1>6, <1>7, <1>8 DEF Next, CallerStep

LEMMA StartedKept ==
    ASSUME IInv, AllStarted, [Next]_vars
    PROVE  AllStarted'
<1>0. place \in [Actors -> Places] /\ Actors = Jobs \cup {0}
  BY ActorsJobs DEF IInv, TypeOK
<1>1. CASE phase # "jobs" /\ phase' = "jobs"
  <2>1. IInv' /\ Next
    BY <1>1, InvKept DEF vars
  <2>2. place' = Launched("slot")'
    <3>1. CASE Size
      <4>1. Count' = Count /\ place' = Launched("slot")
        BY <1>1, <3>1 DEF Size, Count, callVars, End
      <4>2. QED
        BY <4>1 DEF Launched
    <3>2. CASE ~Size
      BY <1>1, <2>1, <3>2 DEF Next, CallerStep, JobStep, Begin, Plain, End, JobsDone,
            MergeCreate, MergeChunk, MergeEnd, Close, Lose, LookUp, Dial, DialFails, Store,
            TakeSlot, ReadChunk, CreateChunk, CopyChunk, JobFails
    <3>3. QED
      BY <3>1, <3>2
  <2>3. (1..Count)' \subseteq Actors
    BY <2>1, ChunkTransferAssumption DEF IInv, Bounded
  <2>4. QED
    BY <2>2, <2>3 DEF AllStarted, Launched
<1>2. CASE phase = "jobs" /\ phase' = "jobs"
  <2>1. Count' = Count
    BY <1>2, CallKept
  <2>2. ASSUME NEW i \in Jobs, JobStep(i)
        PROVE  \A j \in Actors : place'[j] = place[j] \/ place'[j] # "none"
    BY <1>0, <2>2, ActorsJobs DEF JobStep, TakeSlot, ReadChunk, CreateChunk, CopyChunk,
            JobFails, JobEnds, LookUp, Dial, DialFails, Store, Goto
  <2>3. CASE UNCHANGED place
    BY <1>2, <2>1, <2>3 DEF AllStarted
  <2>4. (\E i \in Jobs : JobStep(i)) \/ UNCHANGED place
    BY <1>0, <1>2 DEF Next, CallerStep, Begin, Size, Plain, JobsDone, MergeCreate, MergeChunk,
            MergeEnd, Close, Lose, LookUp, Dial, DialFails, Store, At, IInv, Stands, vars
  <2>5. 1..Count \subseteq Actors
    BY ChunkTransferAssumption DEF IInv, Bounded
  <2>6. QED
    BY <1>2, <2>1, <2>2, <2>3, <2>4, <2>5 DEF AllStarted
<1>3. QED
  BY <1>1, <1>2 DEF AllStarted

(* UploadWithChunk and DownloadWithChunk (chunk.go:25-146, 148-267) never  *)
(* wait for themselves while there is a slot to give, however many chunks, *)
(* slots and clients there are and whatever fails: until the call has      *)
(* returned, the caller or a goroutine can go on.                          *)
THEOREM TransferIsNeverStuck == Spec => []TransferNeverStuck
<1>1. Init => CallerStands /\ AllStarted
  BY DEF Init, CallerStands, AllStarted
<1>2. ASSUME IInv, CallerStands, AllStarted, phase # "idle", parallel > 0
      PROVE  TransferCanGoOn
  <2> USE <1>2 DEF TransferCanGoOn, At
  <2>1. CASE phase \in {"size", "plain", "merge"}
    BY <2>1, ActorsJobs DEF CallerStands, Creation
  <2>2. CASE phase = "jobs"
    <3>1. CASE Held # {}
      <4>1. PICK i \in Jobs : place[i] \in Holding
        BY <3>1 DEF Held
      <4>2. QED
        BY <4>1, ActorsJobs DEF Holding
    <3>2. CASE Held = {}
      <4>1. slots = 0 /\ slots < parallel
        BY <3>2, FS_EmptySet DEF IInv, SlotsCounted, TypeOK
      <4>2. CASE \E i \in Jobs : place[i] = "slot"
        BY <4>1, <4>2
      <4>3. CASE \A i \in 1..Count : place[i] = "done"
        BY <2>2, <4>3
      <4>4. ASSUME NEW i \in 1..Count, place[i] # "done", place[i] # "slot"
            PROVE  FALSE
        <5>1. i \in Jobs /\ place[i] \in Places /\ i \notin Held
          BY <3>2, ActorsJobs, ChunkTransferAssumption DEF IInv, Bounded, TypeOK, Jobs
        <5>2. place[i] = "none"
          BY <4>4, <5>1 DEF Held, Holding, Places
        <5>3. QED
          BY <2>2, <5>2 DEF AllStarted
      <4>5. QED
        BY <4>2, <4>3, <4>4, ActorsJobs, ChunkTransferAssumption DEF IInv, Bounded, Jobs
    <3>3. QED
      BY <3>1, <3>2
  <2>3. QED
    BY <2>1, <2>2 DEF IInv, TypeOK
<1>3. IInv /\ CallerStands /\ AllStarted => TransferNeverStuck
  BY <1>2 DEF TransferNeverStuck
<1>4. QED
  BY <1>1, <1>3, CallerKept, StartedKept, Invariance, PTL DEF Spec
=============================================================================
