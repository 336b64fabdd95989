------------------------------ MODULE EventBus ------------------------------
(***************************************************************************)
(* One topic of the event bus (internal/eventbus/eventbus.go).             *)
(*                                                                         *)
(* A topic's handlers are a Go slice: a backing array and a length.        *)
(* Publish takes the slice under the lock and reads its slots after it;    *)
(* Subscribe and Unsubscribe meanwhile work under the lock, but in place   *)
(* on the same array: append writes behind the end as long as there is     *)
(* room, and a removal moves the handlers behind it one slot down.         *)
(***************************************************************************)
EXTENDS Naturals, Sequences, Functions

CONSTANTS
  Handlers,                     \* functions that callers subscribe
  Empty,                        \* a slot nothing has been written to
  Publishers,                   \* goroutines that publish
  MaxArrays                     \* bound: backing arrays allocated

ASSUME BusAssumption == Empty \notin Handlers

VARIABLES
  arrays,                       \* the backing arrays, in the order of allocation
  topic,                        \* the topic's slice; array 0 is nil
  pub,                          \* pub[p]: the Publish call of p
  subscribers                   \* history: the handlers subscribed and not removed

busVars == <<arrays, topic, pub, subscribers>>

NilSlice == [array |-> 0, len |-> 0]

NoCall == [at |-> "idle", slice |-> NilSlice, started |-> <<>>, due |-> <<>>, raced |-> FALSE]

BusInit ==
  /\ arrays = <<>>
  /\ topic = NilSlice
  /\ pub = [p \in Publishers |-> NoCall]
  /\ subscribers = <<>>

\* An array that no slice refers to any more is garbage.
Kept(as, slices) ==
  [a \in DOMAIN as |-> IF \E s \in slices : s.array = a THEN as[a] ELSE <<>>]

Sliced == {pub[p].slice : p \in {q \in Publishers : pub[q].at = "loop"}}

\* append: behind the end if the array has room, else in an array of twice
\* the size.
Grown(h) ==
  [i \in 1 .. (IF topic.len = 0 THEN 1 ELSE 2 * topic.len) |->
     IF i <= topic.len THEN arrays[topic.array][i] ELSE IF i = topic.len + 1 THEN h ELSE Empty]

\* SubscribeAsync is the same call; what is not a function is not entered.
Subscribe(h) ==
  /\ IF topic.array = 0 \/ topic.len = Len(arrays[topic.array])
     THEN /\ Len(arrays) < MaxArrays
          /\ topic' = [array |-> Len(arrays) + 1, len |-> topic.len + 1]
          /\ arrays' = Kept(Append(arrays, Grown(h)), Sliced \cup {topic'})
     ELSE /\ arrays' = [arrays EXCEPT ![topic.array][topic.len + 1] = h]
          /\ topic' = [topic EXCEPT !.len = @ + 1]
  /\ subscribers' = Append(subscribers, h)
  /\ UNCHANGED pub

\* Every wrapper that toHandlerFunc makes has the same code pointer, so the
\* topic's first handler is the one that matches, whichever was meant.
Unsubscribe ==
  /\ topic.len > 0
  /\ arrays' = [arrays EXCEPT ![topic.array] =
                  [i \in DOMAIN @ |-> IF i < topic.len THEN @[i + 1] ELSE @[i]]]
  /\ topic' = [topic EXCEPT !.len = @ - 1]
  /\ subscribers' = Tail(subscribers)
  /\ pub' = [p \in Publishers |->
               [pub[p] EXCEPT !.raced = @ \/ pub[p].slice.array = topic.array]]

\* The slice is read under the lock.
Publish(p) ==
  /\ pub[p].at = "idle"
  /\ pub' = [pub EXCEPT ![p] = [NoCall EXCEPT !.at = "loop", !.slice = topic,
                                              !.due = subscribers]]
  /\ UNCHANGED <<arrays, topic, subscribers>>

Starts(p, slice) ==
  /\ pub[p].at = "loop" /\ Len(pub[p].started) < slice.len
  /\ pub' = [pub EXCEPT ![p].started = Append(@, arrays[slice.array][Len(@) + 1])]
  /\ UNCHANGED <<arrays, topic, subscribers>>

Returns(p, slice) ==
  /\ pub[p].at = "loop" /\ Len(pub[p].started) >= slice.len
  /\ pub' = [pub EXCEPT ![p].at = "ended"]
  /\ arrays' = Kept(arrays, {topic} \cup
                 {pub[q].slice : q \in {r \in Publishers \ {p} : pub[r].at = "loop"}})
  /\ UNCHANGED <<topic, subscribers>>

\* A bug: the loop reads the topic of the moment.
DeliverFromTopic(p) == Starts(p, topic) \/ Returns(p, topic)

\* go handler(args...) for each slot of the slice, with the slot's contents
\* of the moment.
Deliver(p) == Starts(p, pub[p].slice) \/ Returns(p, pub[p].slice)

Done(p) ==
  /\ pub[p].at = "ended"
  /\ pub' = [pub EXCEPT ![p] = NoCall]
  /\ UNCHANGED <<arrays, topic, subscribers>>

BusNext ==
  \/ \E h \in Handlers : Subscribe(h)
  \/ Unsubscribe
  \/ \E p \in Publishers : Publish(p) \/ Deliver(p) \/ Done(p)

-----------------------------------------------------------------------------
(***************************************************************************)
(* A Publish starts the handlers that were subscribed when it began, each  *)
(* once and in their order, although Subscribe goes on filling the array   *)
(* that its loop reads outside the lock (eventbus.go:31 and 64).  Only an  *)
(* Unsubscribe during the loop, which moves handlers over the slots still  *)
(* to be read (eventbus.go:52), may make it start one twice and another    *)
(* not at all; even then it calls no empty slot.                           *)
(***************************************************************************)
DeliveredOnce ==
  \A p \in Publishers :
    /\ Empty \notin Range(pub[p].started)
    /\ (pub[p].at = "ended" /\ ~pub[p].raced) => pub[p].started = pub[p].due

BusTypeOK ==
  /\ \A a \in DOMAIN arrays : Range(arrays[a]) \subseteq Handlers \cup {Empty}
  /\ topic.array \in 0 .. Len(arrays)
  /\ \A p \in Publishers : pub[p].at \in {"idle", "loop", "ended"}
=============================================================================
