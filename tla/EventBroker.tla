----------------------------- MODULE EventBroker -----------------------------
(***************************************************************************)
(* Server-sent events of the control plane: class EventBroker of           *)
(* tunnel_admin/server.py and the handler of /api/events.  Any number of   *)
(* threads publish (requests, the metrics thread); every stream has a      *)
(* queue of its own and a thread that writes to its client.                *)
(*                                                                         *)
(* A step is one critical section of the broker's lock or of a queue's, or *)
(* one write to a client.  The events of a publisher are numbered.         *)
(***************************************************************************)
EXTENDS Naturals, Sequences, FiniteSets, SequencesExt

CONSTANTS
    Publishers, Streams,
    QueueSize,   \* maxsize of a subscriber's queue, 200 in the code
    MaxEvents    \* bound on the events of one publisher

Nobody == "nobody"

ASSUME BrokerAssumption ==
    /\ IsFiniteSet(Publishers) /\ IsFiniteSet(Streams) /\ Nobody \notin Streams
    /\ QueueSize \in Nat \ {0} /\ MaxEvents \in Nat

VARIABLES
    subscribers,  \* EventBroker._subscribers, a queue seen as its stream
    queue,        \* the queue of each stream
    count,        \* events each publisher has begun to publish
    targets,      \* publish: the copied subscribers it still has to serve
    serving,      \* the one whose queue it found full, if any
    room,         \* and whether it has taken the oldest event out of it
    stream,       \* each stream: off, headers, writing, waiting, leaving, closed,
                  \* leaked
    holding,      \* the event it has taken and not yet written, as a sequence
    received,     \* history: what its client got
    lossy,        \* history: streams that lost an event to a full queue
    clashed       \* history: two publishers have been in publish at once

publishVars == <<count, targets, serving, room>>
streamVars == <<stream, holding, received>>
vars == <<subscribers, queue, publishVars, streamVars, lossy, clashed>>

Init ==
    /\ subscribers = {}
    /\ queue = [s \in Streams |-> << >>]
    /\ count = [p \in Publishers |-> 0]
    /\ targets = [p \in Publishers |-> {}]
    /\ serving = [p \in Publishers |-> Nobody]
    /\ room = [p \in Publishers |-> FALSE]
    /\ stream = [s \in Streams |-> "off"]
    /\ holding = [s \in Streams |-> << >>]
    /\ received = [s \in Streams |-> << >>]
    /\ lossy = {} /\ clashed = FALSE

Event(p) == [by |-> p, nr |-> count[p]]
Full(s) == Len(queue[s]) >= QueueSize

-----------------------------------------------------------------------------
\* publish

Publishing(p) == targets[p] # {} \/ serving[p] # Nobody

\* Copy the subscribers under the lock.
Publish(p) ==
    /\ ~Publishing(p) /\ count[p] < MaxEvents
    /\ count' = [count EXCEPT ![p] = @ + 1]
    /\ targets' = [targets EXCEPT ![p] = subscribers]
    /\ clashed' = (clashed \/ \E q \in Publishers \ {p} : Publishing(q))
    /\ UNCHANGED <<subscribers, queue, serving, room, streamVars, lossy>>

WrongPut(p, s) ==      \* put(), which waits for room
    /\ serving[p] = Nobody /\ s \in targets[p]
    /\ ~Full(s)
    /\ targets' = [targets EXCEPT ![p] = @ \ {s}]
    /\ queue' = [queue EXCEPT ![s] = Append(@, Event(p))]
    /\ UNCHANGED <<serving, subscribers, count, room, streamVars, lossy, clashed>>

\* put_nowait
Put(p, s) ==
    /\ serving[p] = Nobody /\ s \in targets[p]
    /\ targets' = [targets EXCEPT ![p] = @ \ {s}]
    /\ IF Full(s)
         THEN serving' = [serving EXCEPT ![p] = s] /\ UNCHANGED queue
         ELSE queue' = [queue EXCEPT ![s] = Append(@, Event(p))] /\ UNCHANGED serving
    /\ UNCHANGED <<subscribers, count, room, streamVars, lossy, clashed>>

WrongMakeRoom(p) ==    \* throws the whole queue away without counting it as a loss
    /\ serving[p] # Nobody /\ ~room[p]
    /\ room' = [room EXCEPT ![p] = TRUE]
    /\ queue' = [queue EXCEPT ![serving[p]] = << >>]
    /\ UNCHANGED <<subscribers, count, targets, serving, streamVars, lossy, clashed>>

WrongTakeNothing(p) ==   \* tries again without taking anything out
    /\ serving[p] # Nobody /\ ~room[p]
    /\ room' = [room EXCEPT ![p] = TRUE]
    /\ UNCHANGED <<subscribers, queue, count, targets, serving, streamVars, lossy, clashed>>

\* get_nowait: the oldest event goes, if the stream has not taken it meanwhile.
MakeRoom(p) ==
    /\ serving[p] # Nobody /\ ~room[p]
    /\ room' = [room EXCEPT ![p] = TRUE]
    /\ LET s == serving[p] IN
         IF queue[s] = << >>
           THEN UNCHANGED <<queue, lossy>>
           ELSE queue' = [queue EXCEPT ![s] = Tail(@)] /\ lossy' = lossy \cup {s}
    /\ UNCHANGED <<subscribers, count, targets, serving, streamVars, clashed>>

WrongPutAgain(p) ==    \* puts the newest event before the waiting ones
    /\ serving[p] # Nobody /\ room[p]
    /\ LET s == serving[p] IN
         IF Full(s)
           THEN lossy' = lossy \cup {s} /\ UNCHANGED queue
           ELSE queue' = [queue EXCEPT ![s] = <<Event(p)>> \o @] /\ UNCHANGED lossy
    /\ serving' = [serving EXCEPT ![p] = Nobody]
    /\ room' = [room EXCEPT ![p] = FALSE]
    /\ UNCHANGED <<subscribers, count, targets, streamVars, clashed>>

WrongPutPastFull(p) ==   \* takes the room it made for granted
    /\ serving[p] # Nobody /\ room[p]
    /\ queue' = [queue EXCEPT ![serving[p]] = Append(@, Event(p))]
    /\ serving' = [serving EXCEPT ![p] = Nobody]
    /\ room' = [room EXCEPT ![p] = FALSE]
    /\ UNCHANGED <<subscribers, count, targets, streamVars, lossy, clashed>>

\* put_nowait again; if another publisher was faster the event is lost.
PutAgain(p) ==
    /\ serving[p] # Nobody /\ room[p]
    /\ LET s == serving[p] IN
         IF Full(s)
           THEN lossy' = lossy \cup {s} /\ UNCHANGED queue
           ELSE queue' = [queue EXCEPT ![s] = Append(@, Event(p))] /\ UNCHANGED lossy
    /\ serving' = [serving EXCEPT ![p] = Nobody]
    /\ room' = [room EXCEPT ![p] = FALSE]
    /\ UNCHANGED <<subscribers, count, targets, streamVars, clashed>>

PublishStep(p) == (\E s \in Streams : Put(p, s)) \/ MakeRoom(p) \/ PutAgain(p)

-----------------------------------------------------------------------------
\* _handle_event_stream

At(s, from, to) == stream[s] = from /\ stream' = [stream EXCEPT ![s] = to]

Subscribe(s) ==
    /\ At(s, "off", "headers")
    /\ subscribers' = subscribers \cup {s}
    /\ UNCHANGED <<queue, publishVars, holding, received, lossy, clashed>>

\* The headers are written before the try: if the client has left, what that
\* raises skips unsubscribe.
WriteHeaders(s) ==
    /\ At(s, "headers", "waiting") \/ At(s, "headers", "leaked")
    /\ UNCHANGED <<subscribers, queue, publishVars, holding, received, lossy, clashed>>

\* get: the next event.  Ten seconds without one bring a heartbeat, which can
\* find the client gone.
Get(s) ==
    /\ \/ /\ queue[s] # << >>
          /\ At(s, "waiting", "writing")
          /\ holding' = [holding EXCEPT ![s] = <<Head(queue[s])>>]
          /\ queue' = [queue EXCEPT ![s] = Tail(@)]
       \/ /\ queue[s] = << >>
          /\ At(s, "waiting", "leaving")
          /\ UNCHANGED <<holding, queue>>
    /\ UNCHANGED <<subscribers, publishVars, received, lossy, clashed>>

\* _write_sse: the client gets the event or is found gone.
WriteEvent(s) ==
    /\ \/ At(s, "writing", "waiting") /\ received' = [received EXCEPT ![s] = @ \o holding[s]]
       \/ At(s, "writing", "leaving") /\ UNCHANGED received
    /\ holding' = [holding EXCEPT ![s] = << >>]
    /\ UNCHANGED <<subscribers, queue, publishVars, lossy, clashed>>

\* The finally clause.
Unsubscribe(s) ==
    /\ At(s, "leaving", "closed")
    /\ subscribers' = subscribers \ {s}
    /\ UNCHANGED <<queue, publishVars, holding, received, lossy, clashed>>

StreamStep(s) == WriteHeaders(s) \/ Get(s) \/ WriteEvent(s) \/ Unsubscribe(s)

-----------------------------------------------------------------------------
Next ==
    \/ \E p \in Publishers : Publish(p) \/ PublishStep(p)
    \/ \E s \in Streams : Subscribe(s) \/ StreamStep(s)

Spec == Init /\ [][Next]_vars

\* Publishers are scheduled.  Nobody has to publish or subscribe, and a stream
\* may stand still: the write to its client may not return.
FairSpec == Spec /\ \A p \in Publishers : WF_vars(PublishStep(p))

-----------------------------------------------------------------------------
\* Properties.

Events == [by : Publishers, nr : 1..MaxEvents]

TypeOK ==
    /\ subscribers \subseteq Streams
    /\ queue \in [Streams -> Seq(Events)] /\ \A s \in Streams : Len(queue[s]) <= QueueSize
    /\ holding \in [Streams -> Seq(Events)] /\ \A s \in Streams : Len(holding[s]) <= 1
    /\ received \in [Streams -> Seq(Events)]
    /\ count \in [Publishers -> 0..MaxEvents]
    /\ targets \in [Publishers -> SUBSET Streams]
    /\ serving \in [Publishers -> Streams \cup {Nobody}]
    /\ room \in [Publishers -> BOOLEAN]
    /\ stream \in [Streams -> {"off", "headers", "writing", "waiting", "leaving",
                               "closed", "leaked"}]
    /\ lossy \subseteq Streams
    /\ clashed \in BOOLEAN

\* What the client of a stream has got, is getting and will get.
Story(s) == received[s] \o IF stream[s] \in {"leaving", "closed"} THEN << >>
                                   ELSE holding[s] \o queue[s]

\* Every client sees the events of a publisher in the order they were published
\* and none twice, however publishers interleave and whatever is dropped.
OrderIsKept ==
    \A s \in Streams : LET story == Story(s) IN
        \A i, j \in DOMAIN story :
            i < j /\ story[i].by = story[j].by => story[i].nr < story[j].nr

\* From its first event of a publisher a client misses none, unless its queue
\* was full: two with no other of that publisher between them were published
\* one after the other.
NoGapUnlessFull ==
    \A s \in Streams \ lossy : LET story == Story(s) IN
        \A i, j \in DOMAIN story :
            /\ i < j /\ story[i].by = story[j].by
            /\ \A k \in (i + 1)..(j - 1) : story[k].by # story[i].by
            => story[j].nr = story[i].nr + 1

\* A full queue loses the oldest event, not the newest: when publish has served
\* a stream, the event is in its queue, unless publishers clashed.
NewestSurvives ==
    [][\A p \in Publishers, s \in Streams :
        /\ s \in targets[p] \/ serving[p] = s
        /\ s \notin targets'[p] /\ serving'[p] # s
        /\ ~clashed
        => queue'[s] # << >> /\ Last(queue'[s]) = Event(p)]_vars

\* publish never waits for a client, not even for one whose stream stands still
\* with a full queue.
PublishReturns == \A p \in Publishers : Publishing(p) ~> ~Publishing(p)

=============================================================================
