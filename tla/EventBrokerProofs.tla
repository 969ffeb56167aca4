-------------------------- MODULE EventBrokerProofs --------------------------
(***************************************************************************)
(* For any publishers, streams and sizes of the queue: no client sees two  *)
(* events of a publisher in the wrong order, none misses one unless its    *)
(* queue was full, and a full queue takes the newest event.                *)
(***************************************************************************)
EXTENDS EventBroker, SequenceTheorems, TLAPS

\* The events in a sequence, and those of a stream that did not get lost.
Among(seq) == {seq[i] : i \in 1..Len(seq)}
Seen(s) == Among(received[s]) \cup Among(holding[s]) \cup Among(queue[s])

Pending(p, s) == s \in targets[p] \/ serving[p] = s

\* The number of the latest event of a publisher that s could have.
Top(p, s) == IF Pending(p, s) THEN count[p] - 1 ELSE count[p]

Sorted(seq) ==
    \A i, j \in 1..Len(seq) : i < j /\ seq[i].by = seq[j].by => seq[i].nr < seq[j].nr

Before(A, B) == \A e \in A, f \in B : e.by = f.by => e.nr < f.nr

\* Who is at work in publish, and what a stream in each place has.
Places ==
    /\ \A p \in Publishers : /\ Publishing(p) => count[p] # 0
                             /\ serving[p] \notin targets[p]
                             /\ room[p] => serving[p] # Nobody
    /\ \A s \in Streams :
        /\ stream[s] \in {"headers", "waiting", "writing", "leaving", "leaked"}
               => s \in subscribers
        /\ stream[s] # "writing" => holding[s] = << >>
        /\ stream[s] = "off" => /\ s \notin subscribers /\ Seen(s) = {}
                                /\ \A p \in Publishers : ~Pending(p, s)

\* What a client has got comes before what it is getting, and that before what
\* waits; the event that is being published is the last of its publisher.
Ordered(s) ==
    /\ Sorted(received[s]) /\ Sorted(queue[s])
    /\ Before(Among(received[s]), Among(holding[s]))
    /\ Before(Among(received[s]), Among(queue[s]))
    /\ Before(Among(holding[s]), Among(queue[s]))
    /\ \A e \in Seen(s) : e.nr <= Top(e.by, s)

Gone(s) == stream[s] \in {"leaving", "closed"}

\* With an event a stream has all that its publisher published since; once it
\* has left, all up to the last it has got.
Whole(s) ==
    /\ ~Gone(s) => \A e \in Seen(s) : \A n \in e.nr..Top(e.by, s) :
                       [by |-> e.by, nr |-> n] \in Seen(s)
    /\ Gone(s) => \A e, f \in Among(received[s]) : e.by = f.by =>
                       \A n \in e.nr..f.nr :
                           [by |-> e.by, nr |-> n] \in Among(received[s])

Order == \A s \in Streams : Ordered(s)
NoGap == \A s \in Streams \ lossy : Whole(s)

\* A publisher that is alone finds the room it has made.
Room ==
    ~clashed =>
        /\ \A p, q \in Publishers : Publishing(p) /\ Publishing(q) => p = q
        /\ \A p \in Publishers : room[p] => ~Full(serving[p])

IInv == TypeOK /\ Places /\ Order /\ NoGap /\ Room

-----------------------------------------------------------------------------
\* Sequences.

LEMMA AmongNone == Among(<< >>) = {}
BY DEF Among

LEMMA AmongOne ==
    ASSUME NEW e
    PROVE  Among(<<e>>) = {e}
BY DEF Among

LEMMA AmongType ==
    ASSUME NEW S, NEW q \in Seq(S)
    PROVE  Among(q) \subseteq S
BY ElementOfSeq DEF Among

LEMMA AmongAppend ==
    ASSUME NEW S, NEW q \in Seq(S), NEW e \in S
    PROVE  Among(Append(q, e)) = Among(q) \cup {e}
<1>1. /\ Len(Append(q, e)) = Len(q) + 1 /\ Len(q) \in Nat
      /\ \A i \in 1..Len(q) : Append(q, e)[i] = q[i]
      /\ Append(q, e)[Len(q) + 1] = e
    BY AppendProperties, LenProperties
<1>2. 1..(Len(q) + 1) = (1..Len(q)) \cup {Len(q) + 1}
    BY <1>1
<1>q. QED
    BY <1>1, <1>2 DEF Among

LEMMA AmongTail ==
    ASSUME NEW S, NEW q \in Seq(S), q # << >>
    PROVE  Among(q) = {Head(q)} \cup Among(Tail(q))
<1>1. /\ Len(Tail(q)) = Len(q) - 1 /\ Len(q) \in Nat \ {0} /\ Head(q) = q[1]
      /\ \A i \in 1..Len(Tail(q)) : Tail(q)[i] = q[i + 1]
    BY HeadTailProperties, EmptySeq
<1>2. \A i \in 1..Len(q) : i = 1 \/ i - 1 \in 1..Len(Tail(q))
    BY <1>1
<1>3. \A i \in 1..Len(Tail(q)) : i + 1 \in 1..Len(q)
    BY <1>1
<1>4. ASSUME NEW x \in Among(q) PROVE x = Head(q) \/ x \in Among(Tail(q))
    <2>1. PICK i \in 1..Len(q) : x = q[i]
        BY <1>4 DEF Among
    <2>2. CASE i = 1
        BY <2>1, <2>2, <1>1
    <2>3. CASE i - 1 \in 1..Len(Tail(q))
        <3>1. Tail(q)[i - 1] = q[i]
            BY <2>3, <1>1
        <3>q. QED
            BY <3>1, <2>1, <2>3 DEF Among
    <2>q. QED
        BY <1>2, <2>2, <2>3
<1>5. Head(q) \in Among(q)
    BY <1>1 DEF Among
<1>6. Among(Tail(q)) \subseteq Among(q)
    BY <1>1, <1>3 DEF Among
<1>q. QED
    BY <1>4, <1>5, <1>6

LEMMA AmongConcat ==
    ASSUME NEW S, NEW q \in Seq(S), NEW r \in Seq(S)
    PROVE  Among(q \o r) = Among(q) \cup Among(r)
<1>1. /\ Len(q \o r) = Len(q) + Len(r) /\ Len(q) \in Nat /\ Len(r) \in Nat
      /\ \A i \in 1..(Len(q) + Len(r)) :
             (q \o r)[i] = IF i <= Len(q) THEN q[i] ELSE r[i - Len(q)]
    BY ConcatProperties, LenProperties
<1>2. ASSUME NEW x \in Among(q \o r) PROVE x \in Among(q) \cup Among(r)
    <2>1. PICK i \in 1..(Len(q) + Len(r)) : x = (q \o r)[i]
        BY <1>1, <1>2 DEF Among
    <2>2. CASE i <= Len(q)
        BY <2>1, <2>2, <1>1 DEF Among
    <2>3. CASE ~(i <= Len(q))
        <3>1. i - Len(q) \in 1..Len(r) /\ x = r[i - Len(q)]
            BY <2>1, <2>3, <1>1
        <3>q. QED
            BY <3>1 DEF Among
    <2>q. QED
        BY <2>2, <2>3
<1>3. ASSUME NEW i \in 1..Len(q) PROVE q[i] \in Among(q \o r)
    <2>1. i \in 1..(Len(q) + Len(r)) /\ (q \o r)[i] = q[i]
        BY <1>1
    <2>q. QED
        BY <2>1, <1>1 DEF Among
<1>4. ASSUME NEW i \in 1..Len(r) PROVE r[i] \in Among(q \o r)
    <2>1. i + Len(q) \in 1..(Len(q) + Len(r)) /\ (q \o r)[i + Len(q)] = r[i]
        BY <1>1
    <2>q. QED
        BY <2>1, <1>1 DEF Among
<1>5. \A x \in Among(q) \cup Among(r) : x \in Among(q \o r)
    BY <1>3, <1>4 DEF Among
<1>q. QED
    BY <1>2, <1>5

LEMMA SortedAppend ==
    ASSUME NEW S, NEW q \in Seq(S), NEW e \in S,
           Sorted(q), Before(Among(q), {e})
    PROVE  Sorted(Append(q, e))
<1> DEFINE a == Append(q, e)
<1>1. /\ Len(a) = Len(q) + 1 /\ Len(q) \in Nat
      /\ \A i \in 1..Len(q) : a[i] = q[i]
      /\ a[Len(q) + 1] = e
    BY AppendProperties, LenProperties
<1> HIDE DEF a
<1>2. SUFFICES ASSUME NEW i \in 1..Len(a), NEW j \in 1..Len(a), i < j, a[i].by = a[j].by
               PROVE  a[i].nr < a[j].nr
    BY DEF Sorted, a
<1>3. i \in 1..Len(q) /\ a[i] = q[i] /\ q[i] \in Among(q)
    BY <1>1, <1>2 DEF Among
<1>4. CASE j \in 1..Len(q)
    BY <1>1, <1>2, <1>3, <1>4 DEF Sorted
<1>5. CASE j = Len(q) + 1
    BY <1>1, <1>2, <1>3, <1>5 DEF Before
<1>q. QED
    BY <1>1, <1>4, <1>5

LEMMA SortedTail ==
    ASSUME NEW S, NEW q \in Seq(S), q # << >>, Sorted(q)
    PROVE  Sorted(Tail(q)) /\ Before({Head(q)}, Among(Tail(q)))
<1> DEFINE t == Tail(q)
<1>1. /\ Len(t) = Len(q) - 1 /\ Len(q) \in Nat \ {0} /\ Head(q) = q[1]
      /\ \A i \in 1..Len(t) : t[i] = q[i + 1]
    BY HeadTailProperties, EmptySeq
<1> HIDE DEF t
<1>2. \A i \in 1..Len(t) : i + 1 \in 1..Len(q) /\ 1 < i + 1 /\ t[i] = q[i + 1]
    BY <1>1
<1>3. Sorted(t)
    BY <1>1, <1>2 DEF Sorted
<1>4. \A i \in 1..Len(t) : q[1].by = t[i].by => q[1].nr < t[i].nr
    BY <1>1, <1>2 DEF Sorted
<1>q. QED
    BY <1>1, <1>3, <1>4 DEF Before, Among, t

LEMMA SortedConcat ==
    ASSUME NEW S, NEW q \in Seq(S), NEW r \in Seq(S),
           Sorted(q), Sorted(r), Before(Among(q), Among(r))
    PROVE  Sorted(q \o r)
<1> DEFINE c == q \o r
<1>1. /\ Len(c) = Len(q) + Len(r) /\ Len(q) \in Nat /\ Len(r) \in Nat
      /\ \A i \in 1..(Len(q) + Len(r)) :
             c[i] = IF i <= Len(q) THEN q[i] ELSE r[i - Len(q)]
    BY ConcatProperties, LenProperties
<1> HIDE DEF c
<1>2. SUFFICES ASSUME NEW i \in 1..Len(c), NEW j \in 1..Len(c), i < j, c[i].by = c[j].by
               PROVE  c[i].nr < c[j].nr
    BY DEF Sorted, c
<1>3. CASE j <= Len(q)
    <2>1. i \in 1..Len(q) /\ j \in 1..Len(q) /\ c[i] = q[i] /\ c[j] = q[j]
        BY <1>1, <1>2, <1>3
    <2>q. QED
        BY <2>1, <1>2 DEF Sorted
<1>4. CASE ~(i <= Len(q))
    <2>1. /\ i - Len(q) \in 1..Len(r) /\ j - Len(q) \in 1..Len(r)
          /\ i - Len(q) < j - Len(q)
          /\ c[i] = r[i - Len(q)] /\ c[j] = r[j - Len(q)]
        BY <1>1, <1>2, <1>4
    <2>q. QED
        BY <2>1, <1>2 DEF Sorted
<1>5. CASE i <= Len(q) /\ ~(j <= Len(q))
    <2>1. /\ i \in 1..Len(q) /\ j - Len(q) \in 1..Len(r)
          /\ c[i] = q[i] /\ c[j] = r[j - Len(q)]
        BY <1>1, <1>2, <1>5
    <2>2. c[i] \in Among(q) /\ c[j] \in Among(r)
        BY <2>1 DEF Among
    <2>q. QED
        BY <2>2, <1>2 DEF Before
<1>q. QED
    BY <1>1, <1>2, <1>3, <1>4, <1>5

LEMMA SortedShort ==
    ASSUME NEW S, NEW q \in Seq(S), Len(q) <= 1
    PROVE  Sorted(q)
BY LenProperties DEF Sorted

-----------------------------------------------------------------------------
\* Types.

LEMMA EventType ==
    ASSUME TypeOK, Places, NEW p \in Publishers, Publishing(p)
    PROVE  Event(p) \in Events
BY DEF TypeOK, Places, Event, Events

LEMMA ClashedType ==
    ASSUME NEW p \in Publishers, Publish(p)
    PROVE  clashed' \in BOOLEAN
<1>1. clashed' = (clashed \/ \E q \in Publishers \ {p} : Publishing(q))
    BY DEF Publish
<1>q. QED
    BY <1>1, Zenon

LEMMA QueueGrows ==
    ASSUME TypeOK, NEW s \in Streams, ~Full(s), NEW e \in Events,
           queue' = [queue EXCEPT ![s] = Append(@, e)]
    PROVE  queue' \in [Streams -> Seq(Events)] /\ \A t \in Streams : Len(queue'[t]) <= QueueSize
<1>1. /\ queue \in [Streams -> Seq(Events)] /\ \A t \in Streams : Len(queue[t]) <= QueueSize
      /\ QueueSize \in Nat
    BY BrokerAssumption DEF TypeOK
<1>2. Append(queue[s], e) \in Seq(Events) /\ Len(Append(queue[s], e)) = Len(queue[s]) + 1
      /\ Len(queue[s]) \in Nat
    BY <1>1, AppendProperties, LenProperties
<1>3. Len(queue[s]) + 1 <= QueueSize
    BY <1>1, <1>2 DEF Full
<1>4. \A t \in Streams : queue'[t] = IF t = s THEN Append(queue[s], e) ELSE queue[t]
    BY <1>1
<1>q. QED
    BY <1>1, <1>2, <1>3, <1>4

LEMMA QueueShrinks ==
    ASSUME TypeOK, NEW s \in Streams, queue[s] # << >>,
           queue' = [queue EXCEPT ![s] = Tail(@)]
    PROVE  queue' \in [Streams -> Seq(Events)] /\ \A t \in Streams : Len(queue'[t]) <= QueueSize
<1>1. /\ queue \in [Streams -> Seq(Events)] /\ \A t \in Streams : Len(queue[t]) <= QueueSize
      /\ QueueSize \in Nat
    BY BrokerAssumption DEF TypeOK
<1>2. Tail(queue[s]) \in Seq(Events) /\ Len(Tail(queue[s])) = Len(queue[s]) - 1
      /\ Len(queue[s]) \in Nat
    BY <1>1, HeadTailProperties, LenProperties
<1>3. \A t \in Streams : queue'[t] = IF t = s THEN Tail(queue[s]) ELSE queue[t]
    BY <1>1
<1>q. QED
    BY <1>1, <1>2, <1>3

LEMMA TypeStep ==
    ASSUME TypeOK, Places, [Next]_vars
    PROVE  TypeOK'
<1> DEFINE Stages == {"off", "headers", "writing", "waiting", "leaving", "closed", "leaked"}
<1>0. /\ subscribers \subseteq Streams
      /\ queue \in [Streams -> Seq(Events)]
      /\ \A s \in Streams : Len(queue[s]) <= QueueSize
      /\ holding \in [Streams -> Seq(Events)] /\ \A s \in Streams : Len(holding[s]) <= 1
      /\ received \in [Streams -> Seq(Events)]
      /\ count \in [Publishers -> 0..MaxEvents]
      /\ targets \in [Publishers -> SUBSET Streams]
      /\ serving \in [Publishers -> Streams \cup {Nobody}]
      /\ room \in [Publishers -> BOOLEAN]
      /\ stream \in [Streams -> Stages]
      /\ lossy \subseteq Streams
      /\ clashed \in BOOLEAN /\ MaxEvents \in Nat
    BY BrokerAssumption DEF TypeOK
<1>1. CASE UNCHANGED vars
    BY <1>1 DEF TypeOK, vars, publishVars, streamVars
<1>2. ASSUME NEW p \in Publishers, Publish(p)
      PROVE  TypeOK'
    <2>1. /\ count' = [count EXCEPT ![p] = @ + 1] /\ count[p] < MaxEvents
          /\ targets' = [targets EXCEPT ![p] = subscribers]
          /\ UNCHANGED <<subscribers, queue, serving, room, holding, received, stream, lossy>>
        BY <1>2 DEF Publish, streamVars
    <2>2. count' \in [Publishers -> 0..MaxEvents]
        BY <2>1, <1>0
    <2>3. targets' \in [Publishers -> SUBSET Streams]
        BY <2>1, <1>0
    <2>4. clashed' \in BOOLEAN
        BY <1>2, ClashedType
    <2>q. QED
        BY <2>1, <2>2, <2>3, <2>4, <1>0 DEF TypeOK
<1>3. ASSUME NEW p \in Publishers, NEW s \in Streams, Put(p, s)
      PROVE  TypeOK'
    <2>1. /\ targets' = [targets EXCEPT ![p] = @ \ {s}]
          /\ UNCHANGED <<subscribers, count, room, holding, received, stream, lossy, clashed>>
          /\ Publishing(p)
        BY <1>3 DEF Put, streamVars, Publishing
    <2>2. targets' \in [Publishers -> SUBSET Streams]
        BY <2>1, <1>0
    <2>3. serving' \in [Publishers -> Streams \cup {Nobody}]
        BY <1>3, <1>0 DEF Put
    <2>4. Event(p) \in Events
        BY <2>1, EventType
    <2>5. queue' \in [Streams -> Seq(Events)] /\ \A t \in Streams : Len(queue'[t]) <= QueueSize
        <3>1. CASE Full(s)
            BY <3>1, <1>3, <1>0 DEF Put
        <3>2. CASE ~Full(s)
            BY <3>2, <1>3, <2>4, QueueGrows DEF Put
        <3>q. QED
            BY <3>1, <3>2
    <2>q. QED
        BY <2>1, <2>2, <2>3, <2>5, <1>0 DEF TypeOK
<1>4. ASSUME NEW p \in Publishers, MakeRoom(p)
      PROVE  TypeOK'
    <2>1. /\ room' = [room EXCEPT ![p] = TRUE]
          /\ UNCHANGED <<subscribers, count, targets, serving, holding, received, stream, clashed>>
          /\ serving[p] \in Streams
        BY <1>4, <1>0 DEF MakeRoom, streamVars
    <2>2. room' \in [Publishers -> BOOLEAN]
        BY <2>1, <1>0
    <2>3. /\ queue' \in [Streams -> Seq(Events)]
          /\ \A t \in Streams : Len(queue'[t]) <= QueueSize
          /\ lossy' \subseteq Streams
        <3>1. CASE queue[serving[p]] = << >>
            BY <3>1, <1>4, <1>0 DEF MakeRoom
        <3>2. CASE queue[serving[p]] # << >>
            <4>1. queue' = [queue EXCEPT ![serving[p]] = Tail(@)]
                BY <3>2, <1>4 DEF MakeRoom
            <4>2. /\ queue' \in [Streams -> Seq(Events)]
                  /\ \A t \in Streams : Len(queue'[t]) <= QueueSize
                BY <4>1, <3>2, <2>1, QueueShrinks
            <4>q. QED
                BY <4>2, <3>2, <1>4, <2>1, <1>0 DEF MakeRoom
        <3>q. QED
            BY <3>1, <3>2
    <2>q. QED
        BY <2>1, <2>2, <2>3, <1>0 DEF TypeOK
<1>5. ASSUME NEW p \in Publishers, PutAgain(p)
      PROVE  TypeOK'
    <2>1. /\ serving' = [serving EXCEPT ![p] = Nobody]
          /\ room' = [room EXCEPT ![p] = FALSE]
          /\ UNCHANGED <<subscribers, count, targets, holding, received, stream, clashed>>
          /\ Publishing(p) /\ serving[p] \in Streams
        BY <1>5, <1>0 DEF PutAgain, streamVars, Publishing
    <2>2. room' \in [Publishers -> BOOLEAN]
        BY <2>1, <1>0
    <2>3. serving' \in [Publishers -> Streams \cup {Nobody}]
        BY <2>1, <1>0
    <2>4. Event(p) \in Events
        BY <2>1, EventType
    <2>5. /\ queue' \in [Streams -> Seq(Events)]
          /\ \A t \in Streams : Len(queue'[t]) <= QueueSize
          /\ lossy' \subseteq Streams
        <3>1. CASE Full(serving[p])
            BY <3>1, <1>5, <2>1, <1>0 DEF PutAgain
        <3>2. CASE ~Full(serving[p])
            BY <3>2, <1>5, <2>1, <2>4, <1>0, QueueGrows DEF PutAgain
        <3>q. QED
            BY <3>1, <3>2
    <2>q. QED
        BY <2>1, <2>2, <2>3, <2>5, <1>0 DEF TypeOK
<1>6. ASSUME NEW s \in Streams, Subscribe(s) \/ WriteHeaders(s) \/ Unsubscribe(s)
      PROVE  TypeOK'
    <2>1. /\ UNCHANGED <<queue, count, targets, serving, room, holding, received, lossy, clashed>>
          /\ subscribers' \subseteq Streams
        BY <1>6, <1>0 DEF Subscribe, WriteHeaders, Unsubscribe, publishVars
    <2>2. \E to \in Stages : stream' = [stream EXCEPT ![s] = to]
        BY <1>6 DEF Subscribe, WriteHeaders, Unsubscribe, At
    <2>3. stream' \in [Streams -> Stages]
        BY <2>2, <1>0
    <2>q. QED
        BY <2>1, <2>3, <1>0 DEF TypeOK
<1>7. ASSUME NEW s \in Streams, Get(s)
      PROVE  TypeOK'
    <2>1. UNCHANGED <<subscribers, count, targets, serving, room, received, lossy, clashed>>
        BY <1>7 DEF Get, publishVars
    <2>2. \E to \in Stages : stream' = [stream EXCEPT ![s] = to]
        BY <1>7 DEF Get, At
    <2>3. stream' \in [Streams -> Stages]
        BY <2>2, <1>0
    <2>4. CASE queue[s] = << >>
        BY <2>4, <1>7, <2>1, <2>3, <1>0 DEF Get, TypeOK
    <2>5. CASE queue[s] # << >>
        <3>1. /\ holding' = [holding EXCEPT ![s] = <<Head(queue[s])>>]
              /\ queue' = [queue EXCEPT ![s] = Tail(@)]
            BY <2>5, <1>7 DEF Get
        <3>2. /\ queue' \in [Streams -> Seq(Events)]
              /\ \A t \in Streams : Len(queue'[t]) <= QueueSize
            BY <3>1, <2>5, QueueShrinks
        <3>3. Head(queue[s]) \in Events
            BY <2>5, <1>0, HeadTailProperties
        <3>4. <<Head(queue[s])>> \in Seq(Events) /\ Len(<<Head(queue[s])>>) = 1
            BY <3>3
        <3>5. \A t \in Streams : holding'[t] = IF t = s THEN <<Head(queue[s])>> ELSE holding[t]
            BY <3>1, <1>0
        <3>6. holding' \in [Streams -> Seq(Events)] /\ \A t \in Streams : Len(holding'[t]) <= 1
            BY <3>1, <3>4, <3>5, <1>0
        <3>q. QED
            BY <3>2, <3>6, <2>1, <2>3, <1>0 DEF TypeOK
    <2>q. QED
        BY <2>4, <2>5
<1>8. ASSUME NEW s \in Streams, WriteEvent(s)
      PROVE  TypeOK'
    <2>1. /\ UNCHANGED <<subscribers, queue, count, targets, serving, room, lossy, clashed>>
          /\ holding' = [holding EXCEPT ![s] = << >>]
        BY <1>8 DEF WriteEvent, publishVars
    <2>2. \E to \in Stages : stream' = [stream EXCEPT ![s] = to]
        BY <1>8 DEF WriteEvent, At
    <2>3. stream' \in [Streams -> Stages]
        BY <2>2, <1>0
    <2>4. << >> \in Seq(Events) /\ Len(<< >>) = 0
        BY EmptySeq
    <2>5. holding' \in [Streams -> Seq(Events)] /\ \A t \in Streams : Len(holding'[t]) <= 1
        BY <2>1, <2>4, <1>0
    <2>6. received[s] \o holding[s] \in Seq(Events)
        BY <1>0, ConcatProperties
    <2>7. received' \in [Streams -> Seq(Events)]
        BY <1>8, <2>6, <1>0 DEF WriteEvent
    <2>q. QED
        BY <2>1, <2>3, <2>5, <2>7, <1>0 DEF TypeOK
<1>q. QED
    BY <1>1, <1>2, <1>3, <1>4, <1>5, <1>6, <1>7, <1>8 DEF Next, PublishStep, StreamStep

-----------------------------------------------------------------------------
\* Who has still to serve whom.

\* Publisher p is through with stream s, and that is all that changes.
Served(p, s) ==
    /\ Pending(p, s) /\ ~Pending(p, s)'
    /\ count' = count
    /\ \A q \in Publishers, t \in Streams :
           q # p \/ t # s => (Pending(q, t)' <=> Pending(q, t))

LEMMA NotNobody == \A s \in Streams : s # Nobody
BY BrokerAssumption

LEMMA TopType ==
    ASSUME TypeOK, NEW p \in Publishers, NEW s \in Streams
    PROVE  Top(p, s) \in Int
BY BrokerAssumption DEF TypeOK, Top

LEMMA PublishPending ==
    ASSUME TypeOK, NEW p \in Publishers, Publish(p)
    PROVE  /\ \A s \in Streams : ~Pending(p, s)
           /\ \A s \in Streams : Pending(p, s)' <=> s \in subscribers
           /\ \A q \in Publishers \ {p}, s \in Streams : Pending(q, s)' <=> Pending(q, s)
           /\ count'[p] = count[p] + 1 /\ \A q \in Publishers \ {p} : count'[q] = count[q]
<1>1. /\ targets[p] = {} /\ serving[p] = Nobody /\ serving' = serving
      /\ count' = [count EXCEPT ![p] = @ + 1]
      /\ targets' = [targets EXCEPT ![p] = subscribers]
    BY DEF Publish, Publishing
<1>2. /\ targets'[p] = subscribers /\ \A q \in Publishers \ {p} : targets'[q] = targets[q]
      /\ count'[p] = count[p] + 1 /\ \A q \in Publishers \ {p} : count'[q] = count[q]
    BY <1>1 DEF TypeOK
<1>3. \A s \in Streams : ~Pending(p, s)
    BY <1>1, NotNobody DEF Pending
<1>4. \A s \in Streams : Pending(p, s)' <=> s \in subscribers
    BY <1>1, <1>2, NotNobody DEF Pending
<1>5. \A q \in Publishers \ {p}, s \in Streams : Pending(q, s)' <=> Pending(q, s)
    BY <1>1, <1>2 DEF Pending
<1>q. QED
    BY <1>2, <1>3, <1>4, <1>5

LEMMA PublishTop ==
    ASSUME TypeOK, NEW p \in Publishers, Publish(p), NEW q \in Publishers, NEW s \in Streams
    PROVE  /\ Top(q, s) <= Top(q, s)'
           /\ q # p \/ s \in subscribers => Top(q, s)' = Top(q, s)
<1>1. count \in [Publishers -> Int]
    BY BrokerAssumption DEF TypeOK
<1>2. CASE q = p
    BY <1>1, <1>2, PublishPending DEF Top
<1>3. CASE q # p
    BY <1>1, <1>3, PublishPending DEF Top
<1>q. QED
    BY <1>2, <1>3

LEMMA PutPending ==
    ASSUME TypeOK, NEW p \in Publishers, NEW s \in Streams, Put(p, s)
    PROVE  /\ Full(s) => \A q \in Publishers, t \in Streams : Pending(q, t)' <=> Pending(q, t)
           /\ ~Full(s) => Served(p, s)
<1>1. /\ serving[p] = Nobody /\ s \in targets[p] /\ count' = count
      /\ targets' = [targets EXCEPT ![p] = @ \ {s}]
    BY DEF Put
<1>2. /\ targets'[p] = targets[p] \ {s}
      /\ \A q \in Publishers \ {p} : targets'[q] = targets[q]
    BY <1>1 DEF TypeOK
<1>3. ASSUME Full(s), NEW q \in Publishers, NEW t \in Streams
      PROVE  Pending(q, t)' <=> Pending(q, t)
    <2>1. serving'[p] = s /\ \A r \in Publishers \ {p} : serving'[r] = serving[r]
        BY <1>3 DEF Put, TypeOK
    <2>2. CASE q = p
        BY <2>1, <2>2, <1>1, <1>2, NotNobody DEF Pending
    <2>3. CASE q # p
        BY <2>1, <2>3, <1>2 DEF Pending
    <2>q. QED
        BY <2>2, <2>3
<1>4. ASSUME ~Full(s)
      PROVE  Served(p, s)
    <2>1. serving' = serving
        BY <1>4 DEF Put
    <2>2. Pending(p, s) /\ ~Pending(p, s)'
        BY <2>1, <1>1, <1>2, NotNobody DEF Pending
    <2>3. ASSUME NEW q \in Publishers, NEW t \in Streams, q # p \/ t # s
          PROVE  Pending(q, t)' <=> Pending(q, t)
        BY <2>1, <2>3, <1>2 DEF Pending
    <2>q. QED
        BY <2>2, <2>3, <1>1 DEF Served
<1>q. QED
    BY <1>3, <1>4

LEMMA PutAgainPending ==
    ASSUME TypeOK, Places, NEW p \in Publishers, PutAgain(p),
           NEW s \in Streams, serving[p] = s
    PROVE  Served(p, s)
<1>1. /\ s \notin targets[p]
      /\ targets' = targets /\ count' = count
      /\ serving' = [serving EXCEPT ![p] = Nobody]
    BY DEF PutAgain, TypeOK, Places
<1>2. serving'[p] = Nobody /\ \A q \in Publishers \ {p} : serving'[q] = serving[q]
    BY <1>1 DEF TypeOK
<1>3. Pending(p, s) /\ ~Pending(p, s)'
    BY <1>1, <1>2, NotNobody DEF Pending
<1>4. ASSUME NEW q \in Publishers, NEW t \in Streams, q # p \/ t # s
      PROVE  Pending(q, t)' <=> Pending(q, t)
    <2>1. CASE q = p
        BY <2>1, <1>1, <1>2, <1>4, NotNobody DEF Pending
    <2>2. CASE q # p
        BY <2>2, <1>1, <1>2 DEF Pending
    <2>q. QED
        BY <2>1, <2>2
<1>q. QED
    BY <1>1, <1>3, <1>4 DEF Served

LEMMA ServedTop ==
    ASSUME TypeOK, NEW p \in Publishers, NEW s \in Streams, Served(p, s)
    PROVE  /\ Top(p, s) = count[p] - 1 /\ Top(p, s)' = count[p]
           /\ \A q \in Publishers, t \in Streams : q # p \/ t # s => Top(q, t)' = Top(q, t)
BY DEF Served, Top

LEMMA IdleTop ==
    ASSUME count' = count, NEW q \in Publishers, NEW t \in Streams,
           Pending(q, t)' <=> Pending(q, t)
    PROVE  Top(q, t)' = Top(q, t)
BY DEF Top

-----------------------------------------------------------------------------
\* Places.

LEMMA BusyStep ==
    ASSUME TypeOK, Places, [Next]_vars, NEW q \in Publishers
    PROVE  /\ Publishing(q)' => count'[q] # 0
           /\ serving'[q] \notin targets'[q]
           /\ room'[q] => serving'[q] # Nobody
<1>0. /\ Publishing(q) => count[q] # 0
      /\ serving[q] \notin targets[q] /\ Nobody \notin targets[q]
      /\ room[q] => serving[q] # Nobody
      /\ count \in [Publishers -> Nat] /\ targets \in [Publishers -> SUBSET Streams]
      /\ serving \in [Publishers -> Streams \cup {Nobody}]
      /\ room \in [Publishers -> BOOLEAN] /\ subscribers \subseteq Streams
    BY BrokerAssumption DEF Places, TypeOK
<1>1. CASE UNCHANGED publishVars
    BY <1>1, <1>0 DEF publishVars, Publishing
<1>2. ASSUME NEW p \in Publishers, Publish(p)
      PROVE  /\ Publishing(q)' => count'[q] # 0
             /\ serving'[q] \notin targets'[q]
             /\ room'[q] => serving'[q] # Nobody
    <2>1. /\ count' = [count EXCEPT ![p] = @ + 1]
          /\ targets' = [targets EXCEPT ![p] = subscribers]
          /\ serving' = serving /\ room' = room /\ serving[p] = Nobody
        BY <1>2 DEF Publish, Publishing
    <2>2. CASE q = p
        <3>1. count'[q] # 0 /\ targets'[q] \subseteq Streams /\ serving'[q] = Nobody
            BY <2>1, <2>2, <1>0
        <3>q. QED
            BY <3>1, <2>1, <2>2, <1>0, NotNobody
    <2>3. CASE q # p
        BY <2>1, <2>3, <1>0 DEF Publishing
    <2>q. QED
        BY <2>2, <2>3
<1>3. ASSUME NEW p \in Publishers, NEW s \in Streams, Put(p, s)
      PROVE  /\ Publishing(q)' => count'[q] # 0
             /\ serving'[q] \notin targets'[q]
             /\ room'[q] => serving'[q] # Nobody
    <2>1. /\ targets' = [targets EXCEPT ![p] = @ \ {s}] /\ count' = count /\ room' = room
          /\ Publishing(p) /\ serving[p] = Nobody
          /\ serving' = serving \/ serving' = [serving EXCEPT ![p] = s]
        BY <1>3 DEF Put, Publishing
    <2>2. CASE q = p
        <3>1. /\ count'[q] # 0 /\ targets'[q] = targets[q] \ {s}
              /\ serving'[q] = s \/ serving'[q] = Nobody
            BY <2>1, <2>2, <1>0
        <3>q. QED
            BY <3>1, <2>1, <2>2, <1>0, NotNobody
    <2>3. CASE q # p
        BY <2>1, <2>3, <1>0 DEF Publishing
    <2>q. QED
        BY <2>2, <2>3
<1>4. ASSUME NEW p \in Publishers, MakeRoom(p)
      PROVE  /\ Publishing(q)' => count'[q] # 0
             /\ serving'[q] \notin targets'[q]
             /\ room'[q] => serving'[q] # Nobody
    BY <1>4, <1>0 DEF MakeRoom, Publishing
<1>5. ASSUME NEW p \in Publishers, PutAgain(p)
      PROVE  /\ Publishing(q)' => count'[q] # 0
             /\ serving'[q] \notin targets'[q]
             /\ room'[q] => serving'[q] # Nobody
    <2>1. /\ serving' = [serving EXCEPT ![p] = Nobody]
          /\ room' = [room EXCEPT ![p] = FALSE]
          /\ targets' = targets /\ count' = count /\ Publishing(p)
        BY <1>5 DEF PutAgain, Publishing
    <2>2. CASE q = p
        BY <2>1, <2>2, <1>0
    <2>3. CASE q # p
        BY <2>1, <2>3, <1>0 DEF Publishing
    <2>q. QED
        BY <2>2, <2>3
<1>q. QED
    BY <1>1, <1>2, <1>3, <1>4, <1>5
    DEF Next, PublishStep, StreamStep, vars, Subscribe, WriteHeaders, Get, WriteEvent, Unsubscribe

\* The places of one stream.
Place(s) ==
    /\ stream[s] \in {"headers", "waiting", "writing", "leaving", "leaked"} => s \in subscribers
    /\ stream[s] # "writing" => holding[s] = << >>
    /\ stream[s] = "off" => /\ s \notin subscribers /\ Seen(s) = {}
                            /\ \A p \in Publishers : ~Pending(p, s)

LEMMA PlaceStays ==
    ASSUME NEW s \in Streams, Place(s),
           stream'[s] = stream[s], s \in subscribers' <=> s \in subscribers,
           queue'[s] = queue[s] \/ stream[s] # "off",
           holding'[s] = holding[s], received'[s] = received[s],
           \A p \in Publishers : Pending(p, s)' => Pending(p, s) \/ stream[s] # "off"
    PROVE  Place(s)'
<1>2. CASE stream[s] = "off"
    <2>1. Seen(s)' = {}
        BY <1>2 DEF Seen, Place
    <2>2. \A p \in Publishers : ~Pending(p, s)'
        BY <1>2 DEF Place
    <2>q. QED
        BY <1>2, <2>1, <2>2 DEF Place
<1>3. CASE stream[s] # "off"
    BY <1>3 DEF Place
<1>q. QED
    BY <1>2, <1>3

LEMMA PlaceStep ==
    ASSUME TypeOK, Places, [Next]_vars, NEW s \in Streams
    PROVE  Place(s)'
<1>0. Place(s) /\ \A t \in Streams : Place(t)
    BY DEF Places, Place
<1>00. /\ stream \in [Streams -> {"off", "headers", "writing", "waiting", "leaving",
                                 "closed", "leaked"}]
       /\ queue \in [Streams -> Seq(Events)] /\ holding \in [Streams -> Seq(Events)]
       /\ received \in [Streams -> Seq(Events)]
    BY DEF TypeOK
<1>1. CASE UNCHANGED vars
    <2>1. \A p \in Publishers : Pending(p, s)' <=> Pending(p, s)
        BY <1>1 DEF Pending, vars, publishVars
    <2>q. QED
        BY <1>1, <2>1, <1>0, PlaceStays DEF vars, streamVars
<1>2. ASSUME NEW p \in Publishers, Publish(p)
      PROVE  Place(s)'
    <2>1. UNCHANGED <<subscribers, queue, holding, received, stream>>
        BY <1>2 DEF Publish, streamVars
    <2>2. \A q \in Publishers : Pending(q, s)' => Pending(q, s) \/ s \in subscribers
        BY <1>2, PublishPending
    <2>3. stream[s] = "off" => s \notin subscribers
        BY <1>0 DEF Place
    <2>q. QED
        BY <2>1, <2>2, <2>3, <1>0, PlaceStays
<1>3. ASSUME NEW p \in Publishers, NEW t \in Streams, Put(p, t)
      PROVE  Place(s)'
    <2>1. /\ UNCHANGED <<subscribers, holding, received, stream>>
          /\ queue' = queue \/ queue' = [queue EXCEPT ![t] = Append(@, Event(p))]
        BY <1>3 DEF Put, streamVars
    <2>2. Pending(p, t)
        BY <1>3 DEF Put, Pending
    <2>3. \A q \in Publishers : Pending(q, s)' => Pending(q, s)
        BY <1>3, <2>2, PutPending DEF Served
    <2>4. s = t => stream[s] # "off"
        BY <2>2, <1>0 DEF Place
    <2>5. queue'[s] = queue[s] \/ stream[s] # "off"
        BY <2>1, <2>4, <1>00
    <2>q. QED
        BY <2>1, <2>3, <2>5, <1>0, PlaceStays
<1>4. ASSUME NEW p \in Publishers, MakeRoom(p)
      PROVE  Place(s)'
    <2>1. /\ UNCHANGED <<subscribers, holding, received, stream, targets, serving>>
          /\ queue' = queue \/ queue' = [queue EXCEPT ![serving[p]] = Tail(@)]
        BY <1>4 DEF MakeRoom, streamVars
    <2>2. \A q \in Publishers : Pending(q, s)' <=> Pending(q, s)
        BY <2>1 DEF Pending
    <2>3. s = serving[p] => stream[s] # "off"
        BY <1>0 DEF Place, Pending
    <2>4. queue'[s] = queue[s] \/ stream[s] # "off"
        BY <2>1, <2>3, <1>00
    <2>q. QED
        BY <2>1, <2>2, <2>4, <1>0, PlaceStays
<1>5. ASSUME NEW p \in Publishers, PutAgain(p)
      PROVE  Place(s)'
    <2>1. /\ UNCHANGED <<subscribers, holding, received, stream>>
          /\ queue' = queue \/ queue' = [queue EXCEPT ![serving[p]] = Append(@, Event(p))]
        BY <1>5 DEF PutAgain, streamVars
    <2>2. PICK t \in Streams : serving[p] = t
        BY <1>5 DEF PutAgain, TypeOK
    <2>3. Pending(p, t) /\ \A q \in Publishers : Pending(q, s)' => Pending(q, s)
        BY <1>5, <2>2, PutAgainPending DEF Served
    <2>4. s = t => stream[s] # "off"
        BY <2>3, <1>0 DEF Place
    <2>5. queue'[s] = queue[s] \/ stream[s] # "off"
        BY <2>1, <2>2, <2>4, <1>00
    <2>q. QED
        BY <2>1, <2>3, <2>5, <1>0, PlaceStays
<1>6. ASSUME NEW t \in Streams,
             Subscribe(t) \/ WriteHeaders(t) \/ Get(t) \/ WriteEvent(t) \/ Unsubscribe(t)
      PROVE  Place(s)'
    <2>1. targets' = targets /\ serving' = serving
        BY <1>6 DEF Subscribe, WriteHeaders, Get, WriteEvent, Unsubscribe, publishVars
    <2>2. \A q \in Publishers : Pending(q, s)' <=> Pending(q, s)
        BY <2>1 DEF Pending
    <2>3. CASE s # t
        <3>1. /\ stream'[s] = stream[s] /\ queue'[s] = queue[s] /\ holding'[s] = holding[s]
              /\ received'[s] = received[s]
            BY <2>3, <1>6, <1>00 DEF Subscribe, WriteHeaders, Get, WriteEvent, Unsubscribe, At
        <3>2. s \in subscribers' <=> s \in subscribers
            BY <2>3, <1>6 DEF Subscribe, WriteHeaders, Get, WriteEvent, Unsubscribe
        <3>q. QED
            BY <3>1, <3>2, <2>2, <1>0, PlaceStays
    <2>4. CASE s = t
        <3>1. \/ stream'[s] = "closed" /\ stream[s] = "leaving" /\ holding'[s] = holding[s]
              \/ /\ stream'[s] \in {"headers", "waiting", "writing", "leaving", "leaked"}
                 /\ s \in subscribers'
                 /\ stream'[s] = "writing" \/ holding'[s] = << >>
            BY <2>4, <1>6, <1>0, <1>00
            DEF Subscribe, WriteHeaders, Get, WriteEvent, Unsubscribe, At, Place
        <3>q. QED
            BY <3>1, <1>0 DEF Place
    <2>q. QED
        BY <2>3, <2>4
<1>q. QED
    BY <1>1, <1>2, <1>3, <1>4, <1>5, <1>6 DEF Next, PublishStep, StreamStep

LEMMA PlacesStep ==
    ASSUME TypeOK, Places, [Next]_vars
    PROVE  Places'
<1>1. \A p \in Publishers : /\ Publishing(p)' => count'[p] # 0
                            /\ serving'[p] \notin targets'[p]
                            /\ room'[p] => serving'[p] # Nobody
    BY BusyStep
<1>2. \A s \in Streams : Place(s)'
    BY PlaceStep
<1>q. QED
    BY <1>1, <1>2 DEF Places, Place

LEMMA RoomStep ==
    ASSUME TypeOK, Places, Room, [Next]_vars
    PROVE  Room'
<1>0. /\ queue \in [Streams -> Seq(Events)] /\ serving \in [Publishers -> Streams \cup {Nobody}]
      /\ room \in [Publishers -> BOOLEAN] /\ targets \in [Publishers -> SUBSET Streams]
      /\ QueueSize \in Nat \ {0} /\ \A s \in Streams : Len(queue[s]) <= QueueSize
      /\ \A s \in Streams : Len(queue[s]) \in Nat
      /\ \A p \in Publishers : room[p] => serving[p] # Nobody
    BY BrokerAssumption, LenProperties DEF TypeOK, Places
<1>1. SUFFICES ASSUME ~clashed'
               PROVE  /\ \A p, q \in Publishers : Publishing(p)' /\ Publishing(q)' => p = q
                      /\ \A p \in Publishers : room'[p] => ~Full(serving[p])'
    BY DEF Room
<1>2. CASE UNCHANGED vars
    BY <1>1, <1>2 DEF Room, Publishing, Full, vars, publishVars
<1>3. ASSUME NEW p \in Publishers, Publish(p)
      PROVE  /\ \A r, q \in Publishers : Publishing(r)' /\ Publishing(q)' => r = q
             /\ \A q \in Publishers : room'[q] => ~Full(serving[q])'
    <2>1. /\ clashed' = (clashed \/ \E q \in Publishers \ {p} : Publishing(q))
          /\ targets' = [targets EXCEPT ![p] = subscribers]
          /\ UNCHANGED <<queue, serving, room>>
        BY <1>3 DEF Publish
    <2>2. ~clashed /\ \A q \in Publishers \ {p} : ~Publishing(q)
        BY <2>1, <1>1, Zenon
    <2>3. \A q \in Publishers \ {p} : ~Publishing(q)'
        BY <2>1, <2>2, <1>0 DEF Publishing
    <2>4. \A q \in Publishers : room'[q] => ~Full(serving[q])'
        BY <2>1, <2>2 DEF Room, Full
    <2>q. QED
        BY <2>3, <2>4
<1>4. ASSUME ~clashed
      PROVE  /\ \A r, q \in Publishers : Publishing(r) /\ Publishing(q) => r = q
             /\ \A q \in Publishers : room[q] => ~Full(serving[q])
    BY <1>4 DEF Room
<1>5. ASSUME NEW p \in Publishers, PublishStep(p)
      PROVE  /\ \A r, q \in Publishers : Publishing(r)' /\ Publishing(q)' => r = q
             /\ \A q \in Publishers : room'[q] => ~Full(serving[q])'
    <2>1. ~clashed /\ Publishing(p)
        BY <1>5, <1>1 DEF PublishStep, Put, MakeRoom, PutAgain, Publishing
    <2>2. \A q \in Publishers \ {p} : ~Publishing(q) /\ ~room[q]
        BY <2>1, <1>4, <1>0 DEF Publishing
    <2>3. \A q \in Publishers \ {p} :
              targets'[q] = targets[q] /\ serving'[q] = serving[q] /\ room'[q] = room[q]
        BY <1>5, <1>0 DEF PublishStep, Put, MakeRoom, PutAgain
    <2>4. \A q \in Publishers \ {p} : ~Publishing(q)' /\ ~room'[q]
        BY <2>2, <2>3 DEF Publishing
    <2>5. ASSUME room'[p] PROVE ~Full(serving[p])'
        <3>1. CASE \E s \in Streams : Put(p, s)
            BY <3>1, <2>5, <1>0 DEF Put
        <3>2. CASE PutAgain(p)
            BY <3>2, <2>5, <1>0 DEF PutAgain
        <3>3. CASE MakeRoom(p)
            <4>1. PICK s \in Streams : serving[p] = s
                BY <3>3, <1>0 DEF MakeRoom
            <4>2. serving'[p] = s
                BY <3>3, <4>1 DEF MakeRoom
            <4>3. CASE queue[s] = << >>
                <5>1. Len(queue'[s]) = 0
                    BY <3>3, <4>1, <4>3 DEF MakeRoom
                <5>q. QED
                    BY <5>1, <4>2, <1>0 DEF Full
            <4>4. CASE queue[s] # << >>
                <5>1. queue'[s] = Tail(queue[s])
                    BY <3>3, <4>1, <4>4, <1>0 DEF MakeRoom
                <5>2. Len(Tail(queue[s])) = Len(queue[s]) - 1
                    BY <4>4, <1>0, HeadTailProperties
                <5>3. Len(queue'[s]) < QueueSize
                    BY <5>1, <5>2, <1>0
                <5>q. QED
                    <6>1. Len(queue'[s]) \in Int
                        BY <5>1, <5>2, <1>0
                    <6>2. ~(Len(queue'[s]) >= QueueSize)
                        BY <6>1, <5>3, <1>0
                    <6>q. QED
                        BY <6>2, <4>2 DEF Full
            <4>q. QED
                BY <4>3, <4>4
        <3>q. QED
            BY <1>5, <3>1, <3>2, <3>3 DEF PublishStep
    <2>q. QED
        BY <2>4, <2>5
<1>6. ASSUME NEW s \in Streams,
             Subscribe(s) \/ WriteHeaders(s) \/ Get(s) \/ WriteEvent(s) \/ Unsubscribe(s)
      PROVE  /\ \A r, q \in Publishers : Publishing(r)' /\ Publishing(q)' => r = q
             /\ \A q \in Publishers : room'[q] => ~Full(serving[q])'
    <2>1. UNCHANGED <<targets, serving, room, clashed>>
        BY <1>6 DEF Subscribe, WriteHeaders, Get, WriteEvent, Unsubscribe, publishVars
    <2>2. \A q \in Publishers : Publishing(q)' <=> Publishing(q)
        BY <2>1 DEF Publishing
    <2>3. \A t \in Streams : Len(queue'[t]) <= Len(queue[t])
        <3>1. CASE queue' = queue
            BY <3>1, <1>0
        <3>2. CASE queue[s] # << >> /\ queue' = [queue EXCEPT ![s] = Tail(@)]
            <4>1. Len(Tail(queue[s])) = Len(queue[s]) - 1
                BY <3>2, <1>0, HeadTailProperties
            <4>q. QED
                BY <3>2, <4>1, <1>0
        <3>q. QED
            BY <1>6, <3>1, <3>2 DEF Subscribe, WriteHeaders, Get, WriteEvent, Unsubscribe
    <2>4. \A t \in Streams : Len(queue'[t]) \in Nat
        BY LenProperties, TypeStep DEF TypeOK
    <2>5. ASSUME NEW q \in Publishers, room'[q] PROVE ~Full(serving[q])'
        <3>1. PICK t \in Streams : serving[q] = t
            BY <2>1, <2>5, <1>0
        <3>2. ~(Len(queue[t]) >= QueueSize)
            BY <3>1, <2>1, <2>5, <1>1, <1>4 DEF Full
        <3>3. ~(Len(queue'[t]) >= QueueSize)
            BY <3>2, <2>3, <2>4, <1>0
        <3>q. QED
            BY <3>1, <3>3, <2>1 DEF Full
    <2>q. QED
        BY <2>1, <2>2, <2>5, <1>1, <1>4
<1>q. QED
    BY <1>2, <1>3, <1>5, <1>6 DEF Next, StreamStep

-----------------------------------------------------------------------------
\* The order of what a stream has.

LEMMA ContentsType ==
    ASSUME TypeOK, NEW s \in Streams
    PROVE  /\ queue[s] \in Seq(Events) /\ holding[s] \in Seq(Events)
           /\ received[s] \in Seq(Events)
           /\ Seen(s) \subseteq Events
<1>1. /\ queue[s] \in Seq(Events) /\ holding[s] \in Seq(Events)
      /\ received[s] \in Seq(Events)
    BY DEF TypeOK
<1>q. QED
    BY <1>1, AmongType DEF Seen

LEMMA EventFields ==
    ASSUME NEW e \in Events
    PROVE  e.by \in Publishers /\ e.nr \in 1..MaxEvents /\ e.nr \in Nat
           /\ e = [by |-> e.by, nr |-> e.nr]
BY BrokerAssumption DEF Events

\* What remains of a stream in the same order, with later events to come, is in
\* order.
LEMMA OrderedLess ==
    ASSUME TypeOK, TypeOK', NEW s \in Streams, Ordered(s),
           Sorted(received'[s]), Sorted(queue'[s]),
           Before(Among(received'[s]), Among(holding'[s])),
           Before(Among(received'[s]), Among(queue'[s])),
           Before(Among(holding'[s]), Among(queue'[s])),
           Seen(s)' \subseteq Seen(s),
           \A p \in Publishers : Top(p, s) <= Top(p, s)'
    PROVE  Ordered(s)'
<1>1. ASSUME NEW e \in Seen(s)' PROVE e.nr <= Top(e.by, s)'
    <2>1. e \in Seen(s) /\ e \in Events
        BY <1>1, ContentsType
    <2>2. e.nr \in Int /\ e.by \in Publishers
        BY <2>1, EventFields
    <2>3. e.nr <= Top(e.by, s)
        BY <2>1 DEF Ordered
    <2>4. Top(e.by, s) \in Int /\ Top(e.by, s)' \in Int
        BY <2>2, TopType, BrokerAssumption DEF TypeOK, Top
    <2>q. QED
        BY <2>2, <2>3, <2>4
<1>q. QED
    BY <1>1 DEF Ordered

LEMMA OrderedStays ==
    ASSUME TypeOK, TypeOK', NEW s \in Streams, Ordered(s),
           queue'[s] = queue[s], holding'[s] = holding[s], received'[s] = received[s],
           \A p \in Publishers : Top(p, s) <= Top(p, s)'
    PROVE  Ordered(s)'
<1>1. Seen(s)' \subseteq Seen(s)
    BY DEF Seen
<1>q. QED
    BY <1>1, OrderedLess DEF Ordered

LEMMA OrderedServed ==
    ASSUME TypeOK, TypeOK', NEW p \in Publishers, NEW s \in Streams,
           Served(p, s), Ordered(s), Event(p) \in Events,
           queue'[s] = Append(queue[s], Event(p)),
           holding'[s] = holding[s], received'[s] = received[s]
    PROVE  Ordered(s)'
<1>0. /\ queue[s] \in Seq(Events) /\ holding[s] \in Seq(Events)
      /\ received[s] \in Seq(Events) /\ Seen(s) \subseteq Events
      /\ count \in [Publishers -> Nat]
    BY ContentsType, BrokerAssumption DEF TypeOK
<1>1. Among(queue'[s]) = Among(queue[s]) \cup {Event(p)}
    BY <1>0, AmongAppend
<1>2. Top(p, s) = count[p] - 1 /\ \A q \in Publishers : q # p => Top(q, s)' = Top(q, s)
    BY ServedTop
<1>3. Top(p, s)' = count[p]
    BY ServedTop
<1>4. Event(p).by = p /\ Event(p).nr = count[p]
    BY DEF Event
<1>5. \A e \in Seen(s) : e.by \in Publishers /\ e.nr \in Nat /\ e.nr <= Top(e.by, s)
    BY <1>0, EventFields DEF Ordered
<1>6. Before(Seen(s), {Event(p)})
    <2>1. SUFFICES ASSUME NEW e \in Seen(s), e.by = p PROVE e.nr < count[p]
        BY <1>4 DEF Before
    <2>q. QED
        BY <2>1, <1>5, <1>2, <1>0
<1>7. Sorted(queue'[s])
    <2>1. Before(Among(queue[s]), {Event(p)})
        BY <1>6 DEF Before, Seen
    <2>q. QED
        BY <2>1, <1>0, SortedAppend DEF Ordered
<1>8. /\ Before(Among(received'[s]), Among(queue'[s]))
      /\ Before(Among(holding'[s]), Among(queue'[s]))
    BY <1>1, <1>6 DEF Before, Seen, Ordered
<1>9. Seen(s)' = Seen(s) \cup {Event(p)}
    BY <1>1 DEF Seen
<1>10. ASSUME NEW e \in Seen(s)' PROVE e.nr <= Top(e.by, s)'
    <2>1. CASE e = Event(p)
        BY <2>1, <1>3, <1>4, <1>0
    <2>2. CASE e \in Seen(s) /\ e.by = p
        BY <2>2, <1>2, <1>3, <1>5, <1>0
    <2>3. CASE e \in Seen(s) /\ e.by # p
        BY <2>3, <1>2, <1>5
    <2>q. QED
        BY <1>9, <1>10, <2>1, <2>2, <2>3
<1>q. QED
    BY <1>7, <1>8, <1>10 DEF Ordered

LEMMA OrderedRoom ==
    ASSUME TypeOK, TypeOK', NEW s \in Streams, Ordered(s), queue[s] # << >>,
           queue'[s] = Tail(queue[s]), holding'[s] = holding[s], received'[s] = received[s],
           \A p \in Publishers : Top(p, s)' = Top(p, s)
    PROVE  Ordered(s)'
<1>0. queue[s] \in Seq(Events)
    BY ContentsType
<1>1. Among(queue'[s]) \subseteq Among(queue[s])
    BY <1>0, AmongTail
<1>2. Sorted(queue'[s])
    BY <1>0, SortedTail DEF Ordered
<1>3. Seen(s)' \subseteq Seen(s)
    BY <1>1 DEF Seen
<1>4. /\ Before(Among(received'[s]), Among(queue'[s]))
      /\ Before(Among(holding'[s]), Among(queue'[s]))
      /\ Before(Among(received'[s]), Among(holding'[s]))
      /\ Sorted(received'[s])
    BY <1>1 DEF Before, Ordered
<1>5. \A p \in Publishers : Top(p, s) <= Top(p, s)'
    BY TopType
<1>q. QED
    BY <1>2, <1>3, <1>4, <1>5, OrderedLess

LEMMA OrderedTaken ==
    ASSUME TypeOK, TypeOK', NEW s \in Streams, Ordered(s), queue[s] # << >>,
           holding[s] = << >>, holding'[s] = <<Head(queue[s])>>,
           queue'[s] = Tail(queue[s]), received'[s] = received[s],
           \A p \in Publishers : Top(p, s)' = Top(p, s)
    PROVE  Ordered(s)' /\ Seen(s)' = Seen(s)
<1>0. queue[s] \in Seq(Events)
    BY ContentsType
<1>1. /\ Among(queue[s]) = {Head(queue[s])} \cup Among(queue'[s])
      /\ Among(holding'[s]) = {Head(queue[s])} /\ Among(holding[s]) = {}
    BY <1>0, AmongTail, AmongOne, AmongNone
<1>2. Sorted(queue'[s]) /\ Before({Head(queue[s])}, Among(queue'[s]))
    BY <1>0, SortedTail DEF Ordered
<1>3. Seen(s)' = Seen(s)
    BY <1>1 DEF Seen
<1>4. /\ Before(Among(received'[s]), Among(queue'[s]))
      /\ Before(Among(holding'[s]), Among(queue'[s]))
      /\ Before(Among(received'[s]), Among(holding'[s]))
      /\ Sorted(received'[s])
    BY <1>1, <1>2 DEF Before, Ordered
<1>5. \A p \in Publishers : Top(p, s) <= Top(p, s)'
    BY TopType
<1>q. QED
    BY <1>2, <1>3, <1>4, <1>5, OrderedLess

LEMMA OrderedWritten ==
    ASSUME TypeOK, TypeOK', NEW s \in Streams, Ordered(s),
           holding'[s] = << >>, queue'[s] = queue[s],
           received'[s] = received[s] \/ received'[s] = received[s] \o holding[s],
           \A p \in Publishers : Top(p, s)' = Top(p, s)
    PROVE  /\ Ordered(s)'
           /\ received'[s] = received[s] \o holding[s] => Seen(s)' = Seen(s)
<1>0. received[s] \in Seq(Events) /\ holding[s] \in Seq(Events) /\ Len(holding[s]) <= 1
    BY ContentsType DEF TypeOK
<1>1. Among(holding'[s]) = {}
    BY AmongNone
<1>2. received'[s] = received[s] \o holding[s]
          => Among(received'[s]) = Among(received[s]) \cup Among(holding[s])
    BY <1>0, AmongConcat
<1>3. Sorted(received'[s])
    <2>1. Sorted(holding[s])
        BY <1>0, SortedShort
    <2>q. QED
        BY <2>1, <1>0, SortedConcat DEF Ordered
<1>4. received'[s] = received[s] \o holding[s] => Seen(s)' = Seen(s)
    BY <1>1, <1>2 DEF Seen
<1>5. Seen(s)' \subseteq Seen(s)
    BY <1>1, <1>2 DEF Seen
<1>6. /\ Before(Among(received'[s]), Among(queue'[s]))
      /\ Before(Among(holding'[s]), Among(queue'[s]))
      /\ Before(Among(received'[s]), Among(holding'[s]))
      /\ Sorted(queue'[s])
    BY <1>1, <1>2 DEF Before, Ordered
<1>7. \A p \in Publishers : Top(p, s) <= Top(p, s)'
    BY TopType
<1>q. QED
    BY <1>3, <1>4, <1>5, <1>6, <1>7, OrderedLess

-----------------------------------------------------------------------------
\* What a step can do to one stream.

SameTops(s) == \A p \in Publishers : Top(p, s)' = Top(p, s)
Keeps(s) == queue'[s] = queue[s] /\ holding'[s] = holding[s] /\ received'[s] = received[s]

Untouched(s) ==
    /\ Keeps(s) /\ (Gone(s)' <=> Gone(s))
    /\ \A p \in Publishers : Top(p, s) <= Top(p, s)'
    /\ SameTops(s) \/ Seen(s) = {} \/ Gone(s) \/ s \in lossy'

Handed(p, s) ==
    /\ Served(p, s) /\ Event(p) \in Events
    /\ queue'[s] = Append(queue[s], Event(p))
    /\ holding'[s] = holding[s] /\ received'[s] = received[s] /\ stream'[s] = stream[s]

Robbed(s) ==
    /\ SameTops(s) /\ s \in lossy'
    /\ queue[s] # << >> /\ queue'[s] = Tail(queue[s])
    /\ holding'[s] = holding[s] /\ received'[s] = received[s]

Took(s) ==
    /\ SameTops(s) /\ stream[s] = "waiting" /\ stream'[s] = "writing"
    /\ queue[s] # << >> /\ queue'[s] = Tail(queue[s])
    /\ holding[s] = << >> /\ holding'[s] = <<Head(queue[s])>> /\ received'[s] = received[s]

Quit(s) ==
    /\ SameTops(s) /\ stream[s] = "waiting" /\ stream'[s] = "leaving" /\ Keeps(s)

Wrote(s) ==
    /\ SameTops(s) /\ stream[s] = "writing"
    /\ queue'[s] = queue[s] /\ holding'[s] = << >>
    /\ \/ stream'[s] = "waiting" /\ received'[s] = received[s] \o holding[s]
       \/ stream'[s] = "leaving" /\ received'[s] = received[s]

Changed(s) ==
    /\ lossy \subseteq lossy'
    /\ \/ Untouched(s) \/ Robbed(s) \/ Took(s) \/ Quit(s) \/ Wrote(s)
       \/ \E p \in Publishers : Handed(p, s)

LEMMA TopsAgree ==
    ASSUME TypeOK, NEW s \in Streams, SameTops(s)
    PROVE  \A p \in Publishers : Top(p, s) <= Top(p, s)'
BY TopType DEF SameTops

LEMMA ServedChange ==
    ASSUME TypeOK, NEW p \in Publishers, NEW t \in Streams, Served(p, t), Event(p) \in Events,
           stream' = stream, holding' = holding, received' = received,
           NEW s \in Streams,
           \/ queue' = queue /\ lossy' = lossy \cup {t}
           \/ queue' = [queue EXCEPT ![t] = Append(@, Event(p))] /\ lossy' = lossy
    PROVE  Changed(s)
<1>0. queue \in [Streams -> Seq(Events)] /\ count \in [Publishers -> Int]
    BY BrokerAssumption DEF TypeOK
<1>1. \A q \in Publishers : q # p \/ s # t => Top(q, s)' = Top(q, s)
    BY ServedTop
<1>2. Gone(s)' <=> Gone(s)
    BY DEF Gone
<1>3. CASE s # t
    <2>1. SameTops(s) /\ \A q \in Publishers : Top(q, s) <= Top(q, s)'
        BY <1>1, <1>3, TopType DEF SameTops
    <2>2. Keeps(s)
        BY <1>0, <1>3 DEF Keeps
    <2>q. QED
        BY <1>2, <2>1, <2>2 DEF Changed, Untouched
<1>4. CASE s = t /\ queue' = queue /\ lossy' = lossy \cup {t}
    <2>1. Top(p, s) <= Top(p, s)'
        BY <1>0, <1>4, ServedTop
    <2>2. \A q \in Publishers : Top(q, s) <= Top(q, s)'
        BY <2>1, <1>1, TopType
    <2>3. Keeps(s)
        BY <1>4 DEF Keeps
    <2>q. QED
        BY <1>2, <1>4, <2>2, <2>3 DEF Changed, Untouched
<1>5. CASE s = t /\ queue' = [queue EXCEPT ![t] = Append(@, Event(p))] /\ lossy' = lossy
    <2>1. queue'[s] = Append(queue[s], Event(p))
        BY <1>0, <1>5
    <2>2. Handed(p, s)
        BY <2>1, <1>5 DEF Handed
    <2>q. QED
        BY <2>2, <1>5 DEF Changed
<1>q. QED
    BY <1>3, <1>4, <1>5

LEMMA StreamStepChange ==
    ASSUME TypeOK, Places, NEW s \in Streams, NEW t \in Streams,
           Subscribe(t) \/ WriteHeaders(t) \/ Get(t) \/ WriteEvent(t) \/ Unsubscribe(t)
    PROVE  Changed(s)
<1>0. /\ queue \in [Streams -> Seq(Events)] /\ holding \in [Streams -> Seq(Events)]
      /\ received \in [Streams -> Seq(Events)]
      /\ stream \in [Streams -> {"off", "headers", "writing", "waiting", "leaving",
                                 "closed", "leaked"}]
      /\ stream[s] # "writing" => holding[s] = << >>
    BY DEF TypeOK, Places
<1>1. targets' = targets /\ serving' = serving /\ count' = count /\ lossy' = lossy
    BY DEF Subscribe, WriteHeaders, Get, WriteEvent, Unsubscribe, publishVars
<1>2. SameTops(s)
    BY <1>1 DEF SameTops, Top, Pending
<1>3. \A p \in Publishers : Top(p, s) <= Top(p, s)'
    BY <1>2, TopsAgree
<1>4. CASE s # t
    <2>1. Keeps(s) /\ stream'[s] = stream[s]
        BY <1>4, <1>0 DEF Keeps, Subscribe, WriteHeaders, Get, WriteEvent, Unsubscribe, At
    <2>2. Gone(s)' <=> Gone(s)
        BY <2>1 DEF Gone
    <2>q. QED
        BY <1>1, <1>2, <1>3, <2>1, <2>2 DEF Changed, Untouched
<1>5. CASE s = t /\ (Subscribe(t) \/ WriteHeaders(t) \/ Unsubscribe(t))
    <2>1. Keeps(s)
        BY <1>5 DEF Keeps, Subscribe, WriteHeaders, Unsubscribe
    <2>2. Gone(s)' <=> Gone(s)
        BY <1>5, <1>0 DEF Gone, Subscribe, WriteHeaders, Unsubscribe, At
    <2>q. QED
        BY <1>1, <1>2, <1>3, <2>1, <2>2 DEF Changed, Untouched
<1>6. CASE s = t /\ Get(t)
    <2>1. CASE queue[s] # << >>
        <3>1. Took(s)
            BY <1>0, <1>2, <1>6, <2>1 DEF Took, Get, At
        <3>q. QED
            BY <3>1, <1>1 DEF Changed
    <2>2. CASE queue[s] = << >>
        <3>1. Quit(s)
            BY <1>0, <1>2, <1>6, <2>2 DEF Quit, Keeps, Get, At
        <3>q. QED
            BY <3>1, <1>1 DEF Changed
    <2>q. QED
        BY <2>1, <2>2
<1>7. CASE s = t /\ WriteEvent(t)
    <2>1. Wrote(s)
        BY <1>0, <1>2, <1>7 DEF Wrote, WriteEvent, At
    <2>q. QED
        BY <2>1, <1>1 DEF Changed
<1>q. QED
    BY <1>4, <1>5, <1>6, <1>7

LEMMA Change ==
    ASSUME TypeOK, Places, [Next]_vars, NEW s \in Streams
    PROVE  Changed(s)
<1>0. queue \in [Streams -> Seq(Events)]
    BY DEF TypeOK
<1>1. CASE UNCHANGED vars
    <2>1. SameTops(s) /\ Keeps(s) /\ (Gone(s)' <=> Gone(s)) /\ lossy' = lossy
        BY <1>1 DEF SameTops, Top, Pending, Keeps, Gone, vars, publishVars, streamVars
    <2>q. QED
        BY <2>1, TopsAgree DEF Changed, Untouched
<1>2. ASSUME NEW p \in Publishers, Publish(p)
      PROVE  Changed(s)
    <2>1. Keeps(s) /\ (Gone(s)' <=> Gone(s)) /\ lossy' = lossy
        BY <1>2 DEF Publish, Keeps, Gone, streamVars
    <2>2. \A q \in Publishers : Top(q, s) <= Top(q, s)'
        BY <1>2, PublishTop
    <2>3. s \in subscribers => SameTops(s)
        BY <1>2, PublishTop DEF SameTops
    <2>4. s \notin subscribers => Seen(s) = {} \/ Gone(s)
        BY DEF Places, Gone, TypeOK
    <2>q. QED
        BY <2>1, <2>2, <2>3, <2>4 DEF Changed, Untouched
<1>3. ASSUME NEW p \in Publishers, NEW t \in Streams, Put(p, t)
      PROVE  Changed(s)
    <2>1. stream' = stream /\ holding' = holding /\ received' = received /\ lossy' = lossy
        BY <1>3 DEF Put, streamVars
    <2>2. Event(p) \in Events
        BY <1>3, EventType DEF Put, Publishing
    <2>3. CASE Full(t)
        <3>1. \A q \in Publishers : Pending(q, s)' <=> Pending(q, s)
            BY <1>3, <2>3, PutPending
        <3>2. count' = count /\ queue' = queue
            BY <1>3, <2>3 DEF Put
        <3>3. SameTops(s)
            BY <3>1, <3>2, IdleTop DEF SameTops
        <3>4. Keeps(s) /\ (Gone(s)' <=> Gone(s))
            BY <2>1, <3>2 DEF Keeps, Gone
        <3>q. QED
            BY <2>1, <3>3, <3>4, TopsAgree DEF Changed, Untouched
    <2>4. CASE ~Full(t)
        <3>1. Served(p, t)
            BY <1>3, <2>4, PutPending
        <3>2. queue' = [queue EXCEPT ![t] = Append(@, Event(p))]
            BY <1>3, <2>4 DEF Put
        <3>q. QED
            BY <2>1, <2>2, <3>1, <3>2, ServedChange
    <2>q. QED
        BY <2>3, <2>4
<1>4. ASSUME NEW p \in Publishers, MakeRoom(p)
      PROVE  Changed(s)
    <2>1. /\ UNCHANGED <<targets, serving, count, stream, holding, received>>
          /\ lossy \subseteq lossy'
        BY <1>4 DEF MakeRoom, streamVars
    <2>2. SameTops(s) /\ (Gone(s)' <=> Gone(s))
        BY <2>1 DEF SameTops, Top, Pending, Gone
    <2>3. CASE queue'[s] = queue[s]
        BY <2>1, <2>2, <2>3, TopsAgree DEF Changed, Untouched, Keeps
    <2>4. CASE queue'[s] # queue[s]
        <3>1. queue[s] # << >> /\ queue'[s] = Tail(queue[s]) /\ s \in lossy'
            BY <1>0, <1>4, <2>4 DEF MakeRoom
        <3>q. QED
            BY <2>1, <2>2, <3>1 DEF Changed, Robbed
    <2>q. QED
        BY <2>3, <2>4
<1>5. ASSUME NEW p \in Publishers, PutAgain(p)
      PROVE  Changed(s)
    <2>1. PICK t \in Streams : serving[p] = t
        BY <1>5 DEF PutAgain, TypeOK
    <2>2. stream' = stream /\ holding' = holding /\ received' = received
        BY <1>5 DEF PutAgain, streamVars
    <2>3. Event(p) \in Events
        BY <1>5, EventType DEF PutAgain, Publishing
    <2>4. Served(p, t)
        BY <1>5, <2>1, PutAgainPending
    <2>5. \/ queue' = queue /\ lossy' = lossy \cup {t}
          \/ queue' = [queue EXCEPT ![t] = Append(@, Event(p))] /\ lossy' = lossy
        BY <1>5, <2>1 DEF PutAgain
    <2>q. QED
        BY <2>2, <2>3, <2>4, <2>5, ServedChange
<1>q. QED
    BY <1>1, <1>2, <1>3, <1>4, <1>5, StreamStepChange DEF Next, PublishStep, StreamStep

LEMMA OrderStep ==
    ASSUME TypeOK, TypeOK', Places, Order, [Next]_vars
    PROVE  Order'
<1>1. SUFFICES ASSUME NEW s \in Streams PROVE Ordered(s)'
    BY DEF Order
<1>2. Ordered(s) /\ Changed(s)
    BY Change DEF Order
<1>3. CASE Untouched(s)
    BY <1>2, <1>3, OrderedStays DEF Untouched, Keeps
<1>4. CASE Robbed(s)
    BY <1>2, <1>4, OrderedRoom DEF Robbed, SameTops
<1>5. CASE Took(s)
    BY <1>2, <1>5, OrderedTaken DEF Took, SameTops
<1>6. CASE Quit(s)
    BY <1>2, <1>6, OrderedStays, TopsAgree DEF Quit, Keeps
<1>7. CASE Wrote(s)
    <2>1. received'[s] = received[s] \/ received'[s] = received[s] \o holding[s]
        BY <1>7 DEF Wrote
    <2>q. QED
        BY <2>1, <1>2, <1>7, OrderedWritten DEF Wrote, SameTops
<1>8. ASSUME NEW p \in Publishers, Handed(p, s)
      PROVE  Ordered(s)'
    BY <1>2, <1>8, OrderedServed DEF Handed
<1>q. QED
    BY <1>2, <1>3, <1>4, <1>5, <1>6, <1>7, <1>8 DEF Changed

-----------------------------------------------------------------------------
\* No event is missing.

\* What a stream has got from a publisher, it has got from the first to the last.
Convex(A) == \A e, f \in A : e.by = f.by => \A n \in e.nr..f.nr : [by |-> e.by, nr |-> n] \in A

LEMMA GotAll ==
    ASSUME TypeOK, NEW s \in Streams, Ordered(s), Whole(s), ~Gone(s)
    PROVE  Convex(Among(received[s]))
<1>1. SUFFICES ASSUME NEW e \in Among(received[s]), NEW f \in Among(received[s]),
                      e.by = f.by, NEW n \in e.nr..f.nr
               PROVE  [by |-> e.by, nr |-> n] \in Among(received[s])
    BY DEF Convex
<1>2. e \in Seen(s) /\ f \in Seen(s) /\ e \in Events /\ f \in Events
    BY ContentsType DEF Seen
<1>3. e.nr \in Nat /\ f.nr \in Nat /\ f.by \in Publishers
    BY <1>2, EventFields
<1>4. f.nr <= Top(f.by, s) /\ Top(f.by, s) \in Int
    BY <1>2, <1>3, TopType DEF Ordered
<1>5. n \in e.nr..Top(e.by, s)
    BY <1>1, <1>3, <1>4
<1>6. [by |-> e.by, nr |-> n] \in Seen(s)
    BY <1>2, <1>5 DEF Whole
<1>7. ASSUME [by |-> e.by, nr |-> n] \in Among(holding[s]) \cup Among(queue[s])
      PROVE  FALSE
    <2>1. f.nr < n
        BY <1>1, <1>7 DEF Ordered, Before
    <2>q. QED
        BY <2>1, <1>1, <1>3
<1>q. QED
    BY <1>6, <1>7 DEF Seen

LEMMA WholeIf ==
    ASSUME NEW s \in Streams, Gone(s)', Convex(Among(received'[s]))
    PROVE  Whole(s)'
BY DEF Whole, Convex

LEMMA WholeStays ==
    ASSUME TypeOK, NEW s \in Streams, Whole(s), ~Gone(s), ~Gone(s)', Seen(s)' = Seen(s),
           SameTops(s) \/ Seen(s) = {}
    PROVE  Whole(s)'
<1>1. SUFFICES ASSUME NEW e \in Seen(s), NEW n \in e.nr..Top(e.by, s)'
               PROVE  [by |-> e.by, nr |-> n] \in Seen(s)
    BY DEF Whole
<1>2. e.by \in Publishers
    BY ContentsType, EventFields
<1>3. Top(e.by, s)' = Top(e.by, s)
    BY <1>1, <1>2 DEF SameTops
<1>q. QED
    BY <1>1, <1>3 DEF Whole

LEMMA WholeServed ==
    ASSUME TypeOK, NEW p \in Publishers, NEW s \in Streams, Handed(p, s), Whole(s), ~Gone(s)
    PROVE  Whole(s)'
<1>0. ~Gone(s)' /\ count \in [Publishers -> Nat]
    BY BrokerAssumption DEF Gone, Handed, TypeOK
<1>1. Among(queue'[s]) = Among(queue[s]) \cup {Event(p)}
    BY ContentsType, AmongAppend DEF Handed
<1>2. Seen(s)' = Seen(s) \cup {Event(p)}
    BY <1>1 DEF Seen, Handed
<1>3. /\ Top(p, s) = count[p] - 1 /\ Top(p, s)' = count[p]
      /\ \A q \in Publishers : q # p => Top(q, s)' = Top(q, s)
    BY ServedTop DEF Handed
<1>4. Event(p) = [by |-> p, nr |-> count[p]]
    BY DEF Event
<1>5. SUFFICES ASSUME NEW e \in Seen(s)', NEW n \in e.nr..Top(e.by, s)'
               PROVE  [by |-> e.by, nr |-> n] \in Seen(s)'
    BY <1>0 DEF Whole
<1>6. e.by \in Publishers /\ e.nr \in Nat
    BY <1>2, ContentsType, EventFields DEF Handed
<1>7. CASE e.by = p /\ n = count[p]
    BY <1>2, <1>4, <1>7
<1>8. CASE e.by = p /\ n # count[p]
    <2>1. e.nr <= count[p] - 1
        BY <1>0, <1>3, <1>5, <1>6, <1>8
    <2>2. e \in Seen(s)
        <3>1. e # Event(p)
            BY <2>1, <1>0, <1>4
        <3>q. QED
            BY <3>1, <1>2
    <2>3. n \in e.nr..Top(p, s)
        BY <1>0, <1>3, <1>5, <1>6, <1>8
    <2>q. QED
        BY <2>2, <2>3, <1>0, <1>2, <1>8 DEF Whole
<1>9. CASE e.by # p
    <2>1. e \in Seen(s)
        BY <1>2, <1>4, <1>9
    <2>q. QED
        BY <2>1, <1>2, <1>3, <1>5, <1>6, <1>9 DEF Whole
<1>q. QED
    BY <1>7, <1>8, <1>9

LEMMA NoGapStep ==
    ASSUME TypeOK, TypeOK', Places, Order, NoGap, [Next]_vars
    PROVE  NoGap'
<1>1. SUFFICES ASSUME NEW s \in Streams, s \notin lossy' PROVE Whole(s)'
    BY DEF NoGap
<1>2. Changed(s) /\ Ordered(s)
    BY Change DEF Order
<1>3. s \notin lossy /\ Whole(s)
    BY <1>1, <1>2 DEF NoGap, Changed
<1>4. Gone(s) => Convex(Among(received[s]))
    BY <1>3 DEF Whole, Convex
<1>5. Convex(Among(received[s]))
    BY <1>2, <1>3, <1>4, GotAll
<1>6. ASSUME Gone(s)', received'[s] = received[s]
      PROVE  Whole(s)'
    BY <1>5, <1>6, WholeIf
<1>7. CASE Untouched(s)
    <2>1. CASE Gone(s)'
        BY <2>1, <1>6, <1>7 DEF Untouched, Keeps
    <2>2. CASE ~Gone(s)'
        <3>1. Seen(s)' = Seen(s)
            BY <1>7 DEF Untouched, Keeps, Seen
        <3>q. QED
            BY <3>1, <2>2, <1>1, <1>3, <1>7, WholeStays DEF Untouched
    <2>q. QED
        BY <2>1, <2>2
<1>8. CASE Took(s)
    <2>1. Seen(s)' = Seen(s)
        BY <1>2, <1>8, OrderedTaken DEF Took, SameTops
    <2>2. ~Gone(s) /\ ~Gone(s)'
        BY <1>8 DEF Took, Gone
    <2>q. QED
        BY <2>1, <2>2, <1>3, <1>8, WholeStays DEF Took
<1>9. CASE Quit(s)
    BY <1>6, <1>9 DEF Quit, Keeps, Gone
<1>10. CASE Wrote(s)
    <2>1. CASE stream'[s] = "waiting" /\ received'[s] = received[s] \o holding[s]
        <3>1. Seen(s)' = Seen(s)
            BY <2>1, <1>2, <1>10, OrderedWritten DEF Wrote, SameTops
        <3>2. ~Gone(s) /\ ~Gone(s)'
            BY <2>1, <1>10 DEF Wrote, Gone
        <3>q. QED
            BY <3>1, <3>2, <1>3, <1>10, WholeStays DEF Wrote
    <2>2. CASE stream'[s] = "leaving" /\ received'[s] = received[s]
        BY <2>2, <1>6 DEF Gone
    <2>q. QED
        BY <2>1, <2>2, <1>10 DEF Wrote
<1>11. ASSUME NEW p \in Publishers, Handed(p, s)
       PROVE  Whole(s)'
    <2>1. CASE Gone(s)
        BY <2>1, <1>6, <1>11 DEF Handed, Gone
    <2>2. CASE ~Gone(s)
        BY <2>2, <1>3, <1>11, WholeServed
    <2>q. QED
        BY <2>1, <2>2
<1>q. QED
    BY <1>1, <1>2, <1>7, <1>8, <1>9, <1>10, <1>11 DEF Changed, Robbed

-----------------------------------------------------------------------------
\* The invariant.

LEMMA InitInv ==
    ASSUME Init
    PROVE  IInv
<1>0. \A s \in Streams : /\ queue[s] = << >> /\ holding[s] = << >> /\ received[s] = << >>
                         /\ stream[s] = "off" /\ Seen(s) = {}
    BY AmongNone DEF Init, Seen
<1>1. TypeOK
    <2>1. << >> \in Seq(Events) /\ Len(<< >>) = 0
        BY EmptySeq
    <2>2. /\ queue \in [Streams -> Seq(Events)] /\ \A s \in Streams : Len(queue[s]) <= QueueSize
          /\ holding \in [Streams -> Seq(Events)] /\ \A s \in Streams : Len(holding[s]) <= 1
          /\ received \in [Streams -> Seq(Events)]
        BY <2>1, BrokerAssumption DEF Init
    <2>3. /\ count \in [Publishers -> 0..MaxEvents] /\ serving \in [Publishers -> Streams \cup {Nobody}]
          /\ targets \in [Publishers -> SUBSET Streams] /\ room \in [Publishers -> BOOLEAN]
        BY BrokerAssumption DEF Init
    <2>q. QED
        BY <2>2, <2>3 DEF Init, TypeOK
<1>2. \A p \in Publishers : ~Publishing(p) /\ serving[p] = Nobody /\ targets[p] = {}
    BY DEF Init, Publishing
<1>3. Places
    BY <1>0, <1>2, NotNobody DEF Places, Init, Pending
<1>4. Order
    <2>1. Sorted(<< >>)
        BY DEF Sorted
    <2>q. QED
        BY <2>1, <1>0, AmongNone DEF Order, Ordered, Before
<1>5. NoGap
    BY <1>0, AmongNone DEF NoGap, Whole, Gone
<1>6. Room
    BY <1>2 DEF Room, Init
<1>q. QED
    BY <1>1, <1>3, <1>4, <1>5, <1>6 DEF IInv

LEMMA StepInv ==
    ASSUME IInv, [Next]_vars
    PROVE  IInv'
BY TypeStep, PlacesStep, OrderStep, NoGapStep, RoomStep DEF IInv

\* IInv holds of every state the broker can reach.
THEOREM Invariant == Spec => []IInv
BY InitInv, StepInv, PTL DEF Spec

\* Every variable has its type, and no queue is longer than QueueSize.
THEOREM TypeCorrect == Spec => []TypeOK
<1>1. IInv => TypeOK
    BY DEF IInv
<1>q. QED
    BY <1>1, Invariant, PTL

LEMMA StoryFacts ==
    ASSUME IInv, NEW s \in Streams
    PROVE  /\ Story(s) \in Seq(Events) /\ Sorted(Story(s))
           /\ Among(Story(s)) = IF Gone(s) THEN Among(received[s]) ELSE Seen(s)
<1>0. /\ received[s] \in Seq(Events) /\ holding[s] \in Seq(Events) /\ queue[s] \in Seq(Events)
      /\ Len(holding[s]) <= 1 /\ Ordered(s)
    BY ContentsType DEF IInv, TypeOK, Order
<1>1. CASE Gone(s)
    <2>1. Story(s) = received[s]
        BY <1>0, <1>1, ConcatEmptySeq DEF Story, Gone
    <2>q. QED
        BY <2>1, <1>0, <1>1 DEF Ordered
<1>2. CASE ~Gone(s)
    <2>1. Story(s) = received[s] \o (holding[s] \o queue[s])
        BY <1>2 DEF Story, Gone
    <2>2. /\ holding[s] \o queue[s] \in Seq(Events)
          /\ Among(holding[s] \o queue[s]) = Among(holding[s]) \cup Among(queue[s])
        BY <1>0, ConcatProperties, AmongConcat
    <2>3. Sorted(holding[s] \o queue[s])
        BY <1>0, SortedShort, SortedConcat DEF Ordered
    <2>4. Before(Among(received[s]), Among(holding[s] \o queue[s]))
        BY <2>2, <1>0 DEF Ordered, Before
    <2>5. Sorted(Story(s)) /\ Story(s) \in Seq(Events)
        BY <2>1, <2>2, <2>3, <2>4, <1>0, SortedConcat, ConcatProperties DEF Ordered
    <2>6. Among(Story(s)) = Seen(s)
        <3> DEFINE rest == holding[s] \o queue[s]
        <3>1. rest \in Seq(Events) /\ Among(rest) = Among(holding[s]) \cup Among(queue[s])
            BY <2>2
        <3>2. Story(s) = received[s] \o rest
            BY <2>1
        <3> HIDE DEF rest
        <3>3. Among(received[s] \o rest) = Among(received[s]) \cup Among(rest)
            BY <3>1, <1>0, AmongConcat
        <3>q. QED
            BY <3>1, <3>2, <3>3 DEF Seen
    <2>q. QED
        BY <2>5, <2>6, <1>2
<1>q. QED
    BY <1>1, <1>2

\* No client sees two events of a publisher in the wrong order, or one twice.
THEOREM OrderTheorem == Spec => []OrderIsKept
<1>1. ASSUME IInv
      PROVE  OrderIsKept
    <2>1. SUFFICES ASSUME NEW s \in Streams,
                          NEW i \in DOMAIN Story(s), NEW j \in DOMAIN Story(s),
                          i < j, Story(s)[i].by = Story(s)[j].by
                   PROVE  Story(s)[i].nr < Story(s)[j].nr
        BY DEF OrderIsKept
    <2>2. DOMAIN Story(s) = 1..Len(Story(s)) /\ Sorted(Story(s))
        BY <1>1, StoryFacts, LenProperties
    <2>q. QED
        BY <2>1, <2>2 DEF Sorted
<1>q. QED
    BY <1>1, Invariant, PTL

\* A client that has seen an event of a publisher misses none that follows,
\* unless its queue was full.
THEOREM NoGapTheorem == Spec => []NoGapUnlessFull
<1>1. ASSUME IInv
      PROVE  NoGapUnlessFull
    <2>1. SUFFICES ASSUME NEW s \in Streams, s \notin lossy,
                          NEW i \in DOMAIN Story(s), NEW j \in DOMAIN Story(s),
                          i < j, Story(s)[i].by = Story(s)[j].by,
                          \A k \in (i + 1)..(j - 1) : Story(s)[k].by # Story(s)[i].by
                   PROVE  Story(s)[j].nr = Story(s)[i].nr + 1
        BY DEF NoGapUnlessFull
    <2> DEFINE story == Story(s)
               e == story[i]
               f == story[j]
    <2>2. /\ DOMAIN story = 1..Len(story) /\ Len(story) \in Nat
          /\ story \in Seq(Events) /\ Sorted(story)
        BY <1>1, StoryFacts, LenProperties
    <2>3. e \in Among(story) /\ f \in Among(story) /\ e \in Events /\ f \in Events
        BY <2>1, <2>2, ElementOfSeq DEF Among
    <2>4. /\ e.nr \in Nat /\ f.nr \in Nat /\ e.nr < f.nr /\ e.by = f.by
          /\ e.by \in Publishers
        BY <2>1, <2>2, <2>3, EventFields DEF Sorted
    <2>5. SUFFICES ASSUME e.nr + 1 # f.nr PROVE FALSE
        BY <2>4
    <2>6. e.nr + 1 \in e.nr..f.nr /\ e.nr + 1 < f.nr
        BY <2>4, <2>5
    <2>7. Whole(s) /\ Ordered(s) /\ TypeOK
        BY <1>1, <2>1 DEF IInv, NoGap, Order
    <2>8. [by |-> e.by, nr |-> e.nr + 1] \in Among(story)
        <3>1. CASE Gone(s)
            BY <3>1, <1>1, <2>3, <2>4, <2>6, <2>7, StoryFacts DEF Whole
        <3>2. CASE ~Gone(s)
            <4>1. e \in Seen(s) /\ f \in Seen(s)
                BY <3>2, <1>1, <2>3, StoryFacts
            <4>2. f.nr <= Top(e.by, s) /\ Top(e.by, s) \in Int
                BY <4>1, <2>4, <2>7, TopType DEF Ordered
            <4>3. e.nr + 1 \in e.nr..Top(e.by, s)
                BY <4>2, <2>4, <2>6
            <4>q. QED
                BY <4>1, <4>3, <3>2, <1>1, <2>7, StoryFacts DEF Whole
        <3>q. QED
            BY <3>1, <3>2
    <2>9. PICK k \in 1..Len(story) : story[k] = [by |-> e.by, nr |-> e.nr + 1]
        BY <2>8 DEF Among
    <2>10. story[k].by = e.by /\ story[k].nr = e.nr + 1
        BY <2>9
    <2>11. i < k
        <3>1. SUFFICES ASSUME k <= i PROVE FALSE
            BY <2>1, <2>2
        <3>2. k # i
            BY <2>10, <2>4
        <3>3. k < i
            BY <3>1, <3>2, <2>1, <2>2
        <3>4. story[k].nr < e.nr
            BY <3>3, <2>1, <2>2, <2>10 DEF Sorted
        <3>q. QED
            BY <3>4, <2>4, <2>10
    <2>12. k < j
        <3>1. SUFFICES ASSUME j <= k PROVE FALSE
            BY <2>1, <2>2
        <3>2. k # j
            BY <2>10, <2>5
        <3>3. j < k
            BY <3>1, <3>2, <2>1, <2>2
        <3>4. f.nr < story[k].nr
            BY <3>3, <2>1, <2>2, <2>4, <2>10 DEF Sorted
        <3>q. QED
            BY <3>4, <2>4, <2>6, <2>10
    <2>13. k \in (i + 1)..(j - 1)
        BY <2>1, <2>2, <2>11, <2>12
    <2>q. QED
        BY <2>1, <2>10, <2>13
<1>q. QED
    BY <1>1, Invariant, PTL

\* When a publisher that is alone has served a stream, its event is the last in
\* the queue, however full that was.
THEOREM NewestTheorem == Spec => NewestSurvives
<1>1. ASSUME IInv, [Next]_vars, NEW p \in Publishers, NEW s \in Streams,
             s \in targets[p] \/ serving[p] = s,
             s \notin targets'[p] /\ serving'[p] # s,
             ~clashed
      PROVE  queue'[s] # << >> /\ Last(queue'[s]) = Event(p)
    <2>0. Pending(p, s) /\ ~Pending(p, s)' /\ TypeOK /\ Places /\ Room
        BY <1>1 DEF Pending, IInv
    <2>1. queue \in [Streams -> Seq(Events)]
        BY <2>0 DEF TypeOK
    <2>2. ASSUME Event(p) \in Events, queue' = [queue EXCEPT ![s] = Append(@, Event(p))]
          PROVE  queue'[s] # << >> /\ Last(queue'[s]) = Event(p)
        <3>1. queue'[s] = Append(queue[s], Event(p)) /\ queue[s] \in Seq(Events)
            BY <2>1, <2>2
        <3>2. /\ Append(queue[s], Event(p)) # << >>
              /\ Len(Append(queue[s], Event(p))) = Len(queue[s]) + 1
              /\ Append(queue[s], Event(p))[Len(queue[s]) + 1] = Event(p)
            BY <3>1, <2>2, AppendProperties
        <3>q. QED
            BY <3>1, <3>2 DEF Last
    <2>3. ASSUME NEW q \in Publishers, NEW t \in Streams, Served(q, t)
          PROVE  q = p /\ t = s
        BY <2>3, <2>0 DEF Served
    <2>4. ASSUME \A q \in Publishers : Pending(q, s)' <=> Pending(q, s)
          PROVE  FALSE
        BY <2>4, <2>0
    <2>5. ASSUME NEW q \in Publishers, Publish(q)
          PROVE  FALSE
        BY <2>5, <2>0, PublishPending
    <2>6. ASSUME NEW q \in Publishers, NEW t \in Streams, Put(q, t)
          PROVE  queue'[s] # << >> /\ Last(queue'[s]) = Event(p)
        <3>1. ~Full(t)
            BY <2>4, <2>6, <2>0, PutPending
        <3>2. q = p /\ t = s
            BY <3>1, <2>0, <2>3, <2>6, PutPending
        <3>3. Event(p) \in Events
            BY <3>2, <2>0, <2>6, EventType DEF Put, Publishing
        <3>4. queue' = [queue EXCEPT ![s] = Append(@, Event(p))]
            BY <3>1, <3>2, <2>6 DEF Put
        <3>q. QED
            BY <3>3, <3>4, <2>2
    <2>7. ASSUME NEW q \in Publishers, PutAgain(q)
          PROVE  queue'[s] # << >> /\ Last(queue'[s]) = Event(p)
        <3>1. PICK t \in Streams : serving[q] = t
            BY <2>7, <2>0 DEF PutAgain, TypeOK
        <3>2. q = p /\ t = s
            BY <3>1, <2>0, <2>3, <2>7, PutAgainPending
        <3>3. Event(p) \in Events
            BY <3>2, <2>0, <2>7, EventType DEF PutAgain, Publishing
        <3>4. ~Full(s)
            BY <3>1, <3>2, <2>0, <2>7, <1>1 DEF Room, PutAgain
        <3>5. queue' = [queue EXCEPT ![s] = Append(@, Event(p))]
            BY <3>1, <3>2, <3>4, <2>7 DEF PutAgain
        <3>q. QED
            BY <3>3, <3>5, <2>2
    <2>8. ASSUME targets' = targets /\ serving' = serving
          PROVE  FALSE
        BY <2>8, <2>0 DEF Pending
    <2>9. \/ targets' = targets /\ serving' = serving
          \/ (\E q \in Publishers : Publish(q) \/ PutAgain(q) \/ \E t \in Streams : Put(q, t))
        BY <1>1 DEF Next, PublishStep, StreamStep, vars, publishVars, MakeRoom, Subscribe,
                    WriteHeaders, Get, WriteEvent, Unsubscribe
    <2>q. QED
        BY <2>5, <2>6, <2>7, <2>8, <2>9
<1>2. IInv /\ [Next]_vars =>
          [\A p \in Publishers, s \in Streams :
              /\ s \in targets[p] \/ serving[p] = s
              /\ s \notin targets'[p] /\ serving'[p] # s
              /\ ~clashed
              => queue'[s] # << >> /\ Last(queue'[s]) = Event(p)]_vars
    BY <1>1
<1>q. QED
    BY <1>2, Invariant, PTL DEF Spec, NewestSurvives

=============================================================================
