-------------------------- MODULE TunnelEngineProofs --------------------------
(***************************************************************************)
(* For any set of clients and any limit: the registry of sessions is       *)
(* exact, no ssh process is out of reach, the limit holds while clients    *)
(* are let in one at a time, and the engine keeps the contract of each     *)
(* session.                                                                *)
(***************************************************************************)
EXTENDS TunnelEngine, FiniteSetTheorems, TLAPS

\* Where the handler of a client without ssh process, of a session that is
\* listed, and of one that ever was, can be.
Waiting == {"away", "accepted", "rejected", "allowed", "admitted"}
Listed == {"registered", "announced", "running", "ended", "unannounced", "crashed"}
Known == Listed \cup {"unregistered", "gone", "unheard"}

\* Session ids are drawn once.
Ids ==
    /\ \A c \in Clients : handler[c] \in Known \cup {"numbered"} => sid[c] # 0
    /\ \A c \in Clients : sid[c] < nextId
    /\ \A c, d \in Clients : sid[c] = sid[d] /\ sid[c] # 0 => c = d

\* The registry holds the listed sessions under their ids, and nothing else.
Registry ==
    /\ \A c \in Clients :
        handler[c] \in Listed => sid[c] \in DOMAIN sessions /\ sessions[sid[c]] = c
    /\ \A i \in DOMAIN sessions :
        sessions[i] \in Clients /\ sid[sessions[i]] = i /\ handler[sessions[i]] \in Listed

\* A process lives from its start to the stop of its session; only a session
\* that was listed is ever stopped.
Processes ==
    \A c \in Clients :
        /\ handler[c] \in Waiting => ssh[c] = "none"
        /\ ssh[c] = "alive" => handler[c] \in {"spawned", "numbered", "registered",
                                               "announced", "running", "unannounced"}
        /\ reason[c] # NoReason => ssh[c] = "dead" /\ handler[c] \in Known
        /\ c \in toStop \/ c = target => handler[c] \in Known

\* One client at a time is let in, and only if there is room for it.
Room ==
    ~crowded =>
        /\ \A c, d \in Admitted : c = d
        /\ MaxClients > 0 =>
            /\ Cardinality(DOMAIN sessions) <= MaxClients
            /\ Admitted # {} => Cardinality(DOMAIN sessions) < MaxClients

IInv == TypeOK /\ Ids /\ Registry /\ Processes /\ Room

\* The steps that leave the sessions and their handlers alone.
QuietStep ==
    \/ StartFails \/ StartListener \/ RegisterListener \/ TakeSessions
    \/ StopListener \/ CloseListener \/ AcceptCheck \/ AcceptNobody
    \/ \E i \in DOMAIN sessions : FindSession(i)
    \/ UNCHANGED vars

\* The steps that stop a session, whoever takes them.
StopStep == (\E c \in Clients : StopSession(c) \/ EndByItself(c)) \/ StopTarget

LEMMA StepKinds ==
    ASSUME [Next]_vars
    PROVE  QuietStep \/ StopStep \/ \E c \in Clients : Accept(c) \/ HandlerStep(c)
  BY DEF Next, MainStep, QuietStep, StopStep

LEMMA QuietFacts ==
    ASSUME QuietStep
    PROVE  /\ UNCHANGED <<handler, sid, nextId, sessions, reason, ssh, crowded>>
           /\ toStop' \in {toStop, Registered}
           /\ target' = target \/ target' \in Registered
  BY DEF QuietStep, StartFails, StartListener, RegisterListener, TakeSessions, StopListener,
     CloseListener, AcceptCheck, AcceptNobody, FindSession, vars, sessionVars, listenerVars,
     Registered, Range

LEMMA StopFacts ==
    ASSUME TypeOK, StopStep
    PROVE  /\ UNCHANGED <<handler, sid, nextId, sessions, crowded>>
           /\ toStop' \subseteq toStop /\ target' \in {target, Nobody}
           /\ \E c \in Clients, r \in {"own", "service_shutdown", "admin_disconnect"} :
                /\ RequestStop(c, r)
                /\ c \in toStop \/ c = target \/ handler[c] = "running"
  BY DEF StopStep, StopSession, EndByItself, StopTarget, TypeOK, sessionVars, listenerVars

-----------------------------------------------------------------------------
\* Type correctness.

LEMMA TypeInit ==
    ASSUME Init
    PROVE  TypeOK
  <1>1. DOMAIN sessions = {} /\ Registered = {}
    BY DEF Init, Registered, Range
  <1>2. stopFlag \in BOOLEAN /\ crowded \in BOOLEAN
    BY DEF Init
  <1>3. /\ handler \in [Clients -> {"away"}] /\ sid \in [Clients -> Nat]
        /\ reason \in [Clients -> {NoReason}] /\ ssh \in [Clients -> {"none"}]
    BY DEF Init
  <1>4. nextId \in Nat \ {0} /\ target = Nobody /\ toStop = {}
    BY DEF Init
  <1>5. main = "start" /\ accepting = "off" /\ socket = "closed"
    BY DEF Init
  <1> QED
    BY <1>1, <1>2, <1>3, <1>4, <1>5 DEF TypeOK

LEMMA TypeHandler ==
    ASSUME TypeOK, Ids, NEW c \in Clients, Accept(c) \/ HandlerStep(c)
    PROVE  TypeOK'
  <1> USE DEF TypeOK, Step, listenerVars, sessionVars, Dead, Registered, Range
  <1>1. CASE Accept(c)
    BY <1>1 DEF Accept
  <1>2. CASE CheckAddress(c)
    BY <1>2 DEF CheckAddress
  <1>3. CASE CheckMaxClients(c)
    BY <1>3 DEF CheckMaxClients
  <1>4. CASE SpawnSsh(c)
    BY <1>4 DEF SpawnSsh
  <1>5. CASE CreateRecord(c)
    BY <1>5 DEF CreateRecord
  <1>6. CASE Register(c)
    <2>1. /\ DOMAIN sessions' = DOMAIN sessions \cup {sid[c]}
          /\ \A i \in DOMAIN sessions' : sessions'[i] = IF i = sid[c] THEN c ELSE sessions[i]
      BY <1>6 DEF Register
    <2>2. sid[c] \in 1..(nextId - 1)
      BY <1>6 DEF Register, Ids
    <2> QED
      BY <1>6, <2>1, <2>2 DEF Register
  <1>7. CASE Announce(c)
    BY <1>7 DEF Announce
  <1>8. CASE RunSession(c)
    BY <1>8 DEF RunSession
  <1>9. CASE RunReturns(c)
    BY <1>9 DEF RunReturns
  <1>10. CASE Unregister(c)
    BY <1>10 DEF Unregister
  <1>11. CASE Close(c)
    BY <1>11 DEF Close
  <1> QED
    BY <1>1, <1>2, <1>3, <1>4, <1>5, <1>6, <1>7, <1>8, <1>9, <1>10, <1>11 DEF HandlerStep

LEMMA TypeStep ==
    ASSUME TypeOK, Ids, [Next]_vars
    PROVE  TypeOK'
  <1>1. CASE QuietStep
    <2>1. /\ main' \in {"start", "listening", "serving", "stopping", "closing", "down", "failed"}
          /\ accepting' \in {"off", "check", "accept", "over"}
          /\ stopFlag' \in BOOLEAN
          /\ socket' \in {"open", "closed"}
      BY <1>1 DEF TypeOK, QuietStep, StartFails, StartListener, RegisterListener, TakeSessions,
         StopListener, CloseListener, AcceptCheck, AcceptNobody, FindSession, vars, listenerVars
    <2> QED
      BY <1>1, <2>1, QuietFacts DEF TypeOK, Registered
  <1>2. CASE StopStep
    <2>1. UNCHANGED <<main, accepting, stopFlag, socket>>
      BY <1>2 DEF StopStep, StopSession, EndByItself, StopTarget, listenerVars
    <2>2. PICK c \in Clients, r \in {"own", "service_shutdown", "admin_disconnect"} :
                RequestStop(c, r)
      BY <1>2, StopFacts
    <2>3. reason' \in [Clients -> {NoReason, "own", "service_shutdown", "admin_disconnect"}]
          /\ ssh' \in [Clients -> {"none", "alive", "dead"}]
      BY <2>2 DEF RequestStop, TypeOK
    <2> QED
      BY <1>2, <2>1, <2>3, StopFacts DEF TypeOK, Registered
  <1> QED
    BY <1>1, <1>2, StepKinds, TypeHandler

-----------------------------------------------------------------------------
\* The registry and the processes.

LEMMA InitSafe ==
    ASSUME Init
    PROVE  Ids /\ Registry /\ Processes
  <1>1. DOMAIN sessions = {}
    BY DEF Init
  <1>2. /\ target = Nobody /\ toStop = {} /\ nextId = 1
        /\ \A c \in Clients : /\ handler[c] = "away" /\ sid[c] = 0
                             /\ reason[c] = NoReason /\ ssh[c] = "none"
    BY DEF Init
  <1>3. "away" \notin Known \cup {"numbered"} /\ "away" \notin Listed /\ "away" \in Waiting
    BY DEF Known, Listed, Waiting
  <1>4. Ids
    BY <1>2, <1>3 DEF Ids
  <1>5. Registry
    BY <1>1, <1>2, <1>3 DEF Registry
  <1>6. Processes
    BY <1>2, <1>3, EngineAssumption DEF Processes
  <1> QED
    BY <1>4, <1>5, <1>6

LEMMA QuietSafe ==
    ASSUME IInv, QuietStep
    PROVE  (Ids /\ Registry /\ Processes)'
  <1>1. \A c \in Registered : handler[c] \in Known
    BY DEF IInv, Registry, Registered, Range, Known
  <1>2. Ids' /\ Registry'
    BY QuietFacts DEF IInv, Ids, Registry
  <1>3. Processes'
    BY <1>1, QuietFacts DEF IInv, Processes
  <1> QED
    BY <1>2, <1>3

LEMMA StopSafe ==
    ASSUME IInv, StopStep
    PROVE  (Ids /\ Registry /\ Processes)'
  <1> USE DEF IInv, TypeOK
  <1>1. Ids' /\ Registry'
    BY StopFacts DEF Ids, Registry
  <1>2. PICK c \in Clients, r \in {"own", "service_shutdown", "admin_disconnect"} :
            RequestStop(c, r) /\ (c \in toStop \/ c = target \/ handler[c] = "running")
    BY StopFacts
  <1>3. handler[c] \in Known
    BY <1>2 DEF Processes, Known, Listed
  <1>4. /\ \A d \in Clients : d # c => reason'[d] = reason[d] /\ ssh'[d] = ssh[d]
        /\ ssh'[c] = "dead"
    BY <1>2 DEF RequestStop
  <1>5. handler' = handler /\ toStop' \subseteq toStop /\ target' \in {target, Nobody}
    BY StopFacts
  <1>6. ASSUME NEW d \in Clients
        PROVE  /\ handler'[d] \in Waiting => ssh'[d] = "none"
               /\ ssh'[d] = "alive" => handler'[d] \in {"spawned", "numbered", "registered",
                                               "announced", "running", "unannounced"}
               /\ reason'[d] # NoReason => ssh'[d] = "dead" /\ handler'[d] \in Known
               /\ d \in toStop' \/ d = target' => handler'[d] \in Known
    <2>1. CASE d = c
      BY <1>3, <1>4, <1>5, <2>1 DEF Known, Listed, Waiting
    <2>2. CASE d # c
      BY <1>4, <1>5, <2>2, EngineAssumption DEF Processes
    <2> QED
      BY <2>1, <2>2
  <1>7. Processes'
    BY <1>6 DEF Processes
  <1> QED
    BY <1>1, <1>7

\* What a step of a handler does to the rest.
LEMMA HandlerFacts ==
    ASSUME TypeOK, NEW c \in Clients, Accept(c) \/ HandlerStep(c)
    PROVE  /\ \A d \in Clients \ {c} : /\ handler'[d] = handler[d] /\ sid'[d] = sid[d]
                                     /\ ssh'[d] = ssh[d]
           /\ UNCHANGED <<reason, toStop, target>>
  <1> USE DEF TypeOK, Step, listenerVars, sessionVars
  <1>1. CASE Accept(c) \/ CheckAddress(c) \/ CheckMaxClients(c) \/ SpawnSsh(c)
    BY <1>1 DEF Accept, CheckAddress, CheckMaxClients, SpawnSsh
  <1>2. CASE CreateRecord(c) \/ Register(c) \/ Announce(c) \/ RunSession(c)
    BY <1>2 DEF CreateRecord, Register, Announce, RunSession
  <1>3. CASE RunReturns(c) \/ Unregister(c) \/ Close(c)
    BY <1>3 DEF RunReturns, Unregister, Close
  <1> QED
    BY <1>1, <1>2, <1>3 DEF HandlerStep

\* The steps of a handler that concern neither the ids nor the registry.
LEMMA PlainSafe ==
    ASSUME IInv, NEW c \in Clients,
           Accept(c) \/ CheckAddress(c) \/ CheckMaxClients(c) \/ SpawnSsh(c)
             \/ Announce(c) \/ RunSession(c) \/ RunReturns(c) \/ Close(c)
    PROVE  (Ids /\ Registry /\ Processes)'
  <1> USE DEF IInv, TypeOK, Step, listenerVars, sessionVars
  <1>1. /\ UNCHANGED <<sid, nextId, sessions, reason, toStop, target>>
        /\ \A d \in Clients \ {c} : handler'[d] = handler[d] /\ ssh'[d] = ssh[d]
    BY HandlerFacts DEF HandlerStep, Accept, CheckAddress, CheckMaxClients, SpawnSsh, Announce,
       RunSession, RunReturns, Close
  <1>2. /\ handler'[c] \in Known \cup {"numbered"} => handler[c] \in Known
        /\ handler[c] \in Listed <=> handler'[c] \in Listed
        /\ handler[c] \in Known => handler'[c] \in Known
    BY DEF Accept, CheckAddress, CheckMaxClients, SpawnSsh, Announce, RunSession, RunReturns,
       Close, Known, Listed
  <1>3. /\ handler'[c] \in Waiting => ssh'[c] = "none"
        /\ ssh'[c] = "alive" => handler'[c] \in {"spawned", "numbered", "registered",
                                               "announced", "running", "unannounced"}
        /\ reason[c] # NoReason => ssh'[c] = "dead"
    <2>1. CASE Accept(c) \/ CheckAddress(c) \/ CheckMaxClients(c)
      BY <2>1 DEF Accept, CheckAddress, CheckMaxClients, Processes, Waiting
    <2>2. CASE SpawnSsh(c)
      BY <2>2 DEF SpawnSsh, Processes, Waiting, Known, Listed
    <2>3. CASE Announce(c) \/ Close(c)
      BY <2>3 DEF Announce, Close, Processes, Waiting
    <2>4. CASE RunSession(c)
      BY <2>4 DEF RunSession, Processes, Waiting
    <2>5. CASE RunReturns(c)
      BY <2>5 DEF RunReturns, Processes, Waiting
    <2> QED
      BY <2>1, <2>2, <2>3, <2>4, <2>5
  <1>4. Ids'
    BY <1>1, <1>2 DEF Ids
  <1>5. Registry'
    BY <1>1, <1>2 DEF Registry
  <1>6. Processes'
    BY <1>1, <1>2, <1>3 DEF Processes
  <1> QED
    BY <1>4, <1>5, <1>6

LEMMA CreateSafe ==
    ASSUME IInv, NEW c \in Clients, CreateRecord(c)
    PROVE  (Ids /\ Registry /\ Processes)'
  <1> USE DEF IInv, TypeOK, Step, listenerVars
  <1>1. /\ UNCHANGED <<sessions, reason, ssh, toStop, target>>
        /\ handler[c] = "spawned" /\ handler'[c] = "numbered"
        /\ sid'[c] = nextId /\ nextId' = nextId + 1
        /\ \A d \in Clients \ {c} : handler'[d] = handler[d] /\ sid'[d] = sid[d]
    BY HandlerFacts DEF HandlerStep, CreateRecord
  <1>2. Ids'
    BY <1>1 DEF Ids
  <1>3. Registry'
    BY <1>1 DEF Registry, Listed
  <1>4. Processes'
    BY <1>1 DEF Processes, Known, Listed, Waiting
  <1> QED
    BY <1>2, <1>3, <1>4

LEMMA RegisterSafe ==
    ASSUME IInv, NEW c \in Clients, Register(c)
    PROVE  (Ids /\ Registry /\ Processes)'
  <1> USE DEF IInv, TypeOK, Step, listenerVars
  <1>1. /\ UNCHANGED <<sid, nextId, reason, ssh, toStop, target>>
        /\ handler[c] = "numbered" /\ handler'[c] = "registered"
        /\ \A d \in Clients \ {c} : handler'[d] = handler[d]
        /\ DOMAIN sessions' = DOMAIN sessions \cup {sid[c]}
        /\ \A i \in DOMAIN sessions' : sessions'[i] = IF i = sid[c] THEN c ELSE sessions[i]
    BY HandlerFacts DEF HandlerStep, Register
  <1>2. Ids'
    BY <1>1 DEF Ids, Known, Listed
  <1>3. \A d \in Clients \ {c} : handler[d] \in Listed => sid[d] # sid[c]
    BY <1>1 DEF Ids, Known
  <1>4. Registry'
    BY <1>1, <1>3 DEF Registry, Listed
  <1>5. Processes'
    BY <1>1 DEF Processes, Known, Listed, Waiting
  <1> QED
    BY <1>2, <1>4, <1>5

LEMMA UnregisterSafe ==
    ASSUME IInv, NEW c \in Clients, Unregister(c)
    PROVE  (Ids /\ Registry /\ Processes)'
  <1> USE DEF IInv, TypeOK, Step, listenerVars
  <1>1. /\ UNCHANGED <<sid, nextId, reason, ssh, toStop, target>>
        /\ handler[c] = "ended" /\ handler'[c] = "unregistered"
        /\ \A d \in Clients \ {c} : handler'[d] = handler[d]
        /\ DOMAIN sessions' = DOMAIN sessions \ {sid[c]}
        /\ \A i \in DOMAIN sessions' : sessions'[i] = sessions[i]
    BY HandlerFacts DEF HandlerStep, Unregister
  <1>2. Ids'
    BY <1>1 DEF Ids, Known, Listed
  <1>3. \A d \in Clients \ {c} : handler[d] \in Listed => sid[d] # sid[c]
    BY <1>1 DEF Ids, Known, Listed
  <1>4. Registry'
    BY <1>1, <1>3 DEF Registry, Listed
  <1>5. Processes'
    BY <1>1 DEF Processes, Known, Listed, Waiting
  <1> QED
    BY <1>2, <1>4, <1>5

-----------------------------------------------------------------------------
\* The limit.

LEMMA Counted ==
    ASSUME TypeOK
    PROVE  IsFiniteSet(DOMAIN sessions) /\ Cardinality(DOMAIN sessions) \in Nat
  <1>1. IsFiniteSet(1..(nextId - 1))
    BY FS_Interval DEF TypeOK
  <1>2. IsFiniteSet(DOMAIN sessions)
    BY <1>1, FS_Subset DEF TypeOK
  <1> QED
    BY <1>2, FS_CardinalityType

\* What neither lets a client in nor adds a session keeps the limit.
LEMMA RoomKept ==
    ASSUME IInv, crowded' = crowded, Admitted' \subseteq Admitted,
           DOMAIN sessions' \subseteq DOMAIN sessions
    PROVE  Room'
  <1>1. /\ Cardinality(DOMAIN sessions') \in Nat
        /\ Cardinality(DOMAIN sessions') <= Cardinality(DOMAIN sessions)
    BY Counted, FS_Subset, FS_CardinalityType DEF IInv
  <1> QED
    BY <1>1, Counted, EngineAssumption DEF IInv, Room

LEMMA RoomStep ==
    ASSUME IInv, [Next]_vars
    PROVE  Room'
  <1>1. CASE QuietStep
    BY <1>1, QuietFacts, RoomKept DEF Admitted
  <1>2. CASE StopStep
    BY <1>2, StopFacts, RoomKept DEF Admitted, IInv
  <1>3. ASSUME NEW c \in Clients, Accept(c) \/ HandlerStep(c)
        PROVE  Room'
    <2> USE DEF IInv, TypeOK, Step, listenerVars, sessionVars
    <2>1. CASE CheckMaxClients(c)
      <3>1. /\ sessions' = sessions
            /\ crowded' = (crowded \/ (handler'[c] = "admitted" /\ Admitted # {}))
            /\ handler'[c] = (IF MaxClientsReached THEN "rejected" ELSE "admitted")
            /\ handler[c] = "allowed"
            /\ \A d \in Clients \ {c} : handler'[d] = handler[d]
        BY <2>1 DEF CheckMaxClients
      <3>2. CASE MaxClientsReached
        <4>1. Admitted' \subseteq Admitted
          BY <3>1, <3>2 DEF Admitted
        <4>2. crowded' = crowded
          BY <3>1, <3>2
        <4> QED
          BY <3>1, <4>1, <4>2, RoomKept
      <3>3. CASE ~MaxClientsReached
        <4>1. Admitted' = Admitted \cup {c}
          BY <3>1, <3>3 DEF Admitted
        <4>2. MaxClients > 0 => Cardinality(DOMAIN sessions) < MaxClients
          BY <3>3, Counted, EngineAssumption DEF MaxClientsReached
        <4>3. ~crowded' => Admitted = {} /\ ~crowded
          BY <3>1, <3>3
        <4> QED
          BY <3>1, <4>1, <4>2, <4>3, Counted, EngineAssumption DEF Room
      <3> QED
        BY <3>2, <3>3
    <2>2. CASE Register(c)
      <3>1. /\ crowded' = crowded /\ c \in Admitted
            /\ DOMAIN sessions' = DOMAIN sessions \cup {sid[c]}
            /\ handler'[c] = "registered"
            /\ \A d \in Clients \ {c} : handler'[d] = handler[d]
        BY <2>2 DEF Register, Admitted
      <3>2. Admitted' = Admitted \ {c}
        BY <3>1 DEF Admitted
      <3>3. /\ Cardinality(DOMAIN sessions') \in Nat
            /\ Cardinality(DOMAIN sessions') <= Cardinality(DOMAIN sessions) + 1
        <4>1. /\ IsFiniteSet(DOMAIN sessions) /\ Cardinality(DOMAIN sessions) \in Nat
              /\ DOMAIN sessions' = DOMAIN sessions \cup {sid[c]}
          BY <3>1, Counted
        <4> HIDE DEF IInv, TypeOK, Step, listenerVars, sessionVars
        <4>2. \/ Cardinality(DOMAIN sessions') = Cardinality(DOMAIN sessions)
              \/ Cardinality(DOMAIN sessions') = Cardinality(DOMAIN sessions) + 1
          BY <4>1, FS_AddElement, Zenon
        <4> QED
          BY <4>1, <4>2
      <3> QED
        BY <3>1, <3>2, <3>3, Counted, EngineAssumption DEF Room
    <2>3. CASE Accept(c) \/ CheckAddress(c) \/ SpawnSsh(c) \/ CreateRecord(c)
      <3>1. /\ crowded' = crowded /\ sessions' = sessions
            /\ \A d \in Clients \ {c} : handler'[d] = handler[d]
            /\ handler'[c] \in {"admitted", "spawned", "numbered"} =>
                   handler[c] \in {"admitted", "spawned", "numbered"}
        BY <2>3 DEF Accept, CheckAddress, SpawnSsh, CreateRecord
      <3> QED
        BY <3>1, RoomKept DEF Admitted
    <2>4. CASE Announce(c) \/ RunSession(c) \/ RunReturns(c) \/ Unregister(c) \/ Close(c)
      <3>1. /\ crowded' = crowded /\ DOMAIN sessions' \subseteq DOMAIN sessions
            /\ \A d \in Clients \ {c} : handler'[d] = handler[d]
            /\ handler'[c] \notin {"admitted", "spawned", "numbered"}
        BY <2>4 DEF Announce, RunSession, RunReturns, Unregister, Close
      <3> QED
        BY <3>1, RoomKept DEF Admitted
    <2> QED
      BY <1>3, <2>1, <2>2, <2>3, <2>4 DEF HandlerStep
  <1> QED
    BY <1>1, <1>2, <1>3, StepKinds

-----------------------------------------------------------------------------
\* The theorems.

LEMMA InitInv ==
    ASSUME Init
    PROVE  IInv
  <1>1. DOMAIN sessions = {} /\ Admitted = {} /\ Cardinality({}) = 0
    BY FS_EmptySet DEF Init, Admitted
  <1>2. Room
    BY <1>1, EngineAssumption DEF Room
  <1> QED
    BY <1>2, TypeInit, InitSafe DEF IInv

LEMMA InvStep ==
    ASSUME IInv, [Next]_vars
    PROVE  IInv'
  <1>1. TypeOK'
    BY TypeStep DEF IInv
  <1>2. Room'
    BY RoomStep
  <1>3. ASSUME NEW c \in Clients, Accept(c) \/ HandlerStep(c)
        PROVE  (Ids /\ Registry /\ Processes)'
    BY <1>3, PlainSafe, CreateSafe, RegisterSafe, UnregisterSafe DEF HandlerStep
  <1> QED
    BY <1>1, <1>2, <1>3, StepKinds, QuietSafe, StopSafe DEF IInv

\* The inductive invariant of the engine.
THEOREM Invariant == Spec => []IInv
  <1>1. Init => IInv
    BY InitInv
  <1>2. IInv /\ [Next]_vars => IInv'
    BY InvStep
  <1> QED
    BY <1>1, <1>2, PTL DEF Spec

\* The engine's variables keep their types: ids stay below the store's
\* counter, the registry holds clients.
THEOREM TypeCorrect == Spec => []TypeOK
  <1>1. IInv => TypeOK
    BY DEF IInv
  <1> QED
    BY <1>1, Invariant, PTL

\* A session is listed under its own id from its registration to the return
\* of run(), whatever the other handlers do, and not after its end.
THEOREM RegistryTheorem == Spec => []RegistryIsExact
  <1>1. IInv => RegistryIsExact
    BY DEF IInv, Registry, RegistryIsExact, Listed, Registered, Range
  <1> QED
    BY <1>1, Invariant, PTL

\* No ssh process outlives both its handler and its registration.
THEOREM NoOrphanTheorem == Spec => []NoOrphanSsh
  <1>1. IInv => NoOrphanSsh
    <2> SUFFICES ASSUME IInv, NEW c \in Clients, ssh[c] = "alive",
                        handler[c] \notin {"spawned", "numbered"}
                 PROVE  c \in Registered
      BY DEF NoOrphanSsh
    <2>1. handler[c] \in Listed
      BY DEF IInv, Processes, Listed
    <2> QED
      BY <2>1 DEF IInv, Registry, Registered, Range
  <1> QED
    BY <1>1, Invariant, PTL

\* The limit on the clients of an endpoint holds for any number of clients as
\* long as they are let in one at a time.
THEOREM MaxClientsTheorem == Spec => []MaxClientsRespected
  <1>1. IInv => MaxClientsRespected
    BY DEF IInv, Room, MaxClientsRespected, ActiveConnections
  <1> QED
    BY <1>1, Invariant, PTL

-----------------------------------------------------------------------------
\* The contracts of the sessions.

LEMMA ContractStutter ==
    ASSUME NEW d \in Clients, reason'[d] = reason[d], Life(d)' = Life(d), Channel(d)' = Channel(d)
    PROVE  [Contract(d)!Next]_(Contract(d)!vars)
  BY DEF Contract!vars

\* A stop chooses a reason, or finds one and the process dead.
LEMMA ContractStop ==
    ASSUME IInv, NEW d \in Clients, NEW c \in Clients,
           NEW r \in {"own", "service_shutdown", "admin_disconnect"},
           RequestStop(c, r), handler' = handler
    PROVE  [Contract(d)!Next]_(Contract(d)!vars)
  <1>1. Life(d)' = Life(d)
    BY DEF Life
  <1>2. CASE d = c /\ reason[d] = NoReason
    <2>1. reason'[d] = r /\ ssh'[d] = "dead"
      BY <1>2 DEF RequestStop, IInv, TypeOK
    <2>2. Contract(d)!Blame
      BY <1>1, <1>2, <2>1 DEF Contract!Blame, Channel, NoReason
    <2> QED
      BY <2>2 DEF Contract!Next
  <1>3. CASE d # c \/ reason[d] # NoReason
    <2>1. reason'[d] = reason[d] /\ ssh'[d] = ssh[d]
      BY <1>3 DEF RequestStop, IInv, TypeOK, Processes
    <2> QED
      BY <1>1, <2>1, ContractStutter DEF Channel
  <1> QED
    BY <1>2, <1>3

LEMMA ContractStep ==
    ASSUME IInv, [Next]_vars, NEW d \in Clients
    PROVE  [Contract(d)!Next]_(Contract(d)!vars)
  <1>1. CASE QuietStep
    BY <1>1, QuietFacts, ContractStutter DEF Life, Channel
  <1>2. CASE StopStep
    BY <1>2, StopFacts, ContractStop DEF IInv
  <1>3. ASSUME NEW c \in Clients, Accept(c) \/ HandlerStep(c)
        PROVE  [Contract(d)!Next]_(Contract(d)!vars)
    <2> USE DEF IInv, TypeOK, Step, listenerVars, sessionVars
    <2>1. CASE d # c
      <3>1. handler'[d] = handler[d] /\ ssh'[d] = ssh[d] /\ reason'[d] = reason[d]
        BY <1>3, <2>1, HandlerFacts
      <3> QED
        BY <3>1, ContractStutter DEF Life, Channel
    <2>2. CASE d = c /\ RunReturns(c)
      <3>1. /\ reason'[c] = reason[c] /\ reason[c] # NoReason
            /\ ssh'[c] = "dead" /\ ssh[c] = "dead"
            /\ handler[c] = "running" /\ handler'[c] = "ended"
        BY <2>2 DEF RunReturns
      <3>2. Contract(c)!Record
        BY <3>1 DEF Contract!Record, Life, Channel, NoReason
      <3> QED
        BY <2>2, <3>2 DEF Contract!Next
    <2>3. CASE d = c /\ RunSession(c)
      <3>1. /\ reason'[c] = reason[c] /\ ssh'[c] = ssh[c] /\ handler[c] = "announced"
            /\ handler'[c] = IF reason[c] = NoReason THEN "running" ELSE "crashed"
        BY <2>3 DEF RunSession
      <3>2. CASE reason[c] = NoReason
        BY <2>3, <3>1, <3>2, ContractStutter DEF Life, Channel
      <3>3. CASE reason[c] # NoReason
        <4>1. Contract(c)!Lose
          BY <3>1, <3>3 DEF Contract!Lose, Life, Channel, NoReason
        <4> QED
          BY <2>3, <4>1 DEF Contract!Next
      <3> QED
        BY <3>2, <3>3
    <2>4. CASE d = c /\ (Unregister(c) \/ Close(c))
      <3>1. /\ reason'[c] = reason[c] /\ ssh'[c] = ssh[c]
            /\ Life(c) = "recorded" /\ Life(c)' = "recorded"
        BY <2>4 DEF Unregister, Close, Life
      <3> QED
        BY <2>4, <3>1, ContractStutter DEF Channel
    <2>5. CASE d = c /\ (\/ Accept(c) \/ CheckAddress(c) \/ CheckMaxClients(c) \/ SpawnSsh(c)
                        \/ CreateRecord(c) \/ Register(c) \/ Announce(c))
      <3>1. reason'[c] = reason[c]
        BY <1>3, HandlerFacts
      <3>2. Life(c) = "open" /\ Life(c)' = "open"
        BY <2>5 DEF Accept, CheckAddress, CheckMaxClients, SpawnSsh, CreateRecord, Register,
           Announce, Life
      <3>3. Channel(c)' = Channel(c)
        <4>1. CASE SpawnSsh(c)
          BY <4>1 DEF SpawnSsh, Channel, Processes, Waiting
        <4>2. CASE ~SpawnSsh(c)
          BY <2>5, <4>2 DEF Accept, CheckAddress, CheckMaxClients, CreateRecord, Register,
             Announce, Channel
        <4> QED
          BY <4>1, <4>2
      <3> QED
        BY <2>5, <3>1, <3>2, <3>3, ContractStutter
    <2> QED
      BY <1>3, <2>1, <2>2, <2>3, <2>4, <2>5 DEF HandlerStep
  <1> QED
    BY <1>1, <1>2, <1>3, StepKinds

\* The engine keeps the contract of every session: whoever stops it and
\* whatever its handler does, one reason is chosen once, and run() returns
\* only with a reason and the ssh process dead.
THEOREM ContractTheorem == Spec => KeepsContracts
  <1>1. ASSUME Init PROVE \A c \in Clients : Contract(c)!Init
    BY <1>1, InitInv DEF Init, Contract!Init, Life, Channel, NoReason
  <1>2. IInv /\ [Next]_vars => \A c \in Clients : [Contract(c)!Next]_(Contract(c)!vars)
    BY ContractStep
  <1>3. IInv /\ [Next]_vars
           => [\A c \in Clients : [Contract(c)!Next]_(Contract(c)!vars)]_vars
    BY <1>2
  <1> QED
    BY <1>1, <1>3, Invariant, PTL DEF Spec, KeepsContracts

=============================================================================
