------------------------ MODULE SessionRuntimeProofs ------------------------
(***************************************************************************)
(* Proofs about SessionRuntime: type correctness, the four safety          *)
(* properties the runs check, and the refinement of SessionContract, for   *)
(* any set of stoppers, any bound on the data, with or without an idle     *)
(* timeout.                                                                *)
(***************************************************************************)
EXTENDS SessionRuntime, TLAPS

\* The threads of a session are distinct, and a stopper is no reason of another.
LEMMA ThreadFacts ==
    /\ Pumps \subseteq Threads
    /\ "run" \in Threads /\ "run" \notin Pumps /\ "run" \notin Stoppers
    /\ Stoppers \subseteq Threads
    /\ Stoppers \cap Pumps = {}
    /\ NoReason \notin Stoppers /\ "idle_timeout" \notin Stoppers
    /\ Stoppers \cap (PumpReasons \cup FallbackReasons) = {}
  BY SessionAssumption DEF Threads, Pumps, NoReason, PumpReasons, FallbackReasons

-----------------------------------------------------------------------------
\* Type correctness.

\* A step of a pump keeps the types.
LEMMA TypePump ==
    ASSUME TypeOK, NEW p \in Pumps, PumpStep(p)
    PROVE  TypeOK'
  <1> USE ThreadFacts DEF TypeOK, Goto, flow
  <1>1. CASE PumpCheck(p)
    BY <1>1 DEF PumpCheck
  <1>2. CASE PumpRead(p)
    BY <1>2 DEF PumpRead
  <1>3. CASE PumpReadTimeout(p)
    BY <1>3 DEF PumpReadTimeout
  <1>4. CASE PumpReadEnd(p)
    <2>1. ReadEndReasons(p) \subseteq PumpReasons
      BY DEF ReadEndReasons, PumpReasons
    <2> QED
      BY <1>4, <2>1 DEF PumpReadEnd
  <1>5. CASE PumpWrite(p)
    BY <1>5 DEF PumpWrite
  <1>6. CASE PumpWriteFail(p)
    BY <1>6 DEF PumpWriteFail, PumpReasons
  <1>7. CASE PumpOnClosedPipe(p)
    BY <1>7 DEF PumpOnClosedPipe, PumpReasons
  <1>8. CASE PumpCount(p)
    <2>1. counted' \in [Pumps -> Nat]
      BY <1>8 DEF PumpCount
    <2> QED
      BY <1>8, <2>1 DEF PumpCount
  <1>9. CASE PumpMark(p)
    BY <1>9 DEF PumpMark, KeepFirst, Reasons
  <1>10. CASE PumpSetStop(p)
    BY <1>10 DEF PumpSetStop
  <1> QED
    BY <1>1, <1>2, <1>3, <1>4, <1>5, <1>6, <1>7, <1>8, <1>9, <1>10 DEF PumpStep

\* A step of request_stop keeps the types.
LEMMA TypeRequestStop ==
    ASSUME TypeOK, NEW t \in {"run"} \cup Stoppers, RequestStopStep(t)
    PROVE  TypeOK'
  <1> USE ThreadFacts DEF TypeOK, Goto, flow
  <1>1. CASE StopReason(t)
    BY <1>1 DEF StopReason, KeepFirst, Reasons
  <1>2. CASE StopSetEvent(t)
    BY <1>2 DEF StopSetEvent
  <1>3. CASE StopCloseIo(t)
    BY <1>3 DEF StopCloseIo
  <1>4. CASE StopTerminate(t)
    BY <1>4 DEF StopTerminate, TerminateProcess
  <1> QED
    BY <1>1, <1>2, <1>3, <1>4 DEF RequestStopStep

\* A step of run() keeps the types.
LEMMA TypeRun ==
    ASSUME TypeOK, RunStep
    PROVE  TypeOK'
  <1> USE ThreadFacts DEF TypeOK, Goto, flow
  <1>1. CASE RunBegin
    BY <1>1 DEF RunBegin, Pumps
  <1>2. CASE RunLoop
    BY <1>2 DEF RunLoop
  <1>3. CASE RunIdleCheck
    BY <1>3 DEF RunIdleCheck
  <1>4. CASE RequestStopStep("run")
    BY <1>4, TypeRequestStop
  <1>5. CASE RunTerminate
    BY <1>5 DEF RunTerminate, TerminateProcess
  <1>6. CASE RunClose
    BY <1>6 DEF RunClose
  <1>7. CASE RunFinal
    BY <1>7 DEF RunFinal, KeepFirst, Reasons, FallbackReasons, Pumps
  <1> QED
    BY <1>1, <1>2, <1>3, <1>4, <1>5, <1>6, <1>7 DEF RunStep

\* A step of a peer or of the clock keeps the types.
LEMMA TypeEnvironment ==
    ASSUME TypeOK, Environment
    PROVE  TypeOK'
  <1> USE ThreadFacts, SessionAssumption DEF TypeOK, flow, Pumps
  <1>1. CASE ClientSend
    BY <1>1 DEF ClientSend
  <1>2. CASE ClientLeave
    BY <1>2 DEF ClientLeave
  <1>3. CASE SshOutput
    BY <1>3 DEF SshOutput
  <1>4. CASE SshExit
    BY <1>4 DEF SshExit
  <1>5. CASE IdleElapses
    BY <1>5 DEF IdleElapses
  <1> QED
    BY <1>1, <1>2, <1>3, <1>4, <1>5 DEF Environment

\* The initial states are well typed.
LEMMA InitTypeOK ==
    ASSUME Init
    PROVE  TypeOK
  <1>1. final \in [reason : Reasons \cup {NoReason}, up : Nat, down : Nat,
                  exit : {"alive", "zero", "nonzero"}]
    BY DEF Init, NotFinal
  <1>2. \A f \in {offered, taken, passed, counted} : f \in [Pumps -> 0..MaxChunks]
    BY SessionAssumption DEF Init
  <1>3. pc \in [Threads -> {"begin", "unborn", "off"}]
    BY DEF Init
  <1>4. pending \in [Pumps -> PumpReasons \cup {NoReason}]
    BY DEF Init
  <1>5. /\ taken \in [Pumps -> Nat] /\ passed \in [Pumps -> Nat]
        /\ counted \in [Pumps -> Nat]
    BY <1>2
  <1>6. stopEvent \in BOOLEAN /\ quiet \in BOOLEAN
    BY DEF Init
  <1> QED
    BY <1>1, <1>2, <1>3, <1>4, <1>5, <1>6 DEF Init, TypeOK

\* Every step keeps the types.
LEMMA TypeStep ==
    ASSUME TypeOK, [Next]_vars
    PROVE  TypeOK'
  <1>1. CASE RunStep
    BY <1>1, TypeRun
  <1>2. ASSUME NEW p \in Pumps, PumpStep(p) PROVE TypeOK'
    BY <1>2, TypePump
  <1>3. ASSUME NEW t \in Stoppers, CallRequestStop(t) PROVE TypeOK'
    BY <1>3, ThreadFacts DEF CallRequestStop, Goto, TypeOK, flow
  <1>4. ASSUME NEW t \in Stoppers, RequestStopStep(t) PROVE TypeOK'
    BY <1>4, TypeRequestStop
  <1>5. CASE Environment
    BY <1>5, TypeEnvironment
  <1>6. CASE UNCHANGED vars
    BY <1>6 DEF vars, TypeOK
  <1> QED
    BY <1>1, <1>2, <1>3, <1>4, <1>5, <1>6 DEF Next

\* The variables keep their types: every program counter, reason and count is
\* one the code can produce.
THEOREM TypeCorrect == Spec => []TypeOK
  BY InitTypeOK, TypeStep, PTL DEF Spec

-----------------------------------------------------------------------------
\* The inductive invariant.

\* Every statement that ends a session comes after one that chose a reason.
ReasonFirst ==
    /\ stopEvent \/ io = "closed" => closeReason # NoReason
    /\ \A p \in Pumps : pc[p] \in {"setstop", "dead"} => closeReason # NoReason
    /\ \A t \in {"run"} \cup Stoppers :
           pc[t] \in {"event", "closeio", "kill"} => closeReason # NoReason
    /\ pc["run"] \in {"terminate", "close", "final", "done", "crashed"}
           => closeReason # NoReason
    /\ closeReason \notin FallbackReasons
    /\ pc["down"] = "mark" => pending["down"] \in PumpReasons \ {"client_closed"}
    /\ pc["up"] = "mark" => pending["up"] \in PumpReasons \ {"ssh_channel_closed"}

\* What run() has torn down, by its place.
TornDown ==
    /\ pc["run"] \in {"close", "final", "done"} => ssh # "alive"
    /\ pc["run"] \in {"final", "done"} => io = "closed"

\* A chunk is read, then passed, then counted; the pumps start with run().
ChunkOrder ==
    /\ pc["run"] = "begin" => \A p \in Pumps : pc[p] = "unborn"
    /\ \A p \in Pumps :
        /\ pc[p] \in {"unborn", "check", "read", "count"} => passed[p] = taken[p]
        /\ pc[p] = "write" => taken[p] = passed[p] + 1
        /\ pc[p] = "count" => passed[p] = counted[p] + 1
        /\ pc[p] # "count" => passed[p] = counted[p]

\* A natural end is complete from the moment the pump has seen it.
SeenComplete ==
    /\ \/ closeReason = "client_closed"
       \/ closeReason = NoReason /\ pc["up"] = "mark" /\ pending["up"] = "client_closed"
       => /\ pc["up"] \in {"mark", "setstop", "dead"}
          /\ client # "open"
          /\ passed["up"] = offered["up"]
    /\ \/ closeReason = "ssh_channel_closed"
       \/ closeReason = NoReason /\ pc["down"] = "mark" /\ pending["down"] = "ssh_channel_closed"
       => /\ pc["down"] \in {"mark", "setstop", "dead"}
          /\ ssh # "alive"
          /\ passed["down"] = offered["down"]

\* Without an idle timeout run() outlives both pumps.
PumpsFirst ==
    ~IdleTimeout =>
        /\ pc["run"] \notin {"reason", "event", "closeio", "kill"}
        /\ pc["run"] \in {"terminate", "close", "final", "done"} => PumpsDead

IInv ==
    /\ TypeOK
    /\ ReasonFirst
    /\ TornDown
    /\ ChunkOrder
    /\ SeenComplete
    /\ PumpsFirst
    /\ RecordCountsWhatPassed

-----------------------------------------------------------------------------
\* Each part is preserved by every step.

\* Every step keeps the reason ahead of the signs of an ending.
LEMMA ReasonFirstStep ==
    ASSUME TypeOK, ReasonFirst, [Next]_vars
    PROVE  ReasonFirst'
  <1> USE ThreadFacts DEF TypeOK, ReasonFirst, Goto, KeepFirst, Pumps
  <1>1. ASSUME NEW p \in Pumps, PumpStep(p) PROVE ReasonFirst'
    <2>1. CASE PumpCheck(p)
      BY <2>1 DEF PumpCheck
    <2>2. CASE PumpRead(p) \/ PumpReadTimeout(p)
      BY <2>2 DEF PumpRead, PumpReadTimeout
    <2>3. CASE PumpReadEnd(p)
      <3>1. ReadEndReasons(p) \subseteq PumpReasons \ {IF p = "up" THEN "ssh_channel_closed"
                                                                ELSE "client_closed"}
        BY DEF ReadEndReasons, PumpReasons
      <3> QED
        BY <2>3, <3>1 DEF PumpReadEnd
    <2>4. CASE PumpWrite(p)
      BY <2>4 DEF PumpWrite
    <2>5. CASE PumpWriteFail(p)
      BY <2>5 DEF PumpWriteFail, PumpReasons
    <2>6. CASE PumpOnClosedPipe(p)
      BY <2>6 DEF PumpOnClosedPipe, PumpReasons
    <2>7. CASE PumpCount(p)
      BY <2>7 DEF PumpCount
    <2>8. CASE PumpMark(p)
      <3>1. pending[p] \notin FallbackReasons \cup {NoReason}
        BY <2>8 DEF PumpMark, PumpReasons, FallbackReasons, NoReason
      <3>2. closeReason' \notin FallbackReasons \cup {NoReason}
        BY <2>8, <3>1 DEF PumpMark
      <3>3. pc'[p] = "setstop"
        BY <2>8 DEF PumpMark
      <3>4. \A q \in Pumps \ {p} : pending'[q] = pending[q] /\ pc'[q] = pc[q]
        BY <2>8 DEF PumpMark
      <3> QED
        BY <2>8, <3>2, <3>3, <3>4 DEF PumpMark
    <2>9. CASE PumpSetStop(p)
      BY <2>9 DEF PumpSetStop
    <2> QED
      BY <1>1, <2>1, <2>2, <2>3, <2>4, <2>5, <2>6, <2>7, <2>8, <2>9 DEF PumpStep
  <1>2. ASSUME NEW t \in {"run"} \cup Stoppers, RequestStopStep(t) PROVE ReasonFirst'
    <2>1. CASE StopReason(t)
      <3>1. (IF t = "run" THEN "idle_timeout" ELSE t) \notin FallbackReasons \cup {NoReason}
        <4>1. CASE t = "run"
          BY <4>1 DEF FallbackReasons, NoReason
        <4>2. CASE t \in Stoppers
          BY <4>2
        <4> QED
          BY <4>1, <4>2
      <3>2. closeReason' \notin FallbackReasons \cup {NoReason}
        BY <2>1, <3>1 DEF StopReason
      <3> QED
        BY <2>1, <3>2 DEF StopReason
    <2>2. CASE StopSetEvent(t)
      BY <2>2 DEF StopSetEvent
    <2>3. CASE StopCloseIo(t)
      BY <2>3 DEF StopCloseIo
    <2>4. CASE StopTerminate(t)
      BY <2>4 DEF StopTerminate
    <2> QED
      BY <1>2, <2>1, <2>2, <2>3, <2>4 DEF RequestStopStep
  <1>3. ASSUME NEW t \in Stoppers, CallRequestStop(t) PROVE ReasonFirst'
    BY <1>3 DEF CallRequestStop
  <1>4. CASE RunStep
    <2>1. CASE RunBegin
      BY <2>1 DEF RunBegin
    <2>2. CASE RunLoop
      BY <2>2 DEF RunLoop, PumpsDead
    <2>3. CASE RunIdleCheck
      BY <2>3 DEF RunIdleCheck
    <2>4. CASE RunTerminate \/ RunClose \/ RunFinal
      BY <2>4 DEF RunTerminate, RunClose, RunFinal
    <2> QED
      BY <1>2, <1>4, <2>1, <2>2, <2>3, <2>4 DEF RunStep
  <1>5. CASE Environment
    BY <1>5 DEF Environment, ClientSend, ClientLeave, SshOutput, SshExit, IdleElapses
  <1>6. CASE UNCHANGED vars
    BY <1>6 DEF vars
  <1> QED
    BY <1>1, <1>2, <1>3, <1>4, <1>5, <1>6 DEF Next

\* Every step keeps what run() has torn down torn down.
LEMMA TornDownStep ==
    ASSUME TypeOK, TornDown, [Next]_vars
    PROVE  TornDown'
  <1> USE ThreadFacts DEF TypeOK, TornDown, Goto
  <1>1. ASSUME NEW p \in Pumps, PumpStep(p) PROVE TornDown'
    BY <1>1 DEF PumpStep, PumpCheck, PumpRead, PumpReadTimeout, PumpReadEnd, PumpWrite,
                PumpWriteFail, PumpOnClosedPipe, PumpCount, PumpMark, PumpSetStop
  <1>2. ASSUME NEW t \in {"run"} \cup Stoppers, RequestStopStep(t) PROVE TornDown'
    BY <1>2 DEF RequestStopStep, StopReason, StopSetEvent, StopCloseIo, StopTerminate,
                TerminateProcess
  <1>3. ASSUME NEW t \in Stoppers, CallRequestStop(t) PROVE TornDown'
    BY <1>3 DEF CallRequestStop
  <1>4. CASE RunStep
    BY <1>2, <1>4 DEF RunStep, RunBegin, RunLoop, RunIdleCheck, RunTerminate, RunClose,
                      RunFinal, TerminateProcess
  <1>5. CASE Environment
    BY <1>5 DEF Environment, ClientSend, ClientLeave, SshOutput, SshExit, IdleElapses
  <1>6. CASE UNCHANGED vars
    BY <1>6 DEF vars
  <1> QED
    BY <1>1, <1>2, <1>3, <1>4, <1>5, <1>6 DEF Next

\* Every step keeps the order read, passed, counted of the chunks.
LEMMA ChunkOrderStep ==
    ASSUME TypeOK, ChunkOrder, [Next]_vars
    PROVE  ChunkOrder'
  <1> USE ThreadFacts DEF TypeOK, ChunkOrder, Goto, Pumps, flow
  <1>1. ASSUME NEW p \in Pumps, PumpStep(p) PROVE ChunkOrder'
    <2>1. CASE PumpCheck(p) \/ PumpReadTimeout(p) \/ PumpReadEnd(p)
      BY <2>1 DEF PumpCheck, PumpReadTimeout, PumpReadEnd
    <2>2. CASE PumpRead(p)
      BY <2>2 DEF PumpRead
    <2>3. CASE PumpWrite(p)
      BY <2>3 DEF PumpWrite
    <2>4. CASE PumpWriteFail(p) \/ PumpOnClosedPipe(p)
      BY <2>4 DEF PumpWriteFail, PumpOnClosedPipe
    <2>5. CASE PumpCount(p)
      BY <2>5 DEF PumpCount
    <2>6. CASE PumpMark(p) \/ PumpSetStop(p)
      BY <2>6 DEF PumpMark, PumpSetStop
    <2> QED
      BY <1>1, <2>1, <2>2, <2>3, <2>4, <2>5, <2>6 DEF PumpStep
  <1>2. ASSUME NEW t \in {"run"} \cup Stoppers, RequestStopStep(t) PROVE ChunkOrder'
    BY <1>2 DEF RequestStopStep, StopReason, StopSetEvent, StopCloseIo, StopTerminate
  <1>3. ASSUME NEW t \in Stoppers, CallRequestStop(t) PROVE ChunkOrder'
    BY <1>3 DEF CallRequestStop
  <1>4. CASE RunStep
    <2>1. CASE RunBegin
      BY <2>1 DEF RunBegin
    <2>2. CASE RunLoop \/ RunIdleCheck \/ RunTerminate \/ RunClose \/ RunFinal
      BY <2>2 DEF RunLoop, RunIdleCheck, RunTerminate, RunClose, RunFinal
    <2> QED
      BY <1>2, <1>4, <2>1, <2>2 DEF RunStep
  <1>5. CASE Environment
    BY <1>5 DEF Environment, ClientSend, ClientLeave, SshOutput, SshExit, IdleElapses
  <1>6. CASE UNCHANGED vars
    BY <1>6 DEF vars
  <1> QED
    BY <1>1, <1>2, <1>3, <1>4, <1>5, <1>6 DEF Next

\* Every step keeps run() in its loop while the pumps live, idle timeouts aside.
LEMMA PumpsFirstStep ==
    ASSUME TypeOK, PumpsFirst, [Next]_vars
    PROVE  PumpsFirst'
  <1> USE ThreadFacts DEF TypeOK, PumpsFirst, PumpsDead, Goto, Pumps
  <1>1. ASSUME NEW p \in Pumps, PumpStep(p) PROVE PumpsFirst'
    BY <1>1 DEF PumpStep, PumpCheck, PumpRead, PumpReadTimeout, PumpReadEnd, PumpWrite,
                PumpWriteFail, PumpOnClosedPipe, PumpCount, PumpMark, PumpSetStop
  <1>2. ASSUME NEW t \in {"run"} \cup Stoppers, RequestStopStep(t) PROVE PumpsFirst'
    BY <1>2 DEF RequestStopStep, StopReason, StopSetEvent, StopCloseIo, StopTerminate
  <1>3. ASSUME NEW t \in Stoppers, CallRequestStop(t) PROVE PumpsFirst'
    BY <1>3 DEF CallRequestStop
  <1>4. CASE RunStep
    BY <1>2, <1>4 DEF RunStep, RunBegin, RunLoop, RunIdleCheck, RunTerminate, RunClose,
                      RunFinal
  <1>5. CASE Environment
    BY <1>5 DEF Environment, ClientSend, ClientLeave, SshOutput, SshExit, IdleElapses
  <1>6. CASE UNCHANGED vars
    BY <1>6 DEF vars
  <1> QED
    BY <1>1, <1>2, <1>3, <1>4, <1>5, <1>6 DEF Next

\* Data passes only while ssh lives (up) or our handles are open (down).
LEMMA PassNeedsOpen ==
    ASSUME TypeOK, [Next]_vars, passed' # passed
    PROVE  \/ ssh = "alive" /\ passed'["down"] = passed["down"]
           \/ io = "open" /\ passed'["up"] = passed["up"]
  <1>1. PICK p \in Pumps : PumpWrite(p)
    BY DEF Next, vars, flow, RunStep, RunBegin, RunLoop, RunIdleCheck, RunTerminate,
           RunClose, RunFinal, RequestStopStep, StopReason, StopSetEvent, StopCloseIo,
           StopTerminate, CallRequestStop, Environment, ClientSend, ClientLeave,
           SshOutput, SshExit, IdleElapses, PumpStep, PumpCheck, PumpRead,
           PumpReadTimeout, PumpReadEnd, PumpWriteFail, PumpOnClosedPipe, PumpCount,
           PumpMark, PumpSetStop
  <1> QED
    BY <1>1 DEF PumpWrite, TypeOK, Pumps

\* Every step keeps the two natural ends true of the data.
LEMMA SeenCompleteStep ==
    ASSUME TypeOK, ReasonFirst, ChunkOrder, SeenComplete, [Next]_vars
    PROVE  SeenComplete'
  <1> USE ThreadFacts DEF TypeOK, SeenComplete, Goto, Pumps
  <1>1. ASSUME NEW p \in Pumps, PumpStep(p) PROVE SeenComplete'
    <2>1. CASE PumpCheck(p) \/ PumpRead(p) \/ PumpReadTimeout(p) \/ PumpCount(p)
      BY <2>1 DEF PumpCheck, PumpRead, PumpReadTimeout, PumpCount, flow
    <2>2. CASE PumpReadEnd(p)
      <3>1. CASE p = "up"
        <4>1. \/ pending'["up"] # "client_closed"
              \/ closeReason # NoReason
              \/ client = "fin" /\ taken["up"] = offered["up"]
          BY <2>2, <3>1 DEF PumpReadEnd, ReadEndReasons, ReasonFirst
        <4>2. passed["up"] = taken["up"] /\ pc["up"] = "read"
          BY <2>2, <3>1 DEF PumpReadEnd, ChunkOrder
        <4> QED
          BY <2>2, <3>1, <4>1, <4>2 DEF PumpReadEnd, flow
      <3>2. CASE p = "down"
        <4>1. ssh # "alive" /\ taken["down"] = offered["down"]
          BY <2>2, <3>2 DEF PumpReadEnd, ReadEndReasons
        <4>2. passed["down"] = taken["down"] /\ pc["down"] = "read"
          BY <2>2, <3>2 DEF PumpReadEnd, ChunkOrder
        <4> QED
          BY <2>2, <3>2, <4>1, <4>2 DEF PumpReadEnd, flow
      <3> QED
        BY <3>1, <3>2
    <2>3. CASE PumpWrite(p)
      BY <2>3 DEF PumpWrite
    <2>4. CASE PumpWriteFail(p)
      BY <2>4 DEF PumpWriteFail, flow
    <2>5. CASE PumpOnClosedPipe(p)
      BY <2>5 DEF PumpOnClosedPipe, ReasonFirst, flow
    <2>6. CASE PumpMark(p)
      <3>1. /\ closeReason' = IF closeReason = NoReason THEN pending[p] ELSE closeReason
            /\ pc[p] = "mark" /\ pc'[p] = "setstop"
            /\ \A q \in Pumps \ {p} : pc'[q] = pc[q]
            /\ UNCHANGED <<client, ssh, passed, offered>>
        BY <2>6 DEF PumpMark, KeepFirst, flow
      <3>2. closeReason' # NoReason
        BY <3>1 DEF ReasonFirst, PumpReasons, NoReason
      <3> QED
        BY <3>1, <3>2 DEF ReasonFirst
    <2>7. CASE PumpSetStop(p)
      BY <2>7 DEF PumpSetStop, flow
    <2> QED
      BY <1>1, <2>1, <2>2, <2>3, <2>4, <2>5, <2>6, <2>7 DEF PumpStep
  <1>2. ASSUME NEW t \in {"run"} \cup Stoppers, RequestStopStep(t) PROVE SeenComplete'
    <2>1. CASE StopReason(t)
      <3>1. closeReason = NoReason => closeReason' \notin {"client_closed", "ssh_channel_closed"}
        BY <2>1 DEF StopReason, KeepFirst, PumpReasons
      <3>2. closeReason # NoReason => closeReason' = closeReason
        BY <2>1 DEF StopReason, KeepFirst
      <3>3. closeReason' # NoReason
        BY <2>1 DEF StopReason, KeepFirst, NoReason
      <3> QED
        BY <2>1, <3>1, <3>2, <3>3 DEF StopReason, flow
    <2>2. CASE StopSetEvent(t) \/ StopCloseIo(t) \/ StopTerminate(t)
      BY <2>2 DEF StopSetEvent, StopCloseIo, StopTerminate, TerminateProcess, flow
    <2> QED
      BY <1>2, <2>1, <2>2 DEF RequestStopStep
  <1>3. ASSUME NEW t \in Stoppers, CallRequestStop(t) PROVE SeenComplete'
    BY <1>3 DEF CallRequestStop, flow
  <1>4. CASE RunStep
    <2>1. CASE RunBegin
      BY <2>1 DEF RunBegin, ChunkOrder, flow
    <2>2. CASE RunLoop \/ RunIdleCheck \/ RunTerminate \/ RunClose
      BY <2>2 DEF RunLoop, RunIdleCheck, RunTerminate, RunClose, TerminateProcess, flow
    <2>3. CASE RunFinal
      BY <2>3 DEF RunFinal, KeepFirst, ReasonFirst, flow
    <2> QED
      BY <1>2, <1>4, <2>1, <2>2, <2>3 DEF RunStep
  <1>5. CASE Environment
    BY <1>5 DEF Environment, ClientSend, ClientLeave, SshOutput, SshExit, IdleElapses, flow
  <1>6. CASE UNCHANGED vars
    BY <1>6 DEF vars, flow
  <1> QED
    BY <1>1, <1>2, <1>3, <1>4, <1>5, <1>6 DEF Next

\* Every step keeps the closing record in line with the data.
LEMMA RecordStep ==
    ASSUME TypeOK, TornDown, ChunkOrder, PumpsFirst, RecordCountsWhatPassed, [Next]_vars
    PROVE  RecordCountsWhatPassed'
  <1>1. CASE pc["run"] = "done"
    <2>1. passed' = passed
      BY <1>1, PassNeedsOpen DEF TornDown
    <2>2. final' = final
      BY <1>1, ThreadFacts DEF Next, vars, flow, RunStep, RunBegin, RunLoop, RunIdleCheck,
           RunTerminate, RunClose, RunFinal, RequestStopStep, StopReason, StopSetEvent,
           StopCloseIo, StopTerminate, CallRequestStop, Environment, ClientSend,
           ClientLeave, SshOutput, SshExit, IdleElapses, PumpStep, PumpCheck, PumpRead,
           PumpReadTimeout, PumpReadEnd, PumpWrite, PumpWriteFail, PumpOnClosedPipe,
           PumpCount, PumpMark, PumpSetStop
    <2> QED
      BY <1>1, <2>1, <2>2 DEF RecordCountsWhatPassed
  <1>2. CASE RunFinal
    <2>1. final'.up = counted["up"] /\ final'.down = counted["down"] /\ passed' = passed
      BY <1>2 DEF RunFinal, flow
    <2>2. \A p \in Pumps :
            /\ counted[p] \in Nat /\ passed[p] \in Nat
            /\ pc[p] = "count" => passed[p] = counted[p] + 1
            /\ pc[p] # "count" => passed[p] = counted[p]
      BY DEF ChunkOrder, TypeOK
    <2>3. ~IdleTimeout => \A p \in Pumps : pc[p] = "dead"
      BY <1>2 DEF PumpsFirst, PumpsDead, RunFinal
    <2>4. \A p \in Pumps : counted[p] <= passed[p] /\ passed[p] - counted[p] <= 1
      BY <2>2
    <2>5. ~IdleTimeout => \A p \in Pumps : passed[p] - counted[p] <= 0
      BY <2>2, <2>3
    <2>6. ASSUME NEW p \in Pumps
          PROVE  (IF p = "up" THEN final'.up ELSE final'.down) = counted[p]
      BY <2>1 DEF Pumps
    <2>7. CASE IdleTimeout
      BY <2>1, <2>4, <2>6, <2>7 DEF RecordCountsWhatPassed
    <2>8. CASE ~IdleTimeout
      BY <2>1, <2>4, <2>5, <2>6, <2>8 DEF RecordCountsWhatPassed
    <2> QED
      BY <2>7, <2>8
  <1>3. CASE pc["run"] # "done" /\ ~RunFinal
    <2>1. pc'["run"] # "done"
      BY <1>3, ThreadFacts DEF TypeOK, Goto, Next, vars, RunStep, RunBegin, RunLoop,
           RunIdleCheck, RunTerminate, RunClose, RequestStopStep, StopReason,
           StopSetEvent, StopCloseIo, StopTerminate, CallRequestStop, Environment,
           ClientSend, ClientLeave, SshOutput, SshExit, IdleElapses, PumpStep, PumpCheck,
           PumpRead, PumpReadTimeout, PumpReadEnd, PumpWrite, PumpWriteFail,
           PumpOnClosedPipe, PumpCount, PumpMark, PumpSetStop
    <2> QED
      BY <2>1 DEF RecordCountsWhatPassed
  <1> QED
    BY <1>1, <1>2, <1>3

-----------------------------------------------------------------------------
\* The inductive invariant holds in every state.
THEOREM Invariant == Spec => []IInv
  <1>1. Init => IInv
    <2> SUFFICES ASSUME Init PROVE IInv
      OBVIOUS
    <2>1. TypeOK
      BY InitTypeOK
    <2>2. /\ \A t \in Threads : pc[t] \in {"begin", "unborn", "off"}
          /\ \A p \in Pumps : pc[p] = "unborn"
          /\ pc["run"] = "begin"
      BY ThreadFacts DEF Init, Pumps
    <2>3. ReasonFirst /\ TornDown /\ PumpsFirst
      BY <2>2, ThreadFacts DEF Init, ReasonFirst, TornDown, PumpsFirst, FallbackReasons,
                               NoReason, Pumps
    <2>4. ChunkOrder /\ SeenComplete /\ RecordCountsWhatPassed
      BY <2>2 DEF Init, ChunkOrder, SeenComplete, RecordCountsWhatPassed, NoReason, Pumps
    <2> QED
      BY <2>1, <2>3, <2>4 DEF IInv
  <1>2. IInv /\ [Next]_vars => IInv'
    BY TypeStep, ReasonFirstStep, TornDownStep, ChunkOrderStep, SeenCompleteStep,
       PumpsFirstStep, RecordStep DEF IInv
  <1> QED
    BY <1>1, <1>2, PTL DEF Spec

\* The recorded reason is that of the first cause, and the fallback reasons of
\* run() are never recorded.
THEOREM ReasonTheorem == Spec => []EndingHasAReason
  <1>1. IInv => EndingHasAReason
    BY DEF IInv, ReasonFirst, EndingHasAReason
  <1> QED
    BY <1>1, Invariant, PTL

\* A natural end in the record means that all data of that side was forwarded.
THEOREM CompletenessTheorem == Spec => []NaturalEndIsComplete
  <1>1. IInv => NaturalEndIsComplete
    BY DEF IInv, SeenComplete, NaturalEndIsComplete
  <1> QED
    BY <1>1, Invariant, PTL

\* The recorded counts lag behind the data by at most one chunk each way, and
\* by none without an idle timeout.
THEOREM RecordTheorem == Spec => []RecordCountsWhatPassed
  <1>1. IInv => RecordCountsWhatPassed
    BY DEF IInv
  <1> QED
    BY <1>1, Invariant, PTL

\* After the closing record no data moves.
THEOREM NothingMovesTheorem == Spec => NothingMovesAfterRecord
  <1>1. IInv /\ [Next]_vars => [pc["run"] = "done" => passed' = passed]_vars
    BY PassNeedsOpen DEF IInv, TornDown
  <1> QED
    BY <1>1, Invariant, PTL DEF Spec, NothingMovesAfterRecord

-----------------------------------------------------------------------------
\* The refinement.

\* Steps the contract does not see.
LEMMA ContractStutter ==
    ASSUME UNCHANGED <<closeReason, ssh>>,
           \/ pc'["run"] = pc["run"]
           \/ {pc["run"], pc'["run"]} \cap {"done", "crashed"} = {}
    PROVE  UNCHANGED Contract!vars
  BY DEF Contract!vars

\* A reason is chosen once and for all.
LEMMA ContractBlame ==
    ASSUME closeReason = NoReason => closeReason' \in PumpReasons \cup {"idle_timeout"} \cup Stoppers,
           closeReason # NoReason => closeReason' = closeReason,
           ssh' = ssh,
           \/ pc'["run"] = pc["run"]
           \/ {pc["run"], pc'["run"]} \cap {"done", "crashed"} = {}
    PROVE  [Contract!Next]_(Contract!vars)
  BY DEF Contract!Next, Contract!Blame, Contract!vars, NoReason

\* The ssh process ends, and stays ended.
LEMMA ContractDrop ==
    ASSUME closeReason' = closeReason,
           ssh' = ssh \/ (ssh = "alive" /\ ssh' # "alive"),
           \/ pc'["run"] = pc["run"]
           \/ {pc["run"], pc'["run"]} \cap {"done", "crashed"} = {}
    PROVE  [Contract!Next]_(Contract!vars)
  BY DEF Contract!Next, Contract!Drop, Contract!vars

\* run() ends, with or without a record.
LEMMA ContractEnd ==
    ASSUME closeReason # "", closeReason' = closeReason, ssh' = ssh,
           pc["run"] \notin {"done", "crashed"},
           \/ pc'["run"] = "crashed"
           \/ pc'["run"] = "done" /\ ssh # "alive"
    PROVE  Contract!Next
  <1>1. CASE pc'["run"] = "crashed"
    <2>1. Contract!Lose
      BY <1>1 DEF Contract!Lose
    <2> QED
      BY <2>1 DEF Contract!Next
  <1>2. CASE pc'["run"] = "done" /\ ssh # "alive"
    <2>1. Contract!Record
      BY <1>2 DEF Contract!Record
    <2> QED
      BY <2>1 DEF Contract!Next
  <1> QED
    BY <1>1, <1>2

\* Every step of the session is a step of the contract or a stutter.
LEMMA ContractStep ==
    ASSUME IInv, [Next]_vars
    PROVE  [Contract!Next]_(Contract!vars)
  <1> USE ThreadFacts DEF IInv, TypeOK, Goto, flow, Pumps
  <1>1. ASSUME NEW p \in Pumps, PumpStep(p) PROVE [Contract!Next]_(Contract!vars)
    <2>1. CASE PumpMark(p)
      BY <2>1, ContractBlame DEF PumpMark, KeepFirst, ReasonFirst
    <2>2. CASE ~PumpMark(p)
      <3>1. UNCHANGED <<closeReason, ssh>> /\ pc'["run"] = pc["run"]
        BY <1>1, <2>2 DEF PumpStep, PumpCheck, PumpRead, PumpReadTimeout, PumpReadEnd,
           PumpWrite, PumpWriteFail, PumpOnClosedPipe, PumpCount, PumpSetStop
      <3> QED
        BY <3>1, ContractStutter
    <2> QED
      BY <2>1, <2>2
  <1>2. ASSUME NEW t \in {"run"} \cup Stoppers, RequestStopStep(t)
        PROVE  [Contract!Next]_(Contract!vars)
    <2>1. CASE StopReason(t)
      BY <2>1, ContractBlame DEF StopReason, KeepFirst
    <2>2. CASE StopSetEvent(t) \/ StopCloseIo(t)
      BY <2>2, ContractStutter DEF StopSetEvent, StopCloseIo
    <2>3. CASE StopTerminate(t)
      BY <2>3, ContractDrop DEF StopTerminate, TerminateProcess
    <2> QED
      BY <1>2, <2>1, <2>2, <2>3 DEF RequestStopStep
  <1>3. ASSUME NEW t \in Stoppers, CallRequestStop(t) PROVE [Contract!Next]_(Contract!vars)
    BY <1>3, ContractStutter DEF CallRequestStop
  <1>4. CASE RunStep
    <2>1. CASE RunBegin
      <3>1. CASE io = "open"
        BY <2>1, <3>1, ContractStutter DEF RunBegin
      <3>2. CASE io # "open"
        <4>1. /\ pc["run"] = "begin" /\ pc'["run"] = "crashed"
              /\ closeReason' = closeReason /\ ssh' = ssh
          BY <2>1, <3>2 DEF RunBegin
        <4>2. io = "closed" /\ closeReason # ""
          BY <3>2 DEF ReasonFirst, NoReason
        <4>3. Contract!Next
          BY <4>1, <4>2, ContractEnd
        <4> QED
          BY <4>3
      <3> QED
        BY <3>1, <3>2
    <2>2. CASE RunLoop \/ RunIdleCheck \/ RunClose
      BY <2>2, ContractStutter DEF RunLoop, RunIdleCheck, RunClose
    <2>3. CASE RunTerminate
      BY <2>3, ContractDrop DEF RunTerminate, TerminateProcess
    <2>4. CASE RunFinal
      BY <2>4, ContractEnd DEF RunFinal, KeepFirst, ReasonFirst, TornDown, NoReason
    <2> QED
      BY <1>2, <1>4, <2>1, <2>2, <2>3, <2>4 DEF RunStep
  <1>5. CASE Environment
    BY <1>5, ContractDrop DEF Environment, ClientSend, ClientLeave, SshOutput, SshExit,
                              IdleElapses
  <1>6. CASE UNCHANGED vars
    BY <1>6, ContractStutter DEF vars
  <1> QED
    BY <1>1, <1>2, <1>3, <1>4, <1>5, <1>6 DEF Next

\* Every behaviour of the detailed session is one the contract allows.
THEOREM Refinement == Spec => ImplementsContract
  <1>1. Init => Contract!Init
    BY ThreadFacts DEF Init, Contract!Init, NoReason
  <1> QED
    BY <1>1, ContractStep, Invariant, PTL DEF Spec, ImplementsContract, Contract!Spec
=============================================================================
