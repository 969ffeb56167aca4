--------------------------- MODULE SessionRuntime ---------------------------
(***************************************************************************)
(* One client session of the worker: class SessionRuntime of               *)
(* tunnel_admin/tunnel.py.  The handler thread executes run(); it starts   *)
(* an upload pump (client socket -> ssh stdin) and a download pump (ssh    *)
(* stdout -> client socket); other threads may call request_stop() as      *)
(* soon as the session is registered, even before run() starts.            *)
(*                                                                         *)
(* Each step is one critical section of _lock, one blocking call, or one   *)
(* flag update.  Data is counted in chunks.  The stderr thread only        *)
(* collects text and is left out.                                          *)
(***************************************************************************)
EXTENDS Naturals

CONSTANTS
    Stoppers,     \* outside callers of request_stop, each named by its reason
    IdleTimeout,  \* endpoint["idle_timeout"] # 0
    MaxChunks     \* bound: chunks each side ever offers to the session

NoReason == ""
Pumps == {"up", "down"}
PumpReasons == {"client_closed", "client_unreachable",
                "ssh_pipe_broken", "ssh_channel_closed"}
FallbackReasons == {"ssh_failed", "closed"}
Reasons == PumpReasons \cup FallbackReasons \cup {"idle_timeout"} \cup Stoppers
Threads == {"run"} \cup Pumps \cup Stoppers

ASSUME SessionAssumption ==
    /\ Stoppers \cap ({NoReason, "run", "idle_timeout"} \cup Pumps
                        \cup PumpReasons \cup FallbackReasons) = {}
    /\ IdleTimeout \in BOOLEAN
    /\ MaxChunks \in Nat

VARIABLES
    pc,          \* where each thread is
    closeReason, \* close_reason
    stopEvent,   \* stop_event
    io,          \* our handles: client_socket and the three ssh pipes
    ssh,         \* the ssh -W process: alive, or its exit code
    client,      \* the peer: open, fin (closed its sending side), rst
    offered,     \* chunks the source of each pump has made available
    taken,       \* chunks each pump has read
    passed,      \* chunks each pump has written to its sink
    counted,     \* bytes_up / bytes_down
    pending,     \* the reason a pump is about to mark
    quiet,       \* time.time() - last_activity_at > idle_timeout
    final        \* the snapshot run() returns

vars == <<pc, closeReason, stopEvent, io, ssh, client, offered, taken,
          passed, counted, pending, quiet, final>>
flow == <<offered, taken, passed, counted>>

NotFinal == [reason |-> NoReason, up |-> 0, down |-> 0, exit |-> "alive"]

Init ==
    /\ pc = [t \in Threads |-> IF t = "run" THEN "begin"
                               ELSE IF t \in Pumps THEN "unborn" ELSE "off"]
    /\ closeReason = NoReason
    /\ stopEvent = FALSE
    /\ io = "open"
    /\ ssh \in {"alive", "zero", "nonzero"}   \* it may die before run() starts
    /\ client = "open"
    /\ offered = [p \in Pumps |-> 0]
    /\ taken = [p \in Pumps |-> 0]
    /\ passed = [p \in Pumps |-> 0]
    /\ counted = [p \in Pumps |-> 0]
    /\ pending = [p \in Pumps |-> NoReason]
    /\ quiet = FALSE
    /\ final = NotFinal

Goto(t, l) == pc' = [pc EXCEPT ![t] = l]

\* Variants with a plausible mistake, used to show that the properties can
\* fail, stand before the definition they vary and are named Wrong...
WrongKeepLast(r) == closeReason' = r
WrongSignalOnly == UNCHANGED ssh          \* terminate() without waiting

\* close_reason is assigned only while it is empty (under _lock).
KeepFirst(r) == closeReason' = IF closeReason = NoReason THEN r ELSE closeReason

\* terminate, wait, kill, wait: the process is dead when the call returns.
TerminateProcess == ssh' = IF ssh = "alive" THEN "nonzero" ELSE ssh

-----------------------------------------------------------------------------
\* The pumps.

\* The loop condition of both pumps: leave once stop_event is set.
PumpCheck(p) ==
    /\ pc[p] = "check"
    /\ Goto(p, IF stopEvent THEN "setstop" ELSE "read")
    /\ UNCHANGED <<closeReason, stopEvent, io, ssh, client, flow, pending, quiet, final>>

\* recv / read returns data.
PumpRead(p) ==
    /\ pc[p] = "read"
    /\ taken[p] < offered[p]
    /\ p = "up" => io = "open"
    /\ taken' = [taken EXCEPT ![p] = @ + 1]
    /\ Goto(p, "write")
    /\ UNCHANGED <<closeReason, stopEvent, io, ssh, client, offered, passed,
                   counted, pending, quiet, final>>

WrongRetry(p) ==    \* `continue` that skips the test of stop_event
    /\ p = "up" /\ pc[p] = "read"
    /\ UNCHANGED vars

\* recv on the client socket has a timeout of one second; the read of ssh
\* stdout has none.
PumpReadTimeout(p) ==
    /\ p = "up"
    /\ pc[p] = "read"
    /\ taken[p] = offered[p]
    /\ client = "open"
    /\ io = "open"
    /\ Goto(p, "check")
    /\ UNCHANGED <<closeReason, stopEvent, io, ssh, client, flow, pending, quiet, final>>

\* The reasons with which a read can end now.  A socket we have shut down
\* reads as end of file or as an error, whatever was still unread.
ReadEndReasons(p) ==
    IF p = "up"
    THEN (IF client = "fin" /\ taken[p] = offered[p] THEN {"client_closed"} ELSE {})
         \cup (IF client = "rst" THEN {"client_unreachable"} ELSE {})
         \cup (IF io = "closed" THEN {"client_closed", "client_unreachable"} ELSE {})
    ELSE (IF ssh # "alive" /\ taken[p] = offered[p] THEN {"ssh_channel_closed"} ELSE {})

PumpReadEnd(p) ==
    /\ pc[p] = "read"
    /\ \E r \in ReadEndReasons(p) : pending' = [pending EXCEPT ![p] = r]
    /\ Goto(p, "mark")
    /\ UNCHANGED <<closeReason, stopEvent, io, ssh, client, flow, quiet, final>>

\* write to ssh stdin blocks for as long as ssh does not read; sendall to the
\* client gives up after a second.
PumpWrite(p) ==
    /\ pc[p] = "write"
    /\ IF p = "up" THEN ssh = "alive" ELSE io = "open" /\ client # "rst"
    /\ passed' = [passed EXCEPT ![p] = @ + 1]
    /\ Goto(p, "count")
    /\ UNCHANGED <<closeReason, stopEvent, io, ssh, client, offered, taken,
                   counted, pending, quiet, final>>

\* A broken pipe once ssh is dead; a sendall that fails or times out.
PumpWriteFail(p) ==
    /\ pc[p] = "write"
    /\ p = "up" => ssh # "alive"
    /\ pending' = [pending EXCEPT ![p] =
                      IF p = "up" THEN "ssh_pipe_broken" ELSE "client_unreachable"]
    /\ Goto(p, "mark")
    /\ UNCHANGED <<closeReason, stopEvent, io, ssh, client, flow, quiet, final>>

\* A call on a pipe handle that was closed before the call began raises
\* ValueError, which no handler catches: the thread dies on the spot.  If the
\* close hits between the check and the system call it is an OSError.
PumpOnClosedPipe(p) ==
    /\ io = "closed"
    /\ pc[p] = IF p = "up" THEN "write" ELSE "read"
    /\ \/ /\ Goto(p, "dead")
          /\ UNCHANGED pending
       \/ /\ Goto(p, "mark")
          /\ pending' = [pending EXCEPT ![p] = "ssh_pipe_broken"]
    /\ UNCHANGED <<closeReason, stopEvent, io, ssh, client, flow, quiet, final>>

\* _mark_bytes
PumpCount(p) ==
    /\ pc[p] = "count"
    /\ counted' = [counted EXCEPT ![p] = @ + 1]
    /\ quiet' = FALSE
    /\ Goto(p, "check")
    /\ UNCHANGED <<closeReason, stopEvent, io, ssh, client, offered, taken,
                   passed, pending, final>>

WrongUnmarked(p) ==     \* the pump leaves without a reason
    /\ pc[p] = "mark"
    /\ Goto(p, "setstop")
    /\ UNCHANGED <<closeReason, stopEvent, io, ssh, client, flow, pending, quiet, final>>

WrongReason(p) ==       \* a reason nobody knows
    /\ pc[p] = "mark"
    /\ KeepFirst("read_failed")
    /\ Goto(p, "setstop")
    /\ UNCHANGED <<stopEvent, io, ssh, client, flow, pending, quiet, final>>

\* _mark_close_reason
PumpMark(p) ==
    /\ pc[p] = "mark"
    /\ KeepFirst(pending[p])
    /\ pending' = [pending EXCEPT ![p] = NoReason]
    /\ Goto(p, "setstop")
    /\ UNCHANGED <<stopEvent, io, ssh, client, flow, quiet, final>>

\* The last statement of a pump.
PumpSetStop(p) ==
    /\ pc[p] = "setstop"
    /\ stopEvent' = TRUE
    /\ Goto(p, "dead")
    /\ UNCHANGED <<closeReason, io, ssh, client, flow, pending, quiet, final>>

-----------------------------------------------------------------------------
\* request_stop, called by an outside thread or by run() itself.

\* Another thread has looked the session up in the registry, from which it
\* is removed only after run() has returned.
CallRequestStop(t) ==
    /\ t \in Stoppers
    /\ pc[t] = "off"
    /\ pc["run"] # "done"
    /\ Goto(t, "reason")
    /\ UNCHANGED <<closeReason, stopEvent, io, ssh, client, flow, pending, quiet, final>>

StopReason(t) ==
    /\ pc[t] = "reason"
    /\ KeepFirst(IF t = "run" THEN "idle_timeout" ELSE t)
    /\ Goto(t, "event")
    /\ UNCHANGED <<stopEvent, io, ssh, client, flow, pending, quiet, final>>

StopSetEvent(t) ==
    /\ pc[t] = "event"
    /\ stopEvent' = TRUE
    /\ Goto(t, "closeio")
    /\ UNCHANGED <<closeReason, io, ssh, client, flow, pending, quiet, final>>

StopCloseIo(t) ==
    /\ pc[t] = "closeio"
    /\ io' = "closed"
    /\ Goto(t, "kill")
    /\ UNCHANGED <<closeReason, stopEvent, ssh, client, flow, pending, quiet, final>>

WrongStopOnlyCloses(t) ==   \* trusts that closing the pipes wakes the pumps
    /\ pc[t] = "kill"
    /\ Goto(t, IF t = "run" THEN "terminate" ELSE "returned")
    /\ UNCHANGED <<closeReason, stopEvent, io, ssh, client, flow, pending, quiet, final>>

StopTerminate(t) ==
    /\ pc[t] = "kill"
    /\ TerminateProcess
    /\ Goto(t, IF t = "run" THEN "terminate" ELSE "returned")
    /\ UNCHANGED <<closeReason, stopEvent, io, client, flow, pending, quiet, final>>

-----------------------------------------------------------------------------
\* run()

\* settimeout on a socket that request_stop has already closed raises
\* OSError, which leaves run() and the handler thread.
RunBegin ==
    /\ pc["run"] = "begin"
    /\ IF io = "open"
       THEN pc' = [pc EXCEPT !["run"] = "loop", !["up"] = "check", !["down"] = "check"]
       ELSE Goto("run", "crashed")
    /\ UNCHANGED <<closeReason, stopEvent, io, ssh, client, flow, pending, quiet, final>>

PumpsDead == \A p \in Pumps : pc[p] = "dead"

WrongLeaveOnStop ==     \* leaves the loop on stop_event, not with the pumps
    /\ pc["run"] = "loop"
    /\ Goto("run", IF stopEvent THEN "terminate" ELSE "idle")
    /\ UNCHANGED <<closeReason, stopEvent, io, ssh, client, flow, pending, quiet, final>>

\* While a pump lives, look at the idle timeout only if stop_event is clear.
RunLoop ==
    /\ pc["run"] = "loop"
    /\ \/ PumpsDead /\ Goto("run", "terminate")
       \/ ~PumpsDead /\ ~stopEvent /\ Goto("run", "idle")
    /\ UNCHANGED <<closeReason, stopEvent, io, ssh, client, flow, pending, quiet, final>>

RunIdleCheck ==
    /\ pc["run"] = "idle"
    /\ Goto("run", IF IdleTimeout /\ quiet THEN "reason" ELSE "loop")
    /\ UNCHANGED <<closeReason, stopEvent, io, ssh, client, flow, pending, quiet, final>>

RunTerminate ==
    /\ pc["run"] = "terminate"
    /\ TerminateProcess
    /\ Goto("run", "close")
    /\ UNCHANGED <<closeReason, stopEvent, io, client, flow, pending, quiet, final>>

RunClose ==
    /\ pc["run"] = "close"
    /\ io' = "closed"
    /\ Goto("run", "final")
    /\ UNCHANGED <<closeReason, stopEvent, ssh, client, flow, pending, quiet, final>>

WrongFinalFromReads ==  \* records what was read, not what was forwarded
    /\ pc["run"] = "final"
    /\ KeepFirst("closed")
    /\ final' = [reason |-> closeReason', up |-> taken["up"],
                 down |-> taken["down"], exit |-> ssh]
    /\ Goto("run", "done")
    /\ UNCHANGED <<stopEvent, io, ssh, client, flow, pending, quiet>>

\* The exit code, the reason of last resort and the closing snapshot.
RunFinal ==
    /\ pc["run"] = "final"
    /\ KeepFirst(IF ssh = "nonzero" THEN "ssh_failed" ELSE "closed")
    /\ final' = [reason |-> closeReason', up |-> counted["up"],
                 down |-> counted["down"], exit |-> ssh]
    /\ Goto("run", "done")
    /\ UNCHANGED <<stopEvent, io, ssh, client, flow, pending, quiet>>

-----------------------------------------------------------------------------
\* The peers and the clock.

ClientSend ==
    /\ client = "open" /\ io = "open"
    /\ offered["up"] < MaxChunks
    /\ offered' = [offered EXCEPT !["up"] = @ + 1]
    /\ UNCHANGED <<pc, closeReason, stopEvent, io, ssh, client, taken, passed,
                   counted, pending, quiet, final>>

\* The client closes its sending side, or resets the connection.
ClientLeave ==
    /\ \/ client = "open" /\ client' = "fin"
       \/ client # "rst" /\ client' = "rst"
    /\ UNCHANGED <<pc, closeReason, stopEvent, io, ssh, flow, pending, quiet, final>>

SshOutput ==
    /\ ssh = "alive"
    /\ offered["down"] < MaxChunks
    /\ offered' = [offered EXCEPT !["down"] = @ + 1]
    /\ UNCHANGED <<pc, closeReason, stopEvent, io, ssh, client, taken, passed,
                   counted, pending, quiet, final>>

SshExit ==
    /\ ssh = "alive"
    /\ ssh' \in {"zero", "nonzero"}
    /\ UNCHANGED <<pc, closeReason, stopEvent, io, client, flow, pending, quiet, final>>

\* The idle timeout elapses since the last counted chunk.
IdleElapses ==
    /\ IdleTimeout /\ ~quiet
    /\ quiet' = TRUE
    /\ UNCHANGED <<pc, closeReason, stopEvent, io, ssh, client, flow, pending, final>>

-----------------------------------------------------------------------------
PumpStep(p) ==
    \/ PumpCheck(p) \/ PumpRead(p) \/ PumpReadTimeout(p) \/ PumpReadEnd(p)
    \/ PumpWrite(p) \/ PumpWriteFail(p) \/ PumpOnClosedPipe(p)
    \/ PumpCount(p) \/ PumpMark(p) \/ PumpSetStop(p)

RequestStopStep(t) ==
    StopReason(t) \/ StopSetEvent(t) \/ StopCloseIo(t) \/ StopTerminate(t)

RunStep ==
    \/ RunBegin \/ RunLoop \/ RunIdleCheck \/ RequestStopStep("run")
    \/ RunTerminate \/ RunClose \/ RunFinal

Environment ==
    ClientSend \/ ClientLeave \/ SshOutput \/ SshExit \/ IdleElapses

Next ==
    \/ RunStep
    \/ \E p \in Pumps : PumpStep(p)
    \/ \E t \in Stoppers : CallRequestStop(t) \/ RequestStopStep(t)
    \/ Environment

Spec == Init /\ [][Next]_vars

\* What a scheduled pump must eventually do.  Two outcomes are not promised:
\* that ssh ever drains its stdin, and that a call blocked on a pipe notices
\* that another thread has closed the handle.
PumpProgress(p) ==
    \/ PumpCheck(p) \/ PumpRead(p) \/ PumpReadTimeout(p) \/ PumpReadEnd(p)
    \/ (p = "down" /\ PumpWrite(p)) \/ PumpWriteFail(p)
    \/ PumpCount(p) \/ PumpMark(p) \/ PumpSetStop(p)

\* Every thread is scheduled and the clock advances; the peers owe nothing.
Fairness ==
    /\ WF_vars(RunStep)
    /\ \A p \in Pumps : WF_vars(PumpProgress(p))
    /\ \A t \in Stoppers : WF_vars(RequestStopStep(t))
    /\ WF_vars(IdleElapses)

FairSpec == Spec /\ Fairness

-----------------------------------------------------------------------------
\* Properties.

TypeOK ==
    /\ pc \in [Threads -> {"off", "unborn", "begin", "check", "read", "write",
                           "count", "mark", "setstop", "dead", "reason", "event",
                           "closeio", "kill", "returned", "loop", "idle",
                           "terminate", "close", "final", "done", "crashed"}]
    /\ closeReason \in Reasons \cup {NoReason}
    /\ stopEvent \in BOOLEAN
    /\ io \in {"open", "closed"}
    /\ ssh \in {"alive", "zero", "nonzero"}
    /\ client \in {"open", "fin", "rst"}
    /\ offered \in [Pumps -> 0..MaxChunks]
    /\ taken \in [Pumps -> Nat] /\ passed \in [Pumps -> Nat]
    /\ counted \in [Pumps -> Nat]
    /\ pending \in [Pumps -> PumpReasons \cup {NoReason}]
    /\ quiet \in BOOLEAN
    /\ final \in [reason : Reasons \cup {NoReason}, up : Nat, down : Nat,
                  exit : {"alive", "zero", "nonzero"}]

RunEnded == pc["run"] \in {"done", "crashed"}

\* Whoever ends a session says why before anything shows that it is ending:
\* stop_event, a closed handle, a pump that is gone or run() past its loop.
\* So the record's reason is always that of the first cause, and the reasons
\* of last resort of run() ("ssh_failed", "closed") are never recorded.
EndingHasAReason ==
    /\ \/ stopEvent
       \/ io = "closed"
       \/ \E p \in Pumps : pc[p] = "dead"
       \/ pc["run"] \in {"terminate", "close", "final", "done", "crashed"}
       => closeReason # NoReason
    /\ closeReason \notin FallbackReasons

\* A record that blames the natural end of a stream is true of the data: with
\* "client_closed" all that the client sent has reached the stdin of ssh, with
\* "ssh_channel_closed" all that ssh put out was sent to the client.  A stop
\* that makes a read end early must not be recorded as such.
NaturalEndIsComplete ==
    /\ closeReason = "client_closed" => passed["up"] = offered["up"]
    /\ closeReason = "ssh_channel_closed" => passed["down"] = offered["down"]

\* The byte counts of the closing record are those of the data that passed.
\* run() leaves its loop with the pumps still alive only after an idle
\* timeout, and then a pump may be between its write and its count.
RecordCountsWhatPassed ==
    pc["run"] = "done" =>
        \A p \in Pumps :
            LET recorded == IF p = "up" THEN final.up ELSE final.down
            IN  /\ recorded <= passed[p]
                /\ passed[p] - recorded <= IF IdleTimeout THEN 1 ELSE 0

\* No data moves once the closing record is taken, though pumps may still run.
NothingMovesAfterRecord == [][pc["run"] = "done" => passed' = passed]_vars

\* The detailed session implements the contract of SessionContract.
Contract == INSTANCE SessionContract WITH
    Blames <- PumpReasons \cup {"idle_timeout"} \cup Stoppers,
    life <- CASE pc["run"] = "done" -> "recorded"
              [] pc["run"] = "crashed" -> "lost"
              [] OTHER -> "open",
    reason <- closeReason,
    channel <- IF ssh = "alive" THEN "up" ELSE "down"

ImplementsContract == Contract!Spec

\* A stop request ends the session, whatever the pumps are blocked in and
\* whether or not the peers react.
StopEndsSession ==
    \A t \in Stoppers : pc[t] = "reason" ~> (RunEnded /\ ssh # "alive")

\* The session does not outlive its ssh process.
SshExitEndsSession == (ssh # "alive") ~> RunEnded

\* What the readme promises of the idle timeout: a session without traffic
\* ends.
IdleSessionEnds == IdleTimeout => (<>[]quiet => <>RunEnded)
=============================================================================
