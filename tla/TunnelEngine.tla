---------------------------- MODULE TunnelEngine ----------------------------
(***************************************************************************)
(* The engine of a worker: classes EndpointListener and TunnelEngine of    *)
(* tunnel_admin/tunnel.py with the session store of worker.py, as the      *)
(* worker uses them: one endpoint, started once by the main thread and     *)
(* shut down once; every accepted connection is served by a handler thread *)
(* of its own; the mirror thread calls disconnect_session.                 *)
(*                                                                         *)
(* A step is one critical section of TunnelEngine._lock, one call out of   *)
(* the engine, or one test.  A session is seen as SessionContract          *)
(* describes it; request_stop is one step here, its inner steps are those  *)
(* of SessionRuntime.                                                      *)
(***************************************************************************)
EXTENDS Naturals, FiniteSets, Functions

CONSTANTS
    Clients,          \* connections ever made, each served by one handler
    MaxClients,       \* endpoint["max_clients"], 0 for no limit
    CallbackMayFail   \* event_callback may raise (worker.py: two threads
                      \* replacing the same temporary file)

Nobody == "nobody"

ASSUME EngineAssumption ==
    /\ IsFiniteSet(Clients) /\ Nobody \notin Clients
    /\ MaxClients \in Nat
    /\ CallbackMayFail \in BOOLEAN

VARIABLES
    main,      \* the main thread: start, listening, serving, stopping, closing,
               \* down, failed
    toStop,    \* stop_endpoint: the sessions it still has to stop
    accepting, \* the accept thread: off, check, accept, over
    stopFlag,  \* EndpointListener.stop_event
    socket,    \* the listening socket: closed or open
    handler,   \* where the handler of each client is
    sid,       \* the session id of each client, 0 before create_session_record
    nextId,    \* InMemorySessionStore._next_session_id
    sessions,  \* TunnelEngine._sessions: id -> the session (its client)
    reason,    \* close_reason of each session
    ssh,       \* its ssh process: none, alive, dead
    target,    \* disconnect_session: the session looked up, if any
    crowded    \* history: two clients were let in before either was registered

vars == <<main, toStop, accepting, stopFlag, socket, handler, sid, nextId,
          sessions, reason, ssh, target, crowded>>
listenerVars == <<main, toStop, accepting, stopFlag, socket>>
sessionVars == <<sid, nextId, sessions, reason, ssh>>

NoReason == ""
Registered == Range(sessions)

Init ==
    /\ main = "start" /\ toStop = {}
    /\ accepting = "off" /\ stopFlag = FALSE /\ socket = "closed"
    /\ handler = [c \in Clients |-> "away"]
    /\ sid = [c \in Clients |-> 0] /\ nextId = 1
    /\ sessions = [i \in {} |-> Nobody]
    /\ reason = [c \in Clients |-> NoReason]
    /\ ssh = [c \in Clients |-> "none"]
    /\ target = Nobody
    /\ crowded = FALSE

\* A handler that an exception ended: in the announcement of its session, in
\* run(), or in the announcement of the end.
Dead == {"unannounced", "crashed", "unheard"}

Step(c, from, to) ==
    /\ handler[c] = from
    /\ handler' = [handler EXCEPT ![c] = to]

\* Variants with a plausible mistake, used to show that the properties can
\* fail, are named Wrong...
WrongStopKeepsSsh(c, r) ==   \* only marks the session
    /\ reason' = [reason EXCEPT ![c] = IF @ = NoReason THEN r ELSE @]
    /\ UNCHANGED ssh

\* SessionRuntime.request_stop: keep the first reason, end the process.
RequestStop(c, r) ==
    /\ reason' = [reason EXCEPT ![c] = IF @ = NoReason THEN r ELSE @]
    /\ ssh' = [ssh EXCEPT ![c] = "dead"]

-----------------------------------------------------------------------------
\* The main thread: start_endpoint, shutdown and stop_endpoint.

\* ssh missing, an invalid endpoint, a failed probe or a failed bind.
StartFails ==
    /\ main = "start"
    /\ main' = "failed"
    /\ UNCHANGED <<toStop, accepting, stopFlag, socket, handler, sessionVars, target, crowded>>

\* EndpointListener.start: the listener accepts before it is registered.
StartListener ==
    /\ main = "start"
    /\ main' = "listening" /\ accepting' = "check" /\ socket' = "open"
    /\ UNCHANGED <<toStop, stopFlag, handler, sessionVars, target, crowded>>

RegisterListener ==
    /\ main = "listening"
    /\ main' = "serving"
    /\ UNCHANGED <<toStop, accepting, stopFlag, socket, handler, sessionVars, target, crowded>>

\* shutdown on a signal.  stop_endpoint drops the listener and takes the
\* sessions registered at this moment; later ones are not seen.
TakeSessions ==
    /\ main = "serving"
    /\ main' = "stopping"
    /\ toStop' = Registered
    /\ UNCHANGED <<accepting, stopFlag, socket, handler, sessionVars, target, crowded>>

StopSession(c) ==
    /\ main = "stopping" /\ c \in toStop
    /\ RequestStop(c, "service_shutdown")
    /\ toStop' = toStop \ {c}
    /\ UNCHANGED <<main, accepting, stopFlag, socket, handler, sid, nextId, sessions,
                   target, crowded>>

\* EndpointListener.stop: set the flag, close the socket, join for 1.5
\* seconds at most.
StopListener ==
    /\ main = "stopping" /\ toStop = {}
    /\ main' = "closing"
    /\ stopFlag' = TRUE
    /\ UNCHANGED <<toStop, accepting, socket, handler, sessionVars, target, crowded>>

CloseListener ==
    /\ main = "closing"
    /\ main' = "down"
    /\ socket' = "closed"
    /\ UNCHANGED <<toStop, accepting, stopFlag, handler, sessionVars, target, crowded>>

-----------------------------------------------------------------------------
\* The accept thread.

AcceptCheck ==
    /\ accepting = "check"
    /\ accepting' = IF stopFlag THEN "over" ELSE "accept"
    /\ UNCHANGED <<main, toStop, stopFlag, socket, handler, sessionVars, target, crowded>>

WrongRetryAccept ==        \* takes the error of a closed socket for a timeout
    /\ accepting = "accept" /\ socket = "open"
    /\ accepting' = "check"
    /\ UNCHANGED <<main, toStop, stopFlag, socket, handler, sessionVars, target, crowded>>

\* accept() times out after a second, or fails on the closed socket.
AcceptNobody ==
    /\ accepting = "accept"
    /\ accepting' = IF socket = "open" THEN "check" ELSE "over"
    /\ UNCHANGED <<main, toStop, stopFlag, socket, handler, sessionVars, target, crowded>>

Accept(c) ==
    /\ accepting = "accept" /\ socket = "open"
    /\ Step(c, "away", "accepted")
    /\ accepting' = "check"
    /\ UNCHANGED <<main, toStop, stopFlag, socket, sessionVars, target, crowded>>

-----------------------------------------------------------------------------
\* _handle_client

\* _client_allowed: the address is or is not within allowed_client_cidr.
CheckAddress(c) ==
    /\ \E answer \in {"allowed", "rejected"} : Step(c, "accepted", answer)
    /\ UNCHANGED <<listenerVars, sessionVars, target, crowded>>

\* _max_clients_reached counts the registered sessions under the lock, and
\* releases it.
MaxClientsReached ==
    MaxClients > 0 /\ Cardinality(DOMAIN sessions) >= MaxClients

\* Clients that passed the count and are not counted yet.
Admitted == {c \in Clients : handler[c] \in {"admitted", "spawned", "numbered"}}

WrongCheckMaxClients(c) ==     \* compares with > instead of >=
    /\ Step(c, "allowed", IF MaxClients > 0 /\ Cardinality(DOMAIN sessions) > MaxClients
                            THEN "rejected" ELSE "admitted")
    /\ crowded' = (crowded \/ (handler'[c] = "admitted" /\ Admitted # {}))
    /\ UNCHANGED <<listenerVars, sessionVars, target>>

CheckMaxClients(c) ==
    /\ Step(c, "allowed", IF MaxClientsReached THEN "rejected" ELSE "admitted")
    /\ crowded' = (crowded \/ (handler'[c] = "admitted" /\ Admitted # {}))
    /\ UNCHANGED <<listenerVars, sessionVars, target>>

\* _spawn_ssh_process: without the program the client is closed.
SpawnSsh(c) ==
    /\ \/ Step(c, "admitted", "rejected") /\ UNCHANGED ssh
       \/ Step(c, "admitted", "spawned") /\ ssh' = [ssh EXCEPT ![c] = "alive"]
    /\ UNCHANGED <<listenerVars, sid, nextId, sessions, reason, target, crowded>>

WrongIdFromCount(c) ==     \* ids are counted, not drawn
    /\ Step(c, "spawned", "numbered")
    /\ sid' = [sid EXCEPT ![c] = Cardinality(DOMAIN sessions) + 1]
    /\ UNCHANGED <<listenerVars, nextId, sessions, reason, ssh, target, crowded>>

\* create_session_record
CreateRecord(c) ==
    /\ Step(c, "spawned", "numbered")
    /\ sid' = [sid EXCEPT ![c] = nextId]
    /\ nextId' = nextId + 1
    /\ UNCHANGED <<listenerVars, sessions, reason, ssh, target, crowded>>

Register(c) ==
    /\ Step(c, "numbered", "registered")
    /\ sessions' = [i \in DOMAIN sessions \cup {sid[c]} |->
                        IF i = sid[c] THEN c ELSE sessions[i]]
    /\ UNCHANGED <<listenerVars, sid, nextId, reason, ssh, target, crowded>>

\* event_callback("session.opened"): nothing catches what it raises.
Announce(c) ==
    /\ \/ Step(c, "registered", "announced")
       \/ CallbackMayFail /\ Step(c, "registered", "unannounced")
    /\ UNCHANGED <<listenerVars, sessionVars, target, crowded>>

WrongDropOnCrash(c) ==       \* forgets the session whatever becomes of run()
    /\ Step(c, "announced", IF reason[c] = NoReason THEN "running" ELSE "crashed")
    /\ sessions' = [i \in DOMAIN sessions \ {sid[c]} |-> sessions[i]]
    /\ UNCHANGED <<listenerVars, sid, nextId, reason, ssh, target, crowded>>

\* run() begins; on a session already stopped its first statement raises.
RunSession(c) ==
    /\ Step(c, "announced", IF reason[c] = NoReason THEN "running" ELSE "crashed")
    /\ UNCHANGED <<listenerVars, sessionVars, target, crowded>>

\* A pump, the peer or the idle timeout ends the session; run() returns only
\* then, or once the session was stopped.
EndByItself(c) ==
    /\ handler[c] = "running" /\ reason[c] = NoReason
    /\ RequestStop(c, "own")
    /\ UNCHANGED <<listenerVars, handler, sid, nextId, sessions, target, crowded>>

WrongRunReturns(c) ==      \* run() returns as soon as it is asked to end
    /\ Step(c, "running", "ended")
    /\ UNCHANGED <<listenerVars, sessionVars, target, crowded>>

RunReturns(c) ==
    /\ reason[c] # NoReason /\ ssh[c] = "dead"
    /\ Step(c, "running", "ended")
    /\ UNCHANGED <<listenerVars, sessionVars, target, crowded>>

Unregister(c) ==
    /\ Step(c, "ended", "unregistered")
    /\ sessions' = [i \in DOMAIN sessions \ {sid[c]} |-> sessions[i]]
    /\ UNCHANGED <<listenerVars, sid, nextId, reason, ssh, target, crowded>>

\* close_session_record keeps nothing; then event_callback("session.closed").
Close(c) ==
    /\ \/ Step(c, "unregistered", "gone")
       \/ CallbackMayFail /\ Step(c, "unregistered", "unheard")
    /\ UNCHANGED <<listenerVars, sessionVars, target, crowded>>

-----------------------------------------------------------------------------
\* disconnect_session on the mirror thread, which is started when the listener
\* has been: find the session under the lock, stop it after it is released.
FindSession(i) ==
    /\ main \notin {"start", "listening", "failed"}
    /\ target = Nobody
    /\ i \in DOMAIN sessions
    /\ target' = sessions[i]
    /\ UNCHANGED <<listenerVars, handler, sessionVars, crowded>>

StopTarget ==
    /\ target # Nobody
    /\ RequestStop(target, "admin_disconnect")
    /\ target' = Nobody
    /\ UNCHANGED <<listenerVars, handler, sid, nextId, sessions, crowded>>

\* collect_runtime_metrics
ActiveConnections == Cardinality(DOMAIN sessions)

-----------------------------------------------------------------------------
MainStep ==
    \/ StartFails \/ StartListener \/ RegisterListener \/ TakeSessions
    \/ \E c \in Clients : StopSession(c)
    \/ StopListener \/ CloseListener

HandlerStep(c) ==
    \/ CheckAddress(c) \/ CheckMaxClients(c) \/ SpawnSsh(c) \/ CreateRecord(c)
    \/ Register(c) \/ Announce(c) \/ RunSession(c) \/ RunReturns(c)
    \/ Unregister(c) \/ Close(c)

Next ==
    \/ MainStep
    \/ AcceptCheck \/ AcceptNobody
    \/ \E c \in Clients :
        Accept(c) \/ HandlerStep(c) \/ EndByItself(c)
    \/ \E i \in DOMAIN sessions : FindSession(i)
    \/ StopTarget

Spec == Init /\ [][Next]_vars

\* All threads are scheduled.  Nobody has to connect, to end a session or to
\* send the signal.
Fairness ==
    /\ WF_vars(MainStep /\ main # "serving")
    /\ WF_vars(AcceptCheck) /\ WF_vars(AcceptNobody)
    /\ \A c \in Clients : WF_vars(HandlerStep(c))
    /\ WF_vars(StopTarget)

FairSpec == Spec /\ Fairness

-----------------------------------------------------------------------------
\* Properties.

TypeOK ==
    /\ main \in {"start", "listening", "serving", "stopping", "closing", "down", "failed"}
    /\ toStop \subseteq Clients
    /\ accepting \in {"off", "check", "accept", "over"}
    /\ stopFlag \in BOOLEAN
    /\ socket \in {"open", "closed"}
    /\ handler \in [Clients -> {"away", "accepted", "rejected", "allowed", "admitted",
                        "spawned", "numbered", "registered", "announced", "running",
                        "ended", "unregistered", "gone"} \cup Dead]
    /\ sid \in [Clients -> Nat]
    /\ nextId \in Nat \ {0}
    /\ DOMAIN sessions \subseteq 1..(nextId - 1)
    /\ Registered \subseteq Clients
    /\ reason \in [Clients -> {NoReason, "own", "service_shutdown", "admin_disconnect"}]
    /\ ssh \in [Clients -> {"none", "alive", "dead"}]
    /\ target \in Clients \cup {Nobody}
    /\ crowded \in BOOLEAN

\* From its registration until run() has returned, a session is found under
\* its own id, so that it can be listed, counted and disconnected; when its
\* end is announced it is no longer listed.
RegistryIsExact ==
    \A c \in Clients :
        /\ handler[c] \in {"registered", "announced", "running", "ended"} =>
               sid[c] \in DOMAIN sessions /\ sessions[sid[c]] = c
        /\ handler[c] \in {"unregistered", "gone"} => c \notin Registered

\* Every ssh process is in somebody's hands: a handler that is still setting
\* up its session, or the registry, where a disconnect finds it even after
\* its handler has died.
NoOrphanSsh ==
    \A c \in Clients :
        ssh[c] = "alive" => handler[c] \in {"spawned", "numbered"} \/ c \in Registered

\* A disconnect reaches the session it looked up even if that session ends
\* and leaves the registry meanwhile; one that is asked for while the
\* session runs always ends it.
StopEndsSession ==
    \A c \in Clients :
        handler[c] = "running" /\ (c \in toStop \/ target = c)
            ~> handler[c] \in {"gone", "unheard"}

\* A shutdown drops the listener: the accept thread ends.
ShutdownEndsAccept == main = "stopping" ~> accepting = "over"

\* The readme's "max clients": an endpoint has no more sessions than its
\* limit.  The count and the registration are two critical sections, so this
\* holds only until a client is let in while another is being set up.
MaxClientsRespected == MaxClients > 0 /\ ~crowded => ActiveConnections <= MaxClients

\* What SessionContract promises of a session, the engine keeps: every stop it
\* asks for, whichever thread asks, and every end of a handler is a step of the
\* contract of that session.  Its record is the return of run().
Life(c) ==
    CASE handler[c] \in {"ended", "unregistered", "gone", "unheard"} -> "recorded"
      [] handler[c] = "crashed" -> "lost"
      [] OTHER -> "open"

Channel(c) == IF ssh[c] = "dead" THEN "down" ELSE "up"

Contract(c) == INSTANCE SessionContract WITH
    Blames <- {"own", "service_shutdown", "admin_disconnect"},
    life <- Life(c), reason <- reason[c], channel <- Channel(c)

KeepsContracts ==
    /\ \A c \in Clients : Contract(c)!Init
    /\ [][\A c \in Clients : [Contract(c)!Next]_(Contract(c)!vars)]_vars

\* The readme's realtime monitoring: a client that is shown as connected has
\* somebody serving it.
NoGhostSession == \A c \in Clients : handler[c] \in Dead => c \notin Registered
=============================================================================
