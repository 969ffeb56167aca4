---------------------------- MODULE RuntimeMirror ----------------------------
(***************************************************************************)
(* The files a worker and the control plane talk through: runtime.json,    *)
(* which every thread of the worker replaces by way of one temporary file  *)
(* (RuntimeStateMirror.write_snapshot of tunnel_admin/worker.py), and the  *)
(* command files the control plane leaves (disconnect_session of           *)
(* docker_runtime.py) for the mirror thread to execute.  start.sh deletes  *)
(* these files, also under a worker that runs, when the admin is restarted.*)
(*                                                                         *)
(* Workers of one endpoint follow each other; the files stay, the session  *)
(* ids start again.  A name of a file is followed rather than its inode:   *)
(* an open handle writes to whatever the file it opened is called now.     *)
(***************************************************************************)
EXTENDS Naturals, FiniteSets

CONSTANTS
    Handlers,     \* connection handlers of one worker, one session each
    Clicks,       \* disconnects asked for by the admin
    MaxWorkers    \* bound on the workers that follow each other

Nobody == "nobody"

ASSUME MirrorAssumption ==
    /\ IsFiniteSet(Handlers) /\ IsFiniteSet(Clicks)
    /\ Handlers \cap {Nobody, "main", "mirror"} = {}
    /\ MaxWorkers \in Nat \ {0}

Writers == {"main", "mirror"} \cup Handlers

VARIABLES
    worker,     \* number of the current worker
    main,       \* its main thread: starting, error, bound, started, serving,
                \* stopping, last, quitting, and exited, crashed, killed once it
                \* is over
    phase,      \* RuntimeStateMirror._phase
    quit,       \* RuntimeStateMirror._stop_event
    mirror,     \* the mirror thread: off, waiting, commands, unlinking,
                \* writing, over, dead
    batch,      \* the command files it still has to execute in this round
    inHand,     \* the one it has executed and has to remove
    handler,    \* each handler: away, opening, running, closing, gone; stuck and
                \* lost are dead ones, before and after the session was forgotten
    sid,        \* the id of its session
    nextId,     \* InMemorySessionStore._next_session_id
    stopped,    \* handlers whose session is registered and was asked to end
    pen,        \* where each thread is in write_snapshot: none, build,
                \* open, write, rename
    built,      \* the snapshot it has built and not written
    handle,     \* the file its open handle writes to: none, tmp, json, unnamed
    tmp, json,  \* the two files
    click,      \* each disconnect and its command file: none, picked, empty,
                \* whole, gone; lost if start.sh has removed it unread
    crossed     \* history: two threads have been in write_snapshot at once, or
                \* start.sh has removed the file that one was writing

fileVars == <<pen, built, handle, tmp, json, crossed>>
sessionVars == <<handler, sid, nextId, stopped>>
commandVars == <<batch, inHand, click>>
vars == <<worker, main, phase, quit, mirror, fileVars, sessionVars, commandVars>>

Over == {"exited", "crashed", "killed"}
Up == main \notin Over

NoSnapshot == [worker |-> 0, phase |-> "none", listed |-> {}]
Absent == [is |-> "absent", of |-> NoSnapshot]
Removed == [is |-> "removed", of |-> NoSnapshot]    \* absent again, by start.sh
Empty == [is |-> "empty", of |-> NoSnapshot]
Torn == [is |-> "torn", of |-> NoSnapshot]
Whole(s) == [is |-> "whole", of |-> s]

NotClicked == [is |-> "none", id |-> 0, who |-> Nobody, worker |-> 0]

Registered == {h \in Handlers : handler[h] \in {"opening", "running", "stuck"}}

Init ==
    /\ worker = 1 /\ main = "starting" /\ phase = "starting" /\ quit = FALSE
    /\ mirror = "off" /\ batch = {} /\ inHand = Nobody
    /\ handler = [h \in Handlers |-> "away"] /\ sid = [h \in Handlers |-> 0]
    /\ nextId = 1 /\ stopped = {}
    /\ pen = [t \in Writers |-> "none"]
    /\ built = [t \in Writers |-> NoSnapshot]
    /\ handle = [t \in Writers |-> "none"]
    /\ tmp = Absent /\ json = Absent
    /\ click = [k \in Clicks |-> NotClicked]
    /\ crossed = FALSE

-----------------------------------------------------------------------------
\* write_snapshot

\* The call, from a step of thread t.
CallWrite(t) ==
    /\ pen' = [pen EXCEPT ![t] = "build"]
    /\ crossed' = (crossed \/ \E u \in Writers \ {t} : pen[u] # "none")
    /\ UNCHANGED <<built, handle, tmp, json>>

PenStep(t, from, to) == pen[t] = from /\ pen' = [pen EXCEPT ![t] = to]

\* _build_snapshot: the sessions under the engine's lock, then the phase under
\* the mirror's.  No property relates the two, so they are read at once.
Build(t) ==
    /\ PenStep(t, "build", "open")
    /\ built' = [built EXCEPT ![t] = [worker |-> worker, phase |-> phase,
                                      listed |-> {<<h, sid[h]>> : h \in Registered}]]
    /\ UNCHANGED <<handle, tmp, json, crossed>>

WrongOpenTmp(t) ==     \* writes runtime.json where it is
    /\ PenStep(t, "open", "write")
    /\ handle' = [handle EXCEPT ![t] = "json"]
    /\ json' = Empty
    /\ UNCHANGED <<built, tmp, crossed>>

\* write_text opens the file, creates or truncates it,
OpenTmp(t) ==
    /\ PenStep(t, "open", "write")
    /\ handle' = [handle EXCEPT ![t] = "tmp"]
    /\ tmp' = Empty
    /\ UNCHANGED <<built, json, crossed>>

\* and writes from its start: a longer text of another thread leaves its tail.
Overwritten(old, s) == {Whole(s)} \cup IF old = Empty THEN {} ELSE {Torn}

WriteTmp(t) ==
    /\ PenStep(t, "write", "rename")
    /\ tmp' \in IF handle[t] = "tmp" THEN Overwritten(tmp, built[t]) ELSE {tmp}
    /\ json' \in IF handle[t] = "json" THEN Overwritten(json, built[t]) ELSE {json}
    /\ handle' = [handle EXCEPT ![t] = "none"]
    /\ built' = [built EXCEPT ![t] = NoSnapshot]
    /\ UNCHANGED crossed

Renamed == [u \in Writers |-> CASE handle[u] = "tmp" -> "json"
                                [] handle[u] = "json" -> "unnamed"
                                [] OTHER -> handle[u]]

\* tmp_path.replace(state_file)
Rename(t) ==
    /\ PenStep(t, "rename", "none")
    /\ tmp # Absent
    /\ json' = tmp /\ tmp' = Absent
    /\ handle' = Renamed
    /\ UNCHANGED <<built, crossed>>

\* Another thread has renamed the file: FileNotFoundError, which nobody
\* catches; the caller's thread ends.
RenameRaises(t) ==
    /\ PenStep(t, "rename", "none")
    /\ tmp = Absent
    /\ UNCHANGED <<built, handle, tmp, json, crossed>>

-----------------------------------------------------------------------------
WrongEndWorker(how) ==   \* the store of sessions survives
    /\ main' = how /\ phase' = "starting" /\ quit' = FALSE
    /\ mirror' = "off" /\ batch' = {} /\ inHand' = Nobody
    /\ handler' = [h \in Handlers |-> "away"] /\ sid' = [h \in Handlers |-> 0]
    /\ stopped' = {}
    /\ pen' = [t \in Writers |-> "none"]
    /\ built' = [t \in Writers |-> NoSnapshot]
    /\ handle' = [t \in Writers |-> "none"]
    /\ UNCHANGED <<worker, click, crossed, nextId>>

\* The end of a worker takes its threads with it, the files stay.
EndWorker(how) ==
    /\ main' = how /\ phase' = "starting" /\ quit' = FALSE
    /\ mirror' = "off" /\ batch' = {} /\ inHand' = Nobody
    /\ handler' = [h \in Handlers |-> "away"] /\ sid' = [h \in Handlers |-> 0]
    /\ nextId' = 1 /\ stopped' = {}
    /\ pen' = [t \in Writers |-> "none"]
    /\ built' = [t \in Writers |-> NoSnapshot]
    /\ handle' = [t \in Writers |-> "none"]
    /\ UNCHANGED <<worker, click, crossed>>

\* A kill, or docker's after the two seconds of compose down.
Kill ==
    /\ Up
    /\ EndWorker("killed")
    /\ UNCHANGED <<tmp, json>>

\* compose up again
Boot ==
    /\ ~Up /\ worker < MaxWorkers
    /\ worker' = worker + 1
    /\ main' = "starting"
    /\ UNCHANGED <<phase, quit, mirror, fileVars, sessionVars, commandVars>>

-----------------------------------------------------------------------------
\* The main thread.

MainStep(from, to) == main = from /\ main' = to

StartFails ==
    /\ MainStep("starting", "error")
    /\ phase' = "error"
    /\ CallWrite("main")
    /\ UNCHANGED <<worker, quit, mirror, sessionVars, commandVars>>

\* The probe succeeds and the socket is bound: from here on there are clients,
\* whose handlers may publish the phase "starting".
BindListener ==
    /\ MainStep("starting", "bound")
    /\ UNCHANGED <<worker, phase, quit, mirror, fileVars, sessionVars, commandVars>>

SetRunning ==
    /\ MainStep("bound", "started")
    /\ phase' = "running"
    /\ CallWrite("main")
    /\ UNCHANGED <<worker, quit, mirror, sessionVars, commandVars>>

\* SIGTERM.
Signal ==
    /\ MainStep("serving", "stopping")
    /\ phase' = "stopping"
    /\ UNCHANGED <<worker, quit, mirror, fileVars, sessionVars, commandVars>>

WrongShutdown ==       \* the last snapshot is taken before the last phase
    /\ MainStep("stopping", "last")
    /\ stopped' = stopped \cup Registered
    /\ CallWrite("main")
    /\ UNCHANGED <<worker, phase, quit, mirror, handler, sid, nextId, commandVars>>

\* engine.shutdown stops the sessions registered now; then the last snapshot.
Shutdown ==
    /\ MainStep("stopping", "last")
    /\ stopped' = stopped \cup Registered
    /\ phase' = "stopped"
    /\ CallWrite("main")
    /\ UNCHANGED <<worker, quit, mirror, handler, sid, nextId, commandVars>>

\* write_snapshot returns to the main thread: the mirror thread is started, is
\* asked to stop, or the worker had failed and ends.
MainReturns ==
    /\ Rename("main")
    /\ \/ main = "started" /\ main' = "serving" /\ mirror' = "waiting" /\ UNCHANGED quit
       \/ main = "last" /\ main' = "quitting" /\ quit' = TRUE /\ UNCHANGED mirror
    /\ UNCHANGED <<worker, phase, sessionVars, commandVars>>

MainReturnsFailed ==
    /\ main = "error" /\ pen["main"] = "rename" /\ tmp # Absent
    /\ json' = tmp /\ tmp' = Absent
    /\ EndWorker("exited")

\* The main thread cannot rename: the worker ends with a traceback.
MainRaises ==
    /\ pen["main"] = "rename" /\ tmp = Absent
    /\ EndWorker("crashed")
    /\ UNCHANGED <<tmp, json>>

\* The join waits for the mirror thread, for 1.5 seconds at most.
Exit ==
    /\ main = "quitting"
    /\ EndWorker("exited")
    /\ UNCHANGED <<tmp, json>>

-----------------------------------------------------------------------------
\* The handlers.  One accepted before the listener was closed may register
\* its session after the shutdown has taken the registered ones.

HandlerStep(h, from, to) == handler[h] = from /\ handler' = [handler EXCEPT ![h] = to]

WrongRegister(h) ==    \* takes the lowest id that is not in use
    /\ Up /\ main \notin {"starting", "error"}
    /\ HandlerStep(h, "away", "opening")
    /\ sid' = [sid EXCEPT ![h] = CHOOSE i \in 1..Cardinality(Handlers) :
                  /\ \A g \in Registered : sid[g] # i
                  /\ \A j \in 1..(i - 1) : \E g \in Registered : sid[g] = j]
    /\ CallWrite(h)
    /\ UNCHANGED <<worker, main, phase, quit, mirror, nextId, stopped, commandVars>>

\* The session is numbered and registered, and its opening is announced.
Register(h) ==
    /\ Up /\ main \notin {"starting", "error"}
    /\ HandlerStep(h, "away", "opening")
    /\ sid' = [sid EXCEPT ![h] = nextId] /\ nextId' = nextId + 1
    /\ CallWrite(h)
    /\ UNCHANGED <<worker, main, phase, quit, mirror, stopped, commandVars>>

\* run() raises on a session that was already stopped.
OpeningAnnounced(h) ==
    /\ Rename(h)
    /\ HandlerStep(h, "opening", IF h \in stopped THEN "stuck" ELSE "running")
    /\ UNCHANGED <<worker, main, phase, quit, mirror, sid, nextId, stopped, commandVars>>

\* run() returns, stopped or of itself; the session is forgotten and its end
\* announced.
Unregister(h) ==
    /\ HandlerStep(h, "running", "closing")
    /\ stopped' = stopped \ {h}
    /\ CallWrite(h)
    /\ UNCHANGED <<worker, main, phase, quit, mirror, sid, nextId, commandVars>>

ClosingAnnounced(h) ==
    /\ Rename(h)
    /\ HandlerStep(h, "closing", "gone")
    /\ UNCHANGED <<worker, main, phase, quit, mirror, sid, nextId, stopped, commandVars>>

HandlerRaises(h) ==
    /\ RenameRaises(h)
    /\ HandlerStep(h, handler[h], IF handler[h] = "opening" THEN "stuck" ELSE "lost")
    /\ UNCHANGED <<worker, main, phase, quit, mirror, sid, nextId, stopped, commandVars>>

-----------------------------------------------------------------------------
\* The mirror thread.

MirrorStep(from, to) == mirror = from /\ mirror' = to

OnDisk == {k \in Clicks : click[k].is \in {"empty", "whole"}}

WrongTakeCommands ==   \* an idle round writes nothing
    /\ ~quit /\ OnDisk # {}
    /\ MirrorStep("waiting", "commands")
    /\ batch' = OnDisk
    /\ UNCHANGED <<worker, main, phase, quit, inHand, fileVars, sessionVars, click>>

\* A second passes: a new round with the command files there are.
TakeCommands ==
    /\ ~quit
    /\ MirrorStep("waiting", "commands")
    /\ batch' = OnDisk
    /\ UNCHANGED <<worker, main, phase, quit, inHand, fileVars, sessionVars, click>>

MirrorStops ==
    /\ quit
    /\ MirrorStep("waiting", "over")
    /\ UNCHANGED <<worker, main, phase, quit, fileVars, sessionVars, commandVars>>

\* What the command file names; one that start.sh has removed is not read.
Named(k) == {h \in Registered : click[k].is = "whole" /\ sid[h] = click[k].id}

WrongExecute(k) ==     \* does not know a session until its opening is announced
    /\ MirrorStep("commands", "unlinking") /\ k \in batch
    /\ batch' = batch \ {k} /\ inHand' = k
    /\ stopped' = stopped \cup {h \in Named(k) : handler[h] = "running"}
    /\ UNCHANGED <<worker, main, phase, quit, fileVars, handler, sid, nextId, click>>

\* Read a file, one that is not written yet as {}; disconnect_session stops
\* the session of that id, if there is one.
Execute(k) ==
    /\ MirrorStep("commands", "unlinking") /\ k \in batch
    /\ batch' = batch \ {k} /\ inHand' = k
    /\ stopped' = stopped \cup Named(k)
    /\ UNCHANGED <<worker, main, phase, quit, fileVars, handler, sid, nextId, click>>

Unlink ==
    /\ MirrorStep("unlinking", "commands")
    /\ click' = [click EXCEPT ![inHand].is = "gone"]
    /\ inHand' = Nobody
    /\ UNCHANGED <<worker, main, phase, quit, fileVars, sessionVars, batch>>

MirrorWrites ==
    /\ batch = {}
    /\ MirrorStep("commands", "writing")
    /\ CallWrite("mirror")
    /\ UNCHANGED <<worker, main, phase, quit, sessionVars, commandVars>>

MirrorReturns ==
    /\ Rename("mirror")
    /\ MirrorStep("writing", "waiting")
    /\ UNCHANGED <<worker, main, phase, quit, sessionVars, commandVars>>

MirrorRaises ==
    /\ RenameRaises("mirror")
    /\ MirrorStep("writing", "dead")
    /\ UNCHANGED <<worker, main, phase, quit, sessionVars, commandVars>>

-----------------------------------------------------------------------------
\* The control plane.

\* The admin clicks on a session of the list.
Pick(k) ==
    /\ click[k].is = "none" /\ json.is = "whole"
    /\ \E entry \in json.of.listed :
        click' = [click EXCEPT ![k] = [is |-> "picked", id |-> entry[2], who |-> entry[1],
                                       worker |-> json.of.worker]]
    /\ UNCHANGED <<worker, main, phase, quit, mirror, batch, inHand, fileVars, sessionVars>>

\* disconnect_session: while the container runs, the file is created
PlaceFile(k) ==
    /\ click[k].is = "picked" /\ Up
    /\ click' = [click EXCEPT ![k].is = "empty"]
    /\ UNCHANGED <<worker, main, phase, quit, mirror, batch, inHand, fileVars, sessionVars>>

\* and written, wherever it is by then.
FillFile(k) ==
    /\ click[k].is = "empty"
    /\ click' = [click EXCEPT ![k].is = "whole"]
    /\ UNCHANGED <<worker, main, phase, quit, mirror, batch, inHand, fileVars, sessionVars>>

-----------------------------------------------------------------------------
\* start.sh, clean_previous_runtime: find deletes one file after the other.  A
\* handle that is open on one of them writes to no name from then on.

Unnamed(file) == [u \in Writers |-> IF handle[u] = file THEN "unnamed" ELSE handle[u]]

SweepJson ==
    /\ json \notin {Absent, Removed}
    /\ json' = Removed /\ handle' = Unnamed("json")
    /\ UNCHANGED <<worker, main, phase, quit, mirror, pen, built, tmp, crossed, sessionVars,
                   commandVars>>

SweepTmp ==
    /\ tmp # Absent
    /\ tmp' = Absent /\ handle' = Unnamed("tmp")
    /\ crossed' = (crossed \/ \E t \in Writers : pen[t] \in {"write", "rename"})
    /\ UNCHANGED <<worker, main, phase, quit, mirror, pen, built, json, sessionVars,
                   commandVars>>

SweepCommand(k) ==
    /\ k \in OnDisk
    /\ click' = [click EXCEPT ![k].is = IF k = inHand THEN "gone" ELSE "lost"]
    /\ UNCHANGED <<worker, main, phase, quit, mirror, batch, inHand, fileVars, sessionVars>>

-----------------------------------------------------------------------------
WriteStep(t) ==
    /\ Build(t) \/ OpenTmp(t) \/ WriteTmp(t)
    /\ UNCHANGED <<worker, main, phase, quit, mirror, sessionVars, commandVars>>

MainThread ==
    \/ StartFails \/ BindListener \/ SetRunning \/ Shutdown
    \/ WriteStep("main") \/ MainReturns \/ MainReturnsFailed \/ MainRaises \/ Exit

MirrorThread ==
    \/ TakeCommands \/ MirrorStops \/ (\E k \in Clicks : Execute(k)) \/ Unlink
    \/ MirrorWrites \/ WriteStep("mirror") \/ MirrorReturns \/ MirrorRaises

HandlerThread(h) ==
    \/ WriteStep(h) \/ OpeningAnnounced(h) \/ ClosingAnnounced(h) \/ HandlerRaises(h)

Next ==
    \/ MainThread \/ Signal \/ MirrorThread
    \/ \E h \in Handlers : HandlerThread(h) \/ Register(h) \/ Unregister(h)
    \/ \E k \in Clicks : Pick(k) \/ PlaceFile(k) \/ FillFile(k) \/ SweepCommand(k)
    \/ SweepJson \/ SweepTmp
    \/ Kill \/ Boot

Spec == Init /\ [][Next]_vars

\* The threads of the worker are scheduled and a session that was stopped
\* ends.  Nobody has to connect, click, signal or kill.
Fairness ==
    /\ WF_vars(MainThread) /\ WF_vars(MirrorThread)
    /\ \A h \in Handlers :
        WF_vars(HandlerThread(h)) /\ WF_vars(Unregister(h) /\ h \in stopped)

FairSpec == Spec /\ Fairness

-----------------------------------------------------------------------------
\* Properties.

Snapshots == [worker : 1..MaxWorkers,
              phase : {"starting", "error", "running", "stopping", "stopped"},
              listed : SUBSET (Handlers \X (1..Cardinality(Handlers)))]

IsFile(f) == f \in {Absent, Removed, Empty, Torn} \/ (f.is = "whole" /\ f.of \in Snapshots)

TypeOK ==
    /\ worker \in 1..MaxWorkers
    /\ main \in {"starting", "error", "bound", "started", "serving", "stopping",
                 "last", "quitting"} \cup Over
    /\ phase \in {"starting", "error", "running", "stopping", "stopped"}
    /\ quit \in BOOLEAN
    /\ mirror \in {"off", "waiting", "commands", "unlinking", "writing", "over", "dead"}
    /\ batch \subseteq Clicks /\ inHand \in Clicks \cup {Nobody}
    /\ handler \in [Handlers -> {"away", "opening", "running", "closing", "gone",
                                 "stuck", "lost"}]
    /\ sid \in [Handlers -> 0..Cardinality(Handlers)]
    /\ nextId \in 1..(Cardinality(Handlers) + 1)
    /\ stopped \subseteq Handlers
    /\ pen \in [Writers -> {"none", "build", "open", "write", "rename"}]
    /\ built \in [Writers -> Snapshots \cup {NoSnapshot}]
    /\ handle \in [Writers -> {"none", "tmp", "json", "unnamed"}]
    /\ IsFile(tmp) /\ IsFile(json)
    /\ click \in [Clicks -> [is : {"none", "picked", "empty", "whole", "gone", "lost"},
                            id : 0..Cardinality(Handlers),
                            who : Handlers \cup {Nobody}, worker : 0..MaxWorkers]]
    /\ crossed \in BOOLEAN

\* The readers of runtime.json (docker_runtime.py, _read_runtime_state) may
\* look at any time, also while it is written, after a kill and after start.sh
\* has removed it: they find a whole snapshot as long as no two threads have
\* been in write_snapshot at once and start.sh has not removed the temporary
\* file of one, and no thread dies of a file that it cannot rename.
PublishedIsWhole ==
    ~crossed =>
        /\ json.is \in {"absent", "removed", "whole"}
        /\ mirror # "dead" /\ main # "crashed"
        /\ \A h \in Handlers : handler[h] # "lost" /\ (handler[h] = "stuck" => h \in stopped)

\* A worker that ends in good order says so last, as long as nothing came
\* between its writers; start.sh may remove what it said: docker_runtime.py, _wait_for_endpoint_ready, believes the phase it reads.
LastWordIsFinal ==
    main = "exited" /\ ~crossed =>
        \/ json = Removed
        \/ json.is = "whole" /\ json.of.phase \in {"stopped", "error"}

\* The admin clicks on a list that is out of date and the command waits for
\* the mirror thread; as ids are not used again by a worker, a command that
\* finds a session of that worker finds the one that was clicked on.
AimIsTrue ==
    \A k \in Clicks : click[k].is = "whole" /\ click[k].worker = worker
                         => Named(k) \subseteq {click[k].who}

\* A disconnect that is written before it is read ends its session, unless
\* the mirror thread is over or dead, or start.sh removes the command unread.
ClickEndsSession ==
    \A k \in Clicks, h \in Handlers :
        (/\ click[k].is = "whole" /\ click[k].who = h /\ click[k].worker = worker
         /\ inHand # k
         /\ handler[h] \in {"opening", "running"} /\ mirror \notin {"off", "over", "dead"})
        ~> \/ handler[h] \notin {"opening", "running"} \/ mirror \in {"off", "over", "dead"}
           \/ click[k].is = "lost"

\* Whatever overlapping writers left in runtime.json, the mirror thread
\* repairs it: a session that has ended leaves the list.
ListCatchesUp ==
    \A h \in Handlers :
        (handler[h] \in {"gone", "lost"} /\ mirror \notin {"off", "over", "dead"})
        ~> \/ json.is = "whole" /\ <<h, sid[h]>> \notin json.of.listed
           \/ mirror \in {"off", "over", "dead"}
=============================================================================
