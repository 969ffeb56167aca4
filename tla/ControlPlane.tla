----------------------------- MODULE ControlPlane -----------------------------
(***************************************************************************)
(* The life of one endpoint under the web admin: the requests of AppContext*)
(* (server.py), the docker manager that carries them out                   *)
(* (docker_runtime.py), the container they start and remove, and the       *)
(* runtime.json its worker writes (worker.py, main).                       *)
(* Request threads share no lock; endpoints share nothing that matters     *)
(* here, so one is enough.                                                 *)
(*                                                                         *)
(* A step is one transaction of the database, one docker compose command,  *)
(* one look at a file or a change of the container.                        *)
(***************************************************************************)
CONSTANTS
    Requests,       \* request threads of the server
    Boot            \* the main thread, in AppContext.start

ASSUME ControlAssumption == Boot \notin Requests

Threads == Requests \cup {Boot}

VARIABLES
    row,       \* the endpoints row: unborn, enabled, disabled, deleted
    dir,       \* the directory with docker-compose.yml exists
    box,       \* the container: none, starting, running, exited
    mirror,    \* runtime.json: the phase, by the latest container or an earlier one
    at,        \* where each thread is
    op,        \* what it does: create, update, delete, start, stop, boot, idle
    orderly    \* history: the latest request or boot has run alone so far, and
               \* neither its sync nor its compose down has failed, nor, at a
               \* boot, the compose ps that hid a running container from it

vars == <<row, dir, box, mirror, at, op, orderly>>

NoFile == [phase |-> "", by |-> "earlier"]
Live == row \in {"enabled", "disabled"}
Up == box \in {"starting", "running"}
Alive == box = "running" /\ dir       \* a worker that can write its file

Init ==
    /\ row = "unborn" /\ dir = FALSE
    /\ box = "none" /\ mirror = NoFile
    /\ at = [t \in Threads |-> "idle"]
    /\ op = [t \in Threads |-> "idle"]
    /\ orderly = TRUE

Goto(t, l) == at' = [at EXCEPT ![t] = l] /\ UNCHANGED op
Begin(t, o, l) == at' = [at EXCEPT ![t] = l] /\ op' = [op EXCEPT ![t] = o]
Return(t) == Begin(t, "idle", "idle")

Quiet == \A t \in Threads : at[t] = "idle"

\* A request arrives: it runs alone if no other is in progress.
Request(t, o, l) == Begin(t, o, l) /\ orderly' = Quiet

Serving(t) == t \in Requests /\ at[t] = "idle" /\ at[Boot] = "idle"

\* Variants with a plausible mistake, used to show that the properties can
\* fail, are named Wrong...

-----------------------------------------------------------------------------
\* AppContext: how the requests begin.

Create(t) ==
    /\ Serving(t) /\ row = "unborn"
    /\ row' \in {"enabled", "disabled"}
    /\ Request(t, "create", "sync")
    /\ UNCHANGED <<dir, box, mirror>>

Update(t) ==
    /\ Serving(t) /\ Live
    /\ row' \in {"enabled", "disabled"}
    /\ Request(t, "update", "sync")
    /\ UNCHANGED <<dir, box, mirror>>

\* A row that goes between the two reads of start_endpoint ends the request;
\* here it goes after them.
Start(t) ==
    /\ Serving(t) /\ Live
    /\ row' = "enabled"
    /\ Request(t, "start", "up")
    /\ UNCHANGED <<dir, box, mirror>>

Stop(t) ==
    /\ Serving(t) /\ Live
    /\ Request(t, "stop", "stop")
    /\ UNCHANGED <<row, dir, box, mirror>>

Delete(t) ==
    /\ Serving(t) /\ Live
    /\ Request(t, "delete", "stop")
    /\ UNCHANGED <<row, dir, box, mirror>>

\* What sync_endpoint raises (the subnet is exhausted, the disk full) ends a
\* request after its change of the row; the boot logs it and goes on.
SyncFails(t) ==
    /\ at[t] = "sync"
    /\ IF op[t] = "boot" THEN Goto(t, "reload") /\ UNCHANGED orderly
       ELSE Return(t) /\ orderly' = FALSE
    /\ UNCHANGED <<row, dir, box, mirror>>

\* sync_endpoint writes the files ...
SyncFiles(t) ==
    /\ at[t] = "sync"
    /\ dir' = TRUE
    /\ Goto(t, "reload")
    /\ UNCHANGED <<row, box, mirror, orderly>>

WrongReload(t) ==      \* an update to disabled leaves the container alone
    /\ at[t] = "reload"
    /\ IF row = "enabled" THEN Goto(t, "up") ELSE Return(t)
    /\ UNCHANGED <<row, dir, box, mirror, orderly>>

\* _read_compose_state: whether compose ps shows a container that is up; if
\* ps fails, as it does without a compose file, the container counts as stopped.
ShownUp == {Up /\ dir, FALSE}

\* ... and reads the row again: it decides whether to start or to stop, at a
\* boot together with what compose ps shows.
Reload(t) ==
    /\ at[t] = "reload"
    /\ \E up \in ShownUp :
        /\ CASE row = "enabled" ->
                    IF op[t] = "boot" /\ up THEN Return(t) ELSE Goto(t, "up")
             [] row = "disabled" ->
                    IF op[t] = "create" \/ (op[t] = "boot" /\ ~up) THEN Return(t)
                    ELSE Goto(t, "stop")
             [] OTHER -> Return(t)
        /\ orderly' = (orderly /\ (op[t] = "boot" /\ row = "disabled" => up = Up))
    /\ UNCHANGED <<row, dir, box, mirror>>

\* After stop_endpoint of the docker manager: mark the row, or remove the
\* files and then the row.
Disable(t) ==
    /\ at[t] = "disable"
    /\ row' = IF Live THEN "disabled" ELSE row
    /\ Return(t)
    /\ UNCHANGED <<dir, box, mirror, orderly>>

WrongRemoveFiles(t) ==     \* removes the compose file, not the directory
    /\ at[t] = "rmdir"
    /\ dir' = FALSE
    /\ Goto(t, "rmrow")
    /\ UNCHANGED <<row, box, mirror, orderly>>

RemoveFiles(t) ==
    /\ at[t] = "rmdir"
    /\ dir' = FALSE /\ mirror' = NoFile
    /\ Goto(t, "rmrow")
    /\ UNCHANGED <<row, box, orderly>>

RemoveRow(t) ==
    /\ at[t] = "rmrow"
    /\ row' = "deleted"
    /\ Return(t)
    /\ UNCHANGED <<dir, box, mirror, orderly>>

-----------------------------------------------------------------------------
\* DockerTunnelManager.

\* What runtime.json can hold once a container is gone.  A worker that is not
\* killed first ends with "stopped", over which its mirror thread may still
\* write an earlier phase; one that is starting ignores the signal.
LastWords ==
    IF Alive THEN [phase : {"running", "stopping", "stopped"}, by : {"latest"}]
    ELSE {mirror}

Stale(m) == [phase |-> m.phase, by |-> "earlier"]

\* start_endpoint: docker, the network or the image is not available, the
\* compose file is missing, or compose up fails.
UpFails(t) ==
    /\ at[t] = "up"
    /\ Return(t)
    /\ UNCHANGED <<row, dir, box, mirror, orderly>>

\* compose up --force-recreate replaces the container.
ComposeUp(t) ==
    /\ at[t] = "up" /\ dir
    /\ box' = "starting"
    /\ \E m \in LastWords : mirror' = Stale(m)
    /\ Goto(t, "ps")
    /\ UNCHANGED <<row, dir, orderly>>

\* _wait_for_endpoint_ready reads the compose state: a container that is gone,
\* or a compose ps that fails, makes the next poll the last one ...
ReadComposeState(t) ==
    /\ at[t] = "ps"
    /\ \E up \in ShownUp : Goto(t, IF up THEN "poll" ELSE "lastpoll")
    /\ UNCHANGED <<row, dir, box, mirror, orderly>>

\* ... and then runtime.json.
Poll(t) ==
    /\ at[t] \in {"poll", "lastpoll"}
    /\ Goto(t, CASE mirror.phase = "running" -> "ready"
                 [] mirror.phase = "error" -> "refused"
                 [] OTHER -> IF at[t] = "lastpoll" THEN "givenup" ELSE "ps")
    /\ UNCHANGED <<row, dir, box, mirror, orderly>>

WrongTimeout(t) ==     \* the deadline is moved on by every poll
    /\ at[t] = "ps" /\ box = "none"
    /\ Goto(t, "givenup")
    /\ UNCHANGED <<row, dir, box, mirror, orderly>>

\* After STARTUP_READY_TIMEOUT_SECONDS.
Timeout(t) ==
    /\ at[t] = "ps"
    /\ Goto(t, "givenup")
    /\ UNCHANGED <<row, dir, box, mirror, orderly>>

ApplyIptables(t) ==
    /\ at[t] = "ready"
    /\ Return(t) \/ Goto(t, "givenup")
    /\ UNCHANGED <<row, dir, box, mirror, orderly>>

\* compose down, which needs the compose file and may fail.
ComposeDown ==
    \/ dir /\ box' = "none" /\ mirror' \in LastWords /\ UNCHANGED orderly
    \/ UNCHANGED <<box, mirror>> /\ orderly' = FALSE

GiveUp(t) ==
    /\ at[t] \in {"refused", "givenup"}
    /\ ComposeDown
    /\ Return(t)
    /\ UNCHANGED <<row, dir>>

AfterStop(t) ==
    CASE op[t] = "stop" -> Goto(t, "disable")
      [] op[t] = "delete" -> Goto(t, "rmdir")
      [] OTHER -> Return(t)

\* There is no row or no compose file: the container, if there is one, stays.
LeaveIt == orderly' = FALSE /\ UNCHANGED <<box, mirror>>

WrongStopEndpoint(t) ==    \* takes a worker that is still starting for stopped
    /\ at[t] = "stop"
    /\ IF Live /\ box = "running" THEN ComposeDown ELSE UNCHANGED <<box, mirror, orderly>>
    /\ AfterStop(t)
    /\ UNCHANGED <<row, dir>>

\* stop_endpoint: its result is ignored by every caller.
StopEndpoint(t) ==
    /\ at[t] = "stop"
    /\ IF Live /\ dir THEN ComposeDown ELSE LeaveIt
    /\ AfterStop(t)
    /\ UNCHANGED <<row, dir>>

-----------------------------------------------------------------------------
\* The container: main() of the worker.

\* The preflight probe succeeds and the listener is bound.  A client that
\* comes before the phase is set makes its handler write "starting" first, of
\* which a wait takes no notice.
WorkerReady ==
    /\ box = "starting"
    /\ box' = "running"
    /\ mirror' = IF dir THEN [phase |-> "running", by |-> "latest"] ELSE mirror
    /\ UNCHANGED <<row, dir, at, op, orderly>>

\* start_endpoint of the engine fails: say so and exit.
WorkerFails ==
    /\ box = "starting"
    /\ box' = "exited"
    /\ mirror' = IF dir THEN [phase |-> "error", by |-> "latest"] ELSE mirror
    /\ UNCHANGED <<row, dir, at, op, orderly>>

\* It dies without a word: the configuration or a key cannot be read, or the
\* container is killed.
WorkerDies ==
    /\ Up
    /\ box' = "exited"
    /\ UNCHANGED <<row, dir, mirror, at, op, orderly>>

\* The mirror thread writes a snapshot every second.
WorkerTick ==
    /\ Alive
    /\ mirror' = [phase |-> "running", by |-> "latest"]
    /\ UNCHANGED <<row, dir, box, at, op, orderly>>

-----------------------------------------------------------------------------
\* The web admin is killed or stopped and started again: the containers stay,
\* start.sh removes runtime.json, AppContext.start syncs what there is.
Restart ==
    /\ mirror' \in {mirror, NoFile}
    /\ at' = [t \in Threads |-> IF t = Boot /\ Live THEN "sync" ELSE "idle"]
    /\ op' = [t \in Threads |-> IF t = Boot /\ Live THEN "boot" ELSE "idle"]
    /\ orderly' = (Live \/ orderly)
    /\ UNCHANGED <<row, dir, box>>

-----------------------------------------------------------------------------
ManagerStep(t) ==
    \/ UpFails(t) \/ ComposeUp(t) \/ ReadComposeState(t) \/ Poll(t) \/ Timeout(t)
    \/ ApplyIptables(t) \/ GiveUp(t) \/ StopEndpoint(t)

ThreadStep(t) ==
    \/ SyncFails(t) \/ SyncFiles(t) \/ Reload(t)
    \/ Disable(t) \/ RemoveFiles(t) \/ RemoveRow(t)
    \/ ManagerStep(t)

Container == WorkerReady \/ WorkerFails \/ WorkerDies \/ WorkerTick

Next ==
    \/ \E t \in Requests : Create(t) \/ Update(t) \/ Start(t) \/ Stop(t) \/ Delete(t)
    \/ \E t \in Threads : ThreadStep(t)
    \/ Container
    \/ Restart

Spec == Init /\ [][Next]_vars

\* The threads are scheduled, docker commands return and the clock reaches
\* the deadline of a wait however often its loop goes round.
Fairness ==
    /\ \A t \in Threads : WF_vars(ThreadStep(t)) /\ SF_vars(Timeout(t))

FairSpec == Spec /\ Fairness

-----------------------------------------------------------------------------
\* Properties.

Snapshots == [phase : {"", "running", "error", "stopping", "stopped"},
              by : {"earlier", "latest"}]

TypeOK ==
    /\ row \in {"unborn", "enabled", "disabled", "deleted"}
    /\ dir \in BOOLEAN
    /\ box \in {"none", "starting", "running", "exited"}
    /\ mirror \in Snapshots
    /\ at \in [Threads -> {"idle", "sync", "reload", "up", "ps", "poll", "lastpoll", "ready",
                           "refused", "givenup", "stop", "disable", "rmdir", "rmrow"}]
    /\ op \in [Threads -> {"idle", "create", "update", "delete", "start", "stop", "boot"}]
    /\ orderly \in BOOLEAN
    /\ \A t \in Threads : at[t] = "idle" <=> op[t] = "idle"
    /\ mirror # NoFile => dir

\* When nobody is at work on it, an endpoint that is shown as disabled has no
\* container, whatever requests, restarts of the admin, failures and deaths of
\* workers came before: it is enough that the latest request, or the boot
\* that came after it, ran alone, that its sync and its compose down did not
\* fail and that the compose ps of a boot did not miss the container.
DisabledMeansDown == Quiet /\ orderly /\ row = "disabled" => ~Up

\* A deleted endpoint leaves no container behind, under the same condition.
DeletedMeansGone == Quiet /\ orderly /\ row = "deleted" => box = "none"

\* Every request gets its answer, and the boot gets through its endpoint: a
\* start waits for its worker no longer than the deadline.  Only an admin that
\* is restarted for ever is excused.
RequestsEnd ==
    \/ []<><<Restart>>_vars
    \/ \A t \in Threads : at[t] # "idle" ~> at[t] = "idle"

\* The readme says that the ssh preflight is run when an endpoint is started:
\* a start that reports success, or the error of a worker, has it from the
\* container that was started last.
AnswerIsFresh == [][\A t \in Threads : at[t] \in {"poll", "lastpoll"} /\ at'[t] \in {"ready", "refused"} =>
                        mirror.by = "latest"]_vars
=============================================================================
