# A TLA+ verification of the SSH tunnel web admin

The repository is a web admin for SSH local forwards. An *endpoint* is a row of a
SQLite table; when it is enabled, the admin generates a docker compose file for it
and starts a container of its own, in which a worker accepts TCP clients and carries
each of them over an `ssh -W` process. The modules here model the parts of it that
are concurrent or can fail half-way, TLC checks them on small instances, and TLAPS
proves the central properties for every instance.

Paths below are relative to `src/tunnel_admin/` unless they start with `src/`.

## 1. Inventory

| component | code | state it keeps | operations |
|---|---|---|---|
| session runtime | `tunnel.py` 36-224 | close reason, stop event, socket and pipes, byte counters | `run`, two pump threads, `request_stop` |
| engine and listener | `tunnel.py` 227-561 | listeners, registry of sessions | start, accept, handle a client, stop, disconnect, metrics |
| session store of the worker | `worker.py` 29-57 | next session id | create, close (keeps nothing) |
| mirror and command files | `worker.py` 60-166 | phase, `runtime.json`, files in `commands/` | snapshot every second and at each event, poll commands |
| worker process | `worker.py` 263-330 | phase of its life | start, serve, shut down on a signal |
| docker manager | `docker_runtime.py` | none: it reads containers and files | start and wait, stop, disconnect, collect metrics |
| docker configuration | `docker_config.py` | generated files | sync, delete |
| database | `storage.py` | endpoints, next address offset, metrics, audit, users | one transaction per call, under one lock |
| application | `server.py` 132-553 | metric totals, metrics thread | boot, create, update, start, stop, delete, disconnect, metrics loop |
| event broker | `server.py` 36-66 | a queue of 200 per subscriber | subscribe, publish |
| login sessions | `auth.py` | table of cookies | create, look up, revoke, purge |
| HTTP layer, settings, scripts, web page | `server.py` 556-861, `config.py`, `src/*.sh`, `static/` | PID file | |

How they interact. The admin is one process with a thread for each HTTP request, the
metrics thread and the main thread, which runs `AppContext.start` before it serves.
It reaches a container only through `docker compose` and two directions of files:
`runtime.json`, which the worker replaces every second, and `commands/*.json`, which
the worker polls. The worker is another process: a main thread, an accept thread, a
handler thread with three helpers for each client, and the mirror thread, which also
carries out disconnects. Threads of the worker share the registry (under `_lock`) and
the sessions; request threads of the admin share the database lock and nothing else.

What is hard, and what makes each part correct:

* **Session.** Three threads and any number of stoppers end the same session; each
  closes handles the others are blocked in. Correct: the first cause is recorded, a
  natural end has moved all data, the record counts what passed, nothing moves after
  it, a stop ends the session.
* **Engine.** Registration, `run` and disconnect are separate critical sections.
  Correct: the registry holds exactly the running sessions, no ssh process is out of
  reach, limits hold, shutdown ends the accept thread.
* **Addresses.** Reading the row, allocating, writing files and storing are four steps
  with no lock over them; the admin may crash between any two. Correct: no address is
  shared, files agree with the table, an address given is kept.
* **Control plane.** A request stores its intent, then the files, then the container;
  any step may fail, another request may interleave, and the admin may be killed.
  Correct: disabled means down, deleted means gone, an answer to a start is about
  the worker just started, every request ends.
* **Mirror and commands.** All threads of a worker publish through one temporary file,
  without a lock, and may be killed while they do; commands are files that are read by
  polling. Correct: a reader finds a whole snapshot, the last one tells how the worker
  ended, a disconnect ends the session that was clicked on and no other.
* **Broker.** Requests and the metrics thread publish to bounded queues that slow clients
  drain. Correct: nobody waits for a client, order is kept, only a full queue loses
  events and it loses the oldest.
* **Metrics.** Samples are differences of totals that shrink with every session, taken
  over lists of endpoints read at different moments. Correct: no traffic is invented,
  samples go with their endpoints, the rounds go on.

`PROJECT.json` lists every hazard at its line with the properties that cover it.

## 2. Modules

Definitions carry the names of the code where there is one. A definition named
`Wrong...` is a plausible mistake in the definition that follows it. It is part of no
specification; it shows that a property can fail.

### SessionContract, SessionRuntime

`SessionRuntime` has one action for each critical section of `_lock`, each blocking
call and each flag update of `run()`, `_pump_client_to_ssh`, `_pump_ssh_to_client`
and `request_stop()`; `pc` says where each thread is. The two pumps are one set of
actions indexed by `p` ("up", "down"), with the differences of the code kept:

| code | model |
|---|---|
| `recv` has a timeout of 1 s, `stdout.read` has none | `PumpReadTimeout` only for "up" |
| a socket we have shut down reads as end of file or as an error | `ReadEndReasons` |
| a call on a handle closed before the call raises `ValueError`, which nothing catches | `PumpOnClosedPipe`, to "dead" without `setstop` |
| a read of a pipe blocked in the kernel does not notice a close | no read end for "down" while ssh lives |
| `terminate`, `wait`, `kill`, `wait` | `TerminateProcess`: ssh is dead on return |
| `settimeout` on a closed socket raises out of `run()` | `RunBegin` to "crashed" |

Data is counted in chunks: what the source has `offered`, and each pump has `taken`,
`passed` and `counted`. The idle clock is the flag `quiet`. The pipes are unbuffered
(`bufsize=0`), so no lock of a buffer serialises a close with a read.

`SessionContract` is what the engine may rely on: one reason, chosen once; a record
only with a reason and a dead channel; a session lost without a record only after a
stop. `Contract == INSTANCE SessionContract WITH ...` maps `pc["run"]`, `closeReason`
and `ssh` to it.

### TunnelEngine

One endpoint, started once and shut down once, as the worker uses it. `handler[c]` is
the place of the handler of connection `c`; its steps are the calls of
`_handle_client` in order. Inside a session only what the contract shows is kept:
`request_stop` is one step, and `run()` returns only with a reason and a dead ssh.
`main` is the main thread, `accepting` the accept thread, `target` the session the
mirror thread has looked up. `CallbackMayFail` lets the event callback raise, which
the worker's can (two threads renaming one temporary file).

### NatAllocation, MCNatAllocation

An address is a number, a subnet a pair of base and size. `BootSync`, `Create` and
`Update` begin a sync with the row they have read in hand; `KeepIp` or `Allocate`,
`WriteFiles` and `WriteMetadata` are its steps; `DeleteFiles` and `DeleteRow` are a
delete. Any write may fail (`Raise`, `DeleteFails`): the request ends where it is, and a
generated file, which is truncated before it is written, is left as it was, without usable
text, or with the new address and no row that shows it. `Restart` may hit between any two
steps, may leave a file without text, and may come with another subnet. The initial states
include databases that hold addresses but no offset.

### ControlPlane

One endpoint under the requests of `AppContext`. `at[t]` is the place of a request
thread and `op[t]` what it is doing; `row`, `dir` and `box` are the row, the directory
of generated files and the container; `mirror` is `runtime.json`, reduced to the phase
and (as a history, `by`) whether the latest container wrote it. A request is: the change
of the row, `SyncFiles`, `Reload` of the row, and then either the start (`ComposeUp`, the
loop of `ReadComposeState` and `Poll`, `ApplyIptables`, with `GiveUp` on a failure) or the
stop (`StopEndpoint`, then `Disable` or `RemoveFiles` and `RemoveRow`). `ShownUp` is what
`docker compose ps` says of the container: the truth, or "stopped" because the command
failed; the wait for a start and the boot both decide on it. `Restart` kills the
admin anywhere: containers stay, `start.sh` removes `runtime.json` (or not, if the admin is
run directly), and the boot syncs the endpoint again.

### RuntimeMirror, MCRuntimeMirror

The worker around the engine, and the two directions of files. `pen[t]` is the place of
thread `t` in `write_snapshot`: `Build`, `OpenTmp` (which truncates), `WriteTmp`, `Rename`.
`tmp` and `json` are absent, empty, torn or a whole snapshot. An open handle follows its
file through a rename, so a thread that opened `runtime.tmp` before another renamed it
writes into `runtime.json`; a text written over another one may leave the tail of the
longer one. A rename of a file that is gone raises: in a handler, in the mirror thread or
in `main`, and ends it. `main` goes through the phases, `mirror` through the rounds of
`_loop`; `click[k]` is a disconnect from the click on a listed session over the creation of
its file and its contents to its removal. `Kill` may hit anywhere, and a following worker
finds the files. A handler here is its session: number, announcement, run, announcement.
`SweepJson`, `SweepTmp` and `SweepCommand` are the files that `start.sh` deletes when the
admin is restarted (`src/start.sh` 58-60), one after the other and under workers that run
on: a handle that is open on one of them writes to no name from then on, a rename fails, and
a command that was not read is lost.

### EventBroker

One action for each critical section of the broker or of a queue, and one for each write to
a client. `targets[p]` are the streams a publisher still has to serve, `serving[p]` the one
whose queue it found full. A stream subscribes, writes its headers, takes and writes
events, and unsubscribes; if its client leaves before the headers are written, what that
raises skips the `finally`, and the stream is "leaked": subscribed for ever.

### MetricSamples

The metrics thread in its five steps: wake and purge logins, look at the files, list the
endpoints and take the differences, store, prune and publish. Around it the workers move
bytes and end sessions, endpoints come and go, logins are made, expire, are used and
destroyed, and the admin restarts. `PublishLate` is a thread of the worker that was overtaken
in `write_snapshot` and renames an older snapshot over a newer one: the total that the admin
reads falls without an end of a session, or rises without a byte. Upload and download are one
counter. A file that cannot
be read is one of two things: no JSON, which counts as no bytes, or no text, which raises
`UnicodeDecodeError`, which nothing catches.

### Composition

`SessionContract` joins the session and the engine: `SessionRuntime` is shown to implement
it and `TunnelEngine` (`KeepsContracts`) to use no more than it. `RuntimeMirror` uses of the
engine that ids are drawn once and that a session stopped before `run()` kills its handler,
both found there (`RegistryIsExact`, the run EngineGhost). The failure of its `Rename` is the
`CallbackMayFail` of the engine, its last words are the `LastWords` of `ControlPlane`, its
torn file is the unreadable one of `MetricSamples`, and its overlapping `Rename` steps are what
`PublishLate` of `MetricSamples` stands for.

## 3. Runs

| run | properties | shows |
|---|---|---|
| SessionSafety | TypeOK, EndingHasAReason, NaturalEndIsComplete, RecordCountsWhatPassed, NothingMovesAfterRecord, ImplementsContract | a session that another thread stops while `run()` may stop it too, idle timeout on |
| SessionLiveness | StopEndsSession, SshExitEndsSession | stops and exits end the session |
| Engine | TypeOK, RegistryIsExact, NoOrphanSsh, MaxClientsRespected, StopEndsSession, ShutdownEndsAccept, KeepsContracts | two connections against disconnect and shutdown; callbacks may raise |
| Nat | TypeOK, UniqueIps, IpsAreHosts, FilesAgree, IpIsFixed | two request threads, boot and restarts, two endpoints, one subnet; any write may fail |
| Control | TypeOK, DisabledMeansDown, DeletedMeansGone, RequestsEnd | two requests at a time, everything may fail, the admin restarts |
| MirrorSafety | TypeOK, PublishedIsWhole, LastWordIsFinal, AimIsTrue | two workers in succession, two sessions, two disconnects, kills and sweeps |
| MirrorLiveness | ClickEndsSession, ListCatchesUp | one worker whose threads overlap in `write_snapshot` as they like, and sweeps |
| Broker | TypeOK, OrderIsKept, NoGapUnlessFull, NewestSurvives, PublishReturns | two publishers, a queue of two, a client that may read slowly or leave |
| Metrics | TypeOK, NoInventedTraffic, OverallWithinParts, SamplesHaveEndpoints, ExpiredAreForgotten | the rounds against sessions, endpoints, bad and late files, logins and a restart |

These runs refute a statement of the readme (`findings` in `PROJECT.json` quotes it):

| run | property | what happens |
|---|---|---|
| SessionIdle | IdleSessionEnds | after a half-close the idle timeout is not looked at any more |
| EngineGhost | NoGhostSession | a stop before `run()` kills the handler; the session stays listed |
| ControlAnswerIsFresh | AnswerIsFresh | the answer was written by the previous container |

### Conditions

Some properties hold only under a condition, which a history variable records. The models
contain the behaviours that the condition excludes: drop it from the property and TLC
shows them.

| property | condition | what happens without it |
|---|---|---|
| MaxClientsRespected | `~crowded`: no client is let in while another is being set up | two handlers pass the test of `tunnel.py:455` before either registers: an endpoint limited to one client serves two |
| DisabledMeansDown, DeletedMeansGone | `orderly`: the latest request or boot ran alone, neither its sync nor its compose down failed, and at a boot compose ps told the truth of the container of a disabled endpoint | at a boot a `compose ps` that fails counts as stopped (`docker_runtime.py:263`), and the container of a disabled endpoint stays up; a start between the two halves of a stop (`server.py:351`) leaves a container up for a disabled endpoint; a failed `compose down` is ignored (`server.py:327`) and files and row go |
| FilesAgree, IpIsFixed | `overlapped`: requests on the same endpoint did not overlap | two syncs of one endpoint allocate two addresses (`docker_config.py:31`) |
| FilesAgree | `failed`: the latest write or removal of the files of the endpoint did not fail | a truncated file, or one with an address that was never stored (`docker_config.py:49-53`), until the next sync |
| UniqueIps, IpsAreHosts | the constant `OneSubnet` | with `TwoSubnets` the offset of the old subnet is used in the new one (`storage.py:367`) |
| PublishedIsWhole, LastWordIsFinal | `~crossed`: never two threads in `write_snapshot` at once, and `start.sh` has not removed the temporary file that one was writing | a torn or empty `runtime.json`; threads that die of a failed rename, the mirror thread among them, after which commands are never read; a "running" that is written after "stopped" |
| ClickEndsSession | the command is whole before the mirror thread has it in hand, and is not "lost", removed by `start.sh` before it was read | it is taken for an empty command and removed, or never read: the disconnect is lost |
| AimIsTrue | the command is for the worker that runs | one left by an earlier worker hits whoever has its number now |
| NewestSurvives | `~clashed`: one publisher at a time | another one takes the room that was made, and the newest event is lost (`server.py:66`) |
| NoGapUnlessFull | `lossy`: the queue was never full | the oldest event is dropped, as intended |
| NoInventedTraffic | of an endpoint not in `disturbed` (its own file was always readable and no older snapshot was renamed over a newer one), `~restarted` | a file that could not be read, or an old snapshot, counts as fewer bytes and the next round counts the same ones again; a restarted admin takes all totals for new traffic |
| ExpiredAreForgotten | the metrics thread lives | it dies of an endpoint that is deleted between its listing and the insert (`server.py:489`, `543`) or of a file that is no text (`docker_runtime.py:255`); samples, ticks and the purge of logins end until the admin is restarted |

The condition of the two mirror properties is also the constraint `InTurn` of MirrorSafety,
which cuts off states they say nothing about. It is not in MirrorLiveness, whose properties
hold whatever overlaps.

### Bounds

* `MaxChunks` (2, 1), one outside stopper: the interesting states of a pump are between a
  read, a write and a count, and at the end of its data; two chunks let one be in flight
  while another waits. With the idle timeout `run()` is a second caller of `request_stop`.
  The proofs need no bound, and allow any number of stoppers.
* `Clients` 2 (Engine): the races are between two handlers, or a handler and a stopper.
  `MaxClients` 1 makes the second client hit the limit, `CallbackMayFail` lets the session
  callback raise.
* `Endpoints` 2, a subnet of 8 addresses (Nat): the properties relate two endpoints, or one and
  its files. The five hosts are used up by syncs that fail or are cut off, each of which
  takes an address for good, and by legacy addresses at the end of the subnet. The proofs
  need neither bound.
* `Requests` 2 with the boot: the races are between two requests; three phases of the
  file (none, by an earlier, by the latest container) replace a count of containers, so
  that any number of starts and restarts is covered.
* `Handlers` 2, `Clicks` 2, `MaxWorkers` 2 (MirrorSafety): a stale list needs a session that
  ended and one that began, a left-over command needs a second worker. One of each for
  MirrorLiveness: three threads already overlap in `write_snapshot`.
* `QueueSize` 2, `MaxEvents` 3, two publishers, one stream: the queue overflows, twice at once
  too. Streams share nothing but the set of subscribers.
* `Endpoints` 2, `Retention` 1, `MaxBytes` 2 in all (Metrics): a sample of each endpoint, a drop
  and a rise of a total, and a round older than the retention.
* Deadlock is not checked for the session, the engine, the mirror and the broker, whose life
  is finite by nature or by a bound on events and workers; the other models can always
  restart, log in or time out.

### Fairness

* `SessionRuntime`: weak fairness of `run()`, of each pump and of `request_stop`: threads
  are scheduled and calls with a timeout return. Not assumed: that a peer ever sends,
  reads or closes, that ssh drains its stdin, that a thread blocked on a pipe notices
  a close, or that anybody asks for a stop. `IdleElapses` is fair because time passes.
* `TunnelEngine`: threads are scheduled. Nobody has to connect, end a session or send
  the signal (`main = "serving"` is excluded).
* `ControlPlane`: threads are scheduled and compose commands return. `Timeout` is strongly
  fair: the loop passes its test again and again and the monotonic clock does reach the
  deadline. RequestsEnd excuses an admin that is restarted for ever.
* `RuntimeMirror`: the main thread, the mirror thread and the handlers are scheduled, and a
  session that was stopped ends (StopEndsSession of the session). Nobody has to connect,
  click, signal or kill, and a command file need never be finished.
* `EventBroker`: publishers are scheduled. A stream need not move: the write to its client
  may block.
* `MetricSamples`: the metrics thread is scheduled; everything else may happen or not.

## 4. Proofs

`SessionRuntimeProofs`, for every set of stoppers, every `MaxChunks`, with or without an
idle timeout, from `SessionAssumption` (the names of stoppers are not those of other
threads or reasons):

* `TypeCorrect`, and `Invariant`: `Spec => []IInv`. `IInv` adds to the types:
  `ReasonFirst` (whatever shows that a session is ending comes after a reason),
  `TornDown` (past its last two calls, `run()` has killed ssh and closed the handles),
  `ChunkOrder` (`counted <= passed <= taken <= offered`, apart by one only at the right
  place), `SeenComplete` (a pump about to mark a natural end has moved everything, or
  the reason is already taken), `PumpsFirst` (without an idle timeout `run()` leaves its
  loop only when both pumps are gone) and RecordCountsWhatPassed itself. None of the
  properties is inductive alone: that the reason is true of the data depends on where
  the pump was when it chose it.
* `ReasonTheorem`, `CompletenessTheorem`, `RecordTheorem`, `NothingMovesTheorem`: the
  four safety properties of the run, from `IInv`.
* `Refinement`: `Spec => ImplementsContract`, each action mapped to a step of the
  contract or a stutter under `IInv`.

`NatAllocationProofs`, for every set of endpoints, threads and any one subnet
(`SubnetIsFixed`; the table above shows that the assumption is needed):

* `TypeCorrect`, which needs no such assumption.
* `Invariant`: every address in the table, in a file or in a thread's hands is a host
  below the next offset and belongs to one endpoint (`OwnHosts`, `OwnApart`,
  `OffsetAbove`), addresses of ids not given out do not exist (`FreshOwnNothing`), a
  thread past its allocation holds an address (`HandsFull`), and while no offset is
  stored nobody can hold an address that the table does not show (`OffsetUnset`), which
  is why looking at the table finds a free one.
* `UniqueTheorem`, `HostTheorem`: UniqueIps and IpsAreHosts. The maximum over a set is
  handled by `MaxOfBounded`, a lemma from the well-foundedness of the naturals.
* `TidyInvariant`, and from it `FilesTheorem` (FilesAgree) and `FixedTheorem` (IpIsFixed): an
  endpoint whose requests did not overlap has one worker at most (`SoleWorker`), what that
  worker has in hand is the stored address or the stored one is not there (`InHand`), and
  an endpoint nobody is at work on is settled (`Settled`), a boot that is still to come
  included, unless its latest write failed. What a failing write leaves is no more than what
  its endpoint owned before (`RaiseOwnership`), so uniqueness needs no such exception.

`TunnelEngineProofs`, for every set of clients, every limit, callbacks that fail or not:

* `Invariant`: an id is drawn once and is below the next (`Ids`); the registry holds exactly
  the sessions of handlers between registration and removal, dead ones included
  (`Registry`); a live process belongs to a handler in certain places and a reason comes
  with a dead process (`Processes`); as long as nobody was let in while another was being
  set up, sessions and the one admitted client fit the limit (`Room`, with cardinalities).
  RegistryIsExact is not inductive without uniqueness of the ids, nor NoOrphanSsh without
  knowing what stops a session before it is listed: nothing.
* `TypeCorrect`, `RegistryTheorem`, `NoOrphanTheorem`, `MaxClientsTheorem`: the four invariants.
* `ContractTheorem`: KeepsContracts. Every step of the engine is, for each session, a step
  of `SessionContract` or a stutter.

`ControlPlaneProofs`, for every set of request threads:

* `Invariant`: while the latest request is alone and, if it is a boot, not misled by a failing
  `compose ps` (`Orderly`), a deleted row and a disabled one
  at rest have the container they should have, a request that starts has an enabled row,
  and one that is about to disable or to remove has no container; an endpoint never
  created never had one (`Unborn`). The initial state of a request is arbitrary: the proof
  shows that one undisturbed request repairs what disturbed ones left.
* `TypeCorrect`, `DisabledTheorem`, `DeletedTheorem`.

`RuntimeMirrorProofs`, for every set of handlers and disconnects and any number of workers,
from `MirrorAssumption` (finite sets, names that differ):

* `Invariant`, in two parts. Whatever overlaps: sessions are numbered as they come (`Ids`),
  who is inside `write_snapshot` follows from where each thread is (`Pens`), the mirror thread
  is off until `main` serves and nothing of a worker outlives it (`Ended`), and every listing,
  in memory or in a file, shows the sessions of its worker under the numbers they have
  (`Listings`, `Aims`). And as long as nothing came between writers (`Orderly`): one thread at a
  time finds the temporary file as it left it (`InTurn`), and from its last word on a worker
  writes no other phase (`LastWords`). PublishedIsWhole is not inductive without what
  each thread has in hand, LastWordIsFinal not without what the others could still write.
* `TypeCorrect`, `WholeTheorem`, `LastWordTheorem` and `AimTheorem`: the four invariants. The
  last one holds without any condition on overlaps or sweeps.

`EventBrokerProofs`, for every set of publishers and streams and every size of the queue, from
`BrokerAssumption` (finite sets, a queue that holds at least one event):

* `Invariant`: what a client has got comes before what it is getting, and that before what
  waits (`Order`); a stream that was never full has, from any of its events, all that its
  publisher published since, up to the one that is still being handed out (`NoGap`); who is in
  `publish` and which streams it still has to serve (`Places`); a publisher that is alone finds
  the room it has made (`Room`). The property speaks of two events in a row, the invariant
  of all numbers between two: only so it survives a `get` or a new subscriber.
* The proof first says what any step can do to one stream (`Change`: untouched, handed an
  event, robbed of its oldest, took one, wrote one, quit), then takes each part through these.
* `TypeCorrect` (with the bound on the queues), `OrderTheorem`, `NoGapTheorem`, and
  `NewestTheorem`, the action property NewestSurvives.

`MetricSamplesProofs`, for every finite set of endpoints, every retention and number of bytes,
from `MetricsAssumption`:

* `Invariant`: how old a sample can get between two prunings and over a restart (`Ages`);
  nothing is known of an endpoint before it is created (`Origins`); what is charted of an
  endpoint and what this round and the next will still add was moved (`Honest`, with `Due`), for
  each endpoint that is not disturbed, whatever the files of the others do, for
  NoInventedTraffic alone says nothing of the difference that waits to be stored; and the noted
  sum is no less than the noted totals of the endpoints there are (`Parts`), which OverallWithinParts
  needs one round later.
* `TypeCorrect`, `TrafficTheorem`, `OverallTheorem`, `SamplesTheorem`: the four invariants.
* Sums over a set are a recursive function of the community modules, chosen by its equation.
  That such a function exists (`IterExists`), and the laws of sums (`SumRemove`, `SumOfPart`,
  `SumOfSupport`, `SumOfTwo`, ...) are lemmas. They use induction over numbers and over finite
  sets, stated for the set of what has the property (`NumbersRule`, `SubsetsRule`) and proved
  from the well-foundedness of the naturals, since a theorem that takes an operator
  cannot be instantiated.

Each of these inductive invariants was checked by TLC on small instances before its proof.
Every invariant of the passing runs, and every action property, is now stated by a theorem.
Only model-checked are the liveness properties StopEndsSession (of the session and of the
engine), SshExitEndsSession, ShutdownEndsAccept, RequestsEnd, ClickEndsSession, ListCatchesUp,
PublishReturns and ExpiredAreForgotten: fairness and ENABLED are beyond the prover. The
three refuted statements of the readme are counterexamples, found by TLC.

## 5. Not modelled

* The HTTP layer: routing, parsing and validation of one request at a time. The test of a
  name before the insert (`server.py:446`) is one of its races; no other part depends on it.
* The ssh command line, the probe and the staging of keys, docker network and image, the
  iptables rules, settings: formatting and idempotent commands, whose failures the
  models contain (`StartFails`, `UpFails`, `ApplyIptables`).
* The PID files of `src/start.sh` and `src/stop.sh`. (`src/readme.md:511` says that `start.sh`
  does not restart a running process; the script, lines 22-52, stops it. No run is about it.)
* The web page, and the views computed for it.
* The stderr thread (collects text); bytes inside a chunk and the reuse of
  file descriptor numbers after a close; an ssh process that survives SIGKILL; a compose
  command that outlives a killed admin; password hashing.
* A restart of an endpoint inside one engine (`start_endpoint` twice): the worker never does it.
* The code of a session id, endpoint * 1 000 000 + number (`docker_runtime.py:17`).

## 6. What is left

Worth adding, in this order: a composition of `ControlPlane` with `RuntimeMirror` in which the
`LastWords` are derived rather than listed; the names of several endpoints.
