---------------------------- MODULE MetricSamples ----------------------------
(***************************************************************************)
(* The metrics thread of the control plane (tunnel_admin/server.py,        *)
(* _metrics_loop) and what it keeps: the samples of the bandwidth charts   *)
(* in SQLite (storage.py), the totals of the previous round, and the store *)
(* of admin logins it purges (auth.py).                                    *)
(*                                                                         *)
(* A worker shows in runtime.json the bytes of its live sessions; a sample *)
(* is what that total grew by since the round before.  Rows carry their    *)
(* age in rounds instead of a time.  Upload and download are alike: one    *)
(* counter stands for both.                                                *)
(***************************************************************************)
EXTENDS Integers, FiniteSets, FiniteSetsExt

CONSTANTS
    Endpoints,
    Tokens,      \* logins kept at once
    Retention,   \* rounds a sample is kept (retention_seconds / interval)
    MaxBytes     \* bound on the bytes ever moved

Overall == "overall"

ASSUME MetricsAssumption ==
    /\ IsFiniteSet(Endpoints) /\ Overall \notin Endpoints
    /\ Retention \in Nat /\ MaxBytes \in Nat

Charts == Endpoints \cup {Overall}

VARIABLES
    rows,      \* the endpoints table
    deleted,   \* the endpoints deleted; ids are not used again
    total,     \* what runtime.json shows: the bytes of the live sessions
    moved,     \* history: the bytes the endpoint ever moved
    thread,    \* the metrics thread: waiting, looking, listing, storing,
               \* pruning; unread, unstored once it has died
    look,      \* collect_runtime_metrics: the total of each endpoint it found
    previous,  \* _previous_metric_totals
    points,    \* the samples of this round, and of which charts
    table,     \* metrics_timeseries: [age, chart, bytes]
    login,     \* AuthManager._sessions: none, live, expired
    disturbed, \* history: the endpoints whose file could not be read in some
               \* round, or showed an older snapshot after a newer one
    restarted  \* history: the control plane has been restarted

metricVars == <<thread, look, previous, points, table, disturbed>>
workerVars == <<total, moved>>
vars == <<rows, deleted, workerVars, metricVars, login, restarted>>

Dead == {"unread", "unstored"}

None == [c \in {} |-> 0]

\* dict.get(key, 0)
At(f, c) == IF c \in DOMAIN f THEN f[c] ELSE 0

Sum(f, S) == MapThenSumSet(LAMBDA c : At(f, c), S)

Init ==
    /\ rows = {} /\ deleted = {}
    /\ total = [e \in Endpoints |-> 0] /\ moved = [e \in Endpoints |-> 0]
    /\ thread = "waiting" /\ look = None /\ previous = None /\ points = None
    /\ table = {} /\ disturbed = {}
    /\ login = [t \in Tokens |-> "none"]
    /\ restarted = FALSE

-----------------------------------------------------------------------------
\* The metrics thread.

Expired == {t \in Tokens : login[t] = "expired"}

\* The interval has passed: purge_expired, then look.
Wake ==
    /\ thread = "waiting" /\ thread' = "looking"
    /\ login' = [t \in Tokens |-> IF t \in Expired THEN "none" ELSE login[t]]
    /\ UNCHANGED <<rows, deleted, workerVars, look, previous, points, table, disturbed,
                   restarted>>

\* collect_runtime_metrics.  Any file may be missing or torn (module
\* RuntimeMirror): one that is not JSON counts as no bytes; one that is not
\* even text raises, and nothing catches it.
Look ==
    /\ thread = "looking"
    /\ \E torn \in SUBSET rows :
        /\ disturbed' = disturbed \cup torn
        /\ \/ /\ thread' = "listing"
              /\ look' = [e \in rows |-> IF e \in torn THEN 0 ELSE total[e]]
           \/ /\ torn # {} /\ thread' = "unread"
              /\ UNCHANGED look
    /\ UNCHANGED <<rows, deleted, workerVars, previous, points, table, login,
                   restarted>>

WrongSample(now, before) == IF now > before THEN now - before ELSE before - now

\* max(0, now - before)
Sample(now, before) == IF now > before THEN now - before ELSE 0

\* The look with the sum over the endpoints it found.
Totals == [c \in Endpoints \cup {Overall} |->
             IF c = Overall THEN Sum(look, DOMAIN look) ELSE At(look, c)]

WrongCount ==          \* forgets to note the sum for the next round
    /\ thread = "listing" /\ thread' = "storing"
    /\ points' = [c \in rows \cup {Overall} |-> Sample(Totals[c], At(previous, c))]
    /\ previous' = [c \in DOMAIN previous \cup rows |->
                        IF c \in rows THEN Totals[c] ELSE previous[c]]
    /\ UNCHANGED <<rows, deleted, workerVars, look, table, disturbed, login, restarted>>

WrongLookedUp ==       \* per_endpoint[id] instead of per_endpoint.get(id, ...)
    /\ thread = "listing"
    /\ thread' = IF rows \subseteq DOMAIN look THEN "storing" ELSE "raised"
    /\ points' = [c \in rows \cup {Overall} |-> Sample(Totals[c], At(previous, c))]
    /\ previous' = [c \in DOMAIN previous \cup rows \cup {Overall} |->
                        IF c \in rows \cup {Overall} THEN Totals[c] ELSE previous[c]]
    /\ UNCHANGED <<rows, deleted, workerVars, look, table, disturbed, login, restarted>>

\* list_endpoints once more, and the samples of the endpoints it gives.
Count ==
    /\ thread = "listing" /\ thread' = "storing"
    /\ points' = [c \in rows \cup {Overall} |-> Sample(Totals[c], At(previous, c))]
    /\ previous' = [c \in DOMAIN previous \cup rows \cup {Overall} |->
                        IF c \in rows \cup {Overall} THEN Totals[c] ELSE previous[c]]
    /\ UNCHANGED <<rows, deleted, workerVars, look, table, disturbed, login, restarted>>

\* The rows of the chart of all endpoints are left out of the table: nothing
\* becomes of them.
NewRows == {[age |-> 0, chart |-> e, bytes |-> points[e]] : e \in DOMAIN points \ {Overall}}
Aged == {[r EXCEPT !.age = @ + 1] : r \in table}

WrongStore ==          \* foreign keys are off, as SQLite has them by default
    /\ thread = "storing" /\ thread' = "pruning"
    /\ table' = Aged \cup NewRows
    /\ UNCHANGED <<rows, deleted, workerVars, look, previous, points, disturbed, login,
                   restarted>>

\* insert_metrics, one transaction: a sample of an endpoint that is gone breaks
\* the foreign key, nothing is stored and the thread ends.
Store ==
    /\ thread = "storing"
    /\ IF DOMAIN points \subseteq rows \cup {Overall}
         THEN thread' = "pruning" /\ table' = Aged \cup NewRows
         ELSE thread' = "unstored" /\ UNCHANGED table
    /\ UNCHANGED <<rows, deleted, workerVars, look, previous, points, disturbed, login,
                   restarted>>

WrongPrune ==          \* keeps one round more
    /\ thread = "pruning" /\ thread' = "waiting"
    /\ table' = {r \in table : r.age <= Retention + 1}
    /\ look' = None /\ points' = None
    /\ UNCHANGED <<rows, deleted, workerVars, previous, disturbed, login, restarted>>

\* prune_metrics; then metrics.tick is published with an overview, for which
\* the files are read again.
Prune ==
    /\ thread = "pruning"
    /\ \/ thread' = "waiting"
       \/ rows # {} /\ thread' = "unread"
    /\ table' = {r \in table : r.age <= Retention}
    /\ look' = None /\ points' = None
    /\ UNCHANGED <<rows, deleted, workerVars, previous, disturbed, login, restarted>>

MetricsThread == Wake \/ Look \/ Count \/ Store \/ Prune

-----------------------------------------------------------------------------
\* The workers and their files.

\* Bytes are moved, and shown by the next snapshot.
MoveBytes(e) ==
    /\ e \in rows /\ Sum(moved, Endpoints) < MaxBytes
    /\ total' = [total EXCEPT ![e] = @ + 1]
    /\ moved' = [moved EXCEPT ![e] = @ + 1]
    /\ UNCHANGED <<rows, deleted, metricVars, login, restarted>>

\* A session ends, or all of a worker's: their bytes leave the total.
SessionEnds(e) ==
    /\ total[e] > 0
    /\ \E left \in 0..(total[e] - 1) : total' = [total EXCEPT ![e] = left]
    /\ UNCHANGED <<rows, deleted, moved, metricVars, login, restarted>>

\* A thread that was overtaken in write_snapshot renames an older snapshot over
\* a newer one: the total falls without an end, or rises without a byte, then
\* or when the next one puts it right, if there is one.
PublishLate(e) ==
    /\ e \in rows
    /\ \E old \in 0..moved[e] \ {total[e]} : total' = [total EXCEPT ![e] = old]
    /\ disturbed' = disturbed \cup {e}
    /\ UNCHANGED <<rows, deleted, moved, thread, look, previous, points, table, login,
                   restarted>>

-----------------------------------------------------------------------------
\* Requests of the admin.

CreateEndpoint(e) ==
    /\ e \notin rows \cup deleted
    /\ rows' = rows \cup {e}
    /\ UNCHANGED <<deleted, workerVars, metricVars, login, restarted>>

\* The row goes and, ON DELETE CASCADE, its samples.
DeleteEndpoint(e) ==
    /\ e \in rows
    /\ rows' = rows \ {e} /\ deleted' = deleted \cup {e}
    /\ table' = {r \in table : r.chart # e}
    /\ UNCHANGED <<workerVars, thread, look, previous, points, disturbed, login, restarted>>

\* authenticate; a token that was dropped stands for the next one drawn.
Login(t) ==
    /\ login[t] = "none"
    /\ login' = [login EXCEPT ![t] = "live"]
    /\ UNCHANGED <<rows, deleted, workerVars, metricVars, restarted>>

\* The time to live runs from the login, whatever is asked meanwhile.
Expire(t) ==
    /\ login[t] = "live"
    /\ login' = [login EXCEPT ![t] = "expired"]
    /\ UNCHANGED <<rows, deleted, workerVars, metricVars, restarted>>

\* _require_session, get_session: an expired login is dropped and refused.
Request(t) ==
    /\ login[t] = "expired"
    /\ login' = [login EXCEPT ![t] = "none"]
    /\ UNCHANGED <<rows, deleted, workerVars, metricVars, restarted>>

\* logout, destroy_session
Logout(t) ==
    /\ login[t] # "none"
    /\ login' = [login EXCEPT ![t] = "none"]
    /\ UNCHANGED <<rows, deleted, workerVars, metricVars, restarted>>

\* The control plane is killed or stopped and started again: the database and
\* the workers stay, logins and totals are forgotten.  Once is enough for all
\* it can do.
Restart ==
    /\ ~restarted
    /\ thread' = "waiting" /\ look' = None /\ previous' = None /\ points' = None
    /\ login' = [t \in Tokens |-> "none"]
    /\ restarted' = TRUE
    /\ UNCHANGED <<rows, deleted, workerVars, table, disturbed>>

-----------------------------------------------------------------------------
Next ==
    \/ MetricsThread
    \/ \E e \in Endpoints : \/ MoveBytes(e) \/ SessionEnds(e) \/ PublishLate(e)
                            \/ CreateEndpoint(e) \/ DeleteEndpoint(e)
    \/ \E t \in Tokens : Login(t) \/ Expire(t) \/ Request(t) \/ Logout(t)
    \/ Restart

Spec == Init /\ [][Next]_vars

\* The metrics thread is scheduled.
FairSpec == Spec /\ WF_vars(MetricsThread)

-----------------------------------------------------------------------------
\* Properties.

IsSamples(f) ==
    DOMAIN f \subseteq Charts /\ \A c \in DOMAIN f : f[c] \in Nat

TypeOK ==
    /\ rows \subseteq Endpoints /\ deleted \subseteq Endpoints
    /\ rows \cap deleted = {}
    /\ total \in [Endpoints -> Nat] /\ moved \in [Endpoints -> 0..MaxBytes]
    /\ thread \in {"waiting", "looking", "listing", "storing", "pruning"} \cup Dead
    /\ IsSamples(look) /\ IsSamples(previous) /\ IsSamples(points)
    /\ table \subseteq [age : 0..(Retention + 2), chart : Endpoints, bytes : Nat]
    /\ login \in [Tokens -> {"none", "live", "expired"}]
    /\ disturbed \subseteq Endpoints /\ restarted \in BOOLEAN

Charted(e) == Sum([r \in table |-> r.bytes], {r \in table : r.chart = e})

\* A chart shows no traffic that was not there, although the totals shrink with
\* every session that ends: unless the endpoint's own file could not be read,
\* which counts as no bytes and then as all of them again, or showed an older
\* snapshot after a newer one, or the control plane was restarted.  What happens
\* to the file of one endpoint never shows in the chart of another.
NoInventedTraffic ==
    ~restarted => \A e \in Endpoints \ disturbed : Charted(e) <= moved[e]

\* The sample of all endpoints is no more than their samples together, as long
\* as none was deleted while the round looked at them.
OverallWithinParts ==
    thread = "storing" /\ DOMAIN look \subseteq DOMAIN points =>
        points[Overall] <= Sum(points, DOMAIN points \ {Overall})

\* No sample outlives its endpoint, whoever deletes it when.
SamplesHaveEndpoints == \A r \in table : r.chart \in rows

\* The rounds go on, so that the store of logins does not keep what has expired.
\* The metrics thread dies only of a file that is not text or of an endpoint
\* deleted between two of its steps, not of one created there.
ExpiredAreForgotten ==
    \A t \in Tokens : login[t] = "expired" ~> login[t] # "expired" \/ thread \in Dead
=============================================================================
