-------------------------- MODULE ControlPlaneProofs --------------------------
(***************************************************************************)
(* For any number of request threads: a disabled endpoint runs nothing and *)
(* a deleted one leaves no container, once a request or a boot has had the *)
(* endpoint for itself.                                                    *)
(***************************************************************************)
EXTENDS ControlPlane, TLAPS

\* No two threads are at work.
Alone == \A t, u \in Threads : at[t] # "idle" /\ at[u] # "idle" => t = u

\* An endpoint that was never created has never had a container.
Unborn == row = "unborn" => Quiet /\ box = "none"

\* What an orderly request knows of the endpoint in each of its places.
Orderly ==
    /\ Alone
    /\ row = "deleted" => Quiet /\ box = "none"
    /\ Quiet /\ row = "disabled" => ~Up
    /\ \A t \in Threads :
        /\ op[t] = "create" /\ at[t] \in {"sync", "reload"} => box = "none"
        /\ at[t] \in {"up", "ps", "poll", "lastpoll", "ready", "refused", "givenup"} =>
                row = "enabled"
        /\ at[t] \in {"disable", "rmdir", "rmrow"} => box = "none"

IInv == TypeOK /\ Unborn /\ (orderly => Orderly)

-----------------------------------------------------------------------------
\* Every variable keeps its type, a thread is idle exactly when it has no
\* request, and runtime.json goes with its directory, for any set of threads.
LEMMA SnapshotFacts ==
    /\ NoFile \in Snapshots
    /\ \A p \in {"running", "error"} : [phase |-> p, by |-> "latest"] \in Snapshots
    /\ \A m \in Snapshots : Stale(m) \in Snapshots
    /\ Stale(NoFile) = NoFile
  <1>1. NoFile.phase = "" /\ Stale(NoFile) = NoFile
    BY DEF NoFile, Stale
  <1> QED
    BY <1>1 DEF Snapshots, NoFile, Stale

LEMMA LastWordsType ==
    ASSUME TypeOK, NEW m \in LastWords
    PROVE  m \in Snapshots /\ (m # NoFile => dir)
  BY DEF TypeOK, LastWords, Alive, Snapshots, NoFile

LEMMA TypeInit ==
    ASSUME Init
    PROVE  TypeOK
  BY SnapshotFacts DEF Init, TypeOK

LEMMA TypeStep ==
    ASSUME TypeOK, [Next]_vars
    PROVE  TypeOK'
  <1> USE DEF TypeOK
  <1>1. ASSUME NEW t \in Requests,
               Create(t) \/ Update(t) \/ Start(t) \/ Stop(t) \/ Delete(t)
        PROVE  TypeOK'
    <2>1. t \in Threads
      BY DEF Threads
    <2> USE <2>1 DEF Request, Begin, Quiet
    <2>2. CASE Create(t)
      BY <2>2 DEF Create
    <2>3. CASE Update(t)
      BY <2>3 DEF Update
    <2>4. CASE Start(t)
      BY <2>4 DEF Start
    <2>5. CASE Stop(t)
      BY <2>5 DEF Stop
    <2>6. CASE Delete(t)
      BY <2>6 DEF Delete
    <2> QED
      BY <1>1, <2>2, <2>3, <2>4, <2>5, <2>6
  <1>2. ASSUME NEW t \in Threads, ThreadStep(t) PROVE TypeOK'
    <2> USE DEF Goto, Return, Begin
    <2>1. CASE SyncFails(t)
      BY <2>1 DEF SyncFails
    <2>2. CASE SyncFiles(t)
      BY <2>2 DEF SyncFiles
    <2>3. CASE Reload(t)
      BY <2>3 DEF Reload
    <2>4. CASE Disable(t)
      BY <2>4 DEF Disable
    <2>5. CASE RemoveFiles(t)
      BY <2>5, SnapshotFacts DEF RemoveFiles
    <2>6. CASE RemoveRow(t)
      BY <2>6 DEF RemoveRow
    <2>7. CASE UpFails(t) \/ ReadComposeState(t) \/ Timeout(t)
      BY <2>7 DEF UpFails, ReadComposeState, Timeout
    <2>8. CASE ComposeUp(t)
      BY <2>8, SnapshotFacts, LastWordsType DEF ComposeUp
    <2>9. CASE Poll(t)
      BY <2>9 DEF Poll
    <2>10. CASE ApplyIptables(t)
      BY <2>10 DEF ApplyIptables
    <2>11. CASE GiveUp(t)
      BY <2>11, LastWordsType DEF GiveUp, ComposeDown
    <2>12. CASE StopEndpoint(t)
      BY <2>12, LastWordsType DEF StopEndpoint, ComposeDown, LeaveIt, AfterStop
    <2> QED
      BY <1>2, <2>1, <2>2, <2>3, <2>4, <2>5, <2>6, <2>7, <2>8, <2>9, <2>10, <2>11, <2>12
      DEF ThreadStep, ManagerStep
  <1>3. CASE Container
    BY <1>3, SnapshotFacts
    DEF Container, WorkerReady, WorkerFails, WorkerDies, WorkerTick, Alive
  <1>4. CASE Restart
    BY <1>4, SnapshotFacts DEF Restart
  <1>5. CASE UNCHANGED vars
    BY <1>5 DEF vars
  <1> QED
    BY <1>1, <1>2, <1>3, <1>4, <1>5 DEF Next

\* Type correctness for any set of request threads.
THEOREM TypeCorrect == Spec => []TypeOK
BY TypeInit, TypeStep, PTL DEF Spec

-----------------------------------------------------------------------------
\* Unborn is kept by every step: a request on an endpoint that is not there
\* is only its creation.
LEMMA UnbornStep == TypeOK /\ Unborn /\ [Next]_vars => Unborn'
<1> SUFFICES ASSUME TypeOK, Unborn, [Next]_vars, row' = "unborn"
             PROVE  (Quiet /\ box = "none")'
    BY DEF Unborn
<1> USE DEF TypeOK, Quiet, Unborn
<1>1. ASSUME NEW t \in Requests,
             Create(t) \/ Update(t) \/ Start(t) \/ Stop(t) \/ Delete(t)
      PROVE  FALSE
    BY <1>1 DEF Create, Update, Start, Stop, Delete, Live
<1>2. ASSUME NEW t \in Threads, ThreadStep(t) PROVE FALSE
  <2>1. at[t] # "idle"
      BY <1>2 DEF ThreadStep, ManagerStep, SyncFails, SyncFiles, Reload, Disable, RemoveFiles,
         RemoveRow, UpFails, ComposeUp, ReadComposeState, Poll, Timeout, ApplyIptables, GiveUp,
         StopEndpoint
  <2>2. row # "unborn"
      BY <2>1
  <2>3. row' # "unborn"
      BY <1>2, <2>2 DEF ThreadStep, ManagerStep, SyncFails, SyncFiles, Reload, Disable,
         RemoveFiles, RemoveRow, UpFails, ComposeUp, ReadComposeState, Poll, Timeout,
         ApplyIptables, GiveUp, StopEndpoint
  <2> QED
      BY <2>3
<1>3. CASE Container
    BY <1>3 DEF Container, WorkerReady, WorkerFails, WorkerDies, WorkerTick, Alive, Up
<1>4. CASE Restart
    BY <1>4 DEF Restart, Live
<1>5. CASE UNCHANGED vars
    BY <1>5 DEF vars
<1> QED
    BY <1>1, <1>2, <1>3, <1>4, <1>5 DEF Next

\* What an orderly request, or nobody, leaves behind.
LEMMA OrderlyRequest ==
    ASSUME IInv, NEW t \in Requests, orderly',
           Create(t) \/ Update(t) \/ Start(t) \/ Stop(t) \/ Delete(t)
    PROVE  Orderly'
  <1> USE DEF TypeOK
  <1>1. Quiet /\ t \in Threads
    BY DEF Create, Update, Start, Stop, Delete, Request, Threads
  <1>2. \A u \in Threads : u # t => at'[u] = "idle"
    BY <1>1 DEF Create, Update, Start, Stop, Delete, Request, Begin, IInv, Quiet
  <1> USE <1>1, <1>2 DEF Request, Begin, IInv, Orderly, Quiet, Alone
  <1>3. CASE Create(t)
    BY <1>3 DEF Create, Unborn
  <1>4. CASE Update(t)
    BY <1>4 DEF Update, Live
  <1>5. CASE Start(t)
    BY <1>5 DEF Start
  <1>6. CASE Stop(t)
    BY <1>6 DEF Stop, Live
  <1>7. CASE Delete(t)
    BY <1>7 DEF Delete, Live
  <1> QED
    BY <1>3, <1>4, <1>5, <1>6, <1>7

\* Every step a thread takes starts somewhere, and none makes a disorderly
\* request orderly.
LEMMA ThreadIsBusy ==
    ASSUME NEW t \in Threads, ThreadStep(t)
    PROVE  at[t] # "idle" /\ (orderly' => orderly)
  BY DEF ThreadStep, ManagerStep, SyncFails, SyncFiles, Reload, Disable, RemoveFiles, RemoveRow,
     UpFails, ComposeUp, ReadComposeState, Poll, Timeout, ApplyIptables, GiveUp, StopEndpoint,
     ComposeDown, LeaveIt

LEMMA OrderlyThread ==
    ASSUME IInv, NEW t \in Threads, ThreadStep(t), orderly'
    PROVE  Orderly'
  <1>1. orderly /\ Orderly /\ at[t] # "idle"
    BY ThreadIsBusy DEF IInv
  <1>2. row # "deleted" /\ row # "unborn"
    BY <1>1 DEF Orderly, IInv, Unborn, Quiet
  <1>3. \A u \in Threads : u # t => at[u] = "idle" /\ op[u] = "idle"
    BY <1>1 DEF Orderly, Alone, IInv, TypeOK
  <1>4. row \in {"enabled", "disabled"}
    BY <1>2 DEF IInv, TypeOK
  <1> USE <1>1, <1>3, <1>4
      DEF Orderly, Quiet, Alone, IInv, TypeOK, Live, Up, Goto, Return, Begin
  <1>5. CASE SyncFails(t)
    BY <1>5 DEF SyncFails
  <1>6. CASE SyncFiles(t)
    BY <1>6 DEF SyncFiles
  <1>7. CASE Reload(t)
    <2>1. PICK up \in ShownUp :
            /\ op[t] = "boot" /\ row = "disabled" => up = Up
            /\ CASE row = "enabled" ->
                        IF op[t] = "boot" /\ up THEN Return(t) ELSE Goto(t, "up")
                 [] row = "disabled" ->
                        IF op[t] = "create" \/ (op[t] = "boot" /\ ~up) THEN Return(t)
                        ELSE Goto(t, "stop")
                 [] OTHER -> Return(t)
      BY <1>7 DEF Reload
    <2>2. row' = row /\ box' = box
      BY <1>7 DEF Reload
    <2> QED
      BY <1>7, <2>1, <2>2 DEF Reload
  <1>8. CASE Disable(t)
    BY <1>8 DEF Disable
  <1>9. CASE RemoveFiles(t)
    BY <1>9 DEF RemoveFiles
  <1>10. CASE RemoveRow(t)
    BY <1>10 DEF RemoveRow
  <1>11. CASE UpFails(t)
    BY <1>11 DEF UpFails
  <1>12. CASE ComposeUp(t)
    BY <1>12 DEF ComposeUp
  <1>13. CASE ReadComposeState(t)
    BY <1>13 DEF ReadComposeState
  <1>14. CASE Poll(t)
    BY <1>14 DEF Poll
  <1>15. CASE Timeout(t)
    BY <1>15 DEF Timeout
  <1>16. CASE ApplyIptables(t)
    BY <1>16 DEF ApplyIptables
  <1>17. CASE GiveUp(t)
    BY <1>17 DEF GiveUp, ComposeDown
  <1>18. CASE StopEndpoint(t)
    <2>1. box' = "none" /\ row' = row
      BY <1>18 DEF StopEndpoint, ComposeDown, LeaveIt
    <2> QED
      BY <1>18, <2>1 DEF StopEndpoint, AfterStop
  <1> QED
    BY <1>5, <1>6, <1>7, <1>8, <1>9, <1>10, <1>11, <1>12, <1>13, <1>14, <1>15, <1>16, <1>17,
       <1>18 DEF ThreadStep, ManagerStep

LEMMA OrderlyStep ==
    ASSUME IInv, [Next]_vars, orderly'
    PROVE  Orderly'
  <1>1. CASE Container
    BY <1>1 DEF Container, WorkerReady, WorkerFails, WorkerDies, WorkerTick, Up, IInv, Orderly,
       Quiet, Alone
  <1>2. CASE Restart
    BY <1>2 DEF Restart, Live, Up, IInv, Orderly, Unborn, TypeOK, Threads, Quiet, Alone
  <1>3. CASE UNCHANGED vars
    BY <1>3 DEF vars, IInv, Orderly, Up, Quiet, Alone
  <1> QED
    BY <1>1, <1>2, <1>3, OrderlyRequest, OrderlyThread DEF Next

-----------------------------------------------------------------------------
\* The inductive invariant: with any number of requests, restarts and failing
\* workers, an orderly request knows what state the endpoint is in.
THEOREM Invariant == Spec => []IInv
<1>1. Init => IInv
    BY TypeInit DEF Init, IInv, Unborn, Orderly, Alone, Quiet, Up
<1>2. IInv /\ [Next]_vars => IInv'
    BY TypeStep, UnbornStep, OrderlyStep DEF IInv
<1> QED
    BY <1>1, <1>2, PTL DEF Spec

\* An endpoint shown as disabled has no container (AppContext.stop_endpoint,
\* update_endpoint and start), whatever happened before the latest request or
\* boot, as long as that one ran alone, compose obeyed and, at a boot, showed
\* the container that was up.
THEOREM DisabledTheorem == Spec => []DisabledMeansDown
<1>1. IInv => DisabledMeansDown
    BY DEF IInv, Orderly, DisabledMeansDown
<1> QED
    BY <1>1, Invariant, PTL

\* A deleted endpoint leaves no container (AppContext.delete_endpoint), under
\* the same condition.
THEOREM DeletedTheorem == Spec => []DeletedMeansGone
<1>1. IInv => DeletedMeansGone
    BY DEF IInv, Orderly, DeletedMeansGone
<1> QED
    BY <1>1, Invariant, PTL
=============================================================================
