------------------------- MODULE RuntimeMirrorProofs -------------------------
(***************************************************************************)
(* For any handlers, any number of disconnects and of workers: as long as  *)
(* threads write in turn and start.sh removes no temporary file under one, *)
(* readers of runtime.json find whole snapshots and the last one tells how *)
(* the worker ended; and always, a disconnect finds nobody else's session. *)
(***************************************************************************)
EXTENDS RuntimeMirror, FiniteSetTheorems, TLAPS

\* The sessions of a worker are numbered as its handlers come.
Ids ==
    /\ nextId = Cardinality({h \in Handlers : handler[h] # "away"}) + 1
    /\ \A h \in Handlers : handler[h] = "away" => sid[h] = 0
    /\ \A h \in Handlers : handler[h] # "away" => sid[h] \in 1..(nextId - 1)
    /\ \A g, h \in Handlers : sid[g] = sid[h] /\ sid[g] # 0 => g = h

\* Which threads are in write_snapshot, and what they have in hand there.
Pens ==
    /\ pen["main"] # "none" <=> main \in {"error", "started", "last"}
    /\ pen["mirror"] # "none" <=> mirror = "writing"
    /\ \A h \in Handlers : pen[h] # "none" <=> handler[h] \in {"opening", "closing"}
    /\ \A t \in Writers : handle[t] # "none" => pen[t] = "write"
    /\ \A t \in Writers : built[t] # NoSnapshot <=> pen[t] \in {"open", "write"}

\* The mirror thread starts when the worker runs; nothing of a worker outlives it.
Ended ==
    /\ main \in {"starting", "error", "bound", "started"} \cup Over => mirror = "off"
    /\ main \in Over => \A h \in Handlers : handler[h] = "away"

\* A snapshot of this worker shows the sessions under the ids they have, those
\* that have ended included.
ShowsIds(s) ==
    /\ s.worker <= worker
    /\ Up /\ s.worker = worker => \A entry \in s.listed : sid[entry[1]] = entry[2]

Listings ==
    /\ ShowsIds(tmp.of) /\ ShowsIds(json.of)
    /\ \A t \in Writers : ShowsIds(built[t])

\* So does a disconnect.
Aims ==
    \A k \in Clicks :
        /\ click[k].worker <= worker
        /\ Up /\ click[k].worker = worker =>
              click[k].who \in Handlers /\ click[k].id # 0 /\ sid[click[k].who] = click[k].id

\* Threads that write in turn find the temporary file as they left it.
InTurn ==
    /\ \A t, u \in Writers : pen[t] # "none" /\ pen[u] # "none" => t = u
    /\ \A t \in Writers : pen[t] = "write" => handle[t] = "tmp" /\ tmp = Empty
    /\ \A t \in Writers : pen[t] = "rename" => tmp.is = "whole"

\* From its last word on, a worker says nothing else.
Says(word) ==
    \A t \in Writers : /\ built[t] # NoSnapshot => built[t].phase = word
                       /\ pen[t] = "rename" => tmp.of.phase = word

LastWords ==
    /\ main = "error" => phase = "error" /\ Says("error")
    /\ main \in {"last", "quitting"} => phase = "stopped" /\ Says("stopped")
    /\ main = "quitting" => \/ json = Removed
                            \/ json.is = "whole" /\ json.of.phase = "stopped"

\* What PublishedIsWhole and LastWordIsFinal say of such a worker.
Unharmed ==
    /\ json.is \in {"absent", "removed", "whole"}
    /\ mirror # "dead" /\ main # "crashed"
    /\ \A h \in Handlers : handler[h] # "lost" /\ (handler[h] = "stuck" => h \in stopped)

Final ==
    main = "exited" =>
        \/ json = Removed
        \/ json.is = "whole" /\ json.of.phase \in {"stopped", "error"}

Orderly == InTurn /\ LastWords /\ Unharmed /\ Final

IInv == TypeOK /\ Ids /\ Pens /\ Ended /\ Listings /\ Aims /\ (~crossed => Orderly)

-----------------------------------------------------------------------------
\* What any step can do to the sessions of a worker.
LEMMA SessionSteps ==
    ASSUME TypeOK, Pens, [Next]_vars
    PROVE  \/ \E how \in Over : EndWorker(how)
           \/ \E h \in Handlers : Register(h)
           \/ /\ UNCHANGED <<sid, nextId>>
              /\ \A h \in Handlers : handler'[h] = "away" <=> handler[h] = "away"
  <1> DEFINE Calm == /\ UNCHANGED <<sid, nextId>>
                     /\ \A h \in Handlers : handler'[h] = "away" <=> handler[h] = "away"
  <1>1. CASE Kill \/ MainReturnsFailed \/ MainRaises \/ Exit
    BY <1>1 DEF Kill, MainReturnsFailed, MainRaises, Exit, Over
  <1>2. CASE \E t \in Writers : WriteStep(t)
    BY <1>2 DEF WriteStep, sessionVars
  <1>3. CASE \/ StartFails \/ BindListener \/ SetRunning \/ Signal \/ Shutdown \/ MainReturns
             \/ Boot
    BY <1>3 DEF StartFails, BindListener, SetRunning, Signal, Shutdown, MainReturns, Boot,
                sessionVars
  <1>4. CASE \/ TakeCommands \/ MirrorStops \/ (\E k \in Clicks : Execute(k)) \/ Unlink
             \/ MirrorWrites \/ MirrorReturns \/ MirrorRaises
    BY <1>4 DEF TakeCommands, MirrorStops, Execute, Unlink, MirrorWrites, MirrorReturns,
                MirrorRaises, sessionVars
  <1>5. CASE \/ SweepJson \/ SweepTmp
             \/ \E k \in Clicks : Pick(k) \/ PlaceFile(k) \/ FillFile(k) \/ SweepCommand(k)
    BY <1>5 DEF Pick, PlaceFile, FillFile, SweepCommand, SweepJson, SweepTmp, sessionVars
  <1>6. ASSUME NEW h \in Handlers,
               OpeningAnnounced(h) \/ ClosingAnnounced(h) \/ HandlerRaises(h) \/ Unregister(h)
        PROVE  Calm
    <2>1. handler[h] # "away" /\ UNCHANGED <<sid, nextId>>
      BY <1>6 DEF OpeningAnnounced, ClosingAnnounced, HandlerRaises, Unregister, HandlerStep,
                  RenameRaises, PenStep, Pens
    <2>2. \E x : x # "away" /\ handler' = [handler EXCEPT ![h] = x]
      BY <1>6 DEF OpeningAnnounced, ClosingAnnounced, HandlerRaises, Unregister, HandlerStep
    <2> QED
      BY <2>1, <2>2 DEF TypeOK
  <1>7. CASE UNCHANGED vars
    BY <1>7 DEF vars, sessionVars
  <1> QED
    BY <1>1, <1>2, <1>3, <1>4, <1>5, <1>6, <1>7
    DEF Next, MainThread, MirrorThread, HandlerThread, Writers

LEMMA IdsStep ==
    ASSUME TypeOK, Pens, Ids, [Next]_vars
    PROVE  Ids'
  <1> DEFINE Come == {h \in Handlers : handler[h] # "away"}
  <1>1. CASE \E how \in Over : EndWorker(how)
    <2>1. Come' = {} /\ nextId' = 1 /\ \A h \in Handlers : sid'[h] = 0 /\ handler'[h] = "away"
      BY <1>1 DEF EndWorker
    <2> HIDE DEF Come
    <2>2. Cardinality(Come') = 0
      BY <2>1, FS_EmptySet
    <2> QED
      BY <2>1, <2>2 DEF Ids, Come
  <1>2. ASSUME NEW h \in Handlers, Register(h) PROVE Ids'
    <2>1. /\ Come' = Come \cup {h} /\ h \notin Come /\ nextId' = nextId + 1
          /\ \A g \in Handlers : sid'[g] = IF g = h THEN nextId ELSE sid[g]
          /\ \A g \in Handlers : handler'[g] = IF g = h THEN "opening" ELSE handler[g]
      BY <1>2 DEF Register, HandlerStep, TypeOK
    <2>2. IsFiniteSet(Come)
      BY MirrorAssumption, FS_Subset
    <2> HIDE DEF Come
    <2>3. Cardinality(Come') = Cardinality(Come) + 1 /\ Cardinality(Come) \in Nat
      BY <2>1, <2>2, FS_AddElement, FS_CardinalityType
    <2>4. nextId' = Cardinality(Come') + 1
      BY <2>1, <2>3 DEF Ids, Come
    <2>5. nextId \in Nat \ {0} /\ sid \in [Handlers -> Nat]
      BY DEF TypeOK
    <2>6. \A g \in Handlers : 0 <= sid[g] /\ sid[g] < nextId
      BY <2>5 DEF Ids
    <2>7. \A g \in Handlers : handler'[g] = "away" => sid'[g] = 0
      BY <2>1 DEF Ids
    <2>8. ASSUME NEW g \in Handlers, handler'[g] # "away" PROVE sid'[g] \in 1..(nextId' - 1)
      <3>1. CASE g = h
        BY <3>1, <2>1, <2>5
      <3>2. CASE g # h
        <4>1. sid'[g] = sid[g] /\ sid[g] \in 1..(nextId - 1) /\ nextId' = nextId + 1
          BY <3>2, <2>1, <2>8 DEF Ids
        <4> QED
          BY <4>1, <2>5
      <3> QED
        BY <3>1, <3>2
    <2>9. \A f, g \in Handlers : sid'[f] = sid'[g] /\ sid'[f] # 0 => f = g
      BY <2>1, <2>5, <2>6 DEF Ids
    <2> QED
      BY <2>4, <2>7, <2>8, <2>9 DEF Ids, Come
  <1>3. CASE /\ UNCHANGED <<sid, nextId>>
             /\ \A h \in Handlers : handler'[h] = "away" <=> handler[h] = "away"
    <2>1. Come' = Come
      BY <1>3
    <2> QED
      BY <1>3, <2>1 DEF Ids
  <1> QED
    BY <1>1, <1>2, <1>3, SessionSteps

\* There are not more sessions than handlers.
LEMMA IdBound ==
    ASSUME TypeOK, Ids
    PROVE  /\ Cardinality(Handlers) \in Nat /\ nextId <= Cardinality(Handlers) + 1
           /\ \A h \in Handlers : handler[h] = "away" => nextId <= Cardinality(Handlers)
  <1> DEFINE Come == {h \in Handlers : handler[h] # "away"}
  <1>1. /\ IsFiniteSet(Come) /\ Cardinality(Come) \in Nat
        /\ Cardinality(Handlers) \in Nat /\ Cardinality(Come) <= Cardinality(Handlers)
        /\ Cardinality(Come) = Cardinality(Handlers) => Come = Handlers
    BY MirrorAssumption, FS_Subset, FS_CardinalityType
  <1>2. nextId = Cardinality(Come) + 1
    BY DEF Ids
  <1>3. \A h \in Handlers : handler[h] = "away" => Come # Handlers
    OBVIOUS
  <1> HIDE DEF Come
  <1> QED
    BY <1>1, <1>2, <1>3

LEMMA CallFacts ==
    ASSUME TypeOK, NEW t \in Writers, CallWrite(t)
    PROVE  /\ pen' = [pen EXCEPT ![t] = "build"]
           /\ pen' \in [Writers -> {"none", "build", "open", "write", "rename"}]
           /\ UNCHANGED <<built, handle, tmp, json>>
           /\ crossed' \in BOOLEAN
           /\ ~crossed' => ~crossed /\ \A u \in Writers \ {t} : pen[u] = "none"
  <1>1. crossed \in BOOLEAN
    BY DEF TypeOK
  <1>2. crossed' = (crossed \/ \E u \in Writers \ {t} : pen[u] # "none")
    BY DEF CallWrite
  <1>3. crossed' \in BOOLEAN
    BY <1>2, Zenon
  <1>4. ~crossed' => ~crossed /\ \A u \in Writers \ {t} : pen[u] = "none"
    BY <1>2, Zenon
  <1>5. /\ pen' = [pen EXCEPT ![t] = "build"]
        /\ pen' \in [Writers -> {"none", "build", "open", "write", "rename"}]
    BY DEF CallWrite, TypeOK
  <1> QED
    BY <1>3, <1>4, <1>5 DEF CallWrite

LEMMA PensStep ==
    ASSUME TypeOK, Pens, Ended, [Next]_vars
    PROVE  Pens' /\ Ended'
  <1>a. /\ pen \in [Writers -> {"none", "build", "open", "write", "rename"}]
        /\ built \in [Writers -> Snapshots \cup {NoSnapshot}]
        /\ handle \in [Writers -> {"none", "tmp", "json", "unnamed"}]
        /\ DOMAIN handler = Handlers
    BY DEF TypeOK
  <1>b. /\ {"main", "mirror"} \subseteq Writers /\ Handlers \subseteq Writers
        /\ \A h \in Handlers : h # "main" /\ h # "mirror"
    BY MirrorAssumption DEF Writers
  <1> USE <1>a, <1>b DEF Pens, Ended, Up, Over, sessionVars, commandVars, fileVars
  <1>1. CASE Kill \/ MainReturnsFailed \/ MainRaises \/ Exit
    BY <1>1 DEF Kill, MainReturnsFailed, MainRaises, Exit, EndWorker
  <1>2. ASSUME NEW t \in Writers, WriteStep(t) PROVE Pens' /\ Ended'
    <2>1. CASE Build(t)
      <3>1. \A p, l : [worker |-> worker, phase |-> p, listed |-> l] # NoSnapshot
        BY MirrorAssumption DEF NoSnapshot, TypeOK
      <3>2. /\ built'[t] # NoSnapshot /\ pen'[t] = "open" /\ pen[t] = "build"
            /\ \A u \in Writers \ {t} : built'[u] = built[u] /\ pen'[u] = pen[u]
        BY <2>1, <3>1 DEF Build, PenStep
      <3> QED
        BY <1>2, <3>2, <2>1 DEF WriteStep, Build
    <2>2. CASE OpenTmp(t)
      BY <1>2, <2>2 DEF WriteStep, OpenTmp, PenStep
    <2>3. CASE WriteTmp(t)
      BY <1>2, <2>3 DEF WriteStep, WriteTmp, PenStep
    <2> QED
      BY <1>2, <2>1, <2>2, <2>3 DEF WriteStep
  <1>3. CASE StartFails \/ SetRunning \/ Shutdown
    BY <1>3, CallFacts DEF StartFails, SetRunning, Shutdown, MainStep
  <1>4. CASE BindListener \/ Signal \/ Boot
    BY <1>4 DEF BindListener, Signal, Boot, MainStep
  <1>5. CASE MainReturns
    <2>1. /\ \A u \in Writers : pen'[u] = IF u = "main" THEN "none" ELSE pen[u]
          /\ built' = built /\ \A u \in Writers : handle'[u] # "none" => handle[u] # "none"
          /\ pen["main"] = "rename"
      BY <1>5 DEF MainReturns, Rename, Renamed, PenStep
    <2>2. handler' = handler /\ pen' \in [Writers -> {"none", "build", "open", "write", "rename"}]
      BY <1>5 DEF MainReturns, Rename, PenStep
    <2>3. CASE main = "started" /\ main' = "serving" /\ mirror' = "waiting"
      BY <2>1, <2>2, <2>3
    <2>4. CASE main = "last" /\ main' = "quitting" /\ mirror' = mirror
      BY <2>1, <2>2, <2>4
    <2> QED
      BY <1>5, <2>3, <2>4 DEF MainReturns
  <1>6. CASE TakeCommands \/ MirrorStops \/ (\E k \in Clicks : Execute(k)) \/ Unlink
    BY <1>6 DEF TakeCommands, MirrorStops, Execute, Unlink, MirrorStep
  <1>7. CASE MirrorWrites
    BY <1>7, CallFacts DEF MirrorWrites, MirrorStep
  <1>8. CASE MirrorReturns
    BY <1>8 DEF MirrorReturns, Rename, Renamed, PenStep, MirrorStep
  <1>9. CASE MirrorRaises
    BY <1>9 DEF MirrorRaises, RenameRaises, PenStep, MirrorStep
  <1>10. CASE \E k \in Clicks : Pick(k) \/ PlaceFile(k) \/ FillFile(k) \/ SweepCommand(k)
    BY <1>10 DEF Pick, PlaceFile, FillFile, SweepCommand
  <1>11. ASSUME NEW h \in Handlers, Register(h) \/ Unregister(h) PROVE Pens' /\ Ended'
    BY <1>11, CallFacts DEF Register, Unregister, HandlerStep
  <1>12. ASSUME NEW h \in Handlers, OpeningAnnounced(h) \/ ClosingAnnounced(h)
         PROVE  Pens' /\ Ended'
    BY <1>12 DEF OpeningAnnounced, ClosingAnnounced, HandlerStep, Rename, Renamed, PenStep
  <1>13. ASSUME NEW h \in Handlers, HandlerRaises(h) PROVE Pens' /\ Ended'
    BY <1>13 DEF HandlerRaises, HandlerStep, RenameRaises, PenStep
  <1>14. CASE UNCHANGED vars
    BY <1>14 DEF vars
  <1>15. CASE SweepJson \/ SweepTmp
    <2>1. /\ \A t \in Writers : handle'[t] # "none" => handle[t] # "none"
          /\ UNCHANGED <<pen, built, main, mirror, handler>>
      BY <1>15 DEF SweepJson, SweepTmp, Unnamed
    <2> QED
      BY <2>1
  <1> QED
    BY <1>1, <1>2, <1>3, <1>4, <1>5, <1>6, <1>7, <1>8, <1>9, <1>10, <1>11, <1>12, <1>13, <1>14,
       <1>15
    DEF Next, MainThread, MirrorThread, HandlerThread

\* What a thread reads into a snapshot, and what it leaves in a file, is one.
LEMMA BuildType ==
    ASSUME TypeOK, Ids, NEW t \in Writers, Build(t)
    PROVE  built' \in [Writers -> Snapshots \cup {NoSnapshot}]
  <1> DEFINE list == {<<h, sid[h]>> : h \in Registered}
             new == [worker |-> worker, phase |-> phase, listed |-> list]
  <1>1. \A h \in Registered : h \in Handlers /\ sid[h] \in 1..Cardinality(Handlers)
    BY IdBound DEF Registered, TypeOK, Ids
  <1>2. list \in SUBSET (Handlers \X (1..Cardinality(Handlers)))
    BY <1>1
  <1> HIDE DEF list
  <1>3. new \in Snapshots
    BY <1>2 DEF Snapshots, TypeOK
  <1> HIDE DEF new
  <1>4. built' = [built EXCEPT ![t] = new]
    BY DEF Build, new, list
  <1> QED
    BY <1>3, <1>4 DEF TypeOK

LEMMA FileType ==
    /\ IsFile(Absent) /\ IsFile(Removed) /\ IsFile(Empty)
    /\ \A s \in Snapshots : IsFile(Whole(s))
    /\ \A old, s : s \in Snapshots => \A f \in Overwritten(old, s) : IsFile(f)
  BY DEF IsFile, Absent, Removed, Empty, Torn, Whole, Overwritten

LEMMA NoSnapshotIsNone == NoSnapshot \notin Snapshots
  BY DEF NoSnapshot, Snapshots

LEMMA TypeStep ==
    ASSUME TypeOK, Ids, Pens, [Next]_vars
    PROVE  TypeOK'
  <1> USE DEF TypeOK, sessionVars, commandVars, fileVars
  <1>1. ASSUME NEW how \in Over, EndWorker(how), IsFile(tmp'), IsFile(json') PROVE TypeOK'
    <2>1. Cardinality(Handlers) \in Nat
      BY IdBound
    <2>2. /\ sid' \in [Handlers -> 0..Cardinality(Handlers)]
          /\ nextId' \in 1..(Cardinality(Handlers) + 1)
      BY <1>1, <2>1 DEF EndWorker
    <2>3. /\ handler' \in [Handlers -> {"away", "opening", "running", "closing", "gone",
                                       "stuck", "lost"}]
          /\ pen' \in [Writers -> {"none", "build", "open", "write", "rename"}]
          /\ built' \in [Writers -> Snapshots \cup {NoSnapshot}]
          /\ handle' \in [Writers -> {"none", "tmp", "json", "unnamed"}]
      BY <1>1 DEF EndWorker
    <2> QED
      BY <1>1, <2>2, <2>3 DEF EndWorker
  <1>2. CASE Kill \/ MainRaises \/ Exit
    BY <1>1, <1>2 DEF Kill, MainRaises, Exit, Over
  <1>3. CASE MainReturnsFailed
    BY <1>1, <1>3, FileType DEF MainReturnsFailed, Over
  <1>4. ASSUME NEW t \in Writers, WriteStep(t) PROVE TypeOK'
    <2>1. CASE Build(t)
      <3>1. built' \in [Writers -> Snapshots \cup {NoSnapshot}]
        BY <2>1, BuildType
      <3>2. /\ pen' = [pen EXCEPT ![t] = "open"] /\ UNCHANGED <<handle, tmp, json, crossed>>
        BY <2>1 DEF Build, PenStep
      <3> QED
        BY <1>4, <3>1, <3>2 DEF WriteStep
    <2>2. CASE OpenTmp(t)
      BY <1>4, <2>2, FileType DEF WriteStep, OpenTmp, PenStep
    <2>3. CASE WriteTmp(t)
      <3>1. built[t] \in Snapshots
        BY <2>3 DEF WriteTmp, PenStep, Pens
      <3>2. IsFile(tmp') /\ IsFile(json')
        BY <2>3, <3>1, FileType DEF WriteTmp
      <3> QED
        BY <1>4, <2>3, <3>2 DEF WriteStep, WriteTmp, PenStep
    <2> QED
      BY <1>4, <2>1, <2>2, <2>3 DEF WriteStep
  <1>5. CASE StartFails \/ SetRunning \/ Shutdown
    BY <1>5, CallFacts DEF StartFails, SetRunning, Shutdown, MainStep, Registered, Writers
  <1>6. CASE BindListener \/ Signal
    BY <1>6 DEF BindListener, Signal, MainStep
  <1>7. CASE Boot
    BY <1>7, MirrorAssumption DEF Boot
  <1>8. ASSUME NEW t \in Writers, Rename(t)
        PROVE  /\ pen' \in [Writers -> {"none", "build", "open", "write", "rename"}]
               /\ built' \in [Writers -> Snapshots \cup {NoSnapshot}]
               /\ handle' \in [Writers -> {"none", "tmp", "json", "unnamed"}]
               /\ IsFile(tmp') /\ IsFile(json') /\ crossed' \in BOOLEAN
    BY <1>8, FileType DEF Rename, Renamed, PenStep
  <1>9. CASE MainReturns
    BY <1>8, <1>9 DEF MainReturns, Writers
  <1>10. CASE TakeCommands \/ MirrorStops \/ Unlink
    BY <1>10 DEF TakeCommands, MirrorStops, Unlink, MirrorStep, OnDisk
  <1>11. ASSUME NEW k \in Clicks, Execute(k) PROVE TypeOK'
    BY <1>11 DEF Execute, MirrorStep, Named, Registered
  <1>12. CASE MirrorWrites
    <2>1. CallWrite("mirror") /\ "mirror" \in Writers
      BY <1>12 DEF MirrorWrites, Writers
    <2> QED
      BY <1>12, <2>1, CallFacts DEF MirrorWrites, MirrorStep
  <1>13. CASE MirrorReturns
    BY <1>8, <1>13 DEF MirrorReturns, MirrorStep, Writers
  <1>14. CASE MirrorRaises
    BY <1>14 DEF MirrorRaises, RenameRaises, PenStep, MirrorStep
  <1>15. ASSUME NEW k \in Clicks, Pick(k) PROVE TypeOK'
    <2>1. json.of \in Snapshots
      BY <1>15 DEF Pick, IsFile, Absent, Removed, Empty, Torn
    <2>2. Cardinality(Handlers) \in Nat /\ MaxWorkers \in Nat
      BY IdBound, MirrorAssumption
    <2>3. PICK entry \in json.of.listed :
              click' = [click EXCEPT ![k] = [is |-> "picked", id |-> entry[2],
                                             who |-> entry[1], worker |-> json.of.worker]]
      BY <1>15 DEF Pick
    <2>4. /\ entry[2] \in 0..Cardinality(Handlers) /\ entry[1] \in Handlers
          /\ json.of.worker \in 0..MaxWorkers
      BY <2>1, <2>2, <2>3 DEF Snapshots
    <2> QED
      BY <1>15, <2>3, <2>4 DEF Pick
  <1>16. ASSUME NEW k \in Clicks, PlaceFile(k) \/ FillFile(k) PROVE TypeOK'
    BY <1>16 DEF PlaceFile, FillFile
  <1>17. ASSUME NEW h \in Handlers, Register(h) PROVE TypeOK'
    <2>1. nextId \in 1..Cardinality(Handlers) /\ Cardinality(Handlers) \in Nat
      BY <1>17, IdBound DEF Register, HandlerStep
    <2>2. CallWrite(h) /\ h \in Writers
      BY <1>17 DEF Register, Writers
    <2>3. /\ pen' \in [Writers -> {"none", "build", "open", "write", "rename"}]
          /\ UNCHANGED <<built, handle, tmp, json>> /\ crossed' \in BOOLEAN
      BY <2>2, CallFacts
    <2>4. /\ sid' \in [Handlers -> 0..Cardinality(Handlers)]
          /\ nextId' \in 1..(Cardinality(Handlers) + 1)
          /\ handler' \in [Handlers -> {"away", "opening", "running", "closing", "gone",
                                       "stuck", "lost"}]
      BY <1>17, <2>1 DEF Register, HandlerStep
    <2> QED
      BY <1>17, <2>3, <2>4 DEF Register
  <1>18. ASSUME NEW h \in Handlers, Unregister(h) PROVE TypeOK'
    <2>1. CallWrite(h) /\ h \in Writers
      BY <1>18 DEF Unregister, Writers
    <2>2. /\ pen' \in [Writers -> {"none", "build", "open", "write", "rename"}]
          /\ UNCHANGED <<built, handle, tmp, json>> /\ crossed' \in BOOLEAN
      BY <2>1, CallFacts
    <2> QED
      BY <1>18, <2>2 DEF Unregister, HandlerStep
  <1>19. ASSUME NEW h \in Handlers, OpeningAnnounced(h) \/ ClosingAnnounced(h)
         PROVE  TypeOK'
    BY <1>8, <1>19 DEF OpeningAnnounced, ClosingAnnounced, HandlerStep, Writers
  <1>20. ASSUME NEW h \in Handlers, HandlerRaises(h) PROVE TypeOK'
    <2>1. /\ handler' \in [Handlers -> {"away", "opening", "running", "closing", "gone",
                                       "stuck", "lost"}]
      BY <1>20 DEF HandlerRaises, HandlerStep
    <2>2. /\ pen' \in [Writers -> {"none", "build", "open", "write", "rename"}]
          /\ built' \in [Writers -> Snapshots \cup {NoSnapshot}]
      BY <1>20 DEF HandlerRaises, RenameRaises, PenStep
    <2> QED
      BY <1>20, <2>1, <2>2 DEF HandlerRaises, RenameRaises
  <1>21. CASE UNCHANGED vars
    BY <1>21 DEF vars
  <1>22. CASE SweepJson
    BY <1>22, FileType DEF SweepJson, Unnamed
  <1>23. CASE SweepTmp
    <2>1. crossed' \in BOOLEAN
      BY <1>23 DEF SweepTmp
    <2>2. IsFile(tmp') /\ handle' \in [Writers -> {"none", "tmp", "json", "unnamed"}]
      BY <1>23, FileType DEF SweepTmp, Unnamed
    <2> QED
      BY <1>23, <2>1, <2>2 DEF SweepTmp
  <1>24. ASSUME NEW k \in Clicks, SweepCommand(k) PROVE TypeOK'
    BY <1>24 DEF SweepCommand
  <1> QED
    BY <1>2, <1>3, <1>4, <1>5, <1>6, <1>7, <1>9, <1>10, <1>11, <1>12, <1>13, <1>14, <1>15,
       <1>16, <1>17, <1>18, <1>19, <1>20, <1>21, <1>22, <1>23, <1>24
    DEF Next, MainThread, MirrorThread, HandlerThread, Writers

\* Workers come one after the other.
LEMMA WorkerSteps ==
    ASSUME TypeOK, Ended, [Next]_vars
    PROVE  \/ worker' = worker /\ (Up' => Up)
           \/ worker' = worker + 1 /\ UNCHANGED sid
  <1> USE DEF Up, Over
  <1>1. CASE Kill \/ MainReturnsFailed \/ MainRaises \/ Exit
    BY <1>1 DEF Kill, MainReturnsFailed, MainRaises, Exit, EndWorker
  <1>2. CASE \E t \in Writers : WriteStep(t)
    BY <1>2 DEF WriteStep
  <1>3. CASE StartFails \/ BindListener \/ SetRunning \/ Signal \/ Shutdown \/ MainReturns
    BY <1>3 DEF StartFails, BindListener, SetRunning, Signal, Shutdown, MainReturns, MainStep
  <1>4. CASE Boot
    BY <1>4 DEF Boot, sessionVars
  <1>5. CASE \/ TakeCommands \/ MirrorStops \/ (\E k \in Clicks : Execute(k)) \/ Unlink
             \/ MirrorWrites \/ MirrorReturns \/ MirrorRaises
    BY <1>5 DEF TakeCommands, MirrorStops, Execute, Unlink, MirrorWrites, MirrorReturns,
                MirrorRaises
  <1>6. CASE \/ SweepJson \/ SweepTmp
             \/ \E k \in Clicks : Pick(k) \/ PlaceFile(k) \/ FillFile(k) \/ SweepCommand(k)
    BY <1>6 DEF Pick, PlaceFile, FillFile, SweepCommand, SweepJson, SweepTmp
  <1>7. CASE \E h \in Handlers : \/ OpeningAnnounced(h) \/ ClosingAnnounced(h)
                                 \/ HandlerRaises(h) \/ Register(h) \/ Unregister(h)
    BY <1>7 DEF OpeningAnnounced, ClosingAnnounced, HandlerRaises, Register, Unregister
  <1>8. CASE UNCHANGED vars
    BY <1>8 DEF vars
  <1> QED
    BY <1>1, <1>2, <1>3, <1>4, <1>5, <1>6, <1>7, <1>8
    DEF Next, MainThread, MirrorThread, HandlerThread, Writers

\* Within a worker a session keeps its id.
LEMMA IdStays ==
    ASSUME TypeOK, Ids, Pens, Ended, [Next]_vars, worker' = worker, Up',
           NEW h \in Handlers, sid[h] # 0
    PROVE  sid'[h] = sid[h]
  <1>1. CASE \E how \in Over : EndWorker(how)
    BY <1>1 DEF EndWorker, Up
  <1>2. ASSUME NEW g \in Handlers, Register(g) PROVE sid'[h] = sid[h]
    BY <1>2 DEF Register, HandlerStep, Ids, TypeOK
  <1> QED
    BY <1>1, <1>2, SessionSteps

LEMMA ShowsStep ==
    ASSUME TypeOK, Ids, Pens, Ended, [Next]_vars,
           NEW s \in Snapshots \cup {NoSnapshot}, ShowsIds(s)
    PROVE  ShowsIds(s)'
  <1>1. s.worker \in Nat /\ worker \in Nat \ {0}
    BY MirrorAssumption DEF Snapshots, NoSnapshot, TypeOK
  <1>2. CASE worker' = worker + 1
    BY <1>1, <1>2 DEF ShowsIds
  <1>3. CASE worker' = worker /\ (Up' => Up)
    <2> SUFFICES ASSUME Up', s.worker = worker, NEW entry \in s.listed
                 PROVE  sid'[entry[1]] = entry[2]
      BY <1>3 DEF ShowsIds
    <2>1. sid[entry[1]] = entry[2]
      BY <1>3 DEF ShowsIds
    <2>2. entry[1] \in Handlers /\ entry[2] # 0
      BY IdBound DEF Snapshots, NoSnapshot
    <2> QED
      BY <1>3, <2>1, <2>2, IdStays
  <1> QED
    BY <1>2, <1>3, WorkerSteps

\* What a step may leave in the files, and in the hands of a thread.
LEMMA FileSteps ==
    ASSUME TypeOK, Ids, Pens, [Next]_vars
    PROVE  /\ tmp' \in {tmp, Absent, Empty, Torn} \/ \E t \in Writers : tmp' = Whole(built[t])
           /\ json' \in {json, tmp, Removed, Torn} \/ \E t \in Writers : json' = Whole(built[t])
           /\ \A t \in Writers : \/ built'[t] \in {built[t], NoSnapshot}
                                 \/ Build(t) /\ UNCHANGED <<worker, sid>>
  <1>a. built \in [Writers -> Snapshots \cup {NoSnapshot}]
    BY DEF TypeOK
  <1> USE <1>a DEF sessionVars, commandVars, fileVars
  <1>1. CASE Kill \/ MainReturnsFailed \/ MainRaises \/ Exit
    BY <1>1 DEF Kill, MainReturnsFailed, MainRaises, Exit, EndWorker
  <1>2. ASSUME NEW t \in Writers, WriteStep(t)
        PROVE  /\ tmp' \in {tmp, Empty, Torn, Whole(built[t])}
               /\ json' \in {json, Torn, Whole(built[t])}
               /\ \A u \in Writers : \/ built'[u] \in {built[u], NoSnapshot}
                                     \/ Build(u) /\ UNCHANGED <<worker, sid>>
    BY <1>2 DEF WriteStep, Build, OpenTmp, WriteTmp, Overwritten
  <1>3. CASE StartFails \/ SetRunning \/ Shutdown
    BY <1>3 DEF StartFails, SetRunning, Shutdown, CallWrite
  <1>4. CASE BindListener \/ Signal \/ Boot
    BY <1>4 DEF BindListener, Signal, Boot
  <1>5. CASE \E t \in Writers : Rename(t)
    BY <1>5 DEF Rename
  <1>6. CASE TakeCommands \/ MirrorStops \/ (\E k \in Clicks : Execute(k)) \/ Unlink
    BY <1>6 DEF TakeCommands, MirrorStops, Execute, Unlink
  <1>7. CASE MirrorWrites
    BY <1>7 DEF MirrorWrites, CallWrite
  <1>8. CASE \E t \in Writers : RenameRaises(t)
    BY <1>8 DEF RenameRaises
  <1>9. CASE \/ SweepJson \/ SweepTmp
             \/ \E k \in Clicks : Pick(k) \/ PlaceFile(k) \/ FillFile(k) \/ SweepCommand(k)
    BY <1>9 DEF Pick, PlaceFile, FillFile, SweepCommand, SweepJson, SweepTmp
  <1>10. CASE \E h \in Handlers : Register(h) \/ Unregister(h)
    BY <1>10 DEF Register, Unregister, CallWrite
  <1>11. CASE UNCHANGED vars
    BY <1>11 DEF vars
  <1> QED
    BY <1>1, <1>2, <1>3, <1>4, <1>5, <1>6, <1>7, <1>8, <1>9, <1>10, <1>11
    DEF Next, MainThread, MirrorThread, HandlerThread, MainReturns, MirrorReturns, MirrorRaises,
        OpeningAnnounced, ClosingAnnounced, HandlerRaises, Writers

LEMMA ListingsStep ==
    ASSUME TypeOK, Ids, Pens, Ended, Listings, [Next]_vars
    PROVE  Listings'
  <1>1. /\ tmp.of \in Snapshots \cup {NoSnapshot} /\ json.of \in Snapshots \cup {NoSnapshot}
        /\ \A t \in Writers : built[t] \in Snapshots \cup {NoSnapshot}
    BY DEF TypeOK, IsFile, Absent, Removed, Empty, Torn
  <1>2. /\ ShowsIds(tmp.of) /\ ShowsIds(json.of)
        /\ \A t \in Writers : ShowsIds(built[t])
    BY DEF Listings
  <1>3. NoSnapshot \in Snapshots \cup {NoSnapshot} /\ ShowsIds(NoSnapshot)
    BY DEF ShowsIds, NoSnapshot, TypeOK
  <1> DEFINE Old == {tmp.of, json.of, NoSnapshot} \cup {built[t] : t \in Writers}
             Shown(s) == /\ s.worker <= worker'
                         /\ Up' /\ s.worker = worker' =>
                               \A entry \in s.listed : sid'[entry[1]] = entry[2]
  <1>4. \A s \in Old : s \in Snapshots \cup {NoSnapshot} /\ ShowsIds(s)
    BY <1>1, <1>2, <1>3
  <1>5. \A s \in Old : Shown(s)
    <2> HIDE DEF Old
    <2> QED
      BY <1>4, ShowsStep DEF ShowsIds
  <1>6. tmp'.of \in Old /\ json'.of \in Old
    BY FileSteps DEF Absent, Removed, Empty, Torn, Whole
  <1>7. ASSUME NEW t \in Writers PROVE Shown(built'[t])
    <2>1. CASE Build(t) /\ UNCHANGED <<worker, sid>>
      <3>1. /\ built'[t].worker = worker /\ built'[t].listed = {<<h, sid[h]>> : h \in Registered}
        BY <2>1 DEF Build, TypeOK
      <3>2. \A entry \in built'[t].listed : sid[entry[1]] = entry[2]
        BY <3>1
      <3>3. worker <= worker
        BY DEF TypeOK
      <3> QED
        BY <2>1, <3>1, <3>2, <3>3
    <2>2. CASE built'[t] \in {built[t], NoSnapshot}
      BY <1>5, <2>2
    <2> QED
      BY <2>1, <2>2, FileSteps
  <1>8. Shown(tmp'.of) /\ Shown(json'.of)
    <2> HIDE DEF Old, Shown
    <2> QED
      BY <1>5, <1>6
  <1> QED
    BY <1>7, <1>8 DEF Listings, ShowsIds

LEMMA ClickSteps ==
    ASSUME TypeOK, [Next]_vars
    PROVE  \/ \E k \in Clicks : Pick(k)
           \/ \A k \in Clicks :
                /\ click'[k].id = click[k].id /\ click'[k].who = click[k].who
                /\ click'[k].worker = click[k].worker
  <1> USE DEF sessionVars, commandVars
  <1>1. CASE Kill \/ MainReturnsFailed \/ MainRaises \/ Exit
    BY <1>1 DEF Kill, MainReturnsFailed, MainRaises, Exit, EndWorker
  <1>2. CASE \E t \in Writers : WriteStep(t)
    BY <1>2 DEF WriteStep
  <1>3. CASE \/ StartFails \/ BindListener \/ SetRunning \/ Signal \/ Shutdown \/ MainReturns
             \/ Boot
    BY <1>3 DEF StartFails, BindListener, SetRunning, Signal, Shutdown, MainReturns, Boot
  <1>4. CASE \/ TakeCommands \/ MirrorStops \/ (\E k \in Clicks : Execute(k))
             \/ MirrorWrites \/ MirrorReturns \/ MirrorRaises
    BY <1>4 DEF TakeCommands, MirrorStops, Execute, MirrorWrites, MirrorReturns, MirrorRaises
  <1>5. CASE Unlink
    BY <1>5 DEF Unlink, TypeOK
  <1>6. ASSUME NEW k \in Clicks, PlaceFile(k) \/ FillFile(k) \/ SweepCommand(k)
        PROVE  \A l \in Clicks :
                 /\ click'[l].id = click[l].id /\ click'[l].who = click[l].who
                 /\ click'[l].worker = click[l].worker
    BY <1>6 DEF PlaceFile, FillFile, SweepCommand, TypeOK
  <1>7. CASE \E h \in Handlers : \/ OpeningAnnounced(h) \/ ClosingAnnounced(h)
                                 \/ HandlerRaises(h) \/ Register(h) \/ Unregister(h)
    BY <1>7 DEF OpeningAnnounced, ClosingAnnounced, HandlerRaises, Register, Unregister
  <1>8. CASE UNCHANGED vars \/ SweepJson \/ SweepTmp
    BY <1>8 DEF vars, SweepJson, SweepTmp
  <1> QED
    BY <1>1, <1>2, <1>3, <1>4, <1>5, <1>6, <1>7, <1>8
    DEF Next, MainThread, MirrorThread, HandlerThread, Writers

LEMMA AimsStep ==
    ASSUME TypeOK, Ids, Pens, Ended, Listings, Aims, [Next]_vars
    PROVE  Aims'
  <1>1. ASSUME NEW k \in Clicks, Pick(k) PROVE Aims'
    <2>1. PICK entry \in json.of.listed :
              click' = [click EXCEPT ![k] = [is |-> "picked", id |-> entry[2],
                                             who |-> entry[1], worker |-> json.of.worker]]
      BY <1>1 DEF Pick
    <2>2. UNCHANGED <<worker, main, sid>>
      BY <1>1 DEF Pick, sessionVars
    <2>3. json.of \in Snapshots
      BY <1>1 DEF Pick, TypeOK, IsFile, Absent, Removed, Empty, Torn
    <2>4. entry[1] \in Handlers /\ entry[2] # 0
      BY <2>1, <2>3, IdBound DEF Snapshots
    <2>5. /\ json.of.worker <= worker
          /\ Up /\ json.of.worker = worker => sid[entry[1]] = entry[2]
      BY <2>1 DEF Listings, ShowsIds
    <2> QED
      BY <2>1, <2>2, <2>4, <2>5 DEF Aims, TypeOK, Up
  <1>2. CASE \A k \in Clicks : /\ click'[k].id = click[k].id /\ click'[k].who = click[k].who
                               /\ click'[k].worker = click[k].worker
    <2>1. worker \in Nat /\ \A k \in Clicks : click[k].worker \in Nat
      BY MirrorAssumption DEF TypeOK
    <2>2. CASE worker' = worker + 1
      BY <1>2, <2>1, <2>2 DEF Aims
    <2>3. CASE worker' = worker /\ (Up' => Up)
      <3>1. ASSUME NEW k \in Clicks, Up', click[k].worker = worker
            PROVE  /\ click[k].who \in Handlers /\ click[k].id # 0
                   /\ sid'[click[k].who] = click[k].id
        BY <2>3, <3>1, IdStays DEF Aims
      <3> QED
        BY <1>2, <2>3, <3>1 DEF Aims
    <2> QED
      BY <2>2, <2>3, WorkerSteps
  <1> QED
    BY <1>1, <1>2, ClickSteps

\* A command that is for this worker names the session that was clicked on.
LEMMA AimIsTrueFromIds ==
    ASSUME TypeOK, Ids, Ended, Aims
    PROVE  AimIsTrue
  <1> SUFFICES ASSUME NEW k \in Clicks, click[k].worker = worker, NEW h \in Named(k)
               PROVE  h = click[k].who
    BY DEF AimIsTrue
  <1>1. h \in Handlers /\ handler[h] # "away" /\ sid[h] = click[k].id
    BY DEF Named, Registered
  <1>2. Up
    BY <1>1 DEF Ended, Up
  <1> QED
    BY <1>1, <1>2 DEF Aims, Ids

-----------------------------------------------------------------------------
\* The histories only grow: threads that are in turn have always been.
LEMMA CrossedStays ==
    ASSUME TypeOK, [Next]_vars, crossed
    PROVE  crossed'
  <1> USE DEF fileVars
  <1>1. ASSUME NEW t \in Writers, CallWrite(t) PROVE crossed'
    BY <1>1, CallFacts
  <1>2. CASE Kill \/ MainReturnsFailed \/ MainRaises \/ Exit
    BY <1>2 DEF Kill, MainReturnsFailed, MainRaises, Exit, EndWorker
  <1>3. CASE \E t \in Writers : WriteStep(t)
    BY <1>3 DEF WriteStep, Build, OpenTmp, WriteTmp
  <1>4. CASE StartFails \/ SetRunning \/ Shutdown \/ MirrorWrites
    BY <1>1, <1>4 DEF StartFails, SetRunning, Shutdown, MirrorWrites, Writers
  <1>5. CASE \/ BindListener \/ Signal \/ Boot \/ TakeCommands \/ MirrorStops \/ Unlink
             \/ (\E k \in Clicks : \/ Execute(k) \/ Pick(k) \/ PlaceFile(k)
                                    \/ FillFile(k) \/ SweepCommand(k))
    BY <1>5 DEF BindListener, Signal, Boot, TakeCommands, MirrorStops, Unlink, Execute, Pick,
                PlaceFile, FillFile, SweepCommand
  <1>6. CASE \E t \in Writers : Rename(t) \/ RenameRaises(t)
    BY <1>6 DEF Rename, RenameRaises
  <1>7. ASSUME NEW h \in Handlers, Register(h) \/ Unregister(h) PROVE crossed'
    BY <1>1, <1>7 DEF Register, Unregister, Writers
  <1>8. CASE UNCHANGED vars \/ SweepJson
    BY <1>8 DEF vars, SweepJson
  <1>9. CASE SweepTmp
    BY <1>9 DEF SweepTmp
  <1> QED
    BY <1>2, <1>3, <1>4, <1>5, <1>6, <1>7, <1>8, <1>9
    DEF Next, MainThread, MirrorThread, HandlerThread, MainReturns, MirrorReturns, MirrorRaises,
        OpeningAnnounced, ClosingAnnounced, HandlerRaises, Writers

\* The next lemmas: how a thread that is alone goes through write_snapshot.
LEMMA AloneCalls ==
    ASSUME TypeOK, Pens, InTurn, NEW t \in Writers, CallWrite(t), pen[t] = "none", ~crossed'
    PROVE  /\ InTurn' /\ \A u \in Writers : built'[u] = NoSnapshot /\ pen'[u] # "rename"
           /\ UNCHANGED <<tmp, json>>
  <1>1. /\ \A u \in Writers : pen[u] = "none"
        /\ \A u \in Writers : pen'[u] = IF u = t THEN "build" ELSE "none"
        /\ UNCHANGED <<built, handle, tmp, json>>
    BY CallFacts DEF TypeOK
  <1> QED
    BY <1>1 DEF InTurn, Pens

LEMMA AloneWrites ==
    ASSUME TypeOK, Pens, InTurn, NEW t \in Writers, Build(t) \/ OpenTmp(t) \/ WriteTmp(t)
    PROVE  /\ InTurn' /\ json' = json
           /\ \A u \in Writers :
                /\ built'[u] # NoSnapshot => built'[u] = built[u] \/ built'[u].phase = phase
                /\ pen'[u] = "rename" => built[t] # NoSnapshot /\ tmp' = Whole(built[t])
  <1> USE DEF TypeOK
  <1>1. \A u \in Writers \ {t} : pen[u] = "none" /\ built[u] = NoSnapshot
    BY DEF InTurn, Pens, Build, OpenTmp, WriteTmp, PenStep
  <1>2. CASE Build(t)
    <2>1. /\ \A u \in Writers : pen'[u] = IF u = t THEN "open" ELSE "none"
          /\ UNCHANGED <<handle, tmp, json>>
          /\ built'[t].phase = phase /\ \A u \in Writers \ {t} : built'[u] = built[u]
      BY <1>1, <1>2 DEF Build, PenStep
    <2> QED
      BY <2>1 DEF InTurn
  <1>3. CASE OpenTmp(t)
    <2>1. /\ \A u \in Writers : pen'[u] = IF u = t THEN "write" ELSE "none"
          /\ handle'[t] = "tmp" /\ tmp' = Empty /\ UNCHANGED <<built, json>>
      BY <1>1, <1>3 DEF OpenTmp, PenStep
    <2> QED
      BY <2>1 DEF InTurn
  <1>4. CASE WriteTmp(t)
    <2>1. handle[t] = "tmp" /\ tmp = Empty /\ built[t] # NoSnapshot
      BY <1>4 DEF WriteTmp, PenStep, InTurn, Pens
    <2>2. /\ \A u \in Writers : pen'[u] = IF u = t THEN "rename" ELSE "none"
          /\ \A u \in Writers : built'[u] = NoSnapshot
          /\ tmp' = Whole(built[t]) /\ UNCHANGED json
      BY <1>1, <1>4, <2>1 DEF WriteTmp, PenStep, Overwritten
    <2> QED
      BY <2>1, <2>2 DEF InTurn, Whole
  <1> QED
    BY <1>2, <1>3, <1>4

LEMMA AloneRenames ==
    ASSUME TypeOK, Pens, InTurn, NEW t \in Writers, Rename(t)
    PROVE  /\ InTurn' /\ json' = tmp /\ tmp.is = "whole"
           /\ pen[t] = "rename"
           /\ \A u \in Writers : built'[u] = NoSnapshot /\ pen'[u] # "rename"
  <1>1. \A u \in Writers \ {t} : pen[u] = "none" /\ built[u] = NoSnapshot
    BY DEF InTurn, Pens, Rename, PenStep
  <1>2. pen[t] = "rename" /\ built[t] = NoSnapshot /\ tmp.is = "whole"
    BY DEF InTurn, Pens, Rename, PenStep
  <1>3. /\ \A u \in Writers : pen'[u] = "none" /\ built'[u] = NoSnapshot
        /\ json' = tmp
    BY <1>1, <1>2 DEF Rename, PenStep, TypeOK
  <1> QED
    BY <1>2, <1>3 DEF InTurn

LEMMA AloneNeverRaises ==
    ASSUME InTurn, NEW t \in Writers, pen[t] = "rename"
    PROVE  tmp # Absent
  BY DEF InTurn, Absent

LEMMA OrderlyStep ==
    ASSUME TypeOK, Pens, Ended, Orderly, ~crossed', [Next]_vars
    PROVE  Orderly'
  <1> USE DEF Orderly, sessionVars, commandVars, fileVars, Over
  <1>a. {"main", "mirror"} \subseteq Writers /\ Handlers \subseteq Writers
    BY DEF Writers
  <1>1. ASSUME NEW how \in {"exited", "killed"}, EndWorker(how), json' = json \/ how = "exited",
               how = "exited" =>
                  \/ json' = Removed
                  \/ json'.is = "whole" /\ json'.of.phase \in {"stopped", "error"}
        PROVE  Orderly'
    <2>1. InTurn'
      BY <1>1 DEF EndWorker, InTurn
    <2>2. Unharmed'
      BY <1>1 DEF EndWorker, Unharmed, Removed
    <2> QED
      BY <1>1, <2>1, <2>2 DEF EndWorker, LastWords, Final
  <1>2. CASE Kill
    BY <1>1, <1>2 DEF Kill
  <1>3. CASE Exit
    BY <1>1, <1>3 DEF Exit, LastWords
  <1>4. CASE MainReturnsFailed
    <2>1. tmp.is = "whole" /\ tmp.of.phase = "error"
      BY <1>4, <1>a DEF MainReturnsFailed, InTurn, LastWords, Says
    <2> QED
      BY <1>1, <1>4, <2>1 DEF MainReturnsFailed
  <1>5. CASE MainRaises
    BY <1>5, <1>a, AloneNeverRaises DEF MainRaises
  <1>6. ASSUME NEW t \in Writers, WriteStep(t) PROVE Orderly'
    <2>1. /\ InTurn' /\ json' = json
          /\ \A u \in Writers :
               /\ built'[u] # NoSnapshot => built'[u] = built[u] \/ built'[u].phase = phase
               /\ pen'[u] = "rename" => built[t] # NoSnapshot /\ tmp' = Whole(built[t])
      BY <1>6, AloneWrites DEF WriteStep
    <2>2. UNCHANGED <<main, phase, mirror, handler, stopped>>
      BY <1>6 DEF WriteStep
    <2> QED
      BY <2>1, <2>2 DEF LastWords, Says, Unharmed, Final, Whole
  <1>7. CASE StartFails \/ SetRunning \/ Shutdown
    <2>1. pen["main"] = "none" /\ CallWrite("main")
      BY <1>7, <1>a DEF StartFails, SetRunning, Shutdown, MainStep, Pens
    <2>2. /\ InTurn' /\ (\A u \in Writers : built'[u] = NoSnapshot /\ pen'[u] # "rename")
          /\ UNCHANGED json
      BY <2>1, <1>a, AloneCalls
    <2>3. /\ handler' = handler /\ mirror' = mirror /\ stopped \subseteq stopped'
          /\ main' \in {"error", "started", "last"}
          /\ main' = "error" => phase' = "error"
          /\ main' = "last" => phase' = "stopped"
      BY <1>7 DEF StartFails, SetRunning, Shutdown, MainStep
    <2> QED
      BY <2>2, <2>3 DEF LastWords, Says, Unharmed, Final
  <1>8. CASE BindListener \/ Signal \/ Boot
    <2>1. UNCHANGED <<pen, built, handle, tmp, json, mirror, handler, stopped>>
      BY <1>8 DEF BindListener, Signal, Boot
    <2>2. main' \in {"bound", "stopping", "starting"}
      BY <1>8 DEF BindListener, Signal, Boot, MainStep
    <2> QED
      BY <2>1, <2>2 DEF InTurn, LastWords, Unharmed, Final
  <1>9. CASE MainReturns
    <2>1. /\ InTurn' /\ json' = tmp /\ tmp.is = "whole" /\ pen["main"] = "rename"
          /\ \A u \in Writers : built'[u] = NoSnapshot /\ pen'[u] # "rename"
      BY <1>9, <1>a, AloneRenames DEF MainReturns
    <2>2. UNCHANGED <<phase, handler, stopped>>
      BY <1>9 DEF MainReturns
    <2>3. CASE main = "started" /\ main' = "serving" /\ mirror' = "waiting"
      BY <2>1, <2>2, <2>3 DEF LastWords, Says, Unharmed, Final
    <2>4. CASE main = "last" /\ main' = "quitting" /\ mirror' = mirror
      <3>1. phase = "stopped" /\ tmp.of.phase = "stopped"
        BY <2>1, <2>4, <1>a DEF LastWords, Says
      <3> QED
        BY <2>1, <2>2, <2>4, <3>1 DEF LastWords, Says, Unharmed, Final
    <2> QED
      BY <1>9, <2>3, <2>4 DEF MainReturns
  <1>10. CASE \/ TakeCommands \/ MirrorStops \/ Unlink
              \/ \E k \in Clicks : \/ Execute(k) \/ Pick(k) \/ PlaceFile(k)
                                    \/ FillFile(k) \/ SweepCommand(k)
    <2>1. /\ UNCHANGED <<pen, built, handle, tmp, json, main, phase, handler>>
          /\ mirror' \in {"commands", "over", "unlinking", mirror}
      BY <1>10 DEF TakeCommands, MirrorStops, Unlink, Execute, Pick, PlaceFile, FillFile,
                   SweepCommand, MirrorStep
    <2>2. stopped \subseteq stopped'
      BY <1>10 DEF TakeCommands, MirrorStops, Unlink, Execute, Pick, PlaceFile, FillFile,
                   SweepCommand
    <2> QED
      BY <2>1, <2>2 DEF InTurn, LastWords, Says, Unharmed, Final
  <1>11. CASE MirrorWrites
    <2>1. pen["mirror"] = "none" /\ CallWrite("mirror")
      BY <1>11, <1>a DEF MirrorWrites, MirrorStep, Pens
    <2>2. /\ InTurn' /\ (\A u \in Writers : built'[u] = NoSnapshot /\ pen'[u] # "rename")
          /\ UNCHANGED json
      BY <2>1, <1>a, AloneCalls
    <2>3. UNCHANGED <<main, phase, handler, stopped>> /\ mirror' = "writing"
      BY <1>11 DEF MirrorWrites, MirrorStep
    <2> QED
      BY <2>2, <2>3 DEF LastWords, Says, Unharmed, Final
  <1>12. ASSUME NEW t \in Writers, Rename(t), UNCHANGED <<main, phase, stopped>>, main # "last",
                mirror' # "dead", \A h \in Handlers : handler'[h] # "lost",
                \A h \in Handlers : handler'[h] = "stuck" => h \in stopped
         PROVE  Orderly'
    <2>1. /\ InTurn' /\ json' = tmp /\ tmp.is = "whole" /\ pen[t] = "rename"
          /\ \A u \in Writers : built'[u] = NoSnapshot /\ pen'[u] # "rename"
      BY <1>12, AloneRenames
    <2>2. main = "quitting" => tmp.of.phase = "stopped"
      BY <2>1 DEF LastWords, Says
    <2>3. main # "exited"
      BY <1>12 DEF Pens, Ended, Rename, PenStep, Writers
    <2> QED
      BY <1>12, <2>1, <2>2, <2>3 DEF LastWords, Says, Unharmed, Final
  <1>b. ASSUME NEW t \in Writers \ {"main"}, pen[t] # "none"
        PROVE  main # "last"
    BY <1>b, <1>a DEF InTurn, Pens
  <1>13. CASE MirrorReturns
    <2>1. /\ Rename("mirror") /\ UNCHANGED <<main, phase, stopped, handler>>
          /\ mirror' = "waiting" /\ pen["mirror"] # "none"
      BY <1>13 DEF MirrorReturns, MirrorStep, Rename, PenStep
    <2> QED
      BY <2>1, <1>a, <1>b, <1>12 DEF Unharmed
  <1>14. ASSUME NEW h \in Handlers, OpeningAnnounced(h) \/ ClosingAnnounced(h) PROVE Orderly'
    <2>1. /\ Rename(h) /\ UNCHANGED <<main, phase, stopped, mirror>> /\ pen[h] # "none"
      BY <1>14 DEF OpeningAnnounced, ClosingAnnounced, Rename, PenStep
    <2>2. h \in Writers \ {"main"}
      BY MirrorAssumption DEF Writers
    <2>3. /\ \A g \in Handlers \ {h} : handler'[g] = handler[g]
          /\ handler'[h] \in {"running", "gone", "stuck"}
          /\ handler'[h] = "stuck" => h \in stopped
      BY <1>14 DEF OpeningAnnounced, ClosingAnnounced, HandlerStep, TypeOK
    <2> QED
      BY <2>1, <2>2, <2>3, <1>b, <1>12 DEF Unharmed
  <1>15. CASE MirrorRaises \/ \E h \in Handlers : HandlerRaises(h)
    BY <1>15, <1>a, AloneNeverRaises DEF MirrorRaises, HandlerRaises, RenameRaises, PenStep
  <1>16. ASSUME NEW h \in Handlers, Register(h) \/ Unregister(h) PROVE Orderly'
    <2>1. pen[h] = "none" /\ CallWrite(h) /\ h \in Writers
      BY <1>16, <1>a DEF Register, Unregister, HandlerStep, Pens
    <2>2. /\ InTurn' /\ (\A u \in Writers : built'[u] = NoSnapshot /\ pen'[u] # "rename")
          /\ UNCHANGED json
      BY <2>1, AloneCalls
    <2>3. UNCHANGED <<main, phase, mirror>> /\ stopped \ {h} \subseteq stopped'
      BY <1>16 DEF Register, Unregister
    <2>4. /\ \A g \in Handlers \ {h} : handler'[g] = handler[g]
          /\ handler'[h] \in {"opening", "closing"}
      BY <1>16 DEF Register, Unregister, HandlerStep, TypeOK
    <2> QED
      BY <2>2, <2>3, <2>4 DEF LastWords, Says, Unharmed, Final
  <1>17. CASE UNCHANGED vars
    BY <1>17 DEF vars, InTurn, LastWords, Says, Unharmed, Final
  <1>18. CASE SweepJson
    <2>1. /\ UNCHANGED <<main, phase, mirror, handler, stopped, pen, built, tmp>>
          /\ json' = Removed /\ handle' = Unnamed("json")
      BY <1>18 DEF SweepJson
    <2>2. InTurn'
      BY <2>1 DEF InTurn, Unnamed
    <2> QED
      BY <2>1, <2>2 DEF LastWords, Says, Unharmed, Final, Removed
  <1>19. CASE SweepTmp
    <2>1. /\ UNCHANGED <<main, phase, mirror, handler, stopped, pen, built, json>>
          /\ \A t \in Writers : pen'[t] \notin {"write", "rename"}
      BY <1>19 DEF SweepTmp
    <2>2. InTurn'
      BY <2>1 DEF InTurn
    <2> QED
      BY <2>1, <2>2 DEF LastWords, Says, Unharmed, Final
  <1> QED
    BY <1>2, <1>3, <1>4, <1>5, <1>6, <1>7, <1>8, <1>9, <1>10, <1>11, <1>13, <1>14, <1>15,
       <1>16, <1>17, <1>18, <1>19
    DEF Next, MainThread, MirrorThread, HandlerThread, Writers

-----------------------------------------------------------------------------
LEMMA InitInv ==
    ASSUME Init
    PROVE  IInv
  <1> USE DEF Init
  <1>1. Cardinality(Handlers) \in Nat
    BY MirrorAssumption, FS_CardinalityType
  <1>2. TypeOK
    <2>1. /\ sid \in [Handlers -> 0..Cardinality(Handlers)]
          /\ nextId \in 1..(Cardinality(Handlers) + 1) /\ worker \in 1..MaxWorkers
      BY <1>1, MirrorAssumption
    <2>2. click \in [Clicks -> [is : {"none", "picked", "empty", "whole", "gone", "lost"},
                                id : 0..Cardinality(Handlers),
                                who : Handlers \cup {Nobody}, worker : 0..MaxWorkers]]
      BY <1>1, MirrorAssumption DEF NotClicked
    <2>3. /\ pen \in [Writers -> {"none", "build", "open", "write", "rename"}]
          /\ built \in [Writers -> Snapshots \cup {NoSnapshot}]
          /\ handle \in [Writers -> {"none", "tmp", "json", "unnamed"}]
          /\ handler \in [Handlers -> {"away", "opening", "running", "closing", "gone",
                                       "stuck", "lost"}]
      OBVIOUS
    <2> QED
      BY <2>1, <2>2, <2>3, FileType DEF TypeOK
  <1>3. Ids
    <2>1. {h \in Handlers : handler[h] # "away"} = {}
      OBVIOUS
    <2> QED
      BY <2>1, FS_EmptySet DEF Ids
  <1>4. Pens /\ Ended
    BY MirrorAssumption DEF Pens, Ended, Over, Writers
  <1>5. Listings /\ Aims
    BY DEF Listings, ShowsIds, Aims, NotClicked, Absent, NoSnapshot
  <1>6. Orderly
    BY DEF Orderly, InTurn, LastWords, Unharmed, Final, Absent
  <1> QED
    BY <1>2, <1>3, <1>4, <1>5, <1>6 DEF IInv

LEMMA StepInv ==
    ASSUME IInv, [Next]_vars
    PROVE  IInv'
  <1> USE DEF IInv
  <1>1. TypeOK' /\ Ids' /\ Pens' /\ Ended'
    BY TypeStep, IdsStep, PensStep
  <1>2. Listings' /\ Aims'
    BY ListingsStep, AimsStep
  <1>3. ASSUME ~crossed' PROVE Orderly'
    BY <1>3, CrossedStays, OrderlyStep
  <1> QED
    BY <1>1, <1>2, <1>3

\* The inductive invariant, for any handlers, disconnects and workers.
THEOREM Invariant == Spec => []IInv
BY InitInv, StepInv, PTL DEF Spec

\* Type correctness: the ids of a worker's sessions stay below the number of
\* its handlers, and every file is absent, empty, torn or a whole snapshot.
THEOREM TypeCorrect == Spec => []TypeOK
<1>1. IInv => TypeOK
  BY DEF IInv
<1> QED
  BY <1>1, Invariant, PTL

\* Readers of runtime.json find a whole snapshot, and no thread dies of a rename,
\* as long as the threads write in turn; a kill may come at any moment.
THEOREM WholeTheorem == Spec => []PublishedIsWhole
<1>1. IInv => PublishedIsWhole
  BY DEF IInv, Orderly, Unharmed, PublishedIsWhole
<1> QED
  BY <1>1, Invariant, PTL

\* A worker that ends in good order says so last, if its threads wrote in turn.
THEOREM LastWordTheorem == Spec => []LastWordIsFinal
<1>1. IInv => LastWordIsFinal
  BY DEF IInv, Orderly, Final, LastWordIsFinal
<1> QED
  BY <1>1, Invariant, PTL

\* A disconnect finds the session that was clicked on or none, however stale the
\* list was and however threads overlap.
THEOREM AimTheorem == Spec => []AimIsTrue
<1>1. IInv => AimIsTrue
  BY AimIsTrueFromIds DEF IInv
<1> QED
  BY <1>1, Invariant, PTL

=============================================================================
