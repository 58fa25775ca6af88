------------------------ MODULE DaemonLifecycleProofs ------------------------
(***************************************************************************)
(* Ownership of the daemon child, for any number of attempts, stops and    *)
(* restart loops.                                                          *)
(*                                                                         *)
(* NoStrayChild and MetaIsOwned are not inductive alone: a spawn must find *)
(* no owned child.  That follows from the lifecycle revision, which every  *)
(* start and stop bumps: at most one attempt carries the current revision, *)
(* and while it is before its spawn nobody is owned.                       *)
(***************************************************************************)
EXTENDS DaemonLifecycle, TLAPS

\* Lifecycle revisions are handed out once.
RevisionsAreUnique ==
  /\ \A a \in Attempt : life[a] <= lifecycle
  /\ \A a, b \in Attempt :
       step[a] # "unused" /\ step[b] # "unused" /\ life[a] = life[b] => a = b

\* The attempt that may still spawn owns the stage.
SpawnerIsAlone ==
  \A a \in Attempt :
    step[a] \in {"context", "compat"} /\ life[a] = lifecycle => process = None

\* What a stopper terminates was asked to exit.
TerminatedIsTold == \A s \in Stopper : schild[s] # None => told[schild[s]]

\* A loop that waits for a start waits for a promise that was handed out.
LoopWaitsForStart ==
  /\ \A r \in Restart : rstep[r] = "starting" =>
       rstart[r] \in Attempt /\ waiter[rstart[r]] # "none"
  /\ startPromise # None => waiter[startPromise] # "none"

\* The attempt that is about to spawn left the published phase at starting or
\* at a failure: readiness can only come from its own child.
SpawnerIsNotReady ==
  \A a \in Attempt : step[a] = "compat" /\ life[a] = lifecycle => phase # "ready"

\* The current restart loop is the one that callers join.
CurrentLoopIsJoined ==
  /\ \A r \in Restart : rrev[r] <= restartRev
  /\ \A r \in Restart :
       rstep[r] \in {"stopping", "starting"} /\ rrev[r] = restartRev => restartPromise = r

\* While the current loop is in its stop, nothing but the child it terminates
\* can be owned, and no start can come in between.
LoopStopIsClean ==
  \A r \in Restart : rstep[r] = "stopping" /\ rrev[r] = restartRev =>
    /\ startPromise = None
    /\ process \in {None, schild[r]}
    /\ sstep[r] = "done" => process = None
    /\ \A a \in Attempt : step[a] \in {"context", "compat"} => life[a] # lifecycle

\* After the user's stop no loop is joinable, no attempt is current, and the
\* interpreter check sees the stop.
UnwantedIsQuiet ==
  ~wanted =>
    /\ restartPromise = None
    /\ \A a \in Attempt : step[a] \in {"context", "compat"} => life[a] # lifecycle
    /\ stopRequested \/ (check # "comparing" /\ \A a \in Attempt : step[a] = "unused")

TInv == TypeOK /\ LoopWaitsForStart

Ownership ==
  /\ MetaIsOwned
  /\ NoStrayChild
  /\ PendingStartIsCancellable
  /\ RevisionsAreUnique
  /\ SpawnerIsAlone
  /\ TerminatedIsTold

Readiness == SpawnerIsNotReady /\ ReadyIsInitialized

Loops == CurrentLoopIsJoined /\ LoopStopIsClean /\ NoSelfWait

IInv == TInv /\ Ownership /\ Readiness /\ Loops /\ UnwantedIsQuiet

------------------------------------------------------------------------------
\* The inductive invariant holds before anything was started.
LEMMA InitIInv == Init => IInv
<1> SUFFICES ASSUME Init PROVE IInv
  OBVIOUS
<1>1. TInv
  BY DEF Init, TInv, TypeOK, LoopWaitsForStart, Stopper, Phases, Steps, StopSteps, LoopSteps
<1>2. MetaIsOwned /\ NoStrayChild /\ PendingStartIsCancellable
  BY DEF Init, MetaIsOwned, NoStrayChild, PendingStartIsCancellable
<1>3. RevisionsAreUnique /\ SpawnerIsAlone /\ TerminatedIsTold
  BY DEF Init, RevisionsAreUnique, SpawnerIsAlone, TerminatedIsTold
<1>4. Readiness /\ Loops /\ UnwantedIsQuiet
  BY DEF Init, Readiness, SpawnerIsNotReady, ReadyIsInitialized, IsReady, Loops,
         CurrentLoopIsJoined, LoopStopIsClean, NoSelfWait, UnwantedIsQuiet
<1> QED
  BY <1>1, <1>2, <1>3, <1>4 DEF IInv, Ownership, Readiness, Loops

\* The synchronous half of a stop, whoever calls it.
LEMMA BeginStopKeeps ==
  ASSUME TInv, Ownership, NEW s \in Stopper, BeginStop(s)
  PROVE  Ownership'
<1> USE DistinctIds DEF Ownership, TInv, TypeOK, BeginStop, CancelStart, AskToExit
<1>1. MetaIsOwned'
  BY DEF MetaIsOwned
<1>2. NoStrayChild'
  BY DEF NoStrayChild
<1>3. PendingStartIsCancellable'
  BY DEF PendingStartIsCancellable
<1>4. RevisionsAreUnique'
  BY DEF RevisionsAreUnique
<1>5. SpawnerIsAlone'
  BY DEF SpawnerIsAlone, RevisionsAreUnique
<1>6. TerminatedIsTold'
  BY DEF TerminatedIsTold, Stopper
<1> QED
  BY <1>1, <1>2, <1>3, <1>4, <1>5, <1>6
------------------------------------------------------------------------------
\* What BeginStop leaves well typed, whoever calls it.
StopTypes ==
  /\ process \in Attempt \cup {None} /\ lifecycle \in Nat /\ session \in Nat
  /\ stopRequested \in BOOLEAN /\ phase \in Phases
  /\ meta \in Attempt \cup {None} /\ startPromise = None
  /\ step \in [Attempt -> Steps] /\ life \in [Attempt -> Nat]
  /\ waiter \in [Attempt -> {"none", "pending", "resolved", "rejected"}]
  /\ req \in [Attempt -> {"none", "sent", "answered", "rejected"}]
  /\ os \in [Attempt -> {"none", "running", "exited"}]
  /\ told \in [Attempt -> BOOLEAN]
  /\ sstep \in [Stopper -> StopSteps] /\ slife \in [Stopper -> Nat]
  /\ schild \in [Stopper -> Attempt \cup {None}]

\* The first part of a stop keeps the types of the stops and wakes no start's waiter.
LEMMA BeginStopTypes ==
  ASSUME TInv, NEW s \in Stopper, BeginStop(s)
  PROVE  StopTypes' /\ \A a \in Attempt : waiter[a] # "none" => waiter'[a] # "none"
<1> USE DEF TInv, TypeOK, BeginStop, CancelStart, AskToExit
<1>1. waiter' \in [Attempt -> {"none", "pending", "resolved", "rejected"}]
  OBVIOUS
<1>2. req' \in [Attempt -> {"none", "sent", "answered", "rejected"}]
  BY DEF Rejected
<1>3. told' \in [Attempt -> BOOLEAN]
  OBVIOUS
<1>4. /\ sstep' \in [Stopper -> StopSteps] /\ slife' \in [Stopper -> Nat]
      /\ schild' \in [Stopper -> Attempt \cup {None}]
  BY DEF StopSteps
<1>5. \A a \in Attempt : waiter[a] # "none" => waiter'[a] # "none"
  OBVIOUS
<1> QED
  BY <1>1, <1>2, <1>3, <1>4, <1>5 DEF StopTypes

\* What the restart loops and the interpreter check keep well typed, and the
\* part of LoopWaitsForStart that a stop could disturb.
LoopTypes ==
  /\ restartPromise \in Restart \cup {None} /\ restartRev \in Nat
  /\ restartQueued \in BOOLEAN
  /\ rstep \in [Restart -> LoopSteps] /\ rrev \in [Restart -> Nat]
  /\ rstart \in [Restart -> Attempt \cup {None}]
  /\ check \in {"idle", "comparing", "restarting"}
  /\ checkLife \in Nat /\ checkRestart \in Restart \cup {None}
  /\ wanted \in BOOLEAN

\* A stop that keeps the types of the restart loops keeps every type.
LEMMA StopWithLoops ==
  ASSUME TInv, NEW s \in Stopper, BeginStop(s), LoopTypes', rstart' = rstart,
         \A r \in Restart : rstep'[r] = "starting" => rstep[r] = "starting"
  PROVE  TInv'
<1>1. StopTypes' /\ \A a \in Attempt : waiter[a] # "none" => waiter'[a] # "none"
  BY BeginStopTypes
<1>2. TypeOK'
  BY <1>1 DEF TypeOK, StopTypes, LoopTypes
<1>3. LoopWaitsForStart'
  BY <1>1 DEF TInv, LoopWaitsForStart, StopTypes
<1> QED
  BY <1>2, <1>3 DEF TInv

\* Type correctness, one step per action.
LEMMA StepTInv == TInv /\ [Next]_vars => TInv'
<1> SUFFICES ASSUME TInv, [Next]_vars PROVE TInv'
  OBVIOUS
<1> USE DistinctIds DEF TInv, TypeOK, LoopWaitsForStart, Stopper, Phases, Steps, StopSteps, LoopSteps,
            client, attempts, children, stops, loops, restarts, checks, Dispose, Rejected, AskToExit, CancelStart, Current, StartSettled
<1>1. ASSUME NEW a \in Attempt, StartCall(a) PROVE TInv'
  BY <1>1 DEF StartCall, NewAttempt
<1>2. ASSUME NEW a \in Attempt, ContextFailed(a) PROVE TInv'
  BY <1>2 DEF ContextFailed, Reject
<1>3. ASSUME NEW a \in Attempt, ContextReady(a) PROVE TInv'
  BY <1>3 DEF ContextReady
<1>4. ASSUME NEW a \in Attempt, CompatFailed(a) PROVE TInv'
  BY <1>4 DEF CompatFailed, Reject
<1>5. ASSUME NEW a \in Attempt, SpawnThrows(a) PROVE TInv'
  BY <1>5 DEF SpawnThrows, Reject
<1>6. ASSUME NEW a \in Attempt, Spawn(a) PROVE TInv'
  BY <1>6 DEF Spawn
<1>7. ASSUME NEW a \in Attempt, Adopt(a) PROVE TInv'
  BY <1>7 DEF Adopt
<1>8. ASSUME NEW a \in Attempt, InitFailed(a) PROVE TInv'
  BY <1>8 DEF InitFailed, Reject
<1>9. ASSUME NEW a \in Attempt, InitReply(a) PROVE TInv'
  BY <1>9 DEF InitReply
<1>10. ASSUME NEW a \in Attempt, HealthChanged(a) PROVE TInv'
  BY <1>10 DEF HealthChanged
<1>11. ASSUME NEW a \in Attempt, SurfaceChanged(a) PROVE TInv'
  BY <1>11 DEF SurfaceChanged
<1>12. ASSUME NEW a \in Attempt, Exit(a) PROVE TInv'
  BY <1>12 DEF Exit
<1>13. ASSUME NEW s \in Stop, StopCall(s) PROVE TInv'
  <2>1. BeginStop(s) /\ s \in Stopper
    BY <1>13 DEF StopCall
  <2>2. restartRev \in Nat /\ restartRev' = restartRev + 1
    BY <1>13 DEF StopCall
  <2>3. restartRev' \in Nat
    BY <2>2
  <2>4. /\ LoopTypes' /\ rstart' = rstart
        /\ \A q \in Restart : rstep'[q] = "starting" => rstep[q] = "starting"
    BY <1>13, <2>3 DEF LoopTypes, StopCall
  <2> QED
    BY <2>1, <2>4, StopWithLoops
<1>14. ASSUME NEW s \in Stopper, Escalate(s) PROVE TInv'
  BY <1>14 DEF Escalate
<1>15. ASSUME NEW s \in Stopper, EndStop(s) PROVE TInv'
  BY <1>15 DEF EndStop
<1>16. ASSUME NEW r \in Restart, RestartCall(r) PROVE TInv'
  <2>1. BeginStop(r) /\ r \in Stopper
    BY <1>16 DEF RestartCall, OpenRestart
  <2>2. restartRev \in Nat /\ restartRev' = restartRev + 1
    BY <1>16 DEF RestartCall, OpenRestart
  <2>3. restartRev' \in Nat
    BY <2>2
  <2>4. /\ LoopTypes' /\ rstart' = rstart
        /\ \A q \in Restart : rstep'[q] = "starting" => rstep[q] = "starting"
    BY <1>16, <2>3 DEF LoopTypes, RestartCall, OpenRestart
  <2> QED
    BY <2>1, <2>4, StopWithLoops
<1>17. ASSUME NEW r \in Restart, RestartSuperseded(r) PROVE TInv'
  BY <1>17 DEF RestartSuperseded, SettleRestart
<1>18. ASSUME NEW r \in Restart, RestartStarts(r) PROVE TInv'
  BY <1>18 DEF RestartStarts, NewAttempt
<1>19. ASSUME NEW r \in Restart, RestartEnds(r) PROVE TInv'
  BY <1>19 DEF RestartEnds, SettleRestart
<1>20. ASSUME NEW r \in Restart, RestartAgain(r) PROVE TInv'
  <2>1. BeginStop(r)
    BY <1>20 DEF RestartAgain
  <2>2. /\ LoopTypes' /\ rstart' = rstart
        /\ \A q \in Restart : rstep'[q] = "starting" => rstep[q] = "starting"
    BY <1>20 DEF LoopTypes, RestartAgain
  <2>3. r \in Stopper
    OBVIOUS
  <2> QED
    BY <2>1, <2>2, <2>3, StopWithLoops
<1>21. ASSUME RestartJoin PROVE TInv'
  BY <1>21 DEF RestartJoin
<1>22. ASSUME CheckCall PROVE TInv'
  BY <1>22 DEF CheckCall
<1>23. ASSUME CheckDiscarded PROVE TInv'
  BY <1>23 DEF CheckDiscarded
<1>24. ASSUME CheckRestarts PROVE TInv'
  <2>1. ASSUME NEW r \in Restart, OpenRestart(r), checkRestart' = r,
               check' = "restarting", UNCHANGED <<checkLife, wanted>>
        PROVE  TInv'
    <3>1. BeginStop(r) /\ r \in Stopper
      BY <2>1 DEF OpenRestart
    <3>2. restartRev \in Nat /\ restartRev' = restartRev + 1
      BY <2>1 DEF OpenRestart
    <3>3. restartRev' \in Nat
      BY <3>2
    <3>4. /\ LoopTypes' /\ rstart' = rstart
          /\ \A q \in Restart : rstep'[q] = "starting" => rstep[q] = "starting"
      BY <2>1, <3>3 DEF LoopTypes, OpenRestart
    <3> QED
      BY <3>1, <3>4, StopWithLoops
  <2>2. ASSUME restartPromise # None, restartQueued' = TRUE, checkRestart' = restartPromise,
               UNCHANGED <<client, attempts, children, stops, restartPromise, restartRev, loops>>,
               check' = "restarting", UNCHANGED <<checkLife, wanted>>
        PROVE  TInv'
    BY <2>2
  <2> QED
    BY <1>24, <2>1, <2>2 DEF CheckRestarts
<1>25. ASSUME CheckEnds PROVE TInv'
  BY <1>25 DEF CheckEnds
<1>26. CASE UNCHANGED vars
  BY <1>26 DEF vars
<1> QED
  BY <1>1, <1>2, <1>3, <1>4, <1>5, <1>6, <1>7, <1>8, <1>9, <1>10, <1>11, <1>12,
     <1>13, <1>14, <1>15, <1>16, <1>17, <1>18, <1>19, <1>20, <1>21, <1>22, <1>23, <1>24, <1>25,
     <1>26 DEF Next, StartStep, LoopStep

\* Ownership, one step per action.
LEMMA StepOwnership == TInv /\ Ownership /\ [Next]_vars => Ownership'
<1> SUFFICES ASSUME TInv, Ownership, [Next]_vars PROVE Ownership'
  OBVIOUS
<1> USE DistinctIds DEF TInv, TypeOK, Ownership, MetaIsOwned, NoStrayChild,
            PendingStartIsCancellable, RevisionsAreUnique, SpawnerIsAlone, TerminatedIsTold,
            client, attempts, children, stops, loops, restarts, checks, Dispose, Rejected, AskToExit, CancelStart, Current, StartSettled
<1>1. ASSUME NEW a \in Attempt, StartCall(a) PROVE Ownership'
  BY <1>1 DEF StartCall, NewAttempt
<1>2. ASSUME NEW a \in Attempt, ContextFailed(a) PROVE Ownership'
  BY <1>2 DEF ContextFailed, Reject
<1>3. ASSUME NEW a \in Attempt, ContextReady(a) PROVE Ownership'
  BY <1>3 DEF ContextReady
<1>4. ASSUME NEW a \in Attempt, CompatFailed(a) PROVE Ownership'
  BY <1>4 DEF CompatFailed, Reject
<1>5. ASSUME NEW a \in Attempt, SpawnThrows(a) PROVE Ownership'
  BY <1>5 DEF SpawnThrows, Reject
<1>6. ASSUME NEW a \in Attempt, Spawn(a) PROVE Ownership'
  BY <1>6 DEF Spawn
<1>7. ASSUME NEW a \in Attempt, Adopt(a) PROVE Ownership'
  BY <1>7 DEF Adopt
<1>8. ASSUME NEW a \in Attempt, InitFailed(a) PROVE Ownership'
  BY <1>8 DEF InitFailed, Reject
<1>9. ASSUME NEW a \in Attempt, InitReply(a) PROVE Ownership'
  BY <1>9 DEF InitReply, Listening
<1>10. ASSUME NEW a \in Attempt, HealthChanged(a) PROVE Ownership'
  BY <1>10 DEF HealthChanged, Listening
<1>11. ASSUME NEW a \in Attempt, SurfaceChanged(a) PROVE Ownership'
  BY <1>11 DEF SurfaceChanged, Listening
<1>12. ASSUME NEW a \in Attempt, Exit(a) PROVE Ownership'
  BY <1>12 DEF Exit
<1>13. ASSUME NEW s \in Stop, StopCall(s) PROVE Ownership'
  <2>1. s \in Stopper /\ BeginStop(s)
    BY <1>13 DEF Stopper, StopCall
  <2> QED
    BY <2>1, BeginStopKeeps
<1>14. ASSUME NEW s \in Stopper, Escalate(s) PROVE Ownership'
  BY <1>14 DEF Escalate
<1>15. ASSUME NEW s \in Stopper, EndStop(s) PROVE Ownership'
  BY <1>15 DEF EndStop
<1>16. ASSUME NEW r \in Restart, RestartCall(r) PROVE Ownership'
  <2>1. r \in Stopper /\ BeginStop(r)
    BY <1>16 DEF Stopper, RestartCall, OpenRestart
  <2> QED
    BY <2>1, BeginStopKeeps
<1>17. ASSUME NEW r \in Restart, RestartSuperseded(r) PROVE Ownership'
  BY <1>17 DEF RestartSuperseded, SettleRestart
<1>18. ASSUME NEW r \in Restart, RestartStarts(r) PROVE Ownership'
  BY <1>18 DEF RestartStarts, NewAttempt
<1>19. ASSUME NEW r \in Restart, RestartEnds(r) PROVE Ownership'
  BY <1>19 DEF RestartEnds, SettleRestart
<1>20. ASSUME NEW r \in Restart, RestartAgain(r) PROVE Ownership'
  <2>1. r \in Stopper /\ BeginStop(r)
    BY <1>20 DEF Stopper, RestartAgain
  <2> QED
    BY <2>1, BeginStopKeeps
<1>21. ASSUME RestartJoin PROVE Ownership'
  BY <1>21 DEF RestartJoin
<1>22. ASSUME CheckCall PROVE Ownership'
  BY <1>22 DEF CheckCall
<1>23. ASSUME CheckDiscarded PROVE Ownership'
  BY <1>23 DEF CheckDiscarded
<1>24. ASSUME CheckRestarts PROVE Ownership'
  <2>1. ASSUME NEW r \in Restart, BeginStop(r) PROVE Ownership'
    BY <2>1, BeginStopKeeps DEF Stopper
  <2>2. CASE UNCHANGED <<client, attempts, children, stops, restartPromise, restartRev, loops>>
    BY <2>2
  <2> QED
    BY <1>24, <2>1, <2>2 DEF CheckRestarts, OpenRestart
<1>25. ASSUME CheckEnds PROVE Ownership'
  BY <1>25 DEF CheckEnds
<1>26. CASE UNCHANGED vars
  BY <1>26 DEF vars
<1> QED
  BY <1>1, <1>2, <1>3, <1>4, <1>5, <1>6, <1>7, <1>8, <1>9, <1>10, <1>11, <1>12,
     <1>13, <1>14, <1>15, <1>16, <1>17, <1>18, <1>19, <1>20, <1>21, <1>22, <1>23, <1>24, <1>25,
     <1>26 DEF Next, StartStep, LoopStep

\* Readiness, one step per action.
LEMMA StepReadiness == TInv /\ Ownership /\ Readiness /\ [Next]_vars => Readiness'
<1> SUFFICES ASSUME TInv, Ownership, Readiness, [Next]_vars PROVE Readiness'
  OBVIOUS
<1> USE DistinctIds DEF TInv, TypeOK, Readiness, SpawnerIsNotReady, ReadyIsInitialized, IsReady,
            client, attempts, children, stops, loops, restarts, checks, Dispose, Rejected, AskToExit, CancelStart, Current, StartSettled
<1>1. ASSUME NEW a \in Attempt, StartCall(a) PROVE Readiness'
  BY <1>1 DEF StartCall, NewAttempt, Ownership, RevisionsAreUnique
<1>2. ASSUME NEW a \in Attempt, ContextFailed(a) PROVE Readiness'
  BY <1>2 DEF ContextFailed, Reject
<1>3. ASSUME NEW a \in Attempt, ContextReady(a) PROVE Readiness'
  BY <1>3 DEF ContextReady
<1>4. ASSUME NEW a \in Attempt, CompatFailed(a) PROVE Readiness'
  BY <1>4 DEF CompatFailed, Reject
<1>5. ASSUME NEW a \in Attempt, SpawnThrows(a) PROVE Readiness'
  BY <1>5 DEF SpawnThrows, Reject
<1>6. ASSUME NEW a \in Attempt, Spawn(a) PROVE Readiness'
  BY <1>6 DEF Spawn, Ownership, SpawnerIsAlone, RevisionsAreUnique
<1>7. ASSUME NEW a \in Attempt, Adopt(a) PROVE Readiness'
  BY <1>7 DEF Adopt, Ownership, SpawnerIsAlone
<1>8. ASSUME NEW a \in Attempt, InitFailed(a) PROVE Readiness'
  BY <1>8 DEF InitFailed, Reject
<1>9. ASSUME NEW a \in Attempt, InitReply(a) PROVE Readiness'
  BY <1>9 DEF InitReply, Listening
<1>10. ASSUME NEW a \in Attempt, HealthChanged(a) PROVE Readiness'
  BY <1>10 DEF HealthChanged, Listening, Ownership, SpawnerIsAlone
<1>11. ASSUME NEW a \in Attempt, SurfaceChanged(a) PROVE Readiness'
  BY <1>11 DEF SurfaceChanged, Listening
<1>12. ASSUME NEW a \in Attempt, Exit(a) PROVE Readiness'
  BY <1>12 DEF Exit
<1>13. ASSUME NEW s \in Stop, StopCall(s) PROVE Readiness'
  BY <1>13 DEF StopCall, BeginStop, Ownership, RevisionsAreUnique
<1>14. ASSUME NEW s \in Stopper, Escalate(s) PROVE Readiness'
  BY <1>14 DEF Escalate
<1>15. ASSUME NEW s \in Stopper, EndStop(s) PROVE Readiness'
  BY <1>15 DEF EndStop
<1>16. ASSUME NEW r \in Restart, RestartCall(r) PROVE Readiness'
  BY <1>16 DEF RestartCall, OpenRestart, BeginStop, Ownership, RevisionsAreUnique
<1>17. ASSUME NEW r \in Restart, RestartSuperseded(r) PROVE Readiness'
  BY <1>17 DEF RestartSuperseded, SettleRestart
<1>18. ASSUME NEW r \in Restart, RestartStarts(r) PROVE Readiness'
  BY <1>18 DEF RestartStarts, NewAttempt, Ownership, RevisionsAreUnique
<1>19. ASSUME NEW r \in Restart, RestartEnds(r) PROVE Readiness'
  BY <1>19 DEF RestartEnds, SettleRestart
<1>20. ASSUME NEW r \in Restart, RestartAgain(r) PROVE Readiness'
  BY <1>20 DEF RestartAgain, BeginStop, Ownership, RevisionsAreUnique
<1>21. ASSUME RestartJoin PROVE Readiness'
  BY <1>21 DEF RestartJoin
<1>22. ASSUME CheckCall PROVE Readiness'
  BY <1>22 DEF CheckCall
<1>23. ASSUME CheckDiscarded PROVE Readiness'
  BY <1>23 DEF CheckDiscarded
<1>24. ASSUME CheckRestarts PROVE Readiness'
  BY <1>24 DEF CheckRestarts, OpenRestart, BeginStop, Ownership, RevisionsAreUnique
<1>25. ASSUME CheckEnds PROVE Readiness'
  BY <1>25 DEF CheckEnds
<1>26. CASE UNCHANGED vars
  BY <1>26 DEF vars
<1> QED
  BY <1>1, <1>2, <1>3, <1>4, <1>5, <1>6, <1>7, <1>8, <1>9, <1>10, <1>11, <1>12,
     <1>13, <1>14, <1>15, <1>16, <1>17, <1>18, <1>19, <1>20, <1>21, <1>22, <1>23, <1>24, <1>25,
     <1>26 DEF Next, StartStep, LoopStep

\* The restart loops, one step per action.
LEMMA StepLoops == TInv /\ Ownership /\ Loops /\ [Next]_vars => Loops'
<1> SUFFICES ASSUME TInv, Ownership, Loops, [Next]_vars PROVE Loops'
  OBVIOUS
<1> USE DistinctIds DEF TInv, TypeOK, Loops, CurrentLoopIsJoined, LoopStopIsClean, NoSelfWait,
            client, attempts, children, stops, loops, restarts, checks, Dispose, Rejected, AskToExit, CancelStart, Current, StartSettled
<1>1. ASSUME NEW a \in Attempt, StartCall(a) PROVE Loops'
  BY <1>1 DEF StartCall, NewAttempt
<1>2. ASSUME NEW a \in Attempt, ContextFailed(a) PROVE Loops'
  BY <1>2 DEF ContextFailed, Reject
<1>3. ASSUME NEW a \in Attempt, ContextReady(a) PROVE Loops'
  BY <1>3 DEF ContextReady
<1>4. ASSUME NEW a \in Attempt, CompatFailed(a) PROVE Loops'
  BY <1>4 DEF CompatFailed, Reject
<1>5. ASSUME NEW a \in Attempt, SpawnThrows(a) PROVE Loops'
  BY <1>5 DEF SpawnThrows, Reject
<1>6. ASSUME NEW a \in Attempt, Spawn(a) PROVE Loops'
  BY <1>6 DEF Spawn
<1>7. ASSUME NEW a \in Attempt, Adopt(a) PROVE Loops'
  BY <1>7 DEF Adopt
<1>8. ASSUME NEW a \in Attempt, InitFailed(a) PROVE Loops'
  BY <1>8 DEF InitFailed, Reject
<1>9. ASSUME NEW a \in Attempt, InitReply(a) PROVE Loops'
  BY <1>9 DEF InitReply, Listening
<1>10. ASSUME NEW a \in Attempt, HealthChanged(a) PROVE Loops'
  BY <1>10 DEF HealthChanged, Listening
<1>11. ASSUME NEW a \in Attempt, SurfaceChanged(a) PROVE Loops'
  BY <1>11 DEF SurfaceChanged, Listening
<1>12. ASSUME NEW a \in Attempt, Exit(a) PROVE Loops'
  BY <1>12 DEF Exit
<1>13. ASSUME NEW s \in Stop, StopCall(s) PROVE Loops'
  BY <1>13 DEF StopCall, BeginStop, Ownership, RevisionsAreUnique, Stopper
<1>14. ASSUME NEW s \in Stopper, Escalate(s) PROVE Loops'
  BY <1>14 DEF Escalate, Stopper
<1>15. ASSUME NEW s \in Stopper, EndStop(s) PROVE Loops'
  BY <1>15 DEF EndStop, Stopper
<1>16. ASSUME NEW r \in Restart, RestartCall(r) PROVE Loops'
  BY <1>16 DEF RestartCall, OpenRestart, BeginStop, Ownership, RevisionsAreUnique, Stopper
<1>17. ASSUME NEW r \in Restart, RestartSuperseded(r) PROVE Loops'
  BY <1>17 DEF RestartSuperseded, SettleRestart
<1>18. ASSUME NEW r \in Restart, RestartStarts(r) PROVE Loops'
  <2>1. /\ rstep[r] = "stopping" /\ rrev[r] = restartRev /\ restartPromise = r
        /\ process = None /\ startPromise = None
    BY <1>18 DEF RestartStarts, Stopper
  <2>2. /\ rstep' = [rstep EXCEPT ![r] = "starting"]
        /\ UNCHANGED <<process, schild, sstep, restartPromise, restartRev, rrev>>
    BY <1>18, <2>1 DEF RestartStarts
  <2>3. CurrentLoopIsJoined'
    BY <2>1, <2>2
  <2>4. \A q \in Restart : ~(rstep'[q] = "stopping" /\ rrev'[q] = restartRev')
    BY <2>1, <2>2
  <2>5. LoopStopIsClean' /\ NoSelfWait'
    BY <2>2, <2>4
  <2> QED
    BY <2>3, <2>5
<1>19. ASSUME NEW r \in Restart, RestartEnds(r) PROVE Loops'
  BY <1>19 DEF RestartEnds, SettleRestart, LoopWaitsForStart
<1>20. ASSUME NEW r \in Restart, RestartAgain(r) PROVE Loops'
  <2>1. CurrentLoopIsJoined'
    BY <1>20 DEF RestartAgain
  <2>2. LoopStopIsClean'
    BY <1>20 DEF RestartAgain, BeginStop, Ownership, RevisionsAreUnique, Stopper
  <2>3. NoSelfWait'
    BY <1>20 DEF RestartAgain
  <2> QED
    BY <2>1, <2>2, <2>3
<1>21. ASSUME RestartJoin PROVE Loops'
  BY <1>21 DEF RestartJoin
<1>22. ASSUME CheckCall PROVE Loops'
  BY <1>22 DEF CheckCall
<1>23. ASSUME CheckDiscarded PROVE Loops'
  BY <1>23 DEF CheckDiscarded
<1>24. ASSUME CheckRestarts PROVE Loops'
  <2>1. ASSUME NEW r \in Restart, OpenRestart(r) PROVE Loops'
    <3>1. CurrentLoopIsJoined'
      BY <2>1 DEF OpenRestart
    <3>2. LoopStopIsClean'
      BY <2>1 DEF OpenRestart, BeginStop, Ownership, RevisionsAreUnique, Stopper
    <3>3. NoSelfWait'
      BY <2>1 DEF OpenRestart
    <3> QED
      BY <3>1, <3>2, <3>3
  <2>2. CASE UNCHANGED <<client, attempts, children, stops, restartPromise, restartRev, loops>>
    BY <2>2
  <2> QED
    BY <1>24, <2>1, <2>2 DEF CheckRestarts
<1>25. ASSUME CheckEnds PROVE Loops'
  BY <1>25 DEF CheckEnds
<1>26. CASE UNCHANGED vars
  BY <1>26 DEF vars
<1> QED
  BY <1>1, <1>2, <1>3, <1>4, <1>5, <1>6, <1>7, <1>8, <1>9, <1>10, <1>11, <1>12,
     <1>13, <1>14, <1>15, <1>16, <1>17, <1>18, <1>19, <1>20, <1>21, <1>22, <1>23, <1>24, <1>25,
     <1>26 DEF Next, StartStep, LoopStep

\* After a stop, one step per action.
LEMMA StepUnwanted == TInv /\ Ownership /\ Loops /\ UnwantedIsQuiet /\ [Next]_vars => UnwantedIsQuiet'
<1> SUFFICES ASSUME TInv, Ownership, Loops, UnwantedIsQuiet, [Next]_vars PROVE UnwantedIsQuiet'
  OBVIOUS
<1> USE DistinctIds DEF TInv, TypeOK, UnwantedIsQuiet,
            client, attempts, children, stops, loops, restarts, checks, Dispose, Rejected, AskToExit, CancelStart, Current, StartSettled
<1>1. ASSUME NEW a \in Attempt, StartCall(a) PROVE UnwantedIsQuiet'
  BY <1>1 DEF StartCall, NewAttempt
<1>2. ASSUME NEW a \in Attempt, ContextFailed(a) PROVE UnwantedIsQuiet'
  BY <1>2 DEF ContextFailed, Reject
<1>3. ASSUME NEW a \in Attempt, ContextReady(a) PROVE UnwantedIsQuiet'
  BY <1>3 DEF ContextReady
<1>4. ASSUME NEW a \in Attempt, CompatFailed(a) PROVE UnwantedIsQuiet'
  BY <1>4 DEF CompatFailed, Reject
<1>5. ASSUME NEW a \in Attempt, SpawnThrows(a) PROVE UnwantedIsQuiet'
  BY <1>5 DEF SpawnThrows, Reject
<1>6. ASSUME NEW a \in Attempt, Spawn(a) PROVE UnwantedIsQuiet'
  BY <1>6 DEF Spawn
<1>7. ASSUME NEW a \in Attempt, Adopt(a) PROVE UnwantedIsQuiet'
  BY <1>7 DEF Adopt
<1>8. ASSUME NEW a \in Attempt, InitFailed(a) PROVE UnwantedIsQuiet'
  BY <1>8 DEF InitFailed, Reject
<1>9. ASSUME NEW a \in Attempt, InitReply(a) PROVE UnwantedIsQuiet'
  BY <1>9 DEF InitReply, Listening
<1>10. ASSUME NEW a \in Attempt, HealthChanged(a) PROVE UnwantedIsQuiet'
  BY <1>10 DEF HealthChanged, Listening
<1>11. ASSUME NEW a \in Attempt, SurfaceChanged(a) PROVE UnwantedIsQuiet'
  BY <1>11 DEF SurfaceChanged, Listening
<1>12. ASSUME NEW a \in Attempt, Exit(a) PROVE UnwantedIsQuiet'
  BY <1>12 DEF Exit
<1>13. ASSUME NEW s \in Stop, StopCall(s) PROVE UnwantedIsQuiet'
  BY <1>13 DEF StopCall, BeginStop, Ownership, RevisionsAreUnique
<1>14. ASSUME NEW s \in Stopper, Escalate(s) PROVE UnwantedIsQuiet'
  BY <1>14 DEF Escalate
<1>15. ASSUME NEW s \in Stopper, EndStop(s) PROVE UnwantedIsQuiet'
  BY <1>15 DEF EndStop
<1>16. ASSUME NEW r \in Restart, RestartCall(r) PROVE UnwantedIsQuiet'
  BY <1>16 DEF RestartCall, OpenRestart, BeginStop, Ownership, RevisionsAreUnique
<1>17. ASSUME NEW r \in Restart, RestartSuperseded(r) PROVE UnwantedIsQuiet'
  BY <1>17 DEF RestartSuperseded, SettleRestart
<1>18. ASSUME NEW r \in Restart, RestartStarts(r) PROVE UnwantedIsQuiet'
  BY <1>18 DEF RestartStarts, NewAttempt, Loops, CurrentLoopIsJoined
<1>19. ASSUME NEW r \in Restart, RestartEnds(r) PROVE UnwantedIsQuiet'
  BY <1>19 DEF RestartEnds, SettleRestart
<1>20. ASSUME NEW r \in Restart, RestartAgain(r) PROVE UnwantedIsQuiet'
  BY <1>20 DEF RestartAgain, BeginStop, Loops, CurrentLoopIsJoined
<1>21. ASSUME RestartJoin PROVE UnwantedIsQuiet'
  BY <1>21 DEF RestartJoin
<1>22. ASSUME CheckCall PROVE UnwantedIsQuiet'
  BY <1>22 DEF CheckCall
<1>23. ASSUME CheckDiscarded PROVE UnwantedIsQuiet'
  BY <1>23 DEF CheckDiscarded
<1>24. ASSUME CheckRestarts PROVE UnwantedIsQuiet'
  BY <1>24 DEF CheckRestarts, CheckIsCurrent, OpenRestart, BeginStop, Ownership, RevisionsAreUnique
<1>25. ASSUME CheckEnds PROVE UnwantedIsQuiet'
  BY <1>25 DEF CheckEnds
<1>26. CASE UNCHANGED vars
  BY <1>26 DEF vars
<1> QED
  BY <1>1, <1>2, <1>3, <1>4, <1>5, <1>6, <1>7, <1>8, <1>9, <1>10, <1>11, <1>12,
     <1>13, <1>14, <1>15, <1>16, <1>17, <1>18, <1>19, <1>20, <1>21, <1>22, <1>23, <1>24, <1>25,
     <1>26 DEF Next, StartStep, LoopStep

------------------------------------------------------------------------------
\* Everything the safety properties rest on holds in every reachable state.
THEOREM Inductive == Spec => []IInv
<1>1. IInv /\ [Next]_vars => IInv'
  BY StepTInv, StepOwnership, StepReadiness, StepLoops, StepUnwanted DEF IInv
<1> QED
  BY InitIInv, <1>1, PTL DEF Spec

\* Every variable of the lifecycle keeps its type.
THEOREM TypeCorrect == Spec => []TypeOK
<1>1. IInv => TypeOK
  BY DEF IInv, TInv
<1> QED
  BY Inductive, <1>1, PTL

\* Published metadata always belongs to the child the client talks to.
THEOREM MetadataOwned == Spec => []MetaIsOwned
<1>1. IInv => MetaIsOwned
  BY DEF IInv, Ownership
<1> QED
  BY Inductive, <1>1, PTL

\* A ready client talks to a child that answered initialize.
THEOREM Ready == Spec => []ReadyIsInitialized
<1>1. IInv => ReadyIsInitialized
  BY DEF IInv, Readiness
<1> QED
  BY Inductive, <1>1, PTL

\* Every live child the client let go of was told to exit.
THEOREM NoStray == Spec => []NoStrayChild
<1>1. IInv => NoStrayChild
  BY DEF IInv, Ownership
<1> QED
  BY Inductive, <1>1, PTL

\* A stop can always cancel the start whose promise is open.
THEOREM Cancellable == Spec => []PendingStartIsCancellable
<1>1. IInv => PendingStartIsCancellable
  BY DEF IInv, Ownership
<1> QED
  BY Inductive, <1>1, PTL

\* No restart loop ends up waiting for itself.
THEOREM NeverSelf == Spec => []NoSelfWait
<1>1. IInv => NoSelfWait
  BY DEF IInv, Loops
<1> QED
  BY Inductive, <1>1, PTL

\* A child is spawned only when no child is owned.
THEOREM SpawnAlone == Spec => SpawnFindsNoOwner
<1>1. IInv => [\A a \in Attempt : Spawn(a) => process = None]_vars
  BY DEF IInv, Ownership, SpawnerIsAlone, Spawn, Current
<1> QED
  BY Inductive, <1>1, PTL DEF SpawnFindsNoOwner

\* Whoever becomes the owned child was asked for since the last stop.
LEMMA OwnerIsWanted == IInv /\ [Next]_vars => (process' # None /\ process' # process => wanted)
<1> SUFFICES ASSUME IInv, [Next]_vars, process' # None, process' # process PROVE wanted
  OBVIOUS
<1> USE DEF client, attempts, children, stops, loops, restarts, checks, Dispose
<1>1. PICK a \in Attempt : Spawn(a)
  <2>1. \A s \in Stopper : ~BeginStop(s)
    BY DEF BeginStop
  <2>2. \A s \in Stopper : ~EndStop(s) /\ ~Escalate(s)
    BY DEF EndStop, Escalate
  <2>3. \A s \in Stop : ~StopCall(s)
    BY <2>1 DEF StopCall, Stopper
  <2>4. \A r \in Restart : ~RestartCall(r) /\ ~OpenRestart(r) /\ ~RestartAgain(r)
    BY <2>1 DEF RestartCall, OpenRestart, RestartAgain, Stopper
  <2>5. \A r \in Restart : ~RestartSuperseded(r) /\ ~RestartStarts(r) /\ ~RestartEnds(r)
    BY DEF RestartSuperseded, RestartStarts, RestartEnds
  <2>6. ~RestartJoin /\ ~CheckCall /\ ~CheckDiscarded /\ ~CheckRestarts /\ ~CheckEnds
    BY <2>4 DEF RestartJoin, CheckCall, CheckDiscarded, CheckRestarts, CheckEnds
  <2>7. \A a \in Attempt : ~StartCall(a) /\ ~InitReply(a) /\ ~HealthChanged(a)
                              /\ ~SurfaceChanged(a) /\ ~Exit(a)
    BY DEF StartCall, InitReply, HealthChanged, SurfaceChanged, Exit
  <2>8. \A a \in Attempt : ~ContextFailed(a) /\ ~ContextReady(a) /\ ~CompatFailed(a)
                              /\ ~SpawnThrows(a) /\ ~Adopt(a) /\ ~InitFailed(a)
    BY DEF ContextFailed, ContextReady, CompatFailed, SpawnThrows, Adopt, InitFailed
  <2>9. ~UNCHANGED vars
    BY DEF vars
  <2> QED
    BY <2>2, <2>3, <2>4, <2>5, <2>6, <2>7, <2>8, <2>9 DEF Next, StartStep, LoopStep
<1>2. wanted \in BOOLEAN /\ UnwantedIsQuiet
  BY DEF IInv, TInv, TypeOK
<1> QED
  BY <1>1, <1>2 DEF Spawn, Current, UnwantedIsQuiet

\* After the user's stop only a later request brings the daemon back.
THEOREM SpawnWanted == Spec => SpawnIsWanted
<1>1. IInv /\ [Next]_vars => [process' # None /\ process' # process => wanted]_vars
  BY OwnerIsWanted
<1> QED
  BY Inductive, <1>1, PTL DEF Spec, SpawnIsWanted

\* Every step that moves the ownership, or asks the owned child to exit, leaves
\* a session revision that no caller has seen.
LEMMA SessionMoves ==
  TInv /\ [Next]_vars =>
    (process' # process \/ (process # None /\ told'[process] # told[process])
     => session' > session)
<1> DEFINE Moves == process' # process \/ (process # None /\ told'[process] # told[process])
<1> SUFFICES ASSUME TInv, [Next]_vars, Moves PROVE session' > session
  OBVIOUS
<1> USE DEF client, attempts, children, stops, loops, restarts, checks, Dispose, TInv, TypeOK
<1>1. ASSUME NEW s \in Stopper, BeginStop(s) PROVE session' > session
  BY <1>1 DEF BeginStop
<1>2. ASSUME NEW s \in Stopper, Escalate(s) \/ EndStop(s) PROVE session' > session
  BY <1>2 DEF Escalate, EndStop
<1>3. ASSUME NEW s \in Stop, StopCall(s) PROVE session' > session
  BY <1>1, <1>3 DEF StopCall, Stopper
<1>4. ASSUME NEW r \in Restart, RestartCall(r) \/ RestartAgain(r) PROVE session' > session
  BY <1>1, <1>4 DEF RestartCall, OpenRestart, RestartAgain, Stopper
<1>5. ASSUME NEW r \in Restart, RestartSuperseded(r) \/ RestartStarts(r) \/ RestartEnds(r)
      PROVE  session' > session
  BY <1>5 DEF RestartSuperseded, RestartStarts, RestartEnds
<1>6. ASSUME RestartJoin \/ CheckCall \/ CheckDiscarded \/ CheckEnds PROVE session' > session
  BY <1>6 DEF RestartJoin, CheckCall, CheckDiscarded, CheckEnds
<1>7. ASSUME CheckRestarts PROVE session' > session
  BY <1>1, <1>7 DEF CheckRestarts, OpenRestart, Stopper
<1>8. ASSUME NEW a \in Attempt, Spawn(a) PROVE session' > session
  BY <1>8 DEF Spawn
<1>9. ASSUME NEW a \in Attempt, InitFailed(a) PROVE session' > session
  <2>1. /\ told' = [told EXCEPT ![a] = TRUE]
        /\ IF process = a THEN session' = session + 1 ELSE process' = process
    BY <1>9 DEF InitFailed, AskToExit
  <2>2. CASE process = a
    BY <2>1, <2>2
  <2>3. CASE process # a
    BY <2>1, <2>3
  <2> QED
    BY <2>2, <2>3
<1>10. ASSUME NEW a \in Attempt, Exit(a) PROVE session' > session
  BY <1>10 DEF Exit
<1>11. ASSUME NEW a \in Attempt, StartCall(a) \/ InitReply(a) \/ HealthChanged(a) \/ SurfaceChanged(a)
       PROVE  session' > session
  BY <1>11 DEF StartCall, InitReply, HealthChanged, SurfaceChanged
<1>12. ASSUME NEW a \in Attempt, ContextFailed(a) \/ ContextReady(a) \/ CompatFailed(a)
                                  \/ SpawnThrows(a) \/ Adopt(a)
       PROVE  session' > session
  BY <1>12 DEF ContextFailed, ContextReady, CompatFailed, SpawnThrows, Adopt
<1>13. CASE UNCHANGED vars
  BY <1>13 DEF vars
<1> QED
  BY <1>2, <1>3, <1>4, <1>5, <1>6, <1>7, <1>8, <1>9, <1>10, <1>11, <1>12, <1>13
     DEF Next, StartStep, LoopStep

\* An unchanged session revision means the same child, not asked to exit.
THEOREM SessionIdentifies == Spec => SessionIdentifiesChild
<1>1. IInv /\ [Next]_vars =>
        [process' # process \/ (process # None /\ told'[process] # told[process])
         => session' > session]_vars
  BY SessionMoves DEF IInv
<1> QED
  BY Inductive, <1>1, PTL DEF Spec, SessionIdentifiesChild
==============================================================================
