--------------------------- MODULE DaemonLifecycle ---------------------------
(***************************************************************************)
(* The owner of the Python analysis daemon: the start, stop, restart and   *)
(* interpreter-check paths of AnalysisDaemon (src/src/client/daemon/       *)
(* analysisDaemon.ts) and the child-process events they race with.         *)
(*                                                                         *)
(* One action is one turn of the extension host's event loop: what runs    *)
(* between two awaits.  An attempt is one call of startProcess, and names  *)
(* the child it spawns; a stopper is one call of stopProcess, made by      *)
(* stop() or by the loop of restart().                                     *)
(***************************************************************************)
EXTENDS Naturals, FiniteSets

CONSTANTS
  Attempt,   \* calls of startProcess, and the children they spawn
  Stop,      \* calls of the public stop()
  Restart,   \* calls of restart() that open a new restart loop
  None       \* no attempt, child, stopper or restart

ASSUME DistinctIds ==
  /\ None \notin Attempt \cup Stop \cup Restart
  /\ Stop \cap Restart = {}

Stopper == Stop \cup Restart

VARIABLES
  process,         \* this.process: the child the client talks to
  lifecycle,       \* lifecycleRevision: bumped by every start and stop
  session,         \* sessionRevision: what callers compare after an await
  stopRequested,   \* set by stopProcess, cleared once a start has its context
  phase,           \* currentState.phase
  meta,            \* the child whose metadata is published, None when retired
  startPromise,    \* the attempt whose promise start() hands out
  step,            \* where each attempt is in startProcess
  life,            \* the lifecycle revision an attempt captured
  waiter,          \* the public promise of an attempt: the race with cancelStart
  req,             \* the initialize request of an attempt's child
  os,              \* the operating system's view of the child
  told,            \* the child was asked to exit (stdin ended, signalled)
  sstep,           \* where each stopper is in terminateProcess
  slife,           \* the lifecycle revision a stopper captured
  schild,          \* the child a stopper terminates
  restartPromise,  \* the restart loop callers join
  restartRev,      \* restartRevision
  restartQueued,   \* a caller joined the loop since its last stop
  rstep,           \* where each restart loop is
  rrev,            \* the restart revision a loop captured
  rstart,          \* the attempt a restart loop waits for
  check,           \* interpreterCheck: idle, comparing or awaiting its restart
  checkLife,       \* the lifecycle revision the check captured
  checkRestart,    \* the restart loop the check awaits
  wanted           \* history: the last public request asked for a daemon

client   == <<process, lifecycle, session, stopRequested, phase, meta, startPromise>>
attempts == <<step, life, waiter, req>>
children == <<os, told>>
stops    == <<sstep, slife, schild>>
loops    == <<rstep, rrev, rstart>>
restarts == <<restartPromise, restartRev, restartQueued, loops>>
checks   == <<check, checkLife, checkRestart>>
vars == <<client, attempts, children, stops, restarts, checks, wanted>>

------------------------------------------------------------------------------
Phases     == {"stopped", "starting", "ready", "error"}
Steps      == {"unused", "context", "compat", "init", "done", "failed"}
StopSteps  == {"unused", "terminating", "escalated", "done"}
LoopSteps  == {"unused", "stopping", "starting", "self", "resolved", "rejected"}

TypeOK ==
  /\ process \in Attempt \cup {None}
  /\ lifecycle \in Nat
  /\ session \in Nat
  /\ stopRequested \in BOOLEAN
  /\ phase \in Phases
  /\ meta \in Attempt \cup {None}
  /\ startPromise \in Attempt \cup {None}
  /\ step \in [Attempt -> Steps]
  /\ life \in [Attempt -> Nat]
  /\ waiter \in [Attempt -> {"none", "pending", "resolved", "rejected"}]
  /\ req \in [Attempt -> {"none", "sent", "answered", "rejected"}]
  /\ os \in [Attempt -> {"none", "running", "exited"}]
  /\ told \in [Attempt -> BOOLEAN]
  /\ sstep \in [Stopper -> StopSteps]
  /\ slife \in [Stopper -> Nat]
  /\ schild \in [Stopper -> Attempt \cup {None}]
  /\ restartPromise \in Restart \cup {None}
  /\ restartRev \in Nat
  /\ restartQueued \in BOOLEAN
  /\ rstep \in [Restart -> LoopSteps]
  /\ rrev \in [Restart -> Nat]
  /\ rstart \in [Restart -> Attempt \cup {None}]
  /\ check \in {"idle", "comparing", "restarting"}
  /\ checkLife \in Nat
  /\ checkRestart \in Restart \cup {None}
  /\ wanted \in BOOLEAN

Init ==
  /\ process = None /\ lifecycle = 0 /\ session = 0
  /\ stopRequested = FALSE /\ phase = "stopped"
  /\ meta = None /\ startPromise = None
  /\ step = [a \in Attempt |-> "unused"]
  /\ life = [a \in Attempt |-> 0]
  /\ waiter = [a \in Attempt |-> "none"]
  /\ req = [a \in Attempt |-> "none"]
  /\ os = [a \in Attempt |-> "none"]
  /\ told = [a \in Attempt |-> FALSE]
  /\ sstep = [s \in Stopper |-> "unused"]
  /\ slife = [s \in Stopper |-> 0]
  /\ schild = [s \in Stopper |-> None]
  /\ restartPromise = None /\ restartRev = 0 /\ restartQueued = FALSE
  /\ rstep = [r \in Restart |-> "unused"]
  /\ rrev = [r \in Restart |-> 0]
  /\ rstart = [r \in Restart |-> None]
  /\ check = "idle" /\ checkLife = 0 /\ checkRestart = None
  /\ wanted = FALSE

------------------------------------------------------------------------------
\* Shared effects.

\* rejectAllPending: every request still waiting for a reply.
Rejected(q) == [a \in Attempt |-> IF q[a] = "sent" THEN "rejected" ELSE q[a]]

\* Faulty variants of Dispose, one per thing it has to drop.
DisposeKeepsMetadata(c) ==
  /\ process' = IF process = c THEN None ELSE process
  /\ session' = IF process = c THEN session + 1 ELSE session
  /\ UNCHANGED meta
DisposeKeepsSession(c) ==
  /\ process' = IF process = c THEN None ELSE process
  /\ meta' = IF process = c THEN None ELSE meta
  /\ UNCHANGED session
\* disposeProcessHandles(child): only the current owner's state is dropped.
Dispose(c) ==
  IF process = c
  THEN /\ process' = None
       /\ session' = session + 1
       /\ meta' = None
  ELSE UNCHANGED <<process, session, meta>>

\* The child was asked to exit: its stdin was ended or it was signalled.
AskNobody(c) == told        \* faulty: the child is let go without a signal
AskToExit(c) == IF c = None THEN told ELSE [told EXCEPT ![c] = TRUE]

CancelNobody == waiter      \* faulty: a stop forgets the start and leaves its waiters
\* cancelStart: the public waiter of the current start is rejected.
CancelStart == IF startPromise = None THEN waiter
               ELSE [waiter EXCEPT ![startPromise] = "rejected"]

\* The lifecycle guard an attempt evaluates after each of its awaits.
CurrentAlways(a) == TRUE    \* faulty: the guard is dropped
Current(a) == life[a] = lifecycle

\* isReady(), without the source-refresh gate of SourceConfigurationRequests.
IsReady == process # None /\ phase = "ready"

\* Bounds only: attempts that a running restart loop may still need are kept
\* out of reach of new calls, so that running out of ids never blocks a loop.
Unused == {a \in Attempt : step[a] = "unused"}
Reserved == Cardinality({r \in Restart : rstep[r] = "stopping" /\ rrev[r] = restartRev})
            + (IF restartQueued THEN 1 ELSE 0)
CanAttempt == Cardinality(Unused) > Reserved

------------------------------------------------------------------------------
\* startProcess.

\* The synchronous prefix of startProcess, and startSession's promise race.
NewAttempt(a) ==
  /\ step[a] = "unused"
  /\ lifecycle' = lifecycle + 1
  /\ step' = [step EXCEPT ![a] = "context"]
  /\ life' = [life EXCEPT ![a] = lifecycle + 1]
  /\ waiter' = [waiter EXCEPT ![a] = "pending"]
  /\ startPromise' = a

\* start() with no restart, start or process to join.
StartCall(a) ==
  /\ CanAttempt
  /\ restartPromise = None /\ startPromise = None /\ process = None
  /\ NewAttempt(a)
  /\ wanted' = TRUE
  /\ UNCHANGED <<process, session, stopRequested, phase, meta, req, children,
                 stops, restarts, checks>>

\* The attempt's promise rejects; startSession forgets it when it is current.
Reject(a) ==
  /\ step' = [step EXCEPT ![a] = "failed"]
  /\ waiter' = [waiter EXCEPT ![a] = IF @ = "pending" THEN "rejected" ELSE @]
  /\ startPromise' = IF startPromise = a THEN None ELSE startPromise

\* createLaunchContext rejects, or its result is superseded.  The call is
\* outside every try block: the published state keeps its phase.
ContextFailed(a) ==
  /\ step[a] = "context"
  /\ Reject(a)
  /\ UNCHANGED <<process, lifecycle, session, stopRequested, phase, meta, life, req,
                 children, stops, restarts, checks, wanted>>

ContextReady(a) ==
  /\ step[a] = "context"
  /\ Current(a)
  /\ stopRequested' = FALSE
  /\ phase' = "starting"
  /\ step' = [step EXCEPT ![a] = "compat"]
  /\ UNCHANGED <<process, lifecycle, session, meta, startPromise, life, waiter, req,
                 children, stops, restarts, checks, wanted>>

\* pythonCompatibility.check rejects (only the current attempt reports it),
\* or resolves for a superseded attempt.
CompatFailed(a) ==
  /\ step[a] = "compat"
  /\ Reject(a)
  /\ phase' = IF Current(a) THEN "error" ELSE phase
  /\ UNCHANGED <<process, lifecycle, session, stopRequested, meta, life, req,
                 children, stops, restarts, checks, wanted>>

\* prepareNativeDaemonState or spawn throws: no try block reports it.
SpawnThrows(a) ==
  /\ step[a] = "compat" /\ Current(a)
  /\ Reject(a)
  /\ UNCHANGED <<process, lifecycle, session, stopRequested, phase, meta, life, req,
                 children, stops, restarts, checks, wanted>>

\* The child is spawned, becomes this.process, and initialize is sent to it.
Spawn(a) ==
  /\ step[a] = "compat" /\ Current(a)
  /\ step' = [step EXCEPT ![a] = "init"]
  /\ process' = a
  /\ session' = session + 1
  /\ os' = [os EXCEPT ![a] = "running"]
  /\ req' = [req EXCEPT ![a] = "sent"]
  /\ UNCHANGED <<lifecycle, stopRequested, phase, meta, startPromise, life, waiter, told,
                 stops, restarts, checks, wanted>>

\* A line of stdout counts only while its child is this.process and no stop
\* was requested.
Listening(a) == process = a /\ ~stopRequested /\ os[a] = "running"

InitReply(a) ==
  /\ Listening(a) /\ req[a] = "sent"
  /\ req' = [req EXCEPT ![a] = "answered"]
  /\ UNCHANGED <<client, step, life, waiter, children, stops, restarts, checks, wanted>>

\* The continuation of Promise.all([initialize, ownership]) once both resolve.
Adopt(a) ==
  /\ step[a] = "init" /\ req[a] = "answered"
  /\ Current(a) /\ process = a /\ ~stopRequested
  /\ meta' = a
  /\ phase' = "ready"
  /\ step' = [step EXCEPT ![a] = "done"]
  /\ waiter' = [waiter EXCEPT ![a] = IF @ = "pending" THEN "resolved" ELSE @]
  /\ startPromise' = IF startPromise = a THEN None ELSE startPromise
  /\ UNCHANGED <<process, lifecycle, session, stopRequested, life, req,
                 children, stops, restarts, checks, wanted>>

\* The catch block: initialize rejected or timed out, the ownership channel
\* failed, or the attempt was superseded while its reply was on the way.
InitFailed(a) ==
  /\ step[a] = "init"
  /\ req' = IF process = a THEN Rejected(req) ELSE req
  /\ Dispose(a)
  /\ told' = AskToExit(a)
  /\ phase' = IF Current(a) THEN "error" ELSE phase
  /\ Reject(a)
  /\ UNCHANGED <<lifecycle, stopRequested, life, os, stops, restarts, checks, wanted>>

------------------------------------------------------------------------------
\* Unsolicited events of the child.  The daemon publishes only after it wrote
\* its initialize reply, but the client may not have adopted that reply yet.

HealthChanged(a) ==
  /\ Listening(a) /\ req[a] = "answered" /\ phase # "ready"
  /\ phase' = "ready"
  /\ UNCHANGED <<process, lifecycle, session, stopRequested, meta, startPromise,
                 attempts, children, stops, restarts, checks, wanted>>

SurfaceChanged(a) ==
  /\ Listening(a) /\ req[a] = "answered" /\ meta # a
  /\ meta' = a
  /\ UNCHANGED <<process, lifecycle, session, stopRequested, phase, startPromise,
                 attempts, children, stops, restarts, checks, wanted>>

\* The exit event, or the error event of a spawn that never started.
Exit(a) ==
  /\ os[a] = "running"
  /\ os' = [os EXCEPT ![a] = "exited"]
  /\ req' = IF process = a THEN Rejected(req) ELSE req
  /\ Dispose(a)
  /\ phase' = IF process = a /\ ~stopRequested /\ ~told[a] THEN "error" ELSE phase
  /\ UNCHANGED <<lifecycle, stopRequested, startPromise, step, life, waiter, told,
                 stops, restarts, checks, wanted>>

------------------------------------------------------------------------------
\* stopProcess and terminateProcess.

\* The synchronous prefix of stopProcess.  Without a child terminateProcess
\* drops the handles at once; with one it asks the child to exit and waits.
BeginStop(s) ==
  /\ lifecycle' = lifecycle + 1
  /\ session' = session + 1
  /\ stopRequested' = TRUE
  /\ waiter' = CancelStart
  /\ startPromise' = None
  /\ req' = Rejected(req)
  /\ told' = AskToExit(process)
  /\ meta' = IF process = None THEN None ELSE meta
  /\ sstep' = [sstep EXCEPT ![s] = "terminating"]
  /\ slife' = [slife EXCEPT ![s] = lifecycle + 1]
  /\ schild' = [schild EXCEPT ![s] = process]
  /\ UNCHANGED <<process, phase, step, life, os>>

\* The public stop() also retires the restart loop.
StopCall(s) ==
  /\ sstep[s] = "unused"
  /\ BeginStop(s)
  /\ restartRev' = restartRev + 1
  /\ restartQueued' = FALSE
  /\ restartPromise' = None
  /\ wanted' = FALSE
  /\ UNCHANGED <<loops, checks>>

\* 1200ms passed without an exit: SIGKILL, and wait another 800ms.
Escalate(s) ==
  /\ sstep[s] = "terminating" /\ schild[s] # None /\ os[schild[s]] = "running"
  /\ sstep' = [sstep EXCEPT ![s] = "escalated"]
  /\ UNCHANGED <<client, attempts, children, slife, schild, restarts, checks, wanted>>

Left(c) == c # None => os[c] # "running"

\* The wait for the exit event is bounded: the second timeout ends it.
StopWaitsForExit(s) ==       \* faulty: no timeout after SIGKILL
  sstep[s] \in {"terminating", "escalated"} /\ Left(schild[s])
StopWaitOver(s) ==
  \/ sstep[s] = "terminating" /\ Left(schild[s])
  \/ sstep[s] = "escalated"

\* terminateProcess returns: the child exited or the second wait elapsed.  The
\* stopped state is published only when no later start or stop ran.
EndStop(s) ==
  /\ StopWaitOver(s)
  /\ sstep' = [sstep EXCEPT ![s] = "done"]
  /\ IF schild[s] = None THEN UNCHANGED <<process, session, meta>> ELSE Dispose(schild[s])
  /\ phase' = IF slife[s] = lifecycle THEN "stopped" ELSE phase
  /\ UNCHANGED <<lifecycle, stopRequested, startPromise, attempts, children, slife, schild,
                 restarts, checks, wanted>>

------------------------------------------------------------------------------
\* restart() and its coalescing loop.

\* A call that opens a loop: its first stop starts in the same turn.
OpenRestart(r) ==
  /\ restartPromise = None /\ rstep[r] = "unused"
  /\ CanAttempt
  /\ restartRev' = restartRev + 1
  /\ restartPromise' = r
  /\ restartQueued' = FALSE
  /\ rstep' = [rstep EXCEPT ![r] = "stopping"]
  /\ rrev' = [rrev EXCEPT ![r] = restartRev + 1]
  /\ UNCHANGED rstart
  /\ BeginStop(r)

RestartCall(r) ==
  /\ OpenRestart(r)
  /\ wanted' = TRUE
  /\ UNCHANGED checks

\* A call that finds a loop queues one more round of it.
RestartJoin ==
  /\ restartPromise # None /\ ~restartQueued
  /\ CanAttempt
  /\ restartQueued' = TRUE
  /\ wanted' = TRUE
  /\ UNCHANGED <<client, attempts, children, stops, restartPromise, restartRev, loops, checks>>

\* The loop's promise settles, and the caller forgets it when it is current.
SettleRestart(r, outcome) ==
  /\ rstep' = [rstep EXCEPT ![r] = outcome]
  /\ restartPromise' = IF restartPromise = r THEN None ELSE restartPromise

\* The loop awaits the public promise of the start, and catches its rejection.
StartSettled(r) == rstep[r] = "starting" /\ waiter[rstart[r]] # "pending"

\* After its stop: a retired loop throws, a current one calls startSession.
RestartSuperseded(r) ==
  /\ \/ rstep[r] = "stopping" /\ sstep[r] = "done"
     \/ StartSettled(r)
  /\ rrev[r] # restartRev
  /\ SettleRestart(r, "rejected")
  /\ UNCHANGED <<client, attempts, children, stops, restartRev, restartQueued, rrev, rstart,
                 checks, wanted>>

RestartStarts(r) ==
  /\ rstep[r] = "stopping" /\ sstep[r] = "done" /\ rrev[r] = restartRev
  /\ \/ /\ startPromise # None                        \* joins a running start
        /\ rstart' = [rstart EXCEPT ![r] = startPromise]
        /\ rstep' = [rstep EXCEPT ![r] = "starting"]
        /\ UNCHANGED <<client, attempts>>
     \/ /\ startPromise = None /\ process # None      \* refreshHealth awaits this loop
        /\ rstep' = [rstep EXCEPT ![r] = "self"]
        /\ UNCHANGED <<rstart, client, attempts>>
     \/ /\ startPromise = None /\ process = None
        /\ \E a \in Attempt : NewAttempt(a) /\ rstart' = [rstart EXCEPT ![r] = a]
        /\ rstep' = [rstep EXCEPT ![r] = "starting"]
        /\ UNCHANGED <<process, session, stopRequested, phase, meta, req>>
  /\ UNCHANGED <<children, stops, restartPromise, restartRev, restartQueued, rrev, checks, wanted>>

\* The attempt settled and nobody queued another round.
RestartEnds(r) ==
  /\ StartSettled(r)
  /\ rrev[r] = restartRev /\ ~restartQueued
  /\ SettleRestart(r, waiter[rstart[r]])
  /\ UNCHANGED <<client, attempts, children, stops, restartRev, restartQueued, rrev, rstart,
                 checks, wanted>>

\* Another round: the loop stops what it just started.
RestartAgain(r) ==
  /\ StartSettled(r)
  /\ rrev[r] = restartRev /\ restartQueued
  /\ restartQueued' = FALSE
  /\ rstep' = [rstep EXCEPT ![r] = "stopping"]
  /\ BeginStop(r)
  /\ UNCHANGED <<restartPromise, restartRev, rrev, rstart, checks, wanted>>

------------------------------------------------------------------------------
\* restartIfInterpreterChanged and checkForInterpreterChange.

\* The session the check began in is still the current one.
CheckAnySession == phase # "stopped"           \* faulty: no session comparison
CheckIsCurrent == checkLife = lifecycle /\ ~stopRequested /\ phase # "stopped"

CheckCall ==
  /\ check = "idle"
  /\ \E a \in Attempt : step[a] \notin {"unused", "context"}   \* lastLaunchContext
  /\ ~stopRequested /\ phase # "stopped"
  /\ check' = "comparing"
  /\ checkLife' = lifecycle
  /\ UNCHANGED <<client, attempts, children, stops, restarts, checkRestart, wanted>>

\* Nothing changed, or the session the check began in is gone.
CheckDiscarded ==
  /\ check = "comparing"
  /\ check' = "idle"
  /\ UNCHANGED <<client, attempts, children, stops, restarts, checkLife, checkRestart, wanted>>

\* Another interpreter: restart, joining a loop that is already running.
CheckRestarts ==
  /\ check = "comparing"
  /\ CheckIsCurrent
  /\ \/ \E r \in Restart : OpenRestart(r) /\ checkRestart' = r
     \/ /\ restartPromise # None /\ CanAttempt
        /\ restartQueued' = TRUE
        /\ checkRestart' = restartPromise
        /\ UNCHANGED <<client, attempts, children, stops, restartPromise, restartRev, loops>>
  /\ check' = "restarting"
  /\ UNCHANGED <<checkLife, wanted>>

CheckEnds ==
  /\ check = "restarting" /\ rstep[checkRestart] \in {"resolved", "rejected"}
  /\ check' = "idle"
  /\ checkRestart' = None
  /\ UNCHANGED <<client, attempts, children, stops, restarts, checkLife, wanted>>

------------------------------------------------------------------------------
StartStep(a) ==
  \/ ContextFailed(a) \/ ContextReady(a)
  \/ CompatFailed(a) \/ SpawnThrows(a) \/ Spawn(a)
  \/ Adopt(a) \/ InitFailed(a)

LoopStep(r) ==
  RestartSuperseded(r) \/ RestartStarts(r) \/ RestartEnds(r) \/ RestartAgain(r)

Next ==
  \/ \E a \in Attempt : StartCall(a) \/ StartStep(a) \/ InitReply(a)
                        \/ HealthChanged(a) \/ SurfaceChanged(a) \/ Exit(a)
  \/ \E s \in Stop : StopCall(s)
  \/ \E s \in Stopper : Escalate(s) \/ EndStop(s)
  \/ \E r \in Restart : RestartCall(r) \/ LoopStep(r)
  \/ RestartJoin
  \/ CheckCall \/ CheckDiscarded \/ CheckRestarts \/ CheckEnds

\* What follows the interpreter lookup of a start: the version check and the
\* initialize request have time-outs.  The lookup itself has none.
AfterLookup(a) == step[a] # "context" /\ StartStep(a)

\* Timers fire and continuations run; a lookup may never return, a child told to
\* exit may still hang, and nothing obliges callers to call.
Fairness ==
  /\ \A a \in Attempt : WF_vars(AfterLookup(a))
  /\ \A s \in Stopper : WF_vars(Escalate(s)) /\ WF_vars(EndStop(s))
  /\ \A r \in Restart : WF_vars(LoopStep(r))
  /\ WF_vars(CheckEnds)

Spec == Init /\ [][Next]_vars
FairSpec == Spec /\ Fairness

------------------------------------------------------------------------------
\* Safety.

\* The metadata the client answers from belongs to the child it talks to:
\* disposeProcessHandles and stopProcess retire it before the child is
\* forgotten, and a superseded initialize reply is never adopted.
MetaIsOwned == meta # None => meta = process

\* isReady() implies that the current child, and not an earlier one, answered
\* initialize: the reindex queue and the diagnostics rely on it.
ReadyIsInitialized == IsReady => req[process] = "answered"

\* Every live child that the client no longer talks to was told to exit, by
\* whichever of stopProcess and startProcess's catch block let go of it.
NoStrayChild == \A a \in Attempt : os[a] = "running" /\ a # process => told[a]

\* A start whose public promise is open is the one stopProcess would cancel, so
\* no caller of start() is left behind by a stop even if its interpreter
\* lookup never returns.
PendingStartIsCancellable == \A a \in Attempt : waiter[a] = "pending" => startPromise = a

\* A restart loop never reaches startSession while a child is owned: it would
\* take the refreshHealth branch, which waits for the loop itself.
NoSelfWait == \A r \in Restart : rstep[r] # "self"

\* The children alive under the current lifecycle revision are never two: a
\* spawn finds no owned child.
SpawnFindsNoOwner == [][\A a \in Attempt : Spawn(a) => process = None]_vars

\* After the user's stop nothing brings the daemon back but a later request: no
\* interpreter check, queued restart or half-done start spawns a child.
SpawnIsWanted == [][process' # None /\ process' # process => wanted]_vars

\* The session revision identifies the child and the absence of a stop: a caller
\* that finds it unchanged after an await still talks to the same child, and
\* that child has not been told to stop in between.
SessionIdentifiesChild ==
  [][process' # process \/ (process # None /\ told'[process] # told[process])
     => session' > session]_vars

------------------------------------------------------------------------------
\* Liveness.

\* The caller waits for an interpreter lookup, which nothing bounds, and no stop
\* or later start has superseded it.
OnLookup(a) == step[a] = "context" /\ Current(a)
LoopOnLookup(r) == rstep[r] = "starting" /\ OnLookup(rstart[r])
CheckOnLookup == \E r \in Restart : checkRestart = r /\ LoopOnLookup(r)

\* Every caller of start and restart, and an interpreter check that restarts, gets
\* an answer, unless the current interpreter lookup never returns.  A stop answers
\* also those who wait for that lookup, although nobody can end it.
CallersSettle ==
  /\ \A a \in Attempt : waiter[a] = "pending" ~> (waiter[a] # "pending" \/ OnLookup(a))
  /\ \A r \in Restart : rstep[r] \in {"stopping", "starting"}
                          ~> (rstep[r] \in {"resolved", "rejected"} \/ LoopOnLookup(r))
  /\ check = "restarting" ~> (check = "idle" \/ CheckOnLookup)

\* A stop that nothing follows ends with the stopped state published and no
\* owned child, even if the child ignores SIGTERM and SIGKILL.
StopEnds ==
  \A s \in Stop : (sstep[s] = "terminating" /\ slife[s] = lifecycle)
     ~> (lifecycle # slife[s] \/ (phase = "stopped" /\ process = None))

==============================================================================
