-------------------------- MODULE SurfacePublication --------------------------
(***************************************************************************)
(* How the Python daemon publishes its model tables                        *)
(* (src/python/django_orm_intellisense/server/app.py,                      *)
(* _publish_current_surface_snapshot and _schedule_surface_snapshot_retry).*)
(*                                                                         *)
(* Background threads adopt a new table under _state_lock and then publish *)
(* it: they prepare a frame under the lock, encode it outside, and write   *)
(* it under the lock again if nothing overtook it.  A save within the last *)
(* _SURFACE_PUBLISH_IDLE_SECONDS defers the publication to a retry timer,  *)
(* of which the daemon registers one.                                      *)
(*                                                                         *)
(* One action is one block under _state_lock (an RLock, so the retry that  *)
(* _publish_current_surface_snapshot schedules inside its block is part of *)
(* it).  Tables are abstracted to a version, bumped by every change.       *)
(***************************************************************************)
EXTENDS Naturals

CONSTANTS
  Loader,       \* threads that adopt a loaded or prebuilt table
  Refresher,    \* threads that adopt refreshed runtime members
  Timer,        \* identities of retry timer threads
  None,         \* no timer
  Attempts,     \* _SURFACE_PUBLISH_ATTEMPTS
  MaxVersion,   \* bound: changes of the table
  MaxBase       \* bound: resyncs happen below this baseline

Worker == Loader \cup Refresher
Thread == Worker \cup Timer

ASSUME DistinctThreads ==
  /\ Loader \cap Refresher = {} /\ Worker \cap Timer = {} /\ None \notin Thread
ASSUME PublicationBounds == Attempts \in Nat \ {0} /\ MaxVersion \in Nat /\ MaxBase \in Nat

VARIABLES
  generation,  \* _state_generation
  serial,      \* _reindex_serial
  version,     \* of the published surface state, _last_surface_index
  saved,       \* history: the version of the last reindex commit
  adopted,     \* history: the last version a background thread adopted
  recent,      \* the last reindex commit is younger than the idle window
  stopping,    \* _stopping: set without the lock
  retired,     \* the stop has taken the lock and the last generation number
  doomed,      \* the retry timer the stop will cancel
  base,        \* identity of the encoder's baseline object
  sent,        \* history: the version of the last frame written
  timer,       \* _surface_publish_retry_timer
  timerGen,    \* _surface_publish_retry_generation
  pc,          \* idle, working, publish, encode, giveup; off, armed, cleanup of timers
  gen,         \* the generation a thread works for
  seen,        \* serial, baseline and version a thread captured
  attempt,     \* attempts a thread has used
  lost         \* history: a retry was coalesced into a timer past its last look

state  == <<generation, serial, version, saved, adopted, recent, stopping>>
stop   == <<retired, doomed>>
wire   == <<base, sent>>
retry  == <<timer, timerGen, lost>>
thread == <<pc, gen, seen, attempt>>
vars == <<state, stop, wire, retry, thread>>

Nothing == [serial |-> 0, base |-> 0, version |-> 0]

\* The daemon has answered its first initialize with the table of version 0.
Init ==
  /\ generation = 1 /\ serial = 0 /\ version = 0 /\ saved = 0 /\ adopted = 0
  /\ recent = FALSE /\ stopping = FALSE /\ retired = FALSE /\ doomed = None
  /\ base = 0 /\ sent = 0
  /\ timer = None /\ timerGen = 0 /\ lost = FALSE
  /\ pc = [t \in Thread |-> IF t \in Timer THEN "off" ELSE "idle"]
  /\ gen = [t \in Thread |-> 0]
  /\ seen = [t \in Thread |-> Nothing]
  /\ attempt = [t \in Thread |-> 0]

------------------------------------------------------------------------------
\* Other writers of the table, each under the lock.

\* _commit_reindex on the main thread; its reply is not a frame.
Save ==
  /\ ~stopping /\ version < MaxVersion
  /\ version' = version + 1
  /\ serial' = serial + 1
  /\ saved' = version + 1
  /\ recent' = TRUE
  /\ UNCHANGED <<generation, adopted, stopping, stop, wire, retry, thread>>

\* The idle window after the last save is over.
QuietEnds ==
  /\ recent
  /\ recent' = FALSE
  /\ UNCHANGED <<generation, serial, version, saved, adopted, stopping, stop, wire, retry, thread>>

\* _write_notification under the lock: the frame holds the current table.
WriteNow(v) == base' = base + 1 /\ sent' = v

\* _resync_surface_snapshot: reset the encoder and write a full frame.
Resync ==
  /\ ~stopping /\ base < MaxBase
  /\ WriteNow(version)
  /\ UNCHANGED <<state, stop, retry, thread>>

\* _publish_warmed_runtime_state empties the table and writes at once.  The first
\* warm-up asks for its generation only, so a daemon that begins to stop may still
\* write it; there is no warm-up of the number the stop takes.
Warm ==
  /\ ~retired /\ version < MaxVersion
  /\ version' = version + 1
  /\ WriteNow(version + 1)
  /\ UNCHANGED <<generation, serial, saved, adopted, recent, stopping, stop, retry, thread>>

\* A second initialize: another generation, whose response holds its table.
Initialize ==
  /\ ~stopping /\ version < MaxVersion
  /\ generation' = generation + 1
  /\ version' = version + 1
  /\ WriteNow(version + 1)
  /\ UNCHANGED <<serial, saved, adopted, recent, stopping, stop, retry, thread>>

\* Timer.cancel: a timer that has fired goes on.
Cancelled(t) == IF pc[t] = "armed" THEN "off" ELSE pc[t]

\* The end of run_stdio: other threads may take the lock before it does, and the
\* registered timer may fire before it is cancelled.
StopBegins ==
  /\ ~stopping
  /\ stopping' = TRUE
  /\ UNCHANGED <<generation, serial, version, saved, adopted, recent, stop, wire, retry, thread>>

StopLocks ==
  /\ stopping /\ ~retired
  /\ retired' = TRUE
  /\ generation' = generation + 1
  /\ timer' = None /\ timerGen' = 0
  /\ doomed' = timer
  /\ UNCHANGED <<serial, version, saved, adopted, recent, stopping, wire, lost, thread>>

StopCancels ==
  /\ doomed # None
  /\ doomed' = None
  /\ pc' = [pc EXCEPT ![doomed] = Cancelled(doomed)]
  /\ UNCHANGED <<state, retired, wire, retry, gen, seen, attempt>>

------------------------------------------------------------------------------
\* Background threads adopt a table and publish it.

Start(w) ==
  /\ ~stopping /\ pc[w] = "idle" /\ version < MaxVersion
  /\ pc' = [pc EXCEPT ![w] = "working"]
  /\ gen' = [gen EXCEPT ![w] = generation]
  /\ seen' = [seen EXCEPT ![w] = [Nothing EXCEPT !.serial = serial]]
  /\ UNCHANGED <<state, stop, wire, retry, attempt>>

MineEver(t) == TRUE                        \* faulty: an old generation goes on
Mine(t) == gen[t] = generation /\ ~stopping

\* A load without runtime members overlays the models saved since it started;
\* with them, like a refresh, it gives up.
Overlays(w) == w \in Loader \/ seen[w].serial = serial

Adopt(w) ==
  /\ pc[w] = "working" /\ version < MaxVersion
  /\ Mine(w) /\ Overlays(w)
  /\ version' = version + 1
  /\ adopted' = version + 1
  /\ IF w \in Refresher
     THEN serial' = serial + 1 /\ recent' = TRUE
     ELSE UNCHANGED <<serial, recent>>
  /\ pc' = [pc EXCEPT ![w] = "publish"]
  /\ seen' = [seen EXCEPT ![w] = Nothing]
  /\ UNCHANGED <<generation, saved, stopping, stop, wire, retry, gen, attempt>>

Superseded(w) ==
  /\ pc[w] = "working"
  /\ ~Mine(w) \/ seen[w].serial # serial \/ version = MaxVersion
  /\ pc' = [pc EXCEPT ![w] = "idle"]
  /\ gen' = [gen EXCEPT ![w] = 0]
  /\ seen' = [seen EXCEPT ![w] = Nothing]
  /\ UNCHANGED <<state, stop, wire, retry, attempt>>

\* Where a thread goes when _publish_current_surface_snapshot returns; what it
\* captured is forgotten.
Returned(t) == IF t \in Timer THEN "cleanup" ELSE "idle"

Forget(t) == seen' = [seen EXCEPT ![t] = Nothing] /\ attempt' = [attempt EXCEPT ![t] = 0]

Return(t) ==
  /\ pc' = [pc EXCEPT ![t] = Returned(t)]
  /\ gen' = [gen EXCEPT ![t] = 0]
  /\ Forget(t)
  /\ UNCHANGED retry

\* _schedule_surface_snapshot_retry: a timer of this generation that another
\* thread registered stands for this retry too.
CoveredByAny(t) == timer \notin {None, t}   \* faulty: an old generation's timer will do
Covered(t) == timer \notin {None, t} /\ timerGen = gen[t]

Schedule(t) ==
  /\ Forget(t)
  /\ IF Covered(t)
     THEN /\ lost' = (lost \/ pc[timer] = "cleanup")
          /\ pc' = [pc EXCEPT ![t] = Returned(t)]
          /\ gen' = [gen EXCEPT ![t] = 0]
          /\ UNCHANGED <<timer, timerGen>>
     ELSE \E n \in Timer :
          /\ pc[n] = "off"
          /\ timer' = n
          /\ timerGen' = gen[t]
          /\ pc' = [u \in Thread |-> CASE u = t -> Returned(t)
                                       [] u = n -> "armed"
                                       [] u = timer /\ u # t -> Cancelled(u)
                                       [] OTHER -> pc[u]]
          /\ gen' = [gen EXCEPT ![n] = gen[t], ![t] = 0]
          /\ UNCHANGED lost

\* The first block under the lock.
Prepare(t) ==
  /\ pc[t] = "publish"
  /\ IF ~Mine(t) THEN Return(t)
     ELSE IF recent THEN Schedule(t)
     ELSE /\ pc' = [pc EXCEPT ![t] = "encode"]
          /\ seen' = [seen EXCEPT ![t] = [serial |-> serial, base |-> base, version |-> version]]
          /\ UNCHANGED <<retry, gen, attempt>>
  /\ UNCHANGED <<state, stop, wire>>

FreshBase(t) == seen[t].base = base        \* faulty alone: a save may be rolled back
\* The second block: nothing may have overtaken the encoded frame.
Fresh(t) == seen[t].serial = serial /\ seen[t].base = base

Write(t) ==
  /\ pc[t] = "encode"
  /\ Mine(t) /\ Fresh(t)
  /\ WriteNow(seen[t].version)
  /\ Return(t)
  /\ UNCHANGED <<state, stop>>

MoreAttempts(t) == attempt[t] + 1 < Attempts

Overtaken(t) ==
  /\ pc[t] = "encode"
  /\ ~Mine(t) \/ ~Fresh(t)
  /\ IF ~Mine(t) THEN Return(t)
     ELSE /\ seen' = [seen EXCEPT ![t] = Nothing]
          /\ IF MoreAttempts(t)
             THEN /\ pc' = [pc EXCEPT ![t] = "publish"]
                  /\ attempt' = [attempt EXCEPT ![t] = @ + 1]
             ELSE pc' = [pc EXCEPT ![t] = "giveup"] /\ UNCHANGED attempt
          /\ UNCHANGED <<retry, gen>>
  /\ UNCHANGED <<state, stop, wire>>

\* Every attempt was overtaken: the retry is scheduled in a block of its own.
GiveUp(t) ==
  /\ pc[t] = "giveup"
  /\ IF Mine(t) THEN Schedule(t) ELSE Return(t)
  /\ UNCHANGED <<state, stop, wire>>

------------------------------------------------------------------------------
\* The retry timer.

Fire(t) ==
  /\ t \in Timer /\ pc[t] = "armed"
  /\ pc' = [pc EXCEPT ![t] = "publish"]
  /\ UNCHANGED <<state, stop, wire, retry, gen, seen, attempt>>

\* The finally block of the timer: it stops standing for retries.
Cleanup(t) ==
  /\ t \in Timer /\ pc[t] = "cleanup"
  /\ timer' = IF timer = t THEN None ELSE timer
  /\ pc' = [pc EXCEPT ![t] = "off"]
  /\ UNCHANGED <<state, stop, wire, timerGen, lost, gen, seen, attempt>>

Publish(t) == Prepare(t) \/ Write(t) \/ Overtaken(t) \/ GiveUp(t)

Next ==
  \/ Save \/ QuietEnds \/ Resync \/ Warm \/ Initialize
  \/ StopBegins \/ StopLocks \/ StopCancels
  \/ \E w \in Worker : Start(w) \/ Adopt(w) \/ Superseded(w)
  \/ \E t \in Thread : Publish(t)
  \/ \E t \in Timer : Fire(t) \/ Cleanup(t)

Spec == Init /\ [][Next]_vars

\* Threads are scheduled and the idle window ends; saves, resyncs, adoptions
\* and the stop are not owed.
FairSpec ==
  /\ Spec
  /\ WF_vars(QuietEnds)
  /\ \A t \in Thread : WF_vars(Publish(t))
  /\ \A t \in Timer : WF_vars(Fire(t)) /\ WF_vars(Cleanup(t))

------------------------------------------------------------------------------
\* A background thread adopted a table that no frame holds yet.
Owed == adopted > sent /\ ~stopping

\* No publication rolls back a completed save: a frame that was encoded while
\* a save was committed is never written.
SavesAreKept == [][base' # base => sent' >= saved]_vars

\* A stopping daemon publishes nothing that its threads have prepared or deferred:
\* no timer is armed, only a warm-up that was already under way may write, in the
\* block that changes the table, and nobody once the stop has taken the lock.
StoppedIsSilent ==
  [][/\ stopping => \A t \in Timer : pc'[t] = "armed" => pc[t] = "armed"
     /\ stopping /\ base' # base => version' # version
     /\ retired => base' = base]_vars

\* Every table a background thread adopted is published, as the retry across
\* edit bursts is there for.
AdoptionsArePublished == Owed ~> ~Owed

\* It is, unless the retry was coalesced into a timer that had looked for the
\* last time and was only waiting to unregister itself.
PublishedUnlessLost == Owed /\ ~lost ~> ~Owed \/ lost
==============================================================================
