----------------------- MODULE SurfacePublicationProofs -----------------------
(***************************************************************************)
(* No frame rolls back a save, and a stopping daemon is silent, for any    *)
(* number of threads, timers, attempts and versions.                       *)
(*                                                                         *)
(* The argument: a save and a refresh take a new serial, so a table that   *)
(* was captured at the present serial holds every save (Captures).         *)
(***************************************************************************)
EXTENDS SurfacePublication, TLAPS

Seen == [serial : Nat, base : Nat, version : Nat]

\* The steps of a thread.
Steps == {"idle", "working", "publish", "encode", "giveup", "off", "armed", "cleanup"}

Counters == serial \in Nat /\ version \in Nat /\ saved \in Nat /\ base \in Nat /\ saved <= version

Threads == seen \in [Thread -> Seen] /\ pc \in [Thread -> Steps]

Captures ==
  \A t \in Thread : pc[t] = "encode" =>
    /\ seen[t].serial <= serial
    /\ seen[t].serial = serial => seen[t].version >= saved

IInv == Counters /\ Threads /\ Captures

-----------------------------------------------------------------------------
\* The invariant.

LEMMA NothingIsSeen == Nothing \in Seen
BY DEF Nothing, Seen

LEMMA WorkersAndTimers == Worker \subseteq Thread /\ Timer \subseteq Thread
BY DEF Thread

LEMMA InitInvariant == Init => IInv
BY NothingIsSeen DEF Init, IInv, Counters, Threads, Captures, Steps

\* Whoever leaves its captures alone, or forgets them, keeps them sound.
LEMMA CapturesAreKept ==
  ASSUME IInv, Counters', Threads',
         serial <= serial', saved' = saved \/ serial < serial',
         \A t \in Thread : pc'[t] = "encode" => pc[t] = "encode" /\ seen'[t] = seen[t]
  PROVE  IInv'
<1> SUFFICES ASSUME NEW t \in Thread, pc'[t] = "encode"
             PROVE  /\ seen'[t].serial <= serial'
                    /\ seen'[t].serial = serial' => seen'[t].version >= saved'
  BY DEF IInv, Captures
<1>1. seen'[t] = seen[t] /\ seen[t].serial <= serial
  BY DEF IInv, Captures
<1>2. seen[t].serial \in Nat /\ serial \in Nat /\ serial' \in Nat
  BY DEF IInv, Threads, Counters, Seen
<1>3. seen[t].serial <= serial'
  BY <1>1, <1>2
<1>4. ASSUME seen[t].serial = serial' PROVE seen[t].version >= saved'
  <2>1. saved' = saved /\ seen[t].serial = serial
    BY <1>1, <1>2, <1>4
  <2> QED
    BY <2>1 DEF IInv, Captures
<1> QED
  BY <1>1, <1>3, <1>4

\* The writers of the table touch no thread but a timer that is cancelled.
LEMMA WriterStep ==
  ASSUME IInv, Save \/ QuietEnds \/ Resync \/ Warm \/ Initialize
               \/ StopBegins \/ StopLocks \/ StopCancels
  PROVE  IInv'
<1> USE DEF IInv, Counters, Threads, Steps
<1>1. CASE Save \/ QuietEnds \/ Resync \/ Warm \/ Initialize \/ StopBegins \/ StopLocks
  <2>1. UNCHANGED thread /\ Counters' /\ serial <= serial' /\ (saved' = saved \/ serial < serial')
    BY <1>1 DEF Save, QuietEnds, Resync, Warm, Initialize, StopBegins, StopLocks, WriteNow,
                wire, state
  <2> QED
    BY <2>1, CapturesAreKept DEF thread
<1>2. CASE StopCancels
  <2>1. UNCHANGED <<serial, saved, seen>> /\ Counters'
    BY <1>2 DEF StopCancels, state, wire
  <2>2. pc' \in [Thread -> Steps] /\ \A t \in Thread : pc'[t] = "encode" => pc[t] = "encode"
    BY <1>2 DEF StopCancels, Cancelled
  <2> QED
    BY <2>1, <2>2, CapturesAreKept
<1> QED
  BY <1>1, <1>2

\* What a publication does when it returns or asks for a retry.
LEMMA ReturnStep ==
  ASSUME IInv, NEW t \in Thread, UNCHANGED state, Counters', Return(t) \/ Schedule(t)
  PROVE  IInv'
<1> USE DEF IInv, Counters, Threads, Steps
<1>1. seen' \in [Thread -> Seen] /\ \A u \in Thread : u # t => seen'[u] = seen[u]
  BY NothingIsSeen DEF Return, Schedule, Forget
<1>2. pc' \in [Thread -> Steps]
  BY DEF Return, Schedule, Returned, Cancelled
<1>3. \A u \in Thread : pc'[u] = "encode" => u # t /\ pc[u] = "encode"
  BY DEF Return, Schedule, Returned, Cancelled
<1>4. serial' = serial /\ saved' = saved
  BY DEF state
<1> QED
  BY <1>1, <1>2, <1>3, <1>4, CapturesAreKept

LEMMA WorkerStep ==
  ASSUME IInv, NEW w \in Worker, Start(w) \/ Adopt(w) \/ Superseded(w)
  PROVE  IInv'
<1> USE WorkersAndTimers, NothingIsSeen DEF IInv, Counters, Threads, Steps
<1>1. seen' \in [Thread -> Seen]
  <2>1. [Nothing EXCEPT !.serial = serial] \in Seen
    BY DEF Nothing, Seen
  <2> QED
    BY <2>1 DEF Start, Adopt, Superseded
<1>2. Counters' /\ serial <= serial' /\ saved' = saved
  BY DEF Start, Adopt, Superseded, state, wire
<1>3. pc' \in [Thread -> Steps]
  BY DEF Start, Adopt, Superseded
<1>4. \A t \in Thread : pc'[t] = "encode" => pc[t] = "encode" /\ seen'[t] = seen[t]
  BY DEF Start, Adopt, Superseded
<1> QED
  BY <1>1, <1>2, <1>3, <1>4, CapturesAreKept

LEMMA PublishStep ==
  ASSUME IInv, NEW t \in Thread, Publish(t)
  PROVE  IInv'
<1> USE NothingIsSeen DEF IInv, Counters, Threads, Steps
<1>1. CASE Prepare(t)
  <2>1. CASE Return(t) \/ Schedule(t)
    BY <1>1, <2>1, ReturnStep DEF Prepare, state, wire
  <2>2. CASE /\ pc' = [pc EXCEPT ![t] = "encode"]
             /\ seen' = [seen EXCEPT ![t] = [serial |-> serial, base |-> base, version |-> version]]
    <3>1. UNCHANGED <<serial, saved, version, base>>
      BY <1>1 DEF Prepare, state, wire
    <3>2. Counters' /\ Threads'
      BY <2>2, <3>1 DEF Seen
    <3>3. ASSUME NEW u \in Thread, pc'[u] = "encode"
          PROVE  /\ seen'[u].serial <= serial'
                 /\ seen'[u].serial = serial' => seen'[u].version >= saved'
      <4>1. CASE u = t
        BY <2>2, <3>1, <4>1
      <4>2. CASE u # t
        BY <2>2, <3>1, <3>3, <4>2 DEF Captures
      <4> QED
        BY <4>1, <4>2
    <3> QED
      BY <3>2, <3>3 DEF Captures
  <2> QED
    BY <1>1, <2>1, <2>2 DEF Prepare
<1>2. CASE Write(t)
  <2>1. Counters' /\ UNCHANGED state
    BY <1>2 DEF Write, WriteNow, state
  <2> QED
    BY <1>2, <2>1, ReturnStep DEF Write
<1>3. CASE Overtaken(t)
  <2>1. Counters' /\ UNCHANGED state
    BY <1>3 DEF Overtaken, state, wire
  <2>2. CASE Return(t)
    BY <2>1, <2>2, ReturnStep
  <2>3. CASE /\ seen' = [seen EXCEPT ![t] = Nothing]
             /\ pc' \in {[pc EXCEPT ![t] = "publish"], [pc EXCEPT ![t] = "giveup"]}
    BY <2>1, <2>3, CapturesAreKept DEF state
  <2> QED
    BY <1>3, <2>2, <2>3 DEF Overtaken
<1>4. CASE GiveUp(t)
  BY <1>4, ReturnStep DEF GiveUp, state, wire
<1> QED
  BY <1>1, <1>2, <1>3, <1>4 DEF Publish

LEMMA TimerStep ==
  ASSUME IInv, NEW t \in Timer, Fire(t) \/ Cleanup(t)
  PROVE  IInv'
<1> USE DEF IInv, Counters, Threads, Steps
<1>1. UNCHANGED <<serial, version, saved, base, seen>>
  BY DEF Fire, Cleanup, state, wire
<1>2. pc' \in [Thread -> Steps] /\ \A u \in Thread : pc'[u] = "encode" => pc[u] = "encode"
  BY WorkersAndTimers DEF Fire, Cleanup
<1> QED
  BY <1>1, <1>2, CapturesAreKept

LEMMA StepInvariant == IInv /\ [Next]_vars => IInv'
<1> SUFFICES ASSUME IInv, [Next]_vars PROVE IInv'
  OBVIOUS
<1>1. CASE UNCHANGED vars
  BY <1>1 DEF IInv, Counters, Threads, Captures, vars, state, wire, thread
<1>2. CASE \/ Save \/ QuietEnds \/ Resync \/ Warm \/ Initialize
           \/ StopBegins \/ StopLocks \/ StopCancels
  BY <1>2, WriterStep
<1>3. ASSUME NEW w \in Worker, Start(w) \/ Adopt(w) \/ Superseded(w) PROVE IInv'
  BY <1>3, WorkerStep
<1>4. ASSUME NEW t \in Thread, Publish(t) PROVE IInv'
  BY <1>4, PublishStep
<1>5. ASSUME NEW t \in Timer, Fire(t) \/ Cleanup(t) PROVE IInv'
  BY <1>5, TimerStep
<1> QED
  BY <1>1, <1>2, <1>3, <1>4, <1>5 DEF Next

\* Every thread keeps to its steps and what it captured at the present serial
\* holds every save (_publish_current_surface_snapshot).
THEOREM InvariantHolds == Spec => []IInv
BY InitInvariant, StepInvariant, PTL DEF Spec

-----------------------------------------------------------------------------
\* The properties.

\* No publication rolls back a completed save, however many threads encode
\* while files are saved (_publish_current_surface_snapshot).
THEOREM SavesSurvive == Spec => SavesAreKept
<1>1. ASSUME IInv, [Next]_vars PROVE [base' # base => sent' >= saved]_vars
  <2> SUFFICES ASSUME base' # base, Next PROVE sent' >= saved
    BY <1>1 DEF vars, wire
  <2> USE <1>1 DEF IInv, Counters
  <2>1. CASE Resync \/ Warm \/ Initialize
    BY <2>1 DEF Resync, Warm, Initialize, WriteNow
  <2>2. ASSUME NEW t \in Thread, Write(t) PROVE sent' >= saved
    BY <2>2 DEF Write, WriteNow, Fresh, Captures
  <2>3. CASE Save \/ QuietEnds \/ StopBegins \/ StopLocks \/ StopCancels
    BY <2>3 DEF Save, QuietEnds, StopBegins, StopLocks, StopCancels, wire
  <2>4. ASSUME NEW w \in Worker, Start(w) \/ Adopt(w) \/ Superseded(w) PROVE FALSE
    BY <2>4 DEF Start, Adopt, Superseded, wire
  <2>5. ASSUME NEW t \in Thread, Prepare(t) \/ Overtaken(t) \/ GiveUp(t) PROVE FALSE
    BY <2>5 DEF Prepare, Overtaken, GiveUp, wire
  <2>6. ASSUME NEW t \in Timer, Fire(t) \/ Cleanup(t) PROVE FALSE
    BY <2>6 DEF Fire, Cleanup, wire
  <2> QED
    BY <2>1, <2>2, <2>3, <2>4, <2>5, <2>6 DEF Next, Publish
<1> QED
  BY <1>1, InvariantHolds, PTL DEF Spec, SavesAreKept

\* A stopping daemon arms no timer and publishes nothing that was prepared or
\* deferred, though threads are still encoding; once the stop has the lock it writes
\* nothing at all (run_stdio, _publish_current_surface_snapshot).
THEOREM NothingAfterTheStop == Spec => StoppedIsSilent
<1> DEFINE Unarmed == \A t \in Timer : pc'[t] = "armed" => pc[t] = "armed"
           Silent == /\ stopping => Unarmed
                     /\ stopping /\ base' # base => version' # version
                     /\ retired => base' = base
           Stopped == retired => stopping
<1>1. Init => Stopped
  BY DEF Init
<1>2. ASSUME Stopped, [Next]_vars PROVE Stopped'
  <2> USE <1>2
  <2>1. CASE UNCHANGED vars
    BY <2>1 DEF vars, state, stop
  <2>2. CASE \/ Save \/ QuietEnds \/ Resync \/ Warm \/ Initialize
             \/ StopBegins \/ StopLocks \/ StopCancels
    BY <2>2 DEF Save, QuietEnds, Resync, Warm, Initialize, StopBegins, StopLocks, StopCancels,
                state, stop
  <2>3. ASSUME NEW w \in Worker, Start(w) \/ Adopt(w) \/ Superseded(w) PROVE Stopped'
    BY <2>3 DEF Start, Adopt, Superseded, state, stop
  <2>4. ASSUME NEW t \in Thread, Publish(t) PROVE Stopped'
    BY <2>4 DEF Publish, Prepare, Write, Overtaken, GiveUp, state, stop
  <2>5. ASSUME NEW t \in Timer, Fire(t) \/ Cleanup(t) PROVE Stopped'
    BY <2>5 DEF Fire, Cleanup, state, stop
  <2> QED
    BY <2>1, <2>2, <2>3, <2>4, <2>5 DEF Next
<1>3. ASSUME IInv, Stopped, [Next]_vars PROVE [Silent]_vars
  <2> SUFFICES ASSUME stopping, Next PROVE Silent
    BY <1>3 DEF vars
  <2> USE <1>3, WorkersAndTimers DEF IInv, Threads
  <2>1. CASE Save \/ QuietEnds \/ Resync \/ Initialize \/ StopBegins \/ StopLocks
    BY <2>1 DEF Save, QuietEnds, Resync, Initialize, StopBegins, StopLocks, wire, thread
  <2>2. CASE Warm
    <3>1. version' = version + 1 /\ ~retired /\ pc' = pc
      BY <2>2 DEF Warm, thread
    <3>2. version \in Nat
      BY DEF Counters
    <3> QED
      BY <3>1, <3>2
  <2>3. CASE StopCancels
    BY <2>3 DEF StopCancels, Cancelled, wire
  <2>4. ASSUME NEW w \in Worker, Start(w) \/ Adopt(w) \/ Superseded(w) PROVE Silent
    BY <2>4 DEF Start, Adopt, Superseded, Mine, wire
  <2>5. ASSUME NEW t \in Thread, Publish(t) PROVE Silent
    <3>1. ~Mine(t)
      BY DEF Mine
    <3>2. UNCHANGED base /\ (Prepare(t) \/ Overtaken(t) \/ GiveUp(t))
      BY <2>5, <3>1 DEF Publish, Prepare, Write, Overtaken, GiveUp, wire
    <3>3. Return(t)
      BY <3>1, <3>2 DEF Prepare, Overtaken, GiveUp
    <3>4. pc' = [pc EXCEPT ![t] = Returned(t)] /\ Returned(t) # "armed"
      BY <3>3 DEF Return, Returned
    <3> QED
      BY <3>2, <3>4
  <2>6. ASSUME NEW t \in Timer, Fire(t) \/ Cleanup(t) PROVE Silent
    BY <2>6 DEF Fire, Cleanup, wire
  <2> QED
    BY <2>1, <2>2, <2>3, <2>4, <2>5, <2>6 DEF Next
<1> QED
  BY <1>1, <1>2, <1>3, InvariantHolds, PTL DEF Spec, StoppedIsSilent

===============================================================================
