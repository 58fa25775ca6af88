--------------------------- MODULE StateGeneration ---------------------------
(***************************************************************************)
(* The analysis state of the Python daemon (DaemonServer in server/app.py) *)
(* and the threads that replace it.                                        *)
(*                                                                         *)
(* The main thread initializes and reindexes saved files; a warm-up thread *)
(* imports the user's project; a background load builds the surface; a     *)
(* refresh captures the runtime's members after saves.  Each computes      *)
(* without _state_lock and commits under it.  One action is one block of   *)
(* that lock, with the blocks that touch the same state and cannot differ  *)
(* joined.  A row (of a graph or surface) is the revision of its model's   *)
(* source and the runtime it was computed with.  Caches on disk, delays    *)
(* and the daemon's stop are left out (SurfacePublication has the stop).   *)
(***************************************************************************)
EXTENDS Naturals, FiniteSets, TLC

CONSTANTS
  Label,     \* models, each in a source file of its own
  None,      \* no state, no row, no thread
  Attempts,  \* _REINDEX_COMMIT_ATTEMPTS and _WARMUP_APPLY_ATTEMPTS
  MaxEdit,   \* bound: edits of a file
  MaxGen     \* bound: initialize requests

ASSUME StateBounds ==
  /\ Attempts \in Nat \ {0} /\ MaxEdit \in Nat /\ MaxGen \in Nat

VARIABLES
  disk,       \* the revision of every source file
  queue,      \* saved files whose reindex request was not read yet
  gen,        \* _state_generation
  st,         \* static index, runtime, graph and surface; None before the first
  serial,     \* _reindex_serial
  stamp,      \* _reindexed_labels
  dirty,      \* _source_snapshot_dirty
  main,       \* the request the main thread handles
  warm,       \* the warm-up of every generation
  retry,      \* _fresh_runtime_retry: its generation, or 0
  idle,       \* _surface_load_idle_timer: its generation, or 0
  attempted,  \* _surface_load_attempted_generation, or 0
  load,       \* _surface_prebuild_future
  rpending,   \* _runtime_member_refresh_pending
  rtimer,     \* _runtime_member_refresh_timer is armed for the current token
  refresh,    \* _runtime_member_refresh_thread; live while it has the current token
  owner,      \* history: the generation st was made by
  mixed,      \* history: a load read the state of one generation under another
  lost        \* history: in this generation a thread raised, a warm-up met sources no
              \* request had announced, a load was not scheduled or its surface cleared

source  == <<disk, queue>>
members == <<rpending, rtimer, refresh>>
loading == <<idle, attempted, load>>
warming == <<warm, retry>>
history == <<owner, mixed, lost>>
vars == <<source, gen, st, serial, stamp, dirty, main, warming, loading, members, history>>

Rows(idx, rt) == [l \in Label |-> <<idx[l], rt>>]
Empty == [l \in Label |-> None]
Complete(surf) == \A l \in Label : surf[l] # None

Off == [step |-> "off"]
Idle == [step |-> "idle"]

Init ==
  /\ disk = [l \in Label |-> 1] /\ queue = {}
  /\ gen = 0 /\ st = None /\ serial = 0 /\ stamp = [l \in Label |-> 0] /\ dirty = FALSE
  /\ main = Idle /\ warm = [g \in 1..MaxGen |-> Off] /\ retry = 0
  /\ idle = 0 /\ attempted = 0 /\ load = None
  /\ rpending = FALSE /\ rtimer = FALSE /\ refresh = None
  /\ owner = 0 /\ mixed = FALSE /\ lost = FALSE

\* The user saves a file; the client asks to reindex it.
Edit(l) ==
  /\ disk[l] <= MaxEdit
  /\ disk' = [disk EXCEPT ![l] = @ + 1] /\ queue' = queue \cup {l}
  /\ UNCHANGED <<gen, st, serial, stamp, dirty, main, warming, loading, members, history>>

------------------------------------------------------------------------------
\* The refresh of runtime members.

Dead(r) == IF r = None THEN None ELSE [live |-> FALSE, seen |-> FALSE]

\* _schedule_runtime_member_refresh, over the state s; arming the timer of a token
\* twice leaves one timer.
ScheduleRefresh(s) ==
  IF s # None /\ s.rt = "ready"
  THEN rpending' = TRUE /\ rtimer' = TRUE /\ refresh' = Dead(refresh)
  ELSE UNCHANGED members

CancelRefresh == rpending' = FALSE /\ rtimer' = FALSE /\ refresh' = Dead(refresh)

\* _start_runtime_member_refresh; a refresh under way re-arms the timer when it ends.
RefreshFires ==
  /\ rtimer
  /\ IF rpending /\ refresh = None
     THEN /\ refresh' = [live |-> TRUE, gen |-> gen, serial |-> serial, st |-> st, seen |-> FALSE]
          /\ rpending' = FALSE
     ELSE UNCHANGED <<rpending, refresh>>
  /\ rtimer' = FALSE
  /\ UNCHANGED <<source, gen, st, serial, stamp, dirty, main, warming, loading, history>>

\* current() of _refresh_runtime_members.
StillOwner(r) ==
  /\ r.live /\ r.gen = gen /\ r.serial = serial
  /\ r.st.idx = st.idx /\ r.st.rt = st.rt /\ r.st.graph = st.graph

RefreshEnds == refresh' = None /\ rtimer' = (rtimer \/ rpending) /\ UNCHANGED rpending

\* The sources are those of the index before and after the capture in a process.
RefreshCaptures ==
  /\ refresh # None /\ ~refresh.seen
  /\ IF StillOwner(refresh) /\ disk = refresh.st.idx
     THEN refresh' = [refresh EXCEPT !.seen = TRUE] /\ UNCHANGED <<rpending, rtimer>>
     ELSE RefreshEnds
  /\ UNCHANGED <<source, gen, st, serial, stamp, dirty, main, warming, loading, history>>

\* The capture returns nothing or raises; the next save refreshes again.
RefreshFails ==
  /\ refresh # None /\ StillOwner(refresh)
  /\ RefreshEnds
  /\ lost' = TRUE
  /\ UNCHANGED <<source, gen, st, serial, stamp, dirty, main, warming, loading, owner, mixed>>

RefreshAdopts ==
  /\ refresh # None /\ refresh.seen
  /\ IF StillOwner(refresh) /\ disk = refresh.st.idx
     THEN /\ st' = [st EXCEPT !.surf = Rows(refresh.st.idx, refresh.st.rt)]
          /\ serial' = serial + 1 /\ stamp' = [l \in Label |-> serial + 1]
     ELSE UNCHANGED <<st, serial, stamp>>
  /\ RefreshEnds
  /\ UNCHANGED <<source, gen, dirty, main, warming, loading, history>>

------------------------------------------------------------------------------
\* The background load of the surface.

\* _schedule_surface_index_idle_load, called with a generation's number.
Crossed(b) == b.owner # b.gen
Blocked ==
  attempted # gen /\ (idle \notin {0, gen} \/ (load # None /\ (load.gen # gen \/ Crossed(load))))
Schedulable == attempted # gen /\ load = None /\ idle = 0
ScheduleLoad(g) ==
  /\ idle' = IF g = gen /\ Schedulable THEN g ELSE idle
  /\ lost' = (lost \/ (g = gen /\ Blocked))
  /\ UNCHANGED <<attempted, load>>

\* _start_surface_index_prebuild_for_current_state.  A ready runtime's members are
\* captured with the surface, and then nothing may have changed (strict).
StartLoad ==
  load' = IF st = None \/ st.rt = "pending" \/ attempted = gen \/ load # None THEN load
          ELSE [step |-> "build", gen |-> gen, idx |-> st.idx, rt |-> st.rt, graph |-> st.graph,
                serial |-> serial, strict |-> st.rt = "ready" /\ ~dirty, owner |-> owner]

IdleFires ==
  /\ idle # 0
  /\ idle' = 0
  /\ IF idle = gen THEN StartLoad ELSE UNCHANGED load
  /\ UNCHANGED <<source, gen, st, serial, stamp, dirty, main, warming, attempted, members, history>>

\* A completion asks for members, on the main thread or the background one.
OnDemand ==
  /\ st # None /\ st.rt # "pending" /\ attempted # gen /\ load = None
  /\ StartLoad /\ idle' = 0
  /\ UNCHANGED <<source, gen, st, serial, stamp, dirty, main, warming, attempted, members, history>>

Superseded(b) ==
  \/ b.gen # gen
  \/ b.strict /\ (b.idx # st.idx \/ b.rt # st.rt \/ b.graph # st.graph \/ b.serial # serial)

\* _commit_loaded_surface_index: models reindexed since the load began keep their row.
Stale(b, l) == stamp[l] > b.serial
OverlaidNever(b) == Rows(b.idx, b.rt)   \* faulty: the loaded surface replaces saves
Overlaid(b) ==
  [l \in Label |-> IF ~Stale(b, l) THEN <<b.idx[l], b.rt>>
                   ELSE IF st.surf[l] # None THEN st.surf[l] ELSE <<st.idx[l], st.rt>>]

\* Captured members are adopted with the sources they were captured from; between
\* _reserve_state_generation and _apply_state those are unknown.
Unverified(b) == b.strict /\ (Crossed(b) \/ disk # b.idx)

LoadAdopts ==
  /\ load # None /\ load.step = "build"
  /\ load' = [step |-> "done", gen |-> load.gen, owner |-> load.owner]
  /\ IF Superseded(load) \/ Unverified(load)
     THEN UNCHANGED <<st, attempted, mixed>>
     ELSE /\ st' = [st EXCEPT !.surf = Overlaid(load)]
          /\ attempted' = gen
          /\ mixed' = (mixed \/ Crossed(load))
  /\ UNCHANGED <<source, gen, serial, stamp, dirty, main, warming, idle, members, owner, lost>>

\* The cache, the project's imports or a worker process raises, or the worker was
\* cancelled: it is logged, the slot is cleared, and nothing loads again by itself.
LoadFails ==
  /\ load # None /\ load.step = "build" /\ ~Superseded(load)
  /\ load' = None
  /\ lost' = TRUE
  /\ UNCHANGED <<source, gen, st, serial, stamp, dirty, main, warming, idle, attempted, members,
                 owner, mixed>>

LoadEnds ==
  /\ load # None /\ load.step = "done" /\ load' = None
  /\ UNCHANGED <<source, gen, st, serial, stamp, dirty, main, warming, idle, attempted, members, history>>

------------------------------------------------------------------------------
\* initialize, on the main thread.

StartInit ==
  /\ main = Idle /\ gen < MaxGen
  /\ main' = [step |-> "reserving"] /\ idle' = 0 /\ attempted' = 0
  /\ UNCHANGED <<source, gen, st, serial, stamp, dirty, warming, load, members, history>>

\* _reserve_state_generation; the sources are read, the runtime is deferred, read
\* from a cache (maybe with the surface) or failed.
Reserve ==
  /\ main.step = "reserving"
  /\ gen' = gen + 1 /\ CancelRefresh /\ retry' = 0
  /\ \E rt \in {"pending", "ready", "failed"}, hit \in BOOLEAN :
       /\ hit => rt = "ready"
       /\ main' = [step |-> "init", snap |-> disk, rt |-> rt, hit |-> hit]
  /\ lost' = FALSE
  /\ UNCHANGED <<source, st, serial, stamp, dirty, warm, loading, owner, mixed>>

Fresh(snap, rt, hit) ==
  [idx |-> snap, rt |-> rt, graph |-> Rows(snap, rt), surf |-> IF hit THEN Rows(snap, rt) ELSE Empty]

InitApplies ==
  /\ main.step = "init" /\ disk = main.snap
  /\ st' = Fresh(main.snap, main.rt, main.hit) /\ owner' = gen /\ dirty' = FALSE
  /\ attempted' = IF main.hit THEN gen ELSE attempted
  /\ main' = [main EXCEPT !.step = "finish"]
  /\ UNCHANGED <<source, gen, serial, stamp, warming, idle, load, members, mixed, lost>>

\* The sources changed meanwhile: it starts over or gives up.
InitMeetsEdit ==
  /\ main.step = "init" /\ disk # main.snap
  /\ main' \in {[main EXCEPT !.snap = disk, !.hit = FALSE], Idle}
  /\ UNCHANGED <<source, gen, st, serial, stamp, dirty, warming, loading, members, history>>

\* The load and the refresh are scheduled, or the runtime is warmed up.  A second
\* initialize imports the project in a process of its own (FreshPath).
FreshPath(g) == g > 1
InitFinishes ==
  /\ main.step = "finish"
  /\ IF main.rt # "pending" /\ ~main.hit THEN ScheduleLoad(gen)
                                        ELSE UNCHANGED <<loading, lost>>
  /\ IF gen > 1 THEN ScheduleRefresh(st) ELSE UNCHANGED members
  /\ warm' = IF main.rt # "pending" THEN warm
             ELSE [warm EXCEPT ![gen] = IF FreshPath(gen) THEN [step |-> "loop", att |-> 1]
                                                         ELSE [step |-> "import"]]
  /\ main' = Idle
  /\ UNCHANGED <<source, gen, st, serial, stamp, dirty, retry, owner, mixed>>

------------------------------------------------------------------------------
\* reindexFile, on the main thread.

SaveRead(l, att) ==
  [step |-> "save", label |-> l, att |-> att, gen |-> gen, base |-> st, rev |-> disk[l]]

StartSave(l) ==
  /\ main = Idle /\ st # None /\ l \in queue
  /\ queue' = queue \ {l} /\ main' = SaveRead(l, 1)
  /\ UNCHANGED <<disk, gen, st, serial, stamp, dirty, warming, loading, members, history>>

\* _commit_reindex of what was computed from the state s; the runtime is not its.
Saved(s, l, rev) ==
  IF rev = s.idx[l] THEN [st EXCEPT !.idx = s.idx]
  ELSE [idx |-> [s.idx EXCEPT ![l] = rev], rt |-> st.rt,
        graph |-> [s.graph EXCEPT ![l] = <<rev, s.rt>>],
        surf |-> [s.surf EXCEPT ![l] = <<rev, s.rt>>]]

CommitSave(s, l, rev) ==
  /\ st' = Saved(s, l, rev)
  /\ serial' = serial + 1 /\ dirty' = TRUE
  /\ stamp' = IF rev = s.idx[l] THEN stamp ELSE [stamp EXCEPT ![l] = serial + 1]
  /\ main' = [step |-> "saved"]

\* Nothing replaced the state since it was read; the last attempt reads it again
\* and commits under the lock.
UnreplacedIndex(m) == m.gen = gen /\ m.base.idx = st.idx  \* faulty: the runtime may have changed
Unreplaced(m) == m.gen = gen /\ m.base = st
SaveCommits ==
  /\ main.step = "save"
  /\ \/ Unreplaced(main) /\ CommitSave(main.base, main.label, main.rev)
     \/ /\ ~Unreplaced(main) /\ main.att + 1 < Attempts
        /\ main' = SaveRead(main.label, main.att + 1)
        /\ UNCHANGED <<st, serial, dirty, stamp>>
     \/ ~Unreplaced(main) /\ main.att + 1 >= Attempts /\ CommitSave(st, main.label, disk[main.label])
  /\ UNCHANGED <<source, gen, warming, loading, members, history>>

SaveEnds ==
  /\ main.step = "saved"
  /\ main' = Idle /\ ScheduleRefresh(st)
  /\ UNCHANGED <<source, gen, st, serial, stamp, dirty, warming, loading, history>>

------------------------------------------------------------------------------
\* The warm-up of the first initialize (_warm_runtime_state).

WarmOff(g) == warm' = [warm EXCEPT ![g] = Off]

\* The project is imported, and the current index read.
WarmReads(g) ==
  /\ warm[g].step = "import"
  /\ IF gen # g THEN WarmOff(g)
     ELSE \E rt \in {"ready", "failed"} :
            warm' = [warm EXCEPT ![g] = [step |-> "build", rt |-> rt, idx |-> st.idx, att |-> 1]]
  /\ UNCHANGED <<source, gen, st, serial, stamp, dirty, main, retry, loading, members, history>>

\* The index the graph was built from; under the lock in the last attempt.
WarmIndexAsRead(w) == w.idx             \* faulty: the last attempt does not read it again
WarmIndex(w) == st.idx

\* _apply_state and _publish_warmed_runtime_state, which drops the surface.
WarmApplies(g) ==
  /\ warm[g].step = "build"
  /\ LET w == warm[g] IN
     \/ gen # g /\ WarmOff(g) /\ UNCHANGED st
     \/ /\ gen = g /\ st.idx # w.idx /\ w.att < Attempts
        /\ warm' = [warm EXCEPT ![g] = [w EXCEPT !.idx = st.idx, !.att = @ + 1]] /\ UNCHANGED st
     \/ /\ gen = g /\ (st.idx = w.idx \/ w.att = Attempts)
        /\ st' = Fresh(WarmIndex(w), w.rt, FALSE)
        /\ warm' = [warm EXCEPT ![g] = [step |-> "warmed", dirty |-> dirty]]
  /\ UNCHANGED <<source, gen, serial, stamp, dirty, main, retry, loading, members, history>>

WarmFinishes(g) ==
  /\ warm[g].step = "warmed"
  /\ ScheduleLoad(g)
  /\ IF warm[g].dirty THEN ScheduleRefresh(st) ELSE UNCHANGED members
  /\ WarmOff(g)
  /\ UNCHANGED <<source, gen, st, serial, stamp, dirty, main, retry, owner, mixed>>

------------------------------------------------------------------------------
\* The warm-up of a later initialize (_warm_fresh_configuration_runtime).

\* A superseded attempt is repeated; after the last one a timer repeats them all.
RepeatNever(g) == WarmOff(g) /\ UNCHANGED retry   \* faulty: it ends
Repeat(g) ==
  IF warm[g].att < Attempts
  THEN warm' = [warm EXCEPT ![g] = [step |-> "loop", att |-> @.att + 1]] /\ UNCHANGED retry
  ELSE WarmOff(g) /\ retry' = IF gen = g /\ st.rt = "pending" THEN g ELSE retry

FreshReads(g) ==
  /\ warm[g].step = "loop"
  /\ IF gen # g THEN WarmOff(g)
     ELSE warm' = [warm EXCEPT ![g] = [step |-> "inspect", att |-> @.att, serial |-> serial, snap |-> disk]]
  /\ UNCHANGED <<source, gen, st, serial, stamp, dirty, main, retry, loading, members, history>>

\* The sources changed before the import: they are read again.
FreshRereads(g) ==
  /\ warm[g].step = "inspect" /\ gen = g /\ warm[g].serial = serial /\ disk # warm[g].snap
  /\ warm' = [warm EXCEPT ![g].snap = disk]
  /\ UNCHANGED <<source, gen, st, serial, stamp, dirty, main, retry, loading, members, history>>

\* The import is over.  Changed sources raise, and the warm-up ends.
FreshVerifies(g) ==
  /\ warm[g].step = "inspect"
  /\ IF gen # g \/ warm[g].serial # serial
     THEN Repeat(g) /\ UNCHANGED lost
     ELSE /\ IF disk # warm[g].snap
             THEN WarmOff(g) /\ lost' = TRUE
             ELSE /\ \E rt \in {"ready", "failed"} :
                       warm' = [warm EXCEPT ![g] = [step |-> "verified", rt |-> rt, att |-> @.att,
                                                    serial |-> @.serial, snap |-> @.snap]]
                  /\ UNCHANGED lost
          /\ UNCHANGED retry
  /\ UNCHANGED <<source, gen, st, serial, stamp, dirty, main, loading, members, owner, mixed>>

FreshCurrent(g) == gen = g /\ warm[g].serial = serial
FreshApplies(g) ==
  /\ warm[g].step = "verified"
  /\ IF FreshCurrent(g)
     THEN /\ st' = Fresh(warm[g].snap, warm[g].rt, FALSE) /\ owner' = gen /\ dirty' = FALSE
          /\ warm' = [warm EXCEPT ![g].step = "applied"] /\ UNCHANGED retry
     ELSE Repeat(g) /\ UNCHANGED <<st, owner, dirty>>
  /\ UNCHANGED <<source, gen, serial, stamp, main, loading, members, mixed, lost>>

\* The caches are written, then the load and the refresh are scheduled.
FreshSchedules(g) ==
  /\ warm[g].step = "applied"
  /\ ScheduleLoad(g)
  /\ ScheduleRefresh(st)
  /\ warm' = [warm EXCEPT ![g].step = "announce"]
  /\ UNCHANGED <<source, gen, st, serial, stamp, dirty, main, retry, owner, mixed>>

\* _publish_warmed_runtime_state drops the surface, whoever loaded it.  A commit
\* meanwhile replaced the state, or (unchanged models) did not.
FreshPublishes(g) ==
  /\ warm[g].step = "announce"
  /\ \/ /\ gen = g /\ st.idx = warm[g].snap /\ st.rt = warm[g].rt
        /\ st' = [st EXCEPT !.surf = Empty] /\ lost' = (lost \/ st.surf # Empty)
     \/ (gen # g \/ serial # warm[g].serial) /\ UNCHANGED <<st, lost>>
  /\ WarmOff(g)
  /\ UNCHANGED <<source, gen, serial, stamp, dirty, main, retry, loading, members, owner, mixed>>

\* The import, the graph or a cache raises, or the environment is no longer the one
\* that was initialized: either warm-up ends there.
WarmFails(g) ==
  /\ warm[g].step # "off" /\ gen = g
  /\ WarmOff(g)
  /\ lost' = TRUE
  /\ UNCHANGED <<source, gen, st, serial, stamp, dirty, main, retry, loading, members, owner, mixed>>

\* retry() of _queue_fresh_runtime_retry.
RetryFires ==
  /\ retry # 0
  /\ warm' = IF retry = gen /\ st.rt = "pending"
             THEN [warm EXCEPT ![retry] = [step |-> "loop", att |-> 1]] ELSE warm
  /\ retry' = 0
  /\ UNCHANGED <<source, gen, st, serial, stamp, dirty, main, loading, members, history>>

------------------------------------------------------------------------------
Main ==
  \/ \E l \in Label : StartSave(l)
  \/ SaveCommits \/ SaveEnds \/ Reserve \/ InitApplies \/ InitMeetsEdit \/ InitFinishes
Warm(g) ==
  \/ WarmReads(g) \/ WarmApplies(g) \/ WarmFinishes(g)
  \/ FreshReads(g) \/ FreshVerifies(g) \/ FreshApplies(g) \/ FreshSchedules(g) \/ FreshPublishes(g)
Load == LoadAdopts \/ LoadEnds
Refresh == RefreshCaptures \/ RefreshAdopts

Next ==
  \/ \E l \in Label : Edit(l)
  \/ StartInit \/ Main
  \/ \E g \in 1..MaxGen : Warm(g) \/ FreshRereads(g) \/ WarmFails(g)
  \/ RetryFires
  \/ IdleFires \/ OnDemand \/ Load \/ LoadFails
  \/ RefreshFires \/ Refresh \/ RefreshFails

Spec == Init /\ [][Next]_vars

\* Requests that were sent are read, threads run and timers fire.  Every such step
\* changes the variable its condition is about.
Fairness ==
  /\ WF_main(Main)
  /\ \A g \in 1..MaxGen : WF_warm(Warm(g))
  /\ WF_retry(RetryFires) /\ WF_idle(IdleFires) /\ WF_load(Load)
  /\ WF_rtimer(RefreshFires) /\ WF_refresh(Refresh)
FairSpec == Spec /\ Fairness

------------------------------------------------------------------------------
\* Properties.

\* The graph is always the one of the current index and runtime, whoever
\* committed last: no save restores the runtime of before a warm-up, and no
\* warm-up drops a save.
GraphIsCurrent == st # None => st.graph = Rows(st.idx, st.rt)

\* A surface never serves another revision of a model, or another runtime's
\* members, than the graph does; unless a load crossed an initialize (mixed).
SurfaceIsCurrent ==
  st # None /\ ~mixed => \A l \in Label : st.surf[l] \in {None, <<st.idx[l], st.rt>>}

\* The comment at the state's adoption: "A save must never observe the new graph
\* with the previous surface".
SurfaceIsTheGraphs == st # None => \A l \in Label : st.surf[l] \in {None, st.graph[l]}

\* Once every reindex request was handled the index is the saved sources'.
SavesAreIndexed ==
  st # None /\ owner = gen /\ queue = {} /\ main = Idle => st.idx = disk

\* An initialized workspace gets its runtime and its complete surface without
\* another request, however many saves overtake the warm-up and the load; unless in
\* this generation a thread raised, a warm-up was rejected, a load not scheduled or
\* its surface dropped (lost), or a load crossed an initialize (mixed).
Initialized == st # None /\ owner = gen
Served == Initialized /\ st.rt # "pending" /\ Complete(st.surf)
SurfaceLoads == Initialized ~> (Served \/ ~Initialized \/ lost \/ mixed)
==============================================================================
