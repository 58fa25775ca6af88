------------------------ MODULE StateGenerationProofs ------------------------
(***************************************************************************)
(* Whoever commits last, the graph and the surface are those of the index  *)
(* and the runtime, and no save is lost: for any number of models, edits,  *)
(* initializes and attempts.                                               *)
(*                                                                         *)
(* The argument: whatever a thread computes from, it knows whose it read.  *)
(* A load knows its generation and serial, and until a generation's        *)
(* warm-up applies a runtime there is none to load (WarmUpOK, LoadOK); a   *)
(* source that the index lacks is announced (SavesOK).                     *)
(***************************************************************************)
EXTENDS StateGeneration, TLAPS

Idx == [Label -> Nat]
RT  == {"pending", "ready", "failed"}
Row == Nat \X RT

\* A state of the analysis.
State == [idx : Idx, rt : RT, graph : [Label -> Row], surf : [Label -> Row \cup {None}]]

\* The requests of the main thread.
Resting == [step : {"idle", "reserving", "saved"}]
Initializing == [step : {"init", "finish"}, snap : Idx, rt : RT, hit : BOOLEAN]
Saving == [step : {"save"}, label : Label, att : Nat, gen : Nat, base : State, rev : Nat]
Requests == Resting \cup Initializing \cup Saving

\* The warm-ups.
Unstarted  == [step : {"off", "import"}]
Building   == [step : {"build"}, rt : RT, idx : Idx, att : Nat]
Built      == [step : {"warmed"}, dirty : BOOLEAN]
Looping    == [step : {"loop"}, att : Nat]
Inspecting == [step : {"inspect"}, att : Nat, serial : Nat, snap : Idx]
Verified   == [step : {"verified", "applied", "announce"}, rt : RT, att : Nat, serial : Nat, snap : Idx]
WarmUps == Unstarted \cup Building \cup Built \cup Looping \cup Inspecting \cup Verified

\* The loads.
Loading ==
  [step : {"build"}, gen : Nat, idx : Idx, rt : RT, graph : [Label -> Row], serial : Nat,
   strict : BOOLEAN, owner : Nat]
Loaded == [step : {"done"}, gen : Nat, owner : Nat]

Sources == disk \in Idx /\ queue \in SUBSET Label
Numbers == gen \in Nat /\ serial \in Nat /\ owner \in Nat /\ retry \in Nat /\ stamp \in [Label -> Nat]
Flags   == dirty \in BOOLEAN /\ mixed \in BOOLEAN
Threads == main \in Requests /\ warm \in [1..MaxGen -> WarmUps] /\ load \in Loading \cup Loaded \cup {None}

\* There is a state once a generation made it.
Made ==
  \/ st = None /\ owner = 0
  \/ st \in State /\ owner # 0

Types == Sources /\ Numbers /\ Flags /\ Threads /\ Made

\* A save, a refresh and a load have a state to work on.
Workable ==
  /\ main.step = "save" => owner # 0
  /\ rpending => owner # 0
  /\ refresh # None => owner # 0
  /\ load # None => owner # 0

\* The graph is the state's own, and so is each row of the surface.
GraphOK == owner # 0 => st.graph = Rows(st.idx, st.rt)
SurfaceOK == owner # 0 /\ ~mixed => \A l \in Label : st.surf[l] \in {None, <<st.idx[l], st.rt>>}

\* While an initialize replaces the state, the new generation has no warm-up yet.
InitializeOK ==
  /\ owner <= gen
  /\ main.step = "init" => owner < gen
  /\ main.step \in {"init", "finish"} =>
       retry = 0 /\ \A g \in 1..MaxGen : g = gen => warm[g].step = "off"
  /\ main.step = "finish" => owner = gen /\ owner # 0 /\ (main.rt = "pending" => st.rt = "pending")

\* Until its warm-up applies a runtime, the present generation has none.
Pending == {"import", "build", "loop", "inspect", "verified"}
WarmUpOK ==
  /\ \A g \in 1..MaxGen : warm[g].step # "off" => g <= gen
  /\ \A g \in 1..MaxGen : g = gen /\ warm[g].step # "off" => owner = gen
  /\ \A g \in 1..MaxGen : g = gen /\ warm[g].step \in Pending => st.rt = "pending"
  /\ retry # 0 => retry = gen /\ owner = gen

\* A load of the present generation read its runtime, and the sources of every
\* model that was not committed since.
LoadOK ==
  load # None /\ load.step = "build" =>
    /\ load.gen <= gen /\ load.owner <= owner /\ load.serial <= serial
    /\ load.gen = gen /\ load.owner = gen =>
         /\ load.rt = st.rt /\ load.rt # "pending"
         /\ \A l \in Label : stamp[l] <= load.serial => load.idx[l] = st.idx[l]

\* What is not the saved source will be reindexed: its request waits or is handled.
Caught(l) ==
  \/ l \in queue
  \/ main.step = "save" /\ main.label = l /\ main.rev = disk[l]
Covered(idx) == \A l \in Label : idx[l] = disk[l] \/ Caught(l)
SavesOK ==
  /\ main.step = "save" => main.rev = disk[main.label] \/ main.label \in queue
  /\ \A g \in 1..MaxGen : warm[g].step \in {"inspect", "verified"} => warm[g].serial <= serial
  /\ owner # 0 /\ owner = gen => Covered(st.idx)
  /\ \A g \in 1..MaxGen :
       g = gen /\ warm[g].step = "verified" /\ warm[g].serial = serial => Covered(warm[g].snap)

IInv == Types /\ Workable /\ GraphOK /\ SurfaceOK /\ InitializeOK /\ WarmUpOK /\ LoadOK /\ SavesOK

-----------------------------------------------------------------------------
\* The records.

LEMMA RequestKinds ==
  ASSUME NEW m \in Requests
  PROVE  /\ m.step = "save" => m \in Saving
         /\ m.step \in {"init", "finish"} => m \in Initializing
         /\ m.step \in {"idle", "reserving", "saved"} => m \in Resting
BY DEF Requests, Resting, Initializing, Saving

LEMMA WarmUpKinds ==
  ASSUME NEW w \in WarmUps
  PROVE  /\ w.step = "build" => w \in Building
         /\ w.step = "warmed" => w \in Built
         /\ w.step = "loop" => w \in Looping
         /\ w.step = "inspect" => w \in Inspecting
         /\ w.step \in {"verified", "applied", "announce"} => w \in Verified
BY DEF WarmUps, Unstarted, Building, Built, Looping, Inspecting, Verified

LEMMA LoadKinds ==
  ASSUME NEW b \in Loading \cup Loaded
  PROVE  b.step = "build" => b \in Loading
BY DEF Loading, Loaded

LEMMA RowsAreRows == ASSUME NEW i \in Idx, NEW r \in RT PROVE Rows(i, r) \in [Label -> Row]
<1>1. \A l \in Label : <<i[l], r>> \in Row
  BY DEF Idx, Row
<1> QED
  BY <1>1 DEF Rows

LEMMA FreshState ==
  ASSUME NEW i \in Idx, NEW r \in RT, NEW hit \in BOOLEAN
  PROVE  Fresh(i, r, hit) \in State
<1>1. Empty \in [Label -> Row \cup {None}]
  BY DEF Empty
<1>2. Rows(i, r) \in [Label -> Row \cup {None}]
  BY RowsAreRows
<1> QED
  BY <1>1, <1>2, RowsAreRows DEF Fresh, State

LEMMA SavedNothing ==
  ASSUME st \in State, NEW l \in Label, NEW rev, rev = st.idx[l]
  PROVE  Saved(st, l, rev) = st
<1>1. st = [idx |-> st.idx, rt |-> st.rt, graph |-> st.graph, surf |-> st.surf]
  BY DEF State
<1>2. [st EXCEPT !.idx = st.idx] = st
  BY <1>1
<1> QED
  BY <1>2 DEF Saved

LEMMA SavedSomething ==
  ASSUME st \in State, NEW l \in Label, NEW rev \in Nat, rev # st.idx[l]
  PROVE  /\ Saved(st, l, rev) \in State
         /\ Saved(st, l, rev).idx = [st.idx EXCEPT ![l] = rev]
         /\ Saved(st, l, rev).rt = st.rt
         /\ Saved(st, l, rev).graph = [st.graph EXCEPT ![l] = <<rev, st.rt>>]
         /\ Saved(st, l, rev).surf = [st.surf EXCEPT ![l] = <<rev, st.rt>>]
<1>1. st.idx \in Idx /\ st.rt \in RT /\ st.graph \in [Label -> Row] /\ st.surf \in [Label -> Row \cup {None}]
  BY DEF State
<1>2. [st.idx EXCEPT ![l] = rev] \in Idx
  BY <1>1 DEF Idx
<1>3. <<rev, st.rt>> \in Row
  BY <1>1 DEF Row
<1>4. /\ [st.graph EXCEPT ![l] = <<rev, st.rt>>] \in [Label -> Row]
      /\ [st.surf EXCEPT ![l] = <<rev, st.rt>>] \in [Label -> Row \cup {None}]
  BY <1>1, <1>3
<1>5. Saved(st, l, rev) = [idx |-> [st.idx EXCEPT ![l] = rev], rt |-> st.rt,
                           graph |-> [st.graph EXCEPT ![l] = <<rev, st.rt>>],
                           surf |-> [st.surf EXCEPT ![l] = <<rev, st.rt>>]]
  BY DEF Saved
<1> QED
  BY <1>1, <1>2, <1>4, <1>5 DEF State

LEMMA InitTypes == Init => Types /\ Workable
<1> SUFFICES ASSUME Init PROVE Types /\ Workable
  OBVIOUS
<1>1. disk \in Idx /\ queue \in SUBSET Label
  BY DEF Init, Idx
<1>2. Idle \in Requests /\ Idle.step = "idle"
  BY DEF Idle, Requests, Resting
<1>3. Off \in WarmUps
  BY DEF Off, WarmUps, Unstarted
<1>4. Threads
  BY <1>2, <1>3 DEF Init, Threads
<1> QED
  BY <1>1, <1>2, <1>4 DEF Init, Types, Sources, Numbers, Flags, Made, Workable

-----------------------------------------------------------------------------
\* Which steps change what.

LEMMA StateSteps ==
  ASSUME Next
  PROVE  \/ UNCHANGED st
         \/ SaveCommits \/ InitApplies \/ LoadAdopts \/ RefreshAdopts
         \/ \E g \in 1..MaxGen : WarmApplies(g) \/ FreshApplies(g) \/ FreshPublishes(g)
BY Zenon DEF Next, Edit, StartSave, SaveEnds, StartInit, Reserve, InitMeetsEdit, InitFinishes,
   WarmReads, WarmFinishes, FreshReads, FreshVerifies, FreshSchedules, FreshRereads, LoadFails,
   RefreshFails, WarmFails, RetryFires, IdleFires, OnDemand, LoadEnds, RefreshFires,
   RefreshCaptures, Warm, Main, Load, Refresh, ScheduleRefresh, ScheduleLoad, CancelRefresh,
   RefreshEnds, StartLoad, CommitSave, WarmOff, Repeat, source, members, loading, warming,
   history

LEMMA MainSteps ==
  ASSUME Next
  PROVE  \/ UNCHANGED main
         \/ SaveCommits \/ SaveEnds \/ StartInit \/ Reserve \/ InitApplies \/ InitMeetsEdit
         \/ InitFinishes
         \/ \E l \in Label : StartSave(l)
BY Zenon DEF Next, Edit, WarmReads, WarmApplies, WarmFinishes, FreshReads, FreshVerifies,
   FreshApplies, FreshSchedules, FreshPublishes, FreshRereads, LoadFails, RefreshFails,
   WarmFails, RetryFires, IdleFires, OnDemand, LoadAdopts, LoadEnds, RefreshFires,
   RefreshCaptures, RefreshAdopts, Warm, Main, Load, Refresh, ScheduleRefresh, ScheduleLoad,
   CancelRefresh, RefreshEnds, StartLoad, CommitSave, WarmOff, Repeat, source, members, loading,
   warming, history

LEMMA WarmUpSteps ==
  ASSUME Next
  PROVE  \/ UNCHANGED warm
         \/ InitFinishes \/ RetryFires
         \/ \E g \in 1..MaxGen : WarmReads(g) \/ WarmApplies(g) \/ WarmFinishes(g)
                              \/ FreshReads(g) \/ FreshVerifies(g) \/ FreshApplies(g)
                              \/ FreshSchedules(g) \/ FreshPublishes(g) \/ FreshRereads(g)
                              \/ WarmFails(g)
BY Zenon DEF Next, Edit, LoadFails, RefreshFails, StartSave, SaveCommits, SaveEnds, StartInit,
   Reserve, InitApplies, InitMeetsEdit, IdleFires, OnDemand, LoadAdopts, LoadEnds, RefreshFires,
   RefreshCaptures, RefreshAdopts, Warm, Main, Load, Refresh, ScheduleRefresh, ScheduleLoad,
   CancelRefresh, RefreshEnds, StartLoad, CommitSave, WarmOff, Repeat, source, members, loading,
   warming, history

LEMMA LoadSteps ==
  ASSUME Next
  PROVE  \/ UNCHANGED load
         \/ IdleFires \/ OnDemand \/ LoadAdopts \/ LoadFails \/ LoadEnds
BY Zenon DEF Next, Edit, StartSave, SaveCommits, SaveEnds, StartInit, Reserve, InitApplies,
   InitMeetsEdit, InitFinishes, WarmReads, WarmApplies, WarmFinishes, FreshReads, FreshVerifies,
   FreshApplies, FreshSchedules, FreshPublishes, FreshRereads, RefreshFails, WarmFails,
   RetryFires, RefreshFires, RefreshCaptures, RefreshAdopts, Warm, Main, Load, Refresh,
   ScheduleRefresh, ScheduleLoad, CancelRefresh, RefreshEnds, StartLoad, CommitSave, WarmOff,
   Repeat, source, members, loading, warming, history

LEMMA GenerationSteps ==
  ASSUME Next
  PROVE  \/ UNCHANGED gen
         \/ Reserve
BY Zenon DEF Next, Edit, StartSave, SaveCommits, SaveEnds, StartInit, InitApplies,
   InitMeetsEdit, InitFinishes, WarmReads, WarmApplies, WarmFinishes, FreshReads, FreshVerifies,
   FreshApplies, FreshSchedules, FreshPublishes, FreshRereads, LoadFails, RefreshFails,
   WarmFails, RetryFires, IdleFires, OnDemand, LoadAdopts, LoadEnds, RefreshFires,
   RefreshCaptures, RefreshAdopts, Warm, Main, Load, Refresh, ScheduleRefresh, ScheduleLoad,
   CancelRefresh, RefreshEnds, StartLoad, CommitSave, WarmOff, Repeat, source, members, loading,
   warming, history

LEMMA OwnerSteps ==
  ASSUME Next
  PROVE  \/ UNCHANGED owner
         \/ InitApplies
         \/ \E g \in 1..MaxGen : FreshApplies(g)
BY Zenon DEF Next, Edit, StartSave, SaveCommits, SaveEnds, StartInit, Reserve, InitMeetsEdit,
   InitFinishes, WarmReads, WarmApplies, WarmFinishes, FreshReads, FreshVerifies,
   FreshSchedules, FreshPublishes, FreshRereads, LoadFails, RefreshFails, WarmFails, RetryFires,
   IdleFires, OnDemand, LoadAdopts, LoadEnds, RefreshFires, RefreshCaptures, RefreshAdopts,
   Warm, Main, Load, Refresh, ScheduleRefresh, ScheduleLoad, CancelRefresh, RefreshEnds,
   StartLoad, CommitSave, WarmOff, Repeat, source, members, loading, warming, history

LEMMA SerialSteps ==
  ASSUME Next
  PROVE  \/ UNCHANGED <<serial, stamp>>
         \/ SaveCommits \/ RefreshAdopts
BY Zenon DEF Next, Edit, StartSave, SaveEnds, StartInit, Reserve, InitApplies, InitMeetsEdit,
   InitFinishes, WarmReads, WarmApplies, WarmFinishes, FreshReads, FreshVerifies, FreshApplies,
   FreshSchedules, FreshPublishes, FreshRereads, LoadFails, RefreshFails, WarmFails, RetryFires,
   IdleFires, OnDemand, LoadAdopts, LoadEnds, RefreshFires, RefreshCaptures, Warm, Main, Load,
   Refresh, ScheduleRefresh, ScheduleLoad, CancelRefresh, RefreshEnds, StartLoad, CommitSave,
   WarmOff, Repeat, source, members, loading, warming, history

LEMMA SourceSteps ==
  ASSUME Next
  PROVE  \/ UNCHANGED <<disk, queue>>
         \/ \E l \in Label : Edit(l) \/ StartSave(l)
BY Zenon DEF Next, SaveCommits, SaveEnds, StartInit, Reserve, InitApplies, InitMeetsEdit,
   InitFinishes, WarmReads, WarmApplies, WarmFinishes, FreshReads, FreshVerifies, FreshApplies,
   FreshSchedules, FreshPublishes, FreshRereads, LoadFails, RefreshFails, WarmFails, RetryFires,
   IdleFires, OnDemand, LoadAdopts, LoadEnds, RefreshFires, RefreshCaptures, RefreshAdopts,
   Warm, Main, Load, Refresh, ScheduleRefresh, ScheduleLoad, CancelRefresh, RefreshEnds,
   StartLoad, CommitSave, WarmOff, Repeat, source, members, loading, warming, history

LEMMA RetrySteps ==
  ASSUME Next
  PROVE  \/ UNCHANGED retry
         \/ Reserve \/ RetryFires
         \/ \E g \in 1..MaxGen : FreshVerifies(g) \/ FreshApplies(g)
BY Zenon DEF Next, Edit, LoadFails, RefreshFails, WarmFails, StartSave, SaveCommits, SaveEnds,
   StartInit, InitApplies, InitMeetsEdit, InitFinishes, WarmReads, WarmApplies, WarmFinishes,
   FreshReads, FreshSchedules, FreshPublishes, FreshRereads, IdleFires, OnDemand, LoadAdopts,
   LoadEnds, RefreshFires, RefreshCaptures, RefreshAdopts, Warm, Main, Load, Refresh,
   ScheduleRefresh, ScheduleLoad, CancelRefresh, RefreshEnds, StartLoad, CommitSave, WarmOff,
   Repeat, source, members, loading, warming, history

LEMMA MixedSteps ==
  ASSUME Next
  PROVE  \/ UNCHANGED mixed
         \/ LoadAdopts
BY Zenon DEF Next, Edit, StartSave, SaveCommits, SaveEnds, StartInit, Reserve, InitApplies,
   InitMeetsEdit, InitFinishes, WarmReads, WarmApplies, WarmFinishes, FreshReads, FreshVerifies,
   FreshApplies, FreshSchedules, FreshPublishes, FreshRereads, LoadFails, RefreshFails,
   WarmFails, RetryFires, IdleFires, OnDemand, LoadEnds, RefreshFires, RefreshCaptures,
   RefreshAdopts, Warm, Main, Load, Refresh, ScheduleRefresh, ScheduleLoad, CancelRefresh,
   RefreshEnds, StartLoad, CommitSave, WarmOff, Repeat, source, members, loading, warming,
   history

LEMMA DirtySteps ==
  ASSUME Next
  PROVE  \/ UNCHANGED dirty
         \/ SaveCommits \/ InitApplies
         \/ \E g \in 1..MaxGen : FreshApplies(g)
BY Zenon DEF Next, Edit, StartSave, SaveEnds, StartInit, Reserve, InitMeetsEdit, InitFinishes,
   WarmReads, WarmApplies, WarmFinishes, FreshReads, FreshVerifies, FreshSchedules,
   FreshPublishes, FreshRereads, LoadFails, RefreshFails, WarmFails, RetryFires, IdleFires,
   OnDemand, LoadAdopts, LoadEnds, RefreshFires, RefreshCaptures, RefreshAdopts, Warm, Main,
   Load, Refresh, ScheduleRefresh, ScheduleLoad, CancelRefresh, RefreshEnds, StartLoad,
   CommitSave, WarmOff, Repeat, source, members, loading, warming, history

LEMMA RefreshSteps ==
  ASSUME Next
  PROVE  \/ UNCHANGED <<rpending, refresh>>
         \/ SaveEnds \/ Reserve \/ InitFinishes \/ RefreshFires \/ RefreshCaptures
         \/ RefreshFails \/ RefreshAdopts
         \/ \E g \in 1..MaxGen : WarmFinishes(g) \/ FreshSchedules(g)
BY Zenon DEF Next, Edit, StartSave, SaveCommits, StartInit, InitApplies, InitMeetsEdit,
   WarmReads, WarmApplies, FreshReads, FreshVerifies, FreshApplies, FreshPublishes,
   FreshRereads, LoadFails, WarmFails, RetryFires, IdleFires, OnDemand, LoadAdopts, LoadEnds,
   Warm, Main, Load, Refresh, ScheduleRefresh, ScheduleLoad, CancelRefresh, RefreshEnds,
   StartLoad, CommitSave, WarmOff, Repeat, source, members, loading, warming, history

-----------------------------------------------------------------------------
\* The types are kept.

LEMMA Given ==
  ASSUME IInv
  PROVE  /\ disk \in Idx /\ queue \in SUBSET Label /\ dirty \in BOOLEAN /\ mixed \in BOOLEAN
         /\ gen \in Nat /\ serial \in Nat /\ owner \in Nat /\ retry \in Nat /\ stamp \in [Label -> Nat]
         /\ main \in Requests /\ warm \in [1..MaxGen -> WarmUps]
         /\ load # None => load \in Loading \cup Loaded
         /\ owner # 0 => st \in State
         /\ st # None => st \in State /\ owner # 0
         /\ main.step = "save" \/ rpending \/ refresh # None \/ load # None => owner # 0
         /\ \A g \in 1..MaxGen : g = gen /\ warm[g].step # "off" => owner = gen
BY DEF IInv, Types, Sources, Flags, Numbers, Threads, Made, Workable, WarmUpOK

LEMMA StateFields ==
  ASSUME NEW s \in State
  PROVE  s.idx \in Idx /\ s.rt \in RT /\ s.graph \in [Label -> Row] /\ s.surf \in [Label -> Row \cup {None}]
BY DEF State

LEMMA SavedState ==
  ASSUME st \in State, NEW l \in Label, NEW rev \in Nat
  PROVE  Saved(st, l, rev) \in State
BY SavedNothing, SavedSomething

\* What a save does to the state: nothing yet, or it commits a revision.
LEMMA SaveCases ==
  ASSUME IInv, SaveCommits
  PROVE  /\ main \in Saving /\ st \in State /\ owner # 0
         /\ \/ UNCHANGED <<st, serial, stamp, dirty>> /\ main' = SaveRead(main.label, main.att + 1)
            \/ \E rev \in {main.rev, disk[main.label]} : CommitSave(st, main.label, rev)
<1>1. main.step = "save"
  BY DEF SaveCommits
<1>2. main \in Saving /\ st \in State /\ owner # 0
  BY <1>1, Given, RequestKinds
<1>3. CASE Unreplaced(main) /\ CommitSave(main.base, main.label, main.rev)
  BY <1>2, <1>3 DEF Unreplaced
<1>4. CASE main' = SaveRead(main.label, main.att + 1) /\ UNCHANGED <<st, serial, dirty, stamp>>
  BY <1>2, <1>4
<1>5. CASE CommitSave(st, main.label, disk[main.label])
  BY <1>2, <1>5
<1> QED
  BY <1>3, <1>4, <1>5 DEF SaveCommits

\* A commit of revision rev, spelt out.
LEMMA CommitFacts ==
  ASSUME IInv, SaveCommits, NEW rev \in {main.rev, disk[main.label]}, CommitSave(st, main.label, rev)
  PROVE  /\ main.label \in Label /\ rev \in Nat
         /\ st' \in State /\ st'.rt = st.rt
         /\ st'.idx = [st.idx EXCEPT ![main.label] = rev]
         /\ rev = st.idx[main.label] => st' = st /\ stamp' = stamp
         /\ rev # st.idx[main.label] =>
              /\ st'.graph = [st.graph EXCEPT ![main.label] = <<rev, st.rt>>]
              /\ st'.surf = [st.surf EXCEPT ![main.label] = <<rev, st.rt>>]
              /\ stamp' = [stamp EXCEPT ![main.label] = serial + 1]
         /\ serial' = serial + 1 /\ dirty' = TRUE /\ main' = [step |-> "saved"]
<1>1. main \in Saving /\ st \in State
  BY SaveCases
<1>2. main.label \in Label /\ rev \in Nat
  BY <1>1, Given DEF Saving, Idx
<1>3. st' = Saved(st, main.label, rev) /\ serial' = serial + 1 /\ dirty' = TRUE /\ main' = [step |-> "saved"]
      /\ stamp' = IF rev = st.idx[main.label] THEN stamp ELSE [stamp EXCEPT ![main.label] = serial + 1]
  BY DEF CommitSave
<1>4. CASE rev = st.idx[main.label]
  <2>1. st' = st /\ stamp' = stamp
    BY <1>1, <1>2, <1>3, <1>4, SavedNothing
  <2>2. [st.idx EXCEPT ![main.label] = rev] = st.idx
    BY <1>1, <1>2, <1>4 DEF State, Idx
  <2> QED
    BY <1>1, <1>2, <1>3, <1>4, <2>1, <2>2
<1>5. CASE rev # st.idx[main.label]
  BY <1>1, <1>2, <1>3, <1>5, SavedSomething
<1> QED
  BY <1>4, <1>5

LEMMA SourceTypes == IInv /\ Next => Sources'
<1> SUFFICES ASSUME IInv, Next PROVE Sources'
  OBVIOUS
<1>1. CASE UNCHANGED <<disk, queue>>
  BY <1>1, Given DEF Sources
<1>2. ASSUME NEW l \in Label, Edit(l) \/ StartSave(l) PROVE Sources'
  BY <1>2, Given DEF Sources, Edit, StartSave, Idx
<1> QED
  BY <1>1, <1>2, SourceSteps

LEMMA FlagTypes == IInv /\ Next => dirty' \in BOOLEAN /\ mixed' \in BOOLEAN
<1> SUFFICES ASSUME IInv, Next PROVE dirty' \in BOOLEAN /\ mixed' \in BOOLEAN
  OBVIOUS
<1>1. dirty' \in {dirty, TRUE, FALSE}
  <2>1. CASE SaveCommits
    BY <2>1, SaveCases DEF CommitSave
  <2>2. CASE InitApplies
    BY <2>2 DEF InitApplies
  <2>3. ASSUME NEW g \in 1..MaxGen, FreshApplies(g) PROVE dirty' \in {dirty, TRUE, FALSE}
    BY <2>3 DEF FreshApplies
  <2> QED
    BY <2>1, <2>2, <2>3, DirtySteps
<1>2. mixed' \in {mixed, mixed \/ Crossed(load)}
  BY MixedSteps DEF LoadAdopts
<1> QED
  BY <1>1, <1>2, Given

LEMMA NumberTypes == IInv /\ Next => Numbers'
<1> SUFFICES ASSUME IInv, Next PROVE Numbers'
  OBVIOUS
<1>1. gen' \in Nat
  <2>1. gen' = gen \/ gen' = gen + 1
    BY Zenon, GenerationSteps DEF Reserve
  <2> QED
    BY <2>1, Given
<1>2. owner' \in {owner, gen}
  BY OwnerSteps DEF InitApplies, FreshApplies
<1>3. retry' \in Nat
  <2>1. ASSUME NEW g \in 1..MaxGen, FreshVerifies(g) \/ FreshApplies(g) PROVE retry' \in {retry, g}
    BY <2>1 DEF FreshVerifies, FreshApplies, Repeat
  <2>2. CASE Reserve \/ RetryFires
    BY <2>2 DEF Reserve, RetryFires
  <2> QED
    BY <2>1, <2>2, Given, RetrySteps
<1>4. serial' \in Nat /\ stamp' \in [Label -> Nat]
  <2>1. CASE SaveCommits
    <3>1. CASE UNCHANGED <<serial, stamp>>
      BY <3>1, Given
    <3>2. ASSUME NEW rev \in {main.rev, disk[main.label]}, CommitSave(st, main.label, rev)
          PROVE  serial' \in Nat /\ stamp' \in [Label -> Nat]
      <4>1. serial' = serial + 1 /\ stamp' \in {stamp, [stamp EXCEPT ![main.label] = serial + 1]}
        BY <2>1, <3>2, CommitFacts
      <4> QED
        BY <4>1, Given
    <3> QED
      BY <2>1, <3>1, <3>2, SaveCases
  <2>2. CASE RefreshAdopts
    BY <2>2, Given DEF RefreshAdopts
  <2> QED
    BY <2>1, <2>2, Given, SerialSteps
<1> QED
  BY <1>1, <1>2, <1>3, <1>4, Given DEF Numbers

LEMMA RequestTypes == IInv /\ Next => main' \in Requests
<1> SUFFICES ASSUME IInv, Next PROVE main' \in Requests
  OBVIOUS
<1>1. ASSUME NEW l \in Label, NEW att \in Nat, owner # 0 PROVE SaveRead(l, att) \in Saving
  BY <1>1, Given DEF SaveRead, Saving, Idx
<1>2. CASE SaveCommits
  <2>1. CASE main' = SaveRead(main.label, main.att + 1)
    BY <1>1, <1>2, <2>1, SaveCases DEF Saving, Requests
  <2>2. ASSUME NEW rev \in {main.rev, disk[main.label]}, CommitSave(st, main.label, rev)
        PROVE  main' \in Requests
    BY <2>2 DEF CommitSave, Requests, Resting
  <2> QED
    BY <1>2, <2>1, <2>2, SaveCases
<1>3. CASE SaveEnds \/ StartInit \/ InitFinishes
  BY <1>3 DEF SaveEnds, StartInit, InitFinishes, Requests, Resting, Idle
<1>4. CASE Reserve
  BY <1>4, Given DEF Reserve, Requests, Initializing, RT
<1>5. CASE InitApplies \/ InitMeetsEdit
  <2>1. main \in Initializing
    BY <1>5, Given, RequestKinds DEF InitApplies, InitMeetsEdit
  <2>2. /\ [main EXCEPT !.step = "finish"] \in Initializing
        /\ [main EXCEPT !.snap = disk, !.hit = FALSE] \in Initializing
    <3> DEFINE m == [main EXCEPT !.snap = disk]
    <3>1. [main EXCEPT !.step = "finish"] \in Initializing /\ m \in Initializing
      BY <2>1, Given DEF Initializing
    <3>2. [m EXCEPT !.hit = FALSE] \in Initializing
      BY <3>1 DEF Initializing
    <3>3. [main EXCEPT !.snap = disk, !.hit = FALSE] = [m EXCEPT !.hit = FALSE]
      BY Zenon
    <3> QED
      BY <3>1, <3>2, <3>3
  <2>3. Idle \in Resting
    BY DEF Idle, Resting
  <2> QED
    BY <1>5, <2>2, <2>3 DEF InitApplies, InitMeetsEdit, Requests
<1>6. ASSUME NEW l \in Label, StartSave(l) PROVE main' \in Requests
  BY <1>1, <1>6, Given DEF StartSave, Requests
<1> QED
  BY <1>2, <1>3, <1>4, <1>5, <1>6, Given, MainSteps

LEMMA WarmUpTypes == IInv /\ Next => warm' \in [1..MaxGen -> WarmUps]
<1> SUFFICES ASSUME IInv, Next PROVE warm' \in [1..MaxGen -> WarmUps]
  OBVIOUS
<1> USE Given
<1>1. Off \in WarmUps /\ [step |-> "import"] \in WarmUps
  BY DEF Off, WarmUps, Unstarted
<1>2. \A n \in Nat : [step |-> "loop", att |-> n] \in WarmUps
  BY DEF WarmUps, Looping
<1>3. ASSUME NEW g \in 1..MaxGen, Repeat(g), warm[g].att \in Nat PROVE warm' \in [1..MaxGen -> WarmUps]
  BY <1>1, <1>2, <1>3 DEF Repeat, WarmOff
<1>4. CASE InitFinishes \/ RetryFires
  BY <1>1, <1>2, <1>4 DEF InitFinishes, RetryFires
<1>5. ASSUME NEW g \in 1..MaxGen, WarmReads(g) PROVE warm' \in [1..MaxGen -> WarmUps]
  <2>1. CASE gen # g
    BY <1>1, <1>5, <2>1 DEF WarmReads, WarmOff
  <2>2. CASE gen = g
    <3>1. st \in State
      BY <1>5, <2>2 DEF WarmReads
    <3>2. PICK rt \in {"ready", "failed"} :
            warm' = [warm EXCEPT ![g] = [step |-> "build", rt |-> rt, idx |-> st.idx, att |-> 1]]
      BY <1>5, <2>2 DEF WarmReads
    <3>3. [step |-> "build", rt |-> rt, idx |-> st.idx, att |-> 1] \in Building
      BY <3>1, StateFields DEF Building, RT
    <3> QED
      BY <3>2, <3>3 DEF WarmUps
  <2> QED
    BY <2>1, <2>2
<1>6. ASSUME NEW g \in 1..MaxGen, WarmApplies(g) PROVE warm' \in [1..MaxGen -> WarmUps]
  <2>1. warm[g] \in Building
    BY <1>6, WarmUpKinds DEF WarmApplies
  <2>2. CASE WarmOff(g)
    BY <1>1, <2>2 DEF WarmOff
  <2>3. CASE gen = g /\ warm' = [warm EXCEPT ![g] = [warm[g] EXCEPT !.idx = st.idx, !.att = @ + 1]]
    <3>1. st.idx \in Idx
      BY <1>6, <2>3, StateFields DEF WarmApplies
    <3> DEFINE w == [warm[g] EXCEPT !.idx = st.idx]
    <3>2. w \in Building
      BY <2>1, <3>1 DEF Building
    <3>3. [warm[g] EXCEPT !.idx = st.idx, !.att = @ + 1] = [w EXCEPT !.att = @ + 1]
      BY Zenon
    <3> HIDE DEF w
    <3>4. [w EXCEPT !.att = @ + 1] \in Building
      BY <3>2 DEF Building
    <3> QED
      BY <2>3, <3>3, <3>4 DEF WarmUps
  <2>4. CASE warm' = [warm EXCEPT ![g] = [step |-> "warmed", dirty |-> dirty]]
    BY <2>4 DEF WarmUps, Built
  <2> QED
    BY <1>6, <2>2, <2>3, <2>4 DEF WarmApplies
<1>7. ASSUME NEW g \in 1..MaxGen, WarmFinishes(g) \/ FreshPublishes(g) \/ WarmFails(g)
      PROVE  warm' \in [1..MaxGen -> WarmUps]
  BY <1>1, <1>7 DEF WarmFinishes, FreshPublishes, WarmFails, WarmOff
<1>8. ASSUME NEW g \in 1..MaxGen, FreshReads(g) PROVE warm' \in [1..MaxGen -> WarmUps]
  <2>1. warm[g] \in Looping
    BY <1>8, WarmUpKinds DEF FreshReads
  <2>2. [step |-> "inspect", att |-> warm[g].att, serial |-> serial, snap |-> disk] \in WarmUps
    BY <2>1 DEF Looping, Inspecting, WarmUps
  <2> QED
    BY <1>1, <1>8, <2>2 DEF FreshReads, WarmOff
<1>9. ASSUME NEW g \in 1..MaxGen, FreshRereads(g) \/ FreshVerifies(g) PROVE warm' \in [1..MaxGen -> WarmUps]
  <2>1. warm[g] \in Inspecting
    BY <1>9, WarmUpKinds DEF FreshRereads, FreshVerifies
  <2>2. CASE FreshRereads(g)
    <3>1. [warm[g] EXCEPT !.snap = disk] \in Inspecting
      BY <2>1 DEF Inspecting
    <3> QED
      BY <2>2, <3>1 DEF FreshRereads, WarmUps
  <2>3. \A rt \in {"ready", "failed"} :
          [step |-> "verified", rt |-> rt, att |-> warm[g].att, serial |-> warm[g].serial,
           snap |-> warm[g].snap] \in WarmUps
    BY <2>1 DEF Inspecting, Verified, WarmUps, RT
  <2>4. warm[g].att \in Nat
    BY <2>1 DEF Inspecting
  <2> QED
    BY <1>1, <1>3, <1>9, <2>2, <2>3, <2>4 DEF FreshVerifies, WarmOff
<1>10. ASSUME NEW g \in 1..MaxGen, FreshApplies(g) \/ FreshSchedules(g) PROVE warm' \in [1..MaxGen -> WarmUps]
  <2>1. warm[g] \in Verified
    BY <1>10, WarmUpKinds DEF FreshApplies, FreshSchedules
  <2>2. \A s \in {"applied", "announce"} : [warm[g] EXCEPT !.step = s] \in Verified
    BY <2>1 DEF Verified
  <2>3. warm[g].att \in Nat
    BY <2>1 DEF Verified
  <2> QED
    BY <1>3, <1>10, <2>2, <2>3 DEF FreshApplies, FreshSchedules, WarmUps
<1> QED
  BY <1>4, <1>5, <1>6, <1>7, <1>8, <1>9, <1>10, WarmUpSteps

LEMMA StartedLoad ==
  ASSUME IInv, StartLoad
  PROVE  \/ load' = load
         \/ /\ st # None /\ st.rt # "pending"
            /\ load' \in Loading /\ load'.step = "build" /\ load'.gen = gen /\ load'.owner = owner
            /\ load'.serial = serial /\ load'.idx = st.idx /\ load'.rt = st.rt
<1>1. CASE st = None \/ st.rt = "pending" \/ attempted = gen \/ load # None
  BY <1>1 DEF StartLoad
<1>2. CASE ~(st = None \/ st.rt = "pending" \/ attempted = gen \/ load # None)
  <2>1. st \in State
    BY <1>2, Given
  <2>2. load' = [step |-> "build", gen |-> gen, idx |-> st.idx, rt |-> st.rt, graph |-> st.graph,
                 serial |-> serial, strict |-> st.rt = "ready" /\ ~dirty, owner |-> owner]
    BY <1>2, Zenon DEF StartLoad
  <2>3. load' \in Loading
    BY <2>1, <2>2, Given, StateFields DEF Loading
  <2> QED
    BY <1>2, <2>2, <2>3
<1> QED
  BY <1>1, <1>2

LEMMA LoadTypes == IInv /\ Next => load' \in Loading \cup Loaded \cup {None}
<1> SUFFICES ASSUME IInv, Next PROVE load' \in Loading \cup Loaded \cup {None}
  OBVIOUS
<1> USE Given
<1>1. CASE IdleFires \/ OnDemand
  BY <1>1, StartedLoad DEF IdleFires, OnDemand
<1>2. CASE LoadAdopts
  <2>1. load \in Loading
    BY <1>2, LoadKinds DEF LoadAdopts
  <2> QED
    BY <1>2, <2>1 DEF LoadAdopts, Loading, Loaded
<1>3. CASE LoadFails \/ LoadEnds
  BY <1>3 DEF LoadFails, LoadEnds
<1> QED
  BY <1>1, <1>2, <1>3, LoadSteps

-----------------------------------------------------------------------------
\* The state, its graph and its surface.

StateOK == Made /\ GraphOK /\ SurfaceOK

\* A state that is made anew is its own.
LEMMA FreshIsOK ==
  ASSUME NEW i \in Idx, NEW r \in RT, NEW hit \in BOOLEAN, st' = Fresh(i, r, hit), owner' # 0
  PROVE  StateOK'
<1>1. st' \in State
  BY FreshState
<1>2. st'.idx = i /\ st'.rt = r /\ st'.graph = Rows(i, r) /\ st'.surf \in {Rows(i, r), Empty}
  BY DEF Fresh
<1>3. \A l \in Label : st'.surf[l] \in {None, <<i[l], r>>}
  BY <1>2 DEF Rows, Empty
<1> QED
  BY <1>1, <1>2, <1>3 DEF StateOK, Made, GraphOK, SurfaceOK

\* So is a state with another surface whose rows are its own or missing.
LEMMA SurfaceIsOK ==
  ASSUME IInv, owner # 0, UNCHANGED owner, NEW surf \in [Label -> Row \cup {None}],
         st' = [st EXCEPT !.surf = surf],
         ~mixed' => \A l \in Label : surf[l] \in {None, <<st.idx[l], st.rt>>}
  PROVE  /\ StateOK' /\ st'.idx = st.idx /\ st'.rt = st.rt
<1>1. st \in State
  BY Given
<1>2. st' \in State /\ st'.idx = st.idx /\ st'.rt = st.rt /\ st'.graph = st.graph /\ st'.surf = surf
  BY <1>1 DEF State
<1> QED
  BY <1>2 DEF StateOK, Made, GraphOK, SurfaceOK, IInv

LEMMA SaveIsOK ==
  ASSUME IInv, SaveCommits
  PROVE  StateOK'
<1>1. UNCHANGED <<owner, mixed>> /\ owner # 0
  BY SaveCases DEF SaveCommits, history
<1>2. CASE UNCHANGED st
  BY <1>1, <1>2 DEF StateOK, Made, GraphOK, SurfaceOK, IInv, Types
<1>3. ASSUME NEW rev \in {main.rev, disk[main.label]}, CommitSave(st, main.label, rev)
      PROVE  StateOK'
  <2> DEFINE l == main.label
  <2>1. st \in State /\ l \in Label /\ rev \in Nat
    BY <1>1, <1>3, Given, CommitFacts
  <2>2. CASE rev = st.idx[l]
    BY <1>1, <1>2, <1>3, <2>2, CommitFacts
  <2>3. CASE rev # st.idx[l]
    <3>1. /\ st' \in State /\ st'.rt = st.rt /\ st'.idx = [st.idx EXCEPT ![l] = rev]
          /\ st'.graph = [st.graph EXCEPT ![l] = <<rev, st.rt>>]
          /\ st'.surf = [st.surf EXCEPT ![l] = <<rev, st.rt>>]
      BY <1>3, <2>3, CommitFacts
    <3> HIDE DEF l
    <3>2. st.idx \in [Label -> Nat] /\ st.surf \in [Label -> Row \cup {None}]
      BY <2>1, StateFields DEF Idx
    <3>3. st.graph = Rows(st.idx, st.rt)
      BY <1>1 DEF IInv, GraphOK
    <3>4. GraphOK'
      <4>1. [Rows(st.idx, st.rt) EXCEPT ![l] = <<rev, st.rt>>] = Rows([st.idx EXCEPT ![l] = rev], st.rt)
        BY <2>1, <3>2 DEF Rows
      <4>2. st'.graph = Rows(st'.idx, st'.rt)
        BY <3>1, <3>3, <4>1
      <4> QED
        BY <4>2 DEF GraphOK
    <3>5. SurfaceOK'
      BY <1>1, <2>1, <3>1, <3>2 DEF SurfaceOK, IInv
    <3> QED
      BY <1>1, <3>1, <3>4, <3>5 DEF StateOK, Made
  <2> QED
    BY <2>2, <2>3
<1> QED
  BY <1>2, <1>3, SaveCases

\* The rows that a load may adopt.
LEMMA OverlayIsOK ==
  ASSUME IInv, LoadAdopts, ~Superseded(load)
  PROVE  /\ owner # 0 /\ Overlaid(load) \in [Label -> Row \cup {None}]
         /\ ~mixed /\ ~Crossed(load) =>
              \A l \in Label : Overlaid(load)[l] \in {None, <<st.idx[l], st.rt>>}
<1>1. owner # 0 /\ st \in State /\ load \in Loading /\ load.step = "build" /\ load.gen = gen
  BY Given, LoadKinds DEF LoadAdopts, Superseded
<1>2. load.idx \in Idx /\ load.rt \in RT /\ load.serial \in Nat
  BY <1>1 DEF Loading
<1>3. st.idx \in Idx /\ st.rt \in RT /\ st.surf \in [Label -> Row \cup {None}]
  BY <1>1, StateFields
<1>4. ASSUME NEW l \in Label
      PROVE  Overlaid(load)[l] \in {<<load.idx[l], load.rt>>, st.surf[l], <<st.idx[l], st.rt>>}
  BY DEF Overlaid
<1>5. ASSUME NEW l \in Label PROVE Overlaid(load)[l] \in Row \cup {None}
  BY <1>2, <1>3, <1>4 DEF Idx, Row
<1>6. ASSUME NEW l \in Label, ~mixed, ~Crossed(load)
      PROVE  Overlaid(load)[l] \in {None, <<st.idx[l], st.rt>>}
  <2>1. load.rt = st.rt /\ (stamp[l] <= load.serial => load.idx[l] = st.idx[l])
    BY <1>1, <1>6 DEF IInv, LoadOK, LoadAdopts, Crossed
  <2>2. st.surf[l] \in {None, <<st.idx[l], st.rt>>}
    BY <1>1, <1>6 DEF IInv, SurfaceOK
  <2>3. CASE ~Stale(load, l)
    <3>1. load.idx[l] = st.idx[l]
      BY <1>2, <2>1, <2>3, Given DEF Stale
    <3>2. Overlaid(load)[l] = <<load.idx[l], load.rt>>
      BY <2>3 DEF Overlaid
    <3> QED
      BY <2>1, <3>1, <3>2
  <2>4. CASE Stale(load, l)
    BY <2>2, <2>4 DEF Overlaid
  <2> QED
    BY <2>3, <2>4
<1>7. Overlaid(load) \in [Label -> Row \cup {None}]
  BY <1>5 DEF Overlaid
<1> QED
  BY <1>1, <1>6, <1>7

LEMMA StateIsOK == IInv /\ Next => StateOK'
<1> SUFFICES ASSUME IInv, Next PROVE StateOK'
  OBVIOUS
<1>1. CASE UNCHANGED <<st, owner, mixed>>
  BY <1>1 DEF StateOK, Made, GraphOK, SurfaceOK, IInv, Types
<1>2. CASE SaveCommits
  BY <1>2, SaveIsOK
<1>3. CASE InitApplies
  <2>1. main \in Initializing /\ owner < gen
    BY <1>3, Given, RequestKinds DEF InitApplies, IInv, InitializeOK
  <2>2. st' = Fresh(main.snap, main.rt, main.hit) /\ owner' = gen
    BY <1>3 DEF InitApplies
  <2>3. owner' # 0
    BY <2>1, <2>2, Given
  <2> QED
    BY <2>1, <2>2, <2>3, FreshIsOK DEF Initializing
<1>4. ASSUME NEW g \in 1..MaxGen, WarmApplies(g) PROVE StateOK'
  <2>1. UNCHANGED <<owner, mixed>> /\ warm[g] \in Building
    BY <1>4, Given, WarmUpKinds DEF WarmApplies, history
  <2>2. CASE gen = g /\ st' = Fresh(WarmIndex(warm[g]), warm[g].rt, FALSE)
    <3>1. owner # 0 /\ st.idx \in Idx /\ warm[g].rt \in RT
      BY <1>4, <2>1, <2>2, Given, StateFields DEF WarmApplies, Building
    <3> QED
      BY <2>1, <2>2, <3>1, FreshIsOK DEF WarmIndex
  <2> QED
    BY <1>1, <1>4, <2>1, <2>2 DEF WarmApplies
<1>5. ASSUME NEW g \in 1..MaxGen, FreshApplies(g) PROVE StateOK'
  <2>1. UNCHANGED mixed /\ warm[g] \in Verified
    BY <1>5, Given, WarmUpKinds DEF FreshApplies
  <2>2. CASE FreshCurrent(g)
    <3>1. st' = Fresh(warm[g].snap, warm[g].rt, FALSE) /\ owner' = gen /\ gen = g
      BY <1>5, <2>2 DEF FreshApplies, FreshCurrent
    <3>2. warm[g].snap \in Idx /\ warm[g].rt \in RT /\ owner' # 0
      BY <2>1, <3>1 DEF Verified
    <3> QED
      BY <3>1, <3>2, FreshIsOK
  <2> QED
    BY <1>1, <1>5, <2>1, <2>2 DEF FreshApplies
<1>6. ASSUME NEW g \in 1..MaxGen, FreshPublishes(g) PROVE StateOK'
  <2>1. UNCHANGED <<owner, mixed>>
    BY <1>6 DEF FreshPublishes
  <2>2. CASE gen = g /\ st' = [st EXCEPT !.surf = Empty]
    <3>1. owner # 0
      BY <1>6, <2>2, Given DEF FreshPublishes
    <3>2. Empty \in [Label -> Row \cup {None}] /\ \A l \in Label : Empty[l] = None
      BY DEF Empty
    <3> QED
      BY <2>1, <2>2, <3>1, <3>2, SurfaceIsOK
  <2> QED
    BY <1>1, <1>6, <2>1, <2>2 DEF FreshPublishes
<1>7. CASE LoadAdopts
  <2>1. CASE Superseded(load) \/ Unverified(load)
    BY <1>1, <1>7, <2>1 DEF LoadAdopts
  <2>2. CASE ~(Superseded(load) \/ Unverified(load))
    <3>1. st' = [st EXCEPT !.surf = Overlaid(load)] /\ mixed' = (mixed \/ Crossed(load)) /\ UNCHANGED owner
      BY <1>7, <2>2 DEF LoadAdopts
    <3> QED
      BY <1>7, <2>2, <3>1, OverlayIsOK, SurfaceIsOK
  <2> QED
    BY <2>1, <2>2
<1>8. CASE RefreshAdopts
  <2>1. UNCHANGED <<owner, mixed>> /\ owner # 0 /\ st \in State
    BY <1>8, Given DEF RefreshAdopts, history
  <2>2. CASE st' = [st EXCEPT !.surf = Rows(refresh.st.idx, refresh.st.rt)] /\ StillOwner(refresh)
    <3>1. Rows(refresh.st.idx, refresh.st.rt) = Rows(st.idx, st.rt)
      BY <2>2 DEF StillOwner
    <3>2. Rows(st.idx, st.rt) \in [Label -> Row \cup {None}]
      BY <2>1, RowsAreRows, StateFields
    <3>3. \A l \in Label : Rows(st.idx, st.rt)[l] = <<st.idx[l], st.rt>>
      BY DEF Rows
    <3> QED
      BY <2>1, <2>2, <3>1, <3>2, <3>3, SurfaceIsOK
  <2> QED
    BY <1>1, <1>8, <2>1, <2>2 DEF RefreshAdopts
<1>9. CASE UNCHANGED st /\ ~InitApplies /\ ~LoadAdopts /\ ~\E g \in 1..MaxGen : FreshApplies(g)
  BY <1>1, <1>9, OwnerSteps, MixedSteps
<1> QED
  BY <1>2, <1>3, <1>4, <1>5, <1>6, <1>7, <1>8, <1>9, StateSteps

-----------------------------------------------------------------------------
\* What a step does to the generations, the index and the runtime.

\* A generation that makes the state is the present one.
LEMMA Generations ==
  ASSUME IInv, Next
  PROVE  /\ gen' \in Nat /\ owner' \in Nat /\ gen <= gen' /\ owner <= owner' /\ owner' <= gen'
         /\ owner' = owner \/ (owner' = gen /\ gen' = gen)
         /\ gen' = gen \/ Reserve
<1>1. owner <= gen /\ gen \in Nat /\ owner \in Nat
  BY Given DEF IInv, InitializeOK
<1>2. UNCHANGED gen \/ (gen' = gen + 1 /\ UNCHANGED owner)
  BY GenerationSteps DEF Reserve, history
<1>3. owner' = owner \/ owner' = gen
  BY OwnerSteps DEF InitApplies, FreshApplies
<1>4. (owner' = owner \/ (owner' = gen /\ gen' = gen)) /\ (gen' = gen \/ Reserve)
  BY <1>2, <1>3, GenerationSteps
<1> QED
  BY <1>1, <1>2, <1>4

\* The steps that replace the index or the runtime of the state.
Replaces(g) ==
  /\ gen = g
  /\ \/ WarmApplies(g) /\ warm'[g].step = "warmed"
     \/ FreshApplies(g) /\ warm'[g].step = "applied"

LEMMA WarmReplaces ==
  ASSUME IInv, NEW g \in 1..MaxGen, WarmApplies(g), st' # st
  PROVE  Replaces(g) /\ st'.idx = st.idx
<1>1. gen = g /\ st' = Fresh(WarmIndex(warm[g]), warm[g].rt, FALSE)
      /\ warm' = [warm EXCEPT ![g] = [step |-> "warmed", dirty |-> dirty]]
  BY DEF WarmApplies
<1>2. warm'[g].step = "warmed"
  BY <1>1, Given
<1>3. st'.idx = st.idx
  BY <1>1 DEF Fresh, WarmIndex
<1> QED
  BY <1>1, <1>2, <1>3 DEF Replaces

LEMMA FreshReplaces ==
  ASSUME IInv, NEW g \in 1..MaxGen, FreshApplies(g), FreshCurrent(g)
  PROVE  /\ Replaces(g) /\ st' = Fresh(warm[g].snap, warm[g].rt, FALSE) /\ owner' = gen
         /\ warm[g] \in Verified /\ UNCHANGED retry
<1>1. warm[g] \in Verified
  BY Given, WarmUpKinds DEF FreshApplies
<1>2. /\ st' = Fresh(warm[g].snap, warm[g].rt, FALSE) /\ owner' = gen /\ gen = g
      /\ warm' = [warm EXCEPT ![g].step = "applied"] /\ UNCHANGED retry
  BY DEF FreshApplies, FreshCurrent
<1>3. warm'[g].step = "applied"
  BY <1>1, <1>2, Given DEF Verified
<1> QED
  BY <1>1, <1>2, <1>3 DEF Replaces

LEMMA Replacements ==
  ASSUME IInv, Next, owner # 0
  PROVE  \/ st'.idx = st.idx /\ st'.rt = st.rt
         \/ SaveCommits \/ InitApplies \/ \E g \in 1..MaxGen : Replaces(g)
<1>1. st \in State
  BY Given
<1>2. ASSUME NEW surf, st' = [st EXCEPT !.surf = surf] PROVE st'.idx = st.idx /\ st'.rt = st.rt
  BY <1>1, <1>2 DEF State
<1>3. CASE LoadAdopts \/ RefreshAdopts
  BY <1>2, <1>3, Zenon DEF LoadAdopts, RefreshAdopts
<1>4. ASSUME NEW g \in 1..MaxGen, FreshPublishes(g) PROVE st'.idx = st.idx /\ st'.rt = st.rt
  BY <1>2, <1>4, Zenon DEF FreshPublishes
<1>5. ASSUME NEW g \in 1..MaxGen, WarmApplies(g) PROVE st' = st \/ Replaces(g)
  BY <1>5, WarmReplaces
<1>6. ASSUME NEW g \in 1..MaxGen, FreshApplies(g) PROVE st' = st \/ Replaces(g)
  BY <1>6, FreshReplaces DEF FreshApplies
<1> QED
  BY <1>3, <1>4, <1>5, <1>6, StateSteps

\* A save keeps the runtime.
LEMMA SaveKeepsRuntime ==
  ASSUME IInv, SaveCommits
  PROVE  st'.rt = st.rt
BY SaveCases, CommitFacts

\* A warm-up changes only its own thread.
WarmStep(g) ==
  \/ WarmReads(g) \/ WarmApplies(g) \/ WarmFinishes(g) \/ FreshReads(g) \/ FreshVerifies(g)
  \/ FreshApplies(g) \/ FreshSchedules(g) \/ FreshPublishes(g) \/ FreshRereads(g) \/ WarmFails(g)

LEMMA WarmStepIsLocal ==
  ASSUME IInv, NEW g \in 1..MaxGen, WarmStep(g), NEW h \in 1..MaxGen, h # g
  PROVE  warm'[h] = warm[h]
<1>1. warm \in [1..MaxGen -> WarmUps]
  BY Given
<1>2. CASE Repeat(g) \/ WarmOff(g)
  BY <1>1, <1>2 DEF Repeat, WarmOff
<1>3. CASE WarmReads(g)
  BY <1>1, <1>2, <1>3 DEF WarmReads
<1>4. CASE WarmApplies(g)
  BY <1>1, <1>2, <1>4 DEF WarmApplies
<1>5. CASE WarmFinishes(g) \/ FreshPublishes(g) \/ WarmFails(g)
  BY <1>2, <1>5 DEF WarmFinishes, FreshPublishes, WarmFails
<1>6. CASE FreshReads(g)
  BY <1>1, <1>2, <1>6 DEF FreshReads
<1>7. CASE FreshVerifies(g)
  BY <1>1, <1>2, <1>7 DEF FreshVerifies
<1>8. CASE FreshApplies(g)
  BY <1>1, <1>2, <1>8 DEF FreshApplies
<1>9. CASE FreshSchedules(g) \/ FreshRereads(g)
  BY <1>1, <1>9 DEF FreshSchedules, FreshRereads
<1> QED
  BY <1>3, <1>4, <1>5, <1>6, <1>7, <1>8, <1>9 DEF WarmStep

LEMMA WarmStepIsOn == ASSUME NEW g \in 1..MaxGen, WarmStep(g) PROVE warm[g].step # "off"
BY DEF WarmStep, WarmReads, WarmApplies, WarmFinishes, FreshReads, FreshVerifies, FreshApplies,
       FreshSchedules, FreshPublishes, FreshRereads, WarmFails

\* A thread's steps are its own, the start by an initialize and the retry.
LEMMA WarmUpChanges ==
  ASSUME IInv, Next, NEW h \in 1..MaxGen, warm'[h] # warm[h]
  PROVE  \/ InitFinishes /\ h = gen /\ main.rt = "pending"
         \/ RetryFires /\ h = retry /\ retry = gen /\ st.rt = "pending"
         \/ WarmStep(h)
<1>1. warm \in [1..MaxGen -> WarmUps]
  BY Given
<1>2. CASE InitFinishes
  BY <1>1, <1>2 DEF InitFinishes
<1>3. CASE RetryFires
  BY <1>1, <1>3 DEF RetryFires
<1>4. ASSUME NEW g \in 1..MaxGen, WarmStep(g) PROVE WarmStep(h)
  BY <1>4, WarmStepIsLocal
<1> QED
  BY <1>2, <1>3, <1>4, WarmUpSteps DEF WarmStep

LEMMA TypesKept == IInv /\ Next => Types'
BY SourceTypes, NumberTypes, FlagTypes, RequestTypes, WarmUpTypes, LoadTypes, StateIsOK
   DEF Types, Flags, Threads, StateOK

\* What an initialize does to its request when it replaces the state, or starts over.
LEMMA InitializeSteps ==
  ASSUME IInv, InitApplies \/ InitMeetsEdit
  PROVE  /\ main \in Initializing /\ main.step = "init"
         /\ InitApplies => main'.step = "finish" /\ main'.rt = main.rt
         /\ InitMeetsEdit => main'.step \in {"init", "idle"}
<1>1. main \in Initializing /\ main.step = "init"
  BY Given, RequestKinds DEF InitApplies, InitMeetsEdit
<1>2. ASSUME InitApplies PROVE main'.step = "finish" /\ main'.rt = main.rt
  <2>1. main' = [main EXCEPT !.step = "finish"]
    BY <1>2 DEF InitApplies
  <2> QED
    BY <1>1, <2>1 DEF Initializing
<1>3. ASSUME InitMeetsEdit PROVE main'.step \in {"init", "idle"}
  <2> DEFINE m == [main EXCEPT !.snap = disk]
             n == [m EXCEPT !.hit = FALSE]
  <2>1. m \in Initializing /\ m.step = "init"
    BY <1>1, Given DEF Initializing
  <2>2. [main EXCEPT !.snap = disk, !.hit = FALSE] = n
    BY Zenon
  <2> HIDE DEF m
  <2>3. n.step = "init"
    BY <2>1 DEF Initializing
  <2> HIDE DEF n
  <2>4. main' \in {n, Idle}
    BY <1>3, <2>2, Zenon DEF InitMeetsEdit
  <2> QED
    BY <2>3, <2>4 DEF Idle
<1> QED
  BY <1>1, <1>2, <1>3

LEMMA WorkableKept == IInv /\ Next => Workable'
<1> SUFFICES ASSUME IInv, Next PROVE Workable'
  OBVIOUS
<1>1. owner # 0 => owner' # 0
  BY Generations, Given
<1>2. main'.step = "save" => owner # 0
  <2>1. CASE SaveEnds \/ StartInit \/ Reserve \/ InitFinishes
    BY <2>1 DEF SaveEnds, StartInit, Reserve, InitFinishes, Idle
  <2>2. CASE InitApplies \/ InitMeetsEdit
    BY <2>2, InitializeSteps
  <2>3. ASSUME NEW l \in Label, StartSave(l) PROVE owner # 0
    BY <2>3, Given DEF StartSave
  <2> QED
    BY <2>1, <2>2, <2>3, SaveCases, Given, MainSteps
<1>3. rpending' \/ refresh' # None => owner # 0
  <2>1. ASSUME ScheduleRefresh(st) PROVE rpending' \/ refresh' # None => owner # 0
    BY <2>1, Given DEF ScheduleRefresh, members, Dead
  <2>2. CASE SaveEnds
    BY <2>1, <2>2 DEF SaveEnds
  <2>3. CASE Reserve
    BY <2>3, Given DEF Reserve, CancelRefresh, Dead
  <2>4. CASE InitFinishes
    BY <2>1, <2>4, Given DEF InitFinishes, members
  <2>5. CASE RefreshFires
    BY <2>5, Given DEF RefreshFires
  <2>6. CASE RefreshCaptures \/ RefreshFails \/ RefreshAdopts
    BY <2>6, Given DEF RefreshCaptures, RefreshFails, RefreshAdopts
  <2>7. ASSUME NEW g \in 1..MaxGen, WarmFinishes(g) \/ FreshSchedules(g)
        PROVE  rpending' \/ refresh' # None => owner # 0
    BY <2>1, <2>7, Given DEF WarmFinishes, FreshSchedules, members
  <2> QED
    BY <2>2, <2>3, <2>4, <2>5, <2>6, <2>7, Given, RefreshSteps
<1>4. load' # None => owner # 0
  <2>1. CASE IdleFires \/ OnDemand
    BY <2>1, StartedLoad, Given DEF IdleFires, OnDemand
  <2>2. CASE LoadAdopts \/ LoadFails \/ LoadEnds
    BY <2>2, Given DEF LoadAdopts, LoadFails, LoadEnds
  <2> QED
    BY <2>1, <2>2, Given, LoadSteps
<1> QED
  BY <1>1, <1>2, <1>3, <1>4 DEF Workable

-----------------------------------------------------------------------------
\* The initialize and the warm-up.

\* What the main thread does to an initialize.
LEMMA MainChanges ==
  ASSUME IInv, Next, main'.step \in {"init", "finish"}
  PROVE  \/ UNCHANGED main /\ main \in Initializing
         \/ Reserve /\ main'.step = "init"
         \/ InitApplies /\ main'.step = "finish" /\ main \in Initializing /\ main'.rt = main.rt
         \/ InitMeetsEdit /\ main'.step = "init"
<1>1. CASE UNCHANGED main
  BY <1>1, Given, RequestKinds
<1>2. CASE SaveCommits
  <2>1. main'.step \in {"save", "saved"}
    <3>1. \/ main' = SaveRead(main.label, main.att + 1)
          \/ main' = [step |-> "saved"]
      BY <1>2, SaveCases DEF CommitSave
    <3> QED
      BY <3>1 DEF SaveRead
  <2> QED
    BY <2>1
<1>3. CASE SaveEnds \/ StartInit \/ InitFinishes
  BY <1>3 DEF SaveEnds, StartInit, InitFinishes, Idle
<1>4. CASE Reserve
  BY <1>4 DEF Reserve
<1>5. CASE InitApplies \/ InitMeetsEdit
  BY <1>5, InitializeSteps
<1>6. ASSUME NEW l \in Label, StartSave(l) PROVE main'.step = "save"
  BY <1>6 DEF StartSave, SaveRead
<1> QED
  BY <1>1, <1>2, <1>3, <1>4, <1>5, <1>6, MainSteps

\* While an initialize replaces the state, no warm-up of its generation does.
LEMMA NoWarmUp ==
  ASSUME IInv, Next, main.step \in {"init", "finish"}
  PROVE  /\ retry = 0 /\ \A g \in 1..MaxGen : ~Replaces(g)
         /\ ~InitFinishes =>
              UNCHANGED retry /\ \A g \in 1..MaxGen : g = gen => warm'[g].step = "off"
<1>1. retry = 0 /\ \A g \in 1..MaxGen : g = gen => warm[g].step = "off"
  BY DEF IInv, InitializeOK
<1>2. ASSUME NEW g \in 1..MaxGen, g = gen PROVE ~WarmStep(g)
  BY <1>1, <1>2, WarmStepIsOn
<1>3. ASSUME NEW g \in 1..MaxGen PROVE ~Replaces(g)
  BY <1>2, <1>3 DEF Replaces, WarmStep
<1>4. ASSUME NEW g \in 1..MaxGen, g = gen, ~InitFinishes PROVE warm'[g].step = "off"
  BY <1>1, <1>2, <1>4, WarmUpChanges DEF RetryFires
<1>5. UNCHANGED retry
  <2>1. CASE Reserve \/ RetryFires
    BY <1>1, <2>1 DEF Reserve, RetryFires
  <2>2. ASSUME NEW g \in 1..MaxGen, FreshVerifies(g) \/ FreshApplies(g) PROVE UNCHANGED retry
    <3>1. g # gen
      BY <1>2, <2>2 DEF WarmStep
    <3> QED
      BY <2>2, <3>1 DEF FreshVerifies, FreshApplies, FreshCurrent, Repeat
  <2> QED
    BY <2>1, <2>2, RetrySteps
<1> QED
  BY <1>1, <1>3, <1>4, <1>5

LEMMA InitializeKept == IInv /\ Next => InitializeOK'
<1> SUFFICES ASSUME IInv, Next PROVE InitializeOK'
  OBVIOUS
<1>1. owner' <= gen'
  BY Generations
<1>2. SUFFICES ASSUME main'.step \in {"init", "finish"}
               PROVE  /\ main'.step = "init" => owner' < gen'
                      /\ retry' = 0 /\ \A g \in 1..MaxGen : g = gen' => warm'[g].step = "off"
                      /\ main'.step = "finish" =>
                           owner' = gen' /\ owner' # 0 /\ (main'.rt = "pending" => st'.rt = "pending")
  BY <1>1 DEF InitializeOK
<1>3. CASE Reserve
  <2>1. gen' = gen + 1 /\ retry' = 0 /\ UNCHANGED <<owner, warm>> /\ main'.step = "init"
    BY <1>3 DEF Reserve, history
  <2>2. owner <= gen
    BY DEF IInv, InitializeOK
  <2>3. \A g \in 1..MaxGen : g = gen + 1 => warm[g].step = "off"
    BY Given DEF IInv, WarmUpOK
  <2> QED
    BY <2>1, <2>2, <2>3, Given
<1>4. CASE ~Reserve /\ main.step \in {"init", "finish"}
  <2>1. gen' = gen /\ ~InitFinishes
    <3>1. ~InitFinishes
      BY <1>2 DEF InitFinishes, Idle
    <3> QED
      BY <1>4, <3>1, Generations
  <2>2. retry' = 0 /\ \A g \in 1..MaxGen : g = gen' => warm'[g].step = "off"
    BY <1>4, <2>1, NoWarmUp
  <2>3. main'.step = "init" => owner' < gen'
    <3> SUFFICES ASSUME main'.step = "init" PROVE owner' < gen'
      OBVIOUS
    <3>1. main.step = "init" /\ ~InitApplies
      BY <1>2, <1>4, MainChanges, InitializeSteps
    <3>2. ASSUME NEW g \in 1..MaxGen, FreshApplies(g) PROVE UNCHANGED owner
      BY <1>4, <3>2, FreshReplaces, NoWarmUp DEF FreshApplies
    <3>3. owner < gen
      BY <3>1 DEF IInv, InitializeOK
    <3> QED
      BY <2>1, <3>1, <3>2, <3>3, OwnerSteps
  <2>4. main'.step = "finish" => owner' = gen' /\ owner' # 0 /\ (main'.rt = "pending" => st'.rt = "pending")
    <3> SUFFICES ASSUME main'.step = "finish"
                 PROVE  owner' = gen' /\ owner' # 0 /\ (main'.rt = "pending" => st'.rt = "pending")
      OBVIOUS
    <3>1. CASE InitApplies
      <4>1. owner' = gen /\ st' = Fresh(main.snap, main.rt, main.hit) /\ main'.rt = main.rt
        BY <1>2, <3>1, MainChanges DEF InitApplies, Reserve, InitMeetsEdit
      <4>2. owner < gen
        BY <3>1 DEF InitApplies, IInv, InitializeOK
      <4> QED
        BY <2>1, <4>1, <4>2, Given DEF Fresh
    <3>2. CASE ~InitApplies
      <4>1. UNCHANGED main /\ main.step = "finish"
        BY <1>2, <1>4, <3>2, MainChanges
      <4>2. owner = gen /\ owner # 0 /\ (main.rt = "pending" => st.rt = "pending")
        BY <4>1 DEF IInv, InitializeOK
      <4>3. ~SaveCommits
        BY <4>1 DEF SaveCommits
      <4>4. st'.rt = st.rt
        BY <1>4, <3>2, <4>2, <4>3, NoWarmUp, Replacements
      <4> QED
        BY <2>1, <4>1, <4>2, <4>4, Generations
    <3> QED
      BY <3>1, <3>2
  <2> QED
    BY <2>2, <2>3, <2>4
<1>5. main.step \in {"init", "finish"} \/ Reserve
  BY <1>2, MainChanges DEF InitApplies, InitMeetsEdit
<1> QED
  BY <1>3, <1>4, <1>5

\* A warm-up that still has no runtime had none before the step.
LEMMA WarmUpPends ==
  ASSUME IInv, NEW h \in 1..MaxGen, WarmStep(h), warm'[h].step \in Pending
  PROVE  warm[h].step \in Pending
<1>1. warm \in [1..MaxGen -> WarmUps]
  BY Given
<1>2. CASE WarmFinishes(h) \/ FreshPublishes(h) \/ WarmFails(h)
  <2>1. warm' = [warm EXCEPT ![h] = Off]
    BY <1>2 DEF WarmFinishes, FreshPublishes, WarmFails, WarmOff
  <2>2. warm'[h].step = "off"
    BY <1>1, <2>1 DEF Off
  <2> QED
    BY <2>2 DEF Pending
<1>3. CASE FreshSchedules(h)
  <2>1. warm[h] \in Verified /\ warm' = [warm EXCEPT ![h].step = "announce"]
    BY <1>3, Given, WarmUpKinds DEF FreshSchedules
  <2>2. warm'[h].step = "announce"
    BY <1>1, <2>1 DEF Verified
  <2> QED
    BY <2>2 DEF Pending
<1> QED
  BY <1>2, <1>3 DEF WarmStep, WarmReads, WarmApplies, FreshReads, FreshVerifies, FreshApplies, FreshRereads,
     Pending

LEMMA RuntimePends ==
  ASSUME IInv, Next, gen' = gen, NEW h \in 1..MaxGen, h = gen, warm'[h].step \in Pending
  PROVE  st'.rt = "pending"
<1>1. CASE InitFinishes /\ main.rt = "pending"
  BY <1>1 DEF InitFinishes, IInv, InitializeOK
<1>2. CASE RetryFires /\ st.rt = "pending"
  BY <1>2 DEF RetryFires
<1>3. CASE warm[h].step \in Pending
  <2>1. st.rt = "pending" /\ owner = gen /\ owner # 0
    BY <1>3, Given DEF IInv, WarmUpOK, Pending
  <2>2. ~InitApplies
    BY <2>1, Given DEF InitApplies, IInv, InitializeOK
  <2>3. ASSUME NEW g \in 1..MaxGen PROVE ~Replaces(g)
    BY DEF Replaces, Pending
  <2> QED
    BY <2>1, <2>2, <2>3, Replacements, SaveKeepsRuntime
<1> QED
  BY <1>1, <1>2, <1>3, WarmUpChanges, WarmUpPends

LEMMA WarmUpKept == IInv /\ Next => WarmUpOK'
<1> SUFFICES ASSUME IInv, Next PROVE WarmUpOK'
  OBVIOUS
<1>1. ASSUME NEW g \in 1..MaxGen, warm'[g].step # "off"
      PROVE  g <= gen /\ (g = gen => owner = gen)
  <2>1. CASE warm[g].step # "off"
    BY <2>1 DEF IInv, WarmUpOK
  <2>2. CASE InitFinishes /\ g = gen
    BY <2>2, Given DEF InitFinishes, IInv, InitializeOK
  <2>3. CASE RetryFires /\ g = retry
    BY <2>3, Given DEF RetryFires, IInv, WarmUpOK
  <2> QED
    BY <1>1, <2>1, <2>2, <2>3, WarmUpChanges, WarmStepIsOn
<1>2. gen' = gen \/ gen' = gen + 1
  BY Generations DEF Reserve
<1>3. ASSUME NEW g \in 1..MaxGen, warm'[g].step # "off" PROVE g <= gen' /\ (g = gen' => gen' = gen)
  BY <1>1, <1>2, <1>3, Given
<1>4. ASSUME NEW g \in 1..MaxGen, g = gen', warm'[g].step # "off" PROVE owner' = gen'
  BY <1>1, <1>3, <1>4, Generations
<1>5. ASSUME NEW g \in 1..MaxGen, g = gen', warm'[g].step \in Pending PROVE st'.rt = "pending"
  BY <1>3, <1>5, RuntimePends DEF Pending
<1>6. retry' # 0 => retry' = gen' /\ owner' = gen'
  <2>1. retry # 0 => retry = gen /\ owner = gen
    BY DEF IInv, WarmUpOK
  <2>2. CASE Reserve \/ RetryFires
    BY <2>2 DEF Reserve, RetryFires
  <2>3. ASSUME NEW g \in 1..MaxGen, FreshVerifies(g) \/ FreshApplies(g), retry' # retry
        PROVE  retry' = gen /\ owner = gen
    <3>1. retry' = g /\ g = gen
      BY <2>3 DEF FreshVerifies, FreshApplies, Repeat
    <3>2. warm[g].step # "off"
      BY <2>3 DEF FreshVerifies, FreshApplies
    <3> QED
      BY <3>1, <3>2, Given
  <2> QED
    BY <2>1, <2>2, <2>3, RetrySteps, Generations
<1> QED
  BY <1>3, <1>4, <1>5, <1>6 DEF WarmUpOK

-----------------------------------------------------------------------------
\* The load.

\* A commit stamps the models it changes later than every load that began.
LEMMA Stamps ==
  ASSUME IInv, Next, owner # 0,
         ~InitApplies, \A g \in 1..MaxGen : ~Replaces(g), NEW l \in Label
  PROVE  /\ serial' \in {serial, serial + 1}
         /\ st'.idx[l] # st.idx[l] => stamp'[l] = serial + 1
         /\ stamp'[l] \in {stamp[l], serial + 1}
<1>1. st \in State /\ st.idx \in Idx /\ stamp \in [Label -> Nat] /\ serial \in Nat
  BY Given, StateFields
<1>2. CASE SaveCommits
  <2>1. ASSUME NEW rev \in {main.rev, disk[main.label]}, CommitSave(st, main.label, rev)
        PROVE  /\ serial' = serial + 1
               /\ st'.idx[l] # st.idx[l] => stamp'[l] = serial + 1
               /\ stamp'[l] \in {stamp[l], serial + 1}
    <3>1. /\ main.label \in Label /\ serial' = serial + 1 /\ st'.idx = [st.idx EXCEPT ![main.label] = rev]
          /\ rev = st.idx[main.label] => st' = st /\ stamp' = stamp
          /\ rev # st.idx[main.label] => stamp' = [stamp EXCEPT ![main.label] = serial + 1]
      BY <1>2, <2>1, CommitFacts
    <3> QED
      BY <1>1, <3>1 DEF Idx
  <2> QED
    BY <1>2, <2>1, SaveCases
<1>3. CASE RefreshAdopts
  <2>1. st'.idx = st.idx
    <3>1. ASSUME NEW surf, st' = [st EXCEPT !.surf = surf] PROVE st'.idx = st.idx
      BY <1>1, <3>1 DEF State
    <3> QED
      BY <1>3, <3>1, Zenon DEF RefreshAdopts
  <2> QED
    BY <1>1, <1>3, <2>1 DEF RefreshAdopts
<1>4. CASE UNCHANGED <<serial, stamp>> /\ ~SaveCommits
  BY <1>4, Replacements
<1> QED
  BY <1>2, <1>3, <1>4, SerialSteps

LEMMA LoadKept == IInv /\ Next => LoadOK'
<1> SUFFICES ASSUME IInv, Next, load' # None, load'.step = "build"
             PROVE  /\ load'.gen <= gen' /\ load'.owner <= owner' /\ load'.serial <= serial'
                    /\ load'.gen = gen' /\ load'.owner = gen' =>
                         /\ load'.rt = st'.rt /\ load'.rt # "pending"
                         /\ \A l \in Label : stamp'[l] <= load'.serial => load'.idx[l] = st'.idx[l]
  BY DEF LoadOK
<1>1. CASE load' # load
  <2>1. ~LoadAdopts /\ ~LoadEnds
    BY DEF LoadAdopts, LoadEnds
  <2>2. ~LoadFails
    BY DEF LoadFails
  <2>3. IdleFires \/ OnDemand
    BY <1>1, <2>1, <2>2, LoadSteps
  <2>4. UNCHANGED <<st, gen, owner, serial, stamp>> /\ StartLoad
    BY <1>1, <2>3, Zenon DEF IdleFires, OnDemand, history
  <2> QED
    BY <1>1, <2>4, StartedLoad, Given
<1>2. CASE load' = load
  <2>1. load \in Loading /\ load.gen <= gen /\ load.owner <= owner /\ load.serial <= serial
    BY <1>2, Given, LoadKinds DEF IInv, LoadOK
  <2>2. load.gen \in Nat /\ load.owner \in Nat /\ load.serial \in Nat
    BY <2>1 DEF Loading
  <2>3. serial <= serial'
    <3>1. CASE SaveCommits
      <4>1. serial' \in {serial, serial + 1}
        BY <3>1, SaveCases DEF CommitSave
      <4> QED
        BY <4>1, Given
    <3>2. CASE RefreshAdopts
      BY <3>2, Given DEF RefreshAdopts
    <3> QED
      BY <3>1, <3>2, Given, SerialSteps
  <2>4. ASSUME load.gen = gen', load.owner = gen'
        PROVE  /\ load.rt = st'.rt /\ load.rt # "pending"
               /\ \A l \in Label : stamp'[l] <= load.serial => load.idx[l] = st'.idx[l]
    <3>1. gen' = gen /\ owner = gen /\ owner' = owner /\ load.gen = gen /\ load.owner = gen
      BY <2>1, <2>2, <2>4, Generations, Given DEF IInv, InitializeOK
    <3>2. /\ load.rt = st.rt /\ load.rt # "pending" /\ owner # 0
          /\ \A l \in Label : stamp[l] <= load.serial => load.idx[l] = st.idx[l]
      BY <1>2, <3>1, Given DEF IInv, LoadOK
    <3>3. ~InitApplies
      BY <3>1, Given DEF InitApplies, IInv, InitializeOK
    <3>4. ASSUME NEW g \in 1..MaxGen PROVE ~Replaces(g)
      BY <3>2, <3>4 DEF Replaces, WarmApplies, FreshApplies, IInv, WarmUpOK, Pending
    <3>5. load.rt = st'.rt
      BY <3>2, <3>3, <3>4, Replacements, SaveKeepsRuntime
    <3>6. ASSUME NEW l \in Label, stamp'[l] <= load.serial PROVE load.idx[l] = st'.idx[l]
      <4>1. stamp'[l] # serial + 1
        BY <2>1, <2>2, <3>6, Given
      <4>2. stamp'[l] = stamp[l] /\ st'.idx[l] = st.idx[l]
        BY <3>2, <3>3, <3>4, <4>1, Stamps
      <4> QED
        BY <3>2, <3>6, <4>2
    <3> QED
      BY <3>2, <3>5, <3>6
  <2>5. load.gen <= gen' /\ load.owner <= owner' /\ load.serial <= serial'
    <3>1. serial' \in Nat
      BY NumberTypes DEF Numbers
    <3> QED
      BY <2>1, <2>2, <2>3, <3>1, Generations, Given
  <2> QED
    BY <1>2, <2>4, <2>5
<1> QED
  BY <1>1, <1>2

-----------------------------------------------------------------------------
\* The saves.

\* A source that is not saved in an index stays announced until its save commits.
LEMMA CoveredKept ==
  ASSUME IInv, Next, ~SaveCommits, NEW idx, Covered(idx)
  PROVE  \A l \in Label : idx[l] = disk'[l] \/ Caught(l)'
<1> SUFFICES ASSUME NEW l \in Label PROVE idx[l] = disk'[l] \/ Caught(l)'
  OBVIOUS
<1>1. idx[l] = disk[l] \/ Caught(l)
  BY DEF Covered
<1>2. ASSUME NEW k \in Label, Edit(k) PROVE idx[l] = disk'[l] \/ Caught(l)'
  <2>1. /\ disk' = [disk EXCEPT ![k] = @ + 1] /\ queue' = queue \cup {k} /\ UNCHANGED main
        /\ disk \in [Label -> Nat]
    BY <1>2, Given DEF Edit, Idx
  <2> QED
    BY <1>1, <2>1 DEF Caught
<1>3. ASSUME NEW k \in Label, StartSave(k) PROVE idx[l] = disk'[l] \/ Caught(l)'
  <2>1. /\ UNCHANGED disk /\ queue' = queue \ {k} /\ main' = SaveRead(k, 1)
        /\ main.step = "idle"
    BY <1>3 DEF StartSave, Idle
  <2>2. main'.step = "save" /\ main'.label = k /\ main'.rev = disk[k]
    BY <2>1 DEF SaveRead
  <2> QED
    BY <1>1, <2>1, <2>2 DEF Caught
<1>4. CASE UNCHANGED <<disk, queue>> /\ ~\E k \in Label : StartSave(k)
  <2>1. CASE UNCHANGED main
    BY <1>1, <1>4, <2>1 DEF Caught
  <2>2. CASE main.step # "save"
    BY <1>1, <1>4, <2>2 DEF Caught
  <2>3. UNCHANGED main \/ main.step # "save"
    <3>1. CASE SaveEnds \/ StartInit \/ Reserve \/ InitFinishes
      BY <3>1 DEF SaveEnds, StartInit, Reserve, InitFinishes, Idle
    <3>2. CASE InitApplies \/ InitMeetsEdit
      BY <3>2, InitializeSteps
    <3> QED
      BY <1>4, <3>1, <3>2, MainSteps
  <2> QED
    BY <2>1, <2>2, <2>3
<1> QED
  BY <1>2, <1>3, <1>4, SourceSteps

\* A save that reads its source again is still on its way.
LEMMA CoveredRetry ==
  ASSUME IInv, SaveCommits, main' = SaveRead(main.label, main.att + 1), NEW idx, Covered(idx)
  PROVE  \A l \in Label : idx[l] = disk'[l] \/ Caught(l)'
<1>1. UNCHANGED <<disk, queue>>
  BY DEF SaveCommits, source
<1>2. main'.step = "save" /\ main'.label = main.label /\ main'.rev = disk[main.label]
  BY DEF SaveRead
<1> QED
  BY <1>1, <1>2 DEF Covered, Caught

\* A save commits its source, or a later one is announced.
LEMMA CoveredCommit ==
  ASSUME IInv, SaveCommits, NEW rev \in {main.rev, disk[main.label]}, CommitSave(st, main.label, rev),
         Covered(st.idx)
  PROVE  Covered(st.idx)'
<1>1. main.label \in Label /\ st.idx \in Idx /\ st'.idx = [st.idx EXCEPT ![main.label] = rev]
  BY CommitFacts, SaveCases, StateFields
<1>2. UNCHANGED <<disk, queue>> /\ main.step = "save"
  BY DEF SaveCommits, source
<1>3. rev = disk[main.label] \/ main.label \in queue
  BY <1>2 DEF IInv, SavesOK
<1>4. ASSUME NEW l \in Label PROVE st'.idx[l] = disk'[l] \/ l \in queue'
  <2>1. CASE l = main.label
    BY <1>1, <1>2, <1>3, <2>1 DEF Idx
  <2>2. CASE l # main.label
    <3>1. st'.idx[l] = st.idx[l]
      BY <1>1, <2>2 DEF Idx
    <3> QED
      BY <1>2, <2>2, <3>1 DEF Covered, Caught
  <2> QED
    BY <2>1, <2>2
<1> QED
  BY <1>4 DEF Covered, Caught

LEMMA SaveAnnounced ==
  ASSUME IInv, Next, main'.step = "save"
  PROVE  main'.rev = disk'[main'.label] \/ main'.label \in queue'
<1>1. CASE UNCHANGED main
  <2>1. main \in Saving /\ (main.rev = disk[main.label] \/ main.label \in queue)
    BY <1>1, Given, RequestKinds DEF IInv, SavesOK
  <2>2. ASSUME NEW k \in Label, Edit(k) PROVE main.rev = disk'[main.label] \/ main.label \in queue'
    BY <2>1, <2>2, Given DEF Edit, Saving, Idx
  <2>3. ASSUME NEW k \in Label PROVE ~StartSave(k)
    BY <1>1 DEF StartSave, Idle
  <2> QED
    BY <1>1, <2>1, <2>2, <2>3, SourceSteps
<1>2. CASE SaveCommits
  <2>1. main' = SaveRead(main.label, main.att + 1) /\ UNCHANGED disk
    BY <1>2, SaveCases DEF CommitSave, SaveCommits, source
  <2> QED
    BY <2>1 DEF SaveRead
<1>3. ASSUME NEW l \in Label, StartSave(l) PROVE main'.rev = disk'[main'.label]
  BY <1>3 DEF StartSave, SaveRead
<1>4. CASE SaveEnds \/ StartInit \/ Reserve \/ InitFinishes
  BY <1>4 DEF SaveEnds, StartInit, Reserve, InitFinishes, Idle
<1>5. CASE InitApplies \/ InitMeetsEdit
  BY <1>5, InitializeSteps
<1> QED
  BY <1>1, <1>2, <1>3, <1>4, <1>5, MainSteps

\* The serial that a warm-up read with its sources.
LEMMA WarmUpReads ==
  ASSUME IInv, Next, NEW g \in 1..MaxGen, warm'[g] # warm[g], warm'[g].step \in {"inspect", "verified"}
  PROVE  /\ UNCHANGED <<disk, queue, main, serial>>
         /\ \/ warm'[g].serial = serial
            \/ warm[g].step = "inspect" /\ warm'[g].serial = warm[g].serial
         /\ warm'[g].step = "verified" => warm'[g].snap = disk
<1>1. warm \in [1..MaxGen -> WarmUps]
  BY Given
<1>2. ASSUME NEW w, warm' = [warm EXCEPT ![g] = w] PROVE warm'[g] = w
  BY <1>1, <1>2
<1>3. ASSUME WarmOff(g) PROVE warm'[g].step = "off"
  BY <1>2, <1>3 DEF WarmOff, Off
<1>4. ASSUME Repeat(g) PROVE warm'[g].step \in {"loop", "off"}
  <2>1. CASE warm' = [warm EXCEPT ![g] = [step |-> "loop", att |-> warm[g].att + 1]]
    BY <1>2, <2>1
  <2> QED
    BY <1>3, <1>4, <2>1 DEF Repeat
<1>5. ASSUME InitFinishes \/ RetryFires PROVE warm'[g].step \in {"loop", "import"}
  <2>1. \/ warm' = warm
        \/ \E h : warm' = [warm EXCEPT ![h] = [step |-> "loop", att |-> 1]]
        \/ \E h : warm' = [warm EXCEPT ![h] = [step |-> "import"]]
    BY <1>5 DEF InitFinishes, RetryFires
  <2>2. ASSUME NEW h, warm' = [warm EXCEPT ![h] = [step |-> "loop", att |-> 1]] PROVE warm'[g].step = "loop"
    BY <1>1, <2>2
  <2>3. ASSUME NEW h, warm' = [warm EXCEPT ![h] = [step |-> "import"]] PROVE warm'[g].step = "import"
    BY <1>1, <2>3
  <2> QED
    BY <2>1, <2>2, <2>3
<1>6. CASE WarmReads(g)
  <2>1. warm'[g].step \in {"off", "build"}
    <3>1. ASSUME NEW rt, warm' = [warm EXCEPT ![g] = [step |-> "build", rt |-> rt, idx |-> st.idx, att |-> 1]]
          PROVE  warm'[g].step = "build"
      BY <1>2, <3>1
    <3> QED
      BY <1>3, <1>6, <3>1 DEF WarmReads
  <2> QED
    BY <2>1
<1>7. CASE WarmApplies(g)
  <2>1. warm[g] \in Building /\ warm[g].step = "build"
    BY <1>7, Given, WarmUpKinds DEF WarmApplies
  <2> DEFINE w == [warm[g] EXCEPT !.idx = st.idx]
             v == [w EXCEPT !.att = @ + 1]
  <2>2. [warm[g] EXCEPT !.idx = st.idx, !.att = @ + 1] = v
    BY Zenon
  <2>3. w \in [step : {"build"}, rt : RT, idx : {st.idx}, att : Nat]
    BY <2>1 DEF Building
  <2> HIDE DEF w
  <2>4. v.step = "build"
    BY <2>3
  <2> HIDE DEF v
  <2>5. \/ WarmOff(g)
        \/ warm' = [warm EXCEPT ![g] = v]
        \/ warm' = [warm EXCEPT ![g] = [step |-> "warmed", dirty |-> dirty]]
    BY <1>7, <2>2, Zenon DEF WarmApplies
  <2>6. warm'[g].step \in {"off", "build", "warmed"}
    BY <1>2, <1>3, <2>4, <2>5
  <2> QED
    BY <2>6
<1>8. CASE WarmFinishes(g) \/ FreshPublishes(g) \/ WarmFails(g)
  <2>1. WarmOff(g)
    BY <1>8 DEF WarmFinishes, FreshPublishes, WarmFails
  <2> QED
    BY <1>3, <2>1
<1>9. CASE FreshReads(g)
  <2>1. \/ WarmOff(g)
        \/ warm' = [warm EXCEPT ![g] = [step |-> "inspect", att |-> warm[g].att, serial |-> serial,
                                         snap |-> disk]]
    BY <1>9 DEF FreshReads
  <2>2. UNCHANGED <<disk, queue, main, serial>>
    BY <1>9 DEF FreshReads, source
  <2> QED
    BY <1>2, <1>3, <2>1, <2>2
<1>10. CASE FreshVerifies(g)
  <2>1. UNCHANGED <<disk, queue, main, serial>> /\ warm[g].step = "inspect"
    BY <1>10 DEF FreshVerifies, source
  <2>2. ASSUME NEW rt, disk = warm[g].snap,
               warm' = [warm EXCEPT ![g] = [step |-> "verified", rt |-> rt, att |-> warm[g].att,
                                            serial |-> warm[g].serial, snap |-> warm[g].snap]]
        PROVE  warm'[g].serial = warm[g].serial /\ warm'[g].snap = disk
    BY <1>2, <2>2
  <2>3. \/ Repeat(g) \/ WarmOff(g)
        \/ disk = warm[g].snap /\ \E rt \in {"ready", "failed"} :
             warm' = [warm EXCEPT ![g] = [step |-> "verified", rt |-> rt, att |-> warm[g].att,
                                          serial |-> warm[g].serial, snap |-> warm[g].snap]]
    BY <1>10 DEF FreshVerifies
  <2> QED
    BY <1>3, <1>4, <2>1, <2>2, <2>3
<1>11. CASE FreshApplies(g) \/ FreshSchedules(g)
  <2>1. warm[g] \in Verified
    BY <1>11, Given, WarmUpKinds DEF FreshApplies, FreshSchedules
  <2>2. ASSUME NEW s, warm' = [warm EXCEPT ![g] = [warm[g] EXCEPT !.step = s]] PROVE warm'[g].step = s
    BY <1>2, <2>1, <2>2 DEF Verified
  <2>3. \/ Repeat(g)
        \/ \E s \in {"applied", "announce"} : warm' = [warm EXCEPT ![g] = [warm[g] EXCEPT !.step = s]]
    BY <1>11, Zenon DEF FreshApplies, FreshSchedules
  <2>4. warm'[g].step \in {"loop", "off", "applied", "announce"}
    BY <1>4, <2>2, <2>3
  <2> QED
    BY <2>4
<1>12. CASE FreshRereads(g)
  <2>1. warm[g] \in Inspecting /\ warm[g].step = "inspect" /\ warm[g].serial = serial
    BY <1>12, Given, WarmUpKinds DEF FreshRereads
  <2>2. UNCHANGED <<disk, queue, main, serial>>
    BY <1>12 DEF FreshRereads, source
  <2>3. warm' = [warm EXCEPT ![g] = [warm[g] EXCEPT !.snap = disk]]
    BY <1>12, Zenon DEF FreshRereads
  <2>4. [warm[g] EXCEPT !.snap = disk].step = "inspect"
       /\ [warm[g] EXCEPT !.snap = disk].serial = warm[g].serial
    BY <2>1 DEF Inspecting
  <2> QED
    BY <1>2, <2>1, <2>2, <2>3, <2>4
<1> QED
  BY <1>5, <1>6, <1>7, <1>8, <1>9, <1>10, <1>11, <1>12, WarmUpChanges DEF WarmStep

LEMMA SavesKept == IInv /\ Next => SavesOK'
<1> SUFFICES ASSUME IInv, Next PROVE SavesOK'
  OBVIOUS
<1>1. main'.step = "save" => main'.rev = disk'[main'.label] \/ main'.label \in queue'
  BY SaveAnnounced
<1>2. serial' \in {serial, serial + 1} /\ serial \in Nat
  BY Given, SerialSteps, SaveCases DEF CommitSave, RefreshAdopts
<1>3. ASSUME NEW g \in 1..MaxGen, warm'[g].step \in {"inspect", "verified"}
      PROVE  /\ warm'[g].serial <= serial /\ warm'[g].serial \in Nat
             /\ warm'[g].step = "verified" /\ warm'[g] # warm[g] =>
                  warm'[g].snap = disk' /\ UNCHANGED <<disk, queue, main, serial>>
  <2>1. \A w \in WarmUps : w.step \in {"inspect", "verified"} => w.serial \in Nat
    BY WarmUpKinds DEF Inspecting, Verified
  <2>2. warm'[g].serial \in Nat
    BY <1>3, <2>1, WarmUpTypes
  <2>3. warm[g].step \in {"inspect", "verified"} => warm[g].serial <= serial
    BY DEF IInv, SavesOK
  <2>4. CASE warm'[g] = warm[g]
    BY <1>3, <2>2, <2>3, <2>4
  <2>5. CASE warm'[g] # warm[g]
    <3>1. /\ UNCHANGED <<disk, queue, main, serial>>
          /\ \/ warm'[g].serial = serial
             \/ warm[g].step = "inspect" /\ warm'[g].serial = warm[g].serial
          /\ warm'[g].step = "verified" => warm'[g].snap = disk
      BY <1>3, <2>5, WarmUpReads
    <3> QED
      BY <1>2, <2>2, <2>3, <3>1
  <2> QED
    BY <2>4, <2>5
<1>4. owner' # 0 /\ owner' = gen' => Covered(st.idx)'
  <2> SUFFICES ASSUME owner' # 0, owner' = gen' PROVE Covered(st.idx)'
    OBVIOUS
  <2>1. gen' = gen /\ (owner' = owner \/ owner' = gen)
    <3>1. gen' = gen \/ (gen' = gen + 1 /\ owner' = owner)
      BY Zenon, GenerationSteps DEF Reserve
    <3>2. owner <= gen /\ owner \in Nat /\ gen \in Nat
      BY Given DEF IInv, InitializeOK
    <3> QED
      BY <3>1, <3>2, Generations
  <2>2. CASE InitApplies
    <3>1. st'.idx = disk'
      BY <2>2 DEF InitApplies, Fresh, source
    <3> QED
      BY <3>1 DEF Covered
  <2>3. ASSUME NEW g \in 1..MaxGen, FreshApplies(g), FreshCurrent(g) PROVE Covered(st.idx)'
    <3>1. Covered(warm[g].snap)
      BY <2>3 DEF FreshApplies, FreshCurrent, IInv, SavesOK
    <3>2. ~SaveCommits
      <4>1. warm[g].step = "verified" /\ warm'[g].step \in {"warmed", "applied"}
        BY <2>3, FreshReplaces DEF FreshApplies, Replaces
      <4> QED
        BY <4>1 DEF SaveCommits, warming
    <3> DEFINE idx == warm[g].snap
    <3>3. st'.idx = idx
      BY <2>3, FreshReplaces DEF Fresh
    <3> HIDE DEF idx
    <3>4. \A l \in Label : idx[l] = disk'[l] \/ Caught(l)'
      BY <3>1, <3>2, CoveredKept DEF idx
    <3> QED
      BY <3>3, <3>4 DEF Covered
  <2>4. CASE ~InitApplies /\ ~\E g \in 1..MaxGen : FreshApplies(g) /\ FreshCurrent(g)
    <3>1. UNCHANGED owner
      BY <2>4, OwnerSteps DEF FreshApplies
    <3>2. Covered(st.idx) /\ owner # 0
      BY <2>1, <3>1 DEF IInv, SavesOK
    <3>3. CASE SaveCommits
      <4>1. CASE UNCHANGED st /\ main' = SaveRead(main.label, main.att + 1)
        BY <3>2, <3>3, <4>1, CoveredRetry DEF Covered
      <4>2. ASSUME NEW rev \in {main.rev, disk[main.label]}, CommitSave(st, main.label, rev)
            PROVE  Covered(st.idx)'
        BY <3>2, <3>3, <4>2, CoveredCommit
      <4> QED
        BY <3>3, <4>1, <4>2, SaveCases
    <3>4. CASE ~SaveCommits
      <4>1. \A l \in Label : st.idx[l] = disk'[l] \/ Caught(l)'
        BY <3>2, <3>4, CoveredKept
      <4>2. st'.idx = st.idx
        <5>1. ASSUME NEW g \in 1..MaxGen, Replaces(g) PROVE st'.idx = st.idx
          <6>1. CASE WarmApplies(g)
            BY <6>1, WarmReplaces
          <6>2. CASE FreshApplies(g)
            BY <2>4, <6>2 DEF FreshApplies
          <6> QED
            BY <5>1, <6>1, <6>2 DEF Replaces
        <5> QED
          BY <2>4, <3>2, <3>4, <5>1, Replacements
      <4> QED
        BY <4>1, <4>2 DEF Covered
    <3> QED
      BY <3>3, <3>4
  <2> QED
    BY <2>2, <2>3, <2>4
<1>5. ASSUME NEW g \in 1..MaxGen, g = gen', warm'[g].step = "verified", warm'[g].serial = serial'
      PROVE  \A l \in Label : warm'[g].snap[l] = disk'[l] \/ Caught(l)'
  <2>1. CASE warm'[g] # warm[g]
    BY <1>3, <1>5, <2>1
  <2>2. CASE warm'[g] = warm[g]
    <3>1. gen' = gen
      <4>1. g <= gen
        BY <1>5, <2>2 DEF IInv, WarmUpOK
      <4> QED
        BY <1>5, <4>1, Generations, Given
    <3>2. serial' = serial
      BY <1>2, <1>3, <1>5
    <3> DEFINE idx == warm[g].snap
    <3>3. Covered(idx)
      BY <1>5, <2>2, <3>1, <3>2 DEF IInv, SavesOK
    <3>4. CASE SaveCommits
      <4>1. main' = SaveRead(main.label, main.att + 1)
        <5>1. ASSUME NEW rev, CommitSave(st, main.label, rev) PROVE FALSE
          BY <1>2, <3>2, <5>1 DEF CommitSave
        <5> QED
          BY <3>4, <5>1, SaveCases
      <4> HIDE DEF idx
      <4>2. \A l \in Label : idx[l] = disk'[l] \/ Caught(l)'
        BY <3>3, <3>4, <4>1, CoveredRetry
      <4> QED
        BY <2>2, <4>2 DEF idx
    <3>5. CASE ~SaveCommits
      <4> HIDE DEF idx
      <4>1. \A l \in Label : idx[l] = disk'[l] \/ Caught(l)'
        BY <3>3, <3>5, CoveredKept
      <4> QED
        BY <2>2, <4>1 DEF idx
    <3> QED
      BY <3>4, <3>5
  <2> QED
    BY <2>1, <2>2
<1>6. \A g \in 1..MaxGen : warm'[g].step \in {"inspect", "verified"} => warm'[g].serial <= serial'
  BY <1>2, <1>3
<1> QED
  BY <1>1, <1>4, <1>5, <1>6 DEF SavesOK, Covered

-----------------------------------------------------------------------------
\* The invariant and the properties.

LEMMA InitInvariant == Init => IInv
<1> SUFFICES ASSUME Init PROVE IInv
  OBVIOUS
<1>1. Types /\ Workable
  BY InitTypes
<1>2. \A g \in 1..MaxGen : warm[g].step = "off"
  BY DEF Init, Off
<1>3. owner = 0 /\ gen = 0 /\ retry = 0 /\ load = None /\ main.step = "idle"
  BY DEF Init, Idle
<1>4. GraphOK /\ SurfaceOK /\ LoadOK
  BY <1>3 DEF GraphOK, SurfaceOK, LoadOK
<1>5. InitializeOK
  BY <1>3 DEF InitializeOK
<1>6. WarmUpOK /\ SavesOK
  BY <1>2, <1>3 DEF WarmUpOK, SavesOK, Pending
<1> QED
  BY <1>1, <1>4, <1>5, <1>6 DEF IInv

LEMMA StutterInvariant == IInv /\ UNCHANGED vars => IInv'
BY DEF vars, source, members, loading, warming, history, IInv, Types, Sources, Numbers, Flags, Threads, Made,
       Workable, GraphOK, SurfaceOK, InitializeOK, WarmUpOK, LoadOK, SavesOK, Covered, Caught

\* The invariant that the results below rest on: a state is its own generation's,
\* what computes from it knows whose it read, and a source it lacks is announced.
THEOREM InvariantHolds == Spec => []IInv
<1>1. IInv /\ Next => IInv'
  BY TypesKept, WorkableKept, StateIsOK, InitializeKept, WarmUpKept, LoadKept, SavesKept
     DEF IInv, StateOK
<1>2. IInv /\ [Next]_vars => IInv'
  BY <1>1, StutterInvariant
<1> QED
  BY <1>2, InitInvariant, PTL DEF Spec

\* No commit of a save, a warm-up or an initialize leaves a graph that is not the
\* one of the index and the runtime beside it.
THEOREM GraphIsCurrentHolds == Spec => []GraphIsCurrent
<1>1. IInv => GraphIsCurrent
  BY Given DEF IInv, GraphOK, GraphIsCurrent
<1> QED
  BY <1>1, InvariantHolds, PTL

\* A loaded or reindexed surface agrees with the state it is in, row by row,
\* unless a load crossed an initialize.
THEOREM SurfaceIsCurrentHolds == Spec => []SurfaceIsCurrent
<1>1. IInv => SurfaceIsCurrent
  BY Given DEF IInv, SurfaceOK, SurfaceIsCurrent
<1> QED
  BY <1>1, InvariantHolds, PTL

\* Whoever replaced the state meanwhile, the index is the saved sources' once
\* every save was handled.
THEOREM SavesAreIndexedHolds == Spec => []SavesAreIndexed
<1>1. IInv => SavesAreIndexed
  <2> SUFFICES ASSUME IInv, st # None, owner = gen, queue = {}, main = Idle PROVE st.idx = disk
    BY DEF SavesAreIndexed
  <2>1. st.idx \in Idx /\ disk \in Idx /\ owner # 0
    BY Given, StateFields
  <2>2. main.step # "save"
    BY DEF Idle
  <2>3. \A l \in Label : st.idx[l] = disk[l]
    BY <2>1, <2>2 DEF IInv, SavesOK, Covered, Caught
  <2> QED
    BY <2>1, <2>3 DEF Idx
<1> QED
  BY <1>1, InvariantHolds, PTL

=============================================================================
