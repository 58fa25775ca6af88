------------------------------ MODULE MemberData ------------------------------
(***************************************************************************)
(* What the members of the models are computed from, for the daemon's      *)
(* cache of them (_MemberSurfaceCache of features/orm_members.py).         *)
(*                                                                         *)
(* An owner is a snapshot of the daemon's state: a static index and, as    *)
(* one number, a runtime inspection with a model graph.  data holds, for   *)
(* each index and label, the stamp of the change that last affected what   *)
(* its members are: an edit makes a new index, an installed capture        *)
(* changes one in place.  view is the latest runtime and graph of an       *)
(* index; an owner with an older one, or with an index that was made from  *)
(* such an owner, is superseded: only requests begun before still hold it. *)
(***************************************************************************)
EXTENDS Naturals, Sequences

CONSTANTS
  Labels,        \* the models
  MaxIndexes,    \* bound on the static indexes
  MaxChanges     \* bound on the changes to what the members are computed from

ASSUME DataAssumption == MaxIndexes \in Nat /\ MaxChanges \in Nat

VARIABLES
  data,          \* for each static index, label -> the stamp of its last change
  view,          \* for each static index, its latest runtime and graph, or 0
  registry,      \* Django's registry is ready in this process
  changes        \* the changes so far

dataVars == <<data, view, registry, changes>>

InitData ==
  /\ data = <<[l \in Labels |-> 0]>>
  /\ view = <<1>>
  /\ registry = FALSE
  /\ changes = 0

Owner(s, v) == [index |-> s, view |-> v]

Owners == {Owner(s, v) : s \in DOMAIN data, v \in 1..(MaxChanges + 1)}

\* The snapshots that were the daemon's at some time.
Made(o) == o.index \in DOMAIN data /\ (o.view <= view[o.index] \/ o.view = 1)

IsLive(o) == view[o.index] = o.view

Changed == changes < MaxChanges /\ changes' = changes + 1

\* A reindex of the snapshot p: a new index, in which some labels changed.
Reindexed(p, labels) ==
  /\ Len(data) < MaxIndexes
  /\ Changed
  /\ data' = Append(data, [l \in Labels |-> IF l \in labels THEN changes' ELSE data[p.index][l]])
  /\ view' = Append(view, IF IsLive(p) THEN 1 ELSE 0)
  /\ UNCHANGED registry

\* A capture is installed in an index, with its own runtime and graph or with
\* new ones.
Installed(s, v) ==
  /\ view[s] > 0
  /\ v \in {view[s], view[s] + 1}
  /\ Changed
  /\ data' = [data EXCEPT ![s] = [l \in Labels |-> changes']]
  /\ view' = [view EXCEPT ![s] = v]
  /\ UNCHANGED registry

\* A reindex replaces the lookup catalogue of the runtime, and nothing else.
Recatalogued(s) ==
  /\ view[s] > 0
  /\ Changed
  /\ view' = [view EXCEPT ![s] = @ + 1]
  /\ UNCHANGED <<data, registry>>

\* One model of one index changes in place.
Touched(s, label) ==
  /\ Changed
  /\ data' = [data EXCEPT ![s][label] = changes']
  /\ UNCHANGED <<view, registry>>

\* The prewarm of Django's registry ends.
RegistryReady ==
  /\ ~registry
  /\ Changed
  /\ registry' = TRUE
  /\ UNCHANGED <<data, view>>

\* What a computation for one owner gives now.
Members(o, label) == [stamp |-> data[o.index][label], live |-> registry]

=============================================================================
