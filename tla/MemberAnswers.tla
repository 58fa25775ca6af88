---------------------------- MODULE MemberAnswers ----------------------------
(***************************************************************************)
(* What the member cache promises to the threads that ask it: the answer   *)
(* is what the members of the model were at some moment of the request, in *)
(* the snapshot of the request, however the snapshots change meanwhile.    *)
(* There is no cache here: MemberSurfaceCache implements it.               *)
(***************************************************************************)
EXTENDS MemberData

CONSTANTS Threads

VARIABLE requests   \* thread -> what it asked and since when, or its last answer

NoAnswer == [stamp |-> 0, live |-> FALSE]

Request(state, o, label, live, since, answer) ==
  [state |-> state, owner |-> o, label |-> label, live |-> live, since |-> since, answer |-> answer]

Over(state, answer) == Request(state, Owner(0, 0), "", FALSE, NoAnswer, answer)

Init == InitData /\ requests = [t \in Threads |-> Over("idle", NoAnswer)]

Ask(t) ==
  /\ requests[t].state # "asked"
  /\ \E o \in Owners, l \in Labels :
       /\ Made(o)
       /\ requests' = [requests EXCEPT ![t] = Request("asked", o, l, IsLive(o), Members(o, l), NoAnswer)]
  /\ UNCHANGED dataVars

\* Not older than the question, nor newer than what is there now.
Between(old, answer, now) ==
  /\ old.stamp <= answer.stamp /\ answer.stamp <= now.stamp
  /\ old.live => answer.live
  /\ answer.live => now.live

\* Nothing is promised for a snapshot that was superseded before it was asked.
Answer(t) ==
  /\ requests[t].state = "asked"
  /\ \E stamp \in 0..changes, live \in BOOLEAN :
       LET r == requests[t]
           answer == [stamp |-> stamp, live |-> live]
       IN /\ r.live => Between(r.since, answer, Members(r.owner, r.label))
          /\ requests' = [requests EXCEPT ![t] = Over("answered", answer)]
  /\ UNCHANGED dataVars

\* The computation raised.
Fail(t) ==
  /\ requests[t].state = "asked"
  /\ requests' = [requests EXCEPT ![t] = Over("failed", NoAnswer)]
  /\ UNCHANGED dataVars

Change ==
  /\ \/ \E p \in Owners, labels \in SUBSET Labels : Made(p) /\ Reindexed(p, labels)
     \/ \E s \in DOMAIN data : \E v \in {view[s], view[s] + 1} : Installed(s, v)
     \/ \E s \in DOMAIN data : Recatalogued(s)
     \/ \E s \in DOMAIN data, l \in Labels : Touched(s, l)
     \/ RegistryReady
  /\ UNCHANGED requests

Next == Change \/ \E t \in Threads : Ask(t) \/ Answer(t) \/ Fail(t)

Spec == Init /\ [][Next]_<<dataVars, requests>>

=============================================================================
