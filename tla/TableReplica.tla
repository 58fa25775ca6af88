----------------------------- MODULE TableReplica -----------------------------
(***************************************************************************)
(* What the client may rely on when it serves a copy of the model tables   *)
(* that the daemon owns.                                                   *)
(*                                                                         *)
(* The owner changes its tables and now and then appends one to a log; the *)
(* copy becomes a later entry of the log (a frame), an answer of the owner *)
(* (initialize), or takes over one label of an answer (reindex).  An entry *)
(* exists or not, with a revision that grows; the copy never goes back to  *)
(* an older one that it, or an entry of the log it has reached, already    *)
(* replaced, unless it is marked torn.                                     *)
(*                                                                         *)
(* Numbers, baselines, deltas, requests, timers and threads are left to    *)
(* SurfaceTransport, which implements this.                                *)
(***************************************************************************)
EXTENDS Naturals, Sequences

CONSTANT Label  \* model labels

VARIABLES
  owner,  \* the daemon's table: a revision per label, 0 without an entry
  log,    \* the tables it published
  copy,   \* the client's table
  at,     \* how far in the log the client is
  torn    \* the copy may hold what the log had replaced, until the next frame

vars == <<owner, log, copy, at, torn>>

Table == [Label -> Nat]

\* An entry with revision s may follow one with revision r.
Follows(r, s) == r # 0 /\ s # 0 => r <= s

NotAfter(t, u) == \A l \in Label : Follows(t[l], u[l])
Since(n, t) == \A k \in 1..n : NotAfter(log[k], t)
Latest(t) == t \in Table /\ NotAfter(copy, t) /\ Since(Len(log), t)

Init ==
  /\ owner \in Table /\ log = <<>>
  /\ copy = [l \in Label |-> 0] /\ at = 0 /\ torn = FALSE

\* The owner changes its table, and may publish it at once.
Change ==
  /\ NotAfter(owner, owner') /\ Latest(owner')
  /\ log' \in {log, Append(log, owner')}
  /\ UNCHANGED <<copy, at, torn>>

\* It publishes its table, or an older one that nothing has gone past yet.
Publish ==
  /\ Len(log') = Len(log) + 1
  /\ LET t == log'[Len(log) + 1]
     IN log' = Append(log, t) /\ Latest(t) /\ NotAfter(t, owner)
  /\ UNCHANGED <<owner, copy, at, torn>>

\* The copy becomes a later entry of the log.
Take ==
  /\ at' \in at + 1 .. Len(log)
  /\ copy' = log[at'] /\ NotAfter(copy, copy')
  /\ torn' = FALSE
  /\ UNCHANGED <<owner, log>>

\* The copy becomes an answer: a later entry, or what the owner had meanwhile.
Answer ==
  /\ at' \in at .. Len(log)
  /\ copy' \in Table /\ NotAfter(copy', owner)
  /\ at' > at => copy' = log[at']
  /\ torn' \in BOOLEAN
  /\ ~torn' => NotAfter(copy, copy') /\ Since(at', copy')
  /\ UNCHANGED <<owner, log>>

\* The copy takes over one label of an answer.
Mend(l) ==
  /\ copy' = [copy EXCEPT ![l] = copy'[l]]
  /\ copy' \in Table /\ Follows(copy'[l], owner[l])
  /\ torn' \in BOOLEAN /\ (torn => torn')
  /\ ~torn' => Follows(copy[l], copy'[l]) /\ \A k \in 1..at : Follows(log[k][l], copy'[l])
  /\ UNCHANGED <<owner, log, at>>

\* An answer was not used.
Doubt == torn' = TRUE /\ UNCHANGED <<owner, log, copy, at>>

Next == Change \/ Publish \/ Take \/ Answer \/ Doubt \/ \E l \in Label : Mend(l)

Spec == Init /\ [][Next]_vars
=============================================================================
