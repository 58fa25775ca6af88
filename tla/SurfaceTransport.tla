--------------------------- MODULE SurfaceTransport ---------------------------
(***************************************************************************)
(* Model tables on their way from the Python daemon to the client.         *)
(*                                                                         *)
(* The daemon (SurfaceSnapshotEncoder and its users in server/app.py)      *)
(* numbers its frames and sends what changed since the last one; the       *)
(* client (SurfaceSnapshotDecoder and its users in analysisDaemon.ts)      *)
(* rebuilds the table over the baseline it decoded last, and asks for a    *)
(* full frame when it cannot.  Initialize and reindex replies travel on    *)
(* the same pipe, and frames are dropped while the source configuration    *)
(* is refreshed.                                                           *)
(*                                                                         *)
(* Lines are handled as they arrive, but what a reply resolves runs in a   *)
(* microtask: lines of the same chunk are handled before it (cont).  When  *)
(* a publication is deferred is the subject of SurfacePublication.         *)
(***************************************************************************)
EXTENDS Naturals, Sequences, FiniteSets, TLC

CONSTANTS
  Label,        \* model labels
  Publisher,    \* background threads that adopt and publish tables
  None,         \* no table, no label
  MaxChange,    \* bound: changes of the daemon's table
  MaxReindex,   \* bound: reindex requests
  MaxRefresh,   \* bound: refreshes of the source configuration, repetitions aside
  MaxFail       \* bound: resyncs that time out, and refreshes that fail

ASSUME TransportBounds ==
  /\ None \notin Label \cup [Label -> Nat]
  /\ MaxChange \in Nat /\ MaxReindex \in Nat /\ MaxRefresh \in Nat /\ MaxFail \in Nat

VARIABLES
  table,      \* _last_surface_index: a revision per label, 0 without an entry
  whole,      \* its fingerprints cover exactly its labels
  change,     \* changes of the table so far
  enc,        \* the encoder's baseline: sequence, and table or None
  published,  \* history: the table of every frame, by sequence
  pub,        \* a publisher: idle, want, or ready with the frame it encoded
  main,       \* the main thread: idle, init, ready or reply
  inbox,      \* requests to the daemon
  wire,       \* lines to the client
  base,       \* the decoder's baseline, None or sequence and table
  view,       \* the table the client serves
  retired,    \* metadataRetired
  pending,    \* initializationPending
  needed,     \* surfaceResyncNeeded
  resync,     \* no, asked (surfaceResyncPromise) or retry (its timer)
  refresh,    \* no, settling, asked, failed (phase error, to be repeated), again
              \* (to be repeated) or dropped (phase error, not to be repeated)
  started,    \* the first initialize result was adopted
  saving,     \* a reindex request is in flight
  cont,       \* replies whose continuation has not run yet
  applied,    \* history: sequence of the last frame the client applied
  behind,     \* history: a reply older than that frame was applied after it, or
              \* the reply of an initialize or a reindex came too late
  reindexes,  \* reindex requests so far: the identity of the last one
  refreshes,  \* refreshes so far: the identity of an initialize request
  expired,    \* resync requests that timed out: the identity of the next one
  failed      \* refreshes that failed

daemon  == <<table, whole, change, enc, published, pub, main>>
decoder == <<base, view, retired, applied, behind>>
asking  == <<needed, resync>>
control == <<pending, refresh, started, saving>>
bounds  == <<reindexes, refreshes, expired, failed>>
vars == <<daemon, inbox, wire, decoder, asking, control, cont, bounds>>

Empty == [l \in Label |-> 0]
Present(t) == {l \in Label : t[l] # 0}

Idle == [step |-> "idle"]

\* The daemon has computed the answer to the first initialize.
Init ==
  /\ table = [l \in Label |-> 1] /\ whole = TRUE /\ change = 0
  /\ enc = [seq |-> 0, tab |-> None] /\ published = <<>>
  /\ pub = [p \in Publisher |-> Idle]
  /\ main = [step |-> "init", tab |-> table, id |-> 0, asOf |-> 0, fresh |-> TRUE]
  /\ inbox = <<>> /\ wire = <<>> /\ cont = <<>>
  /\ base = None /\ view = Empty /\ retired = FALSE
  /\ pending = FALSE /\ needed = FALSE /\ resync = "no" /\ refresh = "no"
  /\ started = FALSE /\ saving = FALSE
  /\ applied = 0 /\ behind = FALSE
  /\ reindexes = 0 /\ refreshes = 0 /\ expired = 0 /\ failed = 0

------------------------------------------------------------------------------
\* SurfaceSnapshotEncoder.

Changed(from, to) == {l \in Label : from[l] # to[l]}

FullFrame(t, w, e) ==
  [type |-> "frame", kind |-> "full", seq |-> e.seq + 1, base |-> 0, part |-> t, whole |-> w]

\* prepare(): a delta when it is smaller than the table; both know its revisions.
Prepared(t, w, e) ==
  IF w /\ e.tab # None /\ Cardinality(Changed(e.tab, t)) < Cardinality(Present(t))
  THEN [type |-> "frame", kind |-> "delta", seq |-> e.seq + 1, base |-> e.seq,
        part |-> [l \in Changed(e.tab, t) |-> t[l]], whole |-> TRUE]
  ELSE FullFrame(t, w, e)

Reset(e) == [e EXCEPT !.tab = None]

\* commit(), after the frame f of table t was written.
Commit(f, t) ==
  /\ enc' = [seq |-> f.seq, tab |-> IF f.whole THEN t ELSE None]
  /\ published' = Append(published, t)

\* Nothing that was encoded before this change may be written: the revision, the
\* baseline or the generation it captured is no longer current.
Staled(P) == [p \in Publisher |-> IF p \in P /\ pub[p].step = "ready"
                                  THEN [pub[p] EXCEPT !.fresh = FALSE] ELSE pub[p]]
MainStaled == IF main.step \in {"init", "ready"} THEN [main EXCEPT !.fresh = FALSE] ELSE main

\* The table is replaced, or one of its models added, changed or removed.
Revisions == IF change < MaxChange THEN {0, change + 2} ELSE {}
Successors == {[table EXCEPT ![l] = r] : l \in Label, r \in Revisions}

------------------------------------------------------------------------------
\* The daemon's main thread.

\* _initialize resets the encoder and reads the sources again.
HandleInit ==
  /\ main = Idle /\ inbox # <<>> /\ Head(inbox).type = "init"
  /\ inbox' = Tail(inbox)
  /\ \/ table' = table /\ UNCHANGED change
     \/ change < MaxChange /\ change' = change + 1 /\ table' \in Successors
  /\ whole' = TRUE
  /\ enc' = Reset(enc)
  /\ pub' = [p \in Publisher |-> Idle]
  /\ main' = [step |-> "init", tab |-> table', id |-> Head(inbox).id, asOf |-> enc.seq, fresh |-> TRUE]
  /\ UNCHANGED <<published, wire, decoder, asking, control, cont, bounds>>

\* _write_initialize_response: a full frame if the answer is still what the
\* daemon would publish, otherwise the answer without a transport header.
InitPrepare ==
  /\ main.step = "init" /\ main.fresh /\ whole
  /\ main' = [main EXCEPT !.step = "ready"]
  /\ UNCHANGED <<table, whole, change, enc, published, pub, inbox, wire, decoder, asking, control, cont, bounds>>

InitWrite ==
  /\ main.step = "ready" /\ main.fresh
  /\ LET f == FullFrame(main.tab, TRUE, enc)
     IN /\ wire' = Append(wire, [type |-> "init", id |-> main.id, tab |-> main.tab,
                                 seq |-> f.seq, asOf |-> f.seq])
        /\ Commit(f, main.tab)
  /\ pub' = Staled(Publisher)
  /\ main' = Idle
  /\ UNCHANGED <<table, whole, change, inbox, decoder, asking, control, cont, bounds>>

InitLegacy ==
  /\ main.step = "init" \/ (main.step = "ready" /\ ~main.fresh)
  /\ wire' = Append(wire, [type |-> "init", id |-> main.id, tab |-> main.tab,
                           seq |-> 0, asOf |-> main.asOf])
  /\ main' = Idle
  /\ UNCHANGED <<table, whole, change, enc, published, pub, inbox, decoder, asking, control, cont, bounds>>

Answer(l, r) == [step |-> "reply", id |-> Head(inbox).id, label |-> l, rev |-> r, asOf |-> enc.seq]

\* _reindex_file commits one model, or finds the source unchanged since the path
\* was read last (label None), and replies outside the lock.
HandleReindex ==
  /\ main = Idle /\ inbox # <<>> /\ Head(inbox).type = "reindex"
  /\ inbox' = Tail(inbox)
  /\ \/ table' = table /\ main' = Answer(None, 0)
     \/ \E l \in Label, r \in Revisions :
          table' = [table EXCEPT ![l] = r] /\ main' = Answer(l, r)
  /\ change' = change + IF table' = table THEN 0 ELSE 1
  /\ pub' = Staled(Publisher)
  /\ UNCHANGED <<whole, enc, published, wire, decoder, asking, control, cont, bounds>>

ReindexReply ==
  /\ main.step = "reply"
  /\ wire' = Append(wire, [type |-> "reindex", id |-> main.id, label |-> main.label,
                           rev |-> main.rev, asOf |-> main.asOf])
  /\ main' = Idle
  /\ UNCHANGED <<table, whole, change, enc, published, pub, inbox, decoder, asking, control, cont, bounds>>

\* _resync_surface_snapshot: a full frame, whatever the baseline was.
HandleResync ==
  /\ main = Idle /\ inbox # <<>> /\ Head(inbox).type = "resync"
  /\ inbox' = Tail(inbox)
  /\ LET f == FullFrame(table, whole, enc)
     IN wire' = wire \o <<f, [type |-> "resync", id |-> Head(inbox).id]>> /\ Commit(f, table)
  /\ pub' = Staled(Publisher)
  /\ UNCHANGED <<table, whole, change, main, decoder, asking, control, cont, bounds>>

------------------------------------------------------------------------------
\* The daemon's background threads.

\* A loaded, prebuilt or refreshed table is adopted, to be published.
AdoptTable(p) ==
  /\ pub[p].step = "idle" /\ change < MaxChange
  /\ table' \in Successors
  /\ whole' \in BOOLEAN
  /\ change' = change + 1
  /\ pub' = [pub EXCEPT ![p] = [step |-> "want"]]
  /\ main' = MainStaled
  /\ UNCHANGED <<enc, published, inbox, wire, decoder, asking, control, cont, bounds>>

\* _publish_warmed_runtime_state empties the table and writes under the lock.
Warm ==
  /\ change < MaxChange
  /\ change' = change + 1
  /\ table' = Empty /\ whole' = TRUE
  /\ LET f == Prepared(Empty, TRUE, enc) IN wire' = Append(wire, f) /\ Commit(f, Empty)
  /\ pub' = Staled(Publisher)
  /\ main' = MainStaled
  /\ UNCHANGED <<inbox, decoder, asking, control, cont, bounds>>

PubPrepare(p) ==
  /\ pub[p].step = "want"
  /\ pub' = [pub EXCEPT ![p] = [step |-> "ready", frame |-> Prepared(table, whole, enc),
                                tab |-> table, fresh |-> TRUE]]
  /\ UNCHANGED <<table, whole, change, enc, published, main, inbox, wire, decoder, asking, control, cont, bounds>>

WrittenAnyway(p) == TRUE                \* faulty: what was encoded is written
StillCurrent(p) == pub[p].fresh

PubWrite(p) ==
  /\ pub[p].step = "ready" /\ StillCurrent(p)
  /\ wire' = Append(wire, pub[p].frame)
  /\ Commit(pub[p].frame, pub[p].tab)
  /\ pub' = [Staled(Publisher) EXCEPT ![p] = Idle]
  /\ main' = MainStaled
  /\ UNCHANGED <<table, whole, change, inbox, decoder, asking, control, cont, bounds>>

PubOvertaken(p) ==
  /\ pub[p].step = "ready" /\ ~StillCurrent(p)
  /\ pub' = [pub EXCEPT ![p] = [step |-> "want"]]
  /\ UNCHANGED <<table, whole, change, enc, published, main, inbox, wire, decoder, asking, control, cont, bounds>>

------------------------------------------------------------------------------
\* The client.

\* The phase a failed refresh leaves: request() rejects all but initialize.
Refused == refresh \in {"failed", "dropped"}

\* A health snapshot arrived; the timer of the repetition stays.
Cleared == CASE refresh = "failed" -> "again" [] refresh = "dropped" -> "no" [] OTHER -> refresh

\* requestSurfaceSnapshotResync: one request at a time; its timer is cleared, and
\* set again when the request is refused.
Ask ==
  \/ resync = "asked" /\ UNCHANGED <<resync, inbox>>
  \/ resync # "asked" /\ Refused /\ resync' = "retry" /\ UNCHANGED inbox
  \/ /\ resync # "asked" /\ ~Refused
     /\ resync' = "asked" /\ inbox' = Append(inbox, [type |-> "resync", id |-> expired])

\* SurfaceSnapshotDecoder.decode.
AnyBase(f) == f.kind = "full" \/ (base # None /\ f.seq > base.seq)    \* faulty: lost frames go unnoticed
Decodable(f) ==
  f.kind = "full" \/ (base # None /\ f.base = base.seq /\ f.seq > base.seq)

Patched(tab, part) == [l \in Label |-> IF l \in DOMAIN part THEN part[l] ELSE tab[l]]

Rebuilt(f) == IF f.kind = "full" THEN f.part ELSE Patched(base.tab, f.part)

Baseline(f, t) == IF f.whole THEN [seq |-> f.seq, tab |-> t] ELSE None

\* handleServerNotification.
HandleFrame ==
  /\ wire # <<>> /\ Head(wire).type = "frame"
  /\ wire' = Tail(wire)
  /\ LET f == Head(wire) IN
       \/ pending /\ UNCHANGED <<inbox, decoder, asking, refresh>>
       \/ /\ ~pending /\ Decodable(f)
          /\ view' = Rebuilt(f)
          /\ base' = Baseline(f, view')
          /\ retired' = FALSE
          /\ needed' = FALSE
          /\ resync' = IF resync = "retry" THEN "no" ELSE resync
          /\ applied' = f.seq /\ behind' = FALSE
          /\ refresh' = Cleared
          /\ UNCHANGED inbox
       \/ /\ ~pending /\ ~Decodable(f)
          /\ base' = None
          /\ needed' = TRUE
          /\ Ask
          /\ UNCHANGED <<view, retired, applied, behind, refresh>>
  /\ UNCHANGED <<daemon, pending, started, saving, cont, bounds>>

\* A healthChanged event: the daemon's phase replaces the client's.
HandleHealth ==
  /\ Refused /\ refresh' = Cleared
  /\ UNCHANGED <<daemon, inbox, wire, decoder, asking, pending, started, saving, cont, bounds>>

\* handleServerMessage: a reply nobody waits for any more is ignored.
Awaited(m) ==
  \/ m.type = "init" /\ (~started \/ (refresh = "asked" /\ m.id = refreshes))
  \/ m.type = "reindex" /\ saving /\ m.id = reindexes
  \/ m.type = "resync" /\ resync = "asked" /\ m.id = expired

Missed(m) == m.type = "init" \/ (m.type = "reindex" /\ m.label # None)

HandleReply ==
  /\ wire # <<>> /\ Head(wire).type # "frame"
  /\ wire' = Tail(wire)
  /\ IF Awaited(Head(wire))
     THEN cont' = Append(cont, Head(wire)) /\ UNCHANGED behind
     ELSE behind' = (behind \/ Missed(Head(wire))) /\ UNCHANGED cont
  /\ UNCHANGED <<daemon, inbox, base, view, retired, applied, asking, control, bounds>>

\* adoptInitializeResult, after the first start and after a refresh: the first
\* start asks for a frame if it got no baseline, a refresh always.
NeverAsks == FALSE                      \* faulty: the answer is trusted to be the last
AsksAfterInit == base' = None \/ started

AdoptInit ==
  /\ cont # <<>> /\ Head(cont).type = "init"
  /\ cont' = Tail(cont)
  /\ LET m == Head(cont) IN
       /\ base' = IF m.seq = 0 THEN None ELSE [seq |-> m.seq, tab |-> m.tab]
       /\ view' = m.tab
       /\ applied' = IF m.seq > applied THEN m.seq ELSE applied
       /\ behind' = (applied > m.asOf)
  /\ retired' = FALSE
  /\ started' = TRUE
  /\ pending' = FALSE /\ refresh' = "no"
  /\ IF AsksAfterInit THEN Ask ELSE UNCHANGED <<resync, inbox>>
  /\ UNCHANGED <<daemon, wire, needed, saving, bounds>>

\* reindexSourcePath: the delta is applied, or its watcher is gone and the
\* client asks for the table instead; nothing to do if the source is unchanged.
AdoptReindex ==
  /\ cont # <<>> /\ Head(cont).type = "reindex"
  /\ cont' = Tail(cont)
  /\ saving' = FALSE
  /\ LET m == Head(cont) IN
       \/ /\ m.label # None
          /\ view' = [view EXCEPT ![m.label] = m.rev]
          /\ behind' = (behind \/ applied > m.asOf)
          /\ UNCHANGED <<inbox, asking>>
       \/ /\ ~retired
          /\ needed' = TRUE
          /\ Ask
          /\ UNCHANGED <<view, behind>>
       \/ /\ retired \/ m.label = None
          /\ UNCHANGED <<view, behind, inbox, asking>>
  /\ UNCHANGED <<daemon, wire, base, retired, applied, pending, refresh, started, bounds>>

ForgetNeed == "no"                      \* faulty: a finished request is enough
AfterResync == IF needed THEN "retry" ELSE "no"

ResyncDone ==
  /\ cont # <<>> /\ Head(cont).type = "resync"
  /\ cont' = Tail(cont)
  /\ resync' = AfterResync
  /\ UNCHANGED <<daemon, inbox, wire, decoder, needed, control, bounds>>

\* The request times out; its answer may still come.
ResyncFails ==
  /\ resync = "asked" /\ expired + failed < MaxFail
  /\ \A i \in 1..Len(cont) : cont[i].type # "resync"
  /\ expired' = expired + 1
  /\ resync' = AfterResync
  /\ UNCHANGED <<daemon, inbox, wire, decoder, needed, control, cont, reindexes, refreshes, failed>>

\* The retry timer; a request waits while a refresh is under way.
ResyncRetry ==
  /\ resync = "retry" /\ ~pending
  /\ IF needed THEN Ask ELSE resync' = "no" /\ UNCHANGED inbox
  /\ UNCHANGED <<daemon, wire, decoder, needed, control, cont, bounds>>

\* A saved path, or one whose reindex has failed before.
SendReindex ==
  /\ started /\ ~pending /\ ~Refused /\ ~saving /\ reindexes < MaxReindex
  /\ reindexes' = reindexes + 1
  /\ saving' = TRUE
  /\ inbox' = Append(inbox, [type |-> "reindex", id |-> reindexes'])
  /\ UNCHANGED <<daemon, wire, decoder, asking, pending, refresh, started, cont, refreshes, expired, failed>>

\* The request times out and the path is kept for the next one (extension.ts);
\* the daemon may have committed it, and its answer will be ignored.
ReindexFails ==
  /\ saving
  /\ \A i \in 1..Len(cont) : cont[i].type # "reindex"
  /\ saving' = FALSE
  /\ UNCHANGED <<daemon, inbox, wire, decoder, asking, pending, refresh, started, cont, bounds>>

\* refreshSourceConfiguration: requests in flight settle first.
Begin ==
  /\ refreshes' = refreshes + 1
  /\ refresh' = "settling"
  /\ pending' = TRUE /\ retired' = TRUE
  /\ UNCHANGED <<daemon, inbox, wire, base, view, applied, behind, asking, started, saving, cont, reindexes, expired, failed>>

RefreshBegin ==
  /\ started /\ refresh \in {"no", "dropped"} /\ refreshes < MaxRefresh + failed
  /\ Begin

\* retryPhysicalObservation: a failed refresh is repeated by a timer, unless the
\* watchers have set it for something else.
RefreshAgain == refresh \in {"failed", "again"} /\ Begin

RefreshSend ==
  /\ refresh = "settling" /\ resync # "asked" /\ ~saving
  /\ refresh' = "asked"
  /\ inbox' = Append(inbox, [type |-> "init", id |-> refreshes])
  /\ UNCHANGED <<daemon, wire, decoder, asking, pending, started, saving, cont, bounds>>

RefreshFails ==
  /\ refresh \in {"settling", "asked"} /\ expired + failed < MaxFail
  /\ \A i \in 1..Len(cont) : cont[i].type # "init"
  /\ failed' = failed + 1
  /\ refresh' \in {"failed", "dropped"} /\ pending' = FALSE
  /\ UNCHANGED <<daemon, inbox, wire, decoder, asking, started, saving, cont, reindexes, refreshes, expired>>

Main == HandleInit \/ InitPrepare \/ InitWrite \/ InitLegacy \/ HandleReindex \/ ReindexReply \/ HandleResync
Continue == AdoptInit \/ AdoptReindex \/ ResyncDone
Receive == HandleFrame \/ HandleReply
Refreshes == RefreshBegin \/ RefreshAgain \/ RefreshSend \/ RefreshFails

Next ==
  \/ Main \/ Warm \/ Continue \/ Receive
  \/ \E p \in Publisher : AdoptTable(p) \/ PubPrepare(p) \/ PubWrite(p) \/ PubOvertaken(p)
  \/ HandleHealth \/ ResyncFails \/ ResyncRetry \/ SendReindex \/ ReindexFails \/ Refreshes

Spec == Init /\ [][Next]_vars

\* Both event loops, the timers and the publishers run; changes, saves, new
\* refreshes and failures are not owed.
FairSpec ==
  /\ Spec
  /\ WF_<<main, inbox>>(Main) /\ WF_wire(Receive) /\ WF_cont(Continue)
  /\ WF_resync(ResyncRetry) /\ WF_refresh(RefreshSend) /\ WF_refresh(RefreshAgain)
  /\ \A p \in Publisher : WF_pub(PubPrepare(p) \/ PubWrite(p) \/ PubOvertaken(p))

------------------------------------------------------------------------------
\* A frame the client accepts gives it exactly the daemon's table of that
\* moment, deltas included, although frames were dropped, baselines reset, and
\* reindex replies patched the client's own table in between.
FramesAreExact == [][applied' > applied => view' = published[applied']]_vars

\* Nothing is under way in either process.
Quiet ==
  /\ inbox = <<>> /\ wire = <<>> /\ cont = <<>>
  /\ main = Idle /\ \A p \in Publisher : pub[p] = Idle
  /\ refresh \in {"no", "dropped"} /\ resync = "no"

\* Once everything is quiet, a client that serves a table serves the daemon's:
\* no frame that was dropped or could not be rebuilt is missed for good.  The
\* exceptions, until the next frame, are a reply computed before a frame and
\* adopted after it, and an initialize or a reindex answered after it had timed
\* out: a repeated reindex finds its source unchanged and brings nothing.
QuietIsCurrent == Quiet /\ ~retired /\ ~behind => view = table

\* A client that noticed a gap recovers, though resync requests time out, or are
\* refused because a refresh has failed, and refreshes start and are repeated
\* meanwhile.  A failed refresh that nobody repeats is the exception.
GapsAreHealed == needed ~> ~needed \/ refresh = "dropped"

\* The client serves a copy of the daemon's tables that never goes back to an
\* entry a frame or a reply had replaced, whichever of the two a revision came
\* with, unless a reply was overtaken by a frame or an initialize was ignored.
Replica == INSTANCE TableReplica WITH owner <- table, log <- published, copy <- view, at <- applied, torn <- behind
ReplicaSpec == Replica!Spec
==============================================================================
