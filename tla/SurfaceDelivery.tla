--------------------------- MODULE SurfaceDelivery ---------------------------
(***************************************************************************)
(* The client's model table on its way to the language server.             *)
(*                                                                         *)
(* SurfacePublisher sends one update at a time and retries with the        *)
(* complete table, SurfaceSnapshotEncoder makes it a delta over the last   *)
(* acknowledged one, SurfaceCacheContextDelivery names the owner first,    *)
(* and the flush of saved files sends source deltas of its own.  The       *)
(* language server applies requests in order; it may stop, answer late or  *)
(* fail half way.  Waits before a retry are left out: a timer may fire at  *)
(* any time.  So is the index the server pre-warms from its disk cache.    *)
(*                                                                         *)
(* A full update holds the client's own table, not a copy: until the       *)
(* context is acknowledged and the request is written, a reindex patches   *)
(* what it will bring, though the encoder has taken its fingerprints.      *)
(***************************************************************************)
EXTENDS Naturals, Sequences, FiniteSets

CONSTANTS
  Label,        \* model labels
  None,         \* no scope, no table, nothing in flight
  Broken,       \* an index an exception left half updated
  MaxRev,       \* bound: changes of the client's table
  MaxSess,      \* bound: starts and ends of the daemon
  MaxLs,        \* bound: starts of the language server
  MaxGen,       \* bound: changes of the observed sources
  MaxTurn,      \* bound: changes, starts and ends together, before the next of them
  MaxFail       \* bound: lost answers and failed updates

ASSUME DeliveryBounds ==
  /\ None # Broken
  /\ MaxRev \in Nat /\ MaxSess \in Nat /\ MaxLs \in Nat /\ MaxGen \in Nat
  /\ MaxTurn \in Nat /\ MaxFail \in Nat

\* An update under way; None is none of them.
Parts == UNION {[S -> Nat] : S \in SUBSET Label}
Scopes == Nat \X Nat \X BOOLEAN \X Nat
Frames == [kind : {"full", "delta"}, seq : Nat, base : Nat, keep : [Label -> Nat] \cup {None}, part : Parts,
           left : SUBSET Label]
Updates ==
  [step : {"queued", "context", "resolved", "sent", "answered"}, method : {"full", "delta", "clear"},
   scope : Scopes \cup {None}, snap : [Label -> Nat], part : Parts, frame : Frames \cup {None},
   own : BOOLEAN, again : BOOLEAN, ok : BOOLEAN]

\* A delivery of the context: the server's session and the daemon's, and its state.
Deliveries == [key : Nat \X Nat, st : {"wait", "ok", "sent", "answered"}]

ASSUME NoneIsNoUpdate == None \notin Updates
ASSUME NoneIsNoOther ==
  /\ None \notin Deliveries /\ None \notin Scopes /\ None \notin Frames /\ None \notin Nat \X Nat
  /\ Broken \notin [Label -> Nat]

VARIABLES
  table,     \* the client's surfaceIndex: a revision per label, 0 without an entry
  rev,       \* revisions given out so far
  first,     \* history: revisions given out when this daemon was launched
  mode,      \* stopped, starting, ready or refreshing (the source configuration)
  sess,      \* the daemon's session revision
  ctx,       \* the cache context: the session of its launch, 0 without one
  gen,       \* sourcePublicationGeneration
  disposed,  \* the extension was deactivated
  batch,     \* the flush of saved files: its step, delta and owner
  late,      \* history: labels that changed after the running batch collected them
  torn,      \* history: since the last complete table, a source delta was sent after its
             \* own was replaced, or a frame left out a label the server has otherwise
  want,      \* fullPending
  timer,     \* retryTimer is armed
  failing,   \* failures > 0
  act,       \* active: the update under way
  enc,       \* the encoder's baseline: sequence, and table or None; history: the table
             \* that the server was given with it
  tscope,    \* transportScope
  cur,       \* the current context delivery
  pend,      \* the delivery that waits for the one under way
  dact,      \* the delivery under way
  up,        \* the language server runs
  lsn,       \* languageServerSession
  chan,      \* requests to the language server
  ls,        \* the language server: previous table, index, decoder baseline, context
  fails      \* failures so far

client   == <<table, rev, first, mode, sess, ctx, gen, disposed>>
flush    == <<batch, late, torn>>
pub      == <<want, timer, failing, act, enc, tscope>>
delivery == <<cur, pend, dact>>
server   == <<up, lsn, ls>>
vars == <<client, flush, pub, delivery, server, chan, fails>>

Empty == [l \in Label |-> 0]
Present(t) == {l \in Label : t[l] # 0}
Changed(from, to) == {l \in Label : from[l] # to[l]}
Over(t, part) == [l \in Label |-> IF l \in DOMAIN part THEN part[l] ELSE t[l]]
NoPart == [l \in {} |-> 0]
NoBatch == [step |-> "idle", part |-> NoPart, sess |-> 0, gen |-> 0, scope |-> None]
NewServer == [tab |-> None, idx |-> Empty, dec |-> None, ctx |-> 0]

\* Left of the shared bound; the language server always comes back.
Turns == rev + sess + lsn < MaxTurn

\* publicationScope(): undefined while the daemon starts or no server runs.
Scope == IF disposed \/ ~up \/ mode = "starting" THEN None
         ELSE <<lsn, sess, mode = "ready", gen>>

Init ==
  /\ table = Empty /\ rev = 0 /\ first = 0 /\ mode = "stopped" /\ sess = 0 /\ ctx = 0 /\ gen = 0
  /\ disposed = FALSE
  /\ batch = NoBatch /\ late = {} /\ torn = FALSE
  /\ want = TRUE /\ timer = FALSE /\ failing = FALSE /\ act = None
  /\ enc = [seq |-> 0, tab |-> None, real |-> None] /\ tscope = None
  /\ cur = None /\ pend = None /\ dact = None
  /\ up = FALSE /\ lsn = 0 /\ chan = <<>> /\ ls = NewServer /\ fails = 0

------------------------------------------------------------------------------
\* SurfaceCacheContextDelivery.

ContextMessage(k) == [type |-> "ctx", awaited |-> TRUE, ctx |-> k[2]]

\* The delivery an update waits for is rejected: superseded, refused or lost.
Rejected(a) ==
  IF a # None /\ a.step = "context" THEN [a EXCEPT !.step = "answered"] ELSE a

\* It succeeded: the update goes on.
Resolved(a) ==
  IF a # None /\ a.step = "context" THEN [a EXCEPT !.step = "resolved"] ELSE a

\* deliver(): the same key shares the delivery, another one supersedes it.  An
\* update never waits for a delivery that is not the current one; waiter is the
\* update that starts to wait with this call, if any.
Deliver(k, a, waiter) ==
  IF cur # None /\ cur.key = k
  THEN /\ UNCHANGED <<delivery, chan>>
       /\ act' = IF waiter = None THEN a ELSE IF cur.st = "ok" THEN Resolved(waiter) ELSE waiter
  ELSE /\ cur' = [key |-> k, st |-> "wait"]
       /\ act' = IF waiter = None THEN Rejected(a) ELSE waiter
       /\ IF dact = None
          THEN /\ dact' = [key |-> k, st |-> "sent"] /\ UNCHANGED pend
               /\ chan' = Append(chan, ContextMessage(k))
          ELSE pend' = k /\ UNCHANGED <<dact, chan>>

\* publishSurfaceCacheContext(), in the state c of the context.
PublishContext(c, a) ==
  IF up /\ ~disposed THEN Deliver(<<lsn, c>>, a, None)
                     ELSE UNCHANGED <<delivery, chan>> /\ act' = a

\* run(): the delivery under way succeeded, and the next one is sent unless the
\* server it was meant for is gone.
ContextAcknowledged ==
  /\ dact # None /\ dact.st = "answered"
  /\ pend' = None
  /\ \/ /\ pend = None
        /\ cur' = IF cur = None THEN None ELSE [cur EXCEPT !.st = "ok"]
        /\ act' = Resolved(act) /\ dact' = None /\ UNCHANGED chan
     \/ /\ pend # None /\ up /\ pend[1] = lsn
        /\ dact' = [key |-> pend, st |-> "sent"] /\ chan' = Append(chan, ContextMessage(pend))
        /\ UNCHANGED <<cur, act>>
     \/ /\ pend # None /\ ~(up /\ pend[1] = lsn)
        /\ cur' = None /\ act' = Rejected(act) /\ dact' = None /\ UNCHANGED chan
  /\ UNCHANGED <<client, flush, want, timer, failing, enc, tscope, server, fails>>

------------------------------------------------------------------------------
\* SurfacePublisher.

Again(a) == IF a = None THEN None ELSE [a EXCEPT !.again = TRUE]

\* Another table replaces the client's: the update keeps the one it holds.
Superseded(a) == IF a = None THEN None ELSE [a EXCEPT !.again = TRUE, !.own = FALSE]

\* The client's table is patched in place.
PatchedIn(a, l, r) == IF a # None /\ a.own THEN [a EXCEPT !.snap[l] = r] ELSE a

RequestUnscheduled ==                   \* faulty: nothing sends the table
  IF disposed THEN UNCHANGED <<want, timer>> ELSE want' = TRUE /\ UNCHANGED timer
\* requestFull().
RequestFull ==
  IF disposed THEN UNCHANGED <<want, timer>>
  ELSE want' = TRUE /\ timer' = (timer \/ act = None)

Update(method, t, part, scope) ==
  [step |-> "queued", method |-> method, scope |-> scope, snap |-> t, part |-> part,
   frame |-> None, own |-> method = "full", again |-> FALSE, ok |-> FALSE]

\* publishFull(), when no update is under way.
FullUpdate ==
  Update(IF mode = "ready" THEN "full" ELSE "clear", table, NoPart, Scope)
PublishFull ==
  IF disposed \/ ~want \/ Scope = None
  THEN UNCHANGED <<act, want>>
  ELSE act' = FullUpdate /\ UNCHANGED want

\* The timer of schedule().
TimerFires ==
  /\ timer
  /\ timer' = FALSE
  /\ IF act = None THEN PublishFull ELSE UNCHANGED <<act, want>>
  /\ UNCHANGED <<client, flush, failing, enc, tscope, delivery, server, chan, fails>>

\* prepare(): a delta when both tables have fingerprints and it is the smaller one.
\* What a delta leaves out the server has, if it was given the encoder's baseline.
Prepared(t, e, whole) ==
  LET keep == IF whole THEN t ELSE None
      same == Label \ Changed(e.tab, t) IN
  IF whole /\ e.tab # None /\ Cardinality(Changed(e.tab, t)) < Cardinality(Present(t))
  THEN [kind |-> "delta", seq |-> e.seq + 1, base |-> e.seq, keep |-> keep,
        part |-> [l \in Changed(e.tab, t) |-> t[l]], left |-> {l \in same : e.real[l] # e.tab[l]}]
  ELSE [kind |-> "full", seq |-> e.seq + 1, base |-> 0, keep |-> keep, part |-> t, left |-> {}]

Reset(e) == [e EXCEPT !.tab = None, !.real = None]

\* What sendRequest writes: the table as it is now, or the delta of the one that was
\* encoded; snap becomes the table that this gives the server.
Written(a) ==
  IF a.frame = None THEN a
  ELSE IF a.frame.kind = "full" THEN [a EXCEPT !.frame.part = a.snap]
  ELSE [a EXCEPT !.snap = Over(enc.real, a.frame.part)]

\* The request of an update, and the update once it is sent.
Request(a) ==
  [type |-> a.method, awaited |-> TRUE, part |-> a.part, snap |-> a.snap, frame |-> a.frame]
Sent(a) == [a EXCEPT !.step = "sent", !.own = FALSE]

DropBatch == batch' = NoBatch /\ late' = {}

\* After an update: the next attempt is scheduled if the table is still wanted.
Finished(stillWanted) ==
  /\ want' = stillWanted
  /\ act' = None
  /\ timer' = (timer \/ (~disposed /\ stillWanted))
  /\ IF batch.step = "sent" THEN DropBatch ELSE UNCHANGED <<batch, late>>

\* The queued microtask crossed a handoff: the complete table is wanted again.
BeginCrossed ==
  /\ act # None /\ act.step = "queued" /\ act.scope # Scope
  /\ Finished(TRUE)
  /\ UNCHANGED <<client, torn, failing, enc, tscope, delivery, server, chan, fails>>

\* It prepares the update and waits for the context; a retirement goes at once.
Begin ==
  /\ act # None /\ act.step = "queued" /\ act.scope = Scope
  /\ tscope' = Scope
  /\ LET e == IF tscope # Scope THEN Reset(enc) ELSE enc
         k == <<lsn, ctx>> IN
     \/ /\ act.method = "clear"
        /\ enc' = Reset(e) /\ act' = Sent(act) /\ chan' = Append(chan, Request(act))
        /\ UNCHANGED delivery
     \/ /\ act.method = "delta"
        /\ enc' = e
        /\ Deliver(k, act, [act EXCEPT !.step = "context"])
     \/ /\ act.method = "full"
        /\ enc' = e
        /\ \E whole \in BOOLEAN :
             Deliver(k, act, [act EXCEPT !.step = "context",
                                         !.frame = Prepared(act.snap, e, whole)])
  /\ UNCHANGED <<client, flush, want, timer, failing, server, fails>>

\* The context is acknowledged and its owner is still the scope's.
ContextHeld(a) == a.scope = Scope
SendUpdate ==
  /\ act # None /\ act.step = "resolved"
  /\ IF ContextHeld(act)
     THEN /\ act' = Sent(Written(act)) /\ chan' = Append(chan, Request(Written(act)))
          /\ torn' = (torn \/ (act.frame # None /\ act.frame.left # {}))
     ELSE act' = [act EXCEPT !.step = "answered"] /\ UNCHANGED <<chan, torn>>
  /\ UNCHANGED <<client, batch, late, want, timer, failing, enc, tscope, delivery, server, fails>>

\* The continuation of send().
SatisfiedAnyway(a) == a.method # "delta"  \* faulty: a request made meanwhile is forgotten
Satisfied(a) == a.method # "delta" /\ ~a.again

EncAfter(a) ==
  IF ~a.ok \/ a.scope # Scope THEN Reset(enc)
  ELSE IF a.frame = None THEN enc
  ELSE [seq |-> a.frame.seq, tab |-> a.frame.keep, real |-> IF a.frame.keep = None THEN None ELSE a.snap]

\* The server took the complete table, or retired it: it lacks nothing of before.
Renewed(a) ==
  a.ok /\ a.scope = Scope /\ a.method # "delta" /\ (a.frame = None \/ a.frame.kind = "full")

Acknowledged ==
  /\ act # None /\ act.step = "answered"
  /\ torn' = (torn /\ ~Renewed(act))
  /\ IF disposed
     THEN Finished(want) /\ UNCHANGED <<failing, enc>>
     ELSE /\ enc' = EncAfter(act)
          /\ failing' = IF act.scope # Scope THEN failing ELSE ~act.ok
          /\ Finished(IF act.ok /\ act.scope = Scope THEN want /\ ~Satisfied(act) ELSE TRUE)
  /\ UNCHANGED <<client, tscope, delivery, server, chan, fails>>

\* dispose() of the publisher and of the delivery.
Dispose ==
  /\ ~disposed
  /\ disposed' = TRUE /\ timer' = FALSE /\ enc' = Reset(enc)
  /\ cur' = None /\ pend' = None
  /\ act' = IF act # None /\ act.step = "context" THEN [act EXCEPT !.step = "answered"] ELSE act
  /\ UNCHANGED <<table, rev, first, mode, sess, ctx, gen, flush, want, failing, tscope, dact,
                 server, chan, fails>>

------------------------------------------------------------------------------
\* The flush of saved files (flushPendingReindexFiles).

\* A label of the running batch is replaced by a newer table.
Overtake(labels) == late' = late \cup (labels \cap DOMAIN batch.part)

BatchStarts ==
  /\ batch.step = "idle" /\ mode = "ready" /\ ~disposed
  /\ batch' = [NoBatch EXCEPT !.step = "collecting", !.sess = sess, !.gen = gen]
  /\ late' = {}
  /\ UNCHANGED <<client, torn, pub, delivery, server, chan, fails>>

\* A reindex reply the client adopts, in its table and in what an update has of it:
\* its file belongs to the current owner.  An edit that is taken back restores a
\* revision of this daemon.
Reindexed(l, r) ==
  /\ batch.step = "collecting" /\ mode = "ready" /\ ~disposed
  /\ batch.sess = sess /\ batch.gen = gen /\ rev < MaxRev /\ Turns
  /\ rev' = rev + 1
  /\ r # table[l]
  /\ table' = [table EXCEPT ![l] = r]
  /\ act' = PatchedIn(act, l, r)
  /\ batch' = [batch EXCEPT !.part = [k \in DOMAIN @ \cup {l} |-> IF k = l THEN r ELSE @[k]]]
  /\ late' = late \ {l}
  /\ UNCHANGED <<first, mode, sess, ctx, gen, disposed, torn, want, timer, failing, enc, tscope,
                 delivery, server, chan, fails>>

\* The batch has changes of this session, and calls publishDelta if it owns them.
Owned == batch.gen = gen
BatchEnds ==
  /\ batch.step = "collecting"
  /\ IF batch.part = NoPart \/ batch.sess # sess \/ disposed \/ (Owned /\ Scope = None)
     THEN DropBatch /\ UNCHANGED <<want, timer, act>>
     ELSE IF ~Owned
     THEN DropBatch /\ RequestFull /\ act' = Again(act)
     ELSE batch' = [batch EXCEPT !.step = "waiting", !.scope = Scope] /\ UNCHANGED <<late, want, timer, act>>
  /\ UNCHANGED <<client, torn, failing, enc, tscope, delivery, server, chan, fails>>

\* publishDelta(), once no update is under way.
DeltaCovered == want /\ timer /\ failing
PublishDelta ==
  /\ batch.step = "waiting" /\ act = None
  /\ IF disposed
     THEN DropBatch /\ UNCHANGED <<torn, want, timer, act>>
     ELSE IF batch.scope # Scope
     THEN DropBatch /\ RequestFull /\ UNCHANGED <<torn, act>>
     ELSE IF DeltaCovered
     THEN DropBatch /\ UNCHANGED <<torn, want, timer, act>>
     ELSE IF want
     THEN /\ batch' = [batch EXCEPT !.step = "sent"] /\ timer' = FALSE
          /\ PublishFull /\ UNCHANGED <<late, torn>>
     ELSE /\ batch' = [batch EXCEPT !.step = "sent"] /\ torn' = (torn \/ late # {})
          /\ UNCHANGED late
          /\ act' = Update("delta", Empty, batch.part, Scope) /\ UNCHANGED <<want, timer>>
  /\ UNCHANGED <<client, failing, enc, tscope, delivery, server, chan, fails>>

------------------------------------------------------------------------------
\* The daemon's life as its listeners in extension.ts see it.

Replaced(t, m, s, c, g) ==
  /\ table' = t /\ mode' = m /\ sess' = s /\ ctx' = c /\ gen' = g
  /\ UNCHANGED disposed

\* A state event publishes the context, a replaced table asks for a full update.
Listeners(c, replaced) ==
  /\ PublishContext(c, IF replaced /\ ~disposed THEN Superseded(act) ELSE act)
  /\ IF replaced THEN RequestFull ELSE UNCHANGED <<want, timer>>
  /\ UNCHANGED <<batch, torn, failing, enc, tscope, server, fails>>

Launch ==
  /\ mode = "stopped" /\ sess < MaxSess /\ Turns
  /\ Replaced(table, "starting", sess + 1, sess + 1, gen)
  /\ first' = rev /\ UNCHANGED <<rev, late>>
  /\ Listeners(sess + 1, FALSE)

\* A complete table replaces the client's: initialize, a frame, or a refresh.
Adopt(t, g) ==
  /\ rev < MaxRev /\ Turns /\ rev' = rev + 1
  /\ Replaced(t, "ready", sess, ctx, g)
  /\ Overtake(Changed(table, t))
  /\ UNCHANGED first
  /\ Listeners(ctx, TRUE)

Initialized == mode \in {"starting", "refreshing"} /\ Adopt([l \in Label |-> rev + 1], gen)
Frame == \E labels \in SUBSET Label \ {{}} :
           mode = "ready" /\ Adopt([l \in Label |-> IF l \in labels THEN rev + 1 ELSE table[l]], gen)

\* A start that fails keeps its context unless the child had to be disposed of.
StartFails ==
  /\ mode = "starting"
  /\ \E c \in {0, ctx} : Replaced(table, "stopped", sess, c, gen) /\ Listeners(c, FALSE)
  /\ UNCHANGED <<rev, first, late>>

\* The daemon stops or dies: its handles are disposed of and its table retired.
DaemonEnds ==
  /\ mode \in {"ready", "refreshing"} /\ sess < MaxSess /\ Turns
  /\ Replaced(Empty, "stopped", sess + 1, 0, gen)
  /\ Overtake(Changed(table, Empty))
  /\ UNCHANGED <<rev, first>>
  /\ Listeners(0, mode = "ready")

RefreshStarts ==
  /\ mode = "ready" /\ gen < MaxGen
  /\ Replaced(Empty, "refreshing", sess, ctx, gen + 1)
  /\ Overtake(Changed(table, Empty))
  /\ UNCHANGED <<rev, first>>
  /\ Listeners(ctx, TRUE)

\* Other source roots are watched: updates of the old ones are not owned any more.
RootsChange ==
  /\ mode = "ready" /\ gen < MaxGen
  /\ Replaced(table, mode, sess, ctx, gen + 1)
  /\ UNCHANGED <<rev, first, late>>
  /\ Listeners(ctx, FALSE)

------------------------------------------------------------------------------
\* The language server (server.ts).

Aware(a, ok) == IF a # None /\ a.step = "sent" THEN [a EXCEPT !.step = "answered", !.ok = ok] ELSE a

\* The index after a full table: rebuilt, or patched where the table differs.
Patched(s, t) ==
  IF s.tab = None THEN t
  ELSE IF s.tab = t \/ s.idx = Broken THEN s.idx
  ELSE [l \in Label |-> IF s.tab[l] # t[l] THEN t[l] ELSE s.idx[l]]

\* recoverFailedSurfaceUpdate: the next table rebuilds the index.
Recovered(s) == [s EXCEPT !.tab = None, !.dec = None]

Cleared(s) == [s EXCEPT !.tab = None, !.dec = None, !.idx = Empty]

\* django/setSurfaceCacheContext.
WithContextOnly(s, c) == [s EXCEPT !.ctx = c]  \* faulty: the old owner's table stays
WithContext(s, c) == [IF c # s.ctx /\ s.tab # None THEN Cleared(s) ELSE s EXCEPT !.ctx = c]

\* decode(): the table of a frame, None if its baseline is missing.
Decoded(s, f) ==
  IF f.kind = "full" THEN f.part
  ELSE IF s.dec # None /\ s.dec.seq = f.base THEN Over(s.dec.tab, f.part)
  ELSE None

WithFrameOverOld(s, f, t) ==            \* faulty: a delta frame does not move the baseline
  [s EXCEPT !.tab = t, !.idx = Patched(s, t),
            !.dec = IF f.keep = None THEN None
                    ELSE [seq |-> f.seq, tab |-> IF f.kind = "full" \/ @ = None THEN t ELSE @.tab]]
WithFrame(s, f, t) ==
  [s EXCEPT !.tab = t, !.idx = Patched(s, t),
            !.dec = IF f.keep = None THEN None ELSE [seq |-> f.seq, tab |-> t]]

\* A source delta patches the table and the index, never the decoder's baseline.
WithDelta(s, part) ==
  [s EXCEPT !.tab = Over(s.tab, part),
            !.idx = IF s.idx = Broken THEN Broken ELSE Over(s.idx, part)]

\* What a request makes of the server, and whether it is applied.
Effect(s, m) ==
  CASE m.type = "ctx" -> <<WithContext(s, m.ctx), TRUE>>
    [] m.type = "clear" -> <<Cleared(s), TRUE>>
    [] m.type = "delta" -> IF s.tab = None THEN <<s, FALSE>> ELSE <<WithDelta(s, m.part), TRUE>>
    [] m.type = "full" -> LET t == Decoded(s, m.frame) IN
         IF t = None THEN <<Recovered(s), FALSE>> ELSE <<WithFrame(s, m.frame, t), TRUE>>

Answer(m, ok) ==
  IF ~m.awaited THEN UNCHANGED <<act, dact>>
  ELSE IF m.type = "ctx"
  THEN dact' = [dact EXCEPT !.st = "answered"] /\ UNCHANGED act
  ELSE act' = Aware(act, ok) /\ UNCHANGED dact

Serve ==
  /\ chan # <<>>
  /\ chan' = Tail(chan)
  /\ ls' = Effect(ls, Head(chan))[1]
  /\ Answer(Head(chan), Effect(ls, Head(chan))[2])
  /\ UNCHANGED <<client, flush, want, timer, failing, enc, tscope, cur, pend, up, lsn, fails>>

\* An exception in an update, maybe half way through the index.
ServeFails ==
  /\ chan # <<>> /\ fails < MaxFail /\ Head(chan).type \in {"full", "delta"} /\ ls.tab # None
  /\ fails' = fails + 1
  /\ chan' = Tail(chan)
  /\ \E idx \in {ls.idx, Broken} : ls' = Recovered([ls EXCEPT !.idx = idx])
  /\ Answer(Head(chan), FALSE)
  /\ UNCHANGED <<client, flush, want, timer, failing, enc, tscope, cur, pend, up, lsn>>

Without(s, i) == [j \in 1..Len(s) - 1 |-> IF j < i THEN s[j] ELSE s[j + 1]]

\* SURFACE_ACKNOWLEDGEMENT_TIMEOUT_MS: the request is cancelled or still served.
UpdateTimesOut ==
  /\ act # None /\ act.step = "sent" /\ fails < MaxFail
  /\ fails' = fails + 1
  /\ act' = [act EXCEPT !.step = "answered"]
  /\ \E i \in DOMAIN chan :
       /\ chan[i].type # "ctx" /\ chan[i].awaited
       /\ chan' \in {Without(chan, i), [chan EXCEPT ![i].awaited = FALSE]}
  /\ UNCHANGED <<client, flush, want, timer, failing, enc, tscope, delivery, server>>

\* The connection closes: every request on it fails, and so does the delivery
\* that waits behind the one under way.
Closed ==
  /\ up' = FALSE /\ ls' = NewServer /\ chan' = <<>>
  /\ IF dact # None /\ dact.st = "sent"
     THEN act' = Rejected(Aware(act, FALSE)) /\ cur' = None /\ pend' = None /\ dact' = None
     ELSE act' = Aware(act, FALSE) /\ UNCHANGED delivery
  /\ UNCHANGED <<client, flush, want, timer, failing, enc, tscope, lsn>>

ServerStops == up /\ lsn < MaxLs /\ Turns /\ Closed /\ UNCHANGED fails

\* A context that is not acknowledged closes the connection, to open it again.
ContextTimesOut ==
  /\ dact # None /\ dact.st = "sent" /\ up /\ lsn < MaxLs /\ fails < MaxFail
  /\ fails' = fails + 1
  /\ Closed

\* onDidChangeState: Running.
ServerRuns ==
  /\ ~up /\ lsn < MaxLs /\ ~disposed
  /\ up' = TRUE /\ lsn' = lsn + 1
  /\ cur' = [key |-> <<lsn + 1, ctx>>, st |-> "wait"]
  /\ act' = Again(Rejected(act))
  /\ IF dact = None
     THEN /\ dact' = [key |-> <<lsn + 1, ctx>>, st |-> "sent"] /\ UNCHANGED pend
          /\ chan' = Append(chan, ContextMessage(<<lsn + 1, ctx>>))
     ELSE pend' = <<lsn + 1, ctx>> /\ UNCHANGED <<dact, chan>>
  /\ RequestFull
  /\ UNCHANGED <<client, flush, failing, enc, tscope, ls, fails>>

------------------------------------------------------------------------------
Next ==
  \/ ContextAcknowledged
  \/ TimerFires \/ BeginCrossed \/ Begin \/ SendUpdate \/ Acknowledged \/ Dispose
  \/ BatchStarts \/ (\E l \in Label : \E r \in first + 1..rev + 1 : Reindexed(l, r)) \/ BatchEnds \/ PublishDelta
  \/ Launch \/ Initialized \/ Frame \/ StartFails \/ DaemonEnds \/ RefreshStarts \/ RootsChange
  \/ Serve \/ ServeFails \/ UpdateTimesOut \/ ServerStops \/ ContextTimesOut \/ ServerRuns

Spec == Init /\ [][Next]_vars

\* The event loop runs continuations and timers, the server answers and comes back.
Fairness ==
  /\ WF_vars(ContextAcknowledged) /\ WF_vars(TimerFires)
  /\ WF_vars(BeginCrossed \/ Begin) /\ WF_vars(SendUpdate) /\ WF_vars(Acknowledged)
  /\ WF_vars(BatchEnds) /\ WF_vars(PublishDelta) /\ WF_vars(Serve) /\ WF_vars(ServerRuns)
LiveSpec == Spec /\ Fairness

------------------------------------------------------------------------------
\* Properties.

\* When nothing is pending, the server serves the client's table, but for what the
\* running batch will still send.  The exceptions (torn), until the next complete
\* table is acknowledged: a source delta was overtaken by another table, or a frame
\* was encoded over a table that had been patched between its fingerprints and its
\* request, and leaves out a label whose edit was taken back since.
Pending == want \/ act # None \/ Scope = None
QuietIsCurrent ==
  Pending \/ torn \/ (ls.idx # Broken /\ \A l \in Label \ DOMAIN batch.part : ls.idx[l] = table[l])

\* Once the server knows the running daemon's context, no table it accepted holds
\* a model of an earlier daemon.
NoForeignModel ==
  ls.ctx = ctx /\ ctx # 0 /\ ls.tab # None =>
    \A l \in Label : ls.tab[l] = 0 \/ ls.tab[l] > first

\* A full update is rebuilt by the server exactly as it was read from the client,
\* whatever updates were lost, answered late or left half done before it; but for
\* the labels a delta leaves out although the server was given other revisions.
Read(f) == IF f.kind = "full" THEN f.part ELSE f.keep
FramesAreExact ==
  [][chan # <<>> /\ chan' = Tail(chan) /\ fails' = fails /\ Head(chan).type = "full" /\ ls'.tab # None
       => \A l \in Label \ Head(chan).frame.left : ls'.tab[l] = Read(Head(chan).frame)[l]]_vars

\* Saves, failures and restarts of the server do not keep it from the table of a
\* daemon that stays ready (updates lost by its context included).
Served == ls.idx = table
EventuallyCurrent ==
  (Scope # None /\ mode = "ready" /\ ~torn)
    ~> (Scope = None \/ mode # "ready" \/ torn \/ Served)

\* The models of a daemon that stopped are cleared from the server.
RetiredIsCleared == (mode = "stopped" /\ Scope # None) ~> (mode # "stopped" \/ Scope = None \/ Served)
==============================================================================
