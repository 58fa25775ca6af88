--------------------- MODULE SourceConfigurationRequests ---------------------
(***************************************************************************)
(* Requests of the client while the source configuration of the daemon is  *)
(* refreshed: SourceConfigurationRequests.request and .refresh             *)
(* (src/src/client/daemon/sourceConfigurationRequests.ts) with the caller  *)
(* AnalysisDaemon.refreshSourceConfiguration, and the daemon's side of the *)
(* initialize request reduced to the configuration it has loaded.          *)
(*                                                                         *)
(* One action is one turn of the event loop with the promise continuations *)
(* it releases: refresh() is called from watcher callbacks and timers, so  *)
(* nothing runs between a refresh settling and its waiters going on.       *)
(***************************************************************************)
EXTENDS Naturals, FiniteSets

CONSTANTS
  Replayable,   \* requests sent again when a refresh overtook them
  Once,         \* reindex and resync requests, which are not
  Refresh,      \* calls of refresh() that open a refresh
  None,         \* no refresh
  Cap,          \* logical requests allowed at once (64 in the code)
  MaxRevision,  \* bound: refresh() is not joined beyond this revision
  MaxSession    \* bound: daemon sessions that end

Req == Replayable \cup Once

ASSUME DisjointRequests ==
  /\ Replayable \cap Once = {}
  /\ None \notin Refresh \cup Nat
ASSUME Bounds == Cap \in Nat /\ MaxRevision \in Nat /\ MaxSession \in Nat

VARIABLES
  revision,   \* bumped by every refresh() and every reset()
  pending,    \* the refresh requests wait for
  queued,     \* refresh() was called again since the last initialize was sent
  session,    \* the daemon session
  alive,      \* a child that answered its first initialize is owned
  closed,     \* metadata retired by a refresh that failed: requests are refused
  st,         \* new, waiting for the refresh, sent, done or failed
  sess,       \* the session a request was made for
  sent,       \* the revision at the send of the attempt in flight, else 0
  sends,      \* how often it was sent
  aborted,    \* its abort signal fired
  ans,        \* the configuration that attempt was answered from, None before
  rstep,      \* new, settling, running, done or failed
  snapshot,   \* the sent requests a refresh waits for
  asked,      \* the revision at the last initialize of a refresh
  got,        \* the configuration that initialize loaded, None before
  adopted,    \* the configuration the client adopted last
  gaveUp,     \* history: the revision of the last refresh that failed
  loaded      \* the configuration the daemon has loaded

client   == <<revision, pending, queued, session, alive, closed, adopted, gaveUp>>
requests == <<st, sess, sent, sends, aborted, ans>>
refresh  == <<rstep, snapshot, asked, got>>
vars == <<client, requests, refresh, loaded>>

Configuration == Nat

TypeOK ==
  /\ revision \in Nat /\ session \in Nat
  /\ pending \in Refresh \cup {None}
  /\ queued \in BOOLEAN /\ alive \in BOOLEAN /\ closed \in BOOLEAN
  /\ st \in [Req -> {"new", "waiting", "sent", "done", "failed"}]
  /\ sess \in [Req -> Nat] /\ sent \in [Req -> Nat] /\ sends \in [Req -> Nat]
  /\ aborted \in [Req -> BOOLEAN]
  /\ ans \in [Req -> Configuration \cup {None}]
  /\ rstep \in [Refresh -> {"new", "settling", "running", "done", "failed"}]
  /\ snapshot \in [Refresh -> SUBSET Req]
  /\ asked \in [Refresh -> Nat]
  /\ got \in [Refresh -> Configuration \cup {None}]
  /\ adopted \in Configuration /\ loaded \in Configuration /\ gaveUp \in Nat

Init ==
  /\ revision = 0 /\ session = 0 /\ pending = None
  /\ queued = FALSE /\ alive = TRUE /\ closed = FALSE
  /\ st = [q \in Req |-> "new"]
  /\ sess = [q \in Req |-> 0] /\ sent = [q \in Req |-> 0] /\ sends = [q \in Req |-> 0]
  /\ aborted = [q \in Req |-> FALSE]
  /\ ans = [q \in Req |-> None]
  /\ rstep = [p \in Refresh |-> "new"]
  /\ snapshot = [p \in Refresh |-> {}]
  /\ asked = [p \in Refresh |-> 0]
  /\ got = [p \in Refresh |-> None]
  /\ adopted = 0 /\ loaded = 0 /\ gaveUp = 0

------------------------------------------------------------------------------
\* request().

Live == {q \in Req : st[q] \in {"waiting", "sent"}}
InFlight == {q \in Req : st[q] = "sent"}
Waiting == {q \in Req : st[q] = "waiting"}
Owns(q) == alive /\ sess[q] = session

\* Every request of the set goes on to send(); the others keep their place.
Send(Q) ==
  /\ st' = [q \in Req |-> IF q \in Q THEN "sent" ELSE st[q]]
  /\ sent' = [q \in Req |-> IF q \in Q THEN revision ELSE sent[q]]
  /\ sends' = [q \in Req |-> IF q \in Q THEN sends[q] + 1 ELSE sends[q]]
  /\ UNCHANGED aborted

\* The attempt in flight, if any, is over.
Become(Q, s) ==
  /\ st' = [q \in Req |-> IF q \in Q THEN s ELSE st[q]]
  /\ sent' = [q \in Req |-> IF q \in Q THEN 0 ELSE sent[q]]
  /\ ans' = [q \in Req |-> IF q \in Q THEN None ELSE ans[q]]
  /\ aborted' = [q \in Req |-> aborted[q] /\ ~(q \in Q /\ s # "waiting")]
  /\ UNCHANGED sends

\* attempt(): wait for the refresh that is pending, or send at once.
Attempt(q) ==
  IF pending # None THEN Become({q}, "waiting")
  ELSE Send({q}) /\ ans' = [ans EXCEPT ![q] = None]

Call(q) ==
  /\ st[q] = "new" /\ alive
  /\ ~closed /\ Cardinality(Live) < Cap
  /\ sess' = [sess EXCEPT ![q] = session]
  /\ Attempt(q)
  /\ UNCHANGED <<client, refresh, loaded>>

\* No child, a failed configuration, or a full queue.
Refused(q) ==
  /\ st[q] = "new"
  /\ ~alive \/ closed \/ Cardinality(Live) >= Cap
  /\ Become({q}, "failed")
  /\ UNCHANGED <<client, sess, refresh, loaded>>

\* The daemon computes its answer from the configuration it has loaded.
Handle(q) ==
  /\ alive /\ st[q] = "sent" /\ ans[q] = None
  /\ ans' = [ans EXCEPT ![q] = loaded]
  /\ UNCHANGED <<client, st, sess, sent, sends, aborted, refresh, loaded>>

\* A refresh overtook the request between its send and its settlement.
OvertakenNever(q) == FALSE                  \* faulty: late answers are kept
OvertakenAny(q) == sent[q] # revision       \* faulty: reindexes are replayed too
Overtaken(q) == q \in Replayable /\ sent[q] # revision

Reply(q) ==
  /\ st[q] = "sent" /\ ans[q] # None
  /\ IF ~Overtaken(q) THEN Become({q}, "done")
     ELSE IF ~Owns(q) \/ aborted[q] THEN Become({q}, "failed")
     ELSE Attempt(q)
  /\ UNCHANGED <<client, sess, refresh, loaded>>

\* The daemon answers with an error, or the write fails.
ErrorReply(q) ==
  /\ st[q] = "sent"
  /\ IF Overtaken(q) /\ Owns(q) /\ ~aborted[q] THEN Attempt(q) ELSE Become({q}, "failed")
  /\ UNCHANGED <<client, sess, refresh, loaded>>

\* The deadline of the original call, shared by all its attempts.
Expire(q) ==
  /\ q \in Live
  /\ Become({q}, "failed")
  /\ UNCHANGED <<client, sess, refresh, loaded>>

\* An abort ends a wait; a request that was sent only loses its replay.
Abort(q) ==
  /\ q \in Live /\ ~aborted[q]
  /\ IF st[q] = "waiting" THEN Become({q}, "failed")
     ELSE aborted' = [aborted EXCEPT ![q] = TRUE] /\ UNCHANGED <<st, sent, sends, ans>>
  /\ UNCHANGED <<client, sess, refresh, loaded>>

------------------------------------------------------------------------------
\* refresh(), as refreshSourceConfiguration calls it.

RefreshCall(p) ==
  /\ alive /\ pending = None /\ rstep[p] = "new"
  /\ pending' = p
  /\ revision' = revision + 1
  /\ queued' = FALSE
  /\ rstep' = [rstep EXCEPT ![p] = "settling"]
  /\ snapshot' = [snapshot EXCEPT ![p] = InFlight]
  /\ UNCHANGED <<session, alive, closed, adopted, gaveUp, requests, asked, got, loaded>>

\* A call that finds a refresh: it shares its promise and queues another run.
JoinUnqueued == UNCHANGED queued            \* faulty: the running refresh will do
JoinQueued == queued' = TRUE

RefreshJoin ==
  /\ alive /\ pending # None /\ revision < MaxRevision
  /\ JoinQueued
  /\ revision' = revision + 1
  /\ UNCHANGED <<pending, session, alive, closed, adopted, gaveUp, requests, refresh, loaded>>

\* Everything in flight when the refresh began has settled.
Settled(p) == snapshot[p] \cap InFlight = {}

Arrived(p) == got[p] # None

SendInitialize(p) ==
  /\ queued' = FALSE
  /\ asked' = [asked EXCEPT ![p] = revision]
  /\ got' = [got EXCEPT ![p] = None]

RefreshRun(p) ==
  /\ pending = p /\ rstep[p] = "settling" /\ Settled(p)
  /\ rstep' = [rstep EXCEPT ![p] = "running"]
  /\ SendInitialize(p)
  /\ UNCHANGED <<revision, pending, session, alive, closed, adopted, gaveUp, requests, snapshot, loaded>>

\* The daemon reads the configuration some time after the initialize was sent.
\* It handles initialize requests in order: one the client gave up on is
\* handled before the next.
Unhandled(p) == rstep[p] \in {"running", "failed"} /\ asked[p] > 0 /\ got[p] = None

InitHandled(p) ==
  /\ alive /\ Unhandled(p)
  /\ \A o \in Refresh \ {p} : Unhandled(o) => asked[o] > asked[p]
  /\ \E v \in asked[p]..revision : loaded' = v /\ got' = [got EXCEPT ![p] = v]
  /\ UNCHANGED <<client, requests, rstep, snapshot, asked>>

\* Another run, since refresh() was called meanwhile.
RunAgain(p) ==
  /\ pending = p /\ rstep[p] = "running" /\ Arrived(p) /\ queued
  /\ SendInitialize(p)
  /\ UNCHANGED <<revision, pending, session, alive, closed, adopted, gaveUp, requests, rstep, snapshot, loaded>>

\* The value is adopted, the refresh settles and its waiters send; none of them
\* can have lost its session meanwhile, since SessionEnds fails every waiter.
WakeNobody == UNCHANGED <<st, sent, sends, ans, aborted>>   \* faulty: waiters are forgotten
WakeAll == Send(Waiting) /\ UNCHANGED ans

Adopt(p) ==
  /\ pending = p /\ rstep[p] = "running" /\ Arrived(p) /\ ~queued
  /\ adopted' = got[p]
  /\ pending' = None
  /\ closed' = FALSE
  /\ rstep' = [rstep EXCEPT ![p] = "done"]
  /\ WakeAll
  /\ UNCHANGED <<revision, queued, session, alive, gaveUp, sess, snapshot, asked, got, loaded>>

\* The deadline passed or the initialize failed: waiters share the failure.
RefreshFails(p) ==
  /\ pending = p /\ rstep[p] \in {"settling", "running"}
  /\ pending' = None
  /\ closed' = TRUE
  /\ gaveUp' = revision
  /\ rstep' = [rstep EXCEPT ![p] = "failed"]
  /\ Become(Waiting, "failed")
  /\ UNCHANGED <<revision, queued, session, alive, adopted, sess, snapshot, asked, got, loaded>>

\* A notification that arrives after the failure publishes another phase.
Reopen ==
  /\ alive /\ closed /\ pending = None
  /\ closed' = FALSE
  /\ UNCHANGED <<revision, pending, queued, session, alive, adopted, gaveUp, requests, refresh, loaded>>

------------------------------------------------------------------------------
\* The daemon stops or exits: everything pending is rejected, nothing owns the
\* session any more, and reset() forgets the refresh.
RejectAll == Become(Live, "failed")

SessionEnds ==
  /\ alive /\ session < MaxSession
  /\ alive' = FALSE
  /\ session' = session + 1
  /\ revision' = revision + 1
  /\ pending' = None
  /\ queued' = FALSE
  /\ rstep' = [p \in Refresh |-> IF rstep[p] \in {"settling", "running"} THEN "failed" ELSE rstep[p]]
  /\ got' = [p \in Refresh |-> IF Unhandled(p) THEN loaded ELSE got[p]]  \* died unhandled
  /\ RejectAll
  /\ UNCHANGED <<closed, adopted, gaveUp, sess, snapshot, asked, loaded>>

\* The next child has answered its own initialize.
SessionStarts ==
  /\ ~alive
  /\ alive' = TRUE
  /\ session' = session + 1
  /\ closed' = FALSE
  /\ loaded' = revision
  /\ adopted' = revision
  /\ UNCHANGED <<revision, pending, queued, gaveUp, requests, refresh>>

Next ==
  \/ \E q \in Req : Call(q) \/ Refused(q) \/ Handle(q) \/ Reply(q) \/ ErrorReply(q)
                    \/ Expire(q) \/ Abort(q)
  \/ \E p \in Refresh : RefreshCall(p) \/ RefreshRun(p) \/ InitHandled(p) \/ RunAgain(p)
                        \/ Adopt(p) \/ RefreshFails(p)
  \/ RefreshJoin \/ Reopen \/ SessionEnds \/ SessionStarts

Spec == Init /\ [][Next]_vars

------------------------------------------------------------------------------
\* The initialize of a refresh is alone on the wire as far as the client waits:
\* what was sent before has settled, and what came later waits.
InitializeIsAlone == \A p \in Refresh : rstep[p] = "running" => InFlight = {}

\* A request that waits for a refresh waits for the pending one, which wakes it
\* when it settles: no wake-up is lost when refreshes follow each other.
NoWakeupLost == Waiting # {} => pending # None

\* A request in flight was made for the session whose child it was sent to, so
\* a replay never crosses a restart.
SentInOwnSession == \A q \in InFlight : alive /\ sess[q] = session

\* Reindex and resync requests reach the daemon at most once, whatever refreshes
\* overtake them.
ReindexIsSentOnce == \A q \in Once : sends[q] <= 1

\* The client adopts only a configuration that includes every change it was
\* told of by then, calls that joined the refresh included.
AdoptedIsLatest == [][adopted' # adopted => adopted' = revision]_vars

\* A replayable request is answered from a configuration that includes every
\* change the client was told of by the time the caller gets the answer: an
\* answer computed before a refresh never escapes during or after it, unless
\* that refresh failed.
AnswersAreCurrent ==
  [][\A q \in Replayable : st[q] = "sent" /\ st'[q] = "done"
     => ans[q] = revision \/ gaveUp = revision]_vars
==============================================================================
