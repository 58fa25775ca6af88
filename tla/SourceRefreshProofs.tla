------------------------- MODULE SourceRefreshProofs -------------------------
(***************************************************************************)
(* Answers stay current and no wake-up is lost, for any number of requests *)
(* and refreshes, any queue limit and any bound on revisions and sessions. *)
(*                                                                         *)
(* The argument: what is in flight when a refresh begins is in its         *)
(* snapshot, and later requests wait, so the initialize is alone (Alone).  *)
(* A value that arrived for it is what the daemon has loaded, and no       *)
(* abandoned initialize is left to replace it (Values).  An answer that    *)
(* carries the current revision was therefore computed from it (Answers).  *)
(***************************************************************************)
EXTENDS SourceConfigurationRequests, TLAPS

\* Only the pending refresh is under way.
OnlyPendingRuns ==
  \A p \in Refresh : rstep[p] \in {"settling", "running"} <=> pending = p

SnapshotCovers ==
  \A p \in Refresh : rstep[p] = "settling" => InFlight \subseteq snapshot[p]

Alone ==
  /\ OnlyPendingRuns
  /\ SnapshotCovers
  /\ InitializeIsAlone
  /\ NoWakeupLost
  /\ ~alive => pending = None

Sessions ==
  \A q \in Req : st[q] \in {"waiting", "sent"} => alive /\ sess[q] = session

\* An initialize asks at a revision of the past; the newest one that the daemon
\* handled is what it has loaded.
Values ==
  /\ \A p \in Refresh : asked[p] <= revision
  /\ \A p \in Refresh : rstep[p] \in {"new", "settling"} => asked[p] = 0
  /\ \A p, o \in Refresh : rstep[p] = "settling" => asked[o] < revision
  /\ \A p, o \in Refresh :
       rstep[p] = "running" => asked[p] > 0 /\ (rstep[o] = "failed" => asked[o] < asked[p])
  /\ \A p \in Refresh : rstep[p] = "running" /\ ~queued => asked[p] = revision
  /\ \A p \in Refresh : rstep[p] = "running" /\ got[p] # None =>
       /\ asked[p] <= got[p] /\ got[p] <= revision
       /\ loaded = got[p]
       /\ \A o \in Refresh : ~Unhandled(o)
  /\ pending = None /\ alive => adopted = revision \/ gaveUp = revision
  /\ adopted = revision /\ alive =>
       loaded = revision /\ pending = None /\ \A o \in Refresh : ~Unhandled(o)
  /\ ~alive => \A o \in Refresh : ~Unhandled(o)
  /\ adopted <= revision /\ loaded <= revision

Answers ==
  /\ \A q \in Req : st[q] = "waiting" => ans[q] = None
  /\ \A q \in Req : st[q] = "sent" => sent[q] <= revision
  /\ \A q \in Req : st[q] = "sent" /\ sent[q] = revision => pending = None
  /\ \A q \in Req : st[q] = "sent" /\ sent[q] = revision /\ ans[q] # None =>
       ans[q] = revision \/ gaveUp = revision

Sends == \A q \in Once : sends[q] <= 1 /\ (st[q] \in {"new", "waiting"} => sends[q] = 0)

IInv == TypeOK /\ Alone /\ Sessions /\ Values /\ Answers /\ Sends

------------------------------------------------------------------------------
\* The inductive invariant holds before the first request.
LEMMA InitIInv == Init => IInv
<1> SUFFICES ASSUME Init PROVE IInv
  OBVIOUS
<1> USE DEF Init, Req, InFlight, Waiting
<1>1. TypeOK
  BY DEF TypeOK, Configuration
<1>2. Alone /\ Sessions
  BY DisjointRequests DEF Alone, OnlyPendingRuns, SnapshotCovers, InitializeIsAlone, NoWakeupLost, Sessions
<1>3. Values
  BY DEF Values, Unhandled
<1>4. Answers /\ Sends
  BY DEF Answers, Sends
<1> QED
  BY <1>1, <1>2, <1>3, <1>4 DEF IInv

\* TypeOK, in parts that actions disturb separately.
ClientTypes ==
  /\ revision \in Nat /\ session \in Nat /\ pending \in Refresh \cup {None}
  /\ queued \in BOOLEAN /\ alive \in BOOLEAN /\ closed \in BOOLEAN
  /\ adopted \in Nat /\ loaded \in Nat /\ gaveUp \in Nat

RequestTypes ==
  /\ st \in [Req -> {"new", "waiting", "sent", "done", "failed"}]
  /\ sent \in [Req -> Nat] /\ sends \in [Req -> Nat]
  /\ aborted \in [Req -> BOOLEAN]
  /\ ans \in [Req -> Configuration \cup {None}]

RefreshTypes ==
  /\ rstep \in [Refresh -> {"new", "settling", "running", "done", "failed"}]
  /\ snapshot \in [Refresh -> SUBSET Req]
  /\ asked \in [Refresh -> Nat]
  /\ got \in [Refresh -> Configuration \cup {None}]

\* The type invariant is that of its four groups of variables.
LEMMA TypeParts == TypeOK <=> ClientTypes /\ RequestTypes /\ RefreshTypes /\ sess \in [Req -> Nat]
BY DEF TypeOK, ClientTypes, RequestTypes, RefreshTypes, Configuration

\* Ending or parking a set of requests keeps the types of the requests.
LEMMA BecomeTypes ==
  ASSUME TypeOK, NEW Q, NEW s \in {"waiting", "done", "failed"}, Become(Q, s)
  PROVE  RequestTypes'
<1> USE DEF TypeOK, Become
<1>1. st' \in [Req -> {"new", "waiting", "sent", "done", "failed"}]
  OBVIOUS
<1>2. sent' \in [Req -> Nat] /\ sends' \in [Req -> Nat]
  OBVIOUS
<1>3. aborted' \in [Req -> BOOLEAN]
  BY Zenon
<1>4. ans' \in [Req -> Configuration \cup {None}]
  OBVIOUS
<1> QED
  BY <1>1, <1>2, <1>3, <1>4 DEF RequestTypes

\* Sending a set of requests keeps the types of the requests.
LEMMA SendTypes ==
  ASSUME TypeOK, NEW Q, Send(Q), ans' \in [Req -> Configuration \cup {None}]
  PROVE  RequestTypes'
<1> USE DEF TypeOK, Send
<1>1. st' \in [Req -> {"new", "waiting", "sent", "done", "failed"}]
  OBVIOUS
<1>2. sent' \in [Req -> Nat] /\ sends' \in [Req -> Nat]
  OBVIOUS
<1>3. aborted' \in [Req -> BOOLEAN]
  OBVIOUS
<1> QED
  BY <1>1, <1>2, <1>3 DEF RequestTypes

\* attempt(), which waits or sends, keeps the types of the requests.
LEMMA AttemptTypes ==
  ASSUME TypeOK, NEW q \in Req, Attempt(q)
  PROVE  RequestTypes'
<1>1. CASE pending # None
  BY <1>1, BecomeTypes DEF Attempt
<1>2. CASE pending = None
  <2>1. Send({q}) /\ ans' \in [Req -> Configuration \cup {None}]
    BY <1>2 DEF Attempt, TypeOK
  <2> QED
    BY <2>1, SendTypes
<1> QED
  BY <1>1, <1>2

\* Type correctness, one step per action.
LEMMA StepTypes == TypeOK /\ [Next]_vars => TypeOK'
<1> SUFFICES ASSUME TypeOK, [Next]_vars PROVE TypeOK'
  OBVIOUS
<1> USE DEF client, requests, refresh
<1>0. ClientTypes /\ RequestTypes /\ RefreshTypes /\ sess \in [Req -> Nat]
  BY TypeParts
<1>1. ASSUME NEW q \in Req, Call(q) PROVE TypeOK'
  <2>1. ClientTypes'
    BY <1>0, <1>1 DEF Call, ClientTypes
  <2>2. RequestTypes' /\ sess' \in [Req -> Nat]
    BY <1>0, <1>1, AttemptTypes DEF Call, ClientTypes, TypeOK
  <2>3. RefreshTypes'
    BY <1>0, <1>1 DEF Call, RefreshTypes
  <2> QED
    BY <2>1, <2>2, <2>3 DEF TypeOK, ClientTypes, RequestTypes, RefreshTypes, Configuration
<1>2. ASSUME NEW q \in Req, Refused(q) PROVE TypeOK'
  <2>1. ClientTypes'
    BY <1>0, <1>2 DEF Refused, ClientTypes
  <2>2. RequestTypes' /\ sess' \in [Req -> Nat]
    BY <1>0, <1>2, BecomeTypes DEF Refused
  <2>3. RefreshTypes'
    BY <1>0, <1>2 DEF Refused, RefreshTypes
  <2> QED
    BY <2>1, <2>2, <2>3 DEF TypeOK, ClientTypes, RequestTypes, RefreshTypes, Configuration
<1>3. ASSUME NEW q \in Req, Handle(q) PROVE TypeOK'
  <2>1. ClientTypes'
    BY <1>0, <1>3 DEF Handle, ClientTypes
  <2>2. RequestTypes' /\ sess' \in [Req -> Nat]
    BY <1>0, <1>3 DEF Handle, RequestTypes, ClientTypes, Configuration
  <2>3. RefreshTypes'
    BY <1>0, <1>3 DEF Handle, RefreshTypes
  <2> QED
    BY <2>1, <2>2, <2>3 DEF TypeOK, ClientTypes, RequestTypes, RefreshTypes, Configuration
<1>4. ASSUME NEW q \in Req, Reply(q) PROVE TypeOK'
  <2>1. ClientTypes'
    BY <1>0, <1>4 DEF Reply, ClientTypes
  <2>2. RequestTypes' /\ sess' \in [Req -> Nat]
    BY <1>0, <1>4, AttemptTypes, BecomeTypes DEF Reply
  <2>3. RefreshTypes'
    BY <1>0, <1>4 DEF Reply, RefreshTypes
  <2> QED
    BY <2>1, <2>2, <2>3 DEF TypeOK, ClientTypes, RequestTypes, RefreshTypes, Configuration
<1>5. ASSUME NEW q \in Req, ErrorReply(q) PROVE TypeOK'
  <2>1. ClientTypes'
    BY <1>0, <1>5 DEF ErrorReply, ClientTypes
  <2>2. RequestTypes' /\ sess' \in [Req -> Nat]
    BY <1>0, <1>5, AttemptTypes, BecomeTypes DEF ErrorReply
  <2>3. RefreshTypes'
    BY <1>0, <1>5 DEF ErrorReply, RefreshTypes
  <2> QED
    BY <2>1, <2>2, <2>3 DEF TypeOK, ClientTypes, RequestTypes, RefreshTypes, Configuration
<1>6. ASSUME NEW q \in Req, Expire(q) PROVE TypeOK'
  <2>1. ClientTypes'
    BY <1>0, <1>6 DEF Expire, ClientTypes
  <2>2. RequestTypes' /\ sess' \in [Req -> Nat]
    BY <1>0, <1>6, BecomeTypes DEF Expire
  <2>3. RefreshTypes'
    BY <1>0, <1>6 DEF Expire, RefreshTypes
  <2> QED
    BY <2>1, <2>2, <2>3 DEF TypeOK, ClientTypes, RequestTypes, RefreshTypes, Configuration
<1>7. ASSUME NEW q \in Req, Abort(q) PROVE TypeOK'
  <2>1. ClientTypes'
    BY <1>0, <1>7 DEF Abort, ClientTypes
  <2>2. RequestTypes' /\ sess' \in [Req -> Nat]
    <3>1. CASE st[q] = "waiting"
      BY <1>0, <1>7, <3>1, BecomeTypes DEF Abort
    <3>2. CASE st[q] # "waiting"
      BY <1>0, <1>7, <3>2 DEF Abort, RequestTypes
    <3> QED
      BY <3>1, <3>2
  <2>3. RefreshTypes'
    BY <1>0, <1>7 DEF Abort, RefreshTypes
  <2> QED
    BY <2>1, <2>2, <2>3 DEF TypeOK, ClientTypes, RequestTypes, RefreshTypes, Configuration
<1>8. ASSUME NEW p \in Refresh, RefreshCall(p) PROVE TypeOK'
  <2>1. ClientTypes'
    <3>1. revision \in Nat /\ revision' = revision + 1
      BY <1>0, <1>8 DEF RefreshCall, ClientTypes
    <3>2. revision' \in Nat
      BY <3>1
    <3> QED
      BY <1>0, <1>8, <3>2 DEF RefreshCall, ClientTypes
  <2>2. RequestTypes' /\ sess' \in [Req -> Nat]
    BY <1>0, <1>8 DEF RefreshCall, RequestTypes
  <2>3. RefreshTypes'
    BY <1>0, <1>8 DEF RefreshCall, RefreshTypes, Req, InFlight
  <2> QED
    BY <2>1, <2>2, <2>3 DEF TypeOK, ClientTypes, RequestTypes, RefreshTypes, Configuration
<1>9. ASSUME NEW p \in Refresh, RefreshRun(p) PROVE TypeOK'
  <2>1. ClientTypes'
    BY <1>0, <1>9 DEF RefreshRun, SendInitialize, ClientTypes
  <2>2. RequestTypes' /\ sess' \in [Req -> Nat]
    BY <1>0, <1>9 DEF RefreshRun, SendInitialize, RequestTypes
  <2>3. RefreshTypes'
    BY <1>0, <1>9 DEF RefreshRun, SendInitialize, RefreshTypes, ClientTypes, Configuration
  <2> QED
    BY <2>1, <2>2, <2>3 DEF TypeOK, ClientTypes, RequestTypes, RefreshTypes, Configuration
<1>10. ASSUME NEW p \in Refresh, InitHandled(p) PROVE TypeOK'
  <2>1. ClientTypes'
    <3>1. loaded' \in asked[p]..revision /\ asked[p] \in Nat /\ revision \in Nat
      BY <1>0, <1>10 DEF InitHandled, ClientTypes, RefreshTypes
    <3>2. loaded' \in Nat
      BY <3>1
    <3> QED
      BY <1>0, <1>10, <3>2 DEF InitHandled, ClientTypes
  <2>2. RequestTypes' /\ sess' \in [Req -> Nat]
    BY <1>0, <1>10 DEF InitHandled, RequestTypes
  <2>3. RefreshTypes'
    BY <1>0, <1>10 DEF InitHandled, RefreshTypes, ClientTypes, Configuration
  <2> QED
    BY <2>1, <2>2, <2>3 DEF TypeOK, ClientTypes, RequestTypes, RefreshTypes, Configuration
<1>11. ASSUME NEW p \in Refresh, RunAgain(p) PROVE TypeOK'
  <2>1. ClientTypes'
    BY <1>0, <1>11 DEF RunAgain, SendInitialize, ClientTypes
  <2>2. RequestTypes' /\ sess' \in [Req -> Nat]
    BY <1>0, <1>11 DEF RunAgain, SendInitialize, RequestTypes
  <2>3. RefreshTypes'
    BY <1>0, <1>11 DEF RunAgain, SendInitialize, RefreshTypes, ClientTypes, Configuration
  <2> QED
    BY <2>1, <2>2, <2>3 DEF TypeOK, ClientTypes, RequestTypes, RefreshTypes, Configuration
<1>12. ASSUME NEW p \in Refresh, Adopt(p) PROVE TypeOK'
  <2>1. ClientTypes'
    BY <1>0, <1>12 DEF Adopt, Arrived, ClientTypes, RefreshTypes, Configuration
  <2>2. RequestTypes' /\ sess' \in [Req -> Nat]
    <3>1. Send(Waiting) /\ ans' \in [Req -> Configuration \cup {None}]
      BY <1>0, <1>12 DEF Adopt, WakeAll, RequestTypes
    <3>2. sess' \in [Req -> Nat]
      BY <1>0, <1>12 DEF Adopt
    <3> QED
      BY <3>1, <3>2, SendTypes
  <2>3. RefreshTypes'
    BY <1>0, <1>12 DEF Adopt, Arrived, RefreshTypes
  <2> QED
    BY <2>1, <2>2, <2>3 DEF TypeOK, ClientTypes, RequestTypes, RefreshTypes, Configuration
<1>13. ASSUME NEW p \in Refresh, RefreshFails(p) PROVE TypeOK'
  <2>1. ClientTypes'
    BY <1>0, <1>13 DEF RefreshFails, ClientTypes
  <2>2. RequestTypes' /\ sess' \in [Req -> Nat]
    BY <1>0, <1>13, BecomeTypes DEF RefreshFails
  <2>3. RefreshTypes'
    BY <1>0, <1>13 DEF RefreshFails, RefreshTypes
  <2> QED
    BY <2>1, <2>2, <2>3 DEF TypeOK, ClientTypes, RequestTypes, RefreshTypes, Configuration
<1>14. ASSUME RefreshJoin PROVE TypeOK'
  <2>1. ClientTypes'
    BY <1>0, <1>14 DEF RefreshJoin, JoinQueued, ClientTypes
  <2>2. RequestTypes' /\ sess' \in [Req -> Nat]
    BY <1>0, <1>14 DEF RefreshJoin, JoinQueued, RequestTypes
  <2>3. RefreshTypes'
    BY <1>0, <1>14 DEF RefreshJoin, JoinQueued, RefreshTypes
  <2> QED
    BY <2>1, <2>2, <2>3 DEF TypeOK, ClientTypes, RequestTypes, RefreshTypes, Configuration
<1>15. ASSUME Reopen PROVE TypeOK'
  <2>1. ClientTypes'
    BY <1>0, <1>15 DEF Reopen, ClientTypes
  <2>2. RequestTypes' /\ sess' \in [Req -> Nat]
    BY <1>0, <1>15 DEF Reopen, RequestTypes
  <2>3. RefreshTypes'
    BY <1>0, <1>15 DEF Reopen, RefreshTypes
  <2> QED
    BY <2>1, <2>2, <2>3 DEF TypeOK, ClientTypes, RequestTypes, RefreshTypes, Configuration
<1>16. ASSUME SessionEnds PROVE TypeOK'
  <2>1. ClientTypes'
    <3>1. revision \in Nat /\ revision' = revision + 1 /\ session \in Nat /\ session' = session + 1
      BY <1>0, <1>16 DEF SessionEnds, RejectAll, ClientTypes
    <3>2. revision' \in Nat /\ session' \in Nat
      BY <3>1
    <3> QED
      BY <1>0, <1>16, <3>2 DEF SessionEnds, RejectAll, ClientTypes
  <2>2. RequestTypes' /\ sess' \in [Req -> Nat]
    BY <1>0, <1>16, BecomeTypes DEF SessionEnds, RejectAll
  <2>3. RefreshTypes'
    <3>1. rstep' \in [Refresh -> {"new", "settling", "running", "done", "failed"}]
      BY <1>0, <1>16 DEF SessionEnds, RefreshTypes
    <3>2. got' \in [Refresh -> Configuration \cup {None}]
      BY <1>0, <1>16 DEF SessionEnds, RefreshTypes, ClientTypes, Configuration
    <3> QED
      BY <1>0, <1>16, <3>1, <3>2 DEF SessionEnds, RefreshTypes
  <2> QED
    BY <2>1, <2>2, <2>3 DEF TypeOK, ClientTypes, RequestTypes, RefreshTypes, Configuration
<1>17. ASSUME SessionStarts PROVE TypeOK'
  <2>1. ClientTypes'
    <3>1. session \in Nat /\ session' = session + 1
      BY <1>0, <1>17 DEF SessionStarts, ClientTypes
    <3>2. session' \in Nat
      BY <3>1
    <3> QED
      BY <1>0, <1>17, <3>2 DEF SessionStarts, ClientTypes
  <2>2. RequestTypes' /\ sess' \in [Req -> Nat]
    BY <1>0, <1>17 DEF SessionStarts, RequestTypes
  <2>3. RefreshTypes'
    BY <1>0, <1>17 DEF SessionStarts, RefreshTypes
  <2> QED
    BY <2>1, <2>2, <2>3 DEF TypeOK, ClientTypes, RequestTypes, RefreshTypes, Configuration
<1>18. CASE UNCHANGED vars
  BY <1>18 DEF vars, TypeOK
<1> QED
  BY <1>1, <1>2, <1>3, <1>4, <1>5, <1>6, <1>7, <1>8, <1>9,
     <1>10, <1>11, <1>12, <1>13, <1>14, <1>15, <1>16, <1>17, <1>18 DEF Next

\* The initialize is alone and waiters have their refresh, one step per action.
LEMMA StepAlone == TypeOK /\ Alone /\ Sessions /\ [Next]_vars => (Alone /\ Sessions)'
<1> SUFFICES ASSUME TypeOK, Alone, Sessions, [Next]_vars PROVE (Alone /\ Sessions)'
  OBVIOUS
<1> USE DisjointRequests, Bounds DEF TypeOK, Alone, OnlyPendingRuns, SnapshotCovers, InitializeIsAlone,
            NoWakeupLost, Sessions, Owns, client, requests, refresh, Req, Live, InFlight, Waiting
<1>1. ASSUME NEW q \in Req, Call(q) PROVE (Alone /\ Sessions)'
  BY <1>1 DEF Call, Attempt, Send, Become
<1>2. ASSUME NEW q \in Req, Refused(q) PROVE (Alone /\ Sessions)'
  BY <1>2 DEF Refused, Become
<1>3. ASSUME NEW q \in Req, Handle(q) PROVE (Alone /\ Sessions)'
  BY <1>3 DEF Handle
<1>4. ASSUME NEW q \in Req, Reply(q) PROVE (Alone /\ Sessions)'
  BY <1>4 DEF Reply, Attempt, Send, Become, Overtaken
<1>5. ASSUME NEW q \in Req, ErrorReply(q) PROVE (Alone /\ Sessions)'
  BY <1>5 DEF ErrorReply, Attempt, Send, Become, Overtaken
<1>6. ASSUME NEW q \in Req, Expire(q) PROVE (Alone /\ Sessions)'
  BY <1>6 DEF Expire, Become
<1>7. ASSUME NEW q \in Req, Abort(q) PROVE (Alone /\ Sessions)'
  BY <1>7 DEF Abort, Become
<1>8. ASSUME NEW p \in Refresh, RefreshCall(p) PROVE (Alone /\ Sessions)'
  BY <1>8 DEF RefreshCall
<1>9. ASSUME NEW p \in Refresh, RefreshRun(p) PROVE (Alone /\ Sessions)'
  BY <1>9 DEF RefreshRun, Settled, SendInitialize
<1>10. ASSUME NEW p \in Refresh, InitHandled(p) PROVE (Alone /\ Sessions)'
  BY <1>10 DEF InitHandled
<1>11. ASSUME NEW p \in Refresh, RunAgain(p) PROVE (Alone /\ Sessions)'
  BY <1>11 DEF RunAgain, Arrived, SendInitialize
<1>12. ASSUME NEW p \in Refresh, Adopt(p) PROVE (Alone /\ Sessions)'
  BY <1>12 DEF Adopt, Arrived, WakeAll, Send
<1>13. ASSUME NEW p \in Refresh, RefreshFails(p) PROVE (Alone /\ Sessions)'
  BY <1>13 DEF RefreshFails, Become
<1>14. ASSUME RefreshJoin PROVE (Alone /\ Sessions)'
  BY <1>14 DEF RefreshJoin, JoinQueued
<1>15. ASSUME Reopen PROVE (Alone /\ Sessions)'
  BY <1>15 DEF Reopen
<1>16. ASSUME SessionEnds PROVE (Alone /\ Sessions)'
  BY <1>16 DEF SessionEnds, RejectAll, Become
<1>17. ASSUME SessionStarts PROVE (Alone /\ Sessions)'
  BY <1>17 DEF SessionStarts
<1>18. CASE UNCHANGED vars
  BY <1>18 DEF vars
<1> QED
  BY <1>1, <1>2, <1>3, <1>4, <1>5, <1>6, <1>7, <1>8, <1>9,
     <1>10, <1>11, <1>12, <1>13, <1>14, <1>15, <1>16, <1>17, <1>18 DEF Next

\* What initialize requests load, one step per action.
LEMMA StepValues == TypeOK /\ Alone /\ Values /\ [Next]_vars => Values'
<1> SUFFICES ASSUME TypeOK, Alone, Values, [Next]_vars PROVE Values'
  OBVIOUS
<1> USE DisjointRequests, Bounds DEF TypeOK, Configuration, Alone, OnlyPendingRuns, Values, Unhandled, client, requests, refresh, Req, Live, InFlight, Waiting
<1>1. ASSUME NEW q \in Req, Call(q) PROVE Values'
  BY <1>1 DEF Call, Attempt, Send, Become
<1>2. ASSUME NEW q \in Req, Refused(q) PROVE Values'
  BY <1>2 DEF Refused, Become
<1>3. ASSUME NEW q \in Req, Handle(q) PROVE Values'
  BY <1>3 DEF Handle
<1>4. ASSUME NEW q \in Req, Reply(q) PROVE Values'
  BY <1>4 DEF Reply, Attempt, Send, Become, Overtaken
<1>5. ASSUME NEW q \in Req, ErrorReply(q) PROVE Values'
  BY <1>5 DEF ErrorReply, Attempt, Send, Become, Overtaken
<1>6. ASSUME NEW q \in Req, Expire(q) PROVE Values'
  BY <1>6 DEF Expire, Become
<1>7. ASSUME NEW q \in Req, Abort(q) PROVE Values'
  BY <1>7 DEF Abort, Become
<1>8. ASSUME NEW p \in Refresh, RefreshCall(p) PROVE Values'
  BY <1>8 DEF RefreshCall
<1>9. ASSUME NEW p \in Refresh, RefreshRun(p) PROVE Values'
  BY <1>9 DEF RefreshRun, Settled, SendInitialize
<1>10. ASSUME NEW p \in Refresh, InitHandled(p) PROVE Values'
  BY <1>10 DEF InitHandled
<1>11. ASSUME NEW p \in Refresh, RunAgain(p) PROVE Values'
  BY <1>11 DEF RunAgain, Arrived, SendInitialize
<1>12. ASSUME NEW p \in Refresh, Adopt(p) PROVE Values'
  BY <1>12 DEF Adopt, Arrived, WakeAll, Send
<1>13. ASSUME NEW p \in Refresh, RefreshFails(p) PROVE Values'
  BY <1>13 DEF RefreshFails, Become
<1>14. ASSUME RefreshJoin PROVE Values'
  BY <1>14 DEF RefreshJoin, JoinQueued
<1>15. ASSUME Reopen PROVE Values'
  BY <1>15 DEF Reopen
<1>16. ASSUME SessionEnds PROVE Values'
  <2>1. /\ revision' = revision + 1 /\ alive' = FALSE
        /\ UNCHANGED <<adopted, loaded, asked>>
        /\ \A o \in Refresh : rstep'[o] \notin {"settling", "running"}
        /\ \A o \in Refresh : rstep'[o] = "new" => rstep[o] = "new"
    BY <1>16 DEF SessionEnds
  <2>2. ASSUME NEW o \in Refresh PROVE ~Unhandled(o)'
    <3>1. CASE Unhandled(o)
      BY <1>16, <3>1 DEF SessionEnds
    <3>2. CASE ~Unhandled(o)
      <4>1. got'[o] = got[o] /\ asked'[o] = asked[o]
        BY <1>16, <3>2 DEF SessionEnds
      <4>2. rstep'[o] \in {"running", "failed"} => rstep[o] \in {"settling", "running", "failed"}
        BY <1>16 DEF SessionEnds
      <4> QED
        BY <3>2, <4>1, <4>2
    <3> QED
      BY <3>1, <3>2
  <2> QED
    BY <2>1, <2>2
<1>17. ASSUME SessionStarts PROVE Values'
  BY <1>17 DEF SessionStarts
<1>18. CASE UNCHANGED vars
  BY <1>18 DEF vars
<1> QED
  BY <1>1, <1>2, <1>3, <1>4, <1>5, <1>6, <1>7, <1>8, <1>9,
     <1>10, <1>11, <1>12, <1>13, <1>14, <1>15, <1>16, <1>17, <1>18 DEF Next

\* What requests are answered from, one step per action.
LEMMA StepAnswers == TypeOK /\ Alone /\ Sessions /\ Values /\ Answers /\ [Next]_vars => Answers'
<1> SUFFICES ASSUME TypeOK, Alone, Sessions, Values, Answers, [Next]_vars PROVE Answers'
  OBVIOUS
<1> USE DisjointRequests, Bounds DEF TypeOK, Configuration, Answers, client, requests, refresh, Req, Live, InFlight, Waiting
<1>1. ASSUME NEW q \in Req, Call(q) PROVE Answers'
  BY <1>1 DEF Call, Attempt, Send, Become
<1>2. ASSUME NEW q \in Req, Refused(q) PROVE Answers'
  BY <1>2 DEF Refused, Become
<1>3. ASSUME NEW q \in Req, Handle(q) PROVE Answers'
  <2>1. sent[q] = revision => loaded = revision \/ gaveUp = revision
    BY <1>3 DEF Handle, Values
  <2>2. /\ ans' = [ans EXCEPT ![q] = loaded] /\ st[q] = "sent"
        /\ UNCHANGED <<st, sent, revision, pending, gaveUp>>
    BY <1>3 DEF Handle
  <2> QED
    BY <2>1, <2>2
<1>4. ASSUME NEW q \in Req, Reply(q) PROVE Answers'
  BY <1>4 DEF Reply, Attempt, Send, Become, Overtaken
<1>5. ASSUME NEW q \in Req, ErrorReply(q) PROVE Answers'
  BY <1>5 DEF ErrorReply, Attempt, Send, Become, Overtaken
<1>6. ASSUME NEW q \in Req, Expire(q) PROVE Answers'
  BY <1>6 DEF Expire, Become
<1>7. ASSUME NEW q \in Req, Abort(q) PROVE Answers'
  BY <1>7 DEF Abort, Become
<1>8. ASSUME NEW p \in Refresh, RefreshCall(p) PROVE Answers'
  BY <1>8 DEF RefreshCall
<1>9. ASSUME NEW p \in Refresh, RefreshRun(p) PROVE Answers'
  BY <1>9 DEF RefreshRun, Settled, SendInitialize
<1>10. ASSUME NEW p \in Refresh, InitHandled(p) PROVE Answers'
  BY <1>10 DEF InitHandled
<1>11. ASSUME NEW p \in Refresh, RunAgain(p) PROVE Answers'
  BY <1>11 DEF RunAgain, Arrived, SendInitialize
<1>12. ASSUME NEW p \in Refresh, Adopt(p) PROVE Answers'
  BY <1>12 DEF Adopt, Arrived, WakeAll, Send
<1>13. ASSUME NEW p \in Refresh, RefreshFails(p) PROVE Answers'
  BY <1>13 DEF RefreshFails, Become
<1>14. ASSUME RefreshJoin PROVE Answers'
  BY <1>14 DEF RefreshJoin, JoinQueued
<1>15. ASSUME Reopen PROVE Answers'
  BY <1>15 DEF Reopen
<1>16. ASSUME SessionEnds PROVE Answers'
  BY <1>16 DEF SessionEnds, RejectAll, Become
<1>17. ASSUME SessionStarts PROVE Answers'
  BY <1>17 DEF SessionStarts
<1>18. CASE UNCHANGED vars
  BY <1>18 DEF vars
<1> QED
  BY <1>1, <1>2, <1>3, <1>4, <1>5, <1>6, <1>7, <1>8, <1>9,
     <1>10, <1>11, <1>12, <1>13, <1>14, <1>15, <1>16, <1>17, <1>18 DEF Next

\* Reindex requests are sent once, one step per action.
LEMMA StepSends == TypeOK /\ Sends /\ [Next]_vars => Sends'
<1> SUFFICES ASSUME TypeOK, Sends, [Next]_vars PROVE Sends'
  OBVIOUS
<1> USE DisjointRequests, Bounds DEF TypeOK, Sends, client, requests, refresh, Req, Live, InFlight, Waiting
<1>1. ASSUME NEW q \in Req, Call(q) PROVE Sends'
  BY <1>1 DEF Call, Attempt, Send, Become
<1>2. ASSUME NEW q \in Req, Refused(q) PROVE Sends'
  BY <1>2 DEF Refused, Become
<1>3. ASSUME NEW q \in Req, Handle(q) PROVE Sends'
  BY <1>3 DEF Handle
<1>4. ASSUME NEW q \in Req, Reply(q) PROVE Sends'
  BY <1>4 DEF Reply, Attempt, Send, Become, Overtaken
<1>5. ASSUME NEW q \in Req, ErrorReply(q) PROVE Sends'
  BY <1>5 DEF ErrorReply, Attempt, Send, Become, Overtaken
<1>6. ASSUME NEW q \in Req, Expire(q) PROVE Sends'
  BY <1>6 DEF Expire, Become
<1>7. ASSUME NEW q \in Req, Abort(q) PROVE Sends'
  BY <1>7 DEF Abort, Become
<1>8. ASSUME NEW p \in Refresh, RefreshCall(p) PROVE Sends'
  BY <1>8 DEF RefreshCall
<1>9. ASSUME NEW p \in Refresh, RefreshRun(p) PROVE Sends'
  BY <1>9 DEF RefreshRun, Settled, SendInitialize
<1>10. ASSUME NEW p \in Refresh, InitHandled(p) PROVE Sends'
  BY <1>10 DEF InitHandled
<1>11. ASSUME NEW p \in Refresh, RunAgain(p) PROVE Sends'
  BY <1>11 DEF RunAgain, Arrived, SendInitialize
<1>12. ASSUME NEW p \in Refresh, Adopt(p) PROVE Sends'
  BY <1>12 DEF Adopt, Arrived, WakeAll, Send
<1>13. ASSUME NEW p \in Refresh, RefreshFails(p) PROVE Sends'
  BY <1>13 DEF RefreshFails, Become
<1>14. ASSUME RefreshJoin PROVE Sends'
  BY <1>14 DEF RefreshJoin, JoinQueued
<1>15. ASSUME Reopen PROVE Sends'
  BY <1>15 DEF Reopen
<1>16. ASSUME SessionEnds PROVE Sends'
  BY <1>16 DEF SessionEnds, RejectAll, Become
<1>17. ASSUME SessionStarts PROVE Sends'
  BY <1>17 DEF SessionStarts
<1>18. CASE UNCHANGED vars
  BY <1>18 DEF vars
<1> QED
  BY <1>1, <1>2, <1>3, <1>4, <1>5, <1>6, <1>7, <1>8, <1>9,
     <1>10, <1>11, <1>12, <1>13, <1>14, <1>15, <1>16, <1>17, <1>18 DEF Next

------------------------------------------------------------------------------
\* Everything the properties rest on holds in every reachable state.
THEOREM Inductive == Spec => []IInv
<1>1. IInv /\ [Next]_vars => IInv'
  BY StepTypes, StepAlone, StepValues, StepAnswers, StepSends DEF IInv
<1> QED
  BY InitIInv, <1>1, PTL DEF Spec

\* Every variable keeps its type.
THEOREM TypeCorrect == Spec => []TypeOK
<1>1. IInv => TypeOK
  BY DEF IInv
<1> QED
  BY Inductive, <1>1, PTL

\* The initialize of a refresh never shares the wire with an older request.
THEOREM InitializeAlone == Spec => []InitializeIsAlone
<1>1. IInv => InitializeIsAlone
  BY DEF IInv, Alone
<1> QED
  BY Inductive, <1>1, PTL

\* Whoever waits has a pending refresh that will wake it.
THEOREM WaitersAreWoken == Spec => []NoWakeupLost
<1>1. IInv => NoWakeupLost
  BY DEF IInv, Alone
<1> QED
  BY Inductive, <1>1, PTL

\* A request in flight belongs to the session it was made for.
THEOREM OwnSession == Spec => []SentInOwnSession
<1>1. IInv => SentInOwnSession
  BY DEF IInv, Sessions, SentInOwnSession, InFlight
<1> QED
  BY Inductive, <1>1, PTL

\* Reindex and resync requests are not repeated by refreshes.
THEOREM SentOnce == Spec => []ReindexIsSentOnce
<1>1. IInv => ReindexIsSentOnce
  BY DEF IInv, Sends, ReindexIsSentOnce
<1> QED
  BY Inductive, <1>1, PTL

\* An adopted configuration includes every change the client was told of.
LEMMA AdoptsLatest == IInv /\ [Next]_vars => (adopted' # adopted => adopted' = revision)
<1> SUFFICES ASSUME IInv, [Next]_vars, adopted' # adopted PROVE adopted' = revision
  OBVIOUS
<1> USE DEF client, requests, refresh
<1>1. \A q \in Req : ~Call(q) /\ ~Refused(q) /\ ~Handle(q) /\ ~Reply(q) /\ ~ErrorReply(q)
                     /\ ~Expire(q) /\ ~Abort(q)
  BY DEF Call, Refused, Handle, Reply, ErrorReply, Expire, Abort
<1>2. \A p \in Refresh : ~RefreshCall(p) /\ ~RefreshRun(p) /\ ~InitHandled(p) /\ ~RunAgain(p)
                         /\ ~RefreshFails(p)
  BY DEF RefreshCall, RefreshRun, InitHandled, RunAgain, RefreshFails
<1>3. ~RefreshJoin /\ ~Reopen /\ ~SessionEnds /\ ~UNCHANGED vars
  BY DEF RefreshJoin, Reopen, SessionEnds, vars
<1>4. ASSUME NEW p \in Refresh, Adopt(p) PROVE adopted' = revision
  <2>1. adopted' = got[p] /\ got[p] # None /\ asked[p] = revision
    BY <1>4 DEF Adopt, Arrived, IInv, Values
  <2>2. asked[p] <= got[p] /\ got[p] <= revision /\ got[p] \in Nat /\ revision \in Nat
    BY <1>4, <2>1 DEF Adopt, IInv, Values, TypeOK, Configuration
  <2> QED
    BY <2>1, <2>2
<1>5. CASE SessionStarts
  BY <1>5 DEF SessionStarts
<1> QED
  BY <1>1, <1>2, <1>3, <1>4, <1>5 DEF Next

\* The client adopts the latest configuration only.
THEOREM AdoptionIsLatest == Spec => AdoptedIsLatest
<1>1. IInv /\ [Next]_vars => [adopted' # adopted => adopted' = revision]_vars
  BY AdoptsLatest
<1> QED
  BY Inductive, <1>1, PTL DEF Spec, AdoptedIsLatest

\* A replayable request is settled only by the reply that was not overtaken.
LEMMA AnswersCurrent ==
  IInv /\ [Next]_vars =>
    \A q \in Replayable : st[q] = "sent" /\ st'[q] = "done" => ans[q] = revision \/ gaveUp = revision
<1> SUFFICES ASSUME IInv, [Next]_vars, NEW q \in Replayable, st[q] = "sent", st'[q] = "done"
             PROVE  ans[q] = revision \/ gaveUp = revision
  OBVIOUS
<1> USE DEF client, requests, refresh, Req, Become, Send, Attempt
<1>1. q \in Req
  OBVIOUS
<1>2. ASSUME NEW r \in Req, Reply(r) PROVE ans[q] = revision \/ gaveUp = revision
  <2>1. r = q /\ ~Overtaken(q) /\ ans[q] # None
    BY <1>1, <1>2 DEF Reply, IInv, TypeOK
  <2> QED
    BY <1>1, <2>1 DEF Overtaken, IInv, Answers
<1>3. \A r \in Req : ~Call(r) /\ ~Refused(r) /\ ~Handle(r) /\ ~ErrorReply(r) /\ ~Expire(r) /\ ~Abort(r)
  BY <1>1 DEF Call, Refused, Handle, ErrorReply, Expire, Abort, IInv, TypeOK
<1>4. \A p \in Refresh : ~RefreshCall(p) /\ ~RefreshRun(p) /\ ~InitHandled(p) /\ ~RunAgain(p)
                         /\ ~Adopt(p) /\ ~RefreshFails(p)
  BY <1>1 DEF RefreshCall, RefreshRun, InitHandled, RunAgain, Adopt, WakeAll, Waiting, RefreshFails
<1>5. ~RefreshJoin /\ ~Reopen /\ ~SessionEnds /\ ~SessionStarts /\ ~UNCHANGED vars
  BY <1>1 DEF RefreshJoin, Reopen, SessionEnds, RejectAll, Live, SessionStarts, vars
<1> QED
  BY <1>2, <1>3, <1>4, <1>5 DEF Next

\* No stale answer escapes a refresh, in any reachable state.
THEOREM AnswersStayCurrent == Spec => AnswersAreCurrent
<1>1. IInv /\ [Next]_vars =>
        [\A q \in Replayable : st[q] = "sent" /\ st'[q] = "done"
           => ans[q] = revision \/ gaveUp = revision]_vars
  BY AnswersCurrent
<1> QED
  BY Inductive, <1>1, PTL DEF Spec, AnswersAreCurrent
==============================================================================
