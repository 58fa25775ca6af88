------------------------ MODULE SurfaceDeliveryProofs ------------------------
(***************************************************************************)
(* The server rebuilds every frame as it was read from the client but for  *)
(* the labels it leaves out (Gives), holds no model of an earlier daemon   *)
(* once it knows the running one, and serves the client's table when       *)
(* nothing is left to publish.                                             *)
(*                                                                         *)
(* Frames.  Sequence numbers are used again after a failed update, so      *)
(* what protects a delta is the order of the channel: while the encoder    *)
(* has a baseline and no update has failed, no full update is under way    *)
(* but the one an answer is awaited for (BaseOK, AwaitOK).  A delta is     *)
(* therefore the first full update in the channel (ChanOK), and the        *)
(* decoder has what was given with the encoder's baseline, or none of that *)
(* number: not the baseline itself, if the table was patched in between.   *)
(*                                                                         *)
(* Models.  An update is sent only in the scope it was made in, whose      *)
(* session gave out all it holds (ActOK); contexts follow the sessions,    *)
(* so an update of an earlier one is served before the context of the      *)
(* running one (OwnerOK).                                                  *)
(*                                                                         *)
(* Currency.  A full update is forgotten only if its table, which follows  *)
(* the client's until it is sent, is the client's but for what the running *)
(* batch sends itself (TakenOK), and the server's index is that table      *)
(* (AppliedOK); or torn says that its frame left out a label.  A source    *)
(* delta finds a server that has the rest (ServedOK, DeltaOK): no context  *)
(* that would clear it is on its way once one is settled (DeliveryOK,      *)
(* UpdateOK).                                                              *)
(***************************************************************************)
EXTENDS SurfaceDelivery, Integers, TLAPS

Table == [Label -> Nat]
Decoders == [seq : Nat, tab : Table]
Servers == [tab : Table \cup {None}, idx : Table \cup {Broken}, dec : Decoders \cup {None}, ctx : Nat]
Batches == [step : {"idle", "collecting", "waiting", "sent"}, part : Parts, sess : Nat, gen : Nat,
            scope : Scopes \cup {None}]
Contexts == [type : {"ctx"}, awaited : BOOLEAN, ctx : Nat]
Requests == [type : {"full", "delta", "clear"}, awaited : BOOLEAN, part : Parts, snap : Table,
             frame : Frames \cup {None}]
Messages == Contexts \cup Requests

Baselines == {e \in [seq : Nat, tab : Table \cup {None}, real : Table \cup {None}] :
                e.tab # None => e.real \in Table}

\* The running daemon gave out what this part of a table holds.
OwnPart(p) == \A l \in DOMAIN p : p[l] = 0 \/ p[l] > first

\* The frame f follows the encoder's baseline; a delta names what it leaves out.
Fits(f) ==
  /\ f \in Frames /\ f.seq = enc.seq + 1
  /\ f.kind = "full" => f.left = {}
  /\ f.kind = "delta" =>
       /\ enc.tab # None /\ f.base = enc.seq /\ f.keep \in Table /\ Over(enc.tab, f.part) = f.keep
       /\ f.left = {l \in Label \ DOMAIN f.part : enc.real[l] # enc.tab[l]}

\* What the server gets of a request is what was read, but for what it leaves out.
Gives(m) ==
  /\ m.frame \in Frames
  /\ m.frame.kind = "full" => m.frame.part = m.snap /\ m.frame.left = {}
  /\ m.frame.kind = "delta" =>
       m.frame.keep \in Table /\ \A l \in Label \ m.frame.left : m.snap[l] = m.frame.keep[l]

\* A decoder that has the base of a request rebuilds its table.
Rebuilds(d, m) ==
  /\ Gives(m)
  /\ m.frame.kind = "delta" /\ d # None /\ d.seq = m.frame.base => Over(d.tab, m.frame.part) = m.snap

Slots == 1..Len(chan)
Underway == act # None /\ act.step = "sent"
Failed == act # None /\ act.step = "answered" /\ ~act.ok
Encoded == {"context", "resolved", "sent"}

ClientOK ==
  /\ table \in Table /\ rev \in Nat /\ first \in Nat /\ first <= rev
  /\ sess \in Nat /\ ctx \in {0, sess} /\ gen \in Nat /\ lsn \in Nat /\ disposed \in BOOLEAN
  /\ OwnPart(table) /\ (mode \in {"stopped", "starting"} => table = Empty)
BatchOK ==
  /\ batch \in Batches /\ batch.sess <= sess
  /\ batch.sess = sess => OwnPart(batch.part)
  /\ batch.step = "waiting" => batch.scope \in Scopes /\ batch.scope # None /\ batch.scope[2] = batch.sess
ActOK ==
  act # None =>
    /\ act \in Updates /\ act.scope \in Scopes /\ act.scope # None /\ act.scope[2] <= sess
    /\ act.ok => act.step = "answered"
    /\ act.method # "full" => act.frame = None
    /\ act.own => act.method = "full" /\ act.step # "sent" /\ ~act.ok
    /\ act.scope[2] = sess =>
         OwnPart(act.snap) /\ OwnPart(act.part) /\ (act.frame # None => OwnPart(act.frame.part))
PendOK == pend # None => pend \in Nat \X Nat /\ pend[2] <= sess
EncOK == enc \in Baselines /\ (disposed => enc.tab = None)
FrameOK ==
  act # None /\ ~disposed /\ act.method = "full" /\ act.step \in Encoded => Fits(act.frame)

\* The encoder's baseline is of the scope in which it was acknowledged.
ScopeOK ==
  /\ enc.tab # None => tscope \in Scopes /\ tscope[2] <= sess /\ (tscope[2] = sess => OwnPart(enc.real))
  /\ act # None /\ act.step # "queued" => tscope = act.scope

\* What is under way, and in which order.
ChanOK ==
  /\ chan \in Seq(Messages)
  /\ \A i \in Slots : chan[i].type = "ctx" => chan[i].ctx <= sess
  /\ \A i \in Slots : chan[i].type = "full" => Rebuilds(ls.dec, chan[i])
  /\ \A i, j \in Slots :
       j < i /\ chan[i].type = "full" /\ chan[i].frame.kind = "delta" => chan[j].type # "full"

\* An answer is awaited for the last update only.
AwaitOK ==
  \A i \in Slots : chan[i].type # "ctx" /\ chan[i].awaited =>
    Underway /\ chan[i] = Request(act) /\ \A j \in Slots : j > i => chan[j].type = "ctx"

\* The decoder's baseline is what was given with the encoder's, unless an update failed.
BaseOK ==
  enc.tab # None /\ ~Failed =>
    /\ ls.dec # None /\ ls.dec.seq = enc.seq => ls.dec.tab = enc.real
    /\ \A i \in Slots : chan[i].type = "full" => chan[i].awaited

\* So will it be when the encoder reads the answer.
AckOK ==
  act # None /\ act.ok /\ act.method = "full" =>
    /\ \A i \in Slots : chan[i].type # "full"
    /\ ls.dec # None /\ ls.dec.seq = act.frame.seq => ls.dec.tab = act.snap

\* A model of an earlier daemon travels before the context of the running one.
ServerOK == ls \in Servers /\ ls.ctx <= sess
OwnerOK ==
  ctx # 0 =>
    \A j \in Slots : chan[j].type # "ctx" =>
      \/ OwnPart(chan[j].snap) /\ OwnPart(chan[j].part)
      \/ ls.ctx # ctx /\ \A i \in Slots : i < j /\ chan[i].type = "ctx" => chan[i].ctx # ctx

Channel == EncOK /\ FrameOK /\ ChanOK /\ AwaitOK /\ BaseOK /\ AckOK
IInv == ClientOK /\ BatchOK /\ ActOK /\ ScopeOK /\ PendOK /\ Channel /\ ServerOK /\ OwnerOK /\ NoForeignModel

-----------------------------------------------------------------------------
\* The channel.

\* Contexts may join at its end.
Grown ==
  /\ chan' \in Seq(Messages)
  /\ \A i \in Slots : i \in Slots' /\ chan'[i] = chan[i]
  /\ \A i \in Slots' \ Slots : chan'[i].type = "ctx" /\ chan'[i].ctx <= sess' /\ \A j \in Slots : j < i

LEMMA Unchanged == ASSUME chan \in Seq(Messages), chan' = chan PROVE Grown
BY DEF Grown, Slots

LEMMA Appended ==
  ASSUME NEW s \in Seq(Messages), NEW m \in Messages
  PROVE  /\ Append(s, m) \in Seq(Messages) /\ Len(Append(s, m)) = Len(s) + 1 /\ Len(s) \in Nat
         /\ \A i \in 1..Len(s) : Append(s, m)[i] = s[i]
         /\ Append(s, m)[Len(s) + 1] = m
OBVIOUS

LEMMA ContextJoins ==
  ASSUME chan \in Seq(Messages), NEW k \in Nat \X Nat, k[2] <= sess', chan' = Append(chan, ContextMessage(k))
  PROVE  Grown
<1>1. ContextMessage(k) \in Messages /\ ContextMessage(k).type = "ctx" /\ ContextMessage(k).ctx = k[2]
  BY DEF ContextMessage, Messages, Contexts
<1>2. /\ chan' \in Seq(Messages) /\ Len(chan') = Len(chan) + 1 /\ Len(chan) \in Nat
      /\ \A i \in 1..Len(chan) : chan'[i] = chan[i]
      /\ chan'[Len(chan) + 1] = ContextMessage(k)
  BY <1>1, Appended
<1>3. ASSUME NEW i \in Slots' \ Slots PROVE i = Len(chan) + 1
  BY <1>2 DEF Slots
<1> QED
  BY <1>1, <1>2, <1>3 DEF Grown, Slots

\* The update under way stays so, and no other is encoded or answered.
Carried ==
  /\ Underway => Underway' /\ Request(act') = Request(act)
  /\ Failed => Failed'
  /\ act' # None /\ act'.ok =>
       act # None /\ act.ok /\ act'.method = act.method /\ act'.frame = act.frame /\ act'.snap = act.snap
  /\ act' # None /\ act'.method = "full" /\ act'.step \in Encoded =>
       act # None /\ act.method = "full" /\ act.step \in Encoded /\ act'.frame = act.frame
  /\ act' # None /\ act'.step # "queued" => act # None /\ act.step # "queued" /\ act'.scope = act.scope

LEMMA ChanGrows ==
  ASSUME ChanOK, Grown, UNCHANGED ls, sess \in Nat, sess' \in Nat, sess <= sess'
  PROVE  ChanOK'
<1>1. \A i \in Slots' : chan'[i].type = "ctx" => chan'[i].ctx <= sess'
  <2> SUFFICES ASSUME NEW i \in Slots', i \in Slots, chan[i].type = "ctx" PROVE chan[i].ctx <= sess'
    BY DEF Grown
  <2>1. chan[i] \in Messages /\ chan[i].ctx <= sess
    BY DEF ChanOK, Slots
  <2> QED
    BY <2>1 DEF Messages, Contexts, Requests
<1>2. \A i \in Slots' : chan'[i].type = "full" => Rebuilds(ls.dec, chan'[i])
  BY DEF ChanOK, Grown
<1>3. \A i, j \in Slots' :
        j < i /\ chan'[i].type = "full" /\ chan'[i].frame.kind = "delta" => chan'[j].type # "full"
  BY DEF ChanOK, Grown
<1> QED
  BY <1>1, <1>2, <1>3 DEF ChanOK, Grown

LEMMA ChannelGrows ==
  ASSUME Channel, Grown, Carried, UNCHANGED <<enc, ls, disposed>>, sess \in Nat, sess' \in Nat, sess <= sess'
  PROVE  Channel'
<1> USE DEF Channel
<1>1. EncOK'
  BY DEF EncOK
<1>2. FrameOK'
  BY DEF FrameOK, Carried, Fits
<1>3. ChanOK'
  BY ChanGrows
<1>4. AwaitOK'
  <2> SUFFICES ASSUME NEW i \in Slots', chan'[i].type # "ctx", chan'[i].awaited
               PROVE  Underway' /\ chan'[i] = Request(act') /\ \A j \in Slots' : j > i => chan'[j].type = "ctx"
    BY DEF AwaitOK
  <2>1. i \in Slots /\ Underway /\ chan[i] = Request(act) /\ \A j \in Slots : j > i => chan[j].type = "ctx"
    BY DEF AwaitOK, Grown
  <2> QED
    BY <2>1 DEF Carried, Grown
<1>5. BaseOK'
  BY DEF BaseOK, Carried, Grown
<1>6. AckOK'
  BY DEF AckOK, Carried, Grown
<1> QED
  BY <1>1, <1>2, <1>3, <1>4, <1>5, <1>6

\* The daemon runs on, or a new session begins.
SameSession == UNCHANGED <<sess, first>> \/ sess' = sess + 1

LEMMA ScopeStays == ASSUME ScopeOK, Carried, UNCHANGED <<enc, tscope>>, SameSession, sess \in Nat PROVE ScopeOK'
<1>1. ASSUME enc.tab # None
      PROVE  tscope \in Scopes /\ tscope[2] <= sess' /\ (tscope[2] = sess' => OwnPart(enc.real)')
  <2>1. tscope \in Scopes /\ tscope[2] \in Nat /\ tscope[2] <= sess /\ (tscope[2] = sess => OwnPart(enc.real))
    BY <1>1 DEF ScopeOK, Scopes
  <2>2. CASE UNCHANGED <<sess, first>>
    BY <2>1, <2>2 DEF OwnPart
  <2>3. CASE sess' = sess + 1
    BY <2>1, <2>3
  <2> QED
    BY <2>1, <2>2, <2>3 DEF SameSession
<1> QED
  BY <1>1 DEF ScopeOK, Carried

\* The context of a new daemon is not known to the server yet.
SameOwner == UNCHANGED <<ctx, first>> \/ ctx' = 0 \/ ctx' = sess + 1

LEMMA OwnersGrow ==
  ASSUME ChanOK, ServerOK, OwnerOK, NoForeignModel, Grown, SameOwner, UNCHANGED ls, sess \in Nat
  PROVE  OwnerOK' /\ NoForeignModel'
<1>1. ls.ctx \in Nat
  BY DEF ServerOK, Servers
<1>2. ASSUME NEW i \in Slots, chan[i].type = "ctx" PROVE chan[i].ctx \in Nat /\ chan[i].ctx <= sess
  BY <1>2 DEF ChanOK, Slots, Messages, Contexts, Requests
<1>3. CASE ctx' = 0
  BY <1>3 DEF OwnerOK, NoForeignModel
<1>4. CASE ctx' = sess + 1
  <2>1. ls.ctx # ctx' /\ \A i \in Slots : chan[i].type = "ctx" => chan[i].ctx # ctx'
    BY <1>1, <1>2, <1>4 DEF ServerOK
  <2>2. ASSUME NEW j \in Slots', chan'[j].type # "ctx", NEW i \in Slots', i < j PROVE i \in Slots /\ chan'[i] = chan[i]
    <3>1. j \in Slots /\ j \in Int /\ i \in Int
      BY <2>2 DEF Grown, Slots
    <3> QED
      BY <2>2, <3>1 DEF Grown
  <2> QED
    BY <2>1, <2>2 DEF OwnerOK, NoForeignModel
<1>5. CASE UNCHANGED <<ctx, first>>
  <2>1. ASSUME ctx # 0, NEW j \in Slots', chan'[j].type # "ctx"
        PROVE  \/ OwnPart(chan[j].snap)' /\ OwnPart(chan[j].part)'
               \/ ls.ctx # ctx /\ \A i \in Slots' : i < j /\ chan'[i].type = "ctx" => chan'[i].ctx # ctx
    <3>1. j \in Slots /\ chan'[j] = chan[j]
      BY <2>1 DEF Grown
    <3>2. /\ OwnPart(chan[j].snap) => OwnPart(chan[j].snap)'
          /\ OwnPart(chan[j].part) => OwnPart(chan[j].part)'
      BY <1>5, <3>1 DEF OwnPart
    <3>3. \A i \in Slots' : i < j => i \in Slots /\ chan'[i] = chan[i]
      BY <3>1 DEF Grown, Slots
    <3> QED
      BY <2>1, <3>1, <3>2, <3>3 DEF OwnerOK
  <2>2. OwnerOK'
    BY <1>5, <2>1 DEF OwnerOK
  <2> QED
    BY <1>5, <2>2 DEF NoForeignModel
<1> QED
  BY <1>3, <1>4, <1>5 DEF SameOwner

-----------------------------------------------------------------------------
\* The update under way.

\* It stays what it is, and may cease to wait for its context.
Follows(a, b) ==
  IF a = None THEN b = None
  ELSE /\ b \in Updates /\ b.method = a.method /\ b.scope = a.scope /\ b.snap = a.snap
       /\ b.part = a.part /\ b.frame = a.frame /\ b.ok = a.ok /\ (b.own => a.own)
       /\ b.step = a.step \/ (a.step = "context" /\ b.step \in {"answered", "resolved"})

LEMMA Moved ==
  ASSUME NEW a \in Updates, NEW s \in {"context", "resolved", "sent", "answered"}
  PROVE  LET b == [a EXCEPT !.step = s] IN
         /\ b \in Updates /\ b.step = s /\ b.method = a.method /\ b.scope = a.scope /\ b.snap = a.snap
         /\ b.part = a.part /\ b.frame = a.frame /\ b.ok = a.ok /\ b.own = a.own
BY DEF Updates

LEMMA TouchedFollow ==
  ASSUME NEW a \in Updates \cup {None}
  PROVE  /\ Follows(a, a) /\ Follows(a, Again(a)) /\ Follows(a, Superseded(a))
         /\ Follows(a, Rejected(a)) /\ Follows(a, Resolved(a))
<1>1. CASE a = None
  BY <1>1 DEF Follows, Again, Superseded, Rejected, Resolved
<1>2. CASE a \in Updates
  <2>1. a # None
    BY <1>2, NoneIsNoUpdate
  <2>2. Follows(a, a)
    BY <1>2, <2>1 DEF Follows
  <2>3. [a EXCEPT !.again = TRUE] \in Updates
    BY <1>2 DEF Updates
  <2>4. Follows(a, Again(a))
    BY <1>2, <2>1, <2>3 DEF Follows, Again, Updates
  <2>6. [a EXCEPT !.again = TRUE, !.own = FALSE] \in Updates
    BY <1>2 DEF Updates
  <2>7. Follows(a, Superseded(a))
    BY <1>2, <2>1, <2>6 DEF Follows, Superseded, Updates
  <2>5. a.step = "context" => Follows(a, [a EXCEPT !.step = "answered"]) /\ Follows(a, [a EXCEPT !.step = "resolved"])
    BY <1>2, <2>1, Moved DEF Follows
  <2> QED
    BY <2>1, <2>2, <2>4, <2>5, <2>7 DEF Rejected, Resolved
<1> QED
  BY <1>1, <1>2

LEMMA FollowsOn ==
  ASSUME NEW a \in Updates \cup {None}, NEW b, NEW c, Follows(a, b), Follows(b, c)
  PROVE  Follows(a, c) /\ b \in Updates \cup {None}
BY NoneIsNoUpdate DEF Follows

LEMMA FollowingCarries == ASSUME ActOK, Follows(act, act') PROVE Carried
<1>1. CASE act = None
  BY <1>1 DEF Follows, Carried, Underway, Failed
<1>2. CASE act # None
  <2>1. act' # None
    BY <1>2, NoneIsNoUpdate DEF Follows
  <2> QED
    BY <1>2, <2>1 DEF ActOK, Follows, Carried, Underway, Failed, Encoded, Request
<1> QED
  BY <1>1, <1>2

LEMMA FollowingIsOK == ASSUME ActOK, Follows(act, act'), SameSession, sess \in Nat PROVE ActOK'
<1> SUFFICES ASSUME act # None PROVE ActOK'
  BY DEF ActOK, Follows
<1>1. act # None
  OBVIOUS
<1>2. act.scope[2] \in Nat
  BY <1>1 DEF ActOK, Scopes
<1>3. act'.ok => act'.step = "answered"
  BY <1>1 DEF ActOK, Follows
<1>4. act.scope[2] <= sess' /\ (act.scope[2] = sess' => UNCHANGED <<sess, first>>)
  BY <1>1, <1>2 DEF ActOK, SameSession
<1>5. act.scope[2] = sess' =>
        OwnPart(act.snap)' /\ OwnPart(act.part)' /\ (act'.frame # None => OwnPart(act.frame.part)')
  BY <1>1, <1>4 DEF ActOK, OwnPart, Follows
<1> QED
  BY <1>1, <1>3, <1>4, <1>5 DEF ActOK, Follows

LEMMA BatchStays == ASSUME BatchOK, UNCHANGED batch, SameSession, sess \in Nat PROVE BatchOK'
<1>1. batch.sess \in Nat
  BY DEF BatchOK, Batches
<1>2. batch.sess <= sess' /\ (batch.sess = sess' => UNCHANGED <<sess, first>>)
  BY <1>1 DEF BatchOK, SameSession
<1> QED
  BY <1>2 DEF BatchOK, OwnPart

-----------------------------------------------------------------------------
\* The delivery of the context.

LEMMA Delivered ==
  ASSUME NEW k \in Nat \X Nat, k[2] <= sess', sess \in Nat, sess' \in Nat, sess <= sess',
         PendOK, chan \in Seq(Messages), NEW a \in Updates \cup {None},
         NEW waiter \in Updates \cup {None}, Deliver(k, a, waiter)
  PROVE  Grown /\ PendOK' /\ (IF waiter = None THEN Follows(a, act') ELSE Follows(waiter, act'))
<1>1. Grown
  <2>1. CASE UNCHANGED chan
    BY <2>1, Unchanged
  <2>2. CASE chan' = Append(chan, ContextMessage(k))
    BY <2>2, ContextJoins
  <2> QED
    BY <2>1, <2>2 DEF Deliver, delivery
<1>2. PendOK'
  <2>1. UNCHANGED pend \/ pend' = k
    BY DEF Deliver, delivery
  <2> QED
    BY <2>1 DEF PendOK
<1>3. IF waiter = None THEN Follows(a, act') ELSE Follows(waiter, act')
  BY TouchedFollow DEF Deliver
<1> QED
  BY <1>1, <1>2, <1>3

LEMMA PendStays == ASSUME PendOK, UNCHANGED pend, sess \in Nat, sess' \in Nat, sess <= sess' PROVE PendOK'
BY DEF PendOK

LEMMA Listened ==
  ASSUME ClientOK, ActOK, PendOK, chan \in Seq(Messages), NEW c \in Nat, c <= sess', sess' \in Nat, sess <= sess',
         NEW replaced \in BOOLEAN, Listeners(c, replaced)
  PROVE  Grown /\ PendOK' /\ Follows(act, act') /\ UNCHANGED <<batch, enc, tscope, ls>>
<1> DEFINE a == IF replaced /\ ~disposed THEN Superseded(act) ELSE act
<1>1. act \in Updates \cup {None}
  BY DEF ActOK
<1>2. Follows(act, a) /\ a \in Updates \cup {None}
  <2>1. Follows(act, act) /\ Follows(act, Superseded(act))
    BY <1>1, TouchedFollow
  <2>2. Superseded(act) \in Updates \cup {None}
    BY <2>1 DEF Follows
  <2> QED
    BY <1>1, <2>1, <2>2
<1>3. PublishContext(c, a) /\ UNCHANGED <<batch, enc, tscope, ls>>
  BY DEF Listeners, server
<1> HIDE DEF a
<1>4. CASE Deliver(<<lsn, c>>, a, None)
  <2>1. <<lsn, c>> \in Nat \X Nat /\ <<lsn, c>>[2] = c /\ sess \in Nat
    BY DEF ClientOK
  <2>2. Grown /\ PendOK' /\ Follows(a, act')
    BY <1>2, <1>4, <2>1, Delivered
  <2> QED
    BY <1>1, <1>2, <1>3, <2>2, FollowsOn
<1>5. CASE UNCHANGED <<delivery, chan>> /\ act' = a
  BY <1>2, <1>3, <1>5, Unchanged, PendStays DEF delivery, ClientOK
<1> QED
  BY <1>3, <1>4, <1>5 DEF PublishContext

LEMMA ContextAcknowledgedInvariant == ASSUME IInv, ContextAcknowledged PROVE IInv'
<1> USE DEF IInv
<1>1. UNCHANGED <<client, batch, enc, tscope, ls, lsn>> /\ sess \in Nat
  BY DEF ContextAcknowledged, flush, server, ClientOK
<1>2. act \in Updates \cup {None} /\ chan \in Seq(Messages)
  BY DEF ActOK, Channel, ChanOK
<1>3. Grown /\ Follows(act, act')
  <2>1. CASE UNCHANGED <<act, chan>> \/ (UNCHANGED chan /\ act' \in {Resolved(act), Rejected(act)})
    BY <1>2, <2>1, Unchanged, TouchedFollow
  <2>2. CASE pend # None /\ chan' = Append(chan, ContextMessage(pend)) /\ UNCHANGED act
    BY <1>1, <1>2, <2>2, ContextJoins, TouchedFollow DEF PendOK, client
  <2> QED
    BY <2>1, <2>2 DEF ContextAcknowledged
<1>4. ClientOK'
  BY <1>1 DEF ClientOK, OwnPart, client
<1>5. BatchOK' /\ ActOK'
  BY <1>1, <1>3, BatchStays, FollowingIsOK DEF SameSession, client
<1>6. PendOK'
  BY DEF ContextAcknowledged, PendOK
<1>7. Channel'
  BY <1>1, <1>3, FollowingCarries, ChannelGrows DEF client
<1>8. ServerOK' /\ OwnerOK' /\ NoForeignModel'
  BY <1>1, <1>3, OwnersGrow DEF SameOwner, Channel, ServerOK, client
<1>9. ScopeOK'
  BY <1>1, <1>3, FollowingCarries, ScopeStays DEF SameSession, client
<1> QED
  BY <1>4, <1>5, <1>6, <1>7, <1>8, <1>9

-----------------------------------------------------------------------------
\* The daemon.

LEMMA DaemonStep ==
  ASSUME IInv, NEW c \in Nat, NEW replaced \in BOOLEAN, Listeners(c, replaced), ClientOK', c <= sess',
         SameSession, SameOwner, UNCHANGED disposed
  PROVE  IInv'
<1> USE DEF IInv
<1>1. sess \in Nat /\ sess' \in Nat /\ sess <= sess' /\ chan \in Seq(Messages)
  BY DEF ClientOK, SameSession, Channel, ChanOK
<1>2. Grown /\ PendOK' /\ Follows(act, act') /\ UNCHANGED <<batch, enc, tscope, ls>>
  BY <1>1, Listened
<1>3. ActOK' /\ BatchOK' /\ ScopeOK'
  BY <1>1, <1>2, FollowingIsOK, FollowingCarries, BatchStays, ScopeStays
<1>4. Channel'
  BY <1>1, <1>2, FollowingCarries, ChannelGrows
<1>5. OwnerOK' /\ NoForeignModel'
  BY <1>1, <1>2, OwnersGrow DEF Channel
<1>6. ServerOK'
  BY <1>1, <1>2 DEF ServerOK, Servers
<1> QED
  BY <1>2, <1>3, <1>4, <1>5, <1>6

LEMMA EmptyTable == Empty \in Table /\ OwnPart(Empty) /\ OwnPart(Empty)'
BY DEF Empty, Table, OwnPart

LEMMA LaunchInvariant == ASSUME IInv, Launch PROVE IInv'
<1>1. /\ table' = table /\ mode' = "starting" /\ sess' = sess + 1 /\ ctx' = sess + 1 /\ first' = rev
      /\ UNCHANGED <<gen, disposed, rev, lsn>> /\ Listeners(sess + 1, FALSE) /\ table = Empty
  BY DEF Launch, Replaced, Listeners, server, ClientOK, IInv
<1>2. ClientOK'
  BY <1>1, EmptyTable DEF ClientOK, IInv
<1>3. sess + 1 \in Nat /\ sess + 1 <= sess' /\ SameSession /\ SameOwner
  BY <1>1 DEF SameSession, SameOwner, ClientOK, IInv
<1> QED
  BY <1>1, <1>2, <1>3, DaemonStep

LEMMA AdoptInvariant ==
  ASSUME IInv, NEW t \in Table, NEW labels \in SUBSET Label, Adopt(t, gen),
         \A l \in Label : t[l] = IF l \in labels THEN rev + 1 ELSE table[l]
  PROVE  IInv'
<1>1. /\ table' = t /\ mode' = "ready" /\ rev' = rev + 1
      /\ UNCHANGED <<sess, ctx, gen, first, disposed, lsn>> /\ Listeners(ctx, TRUE)
  BY DEF Adopt, Replaced, Listeners, server
<1>2. ClientOK'
  BY <1>1 DEF ClientOK, OwnPart, Table, IInv
<1>3. ctx \in Nat /\ ctx <= sess' /\ SameSession /\ SameOwner
  BY <1>1 DEF SameSession, SameOwner, ClientOK, IInv
<1> QED
  BY <1>1, <1>2, <1>3, DaemonStep

LEMMA InitializedInvariant == ASSUME IInv, Initialized PROVE IInv'
<1>1. rev \in Nat
  BY DEF IInv, ClientOK
<1>2. [l \in Label |-> rev + 1] \in Table
  BY <1>1 DEF Table
<1> QED
  BY <1>2, AdoptInvariant DEF Initialized

LEMMA FrameInvariant == ASSUME IInv, Frame PROVE IInv'
<1>1. PICK labels \in SUBSET Label : Adopt([l \in Label |-> IF l \in labels THEN rev + 1 ELSE table[l]], gen)
  BY DEF Frame
<1>2. [l \in Label |-> IF l \in labels THEN rev + 1 ELSE table[l]] \in Table
  BY DEF IInv, ClientOK, Table
<1> QED
  BY <1>1, <1>2, AdoptInvariant

LEMMA StartFailsInvariant == ASSUME IInv, StartFails PROVE IInv'
<1>1. PICK c \in {0, ctx} : Replaced(table, "stopped", sess, c, gen) /\ Listeners(c, FALSE)
  BY DEF StartFails
<1>2. /\ mode = "starting" /\ UNCHANGED <<table, rev, first, sess, gen, disposed, lsn>>
      /\ mode' = "stopped" /\ ctx' = c
  BY <1>1 DEF StartFails, Replaced, Listeners, server
<1>3. ClientOK'
  BY <1>2 DEF ClientOK, OwnPart, IInv
<1>4. c \in Nat /\ c <= sess' /\ SameSession /\ SameOwner
  BY <1>1, <1>2 DEF SameSession, SameOwner, ClientOK, IInv
<1> QED
  BY <1>1, <1>2, <1>3, <1>4, DaemonStep

LEMMA DaemonEndsInvariant == ASSUME IInv, DaemonEnds PROVE IInv'
<1>1. /\ table' = Empty /\ mode' = "stopped" /\ sess' = sess + 1 /\ ctx' = 0
      /\ UNCHANGED <<rev, first, gen, disposed, lsn>> /\ Listeners(0, mode = "ready")
  BY DEF DaemonEnds, Replaced, Listeners, server
<1>2. ClientOK'
  BY <1>1, EmptyTable DEF ClientOK, IInv
<1>3. 0 \in Nat /\ 0 <= sess' /\ SameSession /\ SameOwner
  BY <1>1 DEF SameSession, SameOwner, ClientOK, IInv
<1> QED
  BY <1>1, <1>2, <1>3, DaemonStep

LEMMA RefreshStartsInvariant == ASSUME IInv, RefreshStarts PROVE IInv'
<1>1. /\ table' = Empty /\ mode' = "refreshing" /\ gen' = gen + 1
      /\ UNCHANGED <<rev, first, sess, ctx, disposed, lsn>> /\ Listeners(ctx, TRUE)
  BY DEF RefreshStarts, Replaced, Listeners, server
<1>2. ClientOK'
  BY <1>1, EmptyTable DEF ClientOK, IInv
<1>3. ctx \in Nat /\ ctx <= sess' /\ SameSession /\ SameOwner
  BY <1>1 DEF SameSession, SameOwner, ClientOK, IInv
<1> QED
  BY <1>1, <1>2, <1>3, DaemonStep

LEMMA RootsChangeInvariant == ASSUME IInv, RootsChange PROVE IInv'
<1>1. gen' = gen + 1 /\ UNCHANGED <<table, mode, rev, first, sess, ctx, disposed, lsn>> /\ Listeners(ctx, FALSE)
  BY DEF RootsChange, Replaced, Listeners, server
<1>2. ClientOK'
  BY <1>1 DEF ClientOK, OwnPart, IInv
<1>3. ctx \in Nat /\ ctx <= sess' /\ SameSession /\ SameOwner
  BY <1>1 DEF SameSession, SameOwner, ClientOK, IInv
<1> QED
  BY <1>1, <1>2, <1>3, DaemonStep

-----------------------------------------------------------------------------
\* The publisher and the flush of saved files.

\* A step of theirs that sends nothing.
LEMMA QuietStep ==
  ASSUME IInv, ClientOK', UNCHANGED <<sess, ctx, first, disposed, pend, enc, tscope, chan, ls>>, Carried, ActOK', BatchOK'
  PROVE  IInv'
<1> USE DEF IInv
<1>1. Grown /\ sess \in Nat
  BY Unchanged DEF Channel, ChanOK, ClientOK
<1>2. PendOK' /\ ServerOK'
  BY DEF PendOK, ServerOK
<1>3. Channel'
  BY <1>1, ChannelGrows
<1>4. OwnerOK' /\ NoForeignModel' /\ ScopeOK'
  BY <1>1, OwnersGrow, ScopeStays DEF SameOwner, SameSession, Channel
<1> QED
  BY <1>2, <1>3, <1>4

LEMMA ClientStays ==
  ASSUME IInv, UNCHANGED <<client, lsn>>
  PROVE  /\ ClientOK' /\ UNCHANGED <<table, rev, first, mode, sess, ctx, gen, disposed>>
         /\ SameSession /\ sess \in Nat
<1>1. UNCHANGED <<table, rev, first, mode, sess, ctx, gen, disposed>>
  BY DEF client
<1> QED
  BY <1>1 DEF IInv, ClientOK, OwnPart, SameSession

LEMMA ScopeIsOne == ASSUME ClientOK, Scope # None PROVE Scope \in Scopes /\ Scope[2] = sess /\ ~disposed
BY DEF Scope, Scopes, ClientOK

LEMMA NoPartIsOwn == NoPart \in Parts /\ OwnPart(NoPart)
<1>1. NoPart \in [{} -> Nat]
  BY DEF NoPart
<1> QED
  BY <1>1 DEF Parts, OwnPart

LEMMA NewUpdate ==
  ASSUME ClientOK, NEW method \in {"full", "delta", "clear"}, NEW t \in Table, OwnPart(t),
         NEW part \in Parts, OwnPart(part), Scope # None, act = None, act' = Update(method, t, part, Scope),
         UNCHANGED <<sess, first>>
  PROVE  ActOK' /\ Carried
<1>1. Scope \in Scopes /\ Scope[2] = sess /\ sess \in Nat
  BY ScopeIsOne DEF ClientOK
<1>2. act' \in Updates
  BY <1>1 DEF Update, Updates, Table
<1>3. /\ act'.step = "queued" /\ act'.scope = Scope /\ act'.snap = t /\ act'.part = part
      /\ act'.frame = None /\ ~act'.ok /\ (act'.own => method = "full") /\ act'.method = method
  BY DEF Update
<1>4. ActOK'
  BY <1>1, <1>2, <1>3 DEF ActOK, OwnPart
<1>5. Carried
  BY <1>3 DEF Carried, Underway, Failed, Encoded
<1> QED
  BY <1>4, <1>5

LEMMA Published ==
  ASSUME IInv, act = None, PublishFull, UNCHANGED <<sess, first>>
  PROVE  ActOK' /\ Carried
<1>1. CASE UNCHANGED act
  BY <1>1, FollowingIsOK, FollowingCarries, TouchedFollow DEF IInv, SameSession, ClientOK, ActOK
<1>2. CASE act' = FullUpdate /\ Scope # None
  BY <1>2, NewUpdate, NoPartIsOwn DEF FullUpdate, IInv, ClientOK
<1> QED
  BY <1>1, <1>2 DEF PublishFull

LEMMA SameUpdate == ASSUME IInv, UNCHANGED <<act, sess, first>> PROVE ActOK' /\ Carried
BY FollowingIsOK, FollowingCarries, TouchedFollow DEF IInv, SameSession, ClientOK, ActOK

LEMMA NoBatchIsOK == ASSUME ClientOK', batch' = NoBatch PROVE BatchOK'
<1>1. NoBatch \in Batches /\ NoBatch.sess = 0 /\ NoBatch.step = "idle" /\ NoBatch.part = NoPart
  BY NoPartIsOwn DEF NoBatch, Batches
<1>2. OwnPart(NoPart)'
  BY DEF NoPart, OwnPart
<1> QED
  BY <1>1, <1>2 DEF BatchOK, ClientOK

LEMMA FinishedIsOK ==
  ASSUME IInv, NEW w, Finished(w), UNCHANGED <<client, lsn>>
  PROVE  BatchOK' /\ ActOK' /\ act' = None
<1>1. ClientOK' /\ SameSession /\ sess \in Nat
  BY ClientStays
<1>2. BatchOK'
  BY <1>1, NoBatchIsOK, BatchStays DEF Finished, DropBatch, IInv
<1> QED
  BY <1>2 DEF Finished, ActOK

LEMMA TimerFiresInvariant == ASSUME IInv, TimerFires PROVE IInv'
<1>1. UNCHANGED <<client, lsn, pend, enc, tscope, chan, ls, batch>>
  BY DEF TimerFires, flush, delivery, server
<1>2. ClientOK' /\ UNCHANGED <<sess, ctx, first, disposed>> /\ SameSession /\ sess \in Nat
  BY <1>1, ClientStays
<1>3. ActOK' /\ Carried
  BY <1>2, Published, SameUpdate DEF TimerFires
<1>4. BatchOK'
  BY <1>1, <1>2, BatchStays DEF IInv
<1> QED
  BY <1>1, <1>2, <1>3, <1>4, QuietStep

LEMMA BeginCrossedInvariant == ASSUME IInv, BeginCrossed PROVE IInv'
<1>1. UNCHANGED <<client, lsn, pend, enc, tscope, chan, ls>> /\ Finished(TRUE) /\ act.step = "queued"
  BY DEF BeginCrossed, delivery, server
<1>2. BatchOK' /\ ActOK' /\ act' = None
  BY <1>1, FinishedIsOK
<1>3. Carried
  BY <1>1, <1>2 DEF Carried, Underway, Failed
<1> QED
  BY <1>1, <1>2, <1>3, ClientStays, QuietStep

LEMMA BatchStartsInvariant == ASSUME IInv, BatchStarts PROVE IInv'
<1>1. /\ UNCHANGED <<client, lsn, pend, enc, tscope, chan, ls, act>>
      /\ batch' = [NoBatch EXCEPT !.step = "collecting", !.sess = sess, !.gen = gen]
  BY DEF BatchStarts, pub, delivery, server
<1>2. ClientOK' /\ UNCHANGED <<sess, ctx, first, disposed>> /\ sess \in Nat
  BY <1>1, ClientStays
<1>3. ActOK' /\ Carried
  BY <1>1, <1>2, SameUpdate
<1>4. /\ batch' \in Batches /\ batch'.sess = sess /\ batch'.step = "collecting" /\ batch'.part = NoPart
  BY <1>1, NoPartIsOwn DEF NoBatch, Batches, IInv, ClientOK
<1>5. BatchOK'
  BY <1>2, <1>4, NoPartIsOwn DEF BatchOK, OwnPart
<1> QED
  BY <1>1, <1>2, <1>3, <1>5, QuietStep

\* Only an update that is not sent yet is patched.
LEMMA PatchedIsOK ==
  ASSUME ActOK, NEW l \in Label, NEW r \in Nat, r > first, act' = PatchedIn(act, l, r), UNCHANGED <<sess, first, tscope>>
  PROVE  ActOK' /\ Carried
<1>1. CASE act # None /\ act.own
  <2>1. act \in Updates /\ act.snap \in Table
    BY <1>1 DEF ActOK, Updates, Table
  <2> DEFINE t == [act.snap EXCEPT ![l] = r]
  <2>2. act' = [act EXCEPT !.snap = t]
    BY <1>1 DEF PatchedIn
  <2>3. t \in Table /\ (OwnPart(act.snap) => OwnPart(t))
    BY <2>1 DEF Table, OwnPart
  <2> HIDE DEF t
  <2>4. /\ act' \in Updates /\ act'.step = act.step /\ act'.method = act.method /\ act'.scope = act.scope
        /\ act'.snap = t /\ act'.part = act.part /\ act'.frame = act.frame /\ act'.own = act.own /\ act'.ok = act.ok
    BY <2>1, <2>2, <2>3 DEF Updates, Table
  <2>5. act' # None
    BY <2>4, NoneIsNoUpdate
  <2>6. ActOK'
    BY <1>1, <2>3, <2>4 DEF ActOK, OwnPart
  <2> QED
    BY <1>1, <2>4, <2>5, <2>6 DEF ActOK, Carried, Underway, Failed, Encoded
<1>2. CASE ~(act # None /\ act.own)
  BY <1>2 DEF PatchedIn, ActOK, OwnPart, Carried, Underway, Failed, Encoded
<1> QED
  BY <1>1, <1>2

LEMMA ReindexedInvariant ==
  ASSUME IInv, NEW l \in Label, NEW r \in first + 1..rev + 1, Reindexed(l, r)
  PROVE  IInv'
<1> DEFINE part == [k \in DOMAIN batch.part \cup {l} |-> IF k = l THEN r ELSE batch.part[k]]
<1>1. /\ UNCHANGED <<first, mode, sess, ctx, gen, disposed, lsn, pend, enc, tscope, chan, ls>>
      /\ mode = "ready" /\ batch.sess = sess /\ batch.step = "collecting" /\ rev' = rev + 1
      /\ act' = PatchedIn(act, l, r)
      /\ table' = [table EXCEPT ![l] = r] /\ batch' = [batch EXCEPT !.part = part]
  BY DEF Reindexed, pub, delivery, server
<1>2. r \in Nat /\ r > first /\ sess \in Nat
  BY DEF IInv, ClientOK
<1>3. ClientOK'
  <2>1. table' \in Table
    BY <1>1, <1>2 DEF IInv, ClientOK, Table
  <2>2. OwnPart(table)'
    BY <1>1, <1>2 DEF IInv, ClientOK, OwnPart, Table
  <2> QED
    BY <1>1, <2>1, <2>2 DEF IInv, ClientOK
<1>4. ActOK' /\ Carried
  BY <1>1, <1>2, PatchedIsOK DEF IInv
<1>5. part \in Parts /\ OwnPart(part)
  <2>1. PICK S \in SUBSET Label : batch.part \in [S -> Nat]
    BY DEF IInv, BatchOK, Batches, Parts
  <2>2. part \in [S \cup {l} -> Nat] /\ S \cup {l} \in SUBSET Label
    BY <1>2, <2>1
  <2>3. OwnPart(batch.part)
    BY <1>1 DEF IInv, BatchOK
  <2> QED
    BY <1>2, <2>1, <2>2, <2>3 DEF Parts, OwnPart
<1> HIDE DEF part
<1>6. batch' \in Batches /\ batch'.part = part /\ batch'.sess = sess /\ batch'.step = "collecting"
  BY <1>1, <1>5 DEF IInv, BatchOK, Batches
<1>7. OwnPart(batch.part)'
  BY <1>1, <1>5, <1>6 DEF OwnPart
<1>8. BatchOK'
  BY <1>1, <1>2, <1>6, <1>7 DEF BatchOK
<1> QED
  BY <1>1, <1>3, <1>4, <1>8, QuietStep

LEMMA BatchEndsInvariant == ASSUME IInv, BatchEnds PROVE IInv'
<1>1. UNCHANGED <<client, lsn, pend, enc, tscope, chan, ls>>
  BY DEF BatchEnds, delivery, server
<1>2. ClientOK' /\ UNCHANGED <<sess, ctx, first, disposed>> /\ SameSession /\ sess \in Nat
  BY <1>1, ClientStays
<1>3. ActOK' /\ Carried
  <2>1. UNCHANGED act \/ act' = Again(act)
    BY DEF BatchEnds
  <2>2. Follows(act, act')
    BY <2>1, TouchedFollow DEF IInv, ActOK
  <2> QED
    BY <1>2, <2>2, FollowingIsOK, FollowingCarries DEF IInv
<1>4. BatchOK'
  <2>1. CASE batch' = NoBatch
    BY <1>2, <2>1, NoBatchIsOK
  <2>2. CASE /\ batch.sess = sess /\ Scope # None
             /\ batch' = [batch EXCEPT !.step = "waiting", !.scope = Scope]
    <3>1. Scope \in Scopes /\ Scope[2] = sess
      BY <2>2, ScopeIsOne DEF IInv
    <3>2. batch' \in Batches
      BY <2>2, <3>1 DEF IInv, BatchOK, Batches
    <3>3. batch'.scope = Scope /\ batch'.sess = sess /\ batch'.part = batch.part
      BY <2>2 DEF IInv, BatchOK, Batches
    <3> QED
      BY <1>2, <2>2, <3>1, <3>2, <3>3 DEF IInv, BatchOK, OwnPart
  <2> QED
    BY <2>1, <2>2 DEF BatchEnds, DropBatch, Owned, IInv, BatchOK
<1> QED
  BY <1>1, <1>2, <1>3, <1>4, QuietStep

LEMMA PublishDeltaInvariant == ASSUME IInv, PublishDelta PROVE IInv'
<1>1. UNCHANGED <<client, lsn, pend, enc, tscope, chan, ls>> /\ act = None /\ batch.step = "waiting"
  BY DEF PublishDelta, delivery, server
<1>2. ClientOK' /\ UNCHANGED <<sess, ctx, first, disposed>> /\ SameSession /\ sess \in Nat
  BY <1>1, ClientStays
<1>3. ActOK' /\ Carried
  <2>1. CASE UNCHANGED act
    BY <1>2, <2>1, SameUpdate
  <2>2. CASE PublishFull
    BY <1>1, <1>2, <2>2, Published
  <2>3. CASE batch.scope = Scope /\ act' = Update("delta", Empty, batch.part, Scope)
    <3>1. Scope # None /\ Scope[2] = batch.sess
      BY <1>1, <2>3 DEF IInv, BatchOK
    <3>2. OwnPart(batch.part) /\ batch.part \in Parts
      BY <3>1, ScopeIsOne DEF IInv, BatchOK, Batches
    <3> QED
      BY <1>1, <1>2, <2>3, <3>1, <3>2, EmptyTable, NewUpdate DEF IInv
  <2> QED
    BY <2>1, <2>2, <2>3 DEF PublishDelta
<1>4. BatchOK'
  <2>1. CASE batch' = NoBatch
    BY <1>2, <2>1, NoBatchIsOK
  <2>2. CASE batch' = [batch EXCEPT !.step = "sent"]
    <3>1. batch' \in Batches /\ batch'.sess = batch.sess /\ batch'.part = batch.part /\ batch'.step = "sent"
      BY <2>2 DEF IInv, BatchOK, Batches
    <3> QED
      BY <1>2, <3>1 DEF IInv, BatchOK, OwnPart
  <2> QED
    BY <2>1, <2>2 DEF PublishDelta, DropBatch
<1> QED
  BY <1>1, <1>2, <1>3, <1>4, QuietStep

LEMMA ResetIsOne ==
  ASSUME NEW e \in Baselines PROVE Reset(e) \in Baselines /\ Reset(e).tab = None /\ Reset(e).seq = e.seq
BY DEF Reset, Baselines

LEMMA DisposeInvariant == ASSUME IInv, Dispose PROVE IInv'
<1> USE DEF IInv
<1>1. /\ UNCHANGED <<table, rev, first, mode, sess, ctx, gen, lsn, chan, ls, batch, tscope>>
      /\ disposed' = TRUE /\ enc' = Reset(enc) /\ pend' = None
  BY DEF Dispose, flush, server
<1>2. enc'.tab = None /\ enc' \in Baselines
  BY <1>1, ResetIsOne DEF Channel, EncOK
<1>3. act \in Updates \cup {None} /\ Follows(act, act')
  <2>1. act \in Updates \cup {None}
    BY DEF ActOK
  <2>2. act' = Rejected(act)
    BY DEF Dispose, Rejected
  <2> QED
    BY <2>1, <2>2, TouchedFollow
<1>4. ClientOK' /\ SameSession /\ sess \in Nat
  BY <1>1 DEF ClientOK, OwnPart, SameSession
<1>5. ActOK' /\ BatchOK' /\ Carried
  BY <1>1, <1>3, <1>4, FollowingIsOK, FollowingCarries, BatchStays
<1>6. PendOK' /\ ServerOK' /\ Grown
  BY <1>1, Unchanged DEF PendOK, ServerOK, Channel, ChanOK
<1>7. EncOK' /\ FrameOK' /\ BaseOK'
  BY <1>1, <1>2 DEF EncOK, FrameOK, BaseOK
<1>8. ChanOK'
  BY <1>1 DEF Channel, ChanOK, Slots
<1>9. AwaitOK' /\ AckOK'
  BY <1>1, <1>5 DEF Channel, AwaitOK, AckOK, Carried, Slots
<1>10. OwnerOK' /\ NoForeignModel'
  BY <1>1, <1>4, <1>6, OwnersGrow DEF SameOwner, Channel
<1>11. ScopeOK'
  BY <1>1, <1>2, <1>5 DEF ScopeOK, Carried
<1> QED
  BY <1>4, <1>5, <1>6, <1>7, <1>8, <1>9, <1>10, <1>11 DEF Channel

\* A new server waits for its context before any update.
LEMMA ServerRunsInvariant == ASSUME IInv, ServerRuns PROVE IInv'
<1> USE DEF IInv
<1>1. /\ UNCHANGED <<client, batch, enc, tscope, ls>> /\ lsn' = lsn + 1
      /\ act' = Again(Rejected(act))
      /\ \/ chan' = Append(chan, ContextMessage(<<lsn + 1, ctx>>)) /\ UNCHANGED pend
         \/ UNCHANGED chan /\ pend' = <<lsn + 1, ctx>>
  BY DEF ServerRuns, flush
<1>2. UNCHANGED <<table, rev, first, mode, sess, ctx, gen, disposed>>
  BY <1>1 DEF client
<1>3. ClientOK' /\ SameSession /\ sess \in Nat /\ sess <= sess' /\ sess' \in Nat
  BY <1>1, <1>2 DEF ClientOK, OwnPart, SameSession
<1>4. <<lsn + 1, ctx>> \in Nat \X Nat /\ <<lsn + 1, ctx>>[2] <= sess'
  BY <1>2 DEF ClientOK
<1>5. Grown /\ PendOK'
  BY <1>1, <1>2, <1>3, <1>4, ContextJoins, Unchanged DEF PendOK, Channel, ChanOK
<1>6. Follows(act, act')
  <2>1. Follows(act, Rejected(act))
    BY TouchedFollow DEF ActOK
  <2>2. Rejected(act) \in Updates \cup {None}
    BY <2>1 DEF Follows
  <2> QED
    BY <1>1, <2>1, <2>2, TouchedFollow, FollowsOn DEF ActOK
<1>7. ActOK' /\ BatchOK'
  BY <1>1, <1>3, <1>6, FollowingIsOK, BatchStays
<1>8. Channel'
  BY <1>1, <1>2, <1>3, <1>5, <1>6, FollowingCarries, ChannelGrows
<1>9. ServerOK' /\ OwnerOK' /\ NoForeignModel'
  BY <1>1, <1>2, <1>3, <1>5, OwnersGrow DEF SameOwner, Channel, ServerOK
<1>10. ScopeOK'
  BY <1>1, <1>3, <1>6, FollowingCarries, ScopeStays
<1> QED
  BY <1>3, <1>5, <1>7, <1>8, <1>9, <1>10

LEMMA AcknowledgedInvariant == ASSUME IInv, Acknowledged PROVE IInv'
<1> USE DEF IInv
<1>1. /\ UNCHANGED <<client, lsn, pend, tscope, chan, ls>> /\ act # None /\ act.step = "answered"
      /\ (disposed /\ UNCHANGED enc) \/ (~disposed /\ enc' = EncAfter(act))
  BY DEF Acknowledged, delivery, server
<1>2. /\ ClientOK' /\ UNCHANGED <<table, rev, first, mode, sess, ctx, gen, disposed>>
      /\ sess \in Nat
  BY <1>1, ClientStays
<1>3. BatchOK' /\ ActOK' /\ act' = None
  <2>1. PICK w : Finished(w)
    BY DEF Acknowledged
  <2> QED
    BY <1>1, <2>1, FinishedIsOK
<1>4. Grown /\ PendOK' /\ ServerOK'
  BY <1>1, <1>2, Unchanged DEF PendOK, ServerOK, Channel, ChanOK
<1>5. OwnerOK' /\ NoForeignModel'
  BY <1>1, <1>2, <1>4, OwnersGrow DEF SameOwner, Channel
<1>6. ChanOK' /\ FrameOK' /\ AckOK'
  BY <1>1, <1>2, <1>3 DEF Channel, ChanOK, FrameOK, AckOK, Slots
<1>7. AwaitOK'
  BY <1>1 DEF Channel, AwaitOK, Slots, Underway
<1>8. act \in Updates
  BY <1>1 DEF ActOK
<1>9. CASE disposed
  <2>1. EncOK' /\ enc'.tab = None
    BY <1>1, <1>2, <1>9 DEF Channel, EncOK
  <2> QED
    BY <1>2, <1>3, <1>4, <1>5, <1>6, <1>7, <2>1 DEF Channel, BaseOK, ScopeOK
<1>10. CASE ~disposed /\ enc' = Reset(enc)
  <2>1. EncOK' /\ enc'.tab = None
    BY <1>10, ResetIsOne DEF Channel, EncOK
  <2> QED
    BY <1>2, <1>3, <1>4, <1>5, <1>6, <1>7, <2>1 DEF Channel, BaseOK, ScopeOK
<1>11. CASE /\ ~disposed /\ act.ok /\ act.scope = Scope /\ act.frame # None
            /\ enc' = [seq |-> act.frame.seq, tab |-> act.frame.keep,
                       real |-> IF act.frame.keep = None THEN None ELSE act.snap]
  <2>1. act.method = "full" /\ act.frame \in Frames
    BY <1>1, <1>8, <1>11 DEF ActOK, Updates
  <2>2. EncOK'
    <3>1. act.snap \in Table
      BY <1>8 DEF Updates, Table
    <3> QED
      BY <1>2, <1>11, <2>1, <3>1 DEF EncOK, Baselines, Frames, Table
  <2>3. BaseOK'
    BY <1>1, <1>11, <2>1 DEF Channel, AckOK, BaseOK, Slots
  <2>4. ScopeOK'
    <3>1. tscope = act.scope /\ tscope \in Scopes /\ tscope[2] = sess /\ OwnPart(act.snap)
      BY <1>1, <1>11, ScopeIsOne DEF ScopeOK, ActOK
    <3> QED
      BY <1>1, <1>2, <1>3, <1>11, <3>1 DEF ScopeOK, OwnPart
  <2> QED
    BY <1>2, <1>3, <1>4, <1>5, <1>6, <1>7, <2>2, <2>3, <2>4 DEF Channel
<1>12. CASE ~disposed /\ act.ok /\ UNCHANGED enc
  <2>1. EncOK' /\ BaseOK'
    BY <1>1, <1>2, <1>12 DEF Channel, EncOK, BaseOK, Failed, Slots
  <2>2. ScopeOK'
    BY <1>1, <1>2, <1>3, <1>12 DEF ScopeOK, OwnPart
  <2> QED
    BY <1>2, <1>3, <1>4, <1>5, <1>6, <1>7, <2>1, <2>2 DEF Channel
<1> QED
  BY <1>1, <1>9, <1>10, <1>11, <1>12 DEF EncAfter

\* An update that was answered, or sent, is the one it was.
Same(a, b) ==
  /\ b \in Updates /\ b.method = a.method /\ b.scope = a.scope /\ b.snap = a.snap /\ b.part = a.part
  /\ b.ok => b.step = "answered"
  /\ b.own => a.own /\ b.step # "sent" /\ ~b.ok

LEMMA SameIsOK ==
  ASSUME ActOK, act # None, Same(act, act'), UNCHANGED <<sess, first>>,
         act'.frame = act.frame \/ (act.method = "full" /\ (OwnPart(act.snap) => OwnPart(act'.frame.part)))
  PROVE  ActOK'
BY DEF ActOK, Same, OwnPart

LEMMA Prepares ==
  ASSUME NEW t \in Table, NEW e \in Baselines, NEW isWhole \in BOOLEAN
  PROVE  LET f == Prepared(t, e, isWhole) IN
         /\ f \in Frames /\ f.seq = e.seq + 1 /\ f.keep \in {None, t} /\ (OwnPart(t) => OwnPart(f.part))
         /\ f.kind = "full" => f.part = t /\ f.left = {}
         /\ f.kind = "delta" =>
              /\ e.tab # None /\ f.base = e.seq /\ f.keep = t /\ Over(e.tab, f.part) = t
              /\ f.left = {l \in Label \ DOMAIN f.part : e.real[l] # e.tab[l]}
<1> DEFINE keep == IF isWhole THEN t ELSE None
           part == [l \in Changed(e.tab, t) |-> t[l]]
           left == {l \in Label \ Changed(e.tab, t) : e.real[l] # e.tab[l]}
           full == [kind |-> "full", seq |-> e.seq + 1, base |-> 0, keep |-> keep, part |-> t, left |-> {}]
           delta == [kind |-> "delta", seq |-> e.seq + 1, base |-> e.seq, keep |-> keep, part |-> part, left |-> left]
<1>1. keep \in Table \cup {None} /\ keep \in {None, t}
  OBVIOUS
<1>2. t \in Parts
  BY DEF Parts, Table
<1>3. part \in Parts
  <2>1. Changed(e.tab, t) \in SUBSET Label /\ part \in [Changed(e.tab, t) -> Nat]
    BY DEF Changed, Table
  <2> QED
    BY <2>1 DEF Parts
<1>4. e.tab # None => Over(e.tab, part) = t
  BY DEF Over, Changed, Table, Baselines
<1>8. DOMAIN part = Changed(e.tab, t) /\ (OwnPart(t) => OwnPart(part)) /\ left \in SUBSET Label /\ e.seq \in Nat
  BY DEF Changed, OwnPart, Table, Baselines
<1>9. left = {l \in Label \ DOMAIN part : e.real[l] # e.tab[l]}
  BY <1>8
<1> HIDE DEF keep, part, left
<1>5. full \in Frames
  BY <1>1, <1>2, <1>8 DEF Frames, Table
<1>6. delta \in Frames
  BY <1>1, <1>3, <1>8 DEF Frames, Table
<1>7. Prepared(t, e, isWhole) = full \/ (e.tab # None /\ keep = t /\ Prepared(t, e, isWhole) = delta)
  BY DEF Prepared, keep, part, left
<1>10. CASE Prepared(t, e, isWhole) = full
  BY <1>1, <1>5, <1>10
<1>11. CASE e.tab # None /\ keep = t /\ Prepared(t, e, isWhole) = delta
  <2> DEFINE f == Prepared(t, e, isWhole)
  <2>1. /\ f.kind = "delta" /\ f.seq = e.seq + 1 /\ f.base = e.seq /\ f.keep = t /\ f.part = part /\ f.left = left
        /\ f \in Frames
    BY <1>6, <1>11
  <2> HIDE DEF f, full, delta
  <2> QED
    BY <1>4, <1>8, <1>9, <1>11, <2>1 DEF f
<1> QED
  BY <1>7, <1>10, <1>11

\* The update act, with another frame and table of the running daemon.
Writes(w) ==
  /\ w.method = act.method /\ w.scope = act.scope /\ w.part = act.part /\ ~w.ok
  /\ w.method # "full" => w.frame = None
  /\ OwnPart(w.snap) /\ (w.frame # None => OwnPart(w.frame.part))

\* A request of the running daemon's own joins the channel; w is the update as it is written.
LEMMA Requested ==
  ASSUME ActOK, ChanOK, AwaitOK, OwnerOK, NoForeignModel, act # None, ~Underway, act.scope[2] = sess,
         NEW w \in Updates, Writes(w),
         act' = Sent(w), chan' = Append(chan, Request(w)), UNCHANGED <<ls, sess, ctx, first>>,
         w.method = "full" => /\ Rebuilds(ls.dec, Request(w))
                              /\ w.frame.kind = "delta" => \A j \in Slots : chan[j].type # "full"
  PROVE  /\ ActOK' /\ ChanOK' /\ AwaitOK' /\ OwnerOK' /\ NoForeignModel'
         /\ Underway' /\ ~act'.ok /\ act'.method = act.method /\ act'.frame = w.frame /\ act'.snap = w.snap
         /\ act'.scope = act.scope
         /\ \A i \in Slots' : (i \in Slots /\ chan'[i] = chan[i]) \/ chan'[i].awaited
<1> DEFINE m == Request(w)
<1>2. /\ act' \in Updates /\ act'.step = "sent" /\ act'.method = w.method /\ act'.scope = w.scope
      /\ act'.snap = w.snap /\ act'.part = w.part /\ act'.frame = w.frame /\ act'.ok = w.ok /\ ~act'.own
  BY DEF Sent, Updates
<1>3. Underway'
  BY <1>2, NoneIsNoUpdate DEF Underway
<1>4. ActOK'
  BY <1>2 DEF Writes, ActOK, OwnPart
<1>5. /\ m \in Messages /\ m.type = w.method /\ m.awaited /\ m.snap = w.snap /\ m.part = w.part
      /\ m.frame = w.frame /\ m.type # "ctx" /\ m = Request(act')
  BY <1>2 DEF Request, Messages, Requests, Updates, Table
<1> HIDE DEF m
<1>6. /\ chan' \in Seq(Messages) /\ Len(chan') = Len(chan) + 1 /\ Len(chan) \in Nat
      /\ \A i \in 1..Len(chan) : chan'[i] = chan[i]
      /\ chan'[Len(chan) + 1] = m
  BY <1>5, Appended DEF ChanOK, m
<1>7. /\ \A i \in Slots : i \in Slots' /\ chan'[i] = chan[i]
      /\ \A i \in Slots' : i \in Slots \/ (i = Len(chan) + 1 /\ chan'[i] = m /\ \A j \in Slots' : j <= i)
  BY <1>6 DEF Slots
<1>8. ChanOK'
  <2>1. \A i \in Slots' : chan'[i].type = "ctx" => chan'[i].ctx <= sess
    BY <1>5, <1>7 DEF ChanOK
  <2>2. \A i \in Slots' : chan'[i].type = "full" => Rebuilds(ls.dec, chan'[i])
    BY <1>5, <1>7 DEF ChanOK, m
  <2>3. ASSUME NEW i \in Slots', NEW j \in Slots', j < i, chan'[i].type = "full", chan'[i].frame.kind = "delta"
        PROVE  chan'[j].type # "full"
    <3>1. j \in Slots /\ chan'[j] = chan[j] /\ i \in Int /\ j \in Int
      BY <1>6, <1>7, <2>3 DEF Slots
    <3>2. CASE i \in Slots
      BY <1>7, <2>3, <3>1, <3>2 DEF ChanOK
    <3>3. CASE chan'[i] = m
      BY <1>5, <2>3, <3>1, <3>3
    <3> QED
      BY <1>7, <3>2, <3>3
  <2> QED
    BY <1>6, <2>1, <2>2, <2>3 DEF ChanOK
<1>9. AwaitOK'
  <2> SUFFICES ASSUME NEW i \in Slots', chan'[i].type # "ctx", chan'[i].awaited
               PROVE  Underway' /\ chan'[i] = Request(act') /\ \A j \in Slots' : j > i => chan'[j].type = "ctx"
    BY DEF AwaitOK
  <2>1. i \notin Slots
    BY <1>7 DEF AwaitOK
  <2>2. chan'[i] = m /\ \A j \in Slots' : ~(j > i)
    BY <1>7, <2>1 DEF Slots
  <2> QED
    BY <1>3, <1>5, <2>2
<1>10. OwnerOK'
  <2>1. ASSUME ctx # 0, NEW j \in Slots', chan'[j].type # "ctx"
        PROVE  \/ OwnPart(chan[j].snap)' /\ OwnPart(chan[j].part)'
               \/ ls.ctx # ctx /\ \A i \in Slots' : i < j /\ chan'[i].type = "ctx" => chan'[i].ctx # ctx
    <3>1. CASE j \in Slots
      <4>1. \A i \in Slots' : i < j => i \in Slots /\ chan'[i] = chan[i]
        BY <1>7, <3>1 DEF Slots
      <4> QED
        BY <1>7, <2>1, <3>1, <4>1 DEF OwnerOK, OwnPart
    <3>2. CASE chan'[j] = m
      BY <1>5, <3>2 DEF Writes, ActOK, OwnPart
    <3> QED
      BY <1>7, <3>1, <3>2
  <2> QED
    BY <2>1 DEF OwnerOK
<1>11. NoForeignModel'
  BY DEF NoForeignModel
<1> QED
  BY <1>2, <1>3, <1>4, <1>5, <1>7, <1>8, <1>9, <1>10, <1>11 DEF Writes

LEMMA BeginInvariant == ASSUME IInv, Begin PROVE IInv'
<1> USE DEF IInv
<1> DEFINE e == IF tscope # Scope THEN Reset(enc) ELSE enc
<1>1. /\ UNCHANGED <<client, batch, ls, lsn>> /\ act # None /\ act.step = "queued" /\ act.scope = Scope
  BY DEF Begin, flush, server
<1>2. /\ ClientOK' /\ UNCHANGED <<table, rev, first, mode, sess, ctx, gen, disposed>>
      /\ SameSession /\ sess \in Nat
  BY <1>1, ClientStays
<1>3. act \in Updates /\ ~act.ok /\ ~Underway /\ ~Failed /\ Scope # None
  BY <1>1 DEF ActOK, Underway, Failed
<1>4. ~disposed /\ act.scope[2] = sess
  BY <1>1, <1>3, ScopeIsOne
<1>5. BatchOK' /\ ServerOK'
  BY <1>1, <1>2, BatchStays DEF ServerOK
<1>6. e \in Baselines /\ (e.tab # None => e = enc /\ tscope = Scope)
  BY ResetIsOne DEF Channel, EncOK
<1>11. tscope' = Scope
  BY DEF Begin
<1>7. CASE /\ act.method = "clear" /\ enc' = Reset(e) /\ act' = Sent(act)
           /\ chan' = Append(chan, Request(act)) /\ UNCHANGED delivery
  <2>1. enc' \in Baselines /\ enc'.tab = None
    BY <1>6, <1>7, ResetIsOne
  <2>5. Writes(act)
    BY <1>1, <1>3, <1>4 DEF Writes, ActOK
  <2>2. /\ ActOK' /\ ChanOK' /\ AwaitOK' /\ OwnerOK' /\ NoForeignModel'
        /\ ~act'.ok /\ act'.method = act.method /\ act'.scope = act.scope
    BY <1>1, <1>2, <1>3, <1>4, <1>7, <2>5, Requested DEF Channel
  <2>6. ScopeOK'
    BY <1>1, <1>11, <2>1, <2>2 DEF ScopeOK
  <2>3. EncOK' /\ FrameOK' /\ BaseOK' /\ AckOK'
    BY <1>2, <1>7, <2>1, <2>2 DEF EncOK, FrameOK, BaseOK, AckOK
  <2>4. PendOK'
    BY <1>2, <1>7 DEF PendOK, delivery
  <2> QED
    BY <1>2, <1>5, <2>2, <2>3, <2>4, <2>6 DEF Channel
<1>8. ASSUME enc' = e, NEW w \in Updates, Deliver(<<lsn, ctx>>, act, w), Same(act, w), w.step = "context", ~w.ok,
             w.frame = act.frame \/ (act.method = "full" /\ (OwnPart(act.snap) => OwnPart(w.frame.part))),
             act.method = "full" => \E isWhole \in BOOLEAN : w.frame = Prepared(act.snap, e, isWhole)
      PROVE  IInv'
  <2>1. <<lsn, ctx>> \in Nat \X Nat /\ <<lsn, ctx>>[2] <= sess' /\ sess' \in Nat /\ sess <= sess'
    BY <1>2 DEF ClientOK
  <2>2. w # None
    BY NoneIsNoUpdate
  <2>3. Grown /\ PendOK' /\ Follows(w, act')
    BY <1>2, <1>3, <1>8, <2>1, <2>2, Delivered DEF Channel, ChanOK
  <2>4. Same(act, act') /\ act'.frame = w.frame /\ ~act'.ok
    BY <1>8, <2>2, <2>3 DEF Follows, Same
  <2>5. ActOK'
    BY <1>1, <1>2, <1>8, <2>4, SameIsOK
  <2>13. ScopeOK'
    <3>1. tscope' = act.scope /\ Same(act, act')
      BY <1>1, <1>11, <2>4
    <3>2. enc'.tab # None => UNCHANGED <<enc, tscope>>
      BY <1>6, <1>8, <1>11
    <3> QED
      BY <1>2, <3>1, <3>2 DEF ScopeOK, Same, OwnPart
  <2>6. EncOK'
    BY <1>2, <1>4, <1>6, <1>8 DEF EncOK
  <2>7. FrameOK'
    <3> SUFFICES ASSUME act'.method = "full" PROVE Fits(act.frame)'
      BY DEF FrameOK
    <3>1. act.method = "full" /\ act.snap \in Table
      BY <1>3, <2>4 DEF Same, Updates, Table
    <3>2. PICK isWhole \in BOOLEAN : act'.frame = Prepared(act.snap, e, isWhole)
      BY <1>8, <2>4, <3>1
    <3> HIDE DEF e
    <3> QED
      BY <1>6, <1>8, <3>1, <3>2, Prepares DEF Fits
  <2>8. ChanOK'
    BY <1>1, <1>2, <2>1, <2>3, ChanGrows DEF Channel
  <2>9. AwaitOK'
    BY <1>3, <2>3 DEF Channel, AwaitOK, Grown
  <2>10. BaseOK'
    <3> HIDE DEF e
    <3> QED
      BY <1>1, <1>3, <1>6, <1>8, <2>3 DEF Channel, BaseOK, Grown
  <2>11. AckOK'
    BY <2>4 DEF AckOK
  <2>12. OwnerOK' /\ NoForeignModel'
    BY <1>1, <1>2, <2>3, OwnersGrow DEF SameOwner, Channel
  <2> QED
    BY <1>2, <1>5, <2>3, <2>5, <2>6, <2>7, <2>8, <2>9, <2>10, <2>11, <2>12, <2>13 DEF Channel
<1>9. CASE act.method = "delta" /\ enc' = e /\ Deliver(<<lsn, ctx>>, act, [act EXCEPT !.step = "context"])
  <2> DEFINE w == [act EXCEPT !.step = "context"]
  <2>1. w \in Updates /\ Same(act, w) /\ w.step = "context" /\ ~w.ok /\ w.frame = act.frame
    BY <1>3, Moved DEF Same
  <2> HIDE DEF w, e
  <2>2. Deliver(<<lsn, ctx>>, act, w)
    BY <1>9 DEF w
  <2> QED
    BY <1>8, <1>9, <2>1, <2>2
<1>10. ASSUME act.method = "full", enc' = e, NEW isWhole \in BOOLEAN,
              Deliver(<<lsn, ctx>>, act, [act EXCEPT !.step = "context", !.frame = Prepared(act.snap, e, isWhole)])
       PROVE  IInv'
  <2> DEFINE f == Prepared(act.snap, e, isWhole)
             w == [act EXCEPT !.step = "context", !.frame = f]
  <2>1. act.snap \in Table
    BY <1>3 DEF Updates, Table
  <2>2. f \in Frames /\ (OwnPart(act.snap) => OwnPart(f.part))
    <3> HIDE DEF e
    <3> QED
      BY <1>6, <2>1, Prepares
  <2> HIDE DEF f, e
  <2>3. w \in Updates /\ Same(act, w) /\ w.step = "context" /\ ~w.ok /\ w.frame = f
    BY <1>3, <2>2 DEF Same, Updates
  <2> HIDE DEF w
  <2>4. Deliver(<<lsn, ctx>>, act, w)
    BY <1>10 DEF w, f
  <2>5. \E h \in BOOLEAN : w.frame = Prepared(act.snap, e, h)
    BY <2>3 DEF f
  <2> QED
    BY <1>8, <1>10, <2>2, <2>3, <2>4, <2>5
<1> QED
  BY <1>7, <1>9, <1>10 DEF Begin

\* What is written is the table as it is now, or what the delta makes of the one the server was given.
LEMMA WrittenIs ==
  ASSUME ActOK, EncOK, FrameOK, ScopeOK, act # None, ~disposed, act.step = "resolved", act.scope[2] = sess
  PROVE  LET w == Written(act) IN
         /\ w \in Updates /\ Writes(w) /\ w.step = act.step
         /\ w.method = "full" => Gives(w) /\ Fits(w.frame) /\ w.frame.left = act.frame.left
         /\ w.method = "full" /\ w.frame.kind = "delta" =>
              w.frame = act.frame /\ w.snap = Over(enc.real, w.frame.part)
         /\ w.method # "full" => w = act
         /\ w.method = "full" /\ w.frame.kind = "full" => w.snap = act.snap
<1>1. /\ act \in Updates /\ ~act.ok /\ act.snap \in Table /\ act.frame \in Frames \cup {None}
      /\ OwnPart(act.snap) /\ (act.frame # None => OwnPart(act.frame.part))
      /\ (act.method # "full" => act.frame = None)
  BY DEF ActOK, Updates, Table
<1>2. CASE act.method # "full"
  BY <1>1, <1>2 DEF Written, Writes
<1>3. CASE act.method = "full"
  <2>1. Fits(act.frame) /\ act.frame # None /\ act.frame \in Frames
    BY <1>3, NoneIsNoOther DEF FrameOK, Encoded, Fits
  <2>2. CASE act.frame.kind = "full"
    <3> DEFINE f == [act.frame EXCEPT !.part = act.snap]
               w == [act EXCEPT !.frame = f]
    <3>1. Written(act) = w
      BY <2>1, <2>2 DEF Written
    <3>2. act.snap \in Parts
      BY <1>1 DEF Parts, Table
    <3>3. /\ f \in Frames /\ f.part = act.snap /\ f.left = act.frame.left /\ f.kind = "full" /\ f.seq = act.frame.seq
      BY <2>1, <2>2, <3>2 DEF Frames
    <3> HIDE DEF f
    <3>4. /\ w \in Updates /\ w.frame = f /\ w.snap = act.snap /\ w.method = act.method /\ w.scope = act.scope
          /\ w.part = act.part /\ w.ok = act.ok /\ w.step = act.step
      BY <1>1, <3>3 DEF Updates
    <3> HIDE DEF w
    <3> QED
      BY <1>1, <1>3, <2>1, <2>2, <3>1, <3>3, <3>4 DEF Writes, Gives, Fits
  <2>3. CASE act.frame.kind = "delta"
    <3> DEFINE t == Over(enc.real, act.frame.part)
               w == [act EXCEPT !.snap = t]
    <3>1. Written(act) = w
      BY <2>1, <2>3 DEF Written
    <3>2. /\ enc.tab # None /\ enc.tab \in Table /\ enc.real \in Table /\ act.frame.part \in Parts
      BY <2>1, <2>3 DEF Fits, EncOK, Baselines, Frames
    <3>3. t \in Table
      BY <3>2 DEF Over, Table, Parts
    <3>4. OwnPart(enc.real)
      BY <3>2 DEF ScopeOK
    <3>5. OwnPart(t)
      BY <1>1, <2>1, <3>2, <3>4 DEF OwnPart, Over, Table
    <3>6. \A l \in Label \ act.frame.left : t[l] = act.frame.keep[l]
      BY <2>1, <2>3, <3>2 DEF Fits, Over, Table
    <3> HIDE DEF t
    <3>7. /\ w \in Updates /\ w.frame = act.frame /\ w.snap = t /\ w.method = act.method /\ w.scope = act.scope
          /\ w.part = act.part /\ w.ok = act.ok /\ w.step = act.step
      BY <1>1, <3>3 DEF Updates, Table
    <3> HIDE DEF w
    <3> QED
      BY <1>1, <1>3, <2>1, <2>3, <3>1, <3>5, <3>6, <3>7 DEF Writes, Gives, Fits, t
  <2> QED
    BY <2>1, <2>2, <2>3 DEF Frames
<1> QED
  BY <1>2, <1>3

\* The context is held: the frame is over what the server has, or will refuse.
LEMMA SendUpdateInvariant == ASSUME IInv, SendUpdate PROVE IInv'
<1> USE DEF IInv
<1>1. UNCHANGED <<client, batch, ls, lsn, enc, tscope, pend>> /\ act # None /\ act.step = "resolved"
  BY DEF SendUpdate, flush, server, delivery
<1>2. /\ ClientOK' /\ UNCHANGED <<table, rev, first, mode, sess, ctx, gen, disposed>>
      /\ SameSession /\ sess \in Nat
  BY <1>1, ClientStays
<1>3. act \in Updates /\ ~act.ok /\ ~Underway /\ ~Failed /\ act.scope # None
  BY <1>1 DEF ActOK, Underway, Failed
<1>4. BatchOK' /\ ServerOK' /\ PendOK' /\ EncOK'
  BY <1>1, <1>2, BatchStays DEF ServerOK, PendOK, Channel, EncOK
<1>5. CASE act.scope = Scope /\ act' = Sent(Written(act)) /\ chan' = Append(chan, Request(Written(act)))
  <2> DEFINE w == Written(act)
  <2>1. ~disposed /\ act.scope[2] = sess
    BY <1>3, <1>5, ScopeIsOne
  <2>6. /\ w \in Updates /\ Writes(w)
        /\ w.method = "full" => Gives(w) /\ Fits(w.frame)
        /\ w.method = "full" /\ w.frame.kind = "delta" => w.snap = Over(enc.real, w.frame.part)
    BY <1>1, <2>1, WrittenIs DEF Channel
  <2>7. act' = Sent(w) /\ chan' = Append(chan, Request(w))
    BY <1>5
  <2> HIDE DEF w
  <2>2. ASSUME w.method = "full"
        PROVE  /\ Rebuilds(ls.dec, Request(w))
               /\ w.frame.kind = "delta" => \A j \in Slots : chan[j].type # "full"
    <3>2. Request(w).frame = w.frame /\ Request(w).snap = w.snap
      BY DEF Request
    <3>3. Rebuilds(ls.dec, Request(w))
      BY <1>3, <2>2, <2>6, <3>2 DEF Fits, Gives, Rebuilds, Channel, BaseOK
    <3>4. w.frame.kind = "delta" => \A j \in Slots : chan[j].type # "full"
      BY <1>3, <2>2, <2>6 DEF Fits, Channel, BaseOK, AwaitOK
    <3> QED
      BY <3>3, <3>4
  <2>3. /\ ActOK' /\ ChanOK' /\ AwaitOK' /\ OwnerOK' /\ NoForeignModel'
        /\ Underway' /\ ~act'.ok /\ act'.method = act.method /\ act'.frame = w.frame /\ act'.scope = act.scope
        /\ \A i \in Slots' : (i \in Slots /\ chan'[i] = chan[i]) \/ chan'[i].awaited
    BY <1>1, <1>2, <1>3, <2>1, <2>2, <2>6, <2>7, Requested DEF Channel
  <2>4. FrameOK' /\ AckOK'
    BY <1>1, <2>3, <2>6 DEF FrameOK, AckOK, Fits, Writes
  <2>5. BaseOK'
    BY <1>1, <1>3, <2>3 DEF Channel, BaseOK
  <2>8. ScopeOK'
    BY <1>1, <1>2, <2>3 DEF ScopeOK, OwnPart
  <2> QED
    BY <1>2, <1>4, <2>3, <2>4, <2>5, <2>8 DEF Channel
<1>6. CASE act' = [act EXCEPT !.step = "answered"] /\ UNCHANGED chan
  <2>1. /\ Same(act, act') /\ act'.frame = act.frame /\ act'.step = "answered" /\ ~act'.ok
    BY <1>3, <1>6, Moved DEF Same
  <2>2. ActOK'
    BY <1>1, <1>2, <2>1, SameIsOK
  <2>3. Carried
    BY <1>1, <1>3, <2>1 DEF Carried, Encoded, Same
  <2> QED
    BY <1>1, <1>2, <1>4, <1>6, <2>2, <2>3, QuietStep
<1> QED
  BY <1>5, <1>6 DEF SendUpdate, ContextHeld

-----------------------------------------------------------------------------
\* The server.

LEMMA AwareIsSame ==
  ASSUME NEW a \in Updates, NEW isOk \in BOOLEAN, a.step = "sent", ~a.own
  PROVE  LET b == Aware(a, isOk) IN
         Same(a, b) /\ b.frame = a.frame /\ b.step = "answered" /\ b.ok = isOk /\ b # None
<1>1. a # None
  BY NoneIsNoUpdate
<1>2. [a EXCEPT !.step = "answered", !.ok = isOk] \in Updates
  BY DEF Updates
<1>3. Aware(a, isOk) = [a EXCEPT !.step = "answered", !.ok = isOk]
  BY <1>1 DEF Aware
<1> QED
  BY <1>2, <1>3, NoneIsNoUpdate DEF Same, Updates

\* The head of the channel leaves it.
LEMMA Taken ==
  ASSUME chan \in Seq(Messages), chan # <<>>, chan' = Tail(chan)
  PROVE  /\ chan' \in Seq(Messages) /\ 1 \in Slots /\ Head(chan) = chan[1]
         /\ \A i \in Slots' : i \in Nat /\ i > 0 /\ i + 1 \in Slots /\ chan'[i] = chan[i + 1]
<1>1. Len(chan) \in Nat \ {0} /\ Tail(chan) \in Seq(Messages) /\ Len(Tail(chan)) = Len(chan) - 1
  OBVIOUS
<1>2. \A i \in 1..Len(Tail(chan)) : Tail(chan)[i] = chan[i + 1]
  OBVIOUS
<1> QED
  BY <1>1, <1>2 DEF Slots

\* What the publisher hears of a request.
Answers(m) ==
  IF m.type = "ctx" \/ ~m.awaited THEN act' = act
  ELSE \E isOk \in BOOLEAN : act' = Aware(act, isOk)

\* The server serves or fails the head of the channel, and answers it.
Serves ==
  /\ chan # <<>> /\ chan' = Tail(chan)
  /\ LET m == chan[1] IN
     /\ m.type # "full" => ls'.dec \in {None, ls.dec}
     /\ m.type = "full" /\ ls'.dec # None => ls'.dec.seq = m.frame.seq /\ ls'.dec.tab = m.snap
     /\ Answers(m)
     /\ ls'.ctx = IF m.type = "ctx" THEN m.ctx ELSE ls.ctx

LEMMA ServedChannel ==
  ASSUME ActOK, ScopeOK, Channel, Serves, UNCHANGED <<enc, tscope, sess, disposed, first>>
  PROVE  Channel' /\ ActOK' /\ ScopeOK'
<1> USE DEF Channel
<1> DEFINE m == chan[1]
<1>1. /\ chan' \in Seq(Messages) /\ 1 \in Slots
      /\ \A i \in Slots' : i \in Nat /\ i > 0 /\ i + 1 \in Slots /\ chan'[i] = chan[i + 1]
  BY Taken DEF Serves, ChanOK
<1>2. ChanOK'
  <2>1. \A i \in Slots' : chan'[i].type = "ctx" => chan'[i].ctx <= sess
    BY <1>1 DEF ChanOK
  <2>2. ASSUME NEW i \in Slots', NEW j \in Slots', j < i, chan'[i].type = "full", chan'[i].frame.kind = "delta"
        PROVE  chan'[j].type # "full"
    <3>1. i + 1 \in Slots /\ j + 1 \in Slots /\ j + 1 < i + 1 /\ chan'[i] = chan[i + 1] /\ chan'[j] = chan[j + 1]
      BY <1>1, <2>2
    <3> QED
      BY <2>2, <3>1 DEF ChanOK
  <2>3. ASSUME NEW i \in Slots', chan'[i].type = "full" PROVE Rebuilds(ls'.dec, chan'[i])
    <3>1. i + 1 \in Slots /\ 1 < i + 1 /\ chan'[i] = chan[i + 1] /\ Rebuilds(ls.dec, chan[i + 1])
      BY <1>1, <2>3 DEF ChanOK
    <3>2. chan[i + 1].frame.kind = "delta" => m.type # "full"
      BY <1>1, <2>3, <3>1 DEF ChanOK
    <3>3. chan[i + 1].frame.kind = "delta" => ls'.dec \in {None, ls.dec}
      BY <3>2 DEF Serves
    <3> QED
      BY <3>1, <3>3 DEF Rebuilds
  <2> QED
    BY <1>1, <2>1, <2>2, <2>3 DEF ChanOK
<1>3. CASE (m.type = "ctx" \/ ~m.awaited) /\ act' = act
  <2>1. ActOK' /\ EncOK' /\ FrameOK'
    BY <1>3 DEF ActOK, EncOK, FrameOK, Fits, OwnPart
  <2>5. ScopeOK'
    BY <1>3 DEF ScopeOK, OwnPart
  <2>2. AwaitOK'
    <3> SUFFICES ASSUME NEW i \in Slots', chan'[i].type # "ctx", chan'[i].awaited
                 PROVE  Underway /\ chan'[i] = Request(act) /\ \A j \in Slots' : j > i => chan'[j].type = "ctx"
      BY <1>3 DEF AwaitOK, Underway
    <3>1. Underway /\ chan[i + 1] = Request(act) /\ \A j \in Slots : j > i + 1 => chan[j].type = "ctx"
      BY <1>1 DEF AwaitOK
    <3>2. \A j \in Slots' : j > i => j + 1 > i + 1
      BY <1>1
    <3> QED
      BY <1>1, <3>1, <3>2
  <2>3. BaseOK'
    <3> SUFFICES ASSUME enc.tab # None, ~Failed
                 PROVE  /\ ls'.dec # None /\ ls'.dec.seq = enc.seq => ls'.dec.tab = enc.real
                        /\ \A i \in Slots' : chan'[i].type = "full" => chan'[i].awaited
      BY <1>3 DEF BaseOK, Failed
    <3>1. m.type # "full"
      BY <1>1, <1>3 DEF BaseOK
    <3> QED
      BY <1>1, <3>1 DEF BaseOK, Serves
  <2>4. AckOK'
    <3> SUFFICES ASSUME act # None, act.ok, act.method = "full"
                 PROVE  /\ \A i \in Slots' : chan'[i].type # "full"
                        /\ ls'.dec # None /\ ls'.dec.seq = act.frame.seq => ls'.dec.tab = act.snap
      BY <1>3 DEF AckOK
    <3> QED
      BY <1>1 DEF AckOK, Serves
  <2> QED
    BY <1>2, <2>1, <2>2, <2>3, <2>4, <2>5
<1>4. ASSUME m.type # "ctx", m.awaited, NEW isOk \in BOOLEAN, act' = Aware(act, isOk)
      PROVE  Channel' /\ ActOK' /\ ScopeOK'
  <2>1. Underway /\ m = Request(act) /\ act \in Updates /\ \A j \in Slots : j > 1 => chan[j].type = "ctx"
    BY <1>1, <1>4 DEF AwaitOK, ActOK, Underway
  <2>2. /\ Same(act, act') /\ act'.frame = act.frame /\ act'.step = "answered" /\ act'.ok = isOk /\ act' # None
    BY <1>4, <2>1, AwareIsSame DEF Underway, ActOK
  <2>3. ActOK' /\ ScopeOK'
    <3>1. ActOK'
      BY <2>1, <2>2, SameIsOK DEF Underway, Serves
    <3>2. ScopeOK'
      BY <2>1, <2>2 DEF ScopeOK, Same, OwnPart, Underway
    <3> QED
      BY <3>1, <3>2
  <2>4. \A i \in Slots' : chan'[i].type = "ctx"
    BY <1>1, <2>1
  <2>5. EncOK' /\ FrameOK' /\ AwaitOK'
    BY <2>2, <2>4 DEF EncOK, FrameOK, AwaitOK, Encoded
  <2>6. m.type = act.method /\ m.frame = act.frame /\ m.snap = act.snap
    BY <2>1 DEF Request
  <2>7. BaseOK'
    <3> SUFFICES ASSUME enc.tab # None
                 PROVE  ls'.dec # None /\ ls'.dec.seq = enc.seq => ls'.dec.tab = enc.real
      BY <2>4 DEF BaseOK
    <3>1. CASE m.type # "full"
      BY <2>1, <3>1 DEF BaseOK, Serves, Underway, Failed
    <3>2. CASE m.type = "full"
      <4>1. Fits(act.frame)
        BY <2>1, <2>6, <3>2 DEF EncOK, FrameOK, Underway, Encoded
      <4>2. ls'.dec # None => ls'.dec.seq = enc.seq + 1
        BY <2>6, <3>2, <4>1 DEF Serves, Fits
      <4> QED
        BY <4>2 DEF EncOK, Baselines
    <3> QED
      BY <3>1, <3>2
  <2>8. AckOK'
    <3> SUFFICES ASSUME act.method = "full"
                 PROVE  ls'.dec # None => ls'.dec.tab = act.snap
      BY <2>2, <2>4 DEF AckOK, Same
    <3> QED
      BY <2>6 DEF Serves
  <2> QED
    BY <1>2, <2>3, <2>5, <2>7, <2>8
<1> QED
  BY <1>3, <1>4 DEF Serves, Answers

\* What remains was sent by the running daemon, or before its context.
LEMMA ServedOwner == ASSUME ChanOK, OwnerOK, Serves, UNCHANGED <<ctx, first>> PROVE OwnerOK'
<1>1. /\ 1 \in Slots
      /\ \A i \in Slots' : i \in Nat /\ i > 0 /\ i + 1 \in Slots /\ chan'[i] = chan[i + 1]
  BY Taken DEF Serves, ChanOK
<1>2. ASSUME ctx # 0, NEW j \in Slots', chan'[j].type # "ctx"
      PROVE  \/ OwnPart(chan[j].snap)' /\ OwnPart(chan[j].part)'
             \/ ls'.ctx # ctx /\ \A i \in Slots' : i < j /\ chan'[i].type = "ctx" => chan'[i].ctx # ctx
  <2>1. CASE OwnPart(chan[j + 1].snap) /\ OwnPart(chan[j + 1].part)
    BY <1>1, <2>1 DEF OwnPart
  <2>2. CASE ls.ctx # ctx /\ \A i \in Slots : i < j + 1 /\ chan[i].type = "ctx" => chan[i].ctx # ctx
    <3>1. ls'.ctx # ctx
      BY <1>1, <2>2 DEF Serves
    <3>2. \A i \in Slots' : i < j => i + 1 < j + 1
      BY <1>1
    <3> QED
      BY <1>1, <2>2, <3>1, <3>2
  <2> QED
    BY <1>1, <1>2, <2>1, <2>2 DEF OwnerOK
<1> QED
  BY <1>2 DEF OwnerOK

\* What a request makes of the server.
Makes(r, m) ==
  /\ r \in Servers
  /\ m.type # "full" => r.dec \in {None, ls.dec}
  /\ m.type = "full" /\ r.dec # None => r.dec.seq = m.frame.seq /\ r.dec.tab = m.snap
  /\ m.type = "full" => r.tab \in {None, m.snap}
  /\ m.type = "clear" => r.tab = None
  /\ m.type = "ctx" => r.tab = None \/ (r.tab = ls.tab /\ m.ctx = ls.ctx)
  /\ m.type = "delta" => r.tab = None \/ r.tab = ls.tab \/ (ls.tab # None /\ r.tab = Over(ls.tab, m.part))
  /\ r.ctx = IF m.type = "ctx" THEN m.ctx ELSE ls.ctx

LEMMA EffectServes ==
  ASSUME ls \in Servers, NEW m \in Messages, m.type = "full" => Rebuilds(ls.dec, m)
  PROVE  Makes(Effect(ls, m)[1], m) /\ Effect(ls, m)[2] \in BOOLEAN
<1>1. /\ ls.tab \in Table \cup {None} /\ ls.idx \in Table \cup {Broken} /\ ls.dec \in Decoders \cup {None}
      /\ ls.ctx \in Nat /\ Empty \in Table
  BY EmptyTable DEF Servers
<1>2. Cleared(ls) \in Servers /\ Cleared(ls).tab = None /\ Cleared(ls).dec = None /\ Cleared(ls).ctx = ls.ctx
  BY <1>1 DEF Servers, Cleared
<1>3. CASE m.type = "ctx"
  <2>1. Effect(ls, m) = <<WithContext(ls, m.ctx), TRUE>> /\ m.ctx \in Nat
    BY <1>3 DEF Effect, Messages, Contexts, Requests
  <2> DEFINE s == IF m.ctx # ls.ctx /\ ls.tab # None THEN Cleared(ls) ELSE ls
             r == [s EXCEPT !.ctx = m.ctx]
  <2>2. /\ s \in Servers /\ (s.tab = None \/ (s.tab = ls.tab /\ m.ctx = ls.ctx)) /\ s.dec \in {None, ls.dec}
    BY <1>2
  <2>3. WithContext(ls, m.ctx) = r
    BY DEF WithContext
  <2> HIDE DEF s
  <2>4. r \in Servers /\ r.tab = s.tab /\ r.dec = s.dec /\ r.ctx = m.ctx
    BY <2>1, <2>2 DEF Servers
  <2> HIDE DEF r
  <2>5. Makes(r, m)
    BY <1>3, <2>2, <2>4 DEF Makes
  <2> QED
    BY <2>1, <2>3, <2>5
<1>4. CASE m.type = "clear"
  BY <1>2, <1>4 DEF Effect, Makes
<1>5. CASE m.type = "delta"
  <2>1. m.part \in Parts
    BY <1>5 DEF Messages, Contexts, Requests
  <2>2. CASE ls.tab = None
    BY <1>5, <2>2 DEF Effect, Makes
  <2>3. CASE ls.tab # None
    <3>1. \A t \in Table : Over(t, m.part) \in Table
      BY <2>1 DEF Over, Table, Parts
    <3>2. DEFINE i == IF ls.idx = Broken THEN Broken ELSE Over(ls.idx, m.part)
    <3>3. Over(ls.tab, m.part) \in Table /\ i \in Table \cup {Broken}
      BY <1>1, <2>3, <3>1
    <3>4. WithDelta(ls, m.part) = [ls EXCEPT !.tab = Over(ls.tab, m.part), !.idx = i]
      BY DEF WithDelta
    <3> HIDE DEF i
    <3>5. /\ WithDelta(ls, m.part) \in Servers /\ WithDelta(ls, m.part).tab = Over(ls.tab, m.part)
          /\ WithDelta(ls, m.part).dec = ls.dec /\ WithDelta(ls, m.part).ctx = ls.ctx
      BY <1>1, <3>3, <3>4 DEF Servers
    <3>6. Effect(ls, m) = <<WithDelta(ls, m.part), TRUE>>
      BY <1>5, <2>3 DEF Effect
    <3> QED
      BY <1>5, <2>3, <3>5, <3>6 DEF Makes
  <2> QED
    BY <2>2, <2>3
<1>6. CASE m.type = "full"
  <2> DEFINE t == Decoded(ls, m.frame)
  <2>1. t \in {None, m.snap} /\ m.snap \in Table /\ m.frame \in Frames
    <3>1. m.snap \in Table /\ m.frame \in Frames
      BY <1>6 DEF Rebuilds, Gives, Messages, Contexts, Requests
    <3>2. m.frame.kind = "full" \/ m.frame.kind = "delta"
      BY <3>1 DEF Frames
    <3> QED
      BY <1>6, <3>1, <3>2 DEF Decoded, Rebuilds, Gives
  <2>2. Effect(ls, m) = IF t = None THEN <<Recovered(ls), FALSE>> ELSE <<WithFrame(ls, m.frame, t), TRUE>>
    BY <1>6 DEF Effect
  <2> HIDE DEF t
  <2>3. CASE t = None
    <3>1. /\ Recovered(ls) \in Servers /\ Recovered(ls).tab = None
          /\ Recovered(ls).dec = None /\ Recovered(ls).ctx = ls.ctx
      BY <1>1 DEF Servers, Recovered
    <3> QED
      BY <1>6, <2>2, <2>3, <3>1 DEF Makes
  <2>4. CASE t # None
    <3> DEFINE d == IF m.frame.keep = None THEN None ELSE [seq |-> m.frame.seq, tab |-> t]
               i == Patched(ls, t)
    <3>1. d \in Decoders \cup {None} /\ (d # None => d.seq = m.frame.seq /\ d.tab = m.snap)
      BY <2>1, <2>4 DEF Decoders, Frames
    <3>2. i \in Table \cup {Broken}
      BY <1>1, <2>1, <2>4 DEF Patched, Table
    <3>3. WithFrame(ls, m.frame, t) = [ls EXCEPT !.tab = t, !.idx = i, !.dec = d]
      BY DEF WithFrame
    <3> HIDE DEF d, i
    <3>4. /\ WithFrame(ls, m.frame, t) \in Servers /\ WithFrame(ls, m.frame, t).tab = t
          /\ WithFrame(ls, m.frame, t).dec = d /\ WithFrame(ls, m.frame, t).ctx = ls.ctx
      BY <1>1, <2>1, <2>4, <3>1, <3>2, <3>3 DEF Servers
    <3> QED
      BY <1>6, <2>1, <2>2, <2>4, <3>1, <3>4 DEF Makes
  <2> QED
    BY <2>3, <2>4
<1> QED
  BY <1>3, <1>4, <1>5, <1>6 DEF Messages, Contexts, Requests

LEMMA ServerInvariant ==
  ASSUME IInv, chan # <<>>, chan' = Tail(chan), Makes(ls', chan[1]),
         Answers(chan[1]),
         UNCHANGED <<client, batch, lsn, enc, tscope, pend>>
  PROVE  IInv'
<1> USE DEF IInv
<1> DEFINE m == chan[1]
<1>1. /\ ClientOK' /\ UNCHANGED <<table, rev, first, mode, sess, ctx, gen, disposed>>
      /\ SameSession /\ sess \in Nat
  BY ClientStays
<1>2. 1 \in Slots /\ m \in Messages
  BY Taken DEF Channel, ChanOK, Slots
<1>3. Serves
  BY DEF Serves, Makes
<1>4. Channel' /\ ActOK' /\ ScopeOK'
  BY <1>1, <1>3, ServedChannel
<1>5. BatchOK' /\ PendOK'
  BY <1>1, BatchStays DEF PendOK
<1>6. OwnerOK'
  BY <1>1, <1>3, ServedOwner DEF Channel
<1>7. ServerOK'
  BY <1>1, <1>2 DEF ServerOK, Makes, Channel, ChanOK
<1>8. NoForeignModel'
  <2> SUFFICES ASSUME ls'.ctx = ctx, ctx # 0, ls'.tab # None, NEW l \in Label
               PROVE  ls'.tab[l] = 0 \/ ls'.tab[l] > first
    BY <1>1 DEF NoForeignModel
  <2>1. m.type # "ctx" => ls.ctx = ctx /\ OwnPart(m.snap) /\ OwnPart(m.part)
    BY <1>2 DEF Makes, OwnerOK
  <2>2. CASE m.type = "ctx"
    BY <2>2 DEF Makes, NoForeignModel
  <2>3. CASE m.type = "full"
    <3>1. ls'.tab = m.snap /\ m.snap \in Table
      BY <1>2, <2>3 DEF Makes, Messages, Contexts, Requests
    <3> QED
      BY <2>1, <2>3, <3>1 DEF OwnPart, Table
  <2>4. CASE m.type = "delta"
    <3>1. ls.tab # None /\ (ls'.tab = ls.tab \/ ls'.tab = Over(ls.tab, m.part))
      BY <2>4 DEF Makes
    <3>2. ls.tab[l] = 0 \/ ls.tab[l] > first
      BY <2>1, <2>4, <3>1 DEF NoForeignModel
    <3> QED
      BY <2>1, <2>4, <3>1, <3>2 DEF Over, OwnPart
  <2>5. CASE m.type = "clear"
    BY <2>5 DEF Makes
  <2> QED
    BY <1>2, <2>2, <2>3, <2>4, <2>5 DEF Messages, Contexts, Requests
<1> QED
  BY <1>1, <1>4, <1>5, <1>6, <1>7, <1>8

LEMMA HeadIsFirst == ASSUME IInv, chan # <<>> PROVE Head(chan) = chan[1] /\ chan[1] \in Messages /\ 1 \in Slots
<1>1. chan \in Seq(Messages)
  BY DEF IInv, Channel, ChanOK
<1>2. Len(chan) \in Nat \ {0}
  BY <1>1
<1> QED
  BY <1>1, <1>2 DEF Slots

LEMMA ServeInvariant == ASSUME IInv, Serve PROVE IInv'
<1>1. /\ chan # <<>> /\ chan' = Tail(chan) /\ ls' = Effect(ls, Head(chan))[1]
      /\ Answer(Head(chan), Effect(ls, Head(chan))[2]) /\ UNCHANGED <<client, batch, lsn, enc, tscope, pend>>
  BY DEF Serve, flush
<1>2. Head(chan) = chan[1] /\ chan[1] \in Messages /\ 1 \in Slots
  BY <1>1, HeadIsFirst
<1>3. Makes(ls', chan[1]) /\ Effect(ls, chan[1])[2] \in BOOLEAN
  BY <1>1, <1>2, EffectServes DEF IInv, ServerOK, Channel, ChanOK
<1>4. Answers(chan[1])
  BY <1>1, <1>2, <1>3 DEF Answer, Answers
<1> QED
  BY <1>1, <1>3, <1>4, ServerInvariant

LEMMA ServeFailsInvariant == ASSUME IInv, ServeFails PROVE IInv'
<1>1. PICK i \in {ls.idx, Broken} : ls' = Recovered([ls EXCEPT !.idx = i])
  BY DEF ServeFails
<1>2. /\ chan # <<>> /\ chan' = Tail(chan) /\ Head(chan).type \in {"full", "delta"}
      /\ Answer(Head(chan), FALSE) /\ UNCHANGED <<client, batch, lsn, enc, tscope, pend>>
  BY DEF ServeFails, flush
<1>3. Head(chan) = chan[1] /\ chan[1] \in Messages /\ 1 \in Slots
  BY <1>2, HeadIsFirst
<1>4. ls \in Servers /\ ls.idx \in Table \cup {Broken} /\ ls.tab \in Table \cup {None} /\ ls.dec \in Decoders \cup {None}
  BY DEF IInv, ServerOK, Servers
<1> DEFINE s == [ls EXCEPT !.idx = i]
<1>5. s \in Servers /\ s.ctx = ls.ctx /\ s.idx = i /\ i \in Table \cup {Broken}
  BY <1>4 DEF Servers
<1>6. ls' = Recovered(s)
  BY <1>1
<1> HIDE DEF s
<1>7. ls' \in Servers /\ ls'.tab = None /\ ls'.dec = None /\ ls'.ctx = ls.ctx
  BY <1>4, <1>5, <1>6 DEF Recovered, Servers
<1>8. Makes(ls', chan[1])
  BY <1>2, <1>3, <1>7 DEF Makes
<1>9. Answers(chan[1])
  BY <1>2, <1>3 DEF Answer, Answers
<1> QED
  BY <1>2, <1>8, <1>9, ServerInvariant

\* The request under way is withdrawn, or nobody awaits its answer any more.
LEMMA UpdateTimesOutInvariant == ASSUME IInv, UpdateTimesOut PROVE IInv'
<1> USE DEF IInv
<1>1. /\ UNCHANGED <<client, batch, lsn, enc, tscope, pend, ls>> /\ act # None /\ act.step = "sent"
      /\ act' = [act EXCEPT !.step = "answered"]
  BY DEF UpdateTimesOut, flush, delivery, server
<1>2. /\ ClientOK' /\ UNCHANGED <<table, rev, first, mode, sess, ctx, gen, disposed>>
      /\ SameSession /\ sess \in Nat
  BY <1>1, ClientStays
<1>3. act \in Updates /\ ~act.ok /\ ~act.own
  BY <1>1 DEF ActOK
<1>4. /\ Same(act, act') /\ act'.frame = act.frame /\ act'.step = "answered" /\ ~act'.ok /\ act' # None
  BY <1>1, <1>3, Moved, NoneIsNoUpdate DEF Same
<1>5. ActOK' /\ BatchOK' /\ PendOK' /\ ServerOK' /\ ScopeOK'
  <2>1. ScopeOK'
    BY <1>1, <1>2, <1>4 DEF ScopeOK, Same, OwnPart
  <2> QED
    BY <1>1, <1>2, <1>4, <2>1, SameIsOK, BatchStays DEF PendOK, ServerOK
<1>6. EncOK' /\ FrameOK' /\ BaseOK' /\ AckOK' /\ NoForeignModel'
  BY <1>1, <1>2, <1>4 DEF Channel, EncOK, FrameOK, BaseOK, AckOK, Failed, Encoded, NoForeignModel
<1>7. PICK n \in DOMAIN chan : /\ chan[n].type # "ctx" /\ chan[n].awaited
                               /\ chan' \in {Without(chan, n), [chan EXCEPT ![n].awaited = FALSE]}
  BY DEF UpdateTimesOut
<1>8. chan \in Seq(Messages) /\ Len(chan) \in Nat /\ DOMAIN chan = Slots /\ n \in Slots
  BY <1>7 DEF Channel, ChanOK, Slots
<1>9. \A i \in Slots \ {n} : chan[i].type # "ctx" => ~chan[i].awaited
  <2>1. \A j \in Slots : j > n => chan[j].type = "ctx"
    BY <1>7, <1>8 DEF Channel, AwaitOK
  <2>2. \A i \in Slots : i < n /\ chan[i].type # "ctx" => ~chan[i].awaited
    BY <1>7, <1>8 DEF Channel, AwaitOK
  <2> QED
    BY <1>8, <2>1, <2>2 DEF Slots
<1>10. CASE chan' = Without(chan, n)
  <2> DEFINE at(i) == IF i < n THEN i ELSE i + 1
  <2>1. Len(chan) - 1 \in Nat /\ \A i \in 1..Len(chan) - 1 : at(i) \in Slots \ {n} /\ chan[at(i)] \in Messages
    BY <1>8 DEF Slots
  <2>2. /\ chan' \in Seq(Messages) /\ Len(chan') = Len(chan) - 1
        /\ \A i \in 1..Len(chan) - 1 : chan'[i] = chan[at(i)]
    BY <1>8, <1>10, <2>1 DEF Without
  <2>3. \A i \in Slots' : at(i) \in Slots \ {n} /\ chan'[i] = chan[at(i)]
    BY <2>1, <2>2 DEF Slots
  <2>4. \A i, j \in Slots' : j < i => at(j) < at(i)
    BY <1>8, <2>2 DEF Slots
  <2> HIDE DEF at
  <2>5. ChanOK'
    <3>1. \A i \in Slots' : chan'[i].type = "ctx" => chan'[i].ctx <= sess
      BY <2>3 DEF Channel, ChanOK
    <3>2. \A i \in Slots' : chan'[i].type = "full" => Rebuilds(ls.dec, chan'[i])
      BY <2>3 DEF Channel, ChanOK
    <3>3. \A i, j \in Slots' :
            j < i /\ chan'[i].type = "full" /\ chan'[i].frame.kind = "delta" => chan'[j].type # "full"
      BY <2>3, <2>4 DEF Channel, ChanOK
    <3> QED
      BY <1>1, <1>2, <2>2, <3>1, <3>2, <3>3 DEF ChanOK
  <2>6. AwaitOK'
    BY <1>9, <2>3 DEF AwaitOK
  <2>7. OwnerOK'
    <3> SUFFICES ASSUME ctx # 0, NEW j \in Slots', chan'[j].type # "ctx"
                 PROVE  \/ OwnPart(chan'[j].snap) /\ OwnPart(chan'[j].part)
                        \/ ls.ctx # ctx /\ \A i \in Slots' : i < j /\ chan'[i].type = "ctx" => chan'[i].ctx # ctx
      BY <1>1, <1>2 DEF OwnerOK, OwnPart
    <3> QED
      BY <2>3, <2>4 DEF OwnerOK
  <2> QED
    BY <1>2, <1>5, <1>6, <2>5, <2>6, <2>7 DEF Channel
<1>11. CASE chan' = [chan EXCEPT ![n].awaited = FALSE]
  <2> DEFINE m == [chan[n] EXCEPT !.awaited = FALSE]
  <2>1. chan[n] \in Messages
    BY <1>8 DEF Slots
  <2>2. /\ m \in Messages /\ m.type = chan[n].type /\ ~m.awaited
        /\ m.part = chan[n].part /\ m.snap = chan[n].snap /\ m.frame = chan[n].frame
    BY <1>7, <2>1 DEF Messages, Contexts, Requests
  <2>3. chan' = [chan EXCEPT ![n] = m]
    BY <1>11
  <2> HIDE DEF m
  <2>4. /\ chan' \in Seq(Messages) /\ Slots' = Slots /\ chan'[n] = m
        /\ \A i \in Slots \ {n} : chan'[i] = chan[i]
    BY <1>8, <2>2, <2>3 DEF Slots
  <2>8. ASSUME NEW i \in Slots
        PROVE  /\ chan'[i].type = chan[i].type
               /\ chan[i].type = "ctx" => chan'[i] = chan[i]
               /\ chan[i].type # "ctx" => chan'[i].snap = chan[i].snap /\ chan'[i].frame = chan[i].frame
    BY <1>7, <2>2, <2>4
  <2>9. \A i \in Slots : chan[i].type = "full" => Rebuilds(ls.dec, chan'[i])
    BY <2>8 DEF Channel, ChanOK, Rebuilds, Gives
  <2>5. ChanOK'
    BY <1>1, <1>2, <2>4, <2>8, <2>9 DEF Channel, ChanOK
  <2>6. AwaitOK'
    BY <1>9, <2>2, <2>4 DEF AwaitOK
  <2>7. OwnerOK'
    <3> SUFFICES ASSUME ctx # 0, NEW j \in Slots, chan'[j].type # "ctx"
                 PROVE  \/ OwnPart(chan'[j].snap) /\ OwnPart(chan'[j].part)
                        \/ ls.ctx # ctx /\ \A i \in Slots : i < j /\ chan'[i].type = "ctx" => chan'[i].ctx # ctx
      BY <1>1, <1>2, <2>4 DEF OwnerOK, OwnPart
    <3>1. chan'[j].type = chan[j].type /\ chan'[j].snap = chan[j].snap /\ chan'[j].part = chan[j].part
      BY <2>2, <2>4
    <3>2. \A i \in Slots : chan'[i].type = "ctx" => chan'[i] = chan[i]
      BY <1>7, <2>2, <2>4
    <3> QED
      BY <3>1, <3>2 DEF OwnerOK
  <2> QED
    BY <1>2, <1>5, <1>6, <2>5, <2>6, <2>7 DEF Channel
<1> QED
  BY <1>7, <1>10, <1>11

\* A new connection begins with a new server and nothing under way.
LEMMA ClosedInvariant == ASSUME IInv, Closed PROVE IInv'
<1> USE DEF IInv
<1>1. /\ UNCHANGED <<client, batch, lsn, enc, tscope>> /\ ls' = NewServer /\ chan' = <<>>
      /\ act' = Rejected(Aware(act, FALSE)) \/ act' = Aware(act, FALSE)
      /\ pend' = None \/ UNCHANGED pend
  BY DEF Closed, flush, delivery
<1>2. /\ ClientOK' /\ UNCHANGED <<table, rev, first, mode, sess, ctx, gen, disposed>>
      /\ SameSession /\ sess \in Nat
  BY <1>1, ClientStays
<1>3. BatchOK' /\ PendOK'
  BY <1>1, <1>2, BatchStays DEF PendOK
<1>4. ls' \in Servers /\ ls'.dec = None /\ ls'.tab = None /\ ls'.ctx = 0
  BY <1>1, EmptyTable DEF NewServer, Servers
<1>5. Slots' = {} /\ chan' \in Seq(Messages)
  BY <1>1 DEF Slots
<1>6. ServerOK' /\ OwnerOK' /\ NoForeignModel' /\ EncOK'
  BY <1>1, <1>2, <1>4, <1>5 DEF ServerOK, OwnerOK, NoForeignModel, Channel, EncOK
<1>7. ChanOK' /\ AwaitOK' /\ BaseOK' /\ AckOK'
  BY <1>4, <1>5 DEF ChanOK, AwaitOK, BaseOK, AckOK
<1>8. ActOK' /\ FrameOK' /\ ScopeOK'
  <2>1. CASE act = None
    <3>1. act' = None
      BY <1>1, <2>1 DEF Aware, Rejected
    <3> QED
      BY <1>1, <1>2, <3>1 DEF ActOK, FrameOK, ScopeOK, OwnPart
  <2>2. CASE act # None /\ act.step = "sent"
    <3>1. act \in Updates
      BY <2>2 DEF ActOK
    <3> DEFINE a == Aware(act, FALSE)
    <3>2. Same(act, a) /\ a.frame = act.frame /\ a.step = "answered"
      BY <2>2, <3>1, AwareIsSame DEF ActOK
    <3>3. act' = a
      BY <1>1, <3>2 DEF Rejected
    <3> HIDE DEF a
    <3>4. ScopeOK'
      BY <1>1, <1>2, <2>2, <3>2, <3>3 DEF ScopeOK, Same, OwnPart
    <3> QED
      BY <1>2, <2>2, <3>2, <3>3, <3>4, SameIsOK DEF FrameOK, Encoded
  <2>3. CASE act # None /\ act.step # "sent"
    <3>1. act \in Updates /\ Aware(act, FALSE) = act
      BY <2>3 DEF ActOK, Aware
    <3>2. Follows(act, act')
      BY <1>1, <3>1, TouchedFollow
    <3>3. Carried
      BY <3>2, FollowingCarries
    <3>4. ScopeOK'
      BY <1>1, <1>2, <3>3, ScopeStays
    <3> QED
      BY <1>1, <1>2, <3>2, <3>3, <3>4, FollowingIsOK DEF Channel, FrameOK, Carried, Fits
  <2> QED
    BY <2>1, <2>2, <2>3
<1> QED
  BY <1>2, <1>3, <1>6, <1>7, <1>8 DEF Channel

-----------------------------------------------------------------------------
\* The specification.

LEMMA InitInvariant == Init => IInv
<1> SUFFICES ASSUME Init PROVE IInv
  OBVIOUS
<1>1. /\ table = Empty /\ rev = 0 /\ first = 0 /\ mode = "stopped" /\ sess = 0 /\ ctx = 0 /\ gen = 0
      /\ disposed = FALSE /\ batch = NoBatch /\ act = None /\ enc = [seq |-> 0, tab |-> None, real |-> None] /\ pend = None
      /\ lsn = 0 /\ chan = <<>> /\ ls = NewServer
  BY DEF Init
<1>2. ClientOK
  <2>1. disposed \in BOOLEAN /\ table \in Table /\ OwnPart(table) /\ table = Empty
    BY <1>1, EmptyTable
  <2>2. rev \in Nat /\ first \in Nat /\ first <= rev /\ sess \in Nat /\ ctx \in {0, sess} /\ gen \in Nat /\ lsn \in Nat
    BY <1>1
  <2> QED
    BY <2>1, <2>2 DEF ClientOK
<1>3. BatchOK
  <2>1. NoBatch \in Batches /\ NoBatch.sess = 0 /\ NoBatch.step = "idle" /\ NoBatch.part = NoPart
    BY NoPartIsOwn DEF NoBatch, Batches
  <2> QED
    BY <1>1, <2>1, NoPartIsOwn DEF BatchOK
<1>4. ActOK /\ PendOK /\ FrameOK /\ AckOK /\ ScopeOK
  BY <1>1 DEF ActOK, PendOK, FrameOK, AckOK, ScopeOK
<1>5. ls \in Servers /\ ls.tab = None /\ ls.dec = None /\ ls.ctx = 0
  BY <1>1, EmptyTable DEF NewServer, Servers
<1>6. Slots = {} /\ chan \in Seq(Messages)
  BY <1>1 DEF Slots
<1>7. EncOK /\ BaseOK /\ ChanOK /\ AwaitOK
  BY <1>1, <1>6 DEF EncOK, Baselines, BaseOK, ChanOK, AwaitOK
<1>8. ServerOK /\ OwnerOK /\ NoForeignModel
  BY <1>1, <1>5 DEF ServerOK, OwnerOK, NoForeignModel
<1> QED
  BY <1>2, <1>3, <1>4, <1>7, <1>8 DEF IInv, Channel

LEMMA StutterInvariant == IInv /\ UNCHANGED vars => IInv'
<1> SUFFICES ASSUME IInv, UNCHANGED vars PROVE IInv'
  OBVIOUS
<1>1. UNCHANGED <<client, batch, pend, enc, tscope, act, chan, ls, lsn>>
  BY DEF vars, flush, pub, delivery, server
<1>2. /\ ClientOK' /\ UNCHANGED <<table, rev, first, mode, sess, ctx, gen, disposed>>
      /\ SameSession /\ sess \in Nat
  BY <1>1, ClientStays
<1>3. ActOK' /\ Carried
  BY <1>1, <1>2, SameUpdate
<1>4. BatchOK'
  BY <1>1, <1>2, BatchStays DEF IInv
<1> QED
  BY <1>1, <1>2, <1>3, <1>4, QuietStep

LEMMA StepInvariant == IInv /\ [Next]_vars => IInv'
<1> SUFFICES ASSUME IInv, [Next]_vars PROVE IInv'
  OBVIOUS
<1>1. CASE UNCHANGED vars
  BY <1>1, StutterInvariant
<1>2. CASE ServerStops \/ ContextTimesOut
  BY <1>2, ClosedInvariant DEF ServerStops, ContextTimesOut
<1>3. CASE \E l \in Label : \E r \in first + 1..rev + 1 : Reindexed(l, r)
  BY <1>3, ReindexedInvariant
<1>4. CASE \/ ContextAcknowledged
           \/ TimerFires \/ BeginCrossed \/ Begin \/ SendUpdate \/ Acknowledged \/ Dispose
           \/ BatchStarts \/ BatchEnds \/ PublishDelta
  BY <1>4, ContextAcknowledgedInvariant, TimerFiresInvariant, BeginCrossedInvariant, BeginInvariant,
     SendUpdateInvariant, AcknowledgedInvariant, DisposeInvariant, BatchStartsInvariant,
     BatchEndsInvariant, PublishDeltaInvariant
<1>5. CASE Launch \/ Initialized \/ Frame \/ StartFails \/ DaemonEnds \/ RefreshStarts \/ RootsChange
  BY <1>5, LaunchInvariant, InitializedInvariant, FrameInvariant, StartFailsInvariant,
     DaemonEndsInvariant, RefreshStartsInvariant, RootsChangeInvariant
<1>6. CASE Serve \/ ServeFails \/ UpdateTimesOut \/ ServerRuns
  BY <1>6, ServeInvariant, ServeFailsInvariant, UpdateTimesOutInvariant, ServerRunsInvariant
<1> QED
  BY <1>1, <1>2, <1>3, <1>4, <1>5, <1>6 DEF Next

\* The inductive invariant holds in every state of the delivery.
THEOREM InvariantHolds == Spec => []IInv
BY InitInvariant, StepInvariant, PTL DEF Spec

\* A server that knows the running daemon holds none of an earlier daemon's models.
THEOREM NoForeignModelHolds == Spec => []NoForeignModel
<1>1. IInv => NoForeignModel
  BY DEF IInv
<1> QED
  BY <1>1, InvariantHolds, PTL

\* No step but the server's shortens the channel.
Joins == chan' = chan \/ \E m : chan' = Append(chan, m)

LEMMA JoinsIsNoTail == ASSUME chan \in Seq(Messages), chan # <<>>, Joins PROVE chan' # Tail(chan)
<1>1. Len(chan) \in Nat \ {0} /\ Len(Tail(chan)) = Len(chan) - 1
  OBVIOUS
<1>2. ASSUME NEW m PROVE Len(Append(chan, m)) = Len(chan) + 1
  <2>1. chan \in Seq(Messages \cup {m})
    OBVIOUS
  <2> QED
    BY <2>1
<1> QED
  BY <1>1, <1>2 DEF Joins

LEMMA DeliverJoins == ASSUME NEW k, NEW a, NEW w, Deliver(k, a, w) PROVE Joins
BY DEF Deliver, Joins

LEMMA ListenersJoin == ASSUME NEW c, NEW replaced, Listeners(c, replaced) PROVE Joins
<1>1. CASE UNCHANGED chan
  BY <1>1 DEF Joins
<1>2. CASE Deliver(<<lsn, c>>, IF replaced /\ ~disposed THEN Superseded(act) ELSE act, None)
  BY <1>2, DeliverJoins
<1> QED
  BY <1>1, <1>2 DEF Listeners, PublishContext

LEMMA OthersJoin ==
  ASSUME Next, ~Serve, ~ServeFails, ~UpdateTimesOut, ~Closed
  PROVE  Joins
<1>1. CASE ContextAcknowledged \/ SendUpdate \/ ServerRuns
  BY <1>1 DEF ContextAcknowledged, SendUpdate, ServerRuns, Joins
<1>2. CASE \/ TimerFires \/ BeginCrossed \/ Acknowledged \/ Dispose \/ BatchStarts \/ BatchEnds \/ PublishDelta
           \/ \E l \in Label : \E r \in first + 1..rev + 1 : Reindexed(l, r)
  BY <1>2 DEF TimerFires, BeginCrossed, Acknowledged, Dispose, BatchStarts, BatchEnds, PublishDelta, Reindexed, Joins
<1>3. CASE Begin
  <2>1. CASE chan' = Append(chan, Request(act))
    BY <2>1 DEF Joins
  <2>2. CASE \E w : Deliver(<<lsn, ctx>>, act, w)
    BY <2>2, DeliverJoins
  <2> QED
    BY <1>3, <2>1, <2>2 DEF Begin
<1>4. CASE Launch \/ Initialized \/ Frame \/ StartFails \/ DaemonEnds \/ RefreshStarts \/ RootsChange
  BY <1>4, ListenersJoin DEF Launch, Initialized, Frame, Adopt, StartFails, DaemonEnds, RefreshStarts, RootsChange
<1>5. ~ServerStops /\ ~ContextTimesOut
  BY DEF ServerStops, ContextTimesOut
<1> QED
  BY <1>1, <1>2, <1>3, <1>4, <1>5 DEF Next

LEMMA FailuresAreCounted == Spec => [](fails \in Nat)
<1>1. Init => fails \in Nat
  BY DEF Init
<1>2. Next => fails' \in {fails, fails + 1}
  <2> SUFFICES ASSUME Next PROVE fails' \in {fails, fails + 1}
    OBVIOUS
  <2>1. CASE \/ ContextAcknowledged \/ SendUpdate \/ ServerRuns \/ TimerFires \/ BeginCrossed \/ Acknowledged
             \/ Dispose \/ BatchStarts \/ BatchEnds \/ PublishDelta \/ Begin
             \/ \E l \in Label : \E r \in first + 1..rev + 1 : Reindexed(l, r)
    BY <2>1 DEF ContextAcknowledged, SendUpdate, ServerRuns, TimerFires, BeginCrossed, Acknowledged, Dispose,
                BatchStarts, BatchEnds, PublishDelta, Begin, Reindexed
  <2>2. CASE Launch \/ Initialized \/ Frame \/ StartFails \/ DaemonEnds \/ RefreshStarts \/ RootsChange
    BY <2>2 DEF Launch, Initialized, Frame, Adopt, StartFails, DaemonEnds, RefreshStarts, RootsChange, Listeners
  <2>3. CASE Serve \/ ServeFails \/ UpdateTimesOut \/ ServerStops \/ ContextTimesOut
    BY <2>3 DEF Serve, ServeFails, UpdateTimesOut, ServerStops, ContextTimesOut
  <2> QED
    BY <2>1, <2>2, <2>3 DEF Next
<1>3. fails \in Nat /\ [Next]_vars => (fails \in Nat)'
  BY <1>2 DEF vars
<1> QED
  BY <1>1, <1>3, PTL DEF Spec

\* The server rebuilds every full update exactly as it was read from the client.
THEOREM FramesAreExactHolds == Spec => FramesAreExact
<1> DEFINE Served1 == chan # <<>> /\ chan' = Tail(chan) /\ fails' = fails /\ Head(chan).type = "full" /\ ls'.tab # None
           Exact == Served1 => \A l \in Label \ Head(chan).frame.left : ls'.tab[l] = Read(Head(chan).frame)[l]
<1>1. ASSUME IInv, fails \in Nat, Next PROVE Exact
  <2> SUFFICES ASSUME Served1 PROVE ls'.tab = Head(chan).snap /\ Gives(Head(chan))
    BY DEF Gives, Read, Frames
  <2>1. chan \in Seq(Messages) /\ Head(chan) = chan[1] /\ chan[1] \in Messages /\ 1 \in Slots
    BY <1>1, HeadIsFirst DEF IInv, Channel, ChanOK
  <2>2. CASE Serve
    <3>1. Makes(ls', chan[1])
      BY <1>1, <2>1, <2>2, EffectServes DEF Serve, IInv, ServerOK, Channel, ChanOK
    <3>2. Rebuilds(ls.dec, chan[1])
      BY <1>1, <2>1 DEF IInv, Channel, ChanOK
    <3> QED
      BY <2>1, <3>1, <3>2 DEF Makes, Rebuilds
  <2>3. CASE ServeFails \/ UpdateTimesOut
    <3>1. fails' = fails + 1
      BY <2>3 DEF ServeFails, UpdateTimesOut
    <3> QED
      BY <1>1, <3>1
  <2>4. CASE Closed
    BY <2>4 DEF Closed, NewServer
  <2> QED
    BY <1>1, <2>1, <2>2, <2>3, <2>4, OthersJoin, JoinsIsNoTail
<1>2. IInv /\ fails \in Nat /\ [Next]_vars => [Exact]_vars
  BY <1>1
<1> HIDE DEF Exact
<1>3. Spec => [][Exact]_vars
  BY <1>2, InvariantHolds, FailuresAreCounted, PTL DEF Spec
<1> QED
  BY <1>3 DEF FramesAreExact, Exact

-----------------------------------------------------------------------------
\* The invariant of the third theorem: the index of the server.

\* The update a was made for the owner that the client still is.
Ours(a) == up /\ ~disposed /\ a.scope[1] = lsn /\ a.scope[2] = sess /\ a.scope[4] = gen

\* No context is on its way to the server.
Settled == cur # None /\ cur.st = "ok"

\* What the running batch will still send.
Owed == IF mode = "ready" /\ batch.sess = sess THEN DOMAIN batch.part ELSE {}

\* The update a takes the whole table with it.
Fresh(a) == a.method # "delta" /\ ~a.again /\ Ours(a)
Agrees(idx, labels) == idx # Broken /\ \A l \in Label \ labels : idx[l] = table[l]
OnlyContexts == \A i \in Slots : chan[i].type = "ctx"

\* One context is on its way, while it is awaited; the current one has the key of
\* the server and the daemon that run.
DeliveryOK ==
  /\ cur \in Deliveries \cup {None} /\ dact \in Deliveries \cup {None}
  /\ \A i \in Slots : chan[i].type = "ctx" => chan[i].awaited /\ dact # None /\ dact.st = "sent"
  /\ \A i, j \in Slots : chan[i].type = "ctx" /\ chan[j].type = "ctx" => i = j
  /\ pend # None => dact # None /\ (up => pend[1] = lsn)
  /\ up /\ ~disposed => cur # None /\ cur.key = <<lsn, ctx>>
  /\ Settled => dact = None

ModeOK ==
  /\ mode \in {"stopped", "starting", "ready", "refreshing"} /\ up \in BOOLEAN
  /\ want \in BOOLEAN /\ torn \in BOOLEAN
  /\ mode # "ready" => table = Empty
  /\ ls.tab # None => ls.idx = ls.tab

\* What the batch collected and was not overtaken is what the client has.
FlushOK ==
  /\ batch.step = "idle" => batch.part = NoPart
  /\ \A l \in DOMAIN batch.part \ late : batch.part[l] = table[l]
  /\ batch.step # "idle" /\ batch.sess = sess /\ batch.gen = gen => mode = "ready"
  /\ batch.gen <= gen
  /\ batch.step = "waiting" => batch.scope[3]

\* An update is of the mode it was made in, and while it is under way the whole
\* table is wanted.
UpdateOK ==
  act # None =>
    /\ act.scope[1] <= lsn /\ act.scope[4] <= gen
    /\ act.method = "clear" <=> ~act.scope[3]
    /\ act.scope[3] /\ act.scope[2] = sess /\ act.scope[4] = gen => mode = "ready"
    /\ act.method # "delta" /\ ~disposed => want
    /\ act.method # "clear" /\ Ours(act) /\ (act.step \in {"resolved", "sent"} \/ act.ok) => Settled
    /\ Fresh(act) /\ act.method = "clear" => mode # "ready"

\* The table t is the client's, but for what the batch collected since.
Meant(t) == \A l \in Label : t[l] = table[l] \/ (l \in Owed /\ batch.step # "sent")

\* So is the table it took, and the one it was encoded from as a delta; what a delta
\* gave the server is, if it left nothing out.
Delta(a) == a.frame # None /\ a.frame.kind = "delta"
Gone(a) == a.step \in {"sent", "answered"}
TakenOK ==
  act # None /\ Fresh(act) =>
    /\ (torn /\ Delta(act) /\ Gone(act)) \/ Meant(act.snap)
    /\ Delta(act) => Meant(act.frame.keep)

\* Once it is applied, the server has it.
AppliedOK ==
  act # None /\ act.ok /\ Ours(act) =>
    /\ OnlyContexts
    /\ act.method = "full" => ls.idx = act.snap
    /\ act.method = "clear" => ls.tab = None /\ ls.idx = Empty

\* A delta brings what the server lacks.
DeltaOK ==
  act # None /\ act.method = "delta" /\ Ours(act) /\ ~want /\ ~torn =>
    /\ batch.step = "sent" /\ act.part = batch.part /\ late = {} /\ Settled
    /\ act.step # "answered" =>
         /\ \A i \in Slots : chan[i].type # "ctx" => chan[i].awaited
         /\ Agrees(ls.idx, DOMAIN act.part)
    /\ act.ok => Agrees(ls.idx, {})

\* With no update wanted or under way, the server has what the client has.
ServedOK ==
  up /\ ~disposed /\ ~want /\ act = None /\ ~torn =>
    /\ OnlyContexts
    /\ Agrees(ls.idx, Owed)
    /\ mode = "ready" => Settled

QInv == DeliveryOK /\ ModeOK /\ FlushOK /\ UpdateOK /\ TakenOK /\ AppliedOK /\ DeltaOK /\ ServedOK

-----------------------------------------------------------------------------
\* The context on its way.

\* What a message more makes of the slots.
LEMMA SlotsGrow ==
  ASSUME chan \in Seq(Messages), NEW m \in Messages, chan' = Append(chan, m)
  PROVE  /\ \A i \in Slots : i \in Slots' /\ chan'[i] = chan[i]
         /\ \A i \in Slots' : i \in Slots \/ (i = Len(chan) + 1 /\ chan'[i] = m)
         /\ Len(chan) + 1 \in Slots' /\ Len(chan) + 1 \notin Slots
<1>1. /\ Len(chan') = Len(chan) + 1 /\ Len(chan) \in Nat
      /\ \A i \in 1..Len(chan) : chan'[i] = chan[i]
      /\ chan'[Len(chan) + 1] = m
  BY Appended
<1> QED
  BY <1>1 DEF Slots

\* A context message is a message, and its answer is awaited.
LEMMA ContextMessages ==
  ASSUME NEW k \in Nat \X Nat
  PROVE  ContextMessage(k) \in Messages /\ ContextMessage(k).type = "ctx" /\ ContextMessage(k).awaited = TRUE
BY DEF ContextMessage, Messages, Contexts

\* A context joins a channel without one.
LEMMA ContextSent ==
  ASSUME chan \in Seq(Messages), NEW k \in Nat \X Nat, chan' = Append(chan, ContextMessage(k)),
         \A i \in Slots : chan[i].type # "ctx", dact' # None, dact'.st = "sent"
  PROVE  /\ \A i \in Slots' : chan'[i].type = "ctx" => chan'[i].awaited /\ dact' # None /\ dact'.st = "sent"
         /\ \A i, j \in Slots' : chan'[i].type = "ctx" /\ chan'[j].type = "ctx" => i = j
<1>1. ContextMessage(k) \in Messages /\ ContextMessage(k).awaited = TRUE
  BY ContextMessages
<1>2. \A i \in Slots' : chan'[i].type = "ctx" => i = Len(chan) + 1 /\ chan'[i].awaited
  BY <1>1, SlotsGrow
<1> QED
  BY <1>2

\* A delivery is not the absence of one.
LEMMA DeliveryIsOne ==
  ASSUME NEW k \in Nat \X Nat, NEW s \in {"wait", "ok", "sent", "answered"}
  PROVE  LET d == [key |-> k, st |-> s] IN d \in Deliveries /\ d # None /\ d.key = k /\ d.st = s
BY NoneIsNoOther DEF Deliveries

\* The context k of the running server is delivered.
LEMMA DeliveredOnce ==
  ASSUME DeliveryOK, chan \in Seq(Messages), NEW k \in Nat \X Nat, k = <<lsn', ctx'>>,
         NEW a, NEW waiter, Deliver(k, a, waiter), up, ~disposed, UNCHANGED <<up, lsn, disposed>>
  PROVE  /\ DeliveryOK'
         /\ cur # None /\ cur.key = k => UNCHANGED <<cur, pend, dact, chan>>
         /\ ~(cur # None /\ cur.key = k) => ~Settled'
<1>1. k[1] = lsn'
  OBVIOUS
<1>2. CASE cur # None /\ cur.key = k
  <2>1. UNCHANGED <<cur, pend, dact, chan>>
    BY <1>2 DEF Deliver, delivery
  <2> QED
    BY <1>2, <2>1 DEF DeliveryOK, Settled, Slots
<1>3. CASE ~(cur # None /\ cur.key = k)
  <2>1. cur' = [key |-> k, st |-> "wait"]
    BY <1>3 DEF Deliver
  <2>2. cur' \in Deliveries /\ cur' # None /\ cur'.key = k /\ cur'.st = "wait"
    BY <2>1, DeliveryIsOne
  <2>3. ~Settled'
    BY <2>2 DEF Settled
  <2>4. up' /\ ~disposed' => cur' # None /\ cur'.key = <<lsn', ctx'>>
    BY <2>2
  <2>5. CASE dact = None
    <3>1. dact' = [key |-> k, st |-> "sent"] /\ UNCHANGED pend /\ chan' = Append(chan, ContextMessage(k))
      BY <1>3, <2>5 DEF Deliver
    <3>2. dact' \in Deliveries /\ dact' # None /\ dact'.st = "sent"
      BY <3>1, DeliveryIsOne
    <3>3. pend' = None
      BY <2>5, <3>1 DEF DeliveryOK
    <3>4. \A i \in Slots : chan[i].type # "ctx"
      BY <2>5 DEF DeliveryOK
    <3>5. /\ \A i \in Slots' : chan'[i].type = "ctx" => chan'[i].awaited /\ dact' # None /\ dact'.st = "sent"
          /\ \A i, j \in Slots' : chan'[i].type = "ctx" /\ chan'[j].type = "ctx" => i = j
      BY <3>1, <3>2, <3>4, ContextSent
    <3>6. DeliveryOK'
      BY <2>2, <2>3, <2>4, <3>2, <3>3, <3>5 DEF DeliveryOK
    <3> QED
      BY <1>3, <2>3, <3>6
  <2>6. CASE dact # None
    <3>1. pend' = k /\ UNCHANGED <<dact, chan>>
      BY <1>3, <2>6 DEF Deliver
    <3>2. pend' # None => dact' # None /\ (up' => pend'[1] = lsn')
      BY <1>1, <2>6, <3>1
    <3>3. /\ \A i \in Slots' : chan'[i].type = "ctx" => chan'[i].awaited /\ dact' # None /\ dact'.st = "sent"
          /\ \A i, j \in Slots' : chan'[i].type = "ctx" /\ chan'[j].type = "ctx" => i = j
      BY <3>1 DEF DeliveryOK, Slots
    <3>4. DeliveryOK'
      BY <2>2, <2>3, <2>4, <3>1, <3>2, <3>3 DEF DeliveryOK
    <3> QED
      BY <1>3, <2>3, <3>4
  <2> QED
    BY <1>3, <2>5, <2>6
<1> QED
  BY <1>2, <1>3

-----------------------------------------------------------------------------
\* The events of the daemon.

\* The update stays what it is, and is not sent by this step.
Continues ==
  /\ act' = None <=> act = None
  /\ act # None =>
       /\ act'.method = act.method /\ act'.scope = act.scope /\ act'.snap = act.snap
       /\ act'.part = act.part /\ act'.ok = act.ok /\ act'.frame = act.frame
       /\ Gone(act) => Gone(act)'
       /\ ~act'.again => ~act.again
       /\ act'.step \in {"resolved", "sent"} => act'.step = act.step
       /\ act'.step # "answered" => act.step # "answered"

\* An update of the present owner was one before the step: no session or
\* generation comes back.
LEMMA OursBefore ==
  ASSUME ClientOK, ActOK, UpdateOK, act # None, act'.scope = act.scope, Ours(act)',
         UNCHANGED <<up, lsn, disposed>>, sess' \in Nat, sess <= sess', gen' \in Nat, gen <= gen'
  PROVE  Ours(act) /\ UNCHANGED <<sess, gen>>
<1>1. act.scope \in Scopes /\ act.scope[2] <= sess /\ act.scope[4] <= gen
  BY DEF ActOK, UpdateOK
<1>2. act.scope[2] \in Nat /\ act.scope[4] \in Nat /\ sess \in Nat /\ gen \in Nat
  BY <1>1 DEF Scopes, ClientOK
<1>3. up /\ ~disposed /\ act.scope[1] = lsn /\ act.scope[2] = sess' /\ act.scope[4] = gen'
  BY DEF Ours
<1>4. sess' = sess /\ gen' = gen
  BY <1>1, <1>2, <1>3
<1> QED
  BY <1>3, <1>4 DEF Ours

\* What the listeners of a state event make of the update and of the request.
LEMMA Listens ==
  ASSUME ActOK, NEW c, NEW replaced \in BOOLEAN, Listeners(c, replaced)
  PROVE  /\ Continues
         /\ replaced /\ ~disposed /\ act # None => act'.again
         /\ want \in BOOLEAN => want' \in BOOLEAN
         /\ want => want'
         /\ ~disposed /\ replaced => want'
<1> DEFINE a == IF replaced /\ ~disposed THEN Superseded(act) ELSE act
<1>1. PublishContext(c, a)
  BY DEF Listeners
<1>2. IF replaced THEN RequestFull ELSE UNCHANGED <<want, timer>>
  BY DEF Listeners
<1>3. act' = a \/ act' = Rejected(a)
  BY <1>1 DEF PublishContext, Deliver
<1>4. CASE act = None
  <2>1. a = None
    BY <1>4 DEF Superseded
  <2>2. act' = None
    BY <1>3, <2>1 DEF Rejected
  <2> QED
    BY <1>2, <1>4, <2>2 DEF Continues, RequestFull
<1>5. CASE act # None
  <2>1. act \in Updates
    BY <1>5 DEF ActOK
  <2>2. /\ a \in Updates /\ a.method = act.method /\ a.scope = act.scope /\ a.snap = act.snap
        /\ a.part = act.part /\ a.ok = act.ok /\ a.frame = act.frame /\ a.step = act.step
        /\ ~a.again => ~act.again
        /\ replaced /\ ~disposed => a.again
    BY <1>5, <2>1 DEF Updates, Superseded
  <2>3. a # None
    BY <2>2, NoneIsNoUpdate
  <2> HIDE DEF a
  <2>4. a.step = "context" =>
          LET b == [a EXCEPT !.step = "answered"] IN
          /\ b \in Updates /\ b.step = "answered" /\ b.method = a.method /\ b.scope = a.scope /\ b.snap = a.snap
          /\ b.part = a.part /\ b.ok = a.ok /\ b.frame = a.frame
    BY <2>2, Moved
  <2>5. a.step = "context" => [a EXCEPT !.step = "answered"].again = a.again
    BY <2>2 DEF Updates
  <2>6. act' = a \/ (a.step = "context" /\ act' = [a EXCEPT !.step = "answered"])
    BY <1>3, <2>3 DEF Rejected
  <2>7. /\ act' \in Updates /\ act'.method = act.method /\ act'.scope = act.scope /\ act'.snap = act.snap
        /\ act'.part = act.part /\ act'.ok = act.ok /\ act'.frame = act.frame /\ (~act'.again => ~act.again)
        /\ replaced /\ ~disposed => act'.again
        /\ act'.step \in {"resolved", "sent"} => act'.step = act.step
        /\ act'.step # "answered" => act.step # "answered"
        /\ Gone(act) => Gone(act)'
    <3>1. CASE act' = a
      BY <2>2, <3>1 DEF Gone
    <3>2. CASE a.step = "context" /\ act' = [a EXCEPT !.step = "answered"]
      BY <2>2, <2>4, <2>5, <3>2 DEF Gone
    <3> QED
      BY <2>6, <3>1, <3>2
  <2>8. act' # None
    BY <2>7, NoneIsNoUpdate
  <2> QED
    BY <1>2, <1>5, <2>7, <2>8 DEF Continues, RequestFull
<1> QED
  BY <1>4, <1>5

\* A context changes nothing else on the channel.
LEMMA ContextsOnly ==
  ASSUME Grown
  PROVE  /\ OnlyContexts => OnlyContexts'
         /\ (\A i \in Slots : chan[i].type # "ctx" => chan[i].awaited)
              => (\A i \in Slots' : chan'[i].type # "ctx" => chan'[i].awaited)
BY DEF Grown, OnlyContexts

\* What every event of the daemon keeps: it publishes its context and asks for the
\* table if it replaces it.
LEMMA EventQuiet ==
  ASSUME IInv, QInv, NEW c \in Nat, NEW replaced \in BOOLEAN, Listeners(c, replaced), UNCHANGED disposed, ctx' = c,
         c <= sess', sess' \in Nat, sess <= sess', gen' \in Nat, gen <= gen',
         ~replaced => /\ UNCHANGED <<table, late>>
                      /\ mode = "ready" => UNCHANGED <<mode, sess, ctx>>
                      /\ mode' = "ready" => mode = "ready",
         mode = "ready" /\ UNCHANGED <<sess, gen>> => mode' = "ready" /\ ctx' = ctx,
         mode' \in {"stopped", "starting", "ready", "refreshing"}, mode' # "ready" => table' = Empty,
         \A l \in DOMAIN batch.part \ late' : l \notin late /\ table'[l] = table[l]
  PROVE  QInv'
<1> USE DEF QInv
<1>1. UNCHANGED <<batch, torn, up, lsn, ls, disposed>>
  BY DEF Listeners, server
<1>2. /\ sess \in Nat /\ gen \in Nat /\ chan \in Seq(Messages) /\ ActOK /\ ClientOK /\ PendOK /\ lsn \in Nat
      /\ want \in BOOLEAN
  BY DEF IInv, ClientOK, Channel, ChanOK, ModeOK
<1>3. Grown
  BY <1>2, Listened
<1>4. /\ Continues
      /\ replaced /\ ~disposed /\ act # None => act'.again
      /\ want' \in BOOLEAN
      /\ want => want'
      /\ ~disposed /\ replaced => want'
  BY <1>2, Listens
<1>5. ASSUME act # None, Ours(act)' PROVE Ours(act) /\ UNCHANGED <<sess, gen>>
  <2>1. act'.scope = act.scope
    BY <1>4, <1>5 DEF Continues
  <2> QED
    BY <1>1, <1>2, <1>5, <2>1, OursBefore
<1>6. DeliveryOK' /\ (up /\ ~disposed /\ ctx' = ctx => UNCHANGED <<cur, dact>>)
  <2>1. CASE up /\ ~disposed
    <3> DEFINE a == IF replaced /\ ~disposed THEN Superseded(act) ELSE act
    <3>1. Deliver(<<lsn, c>>, a, None)
      BY <2>1 DEF Listeners, PublishContext
    <3>2. <<lsn, c>> \in Nat \X Nat /\ <<lsn, c>> = <<lsn', ctx'>>
      BY <1>1, <1>2
    <3>3. /\ DeliveryOK'
          /\ cur # None /\ cur.key = <<lsn, c>> => UNCHANGED <<cur, pend, dact, chan>>
      BY <1>1, <1>2, <2>1, <3>1, <3>2, DeliveredOnce
    <3> QED
      BY <2>1, <3>3 DEF DeliveryOK
  <2>2. CASE ~(up /\ ~disposed)
    <3>1. UNCHANGED <<cur, pend, dact, chan>>
      BY <2>2 DEF Listeners, PublishContext, delivery
    <3> QED
      BY <1>1, <2>2, <3>1 DEF DeliveryOK, Slots, Settled
  <2> QED
    BY <2>1, <2>2
<1>7. ModeOK'
  BY <1>1, <1>4 DEF ModeOK
<1>8. FlushOK'
  <2>1. batch.sess \in Nat /\ batch.gen \in Nat /\ batch.sess <= sess /\ batch.gen <= gen
    BY DEF IInv, BatchOK, Batches, FlushOK
  <2>2. batch.step # "idle" /\ batch.sess = sess' /\ batch.gen = gen' => mode' = "ready"
    <3> SUFFICES ASSUME batch.step # "idle", batch.sess = sess', batch.gen = gen' PROVE mode' = "ready"
      OBVIOUS
    <3>1. sess' = sess /\ gen' = gen
      BY <1>2, <2>1
    <3> QED
      BY <3>1 DEF FlushOK
  <2>3. batch.gen <= gen'
    BY <1>2, <2>1
  <2>4. \A l \in DOMAIN batch.part \ late' : batch.part[l] = table'[l]
    BY DEF FlushOK
  <2> QED
    BY <1>1, <2>2, <2>3, <2>4 DEF FlushOK
<1>9. UpdateOK'
  <2> SUFFICES ASSUME act' # None PROVE UpdateOK'
    BY DEF UpdateOK
  <2>1. /\ act # None /\ act'.method = act.method /\ act'.scope = act.scope /\ act'.ok = act.ok
        /\ act'.step \in {"resolved", "sent"} => act'.step = act.step
        /\ ~act'.again => ~act.again
    BY <1>4 DEF Continues
  <2>2. /\ act.scope \in Scopes /\ act.scope[2] \in Nat /\ act.scope[4] \in Nat
        /\ act.scope[2] <= sess /\ act.scope[4] <= gen
    BY <2>1 DEF IInv, ActOK, UpdateOK, Scopes
  <2>3. act'.scope[1] <= lsn' /\ act'.scope[4] <= gen' /\ (act'.method = "clear" <=> ~act'.scope[3])
    BY <1>1, <1>2, <2>1, <2>2 DEF UpdateOK
  <2>4. act'.scope[3] /\ act'.scope[2] = sess' /\ act'.scope[4] = gen' => mode' = "ready"
    <3> SUFFICES ASSUME act.scope[3], act.scope[2] = sess', act.scope[4] = gen' PROVE mode' = "ready"
      BY <2>1
    <3>1. sess' = sess /\ gen' = gen
      BY <1>2, <2>2
    <3> QED
      BY <2>1, <3>1 DEF UpdateOK
  <2>5. act'.method # "delta" /\ ~disposed' => want'
    BY <1>1, <1>4, <2>1 DEF UpdateOK
  <2>6. act'.method # "clear" /\ Ours(act)' /\ (act'.step \in {"resolved", "sent"} \/ act'.ok) => Settled'
    <3> SUFFICES ASSUME act'.method # "clear", Ours(act)', act'.step \in {"resolved", "sent"} \/ act'.ok
                 PROVE  Settled'
      OBVIOUS
    <3>1. Ours(act) /\ UNCHANGED <<sess, gen>>
      BY <1>5, <2>1
    <3>2. Settled
      BY <2>1, <3>1 DEF UpdateOK
    <3>3. mode = "ready"
      BY <2>1, <3>1 DEF UpdateOK, Ours
    <3>4. ctx' = ctx /\ up /\ ~disposed
      BY <3>1, <3>3 DEF Ours
    <3> QED
      BY <1>6, <3>2, <3>4 DEF Settled
  <2>7. Fresh(act)' /\ act'.method = "clear" => mode' # "ready"
    <3> SUFFICES ASSUME Fresh(act)', act'.method = "clear", mode' = "ready" PROVE FALSE
      OBVIOUS
    <3>1. ~act'.again /\ Ours(act)' /\ ~disposed
      BY <1>1 DEF Fresh, Ours
    <3>2. ~replaced /\ Ours(act)
      BY <1>4, <1>5, <2>1, <3>1
    <3> QED
      BY <2>1, <3>1, <3>2 DEF UpdateOK, Fresh
  <2> QED
    BY <2>3, <2>4, <2>5, <2>6, <2>7 DEF UpdateOK
<1>10. TakenOK'
  <2> SUFFICES ASSUME act' # None, Fresh(act)'
               PROVE  /\ (torn' /\ Delta(act)' /\ Gone(act)') \/ Meant(act.snap)'
                      /\ Delta(act)' => Meant(act.frame.keep)'
    BY DEF TakenOK
  <2>1. /\ act # None /\ act'.method = act.method /\ act'.snap = act.snap /\ act'.frame = act.frame
        /\ (~act'.again => ~act.again) /\ (Gone(act) => Gone(act)')
    BY <1>4 DEF Continues
  <2>2. ~act'.again /\ Ours(act)' /\ ~disposed /\ act'.method # "delta"
    BY <1>1 DEF Fresh, Ours
  <2>3. ~replaced /\ Ours(act) /\ UNCHANGED <<sess, gen>>
    BY <1>4, <1>5, <2>1, <2>2
  <2>4. /\ (torn /\ Delta(act) /\ Gone(act)) \/ Meant(act.snap)
        /\ Delta(act) => Meant(act.frame.keep)
    BY <1>1, <2>1, <2>2, <2>3 DEF TakenOK, Fresh
  <2>5. UNCHANGED <<table, batch>> /\ Owed \subseteq Owed'
    BY <1>1, <2>3 DEF Owed
  <2> QED
    BY <1>1, <2>1, <2>4, <2>5 DEF Meant, Delta
<1>11. AppliedOK'
  <2> SUFFICES ASSUME act' # None, act'.ok, Ours(act)' PROVE AppliedOK'
    BY DEF AppliedOK
  <2>1. act # None /\ act'.method = act.method /\ act'.snap = act.snap /\ act.ok
    BY <1>4 DEF Continues
  <2>2. Ours(act)
    BY <1>5, <2>1
  <2> QED
    BY <1>1, <1>3, <2>1, <2>2, ContextsOnly DEF AppliedOK
<1>12. DeltaOK'
  <2> SUFFICES ASSUME act' # None, act'.method = "delta", Ours(act)', ~want', ~torn' PROVE DeltaOK'
    BY DEF DeltaOK
  <2>1. /\ act # None /\ act'.method = act.method /\ act'.part = act.part /\ act'.ok = act.ok
        /\ act'.step # "answered" => act.step # "answered"
    BY <1>4 DEF Continues
  <2>2. Ours(act) /\ ~disposed
    BY <1>1, <1>5, <2>1 DEF Ours
  <2>3. ~want /\ ~replaced /\ ~torn
    BY <1>1, <1>4, <2>2
  <2>4. UNCHANGED <<table, late, ls, batch>>
    BY <1>1, <2>3
  <2>5. /\ batch.step = "sent" /\ act.part = batch.part /\ late = {} /\ Settled
        /\ act.step # "answered" =>
             /\ \A i \in Slots : chan[i].type # "ctx" => chan[i].awaited
             /\ Agrees(ls.idx, DOMAIN act.part)
        /\ act.ok => Agrees(ls.idx, {})
    BY <2>1, <2>2, <2>3 DEF DeltaOK
  <2>6. Settled'
    <3>1. UNCHANGED <<sess, gen>> /\ mode = "ready"
      BY <1>5, <2>1, <2>2 DEF UpdateOK, Ours
    <3>2. up /\ ~disposed /\ ctx' = ctx
      BY <2>2, <3>1 DEF Ours
    <3> QED
      BY <1>6, <2>5, <3>2 DEF Settled
  <2>7. /\ Agrees(ls.idx, DOMAIN act.part) => Agrees(ls.idx, DOMAIN act.part)'
        /\ Agrees(ls.idx, {}) => Agrees(ls.idx, {})'
    BY <2>1, <2>4 DEF Agrees
  <2> QED
    BY <1>3, <2>1, <2>4, <2>5, <2>7, <2>6, ContextsOnly DEF DeltaOK
<1>13. ServedOK'
  <2> SUFFICES ASSUME up', ~disposed', ~want', act' = None, ~torn' PROVE ServedOK'
    BY DEF ServedOK
  <2>1. up /\ ~disposed /\ ~want /\ act = None /\ ~torn /\ ~replaced
    BY <1>1, <1>4 DEF Continues
  <2>2. OnlyContexts /\ Agrees(ls.idx, Owed) /\ (mode = "ready" => Settled)
    BY <2>1 DEF ServedOK
  <2>3. Owed \subseteq Owed'
    BY <1>1, <2>1 DEF Owed
  <2>4. Agrees(ls.idx, Owed)'
    BY <1>1, <2>1, <2>2, <2>3 DEF Agrees
  <2>5. mode' = "ready" => Settled'
    BY <1>6, <2>1, <2>2 DEF Settled
  <2> QED
    BY <1>3, <2>2, <2>4, <2>5, ContextsOnly DEF ServedOK
<1> QED
  BY <1>6, <1>7, <1>8, <1>9, <1>10, <1>11, <1>12, <1>13

\* A label that was not overtaken is still the client's.
LEMMA Overtaken ==
  ASSUME BatchOK, Overtake(Changed(table, table')), NEW l \in DOMAIN batch.part \ late'
  PROVE  l \notin late /\ table'[l] = table[l]
<1>1. batch.part \in Parts
  BY DEF BatchOK, Batches
<1>2. DOMAIN batch.part \subseteq Label
  BY <1>1 DEF Parts
<1> QED
  BY <1>2 DEF Overtake, Changed

\* A table that stays overtakes nothing.
LEMMA NothingOvertaken == ASSUME table' = table, Overtake(Changed(table, table')) PROVE late' = late
BY DEF Overtake, Changed

\* The launch of a daemon changes no table: the client's is empty.
LEMMA LaunchQuiet == ASSUME IInv, QInv, Launch PROVE QInv'
<1>1. /\ mode = "stopped" /\ Listeners(sess + 1, FALSE)
      /\ UNCHANGED <<table, gen, disposed, late>> /\ mode' = "starting" /\ sess' = sess + 1 /\ ctx' = sess + 1
  BY DEF Launch, Replaced
<1>2. sess \in Nat /\ gen \in Nat /\ table = Empty
  BY <1>1 DEF IInv, ClientOK, QInv, ModeOK
<1>3. sess + 1 \in Nat /\ sess + 1 <= sess' /\ sess <= sess' /\ gen <= gen'
  BY <1>1, <1>2
<1> QED
  BY <1>1, <1>2, <1>3, EventQuiet

\* A complete table that is adopted is asked for.
LEMMA AdoptQuiet == ASSUME IInv, QInv, NEW t, Adopt(t, gen) PROVE QInv'
<1>1. /\ Listeners(ctx, TRUE) /\ Overtake(Changed(table, table'))
      /\ UNCHANGED <<sess, ctx, gen, disposed>> /\ mode' = "ready"
  BY DEF Adopt, Replaced
<1>2. sess \in Nat /\ gen \in Nat /\ ctx \in Nat /\ ctx <= sess /\ BatchOK
  BY DEF IInv, ClientOK
<1>3. \A l \in DOMAIN batch.part \ late' : l \notin late /\ table'[l] = table[l]
  BY <1>1, <1>2, Overtaken
<1>4. ctx <= sess' /\ sess' \in Nat /\ sess <= sess' /\ gen' \in Nat /\ gen <= gen' /\ ctx' = ctx
  BY <1>1, <1>2, <1>3
<1> QED
  BY <1>1, <1>2, <1>3, <1>4, EventQuiet

\* The table of a start or of a refresh is adopted.
LEMMA InitializedQuiet == ASSUME IInv, QInv, Initialized PROVE QInv'
BY AdoptQuiet DEF Initialized

\* The table of a frame is adopted.
LEMMA FrameQuiet == ASSUME IInv, QInv, Frame PROVE QInv'
BY AdoptQuiet DEF Frame

\* A start that fails leaves the empty table.
LEMMA StartFailsQuiet == ASSUME IInv, QInv, StartFails PROVE QInv'
<1>1. PICK c \in {0, ctx} : Replaced(table, "stopped", sess, c, gen) /\ Listeners(c, FALSE)
  BY DEF StartFails
<1>2. /\ mode = "starting" /\ UNCHANGED <<table, gen, sess, disposed, late>> /\ mode' = "stopped" /\ ctx' = c
  BY <1>1 DEF StartFails, Replaced
<1>3. sess \in Nat /\ gen \in Nat /\ table = Empty /\ c \in Nat /\ c <= sess
  BY <1>2 DEF IInv, ClientOK, QInv, ModeOK
<1>4. c <= sess' /\ c \in Nat /\ sess' \in Nat /\ sess <= sess' /\ gen' \in Nat /\ gen <= gen' /\ table' = Empty
  BY <1>1, <1>2, <1>3
<1> QED
  BY <1>1, <1>2, <1>3, <1>4, EventQuiet

\* The daemon that ends retires its table; after a refresh began it has none.
LEMMA DaemonEndsQuiet == ASSUME IInv, QInv, DaemonEnds PROVE QInv'
<1>1. /\ mode \in {"ready", "refreshing"} /\ Listeners(0, mode = "ready") /\ Overtake(Changed(table, table'))
      /\ UNCHANGED <<gen, disposed>> /\ table' = Empty /\ mode' = "stopped" /\ sess' = sess + 1 /\ ctx' = 0
  BY DEF DaemonEnds, Replaced
<1>2. sess \in Nat /\ gen \in Nat /\ BatchOK /\ (mode # "ready" => table = Empty)
  BY DEF IInv, ClientOK, QInv, ModeOK
<1>3. \A l \in DOMAIN batch.part \ late' : l \notin late /\ table'[l] = table[l]
  BY <1>1, <1>2, Overtaken
<1>4. mode # "ready" => UNCHANGED <<table, late>>
  BY <1>1, <1>2, NothingOvertaken
<1>5. 0 \in Nat /\ sess' \in Nat /\ 0 <= sess' /\ sess <= sess' /\ sess' # sess /\ gen <= gen'
  BY <1>1, <1>2
<1>6. CASE mode = "ready"
  <2>1. Listeners(0, TRUE)
    BY <1>1, <1>6
  <2> QED
    BY <1>1, <1>2, <1>3, <1>5, <1>6, <2>1, EventQuiet
<1>7. CASE mode = "refreshing"
  <2>1. Listeners(0, FALSE)
    BY <1>1, <1>7
  <2> QED
    BY <1>1, <1>2, <1>3, <1>4, <1>5, <1>7, <2>1, EventQuiet
<1> QED
  BY <1>1, <1>6, <1>7

\* A refresh retires the table until the new one is adopted.
LEMMA RefreshStartsQuiet == ASSUME IInv, QInv, RefreshStarts PROVE QInv'
<1>1. /\ Listeners(ctx, TRUE) /\ Overtake(Changed(table, table'))
      /\ UNCHANGED <<sess, ctx, disposed>> /\ table' = Empty /\ mode' = "refreshing" /\ gen' = gen + 1
  BY DEF RefreshStarts, Replaced
<1>2. sess \in Nat /\ gen \in Nat /\ ctx \in Nat /\ ctx <= sess /\ BatchOK
  BY DEF IInv, ClientOK
<1>3. \A l \in DOMAIN batch.part \ late' : l \notin late /\ table'[l] = table[l]
  BY <1>1, <1>2, Overtaken
<1>4. gen' \in Nat /\ gen <= gen' /\ gen' # gen
  BY <1>1, <1>2
<1>5. ctx <= sess' /\ sess' \in Nat /\ sess <= sess' /\ ctx' = ctx
  BY <1>1, <1>2, <1>3, <1>4
<1> QED
  BY <1>1, <1>2, <1>3, <1>4, <1>5, EventQuiet

\* Other roots give the updates under way a generation of the past.
LEMMA RootsChangeQuiet == ASSUME IInv, QInv, RootsChange PROVE QInv'
<1>1. /\ mode = "ready" /\ Listeners(ctx, FALSE)
      /\ UNCHANGED <<table, mode, sess, ctx, disposed, late>> /\ gen' = gen + 1
  BY DEF RootsChange, Replaced
<1>2. sess \in Nat /\ gen \in Nat /\ ctx \in Nat /\ ctx <= sess
  BY DEF IInv, ClientOK
<1>3. gen' \in Nat /\ gen <= gen' /\ gen' # gen
  BY <1>1, <1>2
<1>4. ctx <= sess' /\ sess' \in Nat /\ sess <= sess' /\ ctx' = ctx
  BY <1>1, <1>2, <1>3
<1> QED
  BY <1>1, <1>2, <1>3, <1>4, EventQuiet

-----------------------------------------------------------------------------
\* The context is delivered, and the update goes on.

\* The update stays what it is, and waits for its context no longer if that is settled.
Proceeds ==
  /\ act' = None <=> act = None
  /\ act # None =>
       /\ act'.method = act.method /\ act'.scope = act.scope /\ act'.snap = act.snap
       /\ act'.part = act.part /\ act'.ok = act.ok
       /\ act'.frame = act.frame \/ (~Gone(act) /\ (Delta(act)' => act'.frame.keep = act.snap))
       /\ Gone(act) => Gone(act)'
       /\ ~act'.again => ~act.again
       /\ act'.step = "resolved" /\ up /\ ~disposed => act.step = "resolved" \/ Settled'
       /\ act'.step = "sent" => act.step = "sent"
       /\ act'.step # "answered" => act.step # "answered"

\* What every step keeps that only moves the update and the context.
LEMMA ProceedsQuiet ==
  ASSUME IInv, QInv, UNCHANGED <<client, batch, late, torn, want, up, lsn, ls>>, Grown, Proceeds, DeliveryOK',
         Settled /\ up /\ ~disposed => Settled'
  PROVE  QInv'
<1> USE DEF QInv
<1>1. UNCHANGED <<table, mode, sess, ctx, gen, disposed>>
  BY DEF client
<1>2. ModeOK'
  BY <1>1 DEF ModeOK
<1>3. FlushOK'
  BY <1>1 DEF FlushOK
<1>4. /\ act # None => (Ours(act)' <=> Ours(act))
      /\ Owed' = Owed
  BY <1>1 DEF Ours, Owed, Proceeds
<1>5. UpdateOK'
  <2> SUFFICES ASSUME act' # None PROVE UpdateOK'
    BY DEF UpdateOK
  <2>1. act # None /\ act'.method = act.method /\ act'.scope = act.scope /\ act'.ok = act.ok
        /\ (~act'.again => ~act.again)
    BY DEF Proceeds
  <2>2. act'.scope[1] <= lsn' /\ act'.scope[4] <= gen' /\ (act'.method = "clear" <=> ~act'.scope[3])
    BY <1>1, <2>1 DEF UpdateOK
  <2>3. act'.scope[3] /\ act'.scope[2] = sess' /\ act'.scope[4] = gen' => mode' = "ready"
    BY <1>1, <2>1 DEF UpdateOK
  <2>4. act'.method # "delta" /\ ~disposed' => want'
    BY <1>1, <2>1 DEF UpdateOK
  <2>5. act'.method # "clear" /\ Ours(act)' /\ (act'.step \in {"resolved", "sent"} \/ act'.ok) => Settled'
    BY <1>4, <2>1 DEF UpdateOK, Proceeds, Ours
  <2>6. Fresh(act)' /\ act'.method = "clear" => mode' # "ready"
    BY <1>1, <1>4, <2>1 DEF UpdateOK, Fresh
  <2> QED
    BY <2>2, <2>3, <2>4, <2>5, <2>6 DEF UpdateOK
<1>6. TakenOK'
  <2> SUFFICES ASSUME act' # None, Fresh(act)'
               PROVE  /\ (torn' /\ Delta(act)' /\ Gone(act)') \/ Meant(act.snap)'
                      /\ Delta(act)' => Meant(act.frame.keep)'
    BY DEF TakenOK
  <2>1. /\ act # None /\ act'.snap = act.snap /\ Fresh(act) /\ (Gone(act) => Gone(act)')
        /\ act'.frame = act.frame \/ (~Gone(act) /\ (Delta(act)' => act'.frame.keep = act.snap))
    BY <1>4 DEF Proceeds, Fresh
  <2>2. /\ (torn /\ Delta(act) /\ Gone(act)) \/ Meant(act.snap)
        /\ Delta(act) => Meant(act.frame.keep)
    BY <2>1 DEF TakenOK
  <2> QED
    BY <1>1, <1>4, <2>1, <2>2 DEF Meant, Delta
<1>7. AppliedOK'
  <2> SUFFICES ASSUME act' # None, act'.ok, Ours(act)' PROVE AppliedOK'
    BY DEF AppliedOK
  <2>1. act # None /\ act'.method = act.method /\ act'.snap = act.snap /\ act.ok /\ Ours(act)
    BY <1>4 DEF Proceeds
  <2> QED
    BY <2>1, ContextsOnly DEF AppliedOK
<1>8. DeltaOK'
  <2> SUFFICES ASSUME act' # None, act'.method = "delta", Ours(act)', ~want', ~torn' PROVE DeltaOK'
    BY DEF DeltaOK
  <2>1. /\ act # None /\ act'.method = act.method /\ act'.part = act.part /\ act'.ok = act.ok
        /\ act'.step # "answered" => act.step # "answered"
    BY DEF Proceeds
  <2>2. /\ batch.step = "sent" /\ act.part = batch.part /\ late = {} /\ Settled
        /\ act.step # "answered" =>
             /\ \A i \in Slots : chan[i].type # "ctx" => chan[i].awaited
             /\ Agrees(ls.idx, DOMAIN act.part)
        /\ act.ok => Agrees(ls.idx, {})
    BY <1>4, <2>1 DEF DeltaOK
  <2>3. /\ Agrees(ls.idx, DOMAIN act.part) => Agrees(ls.idx, DOMAIN act.part)'
        /\ Agrees(ls.idx, {}) => Agrees(ls.idx, {})'
    BY <1>1, <2>1 DEF Agrees
  <2>4. Settled'
    BY <1>4, <2>1, <2>2 DEF Ours
  <2> QED
    BY <2>1, <2>2, <2>3, <2>4, ContextsOnly DEF DeltaOK
<1>9. ServedOK'
  <2> SUFFICES ASSUME up', ~disposed', ~want', act' = None, ~torn' PROVE ServedOK'
    BY DEF ServedOK
  <2>1. OnlyContexts /\ Agrees(ls.idx, Owed) /\ (mode = "ready" => Settled) /\ up /\ ~disposed
    BY <1>1 DEF ServedOK, Proceeds
  <2>2. Agrees(ls.idx, Owed)'
    BY <1>1, <1>4, <2>1 DEF Agrees
  <2> QED
    BY <1>1, <2>1, <2>2, ContextsOnly DEF ServedOK
<1> QED
  BY <1>2, <1>3, <1>5, <1>6, <1>7, <1>8, <1>9

\* An update that does not move proceeds, and so does one that is rejected.
LEMMA TouchedProceeds ==
  ASSUME ActOK, act' = act \/ act' = Rejected(act) \/ (act' = Resolved(act) /\ (up /\ ~disposed => Settled'))
  PROVE  Proceeds
<1>1. CASE act = None
  BY <1>1 DEF Rejected, Resolved, Proceeds
<1>2. CASE act # None
  <2>1. act \in Updates
    BY <1>2 DEF ActOK
  <2>2. /\ [act EXCEPT !.step = "answered"] \in Updates /\ [act EXCEPT !.step = "resolved"] \in Updates
        /\ [act EXCEPT !.step = "answered"] # None /\ [act EXCEPT !.step = "resolved"] # None
    BY <2>1, NoneIsNoUpdate DEF Updates
  <2> QED
    BY <1>2, <2>1, <2>2 DEF Rejected, Resolved, Proceeds, Updates, Gone
<1> QED
  BY <1>1, <1>2

\* The context is acknowledged: settled, followed by the next one, or given up.
LEMMA ContextAcknowledgedQuiet == ASSUME IInv, QInv, ContextAcknowledged PROVE QInv'
<1> USE DEF QInv
<1>1. /\ UNCHANGED <<client, batch, late, torn, want, up, lsn, ls>> /\ pend' = None
      /\ dact # None /\ dact.st = "answered"
  BY DEF ContextAcknowledged, flush, server
<1>2. UNCHANGED <<disposed, ctx>> /\ chan \in Seq(Messages) /\ ActOK /\ PendOK
  BY <1>1 DEF client, IInv, Channel, ChanOK
<1>3. (\A i \in Slots : chan[i].type # "ctx") /\ ~Settled /\ cur \in Deliveries \cup {None}
  BY <1>1 DEF DeliveryOK
<1>4. Grown
  <2>1. CASE chan' = chan
    BY <1>2, <2>1, Unchanged
  <2>2. CASE pend # None /\ chan' = Append(chan, ContextMessage(pend))
    <3>1. pend \in Nat \X Nat /\ pend[2] <= sess'
      BY <1>1, <1>2, <2>2 DEF PendOK, client
    <3> QED
      BY <1>2, <2>2, <3>1, ContextJoins
  <2> QED
    BY <2>1, <2>2 DEF ContextAcknowledged
<1>5. CASE pend = None
  <2>1. /\ cur' = IF cur = None THEN None ELSE [cur EXCEPT !.st = "ok"]
        /\ act' = Resolved(act) /\ dact' = None /\ UNCHANGED chan
    BY <1>5 DEF ContextAcknowledged
  <2>2. cur # None => [cur EXCEPT !.st = "ok"] \in Deliveries /\ [cur EXCEPT !.st = "ok"].key = cur.key
                      /\ [cur EXCEPT !.st = "ok"].st = "ok"
    BY <1>3 DEF Deliveries
  <2>3. cur # None => cur' \in Deliveries /\ cur' # None /\ cur'.key = cur.key /\ Settled'
    BY <2>1, <2>2, NoneIsNoOther DEF Settled
  <2>4. cur' \in Deliveries \cup {None}
    BY <2>1, <2>3
  <2>5. DeliveryOK'
    BY <1>1, <1>2, <1>3, <2>1, <2>3, <2>4 DEF DeliveryOK, Slots
  <2>6. up /\ ~disposed => Settled'
    BY <2>3 DEF DeliveryOK
  <2>7. Proceeds
    BY <1>2, <2>1, <2>6, TouchedProceeds
  <2> QED
    BY <1>1, <1>3, <1>4, <2>5, <2>7, ProceedsQuiet
<1>6. CASE pend # None /\ up /\ pend[1] = lsn
  <2>1. /\ dact' = [key |-> pend, st |-> "sent"] /\ chan' = Append(chan, ContextMessage(pend))
        /\ UNCHANGED <<cur, act>>
    BY <1>6 DEF ContextAcknowledged
  <2>2. pend \in Nat \X Nat
    BY <1>2, <1>6 DEF PendOK
  <2>3. dact' \in Deliveries /\ dact' # None /\ dact'.st = "sent"
    BY <2>1, <2>2, DeliveryIsOne
  <2>4. /\ \A i \in Slots' : chan'[i].type = "ctx" => chan'[i].awaited /\ dact' # None /\ dact'.st = "sent"
        /\ \A i, j \in Slots' : chan'[i].type = "ctx" /\ chan'[j].type = "ctx" => i = j
    BY <1>2, <1>3, <2>1, <2>2, <2>3, ContextSent
  <2>5. ~Settled' /\ cur' \in Deliveries \cup {None}
    BY <1>3, <2>1 DEF Settled
  <2>6. up' /\ ~disposed' => cur' # None /\ cur'.key = <<lsn', ctx'>>
    BY <1>1, <1>2, <2>1 DEF DeliveryOK
  <2>7. DeliveryOK'
    BY <1>1, <2>3, <2>4, <2>5, <2>6 DEF DeliveryOK
  <2> QED
    BY <1>1, <1>2, <1>3, <1>4, <2>1, <2>7, TouchedProceeds, ProceedsQuiet
<1>7. CASE pend # None /\ ~(up /\ pend[1] = lsn)
  <2>1. cur' = None /\ act' = Rejected(act) /\ dact' = None /\ UNCHANGED chan
    BY <1>7 DEF ContextAcknowledged
  <2>2. ~up
    BY <1>7 DEF DeliveryOK
  <2>3. DeliveryOK'
    BY <1>1, <1>3, <2>1, <2>2 DEF DeliveryOK, Slots, Settled
  <2> QED
    BY <1>1, <1>2, <1>3, <1>4, <2>1, <2>3, TouchedProceeds, ProceedsQuiet
<1> QED
  BY <1>5, <1>6, <1>7

-----------------------------------------------------------------------------
\* The publisher.

\* A step that sends nothing: the channel, the delivery, the server and the client stay.
Still == UNCHANGED <<client, delivery, server, chan>>

\* What such a step leaves as it is.
LEMMA StillIs ==
  ASSUME Still
  PROVE  /\ UNCHANGED <<table, mode, sess, ctx, gen, disposed, cur, pend, dact, up, lsn, ls, chan>>
         /\ (Settled' <=> Settled) /\ (OnlyContexts' <=> OnlyContexts)
         /\ \A idx, labels : Agrees(idx, labels)' <=> Agrees(idx, labels)
<1>1. UNCHANGED <<table, mode, sess, ctx, gen, disposed, cur, pend, dact, up, lsn, ls, chan>>
  BY DEF Still, client, delivery, server
<1> QED
  BY <1>1 DEF Settled, OnlyContexts, Slots, Agrees

\* It keeps the delivery.
LEMMA StillDelivers == ASSUME QInv, Still, want' \in BOOLEAN, torn' \in BOOLEAN PROVE DeliveryOK' /\ ModeOK'
<1>1. UNCHANGED <<table, mode, sess, ctx, gen, disposed, cur, pend, dact, up, lsn, ls, chan>>
  BY StillIs
<1> QED
  BY <1>1 DEF QInv, DeliveryOK, ModeOK, Settled, Slots

\* It keeps the batch, or drops it.
LEMMA StillFlushes ==
  ASSUME QInv, gen \in Nat, Still, batch' = NoBatch \/ (UNCHANGED <<batch, late>>)
  PROVE  FlushOK'
<1>1. UNCHANGED <<table, mode, sess, gen>>
  BY StillIs
<1>2. CASE UNCHANGED <<batch, late>>
  BY <1>1, <1>2 DEF QInv, FlushOK
<1>3. CASE batch' = NoBatch
  <2>1. batch'.step = "idle" /\ batch'.part = NoPart /\ batch'.gen = 0 /\ DOMAIN batch'.part = {}
    BY <1>3 DEF NoBatch, NoPart
  <2> QED
    BY <1>1, <2>1 DEF FlushOK
<1> QED
  BY <1>2, <1>3

\* What a publication scope says of its client and its server.
LEMMA ScopeParts ==
  ASSUME Scope # None
  PROVE  /\ up /\ ~disposed /\ mode # "starting"
         /\ Scope[1] = lsn /\ Scope[2] = sess /\ (Scope[3] <=> mode = "ready") /\ Scope[4] = gen
<1>1. up /\ ~disposed /\ mode # "starting" /\ Scope = <<lsn, sess, mode = "ready", gen>>
  BY DEF Scope
<1>2. CASE mode = "ready"
  <2>1. Scope = <<lsn, sess, TRUE, gen>>
    BY <1>1, <1>2
  <2>2. Scope[1] = lsn /\ Scope[2] = sess /\ Scope[3] = TRUE /\ Scope[4] = gen
    BY <2>1
  <2>3. up /\ ~disposed /\ mode # "starting"
    BY <1>1
  <2> QED
    BY <1>2, <2>2, <2>3
<1>3. CASE mode # "ready"
  <2>1. Scope = <<lsn, sess, FALSE, gen>>
    BY <1>1, <1>3
  <2>2. Scope[1] = lsn /\ Scope[2] = sess /\ Scope[3] = FALSE /\ Scope[4] = gen
    BY <2>1
  <2>3. up /\ ~disposed /\ mode # "starting"
    BY <1>1
  <2> QED
    BY <1>3, <2>2, <2>3
<1> QED
  BY <1>2, <1>3

\* The complete table is taken: the update has it, or the retirement of a daemon that
\* does not run.
LEMMA FullIsTaken ==
  ASSUME IInv, QInv, Still, act' = FullUpdate, want, want' = want, Scope # None, FlushOK', UNCHANGED torn
  PROVE  QInv'
<1>1. UNCHANGED <<table, mode, sess, ctx, gen, disposed, cur, pend, dact, up, lsn, ls, chan>>
  BY StillIs
<1>2. /\ act'.method = (IF mode = "ready" THEN "full" ELSE "clear") /\ act'.snap = table /\ act'.scope = Scope
      /\ act'.step = "queued" /\ act'.ok = FALSE /\ act'.frame = None
  BY DEF FullUpdate, Update
<1>3. Scope = <<lsn, sess, mode = "ready", gen>> /\ lsn \in Nat /\ sess \in Nat /\ gen \in Nat
  BY DEF Scope, IInv, ClientOK
<1>4. Scope[1] = lsn /\ Scope[2] = sess /\ (Scope[3] <=> mode = "ready") /\ Scope[4] = gen
  BY ScopeParts
<1>5. /\ act'.scope[1] = lsn /\ act'.scope[2] = sess /\ (act'.scope[3] <=> mode = "ready") /\ act'.scope[4] = gen
  BY <1>2, <1>4
<1>6. DeliveryOK' /\ ModeOK'
  BY StillDelivers DEF QInv, ModeOK
<1>7. UpdateOK'
  <2>1. act'.scope[1] <= lsn' /\ act'.scope[4] <= gen'
    BY <1>1, <1>3, <1>5
  <2>2. act'.method = "clear" <=> ~act'.scope[3]
    BY <1>2, <1>5
  <2>3. act'.method = "clear" => mode' # "ready"
    BY <1>1, <1>2
  <2> QED
    BY <1>1, <1>2, <1>5, <2>1, <2>2, <2>3 DEF UpdateOK
<1>8. TakenOK' /\ AppliedOK' /\ DeltaOK'
  BY <1>1, <1>2 DEF TakenOK, Meant, Delta, AppliedOK, DeltaOK
<1> QED
  BY <1>6, <1>7, <1>8 DEF QInv, ServedOK

\* No update is under way.
LEMMA NoneUnderway ==
  ASSUME QInv, Still, act' = None, want' \in BOOLEAN, torn' \in BOOLEAN, FlushOK',
         up /\ ~disposed /\ ~want' /\ ~torn' =>
           OnlyContexts /\ Agrees(ls.idx, Owed') /\ (mode = "ready" => Settled)
  PROVE  QInv'
<1>1. UNCHANGED <<table, mode, sess, ctx, gen, disposed, cur, pend, dact, up, lsn, ls, chan>>
  BY StillIs
<1>2. DeliveryOK' /\ ModeOK'
  BY StillDelivers DEF QInv, ModeOK
<1>3. UpdateOK' /\ TakenOK' /\ AppliedOK' /\ DeltaOK'
  BY DEF UpdateOK, TakenOK, AppliedOK, DeltaOK
<1>4. ServedOK'
  <2> SUFFICES ASSUME up', ~disposed', ~want', act' = None, ~torn' PROVE ServedOK'
    BY DEF ServedOK
  <2>1. OnlyContexts /\ Agrees(ls.idx, Owed') /\ (mode = "ready" => Settled)
    BY <1>1
  <2>2. Agrees(ls.idx, Owed)'
    BY <1>1, <2>1 DEF Agrees
  <2> QED
    BY <1>1, <2>1, <2>2, StillIs DEF ServedOK
<1> QED
  BY <1>2, <1>3, <1>4 DEF QInv

\* Nothing but the timers changes.
LEMMA SameQuiet == ASSUME IInv, QInv, Still, UNCHANGED <<batch, late, torn, want, act>> PROVE QInv'
<1>1. UNCHANGED <<client, cur, pend, dact, up, lsn, ls, chan, disposed, ctx>> /\ (Settled' <=> Settled)
  BY StillIs DEF Still
<1>2. chan \in Seq(Messages) /\ ActOK
  BY DEF IInv, Channel, ChanOK
<1>3. Grown
  BY <1>1, <1>2, Unchanged
<1>4. Proceeds
  BY <1>2, TouchedProceeds
<1>5. DeliveryOK'
  BY StillDelivers DEF QInv, ModeOK
<1> QED
  BY <1>1, <1>3, <1>4, <1>5, ProceedsQuiet

\* The retry timer makes a full update, or nothing.
LEMMA TimerFiresQuiet == ASSUME IInv, QInv, TimerFires PROVE QInv'
<1>1. Still /\ UNCHANGED <<batch, late, torn, want>>
  BY DEF TimerFires, Still, flush, PublishFull
<1>2. CASE act' = act
  BY <1>1, <1>2, SameQuiet
<1>3. CASE act' # act
  <2>1. act' = FullUpdate /\ want /\ Scope # None
    BY <1>3 DEF TimerFires, PublishFull, QInv, ModeOK
  <2>2. FlushOK'
    BY <1>1, StillFlushes DEF IInv, ClientOK
  <2> QED
    BY <1>1, <2>1, <2>2, FullIsTaken
<1> QED
  BY <1>2, <1>3

\* The batch of the finished delta is dropped.
LEMMA FinishedFlush ==
  ASSUME IInv, QInv, Still, NEW w, Finished(w)
  PROVE  /\ FlushOK' /\ act' = None /\ want' = w
         /\ IF batch.step = "sent" THEN Owed' = {} ELSE Owed' = Owed
<1>1. act' = None /\ want' = w /\ (IF batch.step = "sent" THEN DropBatch ELSE UNCHANGED <<batch, late>>)
  BY DEF Finished
<1>2. UNCHANGED <<mode, sess>>
  BY StillIs
<1>3. batch.step = "sent" => batch' = NoBatch /\ Owed' = {}
  BY <1>1 DEF DropBatch, Owed, NoBatch, NoPart
<1>4. FlushOK'
  BY <1>1, <1>3, StillFlushes DEF IInv, ClientOK
<1> QED
  BY <1>1, <1>2, <1>3, <1>4 DEF Owed

\* An update that crossed a handoff ends, and the table is wanted again.
LEMMA BeginCrossedQuiet == ASSUME IInv, QInv, BeginCrossed PROVE QInv'
<1>1. Still /\ UNCHANGED torn /\ Finished(TRUE)
  BY DEF BeginCrossed, Still
<1>2. FlushOK' /\ act' = None /\ want' = TRUE
  BY <1>1, FinishedFlush
<1> QED
  BY <1>1, <1>2, NoneUnderway DEF QInv, ModeOK

\* An update ends: the table stays wanted unless the server has it.
LEMMA AcknowledgedQuiet == ASSUME IInv, QInv, Acknowledged PROVE QInv'
<1>1. /\ Still /\ act # None /\ act.step = "answered"
      /\ torn' = (torn /\ ~Renewed(act)) /\ torn' \in BOOLEAN
  BY DEF Acknowledged, Still, QInv, ModeOK
<1>2. CASE disposed
  <2>1. Finished(want)
    BY <1>2 DEF Acknowledged
  <2>2. FlushOK' /\ act' = None /\ want' = want
    BY <1>1, <2>1, FinishedFlush
  <2> QED
    BY <1>1, <1>2, <2>2, NoneUnderway DEF QInv, ModeOK
<1>3. CASE ~disposed
  <2> DEFINE w == IF act.ok /\ act.scope = Scope THEN want /\ ~Satisfied(act) ELSE TRUE
  <2>1. Finished(w)
    BY <1>3 DEF Acknowledged
  <2>2. w \in BOOLEAN
    BY DEF QInv, ModeOK
  <2> HIDE DEF w
  <2>3. /\ FlushOK' /\ act' = None /\ want' = w
        /\ IF batch.step = "sent" THEN Owed' = {} ELSE Owed' = Owed
    BY <1>1, <2>1, FinishedFlush
  <2>4. ASSUME up, ~disposed, ~w, ~torn'
        PROVE  OnlyContexts /\ Agrees(ls.idx, Owed') /\ (mode = "ready" => Settled)
    <3>1. act.ok /\ act.scope = Scope /\ (want => act.method # "delta" /\ ~act.again)
      BY <2>4 DEF w, Satisfied
    <3>2. Scope # None /\ act \in Updates
      BY <1>1, <3>1 DEF IInv, ActOK
    <3>3. /\ up /\ ~disposed
          /\ act.scope[1] = lsn /\ act.scope[2] = sess /\ (act.scope[3] <=> mode = "ready") /\ act.scope[4] = gen
      BY <3>1, <3>2, ScopeParts
    <3>4. Ours(act)
      BY <3>3 DEF Ours
    <3>5. OnlyContexts
      BY <1>1, <3>1, <3>4 DEF QInv, AppliedOK
    <3>6. /\ act.method = "clear" <=> mode # "ready"
          /\ act.method # "clear" => Settled
      BY <1>1, <3>1, <3>3, <3>4 DEF QInv, UpdateOK
    <3>7. CASE act.method = "delta"
      <4>1. ~want
        BY <3>1, <3>7
      <4>3. ~torn
        BY <1>1, <2>4, <3>7 DEF Renewed
      <4>2. Agrees(ls.idx, {})
        BY <1>1, <3>1, <3>4, <3>7, <4>1, <4>3 DEF QInv, DeltaOK
      <4> QED
        BY <3>5, <3>6, <4>2 DEF Agrees
    <3>8. CASE act.method # "delta"
      <4>1. want /\ ~act.again
        BY <1>1, <3>1, <3>3, <3>8 DEF QInv, UpdateOK
      <4>2. Fresh(act)
        BY <3>4, <3>8, <4>1 DEF Fresh
      <4>3. \A l \in Label : act.snap[l] = table[l] \/ (l \in Owed /\ batch.step # "sent")
        <5>1. ~torn \/ ~Delta(act)
          <6>1. act.frame \in Frames \cup {None}
            BY <3>2 DEF Updates
          <6> QED
            BY <1>1, <2>4, <3>1, <3>8, <6>1 DEF Renewed, Delta, Frames
        <5> QED
          BY <1>1, <4>2, <5>1 DEF QInv, TakenOK, Meant
      <4>4. \A l \in Label : act.snap[l] = table[l] \/ l \in Owed'
        BY <2>3, <4>3
      <4>5. CASE act.method = "full"
        <5>1. ls.idx = act.snap
          BY <1>1, <3>1, <3>4, <4>5 DEF QInv, AppliedOK
        <5>2. ls.idx # Broken
          BY <3>2, <5>1, NoneIsNoOther DEF Updates
        <5> QED
          BY <3>5, <3>6, <4>4, <5>1, <5>2 DEF Agrees
      <4>6. CASE act.method = "clear"
        <5>1. ls.idx = Empty /\ table = Empty
          BY <1>1, <3>1, <3>4, <3>6, <4>6 DEF QInv, AppliedOK, ModeOK
        <5>2. ls.idx # Broken
          BY <5>1, EmptyTable, NoneIsNoOther DEF Table
        <5> QED
          BY <3>5, <3>6, <4>6, <5>1, <5>2 DEF Agrees
      <4> QED
        BY <3>2, <3>8, <4>5, <4>6 DEF Updates
    <3> QED
      BY <3>7, <3>8
  <2> QED
    BY <1>1, <2>2, <2>3, <2>4, NoneUnderway
<1> QED
  BY <1>2, <1>3

-----------------------------------------------------------------------------
\* The flush of saved files.

\* A batch that owes nothing any more, or nothing new, while the update stays.
LEMMA FlushQuiet ==
  ASSUME IInv, QInv, Still, UNCHANGED <<act, want, torn>>, FlushOK',
         batch.step # "sent", batch'.step # "sent", up /\ ~disposed => Owed' = Owed
  PROVE  QInv'
<1> USE DEF QInv
<1>1. UNCHANGED <<table, mode, sess, ctx, gen, disposed, cur, pend, dact, up, lsn, ls, chan>>
  BY StillIs
<1>2. (Settled' <=> Settled) /\ (OnlyContexts' <=> OnlyContexts) /\ (Ours(act)' <=> Ours(act))
      /\ (Fresh(act)' <=> Fresh(act))
  BY <1>1, StillIs DEF Ours, Fresh
<1>3. DeliveryOK' /\ ModeOK'
  BY StillDelivers DEF ModeOK
<1>4. UpdateOK'
  BY <1>1, <1>2 DEF UpdateOK
<1>5. TakenOK'
  <2> SUFFICES ASSUME act' # None, Fresh(act)'
               PROVE  /\ (torn' /\ Delta(act)' /\ Gone(act)') \/ Meant(act.snap)'
                      /\ Delta(act)' => Meant(act.frame.keep)'
    BY DEF TakenOK
  <2>1. /\ up /\ ~disposed
        /\ (torn /\ Delta(act) /\ Gone(act)) \/ Meant(act.snap)
        /\ Delta(act) => Meant(act.frame.keep)
    BY <1>2 DEF TakenOK, Fresh, Ours
  <2> QED
    BY <1>1, <2>1 DEF Meant, Delta, Gone
<1>6. AppliedOK'
  BY <1>1, <1>2 DEF AppliedOK
<1>7. DeltaOK'
  BY <1>1, <1>2 DEF DeltaOK
<1>8. ServedOK'
  <2> SUFFICES ASSUME up', ~disposed', ~want', act' = None, ~torn' PROVE ServedOK'
    BY DEF ServedOK
  <2>1. OnlyContexts /\ Agrees(ls.idx, Owed) /\ (mode = "ready" => Settled) /\ Owed' = Owed
    BY <1>1 DEF ServedOK
  <2>2. Agrees(ls.idx, Owed)'
    BY <1>1, <2>1 DEF Agrees
  <2> QED
    BY <1>1, <1>2, <2>1, <2>2 DEF ServedOK
<1> QED
  BY <1>3, <1>4, <1>5, <1>6, <1>7, <1>8

\* No part has a label.
LEMMA NoOne == NoPart = [l \in {} |-> 0] /\ DOMAIN NoPart = {}
BY DEF NoPart

\* A batch begins with nothing to send.
LEMMA BatchStartsQuiet == ASSUME IInv, QInv, BatchStarts PROVE QInv'
<1>1. /\ Still /\ UNCHANGED <<act, want, torn>> /\ batch.step = "idle" /\ mode = "ready"
      /\ batch' = [NoBatch EXCEPT !.step = "collecting", !.sess = sess, !.gen = gen]
  BY DEF BatchStarts, Still, pub
<1>2. batch'.step = "collecting" /\ batch'.part = NoPart /\ batch'.gen = gen
  BY <1>1 DEF NoBatch
<1>3. UNCHANGED <<mode, sess, gen, table>> /\ gen \in Nat
  BY <1>1, StillIs DEF IInv, ClientOK
<1>4. FlushOK'
  BY <1>1, <1>2, <1>3, NoOne DEF FlushOK
<1>5. Owed = {} /\ Owed' = {}
  BY <1>1, <1>2, NoOne DEF Owed, QInv, FlushOK
<1> QED
  BY <1>1, <1>2, <1>4, <1>5, FlushQuiet

\* A reply the client adopts is owed by the batch.
LEMMA ReindexedQuiet ==
  ASSUME IInv, QInv, NEW l \in Label, NEW r \in first + 1..rev + 1, Reindexed(l, r)
  PROVE  QInv'
<1> USE DEF QInv
<1> DEFINE part == [k \in DOMAIN batch.part \cup {l} |-> IF k = l THEN r ELSE batch.part[k]]
<1>1. /\ batch.step = "collecting" /\ mode = "ready" /\ batch.sess = sess
      /\ table' = [table EXCEPT ![l] = r] /\ batch' = [batch EXCEPT !.part = part] /\ late' = late \ {l}
      /\ act' = PatchedIn(act, l, r)
      /\ UNCHANGED <<mode, sess, ctx, gen, disposed, torn, want, cur, pend, dact, up, lsn, ls, chan>>
  BY DEF Reindexed, pub, delivery, server
<1>2. batch \in Batches /\ table \in Table /\ batch.part \in Parts
  BY DEF IInv, BatchOK, Batches, ClientOK
<1>16. r \in Nat
  BY DEF IInv, ClientOK
<1>3. /\ batch'.step = "collecting" /\ batch'.sess = sess /\ batch'.gen = batch.gen /\ batch'.part = part
  BY <1>1, <1>2 DEF Batches
<1>4. DOMAIN part = DOMAIN batch.part \cup {l} /\ part[l] = r
      /\ \A k \in DOMAIN batch.part : k # l => part[k] = batch.part[k]
  OBVIOUS
<1>5. table'[l] = r /\ \A k \in Label : k # l => table'[k] = table[k]
  BY <1>1, <1>2 DEF Table
<1>6. DOMAIN batch.part \subseteq Label
  BY <1>2 DEF Parts
<1> HIDE DEF part
<1>15. /\ act' = None <=> act = None
       /\ act # None =>
            /\ act'.step = act.step /\ act'.method = act.method /\ act'.scope = act.scope /\ act'.part = act.part
            /\ act'.frame = act.frame /\ act'.again = act.again /\ act'.ok = act.ok
            /\ act'.ok => act'.snap = act.snap
            /\ \A k \in Label : act'.snap[k] = act.snap[k] \/ k = l
  <2>1. CASE act # None /\ act.own
    <3>1. act \in Updates /\ act' = [act EXCEPT !.snap = [act.snap EXCEPT ![l] = r]] /\ ~act.ok
      BY <1>1, <2>1 DEF PatchedIn, IInv, ActOK
    <3>2. [act.snap EXCEPT ![l] = r] \in Table /\ act.snap \in Table
      BY <3>1, <1>2, <1>16 DEF Updates, Table
    <3>3. act' \in Updates /\ act'.snap = [act.snap EXCEPT ![l] = r]
      BY <3>1, <3>2 DEF Updates, Table
    <3>4. act' # None
      BY <3>3, NoneIsNoUpdate
    <3> QED
      BY <2>1, <3>1, <3>2, <3>3, <3>4 DEF Updates, Table
  <2>2. CASE ~(act # None /\ act.own)
    BY <1>1, <2>2 DEF PatchedIn
  <2> QED
    BY <2>1, <2>2
<1>7. /\ (Settled' <=> Settled) /\ (OnlyContexts' <=> OnlyContexts)
      /\ act # None => (Ours(act)' <=> Ours(act)) /\ (Fresh(act)' <=> Fresh(act))
  BY <1>1, <1>15 DEF Ours, Fresh, Settled, OnlyContexts, Slots
<1>8. Owed = DOMAIN batch.part /\ Owed' = Owed \cup {l}
  BY <1>1, <1>3, <1>4 DEF Owed
<1>9. DeliveryOK' /\ ModeOK'
  BY <1>1 DEF DeliveryOK, ModeOK, Settled, Slots
<1>10. FlushOK'
  <2>1. \A k \in DOMAIN batch'.part \ late' : batch'.part[k] = table'[k]
    <3> SUFFICES ASSUME NEW k \in DOMAIN batch'.part \ late' PROVE batch'.part[k] = table'[k]
      OBVIOUS
    <3>1. CASE k = l
      BY <1>3, <1>4, <1>5, <3>1
    <3>2. CASE k # l
      <4>1. k \in DOMAIN batch.part /\ k \notin late
        BY <1>1, <1>3, <1>4, <3>2
      <4> QED
        BY <1>3, <1>4, <1>5, <1>6, <3>2, <4>1 DEF FlushOK
    <3> QED
      BY <3>1, <3>2
  <2> QED
    BY <1>1, <1>3, <2>1 DEF FlushOK
<1>11. UpdateOK'
  BY <1>1, <1>7, <1>15 DEF UpdateOK
<1>12. TakenOK'
  <2> SUFFICES ASSUME act' # None, Fresh(act)'
               PROVE  /\ (torn' /\ Delta(act)' /\ Gone(act)') \/ Meant(act.snap)'
                      /\ Delta(act)' => Meant(act.frame.keep)'
    BY DEF TakenOK
  <2>1. /\ act # None
        /\ (torn /\ Delta(act) /\ Gone(act)) \/ Meant(act.snap)
        /\ Delta(act) => Meant(act.frame.keep)
    BY <1>1, <1>7, <1>15 DEF TakenOK
  <2>2. \A k \in Label : k # l => (table'[k] = table[k] /\ (k \in Owed => k \in Owed'))
    BY <1>5, <1>8
  <2>3. l \in Owed' /\ batch'.step # "sent" /\ batch.step # "sent"
    BY <1>1, <1>3, <1>8
  <2> QED
    BY <1>1, <1>15, <2>1, <2>2, <2>3 DEF Meant, Delta, Gone
<1>13. AppliedOK' /\ DeltaOK'
  BY <1>1, <1>7, <1>15 DEF AppliedOK, DeltaOK
<1>14. ServedOK'
  <2> SUFFICES ASSUME up', ~disposed', ~want', act' = None, ~torn' PROVE ServedOK'
    BY DEF ServedOK
  <2>1. OnlyContexts /\ Agrees(ls.idx, Owed) /\ (mode = "ready" => Settled)
    BY <1>1, <1>15 DEF ServedOK
  <2>2. Agrees(ls.idx, Owed)'
    BY <1>1, <1>5, <1>8, <2>1 DEF Agrees
  <2> QED
    BY <1>1, <1>7, <2>1, <2>2 DEF ServedOK
<1> QED
  BY <1>9, <1>10, <1>11, <1>12, <1>13, <1>14

\* The batch has nothing to send, asks for the table, or waits for its turn.
LEMMA BatchEndsQuiet == ASSUME IInv, QInv, BatchEnds PROVE QInv'
<1>1. Still /\ UNCHANGED torn /\ batch.step = "collecting" /\ gen \in Nat
  BY DEF BatchEnds, Still, IInv, ClientOK
<1>2. CASE batch.part = NoPart \/ batch.sess # sess \/ disposed \/ (Owned /\ Scope = None)
  <2>1. DropBatch /\ UNCHANGED <<want, act>>
    BY <1>2 DEF BatchEnds
  <2>2. batch' = NoBatch
    BY <2>1 DEF DropBatch
  <2>3. batch'.step = "idle" /\ Owed' = {}
    BY <2>2, NoOne DEF NoBatch, Owed
  <2>4. up /\ ~disposed => Owed = {}
    <3> SUFFICES ASSUME up, ~disposed, Owed # {} PROVE FALSE
      OBVIOUS
    <3>1. mode = "ready" /\ batch.sess = sess /\ batch.part # NoPart
      BY NoOne DEF Owed
    <3>2. Scope = None
      BY <1>2, <3>1
    <3>3. Scope = <<lsn, sess, TRUE, gen>>
      BY <3>1 DEF Scope
    <3>4. lsn \in Nat /\ sess \in Nat /\ gen \in Nat
      BY DEF IInv, ClientOK
    <3>5. Scope \in Scopes
      BY <3>3, <3>4 DEF Scopes
    <3> QED
      BY <3>2, <3>5, NoneIsNoOther
  <2> QED
    BY <1>1, <2>1, <2>2, <2>3, <2>4, StillFlushes, FlushQuiet
<1>3. CASE ~(batch.part = NoPart \/ batch.sess # sess \/ disposed \/ (Owned /\ Scope = None)) /\ ~Owned
  <2>1. DropBatch /\ want' = TRUE /\ act' = Again(act)
    BY <1>3 DEF BatchEnds, RequestFull
  <2>2. FlushOK'
    BY <1>1, <2>1, StillFlushes DEF DropBatch
  <2>3. DeliveryOK' /\ ModeOK'
    BY <1>1, <2>1, StillDelivers DEF QInv, ModeOK
  <2>4. CASE act = None
    BY <1>1, <2>1, <2>2, <2>4, NoneUnderway DEF Again, QInv, ModeOK
  <2>5. CASE act # None
    <3>1. act \in Updates /\ act' = [act EXCEPT !.again = TRUE]
      BY <2>1, <2>5 DEF IInv, ActOK, Again
    <3>2. /\ act'.method = act.method /\ act'.scope = act.scope /\ act'.snap = act.snap
          /\ act'.step = act.step /\ act'.ok = act.ok /\ act'.again
      BY <3>1 DEF Updates
    <3>3. /\ UNCHANGED <<table, mode, sess, ctx, gen, disposed, cur, pend, dact, up, lsn, ls, chan>>
          /\ (Settled' <=> Settled) /\ (OnlyContexts' <=> OnlyContexts)
      BY <1>1, StillIs
    <3>4. (Ours(act)' <=> Ours(act)) /\ ~Fresh(act)'
      BY <3>2, <3>3 DEF Ours, Fresh
    <3>5. UpdateOK'
      BY <2>1, <2>5, <3>2, <3>3, <3>4 DEF QInv, UpdateOK
    <3>6. TakenOK' /\ AppliedOK'
      BY <2>5, <3>2, <3>3, <3>4 DEF QInv, TakenOK, AppliedOK
    <3>7. DeltaOK' /\ ServedOK'
      BY <2>1 DEF DeltaOK, ServedOK
    <3> QED
      BY <2>2, <2>3, <3>5, <3>6, <3>7 DEF QInv
  <2> QED
    BY <2>4, <2>5
<1>4. CASE ~(batch.part = NoPart \/ batch.sess # sess \/ disposed \/ (Owned /\ Scope = None)) /\ Owned
  <2>1. /\ batch' = [batch EXCEPT !.step = "waiting", !.scope = Scope] /\ UNCHANGED <<late, want, act>>
        /\ Scope # None /\ batch.sess = sess /\ batch.gen = gen
    BY <1>4 DEF BatchEnds, Owned
  <2>2. batch \in Batches
    BY DEF IInv, BatchOK
  <2>3. /\ batch'.step = "waiting" /\ batch'.scope = Scope /\ batch'.part = batch.part
        /\ batch'.sess = batch.sess /\ batch'.gen = batch.gen
    BY <2>1, <2>2 DEF Batches
  <2>4. UNCHANGED <<table, mode, sess, gen>>
    BY <1>1, StillIs
  <2>5. mode = "ready" /\ Scope[3]
    BY <1>1, <2>1, ScopeParts DEF QInv, FlushOK
  <2>6. FlushOK'
    BY <2>1, <2>3, <2>4, <2>5 DEF QInv, FlushOK
  <2>7. Owed' = Owed
    BY <2>3, <2>4 DEF Owed
  <2> QED
    BY <1>1, <2>1, <2>3, <2>6, <2>7, FlushQuiet
<1> QED
  BY <1>2, <1>3, <1>4

\* The batch is sent over a server that has the rest, or the whole table is wanted.
LEMMA PublishDeltaQuiet == ASSUME IInv, QInv, PublishDelta PROVE QInv'
<1>1. Still /\ act = None /\ batch.step = "waiting" /\ gen \in Nat /\ batch \in Batches
  BY DEF PublishDelta, Still, IInv, ClientOK, BatchOK
<1>2. UNCHANGED <<table, mode, sess, ctx, gen, disposed, cur, pend, dact, up, lsn, ls, chan>>
      /\ (Settled' <=> Settled) /\ (OnlyContexts' <=> OnlyContexts)
  BY <1>1, StillIs
<1>3. batch.scope # None /\ batch.scope[2] = batch.sess /\ batch.scope[3] = TRUE
  BY <1>1 DEF IInv, BatchOK, QInv, FlushOK, Scopes
<1>4. DropBatch => FlushOK'
  BY <1>1, StillFlushes DEF DropBatch
<1>5. CASE disposed
  <2>1. DropBatch /\ UNCHANGED <<torn, want, act>>
    BY <1>5 DEF PublishDelta
  <2> QED
    BY <1>1, <1>4, <1>5, <2>1, NoneUnderway DEF QInv, ModeOK
<1>6. CASE ~disposed /\ batch.scope # Scope
  <2>1. DropBatch /\ want' = TRUE /\ UNCHANGED <<torn, act>>
    BY <1>6 DEF PublishDelta, RequestFull
  <2> QED
    BY <1>1, <1>4, <2>1, NoneUnderway DEF QInv, ModeOK
<1>7. CASE ~disposed /\ batch.scope = Scope /\ DeltaCovered
  <2>1. DropBatch /\ want = TRUE /\ UNCHANGED <<torn, want, act>>
    BY <1>7 DEF PublishDelta, DeltaCovered, QInv, ModeOK
  <2> QED
    BY <1>1, <1>4, <2>1, NoneUnderway DEF QInv, ModeOK
<1>8. ASSUME batch' = [batch EXCEPT !.step = "sent"], UNCHANGED late
      PROVE  /\ batch'.step = "sent" /\ batch'.part = batch.part /\ batch'.sess = batch.sess
             /\ FlushOK'
  <2>1. /\ batch'.step = "sent" /\ batch'.part = batch.part /\ batch'.sess = batch.sess
        /\ batch'.gen = batch.gen
    BY <1>1, <1>8 DEF Batches
  <2> QED
    BY <1>1, <1>2, <1>8, <2>1 DEF QInv, FlushOK
<1>9. CASE ~disposed /\ batch.scope = Scope /\ ~DeltaCovered /\ want
  <2>1. /\ batch' = [batch EXCEPT !.step = "sent"] /\ PublishFull /\ UNCHANGED <<late, torn>>
    BY <1>9 DEF PublishDelta
  <2>2. act' = FullUpdate /\ UNCHANGED want
    BY <1>3, <1>9, <2>1 DEF PublishFull
  <2> QED
    BY <1>1, <1>3, <1>8, <1>9, <2>1, <2>2, FullIsTaken
<1>10. CASE ~disposed /\ batch.scope = Scope /\ ~DeltaCovered /\ ~want
  <2>1. /\ batch' = [batch EXCEPT !.step = "sent"] /\ torn' = (torn \/ late # {}) /\ UNCHANGED <<late, want>>
        /\ act' = Update("delta", Empty, batch.part, Scope)
    BY <1>10 DEF PublishDelta
  <2>2. /\ act'.method = "delta" /\ act'.scope = Scope /\ act'.part = batch.part /\ act'.ok = FALSE
        /\ act'.step = "queued"
    BY <2>1 DEF Update
  <2>3. /\ Scope # None /\ up
        /\ Scope[1] = lsn /\ Scope[2] = sess /\ Scope[3] = TRUE /\ Scope[4] = gen /\ mode = "ready"
    BY <1>3, <1>10, ScopeParts
  <2>4. FlushOK' /\ batch'.step = "sent" /\ batch'.part = batch.part
    BY <1>8, <2>1
  <2>5. DeliveryOK' /\ ModeOK'
    <3>1. want' \in BOOLEAN
      BY <2>1 DEF QInv, ModeOK
    <3>2. torn' \in BOOLEAN
      BY <2>1 DEF QInv, ModeOK
    <3>3. /\ DeliveryOK' /\ mode' \in {"stopped", "starting", "ready", "refreshing"} /\ up' \in BOOLEAN
          /\ mode' # "ready" => table' = Empty
          /\ ls'.tab # None => ls'.idx = ls'.tab
      BY <1>2 DEF QInv, ModeOK, DeliveryOK, Settled, Slots
    <3> QED
      BY <3>1, <3>2, <3>3 DEF ModeOK
  <2>6. lsn \in Nat
    BY DEF IInv, ClientOK
  <2>7. UpdateOK'
    BY <1>1, <1>2, <2>2, <2>3, <2>6 DEF UpdateOK
  <2>8. TakenOK' /\ AppliedOK'
    BY <2>2 DEF TakenOK, AppliedOK, Fresh
  <2>9. ASSUME ~torn' PROVE late = {} /\ OnlyContexts /\ Agrees(ls.idx, DOMAIN batch.part) /\ Settled
    <3>1. late = {} /\ ~torn
      BY <2>1, <2>9
    <3>2. batch.sess = sess
      BY <1>3, <1>10, <2>3
    <3> QED
      BY <1>1, <1>10, <2>3, <3>1, <3>2 DEF QInv, ServedOK, Owed
  <2>10. DeltaOK'
    <3> SUFFICES ASSUME ~torn'
                 PROVE  /\ batch'.step = "sent" /\ act'.part = batch'.part /\ late' = {} /\ Settled'
                        /\ \A i \in Slots' : chan'[i].type # "ctx" => chan'[i].awaited
                        /\ Agrees(ls.idx, DOMAIN act.part)'
      BY <2>2 DEF DeltaOK
    <3>1. /\ late = {} /\ Settled
          /\ \A i \in Slots' : chan'[i].type # "ctx" => chan'[i].awaited
      BY <1>2, <2>9 DEF OnlyContexts
    <3>2. Agrees(ls.idx, DOMAIN act.part)'
      BY <1>2, <2>2, <2>9 DEF Agrees
    <3> QED
      BY <1>2, <2>1, <2>2, <2>4, <3>1, <3>2
  <2>11. act' # None
    <3>1. batch.part \in Parts /\ Scope \in Scopes
      BY <1>1, <1>3, <1>10, <2>3, ScopeIsOne DEF Batches, IInv
    <3>2. act' \in Updates
      BY <2>1, <3>1, EmptyTable DEF Update, Updates, Table
    <3> QED
      BY <3>2, NoneIsNoUpdate
  <2>12. ServedOK'
    BY <2>11 DEF ServedOK
  <2> QED
    BY <2>4, <2>5, <2>7, <2>8, <2>10, <2>12 DEF QInv
<1> QED
  BY <1>5, <1>6, <1>7, <1>9, <1>10

-----------------------------------------------------------------------------
\* The update is sent.

\* An update that goes to the server keeps what was known of it.
LEMMA SentQuiet ==
  ASSUME IInv, QInv, UNCHANGED <<client, batch, late, want, cur, pend, dact, up, lsn, ls>>, act # None,
         torn' \in BOOLEAN, torn => torn',
         NEW w \in Updates, w.method = act.method, w.scope = act.scope, w.part = act.part, ~w.ok, w.again = act.again,
         ~(torn' /\ Delta(w)) => w.snap = act.snap \/ (Delta(act) /\ w.snap = act.frame.keep),
         Delta(w) => w.frame = act.frame,
         act' = Sent(w), chan' = Append(chan, Request(w)),
         act.step = "resolved" \/ (act.step = "queued" /\ act.method = "clear")
  PROVE  QInv'
<1> USE DEF QInv
<1>1. UNCHANGED <<table, mode, sess, ctx, gen, disposed>>
  BY DEF client
<1>2. act \in Updates /\ chan \in Seq(Messages) /\ act.ok = FALSE
  <2>1. act \in Updates /\ chan \in Seq(Messages) /\ ~act.ok
    BY DEF IInv, ActOK, Channel, ChanOK
  <2> QED
    BY <2>1 DEF Updates
<1>3. /\ act' \in Updates /\ act'.step = "sent" /\ act'.method = act.method /\ act'.scope = act.scope
      /\ act'.snap = w.snap /\ act'.part = act.part /\ act'.ok = FALSE /\ act'.frame = w.frame
      /\ act'.again = act.again
  BY DEF Sent, Updates
<1>5. act' # None
  BY <1>3, NoneIsNoUpdate
<1>6. Request(w) \in Messages /\ Request(w).type # "ctx" /\ Request(w).awaited = TRUE
  BY DEF Request, Requests, Messages, Updates, Table
<1>7. /\ \A i \in Slots : i \in Slots' /\ chan'[i] = chan[i]
      /\ \A i \in Slots' : (i \in Slots /\ chan'[i] = chan[i]) \/ chan'[i] = Request(w)
  <2>1. /\ \A i \in Slots : i \in Slots' /\ chan'[i] = chan[i]
        /\ \A i \in Slots' : i \in Slots \/ (i = Len(chan) + 1 /\ chan'[i] = Request(w))
    BY <1>2, <1>6, SlotsGrow
  <2> QED
    BY <2>1
<1>8. (Settled' <=> Settled) /\ (Ours(act)' <=> Ours(act)) /\ (Fresh(act)' <=> Fresh(act)) /\ Owed' = Owed
  BY <1>1, <1>3 DEF Settled, Ours, Fresh, Owed
<1>9. DeliveryOK'
  <2>1. /\ \A i \in Slots' : chan'[i].type = "ctx" => chan'[i].awaited /\ dact' # None /\ dact'.st = "sent"
        /\ \A i, j \in Slots' : chan'[i].type = "ctx" /\ chan'[j].type = "ctx" => i = j
    <3>1. \A i \in Slots' : chan'[i].type = "ctx" => i \in Slots /\ chan'[i] = chan[i]
      BY <1>6, <1>7
    <3>2. dact' = dact
      OBVIOUS
    <3> QED
      BY <3>1, <3>2 DEF DeliveryOK
  <2> QED
    BY <1>1, <1>8, <2>1 DEF DeliveryOK
<1>10. ModeOK' /\ FlushOK'
  BY <1>1 DEF ModeOK, FlushOK
<1>11. UpdateOK'
  BY <1>1, <1>2, <1>3, <1>8 DEF UpdateOK
<1>12. TakenOK'
  <2> SUFFICES ASSUME Fresh(act)'
               PROVE  /\ (torn' /\ Delta(act)') \/ Meant(act.snap)'
                      /\ Delta(act)' => Meant(act.frame.keep)'
    BY <1>3 DEF TakenOK, Gone
  <2>1. Meant(act.snap) /\ (Delta(act) => Meant(act.frame.keep))
    BY <1>8 DEF TakenOK, Gone
  <2>2. (torn' /\ Delta(w)) \/ Meant(w.snap)
    BY <2>1
  <2>3. Delta(w) => Meant(w.frame.keep)
    BY <2>1 DEF Delta
  <2> QED
    BY <1>1, <1>3, <1>8, <2>2, <2>3 DEF Meant, Delta
<1>13. AppliedOK'
  BY <1>2, <1>3 DEF AppliedOK
<1>14. DeltaOK'
  <2> SUFFICES ASSUME act'.method = "delta", Ours(act)', ~want', ~torn' PROVE DeltaOK'
    BY DEF DeltaOK
  <2>1. /\ batch.step = "sent" /\ act.part = batch.part /\ late = {} /\ Settled
        /\ \A i \in Slots : chan[i].type # "ctx" => chan[i].awaited
        /\ Agrees(ls.idx, DOMAIN act.part)
    BY <1>3, <1>8 DEF DeltaOK
  <2>2. Agrees(ls.idx, DOMAIN act.part)'
    BY <1>1, <1>3, <2>1 DEF Agrees
  <2>3. \A i \in Slots' : chan'[i].type # "ctx" => chan'[i].awaited
    BY <1>6, <1>7, <2>1
  <2> QED
    BY <1>2, <1>3, <1>8, <2>1, <2>2, <2>3 DEF DeltaOK
<1>15. ServedOK'
  BY <1>5 DEF ServedOK
<1> QED
  BY <1>9, <1>10, <1>11, <1>12, <1>13, <1>14, <1>15

\* The update is sent under a settled context, or ends without an answer.
LEMMA SendUpdateQuiet == ASSUME IInv, QInv, SendUpdate PROVE QInv'
<1>1. /\ UNCHANGED <<client, batch, late, want, cur, pend, dact, up, lsn, ls>> /\ act # None
      /\ act.step = "resolved"
  BY DEF SendUpdate, flush, delivery, server
<1>2. CASE /\ act.scope = Scope /\ act' = Sent(Written(act)) /\ chan' = Append(chan, Request(Written(act)))
           /\ torn' = (torn \/ (act.frame # None /\ act.frame.left # {}))
  <2> DEFINE w == Written(act)
  <2>1. act \in Updates /\ act.scope # None /\ ~act.ok
    BY <1>1 DEF IInv, ActOK
  <2>2. ~disposed /\ act.scope[2] = sess
    BY <1>2, <2>1, ScopeParts
  <2>3. /\ w \in Updates /\ Writes(w) /\ w.step = act.step
        /\ w.method = "full" => Gives(w) /\ Fits(w.frame) /\ w.frame.left = act.frame.left
        /\ w.method = "full" /\ w.frame.kind = "delta" => w.frame = act.frame
        /\ w.method # "full" => w = act
        /\ w.method = "full" /\ w.frame.kind = "full" => w.snap = act.snap
    BY <1>1, <2>2, WrittenIs DEF IInv, Channel
  <2>4. w.again = act.again
    BY <2>1 DEF Written, Updates
  <2>5. act' = Sent(w) /\ chan' = Append(chan, Request(w))
    BY <1>2
  <2> HIDE DEF w
  <2>6. w.method = act.method /\ w.scope = act.scope /\ w.part = act.part /\ ~w.ok
    BY <2>3 DEF Writes
  <2>7. Delta(w) => w.frame = act.frame
    <3>1. act.method # "full" => act.frame = None
      BY <1>1 DEF IInv, ActOK
    <3> QED
      BY <2>3, <2>6, <3>1 DEF Delta
  <2>8. ~(torn' /\ Delta(w)) => w.snap = act.snap \/ (Delta(act) /\ w.snap = act.frame.keep)
    <3> SUFFICES ASSUME ~(torn' /\ Delta(w)), w.method = "full", w.frame.kind = "delta"
                 PROVE  Delta(act) /\ w.snap = act.frame.keep
      <4>1. w.method = "full" => w.frame.kind \in {"full", "delta"}
        BY <2>3 DEF Fits, Frames
      <4> QED
        BY <2>3, <4>1
    <3>1. w.frame = act.frame /\ Gives(w) /\ w.frame \in Frames
      BY <2>3 DEF Fits
    <3>2. act.frame # None
      BY <3>1, NoneIsNoOther
    <3>3. act.frame.left = {}
      BY <1>2, <3>1, <3>2 DEF Delta
    <3>4. w.snap \in Table /\ act.frame.keep \in Table /\ \A l \in Label : w.snap[l] = act.frame.keep[l]
      BY <2>3, <3>1, <3>3 DEF Gives, Updates, Table
    <3>5. w.snap = act.frame.keep
      BY <3>4 DEF Table
    <3> QED
      BY <3>1, <3>2, <3>5 DEF Delta
  <2>9. torn' \in BOOLEAN /\ (torn => torn')
    BY <1>2 DEF QInv, ModeOK
  <2> QED
    BY <1>1, <2>3, <2>4, <2>5, <2>6, <2>7, <2>8, <2>9, SentQuiet
<1>3. CASE act' = [act EXCEPT !.step = "answered"] /\ UNCHANGED <<chan, torn>>
  <2>1. act \in Updates /\ chan \in Seq(Messages)
    BY <1>1 DEF IInv, ActOK, Channel, ChanOK
  <2>2. /\ act' \in Updates /\ act'.step = "answered" /\ act'.method = act.method /\ act'.scope = act.scope
        /\ act'.snap = act.snap /\ act'.part = act.part /\ act'.ok = act.ok /\ act'.frame = act.frame
    BY <1>3, <2>1, Moved
  <2>3. act'.again = act.again
    BY <1>3, <2>1 DEF Updates
  <2>4. Proceeds
    BY <1>1, <2>2, <2>3, NoneIsNoUpdate DEF Proceeds, Gone
  <2>5. Grown
    BY <1>3, <2>1, Unchanged
  <2>6. (Settled' <=> Settled) /\ DeliveryOK'
    BY <1>1, <1>3 DEF QInv, DeliveryOK, Settled, Slots, client
  <2> QED
    BY <1>1, <1>3, <2>4, <2>5, <2>6, ProceedsQuiet
<1> QED
  BY <1>2, <1>3 DEF SendUpdate, ContextHeld

\* The update w waits for the context of its server.
LEMMA WaitsQuiet ==
  ASSUME IInv, QInv, UNCHANGED <<client, batch, late, torn, want, up, lsn, ls>>, up, ~disposed, act # None,
         act.step = "queued", NEW w \in Updates, Deliver(<<lsn, ctx>>, act, w), w.step = "context",
         w.method = act.method, w.scope = act.scope, w.snap = act.snap, w.part = act.part, w.ok = act.ok,
         w.again = act.again, w.frame = act.frame \/ (Delta(w) => w.frame.keep = act.snap)
  PROVE  QInv'
<1>1. UNCHANGED <<ctx, disposed, sess>> /\ ActOK /\ PendOK /\ chan \in Seq(Messages) /\ sess \in Nat /\ ctx \in Nat
      /\ ctx <= sess /\ lsn \in Nat /\ act \in Updates
  BY DEF client, IInv, Channel, ChanOK, ClientOK, ActOK
<1> DEFINE k == <<lsn, ctx>>
<1>2. k \in Nat \X Nat /\ k = <<lsn', ctx'>> /\ k[2] = ctx
  BY <1>1
<1>3. Deliver(k, act, w)
  OBVIOUS
<1>4. w # None
  BY NoneIsNoUpdate
<1> HIDE DEF k
<1>5. k[2] <= sess' /\ sess' \in Nat /\ sess <= sess'
  BY <1>1, <1>2
<1>6. Grown
  BY <1>1, <1>2, <1>3, <1>4, <1>5, Delivered
<1>7. /\ DeliveryOK'
      /\ cur # None /\ cur.key = k => UNCHANGED <<cur, pend, dact, chan>>
  BY <1>1, <1>2, <1>3, DeliveredOnce DEF QInv
<1>8. cur # None /\ cur.key = k
  <2>1. k = <<lsn, ctx>>
    BY <1>1, <1>2
  <2> QED
    BY <2>1 DEF QInv, DeliveryOK
<1>9. (Settled' <=> Settled)
  BY <1>7, <1>8 DEF Settled
<1>10. act' = IF cur.st = "ok" THEN Resolved(w) ELSE w
  BY <1>3, <1>4, <1>8 DEF Deliver
<1>11. [w EXCEPT !.step = "resolved"] \in Updates /\ Resolved(w) = [w EXCEPT !.step = "resolved"]
  BY <1>4 DEF Updates, Resolved
<1>12. Proceeds
  <2>1. act' \in Updates
    BY <1>10, <1>11
  <2>2. act' # None
    BY <2>1, NoneIsNoUpdate
  <2>3. /\ act'.method = act.method /\ act'.scope = act.scope /\ act'.snap = act.snap
        /\ act'.part = act.part /\ act'.ok = act.ok /\ act'.again = act.again /\ act'.frame = w.frame
        /\ act'.step = "context" \/ (act'.step = "resolved" /\ cur.st = "ok")
    <3>1. CASE cur.st = "ok"
      <4>1. act' = [w EXCEPT !.step = "resolved"]
        BY <1>10, <1>11, <3>1
      <4> QED
        BY <3>1, <4>1 DEF Updates
    <3>2. CASE cur.st # "ok"
      BY <1>10, <3>2
    <3> QED
      BY <3>1, <3>2
  <2>4. act'.step = "resolved" => Settled'
    BY <1>8, <1>9, <2>3 DEF Settled
  <2> QED
    BY <2>2, <2>3, <2>4 DEF Proceeds, Delta, Gone
<1> QED
  BY <1>6, <1>7, <1>9, <1>12, ProceedsQuiet

\* The update begins: a retirement goes at once, another waits for the context.
LEMMA BeginQuiet == ASSUME IInv, QInv, Begin PROVE QInv'
<1>1. /\ UNCHANGED <<client, batch, late, torn, want, up, lsn, ls>> /\ act # None /\ act.step = "queued"
      /\ act.scope = Scope
  BY DEF Begin, flush, server
<1>2. act \in Updates /\ Scope # None
  BY <1>1 DEF IInv, ActOK
<1>3. up /\ ~disposed
  BY <1>2, ScopeParts
<1> DEFINE e == IF tscope # Scope THEN Reset(enc) ELSE enc
<1>4. CASE act.method = "clear" /\ act' = Sent(act) /\ chan' = Append(chan, Request(act)) /\ UNCHANGED delivery
  <2>1. ~act.ok /\ torn \in BOOLEAN
    BY <1>1 DEF IInv, ActOK, QInv, ModeOK
  <2> QED
    BY <1>1, <1>2, <1>4, <2>1, SentQuiet DEF delivery
<1>5. CASE Deliver(<<lsn, ctx>>, act, [act EXCEPT !.step = "context"])
  <2> DEFINE w == [act EXCEPT !.step = "context"]
  <2>1. /\ w \in Updates /\ w.step = "context" /\ w.method = act.method /\ w.scope = act.scope
        /\ w.snap = act.snap /\ w.part = act.part /\ w.ok = act.ok /\ w.again = act.again
        /\ w.frame = act.frame
    BY <1>2 DEF Updates
  <2>2. Deliver(<<lsn, ctx>>, act, w)
    BY <1>5
  <2> HIDE DEF w
  <2> QED
    BY <1>1, <1>3, <2>1, <2>2, WaitsQuiet
<1>6. CASE \E whole \in BOOLEAN :
             Deliver(<<lsn, ctx>>, act, [act EXCEPT !.step = "context", !.frame = Prepared(act.snap, e, whole)])
  <2>1. PICK whole \in BOOLEAN :
             Deliver(<<lsn, ctx>>, act, [act EXCEPT !.step = "context", !.frame = Prepared(act.snap, e, whole)])
    BY <1>6
  <2> DEFINE f == Prepared(act.snap, e, whole)
             w == [act EXCEPT !.step = "context", !.frame = f]
  <2>2. e \in Baselines
    BY ResetIsOne DEF IInv, Channel, EncOK
  <2>3. act.snap \in Table
    BY <1>2 DEF Updates, Table
  <2>4. f \in Frames /\ (f.kind = "delta" => f.keep = act.snap)
    BY <2>2, <2>3, Prepares
  <2>5. Deliver(<<lsn, ctx>>, act, w)
    BY <2>1
  <2> HIDE DEF f
  <2>6. /\ w \in Updates /\ w.step = "context" /\ w.method = act.method /\ w.scope = act.scope
        /\ w.snap = act.snap /\ w.part = act.part /\ w.ok = act.ok /\ w.again = act.again /\ w.frame = f
    BY <1>2, <2>4 DEF Updates
  <2> HIDE DEF w
  <2> QED
    BY <1>1, <1>3, <2>4, <2>5, <2>6, WaitsQuiet DEF Delta
<1> QED
  BY <1>4, <1>5, <1>6 DEF Begin

-----------------------------------------------------------------------------
\* The extension is deactivated, and the server runs.

\* After the deactivation no update is of the present owner.
LEMMA DisposeQuiet == ASSUME IInv, QInv, Dispose PROVE QInv'
<1> USE DEF QInv
<1>1. /\ UNCHANGED <<table, mode, sess, ctx, gen, batch, late, torn, want, dact, up, lsn, ls, chan>>
      /\ disposed' = TRUE /\ cur' = None /\ pend' = None
      /\ act' = act \/ (act # None /\ act' = [act EXCEPT !.step = "answered"])
  BY DEF Dispose, flush, server
<1>2. act' # None => act # None /\ act'.method = act.method /\ act'.scope = act.scope
  <2>1. act # None => act \in Updates
    BY DEF IInv, ActOK
  <2> QED
    BY <1>1, <2>1 DEF Updates
<1>3. ~Settled' /\ (act' # None => ~Ours(act)' /\ ~Fresh(act)')
  BY <1>1 DEF Settled, Ours, Fresh
<1>4. DeliveryOK'
  BY <1>1, <1>3 DEF DeliveryOK, Slots
<1>5. ModeOK' /\ FlushOK'
  BY <1>1 DEF ModeOK, FlushOK
<1>6. UpdateOK'
  BY <1>1, <1>2, <1>3 DEF UpdateOK
<1>7. TakenOK' /\ AppliedOK' /\ DeltaOK' /\ ServedOK'
  BY <1>1, <1>3 DEF TakenOK, AppliedOK, DeltaOK, ServedOK
<1> QED
  BY <1>4, <1>5, <1>6, <1>7

\* A server that runs again is told its context and wants the table.
LEMMA ServerRunsQuiet == ASSUME IInv, QInv, ServerRuns PROVE QInv'
<1> USE DEF QInv
<1> DEFINE k == <<lsn + 1, ctx>>
<1>1. /\ UNCHANGED <<client, batch, late, torn, ls>> /\ ~up /\ ~disposed /\ up' = TRUE /\ lsn' = lsn + 1
      /\ cur' = [key |-> k, st |-> "wait"] /\ act' = Again(Rejected(act)) /\ want' = TRUE
  BY DEF ServerRuns, flush, RequestFull
<1>2. UNCHANGED <<table, mode, sess, ctx, gen, disposed>> /\ lsn \in Nat /\ ctx \in Nat /\ gen \in Nat
      /\ chan \in Seq(Messages)
  BY <1>1 DEF client, IInv, ClientOK, Channel, ChanOK
<1>3. k \in Nat \X Nat /\ k[1] = lsn' /\ k = <<lsn', ctx'>>
  BY <1>1, <1>2
<1>4. IF dact = None
      THEN dact' = [key |-> k, st |-> "sent"] /\ UNCHANGED pend /\ chan' = Append(chan, ContextMessage(k))
      ELSE pend' = k /\ UNCHANGED <<dact, chan>>
  BY DEF ServerRuns
<1> HIDE DEF k
<1>5. cur' \in Deliveries /\ cur' # None /\ cur'.key = k /\ ~Settled'
  BY <1>1, <1>3, DeliveryIsOne DEF Settled
<1>6. DeliveryOK'
  <2>1. CASE dact = None
    <3>1. dact' = [key |-> k, st |-> "sent"] /\ UNCHANGED pend /\ chan' = Append(chan, ContextMessage(k))
      BY <1>4, <2>1
    <3>2. dact' \in Deliveries /\ dact' # None /\ dact'.st = "sent"
      BY <1>3, <3>1, DeliveryIsOne
    <3>3. pend' = None
      BY <2>1, <3>1 DEF DeliveryOK
    <3>4. dact' \in Deliveries /\ dact' # None /\ dact'.st = "sent" /\ pend' = None
      BY <3>2, <3>3
    <3>5. \A i \in Slots : chan[i].type # "ctx"
      BY <2>1 DEF DeliveryOK
    <3>6. /\ \A i \in Slots' : chan'[i].type = "ctx" => chan'[i].awaited /\ dact' # None /\ dact'.st = "sent"
          /\ \A i, j \in Slots' : chan'[i].type = "ctx" /\ chan'[j].type = "ctx" => i = j
      BY <1>2, <1>3, <3>4, <3>5, <3>1, ContextSent
    <3> QED
      BY <1>3, <1>5, <3>4, <3>6 DEF DeliveryOK
  <2>2. CASE dact # None
    <3>1. pend' = k /\ UNCHANGED <<dact, chan>>
      BY <1>4, <2>2
    <3>2. /\ \A i \in Slots' : chan'[i].type = "ctx" => chan'[i].awaited /\ dact' # None /\ dact'.st = "sent"
          /\ \A i, j \in Slots' : chan'[i].type = "ctx" /\ chan'[j].type = "ctx" => i = j
      BY <3>1 DEF DeliveryOK, Slots
    <3>3. pend' # None => dact' # None /\ (up' => pend'[1] = lsn')
      BY <1>3, <2>2, <3>1
    <3>4. dact' \in Deliveries \cup {None}
      BY <3>1 DEF DeliveryOK
    <3> QED
      BY <1>3, <1>5, <3>2, <3>3, <3>4 DEF DeliveryOK
  <2> QED
    BY <2>1, <2>2
<1>7. ModeOK' /\ FlushOK'
  BY <1>1, <1>2 DEF ModeOK, FlushOK
<1>8. ASSUME act' # None
      PROVE  /\ act # None /\ act'.method = act.method /\ act'.scope = act.scope /\ act.scope[1] \in Nat
             /\ act.scope[1] <= lsn
  <2>1. act # None
    BY <1>1, <1>8 DEF Again, Rejected
  <2>2. act \in Updates /\ act.scope \in Scopes
    BY <2>1 DEF IInv, ActOK
  <2> DEFINE r == Rejected(act)
  <2>3. r \in Updates /\ r.method = act.method /\ r.scope = act.scope
    BY <2>1, <2>2 DEF Rejected, Updates
  <2>4. act' = Again(r)
    BY <1>1
  <2> HIDE DEF r
  <2>5. act'.method = r.method /\ act'.scope = r.scope
    BY <2>3, <2>4, NoneIsNoUpdate DEF Again, Updates
  <2> QED
    BY <2>1, <2>2, <2>3, <2>5 DEF Scopes, UpdateOK
<1>9. act' # None => ~Ours(act)' /\ ~Fresh(act)'
  BY <1>1, <1>2, <1>8 DEF Ours, Fresh
<1>10. UpdateOK'
  <2>1. act' # None => act'.scope[1] <= lsn'
    BY <1>1, <1>2, <1>8
  <2> QED
    BY <1>1, <1>2, <1>8, <1>9, <2>1 DEF UpdateOK
<1>11. TakenOK' /\ AppliedOK' /\ DeltaOK' /\ ServedOK'
  BY <1>1, <1>9 DEF TakenOK, AppliedOK, DeltaOK, ServedOK
<1> QED
  BY <1>6, <1>7, <1>10, <1>11

-----------------------------------------------------------------------------
\* The server.

\* The index is the table the server accepted, when it has one.
LEMMA PatchedIsTable ==
  ASSUME ls \in Servers, ls.tab # None => ls.idx = ls.tab, NEW t \in Table
  PROVE  Patched(ls, t) = t
<1>1. CASE ls.tab = None
  BY <1>1 DEF Patched
<1>2. CASE ls.tab # None
  <2>1. ls.tab \in Table /\ ls.idx = ls.tab /\ ls.idx # Broken
    BY <1>2, NoneIsNoOther DEF Servers, Table
  <2>2. CASE ls.tab = t
    BY <1>2, <2>1, <2>2 DEF Patched
  <2>3. CASE ls.tab # t
    <3>1. Patched(ls, t) = [l \in Label |-> IF ls.tab[l] # t[l] THEN t[l] ELSE ls.idx[l]]
      BY <1>2, <2>1, <2>3 DEF Patched
    <3>2. \A l \in Label : (IF ls.tab[l] # t[l] THEN t[l] ELSE ls.idx[l]) = t[l]
      BY <2>1
    <3>3. t = [l \in Label |-> t[l]]
      BY DEF Table
    <3> QED
      BY <3>1, <3>2, <3>3
  <2> QED
    BY <2>2, <2>3
<1> QED
  BY <1>1, <1>2

\* What a request makes of the index.
Indexes(r, isOk, m) ==
  /\ r.tab # None => r.idx = r.tab
  /\ m.type = "full" /\ isOk => r.idx = m.snap
  /\ m.type = "clear" => r.tab = None /\ r.idx = Empty
  /\ m.type = "delta" /\ isOk => r.idx = Over(ls.idx, m.part)
  /\ m.type = "ctx" => r.idx \in {Empty, ls.idx} /\ (ls.tab = None => r.tab = None /\ r.idx = ls.idx)

\* The effect of a request on the index.
LEMMA EffectIndexes ==
  ASSUME ls \in Servers, ls.tab # None => ls.idx = ls.tab, NEW m \in Messages, m.type = "full" => Rebuilds(ls.dec, m)
  PROVE  Indexes(Effect(ls, m)[1], Effect(ls, m)[2], m)
<1>1. /\ ls.tab \in Table \cup {None} /\ ls.idx \in Table \cup {Broken} /\ ls.dec \in Decoders \cup {None}
      /\ ls.ctx \in Nat /\ Empty \in Table
  BY EmptyTable DEF Servers
<1>2. Cleared(ls) \in Servers /\ Cleared(ls).tab = None /\ Cleared(ls).idx = Empty
  BY <1>1 DEF Servers, Cleared
<1>3. CASE m.type = "ctx"
  <2>1. Effect(ls, m) = <<WithContext(ls, m.ctx), TRUE>> /\ m.ctx \in Nat
    BY <1>3 DEF Effect, Messages, Contexts, Requests
  <2> DEFINE s == IF m.ctx # ls.ctx /\ ls.tab # None THEN Cleared(ls) ELSE ls
             r == [s EXCEPT !.ctx = m.ctx]
  <2>2. /\ s \in Servers /\ (s = ls \/ (ls.tab # None /\ s.tab = None /\ s.idx = Empty))
    BY <1>2
  <2>3. WithContext(ls, m.ctx) = r
    BY DEF WithContext
  <2> HIDE DEF s
  <2>4. r.tab = s.tab /\ r.idx = s.idx
    BY <2>1, <2>2 DEF Servers
  <2> HIDE DEF r
  <2>5. (r.tab = ls.tab /\ r.idx = ls.idx) \/ (ls.tab # None /\ r.tab = None /\ r.idx = Empty)
    BY <2>2, <2>4
  <2>6. /\ r.tab # None => r.idx = r.tab
        /\ r.idx \in {Empty, ls.idx}
        /\ ls.tab = None => r.tab = None /\ r.idx = ls.idx
    BY <2>5
  <2>7. Effect(ls, m)[1] = r
    BY <2>1, <2>3
  <2> QED
    BY <1>3, <2>6, <2>7 DEF Indexes
<1>4. CASE m.type = "clear"
  BY <1>2, <1>4 DEF Effect, Indexes
<1>5. CASE m.type = "delta"
  <2>1. CASE ls.tab = None
    BY <1>5, <2>1 DEF Effect, Indexes
  <2>2. CASE ls.tab # None
    <3>1. ls.idx = ls.tab /\ ls.idx # Broken
      BY <1>1, <2>2, NoneIsNoOther DEF Table
    <3>2. WithDelta(ls, m.part) = [ls EXCEPT !.tab = Over(ls.tab, m.part), !.idx = Over(ls.idx, m.part)]
      BY <3>1 DEF WithDelta
    <3>3. /\ WithDelta(ls, m.part).tab = Over(ls.tab, m.part)
          /\ WithDelta(ls, m.part).idx = Over(ls.idx, m.part)
      BY <3>2 DEF Servers
    <3>4. Effect(ls, m) = <<WithDelta(ls, m.part), TRUE>>
      BY <1>5, <2>2 DEF Effect
    <3> QED
      BY <1>5, <3>1, <3>3, <3>4 DEF Indexes
  <2> QED
    BY <2>1, <2>2
<1>6. CASE m.type = "full"
  <2> DEFINE t == Decoded(ls, m.frame)
  <2>1. t \in {None, m.snap} /\ m.snap \in Table
    <3>1. m.snap \in Table /\ m.frame \in Frames
      BY <1>6 DEF Rebuilds, Gives, Messages, Contexts, Requests
    <3>2. m.frame.kind = "full" \/ m.frame.kind = "delta"
      BY <3>1 DEF Frames
    <3> QED
      BY <1>6, <3>1, <3>2 DEF Decoded, Rebuilds, Gives
  <2>2. Effect(ls, m) = IF t = None THEN <<Recovered(ls), FALSE>> ELSE <<WithFrame(ls, m.frame, t), TRUE>>
    BY <1>6 DEF Effect
  <2> HIDE DEF t
  <2>3. CASE t = None
    <3>1. Recovered(ls).tab = None
      BY <1>1 DEF Servers, Recovered
    <3> QED
      BY <1>6, <2>2, <2>3, <3>1 DEF Indexes
  <2>4. CASE t # None
    <3> DEFINE d == IF m.frame.keep = None THEN None ELSE [seq |-> m.frame.seq, tab |-> t]
    <3>1. t = m.snap /\ t \in Table
      BY <2>1, <2>4
    <3>2. WithFrame(ls, m.frame, t) = [ls EXCEPT !.tab = t, !.idx = t, !.dec = d]
      BY <3>1, PatchedIsTable DEF WithFrame
    <3> HIDE DEF d
    <3>3. WithFrame(ls, m.frame, t).tab = t /\ WithFrame(ls, m.frame, t).idx = t
      BY <3>2 DEF Servers
    <3> QED
      BY <1>6, <2>2, <2>4, <3>1, <3>3 DEF Indexes
  <2> QED
    BY <2>3, <2>4
<1> QED
  BY <1>3, <1>4, <1>5, <1>6 DEF Messages, Contexts, Requests

\* The publisher hears of the request it awaits an answer for, or nothing.
LEMMA Hears ==
  ASSUME IInv, chan # <<>>, NEW isOk \in BOOLEAN, Answer(chan[1], isOk)
  PROVE  /\ chan[1].type = "ctx" \/ ~chan[1].awaited => act' = act
         /\ chan[1].type # "ctx" /\ chan[1].awaited =>
              /\ act # None /\ act.step = "sent" /\ ~act.ok /\ chan[1] = Request(act)
              /\ \A j \in Slots : j > 1 => chan[j].type = "ctx"
              /\ act' # None /\ act'.step = "answered" /\ (act'.ok => isOk)
              /\ act'.method = act.method /\ act'.scope = act.scope /\ act'.snap = act.snap
              /\ act'.part = act.part /\ act'.again = act.again /\ act'.frame = act.frame
<1>1. 1 \in Slots
  BY HeadIsFirst
<1>2. CASE chan[1].type = "ctx" \/ ~chan[1].awaited
  BY <1>2 DEF Answer
<1>3. CASE chan[1].type # "ctx" /\ chan[1].awaited
  <2>1. act' = Aware(act, isOk)
    BY <1>3 DEF Answer
  <2>2. /\ act # None /\ act.step = "sent" /\ chan[1] = Request(act)
        /\ \A j \in Slots : j > 1 => chan[j].type = "ctx"
    BY <1>1, <1>3 DEF IInv, Channel, AwaitOK, Underway
  <2>3. act \in Updates /\ ~act.ok
    BY <2>2 DEF IInv, ActOK
  <2>4. act' = [act EXCEPT !.step = "answered", !.ok = isOk]
    BY <2>1, <2>2 DEF Aware
  <2>5. /\ act'.step = "answered" /\ act'.ok = isOk
        /\ act'.method = act.method /\ act'.scope = act.scope /\ act'.snap = act.snap
        /\ act'.part = act.part /\ act'.again = act.again /\ act'.frame = act.frame
    BY <2>3, <2>4 DEF Updates
  <2>6. act' # None
    BY <2>3, <2>4, NoneIsNoUpdate DEF Updates
  <2> QED
    BY <1>3, <2>2, <2>3, <2>5, <2>6
<1> QED
  BY <1>2, <1>3

\* The server serves or fails the head of the channel.
LEMMA HeadQuiet ==
  ASSUME IInv, QInv, chan # <<>>, chan' = Tail(chan),
         UNCHANGED <<client, batch, late, torn, want, cur, pend, up, lsn>>, NEW isOk \in BOOLEAN,
         Answer(chan[1], isOk), Indexes(ls', isOk, chan[1])
  PROVE  QInv'
<1> USE DEF QInv
<1> DEFINE m == chan[1]
<1>1. UNCHANGED <<table, mode, sess, ctx, gen, disposed>> /\ chan \in Seq(Messages)
  BY DEF client, IInv, Channel, ChanOK
<1>2. /\ m \in Messages /\ 1 \in Slots
      /\ \A i \in Slots' : i \in Nat /\ i > 0 /\ i + 1 \in Slots /\ chan'[i] = chan[i + 1]
  BY <1>1, Taken, HeadIsFirst
<1>3. /\ m.type = "ctx" \/ ~m.awaited => act' = act
      /\ m.type # "ctx" /\ m.awaited =>
           /\ act # None /\ act.step = "sent" /\ ~act.ok /\ m = Request(act)
           /\ \A j \in Slots : j > 1 => chan[j].type = "ctx"
           /\ act' # None /\ act'.step = "answered" /\ (act'.ok => isOk)
           /\ act'.method = act.method /\ act'.scope = act.scope /\ act'.snap = act.snap
           /\ act'.part = act.part /\ act'.again = act.again /\ act'.frame = act.frame
  BY Hears
<1>4. m.type = "ctx" => m.awaited /\ dact # None /\ dact.st = "sent" /\ ~Settled
  BY <1>2 DEF DeliveryOK
<1>5. OnlyContexts /\ (act = None \/ act.ok) => m.type = "ctx" /\ OnlyContexts'
  BY <1>2 DEF OnlyContexts
<1> HIDE DEF m
<1>6. Settled' <=> Settled
  BY DEF Settled
<1>7. /\ act' = None <=> act = None
      /\ act # None =>
           /\ act'.method = act.method /\ act'.scope = act.scope /\ act'.snap = act.snap
           /\ act'.part = act.part /\ act'.again = act.again /\ act'.frame = act.frame
           /\ act'.step \in {"resolved", "sent"} => act'.step = act.step
           /\ act'.step # "answered" => act' = act
  BY <1>3
<1>8. /\ act # None => (Ours(act)' <=> Ours(act)) /\ (Fresh(act)' <=> Fresh(act))
      /\ Owed' = Owed
  BY <1>1, <1>7 DEF Ours, Fresh, Owed
<1>9. DeliveryOK'
  <2>1. CASE m.type = "ctx"
    <3>1. dact' = [dact EXCEPT !.st = "answered"] /\ dact \in Deliveries
      BY <1>4, <2>1 DEF Answer, m, DeliveryOK
    <3>2. dact' \in Deliveries /\ dact' # None
      BY <3>1, NoneIsNoOther DEF Deliveries
    <3>3. \A j \in Slots : chan[j].type = "ctx" => j = 1
      BY <1>2, <2>1 DEF DeliveryOK, m
    <3>4. \A i \in Slots' : i + 1 # 1
      BY <1>2
    <3>5. \A i \in Slots' : chan'[i].type # "ctx"
      BY <1>2, <3>3, <3>4
    <3> QED
      BY <1>1, <1>4, <1>6, <2>1, <3>2, <3>5 DEF DeliveryOK
  <2>2. CASE m.type # "ctx"
    <3>1. dact' = dact
      BY <2>2 DEF Answer, m
    <3>2. \A i \in Slots' : chan'[i].type = "ctx" => chan'[i].awaited /\ dact' # None /\ dact'.st = "sent"
      BY <1>2, <3>1 DEF DeliveryOK
    <3>3. \A i, j \in Slots' : chan'[i].type = "ctx" /\ chan'[j].type = "ctx" => i = j
      <4> SUFFICES ASSUME NEW i \in Slots', NEW j \in Slots', chan'[i].type = "ctx", chan'[j].type = "ctx"
                   PROVE  i = j
        OBVIOUS
      <4>1. i + 1 = j + 1
        BY <1>2 DEF DeliveryOK
      <4> QED
        BY <1>2, <4>1
    <3> QED
      BY <1>1, <1>6, <3>1, <3>2, <3>3 DEF DeliveryOK
  <2> QED
    BY <2>1, <2>2
<1>10. ModeOK'
  BY <1>1 DEF ModeOK, Indexes
<1>11. FlushOK'
  BY <1>1 DEF FlushOK
<1>12. ASSUME act' # None, act'.ok, ~act.ok
       PROVE  /\ m.type # "ctx" /\ m.awaited /\ isOk /\ act.step = "sent" /\ m = Request(act)
              /\ m.type = act.method /\ m.snap = act.snap /\ m.part = act.part /\ OnlyContexts'
  <2>1. /\ m.type # "ctx" /\ m.awaited /\ isOk /\ act.step = "sent" /\ m = Request(act)
        /\ \A j \in Slots : j > 1 => chan[j].type = "ctx"
    BY <1>3, <1>12
  <2>2. \A i \in Slots' : i + 1 > 1
    BY <1>2
  <2> QED
    BY <1>2, <2>1, <2>2 DEF OnlyContexts, Request
<1>13. UpdateOK'
  <2> SUFFICES ASSUME act' # None PROVE UpdateOK'
    BY DEF UpdateOK
  <2>1. act'.scope[1] <= lsn' /\ act'.scope[4] <= gen' /\ (act'.method = "clear" <=> ~act'.scope[3])
    BY <1>1, <1>7 DEF UpdateOK
  <2>2. act'.scope[3] /\ act'.scope[2] = sess' /\ act'.scope[4] = gen' => mode' = "ready"
    BY <1>1, <1>7 DEF UpdateOK
  <2>3. act'.method # "delta" /\ ~disposed' => want'
    BY <1>1, <1>7 DEF UpdateOK
  <2>4. act'.method # "clear" /\ Ours(act)' /\ (act'.step \in {"resolved", "sent"} \/ act'.ok) => Settled'
    BY <1>6, <1>7, <1>8, <1>12 DEF UpdateOK
  <2>5. Fresh(act)' /\ act'.method = "clear" => mode' # "ready"
    BY <1>1, <1>7, <1>8 DEF UpdateOK
  <2> QED
    BY <2>1, <2>2, <2>3, <2>4, <2>5 DEF UpdateOK
<1>14. TakenOK'
  <2>1. act # None => (Gone(act) => Gone(act)')
    BY <1>3 DEF Gone
  <2> QED
    BY <1>1, <1>7, <1>8, <2>1 DEF TakenOK, Meant, Delta
<1>15. AppliedOK'
  <2> SUFFICES ASSUME act' # None, act'.ok, Ours(act)' PROVE AppliedOK'
    BY DEF AppliedOK
  <2>1. act # None /\ Ours(act) /\ act'.method = act.method /\ act'.snap = act.snap
    BY <1>7, <1>8
  <2>2. CASE act.ok
    <3>1. /\ OnlyContexts
          /\ act.method = "full" => ls.idx = act.snap
          /\ act.method = "clear" => ls.tab = None /\ ls.idx = Empty
      BY <2>1, <2>2 DEF AppliedOK
    <3>2. m.type = "ctx" /\ OnlyContexts'
      BY <1>5, <2>2, <3>1
    <3>3. act.method = "clear"
      BY <1>4, <2>1, <2>2, <3>2 DEF UpdateOK
    <3>4. ls'.tab = None /\ ls'.idx = Empty
      BY <3>1, <3>2, <3>3 DEF Indexes, m
    <3> QED
      BY <2>1, <3>2, <3>3, <3>4 DEF AppliedOK
  <2>3. CASE ~act.ok
    <3>1. m.type = act.method /\ m.snap = act.snap /\ isOk /\ OnlyContexts'
      BY <1>12, <2>3
    <3>2. /\ act.method = "full" => ls'.idx = act.snap
          /\ act.method = "clear" => ls'.tab = None /\ ls'.idx = Empty
      BY <3>1 DEF Indexes, m
    <3> QED
      BY <2>1, <3>1, <3>2 DEF AppliedOK
  <2> QED
    BY <2>2, <2>3
<1>16. DeltaOK'
  <2> SUFFICES ASSUME act' # None, act'.method = "delta", Ours(act)', ~want', ~torn' PROVE DeltaOK'
    BY DEF DeltaOK
  <2>1. act # None /\ act.method = "delta" /\ Ours(act) /\ ~want /\ ~torn /\ act'.part = act.part
    BY <1>7, <1>8
  <2>2. /\ batch.step = "sent" /\ act.part = batch.part /\ late = {} /\ Settled
        /\ act.step # "answered" =>
             /\ \A i \in Slots : chan[i].type # "ctx" => chan[i].awaited
             /\ Agrees(ls.idx, DOMAIN act.part)
        /\ act.ok => Agrees(ls.idx, {})
    BY <2>1 DEF DeltaOK
  <2>3. m.type # "ctx"
    BY <1>4, <2>2
  <2>4. ~act.ok
    BY <1>5, <2>1, <2>3 DEF AppliedOK
  <2>5. act'.step = "answered"
    <3> SUFFICES ASSUME act'.step # "answered" PROVE FALSE
      OBVIOUS
    <3>1. act.step # "answered" /\ act' = act
      BY <1>7, <2>1
    <3>2. m.awaited
      BY <1>2, <2>2, <2>3, <3>1 DEF m
    <3> QED
      BY <1>3, <2>3, <3>2
  <2>6. act'.ok => Agrees(ls.idx, {})'
    <3> SUFFICES ASSUME act'.ok PROVE Agrees(ls.idx, {})'
      OBVIOUS
    <3>1. isOk /\ act.step = "sent" /\ m.type = "delta" /\ m.part = batch.part
      BY <1>12, <2>1, <2>2, <2>4
    <3>2. ls'.idx = Over(ls.idx, batch.part)
      BY <3>1 DEF Indexes, m
    <3>3. ls.idx # Broken /\ \A l \in Label \ DOMAIN batch.part : ls.idx[l] = table[l]
      BY <2>2, <3>1 DEF Agrees
    <3>4. \A l \in DOMAIN batch.part : batch.part[l] = table[l]
      BY <2>2 DEF FlushOK
    <3>5. \A l \in Label : ls'.idx[l] = table[l]
      BY <3>2, <3>3, <3>4 DEF Over
    <3>6. table \in Table
      BY DEF IInv, ClientOK
    <3>7. ls'.idx \in Table
      BY <3>2, <3>5, <3>6 DEF Over, Table
    <3> QED
      BY <1>1, <3>5, <3>7, NoneIsNoOther DEF Agrees, Table
  <2> QED
    BY <1>6, <2>1, <2>2, <2>5, <2>6 DEF DeltaOK
<1>17. ServedOK'
  <2> SUFFICES ASSUME up', ~disposed', ~want', act' = None, ~torn' PROVE ServedOK'
    BY DEF ServedOK
  <2>1. act = None /\ up /\ ~disposed /\ ~want /\ ~torn
    BY <1>1, <1>7
  <2>2. OnlyContexts /\ Agrees(ls.idx, Owed) /\ (mode = "ready" => Settled)
    BY <2>1 DEF ServedOK
  <2>3. m.type = "ctx" /\ OnlyContexts'
    BY <1>5, <2>1, <2>2
  <2>4. mode # "ready"
    BY <1>4, <2>2, <2>3
  <2>5. table = Empty /\ Owed = {}
    BY <2>4 DEF ModeOK, Owed
  <2>6. ls'.idx \in {Empty, ls.idx}
    BY <2>3 DEF Indexes, m
  <2>7. Empty # Broken
    BY EmptyTable, NoneIsNoOther DEF Table
  <2>8. Agrees(ls.idx, Owed)'
    BY <1>1, <1>8, <2>2, <2>5, <2>6, <2>7 DEF Agrees
  <2> QED
    BY <1>1, <2>3, <2>4, <2>8 DEF ServedOK
<1> QED
  BY <1>9, <1>10, <1>11, <1>13, <1>14, <1>15, <1>16, <1>17

\* A request is served.
LEMMA ServeQuiet == ASSUME IInv, QInv, Serve PROVE QInv'
<1> DEFINE r == Effect(ls, chan[1])
<1>1. /\ chan # <<>> /\ chan' = Tail(chan) /\ ls' = Effect(ls, Head(chan))[1]
      /\ Answer(Head(chan), Effect(ls, Head(chan))[2])
      /\ UNCHANGED <<client, batch, late, torn, want, cur, pend, up, lsn>>
  BY DEF Serve, flush
<1>2. Head(chan) = chan[1] /\ chan[1] \in Messages /\ 1 \in Slots
  BY <1>1, HeadIsFirst
<1>3. ls \in Servers /\ (chan[1].type = "full" => Rebuilds(ls.dec, chan[1])) /\ (ls.tab # None => ls.idx = ls.tab)
  BY <1>2 DEF IInv, ServerOK, Channel, ChanOK, QInv, ModeOK
<1>4. r[2] \in BOOLEAN /\ Indexes(r[1], r[2], chan[1])
  BY <1>2, <1>3, EffectServes, EffectIndexes
<1>5. ls' = r[1] /\ Answer(chan[1], r[2])
  BY <1>1, <1>2
<1> HIDE DEF r
<1> QED
  BY <1>1, <1>4, <1>5, HeadQuiet

\* A request fails, maybe half way.
LEMMA ServeFailsQuiet == ASSUME IInv, QInv, ServeFails PROVE QInv'
<1>1. /\ chan # <<>> /\ chan' = Tail(chan) /\ Head(chan).type \in {"full", "delta"}
      /\ Answer(Head(chan), FALSE)
      /\ UNCHANGED <<client, batch, late, torn, want, cur, pend, up, lsn>>
  BY DEF ServeFails, flush
<1>2. Head(chan) = chan[1]
  BY <1>1, HeadIsFirst
<1>3. PICK i \in {ls.idx, Broken} : ls' = Recovered([ls EXCEPT !.idx = i])
  BY DEF ServeFails
<1>4. ls'.tab = None
  <2>1. ls \in Servers
    BY DEF IInv, ServerOK
  <2>2. ls' = [[ls EXCEPT !.idx = i] EXCEPT !.tab = None, !.dec = None]
    BY <1>3 DEF Recovered
  <2> QED
    BY <2>1, <2>2 DEF Servers
<1>5. Indexes(ls', FALSE, chan[1])
  BY <1>1, <1>2, <1>4 DEF Indexes
<1>6. Answer(chan[1], FALSE)
  BY <1>1, <1>2
<1> QED
  BY <1>1, <1>5, <1>6, HeadQuiet

\* The request under way is withdrawn, or nobody awaits its answer any more.
LEMMA UpdateTimesOutQuiet == ASSUME IInv, QInv, UpdateTimesOut PROVE QInv'
<1> USE DEF QInv
<1>1. /\ UNCHANGED <<client, batch, late, torn, want, cur, pend, dact, up, lsn, ls>>
      /\ act # None /\ act.step = "sent" /\ act' = [act EXCEPT !.step = "answered"]
  BY DEF UpdateTimesOut, flush, delivery, server
<1>2. UNCHANGED <<table, mode, sess, ctx, gen, disposed>>
  BY <1>1 DEF client
<1>3. act \in Updates /\ ~act.ok
  BY <1>1 DEF IInv, ActOK
<1>4. /\ act' \in Updates /\ act'.step = "answered" /\ act'.method = act.method /\ act'.scope = act.scope
      /\ act'.snap = act.snap /\ act'.part = act.part /\ act'.ok = act.ok /\ act'.again = act.again
      /\ act'.frame = act.frame
  BY <1>1, <1>3 DEF Updates
<1>5. act' # None
  BY <1>4, NoneIsNoUpdate
<1>6. PICK n \in DOMAIN chan : /\ chan[n].type # "ctx" /\ chan[n].awaited
                               /\ chan' \in {Without(chan, n), [chan EXCEPT ![n].awaited = FALSE]}
  BY DEF UpdateTimesOut
<1>7. chan \in Seq(Messages) /\ Len(chan) \in Nat /\ DOMAIN chan = Slots /\ n \in Slots
  BY <1>6 DEF IInv, Channel, ChanOK, Slots
<1>8. /\ \A i \in Slots' : chan'[i].type = "ctx" => chan'[i].awaited /\ dact' # None /\ dact'.st = "sent"
      /\ \A i, j \in Slots' : chan'[i].type = "ctx" /\ chan'[j].type = "ctx" => i = j
  <2>1. CASE chan' = Without(chan, n)
    <3> DEFINE at(i) == IF i < n THEN i ELSE i + 1
    <3>1. Len(chan) - 1 \in Nat /\ \A i \in 1..Len(chan) - 1 : at(i) \in Slots \ {n} /\ chan[at(i)] \in Messages
      BY <1>7 DEF Slots
    <3>2. /\ chan' \in Seq(Messages) /\ Len(chan') = Len(chan) - 1
          /\ \A i \in 1..Len(chan) - 1 : chan'[i] = chan[at(i)]
      BY <1>7, <2>1, <3>1 DEF Without
    <3>3. \A i \in Slots' : at(i) \in Slots \ {n} /\ chan'[i] = chan[at(i)]
      BY <3>1, <3>2 DEF Slots
    <3>4. \A i, j \in Slots' : at(i) = at(j) => i = j
      BY <1>7, <3>2 DEF Slots
    <3> HIDE DEF at
    <3> QED
      BY <1>1, <3>3, <3>4 DEF DeliveryOK
  <2>2. CASE chan' = [chan EXCEPT ![n].awaited = FALSE]
    <3> DEFINE m == [chan[n] EXCEPT !.awaited = FALSE]
    <3>1. chan[n] \in Messages
      BY <1>7 DEF Slots
    <3>2. m \in Messages /\ m.type = chan[n].type
      BY <3>1 DEF Messages, Contexts, Requests
    <3>3. chan' = [chan EXCEPT ![n] = m]
      BY <2>2
    <3> HIDE DEF m
    <3>4. Slots' = Slots /\ chan'[n] = m /\ \A i \in Slots \ {n} : chan'[i] = chan[i]
      BY <1>7, <3>2, <3>3 DEF Slots
    <3> QED
      BY <1>1, <1>6, <3>2, <3>4 DEF DeliveryOK
  <2> QED
    BY <1>6, <2>1, <2>2
<1>9. (Settled' <=> Settled) /\ (Ours(act)' <=> Ours(act)) /\ (Fresh(act)' <=> Fresh(act)) /\ Owed' = Owed
  BY <1>1, <1>2, <1>4 DEF Settled, Ours, Fresh, Owed
<1>10. DeliveryOK'
  BY <1>1, <1>2, <1>8, <1>9 DEF DeliveryOK
<1>11. ModeOK' /\ FlushOK'
  BY <1>1, <1>2 DEF ModeOK, FlushOK
<1>12. UpdateOK'
  BY <1>1, <1>2, <1>3, <1>4, <1>9 DEF UpdateOK
<1>13. TakenOK' /\ AppliedOK'
  BY <1>1, <1>2, <1>3, <1>4, <1>9 DEF TakenOK, Meant, Delta, Gone, AppliedOK
<1>14. DeltaOK'
  BY <1>1, <1>3, <1>4, <1>9 DEF DeltaOK
<1>15. ServedOK'
  BY <1>5 DEF ServedOK
<1> QED
  BY <1>10, <1>11, <1>12, <1>13, <1>14, <1>15

\* A new connection begins with a new server and nothing under way.
LEMMA ClosedQuiet == ASSUME IInv, QInv, Closed PROVE QInv'
<1> USE DEF QInv
<1>1. /\ UNCHANGED <<client, batch, late, torn, want, lsn>> /\ up' = FALSE /\ ls' = NewServer /\ chan' = <<>>
      /\ act' = Rejected(Aware(act, FALSE)) \/ act' = Aware(act, FALSE)
      /\ (cur' = None /\ pend' = None /\ dact' = None) \/ UNCHANGED <<cur, pend, dact>>
  BY DEF Closed, flush, delivery
<1>2. UNCHANGED <<table, mode, sess, ctx, gen, disposed>>
  BY <1>1 DEF client
<1>3. act' # None => act # None /\ act'.method = act.method /\ act'.scope = act.scope
  <2>1. CASE act = None
    BY <1>1, <2>1 DEF Aware, Rejected
  <2>2. CASE act # None
    <3>1. act \in Updates
      BY <2>2 DEF IInv, ActOK
    <3> DEFINE a == Aware(act, FALSE)
    <3>2. a \in Updates /\ a.method = act.method /\ a.scope = act.scope
      BY <2>2, <3>1 DEF Aware, Updates
    <3>3. act' = a \/ act' = Rejected(a)
      BY <1>1
    <3> HIDE DEF a
    <3>4. act'.method = a.method /\ act'.scope = a.scope
      BY <3>2, <3>3 DEF Rejected, Updates
    <3> QED
      BY <2>2, <3>2, <3>4
  <2> QED
    BY <2>1, <2>2
<1>4. Slots' = {}
  BY <1>1 DEF Slots
<1>5. DeliveryOK'
  <2>1. CASE cur' = None /\ pend' = None /\ dact' = None
    BY <1>1, <1>4, <2>1 DEF DeliveryOK, Settled
  <2>2. CASE UNCHANGED <<cur, pend, dact>>
    BY <1>1, <1>4, <2>2 DEF DeliveryOK, Settled
  <2> QED
    BY <1>1, <2>1, <2>2
<1>6. ModeOK'
  BY <1>1, <1>2 DEF ModeOK, NewServer
<1>7. FlushOK'
  BY <1>1, <1>2 DEF FlushOK
<1>8. act' # None => ~Ours(act)' /\ ~Fresh(act)'
  BY <1>1 DEF Ours, Fresh
<1>9. UpdateOK'
  BY <1>1, <1>2, <1>3, <1>8 DEF UpdateOK
<1>10. TakenOK' /\ AppliedOK' /\ DeltaOK' /\ ServedOK'
  BY <1>1, <1>8 DEF TakenOK, AppliedOK, DeltaOK, ServedOK
<1> QED
  BY <1>5, <1>6, <1>7, <1>9, <1>10

-----------------------------------------------------------------------------
\* The specification.

\* It holds at first.
LEMMA InitQuiet == Init => QInv
<1> SUFFICES ASSUME Init PROVE QInv
  OBVIOUS
<1>1. /\ table = Empty /\ mode = "stopped" /\ gen = 0 /\ batch = NoBatch /\ act = None /\ want = TRUE
      /\ torn = FALSE /\ cur = None /\ pend = None /\ dact = None /\ up = FALSE /\ chan = <<>> /\ ls = NewServer
  BY DEF Init
<1>2. Slots = {} /\ ~Settled
  BY <1>1 DEF Slots, Settled
<1>3. batch.step = "idle" /\ batch.part = NoPart /\ batch.gen = 0 /\ DOMAIN batch.part = {}
  BY <1>1, NoOne DEF NoBatch
<1>4. ls.tab = None
  BY <1>1 DEF NewServer
<1>5. DeliveryOK /\ ModeOK
  BY <1>1, <1>2, <1>4 DEF DeliveryOK, ModeOK
<1>6. FlushOK
  BY <1>1, <1>3 DEF FlushOK
<1>7. UpdateOK /\ TakenOK /\ AppliedOK /\ DeltaOK /\ ServedOK
  BY <1>1 DEF UpdateOK, TakenOK, AppliedOK, DeltaOK, ServedOK
<1> QED
  BY <1>5, <1>6, <1>7 DEF QInv

\* It holds while nothing happens.
LEMMA StutterQuiet == ASSUME IInv, QInv, UNCHANGED vars PROVE QInv'
<1>1. Still /\ UNCHANGED <<batch, late, torn, want, act>>
  BY DEF vars, Still, flush, pub
<1> QED
  BY <1>1, SameQuiet

\* Every step keeps it.
LEMMA StepQuiet == IInv /\ QInv /\ [Next]_vars => QInv'
<1> SUFFICES ASSUME IInv, QInv, [Next]_vars PROVE QInv'
  OBVIOUS
<1>1. CASE UNCHANGED vars
  BY <1>1, StutterQuiet
<1>2. CASE \/ ContextAcknowledged \/ TimerFires \/ BeginCrossed \/ Begin \/ SendUpdate \/ Acknowledged \/ Dispose
  BY <1>2, ContextAcknowledgedQuiet, TimerFiresQuiet, BeginCrossedQuiet, BeginQuiet, SendUpdateQuiet,
     AcknowledgedQuiet, DisposeQuiet
<1>3. CASE \/ BatchStarts \/ (\E l \in Label : \E r \in first + 1..rev + 1 : Reindexed(l, r)) \/ BatchEnds
           \/ PublishDelta
  BY <1>3, BatchStartsQuiet, ReindexedQuiet, BatchEndsQuiet, PublishDeltaQuiet
<1>4. CASE \/ Launch \/ Initialized \/ Frame \/ StartFails \/ DaemonEnds \/ RefreshStarts \/ RootsChange
  BY <1>4, LaunchQuiet, InitializedQuiet, FrameQuiet, StartFailsQuiet, DaemonEndsQuiet, RefreshStartsQuiet,
     RootsChangeQuiet
<1>5. CASE Serve \/ ServeFails \/ UpdateTimesOut \/ ServerStops \/ ContextTimesOut \/ ServerRuns
  BY <1>5, ServeQuiet, ServeFailsQuiet, UpdateTimesOutQuiet, ClosedQuiet, ServerRunsQuiet
     DEF ServerStops, ContextTimesOut
<1> QED
  BY <1>1, <1>2, <1>3, <1>4, <1>5 DEF Next

\* With nothing to publish, the server serves the client's table, whatever daemons,
\* servers, saves and failures came before: what an update of the complete table, a
\* delta and a context make of the index, in the order the channel brings them.
THEOREM QuietIsCurrentHolds == Spec => []QuietIsCurrent
<1>1. QInv => QuietIsCurrent
  <2> SUFFICES ASSUME QInv, ~Pending, ~torn
               PROVE  ls.idx # Broken /\ \A l \in Label \ DOMAIN batch.part : ls.idx[l] = table[l]
    BY DEF QuietIsCurrent
  <2>1. ~want /\ act = None /\ Scope # None
    BY DEF Pending
  <2>2. up /\ ~disposed
    BY <2>1, ScopeParts
  <2>3. Agrees(ls.idx, Owed)
    BY <2>1, <2>2 DEF QInv, ServedOK
  <2>4. Owed \subseteq DOMAIN batch.part
    BY DEF Owed
  <2> QED
    BY <2>3, <2>4 DEF Agrees
<1>2. IInv /\ QInv /\ [Next]_vars => IInv' /\ QInv'
  BY StepInvariant, StepQuiet
<1> QED
  BY InitInvariant, InitQuiet, <1>1, <1>2, PTL DEF Spec
==============================================================================
