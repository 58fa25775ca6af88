------------------------ MODULE SurfaceTransportProofs ------------------------
(***************************************************************************)
(* A frame that the client accepts gives it exactly the daemon's table of  *)
(* that moment, and once everything is quiet the client's table is the     *)
(* daemon's, and it never goes back to an older entry, for any number of   *)
(* models, threads, refreshes and failures.                                *)
(*                                                                         *)
(* The first argument needs no order of the lines: every frame that was    *)
(* written carries what its sequence published (Sound), alone or over what *)
(* its base published, and the client's baseline is what its sequence      *)
(* published (BaseOK).  A frame is encoded before it is written, so what   *)
(* a publisher holds fits the encoder's baseline as long as it may still   *)
(* write it (PubsOK): every frame makes what others hold stale.            *)
(*                                                                         *)
(* The second does: it follows one reindex and one initialize through the  *)
(* four places where they wait (SavesOK, InitsOK), knows which lines were  *)
(* computed before which (OrderOK), and shows that what the daemon changes *)
(* is always still to be published (FreshOK), on its way as a reply that   *)
(* nothing replaces (RepliesOK, FramesOK, FirstOK), or served (ViewOK).    *)
(*                                                                         *)
(* The third shows that the client serves a replica (TableReplica).  It    *)
(* compares, label by label, what is published, what is served, what the   *)
(* replies under way say and what publishers hold: each was the daemon's   *)
(* before the next (KnownOK, LogOK, TurnsOK, HeldOK), and a reply lies     *)
(* between the frames before and after it was computed (PlacedOK).         *)
(***************************************************************************)
EXTENDS SurfaceTransport, TLAPS

Table == [Label -> Nat]
Parts == UNION {[S -> Nat] : S \in SUBSET Label}

\* What travels.
Frames == [type : {"frame"}, kind : {"full", "delta"}, seq : Nat, base : Nat, part : Parts, whole : BOOLEAN]
Initials == [type : {"init"}, id : Nat, tab : Table, seq : Nat, asOf : Nat]
Reindexed == [type : {"reindex"}, id : Nat, label : Label \cup {None}, rev : Nat, asOf : Nat]
Resynced == [type : {"resync"}, id : Nat]
Lines == Frames \cup Initials \cup Reindexed \cup Resynced
Requests == [type : {"init", "resync", "reindex"}, id : Nat]

\* What the daemon's threads hold.
Waiting == [step : {"idle", "want"}]
Encoded == [step : {"ready"}, frame : Frames, tab : Table, fresh : BOOLEAN]
Answering == [step : {"init", "ready"}, tab : Table, id : Nat, asOf : Nat, fresh : BOOLEAN]
Replying == [step : {"reply"}, id : Nat, label : Label \cup {None}, rev : Nat, asOf : Nat]

\* The frame f carries the table t, given the tables ps that were published.
Carries(f, t, ps) ==
  \/ f.kind = "full" /\ f.part = t
  \/ f.kind = "delta" /\ f.base \in 1..Len(ps) /\ Patched(ps[f.base], f.part) = t

\* What a line claims to be was published.
Sound(m, ps) ==
  /\ m.type = "frame" => m.seq \in 1..Len(ps) /\ Carries(m, ps[m.seq], ps)
  /\ m.type = "init" /\ m.seq # 0 => m.seq \in 1..Len(ps) /\ m.tab = ps[m.seq]
AllSound(s, ps) == \A i \in 1..Len(s) : Sound(s[i], ps)

TableOK == table \in Table /\ whole \in BOOLEAN /\ change \in Nat
EncoderOK ==
  /\ published \in Seq(Table) /\ enc \in [seq : Nat, tab : Table \cup {None}]
  /\ enc.seq = Len(published)
  /\ enc.tab # None => enc.seq # 0 /\ enc.tab = published[enc.seq]
PubsOK ==
  /\ pub \in [Publisher -> Waiting \cup Encoded]
  /\ \A p \in Publisher : pub[p].step = "ready" /\ pub[p].fresh =>
       pub[p].frame.seq = enc.seq + 1 /\ Carries(pub[p].frame, pub[p].tab, published)
MainOK == main \in [step : {"idle"}] \cup Answering \cup Replying
InboxOK == inbox \in Seq(Requests) /\ expired \in Nat /\ refreshes \in Nat /\ reindexes \in Nat
LinesOK ==
  /\ wire \in Seq(Lines) /\ AllSound(wire, published)
  /\ cont \in Seq(Lines) /\ AllSound(cont, published)
BaseOK ==
  /\ applied \in Nat
  /\ base # None => base.seq \in 1..Len(published) /\ base.tab = published[base.seq]

IInv == TableOK /\ EncoderOK /\ PubsOK /\ MainOK /\ InboxOK /\ LinesOK /\ BaseOK

-----------------------------------------------------------------------------
\* Lines.

LEMMA AppendSound ==
  ASSUME NEW ps, NEW s \in Seq(Lines), AllSound(s, ps), NEW m \in Lines, Sound(m, ps)
  PROVE  Append(s, m) \in Seq(Lines) /\ AllSound(Append(s, m), ps)
<1>1. Append(s, m) \in Seq(Lines) /\ Len(Append(s, m)) = Len(s) + 1
  OBVIOUS
<1>2. ASSUME NEW i \in 1..Len(Append(s, m)) PROVE Append(s, m)[i] = m \/ (i \in 1..Len(s) /\ Append(s, m)[i] = s[i])
  BY <1>1
<1> QED
  BY <1>1, <1>2 DEF AllSound

LEMMA TailSound ==
  ASSUME NEW ps, NEW s \in Seq(Lines), AllSound(s, ps), s # <<>>
  PROVE  /\ Tail(s) \in Seq(Lines) /\ AllSound(Tail(s), ps)
         /\ Head(s) \in Lines /\ Sound(Head(s), ps)
<1>1. Tail(s) \in Seq(Lines) /\ Len(Tail(s)) = Len(s) - 1 /\ Len(s) \in Nat \ {0}
  OBVIOUS
<1>2. Head(s) = s[1] /\ Head(s) \in Lines
  OBVIOUS
<1>3. ASSUME NEW i \in 1..Len(Tail(s)) PROVE i + 1 \in 1..Len(s) /\ Tail(s)[i] = s[i + 1]
  BY <1>1
<1> QED
  BY <1>1, <1>2, <1>3 DEF AllSound

LEMMA SoundStays ==
  ASSUME NEW ps \in Seq(Table), NEW t \in Table, NEW m \in Lines, Sound(m, ps)
  PROVE  Sound(m, Append(ps, t))
<1>1. /\ Len(Append(ps, t)) = Len(ps) + 1 /\ Len(ps) \in Nat
      /\ \A i \in 1..Len(ps) : Append(ps, t)[i] = ps[i]
  OBVIOUS
<1>2. \A u : Carries(m, u, ps) => Carries(m, u, Append(ps, t))
  BY <1>1 DEF Carries
<1> QED
  BY <1>1, <1>2 DEF Sound

LEMMA AllSoundStays ==
  ASSUME NEW ps \in Seq(Table), NEW t \in Table, NEW s \in Seq(Lines), AllSound(s, ps)
  PROVE  AllSound(s, Append(ps, t))
<1>1. \A i \in 1..Len(s) : s[i] \in Lines
  OBVIOUS
<1> QED
  BY <1>1, SoundStays DEF AllSound

-----------------------------------------------------------------------------
\* The encoder.

\* A delta of what changed, over the table before, is the table after.
LEMMA PatchedIsNew ==
  ASSUME NEW t \in Table, NEW u \in Table
  PROVE  Patched(u, [l \in Changed(u, t) |-> t[l]]) = t
BY DEF Patched, Changed, Table

LEMMA FullFrames ==
  ASSUME EncoderOK, NEW t \in Table, NEW w \in BOOLEAN
  PROVE  /\ FullFrame(t, w, enc) \in Frames /\ FullFrame(t, w, enc).seq = enc.seq + 1
         /\ FullFrame(t, w, enc).whole = w
         /\ \A ps : Carries(FullFrame(t, w, enc), t, ps)
<1>1. enc.seq + 1 \in Nat
  BY DEF EncoderOK
<1>2. t \in Parts
  BY DEF Table, Parts
<1> QED
  BY <1>1, <1>2 DEF FullFrame, Frames, Carries

LEMMA PreparedFrames ==
  ASSUME EncoderOK, NEW t \in Table, NEW w \in BOOLEAN
  PROVE  /\ Prepared(t, w, enc) \in Frames /\ Prepared(t, w, enc).seq = enc.seq + 1
         /\ Carries(Prepared(t, w, enc), t, published)
<1>1. CASE Prepared(t, w, enc) = FullFrame(t, w, enc)
  BY <1>1, FullFrames
<1>2. CASE Prepared(t, w, enc) # FullFrame(t, w, enc)
  <2> DEFINE part == [l \in Changed(enc.tab, t) |-> t[l]]
  <2>1. /\ enc.tab # None
        /\ Prepared(t, w, enc) = [type |-> "frame", kind |-> "delta", seq |-> enc.seq + 1,
                                  base |-> enc.seq, part |-> part, whole |-> TRUE]
    BY <1>2 DEF Prepared
  <2>2. /\ enc.seq \in 1..Len(published) /\ enc.tab = published[enc.seq] /\ enc.tab \in Table
        /\ enc.seq + 1 \in Nat /\ enc.seq \in Nat
    BY <2>1 DEF EncoderOK
  <2>3. part \in Parts
    <3>1. part \in [Changed(enc.tab, t) -> Nat] /\ Changed(enc.tab, t) \in SUBSET Label
      BY DEF Table, Changed
    <3> QED
      BY <3>1, Zenon DEF Parts
  <2>4. Patched(published[enc.seq], part) = t
    BY <2>2, PatchedIsNew
  <2> HIDE DEF part
  <2> QED
    BY <2>1, <2>2, <2>3, <2>4 DEF Frames, Carries
<1> QED
  BY <1>1, <1>2

\* A frame that is written is sound, and so is all that was written before.
LEMMA Committed ==
  ASSUME EncoderOK, NEW f \in Frames, f.seq = enc.seq + 1, NEW t \in Table, Commit(f, t)
  PROVE  /\ published' = Append(published, t) /\ EncoderOK'
         /\ f.seq \in 1..Len(published') /\ published'[f.seq] = t
         /\ Carries(f, t, published) => Sound(f, published')
<1>1. /\ published' = Append(published, t) /\ published \in Seq(Table) /\ enc.seq = Len(published)
      /\ enc' = [seq |-> f.seq, tab |-> IF f.whole THEN t ELSE None]
  BY DEF Commit, EncoderOK
<1>2. /\ published' \in Seq(Table) /\ Len(published') = Len(published) + 1 /\ Len(published) \in Nat
      /\ published'[f.seq] = t /\ \A i \in 1..Len(published) : published'[i] = published[i]
  BY <1>1
<1>3. EncoderOK'
  BY <1>1, <1>2 DEF EncoderOK, Frames
<1>4. ASSUME Carries(f, t, published) PROVE Sound(f, published')
  <2>1. Carries(f, t, published')
    BY <1>2, <1>4 DEF Carries
  <2> QED
    BY <1>1, <1>2, <2>1 DEF Sound, Frames
<1> QED
  BY <1>1, <1>2, <1>3, <1>4

\* What a publisher may no longer write says nothing of the baseline.
LEMMA StaledPubs ==
  ASSUME PubsOK
  PROVE  /\ Staled(Publisher) \in [Publisher -> Waiting \cup Encoded]
         /\ \A p \in Publisher : Staled(Publisher)[p].step = "ready" => ~Staled(Publisher)[p].fresh
<1>1. ASSUME NEW p \in Publisher
      PROVE  /\ Staled(Publisher)[p] \in Waiting \cup Encoded
             /\ Staled(Publisher)[p].step = "ready" => ~Staled(Publisher)[p].fresh
  <2>1. CASE pub[p].step = "ready"
    <3>1. pub[p] \in Encoded
      BY <2>1 DEF PubsOK, Waiting, Encoded
    <3>2. [pub[p] EXCEPT !.fresh = FALSE] \in Encoded /\ ~[pub[p] EXCEPT !.fresh = FALSE].fresh
      BY <3>1 DEF Encoded
    <3>3. Staled(Publisher)[p] = [pub[p] EXCEPT !.fresh = FALSE]
      BY <2>1, Zenon DEF Staled
    <3> QED
      BY <3>2, <3>3
  <2>2. CASE pub[p].step # "ready"
    BY <2>2 DEF Staled, PubsOK
  <2> QED
    BY <2>1, <2>2
<1> QED
  BY <1>1, Zenon DEF Staled

LEMMA StaleIsOK == ASSUME PubsOK, pub' = Staled(Publisher) PROVE PubsOK'
BY StaledPubs DEF PubsOK

LEMMA MainIsOK == ASSUME MainOK PROVE MainOK /\ (main' = MainStaled => MainOK')
<1> SUFFICES ASSUME main' = MainStaled PROVE MainOK'
  OBVIOUS
<1>1. CASE main.step \in {"init", "ready"}
  <2>1. main \in Answering
    BY <1>1 DEF MainOK, Replying
  <2>2. [main EXCEPT !.fresh = FALSE] \in Answering
    BY <2>1 DEF Answering
  <2> QED
    BY <1>1, <2>2 DEF MainStaled, MainOK
<1>2. CASE main.step \notin {"init", "ready"}
  BY <1>2 DEF MainStaled, MainOK
<1> QED
  BY <1>1, <1>2

\* A line is written with a frame's number, and perhaps the reply to a resync.
LEMMA Written ==
  ASSUME IInv, NEW f \in Frames, f.seq = enc.seq + 1, NEW t \in Table, Commit(f, t),
         NEW m \in Lines, Sound(m, published'), NEW r \in Resynced,
         wire' \in {Append(wire, m), Append(Append(wire, m), r)}, UNCHANGED <<base, applied, cont>>
  PROVE  EncoderOK' /\ LinesOK' /\ BaseOK'
<1>1. published' = Append(published, t) /\ EncoderOK' /\ published \in Seq(Table)
  BY Committed DEF IInv, EncoderOK
<1>2. /\ wire \in Seq(Lines) /\ AllSound(wire, published')
      /\ cont' \in Seq(Lines) /\ AllSound(cont', published')
  BY <1>1, AllSoundStays DEF IInv, LinesOK
<1>3. r \in Lines /\ Sound(r, published')
  BY DEF Lines, Resynced, Sound
<1>4. Append(wire, m) \in Seq(Lines) /\ AllSound(Append(wire, m), published')
  BY <1>2, AppendSound
<1>5. Append(Append(wire, m), r) \in Seq(Lines) /\ AllSound(Append(Append(wire, m), r), published')
  BY <1>3, <1>4, AppendSound
<1>6. LinesOK'
  BY <1>2, <1>4, <1>5 DEF LinesOK
<1>7. BaseOK'
  <2>1. /\ Len(published') = Len(published) + 1 /\ Len(published) \in Nat
        /\ \A i \in 1..Len(published) : published'[i] = published[i]
    BY <1>1
  <2> QED
    BY <2>1 DEF IInv, BaseOK
<1> QED
  BY <1>1, <1>6, <1>7

\* A line is written that carries no number.
LEMMA Replied ==
  ASSUME IInv, NEW m \in Lines, Sound(m, published), wire' = Append(wire, m),
         UNCHANGED <<enc, published, base, applied, cont>>
  PROVE  EncoderOK' /\ LinesOK' /\ BaseOK'
<1>1. Append(wire, m) \in Seq(Lines) /\ AllSound(Append(wire, m), published)
  BY AppendSound DEF IInv, LinesOK
<1> QED
  BY <1>1 DEF IInv, EncoderOK, LinesOK, BaseOK

LEMMA Unwritten ==
  ASSUME IInv, UNCHANGED <<enc, published, wire, base, applied, cont>>
  PROVE  EncoderOK' /\ LinesOK' /\ BaseOK'
BY DEF IInv, EncoderOK, LinesOK, BaseOK

-----------------------------------------------------------------------------
\* The daemon's steps.

LEMMA NextTable ==
  ASSUME IInv
  PROVE  /\ \A l \in Label, r \in Nat : [table EXCEPT ![l] = r] \in Table
         /\ Revisions \subseteq Nat /\ Successors \subseteq Table
<1>1. \A l \in Label, r \in Nat : [table EXCEPT ![l] = r] \in Table
  BY DEF IInv, TableOK, Table
<1>2. Revisions \subseteq Nat
  BY DEF IInv, TableOK, Revisions
<1> QED
  BY <1>1, <1>2 DEF Successors

LEMMA MainKinds ==
  ASSUME IInv
  PROVE  /\ main.step \in {"init", "ready"} => main \in Answering
         /\ main.step = "reply" => main \in Replying
BY DEF IInv, MainOK, Answering, Replying

LEMMA ReadInbox ==
  ASSUME IInv, inbox # <<>>
  PROVE  Tail(inbox) \in Seq(Requests) /\ Head(inbox).id \in Nat
<1>1. Tail(inbox) \in Seq(Requests) /\ Head(inbox) \in Requests
  BY DEF IInv, InboxOK
<1> QED
  BY <1>1 DEF Requests

\* One entry of the table is committed, or none.
LEMMA ReindexStep ==
  ASSUME IInv, HandleReindex
  PROVE  \E l \in Label \cup {None}, x \in Nat :
           /\ main' = [step |-> "reply", id |-> Head(inbox).id, label |-> l, rev |-> x, asOf |-> enc.seq]
           /\ IF l = None THEN table' = table ELSE table' = [table EXCEPT ![l] = x]
           /\ l # None => x \in Revisions
           /\ Head(inbox).id \in Nat /\ table' \in Table
<1>1. Head(inbox).id \in Nat
  BY ReadInbox DEF HandleReindex
<1>2. CASE table' = table /\ main' = Answer(None, 0)
  BY <1>1, <1>2 DEF Answer, IInv, TableOK
<1>3. CASE \E l \in Label, x \in Revisions : table' = [table EXCEPT ![l] = x] /\ main' = Answer(l, x)
  <2>1. PICK l \in Label, x \in Revisions : table' = [table EXCEPT ![l] = x] /\ main' = Answer(l, x)
    BY <1>3
  <2>2. l # None /\ x \in Nat /\ table' \in Table
    BY <2>1, TransportBounds, NextTable
  <2> QED
    BY <1>1, <2>1, <2>2 DEF Answer
<1> QED
  BY <1>2, <1>3 DEF HandleReindex

LEMMA MainInvariant == ASSUME IInv, Main PROVE IInv'
<1> USE DEF daemon, decoder, asking, control, bounds
<1>1. CASE HandleInit
  <2>1. table' \in Table /\ change' \in Nat /\ whole' = TRUE
    BY <1>1, NextTable DEF HandleInit, IInv, TableOK
  <2>2. EncoderOK' /\ LinesOK' /\ BaseOK'
    <3>1. enc' = [enc EXCEPT !.tab = None] /\ UNCHANGED <<published, wire, base, applied, cont>>
      BY <1>1 DEF HandleInit, Reset
    <3>2. enc' \in [seq : Nat, tab : Table \cup {None}] /\ enc'.seq = enc.seq /\ enc'.tab = None
      BY <3>1 DEF IInv, EncoderOK
    <3> QED
      BY <3>1, <3>2 DEF IInv, EncoderOK, LinesOK, BaseOK
  <2>3. PubsOK'
    BY <1>1 DEF HandleInit, PubsOK, Waiting, Idle
  <2>4. MainOK' /\ InboxOK'
    <3>1. inbox' \in Seq(Requests) /\ Head(inbox).id \in Nat
      BY <1>1, ReadInbox DEF HandleInit
    <3>2. main' = [step |-> "init", tab |-> table', id |-> Head(inbox).id, asOf |-> enc.seq, fresh |-> TRUE]
      BY <1>1 DEF HandleInit
    <3>3. main' \in Answering
      BY <2>1, <3>1, <3>2 DEF Answering, IInv, EncoderOK
    <3> QED
      BY <1>1, <3>1, <3>3 DEF HandleInit, MainOK, InboxOK, IInv
  <2> QED
    BY <2>1, <2>2, <2>3, <2>4 DEF IInv, TableOK
<1>2. CASE InitPrepare
  <2>1. MainOK'
    <3>1. main \in Answering /\ main' = [main EXCEPT !.step = "ready"]
      BY <1>2, MainKinds DEF InitPrepare
    <3>2. main' \in Answering
      BY <3>1 DEF Answering
    <3> QED
      BY <3>2 DEF MainOK
  <2> QED
    BY <1>2, <2>1, Unwritten DEF InitPrepare, IInv, TableOK, PubsOK, InboxOK
<1>3. CASE InitWrite
  <2> DEFINE f == FullFrame(main.tab, TRUE, enc)
             m == [type |-> "init", id |-> main.id, tab |-> main.tab, seq |-> f.seq, asOf |-> f.seq]
             r == [type |-> "resync", id |-> 0]
  <2>1. main \in Answering
    BY <1>3, MainKinds DEF InitWrite
  <2>2. main.tab \in Table /\ main.id \in Nat
    BY <2>1 DEF Answering
  <2>3. f \in Frames /\ f.seq = enc.seq + 1 /\ Commit(f, main.tab) /\ wire' = Append(wire, m)
    BY <1>3, <2>2, FullFrames DEF InitWrite, IInv
  <2>4. r \in Resynced
    BY DEF Resynced
  <2> HIDE DEF f, r
  <2>5. f.seq \in Nat /\ f.seq \in 1..Len(published') /\ published'[f.seq] = main.tab
    BY <2>2, <2>3, Committed DEF IInv, Frames
  <2>6. m \in Lines /\ Sound(m, published')
    BY <2>2, <2>5 DEF Lines, Initials, Sound
  <2> HIDE DEF m
  <2>7. EncoderOK' /\ LinesOK' /\ BaseOK'
    BY <1>3, <2>2, <2>3, <2>4, <2>6, Written DEF InitWrite
  <2> QED
    BY <1>3, <2>7, StaleIsOK DEF InitWrite, IInv, TableOK, InboxOK, MainOK, Idle
<1>4. CASE InitLegacy
  <2> DEFINE m == [type |-> "init", id |-> main.id, tab |-> main.tab, seq |-> 0, asOf |-> main.asOf]
  <2>1. main \in Answering
    BY <1>4, MainKinds DEF InitLegacy
  <2>2. m \in Lines /\ Sound(m, published)
    BY <2>1 DEF Answering, Lines, Initials, Sound
  <2> HIDE DEF m
  <2>3. EncoderOK' /\ LinesOK' /\ BaseOK'
    BY <1>4, <2>2, Replied DEF InitLegacy, m
  <2> QED
    BY <1>4, <2>3 DEF InitLegacy, IInv, TableOK, PubsOK, InboxOK, MainOK, Idle
<1>5. CASE HandleReindex
  <2>1. PICK l \in Label \cup {None}, x \in Nat :
          /\ main' = [step |-> "reply", id |-> Head(inbox).id, label |-> l, rev |-> x, asOf |-> enc.seq]
          /\ Head(inbox).id \in Nat /\ table' \in Table
    BY <1>5, ReindexStep
  <2>3. TableOK' /\ MainOK'
    <3>1. main' \in Replying
      BY <2>1 DEF Replying, IInv, EncoderOK
    <3>2. change' \in Nat /\ UNCHANGED whole
      BY <1>5 DEF HandleReindex, IInv, TableOK
    <3> QED
      BY <2>1, <3>1, <3>2 DEF MainOK, TableOK, IInv
  <2>5. InboxOK'
    BY <1>5, ReadInbox DEF HandleReindex, InboxOK, IInv
  <2> QED
    BY <1>5, <2>3, <2>5, StaleIsOK, Unwritten DEF HandleReindex, IInv
<1>6. CASE ReindexReply
  <2> DEFINE m == [type |-> "reindex", id |-> main.id, label |-> main.label, rev |-> main.rev, asOf |-> main.asOf]
  <2>1. main \in Replying
    BY <1>6, MainKinds DEF ReindexReply
  <2>2. m \in Lines /\ Sound(m, published)
    BY <2>1 DEF Replying, Lines, Reindexed, Sound
  <2> HIDE DEF m
  <2>3. EncoderOK' /\ LinesOK' /\ BaseOK'
    BY <1>6, <2>2, Replied DEF ReindexReply, m
  <2> QED
    BY <1>6, <2>3 DEF ReindexReply, IInv, TableOK, PubsOK, InboxOK, MainOK, Idle
<1>7. CASE HandleResync
  <2> DEFINE f == FullFrame(table, whole, enc)
             r == [type |-> "resync", id |-> Head(inbox).id]
  <2>1. table \in Table /\ whole \in BOOLEAN
    BY DEF IInv, TableOK
  <2>2. f \in Frames /\ f.seq = enc.seq + 1 /\ Carries(f, table, published) /\ Commit(f, table)
    BY <1>7, <2>1, FullFrames DEF HandleResync, IInv
  <2>3. r \in Resynced /\ Tail(inbox) \in Seq(Requests)
    BY <1>7, ReadInbox DEF HandleResync, Resynced
  <2>4. wire' = wire \o <<f, r>>
    BY <1>7 DEF HandleResync
  <2> HIDE DEF f, r
  <2>5. f \in Lines /\ r \in Lines /\ wire \in Seq(Lines) /\ Sound(f, published')
    BY <2>1, <2>2, <2>3, Committed DEF Lines, IInv, LinesOK
  <2>6. wire' = Append(Append(wire, f), r)
    BY <2>4, <2>5
  <2>7. EncoderOK' /\ LinesOK' /\ BaseOK'
    BY <1>7, <2>1, <2>2, <2>3, <2>5, <2>6, Written DEF HandleResync
  <2> QED
    BY <1>7, <2>3, <2>7, StaleIsOK DEF HandleResync, IInv, TableOK, InboxOK, MainOK
<1> QED
  BY <1>1, <1>2, <1>3, <1>4, <1>5, <1>6, <1>7 DEF Main

LEMMA PublisherInvariant ==
  ASSUME IInv, NEW p \in Publisher, AdoptTable(p) \/ PubPrepare(p) \/ PubWrite(p) \/ PubOvertaken(p)
  PROVE  IInv'
<1> USE DEF daemon, decoder, asking, control, bounds
<1>0. /\ pub \in [Publisher -> Waiting \cup Encoded] /\ table \in Table /\ whole \in BOOLEAN
      /\ \A q \in Publisher : pub[q].step = "ready" => pub[q] \in Encoded
  BY DEF IInv, PubsOK, TableOK, Waiting, Encoded
<1>1. CASE AdoptTable(p)
  <2>1. TableOK'
    BY <1>1, NextTable DEF AdoptTable, IInv, TableOK
  <2>2. PubsOK'
    <3>1. [step |-> "want"] \in Waiting
      BY DEF Waiting
    <3>2. UNCHANGED <<enc, published>> /\ pub' = [pub EXCEPT ![p] = [step |-> "want"]]
      BY <1>1 DEF AdoptTable
    <3>3. \A q \in Publisher : pub'[q] = pub[q] \/ pub'[q].step = "want"
      BY <1>0, <3>2
    <3> QED
      BY <1>0, <3>1, <3>2, <3>3 DEF IInv, PubsOK
  <2> QED
    BY <1>1, <2>1, <2>2, MainIsOK, Unwritten DEF AdoptTable, IInv, InboxOK
<1>2. CASE PubPrepare(p)
  <2> DEFINE f == Prepared(table, whole, enc)
             w == [step |-> "ready", frame |-> f, tab |-> table, fresh |-> TRUE]
  <2>1. f \in Frames /\ f.seq = enc.seq + 1 /\ Carries(f, table, published)
    BY <1>0, PreparedFrames DEF IInv
  <2>2. UNCHANGED <<enc, published>> /\ pub' = [pub EXCEPT ![p] = w]
    BY <1>2 DEF PubPrepare
  <2> HIDE DEF f
  <2>3. w \in Encoded /\ w.frame = f /\ w.tab = table
    BY <1>0, <2>1 DEF Encoded
  <2> HIDE DEF w
  <2>4. pub' \in [Publisher -> Waiting \cup Encoded]
        /\ \A q \in Publisher : pub'[q] = pub[q] \/ pub'[q] = w
    BY <1>0, <2>2, <2>3
  <2>5. PubsOK'
    BY <2>1, <2>2, <2>3, <2>4 DEF IInv, PubsOK
  <2> QED
    BY <1>2, <2>5, Unwritten DEF PubPrepare, IInv, TableOK, MainOK, InboxOK
<1>3. CASE PubWrite(p)
  <2> DEFINE f == pub[p].frame
             t == pub[p].tab
             r == [type |-> "resync", id |-> 0]
  <2>1. f \in Frames /\ t \in Table /\ f.seq = enc.seq + 1 /\ Carries(f, t, published)
    BY <1>0, <1>3 DEF PubWrite, StillCurrent, Encoded, IInv, PubsOK
  <2>2. Commit(f, t) /\ wire' = Append(wire, f) /\ UNCHANGED <<table, whole, change, inbox, base, applied, cont>>
        /\ pub' = [Staled(Publisher) EXCEPT ![p] = Idle] /\ main' = MainStaled
        /\ UNCHANGED <<expired, refreshes, reindexes>>
    BY <1>3 DEF PubWrite
  <2>3. r \in Resynced
    BY DEF Resynced
  <2> HIDE DEF f, t, r
  <2>4. f \in Lines /\ Sound(f, published')
    BY <2>1, <2>2, Committed DEF Lines, IInv
  <2>5. EncoderOK' /\ LinesOK' /\ BaseOK'
    BY <2>1, <2>2, <2>3, <2>4, Written
  <2>6. PubsOK'
    <3>1. Idle \in Waiting /\ Idle.step = "idle"
      BY DEF Waiting, Idle
    <3>2. PubsOK
      BY DEF IInv
    <3>3. pub' \in [Publisher -> Waiting \cup Encoded]
          /\ \A q \in Publisher : pub'[q] = Staled(Publisher)[q] \/ pub'[q] = Idle
      BY <2>2, <3>1, <3>2, StaledPubs
    <3> QED
      BY <3>1, <3>2, <3>3, StaledPubs DEF PubsOK
  <2> QED
    BY <2>2, <2>5, <2>6, MainIsOK DEF IInv, TableOK, InboxOK
<1>4. CASE PubOvertaken(p)
  <2>1. [step |-> "want"] \in Waiting
    BY DEF Waiting
  <2>2. UNCHANGED <<enc, published>> /\ pub' = [pub EXCEPT ![p] = [step |-> "want"]]
    BY <1>4 DEF PubOvertaken
  <2>3. \A q \in Publisher : pub'[q] = pub[q] \/ pub'[q].step = "want"
    BY <1>0, <2>2
  <2>4. PubsOK'
    BY <1>0, <2>1, <2>2, <2>3 DEF IInv, PubsOK
  <2> QED
    BY <1>4, <2>4, Unwritten DEF PubOvertaken, IInv, TableOK, MainOK, InboxOK
<1> QED
  BY <1>1, <1>2, <1>3, <1>4

LEMMA WarmInvariant == ASSUME IInv, Warm PROVE IInv'
<1> DEFINE f == Prepared(Empty, TRUE, enc)
           r == [type |-> "resync", id |-> 0]
<1>1. Empty \in Table
  BY DEF Empty, Table
<1>2. f \in Frames /\ f.seq = enc.seq + 1 /\ Carries(f, Empty, published)
  BY <1>1, PreparedFrames DEF IInv
<1>3. /\ table' = Empty /\ whole' = TRUE /\ change' = change + 1
      /\ Commit(f, Empty) /\ wire' = Append(wire, f) /\ UNCHANGED <<inbox, base, applied, cont, expired, refreshes, reindexes>>
      /\ pub' = Staled(Publisher) /\ main' = MainStaled
  BY DEF Warm, decoder, bounds
<1>4. r \in Resynced
  BY DEF Resynced
<1> HIDE DEF f, r
<1>5. f \in Lines /\ Sound(f, published')
  BY <1>1, <1>2, <1>3, Committed DEF Lines, IInv
<1>6. EncoderOK' /\ LinesOK' /\ BaseOK'
  BY <1>1, <1>2, <1>3, <1>4, <1>5, Written
<1>7. TableOK'
  BY <1>1, <1>3 DEF IInv, TableOK
<1> QED
  BY <1>3, <1>6, <1>7, StaleIsOK, MainIsOK DEF IInv, InboxOK

-----------------------------------------------------------------------------
\* The client's steps.

\* What a frame that can be decoded gives is what its sequence published.
LEMMA RebuiltIsPublished ==
  ASSUME IInv, HandleFrame, Decodable(Head(wire))
  PROVE  /\ Head(wire).seq \in 1..Len(published)
         /\ Rebuilt(Head(wire)) = published[Head(wire).seq]
<1>1. wire # <<>> /\ Head(wire).type = "frame"
  BY DEF HandleFrame
<1>2. Sound(Head(wire), published)
  BY <1>1, TailSound DEF IInv, LinesOK
<1>3. Head(wire).seq \in 1..Len(published) /\ Carries(Head(wire), published[Head(wire).seq], published)
  BY <1>1, <1>2 DEF Sound
<1>4. CASE Head(wire).kind = "full"
  BY <1>3, <1>4 DEF Carries, Rebuilt
<1>5. CASE Head(wire).kind # "full"
  <2>1. base # None /\ Head(wire).base = base.seq /\ base.tab = published[Head(wire).base]
    BY <1>5 DEF Decodable, IInv, BaseOK
  <2> QED
    BY <1>3, <1>5, <2>1 DEF Carries, Rebuilt
<1> QED
  BY <1>4, <1>5

Client ==
  Receive \/ Continue \/ HandleHealth \/ ResyncFails \/ ResyncRetry \/ SendReindex \/ ReindexFails \/ Refreshes

LEMMA ClientInvariant == ASSUME IInv, Client PROVE IInv'
<1>1. UNCHANGED daemon
  BY DEF Client, Receive, Continue, HandleFrame, HandleReply, AdoptInit, AdoptReindex, ResyncDone, ResyncFails,
         ResyncRetry, SendReindex, ReindexFails, HandleHealth, Refreshes, RefreshBegin, RefreshAgain, Begin,
           RefreshSend, RefreshFails
<1>2. TableOK' /\ EncoderOK' /\ PubsOK' /\ MainOK' /\ UNCHANGED published
  BY <1>1 DEF daemon, IInv, TableOK, EncoderOK, PubsOK, MainOK
<1>3. InboxOK'
  <2>1. /\ expired' \in {expired, expired + 1} /\ refreshes' \in {refreshes, refreshes + 1}
        /\ reindexes' \in {reindexes, reindexes + 1}
        /\ \/ inbox' = inbox
           \/ inbox' = Append(inbox, [type |-> "resync", id |-> expired])
           \/ inbox' = Append(inbox, [type |-> "init", id |-> refreshes])
           \/ inbox' = Append(inbox, [type |-> "reindex", id |-> reindexes + 1])
    BY DEF Client, Receive, Continue, HandleFrame, HandleReply, AdoptInit, AdoptReindex, ResyncDone, ResyncFails,
           ResyncRetry, SendReindex, ReindexFails, HandleHealth, Refreshes, RefreshBegin, RefreshAgain, Begin,
           RefreshSend, RefreshFails, Ask, bounds
  <2>2. /\ [type |-> "resync", id |-> expired] \in Requests /\ [type |-> "init", id |-> refreshes] \in Requests
        /\ [type |-> "reindex", id |-> reindexes + 1] \in Requests
    BY DEF IInv, InboxOK, Requests
  <2> QED
    BY <2>1, <2>2 DEF IInv, InboxOK
<1>4. LinesOK'
  <2>1. \/ UNCHANGED <<wire, cont>>
        \/ wire # <<>> /\ wire' = Tail(wire) /\ cont' \in {cont, Append(cont, Head(wire))}
        \/ cont # <<>> /\ cont' = Tail(cont) /\ UNCHANGED wire
    BY DEF Client, Receive, Continue, HandleFrame, HandleReply, AdoptInit, AdoptReindex, ResyncDone, ResyncFails,
           ResyncRetry, SendReindex, ReindexFails, HandleHealth, Refreshes, RefreshBegin, RefreshAgain, Begin,
           RefreshSend, RefreshFails
  <2> QED
    BY <1>2, <2>1, TailSound, AppendSound DEF IInv, LinesOK
<1>5. BaseOK'
  <2>1. CASE HandleFrame
    <3>1. CASE base' \in {base, None} /\ UNCHANGED applied
      BY <1>2, <3>1 DEF IInv, BaseOK
    <3>2. CASE Decodable(Head(wire)) /\ applied' = Head(wire).seq /\ base' = Baseline(Head(wire), Rebuilt(Head(wire)))
      BY <1>2, <2>1, <3>2, RebuiltIsPublished DEF Baseline, BaseOK
    <3> QED
      BY <2>1, <3>1, <3>2 DEF HandleFrame, decoder
  <2>2. CASE AdoptInit
    <3>1. cont # <<>> /\ Head(cont).type = "init"
          /\ applied' \in {applied, Head(cont).seq}
          /\ base' = IF Head(cont).seq = 0 THEN None ELSE [seq |-> Head(cont).seq, tab |-> Head(cont).tab]
      BY <2>2 DEF AdoptInit
    <3>2. Sound(Head(cont), published)
      BY <3>1, TailSound DEF IInv, LinesOK
    <3> QED
      BY <1>2, <3>1, <3>2 DEF Sound, BaseOK, IInv
  <2>3. CASE UNCHANGED <<base, applied>>
    BY <1>2, <2>3 DEF IInv, BaseOK
  <2> QED
    BY <2>1, <2>2, <2>3 DEF Client, Receive, Continue, HandleReply, AdoptReindex, ResyncDone, ResyncFails,
       ResyncRetry, SendReindex, ReindexFails, HandleHealth, Refreshes, RefreshBegin, RefreshAgain, Begin,
           RefreshSend, RefreshFails, decoder
<1> QED
  BY <1>2, <1>3, <1>4, <1>5 DEF IInv

-----------------------------------------------------------------------------
\* The invariant and the property.

LEMMA InitInvariant == Init => IInv
<1> SUFFICES ASSUME Init PROVE IInv
  OBVIOUS
<1>1. table \in Table
  BY DEF Init, Table
<1>2. Idle \in Waiting /\ Idle.step = "idle"
  BY DEF Waiting, Idle
<1>3. main \in Answering
  BY <1>1 DEF Init, Answering
<1>4. EncoderOK
  BY DEF Init, EncoderOK
<1>5. LinesOK
  BY DEF Init, LinesOK, AllSound
<1>6. PubsOK
  BY <1>2 DEF Init, PubsOK
<1> QED
  BY <1>1, <1>3, <1>4, <1>5, <1>6 DEF Init, IInv, TableOK, MainOK, InboxOK, BaseOK

LEMMA StutterInvariant == IInv /\ UNCHANGED vars => IInv'
BY DEF vars, daemon, decoder, asking, control, bounds, IInv, TableOK, EncoderOK, PubsOK, MainOK, InboxOK,
       LinesOK, BaseOK

LEMMA StepInvariant == IInv /\ [Next]_vars => IInv'
BY MainInvariant, WarmInvariant, PublisherInvariant, ClientInvariant, StutterInvariant DEF Next, Client

\* Every line under way carries what its sequence number published, and the
\* client's baseline is a table that was published.
THEOREM InvariantHolds == Spec => []IInv
BY InitInvariant, StepInvariant, PTL DEF Spec

\* A frame the client accepts gives it exactly the daemon's table of that moment.
THEOREM FramesAreExactHolds == Spec => FramesAreExact
<1> DEFINE Exact == applied' > applied => view' = published[applied']
<1>1. ASSUME IInv, [Next]_vars PROVE [Exact]_vars
  <2> SUFFICES ASSUME applied' > applied PROVE view' = published[applied']
    OBVIOUS
  <2>1. applied \in Nat
    BY <1>1 DEF IInv, BaseOK
  <2>2. CASE HandleFrame
    <3>1. CASE Decodable(Head(wire)) /\ view' = Rebuilt(Head(wire)) /\ applied' = Head(wire).seq
      BY <1>1, <2>2, <3>1, RebuiltIsPublished
    <3>2. CASE UNCHANGED applied
      BY <2>1, <3>2
    <3> QED
      BY <2>2, <3>1, <3>2 DEF HandleFrame, decoder
  <2>3. CASE AdoptInit
    <3>1. cont # <<>> /\ Head(cont).type = "init" /\ view' = Head(cont).tab
          /\ applied' \in {applied, Head(cont).seq}
      BY <2>3 DEF AdoptInit
    <3>2. Sound(Head(cont), published)
      BY <1>1, <3>1, TailSound DEF IInv, LinesOK
    <3> QED
      BY <2>1, <3>1, <3>2 DEF Sound
  <2>4. CASE UNCHANGED applied
    BY <2>4, <2>1
  <2> QED
    BY <1>1, <2>2, <2>3, <2>4
       DEF Next, Main, HandleInit, InitPrepare, InitWrite, InitLegacy, HandleReindex, ReindexReply, HandleResync,
           Warm, AdoptTable, PubPrepare, PubWrite, PubOvertaken, Receive, Continue, HandleReply, AdoptReindex,
           ResyncDone, ResyncFails, ResyncRetry, SendReindex, ReindexFails, HandleHealth, Refreshes, RefreshBegin, RefreshAgain, Begin,
           RefreshSend, RefreshFails,
           vars, decoder
<1> QED
  BY <1>1, InvariantHolds, PTL DEF Spec, FramesAreExact

-----------------------------------------------------------------------------
(* Lines under way.                                                        *)

\* t is s with m at its end; s without its head m.
Grown(s, t, m) == Len(t) = Len(s) + 1 /\ t[Len(t)] = m /\ \A i \in 1..Len(s) : t[i] = s[i]
Cut(s, t, m) == Len(s) = Len(t) + 1 /\ s[1] = m /\ \A i \in 1..Len(t) : t[i] = s[i + 1]

Meets(s, M) == \E i \in 1..Len(s) : s[i] \in M
OneOf(s, M) == \A i, j \in 1..Len(s) : s[i] \in M /\ s[j] \in M => i = j

\* What is in M is followed by, or is, what is in N.
Ends(s, M, N) == \A i \in 1..Len(s) : s[i] \in M => \E j \in i..Len(s) : s[j] \in N

\* Of M, one is in one place: in the inbox q, held by the main thread as h, on the
\* wire w, or among the continuations c.
Alone(M, h, q, w, c) ==
  /\ OneOf(q, M) /\ OneOf(w, M) /\ OneOf(c, M)
  /\ Meets(c, M) => ~Meets(w, M) /\ h \notin M /\ ~Meets(q, M)
  /\ Meets(w, M) => h \notin M /\ ~Meets(q, M)
  /\ h \in M => ~Meets(q, M)

\* Append puts its line at the end.
LEMMA Grows == ASSUME NEW S, NEW s \in Seq(S), NEW m \in S PROVE Append(s, m) \in Seq(S) /\ Grown(s, Append(s, m), m)
BY DEF Grown

\* Tail takes the head away.
LEMMA Cuts == ASSUME NEW S, NEW s \in Seq(S), s # <<>> PROVE Tail(s) \in Seq(S) /\ Cut(s, Tail(s), Head(s)) /\ Head(s) \in S
<1>1. Tail(s) \in Seq(S) /\ Len(Tail(s)) = Len(s) - 1 /\ Len(s) \in Nat \ {0} /\ Head(s) = s[1]
  OBVIOUS
<1>2. ASSUME NEW i \in 1..Len(Tail(s)) PROVE Tail(s)[i] = s[i + 1]
  BY <1>1
<1> QED
  BY <1>1, <1>2 DEF Cut

\* What a longer sequence meets.
LEMMA GrownMeets ==
  ASSUME NEW S, NEW s \in Seq(S), NEW t, NEW m, NEW M, Grown(s, t, m)
  PROVE  /\ Meets(t, M) <=> Meets(s, M) \/ m \in M
         /\ OneOf(s, M) /\ (m \in M => ~Meets(s, M)) => OneOf(t, M)
<1>1. Len(s) \in Nat /\ Len(t) = Len(s) + 1 /\ t[Len(s) + 1] = m /\ \A i \in 1..Len(s) : t[i] = s[i]
  BY DEF Grown
<1>2. 1..Len(t) = 1..Len(s) \cup {Len(s) + 1} /\ Len(s) + 1 \notin 1..Len(s)
  BY <1>1
<1>3. Meets(t, M) <=> Meets(s, M) \/ m \in M
  BY <1>1, <1>2 DEF Meets
<1>4. ASSUME OneOf(s, M), m \in M => ~Meets(s, M) PROVE OneOf(t, M)
  BY <1>1, <1>2, <1>4 DEF Meets, OneOf
<1> QED
  BY <1>3, <1>4

\* What a shorter sequence meets.
LEMMA CutMeets ==
  ASSUME NEW S, NEW s \in Seq(S), NEW T, NEW t \in Seq(T), NEW m, NEW M, Cut(s, t, m)
  PROVE  /\ Meets(s, M) <=> Meets(t, M) \/ m \in M
         /\ OneOf(s, M) => OneOf(t, M) /\ (m \in M => ~Meets(t, M))
<1>1. Len(t) \in Nat /\ Len(s) = Len(t) + 1 /\ s[1] = m /\ \A i \in 1..Len(t) : t[i] = s[i + 1]
  BY DEF Cut
<1>2. /\ \A i \in 1..Len(t) : i + 1 \in 1..Len(s) /\ i + 1 # 1
      /\ 1 \in 1..Len(s)
  BY <1>1
<1>3. ASSUME NEW i \in 1..Len(s), i # 1 PROVE i - 1 \in 1..Len(t) /\ s[i] = t[i - 1]
  <2>1. i - 1 \in 1..Len(t) /\ (i - 1) + 1 = i
    BY <1>1, <1>3
  <2> QED
    BY <1>1, <2>1
<1>4. Meets(s, M) <=> Meets(t, M) \/ m \in M
  BY <1>1, <1>2, <1>3 DEF Meets
<1>5. ASSUME OneOf(s, M) PROVE OneOf(t, M)
  BY <1>1, <1>2, <1>5 DEF OneOf
<1>6. ASSUME OneOf(s, M), m \in M PROVE ~Meets(t, M)
  BY <1>1, <1>2, <1>6 DEF OneOf, Meets
<1> QED
  BY <1>4, <1>5, <1>6

\* What ends a longer, and a shorter sequence.
LEMMA GrownEnds ==
  ASSUME NEW S, NEW s \in Seq(S), NEW t, NEW m, NEW M, NEW N, Grown(s, t, m)
  PROVE  /\ m \notin M /\ Ends(s, M, N) => Ends(t, M, N)
         /\ m \in N => Ends(t, M, N)
<1>1. /\ Len(s) \in Nat /\ Len(t) = Len(s) + 1 /\ t[Len(t)] = m
      /\ \A i \in 1..Len(s) : t[i] = s[i]
  BY DEF Grown
<1>2. ASSUME m \in N, NEW i \in 1..Len(t) PROVE \E j \in i..Len(t) : t[j] \in N
  <2>1. Len(t) \in i..Len(t)
    BY <1>1
  <2> QED
    BY <1>1, <1>2, <2>1
<1>3. ASSUME m \notin M, Ends(s, M, N), NEW i \in 1..Len(t), t[i] \in M PROVE \E j \in i..Len(t) : t[j] \in N
  <2>1. i \in 1..Len(s) /\ s[i] \in M
    BY <1>1, <1>3
  <2>2. PICK j \in i..Len(s) : s[j] \in N
    BY <1>3, <2>1 DEF Ends
  <2>3. j \in i..Len(t) /\ t[j] = s[j]
    BY <1>1, <2>1
  <2> QED
    BY <2>2, <2>3
<1> QED
  BY <1>2, <1>3 DEF Ends

LEMMA CutEnds ==
  ASSUME NEW S, NEW s \in Seq(S), NEW T, NEW t \in Seq(T), NEW m, NEW M, NEW N, Cut(s, t, m), Ends(s, M, N)
  PROVE  /\ Ends(t, M, N)
         /\ m \in N /\ OneOf(s, N) => ~Meets(t, M)
<1>1. Len(t) \in Nat /\ Len(s) = Len(t) + 1 /\ s[1] = m /\ \A i \in 1..Len(t) : t[i] = s[i + 1]
  BY DEF Cut
<1>2. ASSUME NEW i \in 1..Len(t), t[i] \in M
      PROVE  \E j \in i..Len(t) : t[j] \in N /\ j + 1 \in 1..Len(s) /\ s[j + 1] \in N
  <2>1. i + 1 \in 1..Len(s) /\ s[i + 1] \in M
    BY <1>1, <1>2
  <2>2. PICK k \in (i + 1)..Len(s) : s[k] \in N
    BY <2>1 DEF Ends
  <2>3. k - 1 \in i..Len(t) /\ k - 1 \in 1..Len(t) /\ (k - 1) + 1 = k /\ k \in 1..Len(s)
    BY <1>1
  <2>4. t[k - 1] = s[(k - 1) + 1]
    BY <1>1, <2>3
  <2> QED
    BY <2>2, <2>3, <2>4
<1>3. ASSUME m \in N, OneOf(s, N), NEW i \in 1..Len(t), t[i] \in M PROVE FALSE
  <2>1. PICK j \in i..Len(t) : j + 1 \in 1..Len(s) /\ s[j + 1] \in N
    BY <1>2, <1>3
  <2>2. 1 \in 1..Len(s) /\ j + 1 # 1
    BY <1>1
  <2> QED
    BY <1>1, <1>3, <2>1, <2>2 DEF OneOf
<1> QED
  BY <1>2, <1>3 DEF Ends, Meets

\* A request goes into the inbox: it is of M only if none was anywhere.
LEMMA AlonePut ==
  ASSUME NEW M, NEW h, NEW q \in Seq(Requests), NEW w, NEW c, Alone(M, h, q, w, c),
         NEW m, NEW r, Grown(q, r, m), m \in M => h \notin M /\ ~Meets(q, M) /\ ~Meets(w, M) /\ ~Meets(c, M)
  PROVE  Alone(M, h, r, w, c)
BY GrownMeets DEF Alone

\* The main thread takes a request.
LEMMA AloneTaken ==
  ASSUME NEW M, NEW h, NEW g, NEW q \in Seq(Requests), NEW w, NEW c, Alone(M, h, q, w, c), h \notin M,
         NEW m, NEW r \in Seq(Requests), Cut(q, r, m), g \in M => m \in M
  PROVE  Alone(M, g, r, w, c)
BY CutMeets DEF Alone

\* The daemon writes a line: what the main thread held moves to the wire.
LEMMA AloneSaid ==
  ASSUME NEW M, NEW h, NEW g, NEW q, NEW w \in Seq(Lines), NEW c, Alone(M, h, q, w, c),
         NEW m, NEW v, Grown(w, v, m), m \in M => h \in M /\ g \notin M, g \in M => h \in M
  PROVE  Alone(M, g, q, v, c)
BY GrownMeets DEF Alone

\* The client takes a line, to continue with it or not.
LEMMA AloneReceived ==
  ASSUME NEW M, NEW h, NEW q, NEW w \in Seq(Lines), NEW c \in Seq(Lines), Alone(M, h, q, w, c),
         NEW m, NEW v \in Seq(Lines), Cut(w, v, m), NEW d, d = c \/ Grown(c, d, m)
  PROVE  Alone(M, h, q, v, d)
<1>1. Alone(M, h, q, v, c) /\ (m \in M => h \notin M /\ ~Meets(q, M) /\ ~Meets(c, M) /\ ~Meets(v, M))
  BY CutMeets DEF Alone
<1>2. CASE Grown(c, d, m)
  <2>1. /\ Meets(d, M) <=> Meets(c, M) \/ m \in M
        /\ OneOf(d, M)
    BY <1>1, <1>2, GrownMeets DEF Alone
  <2> QED
    BY <1>1, <2>1 DEF Alone
<1> QED
  BY <1>1, <1>2

\* A continuation runs.
LEMMA AloneContinued ==
  ASSUME NEW M, NEW h, NEW q, NEW w, NEW c \in Seq(Lines), Alone(M, h, q, w, c),
         NEW m, NEW d \in Seq(Lines), Cut(c, d, m)
  PROVE  Alone(M, h, q, w, d)
BY CutMeets DEF Alone
-----------------------------------------------------------------------------
(* The invariant of the second theorem.                                    *)

Saves(N) == {m \in Lines \cup Requests : m.type = "reindex" /\ m.id \in N}
Inits(N) == {m \in Lines \cup Requests : m.type = "init" /\ m.id \in N}
Whole == {m \in Lines : m.type \in {"frame", "init"}}
Asking == {m \in Requests : m.type \in {"init", "resync"}}

Replies == main.step = "reply"
Initializes == main.step \in {"init", "ready"}

\* The request that the main thread handles.
Held ==
  IF Replies THEN [type |-> "reindex", id |-> main.id]
  ELSE IF Initializes THEN [type |-> "init", id |-> main.id] ELSE [type |-> "none"]

\* One reindex is under way that may be awaited, after all that are not, and what
\* waits for its continuation is awaited; none before the client is started.
Unsent == {n \in Nat : n > reindexes}
SavesOK ==
  /\ Alone(Saves({reindexes}), Held, inbox, wire, cont)
  /\ ~Meets(inbox, Saves(Unsent)) /\ Held \notin Saves(Unsent) /\ ~Meets(wire, Saves(Unsent))
  /\ ~Meets(cont, Saves(Nat \ {reindexes}))
  /\ ~saving => ~Meets(cont, Saves(Nat))
  /\ Ends(inbox, Saves(Nat), Saves({reindexes}))
  /\ ~started => ~Meets(inbox, Saves(Nat)) /\ ~Replies /\ ~Meets(wire, Saves(Nat)) /\ ~Meets(cont, Saves(Nat))

\* One initialize is under way that is awaited; what waits for its continuation is.
Later == {n \in Nat : n > refreshes}
InitsOK ==
  /\ Alone(Inits({refreshes}), Held, inbox, wire, cont)
  /\ ~Meets(inbox, Inits(Later)) /\ Held \notin Inits(Later) /\ ~Meets(wire, Inits(Later))
  /\ ~Meets(cont, Inits(Nat \ {refreshes}))
  /\ started /\ refresh # "asked" => ~Meets(cont, Inits({refreshes}))
  /\ refresh = "settling" =>
       /\ ~Meets(inbox, Inits({refreshes})) /\ Held \notin Inits({refreshes}) /\ ~Meets(wire, Inits({refreshes}))

ControlOK ==
  /\ refresh \in {"no", "settling", "asked", "failed", "again", "dropped"} /\ resync \in {"no", "asked", "retry"}
  /\ pending \in BOOLEAN /\ retired \in BOOLEAN /\ started \in BOOLEAN /\ saving \in BOOLEAN
  /\ needed \in BOOLEAN /\ behind \in BOOLEAN /\ view \in Table
  /\ needed => resync # "no"
  /\ pending <=> refresh \in {"settling", "asked"}
  /\ pending => retired
  /\ refresh = "asked" => resync # "asked" /\ ~saving
  /\ ~started => /\ refresh = "no" /\ ~saving /\ refreshes = 0
                 /\ ~Meets(inbox, Inits(Nat))
  /\ ~started /\ resync # "no" => needed \/ applied > 0

Sequenced(m) == m.type \in {"frame", "init"} /\ m.seq # 0
Dated(m) == m.type \in {"init", "reindex"}

\* The lines keep the order in which they were computed.
OrderOK ==
  /\ \A i \in 1..Len(wire) : Sequenced(wire[i]) =>
       wire[i].seq = enc.seq \/ \E j \in 1..Len(wire) : j > i /\ Sequenced(wire[j])
  /\ \A i, j \in 1..Len(wire) : i < j /\ Dated(wire[i]) /\ Sequenced(wire[j]) => wire[j].seq > wire[i].asOf
  /\ \A k \in 1..Len(cont), j \in 1..Len(wire) : Dated(cont[k]) /\ Sequenced(wire[j]) => wire[j].seq > cont[k].asOf
  /\ main.step # "idle" => main.asOf <= enc.seq
  /\ \A i \in 1..Len(wire) : Dated(wire[i]) => wire[i].asOf <= enc.seq
  /\ \A k \in 1..Len(cont) : Dated(cont[k]) => cont[k].asOf <= enc.seq

\* The daemon will publish its table.
Publishing == (\E p \in Publisher : pub[p].step # "idle") \/ Initializes

\* What a publisher holds is what the daemon has now, or it encodes again.
UpToDate(p) ==
  pub[p].step = "want" \/ (pub[p].step = "ready" /\ (pub[p].fresh => pub[p].tab = table))

\* What may still be written is what the daemon has now, or another publisher
\* will write that.
FreshOK ==
  /\ \A p \in Publisher : pub[p].step = "ready" => UpToDate(p) \/ \E q \in Publisher : UpToDate(q)
  /\ Initializes /\ main.fresh => main.tab = table

Current(m) == m.rev = table[m.label]

\* A reindex reply that no later frame replaces says what the daemon has, if it
\* may be awaited.
RepliesOK ==
  /\ Replies /\ main.asOf = enc.seq /\ main.label # None => Current(main) \/ Publishing
  /\ \A i \in 1..Len(wire) : wire[i].type = "reindex" /\ wire[i].id = reindexes /\ wire[i].label # None /\ wire[i].asOf = enc.seq =>
       Current(wire[i]) \/ Publishing \/ \E j \in 1..Len(wire) : j > i /\ wire[j].type = "init"
  /\ \A i \in 1..Len(cont) : cont[i].type = "reindex" /\ cont[i].label # None /\ cont[i].asOf = enc.seq =>
       \/ Current(cont[i]) \/ Publishing \/ behind
       \/ \E j \in 1..Len(wire) : wire[j].type = "init"
       \/ \E j \in 1..Len(cont) : j > i /\ cont[j].type = "init"

\* A reply on its way that makes l what the daemon has.
Pledge(m, l) == m.label = l /\ m.rev = table[l] /\ m.asOf = enc.seq
Pledged(l) ==
  \/ Replies /\ Pledge(main, l)
  \/ \E j \in 1..Len(wire) : wire[j].type = "reindex" /\ Pledge(wire[j], l)

\* The last frame on its way makes the client what the daemon is, up to replies.
FramesOK ==
  \A i \in 1..Len(wire) : Sequenced(wire[i]) /\ wire[i].seq = enc.seq =>
    \/ Publishing
    \/ \E j \in 1..Len(wire) : j > i /\ wire[j].type = "init"
    \/ \A l \in Label : published[enc.seq][l] = table[l] \/ Pledged(l)

\* So does the answer to the first initialize.
FirstOK ==
  ~started =>
    /\ Initializes => main.asOf = 0
    /\ \A i \in 1..Len(wire) : wire[i].type = "init" => wire[i].asOf = wire[i].seq
    /\ \A k \in 1..Len(cont) : cont[k].type = "init" =>
         /\ cont[k].asOf = cont[k].seq
         /\ cont[k].seq # 0 =>
              \/ needed \/ applied > cont[k].seq
              \/ \E j \in 1..Len(wire) : Sequenced(wire[j])
              \/ cont[k].seq = enc.seq
         /\ cont[k].seq # 0 /\ cont[k].seq = enc.seq => Publishing \/ published[enc.seq] = table

\* Something on its way will replace the client's table, or make it ask.
Coming == Publishing \/ Meets(inbox, Asking) \/ Meets(wire, Whole) \/ Meets(cont, Whole)

Arriving(l) ==
  \/ Replies /\ main.label = l
  \/ \E j \in 1..Len(wire) : wire[j].type = "reindex" /\ wire[j].label = l
  \/ \E j \in 1..Len(cont) : cont[j].type = "reindex" /\ cont[j].label = l

\* The client has what the daemon has, up to the reply that is on its way.
ViewOK ==
  ~Coming /\ ~retired /\ ~needed /\ ~behind =>
    /\ applied = enc.seq
    /\ \A l \in Label : view[l] = table[l] \/ Arriving(l)

QInv == SavesOK /\ InitsOK /\ ControlOK /\ OrderOK /\ FreshOK /\ RepliesOK /\ FramesOK /\ FirstOK /\ ViewOK


-----------------------------------------------------------------------------
(* What moves.                                                             *)

\* The sets that a line is in, by its type.
LEMMA LineKinds ==
  ASSUME NEW m \in Lines
  PROVE  /\ m.type \in {"frame", "init", "reindex", "resync"}
         /\ m.type = "frame" => m \in Frames
         /\ m.type = "init" => m \in Initials
         /\ m.type = "reindex" => m \in Reindexed
         /\ m.type = "resync" => m \in Resynced
         /\ \A N : m \in Saves(N) <=> m.type = "reindex" /\ m.id \in N
         /\ m.type = "reindex" => m.id \in Nat
         /\ m \in Whole <=> m.type \in {"frame", "init"}
         /\ \A N : m \in Inits(N) <=> m.type = "init" /\ m.id \in N
BY DEF Lines, Frames, Initials, Reindexed, Resynced, Saves, Whole, Inits

\* The sets that a request is in, by its type.
LEMMA RequestKinds ==
  ASSUME NEW m \in Requests
  PROVE  /\ m.type \in {"init", "reindex", "resync"}
         /\ \A N : m \in Saves(N) <=> m.type = "reindex" /\ m.id \in N
         /\ m.id \in Nat
         /\ m \in Asking <=> m.type \in {"init", "resync"}
         /\ \A N : m \in Inits(N) <=> m.type = "init" /\ m.id \in N
BY DEF Requests, Saves, Asking, Inits

\* What the steps do to the three sequences.
LEMMA Typed ==
  ASSUME IInv
  PROVE  /\ inbox \in Seq(Requests) /\ wire \in Seq(Lines) /\ cont \in Seq(Lines)
         /\ inbox # <<>> => Tail(inbox) \in Seq(Requests) /\ Cut(inbox, Tail(inbox), Head(inbox)) /\ Head(inbox) \in Requests
         /\ wire # <<>> => Tail(wire) \in Seq(Lines) /\ Cut(wire, Tail(wire), Head(wire)) /\ Head(wire) \in Lines
         /\ cont # <<>> => Tail(cont) \in Seq(Lines) /\ Cut(cont, Tail(cont), Head(cont)) /\ Head(cont) \in Lines
         /\ \A m \in Requests : Grown(inbox, Append(inbox, m), m)
         /\ \A m \in Lines : Grown(wire, Append(wire, m), m) /\ Grown(cont, Append(cont, m), m)
<1>1. inbox \in Seq(Requests) /\ wire \in Seq(Lines) /\ cont \in Seq(Lines)
  BY DEF IInv, InboxOK, LinesOK
<1> QED
  BY <1>1, Cuts, Grows

\* What the main thread holds, by its step.
LEMMA Holds ==
  ASSUME IInv
  PROVE  /\ \A N : Held \in Saves(N) <=> Replies /\ main.id \in N
         /\ \A N : Held \in Inits(N) <=> Initializes /\ main.id \in N
<1>1. CASE Replies
  <2>1. main.id \in Nat
    BY <1>1, MainKinds DEF Replies, Replying
  <2>2. Held = [type |-> "reindex", id |-> main.id] /\ ~Initializes
    BY <1>1 DEF Held, Replies, Initializes
  <2> QED
    BY <1>1, <2>1, <2>2 DEF Saves, Inits, Requests
<1>2. CASE Initializes
  <2>1. main.id \in Nat
    BY <1>2, MainKinds DEF Initializes, Answering
  <2>2. Held = [type |-> "init", id |-> main.id] /\ ~Replies
    BY <1>2 DEF Held, Replies, Initializes
  <2> QED
    BY <1>2, <2>1, <2>2 DEF Saves, Inits, Requests
<1>3. CASE ~Replies /\ ~Initializes
  BY <1>3 DEF Held, Saves, Inits
<1> QED
  BY <1>1, <1>2, <1>3

\* The ways in which a line moves on, what is where then, and that M stays alone.
LEMMA Takes ==
  ASSUME IInv, NEW M, inbox # <<>>, inbox' = Tail(inbox), UNCHANGED <<wire, cont>>, Held \notin M
  PROVE  /\ (Held' \in M => Head(inbox) \in M) => (Alone(M, Held, inbox, wire, cont) => Alone(M, Held', inbox', wire', cont'))
         /\ Meets(inbox, M) <=> Meets(inbox', M) \/ Head(inbox) \in M
<1>1. inbox \in Seq(Requests) /\ inbox' \in Seq(Requests) /\ Cut(inbox, inbox', Head(inbox))
  BY Typed
<1>2. ASSUME Alone(M, Held, inbox, wire, cont), Held' \in M => Head(inbox) \in M PROVE Alone(M, Held', inbox', wire, cont)
  BY <1>1, <1>2, AloneTaken
<1> QED
  BY <1>1, <1>2, CutMeets

\* The daemon writes m.
LEMMA Says ==
  ASSUME IInv, NEW M, NEW m \in Lines, wire' = Append(wire, m), UNCHANGED <<inbox, cont>>
  PROVE  /\ /\ Alone(M, Held, inbox, wire, cont)
            /\ m \in M => Held \in M /\ Held' \notin M
            /\ Held' \in M => Held \in M
            => Alone(M, Held', inbox', wire', cont')
         /\ Meets(wire', M) <=> Meets(wire, M) \/ m \in M
<1>1. wire \in Seq(Lines) /\ Grown(wire, wire', m)
  BY Typed
<1>2. ASSUME Alone(M, Held, inbox, wire, cont), m \in M => Held \in M /\ Held' \notin M, Held' \in M => Held \in M
      PROVE  Alone(M, Held', inbox, wire', cont)
  BY <1>1, <1>2, AloneSaid
<1> QED
  BY <1>1, <1>2, GrownMeets

\* The client asks for m.
LEMMA Asks ==
  ASSUME IInv, NEW M, NEW m \in Requests, inbox' = Append(inbox, m), UNCHANGED <<wire, cont, main>>
  PROVE  /\ /\ Alone(M, Held, inbox, wire, cont)
            /\ m \in M => Held \notin M /\ ~Meets(inbox, M) /\ ~Meets(wire, M) /\ ~Meets(cont, M)
            => Alone(M, Held', inbox', wire', cont')
         /\ Meets(inbox', M) <=> Meets(inbox, M) \/ m \in M
<1>1. inbox \in Seq(Requests) /\ Grown(inbox, inbox', m) /\ Held' = Held
  BY Typed DEF Held, Replies, Initializes
<1>2. ASSUME Alone(M, Held, inbox, wire, cont),
             m \in M => Held \notin M /\ ~Meets(inbox, M) /\ ~Meets(wire, M) /\ ~Meets(cont, M)
      PROVE  Alone(M, Held, inbox', wire, cont)
  BY <1>1, <1>2, AlonePut
<1> QED
  BY <1>1, <1>2, GrownMeets

\* Perhaps asks for what is not in M.
AsksElse(M) == inbox' = inbox \/ \E m \in Requests \ M : inbox' = Append(inbox, m)

\* Such a request leaves M where it was.
LEMMA AsksElseMeets ==
  ASSUME IInv, NEW M, AsksElse(M)
  PROVE  /\ Meets(inbox', M) <=> Meets(inbox, M)
         /\ \A h, w, c : Alone(M, h, inbox, w, c) => Alone(M, h, inbox', w, c)
<1>1. CASE inbox' = inbox
  BY <1>1
<1>2. ASSUME NEW m \in Requests \ M, inbox' = Append(inbox, m)
      PROVE  /\ Meets(inbox', M) <=> Meets(inbox, M)
             /\ \A h, w, c : Alone(M, h, inbox, w, c) => Alone(M, h, inbox', w, c)
  <2>1. inbox \in Seq(Requests) /\ Grown(inbox, inbox', m)
    BY <1>2, Typed
  <2>2. Meets(inbox', M) <=> Meets(inbox, M)
    BY <1>2, <2>1, GrownMeets
  <2>3. ASSUME NEW h, NEW w, NEW c, Alone(M, h, inbox, w, c) PROVE Alone(M, h, inbox', w, c)
    BY <1>2, <2>1, <2>3, AlonePut
  <2> QED
    BY <2>2, <2>3
<1> QED
  BY <1>1, <1>2 DEF AsksElse

\* The client takes a line.
LEMMA Receives ==
  ASSUME IInv, NEW M, wire # <<>>, wire' = Tail(wire), AsksElse(M), UNCHANGED main, cont' \in {cont, Append(cont, Head(wire))}
  PROVE  /\ Alone(M, Held, inbox, wire, cont) => Alone(M, Held', inbox', wire', cont')
         /\ Meets(wire, M) <=> Meets(wire', M) \/ Head(wire) \in M
         /\ Meets(cont', M) => Meets(cont, M) \/ Head(wire) \in M
         /\ Meets(cont, M) \/ (cont' # cont /\ Head(wire) \in M) => Meets(cont', M)
         /\ Meets(inbox', M) <=> Meets(inbox, M)
<1>1. /\ wire \in Seq(Lines) /\ wire' \in Seq(Lines) /\ cont \in Seq(Lines) /\ Cut(wire, wire', Head(wire))
      /\ cont' = cont \/ Grown(cont, cont', Head(wire))
  BY Typed
<1>2. ASSUME Alone(M, Held, inbox, wire, cont) PROVE Alone(M, Held, inbox, wire', cont')
  BY <1>1, <1>2, AloneReceived
<1>3. Held' = Held
  BY DEF Held, Replies, Initializes
<1>4. Alone(M, Held, inbox, wire, cont) => Alone(M, Held, inbox', wire', cont')
  BY <1>2, AsksElseMeets
<1>5. Meets(wire, M) <=> Meets(wire', M) \/ Head(wire) \in M
  BY <1>1, CutMeets
<1>6. Grown(cont, cont', Head(wire)) => (Meets(cont', M) <=> Meets(cont, M) \/ Head(wire) \in M)
  BY <1>1, GrownMeets
<1> QED
  BY <1>1, <1>3, <1>4, <1>5, <1>6, AsksElseMeets

\* The client runs a continuation.
LEMMA Continues ==
  ASSUME IInv, NEW M, cont # <<>>, cont' = Tail(cont), AsksElse(M), UNCHANGED <<wire, main>>
  PROVE  /\ Alone(M, Held, inbox, wire, cont) => Alone(M, Held', inbox', wire', cont')
         /\ Meets(cont, M) <=> Meets(cont', M) \/ Head(cont) \in M
         /\ Alone(M, Held, inbox, wire, cont) /\ Head(cont) \in M =>
              ~Meets(cont', M) /\ ~Meets(wire', M) /\ ~Meets(inbox', M) /\ Held' \notin M
         /\ Meets(inbox', M) <=> Meets(inbox, M)
<1>1. cont \in Seq(Lines) /\ cont' \in Seq(Lines) /\ Cut(cont, cont', Head(cont))
  BY Typed
<1>2. ASSUME Alone(M, Held, inbox, wire, cont) PROVE Alone(M, Held, inbox, wire, cont')
  BY <1>1, <1>2, AloneContinued
<1>3. Held' = Held
  BY DEF Held, Replies, Initializes
<1>4. Alone(M, Held, inbox, wire, cont) => Alone(M, Held, inbox', wire, cont')
  BY <1>2, AsksElseMeets
<1>5. Meets(cont, M) <=> Meets(cont', M) \/ Head(cont) \in M
  BY <1>1, CutMeets
<1>6. ASSUME Alone(M, Held, inbox, wire, cont), Head(cont) \in M
      PROVE  ~Meets(cont', M) /\ ~Meets(wire, M) /\ ~Meets(inbox, M) /\ Held \notin M
  BY <1>1, <1>5, <1>6, CutMeets DEF Alone
<1> QED
  BY <1>3, <1>4, <1>5, <1>6, AsksElseMeets

\* Nothing moves.
LEMMA Rests ==
  ASSUME NEW M, UNCHANGED <<inbox, wire, cont>>, Held' \in M => Held \in M
  PROVE  Alone(M, Held, inbox, wire, cont) => Alone(M, Held', inbox', wire', cont')
BY DEF Alone

-----------------------------------------------------------------------------
(* What the daemon writes.                                                 *)

\* The line m, of the table t, is written with the next number, and perhaps a
\* reply to a resync request; nothing that was encoded before may follow.
Commits(m, r, t) ==
  /\ wire' = Append(wire, m) \/ wire' = Append(Append(wire, m), r)
  /\ m \in Whole /\ m.seq = enc.seq + 1 /\ enc'.seq = enc.seq + 1
  /\ m.type = "init" => m.asOf = m.seq /\ Initializes /\ m.id = main.id /\ main' = Idle
  /\ published' = Append(published, t) /\ published'[m.seq] = t
  /\ main' = Idle \/ main' = MainStaled
  /\ \A p \in Publisher : pub'[p] = Idle \/ (pub'[p].step = pub[p].step /\ (pub'[p].step = "ready" => ~pub'[p].fresh))
  /\ (\E p \in Publisher : pub'[p].step # "idle") \/ t = table'
  /\ UNCHANGED <<cont, decoder, asking, control, refreshes>>

\* Becoming stale changes no publisher's step.
LEMMA StaledStep ==
  ASSUME IInv, NEW p \in Publisher
  PROVE  /\ Staled(Publisher)[p].step = pub[p].step
         /\ Staled(Publisher)[p].step = "ready" => ~Staled(Publisher)[p].fresh
<1>1. CASE pub[p].step = "ready"
  <2>1. pub[p] \in Encoded
    BY <1>1 DEF IInv, PubsOK, Waiting
  <2>2. Staled(Publisher)[p] = [pub[p] EXCEPT !.fresh = FALSE]
    BY <1>1, Zenon DEF Staled
  <2> QED
    BY <2>1, <2>2 DEF Encoded
<1>2. CASE pub[p].step # "ready"
  BY <1>2 DEF Staled
<1> QED
  BY <1>1, <1>2

\* The answer to an initialize is written with a number.
LEMMA InitCommits ==
  ASSUME IInv, FreshOK, InitWrite
  PROVE  \E m \in Lines, r \in Resynced, t \in Table : Commits(m, r, t) /\ m.type = "init" /\ UNCHANGED <<inbox, table>>
<1> DEFINE f == FullFrame(main.tab, TRUE, enc)
           m == [type |-> "init", id |-> main.id, tab |-> main.tab, seq |-> f.seq, asOf |-> f.seq]
           r == [type |-> "resync", id |-> 0]
<1>1. main \in Answering /\ main.tab = table /\ Initializes
  BY MainKinds DEF InitWrite, FreshOK, Initializes
<1>2. main.tab \in Table /\ main.id \in Nat
  BY <1>1 DEF Answering
<1>3. f \in Frames /\ f.seq = enc.seq + 1 /\ Commit(f, main.tab) /\ wire' = Append(wire, m)
  BY <1>2, FullFrames DEF InitWrite, IInv
<1>4. r \in Resynced
  BY DEF Resynced
<1> HIDE DEF f, r
<1>5. f.seq \in Nat /\ published' = Append(published, main.tab) /\ published'[f.seq] = main.tab /\ enc'.seq = f.seq
  BY <1>2, <1>3, Committed DEF IInv, Frames, Commit
<1>6. m \in Initials /\ m.type = "init" /\ m.seq = f.seq /\ m.asOf = f.seq /\ m.id = main.id
  BY <1>2, <1>5 DEF Initials
<1> HIDE DEF m
<1>7. m \in Lines /\ m \in Whole
  BY <1>6 DEF Lines, Whole
<1>8. \A p \in Publisher : pub'[p].step = pub[p].step /\ (pub'[p].step = "ready" => ~pub'[p].fresh)
  BY StaledStep DEF InitWrite
<1>9. Commits(m, r, main.tab)
  BY <1>1, <1>2, <1>3, <1>5, <1>6, <1>7, <1>8 DEF Commits, InitWrite, bounds, Whole
<1> QED
  BY <1>2, <1>4, <1>6, <1>7, <1>9 DEF InitWrite

\* So is the frame of a resync.
LEMMA ResyncCommits ==
  ASSUME IInv, HandleResync
  PROVE  \E m \in Lines, r \in Resynced, t \in Table : Commits(m, r, t) /\ m.type = "frame" /\ UNCHANGED table
<1> DEFINE f == FullFrame(table, whole, enc)
           r == [type |-> "resync", id |-> Head(inbox).id]
<1>1. table \in Table /\ whole \in BOOLEAN
  BY DEF IInv, TableOK
<1>2. f \in Frames /\ f.seq = enc.seq + 1 /\ Commit(f, table)
  BY <1>1, FullFrames DEF HandleResync, IInv
<1>3. r \in Resynced
  BY ReadInbox DEF HandleResync, Resynced
<1>4. wire' = wire \o <<f, r>>
  BY DEF HandleResync
<1> HIDE DEF f, r
<1>5. f \in Lines /\ r \in Lines /\ wire \in Seq(Lines) /\ f \in Whole /\ f.type = "frame"
  BY <1>2, <1>3 DEF Lines, IInv, LinesOK, Whole, Frames
<1>6. wire' = Append(Append(wire, f), r)
  BY <1>4, <1>5
<1>7. published' = Append(published, table) /\ published'[f.seq] = table /\ enc'.seq = f.seq
  BY <1>1, <1>2, Committed DEF IInv, Commit
<1>8. \A p \in Publisher : pub'[p].step = pub[p].step /\ (pub'[p].step = "ready" => ~pub'[p].fresh)
  BY StaledStep DEF HandleResync
<1>9. Commits(f, r, table)
  BY <1>2, <1>5, <1>6, <1>7, <1>8 DEF Commits, HandleResync, bounds, Whole
<1> QED
  BY <1>1, <1>3, <1>5, <1>9 DEF HandleResync

\* So is the empty table.
LEMMA WarmCommits ==
  ASSUME IInv, Warm
  PROVE  \E m \in Lines, r \in Resynced, t \in Table : Commits(m, r, t) /\ m.type = "frame" /\ UNCHANGED inbox
<1> DEFINE f == Prepared(Empty, TRUE, enc)
           r == [type |-> "resync", id |-> 0]
<1>1. Empty \in Table /\ table' = Empty
  BY DEF Empty, Table, Warm
<1>2. f \in Frames /\ f.seq = enc.seq + 1 /\ Commit(f, Empty) /\ wire' = Append(wire, f)
  BY <1>1, PreparedFrames DEF IInv, Warm
<1>3. r \in Resynced
  BY DEF Resynced
<1> HIDE DEF f, r
<1>4. f \in Lines /\ f \in Whole /\ f.type = "frame"
  BY <1>2 DEF Lines, Whole, Frames
<1>5. published' = Append(published, Empty) /\ published'[f.seq] = Empty /\ enc'.seq = f.seq
  BY <1>1, <1>2, Committed DEF IInv, Commit
<1>6. \A p \in Publisher : pub'[p].step = pub[p].step /\ (pub'[p].step = "ready" => ~pub'[p].fresh)
  BY StaledStep DEF Warm
<1>7. Commits(f, r, Empty)
  BY <1>1, <1>2, <1>4, <1>5, <1>6 DEF Commits, Warm, bounds, Whole
<1> QED
  BY <1>1, <1>3, <1>4, <1>7 DEF Warm

\* So is what a publisher encoded, if it may still be written.
LEMMA PubCommits ==
  ASSUME IInv, FreshOK, NEW p \in Publisher, PubWrite(p)
  PROVE  \E m \in Lines, r \in Resynced, t \in Table : Commits(m, r, t) /\ m.type = "frame" /\ UNCHANGED <<inbox, table>>
<1> DEFINE f == pub[p].frame
           t == pub[p].tab
           r == [type |-> "resync", id |-> 0]
<1>1. pub[p] \in Encoded /\ pub[p].fresh /\ pub[p].step = "ready" /\ pub \in [Publisher -> Waiting \cup Encoded]
  BY DEF PubWrite, StillCurrent, IInv, PubsOK, Waiting
<1>2. f \in Frames /\ t \in Table /\ f.seq = enc.seq + 1 /\ Commit(f, t) /\ wire' = Append(wire, f)
  BY <1>1 DEF PubWrite, Encoded, IInv, PubsOK
<1>3. r \in Resynced
  BY DEF Resynced
<1>4. \A q \in Publisher : IF q = p THEN pub'[q] = Idle ELSE pub'[q] = Staled(Publisher)[q]
  BY <1>1, StaledPubs DEF PubWrite, IInv
<1>5. (\E q \in Publisher : pub'[q].step # "idle") \/ t = table'
  <2>1. CASE UpToDate(p)
    BY <1>1, <2>1 DEF UpToDate, PubWrite
  <2>2. ASSUME ~UpToDate(p) PROVE \E q \in Publisher : pub'[q].step # "idle"
    <3>1. PICK q \in Publisher : UpToDate(q)
      BY <1>1, <2>2 DEF FreshOK
    <3>2. q # p /\ pub[q].step # "idle"
      BY <2>2, <3>1 DEF UpToDate
    <3> QED
      BY <1>4, <3>2, StaledStep
  <2> QED
    BY <2>1, <2>2
<1>6. \A q \in Publisher : pub'[q] = Idle \/ (pub'[q].step = pub[q].step /\ (pub'[q].step = "ready" => ~pub'[q].fresh))
  BY <1>4, StaledStep
<1> HIDE DEF f, t, r
<1>7. f \in Lines /\ f \in Whole /\ f.type = "frame"
  BY <1>2 DEF Lines, Whole, Frames
<1>8. published' = Append(published, t) /\ published'[f.seq] = t /\ enc'.seq = f.seq
  BY <1>2, Committed DEF IInv, Commit
<1>9. Commits(f, r, t)
  BY <1>2, <1>5, <1>6, <1>7, <1>8 DEF Commits, PubWrite, bounds, Whole
<1> QED
  BY <1>2, <1>3, <1>7, <1>9 DEF PubWrite

\* The answer without a transport header.
LEMMA LegacyLine ==
  ASSUME IInv, InitLegacy
  PROVE  \E m \in Lines : /\ wire' = Append(wire, m) /\ m.type = "init" /\ m.id = main.id
                          /\ m.seq = 0 /\ m.asOf = main.asOf /\ Initializes
<1> DEFINE m == [type |-> "init", id |-> main.id, tab |-> main.tab, seq |-> 0, asOf |-> main.asOf]
<1>1. main \in Answering /\ Initializes /\ wire' = Append(wire, m)
  BY MainKinds DEF InitLegacy, Initializes
<1>2. m \in Initials
  BY <1>1 DEF Answering, Initials
<1> QED
  BY <1>1, <1>2 DEF Lines

\* The reply to a reindex.
LEMMA ReplyLine ==
  ASSUME IInv, ReindexReply
  PROVE  \E m \in Lines : /\ wire' = Append(wire, m) /\ m.type = "reindex" /\ m.label = main.label
                          /\ m.id = main.id /\ m.rev = main.rev /\ m.asOf = main.asOf /\ Replies
<1> DEFINE m == [type |-> "reindex", id |-> main.id, label |-> main.label, rev |-> main.rev, asOf |-> main.asOf]
<1>1. main \in Replying /\ Replies /\ wire' = Append(wire, m)
  BY MainKinds DEF ReindexReply, Replies
<1>2. m \in Reindexed
  BY <1>1 DEF Replying, Reindexed
<1> QED
  BY <1>1, <1>2 DEF Lines

\* What the main thread holds does not change when it becomes stale.
LEMMA StaledHolds ==
  ASSUME IInv, main' = MainStaled
  PROVE  /\ Held' = Held /\ Replies' = Replies /\ Initializes' = Initializes /\ main'.step = main.step
         /\ main.step # "idle" => main'.asOf = main.asOf
         /\ Initializes => ~main'.fresh
         /\ Replies => main' = main
<1>1. CASE Initializes
  <2>1. main \in Answering /\ main' = [main EXCEPT !.fresh = FALSE]
    BY <1>1, MainKinds DEF MainStaled, Initializes
  <2>2. main'.step = main.step /\ main'.id = main.id /\ main'.asOf = main.asOf /\ ~main'.fresh
    BY <2>1 DEF Answering
  <2> QED
    BY <1>1, <2>2 DEF Held, Replies, Initializes
<1>2. CASE ~Initializes
  BY <1>2 DEF MainStaled, Initializes, Held, Replies
<1> QED
  BY <1>1, <1>2

\* An idle main thread holds nothing.
LEMMA IdleHolds == ASSUME main' = Idle PROVE Held' \notin Lines \cup Requests /\ ~Replies' /\ ~Initializes'
BY DEF Held, Replies, Initializes, Idle, Lines, Frames, Initials, Reindexed, Resynced, Requests

\* Where things are after a line was written with a number.
LEMMA CommitsMove ==
  ASSUME IInv, NEW M \in SUBSET (Lines \cup Requests), NEW m \in Lines, NEW r \in Resynced \ M, NEW t, Commits(m, r, t),
         inbox' = inbox \/ (inbox # <<>> /\ inbox' = Tail(inbox) /\ Head(inbox) \notin M)
  PROVE  /\ Alone(M, Held, inbox, wire, cont) /\ (m \in M => Held \in M /\ Held' \notin M) => Alone(M, Held', inbox', wire', cont')
         /\ Meets(wire', M) <=> Meets(wire, M) \/ m \in M
         /\ Meets(inbox', M) <=> Meets(inbox, M)
         /\ Held' \in M => Held \in M
<1>1. Held' \in M => Held \in M
  BY StaledHolds, IdleHolds DEF Commits
<1>2. /\ wire \in Seq(Lines) /\ Append(wire, m) \in Seq(Lines) /\ Grown(wire, Append(wire, m), m) /\ r \in Lines
      /\ Grown(Append(wire, m), Append(Append(wire, m), r), r) /\ cont' = cont
  BY Typed, Grows DEF Lines, Commits
<1>3. ASSUME Alone(M, Held, inbox, wire, cont), m \in M => Held \in M /\ Held' \notin M PROVE Alone(M, Held', inbox, wire', cont')
  <2>1. Alone(M, Held', inbox, Append(wire, m), cont)
    BY <1>1, <1>2, <1>3, AloneSaid
  <2>2. Alone(M, Held', inbox, Append(Append(wire, m), r), cont)
    BY <1>2, <2>1, AloneSaid
  <2> QED
    BY <1>2, <2>1, <2>2 DEF Commits
<1>4. Meets(wire', M) <=> Meets(wire, M) \/ m \in M
  <2>1. /\ Meets(Append(wire, m), M) <=> Meets(wire, M) \/ m \in M
        /\ Meets(Append(Append(wire, m), r), M) <=> Meets(Append(wire, m), M) \/ r \in M
    BY <1>2, GrownMeets
  <2> QED
    BY <2>1 DEF Commits
<1>5. CASE inbox' = inbox
  BY <1>1, <1>3, <1>4, <1>5
<1>6. CASE inbox # <<>> /\ inbox' = Tail(inbox) /\ Head(inbox) \notin M
  <2>1. inbox \in Seq(Requests) /\ inbox' \in Seq(Requests) /\ Cut(inbox, inbox', Head(inbox))
    BY <1>6, Typed
  <2>2. /\ Meets(inbox', M) <=> Meets(inbox, M)
        /\ OneOf(inbox, M) => OneOf(inbox', M)
    BY <1>6, <2>1, CutMeets
  <2>3. Alone(M, Held', inbox, wire', cont') => Alone(M, Held', inbox', wire', cont')
    BY <2>2 DEF Alone
  <2> QED
    BY <1>1, <1>3, <1>4, <2>2, <2>3
<1> QED
  BY <1>5, <1>6

\* The steps that write with a number.
Writes == InitWrite \/ HandleResync \/ Warm \/ \E p \in Publisher : PubWrite(p)

\* Each of these steps writes with a number.
LEMMA WritesCommit ==
  ASSUME IInv, FreshOK, Writes
  PROVE  \E m \in Lines, r \in Resynced, t \in Table :
           /\ Commits(m, r, t)
           /\ inbox' = inbox \/ (inbox # <<>> /\ inbox' = Tail(inbox) /\ Head(inbox).type = "resync")
           /\ main.step = "reply" => main' = main
<1>1. CASE InitWrite
  BY <1>1, InitCommits DEF InitWrite
<1>2. CASE HandleResync
  BY <1>2, ResyncCommits DEF HandleResync
<1>3. CASE Warm
  BY <1>3, WarmCommits, StaledHolds DEF Warm, Replies
<1>4. ASSUME NEW p \in Publisher, PubWrite(p)
      PROVE  \E m \in Lines, r \in Resynced, t \in Table : Commits(m, r, t) /\ inbox' = inbox /\ (main.step = "reply" => main' = main)
  BY <1>4, PubCommits, StaledHolds DEF PubWrite, Replies
<1> QED
  BY <1>1, <1>2, <1>3, <1>4 DEF Writes

-----------------------------------------------------------------------------
(* One reindex, and one initialize that is awaited.                        *)

DaemonStep ==
  \/ Main \/ Warm
  \/ \E p \in Publisher : AdoptTable(p) \/ PubPrepare(p) \/ PubWrite(p) \/ PubOvertaken(p)

\* The daemon's steps that move nothing.
LEMMA Unmoved ==
  ASSUME IInv, InitPrepare \/ \E p \in Publisher : AdoptTable(p) \/ PubPrepare(p) \/ PubOvertaken(p)
  PROVE  /\ UNCHANGED <<inbox, wire, cont, saving, started, refresh, refreshes, reindexes>> /\ Held' = Held
         /\ Replies' = Replies /\ Initializes' = Initializes
<1>1. CASE InitPrepare
  <2>1. main \in Answering /\ main' = [main EXCEPT !.step = "ready"] /\ main.step = "init"
    BY <1>1, MainKinds DEF InitPrepare
  <2>2. main'.step = "ready" /\ main'.id = main.id
    BY <2>1 DEF Answering
  <2> QED
    BY <1>1, <2>1, <2>2 DEF InitPrepare, Held, Replies, Initializes, control, bounds
<1>2. ASSUME NEW p \in Publisher, AdoptTable(p) \/ PubPrepare(p) \/ PubOvertaken(p)
      PROVE  /\ UNCHANGED <<inbox, wire, cont, saving, started, refresh, refreshes, reindexes>> /\ Held' = Held
             /\ Replies' = Replies /\ Initializes' = Initializes
  BY <1>2, StaledHolds DEF AdoptTable, PubPrepare, PubOvertaken, Held, Replies, Initializes, control, bounds
<1> QED
  BY <1>1, <1>2

\* What the sets of reindexes hold.
LEMMA SaveSets ==
  ASSUME IInv
  PROVE  /\ reindexes \in Nat
         /\ \A N : Saves(N) \in SUBSET (Lines \cup Requests) /\ \A m \in Saves(N) : m.type = "reindex"
         /\ \A m \in Lines \cup Requests : m.type = "reindex" =>
              /\ m.id \in Nat
              /\ m \in Saves(Nat)
              /\ m \in Saves({reindexes}) <=> m.id = reindexes
              /\ m \in Saves(Unsent) <=> m.id > reindexes
              /\ m \in Saves(Nat \ {reindexes}) <=> m.id # reindexes
<1>1. reindexes \in Nat /\ \A m \in Lines \cup Requests : m.type = "reindex" => m.id \in Nat
  BY DEF IInv, InboxOK, Lines, Frames, Initials, Reindexed, Resynced, Requests
<1> QED
  BY <1>1 DEF Saves, Unsent

\* SavesOK, set by set.
LEMMA SavesByDaemon ==
  ASSUME IInv, FreshOK, SavesOK, DaemonStep
  PROVE  SavesOK'
<1> USE DEF DaemonStep
<1> DEFINE A == Saves({reindexes})
           B == Saves(Unsent)
           C == Saves(Nat \ {reindexes})
           S == Saves(Nat)
<1>0. /\ Alone(A, Held, inbox, wire, cont)
      /\ ~Meets(inbox, B) /\ Held \notin B /\ ~Meets(wire, B) /\ ~Meets(cont, C)
      /\ ~saving => ~Meets(cont, S)
      /\ Ends(inbox, S, A)
      /\ ~started => ~Meets(inbox, S) /\ ~Replies /\ ~Meets(wire, S) /\ ~Meets(cont, S)
  BY DEF SavesOK
<1>1. /\ A \in SUBSET (Lines \cup Requests) /\ B \in SUBSET (Lines \cup Requests) /\ S \in SUBSET (Lines \cup Requests)
      /\ \A m : m.type # "reindex" => m \notin A /\ m \notin B /\ m \notin S
  BY SaveSets
<1>2. UNCHANGED <<cont, started, saving, reindexes>> /\ A' = A /\ B' = B /\ C' = C /\ S' = S
  BY DEF Main, HandleInit, InitPrepare, InitWrite, InitLegacy, HandleReindex, ReindexReply, HandleResync, Warm,
         AdoptTable, PubPrepare, PubWrite, PubOvertaken, control, bounds, Unsent
<1>3. /\ Held \in A <=> Replies /\ main.id = reindexes
      /\ Held \in B <=> Replies /\ main.id \in Unsent
      /\ Held \in S <=> Replies /\ main.id \in Nat
      /\ Replies => main.id \in Nat
  BY Holds, MainKinds DEF Replies, Replying
<1>4. SUFFICES /\ Alone(A, Held', inbox', wire', cont')
               /\ ~Meets(inbox', B) /\ Held' \notin B /\ ~Meets(wire', B)
               /\ Ends(inbox', S, A)
               /\ ~started => ~Meets(inbox', S) /\ ~Replies' /\ ~Meets(wire', S)
  BY <1>0, <1>2 DEF SavesOK
<1> HIDE DEF A, B, C, S
<1>5. CASE HandleInit
  <2>1. /\ inbox # <<>> /\ inbox' = Tail(inbox) /\ UNCHANGED <<wire, cont>> /\ ~Replies
        /\ main'.step = "init" /\ Head(inbox).type = "init"
    BY <1>5 DEF HandleInit, Replies, Idle
  <2>2. Held' \notin A /\ Held' \notin B /\ ~Replies' /\ Head(inbox) \notin A /\ Head(inbox) \notin B /\ Head(inbox) \notin S
    BY <1>1, <2>1 DEF Held, Replies, Initializes
  <2>3. Ends(inbox', S, A)
    BY <1>0, <2>1, Typed, CutEnds
  <2> QED
    BY <1>0, <1>3, <2>1, <2>2, <2>3, Takes
<1>6. CASE InitPrepare \/ \E p \in Publisher : AdoptTable(p) \/ PubPrepare(p) \/ PubOvertaken(p)
  BY <1>0, <1>6, Unmoved
<1>7. CASE HandleReindex
  <2>1. /\ inbox # <<>> /\ inbox' = Tail(inbox) /\ UNCHANGED <<wire, cont>> /\ ~Replies
        /\ main'.step = "reply" /\ main'.id = Head(inbox).id /\ Head(inbox).type = "reindex" /\ Head(inbox) \in Requests
    BY <1>7, Typed DEF HandleReindex, Answer, Replies, Idle
  <2>2. Held' = [type |-> "reindex", id |-> Head(inbox).id] /\ Head(inbox).id \in Nat
    BY <2>1, SaveSets DEF Held, Replies
  <2>3. Held' \in Requests /\ Held'.type = "reindex" /\ Held'.id = Head(inbox).id
    BY <2>2 DEF Requests
  <2>4. (Held' \in A <=> Head(inbox) \in A) /\ (Held' \in B <=> Head(inbox) \in B) /\ Head(inbox) \in S
    BY <2>1, <2>3, SaveSets DEF A, B, S
  <2>5. Ends(inbox', S, A)
    BY <1>0, <2>1, Typed, CutEnds
  <2>6. Meets(inbox, S)
    BY <2>1, <2>4, Typed, CutMeets
  <2> QED
    BY <1>0, <1>3, <2>1, <2>4, <2>5, <2>6, Takes
<1>8. CASE InitLegacy \/ ReindexReply
  <2>1. PICK m \in Lines : wire' = Append(wire, m) /\ (m.type = "reindex" => Replies /\ m.id = main.id)
    BY <1>8, LegacyLine, ReplyLine
  <2>2. UNCHANGED <<inbox, cont>> /\ main' = Idle
    BY <1>8 DEF InitLegacy, ReindexReply
  <2>3. (m \in A => Held \in A) /\ (m \in B => Held \in B) /\ (m \in S => Replies)
    BY <1>1, <1>3, <2>1, SaveSets DEF A, B, Unsent
  <2>4. Held' \notin A /\ Held' \notin B /\ ~Replies'
    BY <1>1, <2>2, IdleHolds
  <2> QED
    BY <1>0, <2>1, <2>2, <2>3, <2>4, Says
<1>9. CASE Writes
  <2>1. PICK m \in Lines, r \in Resynced, t \in Table :
          /\ Commits(m, r, t)
          /\ inbox' = inbox \/ (inbox # <<>> /\ inbox' = Tail(inbox) /\ Head(inbox).type = "resync")
    BY <1>9, WritesCommit
  <2>2. /\ r \notin A /\ r \notin B /\ r \notin S /\ m \notin A /\ m \notin B /\ m \notin S /\ cont' = cont
        /\ Head(inbox).type = "resync" => Head(inbox) \notin A /\ Head(inbox) \notin B /\ Head(inbox) \notin S
    BY <1>1, <2>1 DEF Commits, Resynced, Whole
  <2>3. /\ Alone(A, Held', inbox', wire', cont')
        /\ Meets(wire', A) <=> Meets(wire, A)
        /\ Held' \in A => Held \in A
    BY <1>0, <1>1, <2>1, <2>2, CommitsMove
  <2>4. /\ Meets(wire', B) <=> Meets(wire, B)
        /\ Meets(inbox', B) <=> Meets(inbox, B)
        /\ Held' \in B => Held \in B
    BY <1>1, <2>1, <2>2, CommitsMove
  <2>5. /\ Meets(wire', S) <=> Meets(wire, S)
        /\ Meets(inbox', S) <=> Meets(inbox, S)
    BY <1>1, <2>1, <2>2, CommitsMove
  <2>6. Ends(inbox', S, A)
    BY <1>0, <2>1, Typed, CutEnds
  <2>7. Replies' => Replies
    BY <2>1, StaledHolds, IdleHolds DEF Commits
  <2> QED
    BY <1>0, <2>3, <2>4, <2>5, <2>6, <2>7
<1> QED
  BY <1>5, <1>6, <1>7, <1>8, <1>9 DEF Main, Writes

\* A smaller set is met less.
LEMMA MeetsLess ==
  ASSUME NEW s, NEW M, NEW N, \A i \in 1..Len(s) : s[i] \in N => s[i] \in M, ~Meets(s, M) PROVE ~Meets(s, N)
BY DEF Meets

\* What is nowhere is alone.
LEMMA AloneNowhere ==
  ASSUME NEW M, NEW h, NEW q, NEW w, NEW c, h \notin M, ~Meets(q, M), ~Meets(w, M), ~Meets(c, M)
  PROVE  Alone(M, h, q, w, c)
BY DEF Alone, OneOf, Meets

\* A resync request is not in a set without them.
LEMMA AskElse ==
  ASSUME IInv, Ask \/ UNCHANGED inbox, NEW M, \A m \in M : m.type # "resync"
  PROVE  AsksElse(M)
<1>1. [type |-> "resync", id |-> expired] \in Requests \ M
  BY DEF IInv, InboxOK, Requests
<1> QED
  BY <1>1 DEF Ask, AsksElse

\* How the client's steps move what is under way.
LEMMA ClientReceives ==
  ASSUME Receive
  PROVE  /\ wire # <<>> /\ wire' = Tail(wire) /\ (Ask \/ UNCHANGED inbox) /\ cont' \in {cont, Append(cont, Head(wire))}
         /\ cont' # cont => HandleReply /\ Awaited(Head(wire))
         /\ UNCHANGED <<daemon, main, saving, started, refreshes, pending>>
         /\ refresh' = "asked" <=> refresh = "asked"
         /\ refresh' = "settling" <=> refresh = "settling"
BY DEF Receive, HandleFrame, HandleReply, daemon, control, bounds, Cleared

\* What a continuation moves.
LEMMA ClientContinues ==
  ASSUME Continue
  PROVE  /\ cont # <<>> /\ cont' = Tail(cont) /\ (Ask \/ UNCHANGED inbox) /\ UNCHANGED <<daemon, main, wire, refreshes>>
         /\ Head(cont).type # "init" => UNCHANGED <<started, refresh>>
         /\ Head(cont).type = "init" => started' /\ refresh' = "no"
         /\ saving' = saving \/ Head(cont).type = "reindex"
BY DEF Continue, AdoptInit, AdoptReindex, ResyncDone, daemon, control, bounds

\* Requests for what is not in M end what they ended.
LEMMA AsksElseEnds ==
  ASSUME IInv, NEW M, NEW N, AsksElse(M), Ends(inbox, M, N)
  PROVE  Ends(inbox', M, N)
BY Typed, GrownEnds DEF AsksElse

LEMMA SavesByClient == ASSUME IInv, ControlOK, SavesOK, Client PROVE SavesOK'
<1> DEFINE A == Saves({reindexes})
           B == Saves(Unsent)
           C == Saves(Nat \ {reindexes})
           S == Saves(Nat)
<1>0. /\ Alone(A, Held, inbox, wire, cont)
      /\ ~Meets(inbox, B) /\ Held \notin B /\ ~Meets(wire, B) /\ ~Meets(cont, C)
      /\ ~saving => ~Meets(cont, S)
      /\ Ends(inbox, S, A)
      /\ ~started => ~Meets(inbox, S) /\ ~Replies /\ ~Meets(wire, S) /\ ~Meets(cont, S)
  BY DEF SavesOK
<1>1. /\ \A m \in A \cup B \cup C \cup S : m.type = "reindex"
      /\ reindexes \in Nat
  BY SaveSets
<1>2. UNCHANGED reindexes => A' = A /\ B' = B /\ C' = C /\ S' = S
  BY DEF Unsent
<1>3. UNCHANGED main /\ Held' = Held /\ Replies' = Replies
  BY DEF Client, Receive, Continue, HandleFrame, HandleReply, AdoptInit, AdoptReindex, ResyncDone, ResyncFails, daemon,
         ResyncRetry, SendReindex, ReindexFails, HandleHealth, Refreshes, RefreshBegin, RefreshAgain, Begin,
         RefreshSend, RefreshFails, Held, Replies, Initializes
<1> HIDE DEF A, B, C, S
<1>4. CASE SendReindex
  <2> DEFINE m == [type |-> "reindex", id |-> reindexes + 1]
  <2>1. m \in Requests /\ m.type = "reindex" /\ m.id = reindexes + 1
    BY <1>1 DEF Requests
  <2>2. /\ inbox' = Append(inbox, m) /\ UNCHANGED <<wire, cont>> /\ ~saving /\ started /\ started'
        /\ reindexes' = reindexes + 1
    BY <1>4 DEF SendReindex
  <2> HIDE DEF m
  <2> DEFINE D == Saves({reindexes'})
             E == Saves(Unsent')
  <2>3. \A n \in Lines \cup Requests : (n \in D => n \in B) /\ (n \in E => n \in B)
    BY <1>1, <2>2, SaveSets DEF B, Saves, Unsent
  <2>4. m \in D /\ m \notin E
    BY <1>1, <2>1, <2>2 DEF Saves, Unsent
  <2>5. Held \notin D /\ Held \notin E
    BY <1>0, <2>3 DEF Saves
  <2>6. \A N : ~Meets(cont, Saves(N))
    <3>1. \A i \in 1..Len(cont) : cont[i] \in Lines
      BY Typed
    <3>2. \A N : \A i \in 1..Len(cont) : cont[i] \in Saves(N) => cont[i] \in S
      BY <3>1, SaveSets DEF S
    <3> QED
      BY <1>0, <2>2, <3>2 DEF Meets
  <2> HIDE DEF D, E
  <2>7. ~Meets(inbox, D) /\ ~Meets(wire, D) /\ ~Meets(inbox, E) /\ ~Meets(wire, E)
    BY <1>0, <2>3, Typed, MeetsLess
  <2>8. ~Meets(cont, D)
    BY <2>6 DEF D
  <2>9. Alone(D, Held, inbox', wire, cont) /\ ~Meets(inbox', E)
    <3>1. Alone(D, Held, inbox, wire, cont)
      BY <2>5, <2>7, <2>8, AloneNowhere
    <3> QED
      BY <1>3, <2>1, <2>2, <2>4, <2>5, <2>7, <2>8, <3>1, Asks
  <2>10. \A M : Ends(inbox', M, D)
    BY <2>1, <2>2, <2>4, Typed, GrownEnds
  <2> QED
    BY <1>3, <2>2, <2>5, <2>6, <2>7, <2>9, <2>10 DEF SavesOK, D, E
<1>5. SUFFICES ASSUME ~SendReindex
               PROVE  /\ Alone(A, Held', inbox', wire', cont')
                      /\ ~Meets(inbox', B) /\ ~Meets(wire', B) /\ ~Meets(cont', C)
                      /\ ~saving' => ~Meets(cont', S)
                      /\ Ends(inbox', S, A)
                      /\ ~started' => ~Meets(inbox', S) /\ ~Meets(wire', S) /\ ~Meets(cont', S)
                      /\ started => started'
  <2>1. CASE ~SendReindex
    <3>1. UNCHANGED reindexes
      BY <2>1 DEF Client, Receive, Continue, HandleFrame, HandleReply, AdoptInit, AdoptReindex, ResyncDone, ResyncFails,
         ResyncRetry, ReindexFails, HandleHealth, Refreshes, RefreshBegin, RefreshAgain, Begin,
         RefreshSend, RefreshFails, bounds
    <3> QED
      BY <1>0, <1>2, <1>3, <1>5, <2>1, <3>1 DEF SavesOK, A, B, C, S
  <2> QED
    BY <1>4, <2>1
<1>6. CASE Receive
  <2>1. /\ wire # <<>> /\ wire' = Tail(wire) /\ AsksElse(A) /\ AsksElse(B) /\ AsksElse(C) /\ AsksElse(S)
        /\ UNCHANGED <<main, saving, started>> /\ cont' \in {cont, Append(cont, Head(wire))}
        /\ cont' # cont => Awaited(Head(wire)) /\ Head(wire) \in Lines
    BY <1>1, <1>6, ClientReceives, AskElse, Typed
  <2>2. cont' # cont => Head(wire) \notin C /\ (~saving => Head(wire) \notin S)
    BY <1>1, <2>1, SaveSets DEF Awaited, C, S
  <2>3. /\ Alone(A, Held', inbox', wire', cont')
        /\ Ends(inbox', S, A)
    BY <1>0, <2>1, Receives, AsksElseEnds
  <2>4. /\ Meets(wire', B) => Meets(wire, B)
        /\ Meets(inbox', B) <=> Meets(inbox, B)
    BY <2>1, Receives
  <2>5. Meets(cont', C) => Meets(cont, C) \/ (cont' # cont /\ Head(wire) \in C)
    BY <2>1, Receives
  <2>6. /\ Meets(cont', S) => Meets(cont, S) \/ (cont' # cont /\ Head(wire) \in S)
        /\ Meets(wire, S) <=> Meets(wire', S) \/ Head(wire) \in S
        /\ Meets(inbox', S) <=> Meets(inbox, S)
    BY <2>1, Receives
  <2> QED
    BY <1>0, <2>1, <2>2, <2>3, <2>4, <2>5, <2>6
<1>7. CASE Continue
  <2>1. /\ cont # <<>> /\ cont' = Tail(cont) /\ AsksElse(A) /\ AsksElse(B) /\ AsksElse(C) /\ AsksElse(S)
        /\ UNCHANGED <<main, wire>> /\ Head(cont) \in Lines
        /\ Head(cont).type = "init" \/ started' = started
        /\ Head(cont).type = "init" => started'
        /\ saving' = saving \/ Head(cont).type = "reindex"
    BY <1>1, <1>7, ClientContinues, AskElse, Typed
  <2>2. /\ Alone(A, Held', inbox', wire', cont')
        /\ Ends(inbox', S, A)
        /\ Head(cont) \in A => ~Meets(cont', A)
    BY <1>0, <2>1, Continues, AsksElseEnds
  <2>3. /\ Meets(inbox', B) <=> Meets(inbox, B)
        /\ Meets(cont', C) => Meets(cont, C)
        /\ Head(cont) \notin C
    BY <1>0, <2>1, Continues
  <2>4. /\ Meets(cont', S) => Meets(cont, S)
        /\ Meets(inbox', S) <=> Meets(inbox, S)
    BY <2>1, Continues
  <2>5. Head(cont).type = "reindex" => Head(cont) \in A
    BY <2>1, <2>3, SaveSets DEF A, C
  <2>6. Meets(cont', S) => Meets(cont', A) \/ Meets(cont', C)
    <3>1. \A i \in 1..Len(cont') : cont'[i] \in Lines
      BY <2>1, Typed
    <3> QED
      BY <3>1, SaveSets DEF Meets, S, A, C
  <2> QED
    BY <1>0, <2>1, <2>2, <2>3, <2>4, <2>5, <2>6
<1>8. CASE ResyncFails \/ HandleHealth \/ RefreshBegin \/ RefreshAgain \/ RefreshFails
  BY <1>0, <1>3, <1>8 DEF ResyncFails, HandleHealth, RefreshBegin, RefreshAgain, Begin, RefreshFails, control
<1>9. CASE ReindexFails
  <2>1. ~Meets(cont, S)
    BY <1>1, <1>9 DEF ReindexFails, Meets
  <2> QED
    BY <1>0, <1>3, <1>9, <2>1 DEF ReindexFails
<1>10. CASE ResyncRetry
  <2>1. AsksElse(A) /\ AsksElse(B) /\ AsksElse(S) /\ UNCHANGED <<main, wire, cont, saving, started>>
    BY <1>1, <1>10, AskElse DEF ResyncRetry, daemon, control
  <2> QED
    BY <1>0, <1>3, <2>1, AsksElseMeets, AsksElseEnds
<1>11. CASE RefreshSend
  <2>1. /\ [type |-> "init", id |-> refreshes] \in Requests /\ inbox' = Append(inbox, [type |-> "init", id |-> refreshes])
        /\ UNCHANGED <<main, wire, cont, saving, started>>
    BY <1>11 DEF RefreshSend, Requests, daemon, IInv, InboxOK
  <2>2. AsksElse(A) /\ AsksElse(B) /\ AsksElse(S)
    BY <1>1, <2>1 DEF AsksElse
  <2> QED
    BY <1>0, <1>3, <2>1, <2>2, AsksElseMeets, AsksElseEnds
<1> QED
  BY <1>5, <1>6, <1>7, <1>8, <1>9, <1>10, <1>11 DEF Client, Refreshes

\* What the sets of initializes hold.
LEMMA InitSets ==
  ASSUME IInv
  PROVE  /\ refreshes \in Nat
         /\ \A N : Inits(N) \in SUBSET (Lines \cup Requests) /\ \A m \in Inits(N) : m.type = "init"
         /\ \A m \in Lines \cup Requests : m.type = "init" =>
              /\ m.id \in Nat
              /\ m \in Inits(Nat)
              /\ m \in Inits({refreshes}) <=> m.id = refreshes
              /\ m \in Inits(Later) <=> m.id > refreshes
              /\ m \in Inits(Nat \ {refreshes}) <=> m.id # refreshes
<1>1. refreshes \in Nat /\ \A m \in Lines \cup Requests : m.type = "init" => m.id \in Nat
  BY DEF IInv, InboxOK, Lines, Frames, Initials, Reindexed, Resynced, Requests
<1> QED
  BY <1>1 DEF Inits, Later

\* InitsOK, set by set.
LEMMA InitsByDaemon ==
  ASSUME IInv, FreshOK, InitsOK, DaemonStep
  PROVE  InitsOK'
<1> USE DEF DaemonStep
<1> DEFINE A == Inits({refreshes})
           B == Inits(Later)
           C == Inits(Nat \ {refreshes})
<1>0. /\ Alone(A, Held, inbox, wire, cont)
      /\ ~Meets(inbox, B) /\ Held \notin B /\ ~Meets(wire, B) /\ ~Meets(cont, C)
      /\ started /\ refresh # "asked" => ~Meets(cont, A)
      /\ refresh = "settling" => ~Meets(inbox, A) /\ Held \notin A /\ ~Meets(wire, A)
  BY DEF InitsOK
<1>1. /\ A \in SUBSET (Lines \cup Requests) /\ B \in SUBSET (Lines \cup Requests)
      /\ \A m : m.type # "init" => m \notin A /\ m \notin B
  BY InitSets
<1>2. UNCHANGED <<cont, started, refresh, refreshes>> /\ A' = A /\ B' = B /\ C' = C
  BY DEF Main, HandleInit, InitPrepare, InitWrite, InitLegacy, HandleReindex, ReindexReply, HandleResync, Warm,
         AdoptTable, PubPrepare, PubWrite, PubOvertaken, control, bounds, Later
<1>3. (Held \in A <=> Initializes /\ main.id = refreshes) /\ (Held \in B <=> Initializes /\ main.id \in Later)
  BY Holds
<1>4. SUFFICES /\ Alone(A, Held', inbox', wire', cont')
               /\ ~Meets(inbox', B) /\ Held' \notin B /\ ~Meets(wire', B)
               /\ refresh = "settling" => ~Meets(inbox', A) /\ Held' \notin A /\ ~Meets(wire', A)
  BY <1>0, <1>2 DEF InitsOK
<1> HIDE DEF A, B, C
<1>5. CASE HandleInit
  <2>1. /\ inbox # <<>> /\ inbox' = Tail(inbox) /\ UNCHANGED <<wire, cont>> /\ ~Initializes
        /\ main'.step = "init" /\ main'.id = Head(inbox).id /\ Head(inbox).type = "init" /\ Head(inbox) \in Requests
    BY <1>5, Typed DEF HandleInit, Initializes, Idle
  <2>2. Held' = [type |-> "init", id |-> Head(inbox).id] /\ Head(inbox).id \in Nat
    BY <2>1, InitSets DEF Held, Replies, Initializes
  <2>3. Held' \in Requests /\ Held'.type = "init" /\ Held'.id = Head(inbox).id
    BY <2>2 DEF Requests
  <2>4. (Held' \in A <=> Head(inbox) \in A) /\ (Held' \in B <=> Head(inbox) \in B)
    BY <2>1, <2>3, InitSets DEF A, B
  <2> QED
    BY <1>0, <1>3, <2>1, <2>4, Takes
<1>6. CASE InitPrepare \/ \E p \in Publisher : AdoptTable(p) \/ PubPrepare(p) \/ PubOvertaken(p)
  BY <1>0, <1>6, Unmoved
<1>7. CASE HandleReindex
  <2>1. /\ inbox # <<>> /\ inbox' = Tail(inbox) /\ UNCHANGED <<wire, cont>> /\ ~Initializes
        /\ main'.step = "reply" /\ Head(inbox).type = "reindex"
    BY <1>7 DEF HandleReindex, Answer, Initializes, Idle
  <2>2. Held' \notin A /\ Held' \notin B /\ Head(inbox) \notin A /\ Head(inbox) \notin B
    BY <1>1, <2>1 DEF Held, Replies
  <2> QED
    BY <1>0, <1>3, <2>1, <2>2, Takes
<1>8. CASE InitLegacy \/ ReindexReply
  <2>1. PICK m \in Lines : wire' = Append(wire, m) /\ (m.type = "init" => Initializes /\ m.id = main.id)
    BY <1>8, LegacyLine, ReplyLine
  <2>2. UNCHANGED <<inbox, cont>> /\ main' = Idle
    BY <1>8 DEF InitLegacy, ReindexReply
  <2>3. (m \in A => Held \in A) /\ (m \in B => Held \in B)
    BY <1>1, <1>3, <2>1, InitSets DEF A, B, Later
  <2>4. Held' \notin A /\ Held' \notin B
    BY <1>1, <2>2, IdleHolds
  <2> QED
    BY <1>0, <2>1, <2>2, <2>3, <2>4, Says
<1>9. CASE Writes
  <2>1. PICK m \in Lines, r \in Resynced, t \in Table :
          /\ Commits(m, r, t)
          /\ inbox' = inbox \/ (inbox # <<>> /\ inbox' = Tail(inbox) /\ Head(inbox).type = "resync")
    BY <1>9, WritesCommit
  <2>2. /\ r \notin A /\ r \notin B /\ cont' = cont
        /\ Head(inbox).type = "resync" => Head(inbox) \notin A /\ Head(inbox) \notin B
        /\ m.type = "init" => Initializes /\ m.id = main.id /\ main' = Idle
    BY <1>1, <2>1 DEF Commits, Resynced
  <2>3. (m \in A => Held \in A /\ Held' \notin A) /\ (m \in B => Held \in B)
    BY <1>1, <1>3, <2>1, <2>2, InitSets, IdleHolds DEF A, B, Later
  <2>4. /\ Alone(A, Held', inbox', wire', cont')
        /\ Meets(wire', A) <=> Meets(wire, A) \/ m \in A
        /\ Meets(inbox', A) <=> Meets(inbox, A)
        /\ Held' \in A => Held \in A
    BY <1>0, <1>1, <2>1, <2>2, <2>3, CommitsMove
  <2>5. /\ Meets(wire', B) <=> Meets(wire, B) \/ m \in B
        /\ Meets(inbox', B) <=> Meets(inbox, B)
        /\ Held' \in B => Held \in B
    BY <1>1, <2>1, <2>2, CommitsMove
  <2> QED
    BY <1>0, <2>3, <2>4, <2>5
<1> QED
  BY <1>5, <1>6, <1>7, <1>8, <1>9 DEF Main, Writes

LEMMA InitsByClient == ASSUME IInv, ControlOK, InitsOK, Client PROVE InitsOK'
<1> DEFINE A == Inits({refreshes})
           B == Inits(Later)
           C == Inits(Nat \ {refreshes})
<1>0. /\ Alone(A, Held, inbox, wire, cont)
      /\ ~Meets(inbox, B) /\ Held \notin B /\ ~Meets(wire, B) /\ ~Meets(cont, C)
      /\ started /\ refresh # "asked" => ~Meets(cont, A)
      /\ refresh = "settling" => ~Meets(inbox, A) /\ Held \notin A /\ ~Meets(wire, A)
  BY DEF InitsOK
<1>1. /\ \A m \in A \cup B \cup C : m.type = "init"
      /\ refreshes \in Nat
  BY InitSets
<1>2. UNCHANGED refreshes => A' = A /\ B' = B /\ C' = C
  BY DEF Later
<1>3. UNCHANGED main /\ Held' = Held
  BY DEF Client, Receive, Continue, HandleFrame, HandleReply, AdoptInit, AdoptReindex, ResyncDone, ResyncFails, daemon,
         ResyncRetry, SendReindex, ReindexFails, HandleHealth, Refreshes, RefreshBegin, RefreshAgain, Begin,
           RefreshSend, RefreshFails, Held, Replies, Initializes
<1> HIDE DEF A, B, C
<1>4. SUFFICES ASSUME UNCHANGED refreshes
               PROVE  /\ Alone(A, Held', inbox', wire', cont')
                      /\ ~Meets(inbox', B) /\ ~Meets(wire', B) /\ ~Meets(cont', C)
                      /\ started' /\ refresh' # "asked" => ~Meets(cont', A)
                      /\ refresh' = "settling" => ~Meets(inbox', A) /\ Held \notin A /\ ~Meets(wire', A)
  <2>1. CASE UNCHANGED refreshes
    BY <1>0, <1>2, <1>3, <1>4, <2>1 DEF InitsOK, A, B, C
  <2>2. CASE refreshes' # refreshes
    <3>1. RefreshBegin \/ RefreshAgain
      BY <2>2 DEF Client, Receive, Continue, HandleFrame, HandleReply, AdoptInit, AdoptReindex, ResyncDone, ResyncFails,
         ResyncRetry, SendReindex, ReindexFails, HandleHealth, Refreshes, RefreshSend, RefreshFails, bounds
    <3>2. UNCHANGED <<inbox, wire, cont>> /\ refreshes' = refreshes + 1 /\ started /\ started' /\ refresh # "asked"
      BY <3>1 DEF RefreshBegin, RefreshAgain, Begin, ControlOK
    <3>3. \A m \in Lines \cup Requests : (m \in Inits({refreshes'}) \/ m \in Inits(Later') => m \in B)
      BY <1>1, <3>2, InitSets DEF B, Inits, Later
    <3>4. ~Meets(inbox, Inits({refreshes'})) /\ ~Meets(wire, Inits({refreshes'}))
          /\ ~Meets(inbox, Inits(Later')) /\ ~Meets(wire, Inits(Later'))
      BY <1>0, <3>3, Typed, MeetsLess
    <3>5. ~Meets(cont, A) /\ ~Meets(cont, C)
      BY <1>0, <3>2
    <3>6. \A i \in 1..Len(cont) : cont[i].type # "init"
      <4>1. \A i \in 1..Len(cont) : cont[i] \in Lines
        BY Typed
      <4> QED
        BY <3>5, <4>1, InitSets DEF Meets, A, C
    <3>7. \A N : ~Meets(cont, Inits(N))
      BY <3>6 DEF Meets, Inits
    <3>8. Held \notin Inits({refreshes'}) /\ Held \notin Inits(Later')
      BY <1>0, <3>3 DEF Inits
    <3>9. Alone(Inits({refreshes'}), Held, inbox, wire, cont)
      BY <3>4, <3>7, <3>8, AloneNowhere
    <3> QED
      BY <1>3, <3>2, <3>4, <3>7, <3>8, <3>9 DEF InitsOK
  <2> QED
    BY <2>1, <2>2
<1>5. CASE Receive
  <2>1. /\ wire # <<>> /\ wire' = Tail(wire) /\ AsksElse(A) /\ AsksElse(B) /\ AsksElse(C)
        /\ UNCHANGED <<main, started>> /\ cont' \in {cont, Append(cont, Head(wire))}
        /\ (refresh' = "asked" <=> refresh = "asked") /\ (refresh' = "settling" <=> refresh = "settling")
        /\ cont' # cont => Awaited(Head(wire)) /\ Head(wire) \in Lines
    BY <1>1, <1>5, ClientReceives, AskElse, Typed
  <2>2. ASSUME cont' # cont, Head(wire).type = "init" PROVE Head(wire).id = refreshes /\ (started => refresh = "asked")
    <3>1. Head(wire) \notin B
      BY <1>0, <2>1, Receives
    <3> QED
      BY <2>1, <2>2, <3>1, InitSets DEF Awaited, ControlOK, B
  <2>3. cont' # cont => Head(wire) \notin C /\ (started /\ refresh # "asked" => Head(wire) \notin A)
    BY <1>1, <2>1, <2>2, InitSets DEF A, C
  <2>4. /\ Alone(A, Held', inbox', wire', cont')
        /\ Meets(wire', A) => Meets(wire, A)
        /\ Meets(cont', A) => Meets(cont, A) \/ Head(wire) \in A
        /\ Meets(inbox', A) <=> Meets(inbox, A)
    BY <1>0, <2>1, Receives
  <2>5. /\ Meets(wire', B) => Meets(wire, B)
        /\ Meets(inbox', B) <=> Meets(inbox, B)
    BY <2>1, Receives
  <2>6. Meets(cont', C) => Meets(cont, C) \/ Head(wire) \in C
    BY <2>1, Receives
  <2> QED
    BY <1>0, <2>1, <2>3, <2>4, <2>5, <2>6
<1>6. CASE Continue
  <2>1. /\ cont # <<>> /\ cont' = Tail(cont) /\ AsksElse(A) /\ AsksElse(B) /\ AsksElse(C)
        /\ UNCHANGED <<main, wire>> /\ Head(cont) \in Lines
        /\ Head(cont).type # "init" => UNCHANGED <<started, refresh>>
        /\ Head(cont).type = "init" => started' /\ refresh' = "no"
    BY <1>1, <1>6, ClientContinues, AskElse, Typed
  <2>2. /\ Alone(A, Held', inbox', wire', cont')
        /\ Meets(cont', A) => Meets(cont, A)
        /\ Head(cont) \in A => ~Meets(cont', A)
        /\ Meets(inbox', A) <=> Meets(inbox, A)
    BY <1>0, <2>1, Continues
  <2>3. /\ Meets(inbox', B) <=> Meets(inbox, B)
        /\ Meets(cont', C) => Meets(cont, C)
        /\ Head(cont) \notin C
    BY <1>0, <2>1, Continues
  <2>4. Head(cont).type = "init" => Head(cont) \in A
    BY <2>1, <2>3, InitSets DEF A, C
  <2> QED
    BY <1>0, <2>1, <2>2, <2>3, <2>4
<1>7. CASE ResyncFails \/ HandleHealth \/ ReindexFails \/ RefreshBegin \/ RefreshAgain \/ RefreshFails
  <2>1. /\ UNCHANGED <<inbox, wire, cont, started>>
        /\ RefreshFails \/ ((refresh' = "asked" <=> refresh = "asked") /\ (refresh' = "settling" <=> refresh = "settling"))
    BY <1>1, <1>4, <1>7 DEF ResyncFails, HandleHealth, ReindexFails, RefreshBegin, RefreshAgain, Begin, RefreshFails, control, Cleared
  <2>2. ASSUME RefreshFails PROVE ~Meets(cont, A)
    BY <1>1, <2>2 DEF RefreshFails, Meets
  <2>3. RefreshFails => refresh' # "settling"
    BY DEF RefreshFails
  <2> QED
    BY <1>0, <1>3, <2>1, <2>2, <2>3
<1>8. CASE ResyncRetry
  <2>1. AsksElse(A) /\ AsksElse(B) /\ UNCHANGED <<main, wire, cont, started, refresh>>
    BY <1>1, <1>8, AskElse DEF ResyncRetry, daemon, control
  <2> QED
    BY <1>0, <1>3, <2>1, AsksElseMeets
<1>9. CASE SendReindex
  <2> DEFINE m == [type |-> "reindex", id |-> reindexes + 1]
  <2>1. m \in Requests /\ m.type = "reindex"
    BY DEF IInv, InboxOK, Requests
  <2>2. inbox' = Append(inbox, m) /\ UNCHANGED <<main, wire, cont, started, refresh>>
    BY <1>9 DEF SendReindex, daemon
  <2> HIDE DEF m
  <2>3. m \notin A /\ m \notin B
    BY <1>1, <2>1
  <2> QED
    BY <1>0, <2>1, <2>2, <2>3, Asks
<1>10. CASE RefreshSend
  <2> DEFINE m == [type |-> "init", id |-> refreshes]
  <2>1. m \in Requests /\ m.type = "init" /\ m.id = refreshes
    BY <1>1 DEF Requests
  <2>2. inbox' = Append(inbox, m) /\ UNCHANGED <<main, wire, cont, started>> /\ refresh = "settling" /\ refresh' = "asked" /\ started
    BY <1>10 DEF RefreshSend, daemon, ControlOK
  <2> HIDE DEF m
  <2>3. m \notin B
    BY <1>1, <2>1, InitSets DEF B
  <2> QED
    BY <1>0, <2>1, <2>2, <2>3, Asks
<1> QED
  BY <1>5, <1>6, <1>7, <1>8, <1>9, <1>10 DEF Client, Refreshes

-----------------------------------------------------------------------------
(* What the client waits for.                                              *)

\* ControlOK: the daemon's steps move no switch of the client.
LEMMA ControlByDaemon ==
  ASSUME IInv, FreshOK, ControlOK, DaemonStep
  PROVE  ControlOK'
<1> USE DEF DaemonStep
<1>1. UNCHANGED <<decoder, asking, control, refreshes>>
  BY DEF Main, HandleInit, InitPrepare, InitWrite, InitLegacy, HandleReindex, ReindexReply, HandleResync, Warm,
         AdoptTable, PubPrepare, PubWrite, PubOvertaken, bounds
<1>2. Meets(inbox', Inits(Nat)) => Meets(inbox, Inits(Nat))
  <2>1. inbox' = inbox \/ (inbox # <<>> /\ inbox' = Tail(inbox))
    BY DEF Main, HandleInit, InitPrepare, InitWrite, InitLegacy, HandleReindex, ReindexReply, HandleResync, Warm,
         AdoptTable, PubPrepare, PubWrite, PubOvertaken
  <2>2. CASE inbox # <<>> /\ inbox' = Tail(inbox)
    <3>1. inbox \in Seq(Requests) /\ inbox' \in Seq(Requests) /\ Cut(inbox, inbox', Head(inbox))
      BY <2>2, Typed
    <3> QED
      BY <3>1, CutMeets
  <2> QED
    BY <2>1, <2>2
<1> QED
  BY <1>1, <1>2 DEF ControlOK, decoder, asking, control

LEMMA ControlByClient == ASSUME IInv, SavesOK, ControlOK, Client PROVE ControlOK'
<1> USE DEF decoder, asking, control, bounds
<1>0. UNCHANGED daemon /\ \A m \in Inits(Nat) : m.type # "resync"
  BY DEF Client, Receive, Continue, HandleFrame, HandleReply, AdoptInit, AdoptReindex, ResyncDone, ResyncFails,
         ResyncRetry, SendReindex, ReindexFails, HandleHealth, Refreshes, RefreshBegin, RefreshAgain, Begin,
           RefreshSend, RefreshFails, Inits
<1>1. Ask \/ UNCHANGED inbox => (Meets(inbox', Inits(Nat)) <=> Meets(inbox, Inits(Nat)))
  BY <1>0, AskElse, AsksElseMeets
<1>2. Ask => resync' = "asked" \/ (resync' = "retry" /\ resync # "asked")
  BY DEF Ask
<1>3. CASE HandleFrame
  <2>1. CASE pending /\ UNCHANGED <<inbox, decoder, asking, refresh>>
    BY <1>3, <2>1 DEF HandleFrame, ControlOK
  <2>2. CASE /\ ~pending /\ Decodable(Head(wire)) /\ view' = Rebuilt(Head(wire)) /\ retired' = FALSE /\ needed' = FALSE
             /\ resync' = (IF resync = "retry" THEN "no" ELSE resync)
             /\ applied' = Head(wire).seq /\ behind' = FALSE /\ refresh' = Cleared /\ UNCHANGED inbox
    <3>1. Head(wire).seq \in 1..Len(published) /\ view' = published[Head(wire).seq]
      BY <1>3, <2>2, RebuiltIsPublished
    <3>2. view' \in Table /\ applied' > 0
      BY <2>2, <3>1 DEF IInv, EncoderOK
    <3> QED
      BY <1>3, <2>2, <3>2 DEF HandleFrame, ControlOK, Cleared
  <2>3. CASE ~pending /\ needed' = TRUE /\ Ask /\ UNCHANGED <<view, retired, applied, behind, refresh>>
    BY <1>1, <1>2, <1>3, <2>3 DEF HandleFrame, ControlOK
  <2> QED
    BY <1>3, <2>1, <2>2, <2>3 DEF HandleFrame
<1>4. CASE HandleReply
  BY <1>4 DEF HandleReply, ControlOK
<1>5. CASE AdoptInit
  <2>1. Head(cont) \in Initials
    BY <1>5, Typed, LineKinds DEF AdoptInit
  <2>2. view' \in Table /\ behind' \in BOOLEAN
    BY <1>5, <2>1 DEF AdoptInit, Initials
  <2>3. /\ started' = TRUE /\ pending' = FALSE /\ refresh' = "no" /\ retired' = FALSE /\ UNCHANGED <<needed, saving, refreshes>>
        /\ resync' = resync \/ resync' \in {"asked", "retry"}
    BY <1>2, <1>5 DEF AdoptInit
  <2> QED
    BY <2>2, <2>3 DEF ControlOK
<1>6. CASE AdoptReindex
  <2>1. Head(cont) \in Reindexed
    BY <1>6, Typed, LineKinds DEF AdoptReindex
  <2>2. CASE /\ Head(cont).label # None /\ view' = [view EXCEPT ![Head(cont).label] = Head(cont).rev]
             /\ behind' = (behind \/ applied > Head(cont).asOf)
             /\ UNCHANGED <<inbox, asking>>
    <3>1. view' \in Table /\ behind' \in BOOLEAN
      BY <2>1, <2>2 DEF ControlOK, Table, Reindexed
    <3> QED
      BY <1>6, <2>2, <3>1 DEF AdoptReindex, ControlOK
  <2>3. CASE ~retired /\ needed' = TRUE /\ Ask /\ UNCHANGED <<view, behind>>
    BY <1>1, <1>2, <1>6, <2>3 DEF AdoptReindex, ControlOK
  <2>4. CASE UNCHANGED <<view, behind, inbox, asking>>
    BY <1>6, <2>4 DEF AdoptReindex, ControlOK
  <2> QED
    BY <1>6, <2>2, <2>3, <2>4 DEF AdoptReindex
<1>7. CASE ResyncDone
  BY <1>7 DEF ResyncDone, AfterResync, ControlOK
<1>8. CASE ResyncFails
  BY <1>8 DEF ResyncFails, AfterResync, ControlOK
<1>9. CASE ResyncRetry
  BY <1>1, <1>2, <1>9 DEF ResyncRetry, ControlOK
<1>10. CASE SendReindex
  BY <1>10 DEF SendReindex, ControlOK
<1>11. CASE RefreshBegin \/ RefreshAgain
  <2>1. /\ refresh' = "settling" /\ pending' = TRUE /\ retired' = TRUE
        /\ UNCHANGED <<inbox, view, applied, behind, needed, resync, started, saving>>
        /\ started \/ refresh \in {"failed", "again"}
    BY <1>11 DEF RefreshBegin, RefreshAgain, Begin
  <2> QED
    BY <2>1 DEF ControlOK
<1>12. CASE RefreshSend
  BY <1>12 DEF RefreshSend, ControlOK
<1>13. CASE RefreshFails
  BY <1>13 DEF RefreshFails, ControlOK
<1>14. CASE HandleHealth \/ ReindexFails
  <2>1. /\ HandleHealth => Refused /\ refresh' = Cleared /\ saving' = saving
        /\ ReindexFails => saving' = FALSE /\ refresh' = refresh
        /\ UNCHANGED <<inbox, view, applied, behind, needed, resync, started, refreshes, pending, retired>>
    BY <1>14 DEF HandleHealth, ReindexFails
  <2> QED
    BY <1>14, <2>1 DEF ControlOK, Cleared, Refused
<1> QED
  BY <1>3, <1>4, <1>5, <1>6, <1>7, <1>8, <1>9, <1>10, <1>11, <1>12, <1>13, <1>14 DEF Client, Receive, Continue, Refreshes

-----------------------------------------------------------------------------
(* The order of the lines.                                                 *)

\* What is known of a line that is under way.
LEMMA LineFacts ==
  ASSUME IInv, NEW m \in Lines, Sound(m, published)
  PROVE  /\ enc.seq \in Nat /\ enc.seq = Len(published)
         /\ Sequenced(m) => m.seq \in 1..enc.seq
         /\ m.type = "frame" => Sequenced(m)
         /\ Dated(m) => m.asOf \in Nat
         /\ Sequenced(m) => m \in Whole
         /\ m.type = "resync" => ~Sequenced(m) /\ ~Dated(m)
         /\ m.type = "reindex" => ~Sequenced(m)
BY DEF IInv, EncoderOK, Sound, Sequenced, Dated, Lines, Frames, Initials, Reindexed, Resynced, Whole

\* So much for every line on its way.
LEMMA LinesUnderWay ==
  ASSUME IInv
  PROVE  /\ Len(wire) \in Nat /\ Len(cont) \in Nat
         /\ \A i \in 1..Len(wire) : wire[i] \in Lines /\ Sound(wire[i], published)
         /\ \A i \in 1..Len(cont) : cont[i] \in Lines /\ Sound(cont[i], published)
BY DEF IInv, LinesOK, AllSound

\* The wire after a line was written with a number.
LEMMA CommitsWire ==
  ASSUME IInv, NEW m \in Lines, NEW r \in Resynced, NEW t, Commits(m, r, t)
  PROVE  /\ Len(wire) + 1 \in 1..Len(wire') /\ wire'[Len(wire) + 1] = m /\ r.type = "resync" /\ ~Sequenced(r) /\ ~Dated(r)
         /\ \A i \in 1..Len(wire') :
              \/ i \in 1..Len(wire) /\ wire'[i] = wire[i]
              \/ i = Len(wire) + 1
              \/ i > Len(wire) + 1 /\ wire'[i] = r
<1>0. r.type = "resync" /\ ~Sequenced(r) /\ ~Dated(r) /\ r \in Lines
  BY DEF Resynced, Sequenced, Dated, Lines
<1>1. Len(wire) \in Nat /\ Grown(wire, Append(wire, m), m) /\ Grown(Append(wire, m), Append(Append(wire, m), r), r)
      /\ Append(wire, m) \in Seq(Lines)
  BY <1>0, Typed, Grows, LinesUnderWay
<1>2. CASE wire' = Append(wire, m)
  BY <1>0, <1>1, <1>2 DEF Grown
<1>3. CASE wire' = Append(Append(wire, m), r)
  BY <1>0, <1>1, <1>3 DEF Grown
<1> QED
  BY <1>2, <1>3 DEF Commits

\* OrderOK: the new number is above every older one.
LEMMA OrderByWrites == ASSUME IInv, FreshOK, OrderOK, Writes PROVE OrderOK'
<1>1. PICK m \in Lines, r \in Resynced, t \in Table : Commits(m, r, t)
  BY WritesCommit
<1>2. /\ m.seq = enc.seq + 1 /\ enc'.seq = enc.seq + 1 /\ Sequenced(m) /\ (Dated(m) => m.asOf = m.seq)
      /\ enc.seq \in Nat /\ UNCHANGED cont
  BY <1>1 DEF Commits, Sequenced, Dated, Whole, IInv, EncoderOK
<1>3. /\ Len(wire) + 1 \in 1..Len(wire') /\ wire'[Len(wire) + 1] = m /\ ~Sequenced(r) /\ ~Dated(r) /\ Len(wire) \in Nat
      /\ \A i \in 1..Len(wire') :
           \/ i \in 1..Len(wire) /\ wire'[i] = wire[i]
           \/ i = Len(wire) + 1
           \/ i > Len(wire) + 1 /\ wire'[i] = r
  BY <1>1, CommitsWire, LinesUnderWay
<1>4. /\ \A i \in 1..Len(wire) : Dated(wire[i]) => wire[i].asOf \in Nat /\ wire[i].asOf <= enc.seq
      /\ \A i \in 1..Len(cont) : Dated(cont[i]) => cont[i].asOf \in Nat /\ cont[i].asOf <= enc.seq
      /\ \A i \in 1..Len(wire) : Sequenced(wire[i]) => wire[i].seq <= enc.seq
  BY LinesUnderWay, LineFacts DEF OrderOK
<1>5. \A i \in 1..Len(wire') : Sequenced(wire'[i]) =>
        wire'[i].seq = enc'.seq \/ \E j \in 1..Len(wire') : j > i /\ Sequenced(wire'[j])
  BY <1>2, <1>3
<1>6. \A i, j \in 1..Len(wire') : i < j /\ Dated(wire'[i]) /\ Sequenced(wire'[j]) => wire'[j].seq > wire'[i].asOf
  <2> SUFFICES ASSUME NEW i \in 1..Len(wire'), NEW j \in 1..Len(wire'), i < j, Dated(wire'[i]), Sequenced(wire'[j])
               PROVE  wire'[j].seq > wire'[i].asOf
    OBVIOUS
  <2>1. CASE j = Len(wire) + 1
    BY <1>2, <1>3, <1>4, <2>1
  <2>2. CASE j \in 1..Len(wire) /\ wire'[j] = wire[j]
    BY <1>3, <2>2 DEF OrderOK
  <2> QED
    BY <1>3, <2>1, <2>2
<1>7. \A k \in 1..Len(cont), j \in 1..Len(wire') : Dated(cont[k]) /\ Sequenced(wire'[j]) => wire'[j].seq > cont[k].asOf
  BY <1>2, <1>3, <1>4 DEF OrderOK
<1>8. main'.step # "idle" => main'.asOf <= enc'.seq
  <2>1. CASE main' = Idle
    BY <2>1 DEF Idle
  <2>2. CASE main' = MainStaled
    <3>1. ASSUME main.step # "idle" PROVE main.asOf \in Nat
      BY <3>1, MainKinds DEF IInv, MainOK, Answering, Replying
    <3> QED
      BY <1>2, <2>2, <3>1, StaledHolds DEF OrderOK
  <2> QED
    BY <1>1, <2>1, <2>2 DEF Commits
<1>9. \A i \in 1..Len(wire') : Dated(wire'[i]) => wire'[i].asOf <= enc'.seq
  BY <1>2, <1>3, <1>4
<1>10. \A k \in 1..Len(cont) : Dated(cont[k]) => cont[k].asOf <= enc'.seq
  BY <1>2, <1>4
<1> QED
  BY <1>2, <1>5, <1>6, <1>7, <1>8, <1>9, <1>10 DEF OrderOK

\* The other steps of the daemon give no new number.
LEMMA OrderByDaemon ==
  ASSUME IInv, FreshOK, OrderOK, DaemonStep
  PROVE  OrderOK'
<1> USE DEF DaemonStep
<1>0. enc.seq \in Nat
  BY DEF IInv, EncoderOK
<1>1. CASE Writes
  BY <1>1, OrderByWrites
<1>2. CASE InitLegacy \/ ReindexReply
  <2>1. PICK m \in Lines : wire' = Append(wire, m) /\ ~Sequenced(m) /\ m.asOf = main.asOf /\ main.step # "idle"
    BY <1>2, LegacyLine, ReplyLine DEF Sequenced, Initializes, Replies
  <2>2. UNCHANGED <<enc, cont>> /\ main' = Idle
    BY <1>2 DEF InitLegacy, ReindexReply
  <2>3. /\ Len(wire') = Len(wire) + 1 /\ wire'[Len(wire')] = m /\ Len(wire) \in Nat
        /\ \A i \in 1..Len(wire) : wire'[i] = wire[i]
    BY <2>1, Typed, LinesUnderWay DEF Grown
  <2>4. \A i \in 1..Len(wire') : (i = Len(wire') /\ wire'[i] = m) \/ (i \in 1..Len(wire) /\ wire'[i] = wire[i])
    BY <2>3
  <2>5. \A i \in 1..Len(wire') : Sequenced(wire'[i]) =>
          wire'[i].seq = enc.seq \/ \E j \in 1..Len(wire') : j > i /\ Sequenced(wire'[j])
    <3> SUFFICES ASSUME NEW i \in 1..Len(wire), Sequenced(wire[i]), wire[i].seq # enc.seq
                 PROVE  \E j \in 1..Len(wire') : j > i /\ Sequenced(wire'[j])
      BY <2>1, <2>4
    <3>1. PICK j \in 1..Len(wire) : j > i /\ Sequenced(wire[j])
      BY DEF OrderOK
    <3> QED
      BY <2>3, <3>1
  <2>6. \A i, j \in 1..Len(wire') : i < j /\ Dated(wire'[i]) /\ Sequenced(wire'[j]) => wire'[j].seq > wire'[i].asOf
    BY <2>1, <2>3, <2>4 DEF OrderOK
  <2>7. \A k \in 1..Len(cont), j \in 1..Len(wire') : Dated(cont[k]) /\ Sequenced(wire'[j]) => wire'[j].seq > cont[k].asOf
    BY <2>1, <2>4 DEF OrderOK
  <2>8. \A i \in 1..Len(wire') : Dated(wire'[i]) => wire'[i].asOf <= enc.seq
    BY <2>1, <2>4 DEF OrderOK
  <2> QED
    BY <2>2, <2>5, <2>6, <2>7, <2>8 DEF OrderOK, Idle
<1>3. CASE HandleInit \/ HandleReindex
  <2>1. UNCHANGED <<wire, cont>> /\ enc'.seq = enc.seq /\ main'.asOf = enc.seq
    <3>1. Reset(enc).seq = enc.seq
      BY DEF Reset, IInv, EncoderOK
    <3> QED
      BY <1>3, <3>1 DEF HandleInit, HandleReindex, Answer
  <2> QED
    BY <1>0, <2>1 DEF OrderOK
<1>4. CASE InitPrepare \/ \E p \in Publisher : AdoptTable(p) \/ PubPrepare(p) \/ PubOvertaken(p)
  <2>1. UNCHANGED <<wire, cont, enc>>
    BY <1>4 DEF InitPrepare, AdoptTable, PubPrepare, PubOvertaken
  <2>2. main'.step # "idle" => main.step # "idle" /\ main'.asOf = main.asOf
    <3>1. CASE InitPrepare
      BY <3>1, MainKinds DEF InitPrepare, Answering
    <3>2. CASE ~InitPrepare
      BY <1>4, <3>2, StaledHolds DEF AdoptTable, PubPrepare, PubOvertaken
    <3> QED
      BY <3>1, <3>2
  <2> QED
    BY <2>1, <2>2 DEF OrderOK
<1> QED
  BY <1>1, <1>2, <1>3, <1>4 DEF Main, Writes

\* What the client has left of the lines, and of what it will continue.
LEMMA ReceivedLines ==
  ASSUME IInv, Receive
  PROVE  /\ Len(wire) = Len(wire') + 1 /\ Len(wire') \in Nat /\ 1 \in 1..Len(wire) /\ wire[1] = Head(wire) /\ Head(wire) \in Lines
         /\ \A i \in 1..Len(wire') : i + 1 \in 1..Len(wire) /\ wire'[i] = wire[i + 1]
         /\ \A j \in 1..Len(wire) : j > 1 => j - 1 \in 1..Len(wire') /\ wire'[j - 1] = wire[j]
         /\ \A i \in 1..Len(cont) : i \in 1..Len(cont') /\ cont'[i] = cont[i]
         /\ \A i \in 1..Len(cont') :
              \/ i \in 1..Len(cont) /\ cont'[i] = cont[i]
              \/ i = Len(cont) + 1 /\ cont'[i] = Head(wire) /\ HandleReply /\ Awaited(Head(wire))
         /\ HandleReply /\ Awaited(Head(wire)) => Len(cont) + 1 \in 1..Len(cont') /\ cont'[Len(cont) + 1] = Head(wire)
         /\ UNCHANGED daemon
<1>1. /\ wire # <<>> /\ wire' = Tail(wire) /\ Len(cont) \in Nat /\ UNCHANGED daemon
      /\ cont' = IF HandleReply /\ Awaited(Head(wire)) THEN Append(cont, Head(wire)) ELSE cont
  BY LinesUnderWay DEF Receive, HandleFrame, HandleReply
<1>2. Len(wire) = Len(wire') + 1 /\ Len(wire') \in Nat /\ wire[1] = Head(wire) /\ Head(wire) \in Lines
      /\ \A i \in 1..Len(wire') : wire'[i] = wire[i + 1]
  BY <1>1, Typed DEF Cut
<1>3. \A j \in 1..Len(wire) : j > 1 => j - 1 \in 1..Len(wire') /\ wire'[j - 1] = wire[j]
  <2> SUFFICES ASSUME NEW j \in 1..Len(wire), j > 1 PROVE j - 1 \in 1..Len(wire') /\ wire'[j - 1] = wire[j]
    OBVIOUS
  <2>1. j - 1 \in 1..Len(wire') /\ (j - 1) + 1 = j
    BY <1>2
  <2> QED
    BY <1>2, <2>1
<1>4. CASE HandleReply /\ Awaited(Head(wire))
  <2>1. Grown(cont, cont', Head(wire))
    BY <1>1, <1>2, <1>4, Typed
  <2> QED
    BY <1>1, <1>2, <1>3, <1>4, <2>1 DEF Grown
<1>5. CASE ~(HandleReply /\ Awaited(Head(wire)))
  BY <1>1, <1>2, <1>3, <1>5
<1> QED
  BY <1>4, <1>5

LEMMA ContinuedLines ==
  ASSUME IInv, Continue
  PROVE  /\ Len(cont) = Len(cont') + 1 /\ Len(cont') \in Nat /\ 1 \in 1..Len(cont) /\ cont[1] = Head(cont) /\ Head(cont) \in Lines
         /\ \A i \in 1..Len(cont') : i + 1 \in 1..Len(cont) /\ cont'[i] = cont[i + 1]
         /\ \A j \in 1..Len(cont) : j > 1 => j - 1 \in 1..Len(cont') /\ cont'[j - 1] = cont[j]
         /\ UNCHANGED <<daemon, wire>>
<1>1. cont # <<>> /\ cont' = Tail(cont) /\ UNCHANGED <<daemon, wire>>
  BY DEF Continue, AdoptInit, AdoptReindex, ResyncDone
<1>2. Len(cont) = Len(cont') + 1 /\ Len(cont') \in Nat /\ cont[1] = Head(cont) /\ Head(cont) \in Lines
      /\ \A i \in 1..Len(cont') : cont'[i] = cont[i + 1]
  BY <1>1, Typed DEF Cut
<1>3. \A j \in 1..Len(cont) : j > 1 => j - 1 \in 1..Len(cont') /\ cont'[j - 1] = cont[j]
  <2> SUFFICES ASSUME NEW j \in 1..Len(cont), j > 1 PROVE j - 1 \in 1..Len(cont') /\ cont'[j - 1] = cont[j]
    OBVIOUS
  <2>1. j - 1 \in 1..Len(cont') /\ (j - 1) + 1 = j
    BY <1>2
  <2> QED
    BY <1>2, <2>1
<1> QED
  BY <1>1, <1>2, <1>3

\* The client's other steps leave the lines alone.
Timers == HandleHealth \/ ResyncFails \/ ResyncRetry \/ SendReindex \/ ReindexFails \/ Refreshes

\* What the client's other steps leave alone.
LEMMA TimersLeave == ASSUME Timers PROVE UNCHANGED <<daemon, wire, cont, view, base, applied, behind, started>>
BY DEF Timers, ResyncFails, ResyncRetry, SendReindex, ReindexFails, HandleHealth, Refreshes, RefreshBegin, RefreshAgain, Begin,
           RefreshSend, RefreshFails, decoder, control

LEMMA OrderByClient == ASSUME IInv, OrderOK, Client PROVE OrderOK'
<1> USE DEF daemon
<1>1. CASE Receive
  <2>1. /\ Len(wire) = Len(wire') + 1 /\ Len(wire') \in Nat /\ 1 \in 1..Len(wire) /\ wire[1] = Head(wire)
        /\ \A i \in 1..Len(wire') : i + 1 \in 1..Len(wire) /\ wire'[i] = wire[i + 1]
        /\ \A j \in 1..Len(wire) : j > 1 => j - 1 \in 1..Len(wire') /\ wire'[j - 1] = wire[j]
        /\ \A i \in 1..Len(cont') : (i \in 1..Len(cont) /\ cont'[i] = cont[i]) \/ cont'[i] = wire[1]
        /\ UNCHANGED <<enc, main>>
    BY <1>1, ReceivedLines
  <2>2. \A i \in 1..Len(wire') : Sequenced(wire'[i]) =>
          wire'[i].seq = enc.seq \/ \E j \in 1..Len(wire') : j > i /\ Sequenced(wire'[j])
    <3> SUFFICES ASSUME NEW i \in 1..Len(wire'), Sequenced(wire'[i]), wire'[i].seq # enc.seq
                 PROVE  \E j \in 1..Len(wire') : j > i /\ Sequenced(wire'[j])
      OBVIOUS
    <3>1. PICK j \in 1..Len(wire) : j > i + 1 /\ Sequenced(wire[j])
      BY <2>1 DEF OrderOK
    <3>2. j - 1 \in 1..Len(wire') /\ j - 1 > i /\ Sequenced(wire'[j - 1])
      BY <2>1, <3>1
    <3> QED
      BY <3>2
  <2>3. \A i, j \in 1..Len(wire') : i < j /\ Dated(wire'[i]) /\ Sequenced(wire'[j]) => wire'[j].seq > wire'[i].asOf
    <3> SUFFICES ASSUME NEW i \in 1..Len(wire'), NEW j \in 1..Len(wire'), i < j, Dated(wire'[i]), Sequenced(wire'[j])
                 PROVE  wire'[j].seq > wire'[i].asOf
      OBVIOUS
    <3>1. i + 1 < j + 1 /\ i + 1 \in 1..Len(wire) /\ j + 1 \in 1..Len(wire)
      BY <2>1
    <3> QED
      BY <2>1, <3>1 DEF OrderOK
  <2>4. \A k \in 1..Len(cont'), j \in 1..Len(wire') : Dated(cont'[k]) /\ Sequenced(wire'[j]) => wire'[j].seq > cont'[k].asOf
    <3> SUFFICES ASSUME NEW k \in 1..Len(cont'), NEW j \in 1..Len(wire'), Dated(cont'[k]), Sequenced(wire'[j])
                 PROVE  wire'[j].seq > cont'[k].asOf
      OBVIOUS
    <3>1. j + 1 \in 1..Len(wire) /\ 1 < j + 1 /\ wire'[j] = wire[j + 1]
      BY <2>1
    <3>2. CASE k \in 1..Len(cont) /\ cont'[k] = cont[k]
      BY <3>1, <3>2 DEF OrderOK
    <3>3. CASE cont'[k] = wire[1]
      BY <2>1, <3>1, <3>3 DEF OrderOK
    <3> QED
      BY <2>1, <3>2, <3>3
  <2>5. \A i \in 1..Len(wire') : Dated(wire'[i]) => wire'[i].asOf <= enc.seq
    BY <2>1 DEF OrderOK
  <2>6. \A k \in 1..Len(cont') : Dated(cont'[k]) => cont'[k].asOf <= enc.seq
    BY <2>1 DEF OrderOK
  <2> QED
    BY <2>1, <2>2, <2>3, <2>4, <2>5, <2>6 DEF OrderOK
<1>2. CASE Continue
  <2>1. /\ \A i \in 1..Len(cont') : i + 1 \in 1..Len(cont) /\ cont'[i] = cont[i + 1]
        /\ UNCHANGED <<enc, main, wire>>
    BY <1>2, ContinuedLines
  <2> QED
    BY <2>1 DEF OrderOK
<1>3. CASE Timers
  BY <1>3, TimersLeave DEF OrderOK
<1> QED
  BY <1>1, <1>2, <1>3 DEF Client, Timers

-----------------------------------------------------------------------------
(* What may still be written.                                              *)

\* FreshOK: every write, and every change, makes what others hold stale.
LEMMA FreshInvariant ==
  ASSUME IInv, FreshOK, DaemonStep
  PROVE  FreshOK'
<1> USE DEF DaemonStep
<1>0. /\ \A p \in Publisher : pub[p].step = "ready" => UpToDate(p) \/ \E q \in Publisher : UpToDate(q)
      /\ Initializes /\ main.fresh => main.tab = table
      /\ pub \in [Publisher -> Waiting \cup Encoded]
  BY DEF FreshOK, IInv, PubsOK
<1>1. CASE Writes
  <2>1. PICK m \in Lines, r \in Resynced, t \in Table : Commits(m, r, t)
    BY <1>1, WritesCommit
  <2>2. \A p \in Publisher : pub'[p].step = "ready" => ~pub'[p].fresh
    BY <2>1 DEF Commits, Idle
  <2>3. Initializes' => ~main'.fresh
    BY <2>1, StaledHolds, IdleHolds DEF Commits
  <2> QED
    BY <2>2, <2>3 DEF FreshOK, UpToDate
<1>2. CASE HandleInit
  <2>1. \A p \in Publisher : pub'[p].step # "ready"
    BY <1>2 DEF HandleInit, Idle
  <2>2. main'.tab = table'
    BY <1>2 DEF HandleInit
  <2> QED
    BY <2>1, <2>2 DEF FreshOK
<1>3. CASE InitPrepare \/ InitLegacy \/ ReindexReply
  <2>1. UNCHANGED <<table, pub>>
    BY <1>3 DEF InitPrepare, InitLegacy, ReindexReply
  <2>2. Initializes' /\ main'.fresh => Initializes /\ main.fresh /\ main'.tab = main.tab
    <3>1. CASE InitPrepare
      BY <3>1, MainKinds DEF InitPrepare, Answering, Initializes
    <3>2. CASE ~InitPrepare
      BY <1>3, <3>2, IdleHolds DEF InitLegacy, ReindexReply
    <3> QED
      BY <3>1, <3>2
  <2> QED
    BY <1>0, <2>1, <2>2 DEF FreshOK, UpToDate
<1>4. CASE HandleReindex
  <2>1. \A p \in Publisher : pub'[p].step = "ready" => ~pub'[p].fresh
    BY <1>4, StaledStep DEF HandleReindex
  <2>2. ~Initializes'
    BY <1>4 DEF HandleReindex, Answer, Initializes
  <2> QED
    BY <2>1, <2>2 DEF FreshOK, UpToDate
<1>5. ASSUME NEW p \in Publisher, AdoptTable(p) \/ PubPrepare(p) \/ PubOvertaken(p) PROVE FreshOK'
  <2>1. UpToDate(p)'
    BY <1>0, <1>5 DEF AdoptTable, PubPrepare, PubOvertaken, UpToDate
  <2>2. Initializes' /\ main'.fresh => main'.tab = table'
    BY <1>0, <1>5, StaledHolds DEF AdoptTable, PubPrepare, PubOvertaken, Initializes
  <2> QED
    BY <2>1, <2>2 DEF FreshOK
<1> QED
  BY <1>1, <1>2, <1>3, <1>4, <1>5 DEF Main, Writes

\* A table is published or read again until it is written.
LEMMA PublishingStays ==
  ASSUME IInv, Publishing,
         HandleInit \/ InitPrepare \/ HandleReindex \/ ReindexReply
         \/ \E p \in Publisher : AdoptTable(p) \/ PubPrepare(p) \/ PubOvertaken(p)
  PROVE  Publishing'
<1>0. pub \in [Publisher -> Waiting \cup Encoded]
  BY DEF IInv, PubsOK
<1>1. CASE HandleInit
  BY <1>1 DEF HandleInit, Publishing, Initializes
<1>2. CASE InitPrepare
  BY <1>2, Unmoved DEF InitPrepare, Publishing
<1>3. CASE HandleReindex
  BY <1>3, StaledStep DEF HandleReindex, Publishing, Initializes, Idle
<1>4. CASE ReindexReply
  BY <1>4 DEF ReindexReply, Publishing, Initializes
<1>5. ASSUME NEW p \in Publisher, AdoptTable(p) \/ PubPrepare(p) \/ PubOvertaken(p) PROVE Publishing'
  <2>1. pub'[p].step # "idle"
    BY <1>0, <1>5 DEF AdoptTable, PubPrepare, PubOvertaken
  <2> QED
    BY <2>1 DEF Publishing
<1> QED
  BY <1>1, <1>2, <1>3, <1>4, <1>5

\* After a publisher's step that does not write, one will.
LEMMA PublishersPublish ==
  ASSUME IInv, NEW p \in Publisher, AdoptTable(p) \/ PubPrepare(p) \/ PubOvertaken(p) PROVE Publishing'
<1>1. pub \in [Publisher -> Waiting \cup Encoded]
  BY DEF IInv, PubsOK
<1> QED
  BY <1>1 DEF AdoptTable, PubPrepare, PubOvertaken, Publishing

-----------------------------------------------------------------------------
(* Replies that no later frame replaces.                                   *)

\* While a reindex request is read, no reply is on its way that may be awaited.
LEMMA ReindexLast ==
  ASSUME IInv, SavesOK, HandleReindex
  PROVE  /\ \A i \in 1..Len(wire) : wire[i].type = "reindex" => wire[i].id # reindexes
         /\ \A i \in 1..Len(cont) : cont[i].type # "reindex"
         /\ ~Replies /\ ~Initializes
<1>1. inbox # <<>> /\ Head(inbox).type = "reindex" /\ Head(inbox) \in Requests /\ Head(inbox) = inbox[1] /\ 1 \in 1..Len(inbox)
  BY Typed DEF HandleReindex, Cut
<1>2. inbox[1] \in Saves(Nat)
  BY <1>1, RequestKinds
<1>3. Len(inbox) \in Nat
  BY Typed
<1>4. Meets(inbox, Saves({reindexes}))
  BY <1>1, <1>2, <1>3 DEF SavesOK, Ends, Meets
<1>5. ~Meets(wire, Saves({reindexes})) /\ ~Meets(cont, Saves({reindexes})) /\ ~Meets(cont, Saves(Nat \ {reindexes}))
  BY <1>4 DEF SavesOK, Alone
<1>6. /\ \A i \in 1..Len(wire) : wire[i] \in Lines
      /\ \A i \in 1..Len(cont) : cont[i] \in Lines
  BY Typed
<1> QED
  BY <1>5, <1>6, SaveSets DEF Meets, HandleReindex, Replies, Initializes, Idle

\* RepliesOK: a change of the table that is not a reindex will be published.
LEMMA RepliesByDaemon ==
  ASSUME IInv, FreshOK, SavesOK, OrderOK, RepliesOK,
         DaemonStep
  PROVE  RepliesOK'
<1> USE DEF DaemonStep
<1>0. /\ enc.seq \in Nat /\ Len(wire) \in Nat /\ Len(cont) \in Nat
      /\ \A i \in 1..Len(wire) : wire[i].type = "reindex" => Dated(wire[i]) /\ wire[i].asOf \in Nat /\ wire[i].asOf <= enc.seq
      /\ \A i \in 1..Len(cont) : cont[i].type = "reindex" => Dated(cont[i]) /\ cont[i].asOf \in Nat /\ cont[i].asOf <= enc.seq
  BY LinesUnderWay, LineFacts DEF OrderOK, Dated, IInv, EncoderOK
<1>1. CASE Writes
  <2>1. PICK m \in Lines, r \in Resynced, t \in Table : Commits(m, r, t) /\ (main.step = "reply" => main' = main)
    BY <1>1, WritesCommit
  <2>2. enc'.seq = enc.seq + 1 /\ cont' = cont /\ m.type # "reindex" /\ r.type # "reindex"
    BY <2>1 DEF Commits, Whole, Resynced
  <2>3. Replies' => main'.asOf # enc'.seq
    <3>1. ASSUME Replies' PROVE Replies /\ main' = main /\ main.asOf \in Nat
      BY <2>1, <3>1, StaledHolds, IdleHolds, MainKinds DEF Commits, Replies, Replying
    <3> QED
      BY <1>0, <2>2, <3>1 DEF OrderOK, Replies
  <2>4. \A i \in 1..Len(wire') : wire'[i].type = "reindex" => i \in 1..Len(wire) /\ wire'[i] = wire[i]
    BY <2>1, <2>2, CommitsWire
  <2> QED
    BY <1>0, <2>2, <2>3, <2>4 DEF RepliesOK
<1>2. CASE HandleInit
  BY <1>2 DEF HandleInit, RepliesOK, Publishing, Initializes, Replies
<1>3. CASE InitLegacy
  <2>1. PICK m \in Lines : wire' = Append(wire, m) /\ m.type = "init"
    BY <1>3, LegacyLine
  <2>2. Len(wire') = Len(wire) + 1 /\ wire'[Len(wire')] = m
    BY <2>1, Typed DEF Grown
  <2>3. ~Replies' /\ UNCHANGED <<cont, enc>>
    BY <1>3, IdleHolds DEF InitLegacy
  <2>4. Len(wire') \in 1..Len(wire') /\ \A i \in 1..Len(wire') : wire'[i].type = "reindex" => Len(wire') > i
    BY <1>0, <2>1, <2>2
  <2> QED
    BY <2>1, <2>2, <2>3, <2>4 DEF RepliesOK
<1>4. CASE HandleReindex
  <2>1. UNCHANGED <<wire, cont, enc, reindexes>> /\ (main'.label # None => main'.rev = table'[main'.label])
    <3>1. PICK l \in Label \cup {None}, x \in Nat :
            /\ main' = [step |-> "reply", id |-> Head(inbox).id, label |-> l, rev |-> x, asOf |-> enc.seq]
            /\ IF l = None THEN table' = table ELSE table' = [table EXCEPT ![l] = x]
      BY <1>4, ReindexStep
    <3>2. table \in [Label -> Nat]
      BY DEF IInv, TableOK, Table
    <3> QED
      BY <1>4, <3>1, <3>2 DEF HandleReindex, bounds
  <2> QED
    BY <1>4, <2>1, ReindexLast DEF RepliesOK, Current
<1>5. CASE ReindexReply
  <2>1. PICK m \in Lines : /\ wire' = Append(wire, m) /\ m.type = "reindex" /\ m.label = main.label
                          /\ m.id = main.id /\ m.rev = main.rev /\ m.asOf = main.asOf /\ Replies
    BY <1>5, ReplyLine
  <2>2. /\ Len(wire') = Len(wire) + 1 /\ wire'[Len(wire')] = m
        /\ \A i \in 1..Len(wire) : wire'[i] = wire[i] /\ i \in 1..Len(wire')
        /\ \A i \in 1..Len(wire') : (i = Len(wire') /\ wire'[i] = m) \/ (i \in 1..Len(wire) /\ wire'[i] = wire[i])
    BY <1>0, <2>1, Typed DEF Grown
  <2>3. ~Replies' /\ UNCHANGED <<cont, enc, table, behind, reindexes>> /\ (Publishing => Publishing')
    BY <1>5, IdleHolds, PublishingStays DEF ReindexReply, decoder, bounds
  <2>4. m.asOf = enc.seq /\ m.label # None => m.rev = table[m.label] \/ Publishing
    BY <2>1 DEF RepliesOK, Current
  <2>5. \A i \in 1..Len(wire') : wire'[i].type = "reindex" /\ wire'[i].id = reindexes' /\ wire'[i].label # None /\ wire'[i].asOf = enc'.seq =>
          wire'[i].rev = table'[wire'[i].label] \/ Publishing' \/ \E j \in 1..Len(wire') : j > i /\ wire'[j].type = "init"
    <3> SUFFICES ASSUME NEW i \in 1..Len(wire'), wire'[i].type = "reindex", wire'[i].id = reindexes',
                        wire'[i].label # None, wire'[i].asOf = enc'.seq, ~Publishing',
                        wire'[i].rev # table'[wire'[i].label]
                 PROVE  \E j \in 1..Len(wire') : j > i /\ wire'[j].type = "init"
      OBVIOUS
    <3>1. i \in 1..Len(wire) /\ wire'[i] = wire[i]
      BY <2>2, <2>3, <2>4
    <3>2. PICK j \in 1..Len(wire) : j > i /\ wire[j].type = "init"
      BY <2>3, <3>1 DEF RepliesOK, Current
    <3> QED
      BY <2>2, <3>2
  <2>6. \A i \in 1..Len(cont) : cont[i].type = "reindex" /\ cont[i].label # None /\ cont[i].asOf = enc'.seq =>
          \/ cont[i].rev = table'[cont[i].label] \/ Publishing' \/ behind'
          \/ \E j \in 1..Len(wire') : wire'[j].type = "init"
          \/ \E j \in 1..Len(cont) : j > i /\ cont[j].type = "init"
    <3> SUFFICES ASSUME NEW i \in 1..Len(cont), cont[i].type = "reindex", cont[i].label # None, cont[i].asOf = enc'.seq,
                        ~Publishing', ~behind', cont[i].rev # table'[cont[i].label], ~\E j \in 1..Len(cont) : j > i /\ cont[j].type = "init"
                 PROVE  \E j \in 1..Len(wire') : wire'[j].type = "init"
      BY <2>3
    <3>1. PICK j \in 1..Len(wire) : wire[j].type = "init"
      BY <2>3 DEF RepliesOK, Current
    <3> QED
      BY <2>2, <3>1
  <2> QED
    BY <2>3, <2>5, <2>6 DEF RepliesOK, Current
<1>6. CASE InitPrepare
  BY <1>6, Unmoved DEF InitPrepare, RepliesOK, Publishing, Current, Initializes, Replies, decoder
<1>7. ASSUME NEW p \in Publisher, AdoptTable(p) \/ PubPrepare(p) \/ PubOvertaken(p) PROVE RepliesOK'
  BY <1>7, PublishersPublish DEF RepliesOK
<1> QED
  BY <1>1, <1>2, <1>3, <1>4, <1>5, <1>6, <1>7 DEF Main, Writes

\* While an initialize waits to be adopted, no reindex is awaited.
LEMMA InitAlone ==
  ASSUME IInv, SavesOK, InitsOK, ControlOK, cont # <<>>, Head(cont).type = "init"
  PROVE  ~saving /\ ~Meets(cont, Saves(Nat)) /\ (started => refresh = "asked")
<1>1. cont \in Seq(Lines) /\ Tail(cont) \in Seq(Lines) /\ Cut(cont, Tail(cont), Head(cont)) /\ Head(cont) \in Lines
  BY Typed
<1>2. Head(cont) \in Inits({refreshes}) \/ Head(cont) \in Inits(Nat \ {refreshes})
  BY <1>1, InitSets
<1>3. \A M : Head(cont) \in M => Meets(cont, M)
  BY <1>1, CutMeets
<1>4. started => refresh = "asked"
  BY <1>2, <1>3 DEF InitsOK
<1> QED
  BY <1>4 DEF ControlOK, SavesOK

LEMMA RepliesByClient == ASSUME IInv, SavesOK, InitsOK, ControlOK, OrderOK, RepliesOK, Client PROVE RepliesOK'
<1> USE DEF daemon
<1>0. /\ UNCHANGED <<table, enc, pub, main>> /\ Publishing' = Publishing /\ Replies' = Replies
      /\ Replies /\ main.asOf = enc.seq /\ main.label # None => main.rev = table[main.label] \/ Publishing
      /\ enc.seq \in Nat
  BY DEF Client, Receive, Continue, HandleFrame, HandleReply, AdoptInit, AdoptReindex, ResyncDone, ResyncFails,
         ResyncRetry, SendReindex, ReindexFails, HandleHealth, Refreshes, RefreshBegin, RefreshAgain, Begin,
           RefreshSend, RefreshFails, Publishing, Initializes, Replies, RepliesOK,
         Current, IInv, EncoderOK
<1>1. CASE Receive
  <2>1. /\ Len(wire) = Len(wire') + 1 /\ Len(wire') \in Nat /\ 1 \in 1..Len(wire) /\ wire[1] = Head(wire)
        /\ \A i \in 1..Len(wire') : i + 1 \in 1..Len(wire) /\ wire'[i] = wire[i + 1]
        /\ \A j \in 1..Len(wire) : j > 1 => j - 1 \in 1..Len(wire') /\ wire'[j - 1] = wire[j]
        /\ \A i \in 1..Len(cont) : i \in 1..Len(cont') /\ cont'[i] = cont[i]
        /\ \A i \in 1..Len(cont') :
              \/ i \in 1..Len(cont) /\ cont'[i] = cont[i]
              \/ i = Len(cont) + 1 /\ cont'[i] = Head(wire) /\ HandleReply /\ Awaited(Head(wire))
        /\ HandleReply /\ Awaited(Head(wire)) => Len(cont) + 1 \in 1..Len(cont') /\ cont'[Len(cont) + 1] = Head(wire)
        /\ Len(cont) \in Nat
    BY <1>1, ReceivedLines, LinesUnderWay
  <2>4. reindexes' = reindexes
    BY <1>1 DEF Receive, HandleFrame, HandleReply, bounds
  <2>2. \A i \in 1..Len(wire') : wire'[i].type = "reindex" /\ wire'[i].id = reindexes' /\ wire'[i].label # None /\ wire'[i].asOf = enc'.seq =>
          wire'[i].rev = table'[wire'[i].label] \/ Publishing' \/ \E j \in 1..Len(wire') : j > i /\ wire'[j].type = "init"
    <3> SUFFICES ASSUME NEW i \in 1..Len(wire'), wire'[i].type = "reindex", wire'[i].id = reindexes, wire'[i].label # None,
                        wire'[i].asOf = enc.seq, ~Publishing, wire'[i].rev # table[wire'[i].label]
                 PROVE  \E j \in 1..Len(wire') : j > i /\ wire'[j].type = "init"
      BY <1>0, <2>4
    <3>1. PICK j \in 1..Len(wire) : j > i + 1 /\ wire[j].type = "init"
      BY <2>1 DEF RepliesOK, Current
    <3>2. j - 1 \in 1..Len(wire') /\ j - 1 > i /\ wire'[j - 1].type = "init"
      BY <2>1, <3>1
    <3> QED
      BY <3>2
  <2>3. \A i \in 1..Len(cont') : cont'[i].type = "reindex" /\ cont'[i].label # None /\ cont'[i].asOf = enc'.seq =>
          \/ cont'[i].rev = table'[cont'[i].label] \/ Publishing' \/ behind'
          \/ \E j \in 1..Len(wire') : wire'[j].type = "init"
          \/ \E j \in 1..Len(cont') : j > i /\ cont'[j].type = "init"
    <3> SUFFICES ASSUME NEW i \in 1..Len(cont'), cont'[i].type = "reindex", cont'[i].label # None, cont'[i].asOf = enc.seq, ~Publishing, ~behind',
                        cont'[i].rev # table[cont'[i].label], ~\E j \in 1..Len(cont') : j > i /\ cont'[j].type = "init"
                 PROVE  \E j \in 1..Len(wire') : wire'[j].type = "init"
      BY <1>0
    <3>1. CASE i = Len(cont) + 1 /\ cont'[i] = Head(wire)
      <4>1. PICK j \in 1..Len(wire) : j > 1 /\ wire[j].type = "init"
        BY <2>1, <3>1 DEF RepliesOK, Current, Awaited
      <4> QED
        BY <2>1, <4>1
    <3>2. CASE i \in 1..Len(cont) /\ cont'[i] = cont[i]
      <4>1. ~behind
        <5>1. CASE HandleFrame
          <6>1. Head(wire) \in Lines /\ Head(wire).type = "frame" /\ Sound(Head(wire), published)
            BY <2>1, <5>1, LinesUnderWay DEF HandleFrame
          <6>2. Head(wire).seq > cont[i].asOf /\ Head(wire).seq \in 1..enc.seq
            BY <2>1, <3>2, <6>1, LineFacts DEF OrderOK, Dated
          <6> QED
            BY <1>0, <3>2, <6>2
        <5>2. CASE HandleReply
          BY <5>2 DEF HandleReply
        <5> QED
          BY <1>1, <5>1, <5>2 DEF Receive
      <4>2. ~\E j \in 1..Len(cont) : j > i /\ cont[j].type = "init"
        BY <2>1
      <4>3. PICK j \in 1..Len(wire) : wire[j].type = "init"
        BY <3>2, <4>1, <4>2 DEF RepliesOK, Current
      <4>4. j # 1
        <5> SUFFICES ASSUME Head(wire).type = "init" PROVE FALSE
          BY <2>1, <4>3
        <5>1. HandleReply /\ Awaited(Head(wire))
          BY <1>1 DEF Receive, HandleFrame, HandleReply, Missed
        <5> QED
          BY <2>1, <3>2, <5>1
      <4>5. j - 1 \in 1..Len(wire') /\ wire'[j - 1] = wire[j]
        BY <2>1, <4>4
      <4> QED
        BY <4>3, <4>5
    <3> QED
      BY <2>1, <3>1, <3>2
  <2> QED
    BY <1>0, <2>2, <2>3, <2>4 DEF RepliesOK, Current
<1>2. CASE AdoptInit
  <2>1. cont # <<>> /\ Head(cont).type = "init" /\ Continue
    BY <1>2 DEF AdoptInit, Continue
  <2>2. \A i \in 1..Len(cont) : cont[i].type # "reindex"
    <3>1. \A i \in 1..Len(cont) : cont[i] \in Lines
      BY Typed
    <3> QED
      BY <2>1, <3>1, InitAlone, SaveSets DEF Meets
  <2>4. /\ \A i \in 1..Len(cont') : i + 1 \in 1..Len(cont) /\ cont'[i] = cont[i + 1]
        /\ UNCHANGED <<wire, reindexes>>
    BY <1>2, <2>1, ContinuedLines DEF AdoptInit, bounds
  <2> QED
    BY <1>0, <2>2, <2>4 DEF RepliesOK, Current
<1>3. CASE AdoptReindex \/ ResyncDone
  <2>1. /\ \A i \in 1..Len(cont') : i + 1 \in 1..Len(cont) /\ cont'[i] = cont[i + 1]
        /\ \A j \in 1..Len(cont) : j > 1 => j - 1 \in 1..Len(cont') /\ cont'[j - 1] = cont[j]
        /\ UNCHANGED <<wire, reindexes>> /\ Len(cont') \in Nat
    BY <1>3, ContinuedLines DEF Continue, AdoptReindex, ResyncDone, bounds
  <2>3. behind => behind'
    BY <1>3 DEF AdoptReindex, ResyncDone, decoder
  <2>2. \A i \in 1..Len(cont') : cont'[i].type = "reindex" /\ cont'[i].label # None /\ cont'[i].asOf = enc'.seq =>
          \/ cont'[i].rev = table'[cont'[i].label] \/ Publishing' \/ behind'
          \/ \E j \in 1..Len(wire') : wire'[j].type = "init"
          \/ \E j \in 1..Len(cont') : j > i /\ cont'[j].type = "init"
    <3> SUFFICES ASSUME NEW i \in 1..Len(cont'), cont'[i].type = "reindex", cont'[i].label # None, cont'[i].asOf = enc.seq, ~Publishing, ~behind,
                        cont'[i].rev # table[cont'[i].label], ~\E j \in 1..Len(wire) : wire[j].type = "init"
                 PROVE  \E j \in 1..Len(cont') : j > i /\ cont'[j].type = "init"
      BY <1>0, <2>1, <2>3
    <3>1. PICK j \in 1..Len(cont) : j > i + 1 /\ cont[j].type = "init"
      BY <2>1 DEF RepliesOK, Current
    <3>2. j - 1 \in 1..Len(cont') /\ j - 1 > i /\ cont'[j - 1].type = "init"
      BY <2>1, <3>1
    <3> QED
      BY <3>2
  <2> QED
    BY <1>0, <2>1, <2>2 DEF RepliesOK, Current
<1>4. CASE Timers
  <2>1. UNCHANGED reindexes \/ SendReindex
    BY <1>4 DEF Timers, HandleHealth, ResyncFails, ResyncRetry, ReindexFails, Refreshes, RefreshBegin, RefreshAgain, Begin,
           RefreshSend, RefreshFails, bounds
  <2>2. ASSUME SendReindex PROVE \A i \in 1..Len(wire) : wire[i].type = "reindex" => wire[i].id # reindexes'
    <3>1. reindexes' = reindexes + 1 /\ reindexes \in Nat
      BY <2>2, SaveSets DEF SendReindex
    <3>2. \A i \in 1..Len(wire) : wire[i] \in Lines
      BY Typed
    <3> QED
      BY <3>1, <3>2, SaveSets DEF SavesOK, Meets
  <2> QED
    BY <1>0, <1>4, <2>1, <2>2, TimersLeave DEF RepliesOK, Current
<1> QED
  BY <1>1, <1>2, <1>3, <1>4 DEF Client, Timers, Continue

-----------------------------------------------------------------------------
(* The last frame under way.                                               *)

\* What a reindex changes, and promises.
LEMMA ReindexPledges ==
  ASSUME IInv, HandleReindex
  PROVE  /\ Replies' /\ main'.asOf = enc.seq
         /\ \A l \in Label : table'[l] = table[l] \/ (main'.label = l /\ main'.rev = table'[l])
<1>1. PICK l \in Label \cup {None}, x \in Nat :
        /\ main' = [step |-> "reply", id |-> Head(inbox).id, label |-> l, rev |-> x, asOf |-> enc.seq]
        /\ IF l = None THEN table' = table ELSE table' = [table EXCEPT ![l] = x]
  BY ReindexStep
<1>2. table \in [Label -> Nat]
  BY DEF IInv, TableOK, Table
<1> QED
  BY <1>1, <1>2 DEF Replies

\* FramesOK: a later change is a reindex, which promises itself, or will be published.
LEMMA FramesByDaemon ==
  ASSUME IInv, FreshOK, SavesOK, FramesOK,
         DaemonStep
  PROVE  FramesOK'
<1> USE DEF DaemonStep
<1>0. /\ enc.seq \in Nat /\ Len(wire) \in Nat
      /\ \A i \in 1..Len(wire) : Sequenced(wire[i]) => wire[i].seq \in Nat /\ wire[i].seq <= enc.seq
  BY LinesUnderWay, LineFacts DEF IInv, EncoderOK
<1>1. CASE Writes
  <2>1. PICK m \in Lines, r \in Resynced, t \in Table : Commits(m, r, t)
    BY <1>1, WritesCommit
  <2>2. /\ enc'.seq = enc.seq + 1 /\ published'[enc'.seq] = t
        /\ Publishing' \/ t = table'
    BY <2>1 DEF Commits, Publishing
  <2> QED
    BY <2>2 DEF FramesOK
<1>2. CASE HandleInit
  BY <1>2 DEF HandleInit, FramesOK, Publishing, Initializes
<1>3. CASE InitLegacy
  <2>1. PICK m \in Lines : wire' = Append(wire, m) /\ m.type = "init" /\ m.seq = 0
    BY <1>3, LegacyLine
  <2>2. /\ Len(wire') = Len(wire) + 1 /\ wire'[Len(wire')] = m
    BY <2>1, Typed DEF Grown
  <2>3. Len(wire') \in 1..Len(wire') /\ \A i \in 1..Len(wire') : Sequenced(wire'[i]) => Len(wire') > i
    BY <1>0, <2>1, <2>2 DEF Sequenced
  <2> QED
    BY <2>1, <2>2, <2>3 DEF FramesOK
<1>4. CASE HandleReindex
  <2>1. UNCHANGED <<wire, enc, published>> /\ (Publishing => Publishing')
    BY <1>4, PublishingStays DEF HandleReindex
  <2>2. /\ Replies' /\ main'.asOf = enc.seq
        /\ \A l \in Label : table'[l] = table[l] \/ (main'.label = l /\ main'.rev = table'[l])
    BY <1>4, ReindexPledges
  <2>3. ~Replies
    BY <1>4 DEF HandleReindex, Replies, Idle
  <2>4. \A l \in Label : Pledged(l)' \/ (table'[l] = table[l] /\ (Pledged(l) => Pledged(l)'))
    BY <2>1, <2>2, <2>3 DEF Pledged, Pledge
  <2> QED
    BY <2>1, <2>4 DEF FramesOK
<1>5. CASE ReindexReply
  <2>1. PICK m \in Lines : /\ wire' = Append(wire, m) /\ m.type = "reindex" /\ m.label = main.label
                          /\ m.id = main.id /\ m.rev = main.rev /\ m.asOf = main.asOf /\ Replies
    BY <1>5, ReplyLine
  <2>2. /\ Len(wire') = Len(wire) + 1 /\ wire'[Len(wire')] = m /\ Len(wire') \in 1..Len(wire')
        /\ \A i \in 1..Len(wire) : wire'[i] = wire[i] /\ i \in 1..Len(wire')
        /\ \A i \in 1..Len(wire') : (i = Len(wire') /\ wire'[i] = m) \/ (i \in 1..Len(wire) /\ wire'[i] = wire[i])
    BY <1>0, <2>1, Typed DEF Grown
  <2>3. UNCHANGED <<enc, table, published>> /\ (Publishing => Publishing')
    BY <1>5, PublishingStays DEF ReindexReply
  <2>4. ASSUME NEW l, Pledged(l) PROVE Pledged(l)'
    <3>1. CASE Replies /\ Pledge(main, l)
      BY <2>1, <2>2, <2>3, <3>1 DEF Pledged, Pledge
    <3>2. ASSUME NEW j \in 1..Len(wire), wire[j].type = "reindex", Pledge(wire[j], l) PROVE Pledged(l)'
      BY <2>2, <2>3, <3>2 DEF Pledged, Pledge
    <3> QED
      BY <2>4, <3>1, <3>2 DEF Pledged
  <2>5. ASSUME NEW i \in 1..Len(wire'), Sequenced(wire'[i]), wire'[i].seq = enc'.seq
        PROVE  \/ Publishing'
               \/ \E j \in 1..Len(wire') : j > i /\ wire'[j].type = "init"
               \/ \A l \in Label : published'[enc'.seq][l] = table'[l] \/ Pledged(l)'
    <3>1. i \in 1..Len(wire) /\ wire'[i] = wire[i]
      BY <2>1, <2>2, <2>5 DEF Sequenced
    <3>2. \/ Publishing
          \/ \E j \in 1..Len(wire) : j > i /\ wire[j].type = "init"
          \/ \A l \in Label : published[enc.seq][l] = table[l] \/ Pledged(l)
      BY <2>3, <2>5, <3>1 DEF FramesOK
    <3> QED
      BY <2>2, <2>3, <2>4, <3>2
  <2> QED
    BY <2>5 DEF FramesOK
<1>6. CASE InitPrepare
  <2>1. UNCHANGED <<wire, enc, published, table>> /\ (Publishing => Publishing') /\ ~Replies /\ ~Replies'
    BY <1>6, Unmoved, PublishingStays DEF InitPrepare, Replies
  <2> QED
    BY <2>1 DEF FramesOK, Pledged, Pledge
<1>7. ASSUME NEW p \in Publisher, AdoptTable(p) \/ PubPrepare(p) \/ PubOvertaken(p) PROVE FramesOK'
  BY <1>7, PublishersPublish DEF FramesOK
<1> QED
  BY <1>1, <1>2, <1>3, <1>4, <1>5, <1>6, <1>7 DEF Main, Writes

LEMMA FramesByClient == ASSUME IInv, OrderOK, FramesOK, Client PROVE FramesOK'
<1> USE DEF daemon
<1>0. /\ UNCHANGED <<table, enc, pub, main, published>> /\ Publishing' = Publishing /\ Replies' = Replies /\ enc.seq \in Nat
  BY DEF Client, Receive, Continue, HandleFrame, HandleReply, AdoptInit, AdoptReindex, ResyncDone, ResyncFails,
         ResyncRetry, SendReindex, ReindexFails, HandleHealth, Refreshes, RefreshBegin, RefreshAgain, Begin,
           RefreshSend, RefreshFails, Publishing, Initializes, Replies, IInv, EncoderOK
<1>1. CASE Receive
  <2>1. /\ Len(wire) = Len(wire') + 1 /\ Len(wire') \in Nat /\ 1 \in 1..Len(wire) /\ wire[1] = Head(wire) /\ Head(wire) \in Lines
        /\ \A i \in 1..Len(wire') : i + 1 \in 1..Len(wire) /\ wire'[i] = wire[i + 1]
        /\ \A j \in 1..Len(wire) : j > 1 => j - 1 \in 1..Len(wire') /\ wire'[j - 1] = wire[j]
    BY <1>1, ReceivedLines
  <2>2. ASSUME NEW i \in 1..Len(wire'), Sequenced(wire'[i]), wire'[i].seq = enc'.seq
        PROVE  \/ Publishing'
               \/ \E j \in 1..Len(wire') : j > i /\ wire'[j].type = "init"
               \/ \A l \in Label : published'[enc'.seq][l] = table'[l] \/ Pledged(l)'
    <3>1. i + 1 \in 1..Len(wire) /\ 1 < i + 1 /\ wire'[i] = wire[i + 1]
      BY <2>1
    <3>2. \/ Publishing
          \/ \E j \in 1..Len(wire) : j > i + 1 /\ wire[j].type = "init"
          \/ \A l \in Label : published[enc.seq][l] = table[l] \/ Pledged(l)
      BY <1>0, <2>2, <3>1 DEF FramesOK
    <3>3. ASSUME NEW j \in 1..Len(wire), j > i + 1, wire[j].type = "init"
          PROVE  \E k \in 1..Len(wire') : k > i /\ wire'[k].type = "init"
      <4>1. j - 1 \in 1..Len(wire') /\ j - 1 > i /\ wire'[j - 1].type = "init"
        BY <2>1, <3>1, <3>3
      <4> QED
        BY <4>1
    <3>4. ASSUME NEW l, Pledged(l) PROVE Pledged(l)'
      <4>1. CASE Replies /\ Pledge(main, l)
        BY <1>0, <4>1 DEF Pledged, Pledge
      <4>2. ASSUME NEW j \in 1..Len(wire), wire[j].type = "reindex", Pledge(wire[j], l) PROVE Pledged(l)'
        <5>1. j # 1
          <6> SUFFICES ASSUME j = 1 PROVE FALSE
            OBVIOUS
          <6>1. wire[i + 1].seq > wire[1].asOf
            BY <2>1, <2>2, <3>1, <4>2 DEF OrderOK, Dated
          <6> QED
            BY <1>0, <2>2, <3>1, <4>2, <6>1 DEF Pledge
        <5>2. j - 1 \in 1..Len(wire') /\ wire'[j - 1] = wire[j]
          BY <2>1, <5>1
        <5> QED
          BY <1>0, <4>2, <5>2 DEF Pledged, Pledge
      <4> QED
        BY <3>4, <4>1, <4>2 DEF Pledged
    <3> QED
      BY <1>0, <3>2, <3>3, <3>4
  <2> QED
    BY <2>2 DEF FramesOK
<1>2. CASE Continue \/ Timers
  <2>1. UNCHANGED wire
    BY <1>2, ContinuedLines, TimersLeave
  <2> QED
    BY <1>0, <2>1 DEF FramesOK, Pledged, Pledge
<1> QED
  BY <1>1, <1>2 DEF Client, Timers

-----------------------------------------------------------------------------
(* The answer to the first initialize.                                     *)

\* Before it is adopted no reindex is sent, and it is in one place.
LEMMA FirstAlone ==
  ASSUME IInv, SavesOK, InitsOK, ControlOK, ~started
  PROVE  /\ ~Replies /\ ~HandleReindex /\ ~HandleInit
         /\ \A i \in 1..Len(wire) : wire[i].type # "reindex"
         /\ \A i \in 1..Len(cont) : cont[i].type # "reindex"
         /\ Initializes => \A i \in 1..Len(wire) : wire[i].type # "init"
         /\ (\E i \in 1..Len(cont) : cont[i].type = "init") =>
              ~Initializes /\ \A i \in 1..Len(wire) : wire[i].type # "init"
         /\ Initializes => \A i \in 1..Len(cont) : cont[i].type # "init"
         /\ \A i, j \in 1..Len(wire) : wire[i].type = "init" /\ wire[j].type = "init" => i = j
<1> DEFINE A == Inits({refreshes})
           B == Inits(Later)
           C == Inits(Nat \ {refreshes})
<1>1. /\ refreshes = 0 /\ ~saving /\ refresh = "no" /\ ~Meets(inbox, Inits(Nat))
      /\ ~Meets(inbox, Saves(Nat)) /\ ~Replies /\ ~Meets(wire, Saves(Nat)) /\ ~Meets(cont, Saves(Nat))
  BY DEF ControlOK, SavesOK
<1>2. /\ \A i \in 1..Len(wire) : wire[i].type # "reindex"
      /\ \A i \in 1..Len(cont) : cont[i].type # "reindex"
      /\ ~Replies
  <2>1. /\ \A i \in 1..Len(wire) : wire[i] \in Lines
        /\ \A i \in 1..Len(cont) : cont[i] \in Lines
    BY Typed
  <2> QED
    BY <1>1, <2>1, SaveSets DEF Meets
<1>3. ASSUME inbox # <<>> PROVE Head(inbox).type # "reindex" /\ Head(inbox).type # "init"
  <2>1. Head(inbox) \in Requests /\ Cut(inbox, Tail(inbox), Head(inbox)) /\ inbox \in Seq(Requests) /\ Tail(inbox) \in Seq(Requests)
    BY <1>3, Typed
  <2>2. \A M : Head(inbox) \in M => Meets(inbox, M)
    BY <2>1, CutMeets
  <2>3. Head(inbox) \notin Saves(Nat) /\ Head(inbox) \notin Inits(Nat)
    BY <1>1, <2>2
  <2> QED
    BY <2>1, <2>3, SaveSets, InitSets
<1>4. /\ Alone(A, Held, inbox, wire, cont)
      /\ Held \notin B /\ ~Meets(wire, B) /\ ~Meets(cont, C)
  BY DEF InitsOK
<1>5. /\ \A i \in 1..Len(wire) : wire[i].type = "init" => wire[i] \in A
      /\ \A i \in 1..Len(cont) : cont[i].type = "init" => cont[i] \in A
  <2>1. ASSUME NEW i \in 1..Len(wire), wire[i].type = "init" PROVE wire[i] \in A
    <3>1. wire[i] \in Lines /\ wire[i] \notin B
      BY <1>4, LinesUnderWay DEF Meets
    <3>2. wire[i].id \in Nat /\ ~(wire[i].id > 0)
      BY <1>1, <2>1, <3>1, InitSets
    <3> QED
      BY <1>1, <2>1, <3>1, <3>2, InitSets
  <2>2. ASSUME NEW i \in 1..Len(cont), cont[i].type = "init" PROVE cont[i] \in A
    <3>1. cont[i] \in Lines /\ cont[i] \notin C
      BY <1>4, LinesUnderWay DEF Meets
    <3> QED
      BY <2>2, <3>1, InitSets
  <2> QED
    BY <2>1, <2>2
<1>6. Initializes => Held \in A
  <2> SUFFICES ASSUME Initializes PROVE Held \in A
    OBVIOUS
  <2>1. main.id \in Nat /\ main.id \notin Later
    BY <1>4, Holds, MainKinds DEF Initializes, Answering
  <2>2. main.id = refreshes
    BY <1>1, <2>1 DEF Later
  <2> QED
    BY <2>2, Holds
<1> HIDE DEF A, B, C
<1>7. /\ \A i, j \in 1..Len(wire) : wire[i] \in A /\ wire[j] \in A => i = j
      /\ (\E i \in 1..Len(wire) : wire[i] \in A) => Held \notin A
      /\ (\E i \in 1..Len(cont) : cont[i] \in A) => Held \notin A /\ ~\E i \in 1..Len(wire) : wire[i] \in A
  BY <1>4 DEF Alone, OneOf, Meets
<1> QED
  BY <1>2, <1>3, <1>5, <1>6, <1>7 DEF HandleReindex, HandleInit

\* FirstOK: no request of the client crosses the first answer.
LEMMA FirstByDaemon ==
  ASSUME IInv, FreshOK, SavesOK, InitsOK, ControlOK, FirstOK,
         DaemonStep
  PROVE  FirstOK'
<1> USE DEF DaemonStep
<1>1. UNCHANGED <<cont, needed, applied, started>>
  BY DEF Main, HandleInit, InitPrepare, InitWrite, InitLegacy, HandleReindex, ReindexReply, HandleResync, Warm,
         AdoptTable, PubPrepare, PubWrite, PubOvertaken, decoder, asking, control
<1>2. SUFFICES ASSUME ~started
               PROVE  /\ Initializes' => main'.asOf = 0
                      /\ \A i \in 1..Len(wire') : wire'[i].type = "init" => wire'[i].asOf = wire'[i].seq
                      /\ \A k \in 1..Len(cont) : cont[k].type = "init" /\ cont[k].seq # 0 =>
                           /\ \/ needed \/ applied > cont[k].seq
                              \/ \E j \in 1..Len(wire') : Sequenced(wire'[j])
                              \/ cont[k].seq = enc'.seq
                           /\ cont[k].seq = enc'.seq => Publishing' \/ published'[enc'.seq] = table'
  BY <1>1 DEF FirstOK
<1>3. /\ enc.seq \in Nat
      /\ \A k \in 1..Len(cont) : cont[k].type = "init" /\ cont[k].seq # 0 => cont[k].seq <= enc.seq
  BY LinesUnderWay, LineFacts DEF Sequenced, IInv, EncoderOK
<1>4. /\ Initializes => main.asOf = 0
      /\ \A i \in 1..Len(wire) : wire[i].type = "init" => wire[i].asOf = wire[i].seq
      /\ \A k \in 1..Len(cont) : cont[k].type = "init" /\ cont[k].seq # 0 =>
           /\ \/ needed \/ applied > cont[k].seq
              \/ \E j \in 1..Len(wire) : Sequenced(wire[j])
              \/ cont[k].seq = enc.seq
           /\ cont[k].seq = enc.seq => Publishing \/ published[enc.seq] = table
  BY <1>2 DEF FirstOK
<1>5. CASE Writes
  <2>1. PICK m \in Lines, r \in Resynced, t \in Table : Commits(m, r, t)
    BY <1>5, WritesCommit
  <2>2. enc'.seq = enc.seq + 1 /\ Sequenced(m) /\ (m.type = "init" => m.asOf = m.seq)
    BY <1>3, <2>1 DEF Commits, Sequenced, Whole
  <2>3. Initializes' => main'.asOf = 0
    BY <1>4, <2>1, StaledHolds, IdleHolds DEF Commits, Initializes
  <2>4. \A i \in 1..Len(wire') : wire'[i].type = "init" => wire'[i].asOf = wire'[i].seq
    BY <1>4, <2>1, <2>2, CommitsWire
  <2>5. \E j \in 1..Len(wire') : Sequenced(wire'[j])
    BY <2>1, <2>2, CommitsWire
  <2> QED
    BY <1>3, <2>2, <2>3, <2>4, <2>5
<1>6. CASE InitLegacy
  <2>1. PICK m \in Lines : wire' = Append(wire, m) /\ m.seq = 0 /\ m.asOf = main.asOf /\ Initializes
    BY <1>6, LegacyLine
  <2>2. /\ Len(wire') = Len(wire) + 1 /\ wire'[Len(wire')] = m /\ Len(wire) \in Nat
        /\ \A i \in 1..Len(wire) : wire'[i] = wire[i]
    BY <2>1, Typed, LinesUnderWay DEF Grown
  <2>3. \A i \in 1..Len(wire') : wire'[i] = m \/ (i \in 1..Len(wire) /\ wire'[i] = wire[i])
    BY <2>2
  <2>4. ~Initializes'
    BY <1>6, IdleHolds DEF InitLegacy
  <2>5. \A i \in 1..Len(cont) : cont[i].type # "init"
    BY <1>2, <2>1, FirstAlone
  <2> QED
    BY <1>4, <2>1, <2>3, <2>4, <2>5
<1>7. CASE HandleInit \/ HandleReindex \/ ReindexReply
  BY <1>2, <1>7, FirstAlone DEF ReindexReply, Replies
<1>8. CASE InitPrepare
  <2>1. UNCHANGED <<wire, enc, published, table>> /\ (Publishing => Publishing') /\ Initializes /\ main'.asOf = main.asOf
    BY <1>8, MainKinds, PublishingStays DEF InitPrepare, Initializes, Answering
  <2> QED
    BY <1>4, <2>1
<1>9. ASSUME NEW p \in Publisher, AdoptTable(p) \/ PubPrepare(p) \/ PubOvertaken(p)
      PROVE  Publishing' /\ UNCHANGED <<wire, enc>> /\ (Initializes' => main'.asOf = 0)
  BY <1>4, <1>9, PublishersPublish, StaledHolds DEF AdoptTable, PubPrepare, PubOvertaken, Initializes
<1> QED
  BY <1>4, <1>5, <1>6, <1>7, <1>8, <1>9 DEF Main, Writes

LEMMA FirstByClient ==
  ASSUME IInv, SavesOK, InitsOK, ControlOK, OrderOK, FramesOK, FirstOK, Client
  PROVE  FirstOK'
<1> USE DEF daemon
<1>0. /\ UNCHANGED <<table, enc, pub, main, published>> /\ Publishing' = Publishing /\ Initializes' = Initializes
      /\ enc.seq \in Nat /\ table \in Table /\ published \in Seq(Table) /\ enc.seq = Len(published)
  BY DEF Client, Receive, Continue, HandleFrame, HandleReply, AdoptInit, AdoptReindex, ResyncDone, ResyncFails,
         ResyncRetry, SendReindex, ReindexFails, HandleHealth, Refreshes, RefreshBegin, RefreshAgain, Begin,
           RefreshSend, RefreshFails, Publishing, Initializes, Replies, IInv, EncoderOK, TableOK
<1>1. SUFFICES ASSUME ~started'
               PROVE  /\ \A i \in 1..Len(wire') : wire'[i].type = "init" => wire'[i].asOf = wire'[i].seq
                      /\ \A k \in 1..Len(cont') : cont'[k].type = "init" =>
                           /\ cont'[k].asOf = cont'[k].seq
                           /\ cont'[k].seq # 0 =>
                                \/ needed' \/ applied' > cont'[k].seq
                                \/ \E j \in 1..Len(wire') : Sequenced(wire'[j])
                                \/ cont'[k].seq = enc.seq
                           /\ cont'[k].seq # 0 /\ cont'[k].seq = enc.seq => Publishing \/ published[enc.seq] = table
  <2>1. ~started' => ~started
    BY DEF Client, Receive, Continue, HandleFrame, HandleReply, AdoptInit, AdoptReindex, ResyncDone, ResyncFails,
         ResyncRetry, SendReindex, ReindexFails, HandleHealth, Refreshes, RefreshBegin, RefreshAgain, Begin,
           RefreshSend, RefreshFails, control
  <2>2. ~started => (Initializes => main.asOf = 0)
    BY DEF FirstOK
  <2> QED
    BY <1>0, <1>1, <2>1, <2>2 DEF FirstOK
<1>2. ~started
  BY <1>1 DEF Client, Receive, Continue, HandleFrame, HandleReply, AdoptInit, AdoptReindex, ResyncDone, ResyncFails,
         ResyncRetry, SendReindex, ReindexFails, HandleHealth, Refreshes, RefreshBegin, RefreshAgain, Begin,
           RefreshSend, RefreshFails, control
<1>3. /\ \A i \in 1..Len(wire) : wire[i].type = "init" => wire[i].asOf = wire[i].seq
      /\ \A k \in 1..Len(cont) : cont[k].type = "init" =>
           /\ cont[k].asOf = cont[k].seq
           /\ cont[k].seq # 0 =>
                \/ needed \/ applied > cont[k].seq
                \/ \E j \in 1..Len(wire) : Sequenced(wire[j])
                \/ cont[k].seq = enc.seq
           /\ cont[k].seq # 0 /\ cont[k].seq = enc.seq => Publishing \/ published[enc.seq] = table
  BY <1>2 DEF FirstOK
<1>4. CASE Receive
  <2>1. /\ Len(wire) = Len(wire') + 1 /\ Len(wire') \in Nat /\ 1 \in 1..Len(wire) /\ wire[1] = Head(wire) /\ Head(wire) \in Lines
        /\ \A i \in 1..Len(wire') : i + 1 \in 1..Len(wire) /\ wire'[i] = wire[i + 1]
        /\ \A j \in 1..Len(wire) : j > 1 => j - 1 \in 1..Len(wire') /\ wire'[j - 1] = wire[j]
        /\ \A i \in 1..Len(cont) : i \in 1..Len(cont') /\ cont'[i] = cont[i]
        /\ \A i \in 1..Len(cont') :
              \/ i \in 1..Len(cont) /\ cont'[i] = cont[i]
              \/ i = Len(cont) + 1 /\ cont'[i] = Head(wire) /\ HandleReply /\ Awaited(Head(wire))
    BY <1>4, ReceivedLines
  <2>2. \A i \in 1..Len(wire') : wire'[i].type = "init" => wire'[i].asOf = wire'[i].seq
    BY <1>3, <2>1
  <2>3. ASSUME NEW j \in 1..Len(wire), j > 1, Sequenced(wire[j]) PROVE \E k \in 1..Len(wire') : Sequenced(wire'[k])
    <3>1. j - 1 \in 1..Len(wire') /\ wire'[j - 1] = wire[j]
      BY <2>1, <2>3
    <3> QED
      BY <2>3, <3>1
  <2>4. ASSUME NEW k \in 1..Len(cont'), cont'[k].type = "init"
        PROVE  /\ cont'[k].asOf = cont'[k].seq
               /\ cont'[k].seq # 0 =>
                    \/ needed' \/ applied' > cont'[k].seq
                    \/ \E j \in 1..Len(wire') : Sequenced(wire'[j])
                    \/ cont'[k].seq = enc.seq
               /\ cont'[k].seq # 0 /\ cont'[k].seq = enc.seq => Publishing \/ published[enc.seq] = table
    <3>1. CASE k = Len(cont) + 1 /\ cont'[k] = wire[1]
      <4>1. wire[1].asOf = wire[1].seq /\ wire[1].type = "init"
        BY <1>3, <2>1, <2>4, <3>1
      <4>2. ASSUME wire[1].seq # 0 PROVE wire[1].seq = enc.seq \/ \E j \in 1..Len(wire') : Sequenced(wire'[j])
        BY <2>1, <2>3, <4>1, <4>2 DEF OrderOK, Sequenced
      <4>3. ASSUME wire[1].seq # 0, wire[1].seq = enc.seq, ~Publishing PROVE published[enc.seq] = table
        <5>1. \A l \in Label : ~Pledged(l)
          BY <1>2, FirstAlone DEF Pledged
        <5>2. ~\E j \in 1..Len(wire) : j > 1 /\ wire[j].type = "init"
          <6>1. \A i, j \in 1..Len(wire) : wire[i].type = "init" /\ wire[j].type = "init" => i = j
            BY <1>2, FirstAlone
          <6> QED
            BY <2>1, <4>1, <6>1
        <5>3. \A l \in Label : published[enc.seq][l] = table[l]
          BY <2>1, <4>1, <4>3, <5>1, <5>2 DEF FramesOK, Sequenced
        <5>4. published[enc.seq] \in Table
          BY <1>0, <2>1, <4>1, <4>3, LinesUnderWay, LineFacts DEF Sequenced
        <5> QED
          BY <1>0, <5>3, <5>4 DEF Table
      <4> QED
        BY <3>1, <4>1, <4>2, <4>3
    <3>2. CASE k \in 1..Len(cont) /\ cont'[k] = cont[k]
      <4>1. cont[k].type = "init" /\ cont[k].asOf = cont[k].seq /\ Dated(cont[k])
        BY <1>3, <2>4, <3>2 DEF Dated
      <4>2. wire[1].type # "init"
        BY <1>2, <2>1, <3>2, <4>1, FirstAlone
      <4>3. ASSUME cont[k].seq # 0, cont[k].seq # enc.seq, ~\E j \in 1..Len(wire') : Sequenced(wire'[j])
            PROVE  needed' \/ applied' > cont[k].seq
        <5>1. needed \/ applied > cont[k].seq \/ Sequenced(wire[1])
          <6>1. \A j \in 1..Len(wire) : Sequenced(wire[j]) => j = 1
            BY <2>1, <2>3, <4>3
          <6> QED
            BY <1>3, <3>2, <4>1, <4>3, <6>1
        <5>2. CASE HandleFrame
          <6>1. wire[1].seq > cont[k].seq
            <7>1. Sequenced(wire[1])
              BY <2>1, <5>2, LinesUnderWay, LineFacts DEF HandleFrame
            <7> QED
              BY <2>1, <3>2, <4>1, <7>1 DEF OrderOK
          <6>2. ~pending
            BY <1>2 DEF ControlOK
          <6>3. needed' = TRUE \/ applied' = wire[1].seq
            BY <2>1, <5>2, <6>2 DEF HandleFrame
          <6> QED
            BY <6>1, <6>3
        <5>3. CASE HandleReply
          <6>1. UNCHANGED <<needed, applied>> /\ wire[1].type # "frame"
            BY <2>1, <5>3 DEF HandleReply, asking
          <6> QED
            BY <4>2, <5>1, <6>1 DEF Sequenced
        <5> QED
          BY <1>4, <5>2, <5>3 DEF Receive
      <4> QED
        BY <1>3, <3>2, <4>1, <4>3
    <3> QED
      BY <2>1, <3>1, <3>2
  <2> QED
    BY <2>2, <2>4
<1>5. CASE Continue
  <2>1. /\ UNCHANGED wire /\ \A i \in 1..Len(cont') : i + 1 \in 1..Len(cont) /\ cont'[i] = cont[i + 1]
    BY <1>5, ContinuedLines
  <2>2. (needed => needed') /\ UNCHANGED applied
    BY <1>1, <1>5 DEF Continue, AdoptInit, AdoptReindex, ResyncDone, decoder, asking
  <2> QED
    BY <1>3, <2>1, <2>2
<1>6. CASE Timers
  <2>1. UNCHANGED <<wire, cont, applied, needed>>
    BY <1>6, TimersLeave DEF Timers, ResyncFails, ResyncRetry, SendReindex, ReindexFails, HandleHealth, Refreshes, RefreshBegin, RefreshAgain, Begin,
           RefreshSend, RefreshFails, asking
  <2> QED
    BY <1>3, <2>1
<1> QED
  BY <1>4, <1>5, <1>6 DEF Client, Timers

-----------------------------------------------------------------------------
(* What the client serves.                                                 *)

\* Coming, line by line.
LEMMA ComesByMeets ==
  ASSUME IInv
  PROVE  /\ Coming <=> \/ Publishing \/ Meets(inbox, Asking)
                       \/ \E i \in 1..Len(wire) : wire[i].type \in {"frame", "init"}
                       \/ \E i \in 1..Len(cont) : cont[i].type \in {"frame", "init"}
BY LinesUnderWay, LineKinds DEF Coming, Meets

\* ViewOK: what the daemon changes is coming, or arriving.
LEMMA ViewByDaemon ==
  ASSUME IInv, FreshOK, SavesOK, ViewOK,
         DaemonStep
  PROVE  ViewOK'
<1> USE DEF DaemonStep
<1>1. UNCHANGED <<cont, needed, applied, retired, behind, view>>
  BY DEF Main, HandleInit, InitPrepare, InitWrite, InitLegacy, HandleReindex, ReindexReply, HandleResync, Warm,
         AdoptTable, PubPrepare, PubWrite, PubOvertaken, decoder, asking
<1>2. CASE Writes
  <2>1. PICK m \in Lines, r \in Resynced, t \in Table : Commits(m, r, t)
    BY <1>2, WritesCommit
  <2>2. Len(wire) + 1 \in 1..Len(wire') /\ wire'[Len(wire) + 1] = m /\ m \in Whole /\ Whole' = Whole
    BY <2>1, CommitsWire DEF Commits, Whole
  <2> QED
    BY <2>2 DEF ViewOK, Coming, Meets
<1>3. CASE HandleInit \/ InitPrepare \/ \E p \in Publisher : AdoptTable(p) \/ PubPrepare(p) \/ PubOvertaken(p)
  <2>1. Publishing'
    <3>1. HandleInit \/ InitPrepare => Initializes'
      BY MainKinds DEF HandleInit, InitPrepare, Initializes, Answering
    <3> QED
      BY <1>3, <3>1, PublishersPublish DEF Publishing
  <2> QED
    BY <2>1 DEF ViewOK, Coming
<1>4. CASE InitLegacy
  <2>1. PICK m \in Lines : wire' = Append(wire, m) /\ m.type = "init"
    BY <1>4, LegacyLine
  <2>2. /\ Len(wire') = Len(wire) + 1 /\ wire'[Len(wire')] = m /\ Len(wire) \in Nat /\ m \in Whole
    BY <2>1, Typed, LinesUnderWay, LineKinds DEF Grown
  <2>3. Len(wire') \in 1..Len(wire')
    BY <2>2
  <2> QED
    BY <2>2, <2>3 DEF ViewOK, Coming, Meets, Whole
<1>5. CASE HandleReindex
  <2>1. UNCHANGED <<wire, enc>> /\ (Publishing => Publishing')
    BY <1>5, PublishingStays DEF HandleReindex
  <2>2. /\ Replies'
        /\ \A l \in Label : table'[l] = table[l] \/ main'.label = l
    BY <1>5, ReindexPledges
  <2>3. ~Replies
    BY <1>5 DEF HandleReindex, Replies, Idle
  <2>4. \A l \in Label : Arriving(l)' \/ (table'[l] = table[l] /\ ~Arriving(l))
    BY <1>1, <2>1, <2>2, <2>3 DEF Arriving
  <2>5. Meets(inbox, Asking) => Meets(inbox', Asking)
    <3>1. inbox # <<>> /\ inbox' = Tail(inbox) /\ Head(inbox).type = "reindex"
      BY <1>5 DEF HandleReindex
    <3>2. inbox \in Seq(Requests) /\ inbox' \in Seq(Requests) /\ Cut(inbox, inbox', Head(inbox)) /\ Head(inbox) \notin Asking
      BY <3>1, Typed DEF Asking
    <3> QED
      BY <3>2, CutMeets
  <2>6. Coming => Coming'
    BY <1>1, <2>1, <2>5 DEF Coming, Asking, Whole
  <2> QED
    BY <1>1, <2>1, <2>4, <2>6 DEF ViewOK
<1>6. CASE ReindexReply
  <2>1. PICK m \in Lines : wire' = Append(wire, m) /\ m.type = "reindex" /\ m.label = main.label
    BY <1>6, ReplyLine
  <2>2. /\ Len(wire') = Len(wire) + 1 /\ wire'[Len(wire')] = m /\ Len(wire') \in 1..Len(wire')
        /\ \A i \in 1..Len(wire) : wire'[i] = wire[i] /\ i \in 1..Len(wire')
    BY <2>1, Typed, LinesUnderWay DEF Grown
  <2>3. UNCHANGED <<enc, table, inbox>> /\ (Publishing => Publishing')
    BY <1>6, PublishingStays DEF ReindexReply
  <2>4. Coming => Coming'
    BY <1>1, <2>2, <2>3 DEF Coming, Asking, Whole, Meets
  <2>5. \A l : Arriving(l) => Arriving(l)'
    BY <1>1, <2>1, <2>2 DEF Arriving
  <2> QED
    BY <1>1, <2>3, <2>4, <2>5 DEF ViewOK
<1> QED
  BY <1>2, <1>3, <1>4, <1>5, <1>6 DEF Main, Writes

\* A frame is served, or something else is on its way.
LEMMA ViewByFrame ==
  ASSUME IInv, ControlOK, OrderOK, FramesOK, ViewOK, HandleFrame PROVE ViewOK'
<1> USE DEF daemon
<1>0. /\ UNCHANGED <<table, enc, pub, main, published, cont>> /\ Publishing' = Publishing /\ Replies' = Replies /\ Receive
      /\ Asking' = Asking /\ Whole' = Whole
  BY DEF HandleFrame, Publishing, Initializes, Replies, Receive, Asking, Whole
<1>1. /\ Len(wire) = Len(wire') + 1 /\ Len(wire') \in Nat /\ 1 \in 1..Len(wire) /\ wire[1] = Head(wire) /\ Head(wire) \in Lines
      /\ \A j \in 1..Len(wire) : j > 1 => j - 1 \in 1..Len(wire') /\ wire'[j - 1] = wire[j]
      /\ Head(wire).type = "frame"
  BY <1>0, ReceivedLines DEF HandleFrame
<1>2. CASE pending /\ UNCHANGED <<inbox, decoder, asking, refresh>>
  BY <1>2 DEF ControlOK, ViewOK, decoder
<1>3. CASE needed' = TRUE
  BY <1>3 DEF ViewOK
<1>4. CASE Decodable(Head(wire)) /\ view' = Rebuilt(Head(wire)) /\ applied' = Head(wire).seq /\ UNCHANGED inbox
  <2> SUFFICES ASSUME ~Coming' PROVE applied' = enc.seq /\ \A l \in Label : view'[l] = table[l] \/ Arriving(l)'
    BY <1>0 DEF ViewOK
  <2>1. \A j \in 1..Len(wire) : j > 1 => wire[j] \notin Whole
    BY <1>0, <1>1 DEF Coming, Meets
  <2>2. \A j \in 1..Len(wire) : j > 1 => ~Sequenced(wire[j]) /\ wire[j].type # "init"
    BY <2>1, LinesUnderWay, LineFacts, LineKinds
  <2>3. Sequenced(wire[1]) /\ wire[1].seq = enc.seq
    <3>1. Sequenced(wire[1])
      BY <1>1, LinesUnderWay, LineFacts
    <3> QED
      BY <1>1, <2>2, <3>1 DEF OrderOK
  <2>4. view' = published[enc.seq]
    BY <1>1, <1>4, <2>3, RebuiltIsPublished
  <2>5. ~Publishing
    BY <1>0 DEF Coming
  <2>6. \A l \in Label : published[enc.seq][l] = table[l] \/ Pledged(l)
    BY <1>1, <2>2, <2>3, <2>5 DEF FramesOK
  <2>7. ASSUME NEW l \in Label, Pledged(l) PROVE Arriving(l)'
    <3>1. CASE Replies /\ main.label = l
      BY <1>0, <3>1 DEF Arriving
    <3>2. ASSUME NEW j \in 1..Len(wire), wire[j].type = "reindex", wire[j].label = l PROVE Arriving(l)'
      <4>1. j - 1 \in 1..Len(wire') /\ wire'[j - 1] = wire[j]
        BY <1>1, <3>2
      <4> QED
        BY <3>2, <4>1 DEF Arriving
    <3> QED
      BY <2>7, <3>1, <3>2 DEF Pledged, Pledge
  <2> QED
    BY <1>1, <1>4, <2>3, <2>4, <2>6, <2>7
<1> QED
  BY <1>2, <1>3, <1>4 DEF HandleFrame

\* A reply is on its way as before.
LEMMA ViewByReply == ASSUME IInv, ViewOK, HandleReply PROVE ViewOK'
<1> USE DEF daemon
<1>0. /\ UNCHANGED <<table, enc, pub, main, published, inbox, view, applied, retired, needed>> /\ Receive
      /\ Publishing' = Publishing /\ Replies' = Replies /\ Asking' = Asking /\ Whole' = Whole
  BY DEF HandleReply, Publishing, Initializes, Replies, Receive, asking, Asking, Whole
<1>1. /\ Len(wire) = Len(wire') + 1 /\ Len(wire') \in Nat /\ 1 \in 1..Len(wire) /\ wire[1] = Head(wire) /\ Head(wire) \in Lines
      /\ \A j \in 1..Len(wire) : j > 1 => j - 1 \in 1..Len(wire') /\ wire'[j - 1] = wire[j]
      /\ \A i \in 1..Len(cont) : i \in 1..Len(cont') /\ cont'[i] = cont[i]
      /\ HandleReply /\ Awaited(Head(wire)) => Len(cont) + 1 \in 1..Len(cont') /\ cont'[Len(cont) + 1] = Head(wire)
  BY <1>0, ReceivedLines
<1> SUFFICES ASSUME ~Coming', ~retired, ~needed, ~behind'
             PROVE  applied = enc.seq /\ \A l \in Label : view[l] = table[l] \/ Arriving(l)'
  BY <1>0 DEF ViewOK
<1>2. Head(wire).type # "frame" /\ (Missed(Head(wire)) => Awaited(Head(wire))) /\ ~behind
  BY DEF HandleReply
<1>3. Head(wire) \notin Whole
  <2> SUFFICES ASSUME Head(wire) \in Whole PROVE FALSE
    OBVIOUS
  <2>1. Awaited(Head(wire))
    BY <1>1, <1>2, LineKinds DEF Missed
  <2> QED
    BY <1>0, <1>1, <2>1 DEF Coming, Meets
<1>4. ~Coming
  <2>1. ~Meets(wire, Whole)
    BY <1>0, <1>1, <1>3 DEF Coming, Meets
  <2>2. ~Meets(cont, Whole)
    BY <1>0, <1>1 DEF Coming, Meets
  <2> QED
    BY <1>0, <2>1, <2>2 DEF Coming
<1>5. ASSUME NEW l \in Label, Arriving(l) PROVE Arriving(l)'
  <2>1. CASE Replies /\ main.label = l
    BY <1>0, <2>1 DEF Arriving
  <2>2. ASSUME NEW j \in 1..Len(wire), wire[j].type = "reindex", wire[j].label = l PROVE Arriving(l)'
    <3>1. CASE j = 1
      <4>1. Len(cont) + 1 \in 1..Len(cont') /\ cont'[Len(cont) + 1] = wire[1]
        BY <1>0, <1>1, <1>2, <2>2, <3>1, TransportBounds DEF Missed, HandleReply
      <4> QED
        BY <2>2, <3>1, <4>1 DEF Arriving
    <3>2. CASE j # 1
      <4>1. j - 1 \in 1..Len(wire') /\ wire'[j - 1] = wire[j]
        BY <1>1, <3>2
      <4> QED
        BY <2>2, <4>1 DEF Arriving
    <3> QED
      BY <3>1, <3>2
  <2>3. ASSUME NEW j \in 1..Len(cont), cont[j].type = "reindex", cont[j].label = l PROVE Arriving(l)'
    BY <1>1, <2>3 DEF Arriving
  <2> QED
    BY <1>5, <2>1, <2>2, <2>3 DEF Arriving
<1> QED
  BY <1>0, <1>2, <1>4, <1>5 DEF ViewOK

\* What is asked for stays in the inbox, and a request is made unless one waits.
LEMMA AskedStays ==
  ASSUME IInv, NEW m \in Requests, inbox' = inbox \/ inbox' = Append(inbox, m), NEW M
  PROVE  Meets(inbox, M) => Meets(inbox', M)
<1>1. CASE inbox' = Append(inbox, m)
  <2>1. inbox \in Seq(Requests) /\ Grown(inbox, inbox', m)
    BY <1>1, Typed
  <2> QED
    BY <2>1, GrownMeets
<1> QED
  BY <1>1

\* A request for the table is a request.
LEMMA AskComes ==
  ASSUME IInv, Ask, resync # "asked", ~Refused
  PROVE  Meets(inbox', Asking)
<1> DEFINE m == [type |-> "resync", id |-> expired]
<1>1. m \in Requests /\ m \in Asking /\ inbox' = Append(inbox, m)
  BY DEF Ask, IInv, InboxOK, Requests, Asking
<1> HIDE DEF m
<1>2. inbox \in Seq(Requests) /\ Grown(inbox, inbox', m)
  BY <1>1, Typed
<1> QED
  BY <1>1, <1>2, GrownMeets

\* It takes nothing away.
LEMMA AskKeeps ==
  ASSUME IInv, Ask \/ UNCHANGED inbox, NEW M
  PROVE  Meets(inbox, M) => Meets(inbox', M)
<1>1. [type |-> "resync", id |-> expired] \in Requests
  BY DEF IInv, InboxOK, Requests
<1> QED
  BY <1>1, AskedStays DEF Ask

\* The answer to an initialize is served, or the client asks for the table.
LEMMA ViewByInit ==
  ASSUME IInv, SavesOK, InitsOK, ControlOK, FirstOK, ViewOK, AdoptInit PROVE ViewOK'
<1> USE DEF daemon
<1>0. /\ cont # <<>> /\ Head(cont).type = "init" /\ Continue
      /\ UNCHANGED <<table, enc, pub, main, wire, published, needed>>
      /\ Publishing' = Publishing /\ Asking' = Asking /\ Whole' = Whole
  BY DEF AdoptInit, Continue, Publishing, Initializes, Asking, Whole
<1> DEFINE m == Head(cont)
<1>1. m \in Initials /\ 1 \in 1..Len(cont) /\ cont[1] = m /\ Sound(m, published)
  BY <1>0, ContinuedLines, LinesUnderWay, LineKinds
<1>2. /\ base' = IF m.seq = 0 THEN None ELSE [seq |-> m.seq, tab |-> m.tab]
      /\ view' = m.tab
      /\ applied' = IF m.seq > applied THEN m.seq ELSE applied
      /\ behind' = (applied > m.asOf)
      /\ IF AsksAfterInit THEN Ask ELSE UNCHANGED <<resync, inbox>>
  BY DEF AdoptInit
<1> HIDE DEF m
<1> SUFFICES ASSUME ~Coming', ~needed, ~behind'
             PROVE  applied' = enc.seq /\ view' = table
  BY <1>0 DEF ViewOK
<1>3. ~AsksAfterInit \/ resync = "asked"
  <2>1. ~Refused
    BY <1>0, InitAlone DEF ControlOK, Refused
  <2> QED
    BY <1>0, <1>2, <2>1, AskComes DEF Coming
<1>4. ~started
  BY <1>0, <1>3, InitAlone DEF AsksAfterInit, ControlOK
<1>5. m.seq \in Nat /\ applied \in Nat /\ m.asOf = m.seq
  BY <1>0, <1>1, <1>4 DEF Initials, IInv, BaseOK, FirstOK, m
<1>6. m.seq # 0
  <2> SUFFICES ASSUME m.seq = 0 PROVE FALSE
    OBVIOUS
  <2>1. resync = "asked"
    BY <1>2, <1>3 DEF AsksAfterInit
  <2>2. applied > 0
    BY <1>4, <2>1 DEF ControlOK
  <2> QED
    BY <1>2, <1>5, <2>2
<1>7. ~(applied > m.seq)
  BY <1>2, <1>5
<1>8. ~\E j \in 1..Len(wire) : Sequenced(wire[j])
  <2> SUFFICES ASSUME NEW j \in 1..Len(wire), Sequenced(wire[j]) PROVE FALSE
    OBVIOUS
  <2>1. wire[j] \in Whole
    BY LinesUnderWay, LineFacts
  <2> QED
    BY <1>0, <2>1 DEF Coming, Meets
<1>9. m.seq = enc.seq /\ published[enc.seq] = table
  BY <1>0, <1>1, <1>4, <1>6, <1>7, <1>8 DEF FirstOK, Coming, m
<1>10. m.tab = published[m.seq]
  BY <1>0, <1>1, <1>6 DEF Sound, m
<1> QED
  BY <1>2, <1>5, <1>7, <1>9, <1>10

\* A reply is served that no later frame replaces.
LEMMA ViewByReindex ==
  ASSUME IInv, SavesOK, ControlOK, OrderOK, RepliesOK, ViewOK, AdoptReindex PROVE ViewOK'
<1> USE DEF daemon
<1>0. /\ cont # <<>> /\ Head(cont).type = "reindex" /\ Continue
      /\ UNCHANGED <<table, enc, pub, main, wire, published, retired, applied>>
      /\ Publishing' = Publishing /\ Asking' = Asking /\ Whole' = Whole
  BY DEF AdoptReindex, Continue, Publishing, Initializes, Asking, Whole
<1>1. /\ 1 \in 1..Len(cont) /\ cont[1] = Head(cont) /\ Head(cont) \in Lines
      /\ \A j \in 1..Len(cont) : j > 1 => j - 1 \in 1..Len(cont') /\ cont'[j - 1] = cont[j]
  BY <1>0, ContinuedLines
<1>2. Head(cont) \in Reindexed /\ Head(cont) \notin Whole
  BY <1>0, <1>1, LineKinds
<1>3. CASE needed' = TRUE \/ retired
  BY <1>0, <1>3 DEF ViewOK
<1>4. ASSUME NEW l \in Label, Arriving(l), l # Head(cont).label PROVE Arriving(l)'
  <2>1. CASE Replies /\ main.label = l
    BY <1>0, <2>1 DEF Arriving, Replies
  <2>2. ASSUME NEW j \in 1..Len(wire), wire[j].type = "reindex", wire[j].label = l PROVE Arriving(l)'
    BY <1>0, <2>2 DEF Arriving
  <2>3. ASSUME NEW j \in 1..Len(cont), cont[j].type = "reindex", cont[j].label = l PROVE Arriving(l)'
    <3>1. j > 1
      BY <1>1, <1>4, <2>3
    <3>2. j - 1 \in 1..Len(cont') /\ cont'[j - 1] = cont[j]
      BY <1>1, <3>1
    <3> QED
      BY <2>3, <3>2 DEF Arriving
  <2> QED
    BY <1>4, <2>1, <2>2, <2>3 DEF Arriving
<1>5. CASE Head(cont).label = None /\ UNCHANGED <<view, behind, inbox, asking>>
  <2> SUFFICES ASSUME ~Coming', ~retired, ~needed', ~behind'
               PROVE  applied = enc.seq /\ \A l \in Label : view'[l] = table[l] \/ Arriving(l)'
    BY <1>0 DEF ViewOK
  <2>1. ~Coming
    BY <1>0, <1>1, <1>2, <1>5 DEF Coming, Meets
  <2> QED
    BY <1>0, <1>4, <1>5, <2>1, TransportBounds DEF ViewOK, asking
<1>6. CASE /\ Head(cont).label # None
           /\ view' = [view EXCEPT ![Head(cont).label] = Head(cont).rev]
           /\ behind' = (behind \/ applied > Head(cont).asOf)
           /\ UNCHANGED <<inbox, asking>>
  <2> SUFFICES ASSUME ~Coming', ~retired, ~needed', ~behind'
               PROVE  applied = enc.seq /\ \A l \in Label : view'[l] = table[l] \/ Arriving(l)'
    BY <1>0 DEF ViewOK
  <2>1. ~behind /\ ~(applied > Head(cont).asOf) /\ ~needed
    BY <1>6 DEF asking
  <2>2. ~Coming /\ \A j \in 1..Len(cont) : cont[j].type # "init"
    <3>1. \A j \in 1..Len(cont) : cont[j] \notin Whole
      BY <1>0, <1>1, <1>2 DEF Coming, Meets
    <3>2. ~Coming
      BY <1>0, <1>6, <3>1 DEF Coming, Meets
    <3> QED
      BY <3>1, <3>2, LinesUnderWay, LineKinds
  <2>3. applied = enc.seq /\ \A l \in Label : view[l] = table[l] \/ Arriving(l)
    BY <2>1, <2>2 DEF ViewOK
  <2>4. Head(cont).asOf = enc.seq
    <3>1. Head(cont).asOf <= enc.seq
      BY <1>0, <1>1 DEF OrderOK, Dated
    <3>2. Head(cont).asOf \in Nat /\ enc.seq \in Nat
      BY <1>2 DEF Reindexed, IInv, EncoderOK
    <3> QED
      BY <2>1, <2>3, <3>1, <3>2
  <2>5. Head(cont).rev = table[Head(cont).label]
    <3>1. ~\E j \in 1..Len(wire) : wire[j].type = "init"
      BY <2>2, LinesUnderWay, LineKinds DEF Coming, Meets
    <3> QED
      BY <1>0, <1>1, <1>6, <2>1, <2>2, <2>4, <3>1 DEF RepliesOK, Current, Coming
  <2>7. view \in [Label -> Nat]
    BY DEF ControlOK, Table
  <2> QED
    BY <1>2, <1>4, <1>6, <2>3, <2>5, <2>7
<1> QED
  BY <1>3, <1>5, <1>6 DEF AdoptReindex, asking

\* The other steps of the client serve nothing.
LEMMA ViewByOthers == ASSUME IInv, ViewOK, ResyncDone \/ Timers PROVE ViewOK'
<1> USE DEF daemon
<1>0. /\ UNCHANGED <<table, enc, pub, main, wire, view, applied, behind, needed>> /\ Asking' = Asking /\ Whole' = Whole
      /\ Publishing' = Publishing /\ Replies' = Replies /\ (~retired' => ~retired)
  BY DEF ResyncDone, Timers, ResyncFails, ResyncRetry, SendReindex, ReindexFails, HandleHealth, Refreshes, RefreshBegin, RefreshAgain, Begin,
           RefreshSend, RefreshFails,
         decoder, asking, Publishing, Initializes, Replies, Asking, Whole
<1>1. /\ \A i \in 1..Len(cont) : cont[i].type # "resync" => \E j \in 1..Len(cont') : cont'[j] = cont[i]
  <2>1. CASE ResyncDone
    <3>1. /\ 1 \in 1..Len(cont) /\ cont[1] = Head(cont) /\ Head(cont).type = "resync"
          /\ \A j \in 1..Len(cont) : j > 1 => j - 1 \in 1..Len(cont') /\ cont'[j - 1] = cont[j]
      BY <2>1, ContinuedLines DEF Continue, ResyncDone
    <3>2. ASSUME NEW i \in 1..Len(cont), cont[i].type # "resync" PROVE i - 1 \in 1..Len(cont') /\ cont'[i - 1] = cont[i]
      BY <3>1, <3>2
    <3> QED
      BY <3>2
  <2>2. CASE Timers
    BY <2>2, TimersLeave
  <2> QED
    BY <2>1, <2>2
<1>2. Meets(inbox, Asking) => Meets(inbox', Asking)
  <2>1. /\ [type |-> "reindex", id |-> reindexes + 1] \in Requests /\ [type |-> "init", id |-> refreshes] \in Requests
    BY DEF IInv, InboxOK, Requests
  <2> QED
    BY <2>1, AskedStays, AskKeeps DEF ResyncDone, Timers, ResyncFails, ResyncRetry, SendReindex, ReindexFails, HandleHealth, Refreshes, RefreshBegin, RefreshAgain, Begin,
           RefreshSend, RefreshFails
<1>3. Coming => Coming'
  <2>1. Meets(cont, Whole) => Meets(cont', Whole)
    BY <1>1 DEF Meets, Whole
  <2> QED
    BY <1>0, <1>2, <2>1 DEF Coming
<1>4. \A l : Arriving(l) => Arriving(l)'
  BY <1>0, <1>1 DEF Arriving
<1>5. SUFFICES ASSUME ~Coming', ~retired', ~needed, ~behind
               PROVE applied = enc.seq /\ \A l \in Label : view[l] = table[l] \/ Arriving(l)'
  BY <1>0, <1>5 DEF ViewOK
<1> QED
  BY <1>0, <1>3, <1>4, <1>5 DEF ViewOK

-----------------------------------------------------------------------------
(* The invariant, and the second property.                                 *)

\* The invariant holds at the start.
LEMMA InitQuiet == Init => QInv
<1> SUFFICES ASSUME Init PROVE QInv
  OBVIOUS
<1> USE DEF Init
<1>1. /\ \A M : ~Meets(inbox, M) /\ ~Meets(wire, M) /\ ~Meets(cont, M)
      /\ Held = [type |-> "init", id |-> 0] /\ Initializes /\ ~Replies
  BY DEF Meets, Held, Replies, Initializes
<1>2. \A M : Alone(M, Held, inbox, wire, cont)
  BY <1>1 DEF Alone, OneOf
<1>3. SavesOK
  BY <1>1, <1>2 DEF SavesOK, Saves, Ends
<1>4. InitsOK
  BY <1>1, <1>2 DEF InitsOK, Inits, Later
<1>5. ControlOK
  BY <1>1 DEF ControlOK, Empty, Table
<1>6. OrderOK
  BY DEF OrderOK
<1>7. FreshOK
  BY DEF FreshOK, Idle
<1>8. RepliesOK /\ FramesOK /\ FirstOK
  BY <1>1 DEF RepliesOK, FramesOK, FirstOK
<1>9. ViewOK
  BY <1>1 DEF ViewOK, Coming, Publishing
<1> QED
  BY <1>3, <1>4, <1>5, <1>6, <1>7, <1>8, <1>9 DEF QInv

\* The steps of the daemon keep it.
LEMMA DaemonQuiet ==
  ASSUME IInv, QInv, DaemonStep
  PROVE  QInv'
BY SavesByDaemon, InitsByDaemon, ControlByDaemon, OrderByDaemon, FreshInvariant, RepliesByDaemon, FramesByDaemon,
   FirstByDaemon, ViewByDaemon DEF QInv

\* So do the client's.
LEMMA ClientQuiet == ASSUME IInv, QInv, Client PROVE QInv'
<1>1. FreshOK'
  <2>1. UNCHANGED daemon
    BY DEF Client, Receive, Continue, HandleFrame, HandleReply, AdoptInit, AdoptReindex, ResyncDone, ResyncFails,
         ResyncRetry, SendReindex, ReindexFails, HandleHealth, Refreshes, RefreshBegin, RefreshAgain, Begin,
           RefreshSend, RefreshFails
  <2> QED
    BY <2>1 DEF daemon, QInv, FreshOK, UpToDate, Initializes
<1>2. ViewOK'
  BY ViewByFrame, ViewByReply, ViewByInit, ViewByReindex, ViewByOthers DEF QInv, Client, Receive, Continue, Timers
<1> QED
  BY <1>1, <1>2, SavesByClient, InitsByClient, ControlByClient, OrderByClient, RepliesByClient, FramesByClient, FirstByClient
     DEF QInv

LEMMA StutterQuiet == QInv /\ UNCHANGED vars => QInv'
BY DEF QInv, vars, daemon, decoder, asking, control, bounds, SavesOK, InitsOK, ControlOK, OrderOK, FreshOK, RepliesOK,
       FramesOK, FirstOK, ViewOK, Held, Replies, Initializes, Later, Unsent, UpToDate, Publishing, Coming, Arriving, Pledged,
       Pledge, Current

\* Every step does.
LEMMA StepQuiet == IInv /\ QInv /\ [Next]_vars => QInv'
BY DaemonQuiet, ClientQuiet, StutterQuiet DEF Next, Client, DaemonStep

\* Nothing on its way, nothing publishing: ViewOK is the property.
LEMMA QuietFollows == IInv /\ QInv => QuietIsCurrent
<1> SUFFICES ASSUME IInv, QInv, Quiet, ~retired, ~behind PROVE view = table
  BY DEF QuietIsCurrent
<1>1. /\ inbox = <<>> /\ wire = <<>> /\ cont = <<>> /\ ~Initializes /\ ~Replies /\ ~needed
      /\ \A p \in Publisher : pub[p].step = "idle"
  BY DEF Quiet, Idle, Initializes, Replies, QInv, ControlOK
<1>2. ~Coming /\ \A l : ~Arriving(l)
  BY <1>1 DEF Coming, Publishing, Meets, Arriving
<1>3. \A l \in Label : view[l] = table[l]
  BY <1>1, <1>2 DEF QInv, ViewOK
<1> QED
  BY <1>3 DEF QInv, ControlOK, IInv, TableOK, Table

\* Once everything is quiet, a client that serves a table serves the daemon's,
\* unless it adopted a reply older than a frame it had applied, or the answer to
\* an initialize or a reindex came after its time-out.
THEOREM QuietIsCurrentHolds == Spec => []QuietIsCurrent
<1>1. Spec => []QInv
  BY InitQuiet, StepQuiet, InvariantHolds, PTL DEF Spec
<1> QED
  BY <1>1, InvariantHolds, QuietFollows, PTL

-----------------------------------------------------------------------------
(* The invariant of the refinement.  A revision 0 hides what was before, so *)
(* the order of what is published, served, said and held is stated pair by  *)
(* pair.                                                                    *)

\* As TableReplica orders the revisions of a label.
Le(r, s) == r # 0 /\ s # 0 => r <= s

\* The reply that the main thread has computed, as it will be written, unless
\* an initialize gets a number.
Speaks == Replies \/ Initializes
Spoken ==
  IF Replies
  THEN [type |-> "reindex", id |-> main.id, label |-> main.label, rev |-> main.rev, asOf |-> main.asOf]
  ELSE [type |-> "init", id |-> main.id, tab |-> main.tab, seq |-> 0, asOf |-> main.asOf]

\* The replies on their way, and their order.
In(s, m) == \E i \in 1..Len(s) : s[i] = m
InOrder(s, m, n) == \E i, j \in 1..Len(s) : i < j /\ s[i] = m /\ s[j] = n
Reply(m) == Dated(m) /\ (In(cont, m) \/ In(wire, m) \/ (Speaks /\ m = Spoken))
Before(m, n) ==
  /\ Dated(m) /\ Dated(n)
  /\ \/ InOrder(cont, m, n)
     \/ In(cont, m) /\ In(wire, n)
     \/ InOrder(wire, m, n)
     \/ Speaks /\ n = Spoken /\ (In(cont, m) \/ In(wire, m))

\* The reply m says that l has revision r.
Tells(m, l, r) == (m.type = "init" /\ r = m.tab[l]) \/ (m.type = "reindex" /\ m.label = l /\ r = m.rev)

\* A revision that was given to l, and that the daemon's own may follow.
Known(l, r) == r \in Nat /\ r <= change + 1 /\ Le(r, table[l])

\* Nothing that is published, served or said is newer than t.
Newest(t) ==
  \A l \in Label :
    /\ Known(l, t[l]) /\ Le(view[l], t[l])
    /\ \A s \in 1..Len(published) : Le(published[s][l], t[l])
    /\ \A m, r : Reply(m) /\ Tells(m, l, r) => Le(r, t[l])

\* What is served and what was published is no newer than the daemon's table.
KnownOK ==
  \A l \in Label :
    Known(l, table[l]) /\ Known(l, view[l]) /\ \A s \in 1..Len(published) : Known(l, published[s][l])

\* What was published later is not older.
LogOK == \A l \in Label : \A s, t \in 1..Len(published) : s < t => Le(published[s][l], published[t][l])

\* A reply lies between the frames before and after it was computed, and is not
\* older than what the client serves if no such frame was applied.
Placed(m) ==
  /\ m.asOf \in 0..enc.seq
  /\ m.type = "init" /\ m.seq # 0 => m.asOf = m.seq
  /\ \A l \in Label : \A r : Tells(m, l, r) =>
       /\ Known(l, r)
       /\ \A s \in 1..Len(published) : IF s <= m.asOf THEN Le(published[s][l], r) ELSE Le(r, published[s][l])
       /\ applied <= m.asOf => Le(view[l], r)
PlacedOK == \A m : Reply(m) => Placed(m)

\* Neither is what is said later.
TurnsOK == \A m, n : Before(m, n) => \A l \in Label : \A r, s : Tells(m, l, r) /\ Tells(n, l, s) => Le(r, s)

\* The numbers on the wire grow; a frame does not take the client back either.
RisingOK ==
  /\ applied <= enc.seq
  /\ \A j \in 1..Len(wire) : Sequenced(wire[j]) => applied < wire[j].seq
  /\ \A i, j \in 1..Len(wire) : i < j /\ Sequenced(wire[i]) /\ Sequenced(wire[j]) => wire[i].seq < wire[j].seq
ComingOK ==
  \A j \in 1..Len(wire) : wire[j].type = "frame" => \A l \in Label : Le(view[l], published[wire[j].seq][l])

\* What a publisher may still write was not overtaken.
HeldOK == \A p \in Publisher : pub[p].step = "ready" /\ pub[p].fresh => Newest(pub[p].tab)

RInv == KnownOK /\ LogOK /\ PlacedOK /\ TurnsOK /\ RisingOK /\ ComingOK /\ HeldOK

\* No reply is new, and none overtakes another.
Fewer == (\A m : Reply(m)' => Reply(m)) /\ \A m, n : Before(m, n)' => Before(m, n)

\* The client moves lines on, and drops some.
LEMMA ClientReplies == ASSUME IInv, Client PROVE Fewer
<1>1. CASE Receive
  <2>1. /\ 1 \in 1..Len(wire) /\ Len(wire') \in Nat
        /\ \A i \in 1..Len(wire') : i + 1 \in 1..Len(wire) /\ wire'[i] = wire[i + 1]
        /\ \A i \in 1..Len(cont') : (i \in 1..Len(cont) /\ cont'[i] = cont[i]) \/ (i = Len(cont) + 1 /\ cont'[i] = wire[1])
        /\ UNCHANGED daemon
    BY <1>1, ReceivedLines
  <2>2. Speaks' = Speaks /\ Spoken' = Spoken
    BY <2>1 DEF daemon, Speaks, Spoken, Replies, Initializes
  <2>3. ASSUME NEW m PROVE (In(wire, m)' => In(wire, m)) /\ (In(cont, m)' => In(cont, m) \/ m = wire[1])
    BY <2>1 DEF In
  <2>4. ASSUME NEW m, NEW n
        PROVE  /\ InOrder(wire, m, n)' => InOrder(wire, m, n)
               /\ m = wire[1] /\ In(wire, n)' => InOrder(wire, m, n)
    <3>1. ASSUME NEW i \in 1..Len(wire'), NEW j \in 1..Len(wire'), i < j PROVE i + 1 < j + 1
      BY <2>1, <3>1
    <3>2. ASSUME NEW j \in 1..Len(wire') PROVE 1 < j + 1
      BY <2>1, <3>1
    <3> QED
      BY <2>1, <3>1, <3>2 DEF InOrder, In
  <2>5. ASSUME NEW m, NEW n, InOrder(cont, m, n)' PROVE InOrder(cont, m, n) \/ (In(cont, m) /\ n = wire[1])
    <3>1. PICK i, j \in 1..Len(cont') : i < j /\ cont'[i] = m /\ cont'[j] = n
      BY <2>5 DEF InOrder
    <3>2. i # Len(cont) + 1
      BY <2>1, <3>1, LinesUnderWay
    <3> QED
      BY <2>1, <3>1, <3>2 DEF InOrder, In
  <2>6. In(wire, wire[1])
    BY <2>1 DEF In
  <2> QED
    BY <2>2, <2>3, <2>4, <2>5, <2>6 DEF Fewer, Reply, Before
<1>2. CASE Continue
  <2>1. /\ Len(cont') \in Nat /\ \A i \in 1..Len(cont') : i + 1 \in 1..Len(cont) /\ cont'[i] = cont[i + 1]
        /\ UNCHANGED <<daemon, wire>>
    BY <1>2, ContinuedLines
  <2>2. Speaks' = Speaks /\ Spoken' = Spoken
    BY <2>1 DEF daemon, Speaks, Spoken, Replies, Initializes
  <2>3. ASSUME NEW m PROVE (In(wire, m)' <=> In(wire, m)) /\ (In(cont, m)' => In(cont, m))
    BY <2>1 DEF In
  <2>4. ASSUME NEW m, NEW n PROVE (InOrder(wire, m, n)' <=> InOrder(wire, m, n)) /\ (InOrder(cont, m, n)' => InOrder(cont, m, n))
    <3>1. ASSUME NEW i \in 1..Len(cont'), NEW j \in 1..Len(cont'), i < j PROVE i + 1 < j + 1
      BY <2>1, <3>1
    <3> QED
      BY <2>1, <3>1 DEF InOrder
  <2> QED
    BY <2>2, <2>3, <2>4 DEF Fewer, Reply, Before
<1>3. CASE Timers
  <2>1. UNCHANGED <<wire, cont, daemon>>
    BY <1>3, TimersLeave
  <2> QED
    BY <2>1 DEF daemon, Fewer, Reply, Before, In, InOrder, Speaks, Spoken, Replies, Initializes
<1> QED
  BY <1>1, <1>2, <1>3 DEF Client, Timers

\* What is continued came before all others.
LEMMA FirstReply ==
  ASSUME IInv, Continue, Dated(Head(cont))
  PROVE  Reply(Head(cont)) /\ \A m : Reply(m)' => Before(Head(cont), m)
<1>1. /\ Len(cont') \in Nat /\ \A i \in 1..Len(cont') : i + 1 \in 1..Len(cont) /\ cont'[i] = cont[i + 1]
      /\ 1 \in 1..Len(cont) /\ cont[1] = Head(cont) /\ UNCHANGED <<daemon, wire>>
  BY ContinuedLines
<1>2. Speaks' = Speaks /\ Spoken' = Spoken
  BY <1>1 DEF daemon, Speaks, Spoken, Replies, Initializes
<1>3. In(cont, Head(cont))
  BY <1>1 DEF In
<1>4. ASSUME NEW m PROVE (In(wire, m)' <=> In(wire, m)) /\ (In(cont, m)' => InOrder(cont, Head(cont), m))
  <2>1. ASSUME NEW j \in 1..Len(cont') PROVE 1 < j + 1
    BY <1>1
  <2> QED
    BY <1>1, <2>1 DEF In, InOrder
<1> QED
  BY <1>2, <1>3, <1>4 DEF Reply, Before

\* The main thread writes what it said it would.
LEMMA SpokenReplies == ASSUME IInv, InitLegacy \/ ReindexReply PROVE Fewer
<1>1. wire' = Append(wire, Spoken) /\ Speaks /\ UNCHANGED cont /\ main' = Idle
  BY DEF InitLegacy, ReindexReply, Spoken, Speaks, Replies, Initializes
<1>2. Spoken \in Lines
  BY <1>1, MainKinds DEF Spoken, Speaks, Replies, Initializes, Lines, Initials, Reindexed, Answering, Replying
<1>3. Grown(wire, wire', Spoken) /\ Len(wire) \in Nat
  BY <1>1, <1>2, Typed, LinesUnderWay
<1>4. ~Speaks'
  BY <1>1, IdleHolds DEF Speaks
<1>5. ASSUME NEW m PROVE (In(wire, m)' => In(wire, m) \/ m = Spoken) /\ (In(cont, m)' <=> In(cont, m))
  BY <1>1, <1>3 DEF Grown, In
<1>6. ASSUME NEW m, NEW n
      PROVE  (InOrder(wire, m, n)' => InOrder(wire, m, n) \/ (In(wire, m) /\ n = Spoken)) /\ (InOrder(cont, m, n)' <=> InOrder(cont, m, n))
  <2>1. InOrder(cont, m, n)' <=> InOrder(cont, m, n)
    BY <1>1 DEF InOrder
  <2>2. ASSUME NEW i \in 1..Len(wire'), NEW j \in 1..Len(wire'), i < j, wire'[i] = m, wire'[j] = n
        PROVE  InOrder(wire, m, n) \/ (In(wire, m) /\ n = Spoken)
    BY <1>3, <2>2 DEF Grown, InOrder, In
  <2> QED
    BY <2>1, <2>2 DEF InOrder
<1> QED
  BY <1>1, <1>4, <1>5, <1>6 DEF Fewer, Reply, Before

\* Becoming stale, or ready, changes no reply.
LEMMA UnmovedReplies ==
  ASSUME IInv, InitPrepare \/ \E p \in Publisher : AdoptTable(p) \/ PubPrepare(p) \/ PubOvertaken(p)
  PROVE  Fewer
<1>1. UNCHANGED <<wire, cont>> /\ Replies' = Replies /\ Initializes' = Initializes
  BY Unmoved
<1>2. Speaks => Spoken' = Spoken
  <2>1. CASE InitPrepare
    BY <1>1, <2>1, MainKinds DEF InitPrepare, Answering, Spoken, Replies
  <2>2. CASE ~InitPrepare
    <3>1. main' = main \/ main' = MainStaled
      BY <2>2 DEF AdoptTable, PubPrepare, PubOvertaken
    <3> QED
      BY <3>1, MainKinds DEF MainStaled, Answering, Spoken, Replies
  <2> QED
    BY <2>1, <2>2
<1> QED
  BY <1>1, <1>2 DEF Fewer, Reply, Before, In, InOrder, Speaks

\* The main thread computes one more.
LEMMA OneMoreReply ==
  ASSUME IInv, HandleInit \/ HandleReindex
  PROVE  /\ Speaks'
         /\ \A m : Reply(m)' => Reply(m) \/ m = Spoken'
         /\ \A m, n : Before(m, n)' => Before(m, n) \/ (Reply(m) /\ n = Spoken')
<1>1. UNCHANGED <<wire, cont>> /\ Speaks'
  BY DEF HandleInit, HandleReindex, Answer, Speaks, Replies, Initializes
<1> QED
  BY <1>1 DEF Reply, Before, In, InOrder

\* A line that is written with a number follows all replies.
LEMMA WrittenReplies ==
  ASSUME IInv, NEW m \in Lines, NEW r \in Resynced, NEW t, Commits(m, r, t)
  PROVE  /\ \A n : Reply(n)' => Reply(n) \/ n = m
         /\ \A k, n : Before(k, n)' => Before(k, n) \/ (Reply(k) /\ n = m)
<1>1. /\ ~Dated(r) /\ cont' = cont /\ Len(wire) \in Nat
      /\ \A i \in 1..Len(wire') :
           \/ i \in 1..Len(wire) /\ wire'[i] = wire[i]
           \/ i = Len(wire) + 1 /\ wire'[i] = m
           \/ i > Len(wire) + 1 /\ wire'[i] = r
  BY CommitsWire, LinesUnderWay DEF Commits
<1>2. Speaks' => Speaks /\ Spoken' = Spoken /\ ~Dated(m)
  <2>1. CASE main' = Idle
    BY <2>1, IdleHolds DEF Speaks
  <2>2. CASE main' # Idle
    <3>1. main' = MainStaled /\ m.type = "frame"
      BY <2>2 DEF Commits, Whole
    <3>2. Speaks' => Speaks /\ Spoken' = Spoken
      BY <3>1, MainKinds DEF MainStaled, Answering, Speaks, Spoken, Replies, Initializes
    <3> QED
      BY <3>1, <3>2 DEF Dated
  <2> QED
    BY <2>1, <2>2
<1>3. ASSUME NEW n, Dated(n) PROVE (In(wire, n)' => In(wire, n) \/ n = m) /\ (In(cont, n)' <=> In(cont, n))
  BY <1>1, <1>3 DEF In
<1>4. ASSUME NEW k, NEW n, Dated(k), Dated(n)
      PROVE  (InOrder(wire, k, n)' => InOrder(wire, k, n) \/ (In(wire, k) /\ n = m)) /\ (InOrder(cont, k, n)' <=> InOrder(cont, k, n))
  <2>1. InOrder(cont, k, n)' <=> InOrder(cont, k, n)
    BY <1>1 DEF InOrder
  <2>2. ASSUME NEW i \in 1..Len(wire'), NEW j \in 1..Len(wire'), i < j, wire'[i] = k, wire'[j] = n
        PROVE  InOrder(wire, k, n) \/ (In(wire, k) /\ n = m)
    <3>1. i \in 1..Len(wire) /\ wire'[i] = wire[i]
      BY <1>1, <1>4, <2>2
    <3> QED
      BY <1>1, <1>4, <2>2, <3>1 DEF InOrder, In
  <2> QED
    BY <2>1, <2>2 DEF InOrder
<1> QED
  BY <1>2, <1>3, <1>4 DEF Reply, Before

\* A bound on what has changed is one on what will have.
LEMMA MoreChanges == \A r, c, d \in Nat : r <= c + 1 /\ c <= d => r <= d + 1
OBVIOUS

\* A new revision is above all that were given.
LEMMA NewRevisions ==
  ASSUME IInv, KnownOK, DaemonStep
  PROVE  /\ \A l \in Label : \A r : Known(l, r) => Known(l, r)'
         /\ \A l \in Label : Known(l, table[l])'
<1>1. /\ table \in Table /\ change \in Nat /\ table' \in Table /\ change' \in Nat /\ change' >= change
      /\ \A l \in Label : \/ table'[l] = table[l] \/ table'[l] = 0
                          \/ table'[l] = change + 2 /\ change' = change + 1
  <2>0. table \in Table /\ change \in Nat /\ (IInv)'
    BY StepInvariant DEF IInv, TableOK, DaemonStep, Next
  <2>1. table' \in Table /\ change' \in Nat
    BY <2>0 DEF IInv, TableOK
  <2>2. ASSUME table' \in Successors
        PROVE  \A l \in Label : table'[l] = table[l] \/ table'[l] = 0 \/ table'[l] = change + 2
    BY <2>0, <2>2 DEF Successors, Revisions, Table
  <2>3. CASE HandleInit
    BY <2>0, <2>1, <2>2, <2>3 DEF HandleInit
  <2>4. CASE HandleReindex
    <3>1. PICK l \in Label \cup {None}, r \in Nat :
            /\ IF l = None THEN table' = table ELSE table' = [table EXCEPT ![l] = r]
            /\ l # None => r \in Revisions
      BY <2>4, ReindexStep
    <3>2. \A k \in Label : table'[k] = table[k] \/ table'[k] = 0 \/ table'[k] = change + 2
      BY <2>0, <3>1 DEF Revisions, Table
    <3>3. change' = change + IF table' = table THEN 0 ELSE 1
      BY <2>4 DEF HandleReindex
    <3>4. CASE table' = table
      BY <2>0, <2>1, <3>3, <3>4
    <3>5. CASE table' # table
      BY <2>0, <2>1, <3>2, <3>3, <3>5
    <3> QED
      BY <3>4, <3>5
  <2>5. ASSUME NEW p \in Publisher, AdoptTable(p)
        PROVE  /\ change' >= change
               /\ \A l \in Label : table'[l] = table[l] \/ table'[l] = 0 \/ (table'[l] = change + 2 /\ change' = change + 1)
    BY <2>0, <2>1, <2>2, <2>5 DEF AdoptTable
  <2>6. CASE Warm
    BY <2>0, <2>1, <2>6 DEF Warm, Empty
  <2>7. CASE UNCHANGED <<table, change>>
    BY <2>0, <2>7
  <2> QED
    BY <2>0, <2>1, <2>3, <2>4, <2>5, <2>6, <2>7 DEF DaemonStep, Main, InitPrepare, InitWrite,
       InitLegacy, ReindexReply, HandleResync, PubPrepare, PubWrite, PubOvertaken
<1>2. ASSUME NEW l \in Label, NEW r, Known(l, r) PROVE Known(l, r)'
  <2>1. table[l] \in Nat /\ table'[l] \in Nat
    BY <1>1 DEF Table
  <2>2. r \in Nat /\ r <= change + 1 /\ (r # 0 /\ table[l] # 0 => r <= table[l])
    BY <1>2 DEF Known, Le
  <2>3. r <= change' + 1
    <3>1. change \in Nat /\ change' \in Nat /\ change <= change'
      BY <1>1
    <3> QED
      BY <2>2, <3>1, MoreChanges
  <2>4. r # 0 /\ table'[l] # 0 => r <= table'[l]
    BY <1>1, <2>1, <2>2
  <2> QED
    BY <2>2, <2>3, <2>4 DEF Known, Le
<1>3. ASSUME NEW l \in Label PROVE Known(l, table[l])'
  <2>1. table[l] \in Nat /\ table'[l] \in Nat /\ table[l] <= change + 1
    BY <1>1 DEF Table, KnownOK, Known
  <2> QED
    BY <1>1, <2>1 DEF Known, Le
<1> QED
  BY <1>2, <1>3

\* The daemon's table is not older than anything.
LEMMA TableIsNewest == ASSUME IInv, KnownOK, PlacedOK PROVE Newest(table)
BY DEF KnownOK, PlacedOK, Placed, Newest, Known

\* Neither is what is published.
LEMMA WritesNewest ==
  ASSUME IInv, FreshOK, RInv, Writes
  PROVE  /\ Len(published') = Len(published) + 1 /\ Len(published) = enc.seq /\ enc.seq \in Nat
         /\ \A s \in 1..Len(published) : published'[s] = published[s]
         /\ Newest(published'[enc.seq + 1])
<1> DEFINE new == published'[enc.seq + 1]
<1>1. PICK m \in Lines, r \in Resynced, t \in Table : Commits(m, r, t)
  BY WritesCommit
<1>2. published \in Seq(Table) /\ published' = Append(published, t) /\ enc.seq = Len(published)
  BY <1>1 DEF Commits, IInv, EncoderOK
<1>3. /\ Len(published') = Len(published) + 1 /\ enc.seq \in Nat
      /\ \A s \in 1..Len(published) : published'[s] = published[s]
      /\ new = t /\ \A x : published' = Append(published, x) => x = new
  BY <1>2
<1> HIDE DEF new
<1>4. Newest(table)
  BY TableIsNewest DEF RInv
<1>5. CASE InitWrite
  <2>1. published' = Append(published, main.tab) /\ main.tab = table
    BY <1>5 DEF InitWrite, Commit, FreshOK, Initializes
  <2> QED
    BY <1>2, <1>3, <1>4, <2>1 DEF new
<1>6. CASE HandleResync
  <2>1. published' = Append(published, table)
    BY <1>6 DEF HandleResync, Commit
  <2> QED
    BY <1>2, <1>3, <1>4, <2>1 DEF new
<1>7. CASE Warm
  <2>1. published' = Append(published, Empty)
    BY <1>7 DEF Warm, Commit
  <2>2. Newest(Empty)
    BY DEF Newest, Empty, Known, Le, IInv, TableOK
  <2> QED
    BY <1>2, <1>3, <2>1, <2>2 DEF new
<1>8. ASSUME NEW p \in Publisher, PubWrite(p) PROVE Newest(new)
  <2>1. published' = Append(published, pub[p].tab) /\ pub[p].step = "ready" /\ pub[p].fresh
    BY <1>8 DEF PubWrite, Commit, StillCurrent
  <2>2. Newest(pub[p].tab)
    BY <2>1 DEF RInv, HeldOK
  <2> QED
    BY <1>2, <1>3, <2>1, <2>2 DEF new
<1> QED
  BY <1>2, <1>3, <1>5, <1>6, <1>7, <1>8 DEF new, Writes

\* Fewer replies, and nothing published or served.
LEMMA RestKeeps ==
  ASSUME IInv, RInv, Fewer, UNCHANGED <<published, view, applied>>, enc'.seq = enc.seq,
         \A l \in Label : \A r : Known(l, r) => Known(l, r)'
  PROVE  /\ LogOK' /\ PlacedOK' /\ TurnsOK'
         /\ \A t : Newest(t) => Newest(t)'
<1>1. LogOK'
  BY DEF RInv, LogOK
<1>2. ASSUME NEW m, Reply(m)' PROVE Placed(m)'
  <2>1. Placed(m)
    BY <1>2 DEF Fewer, RInv, PlacedOK
  <2> QED
    BY <2>1 DEF Placed
<1>3. TurnsOK'
  BY DEF Fewer, RInv, TurnsOK
<1>4. ASSUME NEW t, Newest(t) PROVE Newest(t)'
  BY <1>4 DEF Newest, Fewer
<1> QED
  BY <1>1, <1>2, <1>3, <1>4 DEF PlacedOK

\* The steps of the daemon that give no number and compute no reply.
LEMMA RevisionsBySmallSteps ==
  ASSUME IInv, QInv, RInv,
         InitPrepare \/ InitLegacy \/ ReindexReply \/ \E p \in Publisher : AdoptTable(p) \/ PubPrepare(p) \/ PubOvertaken(p)
  PROVE  RInv'
<1>1. Fewer
  BY SpokenReplies, UnmovedReplies
<1>2. UNCHANGED <<published, view, applied, enc, cont>>
  BY DEF InitPrepare, InitLegacy, ReindexReply, AdoptTable, PubPrepare, PubOvertaken, decoder
<1>3. /\ \A l \in Label : \A r : Known(l, r) => Known(l, r)'
      /\ \A l \in Label : Known(l, table[l])'
  BY NewRevisions DEF RInv, DaemonStep, Main
<1>4. LogOK' /\ PlacedOK' /\ TurnsOK' /\ \A t : Newest(t) => Newest(t)'
  BY <1>1, <1>2, <1>3, RestKeeps
<1>5. KnownOK'
  BY <1>2, <1>3 DEF RInv, KnownOK
<1>6. RisingOK' /\ ComingOK'
  <2>1. CASE UNCHANGED wire
    BY <1>2, <2>1 DEF RInv, RisingOK, ComingOK
  <2>2. CASE InitLegacy \/ ReindexReply
    <3>1. PICK m \in Lines : wire' = Append(wire, m) /\ ~Sequenced(m) /\ m.type # "frame"
      BY <2>2, LegacyLine, ReplyLine DEF Sequenced
    <3>2. \A j \in 1..Len(wire') : (j \in 1..Len(wire) /\ wire'[j] = wire[j]) \/ wire'[j] = m
      BY <3>1, Typed, LinesUnderWay DEF Grown
    <3> QED
      BY <1>2, <3>1, <3>2 DEF RInv, RisingOK, ComingOK
  <2> QED
    BY <2>1, <2>2 DEF InitPrepare, AdoptTable, PubPrepare, PubOvertaken
<1>7. HeldOK'
  <2> SUFFICES ASSUME NEW q \in Publisher, pub'[q].step = "ready", pub'[q].fresh PROVE Newest(pub[q].tab)'
    BY DEF HeldOK
  <2>1. pub \in [Publisher -> Waiting \cup Encoded]
    BY DEF IInv, PubsOK
  <2>2. CASE pub'[q] = pub[q]
    <3>1. Newest(pub[q].tab)
      BY <2>2 DEF RInv, HeldOK
    <3> QED
      BY <1>4, <2>2, <3>1 DEF Newest
  <2>3. ASSUME NEW p \in Publisher, AdoptTable(p) \/ PubPrepare(p) \/ PubOvertaken(p), pub'[q] # pub[q]
        PROVE  Newest(pub[q].tab)'
    <3>1. PubPrepare(p) /\ pub'[q].tab = table
      BY <2>1, <2>3 DEF AdoptTable, PubPrepare, PubOvertaken
    <3>2. Newest(table)
      BY TableIsNewest DEF RInv
    <3> QED
      BY <1>4, <3>1, <3>2 DEF Newest
  <2> QED
    BY <2>2, <2>3 DEF InitPrepare, InitLegacy, ReindexReply
<1> QED
  BY <1>4, <1>5, <1>6, <1>7 DEF RInv

\* A reply is computed: it is not older than anything.
LEMMA RevisionsByComputing ==
  ASSUME IInv, QInv, RInv, HandleInit \/ HandleReindex
  PROVE  RInv'
<1>1. /\ Speaks'
      /\ \A m : Reply(m)' => Reply(m) \/ m = Spoken'
      /\ \A m, n : Before(m, n)' => Before(m, n) \/ (Reply(m) /\ n = Spoken')
  BY OneMoreReply
<1>2. UNCHANGED <<published, view, applied, wire, cont>> /\ enc'.seq = enc.seq /\ enc.seq = Len(published) /\ enc.seq \in Nat
  BY DEF HandleInit, HandleReindex, decoder, Reset, IInv, EncoderOK
<1>3. /\ \A l \in Label : \A r : Known(l, r) => Known(l, r)'
      /\ \A l \in Label : Known(l, table[l])'
  BY NewRevisions DEF RInv, DaemonStep, Main
<1>4. KnownOK'
  BY <1>2, <1>3 DEF RInv, KnownOK
<1>5. LogOK' /\ RisingOK' /\ ComingOK'
  BY <1>2 DEF RInv, LogOK, RisingOK, ComingOK
<1>6. ASSUME NEW l \in Label, NEW r, Tells(Spoken', l, r) PROVE r = table'[l]
  <2>1. CASE HandleInit
    BY <1>6, <2>1 DEF HandleInit, Tells, Spoken, Replies
  <2>2. CASE HandleReindex
    <3>1. PICK k \in Label \cup {None}, x \in Nat :
            /\ main' = [step |-> "reply", id |-> Head(inbox).id, label |-> k, rev |-> x, asOf |-> enc.seq]
            /\ IF k = None THEN table' = table ELSE table' = [table EXCEPT ![k] = x]
      BY <2>2, ReindexStep
    <3>2. Spoken' = [type |-> "reindex", id |-> Head(inbox).id, label |-> k, rev |-> x, asOf |-> enc.seq]
      BY <3>1 DEF Spoken, Replies
    <3>3. k = l /\ x = r /\ l \in Label
      BY <1>6, <3>2 DEF Tells
    <3>4. table \in Table /\ table' = [table EXCEPT ![l] = r]
      BY <3>1, <3>3, TransportBounds DEF IInv, TableOK
    <3> QED
      BY <3>3, <3>4 DEF Table
  <2> QED
    BY <2>1, <2>2
<1>7. Spoken'.asOf = enc.seq /\ (Spoken'.type = "init" => Spoken'.seq = 0)
  BY DEF HandleInit, HandleReindex, Answer, Spoken, Replies
<1>8. ASSUME NEW m, Reply(m)' PROVE Placed(m)'
  <2>1. CASE Reply(m)
    <3>1. Placed(m)
      BY <2>1 DEF RInv, PlacedOK
    <3> QED
      BY <1>2, <1>3, <3>1 DEF Placed
  <2>2. CASE m = Spoken'
    <3>1. ASSUME NEW l \in Label, NEW r, Tells(m, l, r)
          PROVE  /\ Known(l, r)' /\ Le(view[l], r)
                 /\ \A s \in 1..Len(published) : Le(published[s][l], r)
      BY <1>2, <1>3, <1>4, <1>6, <2>2, <3>1 DEF KnownOK, Known
    <3> QED
      BY <1>2, <1>7, <2>2, <3>1 DEF Placed, Tells
  <2> QED
    BY <1>1, <1>8, <2>1, <2>2
<1>9. TurnsOK'
  <2> SUFFICES ASSUME NEW m, NEW n, Before(m, n)', NEW l \in Label, NEW r, NEW s, Tells(m, l, r), Tells(n, l, s) PROVE Le(r, s)
    BY DEF TurnsOK, Tells
  <2>1. CASE Before(m, n)
    BY <2>1 DEF RInv, TurnsOK
  <2>2. CASE Reply(m) /\ n = Spoken'
    <3>1. Known(l, r)
      BY <2>2 DEF RInv, PlacedOK, Placed
    <3>2. s = table'[l] /\ Known(l, r)'
      BY <1>3, <1>6, <2>2, <3>1
    <3> QED
      BY <3>2 DEF Known
  <2> QED
    BY <1>1, <2>1, <2>2
<1>10. HeldOK'
  <2>1. \A q \in Publisher : pub'[q].step = "ready" => ~pub'[q].fresh
    BY StaledStep DEF HandleInit, HandleReindex, Idle
  <2> QED
    BY <2>1 DEF HeldOK
<1> QED
  BY <1>4, <1>5, <1>8, <1>9, <1>10 DEF RInv, PlacedOK

\* A line is written with a number: it is not older than anything.
LEMMA RevisionsByWriting ==
  ASSUME IInv, QInv, RInv, Writes
  PROVE  RInv'
<1> DEFINE new == published'[enc.seq + 1]
<1>1. PICK m \in Lines, r \in Resynced, t \in Table : Commits(m, r, t)
  BY WritesCommit DEF QInv
<1>2. /\ m.seq = enc.seq + 1 /\ enc'.seq = enc.seq + 1 /\ m.type \in {"frame", "init"} /\ Sequenced(m)
      /\ (m.type = "init" => m.asOf = m.seq) /\ UNCHANGED <<view, applied, cont>>
      /\ \A p \in Publisher : pub'[p].step = "ready" => ~pub'[p].fresh
  BY <1>1 DEF Commits, Whole, decoder, Idle, Sequenced, IInv, EncoderOK
<1>3. /\ Len(published') = Len(published) + 1 /\ Len(published) = enc.seq /\ enc.seq \in Nat
      /\ \A s \in 1..Len(published) : published'[s] = published[s]
      /\ Newest(new)
  BY WritesNewest DEF QInv
<1>4. /\ Len(wire) + 1 \in 1..Len(wire') /\ wire'[Len(wire) + 1] = m /\ r.type = "resync" /\ ~Sequenced(r) /\ Len(wire) \in Nat
      /\ \A i \in 1..Len(wire') :
           \/ i \in 1..Len(wire) /\ wire'[i] = wire[i]
           \/ i = Len(wire) + 1
           \/ i > Len(wire) + 1 /\ wire'[i] = r
  BY <1>1, CommitsWire, LinesUnderWay
<1>5. m.type = "init" => m.tab = new
  <2>1. IInv'
    BY StepInvariant DEF Writes, Next, Main
  <2>2. Sound(m, published)'
    BY <1>4, <2>1 DEF IInv, LinesOK, AllSound
  <2> QED
    BY <1>2, <1>3, <2>2 DEF Sound
<1> HIDE DEF new
<1>6. \A l \in Label : \A x : Tells(m, l, x) => x = new[l]
  BY <1>2, <1>5 DEF Tells
<1>7. /\ \A l \in Label : \A x : Known(l, x) => Known(l, x)'
      /\ \A l \in Label : Known(l, table[l])'
  BY NewRevisions DEF RInv, Writes, DaemonStep, Main
<1>8. /\ \A n : Reply(n)' => Reply(n) \/ n = m
      /\ \A k, n : Before(k, n)' => Before(k, n) \/ (Reply(k) /\ n = m)
  BY <1>1, WrittenReplies
<1>9. \A s \in 1..Len(published') : (s \in 1..Len(published) /\ published'[s] = published[s]) \/ (s = enc.seq + 1 /\ published'[s] = new)
  <2>1. ASSUME NEW s \in 1..Len(published') PROVE s \in 1..Len(published) \/ s = enc.seq + 1
    BY <1>3
  <2> QED
    BY <1>3, <2>1 DEF new
<1>10. KnownOK'
  BY <1>2, <1>3, <1>7, <1>9 DEF RInv, KnownOK, Newest
<1>11. LogOK'
  <2> SUFFICES ASSUME NEW l \in Label, NEW s \in 1..Len(published'), NEW u \in 1..Len(published'), s < u
               PROVE  Le(published'[s][l], published'[u][l])
    BY DEF LogOK
  <2>1. s \in 1..Len(published) /\ published'[s] = published[s]
    BY <1>3, <1>9
  <2> QED
    BY <1>3, <1>9, <2>1 DEF RInv, LogOK, Newest
<1>12. ASSUME NEW n, Reply(n)' PROVE Placed(n)'
  <2>1. CASE Reply(n)
    <3>1. Placed(n)
      BY <2>1 DEF RInv, PlacedOK
    <3>2. n.asOf \in 0..enc.seq /\ n.asOf \in 0..enc'.seq
      BY <1>2, <1>3, <3>1 DEF Placed
    <3>3. ASSUME NEW l \in Label, NEW x, Tells(n, l, x), NEW s \in 1..Len(published')
          PROVE  IF s <= n.asOf THEN Le(published'[s][l], x) ELSE Le(x, published'[s][l])
      <4>1. CASE s = enc.seq + 1
        BY <1>3, <1>9, <2>1, <3>2, <3>3, <4>1 DEF Newest
      <4>2. CASE s # enc.seq + 1
        BY <1>9, <3>1, <3>3, <4>2 DEF Placed
      <4> QED
        BY <4>1, <4>2
    <3> QED
      BY <1>2, <1>7, <3>1, <3>2, <3>3 DEF Placed
  <2>2. CASE n = m
    <3>1. m.type = "init" /\ m.asOf = enc.seq + 1
      BY <1>2, <1>12, <2>2 DEF Reply, Dated
    <3>2. ASSUME NEW l \in Label, NEW x, Tells(m, l, x)
          PROVE  /\ Known(l, x)' /\ Le(view[l], x)
                 /\ \A s \in 1..Len(published') : s <= enc.seq + 1 /\ Le(published'[s][l], x)
      <4>1. x = new[l] /\ Known(l, x) /\ Le(view[l], x)
        BY <1>3, <1>6, <3>2 DEF Newest
      <4>2. Le(x, x)
        BY <4>1 DEF Known, Le
      <4> QED
        BY <1>3, <1>7, <1>9, <4>1, <4>2 DEF Newest
    <3>3. m.asOf \in 0..enc'.seq
      BY <1>2, <1>3, <3>1
    <3> QED
      BY <1>2, <2>2, <3>1, <3>2, <3>3 DEF Placed, Tells
  <2> QED
    BY <1>8, <1>12, <2>1, <2>2
<1>13. TurnsOK'
  <2> SUFFICES ASSUME NEW k, NEW n, Before(k, n)', NEW l \in Label, NEW x, NEW y, Tells(k, l, x), Tells(n, l, y) PROVE Le(x, y)
    BY DEF TurnsOK, Tells
  <2>1. CASE Before(k, n)
    BY <2>1 DEF RInv, TurnsOK
  <2>2. CASE Reply(k) /\ n = m
    BY <1>3, <1>6, <2>2 DEF Newest
  <2> QED
    BY <1>8, <2>1, <2>2
<1>14. \A i \in 1..Len(wire) : Sequenced(wire[i]) => wire[i].seq \in 1..enc.seq
  BY LinesUnderWay, LineFacts
<1>15. RisingOK' /\ ComingOK'
  <2>1. applied <= enc.seq /\ applied \in Nat
    BY DEF RInv, RisingOK, IInv, BaseOK
  <2>2. \A i, j \in 1..Len(wire') : i < j /\ Sequenced(wire'[i]) /\ Sequenced(wire'[j]) => wire'[i].seq < wire'[j].seq
    BY <1>2, <1>3, <1>4, <1>14 DEF RInv, RisingOK
  <2>3. \A j \in 1..Len(wire') : Sequenced(wire'[j]) => applied < wire'[j].seq
    BY <1>2, <1>3, <1>4, <2>1 DEF RInv, RisingOK
  <2>4. applied <= enc'.seq
    BY <1>2, <1>3, <2>1
  <2>5. ASSUME NEW j \in 1..Len(wire'), wire'[j].type = "frame", NEW l \in Label PROVE Le(view[l], published'[wire'[j].seq][l])
    <3>1. CASE wire'[j] = m
      BY <1>2, <1>3, <3>1 DEF Newest, new
    <3>2. CASE j \in 1..Len(wire) /\ wire'[j] = wire[j]
      <4>1. wire[j].seq \in 1..Len(published)
        BY <1>3, <1>14, <2>5, <3>2, LinesUnderWay, LineFacts
      <4> QED
        BY <1>3, <2>5, <3>2, <4>1 DEF RInv, ComingOK
    <3> QED
      BY <1>4, <2>5, <3>1, <3>2
  <2> QED
    BY <1>2, <2>2, <2>3, <2>4, <2>5 DEF RisingOK, ComingOK
<1> QED
  BY <1>2, <1>10, <1>11, <1>12, <1>13, <1>15 DEF RInv, PlacedOK, HeldOK

\* The client may serve the table v, at the sequence a: it is not newer than
\* what is still to come.
Serves(v, a) ==
  \A l \in Label :
    /\ Known(l, v[l])
    /\ \A m, r : Reply(m)' /\ Tells(m, l, r) /\ a <= m.asOf => Le(v[l], r)
    /\ \A p \in Publisher : pub[p].step = "ready" /\ pub[p].fresh => Le(v[l], pub[p].tab[l])
    /\ \A j \in 1..Len(wire') : wire'[j].type = "frame" => Le(v[l], published[wire'[j].seq][l])

\* What the client has left of the wire.
LEMMA WireShrinks ==
  ASSUME IInv, Client
  PROVE  /\ UNCHANGED daemon
         /\ \/ UNCHANGED wire
            \/ /\ wire # <<>> /\ wire' = Tail(wire) /\ 1 \in 1..Len(wire) /\ wire[1] = Head(wire) /\ Len(wire') \in Nat
               /\ \A i \in 1..Len(wire') : i + 1 \in 1..Len(wire) /\ 1 < i + 1 /\ wire'[i] = wire[i + 1]
<1>1. CASE Receive
  <2>1. /\ UNCHANGED daemon /\ 1 \in 1..Len(wire) /\ wire[1] = Head(wire) /\ Len(wire') \in Nat
        /\ \A i \in 1..Len(wire') : i + 1 \in 1..Len(wire) /\ wire'[i] = wire[i + 1]
    BY <1>1, ReceivedLines
  <2>2. \A i \in 1..Len(wire') : 1 < i + 1
    BY <2>1
  <2> QED
    BY <1>1, <2>1, <2>2 DEF Receive, HandleFrame, HandleReply
<1>2. CASE Continue
  BY <1>2, ContinuedLines
<1>3. CASE Timers
  BY <1>3, TimersLeave
<1> QED
  BY <1>1, <1>2, <1>3 DEF Client, Timers

\* So a step of the client keeps the invariant.
LEMMA ServingKeeps ==
  ASSUME IInv, RInv, Client, Serves(view', applied'), applied' <= enc.seq,
         \A j \in 1..Len(wire') : Sequenced(wire'[j]) => applied' < wire'[j].seq
  PROVE  RInv'
<1>1. Fewer /\ UNCHANGED <<table, change, published, enc, pub>>
  BY ClientReplies, WireShrinks DEF daemon
<1>2. KnownOK' /\ LogOK' /\ TurnsOK'
  BY <1>1 DEF RInv, KnownOK, LogOK, TurnsOK, Fewer, Serves, Known
<1>3. ASSUME NEW m, Reply(m)' PROVE Placed(m)'
  <2>1. Placed(m)
    BY <1>1, <1>3 DEF RInv, PlacedOK, Fewer
  <2> QED
    BY <1>1, <1>3, <2>1 DEF Placed, Serves, Known
<1>4. RisingOK'
  <2>1. \A i, j \in 1..Len(wire') : i < j /\ Sequenced(wire'[i]) /\ Sequenced(wire'[j]) => wire'[i].seq < wire'[j].seq
    <3>1. CASE UNCHANGED wire
      BY <3>1 DEF RInv, RisingOK
    <3>2. ASSUME NEW i \in 1..Len(wire'), NEW j \in 1..Len(wire'), i < j, Len(wire') \in Nat PROVE i + 1 < j + 1
      BY <3>2
    <3> QED
      BY <3>1, <3>2, WireShrinks DEF RInv, RisingOK
  <2> QED
    BY <1>1, <2>1 DEF RisingOK
<1>5. ComingOK'
  BY <1>1 DEF Serves, ComingOK
<1>6. HeldOK'
  <2> SUFFICES ASSUME NEW p \in Publisher, pub'[p].step = "ready", pub'[p].fresh PROVE Newest(pub[p].tab)'
    BY DEF HeldOK
  <2>1. Newest(pub[p].tab)
    BY <1>1 DEF RInv, HeldOK
  <2> QED
    BY <1>1, <2>1 DEF Newest, Serves, Known, Fewer
<1> QED
  BY <1>2, <1>3, <1>4, <1>5, <1>6 DEF RInv, PlacedOK

\* What the client served, it may still serve.
LEMMA ServesStill ==
  ASSUME IInv, RInv, Client
  PROVE  /\ Serves(view, applied) /\ applied <= enc.seq
         /\ \A j \in 1..Len(wire') : Sequenced(wire'[j]) => applied < wire'[j].seq
<1>1. Fewer
  BY ClientReplies
<1>2. \A j \in 1..Len(wire') : \E i \in 1..Len(wire) : wire'[j] = wire[i]
  BY WireShrinks
<1>3. ASSUME NEW l \in Label
      PROVE  /\ Known(l, view[l])
             /\ \A m, r : Reply(m)' /\ Tells(m, l, r) /\ applied <= m.asOf => Le(view[l], r)
             /\ \A p \in Publisher : pub[p].step = "ready" /\ pub[p].fresh => Le(view[l], pub[p].tab[l])
  BY <1>1 DEF RInv, KnownOK, Fewer, PlacedOK, Placed, HeldOK, Newest
<1>4. ASSUME NEW l \in Label, NEW j \in 1..Len(wire'), wire'[j].type = "frame" PROVE Le(view[l], published[wire'[j].seq][l])
  BY <1>2, <1>4 DEF RInv, ComingOK
<1> QED
  BY <1>2, <1>3, <1>4 DEF Serves, RInv, RisingOK

\* A frame is applied.
LEMMA ServesFrame ==
  ASSUME IInv, RInv, HandleFrame, applied' # applied \/ view' # view \/ behind' # behind
  PROVE  /\ applied' = Head(wire).seq /\ applied' \in applied + 1 .. enc.seq /\ ~behind'
         /\ view' = published[applied'] /\ \A l \in Label : Le(view[l], view'[l])
         /\ Serves(view', applied')
         /\ \A j \in 1..Len(wire') : Sequenced(wire'[j]) => applied' < wire'[j].seq
<1> DEFINE f == Head(wire)
<1>1. Client /\ f.type = "frame"
  BY DEF Client, Receive, HandleFrame
<1>2. applied' = f.seq /\ view' = published[f.seq] /\ f.seq \in 1..Len(published) /\ ~behind'
  BY RebuiltIsPublished DEF HandleFrame, decoder
<1>3. /\ 1 \in 1..Len(wire) /\ wire[1] = f
      /\ \A i \in 1..Len(wire') : i + 1 \in 1..Len(wire) /\ 1 < i + 1 /\ wire'[i] = wire[i + 1]
  <2>1. /\ 1 \in 1..Len(wire) /\ wire[1] = f /\ Len(wire') \in Nat
        /\ \A i \in 1..Len(wire') : i + 1 \in 1..Len(wire) /\ wire'[i] = wire[i + 1]
    BY ReceivedLines DEF Receive
  <2>2. \A i \in 1..Len(wire') : 1 < i + 1
    BY <2>1
  <2> QED
    BY <2>1, <2>2
<1>4. Fewer /\ enc.seq = Len(published) /\ enc.seq \in Nat /\ Sequenced(f) /\ applied \in Nat
  BY <1>1, <1>3, ClientReplies, LinesUnderWay, LineFacts DEF IInv, EncoderOK, BaseOK
<1>5. \A j \in 1..Len(wire') : Sequenced(wire'[j]) => wire'[j].seq \in 1..enc.seq /\ f.seq < wire'[j].seq
  <2>1. \A i \in 1..Len(wire) : Sequenced(wire[i]) => wire[i].seq \in 1..enc.seq
    BY LinesUnderWay, LineFacts
  <2> QED
    BY <1>3, <1>4, <2>1 DEF RInv, RisingOK
<1>6. applied < f.seq /\ \A l \in Label : Le(view[l], view'[l])
  BY <1>1, <1>2, <1>3, <1>4 DEF RInv, RisingOK, ComingOK
<1>7. Serves(published[f.seq], f.seq)
  <2>1. ASSUME NEW l \in Label
        PROVE  /\ Known(l, published[f.seq][l])
               /\ \A p \in Publisher : pub[p].step = "ready" /\ pub[p].fresh => Le(published[f.seq][l], pub[p].tab[l])
    BY <1>2 DEF RInv, KnownOK, HeldOK, Newest
  <2>2. ASSUME NEW l \in Label, NEW m, NEW r, Reply(m)', Tells(m, l, r), f.seq <= m.asOf PROVE Le(published[f.seq][l], r)
    <3>1. Placed(m)
      BY <1>4, <2>2 DEF Fewer, RInv, PlacedOK
    <3> QED
      BY <1>2, <2>2, <3>1 DEF Placed
  <2>3. ASSUME NEW l \in Label, NEW j \in 1..Len(wire'), wire'[j].type = "frame"
        PROVE  Le(published[f.seq][l], published[wire'[j].seq][l])
    <3>1. Sequenced(wire'[j])
      BY <1>3, <2>3, LinesUnderWay, LineFacts
    <3> QED
      BY <1>2, <1>4, <1>5, <3>1 DEF RInv, LogOK
  <2> QED
    BY <2>1, <2>2, <2>3 DEF Serves
<1>8. f.seq \in applied + 1 .. enc.seq
  BY <1>2, <1>4, <1>6
<1> QED
  BY <1>2, <1>5, <1>6, <1>7, <1>8

\* What is known of the reply that is continued.
LEMMA ContinuedReply ==
  ASSUME IInv, QInv, RInv, Continue, Dated(Head(cont))
  PROVE  /\ Client /\ Head(cont) \in Lines /\ Sound(Head(cont), published) /\ Placed(Head(cont)) /\ wire' = wire
         /\ enc.seq = Len(published) /\ enc.seq \in Nat /\ applied \in 0..enc.seq
         /\ \A j \in 1..Len(wire) : Sequenced(wire[j]) => wire[j].seq \in 1..enc.seq /\ Head(cont).asOf < wire[j].seq
         /\ \A l \in Label : \A r : Tells(Head(cont), l, r) =>
              /\ \A m, s : Reply(m)' /\ Tells(m, l, s) => Le(r, s)
              /\ \A p \in Publisher : pub[p].step = "ready" /\ pub[p].fresh => Le(r, pub[p].tab[l])
              /\ \A j \in 1..Len(wire) : wire[j].type = "frame" => Le(r, published[wire[j].seq][l])
<1> DEFINE m0 == Head(cont)
<1>1. 1 \in 1..Len(cont) /\ cont[1] = m0 /\ wire' = wire /\ m0 \in Lines /\ Client
  BY ContinuedLines DEF Client
<1>2. Reply(m0) /\ \A m : Reply(m)' => Before(m0, m)
  BY FirstReply
<1>3. Placed(m0) /\ Sound(m0, published)
  BY <1>1, <1>2, LinesUnderWay DEF RInv, PlacedOK
<1>4. enc.seq = Len(published) /\ enc.seq \in Nat /\ applied \in 0..enc.seq
  BY DEF IInv, EncoderOK, BaseOK, RInv, RisingOK
<1>5. \A j \in 1..Len(wire) : Sequenced(wire[j]) => wire[j].seq \in 1..enc.seq /\ m0.asOf < wire[j].seq
  <2>1. ASSUME NEW j \in 1..Len(wire), Sequenced(wire[j]) PROVE wire[j].seq \in 1..enc.seq /\ m0.asOf < wire[j].seq
    <3>1. wire[j].seq \in 1..enc.seq
      BY <2>1, LinesUnderWay, LineFacts
    <3>2. wire[j].seq > cont[1].asOf
      BY <1>1, <2>1 DEF QInv, OrderOK
    <3>3. m0.asOf \in 0..enc.seq
      BY <1>3 DEF Placed
    <3> QED
      BY <1>1, <1>4, <3>1, <3>2, <3>3
  <2> QED
    BY <2>1
<1> HIDE DEF m0
<1>6. ASSUME NEW l \in Label, NEW r, Tells(m0, l, r)
      PROVE  /\ \A m, s : Reply(m)' /\ Tells(m, l, s) => Le(r, s)
             /\ \A p \in Publisher : pub[p].step = "ready" /\ pub[p].fresh => Le(r, pub[p].tab[l])
             /\ \A j \in 1..Len(wire) : wire[j].type = "frame" => Le(r, published[wire[j].seq][l])
  <2>1. \A m, s : Reply(m)' /\ Tells(m, l, s) => Le(r, s)
    BY <1>2, <1>6 DEF RInv, TurnsOK
  <2>2. \A p \in Publisher : pub[p].step = "ready" /\ pub[p].fresh => Le(r, pub[p].tab[l])
    BY <1>2, <1>6 DEF RInv, HeldOK, Newest
  <2>3. ASSUME NEW j \in 1..Len(wire), wire[j].type = "frame" PROVE Le(r, published[wire[j].seq][l])
    <3>1. wire[j].seq \in 1..Len(published) /\ m0.asOf < wire[j].seq
      BY <1>4, <1>5, <2>3, LinesUnderWay, LineFacts
    <3>2. m0.asOf \in 0..enc.seq
      BY <1>3 DEF Placed
    <3>3. ~(wire[j].seq <= m0.asOf)
      BY <1>4, <3>1, <3>2
    <3> QED
      BY <1>3, <1>6, <3>1, <3>3 DEF Placed
  <2> QED
    BY <2>1, <2>2, <2>3
<1> QED
  BY <1>1, <1>3, <1>4, <1>5, <1>6 DEF m0

\* The answer to an initialize is adopted.
LEMMA ServesInit ==
  ASSUME IInv, QInv, RInv, AdoptInit
  PROVE  /\ applied' \in applied..enc.seq
         /\ applied' > applied => view' = published[applied']
         /\ view' \in Table /\ behind' \in BOOLEAN
         /\ Serves(view', applied')
         /\ \A j \in 1..Len(wire') : Sequenced(wire'[j]) => applied' < wire'[j].seq
         /\ ~behind' => \A l \in Label : Le(view[l], view'[l]) /\ \A s \in 1..applied' : Le(published[s][l], view'[l])
<1> DEFINE m0 == Head(cont)
<1>1. /\ m0.type = "init" /\ Dated(m0) /\ Continue
      /\ view' = m0.tab /\ applied' = (IF m0.seq > applied THEN m0.seq ELSE applied) /\ behind' = (applied > m0.asOf)
  BY DEF AdoptInit, Dated, Continue
<1>2. /\ Client /\ m0 \in Lines /\ Sound(m0, published) /\ Placed(m0) /\ wire' = wire
      /\ enc.seq = Len(published) /\ enc.seq \in Nat /\ applied \in 0..enc.seq
      /\ \A j \in 1..Len(wire) : Sequenced(wire[j]) => wire[j].seq \in 1..enc.seq /\ m0.asOf < wire[j].seq
      /\ \A l \in Label : \A r : Tells(m0, l, r) =>
           /\ \A m, s : Reply(m)' /\ Tells(m, l, s) => Le(r, s)
           /\ \A p \in Publisher : pub[p].step = "ready" /\ pub[p].fresh => Le(r, pub[p].tab[l])
           /\ \A j \in 1..Len(wire) : wire[j].type = "frame" => Le(r, published[wire[j].seq][l])
  BY <1>1, ContinuedReply
<1>3. m0.tab \in Table /\ m0.seq \in Nat
  BY <1>1, <1>2, LineKinds DEF Initials
<1> HIDE DEF m0
<1>4. \A l \in Label : Tells(m0, l, view'[l])
  BY <1>1 DEF Tells
<1>5. Serves(view', applied')
  BY <1>2, <1>4 DEF Serves, Placed
<1>6. /\ m0.asOf \in 0..enc.seq /\ (m0.seq # 0 => m0.asOf = m0.seq /\ m0.tab = published[m0.seq])
      /\ \A l \in Label : /\ applied <= m0.asOf => Le(view[l], view'[l])
                          /\ \A s \in 1..Len(published) : s <= m0.asOf => Le(published[s][l], view'[l])
  BY <1>1, <1>2, <1>4 DEF Placed, Sound
<1>7. /\ applied' \in applied..enc.seq
      /\ applied' > applied => view' = published[applied']
      /\ \A j \in 1..Len(wire') : Sequenced(wire'[j]) => applied' < wire'[j].seq
  <2>1. CASE m0.seq > applied
    BY <1>1, <1>2, <1>3, <1>6, <2>1
  <2>2. CASE ~(m0.seq > applied)
    <3>1. applied' = applied
      BY <1>1, <2>2
    <3> QED
      BY <1>2, <3>1 DEF RInv, RisingOK
  <2> QED
    BY <2>1, <2>2
<1>8. ASSUME ~behind', NEW l \in Label PROVE Le(view[l], view'[l]) /\ \A s \in 1..applied' : Le(published[s][l], view'[l])
  <2>1. applied <= m0.asOf
    <3>1. ~(applied > m0.asOf)
      BY <1>1, <1>8, Zenon
    <3> QED
      BY <1>2, <1>6, <3>1
  <2>2. applied' <= m0.asOf /\ applied' \in 0..Len(published)
    BY <1>1, <1>2, <1>3, <1>6, <2>1
  <2>3. \A s \in 1..applied' : s \in 1..Len(published) /\ s <= m0.asOf
    BY <1>2, <1>6, <2>2
  <2> QED
    BY <1>6, <2>1, <2>3
<1> QED
  BY <1>1, <1>3, <1>5, <1>7, <1>8

\* A reindex is adopted.
LEMMA ServesReindex ==
  ASSUME IInv, QInv, RInv, AdoptReindex, view' # view \/ behind' # behind
  PROVE  /\ applied' = applied /\ behind' \in BOOLEAN /\ (behind => behind')
         /\ Serves(view', applied')
         /\ \E l \in Label :
              /\ view' = [view EXCEPT ![l] = view'[l]] /\ view' \in Table /\ Known(l, view'[l])
              /\ ~behind' => Le(view[l], view'[l]) /\ \A s \in 1..applied : Le(published[s][l], view'[l])
<1> DEFINE m0 == Head(cont)
<1>1. /\ m0.type = "reindex" /\ Dated(m0) /\ Continue /\ applied' = applied
      /\ view' = [view EXCEPT ![m0.label] = m0.rev] /\ behind' = (behind \/ applied > m0.asOf)
      /\ m0.label # None
  BY DEF AdoptReindex, Dated, Continue, decoder
<1>2. /\ Client /\ m0 \in Lines /\ Placed(m0) /\ wire' = wire
      /\ enc.seq = Len(published) /\ enc.seq \in Nat /\ applied \in 0..enc.seq
      /\ \A l \in Label : \A r : Tells(m0, l, r) =>
           /\ \A m, s : Reply(m)' /\ Tells(m, l, s) => Le(r, s)
           /\ \A p \in Publisher : pub[p].step = "ready" /\ pub[p].fresh => Le(r, pub[p].tab[l])
           /\ \A j \in 1..Len(wire) : wire[j].type = "frame" => Le(r, published[wire[j].seq][l])
  BY <1>1, ContinuedReply
<1>3. m0.label \in Label /\ m0.rev \in Nat
  BY <1>1, <1>2, LineKinds DEF Reindexed
<1> HIDE DEF m0
<1>4. view \in Table /\ behind \in BOOLEAN
  BY DEF QInv, ControlOK
<1>5. /\ view' \in Table /\ view'[m0.label] = m0.rev /\ \A l \in Label : l # m0.label => view'[l] = view[l]
      /\ view' = [view EXCEPT ![m0.label] = view'[m0.label]]
  BY <1>1, <1>3, <1>4 DEF Table
<1>6. Tells(m0, m0.label, m0.rev)
  BY <1>1 DEF Tells
<1>7. Serves(view', applied')
  <2>1. Serves(view, applied)
    BY <1>2, ServesStill
  <2> QED
    BY <1>1, <1>2, <1>5, <1>6, <2>1 DEF Serves, Placed
<1>8. Known(m0.label, m0.rev) /\ m0.asOf \in 0..enc.seq
  BY <1>2, <1>3, <1>6 DEF Placed
<1>9. ASSUME ~behind' PROVE Le(view[m0.label], m0.rev) /\ \A s \in 1..applied : Le(published[s][m0.label], m0.rev)
  <2>1. applied <= m0.asOf
    <3>1. ~(applied > m0.asOf)
      BY <1>1, <1>9, Zenon
    <3> QED
      BY <1>2, <1>8, <3>1
  <2>2. \A s \in 1..applied : s \in 1..Len(published) /\ s <= m0.asOf
    BY <1>2, <1>8, <2>1
  <2> QED
    BY <1>2, <1>3, <1>6, <2>1, <2>2 DEF Placed
<1> QED
  BY <1>1, <1>3, <1>4, <1>5, <1>7, <1>8, <1>9

\* The client's steps keep the invariant.
LEMMA RevisionsByClient == ASSUME IInv, QInv, RInv, Client PROVE RInv'
<1>1. /\ Serves(view, applied) /\ applied <= enc.seq
      /\ \A j \in 1..Len(wire') : Sequenced(wire'[j]) => applied < wire'[j].seq
  BY ServesStill
<1>2. CASE UNCHANGED <<view, applied>>
  BY <1>1, <1>2, ServingKeeps
<1>3. CASE HandleFrame /\ (applied' # applied \/ view' # view)
  <2>1. /\ Serves(view', applied') /\ applied' \in applied + 1 .. enc.seq
        /\ \A j \in 1..Len(wire') : Sequenced(wire'[j]) => applied' < wire'[j].seq
    BY <1>3, ServesFrame
  <2>2. applied' <= enc.seq
    BY <2>1 DEF IInv, EncoderOK, BaseOK
  <2> QED
    BY <2>1, <2>2, ServingKeeps
<1>4. CASE AdoptInit
  <2>1. /\ Serves(view', applied') /\ applied' \in applied..enc.seq
        /\ \A j \in 1..Len(wire') : Sequenced(wire'[j]) => applied' < wire'[j].seq
    BY <1>4, ServesInit
  <2>2. applied' <= enc.seq
    BY <2>1 DEF IInv, EncoderOK, BaseOK
  <2> QED
    BY <2>1, <2>2, ServingKeeps
<1>5. CASE AdoptReindex /\ view' # view
  <2>1. Serves(view', applied') /\ applied' = applied
    BY <1>5, ServesReindex
  <2> QED
    BY <1>1, <2>1, ServingKeeps
<1>6. HandleReply \/ ResyncDone \/ Timers => UNCHANGED <<view, applied>>
  BY TimersLeave DEF HandleReply, ResyncDone, decoder
<1>7. AdoptReindex => applied' = applied
  BY DEF AdoptReindex
<1> QED
  BY <1>2, <1>3, <1>4, <1>5, <1>6, <1>7 DEF Client, Receive, Continue, Timers

\* The first answer says what the daemon has.
LEMMA InitRevisions == Init => RInv
<1> SUFFICES ASSUME Init PROVE RInv
  OBVIOUS
<1>1. /\ published = <<>> /\ wire = <<>> /\ cont = <<>> /\ change = 0 /\ applied = 0 /\ enc.seq = 0
      /\ \A l \in Label : table[l] = 1 /\ view[l] = 0
      /\ \A p \in Publisher : pub[p].step # "ready"
      /\ Replies = FALSE /\ main.tab = table /\ main.asOf = 0
  BY DEF Init, Empty, Idle, Replies
<1>2. KnownOK /\ LogOK /\ RisingOK /\ ComingOK /\ HeldOK
  BY <1>1 DEF KnownOK, Known, Le, LogOK, RisingOK, ComingOK, HeldOK
<1>3. \A m : Reply(m) => m = Spoken
  BY <1>1 DEF Reply, In
<1>4. Spoken.type = "init" /\ Spoken.seq = 0 /\ Spoken.asOf = 0 /\ Spoken.tab = table
  BY <1>1 DEF Spoken
<1>5. PlacedOK
  BY <1>1, <1>3, <1>4 DEF PlacedOK, Placed, Tells, Known, Le
<1>6. TurnsOK
  BY <1>1 DEF TurnsOK, Before, In, InOrder
<1> QED
  BY <1>2, <1>5, <1>6 DEF RInv

\* Every step keeps the invariant.
LEMMA StepRevisions == IInv /\ QInv /\ RInv /\ [Next]_vars => RInv'
<1> SUFFICES ASSUME IInv, QInv, RInv, [Next]_vars PROVE RInv'
  OBVIOUS
<1>1. CASE UNCHANGED vars
  BY <1>1 DEF vars, daemon, decoder, asking, control, bounds, RInv, KnownOK, LogOK, PlacedOK, TurnsOK, RisingOK, ComingOK,
       HeldOK, Known, Newest, Placed, Reply, Before, In, InOrder, Speaks, Spoken, Replies, Initializes
<1> QED
  BY <1>1, RevisionsByClient, RevisionsByWriting, RevisionsByComputing, RevisionsBySmallSteps DEF Next, Main, Writes, Client

-----------------------------------------------------------------------------
(* The steps of TableReplica.                                              *)

\* Nothing that is newest would take the client back.
LEMMA NewestIsLatest ==
  ASSUME RInv, NEW t \in Table, Newest(t)
  PROVE  Replica!Latest(t) /\ Replica!NotAfter(t, table)
BY DEF Newest, Known, Le, Table, Replica!Latest, Replica!NotAfter, Replica!Since, Replica!Follows, Replica!Table

\* The daemon's steps publish, change the table, or do neither.
LEMMA DaemonRefines ==
  ASSUME IInv, QInv, RInv, DaemonStep
  PROVE  Replica!Change \/ Replica!Publish \/ UNCHANGED <<table, published, view, applied, behind>>
<1>0. UNCHANGED <<view, applied, behind>>
  BY DEF DaemonStep, Main, HandleInit, InitPrepare, InitWrite, InitLegacy, HandleReindex, ReindexReply, HandleResync,
       AdoptTable, Warm, PubPrepare, PubWrite, PubOvertaken, decoder
<1>1. IInv' /\ RInv'
  BY StepInvariant, StepRevisions DEF DaemonStep, Next
<1>2. table \in Table /\ table' \in Table /\ published \in Seq(Table) /\ published' \in Seq(Table)
  BY <1>1 DEF IInv, TableOK, EncoderOK
<1>3. \A l \in Label : \A r : Known(l, r) => Le(r, table'[l])
  <2>1. \A l \in Label : \A r : Known(l, r) => Known(l, r)'
    BY NewRevisions DEF RInv
  <2> QED
    BY <2>1 DEF Known
<1>4. Replica!NotAfter(table, table') /\ Replica!Latest(table')
  BY <1>2, <1>3 DEF RInv, KnownOK, Le, Table, Replica!Latest, Replica!NotAfter, Replica!Since, Replica!Follows, Replica!Table
<1>5. CASE UNCHANGED published
  BY <1>0, <1>4, <1>5 DEF Replica!Change
<1>6. CASE Warm
  <2>1. published' = Append(published, table')
    BY <1>6 DEF Warm, Commit
  <2> QED
    BY <1>0, <1>4, <2>1 DEF Replica!Change
<1>7. CASE Writes /\ ~Warm
  <2> DEFINE new == published'[Len(published) + 1]
  <2>1. Len(published') = Len(published) + 1 /\ Newest(new) /\ \A s \in 1..Len(published) : published'[s] = published[s]
    BY <1>7, WritesNewest DEF QInv
  <2>2. published' = Append(published, new) /\ new \in Table
    BY <1>2, <2>1
  <2>3. UNCHANGED table
    BY <1>7 DEF Writes, InitWrite, HandleResync, PubWrite
  <2> HIDE DEF new
  <2>4. Replica!Latest(new) /\ Replica!NotAfter(new, table)
    BY <2>1, <2>2, NewestIsLatest
  <2> QED
    BY <1>0, <2>1, <2>2, <2>3, <2>4 DEF Replica!Publish, new
<1> QED
  BY <1>5, <1>6, <1>7 DEF DaemonStep, Main, Writes, HandleInit, InitPrepare, InitLegacy, HandleReindex, ReindexReply,
       AdoptTable, PubPrepare, PubOvertaken

\* The client's steps take a frame, an answer or a label, ignore an answer, or
\* leave the copy alone.
LEMMA ClientRefines ==
  ASSUME IInv, QInv, RInv, Client
  PROVE  Replica!Next \/ UNCHANGED <<table, published, view, applied, behind>>
<1>0. UNCHANGED <<table, published>> /\ enc.seq = Len(published) /\ view \in Table /\ behind \in BOOLEAN
  BY WireShrinks DEF daemon, IInv, EncoderOK, QInv, ControlOK
<1>1. CASE UNCHANGED <<view, applied, behind>>
  BY <1>0, <1>1
<1>2. ASSUME HandleFrame, applied' # applied \/ view' # view \/ behind' # behind PROVE Replica!Take
  <2>1. /\ applied' \in applied + 1 .. enc.seq /\ ~behind' /\ view' = published[applied']
        /\ \A l \in Label : Le(view[l], view'[l])
    BY <1>2, ServesFrame
  <2>2. behind' = FALSE
    BY <1>0, <1>2, <2>1 DEF HandleFrame, decoder
  <2> QED
    BY <1>0, <2>1, <2>2 DEF Le, Replica!Take, Replica!NotAfter, Replica!Follows
<1>3. ASSUME HandleReply, behind' # behind PROVE Replica!Doubt
  <2>1. behind' = TRUE
    BY <1>0, <1>3 DEF HandleReply
  <2> QED
    BY <1>0, <1>3, <2>1 DEF HandleReply, Replica!Doubt
<1>4. ASSUME AdoptInit PROVE Replica!Answer
  <2>1. /\ applied' \in applied..enc.seq
        /\ applied' > applied => view' = published[applied']
        /\ view' \in Table /\ behind' \in BOOLEAN /\ Serves(view', applied')
        /\ ~behind' => \A l \in Label : Le(view[l], view'[l]) /\ \A s \in 1..applied' : Le(published[s][l], view'[l])
    BY <1>4, ServesInit
  <2>2. Replica!NotAfter(view', table)
    BY <2>1 DEF Serves, Known, Le, Replica!NotAfter, Replica!Follows
  <2>3. ~behind' => Replica!NotAfter(view, view') /\ Replica!Since(applied', view')
    BY <2>1 DEF Le, Replica!NotAfter, Replica!Since, Replica!Follows
  <2> QED
    BY <1>0, <2>1, <2>2, <2>3 DEF Replica!Answer, Replica!Table, Table
<1>5. ASSUME AdoptReindex, view' # view \/ behind' # behind PROVE \E l \in Label : Replica!Mend(l)
  <2>1. /\ applied' = applied /\ behind' \in BOOLEAN /\ (behind => behind')
        /\ \E l \in Label :
             /\ view' = [view EXCEPT ![l] = view'[l]] /\ view' \in Table /\ Known(l, view'[l])
             /\ ~behind' => Le(view[l], view'[l]) /\ \A s \in 1..applied : Le(published[s][l], view'[l])
    BY <1>5, ServesReindex
  <2>2. PICK l \in Label :
             /\ view' = [view EXCEPT ![l] = view'[l]] /\ view' \in Table /\ Known(l, view'[l])
             /\ ~behind' => Le(view[l], view'[l]) /\ \A s \in 1..applied : Le(published[s][l], view'[l])
    BY <2>1
  <2>3. Replica!Mend(l)
    BY <1>0, <2>1, <2>2 DEF Replica!Mend, Replica!Follows, Replica!Table, Table, Known, Le
  <2> QED
    BY <2>3
<1>6. HandleReply \/ ResyncDone \/ Timers => UNCHANGED <<view, applied>> /\ (ResyncDone \/ Timers => behind' = behind)
  BY TimersLeave DEF HandleReply, ResyncDone, decoder
<1>7. AdoptReindex => applied' = applied
  BY DEF AdoptReindex
<1> QED
  BY <1>1, <1>2, <1>3, <1>4, <1>5, <1>6, <1>7 DEF Client, Receive, Continue, Timers, Replica!Next

\* The client serves a copy of the daemon's tables that never goes back to an
\* entry a frame or a reply had replaced, unless a reply was overtaken by a
\* frame or an initialize was ignored.
THEOREM TransportIsAReplica == Spec => ReplicaSpec
<1>1. Init => Replica!Init
  BY DEF Init, Empty, Replica!Init, Replica!Table
<1>2. IInv /\ QInv /\ RInv /\ [Next]_vars => [Replica!Next]_(Replica!vars)
  <2> SUFFICES ASSUME IInv, QInv, RInv, [Next]_vars
               PROVE  Replica!Next \/ UNCHANGED <<table, published, view, applied, behind>>
    BY DEF Replica!vars
  <2>1. CASE UNCHANGED vars
    BY <2>1 DEF vars, daemon, decoder
  <2> QED
    BY <2>1, ClientRefines, DaemonRefines DEF Next, Client, DaemonStep, Replica!Next
<1>3. Spec => []QInv
  BY InitQuiet, StepQuiet, InvariantHolds, PTL DEF Spec
<1>4. Spec => []RInv
  BY <1>3, InitRevisions, StepRevisions, InvariantHolds, PTL DEF Spec
<1> QED
  BY <1>1, <1>2, <1>3, <1>4, InvariantHolds, PTL DEF Spec, ReplicaSpec, Replica!Spec
=============================================================================
