--------------------------- MODULE DesktopProofs ---------------------------
(***************************************************************************)
(* Two results about the desktop client, for any number of sessions,       *)
(* faults, packets and responses and for whatever the UDP transport        *)
(* delivers.                                                               *)
(*                                                                         *)
(* The client holds one grant at most, the open session's, and when run    *)
(* has returned it has tried to give back every one.  A grant is held by   *)
(* the operation that is connecting or rolling back or by the session that *)
(* is open, and a release is cut short only under a run that is cancelled, *)
(* after which no grant is asked for (Grants).  What opens and closes a    *)
(* session is the operation and the run's end; that the receiver never     *)
(* does rests on the kinds of the messages it reads (Wire).                *)
(*                                                                         *)
(* A waiter for completed playbacks is not signalled while the receiver    *)
(* owes the reopen of its recovery (Recovery).  One playback at most is    *)
(* open in a session (Ledger), so a recovery that has ended it leaves      *)
(* nothing whose end could signal; the rest is about the keepalive task,   *)
(* whose own reopen may end a playback while the receiver recovers.        *)
(***************************************************************************)
EXTENDS DesktopApp, FiniteSetTheorems, SequenceTheorems, TLAPS

\* f is a record with the fields D, whatever their values.
Fields(f, D) == f = [x \in D |-> f[x]]

StFields == {"open", "profile", "closed", "fence", "highest", "current", "next", "pb"}
TrFields == {"open", "replay", "exp", "reorder", "non", "ready", "pend", "armed", "fresh"}
AppFields == {"sess", "ready", "pl", "owner", "fence", "signal"}
RxFields == {"at", "ev", "backlog", "out", "sess", "started", "obs", "owed", "err"}

Kinds == {"begin", "completed", "cancelled", "stop", "close", "audio"}
MessageRec == [kind : Kinds, gen : Nat, n : Int, ts : Int]
WorkerRec == [up : BOOLEAN, gen : Nat, busy : BOOLEAN, term : BOOLEAN, stop : BOOLEAN,
              sent : Nat, last : Int, ts : Nat]
KeepaliveRec == [at : {"new", "idle", "lock", "reopen", "failed", "cancelled"}, val : Int]
OperationRec == [by : {NoOne, "run", "rx", "ka"}, ended : BOOLEAN,
                 at : {"idle", "reset", "release", "torn", "bootstrap", "handshake", "rollback",
                       "cut"}]
RunRec == [at : {"starting", "running", "cancel", "closing", "pressed", "left", "done"},
           ok : BOOLEAN, counts : BOOLEAN]

USE DEF KeepaliveRec, OperationRec, RunRec

Shape ==
    /\ Fields(st, StFields)
    /\ Fields(app, AppFields) /\ app.sess \in Nat
    /\ Fields(rx, RxFields) /\ rx.sess \in Nat /\ rx.sess <= app.sess
    /\ ka \in KeepaliveRec
    /\ ro \in OperationRec
    /\ run \in RunRec
    /\ srv \in WorkerRec
    /\ ctl \in Seq(MessageRec)

\* What a message is read as: on udp-opus-gcm/1 the WebSocket carries no audio, and the
\* receiver waits for datagrams on no other profile.
Wire ==
    /\ st.profile = "udp" => \A i \in DOMAIN ctl : ctl[i].kind # "audio"
    /\ st.profile = "udp" \/ (Fields(tr, TrFields) /\ ~tr.open)
    /\ ~st.open \/ ro.at \in {"release", "torn"} =>
         st.closed /\ ~link /\ ctl = <<>> /\ Fields(tr, TrFields) /\ ~tr.open
    /\ rx.at = "got" /\ SameSession => st.profile = "udp" \/ ~st.open
    /\ run.at \notin {"starting", "running"} => ctl = <<>> /\ Fields(tr, TrFields) /\ ~tr.open
    /\ run.at \in {"closing", "pressed", "done"} => ~link

\* The lock is with its owner, and a run that is being ended has nobody left to take it.
Owner ==
    /\ (ro.by = NoOne) <=> (ro.at = "idle")
    /\ ro.by = "rx" => rx.at = "reopen"
    /\ ro.by = "ka" => ka.at = "reopen"
    /\ ro.by = "run" =>
         run.at \in {"starting", "cancel"} /\ ro.at \in {"bootstrap", "handshake", "rollback", "cut"}
    /\ run.at = "starting" => ro.by = "run" /\ rx.at = "new" /\ ka.at = "new"
    /\ run.at \notin {"starting", "running"} =>
         /\ rx.at \in {"new", "done", "failed", "cancelled"} \/ ro.by = "rx"
         /\ ka.at \in {"new", "failed", "cancelled"} \/ ro.by = "ka"
    /\ run.at \in {"closing", "pressed", "done"} => ro.by = NoOne

\* connect, its rollback or the open session has a grant.
AtHand == st.open \/ ro.at \in {"handshake", "rollback", "cut"}

\* The grant at hand is the last one given, and the only one held; a release that was cut
\* short was of the last one too, under a run that is cancelled.
Fate ==
    /\ grants \in Seq(Fates)
    /\ AtHand => Len(grants) > 0 /\ grants[Len(grants)] = "held"
    /\ \A i \in 1..Len(grants) : grants[i] = "held" => i = Len(grants) /\ AtHand
    /\ \A i \in 1..Len(grants) :
         grants[i] = "cut" => i = Len(grants) /\ run.at \notin {"starting", "running"}

\* Who holds the grant.
Grants ==
    /\ Fate
    /\ ro.at \in {"bootstrap", "handshake", "rollback", "cut"} => ~st.open
    /\ ro.at \in {"cut", "torn"} => run.at \in {"cancel", "left"}
    /\ run.at = "done" => ~st.open

Inv == Shape /\ Wire /\ Owner /\ Grants

\* A step that neither receives nor gives back a grant.
LEMMA FateKept ==
    ASSUME Fate, grants' = grants, AtHand' <=> AtHand,
           run'.at \in {"starting", "running"} => run.at \in {"starting", "running"}
    PROVE  Fate'
BY DEF Fate

\* The release of the grant at hand has ended, and nobody has it any more.
LEMMA FateSettled ==
    ASSUME Fate, AtHand, ~AtHand', NEW b \in BOOLEAN, Released(b),
           run'.at \in {"starting", "running"} => run.at \in {"starting", "running"} /\ ~b
    PROVE  Fate'
<1>1. PICK fate \in {"returned", "failed"} \cup (IF b THEN {"cut"} ELSE {}) :
         grants' = [grants EXCEPT ![Len(grants)] = fate]
    BY DEF Released
<1>2. /\ grants \in Seq(Fates) /\ Len(grants) \in Nat /\ Len(grants) > 0 /\ fate \in Fates
      /\ fate # "held" /\ (fate = "cut" => b)
    BY DEF Fate, Fates
<1>3. /\ grants' \in Seq(Fates) /\ Len(grants') = Len(grants) /\ grants'[Len(grants)] = fate
      /\ \A i \in 1..Len(grants) : i # Len(grants) => grants'[i] = grants[i]
    BY <1>1, <1>2
<1> QED
    BY <1>2, <1>3 DEF Fate

----------------------------------------------------------------------------
(* What the operators keep.                                                *)

\* A call of the strict state: it opens and closes nothing.
Kept(s, t) ==
    /\ Fields(s, StFields) /\ Fields(t, StFields) /\ t.open = s.open /\ t.profile = s.profile
    /\ s.closed => t.closed

\* One field that is not the session's standing changes.
LEMMA UpdateKept ==
    ASSUME NEW s, NEW t, Kept(s, t), NEW x \in StFields \ {"open", "profile", "closed"}, NEW v
    PROVE  Kept(s, [t EXCEPT ![x] = v])
BY DEF Kept, Fields, StFields

\* accept_control, for every kind of message it is given.
LEMMA ControlKept ==
    ASSUME NEW s, Fields(s, StFields), NEW m, m.kind \in Kinds \ {"audio"}
    PROVE  Kept(s, AcceptControl(s, m).st)
<1>1. Kept(s, AcceptBegin(s, m).st)
    BY DEF Kept, Fields, StFields, AcceptBegin, Raises, Returns
<1>2. Kept(s, AcceptEnd(s, m).st)
    <2> DEFINE a == [s EXCEPT !.pb[m.gen].term = TRUE]
               b == [a EXCEPT !.pb[m.gen].final = IF m.kind = "completed" THEN m.n ELSE s.pb[m.gen].final]
    <2>1. AcceptEnd(s, m).st \in {s, b}
        BY DEF AcceptEnd, Raises, Returns
    <2>2. Kept(s, s)
        BY DEF Kept
    <2>3. Kept(s, a)
        BY <2>2, UpdateKept DEF StFields
    <2>4. Kept(s, b)
        <3> HIDE DEF a
        <3> QED
            BY <2>3, UpdateKept DEF StFields
    <2> QED
        BY <2>1, <2>2, <2>4
<1>3. Kept(s, AcceptStop(s, m).st)
    <2> DEFINE a == [s EXCEPT !.fence = m.n]
               b == [a EXCEPT !.pb[m.gen].stopped = TRUE]
               c == [b EXCEPT !.pb[m.gen].fence = m.n]
    <2>1. AcceptStop(s, m).st \in {s, c}
        BY DEF AcceptStop, Raises, Returns
    <2>2. Kept(s, s)
        BY DEF Kept
    <2>3. Kept(s, a)
        BY <2>2, UpdateKept DEF StFields
    <2>4. Kept(s, b)
        <3> HIDE DEF a
        <3> QED
            BY <2>3, UpdateKept DEF StFields
    <2>5. Kept(s, c)
        <3> HIDE DEF b
        <3> QED
            BY <2>4, UpdateKept DEF StFields
    <2> QED
        BY <2>1, <2>2, <2>5
<1>4. Kept(s, s) /\ Kept(s, [s EXCEPT !.closed = TRUE])
    BY DEF Kept, Fields, StFields
<1> QED
    BY <1>1, <1>2, <1>3, <1>4 DEF AcceptControl, Kinds, Raises, Returns

\* accept_media and the facts of the endpoint.
LEMMA MediaKept ==
    ASSUME NEW s, Fields(s, StFields), NEW p
    PROVE  Kept(s, s) /\ Kept(s, AcceptMedia(s, p).st) /\ Kept(s, MediaResult(s).st)
<1>2. Kept(s, s)
    BY DEF Kept
<1>1. ASSUME NEW q PROVE Kept(s, AcceptMedia(s, q).st)
    <2> DEFINE a == [s EXCEPT !.next = q.n + 1]
               b == [a EXCEPT !.pb[q.gen].ts = q.ts]
               c == [b EXCEPT !.pb[q.gen].last = q.n]
               d == [c EXCEPT !.pb[q.gen].first = IF a.pb[q.gen].first = None THEN q.n
                                                  ELSE a.pb[q.gen].first]
    <2>1. AcceptMedia(s, q).st \in {s, a, d}
        BY DEF AcceptMedia, Raises, Returns
    <2>2. Kept(s, a)
        BY <1>2, UpdateKept DEF StFields
    <2>3. Kept(s, b)
        <3> HIDE DEF a
        <3> QED
            BY <2>2, UpdateKept DEF StFields
    <2>4. Kept(s, c)
        <3> HIDE DEF b
        <3> QED
            BY <2>3, UpdateKept DEF StFields
    <2>5. Kept(s, d)
        <3> HIDE DEF c
        <3> QED
            BY <2>4, UpdateKept DEF StFields
    <2> QED
        BY <1>2, <2>1, <2>2, <2>5
<1> QED
    BY <1>1, <1>2 DEF MediaResult, Raises, Returns

\* playback_started and playback_ended
LEMMA FactsKept ==
    ASSUME NEW s, Fields(s, StFields), NEW g, NEW n, NEW outcome
    PROVE  Kept(s, PlaybackStarted(s, g, n).st) /\ Kept(s, PlaybackEnded(s, g, outcome, n).st)
<1>1. Kept(s, PlaybackStarted(s, g, n).st)
    BY DEF Kept, Fields, StFields, PlaybackStarted, Raises, Returns
<1>2. Kept(s, PlaybackEnded(s, g, outcome, n).st)
    <2> DEFINE a == [s EXCEPT !.pb[g].ended = TRUE]
               b == [a EXCEPT !.pb[g].ts = None]
               c == [b EXCEPT !.current = IF s.current = g THEN NoGen ELSE s.current]
    <2>1. PlaybackEnded(s, g, outcome, n).st \in {s, c}
        BY DEF PlaybackEnded, Raises, Returns
    <2>2. Kept(s, s)
        BY DEF Kept
    <2>3. Kept(s, a)
        BY <2>2, UpdateKept DEF StFields
    <2>4. Kept(s, b)
        <3> HIDE DEF a
        <3> QED
            BY <2>3, UpdateKept DEF StFields
    <2>5. Kept(s, c)
        <3> HIDE DEF b
        <3> QED
            BY <2>4, UpdateKept DEF StFields
    <2> QED
        BY <2>1, <2>2, <2>5
<1> QED
    BY <1>1, <1>2

\* _end_playback
LEMMA EndingKept ==
    ASSUME Shape, NEW g, NEW outcome, NEW signal
    PROVE  /\ Kept(st, Ending(g, outcome, signal).st)
           /\ Fields(Ending(g, outcome, signal).app, AppFields)
           /\ Ending(g, outcome, signal).app.sess = app.sess
<1>1. Kept(st, PlaybackEnded(st, g, outcome, app.pl[g].last).st)
    BY FactsKept DEF Shape
<1>2. Fields(app, AppFields)
    BY DEF Shape
<1> DEFINE fenced == [app EXCEPT !.pl[g].ended = TRUE, !.owner = IF @ = g THEN NoGen ELSE @]
<1>3. Fields(fenced, AppFields) /\ fenced.sess = app.sess
    BY <1>2 DEF Fields, AppFields
<1>4. \A x : Fields([fenced EXCEPT !.signal = x], AppFields) /\ [fenced EXCEPT !.signal = x].sess = app.sess
    <2> HIDE DEF fenced
    <2> QED
        BY <1>3 DEF Fields, AppFields
<1>5. Ending(g, outcome, signal).app \in {fenced, [fenced EXCEPT !.signal = @ \/ (signal /\ run.counts)]}
    BY DEF Ending
<1> QED
    BY <1>1, <1>3, <1>4, <1>5 DEF Ending

\* Several calls keep what each of them keeps.
LEMMA KeptTwice ==
    ASSUME NEW s, NEW t, NEW u, Kept(s, t), Kept(t, u)
    PROVE  Kept(s, u)
BY DEF Kept

----------------------------------------------------------------------------
(* The receiver.                                                           *)

\* What a step of the receiver may do.
ReceiverFrame ==
    /\ UNCHANGED <<grants, link, srv, ka, ro, run>>
    /\ rx.at \in {"next", "wait", "got", "event", "render", "drain"}
    /\ Kept(st, st')
    /\ Fields(app', AppFields) /\ app'.sess = app.sess
    /\ Fields(rx', RxFields) /\ rx'.sess \in {0, rx.sess, app.sess}
    /\ rx'.at = "got" => st.profile = "udp"
    /\ ctl' = ctl \/ (ctl # <<>> /\ ctl' = Tail(ctl))
    /\ \/ tr' = tr
       \/ st.profile = "udp" /\ (~st.closed \/ tr.open)
       \/ Fields(tr, TrFields) /\ Fields(tr', TrFields) /\ tr'.open = tr.open

\* The records the receiver leaves.
LEMMA RxMade ==
    ASSUME Shape
    PROVE  /\ \A at : RxTo(at) => Fields(rx', RxFields) /\ rx'.sess = 0 /\ rx'.at = at
           /\ \A code : RxFails(code) => Fields(rx', RxFields) /\ rx'.sess = 0 /\ rx'.at = "failed"
<1>1. ASSUME NEW at, RxTo(at) PROVE Fields(rx', RxFields) /\ rx'.sess = 0 /\ rx'.at = at
    BY <1>1 DEF Receiving, Fields, RxFields, RxTo
<1>2. ASSUME NEW code, RxFails(code) PROVE Fields(rx', RxFields) /\ rx'.sess = 0 /\ rx'.at = "failed"
    BY <1>2 DEF Receiving, Fields, RxFields, RxFails
<1> QED
    BY <1>1, <1>2

\* A round of next_event
LEMMA DeliverFrame ==
    ASSUME Shape, NEW c, NEW m, Deliver(c, m)
    PROVE  /\ st' \in {c.st, m.st}
           /\ Fields(rx', RxFields) /\ rx'.sess = 0 /\ rx'.at \in {"failed", "event", "next"}
<1>1. st' \in {c.st, m.st}
    BY DEF Deliver
<1>2. \/ \E code : RxFails(code)
      \/ RxTo("next")
      \/ rx' = [Receiving EXCEPT !.at = "event", !.ev = c.event]
      \/ \E ev, b : rx' = [Receiving EXCEPT !.at = "event", !.ev = ev, !.backlog = b]
    BY DEF Deliver
<1>3. ASSUME NEW code, RxFails(code) PROVE Fields(rx', RxFields) /\ rx'.sess = 0 /\ rx'.at = "failed"
    BY <1>3, RxMade
<1>4. ASSUME RxTo("next") PROVE Fields(rx', RxFields) /\ rx'.sess = 0 /\ rx'.at = "next"
    BY <1>4, RxMade
<1>5. ASSUME rx' = [Receiving EXCEPT !.at = "event", !.ev = c.event]
      PROVE  Fields(rx', RxFields) /\ rx'.sess = 0 /\ rx'.at = "event"
    BY <1>5 DEF Receiving, Fields, RxFields
<1>6. ASSUME NEW ev, NEW b, rx' = [Receiving EXCEPT !.at = "event", !.ev = ev, !.backlog = b]
      PROVE  Fields(rx', RxFields) /\ rx'.sess = 0 /\ rx'.at = "event"
    BY <1>6 DEF Receiving, Fields, RxFields
<1> QED
    BY <1>1, <1>2, <1>3, <1>4, <1>5, <1>6

\* The media task
LEMMA MediaTaskFrame ==
    ASSUME Shape, NEW r, MediaTask(r)
    PROVE  Fields(rx', RxFields) /\ rx'.sess = app.sess
BY DEF Shape, MediaTask, Fields, RxFields

\* The end of a playback
LEMMA EndPlaybackFrame ==
    ASSUME Shape, NEW g, NEW outcome, NEW fence, EndPlayback(g, outcome, fence)
    PROVE  /\ Kept(st, st') /\ Fields(app', AppFields) /\ app'.sess = app.sess
           /\ Fields(rx', RxFields) /\ rx'.sess = 0 /\ rx'.at \in {"failed", "next"}
<1> DEFINE e == Ending(g, outcome, TRUE)
<1>1. Kept(st, e.st) /\ Fields(e.app, AppFields) /\ e.app.sess = app.sess
    BY EndingKept
<1>2. st' = e.st /\ app' = [e.app EXCEPT !.fence = fence] /\ (RxTo("next") \/ RxFails(e.err))
    BY DEF EndPlayback
<1>3. Fields(app', AppFields) /\ app'.sess = app.sess
    <2> HIDE DEF e
    <2> QED
        BY <1>1, <1>2 DEF Fields, AppFields
<1> QED
    BY <1>1, <1>2, <1>3, RxMade

\* A recovery
LEMMA RecoverFrame ==
    ASSUME Shape, NEW g, Recover(g)
    PROVE  /\ Kept(st, st') /\ Fields(app', AppFields) /\ app'.sess = app.sess
           /\ Fields(rx', RxFields) /\ rx'.sess \in {0, rx.sess} /\ rx'.at \in {"failed", "reopen"}
<1> DEFINE e == Ending(g, "stopped", FALSE)
<1>1. Kept(st, e.st) /\ Fields(e.app, AppFields) /\ e.app.sess = app.sess
    BY EndingKept
<1>2. st' = e.st /\ app' = e.app
      /\ \/ rx' = [rx EXCEPT !.at = "reopen", !.ev = NoEvent, !.obs = app.sess, !.owed = TRUE]
         \/ RxFails(e.err)
    BY DEF Recover
<1>3. CASE rx' = [rx EXCEPT !.at = "reopen", !.ev = NoEvent, !.obs = app.sess, !.owed = TRUE]
    <2>1. Fields(rx', RxFields) /\ rx'.sess = rx.sess /\ rx'.at = "reopen"
        BY <1>3 DEF Shape, Fields, RxFields
    <2> QED
        BY <1>1, <1>2, <2>1
<1>4. CASE RxFails(e.err)
    BY <1>1, <1>2, <1>4, RxMade
<1> QED
    BY <1>2, <1>3, <1>4

\* next_event is called
LEMMA NextEventFrame ==
    ASSUME Inv, NextEvent
    PROVE  ReceiverFrame
<1>1. Shape /\ Kept(st, st) /\ Fields(app, AppFields) /\ Fields(rx, RxFields)
    BY DEF Inv, Shape, Kept
<1>2. UNCHANGED <<st, grants, link, srv, ctl, ka, ro, run, app>> /\ rx.at = "next"
    BY DEF NextEvent, worker
<1>3. CASE RxFails("session_closed") /\ UNCHANGED tr
    BY <1>1, <1>2, <1>3, RxMade DEF ReceiverFrame
<1>4. CASE /\ rx' = [rx EXCEPT !.at = "event", !.ev = Head(rx.backlog), !.backlog = Tail(@)]
           /\ UNCHANGED tr
    <2>1. Fields(rx', RxFields) /\ rx'.sess = rx.sess /\ rx'.at = "event"
        BY <1>1, <1>4 DEF Fields, RxFields
    <2> QED
        BY <1>1, <1>2, <1>4, <2>1 DEF ReceiverFrame
<1>5. CASE rx' = [rx EXCEPT !.at = "wait", !.sess = app.sess] /\ UNCHANGED tr
    <2>1. Fields(rx', RxFields) /\ rx'.sess = app.sess /\ rx'.at = "wait"
        BY <1>1, <1>5 DEF Fields, RxFields
    <2> QED
        BY <1>1, <1>2, <1>5, <2>1 DEF ReceiverFrame
<1>6. CASE rx' = [rx EXCEPT !.at = "event", !.ev = ReopenEvent] /\ UNCHANGED tr
    <2>1. Fields(rx', RxFields) /\ rx'.sess = rx.sess /\ rx'.at = "event"
        BY <1>1, <1>6 DEF Fields, RxFields
    <2> QED
        BY <1>1, <1>2, <1>6, <2>1 DEF ReceiverFrame
<1>7. ASSUME ~st.closed, st.profile = "udp", NEW r, MediaTask(r) PROVE ReceiverFrame
    BY <1>1, <1>2, <1>7, MediaTaskFrame DEF ReceiverFrame
<1> QED
    BY <1>3, <1>4, <1>5, <1>6, <1>7 DEF NextEvent

\* A datagram or a timer
LEMMA ReceivedFrame ==
    ASSUME Inv, rx.at = "wait", tr.open, NEW r, Received(r)
    PROVE  ReceiverFrame
<1>1. Shape /\ Kept(st, st) /\ Fields(app, AppFields) /\ st.profile = "udp"
    BY DEF Inv, Shape, Kept, Wire
<1>2. UNCHANGED <<st, grants, link, srv, ctl, ka, ro, run, app>> /\ MediaTask(r)
    BY DEF Received, worker
<1> QED
    BY <1>1, <1>2, MediaTaskFrame DEF ReceiverFrame

\* The head of the WebSocket's queue
LEMMA HeadKinds ==
    ASSUME Shape, ctl # <<>>
    PROVE  /\ Head(ctl).kind \in Kinds /\ 1 \in DOMAIN ctl /\ Head(ctl) = ctl[1]
<1>1. Head(ctl) \in MessageRec /\ 1 \in DOMAIN ctl /\ Head(ctl) = ctl[1]
    BY DEF Shape
<1> QED
    BY <1>1 DEF MessageRec

\* Media has come, and perhaps control
LEMMA MediaReadyFrame ==
    ASSUME Inv, MediaReady
    PROVE  ReceiverFrame
<1>1. Shape /\ Fields(st, StFields) /\ Fields(app, AppFields)
    BY DEF Inv, Shape
<1>2. UNCHANGED <<grants, link, srv, ka, ro, run, app, tr>> /\ rx.at = "got" /\ SameSession
    BY DEF MediaReady
<1>3. CASE Deliver(Returns(st, NoEvent), MediaResult(st)) /\ UNCHANGED ctl
    <2>1. Kept(st, st')
        <3>1. st' \in {Returns(st, NoEvent).st, MediaResult(st).st}
            BY <1>1, <1>3, DeliverFrame
        <3>2. Returns(st, NoEvent).st = st
            BY DEF Returns
        <3> QED
            BY <1>1, <3>1, <3>2, MediaKept
    <2>2. Fields(rx', RxFields) /\ rx'.sess = 0 /\ rx'.at \in {"failed", "event", "next"}
        BY <1>1, <1>3, DeliverFrame
    <2> QED
        BY <1>1, <1>2, <1>3, <2>1, <2>2 DEF ReceiverFrame
<1>4. CASE /\ ctl # <<>> /\ ctl' = Tail(ctl)
           /\ LET c == AcceptControl(st, Head(ctl)) IN Deliver(c, MediaResult(c.st))
    <2> DEFINE c == AcceptControl(st, Head(ctl))
    <2>1. Kept(st, c.st)
        <3>1. st.profile = "udp"
            BY <1>2, <1>4 DEF Inv, Wire
        <3>2. Head(ctl).kind \in Kinds \ {"audio"}
            BY <1>1, <1>4, <3>1, HeadKinds DEF Inv, Wire
        <3> QED
            BY <1>1, <3>2, ControlKept
    <2>2. Kept(c.st, MediaResult(c.st).st)
        BY <2>1, MediaKept DEF Kept
    <2>3. Deliver(c, MediaResult(c.st))
        BY <1>4
    <2> HIDE DEF c
    <2>4. /\ st' \in {c.st, MediaResult(c.st).st}
          /\ Fields(rx', RxFields) /\ rx'.sess = 0 /\ rx'.at \in {"failed", "event", "next"}
        BY <1>1, <2>3, DeliverFrame
    <2>5. Kept(st, st')
        BY <2>1, <2>2, <2>4, KeptTwice
    <2> QED
        BY <1>1, <1>2, <1>4, <2>4, <2>5 DEF ReceiverFrame
<1> QED
    BY <1>3, <1>4 DEF MediaReady

\* A message of the WebSocket
LEMMA ControlReadyFrame ==
    ASSUME Inv, ControlReady
    PROVE  ReceiverFrame
<1> DEFINE m == Head(ctl)
<1>1. Shape /\ Fields(st, StFields) /\ Fields(app, AppFields) /\ ctl # <<>> /\ m.kind \in Kinds
    BY HeadKinds DEF Inv, Shape, ControlReady
<1>2. /\ UNCHANGED <<grants, link, srv, ka, ro, run, app>> /\ rx.at = "wait"
      /\ ctl # <<>> /\ ctl' = Tail(ctl)
    BY DEF ControlReady
<1>3. \A s, e : Returns(s, e).st = s
    BY DEF Returns
<1>4. CASE m.kind # "audio" /\ (LET c == AcceptControl(st, m) IN Deliver(c, Returns(c.st, NoEvent))) /\ UNCHANGED tr
    <2> DEFINE c == AcceptControl(st, m)
    <2>1. Kept(st, c.st)
        BY <1>1, <1>4, ControlKept
    <2>2. Deliver(c, Returns(c.st, NoEvent))
        BY <1>4
    <2> HIDE DEF c, m
    <2>3. st' = c.st /\ Fields(rx', RxFields) /\ rx'.sess = 0 /\ rx'.at \in {"failed", "event", "next"}
        BY <1>1, <1>3, <2>2, DeliverFrame
    <2> QED
        BY <1>1, <1>2, <1>4, <2>1, <2>3 DEF ReceiverFrame
<1>5. CASE m.kind = "audio" /\ Deliver(Returns(st, NoEvent), Returns(st, ReopenEvent)) /\ UNCHANGED tr
    <2>1. st' = st /\ Fields(rx', RxFields) /\ rx'.sess = 0 /\ rx'.at \in {"failed", "event", "next"}
        BY <1>1, <1>3, <1>5, DeliverFrame
    <2> QED
        BY <1>1, <1>2, <1>5, <2>1, MediaKept DEF ReceiverFrame
<1>6. CASE /\ m.kind = "audio" /\ Deliver(Returns(st, NoEvent), AcceptMedia(st, m))
           /\ tr' = IF Admission(st, m) = "admitted" THEN [tr EXCEPT !.fresh = m.gen] ELSE tr
    <2>1. /\ st' \in {st, AcceptMedia(st, m).st}
          /\ Fields(rx', RxFields) /\ rx'.sess = 0 /\ rx'.at \in {"failed", "event", "next"}
        BY <1>1, <1>3, <1>6, DeliverFrame
    <2>2. Kept(st, st')
        BY <1>1, <2>1, MediaKept
    <2>3. st.profile # "udp"
        BY <1>1, <1>2, <1>6, HeadKinds DEF Inv, Wire
    <2>4. Fields(tr, TrFields)
        BY <2>3 DEF Inv, Wire
    <2>5. Fields(tr', TrFields) /\ tr'.open = tr.open
        BY <1>6, <2>4 DEF Fields, TrFields
    <2> QED
        BY <1>1, <1>2, <2>1, <2>2, <2>4, <2>5 DEF ReceiverFrame
<1> QED
    BY <1>4, <1>5, <1>6 DEF ControlReady

\* The WebSocket fails under the receiver, or its sink does
LEMMA FailsFrame ==
    ASSUME Inv, ControlFails \/ SinkFails
    PROVE  ReceiverFrame
<1>1. Shape /\ Kept(st, st) /\ Fields(app, AppFields)
    BY DEF Inv, Shape, Kept
<1>2. /\ UNCHANGED <<st, tr, grants, link, srv, ctl, ka, ro, run, app>>
      /\ rx.at \in {"wait", "got", "render", "drain"}
      /\ \E code : RxFails(code)
    BY DEF ControlFails, SinkFails, session, worker
<1> QED
    BY <1>1, <1>2, RxMade DEF ReceiverFrame

\* An event
LEMMA HandleEventFrame ==
    ASSUME Inv, HandleEvent
    PROVE  ReceiverFrame
<1>1. Shape /\ Kept(st, st) /\ Fields(app, AppFields) /\ Fields(rx, RxFields)
    BY DEF Inv, Shape, Kept
<1>2. UNCHANGED <<tr, grants, link, srv, ctl, ka, ro, run>> /\ rx.at = "event"
    BY DEF HandleEvent, worker
<1>3. ASSUME /\ Kept(st, st') /\ Fields(app', AppFields) /\ app'.sess = app.sess
             /\ Fields(rx', RxFields) /\ rx'.sess \in {0, rx.sess, app.sess} /\ rx'.at # "got"
      PROVE  ReceiverFrame
    BY <1>2, <1>3 DEF ReceiverFrame
<1>4. ASSUME NEW at \in {"next", "done"}, RxTo(at), UNCHANGED <<st, app>> PROVE ReceiverFrame
    BY <1>1, <1>3, <1>4, RxMade
<1>5. CASE HandleBegin
    <2>1. app' = [app EXCEPT !.pl[rx.ev.gen] = [Silent EXCEPT !.begun = TRUE]] /\ RxTo("next") /\ UNCHANGED st
        BY <1>5 DEF HandleBegin
    <2>2. Fields(app', AppFields) /\ app'.sess = app.sess
        BY <1>1, <2>1 DEF Fields, AppFields
    <2> QED
        BY <1>1, <1>3, <2>1, <2>2, RxMade
<1>6. CASE HandleClose
    BY <1>4, <1>6 DEF HandleClose
<1>7. CASE HandleReopen
    <2>1. rx' = [rx EXCEPT !.at = "reopen", !.ev = NoEvent, !.obs = app.sess] /\ UNCHANGED <<st, app>>
        BY <1>7 DEF HandleReopen
    <2>2. Fields(rx', RxFields) /\ rx'.sess = rx.sess /\ rx'.at = "reopen"
        BY <1>1, <2>1 DEF Fields, RxFields
    <2> QED
        BY <1>1, <1>3, <2>1, <2>2
<1>8. CASE HandleAudio
    <2> DEFINE g == rx.ev.gen
    <2>1. \/ RxTo("next") /\ UNCHANGED <<st, app>>
          \/ Recover(g)
          \/ /\ app' = [app EXCEPT !.owner = g] /\ UNCHANGED st
             /\ rx' = [rx EXCEPT !.at = "render", !.sess = app.sess, !.started = app.pl[g].started]
        BY <1>8 DEF HandleAudio
    <2>2. CASE Recover(g)
        BY <1>1, <1>3, <2>2, RecoverFrame
    <2>3. CASE /\ app' = [app EXCEPT !.owner = g] /\ UNCHANGED st
               /\ rx' = [rx EXCEPT !.at = "render", !.sess = app.sess, !.started = app.pl[g].started]
        <3>1. Fields(app', AppFields) /\ app'.sess = app.sess
            BY <1>1, <2>3 DEF Fields, AppFields
        <3>2. Fields(rx', RxFields) /\ rx'.sess = app.sess /\ rx'.at = "render"
            BY <1>1, <2>3 DEF Fields, RxFields
        <3> QED
            BY <1>1, <1>3, <2>3, <3>1, <3>2
    <2> QED
        BY <1>4, <2>1, <2>2, <2>3
<1>9. CASE HandleEnd
    <2> DEFINE g == rx.ev.gen
    <2>1. \/ RxTo("next") /\ UNCHANGED <<st, app>>
          \/ EndPlayback(g, "stopped", app.fence)
          \/ /\ app' = [app EXCEPT !.pl[g].final = rx.ev.n] /\ UNCHANGED st
             /\ rx' = [rx EXCEPT !.at = "drain", !.sess = app.sess] \/ RxTo("next")
        BY <1>9 DEF HandleEnd
    <2>2. CASE EndPlayback(g, "stopped", app.fence)
        BY <1>1, <1>3, <2>2, EndPlaybackFrame
    <2>3. CASE /\ app' = [app EXCEPT !.pl[g].final = rx.ev.n] /\ UNCHANGED st
               /\ rx' = [rx EXCEPT !.at = "drain", !.sess = app.sess] \/ RxTo("next")
        <3>1. Fields(app', AppFields) /\ app'.sess = app.sess
            BY <1>1, <2>3 DEF Fields, AppFields
        <3>2. CASE rx' = [rx EXCEPT !.at = "drain", !.sess = app.sess]
            <4>1. Fields(rx', RxFields) /\ rx'.sess = app.sess /\ rx'.at = "drain"
                BY <1>1, <3>2 DEF Fields, RxFields
            <4> QED
                BY <1>1, <1>3, <2>3, <3>1, <4>1
        <3>3. CASE RxTo("next")
            BY <1>1, <1>3, <2>3, <3>1, <3>3, RxMade
        <3> QED
            BY <2>3, <3>2, <3>3
    <2> QED
        BY <1>4, <2>1, <2>2, <2>3
<1>10. CASE HandleStop
    <2> DEFINE g == rx.ev.gen
               fence == Max({app.fence, rx.ev.n})
    <2>1. \/ EndPlayback(g, "stopped", fence)
          \/ RxTo("next") /\ app' = [app EXCEPT !.fence = fence] /\ UNCHANGED st
        BY <1>10 DEF HandleStop
    <2> HIDE DEF fence
    <2>2. CASE EndPlayback(g, "stopped", fence)
        BY <1>1, <1>3, <2>2, EndPlaybackFrame
    <2>3. CASE RxTo("next") /\ app' = [app EXCEPT !.fence = fence] /\ UNCHANGED st
        <3>1. Fields(app', AppFields) /\ app'.sess = app.sess
            BY <1>1, <2>3 DEF Fields, AppFields
        <3> QED
            BY <1>1, <1>3, <2>3, <3>1, RxMade
    <2> QED
        BY <2>1, <2>2, <2>3
<1> QED
    BY <1>5, <1>6, <1>7, <1>8, <1>9, <1>10 DEF HandleEvent

\* Frames have been rendered
LEMMA RenderedFrame ==
    ASSUME Inv, Rendered
    PROVE  ReceiverFrame
<1> DEFINE g == rx.ev.gen
           r == IF Orphan THEN Raises(st, "stale_target") ELSE PlaybackStarted(st, g, rx.ev.n)
<1>1. Shape /\ Kept(st, st) /\ Fields(app, AppFields) /\ Fields(rx, RxFields) /\ Fields(st, StFields)
    BY DEF Inv, Shape, Kept
<1>2. UNCHANGED <<tr, grants, link, srv, ctl, ka, ro, run>> /\ rx.at = "render"
    BY DEF Rendered, worker
<1>3. Kept(st, r.st)
    BY <1>1, FactsKept DEF Raises
<1>4. ASSUME /\ Kept(st, st') /\ Fields(app', AppFields) /\ app'.sess = app.sess
             /\ Fields(rx', RxFields) /\ rx'.sess \in {0, rx.sess, app.sess} /\ rx'.at # "got"
      PROVE  ReceiverFrame
    BY <1>2, <1>4 DEF ReceiverFrame
<1>5. /\ st' \in {st, r.st}
      /\ \/ app' = app
         \/ app' = [app EXCEPT !.pl[g].started = TRUE, !.pl[g].last = rx.ev.n, !.pl[g].ts = rx.ev.ts]
      /\ (\E code : RxFails(code)) \/ RxTo("next") \/ rx' = [rx EXCEPT !.at = "drain"]
    BY DEF Rendered
<1>6. Fields(app', AppFields) /\ app'.sess = app.sess
    BY <1>1, <1>5 DEF Fields, AppFields
<1>7. Kept(st, st')
    BY <1>1, <1>3, <1>5
<1>8. Fields(rx', RxFields) /\ rx'.sess \in {0, rx.sess} /\ rx'.at # "got"
    <2>1. CASE rx' = [rx EXCEPT !.at = "drain"]
        BY <1>1, <2>1 DEF Fields, RxFields
    <2>2. CASE (\E code : RxFails(code)) \/ RxTo("next")
        BY <1>1, <2>2, RxMade
    <2> QED
        BY <1>5, <2>1, <2>2
<1> QED
    BY <1>4, <1>6, <1>7, <1>8

\* The sink has drained, or a playback has expired
LEMMA DrainedFrame ==
    ASSUME Inv, Drained \/ Expire
    PROVE  ReceiverFrame
<1>1. Shape /\ Kept(st, st) /\ Fields(app, AppFields)
    BY DEF Inv, Shape, Kept
<1>2. UNCHANGED <<tr, grants, link, srv, ctl, ka, ro, run>> /\ rx.at \in {"wait", "drain"}
    BY DEF Drained, Expire, worker
<1>3. \/ \E g : Recover(g)
      \/ EndPlayback(rx.ev.gen, "completed", app.fence)
      \/ RxTo("next") /\ UNCHANGED <<st, app>>
    BY DEF Drained, Expire
<1>4. CASE \E g : Recover(g)
    BY <1>1, <1>2, <1>4, RecoverFrame DEF ReceiverFrame
<1>5. CASE EndPlayback(rx.ev.gen, "completed", app.fence)
    BY <1>1, <1>2, <1>5, EndPlaybackFrame DEF ReceiverFrame
<1>6. CASE RxTo("next") /\ UNCHANGED <<st, app>>
    BY <1>1, <1>2, <1>6, RxMade DEF ReceiverFrame
<1> QED
    BY <1>3, <1>4, <1>5, <1>6

\* A step of the receiver keeps the invariant.
LEMMA ReceiverKeeps ==
    ASSUME Inv, ReceiverFrame
    PROVE  Inv'
<1>1. run.at = "running" /\ ro.by # "rx"
    BY DEF Inv, Shape, Owner, ReceiverFrame
<1>2. Shape'
    <2>1. ctl' \in Seq(MessageRec)
        <3>1. ctl \in Seq(MessageRec) /\ (ctl' = ctl \/ (ctl # <<>> /\ ctl' = Tail(ctl)))
            BY DEF Inv, Shape, ReceiverFrame
        <3> QED
            BY <3>1
    <2>2. rx'.sess \in Nat /\ rx'.sess <= app.sess /\ app'.sess \in Nat
        BY DEF Inv, Shape, ReceiverFrame
    <2> QED
        BY <2>1, <2>2 DEF Inv, Shape, ReceiverFrame, Kept
<1>3. Wire'
    <2>1. ctl = <<>> => ctl' = <<>>
        BY DEF ReceiverFrame
    <2>2. (\A i \in DOMAIN ctl : ctl[i].kind # "audio") => \A i \in DOMAIN ctl' : ctl'[i].kind # "audio"
        <3>1. CASE ctl' = ctl
            BY <3>1
        <3>2. CASE ctl # <<>> /\ ctl' = Tail(ctl)
            <4>1. \A i \in DOMAIN ctl' : i + 1 \in DOMAIN ctl /\ ctl'[i] = ctl[i + 1]
                BY <3>2 DEF Inv, Shape
            <4> QED
                BY <4>1
        <3> QED
            BY <3>1, <3>2 DEF ReceiverFrame
    <2>3. st'.profile = st.profile /\ st'.open = st.open /\ (st.closed => st'.closed)
        BY DEF ReceiverFrame, Kept
    <2>4. st.profile = "udp" \/ (Fields(tr', TrFields) /\ ~tr'.open)
        BY DEF Inv, Wire, ReceiverFrame
    <2>5. ~st.open \/ ro.at \in {"release", "torn"} => Fields(tr', TrFields) /\ ~tr'.open
        BY DEF Inv, Wire, ReceiverFrame
    <2> QED
        BY <1>1, <2>1, <2>2, <2>3, <2>4, <2>5 DEF Inv, Wire, ReceiverFrame
<1>4. Owner'
    BY <1>1 DEF Inv, Owner, ReceiverFrame
<1>5. Grants'
    BY <1>1, FateKept DEF Inv, Grants, AtHand, ReceiverFrame, Kept
<1> QED
    BY <1>2, <1>3, <1>4, <1>5 DEF Inv

----------------------------------------------------------------------------
(* connect and _fresh_reopen.                                              *)

\* The records of the tasks, and what the owner's outcome makes of them.
LEMMA OwnerMade ==
    ASSUME Shape
    PROVE  /\ OwnerGoesOn =>
                /\ Fields(rx', RxFields) /\ rx'.sess = rx.sess
                /\ rx'.at = IF ro.by \in {"rx", "run"} THEN "next" ELSE rx.at
                /\ ka' \in KeepaliveRec
                /\ ka'.at = IF ro.by \in {"ka", "run"} THEN "idle" ELSE ka.at
                /\ run' \in RunRec
                /\ run'.at = IF ro.by = "run" THEN "running" ELSE run.at
           /\ \A code : OwnerFails(code) =>
                /\ Fields(rx', RxFields) /\ rx'.sess = rx.sess
                /\ IF ro.by = "rx" THEN rx'.at \in {"cancelled", "failed"} ELSE rx'.at = rx.at
                /\ ka' \in KeepaliveRec
                /\ IF ro.by = "ka" THEN ka'.at \in {"cancelled", "failed"} ELSE ka'.at = ka.at
                /\ run' \in RunRec
                /\ run'.at = IF ro.by = "run" THEN "cancel" ELSE run.at
<1>1. Fields(rx, RxFields)
    BY DEF Shape
<1>2. ASSUME OwnerGoesOn
      PROVE  /\ Fields(rx', RxFields) /\ rx'.sess = rx.sess
             /\ rx'.at = IF ro.by \in {"rx", "run"} THEN "next" ELSE rx.at
    BY <1>1, <1>2 DEF OwnerGoesOn, Fields, RxFields
<1>3. ASSUME OwnerGoesOn
      PROVE  /\ ka' \in KeepaliveRec
             /\ ka'.at = IF ro.by \in {"ka", "run"} THEN "idle" ELSE ka.at
    BY <1>3 DEF OwnerGoesOn, Shape, None
<1>4. ASSUME OwnerGoesOn
      PROVE  /\ run' \in RunRec
             /\ run'.at = IF ro.by = "run" THEN "running" ELSE run.at
    BY <1>4 DEF OwnerGoesOn, Shape
<1>5. ASSUME NEW code, OwnerFails(code)
      PROVE  /\ Fields(rx', RxFields) /\ rx'.sess = rx.sess
             /\ IF ro.by = "rx" THEN rx'.at \in {"cancelled", "failed"} ELSE rx'.at = rx.at
    BY <1>1, <1>5 DEF OwnerFails, Fields, RxFields
<1>6. ASSUME NEW code, OwnerFails(code)
      PROVE  /\ ka' \in KeepaliveRec
             /\ IF ro.by = "ka" THEN ka'.at \in {"cancelled", "failed"} ELSE ka'.at = ka.at
    BY <1>6 DEF OwnerFails, Shape
<1>7. ASSUME NEW code, OwnerFails(code)
      PROVE  /\ run' \in RunRec
             /\ run'.at = IF ro.by = "run" THEN "cancel" ELSE run.at
    <2>1. CASE ro.by # "run"
        BY <1>7, <2>1 DEF OwnerFails, Shape
    <2>2. CASE ro.by = "run"
        <3>1. run' = [run EXCEPT !.at = "cancel", !.ok = run.ok /\ Cancelling]
            BY <1>7, <2>2 DEF OwnerFails
        <3>2. (run.ok /\ Cancelling) \in BOOLEAN
            OBVIOUS
        <3>3. \A b \in BOOLEAN : [run EXCEPT !.at = "cancel", !.ok = b] \in RunRec
                                 /\ [run EXCEPT !.at = "cancel", !.ok = b].at = "cancel"
            BY DEF Shape
        <3> QED
            BY <2>2, <3>1, <3>2, <3>3
    <2> QED
        BY <2>1, <2>2
<1> QED
    BY <1>2, <1>3, <1>4, <1>5, <1>6, <1>7

\* The operation gives up: its owner fails, the lock is free.
LEMMA OperationFails ==
    ASSUME Inv, ro.by # NoOne, ro' = NoOperation, NEW code, OwnerFails(code)
    PROVE  Owner'
<1>1. Shape /\ Owner
    BY DEF Inv
<1>2. ro'.by = NoOne /\ ro'.at = "idle"
    BY DEF NoOperation
<1>3. run.at = "starting" => ro.by = "run"
    BY <1>1 DEF Owner
<1>4. ro.by \in {"run", "rx", "ka"}
    BY <1>1 DEF Shape
<1> QED
    BY <1>1, <1>2, <1>3, <1>4, OwnerMade DEF Owner, NoOne

\* The constants of the operation
LEMMA OperationMade ==
    ASSUME Shape
    PROVE  /\ NoOperation \in OperationRec
           /\ NoOperation.at = "idle"
           /\ \A at \in {"release", "torn", "bootstrap", "handshake", "rollback", "cut"} :
                LET r == [ro EXCEPT !.at = at] IN
                /\ r \in OperationRec
                /\ r.at = at /\ r.by = ro.by
           /\ \A b : LET a == [app EXCEPT !.ready = b] IN Fields(a, AppFields) /\ a.sess = app.sess
           /\ Fields(NoState, StFields) /\ ~NoState.open /\ NoState.closed /\ NoState.profile = "wss"
           /\ Fields(ClosedTransport, TrFields) /\ ~ClosedTransport.open
           /\ Kept(st, CloseMessage(st)) /\ CloseMessage(st).closed
           /\ NoWorker \in WorkerRec /\ <<>> \in Seq(MessageRec)
<1>1. /\ NoOperation \in OperationRec
      /\ NoOperation.at = "idle"
    BY DEF NoOperation, NoOne
<1>2. ASSUME NEW at \in {"release", "torn", "bootstrap", "handshake", "rollback", "cut"}
      PROVE  LET r == [ro EXCEPT !.at = at] IN
             /\ r \in OperationRec
             /\ r.at = at /\ r.by = ro.by
    BY DEF Shape
<1>3. ASSUME NEW b PROVE LET a == [app EXCEPT !.ready = b] IN Fields(a, AppFields) /\ a.sess = app.sess
    BY DEF Shape, Fields, AppFields
<1>4. Fields(NoState, StFields) /\ ~NoState.open /\ NoState.closed /\ NoState.profile = "wss"
    BY DEF NoState, Opened, Fields, StFields
<1>5. Fields(ClosedTransport, TrFields) /\ ~ClosedTransport.open
    BY DEF ClosedTransport, OpenTransport, Fields, TrFields
<1>6. Kept(st, CloseMessage(st)) /\ CloseMessage(st).closed
    BY DEF Shape, CloseMessage, Kept, Fields, StFields
<1>7. NoWorker \in WorkerRec /\ <<>> \in Seq(MessageRec)
    BY DEF NoWorker, WorkerRec, None, NoGen
<1> QED
    BY <1>1, <1>2, <1>3, <1>4, <1>5, <1>6, <1>7

\* Another task replaced the session
LEMMA StaleKeeps ==
    ASSUME Inv, ro.by = NoOne,
           \/ rx.at = "reopen" /\ ReopenStale("rx", rx.obs)
           \/ ka.at = "reopen" /\ ReopenStale("ka", ka.val)
    PROVE  Inv'
<1>1. Shape /\ Wire /\ Owner /\ Grants
    BY DEF Inv
<1>2. UNCHANGED <<st, tr, grants, link, srv, ctl, ro, run>> /\ run.at = "running"
    <2>1. UNCHANGED <<st, tr, grants, link, srv, ctl, ro, run>>
        BY DEF ReopenStale, worker
    <2>2. run.at = "running"
        BY <1>1 DEF Owner, Shape, NoOne
    <2> QED
        BY <2>1, <2>2
<1>3. Fields(app', AppFields) /\ app'.sess = app.sess
    BY <1>1 DEF ReopenStale, Shape, Fields, AppFields
<1>4. Fields(rx', RxFields) /\ rx'.sess = rx.sess /\ (rx'.at = rx.at \/ rx'.at = "next")
    <2>1. rx' = rx \/ rx' = [rx EXCEPT !.at = "next", !.owed = FALSE]
        BY DEF ReopenStale
    <2> QED
        BY <1>1, <2>1 DEF Shape, Fields, RxFields
<1>5. ka' \in KeepaliveRec
    BY <1>1 DEF ReopenStale, Shape, None
<1>6. Shape'
    BY <1>1, <1>2, <1>3, <1>4, <1>5 DEF Shape
<1>7. Wire'
    BY <1>1, <1>2, <1>3, <1>4 DEF Wire, SameSession
<1>8. Owner' /\ Grants'
    BY <1>1, <1>2, <1>3, FateKept DEF Owner, Grants, AtHand, NoOne
<1> QED
    BY <1>6, <1>7, <1>8 DEF Inv

\* The lock is taken
LEMMA BeginsKeeps ==
    ASSUME Inv, ro.by = NoOne,
           \/ rx.at = "reopen" /\ ReopenBegins("rx", rx.obs)
           \/ ka.at = "reopen" /\ ReopenBegins("ka", ka.val)
    PROVE  Inv'
<1>1. Shape /\ Wire /\ Owner /\ Grants
    BY DEF Inv
<1>2. UNCHANGED <<tr, grants, link, srv, ctl, run>> /\ run.at = "running" /\ ro.at = "idle"
    <2>1. UNCHANGED <<tr, grants, link, srv, ctl, run>>
        BY DEF ReopenBegins, worker
    <2>2. run.at = "running" /\ ro.at = "idle"
        BY <1>1 DEF Owner, Shape, NoOne
    <2> QED
        BY <2>1, <2>2
<1>3. PICK who, obs :
         /\ who \in {"rx", "ka"} /\ ReopenBegins(who, obs)
         /\ (who = "rx" => rx.at = "reopen") /\ (who = "ka" => ka.at = "reopen")
    OBVIOUS
<1> DEFINE g == IF \E h \in Gens : Playing(h) THEN CHOOSE h \in Gens : Playing(h) ELSE NoGen
           e == IF g = NoGen THEN [st |-> st, err |-> "none", facts |-> facts, app |-> app]
                ELSE Ending(g, "stopped", FALSE)
<1>4. Kept(st, e.st) /\ Fields(e.app, AppFields) /\ e.app.sess = app.sess
    <2> HIDE DEF g
    <2>1. CASE g = NoGen
        BY <1>1, <2>1 DEF Kept, Shape
    <2>2. CASE g # NoGen
        BY <1>1, <2>2, EndingKept
    <2> QED
        BY <2>1, <2>2
<1>5. /\ st' = e.st
      /\ \/ /\ app' = [e.app EXCEPT !.ready = FALSE]
            /\ ro' = [by |-> who, at |-> "reset", ended |-> g # NoGen] /\ UNCHANGED <<rx, ka>>
         \/ /\ app' = [e.app EXCEPT !.ready = TRUE] /\ UNCHANGED ro
            /\ IF who = "rx" THEN RxFails(e.err) /\ UNCHANGED ka
               ELSE ka' = [ka EXCEPT !.at = "failed"] /\ UNCHANGED rx
    BY <1>3 DEF ReopenBegins
<1>6. (g # NoGen) \in BOOLEAN
    OBVIOUS
<1> HIDE DEF e, g
<1>7. Fields(app', AppFields) /\ app'.sess = app.sess
    BY <1>4, <1>5 DEF Fields, AppFields
<1>8. Kept(st, st')
    BY <1>4, <1>5
<1>9. CASE ro' = [by |-> who, at |-> "reset", ended |-> g # NoGen] /\ UNCHANGED <<rx, ka>>
    <2>1. /\ ro' \in OperationRec
          /\ ro'.by = who /\ ro'.at = "reset"
        BY <1>3, <1>6, <1>9
    <2>2. Shape'
        BY <1>1, <1>2, <1>7, <1>8, <1>9, <2>1 DEF Shape, Kept
    <2>3. Wire'
        BY <1>1, <1>2, <1>7, <1>8, <1>9, <2>1 DEF Wire, SameSession, Kept
    <2>4. Owner' /\ Grants'
        BY <1>1, <1>2, <1>3, <1>7, <1>8, <1>9, <2>1, FateKept DEF Owner, Grants, AtHand, Kept, NoOne
    <2> QED
        BY <2>2, <2>3, <2>4 DEF Inv
<1>10. CASE /\ UNCHANGED ro
            /\ IF who = "rx" THEN RxFails(e.err) /\ UNCHANGED ka
               ELSE ka' = [ka EXCEPT !.at = "failed"] /\ UNCHANGED rx
    <2>1. Fields(rx', RxFields) /\ rx'.sess \in {0, rx.sess} /\ (rx' = rx \/ rx'.at = "failed")
        BY <1>1, <1>10, RxMade DEF Shape
    <2>2. ka' \in KeepaliveRec
        BY <1>1, <1>10 DEF Shape
    <2>3. Shape'
        BY <1>1, <1>2, <1>7, <1>8, <1>10, <2>1, <2>2 DEF Shape, Kept
    <2>4. Wire'
        BY <1>1, <1>2, <1>7, <1>8, <1>10, <2>1 DEF Wire, SameSession, Kept
    <2>5. Owner' /\ Grants'
        BY <1>1, <1>2, <1>7, <1>8, <1>10, FateKept DEF Owner, Grants, AtHand, Kept, NoOne
    <2> QED
        BY <2>3, <2>4, <2>5 DEF Inv
<1> QED
    BY <1>5, <1>9, <1>10

\* The session is closed
LEMMA ClosesKeeps ==
    ASSUME Inv, ReopenCloses
    PROVE  Inv'
<1>1. Shape /\ Wire /\ Owner /\ Grants
    BY DEF Inv
<1>2. /\ UNCHANGED <<grants, rx, ka, run>> /\ st' = CloseMessage(st) /\ tr' = ClosedTransport
      /\ ~link' /\ srv' = NoWorker /\ ctl' = <<>> /\ ro' = [ro EXCEPT !.at = "release"]
      /\ ro.at = "reset" /\ app' = [app EXCEPT !.pl = NoPlaybacks, !.owner = NoGen, !.fence = 1]
    BY DEF ReopenCloses
<1>3. Fields(app', AppFields) /\ app'.sess = app.sess
    BY <1>1, <1>2 DEF Shape, Fields, AppFields
<1>4. /\ Kept(st, st') /\ st'.closed /\ ro'.at = "release" /\ ro'.by = ro.by
      /\ ro' \in OperationRec
      /\ Fields(tr', TrFields) /\ ~tr'.open /\ srv' \in WorkerRec /\ ctl' \in Seq(MessageRec)
    BY <1>1, <1>2, OperationMade
<1>5. Shape'
    BY <1>1, <1>2, <1>3, <1>4 DEF Shape, Kept
<1>6. Wire'
    <2>1. \A i \in DOMAIN ctl' : ctl'[i].kind # "audio"
        BY <1>2
    <2> QED
        BY <1>1, <1>2, <1>3, <1>4, <2>1 DEF Wire, SameSession, Kept
<1>7. Owner'
    BY <1>1, <1>2, <1>4 DEF Owner
<1>8. Grants'
    BY <1>1, <1>2, <1>3, <1>4, FateKept DEF Grants, AtHand, Kept
<1> QED
    BY <1>5, <1>6, <1>7, <1>8 DEF Inv

\* The grant is given back
LEMMA ReleasesKeeps ==
    ASSUME Inv, ReopenReleases
    PROVE  Inv'
<1>1. Shape /\ Wire /\ Owner /\ Grants
    BY DEF Inv
<1>2. /\ UNCHANGED <<tr, link, srv, ctl>> /\ st' = NoState /\ ro.at \in {"release", "torn"}
      /\ IF st.open THEN Released(ro.at = "torn") ELSE UNCHANGED grants
    BY DEF ReopenReleases, worker
<1>3. Fields(st', StFields) /\ ~st'.open /\ st'.closed /\ st'.profile = "wss"
    BY <1>1, <1>2, OperationMade
<1> DEFINE torn == ro.at = "torn"
<1>9. torn \in BOOLEAN /\ (torn => run.at \in {"cancel", "left"})
    BY <1>1 DEF Grants
<1>10. ASSUME ro'.at \notin {"handshake", "rollback", "cut"},
              run'.at \in {"starting", "running"} => run.at \in {"starting", "running"}
       PROVE  Fate'
    <2>1. ~AtHand' /\ (AtHand <=> st.open)
        BY <1>2, <1>3, <1>10 DEF AtHand
    <2>2. CASE st.open
        <3>1. Released(torn)
            BY <1>2, <2>2
        <3>2. run'.at \in {"starting", "running"} => run.at \in {"starting", "running"} /\ ~torn
            BY <1>9, <1>10
        <3> HIDE DEF torn
        <3> QED
            BY <1>1, <1>9, <2>1, <2>2, <3>1, <3>2, FateSettled DEF Grants
    <2>3. CASE ~st.open
        BY <1>1, <1>2, <1>10, <2>1, <2>3, FateKept DEF Grants
    <2> QED
        BY <2>2, <2>3
<1> HIDE DEF torn
<1>4. ~link /\ ctl = <<>> /\ Fields(tr, TrFields) /\ ~tr.open /\ ro.by # NoOne /\ run.at \notin {"closing", "pressed", "done"}
    BY <1>1, <1>2 DEF Wire, Owner
<1>5. CASE ro' = [ro EXCEPT !.at = "bootstrap"] /\ UNCHANGED <<rx, ka, run, app>>
    <2>1. /\ ro'.at = "bootstrap" /\ ro'.by = ro.by
          /\ ro' \in OperationRec
        BY <1>1, <1>5, OperationMade
    <2>2. Shape'
        BY <1>1, <1>2, <1>3, <1>5, <2>1 DEF Shape
    <2>3. Wire'
        BY <1>1, <1>2, <1>3, <1>4, <1>5 DEF Wire
    <2>4. Owner' /\ Grants'
        BY <1>1, <1>2, <1>3, <1>4, <1>5, <1>10, <2>1 DEF Owner, Grants
    <2> QED
        BY <2>2, <2>3, <2>4 DEF Inv
<1>6. CASE /\ ro' = NoOperation /\ OwnerFails("release_failed")
           /\ app' = [app EXCEPT !.ready = ~Cancelling]
    <2>1. Fields(app', AppFields) /\ app'.sess = app.sess
        BY <1>1, <1>6, OperationMade
    <2>2. Owner'
        BY <1>4, <1>6, OperationFails
    <2>3. Shape'
        BY <1>1, <1>2, <1>3, <1>6, <2>1, OwnerMade, OperationMade DEF Shape
    <2>4. run'.at \in {run.at, "cancel"} /\ ro'.at = "idle"
        BY <1>1, <1>6, OwnerMade, OperationMade
    <2>5. Wire'
        BY <1>2, <1>3, <1>4, <2>4 DEF Wire
    <2>6. Grants'
        BY <1>3, <1>4, <1>10, <2>4 DEF Grants
    <2> QED
        BY <2>2, <2>3, <2>5, <2>6 DEF Inv
<1> QED
    BY <1>5, <1>6 DEF ReopenReleases

\* A grant is received
LEMMA BootstrapKeeps ==
    ASSUME Inv, Bootstrap
    PROVE  Inv'
<1>1. Shape /\ Wire /\ Owner /\ Grants
    BY DEF Inv
<1>2. /\ UNCHANGED <<st, tr, link, srv, ctl, rx, ka, run, app>>
      /\ grants' = Append(grants, "held") /\ ro' = [ro EXCEPT !.at = "handshake"] /\ ro.at = "bootstrap"
      /\ ~Cancelling
    BY DEF Bootstrap, worker
<1>3. /\ ro'.at = "handshake" /\ ro'.by = ro.by
      /\ ro' \in OperationRec
    BY <1>1, <1>2, OperationMade
<1>4. Shape'
    BY <1>1, <1>2, <1>3 DEF Shape
<1>5. Wire'
    BY <1>1, <1>2, <1>3 DEF Wire, SameSession
<1>6. Owner'
    BY <1>1, <1>2, <1>3 DEF Owner
<1>7. Fate'
    <2>1. AtHand' /\ ~AtHand /\ run.at \in {"starting", "running"}
        BY <1>1, <1>2, <1>3 DEF AtHand, Grants, Owner, Cancelling, Shape, NoOne
    <2>2. grants \in Seq(Fates) /\ Len(grants) \in Nat /\ "held" \in Fates
        BY <1>1 DEF Grants, Fate, Fates
    <2>3. /\ grants' \in Seq(Fates) /\ Len(grants') = Len(grants) + 1 /\ grants'[Len(grants) + 1] = "held"
          /\ \A i \in 1..Len(grants) : grants'[i] = grants[i]
        BY <1>2, <2>2
    <2>4. \A i \in 1..Len(grants) : grants[i] \notin {"held", "cut"}
        BY <1>1, <2>1 DEF Grants, Fate
    <2> QED
        BY <2>1, <2>2, <2>3, <2>4 DEF Fate
<1>8. Grants'
    BY <1>1, <1>2, <1>3, <1>7 DEF Grants
<1> QED
    BY <1>4, <1>5, <1>6, <1>8 DEF Inv

\* The rollback begins
LEMMA RollbackKeeps ==
    ASSUME Inv, HandshakeFails
    PROVE  Inv'
<1>1. Shape /\ Wire /\ Owner /\ Grants
    BY DEF Inv
<1>2. /\ UNCHANGED <<st, tr, grants, link, srv, ctl, rx, ka, run, app>>
      /\ ro' = [ro EXCEPT !.at = "rollback"] /\ ro.at = "handshake"
    BY DEF HandshakeFails, session, worker
<1>3. /\ ro'.at = "rollback" /\ ro'.by = ro.by
      /\ ro' \in OperationRec
    BY <1>1, <1>2, OperationMade
<1>4. Shape'
    BY <1>1, <1>2, <1>3 DEF Shape
<1>5. Wire'
    BY <1>1, <1>2, <1>3 DEF Wire, SameSession
<1>6. Owner' /\ Grants'
    BY <1>1, <1>2, <1>3, FateKept DEF Owner, Grants, AtHand
<1> QED
    BY <1>4, <1>5, <1>6 DEF Inv

\* No grant, or a rollback that has ended: the operation ends with the session it found,
\* open or not.
LEMMA FailureKeeps ==
    ASSUME Inv, BootstrapFails \/ RollbackEnds
    PROVE  Inv'
<1>1. Shape /\ Wire /\ Owner /\ Grants
    BY DEF Inv
<1>2. /\ UNCHANGED <<st, tr, link, srv, ctl>> /\ ro' = NoOperation
      /\ ro.at \in {"bootstrap", "reset", "rollback", "cut"}
      /\ \E code : OwnerFails(code)
      /\ app' = [app EXCEPT !.ready = ~Cancelling /\ ro.by # "run"]
    BY DEF BootstrapFails, RollbackEnds, session, worker
<1> DEFINE cut == ro.at = "cut"
<1>3. ASSUME ro'.at = "idle", run'.at \in {"starting", "running"} => run.at \in {"starting", "running"}
      PROVE  Fate'
    <2>1. AtHand' <=> st.open
        BY <1>2, <1>3 DEF AtHand
    <2>2. CASE BootstrapFails
        <3>1. grants' = grants /\ (AtHand <=> st.open)
            BY <2>2 DEF BootstrapFails, session, AtHand
        <3> QED
            BY <1>1, <1>3, <2>1, <3>1, FateKept DEF Grants
    <2>3. CASE RollbackEnds
        <3>1. AtHand /\ ~st.open /\ Released(cut) /\ cut \in BOOLEAN /\ (cut => run.at \in {"cancel", "left"})
            BY <1>1, <2>3 DEF RollbackEnds, AtHand, Grants
        <3> HIDE DEF cut
        <3> QED
            BY <1>1, <1>3, <2>1, <3>1, FateSettled DEF Grants
    <2> QED
        BY <2>2, <2>3
<1> HIDE DEF cut
<1>4. Fields(app', AppFields) /\ app'.sess = app.sess
    BY <1>1, <1>2 DEF Shape, Fields, AppFields
<1>5. ro.by # NoOne /\ run.at \notin {"closing", "pressed", "done"}
    BY <1>1, <1>2 DEF Owner
<1>6. Owner'
    BY <1>2, <1>5, OperationFails
<1>7. Shape'
    BY <1>1, <1>2, <1>4, OwnerMade, OperationMade DEF Shape
<1>8. /\ run'.at = IF ro.by = "run" THEN "cancel" ELSE run.at
      /\ ro'.at = "idle" /\ rx'.sess = rx.sess /\ (rx'.at = "got" => rx.at = "got")
    BY <1>1, <1>2, OwnerMade, OperationMade
<1>9. Wire'
    <2>1. ro.by = "run" => ctl = <<>> /\ Fields(tr, TrFields) /\ ~tr.open
        BY <1>1 DEF Owner, Wire, Grants
    <2> QED
        BY <1>1, <1>2, <1>4, <1>5, <1>8, <2>1 DEF Wire, SameSession
<1>10. Grants'
    BY <1>2, <1>3, <1>4, <1>5, <1>8, FateKept DEF Grants, AtHand
<1> QED
    BY <1>6, <1>7, <1>9, <1>10 DEF Inv

\* The session opens
LEMMA HandshakeKeeps ==
    ASSUME Inv, NEW p \in Profiles, Handshake(p)
    PROVE  Inv'
<1>1. Shape /\ Wire /\ Owner /\ Grants
    BY DEF Inv
<1>2. /\ UNCHANGED <<grants, ctl>> /\ st' = Opened(p) /\ tr' = Connected(p) /\ link' = TRUE
      /\ srv' = [NoWorker EXCEPT !.up = TRUE] /\ ro' = NoOperation /\ OwnerGoesOn
      /\ ro.at = "handshake" /\ run.at \notin {"cancel", "left"}
      /\ app' = [app EXCEPT !.sess = @ + 1, !.ready = TRUE,
                            !.signal = @ \/ (run.counts /\ (ro.ended \/ (ro.by = "rx" /\ rx.owed)))]
    BY DEF Handshake, Cancelling
<1>3. Fields(app', AppFields) /\ app'.sess = app.sess + 1
    BY <1>1, <1>2 DEF Shape, Fields, AppFields
<1>4. Fields(st', StFields) /\ st'.open /\ st'.profile = p
    BY <1>2 DEF Opened, Fields, StFields
<1>5. p = "udp" \/ (Fields(tr', TrFields) /\ ~tr'.open)
    BY <1>1, <1>2, OperationMade DEF Connected
<1>6. srv' \in WorkerRec
    <2>1. NoWorker \in WorkerRec
        BY <1>1, OperationMade
    <2> QED
        BY <1>2, <2>1 DEF WorkerRec
<1>7. ro'.at = "idle" /\ ro'.by = NoOne
    BY <1>2 DEF NoOperation
<1>8. ctl = <<>> /\ ro.by \in {"run", "rx", "ka"} /\ run.at \in {"starting", "running"}
    <2>1. ~st.open
        BY <1>1, <1>2 DEF Grants
    <2> QED
        BY <1>1, <1>2, <2>1 DEF Wire, Owner, Shape, NoOne
<1>9. rx'.sess = rx.sess /\ rx.sess # app'.sess /\ rx'.sess \in Nat /\ rx'.sess <= app'.sess /\ app'.sess \in Nat
    BY <1>1, <1>2, <1>3, OwnerMade DEF Shape
<1>10. Shape'
    BY <1>1, <1>2, <1>3, <1>4, <1>6, <1>9, OwnerMade, OperationMade DEF Shape
<1>11. run'.at = "running"
    BY <1>1, <1>2, <1>8, OwnerMade DEF Owner
<1>12. Wire'
    <2>1. \A i \in DOMAIN ctl' : ctl'[i].kind # "audio"
        BY <1>2, <1>8
    <2> QED
        BY <1>4, <1>5, <1>7, <1>9, <1>11, <2>1 DEF Wire, SameSession
<1>13. Owner'
    BY <1>7, <1>11 DEF Owner, NoOne
<1>14. Grants'
    BY <1>1, <1>2, <1>3, <1>4, <1>7, <1>8, <1>11, FateKept DEF Grants, AtHand
<1> QED
    BY <1>10, <1>12, <1>13, <1>14 DEF Inv

----------------------------------------------------------------------------
(* The other tasks, the run and the worker.                                *)

\* The uplink and keepalive tasks leave the session alone.
LEMMA SendersKeep ==
    ASSUME Inv, UplinkFails \/ KeepaliveWaits \/ KeepaliveSends \/ KeepaliveLate
    PROVE  Inv'
<1>1. Shape /\ Wire /\ Owner /\ Grants
    BY DEF Inv
<1>2. UNCHANGED <<st, tr, grants, link, srv, ctl, rx, ro, run, app>> /\ ro.by = NoOne
    BY DEF UplinkFails, KeepaliveWaits, KeepaliveSends, KeepaliveLate, session, worker
<1>3. UNCHANGED ka \/ ka.at \in {"idle", "lock"}
    BY DEF UplinkFails, KeepaliveWaits, KeepaliveSends, KeepaliveLate
<1>4. ka' \in KeepaliveRec
    BY <1>1 DEF UplinkFails, KeepaliveWaits, KeepaliveSends, KeepaliveLate, Shape
<1>5. Shape'
    BY <1>1, <1>2, <1>4 DEF Shape
<1>6. Wire' /\ Grants'
    BY <1>1, <1>2, FateKept DEF Wire, Grants, AtHand, SameSession
<1>7. Owner'
    BY <1>1, <1>2, <1>3 DEF Owner, NoOne, Shape
<1> QED
    BY <1>5, <1>6, <1>7 DEF Inv

\* The run is ended.
LEMMA StopKeeps ==
    ASSUME Inv, run.at \in {"starting", "running"}, StopRunning
    PROVE  Inv'
<1>1. Shape /\ Wire /\ Owner /\ Grants
    BY DEF Inv
<1>2. /\ UNCHANGED <<st, grants, link>> /\ tr' = ClosedTransport /\ srv' = NoWorker /\ ctl' = <<>>
      /\ run' = [run EXCEPT !.at = "cancel", !.ok = ~Failed] /\ app' = [app EXCEPT !.ready = FALSE]
      /\ rx' = IF ro.by = "rx" \/ rx.at \in {"done", "failed"} THEN rx ELSE [Receiving EXCEPT !.at = "cancelled"]
      /\ ka' = IF ro.by = "ka" \/ ka.at = "failed" THEN ka ELSE [at |-> "cancelled", val |-> None]
      /\ ro' = IF ro.at = "rollback" THEN [ro EXCEPT !.at = "cut"] ELSE ro
    BY DEF StopRunning
<1>11. /\ ro' \in OperationRec /\ ro'.by = ro.by
       /\ ro'.at = IF ro.at = "rollback" THEN "cut" ELSE ro.at
    BY <1>1, <1>2, OperationMade DEF Shape
<1>3. /\ run' \in RunRec
      /\ run'.at = "cancel"
    <2>1. \A b \in BOOLEAN : LET r == [run EXCEPT !.at = "cancel", !.ok = b] IN
             /\ r \in RunRec
             /\ r.at = "cancel"
        BY <1>1 DEF Shape
    <2>2. (~Failed) \in BOOLEAN
        OBVIOUS
    <2> QED
        BY <1>2, <2>1, <2>2
<1>4. /\ Fields(rx', RxFields) /\ rx'.sess \in {0, rx.sess}
      /\ rx'.at = IF ro.by = "rx" \/ rx.at \in {"done", "failed"} THEN rx.at ELSE "cancelled"
    BY <1>1, <1>2 DEF Shape, Receiving, Fields, RxFields
<1>5. /\ ka' \in KeepaliveRec
      /\ ka'.at = IF ro.by = "ka" \/ ka.at = "failed" THEN ka.at ELSE "cancelled"
    BY <1>1, <1>2 DEF Shape, None
<1>6. Fields(app', AppFields) /\ app'.sess = app.sess
    BY <1>1, <1>2 DEF Shape, Fields, AppFields
<1>7. Shape'
    BY <1>1, <1>2, <1>3, <1>4, <1>5, <1>6, <1>11, OperationMade DEF Shape
<1>8. Wire'
    <2>1. (\A i \in DOMAIN ctl' : ctl'[i].kind # "audio") /\ Fields(tr', TrFields) /\ ~tr'.open
        BY <1>1, <1>2, OperationMade
    <2>2. ~st.open \/ ro.at \in {"release", "torn"} => st.closed /\ ~link
        BY <1>1 DEF Wire
    <2>3. rx'.at # "got"
        BY <1>1, <1>4 DEF Owner
    <2> QED
        BY <1>2, <1>3, <1>11, <2>1, <2>2, <2>3 DEF Wire
<1>9. Owner'
    BY <1>1, <1>3, <1>4, <1>5, <1>11 DEF Owner, NoOne
<1>10. Grants'
    <2>1. AtHand' <=> AtHand
        BY <1>2, <1>11 DEF AtHand
    <2> QED
        BY <1>1, <1>2, <1>3, <1>11, <2>1, FateKept DEF Grants
<1> QED
    BY <1>7, <1>8, <1>9, <1>10 DEF Inv

\* The session is closed at the run's end
LEMMA CleanUpKeeps ==
    ASSUME Inv, CleanUp
    PROVE  Inv'
<1>1. Shape /\ Wire /\ Owner /\ Grants
    BY DEF Inv
<1> DEFINE g == IF \E h \in Gens : Playing(h) THEN CHOOSE h \in Gens : Playing(h) ELSE NoGen
           e == Ending(g, "stopped", TRUE)
<1>2. UNCHANGED <<tr, grants, srv, ctl, rx, ka, ro>> /\ run.at = "cancel" /\ ro.by = NoOne /\ ~link'
    BY DEF CleanUp, worker
<1>3. /\ \/ st' = CloseMessage(e.st) /\ app' = e.app
         \/ st' = CloseMessage(st) /\ app' = app
      /\ \/ run' = [run EXCEPT !.at = "closing", !.ok = run.ok /\ e.err = "none"]
         \/ run' = [run EXCEPT !.at = "closing"]
    BY DEF CleanUp
<1> HIDE DEF g
<1>4. Kept(st, e.st) /\ Fields(e.app, AppFields) /\ e.app.sess = app.sess
    BY <1>1, EndingKept
<1> HIDE DEF e
<1>5. /\ run' \in RunRec
      /\ run'.at = "closing"
    <2>1. \A b \in BOOLEAN : LET r == [run EXCEPT !.at = "closing", !.ok = b] IN
             /\ r \in RunRec
             /\ r.at = "closing"
        BY <1>1 DEF Shape
    <2>2. (run.ok /\ e.err = "none") \in BOOLEAN
        OBVIOUS
    <2>3. CASE run' = [run EXCEPT !.at = "closing", !.ok = run.ok /\ e.err = "none"]
        BY <2>1, <2>2, <2>3
    <2>4. CASE run' = [run EXCEPT !.at = "closing"]
        BY <1>1, <2>4 DEF Shape
    <2> QED
        BY <1>3, <2>3, <2>4
<1>6. \A s : Kept(st, s) => Kept(st, CloseMessage(s)) /\ CloseMessage(s).closed
    BY DEF Kept, CloseMessage, Fields, StFields
<1>7. Kept(st, st') /\ st'.closed /\ Fields(app', AppFields) /\ app'.sess = app.sess
    <2>1. Kept(st, st) /\ Fields(app, AppFields)
        BY <1>1 DEF Kept, Shape
    <2> QED
        BY <1>3, <1>4, <1>6, <2>1
<1>8. Shape'
    BY <1>1, <1>2, <1>5, <1>7 DEF Shape, Kept
<1>9. Wire'
    BY <1>1, <1>2, <1>5, <1>7 DEF Wire, SameSession, Kept
<1>10. Owner' /\ Grants'
    BY <1>1, <1>2, <1>5, <1>7, FateKept DEF Owner, Grants, AtHand, Kept
<1> QED
    BY <1>8, <1>9, <1>10 DEF Inv

\* The last grant is given back
LEMMA CloseAllKeeps ==
    ASSUME Inv, CloseAll
    PROVE  Inv'
<1>1. Shape /\ Wire /\ Owner /\ Grants
    BY DEF Inv
<1>2. /\ UNCHANGED <<tr, link, srv, ctl, rx, ka, ro, app>> /\ run.at \in {"closing", "pressed"}
      /\ IF st.open THEN Released(run.at = "pressed") ELSE UNCHANGED grants
      /\ st' = NoState /\ run' = [run EXCEPT !.at = "done"]
    BY DEF CloseAll, worker
<1>3. ro.by = NoOne /\ ro.at = "idle"
    BY <1>1, <1>2 DEF Owner
<1>4. Fields(st', StFields) /\ ~st'.open /\ st'.closed /\ st'.profile = "wss"
    BY <1>1, <1>2, OperationMade
<1>5. /\ run' \in RunRec
      /\ run'.at = "done"
    BY <1>1, <1>2 DEF Shape
<1>6. Shape'
    BY <1>1, <1>2, <1>4, <1>5 DEF Shape
<1>7. Wire'
    BY <1>1, <1>2, <1>4 DEF Wire
<1>8. Fate'
    <2> DEFINE pressed == run.at = "pressed"
    <2>1. ~AtHand' /\ (AtHand <=> st.open)
        BY <1>2, <1>3, <1>4 DEF AtHand
    <2>2. CASE st.open
        <3>1. Released(pressed) /\ pressed \in BOOLEAN
            BY <1>2, <2>2
        <3> HIDE DEF pressed
        <3> QED
            BY <1>1, <1>5, <2>1, <2>2, <3>1, FateSettled DEF Grants
    <2>3. CASE ~st.open
        BY <1>1, <1>2, <1>5, <2>1, <2>3, FateKept DEF Grants
    <2> QED
        BY <2>2, <2>3
<1>9. Owner' /\ Grants'
    BY <1>1, <1>2, <1>3, <1>4, <1>5, <1>8 DEF Owner, Grants
<1> QED
    BY <1>6, <1>7, <1>9 DEF Inv

\* The run is cancelled in its clean-up
LEMMA AgainKeeps ==
    ASSUME Inv, CancelledAgain
    PROVE  Inv'
<1>1. Shape /\ Wire /\ Owner /\ Grants
    BY DEF Inv
<1>2. UNCHANGED <<st, tr, grants, link, srv, ctl, rx, ka, app>> /\ run.at \in {"cancel", "closing"}
    BY DEF CancelledAgain, session, worker
<1>3. /\ ro' \in OperationRec /\ ro'.by = ro.by
      /\ \/ ro'.at = ro.at
         \/ ro'.at = "cut" /\ ro.at = "rollback" /\ run.at = "cancel"
         \/ ro'.at = "torn" /\ ro.at = "release" /\ run.at = "cancel"
    BY <1>1 DEF CancelledAgain, Shape
<1>4. /\ run' \in RunRec
      /\ \/ run' = run
         \/ run'.at = "left" /\ run.at = "cancel" /\ ro.by # "run"
         \/ run'.at = "pressed" /\ run.at = "closing"
    BY <1>1 DEF CancelledAgain, Shape
<1>5. Shape'
    BY <1>1, <1>2, <1>3, <1>4 DEF Shape
<1>6. Wire'
    BY <1>1, <1>2, <1>3, <1>4 DEF Wire, SameSession
<1>7. Owner'
    BY <1>1, <1>2, <1>3, <1>4 DEF Owner, NoOne
<1>8. Grants'
    <2>1. AtHand' <=> AtHand
        BY <1>2, <1>3 DEF AtHand
    <2>2. ro'.at \in {"cut", "torn"} => run'.at \in {"cancel", "left"}
        BY <1>1, <1>2, <1>3, <1>4 DEF Grants, Owner, NoOne
    <2> QED
        BY <1>1, <1>2, <1>3, <1>4, <2>1, <2>2, FateKept DEF Grants
<1> QED
    BY <1>5, <1>6, <1>7, <1>8 DEF Inv

\* The messages of the worker are messages, and audio only where the profile has it.
Spoken(q) == q \in Seq(MessageRec) /\ (st.profile = "udp" => \A i \in DOMAIN q : q[i].kind # "audio")

\* A worker or a network step leaves the client alone.
LEMMA OutsideKeeps ==
    ASSUME Inv, UNCHANGED <<st, tr, grants, rx, ka, ro, run, app>>, srv' \in WorkerRec, link' => link,
           \/ ctl' = ctl
           \/ st.open /\ ro.at \notin {"release", "torn"} /\ run.at = "running" /\ Spoken(ctl')
    PROVE  Inv'
<1>1. Shape /\ Wire /\ Owner /\ Grants
    BY DEF Inv
<1>2. Shape'
    BY <1>1 DEF Shape, Spoken
<1>3. Wire'
    <2>1. st.profile = "udp" => \A i \in DOMAIN ctl' : ctl'[i].kind # "audio"
        BY <1>1 DEF Wire, Spoken
    <2>2. ~st.open \/ ro.at \in {"release", "torn"} \/ run.at \notin {"starting", "running"} => ctl' = ctl
        OBVIOUS
    <2> QED
        BY <1>1, <2>1, <2>2 DEF Wire, SameSession
<1>4. Owner' /\ Grants'
    BY <1>1, FateKept DEF Owner, Grants, AtHand
<1> QED
    BY <1>2, <1>3, <1>4 DEF Inv

\* Messages are added at the end.
LEMMA SpokenMore ==
    ASSUME Inv, NEW m \in MessageRec, NEW q, Spoken(q), st.profile = "udp" => m.kind # "audio"
    PROVE  Spoken(Append(q, m))
<1>1. q \in Seq(MessageRec)
    BY DEF Spoken
<1>2. Append(q, m) \in Seq(MessageRec) /\ DOMAIN Append(q, m) = 1 .. Len(q) + 1
      /\ (\A i \in 1 .. Len(q) : i \in DOMAIN q /\ Append(q, m)[i] = q[i]) /\ Append(q, m)[Len(q) + 1] = m
      /\ Len(q) \in Nat
    BY <1>1
<1>3. \A i \in 1 .. Len(q) + 1 : i \in 1 .. Len(q) \/ i = Len(q) + 1
    BY <1>2
<1> QED
    BY <1>2, <1>3 DEF Spoken

\* What the worker makes.
LEMMA WorkerMade ==
    ASSUME Shape
    PROVE  /\ \A m \in {Message("begin", srv.gen + 1, None, None), Message("completed", srv.gen, srv.last, None),
                        Message("stop", srv.gen, srv.gen + 1, None), Message("cancelled", srv.gen, None, None),
                        Message("close", NoGen, None, None)} : m \in MessageRec /\ m.kind # "audio"
           /\ Message("audio", srv.gen, NextPacket, srv.ts + 1) \in MessageRec
           /\ Message("audio", srv.gen, NextPacket, srv.ts + 1).n \in Int
           /\ srv.gen + 1 \in Nat /\ srv.sent + 1 \in Nat /\ srv.ts + 1 \in Nat /\ None \in Int
<1>1. srv.gen \in Nat /\ srv.sent \in Nat /\ srv.ts \in Nat /\ srv.last \in Int
    BY DEF Shape, WorkerRec
<1>2. NextPacket \in Int /\ None \in Int /\ NoGen \in Nat
    BY <1>1 DEF NextPacket, None, NoGen
<1>3. srv.gen + 1 \in Nat /\ srv.sent + 1 \in Nat /\ srv.ts + 1 \in Nat /\ srv.gen + 1 \in Int /\ srv.ts + 1 \in Int
    BY <1>1
<1>4. /\ Message("begin", srv.gen + 1, None, None) \in MessageRec
      /\ Message("begin", srv.gen + 1, None, None).kind = "begin"
      /\ Message("stop", srv.gen, srv.gen + 1, None) \in MessageRec
      /\ Message("stop", srv.gen, srv.gen + 1, None).kind = "stop"
    BY <1>1, <1>2, <1>3 DEF Kinds, Message, MessageRec
<1>5. /\ Message("completed", srv.gen, srv.last, None) \in MessageRec
      /\ Message("completed", srv.gen, srv.last, None).kind = "completed"
      /\ Message("cancelled", srv.gen, None, None) \in MessageRec
      /\ Message("cancelled", srv.gen, None, None).kind = "cancelled"
      /\ Message("close", NoGen, None, None) \in MessageRec
      /\ Message("close", NoGen, None, None).kind = "close"
    BY <1>1, <1>2, <1>3 DEF Kinds, Message, MessageRec
<1>6. /\ Message("audio", srv.gen, NextPacket, srv.ts + 1) \in MessageRec
      /\ Message("audio", srv.gen, NextPacket, srv.ts + 1).n \in Int
    BY <1>1, <1>2, <1>3 DEF Kinds, Message, MessageRec
<1> QED
    BY <1>2, <1>3, <1>4, <1>5, <1>6

\* The worker's steps
LEMMA WorkerKeeps ==
    ASSUME Inv, Worker
    PROVE  Inv'
<1>1. Shape /\ Wire /\ Owner /\ Grants /\ srv \in WorkerRec
    BY DEF Inv, Shape
<1>2. UNCHANGED <<st, tr, grants, rx, ka, ro, run, app, link>>
    BY DEF Worker, ServerBegins, ServerAudio, ServerKeepalive, ServerCompletes, ServerStops, ServerCloses,
       ServerReads, ServerStep, session, tasks
<1>3. ASSUME ServerStep PROVE st.open /\ ro.at \notin {"release", "torn"} /\ run.at = "running" /\ Spoken(ctl)
    BY <1>1, <1>3 DEF ServerStep, Wire, Shape, Spoken
<1>4. CASE ServerBegins
    <2>1. srv' \in WorkerRec
        <3>1. srv' = [srv EXCEPT !.gen = srv.gen + 1, !.busy = TRUE, !.term = FALSE, !.stop = FALSE, !.last = None]
            BY <1>4 DEF ServerBegins
        <3>2. srv.gen + 1 \in Nat /\ None \in Int
            BY <1>1, WorkerMade
        <3> QED
            BY <1>1, <3>1, <3>2 DEF WorkerRec
    <2>2. Spoken(ctl')
        <3>1. /\ Message("begin", srv.gen + 1, None, None) \in MessageRec
              /\ Message("begin", srv.gen + 1, None, None).kind # "audio"
            BY <1>1, WorkerMade
        <3>2. ctl' = Append(ctl, Message("begin", srv.gen + 1, None, None)) /\ ServerStep
            BY <1>4 DEF ServerBegins, Says
        <3> QED
            BY <1>3, <3>1, <3>2, SpokenMore
    <2> QED
        BY <1>2, <1>3, <1>4, <2>1, <2>2, OutsideKeeps DEF ServerBegins
<1>5. CASE ServerAudio
    <2> DEFINE p == Message("audio", srv.gen, NextPacket, srv.ts + 1)
    <2>1. p \in MessageRec /\ p.n \in Int
        BY <1>1, WorkerMade
    <2>2. srv' = [srv EXCEPT !.sent = @ + 1, !.ts = @ + 1, !.last = p.n] /\ ServerStep
          /\ (ctl' = ctl \/ (st.profile = "wss" /\ ctl' = Append(ctl, p)))
        BY <1>5 DEF ServerAudio, Says
    <2> HIDE DEF p
    <2>3. srv' \in WorkerRec
        <3>1. srv.sent + 1 \in Nat /\ srv.ts + 1 \in Nat /\ p.n \in Int
            BY <1>1, <2>1, WorkerMade
        <3> QED
            BY <1>1, <2>2, <3>1 DEF WorkerRec
    <2>4. ctl' = ctl \/ Spoken(ctl')
        BY <1>3, <2>1, <2>2, SpokenMore
    <2> QED
        BY <1>2, <1>3, <2>2, <2>3, <2>4, OutsideKeeps
<1>6. CASE ServerKeepalive
    <2>1. srv' \in WorkerRec /\ ctl' = ctl
        BY <1>1, <1>6 DEF ServerKeepalive, WorkerRec
    <2> QED
        BY <1>2, <2>1, OutsideKeeps
<1>7. CASE ServerCompletes
    <2>1. srv' \in WorkerRec
        BY <1>1, <1>7 DEF ServerCompletes, WorkerRec
    <2>2. Spoken(ctl')
        <3>1. /\ Message("completed", srv.gen, srv.last, None) \in MessageRec
              /\ Message("completed", srv.gen, srv.last, None).kind # "audio"
            BY <1>1, WorkerMade
        <3>2. ctl' = Append(ctl, Message("completed", srv.gen, srv.last, None)) /\ ServerStep
            BY <1>7 DEF ServerCompletes, Says
        <3> QED
            BY <1>3, <3>1, <3>2, SpokenMore
    <2> QED
        BY <1>2, <1>3, <1>7, <2>1, <2>2, OutsideKeeps DEF ServerCompletes
<1>8. CASE ServerStops
    <2> DEFINE a == Message("stop", srv.gen, srv.gen + 1, None)
               b == Message("cancelled", srv.gen, None, None)
    <2>1. srv' \in WorkerRec
        BY <1>1, <1>8 DEF ServerStops, WorkerRec
    <2>2. a \in MessageRec /\ a.kind # "audio" /\ b \in MessageRec /\ b.kind # "audio"
        BY <1>1, WorkerMade
    <2>3. ctl' \in {ctl \o <<a>> \o <<>>, ctl \o <<a>> \o <<b>>} /\ ServerStep
        BY <1>8 DEF ServerStops
    <2> HIDE DEF a, b
    <2>4. ctl \o <<a>> \o <<>> = Append(ctl, a) /\ ctl \o <<a>> \o <<b>> = Append(Append(ctl, a), b)
        BY <1>1, <2>2 DEF Shape
    <2>5. Spoken(Append(ctl, a))
        BY <1>3, <2>2, <2>3, SpokenMore
    <2>6. Spoken(Append(Append(ctl, a), b))
        BY <2>2, <2>5, SpokenMore
    <2> QED
        BY <1>2, <1>3, <2>1, <2>3, <2>4, <2>5, <2>6, OutsideKeeps
<1>9. CASE ServerCloses
    <2>1. srv' \in WorkerRec
        BY <1>1, <1>9 DEF ServerCloses, WorkerRec
    <2>2. Spoken(ctl')
        <3>1. /\ Message("close", NoGen, None, None) \in MessageRec
              /\ Message("close", NoGen, None, None).kind # "audio"
            BY <1>1, WorkerMade
        <3>2. ctl' = Append(ctl, Message("close", NoGen, None, None)) /\ ServerStep
            BY <1>9 DEF ServerCloses, Says
        <3> QED
            BY <1>3, <3>1, <3>2, SpokenMore
    <2> QED
        BY <1>2, <1>3, <1>9, <2>1, <2>2, OutsideKeeps DEF ServerCloses
<1>10. CASE ServerReads
    <2>1. srv' \in WorkerRec /\ ctl' = ctl
        BY <1>1, <1>10 DEF ServerReads, WorkerRec
    <2> QED
        BY <1>2, <2>1, OutsideKeeps
<1> QED
    BY <1>4, <1>5, <1>6, <1>7, <1>8, <1>9, <1>10 DEF Worker

\* The network's steps
LEMMA NetworkKeeps ==
    ASSUME Inv, LinkLost \/ RefreshDue
    PROVE  Inv'
<1>1. srv \in WorkerRec
    BY DEF Inv, Shape
<1>2. UNCHANGED <<st, tr, grants, rx, ka, ro, run, app, ctl>>
    BY DEF LinkLost, RefreshDue, tasks
<1>3. link' => link
    BY Zenon DEF LinkLost, RefreshDue
<1>4. srv' \in WorkerRec
    BY <1>1 DEF LinkLost, RefreshDue, WorkerRec
<1> QED
    BY <1>2, <1>3, <1>4, OutsideKeeps

----------------------------------------------------------------------------
(* The theorem.                                                            *)

\* The run starts with a connect.
LEMMA InvInit == Init => Inv
<1> SUFFICES ASSUME Init PROVE Inv
    OBVIOUS
<1>1. Fields(st, StFields) /\ ~st.open /\ st.closed /\ st.profile = "wss"
    BY DEF Init, NoState, Opened, Fields, StFields
<1>2. Fields(tr, TrFields) /\ ~tr.open
    BY DEF Init, ClosedTransport, OpenTransport, Fields, TrFields
<1>3. Fields(app, AppFields) /\ app.sess = 0
    BY DEF Init, Fields, AppFields
<1>4. Fields(rx, RxFields) /\ rx.sess = 0 /\ rx.at = "new"
    BY DEF Init, Receiving, Fields, RxFields
<1>5. ka \in KeepaliveRec /\ ka.at = "new"
    BY DEF Init, None
<1>6. /\ ro \in OperationRec
      /\ ro.by = "run" /\ ro.at = "bootstrap"
    BY DEF Init
<1>7. /\ run \in RunRec
      /\ run.at = "starting"
    BY DEF Init
<1>8. srv \in WorkerRec /\ ctl = <<>> /\ ctl \in Seq(MessageRec) /\ ~link /\ grants = <<>>
    BY DEF Init, NoWorker, WorkerRec, None, NoGen
<1>9. Shape
    BY <1>1, <1>3, <1>4, <1>5, <1>6, <1>7, <1>8 DEF Shape
<1>10. Wire
    BY <1>1, <1>2, <1>4, <1>7, <1>8 DEF Wire
<1>11. Owner
    BY <1>4, <1>5, <1>6, <1>7 DEF Owner, NoOne
<1>12. Grants
    <2>1. grants \in Seq(Fates) /\ Len(grants) = 0
        BY <1>8
    <2> QED
        BY <1>1, <1>6, <1>7, <2>1 DEF Grants, Fate, AtHand
<1> QED
    BY <1>9, <1>10, <1>11, <1>12 DEF Inv

\* Every step keeps the invariant.
LEMMA InvStep ==
    ASSUME Inv, [Next]_vars
    PROVE  Inv'
<1>1. CASE Receiver
    <2>1. CASE ReceiveTimer
        <3>1. rx.at = "wait" /\ tr.open /\ \E r : Received(r)
            BY <2>1 DEF ReceiveTimer
        <3> QED
            BY <3>1, ReceivedFrame, ReceiverKeeps
    <2> QED
        BY <1>1, <2>1, NextEventFrame, MediaReadyFrame, ControlReadyFrame, FailsFrame, HandleEventFrame,
           RenderedFrame, DrainedFrame, ReceiverKeeps DEF Receiver
<1>2. CASE Operation
    <2>1. CASE ReopenEnter
        BY <2>1, StaleKeeps, BeginsKeeps DEF ReopenEnter
    <2> QED
        BY <1>2, <2>1, ClosesKeeps, ReleasesKeeps, RollbackKeeps, FailureKeeps, BootstrapKeeps,
           HandshakeKeeps DEF Operation
<1>3. CASE Runner \/ StopRequested
    BY <1>3, StopKeeps, CleanUpKeeps, CloseAllKeeps, AgainKeeps DEF Runner, TaskEnds, CompletionReached, StopRequested
<1>4. CASE Network
    <2>1. ASSUME NEW p \in net, ReadDatagram(p) PROVE Inv'
        <3>1. rx.at = "wait" /\ tr.open /\ \E r : Received(r)
            BY <2>1 DEF ReadDatagram
        <3> QED
            BY <3>1, ReceivedFrame, ReceiverKeeps
    <2> QED
        BY <1>4, <2>1, NetworkKeeps DEF Network
<1>5. CASE UNCHANGED vars
    BY <1>5 DEF vars, session, worker, tasks, Inv, Shape, Wire, Owner, Grants, Fate, AtHand, SameSession
<1> QED
    BY <1>1, <1>2, <1>3, <1>4, <1>5, WorkerKeeps, FailsFrame, ReceiverKeeps, SendersKeep DEF Next

\* At every moment the desktop client holds at most one grant, that of the session it has
\* open, and when DesktopApp.run has returned it holds none: each has been given back, or
\* its release failed, or, and then it was the last, its release was cut short by a
\* cancellation of the run.  Whichever task failed, was cancelled or raced another for the
\* reopen, and whatever the network delivered; a run cancelled in its clean-up before the
\* close is excepted.
THEOREM GrantsGoBack == Spec => []GrantsReturned
<1>1. Inv => GrantsReturned
    <2> SUFFICES ASSUME Inv PROVE GrantsReturned
        OBVIOUS
    <2>1. Fate /\ (run.at = "done" => ~AtHand)
        BY DEF Inv, Grants, Owner, AtHand
    <2>2. grants \in Seq(Fates) /\ DOMAIN grants = 1..Len(grants)
        BY <2>1 DEF Fate
    <2>3. \A i \in DOMAIN grants : grants[i] \in {"held", "cut"} => i = Len(grants)
        BY <2>1, <2>2 DEF Fate
    <2>4. st.open => grants # <<>> /\ Last(grants) = "held"
        <3>1. st.open => Len(grants) > 0 /\ grants[Len(grants)] = "held"
            BY <2>1 DEF Fate, AtHand
        <3>2. Last(grants) = grants[Len(grants)]
            BY DEF Last
        <3>3. Len(grants) > 0 => grants # <<>>
            BY <2>2
        <3> QED
            BY <3>1, <3>2, <3>3
    <2>5. run.at = "done" => \A i \in DOMAIN grants : grants[i] # "held"
        BY <2>1, <2>2 DEF Fate
    <2>6. run.at \in {"starting", "running"} => \A i \in DOMAIN grants : grants[i] # "cut"
        BY <2>1, <2>2 DEF Fate
    <2> QED
        BY <2>3, <2>4, <2>5, <2>6 DEF GrantsReturned
<1> QED
    BY <1>1, InvInit, InvStep, PTL DEF Spec
----------------------------------------------------------------------------
(* A recovery finishes.  Which playbacks the session state takes for open  *)
(* decides who may end one, hence who may signal the waiter.               *)

PbFields == {"known", "started", "ended", "stopped", "fence", "term", "final", "first", "last", "ts"}

\* The table of the playbacks.
Booked(s) == s.pb = [g \in Gens |-> s.pb[g]] /\ \A g \in Gens : Fields(s.pb[g], PbFields)

\* The playbacks that were begun and have not ended.
LiveIn(s) == {g \in Gens : s.pb[g].known /\ ~s.pb[g].ended}

\* There is one at most, the current one.
Ledger(s) == Fields(s, StFields) /\ Booked(s) /\ \A g \in LiveIn(s) : s.current = g

\* One field of one playback is written, or one of the session.
Written(s, t, g, x, v) == t = [s EXCEPT !.pb[g][x] = v]
Reads(t, g, x, v) == g \in Gens => t.pb[g][x] = v
Elsewhere(s, t, g, x) == \A h \in Gens : \A y \in PbFields : (h # g \/ y # x) => t.pb[h][y] = s.pb[h][y]
Changed(s, t, x, v) == t = [s EXCEPT ![x] = v]

\* What is written is read, and the rest is as it was.
LEMMA BookWritten ==
    ASSUME NEW s, Fields(s, StFields), Booked(s), NEW g, NEW x \in PbFields, NEW v,
           NEW t, Written(s, t, g, x, v)
    PROVE  /\ Fields(t, StFields) /\ Booked(t) /\ t.current = s.current
           /\ Reads(t, g, x, v) /\ Elsewhere(s, t, g, x)
<1>1. t.pb = [s.pb EXCEPT ![g] = [s.pb[g] EXCEPT ![x] = v]] /\ t.current = s.current
    BY DEF Fields, StFields, Written
<1>2. Fields(t, StFields)
    BY DEF Fields, StFields, Written
<1>3. s.pb = [h \in Gens |-> s.pb[h]] /\ \A h \in Gens : s.pb[h] = [y \in PbFields |-> s.pb[h][y]]
    BY DEF Booked, Fields
<1>4. \A h \in Gens : t.pb[h] = IF h = g THEN [s.pb[g] EXCEPT ![x] = v] ELSE s.pb[h]
    BY <1>1, <1>3
<1>5. t.pb = [h \in Gens |-> t.pb[h]]
    BY <1>1, <1>3
<1>6. g \in Gens => t.pb[g] = [y \in PbFields |-> IF y = x THEN v ELSE s.pb[g][y]]
    BY <1>3, <1>4
<1>7. \A h \in Gens : Fields(t.pb[h], PbFields)
    BY <1>3, <1>4, <1>6 DEF Fields
<1>8. Elsewhere(s, t, g, x)
    BY <1>4, <1>6 DEF Elsewhere
<1>9. Booked(t)
    BY <1>5, <1>7 DEF Booked
<1>10. Reads(t, g, x, v)
    BY <1>6 DEF Reads
<1> QED
    BY <1>1, <1>2, <1>8, <1>9, <1>10

\* The fields that do not say whether a playback is open.
Marks == PbFields \ {"known", "ended"}

\* Another field than those that say whether a playback is open.
LEMMA MarkWritten ==
    ASSUME NEW s, Ledger(s), NEW g, NEW x \in Marks, NEW v,
           NEW t, Written(s, t, g, x, v)
    PROVE  Ledger(t) /\ LiveIn(t) = LiveIn(s)
<1>1. /\ Fields(t, StFields) /\ Booked(t) /\ t.current = s.current
      /\ \A h \in Gens : t.pb[h].known = s.pb[h].known /\ t.pb[h].ended = s.pb[h].ended
    <2>1. Fields(s, StFields) /\ Booked(s) /\ x \in PbFields
        BY DEF Ledger, Marks
    <2>2. /\ Fields(t, StFields) /\ Booked(t) /\ t.current = s.current
          /\ Elsewhere(s, t, g, x)
        BY <2>1, BookWritten
    <2>3. {"known", "ended"} \subseteq PbFields \ {x}
        BY DEF PbFields, Marks
    <2>4. \A h \in Gens : t.pb[h]["known"] = s.pb[h]["known"] /\ t.pb[h]["ended"] = s.pb[h]["ended"]
        BY <2>2, <2>3 DEF Elsewhere
    <2> QED
        BY <2>2, <2>4
<1>2. LiveIn(t) = LiveIn(s)
    BY <1>1 DEF LiveIn
<1> QED
    BY <1>1, <1>2 DEF Ledger

\* A field of the session that says nothing of playbacks.
LEMMA SessionWritten ==
    ASSUME NEW s, Ledger(s), NEW x \in StFields \ {"pb", "current"}, NEW v, NEW t, Changed(s, t, x, v)
    PROVE  Ledger(t) /\ LiveIn(t) = LiveIn(s)
<1>1. Fields(t, StFields) /\ t.pb = s.pb /\ t.current = s.current
    BY DEF Ledger, Fields, StFields, Changed
<1>2. LiveIn(t) = LiveIn(s)
    BY <1>1 DEF LiveIn
<1> QED
    BY <1>1, <1>2 DEF Ledger, Booked

\* A state in which no playback is known.
LEMMA EmptyLedger ==
    /\ \A p : Ledger(Opened(p)) /\ LiveIn(Opened(p)) = {}
    /\ Ledger(NoState) /\ LiveIn(NoState) = {}
<1>1. ASSUME NEW s, Fields(s, StFields), s.pb = [g \in Gens |-> Unheard]
      PROVE  Ledger(s) /\ LiveIn(s) = {}
    <2>1. Fields(Unheard, PbFields) /\ ~Unheard.known
        BY DEF Unheard, Fields, PbFields
    <2> HIDE DEF Unheard
    <2>2. LiveIn(s) = {}
        BY <1>1, <2>1 DEF LiveIn
    <2> QED
        BY <1>1, <2>1, <2>2 DEF Ledger, Booked
<1>2. \A p : Fields(Opened(p), StFields) /\ Opened(p).pb = [g \in Gens |-> Unheard]
    BY DEF Opened, Fields, StFields
<1>3. Fields(NoState, StFields) /\ NoState.pb = [g \in Gens |-> Unheard]
    <2>1. NoState = [Opened("wss") EXCEPT !.open = FALSE, !.closed = TRUE]
        BY DEF NoState
    <2> HIDE DEF Opened
    <2> QED
        BY <1>2, <2>1 DEF Fields, StFields
<1> QED
    BY <1>1, <1>2, <1>3
\* response.begin opens its playback, and only where none is open.
LEMMA BeginLives ==
    ASSUME NEW s, Ledger(s), NEW m
    PROVE  /\ Ledger(AcceptBegin(s, m).st)
           /\ \/ AcceptBegin(s, m).st = s
              \/ /\ AcceptBegin(s, m).err = "none" /\ AcceptBegin(s, m).event = m
                 /\ LiveIn(AcceptBegin(s, m).st) \subseteq {m.gen}
<1> DEFINE a == [s EXCEPT !.highest = m.gen, !.current = m.gen]
           b == [a EXCEPT !.pb[m.gen].known = TRUE]
<1>1. \/ AcceptBegin(s, m).st = s
      \/ AcceptBegin(s, m).st = b /\ s.current = NoGen /\ AcceptBegin(s, m).err = "none" /\ AcceptBegin(s, m).event = m
    BY DEF AcceptBegin, Raises, Returns
<1>2. CASE AcceptBegin(s, m).st = b /\ s.current = NoGen /\ AcceptBegin(s, m).err = "none" /\ AcceptBegin(s, m).event = m
    <2>1. NoGen \notin Gens
        BY DEF NoGen, Gens
    <2>2. LiveIn(s) = {}
        BY <1>2, <2>1 DEF Ledger, LiveIn
    <2>3. Fields(a, StFields) /\ a.pb = s.pb /\ a.current = m.gen
        BY DEF Ledger, Fields, StFields
    <2>4. Booked(a)
        BY <2>3 DEF Ledger, Booked
    <2> DEFINE yes == TRUE
    <2>5. Written(a, b, m.gen, "known", yes)
        BY DEF Written
    <2> HIDE DEF a, b, yes
    <2>6. "known" \in PbFields /\ "ended" \in PbFields
        BY DEF PbFields
    <2>7. Fields(b, StFields) /\ Booked(b) /\ b.current = m.gen /\ Elsewhere(a, b, m.gen, "known")
        BY <2>3, <2>4, <2>5, <2>6, BookWritten
    <2>8. \A h \in Gens : h # m.gen => b.pb[h]["known"] = s.pb[h]["known"] /\ b.pb[h]["ended"] = s.pb[h]["ended"]
        BY <2>3, <2>6, <2>7 DEF Elsewhere
    <2>9. LiveIn(b) \subseteq {m.gen}
        BY <2>2, <2>8 DEF LiveIn
    <2> QED
        BY <1>2, <2>7, <2>9 DEF Ledger
<1> QED
    BY <1>1, <1>2

\* response.end and playback.stop leave it to the endpoint to end a playback.
LEMMA EndLives ==
    ASSUME NEW s, Ledger(s), NEW m
    PROVE  /\ Ledger(AcceptEnd(s, m).st) /\ LiveIn(AcceptEnd(s, m).st) = LiveIn(s)
           /\ Ledger(AcceptStop(s, m).st) /\ LiveIn(AcceptStop(s, m).st) = LiveIn(s)
<1>0. {"term", "final", "stopped", "fence"} \subseteq Marks /\ "fence" \in StFields \ {"pb", "current"}
    BY DEF Marks, PbFields, StFields
<1>1. Ledger(AcceptEnd(s, m).st) /\ LiveIn(AcceptEnd(s, m).st) = LiveIn(s)
    <2> DEFINE w == IF m.kind = "completed" THEN m.n ELSE s.pb[m.gen].final
               a == [s EXCEPT !.pb[m.gen].term = TRUE]
               b == [a EXCEPT !.pb[m.gen].final = w]
    <2>1. AcceptEnd(s, m).st \in {s, b}
        BY DEF AcceptEnd, Raises, Returns
    <2> DEFINE yes == TRUE
    <2>2. Written(s, a, m.gen, "term", yes)
        BY DEF Written
    <2> HIDE DEF w, yes
    <2>3. Written(a, b, m.gen, "final", w)
        BY DEF Written
    <2> HIDE DEF a, b
    <2>4. Ledger(a) /\ LiveIn(a) = LiveIn(s)
        BY <1>0, <2>2, MarkWritten
    <2>5. Ledger(b) /\ LiveIn(b) = LiveIn(s)
        BY <1>0, <2>3, <2>4, MarkWritten
    <2> QED
        BY <2>1, <2>5
<1>2. Ledger(AcceptStop(s, m).st) /\ LiveIn(AcceptStop(s, m).st) = LiveIn(s)
    <2> DEFINE a == [s EXCEPT !.fence = m.n]
               b == [a EXCEPT !.pb[m.gen].stopped = TRUE]
               c == [b EXCEPT !.pb[m.gen].fence = m.n]
    <2>1. AcceptStop(s, m).st \in {s, c}
        BY DEF AcceptStop, Raises, Returns
    <2>2. Changed(s, a, "fence", m.n)
        BY DEF Changed
    <2> DEFINE yes == TRUE
    <2>3. Written(a, b, m.gen, "stopped", yes) /\ Written(b, c, m.gen, "fence", m.n)
        BY DEF Written
    <2> HIDE DEF a, b, c, yes
    <2>4. Ledger(a) /\ LiveIn(a) = LiveIn(s)
        BY <1>0, <2>2, SessionWritten
    <2>5. Ledger(b) /\ LiveIn(b) = LiveIn(s)
        BY <1>0, <2>3, <2>4, MarkWritten
    <2>6. Ledger(c) /\ LiveIn(c) = LiveIn(s)
        BY <1>0, <2>3, <2>5, MarkWritten
    <2> QED
        BY <2>1, <2>6
<1> QED
    BY <1>1, <1>2

\* accept_control opens a playback only with the begin it returns.
Opens(s, r, m) ==
    /\ Ledger(r.st)
    /\ \/ LiveIn(r.st) \subseteq LiveIn(s)
       \/ r.err = "none" /\ r.event = m /\ m.kind = "begin" /\ LiveIn(r.st) \subseteq {m.gen}

\* Every kind of message.
LEMMA ControlLives ==
    ASSUME NEW s, Ledger(s), NEW m, m.kind \in Kinds \ {"audio"}
    PROVE  Opens(s, AcceptControl(s, m), m)
<1>1. CASE s.closed
    BY <1>1 DEF AcceptControl, Raises, Opens
<1>2. CASE ~s.closed /\ m.kind = "begin"
    <2>1. AcceptControl(s, m) = AcceptBegin(s, m)
        BY <1>2 DEF AcceptControl
    <2> DEFINE r == AcceptBegin(s, m)
    <2>2. /\ Ledger(r.st)
          /\ r.st = s \/ (r.err = "none" /\ r.event = m /\ LiveIn(r.st) \subseteq {m.gen})
        BY BeginLives
    <2> HIDE DEF r
    <2>3. Opens(s, r, m)
        BY <1>2, <2>2 DEF Opens
    <2> QED
        BY <2>1, <2>3 DEF r
<1>3. CASE ~s.closed /\ m.kind \in {"completed", "cancelled", "stop"}
    <2>1. AcceptControl(s, m) \in {AcceptEnd(s, m), AcceptStop(s, m)}
        BY <1>3 DEF AcceptControl
    <2> QED
        BY <2>1, EndLives DEF Opens
<1>4. CASE ~s.closed /\ m.kind = "close"
    <2>1. AcceptControl(s, m).st = [s EXCEPT !.closed = TRUE]
        BY <1>4 DEF AcceptControl, Returns
    <2>2. Changed(s, AcceptControl(s, m).st, "closed", TRUE)
        BY <2>1 DEF Changed
    <2>3. "closed" \in StFields \ {"pb", "current"}
        BY DEF StFields
    <2> QED
        BY <2>2, <2>3, SessionWritten DEF Opens
<1> QED
    BY <1>1, <1>2, <1>3, <1>4 DEF Kinds

\* Media opens and ends nothing.
LEMMA MediaLives ==
    ASSUME NEW s, Ledger(s)
    PROVE  /\ \A p : Ledger(AcceptMedia(s, p).st) /\ LiveIn(AcceptMedia(s, p).st) = LiveIn(s)
           /\ Ledger(MediaResult(s).st) /\ LiveIn(MediaResult(s).st) = LiveIn(s)
<1>0. {"ts", "last", "first"} \subseteq Marks /\ "next" \in StFields \ {"pb", "current"}
    BY DEF Marks, PbFields, StFields
<1>1. ASSUME NEW p PROVE Ledger(AcceptMedia(s, p).st) /\ LiveIn(AcceptMedia(s, p).st) = LiveIn(s)
    <2> DEFINE a == [s EXCEPT !.next = p.n + 1]
               w == IF a.pb[p.gen].first = None THEN p.n ELSE a.pb[p.gen].first
               b == [a EXCEPT !.pb[p.gen].ts = p.ts]
               c == [b EXCEPT !.pb[p.gen].last = p.n]
               d == [c EXCEPT !.pb[p.gen].first = w]
    <2>1. AcceptMedia(s, p).st \in {s, a, d}
        BY DEF AcceptMedia, Raises, Returns
    <2>2. Changed(s, a, "next", p.n + 1)
        BY DEF Changed
    <2> HIDE DEF w, a
    <2>3. Written(a, b, p.gen, "ts", p.ts) /\ Written(b, c, p.gen, "last", p.n)
        BY DEF Written
    <2> HIDE DEF b, c
    <2>4. Written(c, d, p.gen, "first", w)
        BY DEF Written
    <2> HIDE DEF d
    <2>5. Ledger(a) /\ LiveIn(a) = LiveIn(s)
        BY <1>0, <2>2, SessionWritten
    <2>6. Ledger(b) /\ LiveIn(b) = LiveIn(s)
        BY <1>0, <2>3, <2>5, MarkWritten
    <2>7. Ledger(c) /\ LiveIn(c) = LiveIn(s)
        BY <1>0, <2>3, <2>6, MarkWritten
    <2>8. Ledger(d) /\ LiveIn(d) = LiveIn(s)
        BY <1>0, <2>4, <2>7, MarkWritten
    <2> QED
        BY <2>1, <2>5, <2>8
<1>2. MediaResult(s).st \in {s, AcceptMedia(s, rx.ev).st}
    BY DEF MediaResult, Raises, Returns
<1> QED
    BY <1>1, <1>2

\* playback_started
LEMMA StartedLives ==
    ASSUME NEW s, Ledger(s), NEW g, NEW n
    PROVE  Ledger(PlaybackStarted(s, g, n).st) /\ LiveIn(PlaybackStarted(s, g, n).st) = LiveIn(s)
<1> DEFINE a == [s EXCEPT !.pb[g].started = TRUE]
<1>1. PlaybackStarted(s, g, n).st \in {s, a}
    BY DEF PlaybackStarted, Raises, Returns
<1> DEFINE yes == TRUE
<1>2. Written(s, a, g, "started", yes) /\ "started" \in Marks
    BY DEF Written, Marks, PbFields
<1> HIDE DEF a, yes
<1> QED
    BY <1>1, <1>2, MarkWritten

\* playback_ended ends the playback that is open, or nothing.
LEMMA EndedLives ==
    ASSUME NEW s, Ledger(s), NEW g, NEW outcome, NEW n
    PROVE  /\ Ledger(PlaybackEnded(s, g, outcome, n).st)
           /\ LiveIn(PlaybackEnded(s, g, outcome, n).st) \subseteq LiveIn(s)
           /\ g \in Gens /\ PlaybackEnded(s, g, outcome, n).err = "none" =>
                g \in LiveIn(s) /\ s.open /\ LiveIn(PlaybackEnded(s, g, outcome, n).st) = {}
<1> DEFINE r == PlaybackEnded(s, g, outcome, n)
           w == IF s.current = g THEN NoGen ELSE s.current
           a == [s EXCEPT !.pb[g].ended = TRUE]
           b == [a EXCEPT !.pb[g].ts = None]
           c == [b EXCEPT !.current = w]
<1>1. \/ r.st = s /\ r.err # "none"
      \/ r.st = c /\ s.open /\ s.pb[g].known /\ ~s.pb[g].ended
    BY DEF PlaybackEnded, Raises, Returns
<1>2. CASE r.st = s /\ r.err # "none"
    BY <1>2
<1>3. CASE r.st = c /\ s.open /\ s.pb[g].known /\ ~s.pb[g].ended
    <2>1. Written(s, a, g, "ended", TRUE)
        BY DEF Written
    <2> HIDE DEF w, a
    <2>2. Written(a, b, g, "ts", None)
        BY DEF Written
    <2>3. Fields(b, StFields) => Fields(c, StFields) /\ c.pb = b.pb /\ c.current = w
        <3> HIDE DEF b
        <3> QED
            BY DEF Fields, StFields
    <2> HIDE DEF b, c
    <2>4. {"known", "ended", "ts"} \subseteq PbFields /\ "ts" \notin {"known", "ended"}
        BY DEF PbFields
    <2>5. /\ Fields(a, StFields) /\ Booked(a)
          /\ Reads(a, g, "ended", TRUE) /\ Elsewhere(s, a, g, "ended")
        BY <2>1, <2>4, BookWritten DEF Ledger
    <2>6. Fields(b, StFields) /\ Booked(b) /\ Elsewhere(a, b, g, "ts")
        BY <2>2, <2>4, <2>5, BookWritten
    <2>7. /\ \A h \in Gens : h # g => b.pb[h]["known"] = s.pb[h]["known"] /\ b.pb[h]["ended"] = s.pb[h]["ended"]
          /\ g \in Gens => b.pb[g]["ended"] = TRUE
        BY <2>4, <2>5, <2>6 DEF Elsewhere, Reads
    <2>8. Fields(c, StFields) /\ Booked(c) /\ c.pb = b.pb /\ c.current = w
        BY <2>3, <2>6 DEF Booked
    <2>9. LiveIn(c) \subseteq LiveIn(s) \ {g}
        BY <2>7, <2>8 DEF LiveIn
    <2>10. \A h \in LiveIn(c) : c.current = h
        BY <2>8, <2>9 DEF w, Ledger
    <2>11. g \in Gens => g \in LiveIn(s)
        BY <1>3 DEF LiveIn
    <2>12. g \in Gens => LiveIn(c) = {}
        BY <2>9, <2>11 DEF Ledger
    <2> QED
        BY <1>3, <2>8, <2>9, <2>10, <2>11, <2>12 DEF Ledger
<1> QED
    BY <1>1, <1>2, <1>3
\* _end_playback: what it reports as ended was open, and nothing is open then.
LEMMA EndingLives ==
    ASSUME Shape, Ledger(st), DOMAIN app.pl = Gens, NEW g \in Gens, NEW outcome, NEW signal
    PROVE  LET e == Ending(g, outcome, signal) IN
           /\ Ledger(e.st) /\ LiveIn(e.st) \subseteq LiveIn(st) /\ DOMAIN e.app.pl = Gens
           /\ e.err = "none" => g \in LiveIn(st) /\ st.open /\ LiveIn(e.st) = {}
           /\ e.err # "none" \/ ~signal => (e.app.signal <=> app.signal)
<1> DEFINE e == Ending(g, outcome, signal)
           r == PlaybackEnded(st, g, outcome, app.pl[g].last)
           fenced == [app EXCEPT !.pl[g].ended = TRUE, !.owner = IF @ = g THEN NoGen ELSE @]
           told == [fenced EXCEPT !.signal = @ \/ (signal /\ run.counts)]
<1>1. /\ Ledger(r.st) /\ LiveIn(r.st) \subseteq LiveIn(st)
      /\ r.err = "none" => g \in LiveIn(st) /\ st.open /\ LiveIn(r.st) = {}
    BY EndedLives
<1> HIDE DEF r
<1>2. /\ e.st = r.st /\ (e.err = "none" => r.err = "none")
      /\ e.app = IF e.err = "none" THEN told ELSE fenced
    BY DEF Ending, Sent, r
<1>3. Fields(app, AppFields)
    BY DEF Shape
<1>4. Fields(fenced, AppFields) /\ DOMAIN fenced.pl = Gens /\ (fenced.signal <=> app.signal)
    BY <1>3 DEF Fields, AppFields
<1>5. DOMAIN told.pl = Gens /\ (~signal => (told.signal <=> app.signal))
    <2> HIDE DEF fenced
    <2> QED
        BY <1>4 DEF Fields, AppFields
<1> HIDE DEF e, fenced, told
<1>6. /\ Ledger(e.st) /\ LiveIn(e.st) \subseteq LiveIn(st)
      /\ e.err = "none" => g \in LiveIn(st) /\ st.open /\ LiveIn(e.st) = {}
    BY <1>1, <1>2
<1>7. DOMAIN e.app.pl = Gens /\ (e.err # "none" \/ ~signal => (e.app.signal <=> app.signal))
    BY <1>2, <1>4, <1>5
<1> QED
    BY <1>6, <1>7 DEF e

\* The receiver is no more.
Dead == rx.at \in {"done", "failed", "cancelled"}

\* The books of the session and of the app.
Books == Ledger(st) /\ DOMAIN app.pl = Gens

\* One event at most is put aside; a keepalive observed a session that was, and a connect
\* has ended no playback.
Aside ==
    /\ rx.backlog = <<>> \/ \E e : rx.backlog = <<e>>
    /\ ka.val <= app.sess
    /\ ro.by = "run" => ~ro.ended

\* Before the receiver starts there is no session.
Unborn == rx.at = "new" => ~st.open /\ ka.at # "reopen"

\* A recovery that owes its reopen has ended the only open playback, the waiter has not
\* been signalled, and the keepalive's reopen will not signal it either.
Owing == rx.owed => rx.at = "reopen" /\ ~app.signal /\ ~(ro.by = "ka" /\ ro.ended) /\ LiveIn(st) = {}

\* After the signal the receiver reads no further event, or nothing is open and it reads
\* from a session that was replaced.
Signal ==
    app.signal => \/ rx.at = "next" \/ Dead
                  \/ LiveIn(st) = {} /\ (rx.at \in {"wait", "got"} => rx.sess # app.sess)

\* While the keepalive task has a reopen to do, next_event waits for nothing.
Due ==
    ka.at = "reopen" /\ (ka.val = app.sess \/ ro.by = "ka") => Dead \/ st.closed \/ (due /\ st.profile = "udp")

\* The keepalive's reopen has ended a playback, and the receiver has read the begin of the
\* next: it can handle what it has, of which nothing is a gap, and comes to the reopen.
Racing ==
    ro.by = "ka" /\ ro.ended => \A g \in LiveIn(st) :
        /\ rx.at \notin {"wait", "got"}
        /\ rx.at = "event" => \/ rx.ev.kind = "begin" /\ rx.ev.gen = g
                              \/ rx.backlog = <<>> /\ (rx.ev.kind = "audio" => app.pl[g].last = None)
        /\ rx.at = "next" => rx.backlog = <<>> \/ app.pl[g].last = None
        /\ rx.at \in {"render", "drain"} => rx.backlog = <<>>

Recovery == Books /\ Aside /\ Unborn /\ Owing /\ Signal /\ Due /\ Racing

\* A step of the receiver does not concern the keepalive task.
LEMMA ReceiverRecovers ==
    ASSUME Inv, Recovery, ReceiverFrame, due' = due, Books', Owing', Signal', Racing', rx'.at # "new",
           rx'.backlog = <<>> \/ \E e : rx'.backlog = <<e>>
    PROVE  Recovery'
<1>1. UNCHANGED <<ka, ro, run, due>> /\ app'.sess = app.sess /\ ~Dead /\ Kept(st, st')
    BY DEF ReceiverFrame, Dead
<1>2. Due'
    BY <1>1 DEF Recovery, Due, Kept
<1>3. Aside' /\ Unborn'
    BY <1>1 DEF Recovery, Aside, Unborn
<1> QED
    BY <1>2, <1>3 DEF Recovery

\* The fields that RxTo and RxFails leave.
LEMMA RxLeft ==
    ASSUME Shape
    PROVE  /\ \A at : RxTo(at) => rx'.at = at /\ ~rx'.owed /\ rx'.backlog = rx.backlog
           /\ \A code : RxFails(code) => rx'.at = "failed" /\ ~rx'.owed /\ rx'.backlog = <<>>
<1>1. ASSUME NEW at, RxTo(at) PROVE rx'.at = at /\ ~rx'.owed /\ rx'.backlog = rx.backlog
    BY <1>1 DEF Receiving, RxTo
<1>2. ASSUME NEW code, RxFails(code) PROVE rx'.at = "failed" /\ ~rx'.owed /\ rx'.backlog = <<>>
    BY <1>2 DEF Receiving, RxFails
<1> QED
    BY <1>1, <1>2

\* The receiver ends.
LEMMA QuitRecovers ==
    ASSUME Inv, Recovery, ReceiverFrame, due' = due, Books',
           rx'.at \in {"done", "failed"}, ~rx'.owed, rx'.backlog = <<>> \/ rx'.backlog = rx.backlog
    PROVE  Recovery'
<1>1. Owing' /\ Signal' /\ Racing'
    BY DEF Owing, Signal, Racing, Dead
<1>2. rx'.backlog = <<>> \/ \E e : rx'.backlog = <<e>>
    BY DEF Recovery, Aside
<1> QED
    BY <1>1, <1>2, ReceiverRecovers

\* The receiver goes on to its next event.
LEMMA NextRecovers ==
    ASSUME Inv, Recovery, ReceiverFrame, due' = due, Books', LiveIn(st') \subseteq LiveIn(st),
           rx.at \in {"wait", "got", "event", "render", "drain"}, rx.at = "event" => rx.ev.kind # "begin",
           rx'.at = "next", ~rx'.owed, rx'.backlog = rx.backlog
    PROVE  Recovery'
<1>1. Owing' /\ Signal'
    BY DEF Owing, Signal
<1>2. Racing'
    <2>1. ro' = ro
        BY DEF ReceiverFrame
    <2>2. ASSUME ro.by = "ka" /\ ro.ended, NEW g \in LiveIn(st') PROVE rx.backlog = <<>>
        BY <2>2 DEF Recovery, Racing
    <2> QED
        BY <2>1, <2>2 DEF Racing
<1>3. rx'.backlog = <<>> \/ \E e : rx'.backlog = <<e>>
    BY DEF Recovery, Aside
<1> QED
    BY <1>1, <1>2, <1>3, ReceiverRecovers
\* The end of a playback that the app has open.
LEMMA EndPlaybackRecovers ==
    ASSUME Inv, Recovery, ReceiverFrame, due' = due, NEW g \in Gens, NEW outcome, NEW fence,
           EndPlayback(g, outcome, fence), rx.at \in {"event", "drain"}, rx.at = "event" => rx.ev.kind # "begin"
    PROVE  Recovery'
<1> DEFINE e == Ending(g, outcome, TRUE)
<1>1. Shape /\ Ledger(st) /\ DOMAIN app.pl = Gens
    BY DEF Inv, Recovery, Books
<1>2. st' = e.st /\ app' = [e.app EXCEPT !.fence = fence] /\ (RxTo("next") \/ RxFails(e.err))
    BY DEF EndPlayback
<1>3. Ledger(e.st) /\ LiveIn(e.st) \subseteq LiveIn(st) /\ DOMAIN e.app.pl = Gens
    BY <1>1, EndingLives
<1>4. Fields(e.app, AppFields)
    BY <1>1, EndingKept
<1> HIDE DEF e
<1>5. DOMAIN app'.pl = Gens
    BY <1>2, <1>3, <1>4 DEF Fields, AppFields
<1>6. Books' /\ LiveIn(st') \subseteq LiveIn(st)
    BY <1>2, <1>3, <1>5 DEF Books
<1>7. CASE RxTo("next")
    BY <1>1, <1>6, <1>7, NextRecovers, RxLeft
<1>8. CASE RxFails(e.err)
    BY <1>1, <1>6, <1>8, QuitRecovers, RxLeft
<1> QED
    BY <1>2, <1>7, <1>8

\* A recovery that has a playback to end.
LEMMA RecoverRecovers ==
    ASSUME Inv, Recovery, ReceiverFrame, due' = due, NEW g \in Gens, Recover(g),
           rx.at \in {"event", "wait"}, ~(ro.by = "ka" /\ ro.ended /\ g \in LiveIn(st))
    PROVE  Recovery'
<1> DEFINE e == Ending(g, "stopped", FALSE)
<1>1. Shape /\ Ledger(st) /\ DOMAIN app.pl = Gens
    BY DEF Inv, Recovery, Books
<1>2. /\ st' = e.st /\ app' = e.app
      /\ \/ /\ rx' = [rx EXCEPT !.at = "reopen", !.ev = NoEvent, !.obs = app.sess, !.owed = TRUE]
            /\ e.err = "none"
         \/ RxFails(e.err)
    BY DEF Recover
<1>3. /\ Ledger(e.st) /\ LiveIn(e.st) \subseteq LiveIn(st) /\ DOMAIN e.app.pl = Gens
      /\ e.err = "none" => g \in LiveIn(st) /\ LiveIn(e.st) = {}
      /\ e.app.signal <=> app.signal
    BY <1>1, EndingLives
<1> HIDE DEF e
<1>4. Books'
    BY <1>2, <1>3 DEF Books
<1>5. CASE /\ rx' = [rx EXCEPT !.at = "reopen", !.ev = NoEvent, !.obs = app.sess, !.owed = TRUE]
           /\ e.err = "none"
    <2>1. rx'.at = "reopen" /\ rx'.backlog = rx.backlog
        BY <1>1, <1>5 DEF Shape, Fields, RxFields
    <2>2. ~app.signal
        BY <1>3, <1>5 DEF Recovery, Signal, Dead
    <2>3. LiveIn(st') = {} /\ ~app'.signal /\ ro' = ro /\ ~(ro.by = "ka" /\ ro.ended)
        BY <1>2, <1>3, <1>5, <2>2 DEF ReceiverFrame
    <2>4. Owing' /\ Signal' /\ Racing'
        BY <2>1, <2>3 DEF Owing, Signal, Racing
    <2>5. rx'.backlog = <<>> \/ \E x : rx'.backlog = <<x>>
        BY <2>1 DEF Recovery, Aside
    <2> QED
        BY <1>4, <2>1, <2>4, <2>5, ReceiverRecovers
<1>6. CASE RxFails(e.err)
    BY <1>1, <1>4, <1>6, QuitRecovers, RxLeft
<1> QED
    BY <1>2, <1>5, <1>6

\* The receiver reads no event after the signal, and owes nothing outside a reopen.
LEMMA Quiet ==
    ASSUME Inv, Recovery
    PROVE  /\ rx.at # "reopen" => ~rx.owed
           /\ rx.at \in {"wait", "got"} /\ SameSession => ~app.signal
           /\ rx.at \in {"event", "render", "drain", "reopen"} /\ app.signal => LiveIn(st) = {}
           /\ rx.at \in {"wait", "got"} /\ ro.by = "ka" /\ ro.ended => LiveIn(st) = {}
           /\ rx.at = "next" /\ ro.by = "ka" => st.closed \/ (due /\ st.profile = "udp")
<1>1. ro.by = "ka" => ka.at = "reopen"
    BY DEF Inv, Owner
<1>2. rx.at = "next" /\ ro.by = "ka" => st.closed \/ (due /\ st.profile = "udp")
    BY <1>1 DEF Recovery, Due, Dead
<1>3. /\ rx.at \in {"wait", "got"} /\ SameSession => ~app.signal
      /\ rx.at \in {"event", "render", "drain", "reopen"} /\ app.signal => LiveIn(st) = {}
    BY DEF Recovery, Signal, Dead, SameSession
<1> QED
    BY <1>2, <1>3 DEF Recovery, Owing, Racing

\* The fields that the media task leaves.
LEMMA MediaTaskLeft ==
    ASSUME Shape, NEW r, MediaTask(r)
    PROVE  rx'.at \in {"wait", "got"} /\ rx'.backlog = rx.backlog /\ rx'.owed = rx.owed
BY DEF Shape, MediaTask, Fields, RxFields

\* next_event waits, for media or for control.
LEMMA WaitRecovers ==
    ASSUME Inv, Recovery, ReceiverFrame, UNCHANGED <<st, app, due>>, ~app.signal, ~rx'.owed,
           rx'.at \in {"wait", "got"}, rx'.backlog = rx.backlog,
           ro.by = "ka" /\ ro.ended => LiveIn(st) = {}
    PROVE  Recovery'
<1>1. ro' = ro
    BY DEF ReceiverFrame
<1>2. Owing' /\ Signal' /\ Racing' /\ Books'
    BY <1>1 DEF Owing, Signal, Racing, Recovery, Books
<1>3. rx'.backlog = <<>> \/ \E e : rx'.backlog = <<e>>
    BY DEF Recovery, Aside
<1> QED
    BY <1>2, <1>3, ReceiverRecovers

\* next_event is called
LEMMA NextEventRecovers ==
    ASSUME Inv, Recovery, NextEvent
    PROVE  Recovery'
<1>1. Shape /\ ReceiverFrame /\ Fields(rx, RxFields) /\ Books
    BY NextEventFrame DEF Inv, Shape, Recovery
<1>2. UNCHANGED <<st, due, app, ro>> /\ rx.at = "next" /\ ~app.signal /\ ~rx.owed
    BY Quiet DEF NextEvent
<1>3. Books'
    BY <1>1, <1>2 DEF Books
<1>4. CASE RxFails("session_closed")
    BY <1>1, <1>2, <1>3, <1>4, QuitRecovers, RxLeft
<1>5. CASE rx.backlog # <<>> /\ rx' = [rx EXCEPT !.at = "event", !.ev = Head(rx.backlog), !.backlog = Tail(rx.backlog)]
    <2>1. rx'.at = "event" /\ rx'.backlog = Tail(rx.backlog) /\ rx'.owed = rx.owed
        BY <1>1, <1>5 DEF Fields, RxFields
    <2>2. Tail(rx.backlog) = <<>>
        <3>1. PICK e : rx.backlog = <<e>>
            BY <1>5 DEF Recovery, Aside
        <3> QED
            BY <3>1
    <2>3. Owing' /\ Signal'
        BY <1>2, <2>1 DEF Owing, Signal
    <2>4. Racing'
        BY <1>2, <1>5, <2>1, <2>2 DEF Recovery, Racing
    <2> QED
        BY <1>1, <1>2, <1>3, <2>1, <2>2, <2>3, <2>4, ReceiverRecovers
<1>6. CASE rx' = [rx EXCEPT !.at = "wait", !.sess = app.sess] /\ ~st.closed /\ st.profile = "wss"
    <2>1. rx'.at = "wait" /\ rx'.backlog = rx.backlog /\ rx'.owed = rx.owed
        BY <1>1, <1>6 DEF Fields, RxFields
    <2> QED
        BY <1>1, <1>2, <1>6, <2>1, Quiet, WaitRecovers
<1>7. CASE rx' = [rx EXCEPT !.at = "event", !.ev = ReopenEvent] /\ rx.backlog = <<>>
    <2>1. rx'.at = "event" /\ rx'.backlog = <<>> /\ rx'.owed = rx.owed /\ rx'.ev = ReopenEvent
        BY <1>1, <1>7 DEF Fields, RxFields
    <2>2. ReopenEvent.kind = "reopen"
        BY DEF ReopenEvent, Message
    <2>3. Owing' /\ Signal' /\ Racing'
        BY <1>2, <2>1, <2>2 DEF Owing, Signal, Racing
    <2> QED
        BY <1>1, <1>2, <1>3, <2>1, <2>3, ReceiverRecovers
<1>8. ASSUME ~st.closed, ~due, NEW r, MediaTask(r) PROVE Recovery'
    <2>1. rx'.at \in {"wait", "got"} /\ rx'.backlog = rx.backlog /\ rx'.owed = rx.owed
        BY <1>1, <1>8, MediaTaskLeft
    <2> QED
        BY <1>1, <1>2, <1>8, <2>1, Quiet, WaitRecovers
<1> QED
    BY <1>4, <1>5, <1>6, <1>7, <1>8 DEF NextEvent

\* A datagram or a timer
LEMMA ReceivedRecovers ==
    ASSUME Inv, Recovery, rx.at = "wait", tr.open, SameSession, NEW r, Received(r)
    PROVE  Recovery'
<1>1. Shape /\ ReceiverFrame
    BY ReceivedFrame DEF Inv
<1>2. UNCHANGED <<st, due, app>> /\ MediaTask(r)
    BY DEF Received
<1>3. rx'.at \in {"wait", "got"} /\ rx'.backlog = rx.backlog /\ rx'.owed = rx.owed
    BY <1>1, <1>2, MediaTaskLeft
<1>4. ~app.signal /\ ~rx.owed /\ (ro.by = "ka" /\ ro.ended => LiveIn(st) = {})
    BY Quiet
<1> QED
    BY <1>1, <1>2, <1>3, <1>4, WaitRecovers
\* Two events in a row
LEMMA TwoEvents ==
    ASSUME NEW a, NEW b
    PROVE  <<a>> \o <<b>> # <<>> /\ Head(<<a>> \o <<b>>) = a /\ Tail(<<a>> \o <<b>>) = <<b>>
<1> DEFINE x == <<a>> \o <<b>>
           y == <<b>>
<1>1. <<a>> \in Seq({a, b}) /\ y \in Seq({a, b}) /\ Len(<<a>>) = 1 /\ Len(y) = 1 /\ y[1] = b
    OBVIOUS
<1>2. x \in Seq({a, b}) /\ Len(x) = 2 /\ x[1] = a /\ x[2] = b
    BY <1>1
<1> HIDE DEF x, y
<1>3. x # <<>> /\ Head(x) = a
    BY <1>2
<1>4. Tail(x) \in Seq({a, b}) /\ Len(Tail(x)) = 1 /\ Tail(x)[1] = b
    BY <1>2, <1>3
<1>5. \A i \in 1 .. Len(Tail(x)) : Tail(x)[i] = y[i]
    <2> DEFINE z == Tail(x)
    <2>1. Len(z) = 1 /\ z[1] = b /\ y[1] = b
        BY <1>1, <1>4
    <2> HIDE DEF z
    <2>2. \A i \in 1 .. Len(z) : i = 1
        BY <2>1
    <2>3. \A i \in 1 .. Len(z) : z[i] = y[i]
        BY <2>1, <2>2
    <2> QED
        BY <2>3 DEF z
<1>6. Tail(x) = y
    BY <1>1, <1>4, <1>5, SeqEqual
<1> QED
    BY <1>3, <1>6 DEF x, y

\* A round of next_event
LEMMA DeliverRecovers ==
    ASSUME Inv, Recovery, ReceiverFrame, UNCHANGED <<app, due>>, rx.at \in {"wait", "got"}, SameSession,
           NEW c, NEW m, Deliver(c, m), Ledger(c.st), Ledger(m.st), LiveIn(m.st) = LiveIn(c.st),
           \/ LiveIn(c.st) \subseteq LiveIn(st)
           \/ c.err = "none" /\ c.event.kind = "begin" /\ LiveIn(c.st) \subseteq {c.event.gen}
    PROVE  Recovery'
<1>1. Shape /\ ro' = ro /\ Books
    BY DEF Inv, ReceiverFrame, Recovery
<1>2. Ledger(st') /\ LiveIn(st') = LiveIn(c.st)
    BY DEF Deliver
<1>3. Books'
    BY <1>1, <1>2 DEF Books
<1>4. ~app.signal /\ ~rx.owed /\ (ro.by = "ka" /\ ro.ended => LiveIn(st) = {})
    BY Quiet
<1> DEFINE events == Some(c.event) \o Some(m.event)
<1>5. \/ \E code : RxFails(code)
      \/ rx' = [Receiving EXCEPT !.at = "event", !.ev = c.event] /\ c.event.kind = "close"
      \/ RxTo("next") /\ events = <<>>
      \/ /\ rx' = [Receiving EXCEPT !.at = "event", !.ev = Head(events), !.backlog = Tail(events)]
         /\ events # <<>>
    BY DEF Deliver
<1>6. c.event.kind # "none" => events # <<>> /\ Head(events) = c.event /\ Tail(events) = Some(m.event)
    <2>1. CASE m.event.kind = "none"
        BY <2>1 DEF Some
    <2>2. CASE c.event.kind # "none" /\ m.event.kind # "none"
        <3>1. Some(c.event) = <<c.event>> /\ Some(m.event) = <<m.event>>
            BY <2>2 DEF Some
        <3>2. events = <<c.event>> \o <<m.event>>
            BY <3>1
        <3> QED
            BY <3>1, <3>2, TwoEvents
    <2> QED
        BY <2>1, <2>2
<1>7. c.event.kind = "none" => events = Some(m.event)
    BY DEF Some
<1>8. \A x : Some(x) = <<>> \/ (\E y : Some(x) = <<y>>)
    BY DEF Some
<1>9. events # <<>> => Tail(events) = <<>> \/ \E e : Tail(events) = <<e>>
    <2>1. CASE c.event.kind # "none"
        BY <1>6, <1>8, <2>1
    <2>2. CASE c.event.kind = "none"
        <3>1. events = Some(m.event)
            BY <1>7, <2>2
        <3>2. Some(m.event) \in {<<>>, <<m.event>>}
            BY DEF Some
        <3>3. Tail(<<m.event>>) = <<>>
            OBVIOUS
        <3> QED
            BY <3>1, <3>2, <3>3
    <2> QED
        BY <2>1, <2>2
<1> HIDE DEF events
<1>10. CASE \E code : RxFails(code)
    BY <1>1, <1>3, <1>10, QuitRecovers, RxLeft
<1>11. CASE RxTo("next") /\ events = <<>>
    <2>1. c.event.kind = "none"
        BY <1>6, <1>11
    <2>2. LiveIn(st') \subseteq LiveIn(st)
        BY <1>2, <2>1
    <2> QED
        BY <1>1, <1>3, <1>11, <2>2, NextRecovers, RxLeft
<1>12. ASSUME NEW ev, NEW b, rx'.at = "event" /\ rx'.ev = ev /\ rx'.backlog = b /\ ~rx'.owed,
              b = <<>> \/ \E e : b = <<e>>, c.event.kind = "begin" => ev = c.event
       PROVE  Recovery'
    <2>1. rx'.at = "event" /\ rx'.ev = ev /\ rx'.backlog = b /\ ~rx'.owed
        BY <1>12
    <2>2. Owing' /\ Signal'
        BY <1>4, <2>1 DEF Owing, Signal
    <2>3. ASSUME ro.by = "ka" /\ ro.ended, NEW g \in LiveIn(st') PROVE ev.kind = "begin" /\ ev.gen = g
        BY <1>2, <1>4, <1>12, <2>3
    <2>4. Racing'
        BY <1>1, <2>1, <2>3 DEF Racing
    <2> QED
        BY <1>3, <1>12, <2>1, <2>2, <2>4, ReceiverRecovers
<1>13. CASE rx' = [Receiving EXCEPT !.at = "event", !.ev = c.event] /\ c.event.kind = "close"
    <2>2. rx'.at = "event" /\ rx'.ev = c.event /\ rx'.backlog = <<>> /\ ~rx'.owed
        BY <1>13 DEF Receiving
    <2> QED
        BY <1>12, <1>13, <2>2
<1>14. CASE /\ rx' = [Receiving EXCEPT !.at = "event", !.ev = Head(events), !.backlog = Tail(events)]
            /\ events # <<>>
    <2>1. rx'.at = "event" /\ rx'.ev = Head(events) /\ rx'.backlog = Tail(events) /\ ~rx'.owed
        BY <1>14 DEF Receiving
    <2> QED
        BY <1>6, <1>9, <1>12, <1>14, <2>1
<1> QED
    BY <1>5, <1>10, <1>11, <1>13, <1>14

\* Media has come, and perhaps control
LEMMA MediaReadyRecovers ==
    ASSUME Inv, Recovery, MediaReady
    PROVE  Recovery'
<1>1. Shape /\ ReceiverFrame /\ Ledger(st)
    BY MediaReadyFrame DEF Inv, Recovery, Books
<1>2. UNCHANGED <<app, due>> /\ rx.at = "got" /\ SameSession
    BY DEF MediaReady
<1>3. \A s, e : Returns(s, e).st = s
    BY DEF Returns
<1>4. CASE Deliver(Returns(st, NoEvent), MediaResult(st))
    <2> DEFINE c == Returns(st, NoEvent)
               m == MediaResult(st)
    <2>1. c.st = st /\ Ledger(m.st) /\ LiveIn(m.st) = LiveIn(st)
        BY <1>1, <1>3, MediaLives
    <2>2. Deliver(c, m)
        BY <1>4
    <2> HIDE DEF c, m
    <2> QED
        BY <1>1, <1>2, <2>1, <2>2, DeliverRecovers
<1>5. CASE /\ ctl # <<>>
           /\ LET c == AcceptControl(st, Head(ctl)) IN Deliver(c, MediaResult(c.st))
    <2> DEFINE c == AcceptControl(st, Head(ctl))
               m == MediaResult(c.st)
    <2>1. Head(ctl).kind \in Kinds \ {"audio"}
        <3>1. st.profile = "udp"
            BY <1>2, <1>5 DEF Inv, Wire
        <3> QED
            BY <1>1, <1>5, <3>1, HeadKinds DEF Inv, Wire
    <2>2. Opens(st, c, Head(ctl))
        BY <1>1, <2>1, ControlLives
    <2>3. Ledger(c.st)
        BY <2>2 DEF Opens
    <2>4. Ledger(m.st) /\ LiveIn(m.st) = LiveIn(c.st)
        BY <2>3, MediaLives
    <2>5. Deliver(c, m)
        BY <1>5
    <2> HIDE DEF c, m
    <2> QED
        BY <1>1, <1>2, <2>2, <2>3, <2>4, <2>5, DeliverRecovers DEF Opens
<1> QED
    BY <1>4, <1>5 DEF MediaReady

\* A message of the WebSocket
LEMMA ControlReadyRecovers ==
    ASSUME Inv, Recovery, ControlReady
    PROVE  Recovery'
<1>1. Shape /\ ReceiverFrame /\ Ledger(st)
    BY ControlReadyFrame DEF Inv, Recovery, Books
<1>2. UNCHANGED <<app, due>> /\ rx.at = "wait" /\ SameSession /\ ctl # <<>>
    BY DEF ControlReady
<1>3. \A s, e : Returns(s, e).st = s
    BY DEF Returns
<1>4. Head(ctl).kind \in Kinds
    BY <1>1, <1>2, HeadKinds
<1> DEFINE h == Head(ctl)
<1>5. CASE h.kind # "audio" /\ (LET c == AcceptControl(st, h) IN Deliver(c, Returns(c.st, NoEvent)))
    <2> DEFINE c == AcceptControl(st, h)
               m == Returns(c.st, NoEvent)
    <2>1. Opens(st, c, h)
        BY <1>1, <1>4, <1>5, ControlLives
    <2>2. m.st = c.st
        BY <1>3
    <2>3. Deliver(c, m)
        BY <1>5
    <2> HIDE DEF c, m, h
    <2> QED
        BY <1>1, <1>2, <2>1, <2>2, <2>3, DeliverRecovers DEF Opens
<1>6. ASSUME NEW m, Deliver(Returns(st, NoEvent), m), Ledger(m.st), LiveIn(m.st) = LiveIn(st) PROVE Recovery'
    <2> DEFINE c == Returns(st, NoEvent)
    <2>1. c.st = st /\ Deliver(c, m)
        BY <1>3, <1>6
    <2> HIDE DEF c
    <2> QED
        BY <1>1, <1>2, <1>6, <2>1, DeliverRecovers
<1>7. CASE Deliver(Returns(st, NoEvent), Returns(st, ReopenEvent))
    BY <1>1, <1>3, <1>6, <1>7
<1>8. CASE Deliver(Returns(st, NoEvent), AcceptMedia(st, h))
    BY <1>1, <1>6, <1>8, MediaLives
<1> QED
    BY <1>5, <1>7, <1>8 DEF ControlReady

\* The WebSocket fails under the receiver, or its sink does
LEMMA FailsRecovers ==
    ASSUME Inv, Recovery, ControlFails \/ SinkFails
    PROVE  Recovery'
<1>1. Shape /\ ReceiverFrame /\ Books
    BY FailsFrame DEF Inv, Recovery
<1>2. UNCHANGED <<st, app, due>> /\ \E code : RxFails(code)
    BY DEF ControlFails, SinkFails, session
<1>3. Books'
    BY <1>1, <1>2 DEF Books
<1> QED
    BY <1>1, <1>2, <1>3, QuitRecovers, RxLeft
\* The app keeps a table of its playbacks.
LEMMA TableKept ==
    ASSUME Inv, Books
    PROVE  /\ \A g, v : DOMAIN [app EXCEPT !.pl[g] = v].pl = Gens
           /\ \A g, v : g \in Gens => [app EXCEPT !.pl[g] = v].pl[g] = v
           /\ \A v : [app EXCEPT !.owner = v].pl = app.pl /\ [app EXCEPT !.fence = v].pl = app.pl
           /\ \A g, v : [app EXCEPT !.pl[g] = v].signal = app.signal
           /\ \A v : [app EXCEPT !.owner = v].signal = app.signal
<1>1. Fields(app, AppFields) /\ DOMAIN app.pl = Gens
    BY DEF Inv, Shape, Books
<1> QED
    BY <1>1 DEF Fields, AppFields

\* The receiver handles or renders a packet of the playback, or drains it.
LEMMA WorkRecovers ==
    ASSUME Inv, Recovery, ReceiverFrame, due' = due, Books', LiveIn(st') = LiveIn(st),
           rx.at \in {"event", "render", "drain"}, rx.at = "event" => rx.ev.kind # "begin",
           rx'.at \in {"render", "drain", "reopen"}, rx'.owed = rx.owed, rx'.backlog = rx.backlog,
           app'.signal = app.signal
    PROVE  Recovery'
<1>1. ro' = ro /\ ~rx.owed /\ (app.signal => LiveIn(st) = {})
    BY Quiet DEF ReceiverFrame
<1>2. Owing' /\ Signal'
    BY <1>1 DEF Owing, Signal
<1>3. ASSUME ro.by = "ka" /\ ro.ended, NEW g \in LiveIn(st) PROVE rx.backlog = <<>>
    BY <1>3 DEF Recovery, Racing
<1>4. Racing'
    BY <1>1, <1>3 DEF Racing
<1>5. rx'.backlog = <<>> \/ \E e : rx'.backlog = <<e>>
    BY DEF Recovery, Aside
<1> QED
    BY <1>2, <1>4, <1>5, ReceiverRecovers

\* response.begin
LEMMA HandleBeginRecovers ==
    ASSUME Inv, Recovery, ReceiverFrame, due' = due, rx.at = "event", HandleBegin
    PROVE  Recovery'
<1> DEFINE new == [Silent EXCEPT !.begun = TRUE]
<1>1. Shape /\ Books /\ ro' = ro
    BY DEF Inv, Recovery, ReceiverFrame
<1>2. rx.ev.kind = "begin" /\ RxTo("next") /\ app' = [app EXCEPT !.pl[rx.ev.gen] = new] /\ st' = st
    BY DEF HandleBegin
<1>3. new.last = None
    BY DEF Silent
<1> HIDE DEF new
<1>4. DOMAIN app'.pl = Gens /\ (rx.ev.gen \in Gens => app'.pl[rx.ev.gen] = new)
    BY <1>1, <1>2, TableKept
<1>5. rx'.at = "next" /\ ~rx'.owed /\ rx'.backlog = rx.backlog
    BY <1>1, <1>2, RxLeft
<1>6. Books' /\ Owing' /\ Signal'
    BY <1>1, <1>2, <1>4, <1>5 DEF Books, Owing, Signal
<1>7. ASSUME ro.by = "ka" /\ ro.ended, NEW g \in LiveIn(st) PROVE rx.backlog = <<>> \/ app'.pl[g].last = None
    <2>1. g \in Gens
        BY DEF LiveIn
    <2> QED
        BY <1>3, <1>4, <1>7, <2>1 DEF Recovery, Racing
<1>8. Racing'
    BY <1>1, <1>2, <1>5, <1>7 DEF Racing
<1>9. rx'.backlog = <<>> \/ \E e : rx'.backlog = <<e>>
    BY <1>5 DEF Recovery, Aside
<1> QED
    BY <1>5, <1>6, <1>8, <1>9, ReceiverRecovers

\* A packet of media
LEMMA HandleAudioRecovers ==
    ASSUME Inv, Recovery, ReceiverFrame, due' = due, rx.at = "event", HandleAudio
    PROVE  Recovery'
<1> DEFINE g == rx.ev.gen
<1>1. Shape /\ Books /\ rx.ev.kind = "audio" /\ Fields(rx, RxFields)
    BY DEF Inv, Shape, Recovery, HandleAudio
<1>2. \/ RxTo("next") /\ UNCHANGED <<st, app>>
      \/ Recover(g) /\ g \in Gens /\ app.pl[g].last # None
      \/ /\ app' = [app EXCEPT !.owner = g] /\ st' = st
         /\ rx' = [rx EXCEPT !.at = "render", !.sess = app.sess, !.started = app.pl[g].started]
    BY DEF HandleAudio, Playing, GapTooWide
<1>3. CASE RxTo("next") /\ UNCHANGED <<st, app>>
    <2>1. Books'
        BY <1>1, <1>3 DEF Books
    <2> QED
        BY <1>1, <1>3, <2>1, NextRecovers, RxLeft
<1>4. CASE Recover(g) /\ g \in Gens /\ app.pl[g].last # None
    <2>1. ~(ro.by = "ka" /\ ro.ended /\ g \in LiveIn(st))
        BY <1>1, <1>4 DEF Recovery, Racing
    <2> QED
        BY <1>4, <2>1, RecoverRecovers
<1>5. CASE /\ app' = [app EXCEPT !.owner = g] /\ st' = st
           /\ rx' = [rx EXCEPT !.at = "render", !.sess = app.sess, !.started = app.pl[g].started]
    <2>1. rx'.at = "render" /\ rx'.owed = rx.owed /\ rx'.backlog = rx.backlog
        BY <1>1, <1>5 DEF Fields, RxFields
    <2>2. app'.pl = app.pl /\ app'.signal = app.signal
        BY <1>1, <1>5, TableKept
    <2>3. Books'
        BY <1>1, <1>5, <2>2 DEF Books
    <2> QED
        BY <1>1, <1>5, <2>1, <2>2, <2>3, WorkRecovers
<1> QED
    BY <1>2, <1>3, <1>4, <1>5

\* The end of a response
LEMMA HandleEndRecovers ==
    ASSUME Inv, Recovery, ReceiverFrame, due' = due, rx.at = "event", HandleEnd
    PROVE  Recovery'
<1> DEFINE g == rx.ev.gen
<1>1. Shape /\ Books /\ rx.ev.kind \in {"completed", "cancelled"} /\ Fields(rx, RxFields) /\ Fields(app, AppFields)
    BY DEF Inv, Shape, Recovery, HandleEnd
<1>2. \/ RxTo("next") /\ UNCHANGED <<st, app>>
      \/ EndPlayback(g, "stopped", app.fence) /\ g \in Gens
      \/ /\ app' = [app EXCEPT !.pl[g].final = rx.ev.n] /\ st' = st
         /\ rx' = [rx EXCEPT !.at = "drain", !.sess = app.sess] \/ RxTo("next")
    BY DEF HandleEnd, Playing
<1>3. CASE RxTo("next") /\ UNCHANGED <<st, app>>
    <2>1. Books'
        BY <1>1, <1>3 DEF Books
    <2> QED
        BY <1>1, <1>3, <2>1, NextRecovers, RxLeft
<1>4. CASE EndPlayback(g, "stopped", app.fence) /\ g \in Gens
    BY <1>1, <1>4, EndPlaybackRecovers
<1>5. CASE /\ app' = [app EXCEPT !.pl[g].final = rx.ev.n] /\ st' = st
           /\ rx' = [rx EXCEPT !.at = "drain", !.sess = app.sess] \/ RxTo("next")
    <2>1. DOMAIN app'.pl = DOMAIN app.pl /\ app'.signal = app.signal
        BY <1>1, <1>5 DEF Fields, AppFields
    <2>2. Books'
        BY <1>1, <1>5, <2>1 DEF Books
    <2>3. CASE RxTo("next")
        BY <1>1, <1>5, <2>2, <2>3, NextRecovers, RxLeft
    <2>4. CASE rx' = [rx EXCEPT !.at = "drain", !.sess = app.sess]
        <3>1. rx'.at = "drain" /\ rx'.owed = rx.owed /\ rx'.backlog = rx.backlog
            BY <1>1, <2>4 DEF Fields, RxFields
        <3> QED
            BY <1>1, <1>5, <2>1, <2>2, <3>1, WorkRecovers
    <2> QED
        BY <1>5, <2>3, <2>4
<1> QED
    BY <1>2, <1>3, <1>4, <1>5

\* An event
LEMMA HandleEventRecovers ==
    ASSUME Inv, Recovery, HandleEvent
    PROVE  Recovery'
<1>1. Shape /\ Books /\ ReceiverFrame /\ due' = due /\ rx.at = "event" /\ Fields(rx, RxFields)
    BY HandleEventFrame DEF Inv, Shape, Recovery, HandleEvent
<1>2. CASE HandleClose
    <2>1. RxTo("done") /\ UNCHANGED <<st, app>>
        BY <1>2 DEF HandleClose
    <2>2. Books'
        BY <1>1, <2>1 DEF Books
    <2> QED
        BY <1>1, <2>1, <2>2, QuitRecovers, RxLeft
<1>3. CASE HandleReopen
    <2>1. /\ rx' = [rx EXCEPT !.at = "reopen", !.ev = NoEvent, !.obs = app.sess] /\ UNCHANGED <<st, app>>
          /\ rx.ev.kind = "reopen"
        BY <1>3 DEF HandleReopen
    <2>2. rx'.at = "reopen" /\ rx'.owed = rx.owed /\ rx'.backlog = rx.backlog
        BY <1>1, <2>1 DEF Fields, RxFields
    <2>3. Books'
        BY <1>1, <2>1 DEF Books
    <2> QED
        BY <1>1, <2>1, <2>2, <2>3, WorkRecovers
<1>4. CASE HandleStop
    <2> DEFINE g == rx.ev.gen
               fence == Max({app.fence, rx.ev.n})
    <2>1. /\ rx.ev.kind = "stop"
          /\ \/ EndPlayback(g, "stopped", fence) /\ g \in Gens
             \/ RxTo("next") /\ app' = [app EXCEPT !.fence = fence] /\ st' = st
        BY <1>4 DEF HandleStop, Playing
    <2> HIDE DEF fence
    <2>2. CASE EndPlayback(g, "stopped", fence) /\ g \in Gens
        BY <1>1, <2>1, <2>2, EndPlaybackRecovers
    <2>3. CASE RxTo("next") /\ app' = [app EXCEPT !.fence = fence] /\ st' = st
        <3>1. app'.pl = app.pl
            BY <1>1, <2>3, TableKept
        <3>2. Books'
            BY <1>1, <2>3, <3>1 DEF Books
        <3> QED
            BY <1>1, <2>1, <2>3, <3>2, NextRecovers, RxLeft
    <2> QED
        BY <2>1, <2>2, <2>3
<1> QED
    BY <1>1, <1>2, <1>3, <1>4, HandleBeginRecovers, HandleAudioRecovers, HandleEndRecovers DEF HandleEvent

\* Frames have been rendered
LEMMA RenderedRecovers ==
    ASSUME Inv, Recovery, Rendered
    PROVE  Recovery'
<1> DEFINE g == rx.ev.gen
           r == IF Orphan THEN Raises(st, "stale_target") ELSE PlaybackStarted(st, g, rx.ev.n)
<1>1. /\ Shape /\ Books /\ ReceiverFrame /\ due' = due /\ rx.at = "render"
      /\ Fields(rx, RxFields) /\ Fields(app, AppFields)
    BY RenderedFrame DEF Inv, Shape, Recovery, Rendered
<1>2. Ledger(r.st) /\ LiveIn(r.st) = LiveIn(st)
    BY <1>1, StartedLives DEF Raises, Books
<1>3. /\ st' \in {st, r.st}
      /\ \/ app' = app
         \/ app' = [app EXCEPT !.pl[g].started = TRUE, !.pl[g].last = rx.ev.n, !.pl[g].ts = rx.ev.ts]
      /\ (\E code : RxFails(code)) \/ RxTo("next") \/ rx' = [rx EXCEPT !.at = "drain"]
    BY DEF Rendered
<1> HIDE DEF r
<1>4. DOMAIN app'.pl = DOMAIN app.pl /\ app'.signal = app.signal
    BY <1>1, <1>3 DEF Fields, AppFields
<1>5. Books' /\ LiveIn(st') = LiveIn(st)
    BY <1>1, <1>2, <1>3, <1>4 DEF Books
<1>6. CASE \E code : RxFails(code)
    BY <1>1, <1>5, <1>6, QuitRecovers, RxLeft
<1>7. CASE RxTo("next")
    BY <1>1, <1>5, <1>7, NextRecovers, RxLeft
<1>8. CASE rx' = [rx EXCEPT !.at = "drain"]
    <2>1. rx'.at = "drain" /\ rx'.owed = rx.owed /\ rx'.backlog = rx.backlog
        BY <1>1, <1>8 DEF Fields, RxFields
    <2> QED
        BY <1>1, <1>4, <1>5, <2>1, WorkRecovers
<1> QED
    BY <1>3, <1>6, <1>7, <1>8

\* The sink has drained, or a playback has expired
LEMMA DrainedRecovers ==
    ASSUME Inv, Recovery, Drained \/ Expire
    PROVE  Recovery'
<1>1. Shape /\ Books /\ ReceiverFrame /\ due' = due
    BY DrainedFrame DEF Inv, Recovery, Drained, Expire
<1>2. CASE Expire
    <2>1. PICK g \in Gens : Recover(g)
        BY <1>2 DEF Expire
    <2>2. rx.at = "wait"
        BY <1>2 DEF Expire
    <2>3. ~(ro.by = "ka" /\ ro.ended /\ g \in LiveIn(st))
        BY <2>2, Quiet
    <2> QED
        BY <1>1, <2>1, <2>2, <2>3, RecoverRecovers
<1>3. CASE Drained
    <2>1. /\ rx.at = "drain"
          /\ \/ EndPlayback(rx.ev.gen, "completed", app.fence) /\ rx.ev.gen \in Gens
             \/ RxTo("next") /\ UNCHANGED <<st, app>>
        BY <1>3 DEF Drained, Playing
    <2>2. CASE EndPlayback(rx.ev.gen, "completed", app.fence) /\ rx.ev.gen \in Gens
        BY <1>1, <2>1, <2>2, EndPlaybackRecovers
    <2>3. CASE RxTo("next") /\ UNCHANGED <<st, app>>
        <3>1. Books'
            BY <1>1, <2>3 DEF Books
        <3> QED
            BY <1>1, <2>1, <2>3, <3>1, NextRecovers, RxLeft
    <2> QED
        BY <2>1, <2>2, <2>3
<1> QED
    BY <1>2, <1>3
\* A step that leaves the receiver alone and opens nothing.
LEMMA SameReceiver ==
    ASSUME Recovery, rx' = rx, app'.signal <=> app.signal, app'.sess = app.sess, DOMAIN app'.pl = Gens,
           Ledger(st'), LiveIn(st') \subseteq LiveIn(st), ro'.by = "ka" /\ ro'.ended => ~rx.owed
    PROVE  Books' /\ Owing' /\ Signal'
<1>1. Books'
    BY DEF Books
<1>2. LiveIn(st) = {} => LiveIn(st') = {}
    OBVIOUS
<1>3. Owing'
    BY <1>2 DEF Recovery, Owing
<1>4. Signal'
    BY <1>2 DEF Recovery, Signal, Dead
<1> QED
    BY <1>1, <1>3, <1>4

\* A step that ends the receiver.
LEMMA LostReceiver ==
    ASSUME Recovery, rx'.at \in {"failed", "cancelled"}, ~rx'.owed
    PROVE  Owing' /\ Signal' /\ Due' /\ Racing' /\ Unborn'
BY DEF Owing, Signal, Due, Racing, Dead, Unborn

\* A reopen that another task was faster with
LEMMA StaleRecovers ==
    ASSUME Inv, Recovery, ro.by = NoOne,
           \/ rx.at = "reopen" /\ ReopenStale("rx", rx.obs)
           \/ ka.at = "reopen" /\ ReopenStale("ka", ka.val)
    PROVE  Recovery'
<1>1. /\ Fields(app, AppFields) /\ Fields(rx, RxFields) /\ app.sess \in Nat
      /\ Books /\ Aside /\ Unborn /\ Owing /\ Signal /\ Due
    BY DEF Inv, Shape, Recovery
<1>2. UNCHANGED <<st, ro, due>>
    BY DEF ReopenStale
<1>3. Racing'
    BY <1>2 DEF Racing, NoOne
<1>4. CASE rx.at = "reopen" /\ ReopenStale("rx", rx.obs)
    <2>1. /\ rx' = [rx EXCEPT !.at = "next", !.owed = FALSE] /\ ka' = ka
          /\ app' = [app EXCEPT !.signal = @ \/ (run.counts /\ "rx" = "rx" /\ rx.owed)]
        BY <1>4 DEF ReopenStale
    <2>2. rx'.at = "next" /\ ~rx'.owed /\ rx'.backlog = rx.backlog
        BY <1>1, <2>1 DEF Fields, RxFields
    <2>3. app'.pl = app.pl /\ app'.sess = app.sess
        BY <1>1, <2>1 DEF Fields, AppFields
    <2>4. Books' /\ Aside' /\ Unborn'
        BY <1>1, <1>2, <2>1, <2>2, <2>3 DEF Books, Aside, Unborn
    <2>5. Owing' /\ Signal'
        BY <2>2 DEF Owing, Signal
    <2>6. Due'
        BY <1>1, <1>2, <1>4, <2>1, <2>3 DEF Due, Dead
    <2> QED
        BY <1>3, <2>4, <2>5, <2>6 DEF Recovery
<1>5. CASE ka.at = "reopen" /\ ReopenStale("ka", ka.val)
    <2>1. /\ ka' = [at |-> "idle", val |-> None] /\ rx' = rx
          /\ app' = [app EXCEPT !.signal = @ \/ (run.counts /\ "ka" = "rx" /\ rx.owed)]
        BY <1>5 DEF ReopenStale
    <2>2. ka'.at = "idle" /\ ka'.val = None /\ None <= app.sess
        BY <1>1, <2>1 DEF None
    <2>3. app'.pl = app.pl /\ app'.sess = app.sess /\ (app'.signal <=> app.signal)
        BY <1>1, <2>1 DEF Fields, AppFields
    <2>4. Books' /\ Owing' /\ Signal'
        BY <1>1, <1>2, <2>1, <2>3, SameReceiver DEF NoOne, Books
    <2>5. Aside' /\ Unborn' /\ Due'
        BY <1>1, <1>2, <2>1, <2>2, <2>3 DEF Aside, Unborn, Due
    <2> QED
        BY <1>3, <2>4, <2>5 DEF Recovery
<1> QED
    BY <1>4, <1>5

\* A reopen begins by ending the playback under way
LEMMA BeginsRecovers ==
    ASSUME Inv, Recovery, ro.by = NoOne, NEW who \in {"rx", "ka"}, NEW obs, ReopenBegins(who, obs),
           who = "rx" => rx.at = "reopen",
           who = "ka" => ka.at = "reopen" /\ obs = ka.val
    PROVE  Recovery'
<1> DEFINE g == IF \E h \in Gens : Playing(h) THEN CHOOSE h \in Gens : Playing(h) ELSE NoGen
           e == IF g = NoGen THEN [st |-> st, err |-> "none", facts |-> facts, app |-> app]
                ELSE Ending(g, "stopped", FALSE)
<1>1. /\ Shape /\ Fields(app, AppFields) /\ Fields(rx, RxFields) /\ app.sess \in Nat
      /\ Books /\ Aside /\ Unborn /\ Owing /\ Signal /\ Due
    BY DEF Inv, Shape, Recovery
<1>2. g = NoGen \/ g \in Gens
    OBVIOUS
<1>3. /\ obs = app.sess /\ st' = e.st /\ due' = due
      /\ \/ /\ e.err = "none" /\ app' = [e.app EXCEPT !.ready = FALSE]
            /\ ro' = [by |-> who, at |-> "reset", ended |-> g # NoGen] /\ UNCHANGED <<rx, ka>>
         \/ /\ e.err # "none" /\ app' = [e.app EXCEPT !.ready = TRUE] /\ UNCHANGED ro
            /\ IF who = "rx" THEN RxFails(e.err) /\ UNCHANGED ka
               ELSE ka' = [ka EXCEPT !.at = "failed"] /\ UNCHANGED rx
    BY DEF ReopenBegins
<1> HIDE DEF g
<1>4. /\ Ledger(e.st) /\ LiveIn(e.st) \subseteq LiveIn(st) /\ DOMAIN e.app.pl = Gens
      /\ e.app.signal <=> app.signal
      /\ g # NoGen /\ e.err = "none" => g \in LiveIn(st) /\ LiveIn(e.st) = {}
      /\ Fields(e.app, AppFields) /\ e.app.sess = app.sess /\ Kept(st, e.st)
    <2>1. CASE g = NoGen
        BY <1>1, <2>1 DEF Books, Kept, Shape
    <2>2. CASE g \in Gens /\ g # NoGen
        <3>1. e = Ending(g, "stopped", FALSE)
            BY <2>2
        <3> QED
            BY <1>1, <2>2, <3>1, EndingLives, EndingKept DEF Books
    <2> QED
        BY <1>2, <2>1, <2>2
<1> HIDE DEF e
<1>5. DOMAIN app'.pl = Gens /\ (app'.signal <=> app.signal) /\ app'.sess = app.sess
    BY <1>3, <1>4 DEF Fields, AppFields
<1>6. Books'
    BY <1>3, <1>4, <1>5 DEF Books
<1>7. CASE /\ e.err = "none" /\ ro' = [by |-> who, at |-> "reset", ended |-> g # NoGen] /\ UNCHANGED <<rx, ka>>
    <2>1. ro'.by = who /\ (ro'.ended <=> g # NoGen)
        BY <1>7
    <2>2. g # NoGen => ~rx.owed
        BY <1>1, <1>4, <1>7 DEF Owing
    <2>3. Owing' /\ Signal'
        BY <1>3, <1>4, <1>5, <1>7, <2>1, <2>2, SameReceiver
    <2>4. Aside' /\ Unborn'
        BY <1>1, <1>3, <1>4, <1>5, <1>7, <2>1 DEF Aside, Unborn, Kept
    <2>5. Due'
        BY <1>1, <1>3, <1>4, <1>5, <1>7, <2>1 DEF Due, Dead, Kept
    <2>6. Racing'
        BY <1>3, <1>4, <1>7, <2>1 DEF Racing
    <2> QED
        BY <1>6, <2>3, <2>4, <2>5, <2>6 DEF Recovery
<1>8. CASE who = "rx" /\ RxFails(e.err) /\ UNCHANGED <<ka, ro>>
    <2>1. rx'.at = "failed" /\ ~rx'.owed /\ rx'.backlog = <<>>
        BY <1>1, <1>8, RxLeft
    <2>2. Aside'
        BY <1>1, <1>5, <1>8, <2>1 DEF Aside
    <2> QED
        BY <1>6, <2>1, <2>2, LostReceiver DEF Recovery
<1>9. CASE ka' = [ka EXCEPT !.at = "failed"] /\ UNCHANGED <<rx, ro>>
    <2>1. ka'.at = "failed" /\ ka'.val = ka.val
        BY <1>1, <1>9 DEF Shape
    <2>2. Owing' /\ Signal'
        BY <1>3, <1>4, <1>5, <1>9, SameReceiver DEF NoOne
    <2>3. Aside' /\ Unborn' /\ Due'
        BY <1>1, <1>3, <1>4, <1>5, <1>9, <2>1 DEF Aside, Unborn, Due, Kept, NoOne
    <2>4. Racing'
        BY <1>9 DEF Racing, NoOne
    <2> QED
        BY <1>6, <2>2, <2>3, <2>4 DEF Recovery
<1> QED
    BY <1>3, <1>7, <1>8, <1>9
\* close_message says nothing of playbacks.
LEMMA CloseLives ==
    ASSUME NEW s, Ledger(s)
    PROVE  Ledger(CloseMessage(s)) /\ LiveIn(CloseMessage(s)) = LiveIn(s) /\ CloseMessage(s).closed
           /\ CloseMessage(s).open = s.open
<1> DEFINE yes == TRUE
<1>1. Changed(s, CloseMessage(s), "closed", yes) /\ "closed" \in StFields \ {"pb", "current"}
    BY DEF Changed, CloseMessage, StFields
<1>2. CloseMessage(s).closed /\ CloseMessage(s).open = s.open
    BY DEF Ledger, Fields, StFields, CloseMessage
<1> HIDE DEF yes
<1> QED
    BY <1>1, <1>2, SessionWritten

\* The session of a reopen is closed
LEMMA ClosesRecovers ==
    ASSUME Inv, Recovery, ReopenCloses
    PROVE  Recovery'
<1>1. /\ Shape /\ Fields(app, AppFields)
      /\ Books /\ Aside /\ Unborn /\ Owing /\ Signal /\ Racing
    BY DEF Inv, Shape, Recovery
<1>2. /\ app' = [app EXCEPT !.pl = NoPlaybacks, !.owner = NoGen, !.fence = 1]
      /\ st' = CloseMessage(st) /\ ro' = [ro EXCEPT !.at = "release"] /\ UNCHANGED <<due, rx, ka>>
    BY DEF ReopenCloses
<1>3. app'.pl = NoPlaybacks /\ (app'.signal <=> app.signal) /\ app'.sess = app.sess
    BY <1>1, <1>2 DEF Fields, AppFields
<1>4. DOMAIN NoPlaybacks = Gens /\ \A g \in Gens : NoPlaybacks[g].last = None
    BY DEF NoPlaybacks, Silent
<1>5. ro'.by = ro.by /\ ro'.ended = ro.ended
    BY <1>1, <1>2 DEF Shape
<1>6. Ledger(st') /\ LiveIn(st') = LiveIn(st) /\ st'.closed /\ st'.open = st.open
    BY <1>1, <1>2, CloseLives DEF Books
<1>7. Books' /\ Owing' /\ Signal'
    <2>1. ro'.by = "ka" /\ ro'.ended => ~rx.owed
        BY <1>1, <1>5 DEF Owing
    <2> QED
        BY <1>2, <1>3, <1>4, <1>6, <2>1, SameReceiver
<1>8. Aside' /\ Unborn' /\ Due'
    BY <1>1, <1>2, <1>3, <1>5, <1>6 DEF Aside, Unborn, Due
<1>9. \A g \in LiveIn(st) : app'.pl[g].last = None
    BY <1>3, <1>4 DEF LiveIn
<1>10. Racing'
    BY <1>1, <1>2, <1>5, <1>6, <1>9 DEF Racing
<1> QED
    BY <1>7, <1>8, <1>10 DEF Recovery

\* The operation gives up
LEMMA FailureRecovers ==
    ASSUME Inv, Recovery, ro' = NoOperation, NEW code, OwnerFails(code), due' = due, NEW v, app' = [app EXCEPT !.ready = v],
           st' \in {st, NoState}
    PROVE  Recovery'
<1>1. /\ Shape /\ Fields(app, AppFields) /\ Fields(rx, RxFields)
      /\ Books /\ Aside /\ Unborn /\ Owing /\ Signal /\ Due
    BY DEF Inv, Shape, Recovery
<1>2. app'.pl = app.pl /\ (app'.signal <=> app.signal) /\ app'.sess = app.sess
    BY <1>1 DEF Fields, AppFields
<1>3. /\ Ledger(st') /\ LiveIn(st') \subseteq LiveIn(st) /\ (st'.open => st.open)
      /\ st' = st \/ st'.closed
    BY <1>1, EmptyLedger, OperationMade DEF Books
<1>4. ro'.by = NoOne
    BY DEF NoOperation
<1>5. Racing'
    BY <1>4 DEF Racing, NoOne
<1>6. /\ ka'.val = ka.val
      /\ IF ro.by = "ka" THEN ka'.at \in {"cancelled", "failed"} ELSE ka' = ka
    BY <1>1 DEF OwnerFails, Shape
<1>7. CASE ro.by = "rx"
    <2>1. rx'.at \in {"failed", "cancelled"} /\ ~rx'.owed /\ rx'.backlog = rx.backlog
        BY <1>1, <1>7 DEF OwnerFails, Fields, RxFields
    <2>2. Books' /\ Aside'
        BY <1>1, <1>2, <1>3, <1>4, <1>6, <2>1 DEF Books, Aside, NoOne
    <2> QED
        BY <2>1, <2>2, LostReceiver DEF Recovery
<1>8. CASE ro.by # "rx"
    <2>1. rx' = rx
        BY <1>8 DEF OwnerFails
    <2>2. Books' /\ Owing' /\ Signal'
        BY <1>1, <1>2, <1>3, <1>4, <2>1, SameReceiver DEF NoOne, Books
    <2>3. Aside' /\ Unborn'
        BY <1>1, <1>2, <1>3, <1>4, <1>6, <2>1 DEF Aside, Unborn, NoOne
    <2>4. Due'
        BY <1>1, <1>2, <1>3, <1>4, <1>6, <2>1 DEF Due, Dead, NoOne
    <2> QED
        BY <1>5, <2>2, <2>3, <2>4 DEF Recovery
<1> QED
    BY <1>7, <1>8

\* The grant of the closed session is given back, the next one received, or its rollback begins
LEMMA AdvanceRecovers ==
    ASSUME Inv, Recovery, UNCHANGED <<rx, ka, app, due>>, NEW at, ro' = [ro EXCEPT !.at = at],
           st' \in {st, NoState}
    PROVE  Recovery'
<1>1. Shape /\ Books /\ Aside /\ Unborn /\ Owing /\ Signal /\ Due /\ Racing
    BY DEF Inv, Recovery
<1>2. ro'.by = ro.by /\ ro'.ended = ro.ended
    BY <1>1 DEF Shape
<1>3. /\ Ledger(st') /\ LiveIn(st') \subseteq LiveIn(st) /\ (st'.open => st.open)
      /\ st' = st \/ st'.closed
    BY <1>1, EmptyLedger, OperationMade DEF Books
<1>4. Books' /\ Owing' /\ Signal'
    <2>1. ro'.by = "ka" /\ ro'.ended => ~rx.owed
        BY <1>1, <1>2 DEF Owing
    <2> QED
        BY <1>1, <1>3, <2>1, SameReceiver DEF Books
<1>5. Aside' /\ Unborn'
    BY <1>1, <1>2, <1>3 DEF Aside, Unborn
<1>6. Due'
    BY <1>1, <1>2, <1>3 DEF Due, Dead
<1>7. Racing'
    BY <1>1, <1>2, <1>3 DEF Racing
<1> QED
    BY <1>4, <1>5, <1>6, <1>7 DEF Recovery

\* The session of a connect or of a reopen is open
LEMMA HandshakeRecovers ==
    ASSUME Inv, Recovery, NEW p \in Profiles, Handshake(p)
    PROVE  Recovery'
<1>1. /\ Shape /\ Owner /\ Fields(app, AppFields) /\ Fields(rx, RxFields) /\ app.sess \in Nat /\ rx.sess \in Nat
      /\ rx.sess <= app.sess /\ ka.val \in Int
      /\ Books /\ Aside /\ Unborn /\ Owing /\ Signal
    BY DEF Inv, Shape, Recovery
<1>2. /\ st' = Opened(p) /\ ro' = NoOperation /\ OwnerGoesOn /\ ro.at = "handshake" /\ run.at \notin {"cancel", "left"}
      /\ app' = [app EXCEPT !.sess = @ + 1, !.ready = TRUE,
                            !.signal = @ \/ (run.counts /\ (ro.ended \/ (ro.by = "rx" /\ rx.owed)))]
    BY DEF Handshake, Cancelling
<1>3. /\ app'.pl = app.pl /\ app'.sess = app.sess + 1
      /\ app'.signal => app.signal \/ ro.ended \/ (ro.by = "rx" /\ rx.owed)
    BY <1>1, <1>2 DEF Fields, AppFields
<1>4. Ledger(st') /\ LiveIn(st') = {}
    BY <1>2, EmptyLedger
<1>5. ro'.by = NoOne
    BY <1>2 DEF NoOperation
<1>6. Books' /\ Racing'
    BY <1>1, <1>3, <1>4, <1>5 DEF Books, Racing, NoOne
<1>7. ro.by \in {"run", "rx", "ka"}
    BY <1>1, <1>2 DEF Shape, Owner
<1>8. ka' = (IF ro.by \in {"ka", "run"} THEN [at |-> "idle", val |-> None] ELSE ka)
    BY <1>2 DEF OwnerGoesOn
<1>9. ka'.val <= app.sess /\ ka'.val \in Int /\ (ka'.at = "reopen" => ro.by = "rx")
    <2>1. CASE ro.by = "rx"
        BY <1>1, <1>8, <2>1 DEF Aside
    <2>2. CASE ro.by \in {"ka", "run"}
        BY <1>1, <1>8, <2>2 DEF None
    <2> QED
        BY <1>7, <2>1, <2>2
<1>10. ka'.val <= app'.sess /\ ka'.val # app'.sess
    BY <1>1, <1>3, <1>9
<1>11. Due'
    BY <1>5, <1>10 DEF Due, NoOne
<1>12. CASE ro.by \in {"rx", "run"}
    <2>1. rx'.at = "next" /\ ~rx'.owed /\ (rx'.backlog = <<>> \/ rx'.backlog = rx.backlog)
        <3>1. CASE ro.by = "rx"
            BY <1>1, <1>2, <3>1 DEF OwnerGoesOn, Fields, RxFields
        <3>2. CASE ro.by = "run"
            <4>1. rx.at = "new"
                BY <1>1, <1>2, <3>2 DEF Owner
            <4>2. ~rx.owed
                BY <1>1, <4>1 DEF Owing
            <4>3. rx' = [rx EXCEPT !.at = "next"]
                BY <1>2, <3>2 DEF OwnerGoesOn
            <4> QED
                BY <1>1, <4>2, <4>3 DEF Fields, RxFields
        <3> QED
            BY <1>12, <3>1, <3>2
    <2>2. Owing' /\ Signal' /\ Unborn'
        BY <2>1 DEF Owing, Signal, Unborn
    <2>3. Aside'
        BY <1>1, <1>5, <1>10, <2>1 DEF Aside, NoOne
    <2> QED
        BY <1>6, <1>11, <2>2, <2>3 DEF Recovery
<1>13. CASE ro.by = "ka"
    <2>1. rx'.at = rx.at /\ rx'.owed = rx.owed /\ rx'.backlog = <<>> /\ rx'.sess = rx.sess
        BY <1>1, <1>2, <1>13 DEF OwnerGoesOn, Fields, RxFields
    <2>2. rx.at # "new"
        BY <1>1, <1>13 DEF Unborn, Owner
    <2>3. Owing'
        BY <1>1, <1>3, <1>4, <1>5, <1>13, <2>1 DEF Owing, NoOne
    <2>4. rx'.sess # app'.sess
        BY <1>1, <1>3, <2>1
    <2>5. Signal' /\ Unborn'
        BY <1>4, <2>1, <2>2, <2>4 DEF Signal, Unborn
    <2>6. Aside'
        BY <1>5, <1>10, <2>1 DEF Aside, NoOne
    <2> QED
        BY <1>6, <1>11, <2>3, <2>5, <2>6 DEF Recovery
<1> QED
    BY <1>7, <1>12, <1>13
\* The uplink and keepalive tasks
LEMMA SendersRecover ==
    ASSUME Inv, Recovery, UplinkFails \/ KeepaliveWaits \/ KeepaliveSends \/ KeepaliveLate
    PROVE  Recovery'
<1>1. Shape /\ app.sess \in Nat /\ Books /\ Aside /\ Unborn /\ Owing /\ Signal /\ Due /\ Racing
    BY DEF Inv, Shape, Recovery
<1>2. UNCHANGED <<st, due, rx, ro, app>>
    BY DEF UplinkFails, KeepaliveWaits, KeepaliveSends, KeepaliveLate, session
<1>3. Books' /\ Owing' /\ Signal' /\ Racing'
    BY <1>1, <1>2 DEF Books, Owing, Signal, Racing, Dead
<1>4. ASSUME ka'.val <= app.sess, ka'.at = "reopen" => ka' = ka PROVE Recovery'
    <2>1. Aside' /\ Unborn' /\ Due'
        BY <1>1, <1>2, <1>4 DEF Aside, Unborn, Due, Dead
    <2> QED
        BY <1>3, <2>1 DEF Recovery
<1>5. CASE UplinkFails
    <2>1. ka' = ka
        BY <1>5 DEF UplinkFails
    <2> QED
        BY <1>1, <1>4, <2>1 DEF Aside
<1>6. ASSUME NEW at \in {"lock", "idle", "failed"}, ka' = [ka EXCEPT !.at = at] PROVE Recovery'
    <2>1. ka'.at = at /\ ka'.val = ka.val
        BY <1>1, <1>6 DEF Shape
    <2> QED
        BY <1>1, <1>4, <1>6, <2>1 DEF Aside
<1>7. CASE KeepaliveWaits \/ KeepaliveLate
    BY <1>6, <1>7 DEF KeepaliveWaits, KeepaliveLate
<1>8. CASE KeepaliveSends
    <2>1. CASE st.closed
        BY <1>6, <1>8, <2>1 DEF KeepaliveSends
    <2>2. CASE ~st.closed
        <3>1. ka' = [at |-> "reopen", val |-> app.sess] /\ st.open /\ st.profile = "udp" /\ due
            BY <1>8, <2>2 DEF KeepaliveSends, SendKeepaliveRaises
        <3>2. ka'.at = "reopen" /\ ka'.val = app.sess
            BY <3>1
        <3>3. Aside' /\ Unborn' /\ Due'
            BY <1>1, <1>2, <3>1, <3>2 DEF Aside, Unborn, Due
        <3> QED
            BY <1>3, <3>3 DEF Recovery
    <2> QED
        BY <2>1, <2>2
<1> QED
    BY <1>5, <1>7, <1>8

\* The tasks are cancelled
LEMMA StopRecovers ==
    ASSUME Inv, Recovery, StopRunning
    PROVE  Recovery'
<1>1. /\ Shape /\ Owner /\ Fields(app, AppFields) /\ app.sess \in Nat
      /\ Books /\ Aside /\ Unborn /\ Owing /\ Signal
    BY DEF Inv, Shape, Recovery
<1>2. /\ UNCHANGED st /\ app' = [app EXCEPT !.ready = FALSE]
      /\ rx' = IF ro.by = "rx" \/ rx.at \in {"done", "failed"} THEN rx ELSE [Receiving EXCEPT !.at = "cancelled"]
      /\ ka' = IF ro.by = "ka" \/ ka.at = "failed" THEN ka ELSE [at |-> "cancelled", val |-> None]
    BY DEF StopRunning
<1>8. ro'.by = ro.by /\ ro'.ended = ro.ended
    BY <1>1 DEF StopRunning, Shape
<1>3. app'.pl = app.pl /\ (app'.signal <=> app.signal) /\ app'.sess = app.sess
    BY <1>1, <1>2 DEF Fields, AppFields
<1>4. ka'.val <= app.sess /\ (ka'.at = "reopen" => ro.by = "ka")
    <2>1. CASE ro.by = "ka" \/ ka.at = "failed"
        BY <1>1, <1>2, <2>1 DEF Aside
    <2>2. CASE ~(ro.by = "ka" \/ ka.at = "failed")
        BY <1>1, <1>2, <2>2 DEF None
    <2> QED
        BY <2>1, <2>2
<1>5. Books'
    BY <1>1, <1>2, <1>3 DEF Books
<1>6. CASE ro.by = "rx" \/ rx.at \in {"done", "failed"}
    <2>1. rx' = rx /\ (ro.by # "rx" => Dead') /\ rx.at # "new"
        BY <1>1, <1>2, <1>6 DEF Dead, Owner
    <2>2. Owing' /\ Signal'
        <3>1. ro'.by = "ka" /\ ro'.ended => ~rx.owed
            BY <1>1, <1>8 DEF Owing
        <3> QED
            BY <1>1, <1>2, <1>3, <2>1, <3>1, SameReceiver DEF Books
    <2>3. Aside' /\ Unborn'
        BY <1>1, <1>2, <1>3, <1>4, <1>8, <2>1 DEF Aside, Unborn
    <2>4. Due' /\ Racing'
        BY <1>2, <1>4, <1>8, <2>1 DEF Due, Racing, Dead
    <2> QED
        BY <1>5, <2>2, <2>3, <2>4 DEF Recovery
<1>7. CASE ~(ro.by = "rx" \/ rx.at \in {"done", "failed"})
    <2>1. rx'.at = "cancelled" /\ ~rx'.owed /\ rx'.backlog = <<>>
        BY <1>2, <1>7 DEF Receiving
    <2>2. Aside'
        BY <1>1, <1>2, <1>3, <1>4, <1>8, <2>1 DEF Aside
    <2> QED
        BY <1>5, <2>1, <2>2, LostReceiver DEF Recovery
<1> QED
    BY <1>6, <1>7

\* The session is closed at the run's end
LEMMA CleanUpRecovers ==
    ASSUME Inv, Recovery, CleanUp
    PROVE  Recovery'
<1> DEFINE g == IF \E h \in Gens : Playing(h) THEN CHOOSE h \in Gens : Playing(h) ELSE NoGen
           e == Ending(g, "stopped", TRUE)
<1>1. Shape /\ Owner /\ Books /\ Aside /\ Unborn /\ Owing /\ Signal
    BY DEF Inv, Recovery
<1>2. /\ UNCHANGED <<due, rx, ka, ro>> /\ run.at = "cancel" /\ ro.by = NoOne
      /\ \/ st' = CloseMessage(e.st) /\ app' = e.app /\ g # NoGen
         \/ st' = CloseMessage(st) /\ app' = app
    BY DEF CleanUp
<1>3. g = NoGen \/ g \in Gens
    OBVIOUS
<1> HIDE DEF g
<1>4. g \in Gens => /\ Ledger(e.st) /\ LiveIn(e.st) \subseteq LiveIn(st) /\ DOMAIN e.app.pl = Gens
                    /\ ~st.open => (e.app.signal <=> app.signal)
                    /\ e.app.sess = app.sess /\ e.st.open = st.open
    BY <1>1, EndingLives, EndingKept DEF Books, Kept
<1> HIDE DEF e
<1>5. rx.at \in {"new", "done", "failed", "cancelled"} /\ ~rx.owed
    BY <1>1, <1>2 DEF Owner, Owing, NoOne
<1>6. /\ Ledger(st') /\ LiveIn(st') \subseteq LiveIn(st) /\ DOMAIN app'.pl = Gens
      /\ ~st.open => (app'.signal <=> app.signal)
      /\ app'.sess = app.sess /\ st'.closed /\ st'.open = st.open
    BY <1>1, <1>2, <1>3, <1>4, CloseLives DEF Books
<1>7. Books' /\ Owing'
    BY <1>2, <1>5, <1>6 DEF Books, Owing
<1>8. Signal'
    <2>1. CASE rx.at = "new"
        BY <1>1, <1>2, <1>6, <2>1 DEF Signal, Unborn, Dead
    <2>2. CASE rx.at # "new"
        BY <1>2, <1>5, <2>2 DEF Signal, Dead
    <2> QED
        BY <2>1, <2>2
<1>9. Aside' /\ Unborn' /\ Due' /\ Racing'
    BY <1>1, <1>2, <1>6 DEF Aside, Unborn, Due, Racing, NoOne
<1> QED
    BY <1>7, <1>8, <1>9 DEF Recovery

\* The last grant is given back
LEMMA CloseAllRecovers ==
    ASSUME Inv, Recovery, CloseAll
    PROVE  Recovery'
<1>1. Shape /\ Owner /\ Books /\ Aside /\ Unborn /\ Owing /\ Signal
    BY DEF Inv, Recovery
<1>2. UNCHANGED <<due, rx, ka, ro, app>> /\ st' = NoState /\ run.at \in {"closing", "pressed"}
    BY DEF CloseAll
<1>3. ro.by = NoOne
    BY <1>1, <1>2 DEF Owner
<1>4. Ledger(st') /\ LiveIn(st') = {} /\ st'.closed /\ ~st'.open
    BY <1>1, <1>2, EmptyLedger, OperationMade
<1>5. Books' /\ Owing' /\ Signal'
    BY <1>1, <1>2, <1>3, <1>4, SameReceiver DEF NoOne, Books
<1>6. Aside' /\ Unborn' /\ Due' /\ Racing'
    BY <1>1, <1>2, <1>3, <1>4 DEF Aside, Unborn, Due, Racing, NoOne
<1> QED
    BY <1>5, <1>6 DEF Recovery

\* The run is cancelled again
LEMMA AgainRecovers ==
    ASSUME Inv, Recovery, CancelledAgain
    PROVE  Recovery'
<1>1. UNCHANGED <<st, rx, ka, app, due>>
    BY DEF CancelledAgain, session
<1>2. ro'.by = ro.by /\ ro'.ended = ro.ended
    BY DEF CancelledAgain, Inv, Shape
<1> QED
    BY <1>1, <1>2 DEF Recovery, Books, Aside, Unborn, Owing, Signal, Due, Racing, Dead

\* What happens outside the client
LEMMA OutsideRecovers ==
    ASSUME Inv, Recovery, UNCHANGED <<st, rx, ka, ro, app>>, due' = due \/ (due' /\ st.profile = "udp")
    PROVE  Recovery'
BY DEF Recovery, Books, Aside, Unborn, Owing, Signal, Due, Racing, Dead

\* A client that has not connected yet
LEMMA RecoveryInit == Init => Recovery
<1> SUFFICES ASSUME Init PROVE Recovery
    OBVIOUS
<1>1. st = NoState /\ Ledger(st) /\ LiveIn(st) = {} /\ ~st.open
    BY EmptyLedger DEF Init, NoState, Opened
<1>2. DOMAIN app.pl = Gens /\ app.sess = 0 /\ ~app.signal
    BY DEF Init, NoPlaybacks
<1>3. rx.at = "new" /\ ~rx.owed /\ rx.backlog = <<>>
    BY DEF Init, Receiving
<1>4. ka.at = "new" /\ ka.val <= 0 /\ ro.by = "run" /\ ~ro.ended
    BY DEF Init, None
<1> QED
    BY <1>1, <1>2, <1>3, <1>4 DEF Recovery, Books, Aside, Unborn, Owing, Signal, Due, Racing

\* Every step keeps it.
LEMMA RecoveryStep ==
    ASSUME Inv, Recovery, [Next]_vars
    PROVE  Recovery'
<1>1. CASE Receiver
    <2>1. CASE ReceiveTimer
        <3>1. rx.at = "wait" /\ tr.open /\ SameSession /\ \E r : Received(r)
            BY <2>1 DEF ReceiveTimer
        <3> QED
            BY <3>1, ReceivedRecovers
    <2> QED
        BY <1>1, <2>1, NextEventRecovers, MediaReadyRecovers, ControlReadyRecovers, FailsRecovers,
           HandleEventRecovers, RenderedRecovers, DrainedRecovers DEF Receiver
<1>2. CASE Operation
    <2>1. CASE ReopenEnter
        BY <2>1, StaleRecovers, BeginsRecovers DEF ReopenEnter
    <2>2. CASE ReopenReleases
        <3>1. /\ st' = NoState /\ due' = due
              /\ \/ ro' = [ro EXCEPT !.at = "bootstrap"] /\ UNCHANGED <<rx, ka, app>>
                 \/ /\ ro' = NoOperation /\ OwnerFails("release_failed")
                    /\ app' = [app EXCEPT !.ready = ~Cancelling]
            BY <2>2 DEF ReopenReleases
        <3> QED
            BY <3>1, AdvanceRecovers, FailureRecovers
    <2>3. CASE BootstrapFails \/ RollbackEnds
        <3>1. /\ ro' = NoOperation /\ UNCHANGED <<st, due>>
              /\ OwnerFails("bootstrap_failed") \/ OwnerFails("handshake_failed")
              /\ app' = [app EXCEPT !.ready = ~Cancelling /\ ro.by # "run"]
            BY <2>3 DEF BootstrapFails, RollbackEnds, session
        <3> QED
            BY <3>1, FailureRecovers
    <2>4. CASE Bootstrap \/ HandshakeFails
        <3>1. /\ \E at : ro' = [ro EXCEPT !.at = at]
              /\ UNCHANGED <<st, due, rx, ka, app>>
            BY <2>4 DEF Bootstrap, HandshakeFails, session
        <3> QED
            BY <3>1, AdvanceRecovers
    <2> QED
        BY <1>2, <2>1, <2>2, <2>3, <2>4, ClosesRecovers, HandshakeRecovers DEF Operation
<1>3. CASE Runner \/ StopRequested
    BY <1>3, StopRecovers, CleanUpRecovers, CloseAllRecovers, AgainRecovers DEF Runner, TaskEnds, CompletionReached, StopRequested
<1>4. CASE Network
    <2>1. ASSUME NEW p \in net, ReadDatagram(p) PROVE Recovery'
        <3>1. rx.at = "wait" /\ tr.open /\ SameSession /\ \E r : Received(r)
            BY <2>1 DEF ReadDatagram
        <3> QED
            BY <3>1, ReceivedRecovers
    <2>2. CASE LinkLost \/ RefreshDue
        <3>1. UNCHANGED <<st, rx, ka, ro, app>>
            BY <2>2 DEF LinkLost, RefreshDue, tasks
        <3>2. due' = due \/ (due' /\ st.profile = "udp")
            BY <2>2, Zenon DEF LinkLost, RefreshDue
        <3> QED
            BY <3>1, <3>2, OutsideRecovers
    <2> QED
        BY <1>4, <2>1, <2>2 DEF Network
<1>5. CASE Worker
    <2>1. UNCHANGED <<st, rx, ka, ro, app, due>>
        BY <1>5 DEF Worker, ServerBegins, ServerAudio, ServerKeepalive, ServerCompletes, ServerStops, ServerCloses,
           ServerReads, ServerStep, session, tasks
    <2> QED
        BY <2>1, OutsideRecovers
<1>6. CASE UNCHANGED vars
    <2>1. UNCHANGED <<st, rx, ka, ro, app, due>>
        BY <1>6 DEF vars, session, tasks
    <2> QED
        BY <2>1, OutsideRecovers
<1> QED
    BY <1>1, <1>2, <1>3, <1>4, <1>5, <1>6, FailsRecovers, SendersRecover DEF Next

\* While the receiver owes the reopen of a recovery from a media gap, no waiter for completed
\* playbacks has been signalled, whatever the keepalive task's own reopen, the worker's next
\* response or the run's end do meanwhile: the run is not ended in the middle of a recovery.
THEOREM RecoveriesFinish == Spec => []RecoveryFinishes
<1>1. Recovery => RecoveryFinishes
    BY DEF Recovery, Owing, RecoveryFinishes
<1> QED
    BY <1>1, InvInit, InvStep, RecoveryInit, RecoveryStep, PTL DEF Spec
=============================================================================
