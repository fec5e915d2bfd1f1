----------------------------- MODULE DesktopApp -----------------------------
(***************************************************************************)
(* The desktop reference client: DesktopApp.run with its uplink, receiver  *)
(* and keepalive tasks (app.py), the DesktopSession they share             *)
(* (session/client.py), and the Director, worker and network it meets.     *)
(*                                                                         *)
(* One action is the code a task runs between two awaits that suspend it.  *)
(* A control send is not such an await: it is taken or it fails.  Session  *)
(* numbers stand for the grant, the session and _session_generation, which *)
(* change together.  A task is cancelled by the run's end, and the run, as *)
(* cli.py's timeout and an interrupt do, any number of times.              *)
(***************************************************************************)
EXTENDS DesktopTransport

CONSTANTS
    PlcLimit,      \* _MAX_PLC_GAP_FRAMES, 4 in the code
    Profiles,      \* media profiles the worker may select
    MaxPackets,    \* bound: media packets the worker sends, a refresh due counting as one
    MaxFaults,     \* bound: lost links, closes, failing sinks and refreshes due
    MaxSessions    \* bound: grants the Director gives

ASSUME AppAssumption ==
    /\ {PlcLimit, MaxPackets, MaxFaults, MaxSessions} \subseteq Nat
    /\ Profiles \subseteq {"udp", "wss"}

VARIABLES
    st,     \* DesktopSession._state
    tr,     \* DesktopSession._udp
    app,    \* DesktopApp's attributes
    rx,     \* the receiver task, with the session's event backlog
    ka,     \* the keepalive task
    up,     \* the uplink task
    ro,     \* connect or _fresh_reopen under way, and who runs it
    run,    \* DesktopApp.run, which counts one playback or runs on
    due,    \* the media grant's refresh time has passed
    grants, \* what became of each grant the Director gave: Fates
    link,   \* the WebSocket is up
    srv,    \* external: the worker's side of the session
    ctl,    \* external: what the WebSocket carries to the client
    net,    \* external: datagrams sent to the client
    used,   \* bound: responses begun, packets sent and faults, in all sessions
    facts,  \* external: the ends the WebSocket carries to the worker
    heard   \* history: the last packet rendered, and its session

session == <<st, tr, due, grants, link>>
worker == <<srv, ctl, net, used>>
tasks == <<rx, ka, up, ro, run>>
vars == <<session, worker, tasks, app, facts, heard>>

NoOne == "none"
Silent == [begun |-> FALSE, started |-> FALSE, ended |-> FALSE, last |-> None, ts |-> None,
           final |-> None]
NoPlaybacks == [g \in Gens |-> Silent]
Playing(g) == g \in Gens /\ app.pl[g].begun /\ ~app.pl[g].ended
Receiving == [at |-> "new", ev |-> NoEvent, backlog |-> <<>>, out |-> "none", sess |-> 0,
              started |-> FALSE, obs |-> None, owed |-> FALSE, err |-> "none"]
NoWorker == [up |-> FALSE, gen |-> NoGen, busy |-> FALSE, term |-> FALSE, stop |-> FALSE,
             sent |-> 0, last |-> None, ts |-> 0]

Init ==
    /\ st = NoState /\ tr = ClosedTransport /\ due = FALSE /\ grants = <<>> /\ link = FALSE
    /\ srv = NoWorker /\ ctl = <<>> /\ net = {} /\ facts = <<>>
    /\ app = [sess |-> 0, ready |-> FALSE, pl |-> NoPlaybacks, owner |-> NoGen, fence |-> 1,
              signal |-> FALSE]
    /\ rx = Receiving /\ ka = [at |-> "new", val |-> None] /\ up = "new"
    /\ used = [begins |-> 0, packets |-> 0, faults |-> 0]
    /\ ro = [by |-> "run", at |-> "bootstrap", ended |-> FALSE]
    /\ run \in [at : {"starting"}, ok : {TRUE}, counts : BOOLEAN]
    /\ heard = [sess |-> 0, gen |-> NoGen, n |-> None]

\* The receiver's next step needs nothing of the last one.
RxTo(at) == rx' = [Receiving EXCEPT !.at = at, !.backlog = rx.backlog]
RxFails(code) == rx' = [Receiving EXCEPT !.at = "failed", !.err = code]

-----------------------------------------------------------------------------
(* next_event. *)

\* next_event still uses the session's state and transports.
SameSession == rx.sess = app.sess

\* receive_audio has come to r: it raises, returns the first packet that is in
\* order, or waits.
MediaTask(r) ==
    LET returns == r.out = "none" /\ r.tr.ready # <<>> IN
    /\ tr' = IF returns THEN [r.tr EXCEPT !.ready = Tail(@)] ELSE r.tr
    /\ rx' = [rx EXCEPT !.out = r.out, !.sess = app.sess,
                        !.ev = IF returns THEN Head(r.tr.ready) ELSE NoEvent,
                        !.at = IF returns \/ r.out # "none" THEN "got" ELSE "wait"]

\* next_event is called.  The waiter of a completed playback runs before it.
NextEvent ==
    /\ rx.at = "next" /\ ~app.signal
    /\ \/ st.closed /\ RxFails("session_closed") /\ UNCHANGED tr
       \/ /\ ~st.closed /\ rx.backlog # <<>>
          /\ rx' = [rx EXCEPT !.at = "event", !.ev = Head(rx.backlog), !.backlog = Tail(@)]
          /\ UNCHANGED tr
       \/ /\ ~st.closed /\ rx.backlog = <<>> /\ st.profile = "wss"
          /\ rx' = [rx EXCEPT !.at = "wait", !.sess = app.sess] /\ UNCHANGED tr
       \/ /\ ~st.closed /\ rx.backlog = <<>> /\ st.profile = "udp" /\ due
          /\ rx' = [rx EXCEPT !.at = "event", !.ev = ReopenEvent] /\ UNCHANGED tr
       \/ /\ ~st.closed /\ rx.backlog = <<>> /\ st.profile = "udp" /\ ~due
          /\ \E stale \in BOOLEAN : LET r == AdmitPending(st, tr, stale) IN
                MediaTask(r)
    /\ UNCHANGED <<st, due, grants, link, worker, ka, up, ro, run, app, facts, heard>>

\* The media task moves: a datagram is read, or its wait times out.
Received(r) ==
    /\ r # Continues(tr)
    /\ MediaTask(r)
    /\ UNCHANGED <<st, due, grants, link, worker, ka, up, ro, run, app, facts, heard>>

ReadDatagram(p) ==
    /\ rx.at = "wait" /\ SameSession /\ tr.open /\ p \in net
    /\ \E stale, aged, late \in BOOLEAN : Received(TakeDatagram(st, tr, p, stale, aged, late))

ReceiveTimer ==
    /\ rx.at = "wait" /\ SameSession /\ tr.open
    /\ \/ due /\ Received(Interrupted(tr, "reopen"))
       \/ /\ ~due /\ (tr.armed \/ tr.pend # {})
          /\ \E stale, aged \in BOOLEAN : Received(TimerFires(st, tr, stale, aged))

\* An event, unless there is none.
Some(event) == IF event.kind = "none" THEN <<>> ELSE <<event>>

\* The events of a round in which control gave c and media gave m.
Deliver(c, m) ==
    LET events == Some(c.event) \o Some(m.event) IN
    IF c.err # "none" THEN RxFails(c.err) /\ st' = c.st
    ELSE IF c.event.kind = "close"
         THEN rx' = [Receiving EXCEPT !.at = "event", !.ev = c.event] /\ st' = c.st
    ELSE IF m.err # "none" THEN RxFails(m.err) /\ st' = m.st
    ELSE IF events = <<>> THEN RxTo("next") /\ st' = m.st
    ELSE /\ rx' = [Receiving EXCEPT !.at = "event", !.ev = Head(events), !.backlog = Tail(events)]
         /\ st' = m.st

\* What the finished media task gives, after control made the state s.
MediaResult(s) ==
    IF rx.out = "reopen" THEN Returns(s, ReopenEvent)
    ELSE IF rx.out # "none" THEN Raises(s, rx.out)
    ELSE AcceptMedia(s, rx.ev)

\* Control is projected first when both are ready.
MediaReady ==
    /\ rx.at = "got" /\ SameSession
    /\ \/ /\ Deliver(Returns(st, NoEvent), MediaResult(st)) /\ UNCHANGED ctl
       \/ /\ ctl # <<>>
          /\ LET c == AcceptControl(st, Head(ctl)) IN Deliver(c, MediaResult(c.st))
          /\ ctl' = Tail(ctl)
    /\ UNCHANGED <<tr, due, grants, link, srv, net, used, ka, up, ro, run, app, facts, heard>>

\* _from_wss, for control and, on wss-opus/1, for media.
ControlReady ==
    /\ rx.at = "wait" /\ SameSession /\ ctl # <<>>
    /\ ctl' = Tail(ctl)
    /\ LET m == Head(ctl) IN
       \/ /\ m.kind # "audio" /\ LET c == AcceptControl(st, m) IN Deliver(c, Returns(c.st, NoEvent))
          /\ UNCHANGED tr
       \/ /\ m.kind = "audio" /\ Admission(st, m) = "admitted" /\ tr.fresh = m.gen
          /\ Deliver(Returns(st, NoEvent), Returns(st, ReopenEvent)) /\ UNCHANGED tr
       \/ /\ m.kind = "audio" /\ Deliver(Returns(st, NoEvent), AcceptMedia(st, m))
          /\ tr' = IF Admission(st, m) = "admitted" THEN [tr EXCEPT !.fresh = m.gen] ELSE tr
    /\ UNCHANGED <<due, grants, link, srv, net, used, ka, up, ro, run, app, facts, heard>>

\* The WebSocket next_event reads from has failed or was replaced with its
\* session, or the state it read for has been closed.
ControlFails ==
    /\ \/ rx.at = "wait" /\ ~link /\ ctl = <<>>
       \/ rx.at \in {"wait", "got"} /\ ~SameSession
    /\ RxFails("wss_receive_failed")
    /\ UNCHANGED <<session, worker, ka, up, ro, run, app, facts, heard>>

-----------------------------------------------------------------------------
(* The receiver's handling of events. *)

\* WssTransport.send_control, after what already went wrong.
Sent(err) == IF err = "none" /\ ~link THEN "wss_send_failed" ELSE err

\* _end_playback: the app is fenced first, then the session, then the wire.
Ending(g, outcome, signal) ==
    LET r      == PlaybackEnded(st, g, outcome, app.pl[g].last)
        err    == Sent(r.err)
        fenced == [app EXCEPT !.pl[g].ended = TRUE, !.owner = IF @ = g THEN NoGen ELSE @]
    IN  [st |-> r.st, err |-> err,
         facts |-> IF err = "none" THEN Append(facts, r.event) ELSE facts,
         app |-> IF err = "none" THEN [fenced EXCEPT !.signal = @ \/ (signal /\ run.counts)] ELSE fenced]

EndPlayback(g, outcome, fence) ==
    LET e == Ending(g, outcome, TRUE) IN
    /\ st' = e.st /\ app' = [e.app EXCEPT !.fence = fence] /\ facts' = e.facts
    /\ IF e.err = "none" THEN RxTo("next") ELSE RxFails(e.err)

\* Mutant: the completion waiter is signalled before the reopen.
RecoverSignals(g) ==
    LET e == Ending(g, "stopped", TRUE) IN
    /\ st' = e.st /\ app' = e.app /\ facts' = e.facts
    /\ IF e.err = "none"
       THEN rx' = [rx EXCEPT !.at = "reopen", !.ev = NoEvent, !.obs = app.sess, !.owed = TRUE]
       ELSE RxFails(e.err)

\* _recover_from_media_gap, up to its fresh reopen.
Recover(g) ==
    LET e == Ending(g, "stopped", FALSE) IN
    /\ st' = e.st /\ app' = e.app /\ facts' = e.facts
    /\ IF e.err = "none"
       THEN rx' = [rx EXCEPT !.at = "reopen", !.ev = NoEvent, !.obs = app.sess, !.owed = TRUE]
       ELSE RxFails(e.err)

HandleBegin ==
    /\ rx.ev.kind = "begin" /\ RxTo("next")
    /\ app' = [app EXCEPT !.pl[rx.ev.gen] = [Silent EXCEPT !.begun = TRUE]]
    /\ UNCHANGED <<st, facts>>

HandleClose == rx.ev.kind = "close" /\ RxTo("done") /\ UNCHANGED <<st, app, facts>>

\* The session generation is read after the event was made.
HandleReopen ==
    /\ rx.ev.kind = "reopen"
    /\ rx' = [rx EXCEPT !.at = "reopen", !.ev = NoEvent, !.obs = app.sess]
    /\ UNCHANGED <<st, app, facts>>

\* The missing frames are more than the packet positions or the limit allow.
GapTooWide(g, p) ==
    LET missing == p.ts - app.pl[g].ts - 1 IN
    /\ st.profile = "udp" /\ app.pl[g].last # None
    /\ missing > p.n - app.pl[g].last - 1 \/ missing > PlcLimit

\* Mutant: the packet is recorded before it is rendered.
HandleAudioEarly ==
    LET g == rx.ev.gen IN
    /\ rx.ev.kind = "audio"
    /\ IF ~Playing(g) \/ g < app.fence \/ app.owner \notin {NoGen, g}
       THEN RxTo("next") /\ UNCHANGED <<st, app, facts>>
       ELSE IF GapTooWide(g, rx.ev) THEN Recover(g)
       ELSE /\ app' = [app EXCEPT !.owner = g, !.pl[g].last = rx.ev.n]
            /\ rx' = [rx EXCEPT !.at = "render", !.sess = app.sess, !.started = app.pl[g].started]
            /\ UNCHANGED <<st, facts>>

HandleAudio ==
    LET g == rx.ev.gen IN
    /\ rx.ev.kind = "audio"
    /\ IF ~Playing(g) \/ g < app.fence \/ app.owner \notin {NoGen, g}
       THEN RxTo("next") /\ UNCHANGED <<st, app, facts>>
       ELSE IF GapTooWide(g, rx.ev) THEN Recover(g)
       ELSE /\ app' = [app EXCEPT !.owner = g]
            /\ rx' = [rx EXCEPT !.at = "render", !.sess = app.sess, !.started = app.pl[g].started]
            /\ UNCHANGED <<st, facts>>

HandleEnd ==
    LET g == rx.ev.gen IN
    /\ rx.ev.kind \in {"completed", "cancelled"}
    /\ IF ~Playing(g) THEN RxTo("next") /\ UNCHANGED <<st, app, facts>>
       ELSE IF rx.ev.kind = "cancelled" THEN EndPlayback(g, "stopped", app.fence)
       ELSE /\ app' = [app EXCEPT !.pl[g].final = rx.ev.n]
            /\ IF app.pl[g].last = rx.ev.n
               THEN rx' = [rx EXCEPT !.at = "drain", !.sess = app.sess] ELSE RxTo("next")
            /\ UNCHANGED <<st, facts>>

HandleStop ==
    LET g == rx.ev.gen
        fence == Max({app.fence, rx.ev.n}) IN
    /\ rx.ev.kind = "stop"
    /\ IF Playing(g) THEN EndPlayback(g, "stopped", fence)
       ELSE RxTo("next") /\ app' = [app EXCEPT !.fence = fence] /\ UNCHANGED <<st, facts>>

HandleEvent ==
    /\ rx.at = "event"
    /\ HandleBegin \/ HandleClose \/ HandleReopen \/ HandleAudio \/ HandleEnd
       \/ HandleStop
    /\ UNCHANGED <<tr, due, grants, link, worker, ka, up, ro, run, heard>>

\* The session was replaced under the playback being rendered or drained.
Orphan == rx.sess # app.sess \/ ~app.pl[rx.ev.gen].begun

\* The frames of _play_audio have crossed the render boundary, concealed ones
\* included; the first one is reported.
Rendered ==
    LET g == rx.ev.gen
        r == IF Orphan THEN Raises(st, "stale_target")
             ELSE PlaybackStarted(st, g, rx.ev.n)
    IN  /\ rx.at = "render"
        /\ heard' = [sess |-> rx.sess, gen |-> g, n |-> rx.ev.n]
        /\ \/ /\ ~rx.started /\ Sent(r.err) # "none"
              /\ RxFails(Sent(r.err))
              /\ st' = r.st /\ UNCHANGED <<app, facts>>
           \/ /\ rx.started /\ Orphan
              /\ RxTo("next") /\ UNCHANGED <<st, app, facts>>
           \/ /\ IF rx.started THEN ~Orphan ELSE Sent(r.err) = "none"
              /\ st' = IF rx.started THEN st ELSE r.st
              /\ UNCHANGED facts
              /\ app' = [app EXCEPT !.pl[g].started = TRUE, !.pl[g].last = rx.ev.n,
                                    !.pl[g].ts = rx.ev.ts]
              /\ IF Playing(g) /\ app.pl[g].final = rx.ev.n
                 THEN rx' = [rx EXCEPT !.at = "drain"] ELSE RxTo("next")
        /\ UNCHANGED <<tr, due, grants, link, worker, ka, up, ro, run>>

Drained ==
    /\ rx.at = "drain"
    /\ IF ~Orphan /\ Playing(rx.ev.gen) THEN EndPlayback(rx.ev.gen, "completed", app.fence)
       ELSE RxTo("next") /\ UNCHANGED <<st, app, facts>>
    /\ UNCHANGED <<tr, due, grants, link, worker, ka, up, ro, run, heard>>

\* next_event took longer than the earliest completion deadline; a playback
\* that has not ended always has one.
Expire ==
    /\ rx.at = "wait"
    /\ \E g \in Gens : Playing(g) /\ Recover(g)
    /\ UNCHANGED <<tr, due, grants, link, worker, ka, up, ro, run, heard>>

-----------------------------------------------------------------------------
(* connect and _fresh_reopen.  `ro` is also the session lock: the other    *)
(* tasks' sends wait for it.                                               *)

NoOperation == [by |-> NoOne, at |-> "idle", ended |-> FALSE]
Cancelling == run.at \in {"cancel", "left"}

\* The operation's owner goes on, fails or has been cancelled.
OwnerGoesOn ==
    /\ rx' = IF ro.by = "rx" THEN [rx EXCEPT !.at = "next", !.owed = FALSE, !.backlog = <<>>]
             ELSE IF ro.by = "run" THEN [rx EXCEPT !.at = "next"] ELSE [rx EXCEPT !.backlog = <<>>]
    /\ ka' = IF ro.by \in {"ka", "run"} THEN [at |-> "idle", val |-> None] ELSE ka
    /\ up' = IF ro.by = "run" THEN "on" ELSE up
    /\ run' = IF ro.by = "run" THEN [run EXCEPT !.at = "running"] ELSE run

OwnerFails(code) ==
    LET at == IF Cancelling THEN "cancelled" ELSE "failed" IN
    /\ rx' = IF ro.by = "rx" THEN [rx EXCEPT !.at = at, !.err = code, !.owed = FALSE] ELSE rx
    /\ ka' = IF ro.by = "ka" THEN [ka EXCEPT !.at = at] ELSE ka
    /\ run' = IF ro.by = "run" THEN [run EXCEPT !.at = "cancel", !.ok = @ /\ Cancelling] ELSE run
    /\ UNCHANGED up

\* Another task replaced the session that was observed.
ReopenStale(who, obs) ==
    /\ obs # app.sess
    /\ IF who = "rx" THEN rx' = [rx EXCEPT !.at = "next", !.owed = FALSE] /\ UNCHANGED ka
       ELSE ka' = [at |-> "idle", val |-> None] /\ UNCHANGED rx
    /\ app' = [app EXCEPT !.signal = @ \/ (run.counts /\ who = "rx" /\ rx.owed)]
    /\ UNCHANGED <<st, facts, ro, tr, due, grants, link, worker, up, run, heard>>

\* The lock is taken and the playback under way is ended.
ReopenBegins(who, obs) ==
    LET g == IF \E h \in Gens : Playing(h) THEN CHOOSE h \in Gens : Playing(h) ELSE NoGen
        e == IF g = NoGen THEN [st |-> st, err |-> "none", facts |-> facts, app |-> app]
             ELSE Ending(g, "stopped", FALSE)
    IN  /\ obs = app.sess
        /\ st' = e.st /\ facts' = e.facts
        /\ \/ /\ e.err = "none"
              /\ app' = [e.app EXCEPT !.ready = FALSE]
              /\ ro' = [by |-> who, at |-> "reset", ended |-> g # NoGen]
              /\ UNCHANGED <<rx, ka>>
           \/ /\ e.err # "none"
              /\ app' = [e.app EXCEPT !.ready = TRUE]
              /\ UNCHANGED ro
              /\ IF who = "rx" THEN RxFails(e.err) /\ UNCHANGED ka
                 ELSE ka' = [ka EXCEPT !.at = "failed"] /\ UNCHANGED rx
        /\ UNCHANGED <<tr, due, grants, link, worker, up, run, heard>>

ReopenEnter ==
    /\ ro.by = NoOne
    /\ \/ rx.at = "reopen" /\ (ReopenStale("rx", rx.obs) \/ ReopenBegins("rx", rx.obs))
       \/ ka.at = "reopen" /\ (ReopenStale("ka", ka.val) \/ ReopenBegins("ka", ka.val))

\* The sink has been reset; the session announces its close and shuts its
\* transports.  A link that is closed no longer carries anything.
ReopenCloses ==
    /\ ro.at = "reset" /\ ~Cancelling
    /\ app' = [app EXCEPT !.pl = NoPlaybacks, !.owner = NoGen, !.fence = 1]
    /\ st' = CloseMessage(st) /\ tr' = ClosedTransport /\ link' = FALSE
    /\ srv' = NoWorker /\ ctl' = <<>> /\ net' = {} /\ facts' = <<>>
    /\ ro' = [ro EXCEPT !.at = "release"]
    /\ UNCHANGED <<due, grants, used, rx, ka, up, run, heard>>

\* A grant is held until DirectorClient.release has returned it or failed, the answer
\* refused or not come in time included, or was cancelled before it had an answer.
Fates == {"held", "returned", "failed", "cut"}

\* The release of the grant at hand, the last one given, has ended.
Released(cancelled) ==
    \E fate \in {"returned", "failed"} \cup (IF cancelled THEN {"cut"} ELSE {}) :
        grants' = [grants EXCEPT ![Len(grants)] = fate]

\* The close is shielded: a cancelled owner waits for the grant's release, unless it is
\* cancelled again.  A refused release does not make the close fail, other things do.
ReopenReleases ==
    /\ ro.at \in {"release", "torn"}
    /\ st' = NoState
    /\ IF st.open THEN Released(ro.at = "torn") ELSE UNCHANGED grants
    /\ \/ /\ ~Cancelling /\ ro' = [ro EXCEPT !.at = "bootstrap"]
          /\ UNCHANGED <<rx, ka, up, run, app>>
       \/ /\ ro' = NoOperation /\ OwnerFails("release_failed")
          /\ app' = [app EXCEPT !.ready = ~Cancelling]
    /\ UNCHANGED <<tr, due, link, worker, facts, heard>>

\* DirectorClient.bootstrap.
Bootstrap ==
    /\ ro.at = "bootstrap" /\ ~Cancelling
    /\ Len(grants) < MaxSessions
    /\ grants' = Append(grants, "held")
    /\ ro' = [ro EXCEPT !.at = "handshake"]
    /\ UNCHANGED <<st, tr, due, link, worker, rx, ka, up, run, app, facts, heard>>

BootstrapFails ==
    /\ ro.at \in {"bootstrap", "reset"} /\ (ro.at = "reset" => Cancelling)
    /\ ro' = NoOperation /\ OwnerFails("bootstrap_failed")
    /\ app' = [app EXCEPT !.ready = ~Cancelling /\ ro.by # "run"]
    /\ UNCHANGED <<session, worker, facts, heard>>

\* The transport of a session that opened; a UDP one has been probed.
Connected(p) == IF p = "udp" THEN OpenTransport ELSE ClosedTransport

\* session.opened was read and, on udp-opus-gcm/1, the probe acknowledged.
Handshake(p) ==
    /\ ro.at = "handshake" /\ ~Cancelling
    /\ st' = Opened(p) /\ link' = TRUE /\ due' = FALSE
    /\ tr' = Connected(p)
    /\ srv' = [NoWorker EXCEPT !.up = TRUE]
    /\ app' = [app EXCEPT !.sess = @ + 1, !.ready = TRUE,
                          !.signal = @ \/ (run.counts /\ (ro.ended \/ (ro.by = "rx" /\ rx.owed)))]
    /\ ro' = NoOperation /\ OwnerGoesOn
    /\ UNCHANGED <<grants, ctl, net, used, facts, heard>>

\* Mutant: a failed handshake is not rolled back.
HandshakeFailsHolding ==
    /\ ro.at = "handshake"
    /\ ro' = NoOperation /\ OwnerFails("handshake_failed")
    /\ app' = [app EXCEPT !.ready = ~Cancelling /\ ro.by # "run"]
    /\ UNCHANGED <<session, worker, facts, heard>>

\* The handshake fails or is cancelled, and _rollback_connect begins.
HandshakeFails ==
    /\ ro.at = "handshake"
    /\ ro' = [ro EXCEPT !.at = "rollback"]
    /\ UNCHANGED <<session, worker, rx, ka, up, run, app, facts, heard>>

\* _rollback_connect's gather has ended.  It is not shielded: a cancellation cancels the
\* release, and nobody else knows of the grant.
RollbackEnds ==
    /\ ro.at \in {"rollback", "cut"}
    /\ Released(ro.at = "cut")
    /\ ro' = NoOperation /\ OwnerFails("handshake_failed")
    /\ app' = [app EXCEPT !.ready = ~Cancelling /\ ro.by # "run"]
    /\ UNCHANGED <<st, tr, due, link, worker, facts, heard>>

-----------------------------------------------------------------------------
(* The uplink and keepalive tasks. *)

SendOpusRaises == st.closed \/ (st.profile = "udp" /\ due) \/ (st.profile = "wss" /\ ~link)
SendKeepaliveRaises == st.closed \/ due

\* send_opus raises, under the session lock; one that succeeds changes nothing
\* the others see.
UplinkFails ==
    /\ up = "on" /\ app.ready /\ ro.by = NoOne
    /\ SendOpusRaises
    /\ up' = "failed"
    /\ UNCHANGED <<session, worker, rx, ka, ro, run, app, facts, heard>>

\* The keepalive task finds the session ready just before the receiver takes
\* the lock to replace it.
KeepaliveWaits ==
    /\ ka.at = "idle" /\ app.ready /\ st.open /\ st.profile = "udp"
    /\ rx.at = "reopen" /\ ro.by = NoOne
    /\ ka' = [ka EXCEPT !.at = "lock"]
    /\ UNCHANGED <<session, worker, rx, up, ro, run, app, facts, heard>>

\* send_keepalive, under the session lock, when it raises; one that succeeds
\* changes nothing the others see.
KeepaliveSends ==
    /\ ro.by = NoOne /\ st.open /\ st.profile = "udp" /\ SendKeepaliveRaises
    /\ ka.at = "lock" \/ (ka.at = "idle" /\ app.ready)
    /\ ka' = IF st.closed THEN [ka EXCEPT !.at = "failed"] ELSE [at |-> "reopen", val |-> app.sess]
    /\ UNCHANGED <<session, worker, rx, up, ro, run, app, facts, heard>>

\* The session replaced while the task waited: it sends, or finds the other
\* profile and reads reopen_generation, which is unbound if no keepalive was
\* sent before.
KeepaliveLate ==
    /\ ro.by = NoOne /\ ka.at = "lock"
    /\ \/ ka' = [ka EXCEPT !.at = "idle"]
       \/ ~(st.open /\ st.profile = "udp") /\ ka' = [ka EXCEPT !.at = "failed"]
    /\ UNCHANGED <<session, worker, rx, up, ro, run, app, facts, heard>>

-----------------------------------------------------------------------------
(* run. *)

Failed == rx.at = "failed" \/ ka.at = "failed" \/ up = "failed"

\* The tasks are cancelled, except for what they shield or must roll back; a rollback
\* under way is cancelled.  Nothing that is still on its way is read any more.
StopRunning ==
    /\ run' = [run EXCEPT !.at = "cancel", !.ok = ~Failed]
    /\ app' = [app EXCEPT !.ready = FALSE]
    /\ rx' = IF ro.by = "rx" \/ rx.at \in {"done", "failed"} THEN rx
             ELSE [Receiving EXCEPT !.at = "cancelled"]
    /\ ka' = IF ro.by = "ka" \/ ka.at = "failed" THEN ka ELSE [at |-> "cancelled", val |-> None]
    /\ up' = IF up = "failed" THEN up ELSE "cancelled"
    /\ tr' = ClosedTransport /\ due' = FALSE
    /\ srv' = NoWorker /\ ctl' = <<>> /\ net' = {} /\ facts' = <<>>
    /\ ro' = IF ro.at = "rollback" THEN [ro EXCEPT !.at = "cut"] ELSE ro
    /\ UNCHANGED <<st, grants, link, used, heard>>

TaskEnds == run.at = "running" /\ (rx.at = "done" \/ Failed) /\ StopRunning

\* _wait_for_playbacks returns.
CompletionReached == run.at = "running" /\ app.signal /\ StopRunning

\* The stop event is set, the caller's timeout cancels run, or the source ends
\* and no playback is waited for.
StopRequested == run.at \in {"starting", "running"} /\ StopRunning

\* `finally`: the playback under way is stopped if the session is healthy; a
\* failure of that is kept, and the session closed all the same.
CleanUp ==
    LET g == IF \E h \in Gens : Playing(h) THEN CHOOSE h \in Gens : Playing(h) ELSE NoGen
        e == Ending(g, "stopped", TRUE)
    IN  /\ run.at = "cancel" /\ ro.by = NoOne
        /\ IF g # NoGen /\ ~st.closed
           THEN /\ st' = CloseMessage(e.st) /\ app' = e.app
                /\ run' = [run EXCEPT !.at = "closing", !.ok = @ /\ e.err = "none"]
                /\ facts' = e.facts
           ELSE /\ st' = CloseMessage(st) /\ app' = app /\ facts' = facts
                /\ run' = [run EXCEPT !.at = "closing"]
        /\ link' = FALSE
        /\ UNCHANGED <<tr, due, grants, worker, rx, ka, up, ro, heard>>

\* DesktopSession.close is shielded: cancelled once it ends all the same, and only a
\* further cancellation cuts it.
CloseAll ==
    /\ run.at \in {"closing", "pressed"}
    /\ IF st.open THEN Released(run.at = "pressed") ELSE UNCHANGED grants
    /\ st' = NoState
    /\ run' = [run EXCEPT !.at = "done"]
    /\ UNCHANGED <<tr, due, link, worker, rx, ka, up, ro, app, facts, heard>>

\* The run is cancelled in its `finally`.  The gather cancels the tasks again and waits
\* for them, and what follows is skipped, the close too; a connect of the run's own is
\* interrupted in its rollback, and the `finally` then begins.
CancelledAgain ==
    /\ \/ /\ run.at = "cancel" /\ ro.by # "run"
          /\ run' = [run EXCEPT !.at = "left"]
          /\ ro' = [ro EXCEPT !.at = IF @ = "rollback" THEN "cut"
                                     ELSE IF @ = "release" THEN "torn" ELSE @]
       \/ /\ run.at = "cancel" /\ ro.by = "run" /\ ro.at = "rollback"
          /\ ro' = [ro EXCEPT !.at = "cut"] /\ UNCHANGED run
       \/ run.at = "closing" /\ run' = [run EXCEPT !.at = "pressed"] /\ UNCHANGED ro
    /\ UNCHANGED <<session, worker, rx, ka, up, app, facts, heard>>

-----------------------------------------------------------------------------
(* External: a worker that keeps to the protocol, and the network. *)

\* A fault, which takes the place of n packets.
Fault(n) ==
    /\ used.faults < MaxFaults /\ used.packets + n <= MaxPackets
    /\ used' = [used EXCEPT !.faults = @ + 1, !.packets = @ + n]

Says(m) == ctl' = Append(ctl, m)
ServerStep ==
    /\ srv.up /\ link /\ run.at = "running" /\ rx.at # "done" /\ ~Failed
    /\ UNCHANGED <<session, tasks, app, facts, heard>>

ServerBegins ==
    /\ ServerStep /\ ~srv.busy /\ used.begins < MaxGen
    /\ srv' = [srv EXCEPT !.gen = @ + 1, !.busy = TRUE, !.term = FALSE, !.stop = FALSE,
                          !.last = None]
    /\ used' = [used EXCEPT !.begins = @ + 1]
    /\ Says(Message("begin", srv.gen + 1, None, None)) /\ UNCHANGED net

\* The first WSS packet is 0, the first UDP packet after the probe's 1.
NextPacket == IF st.profile = "wss" THEN srv.sent ELSE srv.sent + 1

ServerAudio ==
    LET p == Message("audio", srv.gen, NextPacket, srv.ts + 1) IN
    /\ ServerStep /\ srv.busy /\ ~srv.term /\ ~srv.stop /\ used.packets < MaxPackets
    /\ used' = [used EXCEPT !.packets = @ + 1]
    /\ srv' = [srv EXCEPT !.sent = @ + 1, !.ts = @ + 1, !.last = p.n]
    /\ IF st.profile = "wss" THEN Says(p) /\ UNCHANGED net
       ELSE net' = net \cup {p} /\ UNCHANGED ctl

\* A keepalive is answered with a packet of the same sequence space.
ServerKeepalive ==
    /\ ServerStep /\ st.profile = "udp" /\ used.packets < MaxPackets
    /\ used' = [used EXCEPT !.packets = @ + 1]
    /\ srv' = [srv EXCEPT !.sent = @ + 1]
    /\ net' = net \cup {Message("keep", NoGen, NextPacket, srv.ts)} /\ UNCHANGED ctl

ServerCompletes ==
    /\ ServerStep /\ srv.busy /\ ~srv.term /\ ~srv.stop /\ srv.last # None
    /\ srv' = [srv EXCEPT !.term = TRUE]
    /\ Says(Message("completed", srv.gen, srv.last, None)) /\ UNCHANGED <<net, used>>

\* The stop goes first, then the response's end.
ServerStops ==
    /\ ServerStep /\ srv.busy /\ ~srv.stop
    /\ srv' = [srv EXCEPT !.stop = TRUE, !.term = TRUE]
    /\ ctl' = ctl \o <<Message("stop", srv.gen, srv.gen + 1, None)>>
                  \o (IF srv.term THEN <<>> ELSE <<Message("cancelled", srv.gen, None, None)>>)
    /\ UNCHANGED <<net, used>>

ServerCloses ==
    /\ ServerStep /\ Fault(0)
    /\ srv' = [srv EXCEPT !.up = FALSE]
    /\ Says(Message("close", NoGen, None, None)) /\ UNCHANGED net

ServerReads ==
    /\ srv.up /\ facts # <<>>
    /\ facts' = Tail(facts)
    /\ srv' = [srv EXCEPT !.busy = FALSE]
    /\ UNCHANGED <<session, ctl, net, used, tasks, app, heard>>

\* The audio sink or the codec fails.
SinkFails ==
    /\ Fault(0) /\ rx.at \in {"render", "drain"} /\ RxFails("sink_failed")
    /\ UNCHANGED <<session, srv, ctl, net, ka, up, ro, run, app, facts, heard>>

LinkLost ==
    /\ Fault(0) /\ link /\ link' = FALSE /\ run.at = "running"
    /\ srv' = [srv EXCEPT !.up = FALSE]
    /\ UNCHANGED <<st, tr, due, grants, ctl, net, tasks, app, facts, heard>>

RefreshDue ==
    /\ Fault(1) /\ st.open /\ st.profile = "udp" /\ ~due /\ due' = TRUE /\ run.at = "running"
    /\ UNCHANGED <<st, tr, grants, link, srv, ctl, net, tasks, app, facts, heard>>

-----------------------------------------------------------------------------
Receiver == NextEvent \/ ReceiveTimer \/ MediaReady \/ ControlReady \/ ControlFails
            \/ HandleEvent \/ Rendered \/ Drained \/ Expire
Operation == ReopenEnter \/ ReopenCloses \/ ReopenReleases \/ BootstrapFails \/ HandshakeFails
             \/ RollbackEnds \/ Bootstrap \/ \E p \in Profiles : Handshake(p)
Runner == TaskEnds \/ CompletionReached \/ CleanUp \/ CloseAll \/ CancelledAgain
Worker == ServerBegins \/ ServerAudio \/ ServerKeepalive \/ ServerCompletes
          \/ ServerStops \/ ServerCloses \/ ServerReads
Network == LinkLost \/ RefreshDue \/ \E p \in net : ReadDatagram(p)

Next == Receiver \/ Operation \/ Runner \/ Worker \/ Network \/ SinkFails \/ StopRequested
        \/ UplinkFails \/ KeepaliveWaits \/ KeepaliveSends \/ KeepaliveLate

Spec == Init /\ [][Next]_vars

-----------------------------------------------------------------------------
(* Properties. *)

RxAt == {"new", "next", "wait", "got", "event", "render", "drain", "reopen", "done", "failed",
         "cancelled"}

\* Types, and: the limits of the transport hold, what was put in order is
\* behind the cursor and what is held lies beyond a gap.
TypeOK ==
    /\ rx.at \in RxAt /\ ka.at \in {"new", "idle", "lock", "reopen", "failed", "cancelled"}
    /\ up \in {"new", "on", "failed", "cancelled"}
    /\ run.at \in {"starting", "running", "cancel", "closing", "pressed", "left", "done"}
    /\ ro.by \in {NoOne, "run", "rx", "ka"}
    /\ ro.at \in {"idle", "reset", "release", "torn", "bootstrap", "handshake", "rollback", "cut"}
    /\ app.sess \in 0..Len(grants) /\ app.owner \in 0..MaxGen
    /\ Len(grants) <= MaxSessions /\ Range(grants) \subseteq Fates
    /\ Len(rx.backlog) <= 1 /\ st.current \in 0..MaxGen
    /\ Cardinality(tr.pend) <= PendingLimit /\ Cardinality(Held(tr)) < ReorderLimit
    /\ \A n \in Held(tr) : n > tr.exp
    /\ \A i \in DOMAIN tr.ready : tr.ready[i].n < tr.exp

\* Whatever the network loses, repeats, delays or reorders, and however media
\* overtakes control, the strict state refuses nothing a conforming worker
\* sends.  Two exceptions: a stop that crosses the playback's own end
\* (playback_already_ended in accept_control), and what is read while the
\* keepalive task is replacing the session or has failed to.
ServerUnderstood ==
    [][rx.at \in {"wait", "got"} /\ app' = app /\ ro.by # "ka" /\ ka.at # "failed"
          => rx'.err \notin {"stale_generation", "playback_already_active",
                             "response_target_mismatch", "response_already_terminal",
                             "playback_target_mismatch", "playback_stop_conflict",
                             "unknown_media_generation", "invalid_media_timestamp",
                             "invalid_media_sequence"}]_vars

\* playback.ended names the packet the user heard last in that session, or
\* none when nothing of the playback was heard, whether the receiver, the
\* keepalive task's reopen, an expiry or the run's clean-up reports it.
FactsAreHeard ==
    [][Len(facts') > Len(facts)
          => IF Last(facts').n = None
             THEN heard.sess # app.sess \/ heard.gen # Last(facts').gen
             ELSE heard = [sess |-> app.sess, gen |-> Last(facts').gen, n |-> Last(facts').n]]_vars

\* The client holds one grant at most, the open session's, whatever failed, was cancelled
\* or raced.  When run has returned it has tried to give back every one, and the Director
\* kept it from doing so, or a cancellation of the run did, and then for the last one only.
\* Except for a run that is cancelled in its clean-up before it comes to the close.
GrantsReturned ==
    /\ \A i \in DOMAIN grants : grants[i] \in {"held", "cut"} => i = Len(grants)
    /\ st.open => grants # <<>> /\ Last(grants) = "held"
    /\ run.at = "done" => \A i \in DOMAIN grants : grants[i] # "held"
    /\ run.at \in {"starting", "running"} => \A i \in DOMAIN grants : grants[i] # "cut"

\* Whatever a run was given it has given back in the end.  It does not hold: see the
\* README.
GrantsAlwaysReturned ==
    run.at = "done" \/ (run.at = "left" /\ ro.by = NoOne)
        => \A i \in DOMAIN grants : grants[i] = "returned"

\* A waiter for completed playbacks does not end the run while the receiver
\* still owes the reopen of its recovery (comment in _recover_from_media_gap).
RecoveryFinishes == rx.owed => ~app.signal

\* No fact the app reports is refused by its own session state, so a gap or
\* a stop is recovered from and not fatal.  It does not hold: see the README.
EvidenceAccepted == rx.err # "playback_evidence_mismatch"
=============================================================================
