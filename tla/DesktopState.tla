---------------------------- MODULE DesktopState ----------------------------
(***************************************************************************)
(* SessionState, the desktop client's strict projection of the RVA         *)
(* lifecycle (session/state.py).  Each operator takes the state s and      *)
(* gives the state after the call, the error it raises and the event it    *)
(* returns.                                                                *)
(*                                                                         *)
(* A message, an event and a packet are one kind of record: n is the media *)
(* sequence of a packet, the final media sequence of a completed response  *)
(* or the fence of a stop, and ts counts frames of 960 samples.            *)
(* Transcripts and response.text are left out: one ordered stream carries  *)
(* them and they only count their own sequence.  Tombstones are kept for   *)
(* the last 64 playbacks, which no bound below reaches, so a playback that *)
(* has ended stays known.                                                  *)
(***************************************************************************)
EXTENDS Integers, Sequences, FiniteSets

CONSTANT MaxGen   \* bound: responses the worker begins
ASSUME MaxGenAssumption == MaxGen \in Nat \ {0}

None == -1
NoGen == 0
Gens == 1..MaxGen

Message(kind, gen, n, ts) == [kind |-> kind, gen |-> gen, n |-> n, ts |-> ts]
NoEvent == Message("none", NoGen, None, None)
ReopenEvent == Message("reopen", NoGen, None, None)

\* A playback the session has not heard of.
Unheard == [known |-> FALSE, started |-> FALSE, ended |-> FALSE, stopped |-> FALSE,
            fence |-> None, term |-> FALSE, final |-> None,
            first |-> None, last |-> None, ts |-> None]

\* SessionState(opened), for a session whose selected profile is p.
Opened(p) == [open |-> TRUE, profile |-> p, closed |-> FALSE, fence |-> 1, highest |-> NoGen,
              current |-> NoGen, next |-> IF p = "wss" THEN 0 ELSE 1,
              pb |-> [g \in Gens |-> Unheard]]

\* DesktopSession._state is None: every use of it raises SessionClosed.
NoState == [Opened("wss") EXCEPT !.open = FALSE, !.closed = TRUE]

Returns(s, event) == [st |-> s, err |-> "none", event |-> event]
Raises(s, code) == [st |-> s, err |-> code, event |-> NoEvent]

-----------------------------------------------------------------------------
(* accept_control, by kind of message. *)

AcceptBegin(s, m) ==
    IF m.gen <= s.highest \/ m.gen < s.fence THEN Raises(s, "stale_generation")
    ELSE IF s.current # NoGen THEN Raises(s, "playback_already_active")
    ELSE Returns([s EXCEPT !.highest = m.gen, !.current = m.gen, !.pb[m.gen].known = TRUE], m)

AcceptEnd(s, m) ==
    IF ~s.pb[m.gen].known THEN Raises(s, "playback_target_mismatch")
    ELSE IF s.pb[m.gen].term THEN Raises(s, "response_already_terminal")
    ELSE Returns([s EXCEPT !.pb[m.gen].term = TRUE,
                           !.pb[m.gen].final = IF m.kind = "completed" THEN m.n ELSE @], m)

\* The cause of a stop is not kept: a repeated stop repeats it.
AcceptStop(s, m) ==
    LET b == s.pb[m.gen] IN
    IF ~b.known THEN Raises(s, "playback_target_mismatch")
    ELSE IF b.ended THEN Raises(s, "playback_already_ended")
    ELSE IF b.fence = m.n THEN Returns(s, NoEvent)
    ELSE IF b.fence # None THEN Raises(s, "playback_stop_conflict")
    ELSE IF m.n <= m.gen \/ m.n <= s.fence THEN Raises(s, "stale_generation")
    ELSE Returns([s EXCEPT !.fence = m.n, !.pb[m.gen].stopped = TRUE, !.pb[m.gen].fence = m.n], m)

AcceptControl(s, m) ==
    CASE s.closed -> Raises(s, "session_closed")
      [] ~s.closed /\ m.kind = "begin" -> AcceptBegin(s, m)
      [] ~s.closed /\ m.kind \in {"completed", "cancelled"} -> AcceptEnd(s, m)
      [] ~s.closed /\ m.kind = "stop" -> AcceptStop(s, m)
      [] ~s.closed /\ m.kind = "close" -> Returns([s EXCEPT !.closed = TRUE], m)

-----------------------------------------------------------------------------
(* Media. *)

\* validate_media_admission: "admitted" and "fenced" are its answers, the
\* others the errors it raises.
Admission(s, p) ==
    LET b == s.pb[p.gen] IN
    IF ~b.known THEN "unknown_media_generation"
    ELSE IF p.gen < s.fence \/ b.stopped \/ b.ended THEN "fenced"
    ELSE IF s.current # p.gen THEN "playback_target_mismatch"
    ELSE IF b.ts # None /\ (IF s.profile = "wss" THEN p.ts # b.ts + 1 ELSE p.ts <= b.ts)
         THEN "invalid_media_timestamp"
    ELSE "admitted"

AcceptMedia(s, p) ==
    LET answer == Admission(s, p)
        moved  == [s EXCEPT !.next = p.n + 1]
    IN  IF s.closed THEN Raises(s, "session_closed")
        ELSE IF answer \notin {"admitted", "fenced"} THEN Raises(s, answer)
        ELSE IF (IF s.profile = "wss" THEN p.n # s.next ELSE p.n < s.next)
             THEN Raises(s, "invalid_media_sequence")
        ELSE IF answer = "fenced" THEN Returns(moved, NoEvent)
        ELSE Returns([moved EXCEPT !.pb[p.gen].ts = p.ts, !.pb[p.gen].last = p.n,
                                   !.pb[p.gen].first = IF @ = None THEN p.n ELSE @], p)

-----------------------------------------------------------------------------
(* The endpoint's own facts. *)

PlaybackStarted(s, g, first) ==
    LET b == s.pb[g] IN
    IF ~s.open THEN Raises(s, "session_closed")
    ELSE IF ~b.known THEN Raises(s, "playback_target_mismatch")
    ELSE IF b.started THEN Raises(s, "playback_already_started")
    ELSE IF b.ended THEN Raises(s, "playback_already_ended")
    ELSE IF b.stopped \/ first # b.first THEN Raises(s, "playback_evidence_mismatch")
    ELSE Returns([s EXCEPT !.pb[g].started = TRUE], Message("started", g, first, None))

\* Mutant: the ended playback stays the current one.
PlaybackEndedCurrent(s, g, outcome, last) ==
    LET b == s.pb[g] IN
    IF ~s.open THEN Raises(s, "session_closed")
    ELSE IF ~b.known THEN Raises(s, "playback_target_mismatch")
    ELSE IF b.ended THEN Raises(s, "playback_already_ended")
    ELSE IF IF last = None THEN b.started ELSE ~b.started \/ last # b.last
         THEN Raises(s, "playback_evidence_mismatch")
    ELSE IF outcome = "completed" /\ (~b.started \/ ~b.term \/ b.final = None \/ last # b.final)
         THEN Raises(s, "playback_evidence_mismatch")
    ELSE Returns([s EXCEPT !.pb[g].ended = TRUE, !.pb[g].ts = None],
                 Message(outcome, g, last, None))

\* The app has rendered samples exactly when it has a last packet to report.
PlaybackEnded(s, g, outcome, last) ==
    LET b == s.pb[g] IN
    IF ~s.open THEN Raises(s, "session_closed")
    ELSE IF ~b.known THEN Raises(s, "playback_target_mismatch")
    ELSE IF b.ended THEN Raises(s, "playback_already_ended")
    ELSE IF IF last = None THEN b.started ELSE ~b.started \/ last # b.last
         THEN Raises(s, "playback_evidence_mismatch")
    ELSE IF outcome = "completed" /\ (~b.started \/ ~b.term \/ b.final = None \/ last # b.final)
         THEN Raises(s, "playback_evidence_mismatch")
    ELSE Returns([s EXCEPT !.pb[g].ended = TRUE, !.pb[g].ts = None,
                           !.current = IF @ = g THEN NoGen ELSE @],
                 Message(outcome, g, last, None))

\* close_message, when _close_active_impl finds the state open.
CloseMessage(s) == [s EXCEPT !.closed = TRUE]
=============================================================================
