-------------------------- MODULE DesktopTransport --------------------------
(***************************************************************************)
(* UdpMediaTransport, the desktop client's udp-opus-gcm/1 receive side     *)
(* (transport/udp.py, with the ReplayWindow of protocol/udp.py).  The      *)
(* transport t admits a packet once, holds audio that overtook its         *)
(* response.begin, puts packets in order and skips a gap when it has       *)
(* waited long enough or holds too much.                                   *)
(*                                                                         *)
(* Clocks are left out: whether a packet is stale, a wait too long or the  *)
(* grant due for a refresh is the caller's choice.                         *)
(***************************************************************************)
EXTENDS DesktopState, FiniteSetsExt, SequencesExt

CONSTANTS
    ReorderLimit,   \* packets held before a gap is skipped, 4 in the code
    PendingLimit,   \* packets that may wait for response.begin, 4 in the code
    ReplayWindow,   \* REPLAY_WINDOW_PACKETS
    ForwardJump     \* MAX_SEQUENCE_FORWARD_JUMP

ASSUME TransportAssumption ==
    {ReorderLimit, PendingLimit, ReplayWindow, ForwardJump} \subseteq Nat \ {0}

\* A transport that is open, its probe acknowledged by packet 0, and one that
\* is not.
OpenTransport == [open |-> TRUE, replay |-> [top |-> 0, seen |-> {0}], exp |-> 1, reorder |-> {},
                  non |-> {}, ready |-> <<>>, pend |-> {}, armed |-> FALSE, fresh |-> NoGen]
ClosedTransport == [OpenTransport EXCEPT !.open = FALSE]

\* `out` is what interrupts receive_audio: "none", "reopen" for
\* FreshReopenRequired, or the code of a ProtocolError.
Continues(t) == [tr |-> t, out |-> "none"]
Interrupted(t, why) == [tr |-> t, out |-> why]

Acceptable(w, n) ==
    IF n > w.top THEN n - w.top <= ForwardJump
    ELSE w.top - n < ReplayWindow /\ n \notin w.seen

Commit(t, n) == [t EXCEPT !.replay.top = Max({@, n}), !.replay.seen = @ \cup {n},
                          !.pend = {p \in @ : p.n # n}]

-----------------------------------------------------------------------------
(* Reordering. *)

Held(t) == {p.n : p \in t.reorder} \cup t.non

ReleaseContiguous(t) ==
    LET stop == Min({n \in t.exp..(t.exp + Cardinality(Held(t))) : n \notin Held(t)})
        out  == {p \in t.reorder : p.n \in t.exp..(stop - 1)}
        rest == [t EXCEPT !.exp = stop, !.reorder = @ \ out, !.non = @ \ (t.exp..(stop - 1)),
                          !.ready = @ \o SetToSortSeq(out, LAMBDA a, b : a.n < b.n)]
    IN  [rest EXCEPT !.armed = @ /\ Held(rest) # {}]

ReleaseGap(t) ==
    IF Held(t) = {} THEN t ELSE ReleaseContiguous([t EXCEPT !.exp = Min(Held(t))])

\* What _buffer and _buffer_non_audio do once the packet is held; what is
\* left lies beyond a gap and arms the deadline.
Settle(t) ==
    LET c == ReleaseContiguous(t)
        a == [c EXCEPT !.armed = Held(c) # {}]
    IN  IF Cardinality(Held(a)) >= ReorderLimit THEN ReleaseGap(a) ELSE a

\* Mutant: a packet behind the cursor is held.
BufferNonAudioLate(t, n) == Settle([t EXCEPT !.non = @ \cup {n}])

BufferNonAudio(t, n) == IF n < t.exp THEN t ELSE Settle([t EXCEPT !.non = @ \cup {n}])

\* The age of a packet counts from the first packet of its generation.
CheckFreshness(t, p, stale) ==
    IF t.fresh = p.gen /\ stale THEN Interrupted(t, "reopen")
    ELSE Continues([t EXCEPT !.fresh = p.gen])

Buffer(t, p, stale) ==
    LET f == CheckFreshness(t, p, stale) IN
    IF f.out # "none" \/ p.n < t.exp THEN f
    ELSE Continues(Settle([f.tr EXCEPT !.reorder = @ \cup {p}]))

-----------------------------------------------------------------------------
(* Admission. *)

\* One packet of _admit_pending_control, in order of sequence.
AdmitOne(s, acc, p, stale) ==
    LET answer == Admission(s, p) IN
    IF acc.out # "none" \/ answer = "unknown_media_generation" THEN acc
    ELSE IF answer = "admitted" THEN Buffer(Commit(acc.tr, p.n), p, stale)
    ELSE IF answer = "fenced" THEN Continues(BufferNonAudio(Commit(acc.tr, p.n), p.n))
    ELSE Interrupted([acc.tr EXCEPT !.pend = @ \ {p}], answer)

AdmitPending(s, t, stale) ==
    FoldLeft(LAMBDA acc, p : AdmitOne(s, acc, p, stale), Continues(t),
             SetToSortSeq(t.pend, LAMBDA a, b : a.n < b.n))

\* _expire_receive_deadlines, with the packets that waited too long for
\* their control and the reorder deadline.
ExpireDeadlines(t, aged, late) ==
    IF aged /\ t.pend # {} THEN Interrupted(t, "reopen")
    ELSE Continues(IF late /\ t.armed THEN ReleaseGap(t) ELSE t)

\* _accept_or_none, and what receive_audio does with its answer: a deadline
\* that expires meanwhile and releases a packet loses the one just accepted.
TakeDatagram(s, t, p, stale, aged, late) ==
    LET answer == IF p.kind = "keep" THEN "keep" ELSE Admission(s, p)
        e      == ExpireDeadlines(Commit(t, p.n), aged, late)
    IN  IF ~Acceptable(t.replay, p.n) THEN ExpireDeadlines(t, aged, late)
        ELSE IF answer = "unknown_media_generation"
             THEN IF Cardinality(t.pend) >= PendingLimit /\ p \notin t.pend
                  THEN Interrupted(t, "reopen")
                  ELSE ExpireDeadlines([t EXCEPT !.pend = @ \cup {p}], aged, late)
        ELSE IF answer = "fenced"
             THEN ExpireDeadlines(BufferNonAudio(Commit(t, p.n), p.n), aged, late)
        ELSE IF answer \notin {"admitted", "keep"} THEN ExpireDeadlines(t, aged, late)
        ELSE IF e.out # "none" \/ e.tr.ready # <<>> THEN e
        ELSE IF answer = "keep" THEN Continues(BufferNonAudio(e.tr, p.n))
        ELSE Buffer(e.tr, p, stale)

\* The wait in receive_audio times out.
TimerFires(s, t, stale, aged) ==
    IF aged /\ t.pend # {} THEN Interrupted(t, "reopen")
    ELSE LET a == AdmitPending(s, t, stale) IN
         IF a.out # "none" THEN a ELSE Continues(ReleaseGap(a.tr))
=============================================================================
