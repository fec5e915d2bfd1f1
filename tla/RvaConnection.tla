---------------------------- MODULE RvaConnection ----------------------------
(***************************************************************************)
(* RvaWssConnection (bindings/rva/runtime.py) and RvaBinding (binding.py)  *)
(* on the server's side of the WebSocket: the segment loop, the reader,    *)
(* the interruption coordinator, the interrupt tasks and the terminal      *)
(* watchdog, which interleave at every await.  The agent's audio output    *)
(* (agent.py) produces segments under a producer epoch; when it speaks is  *)
(* LiveKit's choice.                                                       *)
(*                                                                         *)
(* A control message goes through the writer's queue and a media packet    *)
(* straight to the wire lock.  A packet is reserved only while no stop of  *)
(* its response is queued, and the lock is first-come, so both reach the   *)
(* wire in the order they were handed over: they are appended to `down` at *)
(* once, and the acknowledgement is a later step.  Text messages carry no  *)
(* playback state and are left out.                                        *)
(***************************************************************************)
EXTENDS ResponseCoordinator, VoiceWire

CONSTANTS
    MaxSpeeches,   \* bound: speeches the agent starts
    MaxPackets,    \* bound: packets of one speech
    SegmentSizes,  \* packets of one segment: the output emits none without a frame
    Prompt         \* the event loop's own tasks outrun the endpoint and the agent:
                   \* a sender is resumed before the reaction to its message is
                   \* read, and an interrupt returns before the next speech starts

ASSUME ConnectionAssumption ==
    MaxSpeeches \in Nat /\ MaxPackets \in Nat /\ SegmentSizes \subseteq Nat \ {0} /\ Prompt \in BOOLEAN

VARIABLES
    minEpoch,     \* _minimum_producer_epoch
    activeEpoch,  \* _active_producer_epoch, 0 for None
    nextSeq,      \* RvaBinding._next_downlink_sequence
    segq,         \* _segments: audio segments and response ends
    seg,          \* the segment loop: where it is and what it sends
    changed,      \* _generation_changed was set since the loop began to wait
    eff,          \* effects being applied by the reader and the coordinator
    cand,         \* generation of the coordinator's latest candidate, 0 for none
    intr,         \* running _interrupt_runner tasks
    wd,           \* _playback_watchdog_target, 0 when no watchdog runs
    cancels,      \* responses named by remembered cancel requests
    prod,         \* the agent's audio output and current speech
    status        \* "open", or why the connection closed

connectionVars == <<minEpoch, activeEpoch, nextSeq, segq, seg, changed, eff, cand, intr, wd,
                    cancels, prod, status>>

Owners == {"reader", "coordinator"}

NoEffect == [gen |-> 0, todo |-> <<>>, close |-> FALSE, on |-> FALSE]
NoSegment == [pc |-> "idle", gen |-> 0, epoch |-> 0, left |-> 0]

\* Why a connection closes.
Causes == {"response_already_active", "playback_already_active", "response_has_no_media",
           "closed_by_endpoint", "disconnected", "retired", "control_timeout", "runtime_failure",
           "playback_terminal_timeout", "stale_cancel_target", "stale_generation",
           "duplicate_playback_started", "duplicate_playback_ended", "invalid_playback_sequence",
           "invalid_playback_outcome", "playback_evidence_mismatch"}

QueueItem == [kind : {"segment", "end"}, epoch : Nat, left : Nat]
SegmentLoop == [pc : {"idle", "begin", "packet", "send", "finish"}, gen : Nat, epoch : Nat, left : Nat]
Effect == [gen : Nat, todo : Seq(Message), close : BOOLEAN, on : BOOLEAN]
InterruptTask == [gen : Nat, pc : {"new", "wait"}, speech : Nat]
Producer == [epoch : Nat, st : {"idle", "speaking", "waiting"}, captured : Nat, owed : BOOLEAN,
             wait : Nat, cut : BOOLEAN, speech : Nat]

ConnectionTypeOK ==
    /\ minEpoch \in Nat /\ activeEpoch \in Nat /\ nextSeq \in Nat
    /\ segq \in Seq(QueueItem)
    /\ seg \in SegmentLoop
    /\ changed \in BOOLEAN
    /\ eff \in [Owners -> Effect]
    /\ cand \in Nat /\ wd \in Nat
    /\ intr \subseteq InterruptTask
    /\ cancels \subseteq Gens
    /\ prod \in Producer
    /\ status \in Causes \cup {"open"}

ConnectionInit ==
    /\ minEpoch = 1 /\ activeEpoch = 0 /\ nextSeq = 0
    /\ segq = <<>> /\ seg = NoSegment /\ changed = FALSE
    /\ eff = [p \in Owners |-> NoEffect]
    /\ cand = 0 /\ intr = {} /\ wd = 0 /\ cancels = {}
    /\ prod = [epoch |-> 1, st |-> "idle", captured |-> 0, owed |-> FALSE, wait |-> 0,
               cut |-> FALSE, speech |-> 0]
    /\ status = "open"

Open == status = "open"

AtLeast(a, b) == IF a > b THEN a ELSE b

Send(m) == down' = Append(down, m) /\ UNCHANGED up

\* close: every task is cancelled and with them what they waited for or had
\* queued, then the voice session, its agent and the WebSocket are closed.
Close(cause) ==
    /\ status' = cause
    /\ CloseState
    /\ down' = Append(down, CloseMsg)
    /\ segq' = <<>> /\ seg' = NoSegment /\ changed' = FALSE
    /\ eff' = [p \in Owners |-> NoEffect]
    /\ cand' = 0 /\ intr' = {} /\ wd' = 0
    /\ prod' = [prod EXCEPT !.st = "idle", !.owed = FALSE, !.cut = FALSE]
    /\ UNCHANGED <<minEpoch, activeEpoch, nextSeq, cancels>>

-----------------------------------------------------------------------------
(* The agent's audio output: LiveKit drives it, RoomlessAudioOutput         *)
(* stamps what it emits with the producer epoch.                            *)

producerFrame == <<responseVars, wireVars, activeEpoch, nextSeq, seg, changed, eff, cand,
                   intr, wd, cancels, status, minEpoch>>

Speak ==
    /\ Open /\ prod.st = "idle" /\ prod.speech < MaxSpeeches /\ (Prompt => intr = {})
    /\ prod' = [prod EXCEPT !.st = "speaking", !.captured = 0, !.cut = FALSE, !.speech = @ + 1]
    /\ UNCHANGED <<producerFrame, segq>>

\* capture_frame, flush and _emit_segment.  The output owes the session one
\* playback end from the first frame of the speech on, delivered or not.
EmitSegment(n) ==
    /\ Open /\ prod.st = "speaking" /\ ~prod.cut /\ prod.captured + n <= MaxPackets
    /\ prod' = [prod EXCEPT !.captured = @ + n, !.owed = (@ \/ prod.captured = 0)]
    /\ segq' = IF prod.epoch < minEpoch THEN segq
               ELSE Append(segq, [kind |-> "segment", epoch |-> prod.epoch, left |-> n])
    /\ UNCHANGED producerFrame

\* wait_for_playout: the end of the response is queued behind its segments.
EndSpeech ==
    /\ Open /\ prod.st = "speaking" /\ ~prod.cut /\ prod.captured > 0
    /\ prod' = [prod EXCEPT !.st = "waiting", !.wait = prod.epoch]
    /\ segq' = Append(segq, [kind |-> "end", epoch |-> prod.epoch, left |-> 0])
    /\ UNCHANGED producerFrame

\* An interrupted speech: clear_buffer, then wait_for_playout once more.
CutSpeech ==
    /\ Open /\ prod.st # "idle" /\ prod.cut
    /\ prod' = [prod EXCEPT !.st = "waiting", !.epoch = @ + 1, !.wait = prod.epoch + 1, !.cut = FALSE]
    /\ segq' = Append(segq, [kind |-> "end", epoch |-> prod.epoch + 1, left |-> 0])
    /\ UNCHANGED producerFrame

\* wait_for_playout returns once the playback end has been reported.
PlayoutDone ==
    /\ Open /\ prod.st = "waiting" /\ ~prod.owed /\ ~prod.cut
    /\ prod' = [prod EXCEPT !.st = "idle", !.epoch = IF prod.wait = @ THEN @ + 1 ELSE @]
    /\ UNCHANGED <<producerFrame, segq>>

-----------------------------------------------------------------------------
(* The segment loop. *)

segmentFrame == <<minEpoch, eff, cand, intr, cancels, prod>>

Item(kind) == Open /\ seg.pc = "idle" /\ segq # <<>> /\ Head(segq).kind = kind

TakeItem(kind) == Item(kind) /\ segq' = Tail(segq)

\* _send_segment: a segment of a fenced epoch.
SegmentSkip ==
    /\ TakeItem("segment") /\ Head(segq).epoch < minEpoch
    /\ UNCHANGED <<responseVars, wireVars, activeEpoch, nextSeq, seg, changed, wd, status, segmentFrame>>

\* _send_segment: response_begin starts a response or finds the segment's own.
SegmentBegin ==
    /\ TakeItem("segment") /\ Head(segq).epoch >= minEpoch
    /\ LET e == Head(segq).epoch
           start(g, pc) == seg' = [pc |-> pc, gen |-> g, epoch |-> e, left |-> Head(segq).left]
       IN  \/ /\ IsActiveEpoch(e)
              /\ start(active, "packet")
              /\ activeEpoch' = e
              /\ UNCHANGED <<responseVars, wireVars>>
           \/ /\ Begin(e)
              /\ start(generation', "begin")
              /\ Send(BeginMsg(generation'))
              /\ UNCHANGED activeEpoch
    /\ UNCHANGED <<nextSeq, changed, wd, status, segmentFrame>>

\* begin raises: another response is active, or its playback has not ended.
SegmentRefused ==
    /\ Item("segment") /\ Head(segq).epoch >= minEpoch
    /\ ~IsActiveEpoch(Head(segq).epoch) /\ ~BeginFresh
    /\ Close(IF active # 0 THEN "response_already_active" ELSE "playback_already_active")
    /\ UNCHANGED up

\* response.begin is acknowledged.
SegmentBegun ==
    /\ Open /\ seg.pc = "begin"
    /\ activeEpoch' = seg.epoch
    /\ seg' = [seg EXCEPT !.pc = "packet"]
    /\ UNCHANGED <<responseVars, wireVars, nextSeq, segq, changed, wd, status, segmentFrame>>

\* The check before a packet is encoded and its deadline waited for.
PacketCheck ==
    /\ Open /\ seg.pc = "packet"
    /\ seg' = IF seg.left = 0 \/ seg.epoch < minEpoch \/ seg.gen # active
              THEN NoSegment ELSE [seg EXCEPT !.pc = "send"]
    /\ UNCHANGED <<responseVars, wireVars, activeEpoch, nextSeq, segq, changed, wd, status, segmentFrame>>

\* serialize_audio and send_bytes.
PacketSend ==
    /\ Open /\ seg.pc = "send"
    /\ NoteMedia(seg.gen, nextSeq)
    /\ Send(MediaMsg(seg.gen, nextSeq))
    /\ nextSeq' = nextSeq + 1
    /\ seg' = [seg EXCEPT !.pc = "packet", !.left = @ - 1]
    /\ changed' = FALSE
    /\ UNCHANGED <<activeEpoch, segq, wd, status, segmentFrame>>

\* The deadline wait was interrupted, or note_media raised stale_generation.
PacketCut ==
    /\ Open /\ seg.pc = "send" /\ (changed \/ ~Accepts(seg.gen))
    /\ seg' = NoSegment
    /\ changed' = FALSE
    /\ UNCHANGED <<responseVars, wireVars, activeEpoch, nextSeq, segq, wd, status, segmentFrame>>

\* _finish_response for a response that is not active any more.
FinishSkip ==
    /\ TakeItem("end") /\ ~IsActiveEpoch(Head(segq).epoch)
    /\ UNCHANGED <<responseVars, wireVars, activeEpoch, nextSeq, seg, changed, wd, status, segmentFrame>>

\* _finish_response: response.end(completed) with the last media sequence.
FinishResponse ==
    /\ TakeItem("end") /\ IsActiveEpoch(Head(segq).epoch)
    /\ Complete(active)
    /\ Send(EndMsg(active, "completed", rec[active].last))
    /\ seg' = [pc |-> "finish", gen |-> active, epoch |-> Head(segq).epoch, left |-> 0]
    /\ UNCHANGED <<activeEpoch, nextSeq, changed, wd, status, segmentFrame>>

\* complete raises: the response was begun and cut before its first packet.
FinishRefused ==
    /\ Item("end") /\ IsActiveEpoch(Head(segq).epoch) /\ rec[active].first = None
    /\ Close("response_has_no_media")
    /\ UNCHANGED up

\* Mutant: the watchdog is armed only while the response is active.
ArmedActive(g) == IF active = g THEN g ELSE wd

\* _arm_playback_terminal_watchdog
Armed(g) == IF playback = g THEN g ELSE wd

\* response.end is acknowledged.
FinishAcked ==
    /\ Open /\ seg.pc = "finish"
    /\ wd' = Armed(seg.gen)
    /\ activeEpoch' = IF activeEpoch = seg.epoch THEN 0 ELSE activeEpoch
    /\ seg' = NoSegment
    /\ UNCHANGED <<responseVars, wireVars, nextSeq, segq, changed, status, segmentFrame>>

-----------------------------------------------------------------------------
(* Fencing: cancel_active_response and _apply_control_effect. *)

\* Mutant: the end is never sent.
StopOnly(g) == <<StopMsg(g, generation + 1)>>

\* The messages of a fence: the end is sent unless the response had completed.
StopAndEnd(g) ==
    <<StopMsg(g, generation + 1)>> \o
    (IF g = active THEN <<EndMsg(g, "cancelled", None)>> ELSE <<>>)

\* Fences playback g for owner p and starts to send; `more` follows the fence's
\* own messages.
ApplyFence(p, g, more, closing) ==
    LET msgs == StopAndEnd(g) \o more IN
    /\ Fence(g, "cancelled")
    /\ minEpoch' = AtLeast(minEpoch, rec[g].epoch + 1)
    /\ changed' = (seg.pc = "send")
    /\ down' = Append(down, Head(msgs))
    /\ eff' = [eff EXCEPT ![p] = [gen |-> g, todo |-> Tail(msgs), close |-> closing, on |-> TRUE]]

effectFrame == <<activeEpoch, nextSeq, segq, seg, cancels, prod>>

\* A message is acknowledged and the next one handed over.
EffectSend(p) ==
    /\ Open /\ eff[p].todo # <<>>
    /\ Send(Head(eff[p].todo))
    /\ eff' = [eff EXCEPT ![p].todo = Tail(@)]
    /\ UNCHANGED <<responseVars, minEpoch, changed, cand, intr, wd, status, effectFrame>>

\* The last message is acknowledged: the watchdog is armed and the agent is
\* interrupted in a task of its own.
EffectDone(p) ==
    /\ Open /\ eff[p].on /\ eff[p].todo = <<>> /\ ~eff[p].close
    /\ eff' = [eff EXCEPT ![p] = NoEffect]
    /\ wd' = Armed(eff[p].gen)
    /\ intr' = intr \cup {[gen |-> eff[p].gen, pc |-> "new", speech |-> 0]}
    /\ UNCHANGED <<responseVars, wireVars, minEpoch, changed, cand, status, effectFrame>>

\* After session.close is acknowledged the reader returns.
CloseSent ==
    /\ Open /\ eff["reader"].close /\ eff["reader"].todo = <<>>
    /\ Close("closed_by_endpoint")
    /\ UNCHANGED up

\* A sender waits for an acknowledgement.
Sending == seg.pc \in {"begin", "finish"} \/ \E p \in Owners : eff[p].on

\* A control message is not acknowledged in time.
ControlTimeout ==
    /\ Open /\ Sending
    /\ Close("control_timeout")
    /\ UNCHANGED up

-----------------------------------------------------------------------------
(* The reader: one message of the endpoint. *)

Read(type) ==
    /\ Open /\ ~eff["reader"].on /\ (Prompt => ~Sending)
    /\ up # <<>> /\ Head(up).type = type
    /\ up' = Tail(up)

readerFrame == <<activeEpoch, nextSeq, segq, seg, cand, intr, status>>

\* _cancel: a repeated request has no effect, a stale target ends the session.
ReadCancel ==
    /\ Read("cancel")
    /\ LET g == Head(up).gen IN
       \/ /\ g \in cancels
          /\ UNCHANGED <<responseVars, down, minEpoch, changed, eff, cancels, wd, prod, readerFrame>>
       \/ /\ g \notin cancels /\ Fenceable(g)
          /\ ApplyFence("reader", g, <<>>, FALSE)
          /\ cancels' = cancels \cup {g}
          /\ UNCHANGED <<wd, prod, readerFrame>>
       \/ /\ g \notin cancels /\ ~Fenceable(g)
          /\ Close(IF g # playback THEN "stale_cancel_target" ELSE "stale_generation")

ReadStarted ==
    /\ Read("started")
    /\ LET g == Head(up).gen
           error == StartedError(g, Head(up).arg)
       IN  IF error = "none"
           THEN /\ PlaybackStarted(g)
                /\ UNCHANGED <<down, minEpoch, changed, eff, cancels, wd, prod, readerFrame>>
           ELSE Close(error)

\* Mutant: the output is not told that the playback has ended.
ToldSilently == prod

\* playback_finished: the output's wait for its playback is over.
Told == [prod EXCEPT !.owed = FALSE]

ReadEnded ==
    /\ Read("ended")
    /\ LET m == Head(up)
           error == EndedError(m.gen, m.outcome, m.played, m.arg)
       IN  IF error = "none"
           THEN /\ PlaybackEnded(m.gen)
                /\ wd' = IF wd = m.gen THEN 0 ELSE wd
                /\ prod' = Told
                /\ UNCHANGED <<down, minEpoch, changed, eff, cancels, readerFrame>>
           ELSE Close(error)

\* _receive_close: what is playing is fenced first; a fence that raises ends
\* the session at once.
ReadClose ==
    /\ Read("close")
    /\ \/ /\ Fenceable(playback)
          /\ ApplyFence("reader", playback, <<CloseMsg>>, TRUE)
          /\ UNCHANGED <<cancels, wd, prod, readerFrame>>
       \/ /\ playback = 0
          /\ down' = Append(down, CloseMsg)
          /\ eff' = [eff EXCEPT !["reader"].on = TRUE, !["reader"].close = TRUE]
          /\ UNCHANGED <<responseVars, minEpoch, changed, cancels, wd, prod, readerFrame>>
       \/ /\ playback # 0 /\ ~Fenceable(playback)
          /\ Close("stale_generation")

ReadDisconnect == Read("disconnect") /\ Close("disconnected")

-----------------------------------------------------------------------------
(* The interruption coordinator. *)

\* _submit_interruption_candidate: the newest candidate replaces an older one.
SubmitCandidate ==
    /\ Open /\ playback # 0 /\ rec[playback].started /\ cand # playback
    /\ cand' = playback
    /\ UNCHANGED <<responseVars, wireVars, minEpoch, changed, eff, intr, wd, status, effectFrame>>

\* The policy has decided: _accept_interruption if the candidate is still what
\* is playing.  A fence that raises ends only the coordinator's task.
DecideCandidate(interrupt) ==
    /\ Open /\ cand # 0 /\ ~eff["coordinator"].on
    /\ cand' = 0
    /\ IF interrupt /\ cand = playback /\ Fenceable(cand)
       THEN ApplyFence("coordinator", cand, <<>>, FALSE) /\ UNCHANGED up
       ELSE UNCHANGED <<responseVars, wireVars, minEpoch, changed, eff>>
    /\ UNCHANGED <<intr, wd, status, effectFrame>>

-----------------------------------------------------------------------------
(* The interrupt tasks and the watchdog. *)

interruptFrame == <<wireVars, activeEpoch, nextSeq, segq, seg, eff, cand, wd, cancels>>

\* _AgentPort.interrupt up to its await: the target is not looked at, whatever
\* epoch is active now is fenced and whatever speech is current is cut.
InterruptStart(i) ==
    /\ Open /\ i \in intr /\ i.pc = "new"
    /\ minEpoch' = IF activeEpoch = 0 THEN minEpoch ELSE AtLeast(minEpoch, activeEpoch + 1)
    /\ changed' = (seg.pc = "send")
    /\ prod' = [prod EXCEPT !.epoch = @ + 1, !.cut = (prod.st # "idle")]
    /\ intr' = (intr \ {i}) \cup {[i EXCEPT !.pc = "wait", !.speech = prod.speech]}
    /\ UNCHANGED <<responseVars, status, interruptFrame>>

\* The speech that was cut is over.
InterruptFinish(i) ==
    /\ Open /\ i \in intr /\ i.pc = "wait" /\ (prod.st = "idle" \/ prod.speech # i.speech)
    /\ prod' = [prod EXCEPT !.epoch = @ + 1]
    /\ minEpoch' = AtLeast(minEpoch, prod.epoch + 1)
    /\ intr' = intr \ {i}
    /\ UNCHANGED <<responseVars, changed, status, interruptFrame>>

\* It is not over within the runner's timeout.
InterruptTimeout(i) ==
    /\ Open /\ i \in intr /\ i.pc = "wait"
    /\ Close("runtime_failure")
    /\ UNCHANGED up

\* _playback_terminal_watchdog: a report that arrives first cancels it.
WatchdogFire ==
    /\ Open /\ wd # 0 /\ wd = playback
    /\ Close("playback_terminal_timeout")
    /\ UNCHANGED up

\* The session ends for a reason outside playback: the registry retires it, it
\* is idle, the uplink is overloaded, the agent fails, a media send times out.
Retire ==
    /\ Open
    /\ Close("retired")
    /\ UNCHANGED up

AgentNext ==
    \/ Speak \/ EndSpeech \/ CutSpeech \/ PlayoutDone
    \/ \E n \in SegmentSizes : EmitSegment(n)

SegmentNext ==
    \/ SegmentSkip \/ SegmentBegin \/ SegmentRefused \/ SegmentBegun \/ PacketCheck \/ PacketSend \/ PacketCut
    \/ FinishSkip \/ FinishResponse \/ FinishRefused \/ FinishAcked

ReaderNext == ReadCancel \/ ReadStarted \/ ReadEnded \/ ReadClose \/ ReadDisconnect

TaskNext ==
    \/ \E p \in Owners : EffectSend(p) \/ EffectDone(p)
    \/ CloseSent
    \/ SubmitCandidate
    \/ \E b \in BOOLEAN : DecideCandidate(b)
    \/ \E i \in intr : InterruptStart(i) \/ InterruptFinish(i)

TimeoutNext ==
    \/ ControlTimeout \/ WatchdogFire \/ Retire
    \/ \E i \in intr : InterruptTimeout(i)

ConnectionNext == AgentNext \/ SegmentNext \/ ReaderNext \/ TaskNext \/ TimeoutNext
=============================================================================
