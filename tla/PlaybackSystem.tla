---------------------------- MODULE PlaybackSystem ----------------------------
(***************************************************************************)
(* One voice session over wss-opus/1: the server's connection and the      *)
(* firmware, joined by the two streams of the WebSocket.                   *)
(***************************************************************************)
EXTENDS RvaConnection, EndpointPlayback

CONSTANTS
    UserCancels,   \* the endpoint's user may cancel responses
    Hardware       \* the endpoint's playback hardware may fail

ASSUME SystemAssumption == UserCancels \in BOOLEAN /\ Hardware \in BOOLEAN

vars == <<responseVars, wireVars, connectionVars, endpointVars>>

TypeOK == ResponseTypeOK /\ WireTypeOK /\ ConnectionTypeOK /\ EndpointTypeOK

Init == ResponseInit /\ WireInit /\ ConnectionInit /\ EndpointInit

Server == ConnectionNext /\ UNCHANGED endpointVars

\* bound: one unread cancel request
UserCancel ==
    /\ UserCancels /\ \A i \in DOMAIN up : up[i].type # "cancel"
    /\ CancelRequest

Endpoint ==
    /\ EndpointNext \/ UserCancel \/ (Hardware /\ PlaybackFault)
    /\ UNCHANGED <<responseVars, connectionVars>>

Finished == status # "open" /\ gone /\ UNCHANGED vars

Next == Server \/ Endpoint \/ Finished

Spec == Init /\ [][Next]_vars

\* Every task of the event loop runs, every timer fires, and the agent's
\* speech ends.  Nothing is assumed of the endpoint.
Fairness ==
    /\ WF_vars(SegmentNext /\ UNCHANGED endpointVars)
    /\ WF_vars(CloseSent /\ UNCHANGED endpointVars)
    /\ \A p \in Owners : WF_vars((EffectSend(p) \/ EffectDone(p)) /\ UNCHANGED endpointVars)
    /\ WF_vars((EndSpeech \/ CutSpeech \/ PlayoutDone) /\ UNCHANGED endpointVars)
    /\ WF_vars(WatchdogFire /\ UNCHANGED endpointVars)
    /\ WF_vars((\E i \in intr : InterruptStart(i)) /\ UNCHANGED endpointVars)
    /\ WF_vars((\E i \in intr : InterruptFinish(i) \/ InterruptTimeout(i)) /\ UNCHANGED endpointVars)

FairSpec == Spec /\ Fairness

-----------------------------------------------------------------------------
(* Properties. *)

\* The server's slot (ResponseCoordinator._playback) stays with a response for
\* as long as the endpoint plays it: the next response is not begun over the
\* sound of the last one, whatever stops, ends and facts are in flight.
SlotHeld == Open /\ dev = "running" /\ pb.active => playback = pb.gen

\* The four places that say what is playing agree: an active response holds the
\* slot, and the voice session accepts callbacks of the slot's response exactly
\* until it is fenced (response.py begin, complete, fence, playback_ended).
LayersAgree ==
    Open => /\ active # 0 => active = playback
            /\ target = (IF playback # 0 /\ ~rec[playback].stop THEN playback ELSE 0)

\* _remember_terminal forgets no response whose playback has not ended, and
\* every record is on its way to be forgotten: the table is bounded.
RecordsKept ==
    /\ playback # 0 => Known(playback)
    /\ \A g \in Gens : Known(g) => g = playback \/ \E i \in DOMAIN order : order[i] = g

\* Once a response is fenced no packet of it is put on the wire any more, however
\* far the segment loop had come when the fence was taken.  Putting it there is
\* reserve_downlink_media, one step with the write it is for: a packet reserved before the
\* fence may wait for the wire lock and still be written, before the stop.
NoMediaAfterStop ==
    [][\A g \in Gens : rec[g].stop =>
          \A i \in Len(down) + 1 .. Len(down') : ~(down'[i].type = "media" /\ down'[i].gen = g)]_vars

\* Nothing the firmware reports makes the server close with a protocol error,
\* except a report, cancel or close that crossed a stop of the server, a cancel
\* of a playback that has ended, and a failure of the endpoint's hardware.
ServerAccepts ==
    /\ status \in {"open", "control_timeout", "runtime_failure", "playback_terminal_timeout",
                   "closed_by_endpoint", "disconnected", "retired", "stale_cancel_target",
                   "stale_generation", "invalid_playback_outcome"}
    /\ status = "stale_generation" => rec[playback].stop
    /\ status = "invalid_playback_outcome" => rec[playback].stop \/ dev = "playback_write"

\* Nothing the server sends makes the firmware give up, except a stop that
\* crossed the end of the same playback (PlaybackState::Stop refuses it).
EndpointAccepts ==
    /\ dev \in {"running", "stopped", "closed", "playback_command", "playback_write"}
    /\ dev = "playback_command" => ws.stop # 0 /\ pb.fence = ws.gen

\* A response in the slot leaves it or the session closes, even if the endpoint
\* never reports anything (_playback_terminal_watchdog).
PlaybackReleased == \A g \in Gens : (playback = g /\ Open) ~> (playback # g \/ ~Open)

\* An agent waiting for its playout to end is released or the session closes
\* (RoomlessAudioOutput.wait_for_playout).
AgentReleased == (prod.st = "waiting" /\ Open) ~> (prod.st = "idle" \/ ~Open)

\* The firmware does not report a response as completed when a packet of it was
\* dropped from the playback queue.
CompletedIsComplete ==
    \A i \in DOMAIN factq : factq[i].type = "ended" /\ factq[i].gen \in lost => factq[i].outcome # "completed"
=============================================================================
