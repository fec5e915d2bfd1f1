--------------------------- MODULE EndpointPlayback ---------------------------
(***************************************************************************)
(* The firmware's side of playback over wss-opus/1.  Two tasks share three *)
(* FreeRTOS queues: the supervisor handles the server's frames and sends   *)
(* the playback facts, the playback task owns PlaybackState and the DAC.   *)
(* The playback task takes its commands at three points of its loop, each  *)
(* of which empties the command queue.  On this transport the final packet *)
(* always reaches the media queue before response.end, so the drain        *)
(* deadline and its packet-loss concealment never apply.                   *)
(***************************************************************************)
EXTENDS VoiceWire

CONSTANTS
    MediaCap,      \* packets in playback_queue_ (6 in the code)
    FrameChunks    \* interruptible writes per packet

ASSUME EndpointAssumption == MediaCap \in Nat \ {0} /\ FrameChunks \in Nat \ {0}

VARIABLES
    ws,        \* WssSession: what the supervisor admits
    gateGen,   \* SessionGate.playback_generation_
    cmdq,      \* playback_command_queue_
    mediaq,    \* playback_queue_
    factq,     \* playback_fact_queue_
    pb,        \* PlaybackState
    task,      \* where the playback task is, and the packet it holds
    drops,     \* wss_playback_queue_dropped_ differs from the observed count
    lost,      \* history: generations of which a packet was dropped
    dev,       \* "running", or why running_ was cleared
    gone       \* the connection is closed

endpointVars == <<ws, gateGen, cmdq, mediaq, factq, pb, task, drops, lost, dev, gone>>

Faults == {"control_fence", "playback_generation", "playback_command",
           "wss_media_admission", "playback_fact", "playback_write"}

NoTask == [pc |-> "loop", gen |-> 0, seq |-> 0, chunk |-> 0]

WssState == [response : BOOLEAN, media : BOOLEAN, gen : Nat, fence : Nat, stop : Nat, next : Nat]
PlayState == [active : BOOLEAN, gen : Nat, fence : Nat, stop : Nat, final : Nat \cup {-1},
              sample : Nat \cup {-1}, done : Nat \cup {-1}, degraded : BOOLEAN]
TaskState == [pc : {"loop", "held", "write"}, gen : Nat, seq : Nat \cup {-1}, chunk : 0 .. FrameChunks - 1]

EndpointTypeOK ==
    /\ ws \in WssState
    /\ gateGen \in Nat
    /\ cmdq \in Seq(Message) /\ mediaq \in Seq(Message) /\ factq \in Seq(Message)
    /\ Len(mediaq) <= MediaCap
    /\ pb \in PlayState
    /\ task \in TaskState
    /\ drops \in BOOLEAN /\ gone \in BOOLEAN
    /\ lost \subseteq Nat
    /\ dev \in {"running", "stopped", "closed"} \cup Faults

EndpointInit ==
    /\ ws = [response |-> FALSE, media |-> FALSE, gen |-> 0, fence |-> 0, stop |-> 0, next |-> 0]
    /\ gateGen = 0
    /\ cmdq = <<>> /\ mediaq = <<>> /\ factq = <<>>
    /\ pb = [active |-> FALSE, gen |-> 0, fence |-> 0, stop |-> 0, final |-> -1,
             sample |-> -1, done |-> -1, degraded |-> FALSE]
    /\ task = NoTask
    /\ drops = FALSE /\ gone = FALSE
    /\ lost = {}
    /\ dev = "running"

-----------------------------------------------------------------------------
(* The supervisor: one frame of the server. *)

taskVars == <<factq, pb, task>>

Take == dev = "running" /\ down # <<>> /\ down' = Tail(down) /\ UNCHANGED <<up, gone>>

\* AcceptResponse and HandleControl on response.begin.
ReceiveBegin ==
    /\ Take /\ Head(down).type = "begin"
    /\ LET g  == Head(down).gen
           ok == ~ws.response /\ g > ws.fence
       IN  /\ ws' = IF ok THEN [ws EXCEPT !.response = TRUE, !.media = TRUE, !.gen = g,
                                          !.fence = g, !.stop = 0]
                          ELSE ws
           /\ gateGen' = IF ok /\ g > gateGen THEN g ELSE gateGen
           /\ cmdq' = IF ok /\ g > gateGen THEN Append(cmdq, Head(down)) ELSE cmdq
           /\ dev' = IF ~ok THEN "control_fence"
                     ELSE IF g <= gateGen THEN "playback_generation" ELSE dev
    /\ UNCHANGED <<mediaq, drops, lost, taskVars>>

\* AcceptResponse and HandleControl on response.end: only a completed response
\* becomes a command.
ReceiveEnd ==
    /\ Take /\ Head(down).type = "end"
    /\ LET ok == ws.response /\ Head(down).gen = ws.gen IN
       /\ ws' = IF ok THEN [ws EXCEPT !.response = FALSE, !.media = FALSE] ELSE ws
       /\ cmdq' = IF ok /\ Head(down).outcome = "completed" THEN Append(cmdq, Head(down)) ELSE cmdq
       /\ dev' = IF ok THEN dev ELSE "control_fence"
    /\ UNCHANGED <<gateGen, mediaq, drops, lost, taskVars>>

\* AcceptPlaybackStop: an equal stop is accepted again, another one is not.
StopAdmitted(m) ==
    /\ m.gen = ws.gen
    /\ IF ws.stop # 0 THEN m.arg = ws.stop ELSE m.arg > ws.fence

ReceiveStop ==
    /\ Take /\ Head(down).type = "stop"
    /\ LET ok == StopAdmitted(Head(down)) IN
       /\ ws' = IF ok THEN [ws EXCEPT !.fence = Head(down).arg, !.stop = Head(down).arg, !.media = FALSE]
                      ELSE ws
       /\ cmdq' = IF ok THEN Append(cmdq, Head(down)) ELSE cmdq
       /\ dev' = IF ok THEN dev ELSE "control_fence"
    /\ UNCHANGED <<gateGen, mediaq, drops, lost, taskVars>>

\* AcceptMedia: media behind the fence is ignored and its sequence not counted.
MediaStale(m) == m.gen < ws.fence \/ ~ws.media \/ m.gen # ws.gen

\* Mutant: the queue is full one packet later.
MediaFullLate == Len(mediaq) > MediaCap

MediaFull == Len(mediaq) = MediaCap

\* HandleMedia: a full queue gives up its oldest packet.
ReceiveMedia ==
    /\ Take /\ Head(down).type = "media"
    /\ LET m    == Head(down)
           bad  == ~MediaStale(m) /\ m.arg # ws.next
           ok   == ~MediaStale(m) /\ m.arg = ws.next
       IN  /\ ws' = IF ok THEN [ws EXCEPT !.next = @ + 1] ELSE ws
           /\ mediaq' = IF ~ok THEN mediaq ELSE Append(IF MediaFull THEN Tail(mediaq) ELSE mediaq, m)
           /\ drops' = (drops \/ (ok /\ MediaFull))
           /\ lost' = IF ok /\ MediaFull THEN lost \cup {Head(mediaq).gen} ELSE lost
           /\ dev' = IF bad THEN "wss_media_admission" ELSE dev
    /\ UNCHANGED <<gateGen, cmdq, taskVars>>

\* HandleControl on session.close, or the connection was closed.
ReceiveClose ==
    /\ Take /\ Head(down).type = "close"
    /\ dev' = "closed"
    /\ UNCHANGED <<ws, gateGen, cmdq, mediaq, drops, lost, taskVars>>

\* DrainPlaybackFacts, one fact.
SendFact ==
    /\ dev = "running" /\ factq # <<>>
    /\ up' = Append(up, Head(factq))
    /\ factq' = Tail(factq)
    /\ UNCHANGED <<down, ws, gateGen, cmdq, mediaq, pb, task, drops, lost, dev, gone>>

\* Stop called by the application: session.close goes out first.
StopDevice ==
    /\ dev = "running"
    /\ up' = Append(up, CloseMsg)
    /\ dev' = "stopped"
    /\ UNCHANGED <<down, ws, gateGen, cmdq, mediaq, factq, pb, task, drops, lost, gone>>

\* RunSupervisor after its loop, then RequestClose: the facts left are sent
\* before the connection closes.
Disconnect ==
    /\ dev # "running" /\ ~gone
    /\ up' = (up \o factq) \o <<DisconnectMsg>>
    /\ factq' = <<>>
    /\ gone' = TRUE
    /\ UNCHANGED <<down, ws, gateGen, cmdq, mediaq, pb, task, drops, lost, dev>>

\* EncodeCancelRequest: the request names the response last admitted.  The
\* caller numbers its requests by the response, so that a repeated one is equal.
CancelRequest ==
    /\ dev = "running" /\ ws.gen # 0
    /\ up' = Append(up, CancelMsg(ws.gen, ws.gen))
    /\ UNCHANGED <<down, endpointVars>>

-----------------------------------------------------------------------------
(* The playback task. *)

supervisorVars == <<ws, gateGen, lost, gone>>

\* PlaybackState::End
Ended(outcome) ==
    [active |-> FALSE, gen |-> IF outcome = "stopped" THEN pb.gen ELSE 0,
     fence |-> IF outcome = "stopped" THEN pb.fence ELSE pb.gen, stop |-> pb.stop,
     final |-> -1, sample |-> -1, done |-> -1, degraded |-> FALSE]

\* The fact End returns: without a sample there is no last sequence.
EndFact(outcome) == EndedMsg(pb.gen, outcome, pb.sample # -1, pb.sample)

\* A command PlaybackState refuses ends the session; an active playback is
\* reported as failed first.
Refuse ==
    /\ dev' = "playback_command"
    /\ pb' = IF pb.active THEN Ended("failed") ELSE pb
    /\ factq' = IF pb.active THEN Append(factq, EndFact("failed")) ELSE factq
    /\ UNCHANGED mediaq

\* PlaybackState::Begin
DoBegin(c) ==
    IF ~pb.active /\ c.gen > pb.fence
    THEN /\ pb' = [pb EXCEPT !.active = TRUE, !.gen = c.gen, !.stop = 0, !.final = -1,
                             !.sample = -1, !.done = -1, !.degraded = FALSE]
         /\ UNCHANGED <<factq, mediaq, dev>>
    ELSE Refuse

\* PlaybackState::SetFinalMediaSequence: the last packet may have been played.
DoComplete(c) ==
    IF pb.active /\ c.gen = pb.gen /\ pb.final = -1 /\ pb.sample <= c.arg /\ pb.done <= c.arg
    THEN LET outcome == IF pb.degraded THEN "failed" ELSE "completed" IN
         /\ IF pb.done = c.arg
            THEN pb' = Ended(outcome) /\ factq' = Append(factq, EndFact(outcome))
            ELSE pb' = [pb EXCEPT !.final = c.arg] /\ UNCHANGED factq
         /\ UNCHANGED <<mediaq, dev>>
    ELSE Refuse

\* PlaybackState::Stop, then the media queue is reset.
DoStop(c) ==
    IF pb.stop # 0 /\ c.gen = pb.gen
    THEN IF c.arg = pb.stop THEN mediaq' = <<>> /\ UNCHANGED <<pb, factq, dev>> ELSE Refuse
    ELSE IF pb.active /\ c.gen = pb.gen /\ c.arg > pb.gen /\ c.arg > pb.fence
    THEN /\ pb' = [Ended("stopped") EXCEPT !.fence = c.arg, !.stop = c.arg]
         /\ factq' = Append(factq, EndFact("stopped"))
         /\ mediaq' = <<>>
         /\ UNCHANGED dev
    ELSE Refuse

\* ProcessPlaybackCommands, one command.
ProcessCommand ==
    /\ dev = "running" /\ cmdq # <<>>
    /\ cmdq' = Tail(cmdq)
    /\ LET c == Head(cmdq) IN
       \/ c.type = "begin" /\ DoBegin(c)
       \/ c.type = "end" /\ DoComplete(c)
       \/ c.type = "stop" /\ DoStop(c)
    /\ UNCHANGED <<wireVars, supervisorVars, task, drops>>

\* observe_playout_quality at the top of the loop, before the commands: a drop
\* observed while nothing is active is forgotten.
Observe ==
    /\ dev = "running" /\ task.pc = "loop" /\ drops
    /\ drops' = FALSE
    /\ pb' = IF pb.active THEN [pb EXCEPT !.degraded = TRUE] ELSE pb
    /\ UNCHANGED <<wireVars, supervisorVars, cmdq, mediaq, factq, task, dev>>

\* xQueueReceive on the media queue.
TakeMedia ==
    /\ dev = "running" /\ task.pc = "loop" /\ mediaq # <<>>
    /\ task' = [pc |-> "held", gen |-> Head(mediaq).gen, seq |-> Head(mediaq).arg, chunk |-> 0]
    /\ mediaq' = Tail(mediaq)
    /\ UNCHANGED <<wireVars, supervisorVars, cmdq, factq, pb, drops, dev>>

\* PlaybackState::CanPlay
CanPlay(g) == pb.active /\ g = pb.gen /\ g > pb.fence

\* After the commands: the quality is observed and the packet decoded or dropped.
Gate ==
    /\ dev = "running" /\ task.pc = "held" /\ cmdq = <<>>
    /\ drops' = FALSE
    /\ pb' = IF drops /\ pb.active THEN [pb EXCEPT !.degraded = TRUE] ELSE pb
    /\ task' = IF CanPlay(task.gen) THEN [task EXCEPT !.pc = "write"] ELSE NoTask
    /\ UNCHANGED <<wireVars, supervisorVars, cmdq, mediaq, factq, dev>>

\* One interruptible write and RecordWritten; the last write of the packet is
\* followed by FinishFrame.
WriteChunk ==
    /\ dev = "running" /\ task.pc = "write" /\ cmdq = <<>> /\ CanPlay(task.gen)
    /\ LET last     == task.chunk + 1 = FrameChunks
           started  == IF pb.sample = -1 THEN <<StartedMsg(pb.gen, task.seq)>> ELSE <<>>
           finished == last /\ task.seq = pb.final
           outcome  == IF pb.degraded THEN "failed" ELSE "completed"
           ended    == IF finished THEN <<EndedMsg(pb.gen, outcome, TRUE, task.seq)>> ELSE <<>>
           refused  == \/ pb.final # -1 /\ task.seq > pb.final
                       \/ task.seq < pb.sample
                       \/ last /\ task.seq <= pb.done
       IN  IF refused
           THEN /\ dev' = "playback_fact"
                /\ pb' = Ended("failed")
                /\ factq' = Append(factq, EndFact("failed"))
                /\ UNCHANGED task
           ELSE /\ factq' = (factq \o started) \o ended
                /\ pb' = IF finished THEN Ended(outcome)
                         ELSE [pb EXCEPT !.sample = task.seq, !.done = IF last THEN task.seq ELSE @]
                /\ task' = IF last THEN NoTask ELSE [task EXCEPT !.chunk = @ + 1]
                /\ UNCHANGED dev
    /\ UNCHANGED <<wireVars, supervisorVars, cmdq, mediaq, drops>>

\* The final gate stops the packet between two writes.
BreakOff ==
    /\ dev = "running" /\ task.pc = "write" /\ cmdq = <<>> /\ ~CanPlay(task.gen)
    /\ task' = NoTask
    /\ UNCHANGED <<wireVars, supervisorVars, cmdq, mediaq, factq, pb, drops, dev>>

\* Decoding, resampling or the I2S write fails, whatever commands have arrived
\* meanwhile: fail_active_playback.
PlaybackFault ==
    /\ dev = "running" /\ task.pc = "write" /\ CanPlay(task.gen)
    /\ dev' = "playback_write"
    /\ pb' = Ended("failed")
    /\ factq' = Append(factq, EndFact("failed"))
    /\ UNCHANGED <<wireVars, supervisorVars, cmdq, mediaq, task, drops>>

EndpointNext ==
    \/ ReceiveBegin \/ ReceiveEnd \/ ReceiveStop \/ ReceiveMedia \/ ReceiveClose
    \/ SendFact \/ StopDevice \/ Disconnect
    \/ ProcessCommand \/ Observe \/ TakeMedia \/ Gate \/ WriteChunk \/ BreakOff
=============================================================================
