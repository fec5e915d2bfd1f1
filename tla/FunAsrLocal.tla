----------------------------- MODULE FunAsrLocal -----------------------------
(***************************************************************************)
(* FunASRStream and the LiveKit adapter _FunASRRecognizeStream that drives *)
(* it (providers/funasr_stt.py): one WebSocket for a whole conversation,   *)
(* segments delimited by flushes, and a 2pass server that answers each end *)
(* of segment with one offline result.  Five tasks share the stream: the   *)
(* sender, the receiver, the adapter's input and events tasks, and its     *)
(* _run; aclose is called by the input task at the end of the input and by *)
(* _run on every way out, and whoever comes second returns at once.        *)
(***************************************************************************)
EXTENDS FunAsr

CONSTANTS
    MaxPushes,     \* bound: frames pushed
    MaxSegments    \* bound: flushes

ASSUME LocalAssumption == {MaxPushes, MaxSegments} \subseteq Nat

VARIABLES
    segs,       \* _active_segment_id, _finalizing_segment_id, _needs_new_segment
    heard,      \* the segment whose audio the server is holding, 0 when none
    pending,    \* _pending_audio holds less than a chunk
    sender,     \* the sending task: [at, event, result], the item it holds in event
    input,      \* _forward_input: [at, result]
    consumer,   \* _forward_events: [at, result]
    closer,     \* aclose: who runs it, how far it is, whether a cancellation passed through it
    run,        \* _run
    pushes, flushes

localVars ==
    <<segs, heard, pending, sender, input, consumer, closer, run, pushes, flushes>>

Part(at, r) == [at |-> at, result |-> r]
Ended(p) == p.at \in {"off", "done"}

LocalInit ==
    /\ segs = [active |-> 1, finalizing |-> 0, needsNew |-> FALSE]
    /\ heard = 0
    /\ pending = FALSE
    /\ sender = NoTask
    /\ input = Part("off", "none")
    /\ consumer = Part("off", "none")
    /\ closer = [by |-> "none", at |-> "none", cancelled |-> FALSE]
    /\ run = "start"
    /\ pushes = 0
    /\ flushes = 0

-----------------------------------------------------------------------------
\* _run awaits stream.start: connect, the first message, then the two tasks.
StartOk ==
    /\ run = "start"
    /\ run' = "wait"
    /\ link' = "up"
    /\ sender' = Task("get", EndMarker, "none")
    /\ receiver' = Task("recv", EndMarker, "none")
    /\ input' = Part("read", "none")
    /\ consumer' = Part("read", "none")
    /\ UNCHANGED <<protocol, audio, events, fatal, closed, ended, answers, outcome,
                   segs, heard, pending, closer, pushes, flushes>>

\* start raises: the connection is closed before the error leaves it.
StartFails(e) ==
    /\ run = "start"
    /\ run' = "close"
    /\ outcome' = e
    /\ UNCHANGED <<protocol, audio, events, fatal, closed, ended, link, answers, receiver,
                   segs, heard, pending, sender, input, consumer, closer,
                   pushes, flushes>>

-----------------------------------------------------------------------------
\* _forward_input

InputRaises(e) == input' = Part("done", e)

\* push_audio: the frame completes a chunk or not, and may leave a remainder.
Push(chunk, rest) ==
    /\ input.at = "read"
    /\ pushes < MaxPushes
    /\ chunk \/ rest
    /\ pushes' = pushes + 1
    /\ IF closed \/ fatal # "none"
         THEN /\ InputRaises(IF closed THEN "error" ELSE fatal)
              /\ UNCHANGED <<audio, fatal, segs, pending>>
         ELSE LET seg == IF segs.needsNew THEN segs.active + 1 ELSE segs.active
              IN /\ segs' = [segs EXCEPT !.active = seg, !.needsNew = FALSE]
                 /\ pending' = rest
                 /\ IF ~chunk
                      THEN UNCHANGED <<audio, fatal, input>>
                    ELSE IF AudioFull
                      THEN fatal' = "retry" /\ InputRaises("retry") /\ UNCHANGED audio
                      ELSE audio' = Append(audio, Chunk(seg)) /\ UNCHANGED <<fatal, input>>
    /\ UNCHANGED <<protocol, events, closed, ended, link, answers, receiver, outcome,
                   heard, sender, consumer, closer, run, flushes>>

\* flush up to its await: a flush is refused while the final of the one before is due.
FlushGuard == segs.finalizing = 0

Flush ==
    /\ input.at = "read"
    /\ flushes < MaxSegments
    /\ flushes' = flushes + 1
    /\ CASE closed -> UNCHANGED <<audio, fatal, pending, segs, input>>
         [] ~closed /\ ~FlushGuard ->
              InputRaises("retry") /\ UNCHANGED <<audio, fatal, pending, segs>>
         [] ~closed /\ FlushGuard /\ pending /\ AudioFull ->
              /\ pending' = FALSE
              /\ fatal' = SetFatal("retry")
              /\ InputRaises("retry")
              /\ UNCHANGED <<audio, segs>>
         [] OTHER ->
              /\ pending' = FALSE
              /\ audio' = IF pending THEN Append(audio, Chunk(segs.active)) ELSE audio
              /\ segs' = [segs EXCEPT !.finalizing = segs.active, !.needsNew = TRUE]
              /\ input' = Part("flush", "none")
              /\ UNCHANGED fatal
    /\ UNCHANGED <<protocol, events, closed, ended, link, answers, receiver, outcome,
                   heard, sender, consumer, closer, run, pushes>>

FlushPut ==
    /\ input.at = "flush"
    /\ ~AudioFull
    /\ audio' = Append(audio, Marker("flush"))
    /\ input' = Part("read", "none")
    /\ UNCHANGED <<protocol, events, fatal, closed, ended, link, answers, receiver, outcome,
                   segs, heard, pending, sender, consumer, closer, run, pushes, flushes>>

\* A put times out when the task that takes from the queue is stuck or gone.
SenderStuck == sender.at # "get"

FlushTimeout ==
    /\ input.at = "flush"
    /\ AudioFull
    /\ SenderStuck
    /\ fatal' = SetFatal("retry")
    /\ segs' = [segs EXCEPT !.finalizing = 0, !.needsNew = FALSE]
    /\ InputRaises("retry")
    /\ UNCHANGED <<protocol, audio, events, closed, ended, link, answers, receiver, outcome,
                   heard, pending, sender, consumer, closer, run, pushes, flushes>>

\* The end of the input: the input task closes the stream itself.
EndOfInput ==
    /\ input.at = "read"
    /\ closed' = TRUE
    /\ IF closed
         THEN input' = Part("done", "ok") /\ UNCHANGED closer
         ELSE /\ input' = Part("close", "none")
              /\ closer' = [by |-> "input", at |-> IF fatal = "none" THEN "tail" ELSE "mark",
                            cancelled |-> FALSE]
    /\ UNCHANGED <<protocol, audio, events, fatal, ended, link, answers, receiver, outcome,
                   segs, heard, pending, sender, consumer, run, pushes, flushes>>

-----------------------------------------------------------------------------
\* aclose, after _closed is set

CloserAt(stage) == closer' = [closer EXCEPT !.at = stage]

\* The remainder and the close marker are put one after the other, each within the timeout.
ClosePut ==
    /\ closer.at \in {"tail", "mark"}
    /\ IF closer.at = "tail" /\ ~pending
         THEN CloserAt("mark") /\ UNCHANGED <<audio, fatal, pending>>
       ELSE IF ~AudioFull
         THEN /\ audio' = Append(audio, IF closer.at = "tail" THEN Chunk(segs.active)
                                                               ELSE Marker("close"))
              /\ pending' = IF closer.at = "tail" THEN FALSE ELSE pending
              /\ CloserAt(IF closer.at = "tail" THEN "mark" ELSE "wait")
              /\ UNCHANGED fatal
         ELSE /\ SenderStuck
              /\ fatal' = SetFatal("retry")
              /\ pending' = IF closer.at = "tail" THEN FALSE ELSE pending
              /\ CloserAt("reap")
              /\ UNCHANGED audio
    /\ UNCHANGED <<protocol, events, closed, ended, link, answers, receiver, outcome,
                   segs, heard, sender, input, consumer, run, pushes, flushes>>

\* wait_for(sender, 2 s): the sender ends at the marker, has failed, or is cancelled.
CloseWait ==
    /\ closer.at = "wait"
    /\ SenderStuck
    /\ CloserAt("reap")
    /\ UNCHANGED <<commonVars, segs, heard, pending, sender, input, consumer, run,
                   pushes, flushes>>

\* The finally block cancels both tasks.
CloseReap ==
    /\ closer.at = "reap"
    /\ sender' = Stopped(sender)
    /\ receiver' = Stopped(receiver)
    /\ CloserAt("hangup")
    /\ UNCHANGED <<protocol, audio, events, fatal, closed, ended, link, answers, outcome,
                   segs, heard, pending, input, consumer, run, pushes, flushes>>

\* It closes the connection and ends the events; a closing that was cancelled leaves
\* without ending them.  Whether a close() that is interrupted waits for its peer is the
\* business of websockets: the stream has let go of the connection.
CloseHangup ==
    /\ closer.at = "hangup"
    /\ link' = "none"
    /\ answers' = <<>>
    /\ CloserAt("done")
    /\ IF closer.cancelled
         THEN UNCHANGED <<events, ended>>
         ELSE events' = EndEvents(events, ended) /\ ended' = TRUE
    /\ input' = IF closer.by = "input"
                  THEN Part("done", IF closer.cancelled THEN "cancelled" ELSE "ok")
                  ELSE input
    /\ UNCHANGED <<protocol, audio, fatal, closed, receiver, outcome,
                   segs, heard, pending, sender, consumer, run, pushes, flushes>>

Aclose == ClosePut \/ CloseWait \/ CloseReap \/ CloseHangup

-----------------------------------------------------------------------------
\* _send_loop

SenderGet ==
    /\ sender.at = "get"
    /\ audio # <<>>
    /\ sender' = Task("send", Head(audio), "none")
    /\ audio' = Tail(audio)
    /\ UNCHANGED <<protocol, events, fatal, closed, ended, link, answers, receiver, outcome,
                   segs, heard, pending, input, consumer, closer, run, pushes, flushes>>

\* What the server answers to a frame: an online result or nothing while it is told that
\* the user is speaking; when it is told not, the offline result of what it holds, which
\* may be empty.
Answers(speaking, held, seg) ==
    IF speaking
      THEN {<<>>, <<Event("online", 0, seg)>>}
      ELSE {<<Event("empty", 0, held)>>}
           \cup {<<Event("offline", 0, held)>> : s \in {held} \ {0}}

\* The sends of one item: a chunk, announced when the segment before has been ended, or an
\* end of segment and the frame of silence that makes the server act on it.
SenderSend ==
    /\ sender.at = "send"
    /\ link = "up"
    /\ LET pcm == sender.event.k = "pcm"
           held == IF pcm THEN sender.event.seg ELSE heard
       IN /\ \E a \in Answers(pcm, held, sender.event.seg) : answers' = answers \o a
          /\ heard' = IF pcm THEN held ELSE 0
          /\ sender' = IF sender.event.k = "close" THEN Finished("ok")
                                                  ELSE Task("get", EndMarker, "none")
    /\ UNCHANGED <<protocol, audio, events, fatal, closed, ended, link, receiver, outcome,
                   segs, pending, input, consumer, closer, run, pushes, flushes>>

SenderFails ==
    /\ sender.at = "send"
    /\ link # "up"
    /\ fatal' = SetFatal("retry")
    /\ events' = EndEvents(events, ended)
    /\ ended' = TRUE
    /\ sender' = Finished("failed")
    /\ UNCHANGED <<protocol, audio, closed, link, answers, receiver, outcome,
                   segs, heard, pending, input, consumer, closer, run, pushes, flushes>>

-----------------------------------------------------------------------------
\* _receive_loop

\* Mutant: every event is labelled with the active segment.
ParsedActive(m) ==
    Event(IF m.k = "offline" THEN "final" ELSE "interim", segs.active, m.of)

\* The event _parse_message makes of an answer: a final is labelled with the segment that
\* is being finalised, an interim with the one that is active.
Parsed(m) ==
    IF m.k = "offline"
      THEN Event("final", IF segs.finalizing # 0 THEN segs.finalizing ELSE segs.active, m.of)
      ELSE Event("interim", segs.active, m.of)

\* An offline result, empty or not, closes the flush before it.
ReceiverReads ==
    /\ receiver.at = "recv"
    /\ answers # <<>>
    /\ answers' = Tail(answers)
    /\ LET m == Head(answers)
       IN /\ segs' = IF m.k = "online" THEN segs ELSE [segs EXCEPT !.finalizing = 0]
          /\ receiver' = IF m.k = "empty" THEN receiver ELSE Task("put", Parsed(m), "none")
    /\ UNCHANGED <<protocol, audio, events, fatal, closed, ended, link, outcome,
                   heard, pending, sender, input, consumer, closer, run, pushes, flushes>>

ReceiverPuts ==
    /\ receiver.at = "put"
    /\ ~EventsFull
    /\ events' = Append(events, receiver.event)
    /\ receiver' = Task("recv", EndMarker, "none")
    /\ UNCHANGED <<protocol, audio, fatal, closed, ended, link, answers, outcome, localVars>>

\* The exception handler of _receive_loop.
ReceiverRaises ==
    /\ fatal' = IF receiver.at = "put" \/ ~closed THEN SetFatal("retry") ELSE fatal
    /\ events' = EndEvents(events, ended)
    /\ ended' = TRUE
    /\ receiver' = Finished("failed")
    /\ UNCHANGED <<protocol, audio, closed, link, answers, outcome, localVars>>

\* The put times out because nobody takes events any more, or recv raises.
ReceiverFails ==
    /\ \/ receiver.at = "put" /\ EventsFull /\ Ended(consumer)
       \/ receiver.at = "recv" /\ answers = <<>> /\ link = "lost"
    /\ ReceiverRaises

\* The server sends something that is no JSON.
Garbage ==
    /\ receiver.at = "recv"
    /\ answers = <<>>
    /\ link = "up"
    /\ ReceiverRaises

-----------------------------------------------------------------------------
\* _forward_events
ConsumerReads ==
    /\ consumer.at = "read"
    /\ events # <<>>
    /\ events' = Tail(events)
    /\ consumer' = IF Head(events) = EndMarker
                     THEN Part("done", IF fatal = "none" THEN "ok" ELSE fatal)
                     ELSE consumer
    /\ UNCHANGED <<protocol, audio, fatal, closed, ended, link, answers, receiver, outcome,
                   segs, heard, pending, sender, input, closer, run, pushes, flushes>>

-----------------------------------------------------------------------------
\* _run, after the two tasks are created

\* asyncio.wait returns: the result of a task that raised is raised, whichever comes first.
RunWakes ==
    /\ run = "wait"
    /\ Ended(input) \/ Ended(consumer)
    /\ LET raised == {p.result : p \in {q \in {input, consumer} : Ended(q)}} \cap Failures
       IN IF raised # {}
            THEN run' = "close" /\ \E e \in raised : outcome' = e
            ELSE run' = (IF Ended(input) THEN "drain" ELSE "stop") /\ UNCHANGED outcome
    /\ UNCHANGED <<protocol, audio, events, fatal, closed, ended, link, answers, receiver,
                   segs, heard, pending, sender, input, consumer, closer, pushes, flushes>>

\* await events_task
RunDrained ==
    /\ run = "drain"
    /\ Ended(consumer)
    /\ outcome' = consumer.result
    /\ run' = "close"
    /\ UNCHANGED <<protocol, audio, events, fatal, closed, ended, link, answers, receiver,
                   segs, heard, pending, sender, input, consumer, closer, pushes, flushes>>

\* LiveKit cancels the stream: while it starts, while it waits, or while it drains, where
\* the cancellation reaches the task it awaits.  On the way out see RunCancelledLeaving.
RunCancelled ==
    /\ run \in {"start", "wait", "drain"}
    /\ run' = "close"
    /\ outcome' = "cancelled"
    /\ consumer' = IF run = "drain" /\ ~Ended(consumer) THEN Part("done", "cancelled") ELSE consumer
    /\ UNCHANGED <<protocol, audio, events, fatal, closed, ended, link, answers, receiver,
                   segs, heard, pending, sender, input, closer, pushes, flushes>>

\* The finally block: aclose, unless the input task is already in it.  A stream that did
\* not start only ends its events.
RunCloses ==
    /\ run = "close"
    /\ closed' = TRUE
    /\ CASE closed -> run' = "cancel" /\ UNCHANGED <<closer, events, ended>>
         [] ~closed /\ input.at = "off" ->
              /\ run' = "cancel"
              /\ events' = EndEvents(events, ended)
              /\ ended' = TRUE
              /\ UNCHANGED closer
         [] OTHER ->
              /\ run' = "closing"
              /\ closer' = [by |-> "run", cancelled |-> FALSE,
                            at |-> IF fatal = "none" THEN "tail" ELSE "mark"]
              /\ UNCHANGED <<events, ended>>
    /\ UNCHANGED <<protocol, audio, fatal, link, answers, receiver, outcome,
                   segs, heard, pending, sender, input, consumer, pushes, flushes>>

\* aclose returns, or raises the cancellation that met it, and the rest of the finally
\* block is skipped: the input and the events task are left as they are.
RunClosed ==
    /\ run = "closing"
    /\ closer.at = "done"
    /\ run' = IF closer.cancelled THEN "done" ELSE "cancel"
    /\ outcome' = IF closer.cancelled THEN "cancelled" ELSE outcome
    /\ UNCHANGED <<protocol, audio, events, fatal, closed, ended, link, answers, receiver,
                   segs, heard, pending, sender, input, consumer, closer, pushes, flushes>>

\* Mutant: a cancelled aclose does not run its finally block.
InputCancelledAtOnce ==
    /\ input' = Part("done", "cancelled")
    /\ UNCHANGED closer

\* A cancellation inside aclose: its finally block still runs, what comes after it does
\* not, and one that meets _cancel_and_wait is swallowed there.
AcloseCancelled ==
    closer' = IF closer.at \in {"tail", "mark", "wait"}
                THEN [closer EXCEPT !.at = "reap", !.cancelled = TRUE]
                ELSE [closer EXCEPT !.cancelled = @ \/ closer.at = "hangup"]

\* Cancelling the input task.
InputCancelled ==
    IF input.at = "close"
      THEN AcloseCancelled /\ UNCHANGED input
      ELSE input' = Part("done", "cancelled") /\ UNCHANGED closer

\* LiveKit cancels a stream that is on its way out: in its own aclose, or while it waits in
\* _cancel_and_wait for an input task that is in aclose, which is cancelled once more.
\* The puts of aclose are awaits only while the queue is full.
RunCancelledLeaving ==
    /\ run \in {"closing", "stopping", "cancelling"}
    /\ closer.at \notin {"none", "done"}
    /\ closer.at \in {"tail", "mark"} => AudioFull
    /\ AcloseCancelled
    /\ UNCHANGED <<commonVars, segs, heard, pending, sender, input, consumer, run,
                   pushes, flushes>>

RunStops ==
    /\ run \in {"stop", "cancel"}
    /\ ~Ended(input)
    /\ run' = IF run = "stop" THEN "stopping" ELSE "cancelling"
    /\ InputCancelled
    /\ UNCHANGED <<commonVars, segs, heard, pending, sender, consumer, pushes, flushes>>

\* The input task has ended: after "stop" _run goes to its finally block, after "cancel" it
\* cancels the events task and is done.
RunStopped ==
    /\ run \in {"stop", "stopping", "cancel", "cancelling"}
    /\ Ended(input)
    /\ IF run \in {"stop", "stopping"}
         THEN run' = "close" /\ outcome' = "ok" /\ UNCHANGED consumer
         ELSE /\ run' = "done"
              /\ consumer' = IF Ended(consumer) THEN consumer ELSE Part("done", "cancelled")
              /\ UNCHANGED outcome
    /\ UNCHANGED <<protocol, audio, events, fatal, closed, ended, link, answers, receiver,
                   segs, heard, pending, sender, input, closer, pushes, flushes>>
=============================================================================
