-------------------------- MODULE FunAsrStandalone --------------------------
(***************************************************************************)
(* StandaloneFunASRStream and FunASRSTT._recognize_impl, which uses one    *)
(* for one utterance (providers/funasr_stt.py).  The caller puts the whole *)
(* utterance into the queue before it reads an event; the runner opens the *)
(* connection at the first chunk, sends, and waits at the flush for the    *)
(* receiver of the segment to see a final.  What the server sends is       *)
(* chosen when it is read.                                                 *)
(***************************************************************************)
EXTENDS FunAsr

CONSTANTS
    MaxChunks,     \* bound: whole chunks of an utterance
    Messages,      \* what the server may send
    MaxAnswers     \* bound: messages read

ASSUME StandaloneAssumption == {MaxChunks, MaxAnswers} \subseteq Nat

VARIABLES
    call,          \* _recognize_impl: where it is
    left,          \* _pending_audio: whole chunks and whether there is a remainder
    runner,        \* _run of the stream: [at, event, result], the item it holds in event
    interim,       \* last_normalized_interim
    opened,        \* connections opened
    given          \* messages read

standaloneVars == <<call, left, runner, interim, opened, given>>

StandaloneInit ==
    /\ call = "push"
    /\ left \in [chunks : 0 .. MaxChunks, tail : BOOLEAN]
    /\ protocol = "local" => left = [chunks |-> 0, tail |-> FALSE]
    /\ runner = Task("get", EndMarker, "none")
    /\ interim = ""
    /\ opened = 0
    /\ given = 0

-----------------------------------------------------------------------------
\* _classify_standalone_message: a message is a type, an error code and a text.
RetryableCodes == {"busy", "inference_failed"}

Classify(m) ==
    CASE m.type \in {"ready", "started"} -> "ignore"
      [] m.type = "error" /\ m.code \in {"no_speech", "empty_text"} -> "no_result"
      [] m.type = "error" /\ m.code \in RetryableCodes -> "retry"
      [] m.type = "final" /\ m.text = "" -> "no_result"
      [] m.type = "final" /\ m.text # "" -> "final"
      [] m.type = "interim" -> "interim"
      [] OTHER -> "error"

-----------------------------------------------------------------------------
\* _recognize_impl

\* The call leaves its try block with a result or an error; aclose follows.
Leaves(o) == outcome' = o /\ call' = "close"

\* The runner waits for the network or has ended: the timers of the others expire only then.
RunnerStuck == runner.at \notin {"get", "close"}

\* _put_audio_wait and _put_marker of the next item: the chunks, the padded remainder,
\* the flush marker.  A chunk is forgotten when it has been put and no error is known.
CallerPuts ==
    /\ call = "push"
    /\ LET audible == left.chunks > 0 \/ left.tail
           item == IF audible THEN Chunk(1) ELSE Marker("flush")
       IN IF ~AudioFull
            THEN /\ audio' = Append(audio, item)
                 /\ UNCHANGED fatal
                 /\ IF audible /\ fatal # "none"
                      THEN Leaves(fatal) /\ UNCHANGED left
                      ELSE /\ left' = IF left.chunks > 0 THEN [left EXCEPT !.chunks = @ - 1]
                                                         ELSE [left EXCEPT !.tail = FALSE]
                           /\ call' = IF audible THEN "push" ELSE "events"
                           /\ UNCHANGED outcome
            ELSE /\ RunnerStuck
                 /\ fatal' = SetFatal("retry")
                 /\ Leaves("retry")
                 /\ UNCHANGED <<audio, left>>
    /\ UNCHANGED <<protocol, events, closed, ended, link, answers, receiver,
                   runner, interim, opened, given>>

\* The next event: interims are passed over, the end raises what is known or a retryable
\* error.
CallerReads ==
    /\ call = "events"
    /\ events # <<>>
    /\ events' = Tail(events)
    /\ CASE Head(events).k = "final" -> Leaves("final")
         [] Head(events) = EndMarker -> Leaves(IF fatal = "none" THEN "retry" ELSE fatal)
         [] OTHER -> UNCHANGED <<call, outcome>>
    /\ UNCHANGED <<protocol, audio, fatal, closed, ended, link, answers, receiver,
                   left, runner, interim, opened, given>>

\* No event within the timeout.
CallerTimesOut ==
    /\ call = "events"
    /\ events = <<>>
    /\ RunnerStuck \/ audio = <<>>
    /\ Leaves("retry")
    /\ UNCHANGED <<protocol, audio, events, fatal, closed, ended, link, answers, receiver,
                   left, runner, interim, opened, given>>

\* The call is cancelled while it waits.  In its finally block see CallerCancelledClosing.
CallerCancelled ==
    /\ \/ call = "push" /\ AudioFull
       \/ call = "events" /\ events = <<>>
    /\ Leaves("cancelled")
    /\ UNCHANGED <<protocol, audio, events, fatal, closed, ended, link, answers, receiver,
                   left, runner, interim, opened, given>>

-----------------------------------------------------------------------------
\* aclose

\* _queue_padded_tail pads what is left to one packet; more than one packet cannot be
\* padded and bytes() raises ValueError.
Unpaddable(rest) == rest.chunks > (IF rest.tail THEN 0 ELSE 1)

\* _close_segment, as the caller of aclose runs it.
SegmentClosed ==
    /\ link' = "none"
    /\ receiver' = Stopped(receiver)

\* The remainder is queued without waiting unless an error is known.
CallerCloses ==
    /\ call = "close"
    /\ closed' = TRUE
    /\ LET rest == left.chunks > 0 \/ left.tail
       IN CASE fatal = "none" /\ Unpaddable(left) ->
                 /\ call' = "done"
                 /\ SegmentClosed
                 /\ UNCHANGED <<audio, fatal>>
            [] fatal = "none" /\ ~Unpaddable(left) /\ rest /\ AudioFull ->
                 /\ fatal' = "retry"
                 /\ call' = "reap"
                 /\ UNCHANGED <<audio, link, receiver>>
            [] OTHER ->
                 /\ audio' = IF fatal = "none" /\ rest THEN Append(audio, Chunk(1)) ELSE audio
                 /\ call' = "mark"
                 /\ UNCHANGED <<fatal, link, receiver>>
    /\ UNCHANGED <<protocol, events, ended, answers, outcome, left, runner, interim, opened, given>>

\* The close marker, within the timeout.
CallerMarks ==
    /\ call = "mark"
    /\ IF ~AudioFull
         THEN audio' = Append(audio, Marker("close")) /\ call' = "wait" /\ UNCHANGED fatal
         ELSE RunnerStuck /\ fatal' = SetFatal("retry") /\ call' = "reap" /\ UNCHANGED audio
    /\ UNCHANGED <<protocol, events, closed, ended, link, answers, receiver, outcome,
                   left, runner, interim, opened, given>>

\* Mutant: the runner is awaited without a timeout.
CallerWaitsForever ==
    /\ call = "wait"
    /\ runner.at = "done"
    /\ call' = "end"
    /\ UNCHANGED <<commonVars, left, runner, interim, opened, given>>

\* wait_for(runner): it ends, or is cancelled when the time is up.
CallerWaits ==
    /\ call = "wait"
    /\ RunnerStuck
    /\ call' = IF runner.at = "done" THEN "end" ELSE "reap"
    /\ UNCHANGED <<commonVars, left, runner, interim, opened, given>>

\* The cancelled runner runs its finally block; one that is in it goes on with it.
RunnerCancelled ==
    runner' = IF runner.at \in {"close", "done"} THEN runner
                                                 ELSE Task("close", EndMarker, "cancelled")

CallerReaps ==
    /\ call = "reap"
    /\ call' = "end"
    /\ RunnerCancelled
    /\ UNCHANGED <<commonVars, left, interim, opened, given>>

\* The call is cancelled in aclose.  At the put of the marker, an await while the queue is
\* full, the cancellation passes the except clause by: the segment is closed, the runner is
\* not cancelled and nobody waits for it.  In wait_for it reaches the runner and is raised
\* when that has ended.  In _cancel_and_wait it is swallowed.
CallerCancelledClosing ==
    /\ \/ /\ call = "mark" /\ AudioFull
          /\ call' = "dropped"
          /\ SegmentClosed
          /\ UNCHANGED runner
       \/ /\ call = "wait" /\ runner.at # "done"
          /\ call' = "leave"
          /\ RunnerCancelled
          /\ UNCHANGED <<link, receiver>>
    /\ outcome' = "cancelled"
    /\ UNCHANGED <<protocol, audio, events, fatal, closed, ended, answers, left, interim,
                   opened, given>>

\* The runner has ended: _close_segment, and _end_events unless a cancellation is raised.
CallerEnds ==
    /\ call \in {"end", "leave"}
    /\ runner.at = "done"
    /\ call' = "done"
    /\ SegmentClosed
    /\ IF call = "end"
         THEN events' = EndEvents(events, ended) /\ ended' = TRUE
         ELSE UNCHANGED <<events, ended>>
    /\ UNCHANGED <<protocol, audio, fatal, closed, answers, outcome, left, runner, interim,
                   opened, given>>

-----------------------------------------------------------------------------
\* _run of the stream

RunnerAt(at) == runner' = [runner EXCEPT !.at = at]

\* An exception leaves the loop: the first error is kept, the finally block follows.
RunnerRaises(e) ==
    /\ fatal' = SetFatal(e)
    /\ runner' = Task("close", EndMarker, "raised")

\* The next item.  Before a chunk is sent, a receiver that has ended is looked at.
RunnerGets ==
    /\ runner.at = "get"
    /\ audio # <<>>
    /\ audio' = Tail(audio)
    /\ LET item == Head(audio)
           holding(at) == runner' = Task(at, item, "none") /\ UNCHANGED fatal
       IN CASE item.k = "pcm" /\ link = "none" -> holding("connect")
            [] item.k = "pcm" /\ link # "none" /\ receiver.result \in Failures ->
                 RunnerRaises(receiver.result)
            [] item.k = "pcm" /\ link # "none" /\ receiver.result \notin Failures -> holding("send")
            [] item.k # "pcm" /\ link # "none" -> holding("finish")
            [] item.k = "flush" /\ link = "none" -> UNCHANGED <<runner, fatal>>
            [] OTHER -> holding("close")
    /\ UNCHANGED <<protocol, events, closed, ended, link, answers, receiver, outcome,
                   call, left, interim, opened, given>>

\* _ensure_segment: connect within the timeout.
RunnerConnects ==
    /\ runner.at = "connect"
    /\ link' = "up"
    /\ opened' = opened + 1
    /\ RunnerAt("hello")
    /\ UNCHANGED <<protocol, audio, events, fatal, closed, ended, answers, receiver, outcome,
                   call, left, interim, given>>

\* The start message, after which the receiver is created, the chunk, the finish.
RunnerSends ==
    /\ runner.at \in {"hello", "send", "finish"}
    /\ link = "up"
    /\ RunnerAt(CASE runner.at = "hello" -> "send"
                  [] runner.at = "send" -> "get"
                  [] OTHER -> "await")
    /\ IF runner.at = "hello"
         THEN receiver' = Task("recv", EndMarker, "none") /\ interim' = ""
         ELSE UNCHANGED <<receiver, interim>>
    /\ UNCHANGED <<protocol, audio, events, fatal, closed, ended, link, answers, outcome,
                   call, left, opened, given>>

\* The connection cannot be opened, or a send fails because it is gone.
RunnerFails(e) ==
    /\ \/ runner.at = "connect"
       \/ runner.at \in {"hello", "send", "finish"} /\ link # "up" /\ e = "retry"
    /\ RunnerRaises(e)
    /\ UNCHANGED <<protocol, audio, events, closed, ended, link, answers, receiver, outcome,
                   call, left, interim, opened, given>>

\* _finish_segment waits for the receiver; a timeout cancels it.
RunnerFinishes ==
    /\ runner.at = "await"
    /\ IF receiver.at = "done"
         THEN CASE receiver.result \in Failures ->
                     RunnerRaises(receiver.result) /\ UNCHANGED <<link, receiver>>
                [] receiver.result = "cancelled" ->
                     RunnerAt("close") /\ UNCHANGED <<fatal, link, receiver>>
                [] OTHER ->
                     /\ SegmentClosed
                     /\ RunnerAt(IF runner.event.k = "close" THEN "close" ELSE "get")
                     /\ UNCHANGED fatal
         ELSE RunnerRaises("retry") /\ receiver' = Stopped(receiver) /\ UNCHANGED link
    /\ UNCHANGED <<protocol, audio, events, closed, ended, answers, outcome,
                   call, left, interim, opened, given>>

\* The finally block of _run: _close_segment, _end_events.
RunnerCloses ==
    /\ runner.at = "close"
    /\ SegmentClosed
    /\ events' = EndEvents(events, ended)
    /\ ended' = TRUE
    /\ runner' = Finished(runner.result)
    /\ UNCHANGED <<protocol, audio, fatal, closed, answers, outcome, call, left, interim,
                   opened, given>>

-----------------------------------------------------------------------------
\* _receive_segment

Receives(e) == receiver' = Task("put", Event(e, 1, 1), "none")

\* A message: an interim that repeats the one before is dropped; a result that is no text
\* becomes an empty final; an error ends the receiver.
SegmentReads(m) ==
    /\ receiver.at = "recv"
    /\ link # "none"
    /\ given < MaxAnswers
    /\ given' = given + 1
    /\ LET kind == Classify(m)
       IN /\ CASE kind = "ignore" -> UNCHANGED receiver
               [] kind \in Failures -> receiver' = Finished(kind)
               [] kind \in {"final", "no_result"} -> Receives("final")
               [] kind = "interim" /\ m.text \in {"", interim} -> UNCHANGED receiver
               [] OTHER -> Receives("interim")
          /\ interim' = IF kind = "interim" /\ m.text # "" THEN m.text ELSE interim
    /\ UNCHANGED <<protocol, audio, events, fatal, closed, ended, link, answers, outcome,
                   call, left, runner, opened>>

\* recv raises: the connection was lost.
SegmentLost ==
    /\ receiver.at = "recv"
    /\ link = "lost"
    /\ receiver' = Finished("retry")
    /\ UNCHANGED <<protocol, audio, events, fatal, closed, ended, link, answers, outcome,
                   standaloneVars>>

\* _put_event: within the timeout, or a BackpressureError while the caller reads nothing.
SegmentPuts ==
    /\ receiver.at = "put"
    /\ IF ~EventsFull
         THEN /\ events' = Append(events, receiver.event)
              /\ receiver' = IF receiver.event.k = "final"
                               THEN Finished("ok")
                               ELSE Task("recv", EndMarker, "none")
         ELSE /\ call # "events"
              /\ receiver' = Finished("retry")
              /\ UNCHANGED events
    /\ UNCHANGED <<protocol, audio, fatal, closed, ended, link, answers, outcome,
                   standaloneVars>>
=============================================================================
