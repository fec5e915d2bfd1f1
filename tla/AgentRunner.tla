---------------------------- MODULE AgentRunner ----------------------------
(***************************************************************************)
(* The agent runner behind one RVA session (agent.py) and the part of the  *)
(* session runtime that starts it, feeds it, watches its terminal future   *)
(* and closes it (bindings/rva/runtime.py).                                *)
(*                                                                         *)
(* Two runners share the contract.  The LiveKit runner owns a bounded PCM  *)
(* input, a PCM output whose segments are delivered by tasks, an           *)
(* AgentSession and a TTS client; its close runs in a task of its own, one *)
(* stage after the other, each under a timer that answers the caller but   *)
(* never abandons the stage.  The deterministic runner answers the third   *)
(* frame with one response task.                                           *)
(*                                                                         *)
(* External: the AgentSession (it reads the input, speaks, fails by        *)
(* itself, and does not finish closing while one of its speeches waits for *)
(* playout), the TTS client, and the delivery of a segment, which the      *)
(* binding owner may refuse.                                               *)
(***************************************************************************)
EXTENDS Naturals, Sequences

CONSTANTS
    InCap,        \* media_queue_frames: PCM frames the input queue holds
    MaxSegments   \* bound: segments the AgentSession flushes

ASSUME RunnerAssumption == InCap \in Nat \ {0} /\ MaxSegments \in Nat \ {0}

Pcm == "pcm"
End == "end"       \* the None that ends RoomlessAudioInput's iteration
None == "none"
Segments == 1 .. MaxSegments

VARIABLES
    kind,      \* the runner create_runner returned
    life,      \* run(): "new", "starting", "running", "closing", "closed"
    terminal,  \* _TerminalState._result
    future,    \* _TerminalState._future: None until someone asks for it
    watcher,   \* _runner_terminal_loop
    queue, shut, sentence,   \* RoomlessAudioInput: _queue, _closed, _closed_terminal
    pusher,    \* the _input_loop inside push_audio
    frames,    \* DeterministicAgentRunner._input_frames, up to the third
    ended,     \* the session has read the end of its input
    session,   \* the AgentSession; "hung": its close ignores everyone
    tts,
    delivery,  \* per segment: its task (or the deterministic response task)
    tasks,     \* RoomlessAudioOutput._tasks: done callback not yet run
    failure,   \* RoomlessAudioOutput._segment_failure
    outShut,   \* RoomlessAudioOutput._closed
    pending,   \* captured playbacks no one has reported finished
    segments,  \* segments flushed so far
    speech,    \* the session's speech, up to the end of wait_for_playout
    awaited,   \* the tasks wait_for_playout gathered
    cut,       \* the session has interrupted this speech
    closer, stage, late,   \* _close_once: its stage, that stage's task, its timer
    failures,  \* the close owner has collected a failure
    result,    \* _close_result
    caller     \* the await of runner.close() in VoiceSessionState

inputVars == <<queue, shut, sentence>>
termVars == <<terminal, future>>
loopVars == <<watcher, pusher, frames>>
taskVars == <<delivery, tasks, failure>>
speechVars == <<speech, awaited, cut, segments, pending, delivery, tasks, failure>>
closeVars == <<closer, stage, late, failures, result, caller>>
vars == <<kind, life, terminal, future, watcher, queue, shut, sentence, pusher, frames,
          ended, session, tts, delivery, tasks, failure, outShut, pending, segments,
          speech, awaited, cut, closer, stage, late, failures, result, caller>>

Init ==
    /\ kind \in {"livekit", "deterministic"}
    /\ life = "new"
    /\ terminal = None /\ future = None
    /\ watcher = "off" /\ pusher = "off" /\ frames = 0
    /\ queue = <<>> /\ shut = FALSE /\ sentence = None
    /\ ended = FALSE /\ session = None
    /\ tts = None
    /\ delivery = [n \in Segments |-> None] /\ tasks = {} /\ failure = FALSE
    /\ outShut = FALSE /\ pending = 0 /\ segments = 0
    /\ speech = None /\ awaited = {} /\ cut = FALSE
    /\ closer = None /\ stage = None /\ late = FALSE
    /\ failures = FALSE /\ result = None /\ caller = None

----------------------------------------------------------------------------
(* The terminal future.                                                    *)

\* publish: the first result wins and completes a future somebody holds.
Publish(k) ==
    /\ terminal' = IF terminal = None THEN k ELSE terminal
    /\ future' = IF terminal = None /\ future = "pending" THEN k ELSE future

\* Mutant: the future is created without looking for an earlier result.
AskFutureFresh == future' = IF future = None THEN "pending" ELSE future

\* The future property: created on first use, complete if a result exists.
AskFuture ==
    future' = IF future # None THEN future
              ELSE IF terminal = None THEN "pending" ELSE terminal

----------------------------------------------------------------------------
(* RoomlessAudioInput.                                                     *)

\* Mutant: close ends the queue without draining it.
InputCloseUndrained(k) ==
    /\ sentence' = IF k = None THEN sentence ELSE k
    /\ shut' = TRUE
    /\ queue' = IF shut THEN queue ELSE Append(queue, End)

\* close: the latest terminal is remembered; the first close drains the queue
\* and leaves only the end marker.
InputClose(k) ==
    /\ sentence' = IF k = None THEN sentence ELSE k
    /\ shut' = TRUE
    /\ queue' = IF shut THEN queue ELSE <<End>>

\* What a closed input answers to a push: the terminal error, or silence.
Refused == IF sentence = None THEN "idle" ELSE "terminated"

\* push_audio of the LiveKit runner, up to its first suspension.
PushAudio ==
    /\ kind = "livekit" /\ pusher = "idle"
    /\ IF shut THEN pusher' = Refused /\ UNCHANGED queue
       ELSE IF Len(queue) < InCap THEN queue' = Append(queue, Pcm) /\ UNCHANGED pusher
       ELSE pusher' = "waiting" /\ UNCHANGED queue
    /\ UNCHANGED <<kind, life, termVars, watcher, shut, sentence, frames, ended, session, tts,
                   speechVars, outShut, closeVars>>

\* The roomless-input-put task finds room; close may have made it.
PutLands ==
    /\ pusher = "waiting" /\ Len(queue) < InCap
    /\ queue' = Append(queue, Pcm)
    /\ pusher' = "put"
    /\ UNCHANGED <<kind, life, termVars, watcher, shut, sentence, frames, ended, session,
                   tts, speechVars, outShut, closeVars>>

\* push resumes: the input was closed, or the frame is in.
PushResumes ==
    /\ pusher \in {"waiting", "put"}
    /\ shut \/ pusher = "put"
    /\ pusher' = IF shut THEN Refused ELSE "idle"
    /\ UNCHANGED <<kind, life, termVars, watcher, inputVars, frames, ended, session, tts,
                   speechVars, outShut, closeVars>>

\* Neither happened within the queue timeout (overloaded) or within the
\* freshness budget of _input_loop (stale): the loop fails.
PushTimesOut ==
    /\ pusher = "waiting" /\ ~shut
    /\ pusher' = "overloaded"
    /\ UNCHANGED <<kind, life, termVars, watcher, inputVars, frames, ended, session, tts,
                   speechVars, outShut, closeVars>>

\* __anext__: the session reads a frame, or learns that the input has ended.
SessionReads ==
    /\ session = "live" /\ ~ended /\ queue # <<>>
    /\ queue' = Tail(queue)
    /\ ended' = (Head(queue) = End)
    /\ UNCHANGED <<kind, life, termVars, loopVars, shut, sentence, session, tts,
                   speechVars, outShut, closeVars>>

----------------------------------------------------------------------------
(* Start.                                                                  *)

\* start up to the TTS client it creates first.
TtsCreated ==
    /\ kind = "livekit" /\ life = "new"
    /\ tts' = "open"
    /\ life' = "starting"
    /\ UNCHANGED <<kind, termVars, loopVars, inputVars, ended, session, speechVars, outShut,
                   closeVars>>

\* start up to the await of session.start(): the AgentSession is built,
\* observed and held.
SessionBuilt ==
    /\ life = "starting" /\ session = None
    /\ session' = "live"
    /\ UNCHANGED <<kind, life, termVars, loopVars, inputVars, ended, tts, speechVars, outShut,
                   closeVars>>

\* start returns and run() creates its loops.
Started ==
    /\ \/ life = "starting" /\ session # None
       \/ kind = "deterministic" /\ life = "new"
    /\ life' = "running" /\ watcher' = "new" /\ pusher' = "idle"
    /\ UNCHANGED <<kind, termVars, inputVars, frames, ended, session, tts, speechVars,
                   outShut, closeVars>>

\* create_tts, what builds the session or session.start() raises, or start
\* exceeds its time.
StartFails ==
    /\ kind = "livekit" /\ life \in {"new", "starting"}
    /\ life' = "closing"
    /\ UNCHANGED <<kind, termVars, loopVars, inputVars, ended, session, tts, speechVars,
                   outShut, closeVars>>

----------------------------------------------------------------------------
(* The watcher, and how run() ends.                                        *)

WatcherStarts ==
    /\ watcher = "new"
    /\ AskFuture
    /\ watcher' = "waiting"
    /\ UNCHANGED <<kind, life, terminal, inputVars, pusher, frames, ended, session, tts,
                   speechVars, outShut, closeVars>>

\* _runner_terminal_loop: an owner's close ends it; a failure locks the close
\* cause, notifies the device (best effort) and raises.
WatcherWakes ==
    /\ watcher = "waiting" /\ future \in {"owner", "runtime"}
    /\ watcher' = IF future = "owner" THEN "returned" ELSE "notifying"
    /\ UNCHANGED <<kind, life, termVars, inputVars, pusher, frames, ended, session, tts,
                   speechVars, outShut, closeVars>>

WatcherRaises ==
    /\ watcher = "notifying"
    /\ watcher' = "raised"
    /\ UNCHANGED <<kind, life, termVars, inputVars, pusher, frames, ended, session, tts,
                   speechVars, outShut, closeVars>>

\* _close_impl's first step: every loop is cancelled and awaited.
CancelLoops ==
    /\ life' = "closing"
    /\ watcher' = "off" /\ pusher' = "off"
    /\ UNCHANGED <<kind, termVars, inputVars, frames, ended, session, tts, speechVars,
                   outShut, closeVars>>

\* A loop of run() has ended.
RunEnds ==
    /\ life = "running"
    /\ watcher \in {"raised", "returned"} \/ pusher \in {"terminated", "overloaded"}
    /\ CancelLoops

\* The device leaves, the lease ends, or any other loop fails.
RunStopped == life = "running" /\ CancelLoops

----------------------------------------------------------------------------
(* The output and the session's speeches.                                  *)

\* A new speech, or more of the speech whose playout nobody awaits yet.
\* capture_frame and flush: a delivery task for the segment, one playback to
\* be finished.  A closed output swallows both.
Speak ==
    /\ session = "live" /\ speech \in {None, "flushed"} /\ ~cut
    /\ segments < MaxSegments
    /\ segments' = segments + 1
    /\ IF outShut THEN UNCHANGED <<delivery, tasks, pending, speech>>
       ELSE /\ delivery' = [delivery EXCEPT ![segments'] = "run"]
            /\ tasks' = tasks \union {segments'}
            /\ pending' = pending + 1 /\ speech' = "flushed"
    /\ UNCHANGED <<kind, life, termVars, loopVars, inputVars, ended, session, tts,
                   failure, outShut, awaited, cut, closeVars>>

\* The binding owner takes the segment, or refuses it.
DeliveryEnds(n, how) ==
    /\ delivery[n] = "run"
    /\ delivery' = [delivery EXCEPT ![n] = how]
    /\ UNCHANGED <<kind, life, termVars, loopVars, inputVars, ended, session, tts,
                   tasks, failure, outShut, pending, segments, speech, awaited, cut, closeVars>>

Delivered(n) == DeliveryEnds(n, "ok")

DeliveryFails(n) == DeliveryEnds(n, "failed")

\* Mutant: the callback reports the failure and forgets it.
DeliveryDoneForgets(n) ==
    /\ n \in tasks /\ delivery[n] # "run"
    /\ tasks' = tasks \ {n}
    /\ IF delivery[n] = "failed"
       THEN /\ Publish("runtime")
            /\ IF kind = "livekit" THEN InputClose("runtime") ELSE UNCHANGED inputVars
       ELSE UNCHANGED <<termVars, inputVars>>
    /\ UNCHANGED <<kind, life, loopVars, ended, session, tts, delivery, failure, outShut,
                   pending, segments, speech, awaited, cut, closeVars>>

\* The done callback, in a later iteration of the loop: _on_segment_task_done
\* with _handle_output_failure, or the deterministic runner's _response_done.
DeliveryDone(n) ==
    /\ n \in tasks /\ delivery[n] # "run"
    /\ tasks' = tasks \ {n}
    /\ failure' = (failure \/ delivery[n] = "failed")
    /\ IF delivery[n] = "failed"
       THEN /\ Publish("runtime")
            /\ IF kind = "livekit" THEN InputClose("runtime") ELSE UNCHANGED inputVars
       ELSE UNCHANGED <<termVars, inputVars>>
    /\ UNCHANGED <<kind, life, loopVars, ended, session, tts, delivery, outShut, pending,
                   segments, speech, awaited, cut, closeVars>>

\* wait_for_playout is called: it gathers the tasks whose callback has not run.
WaitForPlayout ==
    /\ speech = "flushed"
    /\ speech' = "segments" /\ awaited' = tasks
    /\ UNCHANGED <<kind, life, termVars, loopVars, inputVars, ended, session, tts,
                   taskVars, outShut, pending, segments, cut, closeVars>>

\* What gather has seen: the done callback of the output runs before its own.
Gathered(how) == \E n \in awaited \ tasks : delivery[n] = how

\* gather returns, at the first task that failed or was cancelled or when all
\* are done.  A cancellation that is not the output's own close is re-raised, a
\* failure of any segment so far raises, otherwise response_end is requested
\* and the playout awaited.
SegmentsDone ==
    /\ speech = "segments"
    /\ (awaited \intersect tasks # {}) => (Gathered("failed") \/ Gathered("cancelled"))
    /\ failure' = (failure \/ Gathered("failed"))
    /\ speech' = IF failure' \/ (Gathered("cancelled") /\ ~outShut) THEN None ELSE "playing"
    /\ awaited' = {} /\ cut' = (cut /\ speech' # None)
    /\ UNCHANGED <<kind, life, termVars, loopVars, inputVars, ended, session, tts,
                   delivery, tasks, outShut, pending, segments, closeVars>>

\* The tasks of the set that still run are cancelled.
CancelDeliveries(ns) ==
    delivery' = [n \in Segments |-> IF n \in ns /\ delivery[n] = "run" THEN "cancelled"
                                    ELSE delivery[n]]

\* The session interrupts its speech: the wait is cancelled, with it every task
\* it gathered; the session waits for what is left of the playout once more.
SpeechInterrupted ==
    /\ session = "live" /\ speech \in {"segments", "playing"} /\ ~cut
    /\ CancelDeliveries(awaited)
    /\ speech' = "flushed" /\ awaited' = {} /\ cut' = TRUE
    /\ UNCHANGED <<kind, life, termVars, loopVars, inputVars, ended, session, tts,
                   tasks, failure, outShut, pending, segments, closeVars>>

\* runner.playback_finished: the endpoint's playback.ended reached the runtime.
PlaybackFinished ==
    /\ kind = "livekit" /\ life = "running" /\ pending > 0
    /\ pending' = pending - 1
    /\ UNCHANGED <<kind, life, termVars, loopVars, inputVars, ended, session, tts,
                   taskVars, outShut, segments, speech, awaited, cut, closeVars>>

\* wait_for_playout returns and the producer epoch moves on.
PlayoutReturns ==
    /\ speech = "playing" /\ pending = 0
    /\ speech' = None /\ cut' = FALSE
    /\ UNCHANGED <<kind, life, termVars, loopVars, inputVars, ended, session, tts,
                   taskVars, outShut, pending, segments, awaited, closeVars>>

----------------------------------------------------------------------------
(* The end of the AgentSession.                                            *)

\* It decides by itself to close (an unrecoverable provider error).
SessionFails ==
    /\ session = "live"
    /\ session' \in {"closing", "hung"}
    /\ UNCHANGED <<kind, life, termVars, loopVars, inputVars, ended, tts, speechVars,
                   outShut, closeVars>>

\* Its close is over when no speech waits for playout; the close event runs
\* _handle_session_close.
SessionClosed ==
    /\ session = "closing" /\ speech = None
    /\ session' = "closed"
    /\ IF closer # None /\ closer # "begin"
       THEN Publish("owner") /\ UNCHANGED inputVars
       ELSE InputClose("runtime") /\ Publish("runtime")
    /\ UNCHANGED <<kind, life, loopVars, ended, tts, speechVars, outShut, closeVars>>

----------------------------------------------------------------------------
(* close().                                                                *)

\* VoiceSessionState awaits runner.close(): the first call creates the owner
\* task and the result everybody awaits.
CallClose ==
    /\ life = "closing" /\ caller = None
    /\ caller' = "waiting" /\ result' = "pending" /\ closer' = "begin"
    /\ UNCHANGED <<kind, life, termVars, loopVars, inputVars, ended, session, tts,
                   speechVars, outShut, stage, late, failures>>

\* The deterministic close cancels a response task that still runs and waits
\* for it; one that is done, callback run or not, is left alone.
DeterministicClose ==
    /\ kind = "deterministic" /\ closer = "begin"
    /\ \E n \in tasks : delivery[n] = "run"
    /\ CancelDeliveries(tasks)
    /\ closer' = "reap"
    /\ UNCHANGED <<kind, life, termVars, loopVars, inputVars, ended, session, tts, tasks,
                   failure, outShut, pending, segments, speech, awaited, cut, stage, late,
                   failures, result, caller>>

DeterministicClosed ==
    /\ \/ closer = "reap" /\ tasks = {}
       \/ kind = "deterministic" /\ closer = "begin" /\ \A n \in tasks : delivery[n] # "run"
    /\ Publish("owner")
    /\ closer' = "done" /\ result' = "ok"
    /\ UNCHANGED <<kind, life, loopVars, inputVars, ended, session, tts, speechVars,
                   outShut, stage, late, failures, caller>>

\* Mutant: the session is closed before the output.
AfterBeginSwapped ==
    IF session # None THEN "session" ELSE "output"

\* The stages of _close_once in their order; one without a resource is skipped.
AfterBegin == "output"

After(s) ==
    CASE s = "output" /\ session # None -> "session"
      [] s = "tts" \/ tts = None -> "done"
      [] OTHER -> "tts"

\* _close_once up to its first await.
CloseBegins ==
    /\ kind = "livekit" /\ closer = "begin"
    /\ Publish("owner")
    /\ InputClose(None)
    /\ closer' = AfterBegin /\ stage' = "new"
    /\ UNCHANGED <<kind, life, loopVars, ended, session, tts, speechVars, outShut, late,
                   failures, result, caller>>

\* RoomlessAudioOutput.close: cancel the delivery tasks and wait for them.
OutputStage ==
    /\ closer = "output" /\ stage = "new"
    /\ outShut' = TRUE
    /\ CancelDeliveries(tasks)
    /\ stage' = "run"
    /\ UNCHANGED <<kind, life, termVars, loopVars, inputVars, ended, session, tts, tasks,
                   failure, pending, segments, speech, awaited, cut, closer, late, failures,
                   result, caller>>

\* With the tasks gone every pending playback is reported interrupted; what
\* listens to a report may raise, and the rest is not reported.
OutputClosed ==
    /\ closer = "output" /\ stage = "run" /\ tasks = {}
    /\ \/ pending' = 0 /\ stage' = "ok"
       \/ pending > 0 /\ pending' \in 0 .. (pending - 1) /\ stage' = "bad"
    /\ UNCHANGED <<kind, life, termVars, loopVars, inputVars, ended, session, tts,
                   taskVars, outShut, segments, speech, awaited, cut, closer, late, failures,
                   result, caller>>

\* session.aclose(), by the owner.
SessionStage ==
    /\ closer = "session" /\ stage = "new"
    /\ IF session = "live" THEN session' \in {"closing", "hung"} ELSE UNCHANGED session
    /\ stage' = "run"
    /\ UNCHANGED <<kind, life, termVars, loopVars, inputVars, ended, tts, speechVars,
                   outShut, closer, late, failures, result, caller>>

SessionStageDone ==
    /\ closer = "session" /\ stage = "run" /\ session = "closed"
    /\ stage' \in {"ok", "bad"}
    /\ UNCHANGED <<kind, life, termVars, loopVars, inputVars, ended, session, tts,
                   speechVars, outShut, closer, late, failures, result, caller>>

\* tts.aclose(), which returns or raises.
TtsStage ==
    /\ closer = "tts" /\ stage = "new"
    /\ tts' = "closed"
    /\ stage' \in {"ok", "bad"}
    /\ UNCHANGED <<kind, life, termVars, loopVars, inputVars, ended, session,
                   speechVars, outShut, closer, late, failures, result, caller>>

\* _publish_close_failure: the caller is answered, once.
Answered == IF result = "pending" THEN "bad" ELSE result

\* Mutant: a stage that times out leaves the answer to the end.
StageTimerSilent ==
    /\ stage \in {"new", "run"} /\ ~late
    /\ late' = TRUE
    /\ UNCHANGED <<kind, life, termVars, loopVars, inputVars, ended, session, tts,
                   speechVars, outShut, closer, stage, failures, result, caller>>

\* _close_stage: its timer expires; the failure is published and the stage is
\* still awaited.
StageTimer ==
    /\ stage \in {"new", "run"} /\ ~late
    /\ late' = TRUE
    /\ result' = Answered
    /\ UNCHANGED <<kind, life, termVars, loopVars, inputVars, ended, session, tts,
                   speechVars, outShut, closer, stage, failures, caller>>

\* Mutant: the stage that timed out is abandoned.
StageOver == stage \in {"ok", "bad"} \/ late

\* The task of the stage is done.
StageFinished == stage \in {"ok", "bad"}

\* The result after a stage: the failures so far, or at the end a success.
ResultAfter(failed, over) ==
    IF failed THEN Answered ELSE IF over /\ result = "pending" THEN "ok" ELSE result

\* The end of a stage and the start of the next, or of everything.
StageEnds ==
    /\ closer \in {"output", "session", "tts"} /\ StageFinished
    /\ failures' = (failures \/ stage = "bad")
    /\ closer' = After(closer)
    /\ stage' = IF closer' = "done" THEN None ELSE "new"
    /\ late' = FALSE
    /\ result' = ResultAfter(failures', closer' = "done")
    /\ UNCHANGED <<kind, life, termVars, loopVars, inputVars, ended, session, tts,
                   speechVars, outShut, caller>>

CallerAnswered ==
    /\ caller = "waiting" /\ result \in {"ok", "bad"}
    /\ caller' = result /\ life' = "closed"
    /\ UNCHANGED <<kind, termVars, loopVars, inputVars, ended, session, tts,
                   speechVars, outShut, closer, stage, late, failures, result>>

\* VoiceSessionState's own deadline: the caller leaves, the owner is retained.
CallerCancelled ==
    /\ caller = "waiting"
    /\ caller' = "cancelled" /\ life' = "closed"
    /\ UNCHANGED <<kind, termVars, loopVars, inputVars, ended, session, tts,
                   speechVars, outShut, closer, stage, late, failures, result>>

----------------------------------------------------------------------------
(* The deterministic runner.                                               *)

\* push_audio: the third frame starts the only response.
DeterministicPush ==
    /\ kind = "deterministic" /\ pusher = "idle" /\ frames < 3
    /\ frames' = frames + 1
    /\ IF frames' = 3
       THEN /\ segments' = 1
            /\ delivery' = [delivery EXCEPT ![1] = "run"]
            /\ tasks' = tasks \union {1}
       ELSE UNCHANGED <<segments, delivery, tasks>>
    /\ UNCHANGED <<kind, life, termVars, watcher, inputVars, pusher, ended, session, tts,
                   failure, outShut, pending, speech, awaited, cut, closeVars>>

----------------------------------------------------------------------------
\* What the worker's event loop and its timers run without anyone's help.
Internal ==
    \/ WatcherStarts \/ WatcherWakes \/ WatcherRaises \/ RunEnds
    \/ \E n \in Segments : DeliveryDone(n)
    \/ SegmentsDone \/ WaitForPlayout \/ PlayoutReturns
    \/ CallClose \/ CloseBegins \/ DeterministicClose \/ DeterministicClosed
    \/ OutputStage \/ OutputClosed \/ SessionStage \/ SessionStageDone \/ TtsStage
    \/ StageTimer \/ StageEnds \/ CallerAnswered

\* The AgentSession, the endpoint, the media and the failures around them; the
\* input loop is here because nothing is claimed of its progress.
World ==
    \/ PutLands \/ PushResumes
    \/ PushAudio \/ DeterministicPush \/ PushTimesOut \/ SessionReads
    \/ TtsCreated \/ SessionBuilt \/ Started \/ StartFails \/ RunStopped
    \/ Speak \/ SpeechInterrupted \/ PlaybackFinished
    \/ \E n \in Segments : Delivered(n) \/ DeliveryFails(n)
    \/ SessionFails \/ SessionClosed \/ CallerCancelled

Next == Internal \/ World

\* The event loop runs whatever is ready and timers expire; a session that is
\* not hung finishes the close it began.
Spec == Init /\ [][Next]_vars /\ WF_vars(Internal) /\ WF_vars(SessionClosed)

----------------------------------------------------------------------------
(* Properties.                                                             *)

\* Types, and the bound of the input queue: draining before the end marker
\* is written keeps the queue within its capacity even with a push waiting.
TypeOK ==
    /\ kind \in {"livekit", "deterministic"}
    /\ life \in {"new", "starting", "running", "closing", "closed"}
    /\ terminal \in {None, "owner", "runtime"}
    /\ future \in {None, "pending", "owner", "runtime"}
    /\ watcher \in {"off", "new", "waiting", "notifying", "raised", "returned"}
    /\ pusher \in {"off", "idle", "waiting", "put", "terminated", "overloaded"}
    /\ queue \in Seq({Pcm, End}) /\ Len(queue) <= InCap
    /\ shut \in BOOLEAN /\ sentence \in {None, "runtime"}
    /\ frames \in 0..3 /\ ended \in BOOLEAN
    /\ session \in {None, "live", "closing", "hung", "closed"}
    /\ tts \in {None, "open", "closed"}
    /\ delivery \in [Segments -> {None, "run", "ok", "failed", "cancelled"}]
    /\ tasks \subseteq Segments /\ awaited \subseteq Segments
    /\ failure \in BOOLEAN /\ outShut \in BOOLEAN
    /\ pending \in 0..MaxSegments /\ segments \in 0..MaxSegments
    /\ speech \in {None, "flushed", "segments", "playing"} /\ cut \in BOOLEAN
    /\ closer \in {None, "begin", "reap", "output", "session", "tts", "done"}
    /\ stage \in {None, "new", "run", "ok", "bad"} /\ late \in BOOLEAN
    /\ failures \in BOOLEAN /\ result \in {None, "pending", "ok", "bad"}
    /\ caller \in {None, "waiting", "ok", "bad", "cancelled"}

\* No PCM reaches a session whose input was closed: the first thing it can
\* still read is the end marker, whatever a blocked push does afterwards
\* (RoomlessAudioInput.close against push).
NoPcmAfterClose == shut /\ ~ended => queue # <<>> /\ Head(queue) = End

\* The TTS client is closed only after the session that uses it, although the
\* caller of close() has long been answered (_close_stage awaits the task its
\* timer gave up on).
TtsOutlivesSession == tts = "closed" => session \in {None, "closed"}

\* Nobody holds a future that says less than the runner knows: once a result is
\* published every future is complete with the first one, whether it was asked
\* for before or after (_TerminalState.publish, future).
FutureComplete == future # None => future = (IF terminal = None THEN "pending" ELSE terminal)

\* Whoever awaits the close result has an owner that still owes it: no path out
\* of _close_once, with or without failed or late stages, leaves it pending.
AnswerOwed == caller = "waiting" => result # None /\ (result = "pending" => closer # "done")

\* response_end is requested only when no segment flushed so far is still on its
\* way to the binding owner or was refused by it, whether the refusal met the
\* wait, came before it or belongs to an earlier speech, unless the output
\* itself is being closed (wait_for_playout, whose gather sees only the tasks
\* that are left, and the done callback that takes them away).
EndMeansDelivered ==
    [][speech = "segments" /\ speech' = "playing"
        => outShut \/ \A n \in Segments : delivery[n] \notin {"run", "failed"}]_vars

\* A runner that fails ends the session that runs it, even when it failed
\* before the terminal loop first asked for the future (_TerminalState.future).
FailureSeen == (terminal = "runtime" /\ life = "running") ~> (life # "running")

\* Whoever awaits close() is answered, hung session or not (_close_stage's
\* timer publishes the failure).
CloseAnswered == (caller = "waiting") ~> (caller # "waiting")

\* Closing releases the session and the TTS client, unless the session's own
\* close hangs or the output's close raised with playbacks still unreported:
\* the output is closed first, so no speech keeps waiting for a playout the
\* endpoint will never report.
ResourcesReleased ==
    (life = "closing")
        ~> \/ session \in {None, "closed"} /\ tts # "open"
           \/ session = "hung"
           \/ failures /\ pending > 0

============================================================================
