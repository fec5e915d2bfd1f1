----------------------------- MODULE Recognition -----------------------------
(***************************************************************************)
(* Speech recognition with FunASR: one LiveKit call over either transport, *)
(* the local streaming one or the standalone one, chosen in the initial    *)
(* state.                                                                  *)
(***************************************************************************)
EXTENDS FunAsrLocal, FunAsrStandalone

vars == <<commonVars, localVars, standaloneVars>>

Init == CommonInit /\ LocalInit /\ StandaloneInit

\* What the user, LiveKit and the server do.
LocalWorld ==
    \/ \E chunk, rest \in BOOLEAN : Push(chunk, rest)
    \/ Flush
    \/ EndOfInput
    \/ RunCancelled
    \/ RunCancelledLeaving
    \/ StartOk
    \/ SenderSend
    \/ Garbage

\* What the tasks of the stream and their timers do.
LocalSteps ==
    \/ \E e \in Failures : StartFails(e)
    \/ FlushPut
    \/ FlushTimeout
    \/ Aclose
    \/ SenderGet
    \/ SenderFails
    \/ ReceiverReads
    \/ ReceiverPuts
    \/ ReceiverFails
    \/ ConsumerReads
    \/ RunWakes
    \/ RunDrained
    \/ RunCloses
    \/ RunClosed
    \/ RunStops
    \/ RunStopped

StandaloneWorld ==
    \/ CallerCancelled
    \/ CallerCancelledClosing
    \/ RunnerConnects
    \/ RunnerSends
    \/ \E m \in Messages : SegmentReads(m)

StandaloneSteps ==
    \/ CallerPuts
    \/ CallerReads
    \/ CallerTimesOut
    \/ CallerCloses
    \/ CallerMarks
    \/ CallerWaits
    \/ CallerReaps
    \/ CallerEnds
    \/ RunnerGets
    \/ \E e \in Failures : RunnerFails(e)
    \/ RunnerFinishes
    \/ RunnerCloses
    \/ SegmentLost
    \/ SegmentPuts

Steps ==
    \/ protocol = "local" /\ LocalSteps /\ UNCHANGED standaloneVars
    \/ protocol = "standalone" /\ StandaloneSteps /\ UNCHANGED localVars

Next ==
    \/ Steps
    \/ protocol = "local" /\ LocalWorld /\ UNCHANGED standaloneVars
    \/ protocol = "standalone" /\ StandaloneWorld /\ UNCHANGED localVars
    \/ LinkLost /\ UNCHANGED <<localVars, standaloneVars>>

\* The event loop runs what can run and its timers expire; nothing is promised about the
\* server, the network or the user.
Spec == Init /\ [][Next]_vars /\ WF_vars(Steps)

-----------------------------------------------------------------------------
\* Types, and the bounds of the queues: the marker that ends the events makes room for
\* itself in a full queue (_end_events).
TypeOK ==
    /\ Len(audio) <= AudioCap
    /\ \A i \in DOMAIN audio : audio[i].k \in {"pcm", "flush", "close"}
    /\ Len(events) <= EventCap
    /\ \A i \in DOMAIN events : events[i].k \in {"interim", "final", "end"}
    /\ fatal \in {"none", "retry", "error"}
    /\ closed \in BOOLEAN
    /\ ended \in BOOLEAN
    /\ link \in {"none", "up", "lost"}
    /\ receiver.at \in {"off", "recv", "put", "done"}
    /\ outcome \in {"none", "ok", "final", "retry", "error", "cancelled"}
    /\ segs \in [active : 1 .. MaxSegments + 1, finalizing : 0 .. MaxSegments + 1,
                 needsNew : BOOLEAN]
    /\ closer.at \in {"none", "tail", "mark", "wait", "reap", "hangup", "done"}
    /\ run \in {"start", "wait", "drain", "stop", "stopping", "close", "closing", "cancel",
                "cancelling", "done"}
    /\ call \in {"push", "events", "close", "mark", "wait", "reap", "end", "leave", "dropped",
                 "done"}
    /\ runner.at \in {"get", "connect", "hello", "send", "finish", "await", "close", "done"}

\* A final of the local transport is labelled with the segment it was recognised from, also
\* when the user has gone on speaking before it came (_parse_message, flush).
FinalNamesItsSegment ==
    \A i \in DOMAIN events : events[i].k = "final" => events[i].seg = events[i].of

\* The stream is off the wire: no task uses the connection, which was told to close.
HungUp ==
    /\ Ended(receiver)
    /\ link = "none"
    /\ IF protocol = "local" THEN Ended(sender) ELSE Ended(runner)

\* Nor are the tasks of the adapter left, which only the local transport has.
Gone == HungUp /\ (protocol = "local" => Ended(input) /\ Ended(consumer))

Returned == IF protocol = "local" THEN run = "done" ELSE call \in {"done", "dropped"}

\* A cancellation came through the close itself: through the aclose that _run awaits in its
\* finally block, or at the put of the close marker under _recognize_impl.
CloseCutShort ==
    IF protocol = "local" THEN closer.by = "run" /\ closer.cancelled ELSE call = "dropped"

\* aclose raises because what a cancelled call left over cannot be padded.
CloseRaised == protocol = "standalone" /\ outcome = "cancelled" /\ Unpaddable(left)

\* When the call has returned, no task of the stream is left and its connection is closed,
\* whoever ran aclose and whether the call was cancelled before the close, in the awaits of
\* _cancel_and_wait, or while a task that is in aclose was awaited.  A cancellation that
\* comes through the close itself leaves the tasks of the local adapter behind, but never
\* its sender, receiver or connection; it and the close that raises leave the standalone
\* runner behind (aclose, _run, _recognize_impl).
Released ==
    Returned => /\ CloseCutShort \/ CloseRaised \/ Gone
                /\ protocol = "local" => HungUp

\* The same without exceptions.  It does not hold: a cancellation skips the rest of _run's
\* finally block, passes aclose's except clause by at the put of the close marker, and aclose
\* pads what is left with a negative count, raises, and never reaches the runner.
CancelledReleased == Returned => Gone

\* A rejection the provider means for good is not handed to LiveKit as an error to retry.
\* It does not hold: the lost connection or the timeout that follows is retryable.
FatalNotRetried ==
    [][receiver.result = "error" /\ outcome = "none" => outcome' # "retry"]_vars

Leaving == protocol = "standalone" \/ fatal # "none" \/ closed \/ outcome # "none"

\* Once a call has failed, is being closed or was cancelled, it returns, even when the
\* server never answers and never reads again: every wait of the way out is bounded
\* (aclose, _run, _recognize_impl).
Ends == Leaving ~> Returned
=============================================================================
