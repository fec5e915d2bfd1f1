---------------------------- MODULE AgentProofs ----------------------------
(***************************************************************************)
(* The agent runner, proved for any queue capacity and any number of       *)
(* segments: a closed input yields nothing but its end, a response is      *)
(* ended only when its segments are delivered, the close stages run in     *)
(* order, and a result once published is the one every holder of the       *)
(* future sees.                                                            *)
(*                                                                         *)
(* The input, the terminal future and the close owner share no state       *)
(* except through Publish and InputClose, so each part of the invariant is *)
(* inductive beside TypeOK alone, and those two operators are shown to     *)
(* keep theirs once.                                                       *)
(***************************************************************************)
EXTENDS AgentRunner, TLAPS

\* At most one playback per segment is pending.
Counted == pending <= segments

\* What _tasks and _segment_failure say of the deliveries: a delivery under way
\* is among the tasks, a refused one is among them or recorded, and a waiting
\* speech has gathered whatever is left of them.
Deliveries ==
    /\ \A n \in Segments : delivery[n] = "run" => n \in tasks
    /\ \A n \in Segments : delivery[n] = "failed" => n \in tasks \/ failure
    /\ speech = "segments" => tasks \subseteq awaited
    /\ kind = "deterministic" => life # "starting" /\ session = None /\ speech = None /\ pending = 0

\* What run() and _close_once have done by the time the owner reaches a stage.
StagesInOrder ==
    /\ life = "new" => session = None
    /\ tts = None => session = None
    /\ life = "starting" => tts # None
    /\ closer # None => life \in {"closing", "closed"}
    /\ closer = "session" => session # None
    /\ closer = "session" /\ stage \in {"ok", "bad"} => session = "closed"
    /\ closer = "tts" => session \in {None, "closed"}
    /\ tts = "closed" => closer \in {"tts", "done"} /\ session \in {None, "closed"}

\* A caller and an owner come together; the owner has a stage only between its
\* first and its last await.
OwnerStages ==
    /\ caller = None => closer = None
    /\ closer = None => result = None
    /\ closer \in {None, "begin", "reap", "done"} => stage = None

Inv == TypeOK /\ Counted /\ Deliveries /\ NoPcmAfterClose /\ FutureComplete /\ StagesInOrder /\ OwnerStages /\ AnswerOwed

----------------------------------------------------------------------------
(* The operators several actions share.                                    *)

\* RoomlessAudioInput.close keeps the queue within its capacity and leaves the
\* end marker in front of whatever follows.
LEMMA InputCloseKeeps ==
    ASSUME TypeOK, NoPcmAfterClose, NEW k \in {None, "runtime"}, InputClose(k), UNCHANGED ended
    PROVE  /\ queue' \in Seq({Pcm, End}) /\ Len(queue') <= InCap
           /\ shut' \in BOOLEAN /\ sentence' \in {None, "runtime"}
           /\ NoPcmAfterClose'
<1>1. CASE shut
    BY <1>1 DEF TypeOK, NoPcmAfterClose, InputClose
<1>2. CASE ~shut
    <2>1. <<End>> \in Seq({Pcm, End}) /\ Len(<<End>>) = 1 /\ <<End>> # <<>> /\ Head(<<End>>) = End
        BY DEF End, Pcm
    <2> QED
        BY <1>2, <2>1, RunnerAssumption DEF TypeOK, NoPcmAfterClose, InputClose
<1> QED
    BY <1>1, <1>2 DEF TypeOK

\* _TerminalState.publish completes the future with the result it keeps.
LEMMA PublishKeeps ==
    ASSUME TypeOK, FutureComplete, NEW k \in {"owner", "runtime"}, Publish(k)
    PROVE  /\ terminal' \in {None, "owner", "runtime"}
           /\ future' \in {None, "pending", "owner", "runtime"}
           /\ FutureComplete'
BY DEF TypeOK, FutureComplete, Publish, None

----------------------------------------------------------------------------
\* The runner is created idle.
LEMMA InvInit == Init => Inv
<1> SUFFICES ASSUME Init PROVE Inv
    OBVIOUS
<1>1. <<>> \in Seq({Pcm, End}) /\ Len(<<>>) = 0
    OBVIOUS
<1>2. 0 \in 0 .. 3 /\ 0 \in 0 .. MaxSegments /\ 0 <= InCap
    BY RunnerAssumption
<1>3. TypeOK
    BY <1>1, <1>2 DEF Init, TypeOK, None
<1>4. Counted /\ Deliveries /\ NoPcmAfterClose /\ FutureComplete /\ StagesInOrder /\ OwnerStages /\ AnswerOwed
    BY DEF Init, Counted, Deliveries, NoPcmAfterClose, FutureComplete, StagesInOrder, OwnerStages, AnswerOwed, None
<1> QED
    BY <1>3, <1>4 DEF Inv

\* Every step of the runner and of the world around it keeps the invariant.
LEMMA InvStep ==
    ASSUME Inv, [Next]_vars
    PROVE  Inv'
<1> USE RunnerAssumption
    DEF Inv, TypeOK, Counted, Deliveries, NoPcmAfterClose, FutureComplete, StagesInOrder, OwnerStages, AnswerOwed,
        None, Pcm, End, Segments, inputVars, termVars, loopVars, taskVars, speechVars, closeVars
<1>1. CASE PutLands
    BY <1>1 DEF PutLands
<1>2. CASE PushResumes
    BY <1>2 DEF PushResumes, Refused
<1>3. CASE WatcherStarts
    BY <1>3 DEF WatcherStarts, AskFuture
<1>4. CASE WatcherWakes
    BY <1>4 DEF WatcherWakes
<1>5. CASE WatcherRaises
    BY <1>5 DEF WatcherRaises
<1>6. CASE RunEnds
    BY <1>6 DEF RunEnds, CancelLoops
<1>7. ASSUME NEW n \in Segments, DeliveryDone(n) PROVE Inv'
    <2>1. InputClose("runtime") \/ UNCHANGED inputVars
        BY <1>7 DEF DeliveryDone
    <2>2. TypeOK' /\ NoPcmAfterClose'
        BY <1>7, <2>1, InputCloseKeeps, PublishKeeps DEF DeliveryDone
    <2>3. FutureComplete'
        BY <1>7, PublishKeeps DEF DeliveryDone
    <2>4. Deliveries'
        BY <1>7 DEF DeliveryDone
    <2>5. Counted' /\ StagesInOrder' /\ OwnerStages' /\ AnswerOwed'
        BY <1>7 DEF DeliveryDone
    <2> QED
        BY <2>2, <2>3, <2>4, <2>5
<1>8. CASE SegmentsDone
    BY <1>8 DEF SegmentsDone, Gathered
<1>9. CASE WaitForPlayout
    BY <1>9 DEF WaitForPlayout
<1>10. CASE PlayoutReturns
    <2>1. TypeOK'
        <3>1. cut' \in BOOLEAN
            BY <1>10 DEF PlayoutReturns
        <3> QED
            BY <1>10, <3>1 DEF PlayoutReturns
    <2>2. Deliveries'
        BY <1>10 DEF PlayoutReturns
    <2>3. Counted' /\ NoPcmAfterClose' /\ FutureComplete' /\ StagesInOrder' /\ OwnerStages' /\ AnswerOwed'
        BY <1>10 DEF PlayoutReturns
    <2> QED
        BY <2>1, <2>2, <2>3
<1>11. CASE CallClose
    BY <1>11 DEF CallClose
<1>12. CASE CloseBegins
    <2>1. TypeOK' /\ NoPcmAfterClose' /\ FutureComplete'
        BY <1>12, InputCloseKeeps, PublishKeeps DEF CloseBegins, AfterBegin
    <2>2. Counted' /\ Deliveries' /\ StagesInOrder' /\ OwnerStages' /\ AnswerOwed'
        BY <1>12 DEF CloseBegins, AfterBegin
    <2> QED
        BY <2>1, <2>2
<1>13. CASE DeterministicClose
    BY <1>13 DEF DeterministicClose, CancelDeliveries
<1>14. CASE DeterministicClosed
    BY <1>14 DEF DeterministicClosed, Publish
<1>15. CASE OutputStage
    BY <1>15 DEF OutputStage, CancelDeliveries
<1>16. CASE OutputClosed
    BY <1>16 DEF OutputClosed
<1>17. CASE SessionStage
    BY <1>17 DEF SessionStage
<1>18. CASE SessionStageDone
    BY <1>18 DEF SessionStageDone
<1>19. CASE TtsStage
    BY <1>19 DEF TtsStage
<1>20. CASE StageTimer
    BY <1>20 DEF StageTimer, Answered
<1>21. CASE StageEnds
    <2>1. closer' \in {"session", "tts", "done"}
        BY <1>21 DEF StageEnds, After
    <2>2. /\ closer' = "session" => session # None
          /\ closer' = "tts" => session \in {None, "closed"}
          /\ tts = "closed" => closer' \in {"tts", "done"}
        BY <1>21 DEF StageEnds, After, StageFinished
    <2>3. TypeOK' /\ NoPcmAfterClose' /\ FutureComplete' /\ Counted' /\ Deliveries'
        <3>1. failures' \in BOOLEAN
            BY <1>21 DEF StageEnds
        <3>2. result' \in {None, "pending", "ok", "bad"}
            BY <1>21 DEF StageEnds, ResultAfter, Answered
        <3>3. stage' \in {None, "new"} /\ late' \in BOOLEAN
            BY <1>21 DEF StageEnds
        <3> QED
            BY <1>21, <2>1, <3>1, <3>2, <3>3 DEF StageEnds
    <2>4. StagesInOrder'
        BY <1>21, <2>1, <2>2 DEF StageEnds
    <2>5. OwnerStages' /\ AnswerOwed'
        BY <1>21, <2>1 DEF StageEnds, ResultAfter, Answered
    <2> QED
        BY <2>3, <2>4, <2>5
<1>22. CASE CallerAnswered
    BY <1>22 DEF CallerAnswered
<1>23. CASE PushAudio
    <2>1. TypeOK'
        <3>1. queue' \in Seq({Pcm, End}) /\ Len(queue') <= InCap
            BY <1>23 DEF PushAudio
        <3>2. pusher' \in {"idle", "waiting", "terminated"}
            BY <1>23 DEF PushAudio, Refused
        <3> QED
            BY <1>23, <3>1, <3>2 DEF PushAudio
    <2>2. Deliveries'
        BY <1>23 DEF PushAudio, Refused
    <2>3. Counted' /\ NoPcmAfterClose' /\ FutureComplete' /\ StagesInOrder' /\ OwnerStages' /\ AnswerOwed'
        BY <1>23 DEF PushAudio, Refused
    <2> QED
        BY <2>1, <2>2, <2>3
<1>24. CASE DeterministicPush
    <2>1. TypeOK'
        <3>1. segments' \in 0 .. MaxSegments
            BY <1>24 DEF DeterministicPush
        <3>3. tasks' = tasks \/ tasks' = tasks \union {1}
            BY <1>24 DEF DeterministicPush
        <3>4. 1 \in Segments
            OBVIOUS
        <3>5. tasks' \subseteq Segments
            BY <3>3, <3>4, Zenon
        <3>2. delivery' \in [Segments -> {None, "run", "ok", "failed", "cancelled"}]
            BY <1>24 DEF DeterministicPush
        <3> QED
            BY <1>24, <3>1, <3>2, <3>5 DEF DeterministicPush
    <2>2. Deliveries'
        BY <1>24 DEF DeterministicPush
    <2>3. Counted' /\ NoPcmAfterClose' /\ FutureComplete' /\ StagesInOrder' /\ OwnerStages' /\ AnswerOwed'
        BY <1>24 DEF DeterministicPush
    <2> QED
        BY <2>1, <2>2, <2>3
<1>25. CASE PushTimesOut
    BY <1>25 DEF PushTimesOut
<1>26. CASE SessionReads
    BY <1>26 DEF SessionReads
<1>27. CASE TtsCreated
    BY <1>27 DEF TtsCreated
<1>28. CASE Started
    BY <1>28 DEF Started
<1>29. CASE StartFails
    BY <1>29 DEF StartFails
<1>30. CASE RunStopped
    BY <1>30 DEF RunStopped, CancelLoops
<1>31. CASE Speak
    <2>1. TypeOK'
        <3>1. segments' \in 0 .. MaxSegments /\ segments' \in Segments
            BY <1>31 DEF Speak
        <3>4. pending' \in 0 .. MaxSegments
            BY <1>31 DEF Speak
        <3>5. tasks' = tasks \/ tasks' = tasks \union {segments'}
            BY <1>31 DEF Speak
        <3>6. tasks' \subseteq Segments
            BY <3>1, <3>5
        <3>2. delivery' \in [Segments -> {None, "run", "ok", "failed", "cancelled"}]
            BY <1>31 DEF Speak
        <3>3. speech' \in {None, "flushed", "segments", "playing"}
            BY <1>31 DEF Speak
        <3> QED
            BY <1>31, <3>1, <3>2, <3>3, <3>4, <3>6 DEF Speak
    <2>2. Deliveries'
        BY <1>31 DEF Speak
    <2>3. Counted' /\ NoPcmAfterClose' /\ FutureComplete' /\ StagesInOrder' /\ OwnerStages' /\ AnswerOwed'
        BY <1>31 DEF Speak
    <2> QED
        BY <2>1, <2>2, <2>3
<1>32. ASSUME NEW n \in Segments, Delivered(n) PROVE Inv'
    BY <1>32 DEF Delivered, DeliveryEnds
<1>33. ASSUME NEW n \in Segments, DeliveryFails(n) PROVE Inv'
    BY <1>33 DEF DeliveryFails, DeliveryEnds
<1>34. CASE PlaybackFinished
    BY <1>34 DEF PlaybackFinished
<1>35. CASE SessionFails
    BY <1>35 DEF SessionFails
<1>36. CASE SessionClosed
    <2>1. TypeOK' /\ NoPcmAfterClose' /\ FutureComplete'
        BY <1>36, InputCloseKeeps, PublishKeeps DEF SessionClosed
    <2>2. Counted' /\ Deliveries' /\ StagesInOrder' /\ OwnerStages' /\ AnswerOwed'
        BY <1>36 DEF SessionClosed
    <2> QED
        BY <2>1, <2>2
<1>37. CASE CallerCancelled
    BY <1>37 DEF CallerCancelled
<1>38. CASE SessionBuilt
    BY <1>38 DEF SessionBuilt
<1>39. CASE SpeechInterrupted
    BY <1>39 DEF SpeechInterrupted, CancelDeliveries
<1>40. CASE UNCHANGED vars
    BY <1>40 DEF vars
<1> QED
    BY <1>1, <1>2, <1>3, <1>4, <1>5, <1>6, <1>7, <1>8, <1>9, <1>10, <1>11, <1>12, <1>13, <1>14, <1>15, <1>16, <1>17, <1>18, <1>19, <1>20, <1>21, <1>22, <1>23, <1>24, <1>25, <1>26, <1>27, <1>28, <1>29, <1>30, <1>31, <1>32, <1>33, <1>34, <1>35, <1>36, <1>37, <1>38, <1>39, <1>40 DEF Next, Internal, World

----------------------------------------------------------------------------
(* The theorems.                                                           *)

\* The inductive invariant holds in every reachable state.
LEMMA InvAlways == Spec => []Inv
BY InvInit, InvStep, PTL DEF Spec

\* The runner's types; the input queue never holds more than its capacity,
\* although the drain of close() lets a blocked push land behind the end marker
\* (RoomlessAudioInput).
THEOREM RunnerTyped == Spec => []TypeOK
BY InvAlways, PTL DEF Inv

\* Whatever a blocked push does after close(), the first thing the session can
\* still read is the end of its input (RoomlessAudioInput.push, close, __anext__).
THEOREM ClosedInputSilent == Spec => []NoPcmAfterClose
BY InvAlways, PTL DEF Inv

\* The TTS client is never closed under a session that may still use it, even
\* when timers answered the caller of close() stages ago (_close_once).
THEOREM TtsClosedLast == Spec => []TtsOutlivesSession
<1>1. Inv => TtsOutlivesSession
    BY DEF Inv, StagesInOrder, TtsOutlivesSession
<1> QED
    BY <1>1, InvAlways, PTL

\* A future is complete exactly when a result is published, in whatever order
\* it is asked for, published and published again (_TerminalState).
THEOREM FutureNeverStale == Spec => []FutureComplete
BY InvAlways, PTL DEF Inv

\* The close owner never finishes without answering, whichever of its stages
\* failed or were given up on (_close_once, _publish_close_failure).
THEOREM CloseOwesAnswer == Spec => []AnswerOwed
BY InvAlways, PTL DEF Inv

\* wait_for_playout asks for the response's end only when no segment of this or
\* an earlier speech is still under way or was refused, or while the output is
\* being closed.  The gather sees the tasks the done callback has not taken away;
\* the failures it took away are the ones it recorded (Deliveries).
THEOREM EndAfterDelivery == Spec => EndMeansDelivered
<1> DEFINE Asks == speech = "segments" /\ speech' = "playing"
                   => outShut \/ \A n \in Segments : delivery[n] \notin {"run", "failed"}
<1>1. ASSUME Inv, [Next]_vars PROVE [Asks]_vars
    <2>1. CASE SegmentsDone
        <3> SUFFICES ASSUME speech' = "playing", ~outShut, NEW n \in Segments
                     PROVE  delivery[n] \notin {"run", "failed"}
            OBVIOUS
        <3>1. ~failure /\ ~Gathered("failed") /\ ~Gathered("cancelled")
            BY <2>1, <1>1 DEF SegmentsDone, None, Inv, TypeOK
        <3>2. tasks = {}
            BY <3>1, <2>1, <1>1 DEF SegmentsDone, Inv, Deliveries
        <3> QED
            BY <3>1, <3>2, <1>1 DEF Inv, Deliveries
    <2>2. CASE UNCHANGED speech
        BY <2>2
    <2>3. SegmentsDone \/ UNCHANGED speech \/ Speak \/ SpeechInterrupted \/ WaitForPlayout \/ PlayoutReturns
        BY <1>1 DEF Next, Internal, World, vars, speechVars, PutLands, PushResumes, WatcherStarts, WatcherWakes, WatcherRaises, RunEnds, DeliveryDone, CallClose, CloseBegins, DeterministicClose, DeterministicClosed, OutputStage, OutputClosed, SessionStage, SessionStageDone, TtsStage, StageTimer, StageEnds, CallerAnswered, PushAudio, DeterministicPush, PushTimesOut, SessionReads, TtsCreated, SessionBuilt, Started, StartFails, RunStopped, DeliveryEnds, Delivered, DeliveryFails, PlaybackFinished, SessionFails, SessionClosed, CallerCancelled, CancelLoops
    <2> QED
        BY <2>1, <2>2, <2>3 DEF Speak, SpeechInterrupted, WaitForPlayout, PlayoutReturns, None
<1> QED
    BY <1>1, InvAlways, PTL DEF Spec, EndMeansDelivered

============================================================================
