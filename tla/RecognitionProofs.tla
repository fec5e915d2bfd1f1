------------------------- MODULE RecognitionProofs -------------------------
(***************************************************************************)
(* Speech recognition, proved for any queue capacity, any number of        *)
(* pushes, flushes, chunks and answers and any messages of the server: the *)
(* queues keep their bounds, a call that returned left nothing behind, and *)
(* a final names the segment it was recognised from.                       *)
(*                                                                         *)
(* The two transports share only the variables of FunAsr, and the protocol *)
(* is chosen once, so each has an invariant of its own beside the types.   *)
(* The labels of the local one rest on where the flush that is due has got *)
(* to: its marker not yet put, on its way behind the audio of its segment, *)
(* or answered and not yet read.                                           *)
(***************************************************************************)
EXTENDS Recognition, TLAPS

----------------------------------------------------------------------------
(* Types.                                                                  *)

ItemRec == [k : {"pcm", "flush", "close"}, seg : Nat]
EventRec == [k : {"interim", "final", "end"}, seg : Nat, of : Nat]
AnswerRec == [k : {"online", "empty", "offline"}, seg : Nat, of : Nat]
Results == {"none", "ok", "retry", "error", "failed", "cancelled", "raised"}
ReceiverRec == [at : {"off", "recv", "put", "done"}, event : EventRec, result : Results]
SenderRec == [at : {"off", "get", "send", "done"}, event : ItemRec \cup {EndMarker}, result : Results]
RunnerRec == [at : {"get", "connect", "hello", "send", "finish", "await", "close", "done"},
              event : ItemRec \cup {EndMarker}, result : Results]
CloserRec == [by : {"none", "input", "run"}, cancelled : BOOLEAN,
              at : {"none", "tail", "mark", "wait", "reap", "hangup", "done"}]
SegsRec == [active : Nat, finalizing : Nat, needsNew : BOOLEAN]
LeftRec == [chunks : Nat, tail : BOOLEAN]
PartRec == [at : {"off", "read", "flush", "close", "done"}, result : Results]

CommonShape ==
    /\ protocol \in {"local", "standalone"}
    /\ audio \in Seq(ItemRec) /\ Len(audio) <= AudioCap
    /\ events \in Seq(EventRec) /\ Len(events) <= EventCap
    /\ answers \in Seq(AnswerRec)
    /\ fatal \in {"none", "retry", "error"} /\ closed \in BOOLEAN /\ ended \in BOOLEAN
    /\ link \in {"none", "up", "lost"}
    /\ receiver \in ReceiverRec
    /\ outcome \in {"none", "ok", "final", "retry", "error", "cancelled"}

LocalShape ==
    /\ segs \in SegsRec
    /\ heard \in Nat /\ pending \in BOOLEAN
    /\ sender \in SenderRec
    /\ input \in PartRec /\ consumer \in PartRec
    /\ closer \in CloserRec
    /\ run \in {"start", "wait", "drain", "stop", "stopping", "close", "closing", "cancel",
                "cancelling", "done"}
    /\ flushes \in 0 .. MaxSegments

StandaloneShape ==
    /\ call \in {"push", "events", "close", "mark", "wait", "reap", "end", "leave", "dropped", "done"}
    /\ left \in LeftRec
    /\ runner \in RunnerRec

\* What the sending and the one-shot task hold while they send it is an item.
Holding == sender.at = "send" => sender.event \in ItemRec
\* Results of tasks that _run and _recognize_impl hand on.
Handed ==
    /\ input.result \in {"none", "ok", "retry", "error", "cancelled"}
    /\ consumer.at \in {"off", "read", "done"}
    /\ consumer.result \in {"none", "ok", "retry", "error", "cancelled"}
\* A new segment begins after a flush.
Numbered ==
    /\ segs.active >= 1 /\ segs.finalizing <= flushes + 1
    /\ segs.active <= flushes + 1
    /\ segs.needsNew => segs.active <= flushes

Shape == CommonShape /\ LocalShape /\ StandaloneShape /\ Holding /\ Handed /\ Numbered

----------------------------------------------------------------------------
(* The way out.                                                            *)

\* The local stream: its tasks start together; aclose is run once, by the input task or
\* by _run, and has ended the tasks before it hangs up.  _run leaves the input and the
\* events task behind only when its own aclose was cancelled.
NotStarted == Ended(sender) /\ Ended(receiver) /\ Ended(consumer) /\ link = "none" /\ closer.at = "none"
WayOut ==
    /\ run = "start" => input.at = "off" /\ ~closed
    /\ input.at = "off" => NotStarted /\ sender.at = "off" /\ receiver.at = "off"
    /\ (input.at = "close") <=> (closer.by = "input" /\ closer.at # "done")
    /\ closer.at # "none" => closed
    /\ (closer.at = "none") <=> (closer.by = "none")
    /\ closed /\ input.at # "off" => closer.at # "none"
    /\ closer.by = "run" /\ closer.at # "done" => run = "closing"
    /\ run = "closing" => closer.by = "run"
    /\ closer.at \in {"hangup", "done"} => Ended(sender) /\ Ended(receiver)
    /\ closer.at = "done" => link = "none"
    /\ run \in {"cancel", "cancelling", "done"} => closed
    /\ run = "done" => (Ended(input) /\ Ended(consumer)) \/ (closer.by = "run" /\ closer.cancelled)

LocalReleased == protocol = "local" => WayOut

\* The one-shot call: the runner closes its segment before it ends, and the call waits for
\* it unless what is left cannot be padded or it is dropped at the close marker.
CallerWay ==
    /\ runner.at = "done" => Ended(receiver) /\ link = "none"
    /\ call \in {"push", "events"} => outcome = "none"
    /\ call = "events" => ~Unpaddable(left)
    /\ call = "close" => outcome = "cancelled" \/ fatal # "none" \/ ~Unpaddable(left)
    /\ call = "done" => runner.at = "done" \/ (outcome = "cancelled" /\ Unpaddable(left))

StandaloneReleased == protocol = "standalone" => CallerWay

----------------------------------------------------------------------------
(* Labels.                                                                 *)

Final == segs.finalizing
Label == IF Final # 0 THEN Final ELSE segs.active

Live == sender.at \in {"get", "send"}
CutHeld == sender.at = "send" /\ sender.event.k = "flush"
CutQueued == \E j \in DOMAIN audio : audio[j].k = "flush"
Cut == CutHeld \/ CutQueued
CutBehind(i) == \E j \in DOMAIN audio : j > i /\ audio[j].k = "flush"
Replied == \E i \in DOMAIN answers : answers[i].k # "online"
ReplyBefore(i) == \E j \in DOMAIN answers : j < i /\ answers[j].k # "online"

\* A flush whose marker has not been put (and perhaps never will be).
Unput == Final # 0 /\ ~Cut /\ ~Replied

\* What has been handed on names its segment.
Named ==
    /\ \A i \in DOMAIN events : events[i].k = "final" => events[i].seg = events[i].of
    /\ receiver.at = "put" /\ receiver.event.k = "final" => receiver.event.seg = receiver.event.of

Fresh == run = "start" => audio = <<>> /\ answers = <<>> /\ heard = 0 /\ ~pending
                          /\ segs = [active |-> 1, finalizing |-> 0, needsNew |-> FALSE]

\* A remainder belongs to the segment that is active; a flush that nothing was pushed
\* after finalises that segment; the task in flush() finds no final of its own.
Segments ==
    /\ pending => ~segs.needsNew
    /\ Final # 0 /\ segs.needsNew => Final = segs.active
    /\ input.at = "flush" => segs.needsNew
    /\ input.at = "flush" /\ Replied => closed
    /\ input.at = "flush" => \A i \in DOMAIN answers : answers[i].k # "online" => ~ReplyBefore(i)

\* The close marker is put by aclose.
CloseMeans ==
    /\ \A j \in DOMAIN audio : audio[j].k = "close" => closed
    /\ sender.at = "send" /\ sender.event.k = "close" => closed

\* What the receiver has still to read: the first offline answer is the one of the flush,
\* a second one can only be that of the close marker.
Replies ==
    /\ \A i \in DOMAIN answers :
         answers[i].k = "offline" => answers[i].of = IF ReplyBefore(i) THEN segs.active ELSE Label
    /\ \A i \in DOMAIN answers : answers[i].k # "online" /\ ReplyBefore(i) => closed
    /\ Replied /\ Final = 0 => closed

\* Where a flush that is due has got to: its marker not put, on its way, or answered.
Marks ==
    /\ \A i, j \in DOMAIN audio : audio[i].k = "flush" /\ audio[j].k = "flush" => i = j
    /\ CutHeld => ~CutQueued
    /\ Cut => Final # 0 /\ ~Replied /\ input.at # "flush"
    /\ \A i, j \in DOMAIN answers : answers[i].k # "online" /\ answers[j].k # "online" => i = j
    /\ Replied => Final # 0 /\ input.at # "flush"
    /\ Unput => segs.needsNew /\ input.at \in {"flush", "done"}
    /\ input.at = "flush" => Final # 0

\* The audio that is on its way, and the audio the server holds: of the segment that is
\* being finalised when the marker is behind it, of the active one when it is not.
Spoken ==
    /\ \A i \in DOMAIN audio : audio[i].k = "pcm" =>
         /\ audio[i].seg = IF CutBehind(i) THEN Final ELSE segs.active
         /\ segs.needsNew => CutBehind(i) \/ Unput
    /\ sender.at = "send" /\ sender.event.k = "pcm" =>
         /\ sender.event.seg = IF CutQueued THEN Final ELSE segs.active
         /\ segs.needsNew => CutQueued \/ Unput
    /\ heard # 0 =>
         /\ heard = IF Cut THEN Final ELSE segs.active
         /\ segs.needsNew => Cut \/ Unput

Sent == Live => Marks /\ Spoken

Order == Fresh /\ Segments /\ CloseMeans /\ Replies /\ Sent

Labels == protocol = "local" => Order

\* Sequences by index.
LEMMA SeqFacts ==
    ASSUME NEW S, NEW s \in Seq(S)
    PROVE  /\ Len(s) \in Nat /\ DOMAIN s = 1 .. Len(s)
           /\ \A x \in S : /\ Append(s, x) \in Seq(S) /\ Len(Append(s, x)) = Len(s) + 1
                           /\ \A i \in 1 .. Len(s) : Append(s, x)[i] = s[i]
                           /\ Append(s, x)[Len(s) + 1] = x
           /\ s # <<>> => /\ Tail(s) \in Seq(S) /\ Len(Tail(s)) = Len(s) - 1 /\ Head(s) \in S
                          /\ Head(s) = s[1]
                          /\ \A i \in 1 .. Len(Tail(s)) : Tail(s)[i] = s[i + 1]
           /\ \A i \in 1 .. Len(s) : s[i] \in S
           /\ (s = <<>>) <=> (Len(s) = 0)
OBVIOUS

\* What the constructors make.
LEMMA Made ==
    /\ EndMarker \in EventRec
    /\ \A k \in {"pcm", "flush", "close"} : Marker(k) \in ItemRec
    /\ \A s \in Nat : Chunk(s) \in ItemRec
    /\ \A k \in {"interim", "final", "end"}, s, o \in Nat : Event(k, s, o) \in EventRec
    /\ \A k \in {"online", "empty", "offline"}, s, o \in Nat : Event(k, s, o) \in AnswerRec
BY DEF EndMarker, EventRec, ItemRec, AnswerRec, Marker, Chunk, Event

\* _end_events makes room for the marker: the queue stays within its bound.
LEMMA EndEventsOK ==
    ASSUME CommonShape, NEW d \in BOOLEAN
    PROVE  EndEvents(events, d) \in Seq(EventRec) /\ Len(EndEvents(events, d)) <= EventCap
<1>1. EventCap \in Nat /\ EventCap > 0
    BY AudioCapAssumption DEF EventCap
<1>2. events \in Seq(EventRec) /\ Len(events) <= EventCap /\ EndMarker \in EventRec
    BY Made DEF CommonShape
<1>3. CASE Len(events) >= EventCap
    <2>1. events # <<>>
        BY <1>1, <1>2, <1>3
    <2> QED
        BY <1>1, <1>2, <1>3, <2>1 DEF EndEvents
<1>4. CASE Len(events) < EventCap
    BY <1>1, <1>2, <1>4 DEF EndEvents
<1> QED
    BY <1>1, <1>2, <1>3, <1>4

\* A task record is what Task was given.
LEMMA TaskFacts ==
    /\ \A at, e, r : Task(at, e, r).at = at /\ Task(at, e, r).event = e /\ Task(at, e, r).result = r
    /\ \A at \in {"off", "recv", "put", "done"}, e \in EventRec, r \in Results : Task(at, e, r) \in ReceiverRec
    /\ \A at \in {"off", "get", "send", "done"}, e \in ItemRec \cup {EndMarker}, r \in Results : Task(at, e, r) \in SenderRec
    /\ \A at \in {"get", "connect", "hello", "send", "finish", "await", "close", "done"},
          e \in ItemRec \cup {EndMarker}, r \in Results : Task(at, e, r) \in RunnerRec
BY DEF Task, ReceiverRec, SenderRec, RunnerRec

\* What the receiver becomes.
LEMMA ReceiverKit ==
    /\ \A e \in EventRec : Task("recv", e, "none") \in ReceiverRec /\ Task("put", e, "none") \in ReceiverRec
    /\ \A r \in Results : Finished(r) \in ReceiverRec
    /\ \A t \in ReceiverRec : Stopped(t) \in ReceiverRec
    /\ NoTask \in ReceiverRec
<1>1. EndMarker \in EventRec
    BY Made
<1> QED
    BY <1>1, TaskFacts DEF Finished, Stopped, NoTask, Results

\* What the sending task becomes.
LEMMA SenderKit ==
    /\ \A e \in ItemRec : Task("send", e, "none") \in SenderRec
    /\ Task("get", EndMarker, "none") \in SenderRec
    /\ \A r \in Results : Finished(r) \in SenderRec
    /\ \A t \in SenderRec : Stopped(t) \in SenderRec
    /\ NoTask \in SenderRec
BY TaskFacts DEF Finished, Stopped, NoTask, Results

\* What the one-shot runner becomes.
LEMMA RunnerKit ==
    /\ \A e \in ItemRec, at \in {"connect", "send", "finish", "close"} : Task(at, e, "none") \in RunnerRec
    /\ Task("close", EndMarker, "raised") \in RunnerRec /\ Task("close", EndMarker, "cancelled") \in RunnerRec
    /\ Task("get", EndMarker, "none") \in RunnerRec
    /\ \A r \in Results : Finished(r) \in RunnerRec
    /\ \A t \in RunnerRec : \A at \in {"get", "hello", "send", "await", "close"} : [t EXCEPT !.at = at] \in RunnerRec
<1>1. \A t \in RunnerRec : \A at \in {"get", "hello", "send", "await", "close"} : [t EXCEPT !.at = at] \in RunnerRec
    BY DEF RunnerRec
<1> QED
    BY <1>1, TaskFacts DEF Finished, Results

\* The two tasks of the adapter.
LEMMA PartKit ==
    \A at \in {"off", "read", "flush", "close", "done"}, r \in Results :
        Part(at, r) \in PartRec /\ Part(at, r).at = at /\ Part(at, r).result = r
BY DEF Part, PartRec

\* The stages of aclose.
LEMMA CloserKit ==
    /\ \A c \in CloserRec : \A at \in {"mark", "wait", "reap", "hangup", "done"} : [c EXCEPT !.at = at] \in CloserRec
    /\ \A c \in CloserRec : [c EXCEPT !.at = "reap", !.cancelled = TRUE] \in CloserRec
    /\ \A c \in CloserRec : \A b \in BOOLEAN : [c EXCEPT !.cancelled = b] \in CloserRec
    /\ \A c \in CloserRec : c.cancelled \in BOOLEAN
    /\ \A by \in {"input", "run"}, at \in {"tail", "mark"} :
          [by |-> by, at |-> at, cancelled |-> FALSE] \in CloserRec
BY DEF CloserRec

\* A cancellation inside aclose moves it on to its finally block or leaves it where it is.
LEMMA CancelledCloser ==
    ASSUME closer \in CloserRec, AcloseCancelled
    PROVE  /\ closer' \in CloserRec /\ closer'.by = closer.by
           /\ closer.at \in {"tail", "mark", "wait"} => closer'.at = "reap"
           /\ closer.at \notin {"tail", "mark", "wait"} => closer'.at = closer.at
           /\ closer.cancelled => closer'.cancelled
<1>1. CASE closer.at \in {"tail", "mark", "wait"}
    <2>1. closer' = [closer EXCEPT !.at = "reap", !.cancelled = TRUE]
        BY <1>1 DEF AcloseCancelled
    <2> QED
        BY <1>1, <2>1 DEF CloserRec
<1>2. CASE closer.at \notin {"tail", "mark", "wait"}
    <2>1. PICK b \in BOOLEAN : closer' = [closer EXCEPT !.cancelled = b] /\ (closer.cancelled => b)
        <3>1. closer' = [closer EXCEPT !.cancelled = closer.cancelled \/ closer.at = "hangup"]
            BY <1>2 DEF AcloseCancelled
        <3>2. (closer.cancelled \/ closer.at = "hangup") \in BOOLEAN
            OBVIOUS
        <3> QED
            BY <3>1, <3>2
    <2> QED
        BY <1>2, <2>1 DEF CloserRec
<1> QED
    BY <1>1, <1>2

\* The queues within their bounds.
LEMMA QueueKit ==
    ASSUME CommonShape
    PROVE  /\ \A x \in ItemRec : ~AudioFull => Append(audio, x) \in Seq(ItemRec) /\ Len(Append(audio, x)) <= AudioCap
           /\ audio # <<>> => Head(audio) \in ItemRec /\ Tail(audio) \in Seq(ItemRec) /\ Len(Tail(audio)) <= AudioCap
           /\ \A x \in EventRec : ~EventsFull => Append(events, x) \in Seq(EventRec) /\ Len(Append(events, x)) <= EventCap
           /\ events # <<>> => Head(events) \in EventRec /\ Tail(events) \in Seq(EventRec) /\ Len(Tail(events)) <= EventCap
           /\ EndEvents(events, ended) \in Seq(EventRec) /\ Len(EndEvents(events, ended)) <= EventCap
           /\ answers # <<>> => Head(answers) \in AnswerRec /\ Tail(answers) \in Seq(AnswerRec)
           /\ \A e \in {"none", "retry", "error"} : SetFatal(e) \in {"none", "retry", "error"}
<1>1. AudioCap \in Nat /\ EventCap \in Nat
    BY AudioCapAssumption DEF EventCap
<1>2. /\ audio \in Seq(ItemRec) /\ Len(audio) <= AudioCap /\ events \in Seq(EventRec) /\ Len(events) <= EventCap
      /\ answers \in Seq(AnswerRec) /\ ended \in BOOLEAN /\ fatal \in {"none", "retry", "error"}
    BY DEF CommonShape
<1>3. \A x \in ItemRec : ~AudioFull => Append(audio, x) \in Seq(ItemRec) /\ Len(Append(audio, x)) <= AudioCap
    BY <1>1, <1>2 DEF AudioFull
<1>4. \A x \in EventRec : ~EventsFull => Append(events, x) \in Seq(EventRec) /\ Len(Append(events, x)) <= EventCap
    BY <1>1, <1>2 DEF EventsFull
<1>5. audio # <<>> => Head(audio) \in ItemRec /\ Tail(audio) \in Seq(ItemRec) /\ Len(Tail(audio)) <= AudioCap
    BY <1>1, <1>2
<1>6. events # <<>> => Head(events) \in EventRec /\ Tail(events) \in Seq(EventRec) /\ Len(Tail(events)) <= EventCap
    BY <1>1, <1>2
<1>7. EndEvents(events, ended) \in Seq(EventRec) /\ Len(EndEvents(events, ended)) <= EventCap
    BY <1>2, EndEventsOK
<1>8. answers # <<>> => Head(answers) \in AnswerRec /\ Tail(answers) \in Seq(AnswerRec)
    BY <1>2
<1>9. \A e \in {"none", "retry", "error"} : SetFatal(e) \in {"none", "retry", "error"}
    BY <1>2 DEF SetFatal
<1> QED
    BY <1>3, <1>4, <1>5, <1>6, <1>7, <1>8, <1>9

\* The numbers of the segments.
LEMMA SegFields ==
    ASSUME NEW s \in SegsRec
    PROVE  s.active \in Nat /\ s.finalizing \in Nat /\ s.needsNew \in BOOLEAN
BY DEF SegsRec

\* Every way the code assigns them: the segment after a push, a flush that is
\* begun, given up on, or answered.
LEMMA SegsMade ==
    ASSUME NEW s \in SegsRec, NEW t
    PROVE  /\ t = [s EXCEPT !.finalizing = 0] =>
                t \in SegsRec /\ t.active = s.active /\ t.finalizing = 0 /\ t.needsNew = s.needsNew
           /\ t = [s EXCEPT !.finalizing = 0, !.needsNew = FALSE] =>
                t \in SegsRec /\ t.active = s.active /\ t.finalizing = 0 /\ t.needsNew = FALSE
           /\ t = [s EXCEPT !.finalizing = s.active, !.needsNew = TRUE] =>
                t \in SegsRec /\ t.active = s.active /\ t.finalizing = s.active /\ t.needsNew = TRUE
           /\ \A n \in Nat : t = [s EXCEPT !.active = n, !.needsNew = FALSE] =>
                t \in SegsRec /\ t.active = n /\ t.finalizing = s.finalizing /\ t.needsNew = FALSE
<1>1. \A u \in SegsRec : /\ [u EXCEPT !.needsNew = FALSE] \in SegsRec /\ [u EXCEPT !.needsNew = TRUE] \in SegsRec
                       /\ \A n \in Nat : [u EXCEPT !.finalizing = n] \in SegsRec /\ [u EXCEPT !.active = n] \in SegsRec
    BY DEF SegsRec
<1>2. \A u \in SegsRec : /\ u.active \in Nat
                       /\ DOMAIN u = {"active", "finalizing", "needsNew"}
    BY DEF SegsRec
<1>3. ASSUME t = [s EXCEPT !.finalizing = 0]
      PROVE  t \in SegsRec /\ t.active = s.active /\ t.finalizing = 0 /\ t.needsNew = s.needsNew
    BY <1>1, <1>2, <1>3
<1>4. ASSUME t = [s EXCEPT !.finalizing = 0, !.needsNew = FALSE]
      PROVE  t \in SegsRec /\ t.active = s.active /\ t.finalizing = 0 /\ t.needsNew = FALSE
    <2>1. t = [[s EXCEPT !.finalizing = 0] EXCEPT !.needsNew = FALSE]
        BY <1>4, Zenon
    <2> QED
        BY <1>1, <1>2, <2>1
<1>5. ASSUME t = [s EXCEPT !.finalizing = s.active, !.needsNew = TRUE]
      PROVE  t \in SegsRec /\ t.active = s.active /\ t.finalizing = s.active /\ t.needsNew = TRUE
    <2>1. t = [[s EXCEPT !.finalizing = s.active] EXCEPT !.needsNew = TRUE]
        BY <1>5, Zenon
    <2> QED
        BY <1>1, <1>2, <2>1
<1>6. ASSUME NEW n \in Nat, t = [s EXCEPT !.active = n, !.needsNew = FALSE]
      PROVE  t \in SegsRec /\ t.active = n /\ t.finalizing = s.finalizing /\ t.needsNew = FALSE
    <2>1. t = [[s EXCEPT !.active = n] EXCEPT !.needsNew = FALSE]
        BY <1>6, Zenon
    <2> QED
        BY <1>1, <1>2, <2>1
<1> QED
    BY <1>3, <1>4, <1>5, <1>6

\* What the tasks hold and return.
LEMMA Fields ==
    ASSUME Shape
    PROVE  /\ receiver.event \in EventRec /\ receiver.result \in Results /\ runner.result \in Results
           /\ receiver.at \in {"off", "recv", "put", "done"}
           /\ <<>> \in Seq(AnswerRec)
BY DEF Shape, CommonShape, StandaloneShape, ReceiverRec, RunnerRec

\* Init, one variable at a time.
LEMMA ShapeInit == Init => Shape
<1> SUFFICES ASSUME Init PROVE Shape
    OBVIOUS
<1>1. CommonShape
    <2>1. AudioCap \in Nat /\ EventCap \in Nat
        BY AudioCapAssumption DEF EventCap
    <2>2. audio = <<>> /\ events = <<>> /\ answers = <<>>
        BY DEF Init, CommonInit
    <2>3. audio \in Seq(ItemRec) /\ Len(audio) <= AudioCap /\ events \in Seq(EventRec) /\ Len(events) <= EventCap /\ answers \in Seq(AnswerRec)
        BY <2>1, <2>2
    <2> QED
        BY <2>3, ReceiverKit DEF CommonShape, Init, CommonInit
<1>2. LocalShape
    <2>1. flushes \in 0 .. MaxSegments
        BY LocalAssumption DEF Init, LocalInit
    <2>2. segs \in SegsRec /\ closer \in CloserRec
        BY DEF Init, LocalInit, SegsRec, CloserRec
    <2>3. sender \in SenderRec /\ input \in PartRec /\ consumer \in PartRec
        BY SenderKit, PartKit DEF Init, LocalInit, Results
    <2> QED
        BY <2>1, <2>2, <2>3 DEF LocalShape, Init, LocalInit
<1>3. StandaloneShape
    <2>1. 0 .. MaxChunks \subseteq Nat
        BY StandaloneAssumption
    <2>2. left \in LeftRec
        BY <2>1 DEF Init, StandaloneInit, LeftRec
    <2> QED
        BY <2>2, RunnerKit DEF StandaloneShape, Init, StandaloneInit
<1>4. Holding /\ Handed /\ Numbered
    BY DEF Init, LocalInit, Holding, Handed, Numbered, NoTask, Task, Part
<1> QED
    BY <1>1, <1>2, <1>3, <1>4 DEF Shape

\* push_audio
LEMMA ShapePush ==
    ASSUME Shape, NEW chunk \in BOOLEAN, NEW rest \in BOOLEAN, Push(chunk, rest), UNCHANGED standaloneVars
    PROVE  Shape'
<1> DEFINE seg == IF segs.needsNew THEN segs.active + 1 ELSE segs.active
<1>0. segs \in SegsRec /\ seg \in Nat /\ flushes \in Nat /\ seg >= segs.active /\ seg <= flushes + 1
    <2>1. segs \in SegsRec /\ flushes \in Nat /\ Numbered
        BY LocalAssumption DEF Shape, LocalShape
    <2>2. segs.active \in Nat /\ segs.needsNew \in BOOLEAN
        BY <2>1, SegFields
    <2> QED
        BY <2>1, <2>2 DEF Numbered
<1> HIDE DEF seg
<1>1. CASE closed \/ fatal # "none"
    <2>1. input' = Part("done", IF closed THEN "error" ELSE fatal) /\ UNCHANGED <<audio, fatal, segs, pending>>
        BY <1>1 DEF Push, InputRaises
    <2>2. (IF closed THEN "error" ELSE fatal) \in {"retry", "error"}
        BY <1>1 DEF Shape, CommonShape
    <2>3. input' \in PartRec /\ input'.result \in {"retry", "error"}
        BY <2>1, <2>2, PartKit DEF Results
    <2> QED
        BY <2>1, <2>3 DEF Push, Shape, CommonShape, LocalShape, StandaloneShape, standaloneVars,
           Holding, Handed, Numbered
<1>2. CASE ~(closed \/ fatal # "none")
    <2>1. /\ segs' = [segs EXCEPT !.active = seg, !.needsNew = FALSE]
          /\ pending' = rest
          /\ \/ UNCHANGED <<audio, fatal, input>>
             \/ fatal' = "retry" /\ input' = Part("done", "retry") /\ UNCHANGED audio
             \/ ~AudioFull /\ audio' = Append(audio, Chunk(seg)) /\ UNCHANGED <<fatal, input>>
        BY <1>2 DEF Push, InputRaises, seg
    <2>2. segs' \in SegsRec /\ segs'.active = seg /\ segs'.finalizing = segs.finalizing /\ segs'.needsNew = FALSE
        BY <1>0, <2>1, SegsMade
    <2>3. Numbered'
        BY <1>0, <2>2, SegFields DEF Push, Shape, Numbered
    <2>4. audio' \in Seq(ItemRec) /\ Len(audio') <= AudioCap /\ fatal' \in {"none", "retry", "error"}
        BY <1>0, <2>1, QueueKit, Made DEF Shape, CommonShape
    <2>5. input' \in PartRec /\ input'.result \in {"none", "ok", "retry", "error", "cancelled"}
        BY <2>1, PartKit DEF Shape, LocalShape, Handed, Results
    <2> QED
        BY <2>1, <2>2, <2>3, <2>4, <2>5 DEF Push, Shape, CommonShape, LocalShape, StandaloneShape,
           standaloneVars, Holding, Handed
<1> QED
    BY <1>1, <1>2

\* flush
LEMMA ShapeFlush ==
    ASSUME Shape, Flush, UNCHANGED standaloneVars
    PROVE  Shape'
<1>1. segs \in SegsRec /\ flushes \in Nat /\ Numbered /\ flushes' \in 0 .. MaxSegments /\ flushes' = flushes + 1
    BY LocalAssumption DEF Flush, Shape, LocalShape
<1>2. \/ UNCHANGED <<audio, fatal, pending, segs, input>>
      \/ input' = Part("done", "retry") /\ UNCHANGED <<audio, fatal, pending, segs>>
      \/ /\ pending' = FALSE
         /\ fatal' = SetFatal("retry")
         /\ input' = Part("done", "retry")
         /\ UNCHANGED <<audio, segs>>
      \/ /\ pending' = FALSE
         /\ UNCHANGED audio \/ (~AudioFull /\ audio' = Append(audio, Chunk(segs.active)))
         /\ segs' = [segs EXCEPT !.finalizing = segs.active, !.needsNew = TRUE]
         /\ input' = Part("flush", "none")
         /\ UNCHANGED fatal
    BY DEF Flush, InputRaises
<1>3. segs.active \in Nat /\ segs' \in SegsRec
    <2>1. segs.active \in Nat
        BY <1>1, SegFields
    <2>2. CASE UNCHANGED segs
        BY <1>1, <2>1, <2>2
    <2>3. CASE segs' = [segs EXCEPT !.finalizing = segs.active, !.needsNew = TRUE]
        BY <1>1, <2>1, <2>3, SegsMade
    <2> QED
        BY <1>2, <2>1, <2>2, <2>3
<1>4. Numbered'
    <2>1. CASE UNCHANGED segs
        BY <1>1, <1>3, <2>1, SegFields DEF Numbered
    <2>2. CASE segs' = [segs EXCEPT !.finalizing = segs.active, !.needsNew = TRUE]
        <3>1. segs'.active = segs.active /\ segs'.finalizing = segs.active /\ segs'.needsNew
            BY <1>1, <2>2, SegsMade
        <3> QED
            BY <1>1, <1>3, <3>1 DEF Numbered
    <2> QED
        BY <1>2, <2>1, <2>2
<1>5. audio' \in Seq(ItemRec) /\ Len(audio') <= AudioCap /\ fatal' \in {"none", "retry", "error"}
    BY <1>2, <1>3, QueueKit, Made DEF Shape, CommonShape
<1>6. input' \in {input, Part("done", "retry"), Part("flush", "none")} /\ pending' \in {FALSE, pending}
    BY <1>2
<1>7. input' \in PartRec /\ input'.result \in {"none", "ok", "retry", "error", "cancelled"} /\ pending' \in BOOLEAN
    <2>1. \A p \in {Part("done", "retry"), Part("flush", "none")} : p \in PartRec /\ p.result \in {"none", "retry"}
        BY PartKit DEF Results
    <2>2. input \in PartRec /\ input.result \in {"none", "ok", "retry", "error", "cancelled"} /\ pending \in BOOLEAN
        BY DEF Shape, LocalShape, Handed
    <2> QED
        BY <1>6, <2>1, <2>2
<1> QED
    BY <1>1, <1>3, <1>4, <1>5, <1>7 DEF Flush, Shape, CommonShape, LocalShape, StandaloneShape,
       standaloneVars, Holding, Handed

\* flush, timed out
LEMMA ShapeFlushTimeout ==
    ASSUME Shape, FlushTimeout, UNCHANGED standaloneVars
    PROVE  Shape'
<1>1. segs \in SegsRec /\ flushes \in Nat /\ Numbered
    BY LocalAssumption DEF Shape, LocalShape
<1>2. segs' \in SegsRec /\ segs'.active = segs.active /\ segs'.finalizing = 0 /\ segs'.needsNew = FALSE
    <2>1. segs' = [segs EXCEPT !.finalizing = 0, !.needsNew = FALSE]
        BY DEF FlushTimeout
    <2>2. segs' = [[segs EXCEPT !.finalizing = 0] EXCEPT !.needsNew = FALSE]
        BY <2>1, Zenon
    <2> QED
        BY <1>1, <2>2 DEF SegsRec
<1>3. Numbered'
    BY <1>1, <1>2, SegFields DEF Numbered, FlushTimeout
<1>4. input' \in PartRec /\ input'.result = "retry" /\ fatal' \in {"none", "retry", "error"}
    BY PartKit, QueueKit DEF FlushTimeout, InputRaises, Results, Shape
<1> QED
    BY <1>2, <1>3, <1>4 DEF FlushTimeout, Shape, CommonShape, LocalShape, StandaloneShape,
       standaloneVars, Holding, Handed

\* aclose, its two puts
LEMMA ShapeClosePut ==
    ASSUME Shape, ClosePut, UNCHANGED standaloneVars
    PROVE  Shape'
<1>1. segs.active \in Nat
    BY SegFields DEF Shape, LocalShape
<1>2. /\ \E at \in {"mark", "wait", "reap"} : closer' = [closer EXCEPT !.at = at]
      /\ pending' \in {FALSE, pending}
      /\ fatal' \in {fatal, SetFatal("retry")}
      /\ UNCHANGED audio \/ (~AudioFull /\ (audio' = Append(audio, Chunk(segs.active)) \/ audio' = Append(audio, Marker("close"))))
    BY DEF ClosePut, CloserAt
<1>3. closer' \in CloserRec
    BY <1>2, CloserKit DEF Shape, LocalShape
<1>4. audio' \in Seq(ItemRec) /\ Len(audio') <= AudioCap /\ fatal' \in {"none", "retry", "error"} /\ pending' \in BOOLEAN
    <2>1. Chunk(segs.active) \in ItemRec /\ Marker("close") \in ItemRec
        BY <1>1, Made
    <2>2. audio' \in Seq(ItemRec) /\ Len(audio') <= AudioCap
        BY <1>2, <2>1, QueueKit DEF Shape, CommonShape
    <2>3. fatal' \in {"none", "retry", "error"} /\ pending' \in BOOLEAN
        BY <1>2, QueueKit DEF Shape, CommonShape, LocalShape
    <2> QED
        BY <2>2, <2>3
<1> QED
    BY <1>3, <1>4 DEF ClosePut, Shape, CommonShape, LocalShape, StandaloneShape, standaloneVars,
       Holding, Handed, Numbered

\* _send_loop and the server
LEMMA ShapeSenderSend ==
    ASSUME Shape, SenderSend, UNCHANGED standaloneVars
    PROVE  Shape'
<1>1. sender.event \in ItemRec /\ sender.event.seg \in Nat /\ heard \in Nat /\ answers \in Seq(AnswerRec)
    BY DEF SenderSend, Shape, CommonShape, LocalShape, Holding, ItemRec
<1> DEFINE pcm == sender.event.k = "pcm"
           held == IF pcm THEN sender.event.seg ELSE heard
<1>2. PICK a \in Answers(pcm, held, sender.event.seg) : answers' = answers \o a
    BY DEF SenderSend
<1>3. held \in Nat
    BY <1>1
<1> HIDE DEF held, pcm
<1>4. /\ Event("online", 0, sender.event.seg) \in AnswerRec /\ Event("empty", 0, held) \in AnswerRec
      /\ Event("offline", 0, held) \in AnswerRec
    BY <1>1, <1>3, Made
<1>5. a \in Seq(AnswerRec)
    <2>1. a \in {<<>>, <<Event("online", 0, sender.event.seg)>>, <<Event("empty", 0, held)>>, <<Event("offline", 0, held)>>}
        BY <1>2 DEF Answers
    <2>2. <<>> \in Seq(AnswerRec) /\ \A x \in AnswerRec : <<x>> \in Seq(AnswerRec)
        OBVIOUS
    <2> QED
        BY <1>4, <2>1, <2>2
<1>6. answers' \in Seq(AnswerRec)
    BY <1>1, <1>2, <1>5
<1>7. heard' \in Nat /\ sender' \in SenderRec /\ sender'.at # "send"
    BY <1>1, SenderKit, TaskFacts DEF SenderSend, Finished, Results
<1> QED
    BY <1>6, <1>7 DEF SenderSend, Shape, CommonShape, LocalShape, StandaloneShape, standaloneVars,
       Holding, Handed, Numbered

\* _receive_loop
LEMMA ShapeReceiverReads ==
    ASSUME Shape, ReceiverReads, UNCHANGED standaloneVars
    PROVE  Shape'
<1>1. Head(answers) \in AnswerRec /\ Tail(answers) \in Seq(AnswerRec) /\ answers' = Tail(answers)
    BY QueueKit DEF ReceiverReads, Shape
<1>2. segs \in SegsRec /\ flushes \in Nat /\ Numbered
    BY LocalAssumption DEF Shape, LocalShape
<1>3. segs.active \in Nat /\ segs.finalizing \in Nat /\ Head(answers).of \in Nat
    BY <1>1, <1>2, SegFields DEF AnswerRec
<1>4. Parsed(Head(answers)) \in EventRec
    BY <1>3, Made DEF Parsed
<1>5. receiver' \in ReceiverRec
    BY <1>4, ReceiverKit DEF ReceiverReads, Shape, CommonShape
<1>6. /\ segs' \in SegsRec /\ segs'.active = segs.active /\ segs'.needsNew = segs.needsNew
      /\ segs'.finalizing \in {0, segs.finalizing}
    BY <1>2, SegsMade DEF ReceiverReads
<1>7. Numbered'
    BY <1>2, <1>3, <1>6 DEF Numbered, ReceiverReads
<1> QED
    BY <1>1, <1>5, <1>6, <1>7 DEF ReceiverReads, Shape, CommonShape, LocalShape, StandaloneShape,
       standaloneVars, Holding, Handed

\* _recognize_impl, its puts
LEMMA ShapeCallerPuts ==
    ASSUME Shape, CallerPuts, UNCHANGED localVars
    PROVE  Shape'
<1>1. CommonShape'
    BY Made, QueueKit DEF CallerPuts, Leaves, Shape, CommonShape
<1>2. left \in LeftRec
    BY DEF Shape, StandaloneShape
<1>3. [left EXCEPT !.tail = FALSE] \in LeftRec /\ (left.chunks > 0 => [left EXCEPT !.chunks = @ - 1] \in LeftRec)
    <2>1. left.chunks \in Nat /\ (left.chunks > 0 => left.chunks - 1 \in Nat)
        BY <1>2 DEF LeftRec
    <2> QED
        BY <1>2, <2>1 DEF LeftRec
<1>4. left' \in LeftRec /\ call' \in {"push", "events", "close"}
    BY <1>2, <1>3 DEF CallerPuts, Leaves
<1> QED
    BY <1>1, <1>4 DEF CallerPuts, Shape, LocalShape, StandaloneShape, Holding, Handed, Numbered,
       localVars

\* start raises
LEMMA ShapeStartFails ==
    ASSUME Shape, NEW e \in Failures, StartFails(e), UNCHANGED standaloneVars
    PROVE  Shape'
BY DEF StartFails, Failures, Shape, CommonShape, LocalShape, StandaloneShape, standaloneVars,
   Holding, Handed, Numbered

\* _receive_segment
LEMMA ShapeSegmentReads ==
    ASSUME Shape, NEW m \in Messages, SegmentReads(m), UNCHANGED localVars
    PROVE  Shape'
<1>1. \/ UNCHANGED receiver
      \/ receiver' \in {Finished("retry"), Finished("error")}
      \/ receiver' \in {Task("put", Event("final", 1, 1), "none"), Task("put", Event("interim", 1, 1), "none")}
    BY DEF SegmentReads, Receives, Failures
<1>2. Event("final", 1, 1) \in EventRec /\ Event("interim", 1, 1) \in EventRec
    BY Made
<1>3. receiver' \in ReceiverRec
    BY <1>1, <1>2, ReceiverKit DEF Shape, CommonShape, Results
<1>4. UNCHANGED <<protocol, audio, events, fatal, closed, ended, link, answers, outcome, call, left, runner>>
    BY DEF SegmentReads
<1> QED
    BY <1>3, <1>4 DEF Shape, CommonShape, LocalShape, StandaloneShape, Holding, Handed, Numbered,
       localVars

\* The steps of the local transport keep the types.
LEMMA ShapeLocal ==
    ASSUME Shape, LocalSteps \/ LocalWorld, UNCHANGED standaloneVars
    PROVE  Shape'
<1> USE DEF commonVars, Shape, CommonShape, LocalShape, Holding, Handed, Numbered, Finished, Stopped, Failures, Results
<1>1. CASE \E chunk, rest \in BOOLEAN : Push(chunk, rest)
    BY <1>1, ShapePush
<1>2. CASE Flush
    BY <1>2, ShapeFlush
<1>3. CASE EndOfInput
    <2>1. CommonShape'
        BY <1>3, Made, Fields, QueueKit, ReceiverKit DEF EndOfInput
    <2>a. \/ UNCHANGED closer
          \/ \E at \in {"tail", "mark"} : closer' = [by |-> "input", at |-> at, cancelled |-> FALSE]
        BY <1>3 DEF EndOfInput
    <2>0. closer' \in CloserRec
        BY <2>a, CloserKit
    <2>2. LocalShape'
        BY <1>3, <2>0, QueueKit, SenderKit, PartKit DEF EndOfInput
    <2>3. Holding' /\ Handed' /\ Numbered'
        BY <1>3, QueueKit, TaskFacts, PartKit DEF EndOfInput
    <2> QED
        BY <2>1, <2>2, <2>3 DEF StandaloneShape, standaloneVars
<1>4. CASE RunCancelled
    <2>1. CommonShape'
        BY <1>4, Made, Fields, QueueKit, ReceiverKit DEF RunCancelled
    <2>2. LocalShape'
        BY <1>4, QueueKit, SenderKit, PartKit, CloserKit DEF RunCancelled
    <2>3. Holding' /\ Handed' /\ Numbered'
        BY <1>4, QueueKit, TaskFacts, PartKit DEF RunCancelled
    <2> QED
        BY <2>1, <2>2, <2>3 DEF StandaloneShape, standaloneVars
<1>5. CASE StartOk
    <2>1. CommonShape'
        BY <1>5, Made, Fields, QueueKit, ReceiverKit DEF StartOk
    <2>2. LocalShape'
        BY <1>5, QueueKit, SenderKit, PartKit, CloserKit DEF StartOk
    <2>3. Holding' /\ Handed' /\ Numbered'
        BY <1>5, QueueKit, TaskFacts, PartKit DEF StartOk
    <2> QED
        BY <2>1, <2>2, <2>3 DEF StandaloneShape, standaloneVars
<1>6. CASE SenderSend
    BY <1>6, ShapeSenderSend
<1>7. CASE Garbage
    <2>1. CommonShape'
        BY <1>7, Made, Fields, QueueKit, ReceiverKit DEF Garbage, ReceiverRaises, localVars
    <2>2. LocalShape'
        BY <1>7, QueueKit, SenderKit, PartKit, CloserKit DEF Garbage, ReceiverRaises, localVars
    <2>3. Holding' /\ Handed' /\ Numbered'
        BY <1>7, QueueKit, TaskFacts, PartKit DEF Garbage, ReceiverRaises, localVars
    <2> QED
        BY <2>1, <2>2, <2>3 DEF StandaloneShape, standaloneVars
<1>8. CASE \E e \in Failures : StartFails(e)
    BY <1>8, ShapeStartFails
<1>9. CASE FlushPut
    <2>1. CommonShape'
        BY <1>9, Made, Fields, QueueKit, ReceiverKit DEF FlushPut
    <2>2. LocalShape'
        BY <1>9, QueueKit, SenderKit, PartKit, CloserKit DEF FlushPut
    <2>3. Holding' /\ Handed' /\ Numbered'
        BY <1>9, QueueKit, TaskFacts, PartKit DEF FlushPut
    <2> QED
        BY <2>1, <2>2, <2>3 DEF StandaloneShape, standaloneVars
<1>10. CASE FlushTimeout
    BY <1>10, ShapeFlushTimeout
<1>11. CASE ClosePut
    BY <1>11, ShapeClosePut
<1>12. CASE CloseWait
    <2>1. CommonShape'
        BY <1>12, Made, Fields, QueueKit, ReceiverKit DEF CloseWait, CloserAt
    <2>2. LocalShape'
        BY <1>12, QueueKit, SenderKit, PartKit, CloserKit DEF CloseWait, CloserAt
    <2>3. Holding' /\ Handed' /\ Numbered'
        BY <1>12, QueueKit, TaskFacts, PartKit DEF CloseWait, CloserAt
    <2> QED
        BY <2>1, <2>2, <2>3 DEF StandaloneShape, standaloneVars
<1>13. CASE CloseReap
    <2>1. CommonShape'
        BY <1>13, Made, Fields, QueueKit, ReceiverKit DEF CloseReap, CloserAt
    <2>2. LocalShape'
        BY <1>13, QueueKit, SenderKit, PartKit, CloserKit, ZenonT(60) DEF CloseReap, CloserAt
    <2>3. Holding' /\ Handed' /\ Numbered'
        BY <1>13, QueueKit, TaskFacts, PartKit DEF CloseReap, CloserAt
    <2> QED
        BY <2>1, <2>2, <2>3 DEF StandaloneShape, standaloneVars
<1>14. CASE CloseHangup
    <2>1. CommonShape'
        BY <1>14, Made, Fields, QueueKit, ReceiverKit DEF CloseHangup, CloserAt
    <2>2. LocalShape'
        BY <1>14, QueueKit, SenderKit, PartKit, CloserKit, ZenonT(60) DEF CloseHangup, CloserAt
    <2>3. Holding' /\ Handed' /\ Numbered'
        BY <1>14, QueueKit, TaskFacts, PartKit DEF CloseHangup, CloserAt
    <2> QED
        BY <2>1, <2>2, <2>3 DEF StandaloneShape, standaloneVars
<1>15. CASE SenderGet
    <2>1. CommonShape'
        BY <1>15, Made, Fields, QueueKit, ReceiverKit DEF SenderGet
    <2>2. LocalShape'
        BY <1>15, QueueKit, SenderKit, PartKit, CloserKit DEF SenderGet
    <2>3. Holding' /\ Handed' /\ Numbered'
        BY <1>15, QueueKit, TaskFacts, PartKit DEF SenderGet
    <2> QED
        BY <2>1, <2>2, <2>3 DEF StandaloneShape, standaloneVars
<1>16. CASE SenderFails
    <2>1. CommonShape'
        BY <1>16, Made, Fields, QueueKit, ReceiverKit DEF SenderFails
    <2>2. LocalShape'
        BY <1>16, QueueKit, SenderKit, PartKit, CloserKit DEF SenderFails
    <2>3. Holding' /\ Handed' /\ Numbered'
        BY <1>16, QueueKit, TaskFacts, PartKit DEF SenderFails
    <2> QED
        BY <2>1, <2>2, <2>3 DEF StandaloneShape, standaloneVars
<1>17. CASE ReceiverReads
    BY <1>17, ShapeReceiverReads
<1>18. CASE ReceiverPuts
    <2>1. CommonShape'
        BY <1>18, Made, Fields, QueueKit, ReceiverKit DEF ReceiverPuts, localVars
    <2>2. LocalShape'
        BY <1>18, QueueKit, SenderKit, PartKit, CloserKit DEF ReceiverPuts, localVars
    <2>3. Holding' /\ Handed' /\ Numbered'
        BY <1>18, QueueKit, TaskFacts, PartKit DEF ReceiverPuts, localVars
    <2> QED
        BY <2>1, <2>2, <2>3 DEF StandaloneShape, standaloneVars
<1>19. CASE ReceiverFails
    <2>1. CommonShape'
        BY <1>19, Made, Fields, QueueKit, ReceiverKit DEF ReceiverFails, ReceiverRaises, localVars
    <2>2. LocalShape'
        BY <1>19, QueueKit, SenderKit, PartKit, CloserKit DEF ReceiverFails, ReceiverRaises,
           localVars
    <2>3. Holding' /\ Handed' /\ Numbered'
        BY <1>19, QueueKit, TaskFacts, PartKit DEF ReceiverFails, ReceiverRaises, localVars
    <2> QED
        BY <2>1, <2>2, <2>3 DEF StandaloneShape, standaloneVars
<1>20. CASE ConsumerReads
    <2>1. CommonShape'
        BY <1>20, Made, Fields, QueueKit, ReceiverKit DEF ConsumerReads
    <2>2. LocalShape'
        BY <1>20, QueueKit, SenderKit, PartKit, CloserKit, ZenonT(60) DEF ConsumerReads
    <2>3. Holding' /\ Handed' /\ Numbered'
        BY <1>20, QueueKit, TaskFacts, PartKit DEF ConsumerReads
    <2> QED
        BY <2>1, <2>2, <2>3 DEF StandaloneShape, standaloneVars
<1>21. CASE RunWakes
    <2>1. CommonShape'
        BY <1>21, Made, Fields, QueueKit, ReceiverKit DEF RunWakes
    <2>2. LocalShape'
        BY <1>21, QueueKit, SenderKit, PartKit, CloserKit DEF RunWakes
    <2>3. Holding' /\ Handed' /\ Numbered'
        BY <1>21, QueueKit, TaskFacts, PartKit DEF RunWakes
    <2> QED
        BY <2>1, <2>2, <2>3 DEF StandaloneShape, standaloneVars
<1>22. CASE RunDrained
    <2>1. CommonShape'
        BY <1>22, Made, Fields, QueueKit, ReceiverKit DEF RunDrained
    <2>2. LocalShape'
        BY <1>22, QueueKit, SenderKit, PartKit, CloserKit DEF RunDrained
    <2>3. Holding' /\ Handed' /\ Numbered'
        BY <1>22, QueueKit, TaskFacts, PartKit DEF RunDrained
    <2> QED
        BY <2>1, <2>2, <2>3 DEF StandaloneShape, standaloneVars
<1>23. CASE RunCloses
    <2>1. CommonShape'
        BY <1>23, Made, Fields, QueueKit, ReceiverKit DEF RunCloses
    <2>a. \/ UNCHANGED closer
          \/ \E at \in {"tail", "mark"} : closer' = [by |-> "run", at |-> at, cancelled |-> FALSE]
        BY <1>23 DEF RunCloses
    <2>0. closer' \in CloserRec
        BY <2>a, CloserKit
    <2>2. LocalShape'
        BY <1>23, <2>0, QueueKit, SenderKit, PartKit DEF RunCloses
    <2>3. Holding' /\ Handed' /\ Numbered'
        BY <1>23, QueueKit, TaskFacts, PartKit DEF RunCloses
    <2> QED
        BY <2>1, <2>2, <2>3 DEF StandaloneShape, standaloneVars
<1>24. CASE RunClosed
    <2>1. CommonShape'
        BY <1>24, Made, Fields, QueueKit, ReceiverKit DEF RunClosed
    <2>2. LocalShape'
        BY <1>24, QueueKit, SenderKit, PartKit, CloserKit DEF RunClosed
    <2>3. Holding' /\ Handed' /\ Numbered'
        BY <1>24, QueueKit, TaskFacts, PartKit DEF RunClosed
    <2> QED
        BY <2>1, <2>2, <2>3 DEF StandaloneShape, standaloneVars
<1>25. CASE RunStops
    <2>1. CommonShape'
        BY <1>25, Made, Fields, QueueKit, ReceiverKit DEF RunStops, InputCancelled
    <2>0. closer' \in CloserRec
        BY <1>25, CancelledCloser DEF RunStops, InputCancelled
    <2>2. LocalShape'
        BY <1>25, <2>0, QueueKit, SenderKit, PartKit, ZenonT(60) DEF RunStops, InputCancelled
    <2>3. Holding' /\ Handed' /\ Numbered'
        BY <1>25, QueueKit, TaskFacts, PartKit DEF RunStops, InputCancelled
    <2> QED
        BY <2>1, <2>2, <2>3 DEF StandaloneShape, standaloneVars
<1>26. CASE RunStopped
    <2>1. CommonShape'
        BY <1>26, Made, Fields, QueueKit, ReceiverKit DEF RunStopped
    <2>2. LocalShape'
        BY <1>26, QueueKit, SenderKit, PartKit, CloserKit, ZenonT(60) DEF RunStopped
    <2>3. Holding' /\ Handed' /\ Numbered'
        BY <1>26, QueueKit, TaskFacts, PartKit DEF RunStopped
    <2> QED
        BY <2>1, <2>2, <2>3 DEF StandaloneShape, standaloneVars
<1>27. CASE RunCancelledLeaving
    <2>1. closer' \in CloserRec
        BY <1>27, CancelledCloser DEF RunCancelledLeaving
    <2> QED
        BY <1>27, <2>1 DEF RunCancelledLeaving, StandaloneShape, standaloneVars
<1> QED
    BY <1>1, <1>2, <1>3, <1>4, <1>5, <1>6, <1>7, <1>8, <1>9, <1>10, <1>11, <1>12, <1>13, <1>14,
       <1>15, <1>16, <1>17, <1>18, <1>19, <1>20, <1>21, <1>22, <1>23, <1>24, <1>25, <1>26, <1>27 DEF
       LocalSteps, LocalWorld, Aclose

\* The steps of the standalone transport keep the types.
LEMMA ShapeStandalone ==
    ASSUME Shape, StandaloneSteps \/ StandaloneWorld, UNCHANGED localVars
    PROVE  Shape'
<1> USE DEF commonVars, Shape, CommonShape, StandaloneShape, Failures, Results
<1>1. CASE CallerCancelled
    <2>1. CommonShape'
        BY <1>1, Made, Fields, QueueKit, ReceiverKit DEF CallerCancelled, Leaves
    <2>2. StandaloneShape'
        BY <1>1, Fields, QueueKit, RunnerKit DEF CallerCancelled, Leaves
    <2> QED
        BY <2>1, <2>2 DEF LocalShape, Holding, Handed, Numbered, localVars
<1>2. CASE RunnerConnects
    <2>1. CommonShape'
        BY <1>2, Made, Fields, QueueKit, ReceiverKit DEF RunnerConnects, RunnerAt
    <2>2. StandaloneShape'
        BY <1>2, Fields, QueueKit, RunnerKit DEF RunnerConnects, RunnerAt
    <2> QED
        BY <2>1, <2>2 DEF LocalShape, Holding, Handed, Numbered, localVars
<1>3. CASE RunnerSends
    <2>1. CommonShape'
        BY <1>3, Made, Fields, QueueKit, ReceiverKit DEF RunnerSends, RunnerAt
    <2>2. StandaloneShape'
        BY <1>3, Fields, QueueKit, RunnerKit DEF RunnerSends, RunnerAt
    <2> QED
        BY <2>1, <2>2 DEF LocalShape, Holding, Handed, Numbered, localVars
<1>4. CASE \E m \in Messages : SegmentReads(m)
    BY <1>4, ShapeSegmentReads
<1>5. CASE CallerPuts
    BY <1>5, ShapeCallerPuts
<1>6. CASE CallerReads
    <2>1. CommonShape'
        BY <1>6, Made, Fields, QueueKit, ReceiverKit DEF CallerReads, Leaves
    <2>2. StandaloneShape'
        BY <1>6, Fields, QueueKit, RunnerKit DEF CallerReads, Leaves
    <2> QED
        BY <2>1, <2>2 DEF LocalShape, Holding, Handed, Numbered, localVars
<1>7. CASE CallerTimesOut
    <2>1. CommonShape'
        BY <1>7, Made, Fields, QueueKit, ReceiverKit DEF CallerTimesOut, Leaves
    <2>2. StandaloneShape'
        BY <1>7, Fields, QueueKit, RunnerKit DEF CallerTimesOut, Leaves
    <2> QED
        BY <2>1, <2>2 DEF LocalShape, Holding, Handed, Numbered, localVars
<1>8. CASE CallerCloses
    <2>1. CommonShape'
        BY <1>8, Made, Fields, QueueKit, ReceiverKit DEF CallerCloses, SegmentClosed
    <2>2. StandaloneShape'
        BY <1>8, Fields, QueueKit, RunnerKit DEF CallerCloses, SegmentClosed
    <2> QED
        BY <2>1, <2>2 DEF LocalShape, Holding, Handed, Numbered, localVars
<1>9. CASE CallerMarks
    <2>1. CommonShape'
        BY <1>9, Made, Fields, QueueKit, ReceiverKit DEF CallerMarks
    <2>2. StandaloneShape'
        BY <1>9, Fields, QueueKit, RunnerKit DEF CallerMarks
    <2> QED
        BY <2>1, <2>2 DEF LocalShape, Holding, Handed, Numbered, localVars
<1>10. CASE CallerWaits
    <2>1. CommonShape'
        BY <1>10, Made, Fields, QueueKit, ReceiverKit DEF CallerWaits
    <2>2. StandaloneShape'
        BY <1>10, Fields, QueueKit, RunnerKit DEF CallerWaits
    <2> QED
        BY <2>1, <2>2 DEF LocalShape, Holding, Handed, Numbered, localVars
<1>11. CASE CallerReaps
    <2>1. CommonShape'
        BY <1>11, Made, Fields, QueueKit, ReceiverKit DEF CallerReaps
    <2>2. StandaloneShape'
        BY <1>11, Fields, QueueKit, RunnerKit DEF CallerReaps, RunnerCancelled
    <2> QED
        BY <2>1, <2>2 DEF LocalShape, Holding, Handed, Numbered, localVars
<1>12. CASE CallerEnds
    <2>1. CommonShape'
        BY <1>12, Made, Fields, QueueKit, ReceiverKit DEF CallerEnds, SegmentClosed
    <2>2. StandaloneShape'
        BY <1>12, Fields, QueueKit, RunnerKit DEF CallerEnds, SegmentClosed
    <2> QED
        BY <2>1, <2>2 DEF LocalShape, Holding, Handed, Numbered, localVars
<1>13. CASE RunnerGets
    <2>1. CommonShape'
        BY <1>13, Made, Fields, QueueKit, ReceiverKit DEF RunnerGets, RunnerRaises
    <2>2. StandaloneShape'
        BY <1>13, Fields, QueueKit, RunnerKit DEF RunnerGets, RunnerRaises
    <2> QED
        BY <2>1, <2>2 DEF LocalShape, Holding, Handed, Numbered, localVars
<1>14. CASE \E e \in Failures : RunnerFails(e)
    <2>1. CommonShape'
        BY <1>14, Made, Fields, QueueKit, ReceiverKit DEF RunnerFails, RunnerRaises
    <2>2. StandaloneShape'
        BY <1>14, Fields, QueueKit, RunnerKit DEF RunnerFails, RunnerRaises
    <2> QED
        BY <2>1, <2>2 DEF LocalShape, Holding, Handed, Numbered, localVars
<1>15. CASE RunnerFinishes
    <2>1. CommonShape'
        BY <1>15, Made, Fields, QueueKit, ReceiverKit DEF RunnerFinishes, SegmentClosed, RunnerAt,
           RunnerRaises
    <2>2. StandaloneShape'
        BY <1>15, Fields, QueueKit, RunnerKit DEF RunnerFinishes, SegmentClosed, RunnerAt,
           RunnerRaises
    <2> QED
        BY <2>1, <2>2 DEF LocalShape, Holding, Handed, Numbered, localVars
<1>16. CASE RunnerCloses
    <2>1. CommonShape'
        BY <1>16, Made, Fields, QueueKit, ReceiverKit DEF RunnerCloses, SegmentClosed
    <2>2. StandaloneShape'
        BY <1>16, Fields, QueueKit, RunnerKit DEF RunnerCloses, SegmentClosed
    <2> QED
        BY <2>1, <2>2 DEF LocalShape, Holding, Handed, Numbered, localVars
<1>17. CASE SegmentLost
    <2>1. CommonShape'
        BY <1>17, Made, Fields, QueueKit, ReceiverKit DEF SegmentLost, standaloneVars
    <2>2. StandaloneShape'
        BY <1>17, Fields, QueueKit, RunnerKit DEF SegmentLost, standaloneVars
    <2> QED
        BY <2>1, <2>2 DEF LocalShape, Holding, Handed, Numbered, localVars
<1>18. CASE SegmentPuts
    <2>1. CommonShape'
        BY <1>18, Made, Fields, QueueKit, ReceiverKit DEF SegmentPuts, standaloneVars
    <2>2. StandaloneShape'
        BY <1>18, Fields, QueueKit, RunnerKit DEF SegmentPuts, standaloneVars
    <2> QED
        BY <2>1, <2>2 DEF LocalShape, Holding, Handed, Numbered, localVars
<1>19. CASE CallerCancelledClosing
    <2>1. CommonShape'
        BY <1>19, Made, Fields, QueueKit, ReceiverKit DEF CallerCancelledClosing, SegmentClosed
    <2>2. StandaloneShape'
        BY <1>19, Fields, QueueKit, RunnerKit DEF CallerCancelledClosing, RunnerCancelled
    <2> QED
        BY <2>1, <2>2 DEF LocalShape, Holding, Handed, Numbered, localVars
<1> QED
    BY <1>1, <1>2, <1>3, <1>4, <1>5, <1>6, <1>7, <1>8, <1>9, <1>10, <1>11, <1>12, <1>13, <1>14,
       <1>15, <1>16, <1>17, <1>18, <1>19 DEF StandaloneSteps, StandaloneWorld

\* Every step keeps the types.
LEMMA ShapeStep ==
    ASSUME Shape, [Next]_vars
    PROVE  Shape'
<1>1. CASE protocol = "local" /\ (LocalSteps \/ LocalWorld) /\ UNCHANGED standaloneVars
    BY <1>1, ShapeLocal
<1>2. CASE protocol = "standalone" /\ (StandaloneSteps \/ StandaloneWorld) /\ UNCHANGED localVars
    BY <1>2, ShapeStandalone
<1>3. CASE LinkLost /\ UNCHANGED <<localVars, standaloneVars>>
    BY <1>3 DEF LinkLost, Shape, CommonShape, LocalShape, StandaloneShape, Holding, Handed,
       Numbered, localVars, standaloneVars
<1>4. CASE UNCHANGED vars
    BY <1>4 DEF vars, Shape, CommonShape, LocalShape, StandaloneShape, Holding, Handed, Numbered,
       commonVars, localVars, standaloneVars
<1> QED
    BY <1>1, <1>2, <1>3, <1>4 DEF Next, Steps

\* The types hold in every reachable state.
LEMMA ShapeAlways == Spec => []Shape
BY ShapeInit, ShapeStep, PTL DEF Spec

\* They imply the ones the run checks.
LEMMA ShapeTypeOK == Shape => TypeOK
<1> SUFFICES ASSUME Shape PROVE TypeOK
    OBVIOUS
<1>1. \A i \in DOMAIN audio : audio[i].k \in {"pcm", "flush", "close"}
    <2>1. \A i \in DOMAIN audio : audio[i] \in ItemRec
        BY DEF Shape, CommonShape
    <2> QED
        BY <2>1 DEF ItemRec
<1>2. \A i \in DOMAIN events : events[i].k \in {"interim", "final", "end"}
    <2>1. \A i \in DOMAIN events : events[i] \in EventRec
        BY DEF Shape, CommonShape
    <2> QED
        BY <2>1 DEF EventRec
<1>3. segs \in [active : 1 .. MaxSegments + 1, finalizing : 0 .. MaxSegments + 1, needsNew : BOOLEAN]
    <2>1. segs \in SegsRec /\ flushes \in 0 .. MaxSegments /\ Numbered /\ MaxSegments \in Nat
        BY LocalAssumption DEF Shape, LocalShape
    <2>2. segs.active \in 1 .. MaxSegments + 1 /\ segs.finalizing \in 0 .. MaxSegments + 1 /\ segs.needsNew \in BOOLEAN
        BY <2>1, SegFields DEF Numbered
    <2> QED
        BY <2>1, <2>2 DEF SegsRec
<1>4. /\ receiver.at \in {"off", "recv", "put", "done"}
      /\ closer.at \in {"none", "tail", "mark", "wait", "reap", "hangup", "done"}
      /\ runner.at \in {"get", "connect", "hello", "send", "finish", "await", "close", "done"}
    BY DEF Shape, CommonShape, LocalShape, StandaloneShape, ReceiverRec, CloserRec, RunnerRec
<1> QED
    BY <1>1, <1>2, <1>3, <1>4 DEF TypeOK, Shape, CommonShape, LocalShape, StandaloneShape

\* The types, and the bounds of the two queues: whatever fails and however often the stream
\* is ended, _end_events leaves no more than twice queue_max_chunks events (_put_audio,
\* _end_events).
THEOREM RecognitionTyped == Spec => []TypeOK
BY ShapeAlways, ShapeTypeOK, PTL

\* What the closing stages and the parts of the local adapter are, field by field.
LEMMA CloserFields ==
    ASSUME Shape
    PROVE  /\ \A at : [closer EXCEPT !.at = at].at = at /\ [closer EXCEPT !.at = at].by = closer.by
           /\ \A b : [closer EXCEPT !.cancelled = b].at = closer.at /\ [closer EXCEPT !.cancelled = b].by = closer.by
           /\ LET c == [closer EXCEPT !.at = "reap", !.cancelled = TRUE] IN c.at = "reap" /\ c.by = closer.by
           /\ \A p, r : Part(p, r).at = p /\ Part(p, r).result = r
BY DEF Shape, LocalShape, CloserRec, Part

\* The puts of aclose leave the tasks as they are.
LEMMA WayClosePut ==
    ASSUME Shape, WayOut, ClosePut
    PROVE  WayOut'
<1>1. closer.at \in {"tail", "mark"} /\ \E at \in {"mark", "wait", "reap"} : closer' = [closer EXCEPT !.at = at]
    BY DEF ClosePut, CloserAt
<1>2. closer'.at \in {"mark", "wait", "reap"} /\ closer'.by = closer.by
    BY <1>1, CloserFields
<1>3. UNCHANGED <<closed, link, receiver, sender, input, consumer, run>>
    BY DEF ClosePut
<1> QED
    BY <1>1, <1>2, <1>3 DEF WayOut, NotStarted

\* _run closes the stream unless the input task is doing so.
LEMMA WayRunCloses ==
    ASSUME Shape, WayOut, RunCloses
    PROVE  WayOut'
<1>0. UNCHANGED <<link, receiver, sender, input, consumer>> /\ closed' = TRUE /\ run = "close"
    BY DEF RunCloses
<1>1. CASE closed \/ input.at = "off"
    <2>1. run' = "cancel" /\ UNCHANGED closer
        BY <1>1 DEF RunCloses
    <2> QED
        BY <1>0, <1>1, <2>1 DEF WayOut, NotStarted
<1>2. CASE ~closed /\ input.at # "off"
    <2>1. run' = "closing" /\ closer'.by = "run" /\ closer'.at \in {"tail", "mark"}
        BY <1>2 DEF RunCloses
    <2> QED
        BY <1>0, <1>2, <2>1 DEF WayOut, NotStarted
<1> QED
    BY <1>1, <1>2

\* A record of the runner with another position.
LEMMA RunnerMoves ==
    ASSUME Shape
    PROVE  \A at : [runner EXCEPT !.at = at].at = at
BY DEF Shape, StandaloneShape, RunnerRec

\* A runner that sends has not ended.
LEMMA WayRunnerSends ==
    ASSUME Shape, CallerWay, RunnerSends
    PROVE  CallerWay'
<1>1. \E at \in {"send", "get", "await"} : runner' = [runner EXCEPT !.at = at]
    BY DEF RunnerSends, RunnerAt
<1>2. runner'.at # "done"
    BY <1>1, RunnerMoves
<1>3. UNCHANGED <<fatal, outcome, call, left>> /\ runner.at # "done"
    BY DEF RunnerSends
<1> QED
    BY <1>2, <1>3 DEF CallerWay, Unpaddable

\* Nor has one that waited for the final.
LEMMA WayRunnerFinishes ==
    ASSUME Shape, CallerWay, RunnerFinishes
    PROVE  CallerWay'
<1>1. (\E at \in {"get", "close"} : runner' = [runner EXCEPT !.at = at]) \/ runner' = Task("close", EndMarker, "raised")
    BY DEF RunnerFinishes, RunnerAt, RunnerRaises
<1>2. runner'.at # "done"
    <2>1. CASE runner' = Task("close", EndMarker, "raised")
        BY <2>1, TaskFacts
    <2>2. CASE \E at \in {"get", "close"} : runner' = [runner EXCEPT !.at = at]
        BY <2>2, RunnerMoves
    <2> QED
        BY <1>1, <2>1, <2>2
<1>3. UNCHANGED <<outcome, call, left>> /\ runner.at = "await" /\ fatal' \in {fatal, SetFatal("retry"), SetFatal("error")}
    BY DEF RunnerFinishes, RunnerRaises, Failures
<1>4. fatal # "none" => fatal' # "none"
    BY <1>3 DEF SetFatal
<1> QED
    BY <1>2, <1>3, <1>4 DEF CallerWay, Unpaddable

\* The call waits for events only when the whole utterance is in the queue.
LEMMA WayCallerPuts ==
    ASSUME Shape, CallerWay, CallerPuts
    PROVE  CallerWay'
<1>1. UNCHANGED <<link, receiver, runner>> /\ call = "push" /\ left \in LeftRec
    BY DEF CallerPuts, Shape, StandaloneShape
<1>2. \/ call' = "close" /\ outcome' = fatal /\ fatal # "none" /\ UNCHANGED fatal
      \/ call' = "push" /\ UNCHANGED outcome
      \/ /\ call' = "events" /\ UNCHANGED outcome
         /\ ~(left.chunks > 0 \/ left.tail) /\ left' = [left EXCEPT !.tail = FALSE]
      \/ call' = "close" /\ fatal' = SetFatal("retry")
    BY DEF CallerPuts, Leaves
<1>3. call' = "events" => ~Unpaddable(left')
    <2>1. ASSUME call' = "events"
          PROVE  left.chunks = 0 /\ left' = [left EXCEPT !.tail = FALSE]
        BY <1>1, <1>2, <2>1 DEF LeftRec
    <2> QED
        BY <1>1, <2>1 DEF LeftRec, Unpaddable
<1>4. call' = "close" => fatal' # "none"
    BY <1>2 DEF SetFatal
<1> QED
    BY <1>1, <1>2, <1>3, <1>4 DEF CallerWay

\* The steps of the local transport keep its way out.
LEMMA WayLocal ==
    ASSUME Shape, WayOut, LocalSteps \/ LocalWorld
    PROVE  WayOut'
<1> USE DEF commonVars, WayOut, NotStarted, Ended, Finished, Stopped, SenderStuck
<1>1. CASE \E chunk, rest \in BOOLEAN : Push(chunk, rest)
    BY <1>1, TaskFacts, CloserFields DEF Push, InputRaises
<1>2. CASE Flush
    BY <1>2, TaskFacts, CloserFields DEF Flush, InputRaises, FlushGuard
<1>3. CASE EndOfInput
    BY <1>3, TaskFacts, CloserFields DEF EndOfInput
<1>4. CASE RunCancelled
    BY <1>4, TaskFacts, CloserFields DEF RunCancelled
<1>5. CASE StartOk
    BY <1>5, TaskFacts, CloserFields DEF StartOk
<1>6. CASE SenderSend
    BY <1>6, TaskFacts, CloserFields DEF SenderSend, Answers
<1>7. CASE Garbage
    BY <1>7, TaskFacts, CloserFields DEF Garbage, ReceiverRaises, localVars
<1>8. CASE \E e \in Failures : StartFails(e)
    BY <1>8, TaskFacts, CloserFields DEF StartFails
<1>9. CASE FlushPut
    BY <1>9, TaskFacts, CloserFields DEF FlushPut
<1>10. CASE FlushTimeout
    BY <1>10, TaskFacts, CloserFields DEF FlushTimeout, InputRaises
<1>11. CASE ClosePut
    BY <1>11, WayClosePut
<1>12. CASE CloseWait
    BY <1>12, TaskFacts, CloserFields DEF CloseWait, CloserAt
<1>13. CASE CloseReap
    BY <1>13, TaskFacts, CloserFields DEF CloseReap, CloserAt
<1>14. CASE CloseHangup
    BY <1>14, TaskFacts, CloserFields DEF CloseHangup, CloserAt
<1>15. CASE SenderGet
    BY <1>15, TaskFacts, CloserFields DEF SenderGet
<1>16. CASE SenderFails
    BY <1>16, TaskFacts, CloserFields DEF SenderFails
<1>17. CASE ReceiverReads
    BY <1>17, TaskFacts, CloserFields DEF ReceiverReads, Parsed
<1>18. CASE ReceiverPuts
    BY <1>18, TaskFacts, CloserFields DEF ReceiverPuts, localVars
<1>19. CASE ReceiverFails
    BY <1>19, TaskFacts, CloserFields DEF ReceiverFails, ReceiverRaises, localVars
<1>20. CASE ConsumerReads
    BY <1>20, TaskFacts, CloserFields DEF ConsumerReads
<1>21. CASE RunWakes
    BY <1>21, TaskFacts, CloserFields DEF RunWakes
<1>22. CASE RunDrained
    BY <1>22, TaskFacts, CloserFields DEF RunDrained
<1>23. CASE RunCloses
    BY <1>23, WayRunCloses
<1>24. CASE RunClosed
    BY <1>24, TaskFacts, CloserFields DEF RunClosed
<1>25. CASE RunStops
    <2>1. CASE input.at = "close"
        <3>1. AcloseCancelled /\ UNCHANGED <<commonVars, sender, input, consumer>> /\ run' \in {"stopping", "cancelling"}
            BY <1>25, <2>1 DEF RunStops, InputCancelled
        <3> QED
            BY <1>25, <2>1, <3>1, CancelledCloser DEF RunStops, Shape, LocalShape
    <2>2. CASE input.at # "close"
        BY <1>25, <2>2, CloserFields DEF RunStops, InputCancelled
    <2> QED
        BY <2>1, <2>2
<1>26. CASE RunStopped
    BY <1>26, TaskFacts, CloserFields DEF RunStopped
<1>27. CASE RunCancelledLeaving
    <2>1. AcloseCancelled /\ UNCHANGED <<commonVars, sender, input, consumer, run>> /\ run # "done"
        BY <1>27 DEF RunCancelledLeaving
    <2> QED
        BY <1>27, <2>1, CancelledCloser DEF RunCancelledLeaving, Shape, LocalShape
<1> QED
    BY <1>1, <1>2, <1>3, <1>4, <1>5, <1>6, <1>7, <1>8, <1>9, <1>10, <1>11, <1>12, <1>13, <1>14,
       <1>15, <1>16, <1>17, <1>18, <1>19, <1>20, <1>21, <1>22, <1>23, <1>24, <1>25, <1>26, <1>27 DEF
       LocalSteps, LocalWorld, Aclose

\* The steps of the standalone transport keep its way out.
LEMMA WayStandalone ==
    ASSUME Shape, CallerWay, StandaloneSteps \/ StandaloneWorld
    PROVE  CallerWay'
<1> USE DEF commonVars, CallerWay, Unpaddable, Ended, Finished, Stopped, SetFatal
<1>1. CASE CallerCancelled
    BY <1>1, TaskFacts DEF CallerCancelled, Leaves
<1>2. CASE RunnerConnects
    BY <1>2, TaskFacts DEF RunnerConnects, RunnerAt
<1>3. CASE RunnerSends
    BY <1>3, WayRunnerSends
<1>4. CASE \E m \in Messages : SegmentReads(m)
    BY <1>4, TaskFacts DEF SegmentReads, Receives
<1>5. CASE CallerPuts
    BY <1>5, WayCallerPuts
<1>6. CASE CallerReads
    BY <1>6, TaskFacts DEF CallerReads, Leaves
<1>7. CASE CallerTimesOut
    BY <1>7, TaskFacts DEF CallerTimesOut, Leaves
<1>8. CASE CallerCloses
    BY <1>8, TaskFacts DEF CallerCloses, SegmentClosed
<1>9. CASE CallerMarks
    BY <1>9, TaskFacts DEF CallerMarks
<1>10. CASE CallerWaits
    BY <1>10, TaskFacts DEF CallerWaits
<1>11. CASE CallerReaps
    BY <1>11, TaskFacts DEF CallerReaps, RunnerCancelled
<1>12. CASE CallerEnds
    BY <1>12, TaskFacts DEF CallerEnds, SegmentClosed
<1>13. CASE RunnerGets
    BY <1>13, TaskFacts DEF RunnerGets, RunnerRaises
<1>14. CASE \E e \in Failures : RunnerFails(e)
    BY <1>14, TaskFacts DEF RunnerFails, RunnerRaises
<1>15. CASE RunnerFinishes
    BY <1>15, WayRunnerFinishes
<1>16. CASE RunnerCloses
    BY <1>16, TaskFacts DEF RunnerCloses, SegmentClosed
<1>17. CASE SegmentLost
    BY <1>17, TaskFacts DEF SegmentLost, standaloneVars
<1>18. CASE SegmentPuts
    BY <1>18, TaskFacts DEF SegmentPuts, standaloneVars
<1>19. CASE CallerCancelledClosing
    BY <1>19, TaskFacts DEF CallerCancelledClosing, RunnerCancelled, SegmentClosed
<1> QED
    BY <1>1, <1>2, <1>3, <1>4, <1>5, <1>6, <1>7, <1>8, <1>9, <1>10, <1>11, <1>12, <1>13, <1>14,
       <1>15, <1>16, <1>17, <1>18, <1>19 DEF StandaloneSteps, StandaloneWorld

\* The transport is chosen once.
LEMMA LocalKeepsProtocol ==
    ASSUME LocalSteps \/ LocalWorld
    PROVE  protocol' = protocol
BY DEF LocalSteps, LocalWorld, Aclose, commonVars, ReceiverRaises, Push, Flush, EndOfInput,
   RunCancelled, RunCancelledLeaving, StartOk, SenderSend, Garbage, StartFails, FlushPut, FlushTimeout, ClosePut,
   CloseWait, CloseReap, CloseHangup, SenderGet, SenderFails, ReceiverReads, ReceiverPuts,
   ReceiverFails, ConsumerReads, RunWakes, RunDrained, RunCloses, RunClosed, RunStops, RunStopped

\* The transport is chosen once.
LEMMA StandaloneKeepsProtocol ==
    ASSUME StandaloneSteps \/ StandaloneWorld
    PROVE  protocol' = protocol
BY DEF StandaloneSteps, StandaloneWorld, commonVars, CallerCancelled, CallerCancelledClosing, RunnerConnects, RunnerSends,
   SegmentReads, CallerPuts, CallerReads, CallerTimesOut, CallerCloses, CallerMarks, CallerWaits,
   CallerReaps, CallerEnds, RunnerGets, RunnerFails, RunnerFinishes, RunnerCloses, SegmentLost,
   SegmentPuts

\* The types and the way out of either transport.
WayInv == Shape /\ LocalReleased /\ StandaloneReleased

\* Nothing has started.
LEMMA WayInit == Init => WayInv
<1> SUFFICES ASSUME Init PROVE WayInv
    OBVIOUS
<1>1. Shape
    BY ShapeInit
<1>2. WayOut
    BY DEF Init, CommonInit, LocalInit, WayOut, NotStarted, NoTask, Task, Part, Ended
<1>3. CallerWay
    BY DEF Init, CommonInit, StandaloneInit, CallerWay, NoTask, Task, Part, Ended
<1> QED
    BY <1>1, <1>2, <1>3 DEF WayInv, LocalReleased, StandaloneReleased

\* Every step keeps the way out.
LEMMA WayStep ==
    ASSUME WayInv, [Next]_vars
    PROVE  WayInv'
<1>0. Shape'
    BY ShapeStep DEF WayInv
<1>1. CASE protocol = "local" /\ (LocalSteps \/ LocalWorld) /\ UNCHANGED standaloneVars
    <2>1. protocol' = protocol
        BY <1>1, LocalKeepsProtocol
    <2>2. WayOut'
        BY <1>1, WayLocal DEF WayInv, LocalReleased
    <2> QED
        BY <1>0, <1>1, <2>1, <2>2 DEF WayInv, LocalReleased, StandaloneReleased
<1>2. CASE protocol = "standalone" /\ (StandaloneSteps \/ StandaloneWorld) /\ UNCHANGED localVars
    <2>1. protocol' = protocol
        BY <1>2, StandaloneKeepsProtocol
    <2>2. CallerWay'
        BY <1>2, WayStandalone DEF WayInv, StandaloneReleased
    <2> QED
        BY <1>0, <1>2, <2>1, <2>2 DEF WayInv, LocalReleased, StandaloneReleased
<1>3. CASE LinkLost /\ UNCHANGED <<localVars, standaloneVars>>
    <2>1. WayOut => WayOut'
        BY <1>3 DEF LinkLost, WayOut, NotStarted, localVars, Ended
    <2>2. CallerWay => CallerWay'
        BY <1>3 DEF LinkLost, CallerWay, standaloneVars, Ended
    <2> QED
        BY <1>0, <1>3, <2>1, <2>2 DEF WayInv, LocalReleased, StandaloneReleased, LinkLost
<1>4. CASE UNCHANGED vars
    BY <1>0, <1>4 DEF vars, WayInv, LocalReleased, StandaloneReleased, WayOut, NotStarted,
       CallerWay, commonVars, localVars, standaloneVars, Ended
<1> QED
    BY <1>1, <1>2, <1>3, <1>4 DEF Next, Steps

\* The way out is kept in every reachable state.
LEMMA WayAlways == Spec => []WayInv
BY WayInit, WayStep, PTL DEF Spec

\* When the call has returned no task of the stream is left and its connection is closed,
\* whoever ran aclose, unless the cancellation came through the close itself or the close
\* raised; the sender, the receiver and the connection of the local stream are gone even
\* then (aclose, _run, _recognize_impl).
THEOREM NothingLeftBehind == Spec => []Released
<1>1. WayInv => Released
    <2> SUFFICES ASSUME WayInv, Returned
                 PROVE  /\ CloseCutShort \/ CloseRaised \/ Gone
                        /\ protocol = "local" => HungUp
        BY DEF Released
    <2>1. CASE protocol = "local"
        <3>1. WayOut /\ run = "done"
            BY <2>1 DEF WayInv, LocalReleased, Returned
        <3>2. closer.by \in {"none", "input", "run"} /\ input.at \in {"off", "read", "flush", "close", "done"}
            BY DEF WayInv, Shape, LocalShape, CloserRec, PartRec
        <3>3. closed
            BY <3>1 DEF WayOut
        <3>4. ASSUME input.at = "off" PROVE Ended(sender) /\ Ended(receiver) /\ link = "none"
            BY <3>1, <3>4 DEF WayOut, NotStarted
        <3>5. ASSUME input.at # "off" PROVE Ended(sender) /\ Ended(receiver) /\ link = "none"
            <4>1. CASE closer.by = "run"
                BY <3>1, <4>1 DEF WayOut
            <4>2. CASE closer.by = "input"
                <5>1. Ended(input)
                    BY <3>1, <4>2 DEF WayOut
                <5>2. closer.at = "done"
                    BY <3>1, <4>2, <5>1 DEF WayOut, Ended
                <5> QED
                    BY <3>1, <5>2 DEF WayOut
            <4>3. closer.by # "none"
                BY <3>1, <3>3, <3>5 DEF WayOut
            <4> QED
                BY <3>2, <4>1, <4>2, <4>3
        <3>6. HungUp
            BY <2>1, <3>4, <3>5 DEF HungUp
        <3>7. (Ended(input) /\ Ended(consumer)) \/ CloseCutShort
            BY <2>1, <3>1 DEF WayOut, CloseCutShort
        <3> QED
            BY <2>1, <3>6, <3>7 DEF Gone
    <2>2. CASE protocol # "local"
        <3>1. protocol = "standalone" /\ CallerWay /\ call \in {"done", "dropped"}
            BY <2>2 DEF WayInv, StandaloneReleased, Returned, Shape, CommonShape
        <3>2. CASE call = "dropped"
            BY <2>2, <3>2 DEF CloseCutShort
        <3>3. CASE call = "done"
            <4>1. runner.at = "done" \/ CloseRaised
                BY <3>1, <3>3 DEF CallerWay, CloseRaised
            <4> QED
                BY <3>1, <4>1 DEF CallerWay, Gone, HungUp, Ended
        <3> QED
            BY <2>2, <3>1, <3>2, <3>3
    <2> QED
        BY <2>1, <2>2
<1> QED
    BY <1>1, WayAlways, PTL

----------------------------------------------------------------------------
(* Labels: the steps.                                                      *)

\* The parts of Shape the labels need.
LEMMA Ground ==
    ASSUME Shape
    PROVE  /\ audio \in Seq(ItemRec) /\ answers \in Seq(AnswerRec) /\ events \in Seq(EventRec)
           /\ segs \in SegsRec /\ segs.active \in Nat /\ segs.finalizing \in Nat /\ segs.needsNew \in BOOLEAN
           /\ segs.active # 0 /\ heard \in Nat /\ closed \in BOOLEAN /\ pending \in BOOLEAN
           /\ sender.at \in {"off", "get", "send", "done"}
           /\ input.at \in {"off", "read", "flush", "close", "done"}
<1>1. segs \in SegsRec /\ sender \in SenderRec /\ input \in PartRec /\ Numbered
    BY DEF Shape, LocalShape
<1>2. segs.active \in Nat /\ segs.finalizing \in Nat /\ segs.needsNew \in BOOLEAN
    BY <1>1, SegFields
<1>3. segs.active # 0
    BY <1>1, <1>2 DEF Numbered
<1>4. sender.at \in {"off", "get", "send", "done"} /\ input.at \in {"off", "read", "flush", "close", "done"}
    BY <1>1 DEF SenderRec, PartRec
<1> QED
    BY <1>1, <1>2, <1>3, <1>4 DEF Shape, CommonShape, LocalShape

\* A step that moves no audio, no answer and no number keeps the order, whatever
\* becomes of the tasks around it.
LEMMA OrderCalm ==
    ASSUME Order, UNCHANGED <<audio, answers, segs, heard, pending, sender>>,
           closed => closed', run' = "start" => run = "start",
           input'.at = input.at \/ input'.at = "done" \/ (input.at = "read" /\ input'.at # "flush")
    PROVE  Order'
<1>1. Fresh' /\ CloseMeans' /\ Replies'
    BY DEF Order, Fresh, CloseMeans, Replies, ReplyBefore, Replied, Label, Final
<1>2. Segments'
    BY DEF Order, Segments, ReplyBefore, Replied, Final
<1>3. Sent'
    BY DEF Order, Sent, Live, Marks, Spoken, Cut, CutHeld, CutQueued, CutBehind, Replied, Unput,
       Final
<1> QED
    BY <1>1, <1>2, <1>3 DEF Order

\* So does one that ends the sending task.
LEMMA OrderSilent ==
    ASSUME Order, UNCHANGED <<audio, answers, segs, heard, pending, input>>,
           closed => closed', run' = "start" => run = "start", sender'.at \notin {"get", "send"}
    PROVE  Order'
<1>1. Fresh' /\ CloseMeans' /\ Replies' /\ Segments'
    BY DEF Order, Fresh, CloseMeans, Replies, Segments, ReplyBefore, Replied, Label, Final
<1>2. Sent'
    BY DEF Sent, Live
<1> QED
    BY <1>1, <1>2 DEF Order

\* The tasks start on an empty stream.
LEMMA OrderStarts ==
    ASSUME Order, StartOk
    PROVE  Order'
<1>1. /\ audio' = <<>> /\ answers' = <<>> /\ heard' = 0 /\ ~pending' /\ segs'.finalizing = 0 /\ ~segs'.needsNew
      /\ sender'.at = "get" /\ input'.at = "read" /\ run' = "wait"
    BY TaskFacts, PartKit DEF Order, Fresh, StartOk, Results
<1>2. DOMAIN audio' = {} /\ DOMAIN answers' = {}
    BY <1>1
<1>3. ~Replied' /\ ~Cut'
    BY <1>1, <1>2 DEF Replied, Cut, CutHeld, CutQueued
<1>4. Fresh' /\ CloseMeans' /\ Replies' /\ Segments'
    BY <1>1, <1>2, <1>3 DEF Fresh, CloseMeans, Replies, Segments, Final
<1>5. Marks' /\ Spoken'
    BY <1>1, <1>2, <1>3 DEF Marks, Spoken, Unput, CutHeld, Final
<1> QED
    BY <1>4, <1>5 DEF Order, Sent

\* Every way an item joins the queue: at its end, where it is behind all others.
LEMMA AudioGrows ==
    ASSUME Shape, NEW x \in ItemRec, audio' = Append(audio, x)
    PROVE  \E n \in Nat :
             /\ DOMAIN audio = 1 .. n /\ DOMAIN audio' = 1 .. n + 1
             /\ \A i \in 1 .. n : audio'[i] = audio[i]
             /\ audio'[n + 1] = x
             /\ CutQueued' <=> CutQueued \/ x.k = "flush"
             /\ \A i \in 1 .. n : CutBehind(i)' <=> CutBehind(i) \/ x.k = "flush"
             /\ ~CutBehind(n + 1)'
<1>1. audio \in Seq(ItemRec)
    BY Ground
<1>2. PICK n \in Nat : DOMAIN audio = 1 .. n /\ DOMAIN audio' = 1 .. n + 1
                       /\ (\A i \in 1 .. n : audio'[i] = audio[i]) /\ audio'[n + 1] = x
    BY <1>1
<1>3. CutQueued' <=> CutQueued \/ x.k = "flush"
    BY <1>2 DEF CutQueued
<1>4. ASSUME NEW i \in 1 .. n PROVE CutBehind(i)' <=> CutBehind(i) \/ x.k = "flush"
    BY <1>2, <1>4 DEF CutBehind
<1>5. ~CutBehind(n + 1)'
    BY <1>2 DEF CutBehind
<1> QED
    BY <1>2, <1>3, <1>4, <1>5

\* A chunk of the active segment joins the queue.
LEMMA OrderChunk ==
    ASSUME Shape, Order, NEW x \in ItemRec, x.k = "pcm", audio' = Append(audio, x),
           segs'.finalizing = segs.finalizing, x.seg = segs'.active, segs'.needsNew = FALSE,
           ~segs.needsNew => segs'.active = segs.active,
           UNCHANGED <<answers, heard, sender>>, input.at # "flush", input'.at # "flush", input.at # "done" \/ ~segs.needsNew
    PROVE  Sent'
<1> SUFFICES ASSUME Live PROVE Marks' /\ Spoken'
    BY DEF Sent, Live
<1>0. Marks /\ Spoken
    BY DEF Order, Sent
<1>1. PICK n \in Nat :
             /\ DOMAIN audio = 1 .. n /\ DOMAIN audio' = 1 .. n + 1
             /\ \A i \in 1 .. n : audio'[i] = audio[i]
             /\ audio'[n + 1] = x
             /\ CutQueued' <=> CutQueued \/ x.k = "flush"
             /\ \A i \in 1 .. n : CutBehind(i)' <=> CutBehind(i) \/ x.k = "flush"
             /\ ~CutBehind(n + 1)'
    BY AudioGrows
<1>2. ~Unput
    BY <1>0 DEF Marks
<1>3. (CutQueued' <=> CutQueued) /\ (CutHeld' <=> CutHeld) /\ (Cut' <=> Cut) /\ (Replied' <=> Replied) /\ (Unput' <=> Unput)
    <2>1. (CutQueued' <=> CutQueued) /\ (CutHeld' <=> CutHeld) /\ (Replied' <=> Replied)
        BY <1>1 DEF CutHeld, Replied
    <2> QED
        BY <2>1 DEF Cut, Unput, Final
<1>4. Marks'
    BY <1>0, <1>1, <1>2, <1>3 DEF Marks, Final
<1>5. Spoken'
    <2>1. \A i \in DOMAIN audio' : audio'[i].k = "pcm" => audio'[i].seg = IF CutBehind(i)' THEN Final' ELSE segs'.active
        BY <1>0, <1>1, <1>2 DEF Spoken, Final
    <2>2. sender'.at = "send" /\ sender'.event.k = "pcm" => sender'.event.seg = IF CutQueued' THEN Final' ELSE segs'.active
        BY <1>0, <1>2, <1>3 DEF Spoken, Final
    <2>3. heard' # 0 => heard' = IF Cut' THEN Final' ELSE segs'.active
        BY <1>0, <1>2, <1>3 DEF Spoken, Final
    <2> QED
        BY <2>1, <2>2, <2>3 DEF Spoken
<1> QED
    BY <1>4, <1>5

\* push_audio: the user may have gone on to the next segment while the flush is due.
LEMMA OrderPush ==
    ASSUME Shape, WayOut, Order, NEW chunk \in BOOLEAN, NEW rest \in BOOLEAN, Push(chunk, rest)
    PROVE  Order'
<1> DEFINE seg == IF segs.needsNew THEN segs.active + 1 ELSE segs.active
<1>0. UNCHANGED <<answers, heard, sender, closed, run>> /\ input.at = "read"
    BY DEF Push
<1>1. CASE closed \/ fatal # "none"
    <2>1. UNCHANGED <<audio, segs, pending>> /\ input'.at = "done"
        BY <1>1, CloserFields DEF Push, InputRaises
    <2> QED
        BY <1>0, <2>1, OrderCalm
<1>2. CASE ~(closed \/ fatal # "none")
    <2>1. /\ segs' = [segs EXCEPT !.active = seg, !.needsNew = FALSE] /\ pending' = rest
          /\ \/ UNCHANGED audio
             \/ audio' = Append(audio, Chunk(seg))
          /\ input' = input \/ input' = Part("done", "retry")
        BY <1>2 DEF Push, InputRaises
    <2>2. segs \in SegsRec /\ seg \in Nat /\ (~segs.needsNew => seg = segs.active)
        BY Ground
    <2> HIDE DEF seg
    <2>3. segs'.active = seg /\ segs'.finalizing = segs.finalizing /\ segs'.needsNew = FALSE
        BY <2>1, <2>2, SegsMade
    <2>4. input'.at \in {"read", "done"}
        BY <1>0, <2>1, CloserFields
    <2>5. ~closed /\ run # "start"
        <3>1. run # "start"
            BY <1>0 DEF WayOut
        <3> QED
            BY <1>2, <3>1
    <2>6. Fresh' /\ Segments'
        BY <1>0, <2>3, <2>4, <2>5 DEF Fresh, Segments, Final
    <2>a. Chunk(seg) \in ItemRec /\ Chunk(seg).k = "pcm" /\ Chunk(seg).seg = seg
        BY <2>2, Made DEF Chunk
    <2>7. CloseMeans'
        <3>1. CASE UNCHANGED audio
            BY <1>0, <3>1 DEF Order, CloseMeans
        <3>2. CASE audio' = Append(audio, Chunk(seg))
            BY <1>0, <2>a, <3>2, AudioGrows DEF Order, CloseMeans
        <3> QED
            BY <2>1, <3>1, <3>2
    <2>8. Replies'
        BY <1>0, <2>3, <2>5 DEF Order, Replies, Replied, ReplyBefore, Label, Final
    <2>9. Sent'
        <3>1. CASE UNCHANGED audio
            <4> SUFFICES ASSUME Live PROVE Marks' /\ Spoken'
                BY <1>0 DEF Sent, Live
            <4>1. Marks /\ Spoken /\ ~Unput
                BY <1>0 DEF Order, Sent, Marks
            <4>2. /\ UNCHANGED <<CutHeld, CutQueued, Cut, Replied, Unput, Final>>
                  /\ \A i : CutBehind(i)' = CutBehind(i)
                BY <1>0, <2>3, <3>1 DEF CutHeld, CutQueued, Cut, Replied, Unput, CutBehind, Final
            <4>3. Marks'
                BY <1>0, <2>4, <3>1, <4>1, <4>2 DEF Marks
            <4>4. Spoken'
                BY <1>0, <2>2, <2>3, <3>1, <4>1, <4>2 DEF Spoken
            <4> QED
                BY <4>3, <4>4
        <3>2. CASE audio' = Append(audio, Chunk(seg))
            BY <1>0, <2>2, <2>3, <2>4, <2>a, <3>2, OrderChunk
        <3> QED
            BY <2>1, <3>1, <3>2
    <2> QED
        BY <2>6, <2>7, <2>8, <2>9 DEF Order
<1> QED
    BY <1>1, <1>2

\* flush: the segment is closed before its marker is put.
LEMMA OrderFlush ==
    ASSUME Shape, WayOut, Order, Flush
    PROVE  Order'
<1>0. UNCHANGED <<answers, heard, sender, closed, run>> /\ input.at = "read" /\ run # "start"
    BY DEF Flush, WayOut
<1>1. CASE UNCHANGED <<audio, pending, segs>> /\ (UNCHANGED input \/ input'.at = "done")
    BY <1>0, <1>1, OrderCalm
<1>2. CASE /\ pending' = FALSE /\ UNCHANGED <<audio, segs>> /\ input'.at = "done"
    <2>1. Fresh' /\ CloseMeans' /\ Replies' /\ Segments'
        BY <1>0, <1>2 DEF Order, Fresh, CloseMeans, Replies, Segments, ReplyBefore, Replied, Label,
           Final
    <2>2. Sent'
        BY <1>0, <1>2 DEF Order, Sent, Live, Marks, Spoken, Cut, CutHeld, CutQueued, CutBehind,
           Replied, Unput, Final
    <2> QED
        BY <2>1, <2>2 DEF Order
<1>3. CASE /\ ~closed /\ segs.finalizing = 0 /\ pending' = FALSE
           /\ UNCHANGED audio \/ (pending /\ audio' = Append(audio, Chunk(segs.active)))
           /\ segs' = [segs EXCEPT !.finalizing = segs.active, !.needsNew = TRUE]
           /\ input'.at = "flush"
    <2>1. /\ segs'.active = segs.active /\ segs'.finalizing = segs.active /\ segs'.needsNew = TRUE
          /\ segs.active \in Nat /\ segs.active # 0
        <3>1. segs \in SegsRec /\ segs.active \in Nat /\ segs.active # 0
            BY Ground
        <3> QED
            BY <1>3, <3>1, SegsMade
    <2>2. ~Replied /\ (\A i \in DOMAIN answers : answers[i].k = "online")
        BY <1>3 DEF Order, Replies, Replied, Final
    <2>3. Fresh' /\ Segments' /\ Replies'
        BY <1>0, <1>3, <2>1, <2>2 DEF Fresh, Segments, Replies, Replied, Final
    <2>4. Chunk(segs.active) \in ItemRec /\ Chunk(segs.active).k = "pcm" /\ Chunk(segs.active).seg = segs.active
        BY <2>1, Made DEF Chunk
    <2>5. CloseMeans'
        <3>1. CASE UNCHANGED audio
            BY <1>0, <3>1 DEF Order, CloseMeans
        <3>2. CASE audio' = Append(audio, Chunk(segs.active))
            BY <1>0, <2>4, <3>2, AudioGrows DEF Order, CloseMeans
        <3> QED
            BY <1>3, <3>1, <3>2
    <2>6. Sent'
        <3> SUFFICES ASSUME Live PROVE Marks' /\ Spoken'
            BY <1>0 DEF Sent, Live
        <3>1. Marks /\ Spoken /\ ~Cut
            BY <1>3 DEF Order, Sent, Marks, Final
        <3>2. ~CutHeld /\ ~CutQueued /\ \A i \in DOMAIN audio : audio[i].k # "flush" /\ ~CutBehind(i)
            BY <3>1 DEF Cut, CutQueued, CutBehind
        <3>3. \A i \in DOMAIN audio : audio[i].k = "pcm" => audio[i].seg = segs.active
            BY <3>1, <3>2 DEF Spoken
        <3>4. \A i \in DOMAIN audio' : audio'[i].k # "flush" /\ (audio'[i].k = "pcm" => audio'[i].seg = segs.active)
            <4>1. CASE UNCHANGED audio
                BY <3>2, <3>3, <4>1
            <4>2. CASE audio' = Append(audio, Chunk(segs.active))
                BY <2>4, <3>2, <3>3, <4>2, AudioGrows
            <4> QED
                BY <1>3, <4>1, <4>2
        <3>5. ~CutHeld' /\ ~CutQueued' /\ ~Cut' /\ ~Replied' /\ (\A i : ~CutBehind(i)')
            BY <1>0, <2>2, <3>2, <3>4 DEF CutHeld, CutQueued, Cut, CutBehind, Replied
        <3>6. Unput' /\ Final' = segs.active /\ Final' # 0
            BY <2>1, <3>5 DEF Unput, Final
        <3>7. Marks'
            BY <1>0, <1>3, <2>1, <2>2, <3>4, <3>5, <3>6 DEF Marks
        <3>8. Spoken'
            <4>1. sender'.at = "send" /\ sender'.event.k = "pcm" => sender'.event.seg = segs.active
                BY <1>0, <3>1, <3>2 DEF Spoken
            <4>2. heard' # 0 => heard' = segs.active
                BY <1>0, <3>1 DEF Spoken
            <4> QED
                BY <2>1, <3>4, <3>5, <3>6, <4>1, <4>2 DEF Spoken
        <3> QED
            BY <3>7, <3>8
    <2> QED
        BY <2>3, <2>5, <2>6 DEF Order
<1> QED
    <2>1. Part("done", "retry").at = "done" /\ Part("flush", "none").at = "flush"
        BY CloserFields
    <2>2. CASE closed
        BY <1>1, <2>2 DEF Flush
    <2>3. CASE ~closed /\ ~FlushGuard
        BY <1>1, <2>1, <2>3 DEF Flush, InputRaises
    <2>4. CASE ~closed /\ FlushGuard /\ pending /\ AudioFull
        BY <1>2, <2>1, <2>4 DEF Flush, InputRaises
    <2>5. CASE ~closed /\ FlushGuard /\ ~(pending /\ AudioFull)
        BY <1>3, <2>1, <2>5 DEF Flush, FlushGuard
    <2> QED
        BY <2>2, <2>3, <2>4, <2>5

\* The marker of the flush follows the audio of its segment.
LEMMA OrderFlushPut ==
    ASSUME Shape, WayOut, Order, FlushPut
    PROVE  Order'
<1>0. /\ UNCHANGED <<answers, segs, heard, pending, sender, closed, run>>
      /\ input.at = "flush" /\ input'.at = "read" /\ run # "start"
    BY CloserFields DEF FlushPut, WayOut
<1>1. Marker("flush") \in ItemRec /\ Marker("flush").k = "flush" /\ audio' = Append(audio, Marker("flush"))
    BY Made DEF FlushPut, Marker
<1>2. PICK n \in Nat :
             /\ DOMAIN audio = 1 .. n /\ DOMAIN audio' = 1 .. n + 1
             /\ \A i \in 1 .. n : audio'[i] = audio[i]
             /\ audio'[n + 1] = Marker("flush")
             /\ CutQueued' <=> CutQueued \/ Marker("flush").k = "flush"
             /\ \A i \in 1 .. n : CutBehind(i)' <=> CutBehind(i) \/ Marker("flush").k = "flush"
             /\ ~CutBehind(n + 1)'
    BY <1>1, AudioGrows
<1>3. Fresh' /\ Segments' /\ Replies'
    BY <1>0 DEF Order, Fresh, Segments, Replies, ReplyBefore, Replied, Label, Final
<1>4. CloseMeans'
    BY <1>0, <1>1, <1>2 DEF Order, CloseMeans
<1>5. Sent'
    <2> SUFFICES ASSUME Live PROVE Marks' /\ Spoken'
        BY <1>0 DEF Sent, Live
    <2>1. Marks /\ Spoken /\ ~Cut /\ ~Replied /\ Final # 0 /\ segs.needsNew /\ Final = segs.active
        BY <1>0 DEF Order, Segments, Sent, Marks
    <2>2. ~CutHeld /\ ~CutQueued /\ \A i \in DOMAIN audio : audio[i].k # "flush" /\ ~CutBehind(i)
        BY <2>1 DEF Cut, CutQueued, CutBehind
    <2>3. ~CutHeld' /\ CutQueued' /\ Cut' /\ ~Replied' /\ ~Unput' /\ Final' = segs.active
        BY <1>0, <1>1, <1>2, <2>1, <2>2 DEF CutHeld, Cut, Unput, Replied, Final
    <2>4. Marks'
        BY <1>0, <1>1, <1>2, <2>1, <2>2, <2>3 DEF Marks
    <2>5. Spoken'
        BY <1>0, <1>1, <1>2, <2>1, <2>2, <2>3 DEF Spoken
    <2> QED
        BY <2>4, <2>5
<1> QED
    BY <1>3, <1>4, <1>5 DEF Order

\* A flush that cannot be put is taken back.
LEMMA OrderFlushTimeout ==
    ASSUME Shape, WayOut, Order, FlushTimeout
    PROVE  Order'
<1>0. /\ UNCHANGED <<audio, answers, heard, pending, sender, closed, run>>
      /\ input.at = "flush" /\ input'.at = "done" /\ run # "start"
    BY CloserFields DEF FlushTimeout, InputRaises, WayOut
<1>1. segs'.active = segs.active /\ segs'.finalizing = 0 /\ segs'.needsNew = FALSE
    <2>1. segs' = [[segs EXCEPT !.finalizing = 0] EXCEPT !.needsNew = FALSE]
        BY Zenon DEF FlushTimeout
    <2>2. segs \in SegsRec
        BY Ground
    <2> QED
        BY <2>1, <2>2 DEF SegsRec
<1>2. Label = segs.active
    BY <1>0 DEF Order, Segments, Label, Final
<1>3. Fresh' /\ Segments' /\ CloseMeans'
    BY <1>0, <1>1 DEF Order, Fresh, Segments, CloseMeans
<1>4. Replies'
    BY <1>0, <1>1, <1>2 DEF Order, Segments, Replies, ReplyBefore, Replied, Label, Final
<1>5. Sent'
    <2> SUFFICES ASSUME Live PROVE Marks' /\ Spoken'
        BY <1>0 DEF Sent, Live
    <2>1. Marks /\ Spoken /\ ~Cut /\ ~Replied
        BY <1>0 DEF Order, Sent, Marks
    <2>2. ~CutHeld /\ ~CutQueued /\ \A i \in DOMAIN audio : audio[i].k # "flush" /\ ~CutBehind(i)
        BY <2>1 DEF Cut, CutQueued, CutBehind
    <2>3. ~CutHeld' /\ ~CutQueued' /\ ~Cut' /\ ~Replied' /\ ~Unput' /\ Final' = 0 /\ \A i \in DOMAIN audio : ~CutBehind(i)'
        BY <1>0, <1>1, <2>1, <2>2 DEF CutHeld, CutQueued, Cut, CutBehind, Unput, Replied, Final
    <2>4. Marks'
        BY <1>0, <2>1, <2>2, <2>3 DEF Marks
    <2>5. Spoken'
        BY <1>0, <1>1, <2>1, <2>2, <2>3 DEF Spoken
    <2> QED
        BY <2>4, <2>5
<1> QED
    BY <1>3, <1>4, <1>5 DEF Order

\* aclose puts the remainder, which is of the active segment, and its marker.
LEMMA OrderClosePut ==
    ASSUME Shape, WayOut, Order, ClosePut
    PROVE  Order'
<1>0. UNCHANGED <<answers, segs, heard, sender, input, closed, run>> /\ pending' \in {FALSE, pending} /\ closed
    BY DEF ClosePut, WayOut
<1>1. segs.active \in Nat /\ pending \in BOOLEAN
    BY Ground
<1>2. \/ UNCHANGED audio
      \/ pending /\ audio' = Append(audio, Chunk(segs.active))
      \/ audio' = Append(audio, Marker("close"))
    BY DEF ClosePut
<1>3. Fresh' /\ Segments' /\ Replies'
    <2>1. run # "start"
        BY DEF ClosePut, WayOut, NotStarted
    <2>2. pending' => pending
        BY <1>0, <1>1
    <2>3. Segments'
        BY <1>0, <2>2 DEF Order, Segments, ReplyBefore, Replied, Final
    <2> QED
        BY <1>0, <2>1, <2>3 DEF Order, Fresh, Replies, ReplyBefore, Replied, Label, Final
<1>4. CloseMeans'
    BY <1>0 DEF CloseMeans
<1>5. CASE UNCHANGED audio
    <2>1. Sent'
        BY <1>0, <1>5 DEF Order, Sent, Live, Marks, Spoken, Cut, CutHeld, CutQueued, CutBehind,
           Replied, Unput, Final
    <2> QED
        BY <1>3, <1>4, <2>1 DEF Order
<1>6. ASSUME NEW x \in ItemRec, x.k # "flush", audio' = Append(audio, x),
             x.k = "pcm" => x.seg = segs.active /\ ~segs.needsNew
      PROVE  Sent'
    <2> SUFFICES ASSUME Live PROVE Marks' /\ Spoken'
        BY <1>0 DEF Sent, Live
    <2>0. Marks /\ Spoken
        BY DEF Order, Sent
    <2>1. PICK n \in Nat :
             /\ DOMAIN audio = 1 .. n /\ DOMAIN audio' = 1 .. n + 1
             /\ \A i \in 1 .. n : audio'[i] = audio[i]
             /\ audio'[n + 1] = x
             /\ CutQueued' <=> CutQueued \/ x.k = "flush"
             /\ \A i \in 1 .. n : CutBehind(i)' <=> CutBehind(i) \/ x.k = "flush"
             /\ ~CutBehind(n + 1)'
        BY <1>6, AudioGrows
    <2>2. (CutQueued' <=> CutQueued) /\ (CutHeld' <=> CutHeld) /\ (Replied' <=> Replied)
        BY <1>0, <1>6, <2>1 DEF CutHeld, Replied
    <2>3. (Cut' <=> Cut) /\ (Unput' <=> Unput) /\ Final' = Final
        BY <1>0, <2>2 DEF Cut, Unput, Final
    <2>4. Marks'
        BY <1>0, <1>6, <2>0, <2>1, <2>2, <2>3 DEF Marks
    <2>5. Spoken'
        BY <1>0, <1>6, <2>0, <2>1, <2>2, <2>3 DEF Spoken
    <2> QED
        BY <2>4, <2>5
<1>7. CASE pending /\ audio' = Append(audio, Chunk(segs.active))
    <2>1. Chunk(segs.active) \in ItemRec /\ Chunk(segs.active).k = "pcm" /\ Chunk(segs.active).seg = segs.active
        BY <1>1, Made DEF Chunk
    <2>2. ~segs.needsNew
        BY <1>7 DEF Order, Segments
    <2> QED
        BY <1>3, <1>4, <1>6, <1>7, <2>1, <2>2 DEF Order
<1>8. CASE audio' = Append(audio, Marker("close"))
    <2>1. Marker("close") \in ItemRec /\ Marker("close").k = "close"
        BY Made DEF Marker
    <2> QED
        BY <1>3, <1>4, <1>6, <1>8, <2>1 DEF Order
<1> QED
    BY <1>2, <1>5, <1>7, <1>8

\* Hanging up forgets what the server had sent.
LEMMA OrderHangup ==
    ASSUME Shape, WayOut, Order, CloseHangup
    PROVE  Order'
<1>0. /\ UNCHANGED <<audio, segs, heard, pending, sender, closed, run>> /\ answers' = <<>> /\ closed
      /\ Ended(sender) /\ input'.at \in {input.at, "done"}
    BY CloserFields DEF CloseHangup, WayOut
<1>1. DOMAIN answers' = {}
    BY <1>0
<1>2. Fresh' /\ CloseMeans' /\ Replies' /\ Segments'
    BY <1>0, <1>1 DEF Order, Fresh, CloseMeans, Replies, Segments, Replied, Final
<1>3. Sent'
    BY <1>0 DEF Sent, Live, Ended
<1> QED
    BY <1>2, <1>3 DEF Order

\* The sending task takes the first item: what was behind it still is.
LEMMA OrderSenderGet ==
    ASSUME Shape, WayOut, Order, SenderGet
    PROVE  Order'
<1>0. /\ UNCHANGED <<answers, segs, heard, pending, input, closed, run>>
      /\ sender.at = "get" /\ sender'.at = "send" /\ sender'.event = Head(audio) /\ audio' = Tail(audio) /\ audio # <<>>
    BY TaskFacts DEF SenderGet
<1>1. PICK n \in Nat :
         /\ DOMAIN audio = 1 .. n + 1 /\ DOMAIN audio' = 1 .. n
         /\ \A i \in 1 .. n : audio'[i] = audio[i + 1]
         /\ Head(audio) = audio[1]
    <2>1. audio \in Seq(ItemRec)
        BY Ground
    <2>2. Len(audio) - 1 \in Nat /\ Len(audio) = (Len(audio) - 1) + 1 /\ Len(Tail(audio)) = Len(audio) - 1
        BY <1>0, <2>1
    <2>3. /\ DOMAIN audio = 1 .. (Len(audio) - 1) + 1 /\ DOMAIN audio' = 1 .. Len(audio) - 1
          /\ (\A i \in 1 .. Len(audio) - 1 : audio'[i] = audio[i + 1]) /\ Head(audio) = audio[1]
        BY <1>0, <2>1, <2>2
    <2> QED
        BY <2>2, <2>3
<1>2. Marks /\ Spoken
    BY <1>0 DEF Order, Sent, Live
<1>3. Fresh' /\ Replies' /\ Segments'
    <2>1. run # "start"
        BY <1>0 DEF WayOut, NotStarted, Ended
    <2> QED
        BY <1>0, <2>1 DEF Order, Fresh, Replies, Segments, ReplyBefore, Replied, Label, Final
<1>4. CloseMeans'
    BY <1>0, <1>1 DEF Order, CloseMeans
<1>5. /\ CutHeld' <=> audio[1].k = "flush"
      /\ CutQueued' <=> CutBehind(1)
      /\ \A i \in 1 .. n : CutBehind(i)' <=> CutBehind(i + 1)
    <2>1. CutHeld' <=> audio[1].k = "flush"
        BY <1>0, <1>1 DEF CutHeld
    <2>2. CutQueued' <=> CutBehind(1)
        <3>1. CutQueued' => CutBehind(1)
            BY <1>1 DEF CutQueued, CutBehind
        <3>2. ASSUME NEW j \in 1 .. n + 1, j > 1, audio[j].k = "flush" PROVE CutQueued'
            <4>1. j - 1 \in 1 .. n /\ audio'[j - 1] = audio[j]
                BY <1>1, <3>2
            <4> QED
                BY <1>1, <3>2, <4>1 DEF CutQueued
        <3> QED
            BY <1>1, <3>1, <3>2 DEF CutBehind
    <2>3. ASSUME NEW i \in 1 .. n PROVE CutBehind(i)' <=> CutBehind(i + 1)
        <3>1. CutBehind(i)' => CutBehind(i + 1)
            BY <1>1 DEF CutBehind
        <3>2. ASSUME NEW j \in 1 .. n + 1, j > i + 1, audio[j].k = "flush" PROVE CutBehind(i)'
            <4>1. j - 1 \in 1 .. n /\ audio'[j - 1] = audio[j] /\ j - 1 > i
                BY <1>1, <3>2
            <4> QED
                BY <1>1, <3>2, <4>1 DEF CutBehind
        <3> QED
            BY <1>1, <3>1, <3>2 DEF CutBehind
    <2> QED
        BY <2>1, <2>2, <2>3
<1>6. CutQueued <=> audio[1].k = "flush" \/ CutBehind(1)
    BY <1>1 DEF CutQueued, CutBehind
<1>7. ~CutHeld /\ (Cut' <=> Cut) /\ (Replied' <=> Replied) /\ (Unput' <=> Unput) /\ Final' = Final
    <2>1. ~CutHeld /\ (Cut' <=> Cut)
        BY <1>0, <1>5, <1>6 DEF Cut, CutHeld
    <2> QED
        BY <1>0, <2>1 DEF Replied, Unput, Final
<1>8. Marks'
    <2>1. \A i, j \in DOMAIN audio' : audio'[i].k = "flush" /\ audio'[j].k = "flush" => i = j
        BY <1>1, <1>2 DEF Marks
    <2>2. CutHeld' => ~CutQueued'
        BY <1>1, <1>2, <1>5 DEF Marks, CutBehind
    <2> QED
        BY <1>0, <1>2, <1>7, <2>1, <2>2 DEF Marks
<1>9. Spoken'
    <2>1. \A i \in DOMAIN audio' : audio'[i].k = "pcm" =>
            /\ audio'[i].seg = IF CutBehind(i)' THEN Final' ELSE segs'.active
            /\ segs'.needsNew => CutBehind(i)' \/ Unput'
        BY <1>0, <1>1, <1>2, <1>5, <1>7 DEF Spoken
    <2>2. audio[1].k = "pcm" =>
            /\ audio[1].seg = IF CutQueued' THEN Final' ELSE segs'.active
            /\ segs'.needsNew => CutQueued' \/ Unput'
        BY <1>0, <1>1, <1>2, <1>5, <1>7 DEF Spoken
    <2>3. heard' # 0 =>
            /\ heard' = IF Cut' THEN Final' ELSE segs'.active
            /\ segs'.needsNew => Cut' \/ Unput'
        BY <1>0, <1>2, <1>7 DEF Spoken
    <2> QED
        BY <1>0, <1>1, <2>1, <2>2, <2>3 DEF Spoken
<1> QED
    BY <1>3, <1>4, <1>8, <1>9 DEF Order, Sent

\* What the server answers joins the answers at their end.
LEMMA AnswersGrow ==
    ASSUME Shape, NEW x \in AnswerRec, answers' = Append(answers, x)
    PROVE  \E n \in Nat :
             /\ DOMAIN answers = 1 .. n /\ DOMAIN answers' = 1 .. n + 1
             /\ \A i \in 1 .. n : answers'[i] = answers[i]
             /\ answers'[n + 1] = x
             /\ Replied' <=> Replied \/ x.k # "online"
             /\ \A i \in 1 .. n : ReplyBefore(i)' <=> ReplyBefore(i)
             /\ ReplyBefore(n + 1)' <=> Replied
<1>1. answers \in Seq(AnswerRec)
    BY Ground
<1>2. PICK n \in Nat : DOMAIN answers = 1 .. n /\ DOMAIN answers' = 1 .. n + 1
                       /\ (\A i \in 1 .. n : answers'[i] = answers[i]) /\ answers'[n + 1] = x
    BY <1>1
<1>3. Replied' <=> Replied \/ x.k # "online"
    BY <1>2 DEF Replied
<1>4. ASSUME NEW i \in 1 .. n PROVE ReplyBefore(i)' <=> ReplyBefore(i)
    BY <1>2, <1>4 DEF ReplyBefore
<1>5. ReplyBefore(n + 1)' <=> Replied
    BY <1>2 DEF ReplyBefore, Replied
<1> QED
    BY <1>2, <1>3, <1>4, <1>5

\* The sends of one item, and what the server answers.
LEMMA OrderSenderSend ==
    ASSUME Shape, WayOut, Order, SenderSend
    PROVE  Order'
<1>0. /\ UNCHANGED <<audio, segs, pending, input, closed, run>> /\ sender.at = "send"
      /\ sender.event \in ItemRec /\ sender.event.seg \in Nat /\ heard \in Nat /\ answers \in Seq(AnswerRec)
      /\ run # "start"
    BY Ground DEF SenderSend, Shape, LocalShape, Holding, ItemRec, WayOut, NotStarted, Ended
<1>1. Marks /\ Spoken
    BY <1>0 DEF Order, Sent, Live
<1>2. Fresh'
    BY <1>0 DEF Fresh
<1>3. ASSUME UNCHANGED answers
      PROVE  Replies' /\ Segments'
    BY <1>0, <1>3 DEF Order, Replies, Segments, ReplyBefore, Replied, Label, Final
<1>4. ASSUME NEW s \in Nat, answers' = Append(answers, Event("online", 0, s))
      PROVE  Replies' /\ Segments' /\ (Replied' <=> Replied)
             /\ \A i, j \in DOMAIN answers' : answers'[i].k # "online" /\ answers'[j].k # "online" => i = j
    <2>1. Event("online", 0, s) \in AnswerRec /\ Event("online", 0, s).k = "online"
        BY Made DEF Event
    <2>2. PICK n \in Nat :
             /\ DOMAIN answers = 1 .. n /\ DOMAIN answers' = 1 .. n + 1
             /\ \A i \in 1 .. n : answers'[i] = answers[i]
             /\ answers'[n + 1] = Event("online", 0, s)
             /\ Replied' <=> Replied \/ Event("online", 0, s).k # "online"
             /\ \A i \in 1 .. n : ReplyBefore(i)' <=> ReplyBefore(i)
             /\ ReplyBefore(n + 1)' <=> Replied
        BY <1>4, <2>1, AnswersGrow
    <2>3. \A i \in 1 .. n + 1 : answers'[i].k # "online" => i \in 1 .. n
        BY <2>1, <2>2
    <2>4. Replies'
        BY <1>0, <2>1, <2>2, <2>3 DEF Order, Replies, Label, Final
    <2>5. Segments'
        BY <1>0, <2>1, <2>2, <2>3 DEF Order, Segments, Final
    <2> QED
        BY <1>1, <2>1, <2>2, <2>3, <2>4, <2>5 DEF Marks
<1>5. CASE sender.event.k = "pcm"
    <2>1. /\ heard' = sender.event.seg /\ sender'.at = "get"
          /\ UNCHANGED answers \/ answers' = Append(answers, Event("online", 0, sender.event.seg))
        <3>1. sender' = Task("get", EndMarker, "none") /\ heard' = sender.event.seg
            BY <1>5 DEF SenderSend
        <3>2. PICK a \in {<<>>, <<Event("online", 0, sender.event.seg)>>} : answers' = answers \o a
            BY <1>5 DEF SenderSend, Answers
        <3>3. answers \o <<>> = answers /\ \A x : answers \o <<x>> = Append(answers, x)
            BY <1>0
        <3> QED
            BY <3>1, <3>2, <3>3, TaskFacts
    <2>2. /\ Replies' /\ Segments' /\ (Replied' <=> Replied)
          /\ \A i, j \in DOMAIN answers' : answers'[i].k # "online" /\ answers'[j].k # "online" => i = j
        <3>1. CASE UNCHANGED answers
            BY <1>1, <1>3, <3>1 DEF Replied, Marks
        <3>2. CASE answers' = Append(answers, Event("online", 0, sender.event.seg))
            BY <1>0, <1>4, <3>2
        <3> QED
            BY <2>1, <3>1, <3>2
    <2>3. /\ ~CutHeld' /\ ~CutHeld /\ (CutQueued' <=> CutQueued) /\ (Cut' <=> Cut) /\ (Unput' <=> Unput) /\ Final' = Final
          /\ \A i : CutBehind(i)' <=> CutBehind(i)
        <3>1. ~CutHeld' /\ ~CutHeld /\ (CutQueued' <=> CutQueued) /\ Final' = Final /\ \A i : CutBehind(i)' <=> CutBehind(i)
            BY <1>0, <1>5, <2>1 DEF CutHeld, CutQueued, CutBehind, Final
        <3> QED
            BY <2>2, <3>1 DEF Cut, Unput
    <2>4. CloseMeans'
        BY <1>0, <2>1 DEF Order, CloseMeans
    <2>5. Marks'
        BY <1>0, <1>1, <2>2, <2>3 DEF Marks
    <2>6. Spoken'
        BY <1>0, <1>1, <1>5, <2>1, <2>3 DEF Spoken, Cut
    <2> QED
        BY <1>2, <2>2, <2>4, <2>5, <2>6 DEF Order, Sent
<1>6. ASSUME sender.event.k # "pcm"
      PROVE  /\ heard' = 0
             /\ \E x \in AnswerRec : /\ answers' = Append(answers, x) /\ x.k # "online"
                                     /\ x.k = "offline" => x.of = heard /\ heard # 0
    <2>1. heard' = 0
        BY <1>6 DEF SenderSend
    <2>2. PICK a \in {<<Event("empty", 0, heard)>>} \cup {<<Event("offline", 0, heard)>> : s \in {heard} \ {0}} :
            answers' = answers \o a
        BY <1>6 DEF SenderSend, Answers
    <2>3. \A x : answers \o <<x>> = Append(answers, x)
        BY <1>0
    <2>4. CASE a = <<Event("empty", 0, heard)>>
        <3>1. Event("empty", 0, heard) \in AnswerRec /\ Event("empty", 0, heard).k = "empty"
            BY <1>0, Made DEF Event
        <3> QED
            BY <2>1, <2>2, <2>3, <2>4, <3>1
    <2>5. CASE a = <<Event("offline", 0, heard)>> /\ heard # 0
        <3>1. Event("offline", 0, heard) \in AnswerRec /\ Event("offline", 0, heard).k = "offline" /\ Event("offline", 0, heard).of = heard
            BY <1>0, Made DEF Event
        <3> QED
            BY <2>1, <2>2, <2>3, <2>5, <3>1
    <2> QED
        BY <2>2, <2>4, <2>5
<1>7. ASSUME sender.event.k # "pcm", (Cut /\ ~Replied) \/ closed, closed \/ input.at # "flush"
      PROVE  Replies' /\ Segments'
    <2>1. PICK x \in AnswerRec : /\ answers' = Append(answers, x) /\ x.k # "online"
                                 /\ x.k = "offline" => x.of = heard /\ heard # 0
        BY <1>6, <1>7
    <2>2. PICK n \in Nat :
             /\ DOMAIN answers = 1 .. n /\ DOMAIN answers' = 1 .. n + 1
             /\ \A i \in 1 .. n : answers'[i] = answers[i]
             /\ answers'[n + 1] = x
             /\ Replied' <=> Replied \/ x.k # "online"
             /\ \A i \in 1 .. n : ReplyBefore(i)' <=> ReplyBefore(i)
             /\ ReplyBefore(n + 1)' <=> Replied
        BY <2>1, AnswersGrow
    <2>3. x.k = "offline" => x.of = IF Replied THEN segs.active ELSE Label
        <3> SUFFICES ASSUME heard # 0 PROVE heard = IF Replied THEN segs.active ELSE Label
            BY <2>1
        <3>1. CASE Cut
            BY <1>1, <3>1 DEF Marks, Spoken, Label
        <3>2. CASE ~Cut /\ (Replied \/ Final = 0)
            BY <1>1, <3>2 DEF Spoken, Label
        <3>3. CASE ~Cut /\ ~Replied /\ Final # 0
            <4>1. Unput /\ Final = segs.active
                BY <1>1, <3>3 DEF Order, Segments, Marks, Unput
            <4> QED
                BY <1>1, <3>3, <4>1 DEF Spoken, Label
        <3> QED
            BY <3>1, <3>2, <3>3
    <2>4. Replies'
        <3>1. \A i \in DOMAIN answers' :
                answers'[i].k = "offline" => answers'[i].of = IF ReplyBefore(i)' THEN segs.active ELSE Label
            BY <2>2, <2>3 DEF Order, Replies
        <3>2. \A i \in DOMAIN answers' : answers'[i].k # "online" /\ ReplyBefore(i)' => closed
            BY <1>7, <2>2 DEF Order, Replies
        <3>3. Replied' /\ Final = 0 => closed
            BY <1>1, <1>7 DEF Marks
        <3>4. Label' = Label /\ Final' = Final
            BY <1>0 DEF Label, Final
        <3> QED
            BY <1>0, <3>1, <3>2, <3>3, <3>4 DEF Replies
    <2>5. Segments'
        <3>1. input.at = "flush" => ~Replied /\ closed
            BY <1>1, <1>7 DEF Marks
        <3>2. input.at = "flush" => \A i \in DOMAIN answers' : answers'[i].k # "online" => ~ReplyBefore(i)'
            BY <2>2, <3>1 DEF Order, Segments
        <3> QED
            BY <1>0, <3>1, <3>2 DEF Order, Segments, Final
    <2> QED
        BY <2>4, <2>5
<1>8. CASE sender.event.k = "flush"
    <2>1. CutHeld /\ Cut /\ ~CutQueued /\ ~Replied /\ Final # 0 /\ input.at # "flush"
        BY <1>0, <1>1, <1>8 DEF Marks, Cut, CutHeld
    <2>2. Replies' /\ Segments' /\ heard' = 0
        BY <1>6, <1>7, <1>8, <2>1
    <2>3. sender'.at = "get"
        BY <1>8, TaskFacts DEF SenderSend
    <2>4. /\ ~CutHeld' /\ ~CutQueued' /\ Final' = Final
          /\ \A i \in DOMAIN audio : audio[i].k # "flush" /\ ~CutBehind(i) /\ ~CutBehind(i)'
        BY <1>0, <2>1, <2>3 DEF CutHeld, CutQueued, CutBehind, Final
    <2>5. Replied' /\ \A i, j \in DOMAIN answers' : answers'[i].k # "online" /\ answers'[j].k # "online" => i = j
        <3>1. PICK x \in AnswerRec : answers' = Append(answers, x) /\ x.k # "online"
            BY <1>6, <1>8
        <3> QED
            BY <2>1, <3>1, AnswersGrow DEF Replied
    <2>6. CloseMeans'
        BY <1>0, <2>3 DEF Order, CloseMeans
    <2>7. ~Cut' /\ ~Unput' /\ ~Unput
        BY <2>1, <2>4, <2>5 DEF Cut, Unput
    <2>8. Marks'
        BY <1>0, <2>1, <2>4, <2>5, <2>7 DEF Marks
    <2>9. Spoken'
        BY <1>0, <1>1, <2>2, <2>3, <2>4, <2>7 DEF Spoken
    <2> QED
        BY <1>2, <2>2, <2>6, <2>8, <2>9 DEF Order, Sent
<1>9. CASE sender.event.k = "close"
    <2>1. closed
        BY <1>0, <1>9 DEF Order, CloseMeans
    <2>2. Replies' /\ Segments'
        BY <1>7, <1>9, <2>1
    <2>3. sender'.at = "done"
        BY <1>9, TaskFacts DEF SenderSend, Finished
    <2> QED
        BY <1>0, <1>2, <2>1, <2>2, <2>3 DEF Order, CloseMeans, Sent, Live
<1> QED
    BY <1>0, <1>5, <1>8, <1>9 DEF ItemRec

\* The receiver takes an answer: an offline one closes the flush before it.
LEMMA OrderReceiverReads ==
    ASSUME Shape, WayOut, Order, ReceiverReads
    PROVE  Order'
<1>0. /\ UNCHANGED <<audio, heard, pending, sender, input, closed, run>>
      /\ answers' = Tail(answers) /\ answers # <<>> /\ receiver.at = "recv" /\ run # "start"
    BY DEF ReceiverReads, WayOut, NotStarted, Ended
<1>1. PICK n \in Nat :
         /\ DOMAIN answers = 1 .. n + 1 /\ DOMAIN answers' = 1 .. n
         /\ \A i \in 1 .. n : answers'[i] = answers[i + 1]
         /\ Head(answers) = answers[1]
    <2>1. answers \in Seq(AnswerRec)
        BY Ground
    <2>2. Len(answers) - 1 \in Nat /\ Len(answers) = (Len(answers) - 1) + 1 /\ Len(Tail(answers)) = Len(answers) - 1
        BY <1>0, <2>1
    <2>3. /\ DOMAIN answers = 1 .. (Len(answers) - 1) + 1 /\ DOMAIN answers' = 1 .. Len(answers) - 1
          /\ (\A i \in 1 .. Len(answers) - 1 : answers'[i] = answers[i + 1]) /\ Head(answers) = answers[1]
        BY <1>0, <2>1, <2>2
    <2> QED
        BY <2>2, <2>3
<1>2. \A i \in 1 .. n : ReplyBefore(i + 1) <=> answers[1].k # "online" \/ ReplyBefore(i)'
    <2> SUFFICES ASSUME NEW i \in 1 .. n PROVE ReplyBefore(i + 1) <=> answers[1].k # "online" \/ ReplyBefore(i)'
        OBVIOUS
    <2>1. answers[1].k # "online" \/ ReplyBefore(i)' => ReplyBefore(i + 1)
        <3>1. 1 \in DOMAIN answers /\ 1 < i + 1
            BY <1>1
        <3>2. ASSUME NEW j \in 1 .. n, j < i, answers'[j].k # "online" PROVE ReplyBefore(i + 1)
            <4>1. j + 1 \in DOMAIN answers /\ j + 1 < i + 1 /\ answers[j + 1].k # "online"
                BY <1>1, <3>2
            <4> QED
                BY <4>1 DEF ReplyBefore
        <3> QED
            BY <1>1, <3>1, <3>2 DEF ReplyBefore
    <2>2. ASSUME NEW j \in 1 .. n + 1, j < i + 1, answers[j].k # "online", answers[1].k = "online" PROVE ReplyBefore(i)'
        <3>1. j - 1 \in 1 .. n /\ answers'[j - 1] = answers[j] /\ j - 1 < i
            BY <1>1, <2>2
        <3> QED
            BY <1>1, <2>2, <3>1 DEF ReplyBefore
    <2> QED
        BY <1>1, <2>1, <2>2 DEF ReplyBefore
<1>3. Replied <=> answers[1].k # "online" \/ Replied'
    <2>1. answers[1].k # "online" \/ Replied' => Replied
        BY <1>1 DEF Replied
    <2>2. ASSUME NEW j \in 1 .. n + 1, answers[j].k # "online", answers[1].k = "online" PROVE Replied'
        <3>1. j - 1 \in 1 .. n /\ answers'[j - 1] = answers[j]
            BY <1>1, <2>2
        <3> QED
            BY <1>1, <2>2, <3>1 DEF Replied
    <2> QED
        BY <1>1, <2>1, <2>2 DEF Replied
<1>4. Fresh' /\ CloseMeans'
    BY <1>0 DEF Order, Fresh, CloseMeans
<1>5. CASE answers[1].k = "online"
    <2>1. UNCHANGED segs /\ (Replied' <=> Replied) /\ Label' = Label /\ Final' = Final
          /\ \A i \in 1 .. n : ReplyBefore(i + 1) <=> ReplyBefore(i)'
        <3>1. UNCHANGED segs
            BY <1>1, <1>5 DEF ReceiverReads
        <3> QED
            BY <1>2, <1>3, <1>5, <3>1 DEF Label, Final
    <2>2. Replies'
        BY <1>0, <1>1, <2>1 DEF Order, Replies
    <2>3. Segments'
        BY <1>0, <1>1, <2>1 DEF Order, Segments
    <2>4. Sent'
        <3> SUFFICES ASSUME Live PROVE Marks' /\ Spoken'
            BY <1>0 DEF Sent, Live
        <3>1. Marks /\ Spoken
            BY DEF Order, Sent
        <3>2. /\ (CutHeld' <=> CutHeld) /\ (CutQueued' <=> CutQueued) /\ (Cut' <=> Cut) /\ (Unput' <=> Unput)
              /\ \A i : CutBehind(i)' <=> CutBehind(i)
            <4>1. (CutHeld' <=> CutHeld) /\ (CutQueued' <=> CutQueued) /\ \A i : CutBehind(i)' <=> CutBehind(i)
                BY <1>0 DEF CutHeld, CutQueued, CutBehind
            <4> QED
                BY <2>1, <4>1 DEF Cut, Unput
        <3>3. Marks'
            BY <1>0, <1>1, <2>1, <3>1, <3>2 DEF Marks
        <3>4. Spoken'
            BY <1>0, <2>1, <3>1, <3>2 DEF Spoken
        <3> QED
            BY <3>3, <3>4
    <2> QED
        BY <1>4, <2>2, <2>3, <2>4 DEF Order
<1>6. CASE answers[1].k # "online"
    <2>1. segs'.active = segs.active /\ segs'.finalizing = 0 /\ segs'.needsNew = segs.needsNew
        <3>1. segs \in SegsRec /\ segs' = [segs EXCEPT !.finalizing = 0]
            BY <1>1, <1>6, Ground DEF ReceiverReads
        <3> QED
            BY <3>1, SegsMade
    <2>2. Replied /\ \A i \in 1 .. n : ReplyBefore(i + 1)
        BY <1>2, <1>3, <1>6
    <2>3. Label' = segs.active /\ Final' = 0
        BY <2>1 DEF Label, Final
    <2>4. \A i \in 1 .. n : /\ answers'[i].k = "offline" => answers'[i].of = segs.active
                            /\ answers'[i].k # "online" => closed
        BY <1>1, <2>2 DEF Order, Replies
    <2>5. Replies'
        BY <1>0, <1>1, <2>1, <2>3, <2>4 DEF Replies, Replied
    <2>6. Segments'
        <3>1. input.at = "flush" => \A i \in 1 .. n : answers'[i].k = "online"
            BY <1>1, <2>2 DEF Order, Segments
        <3> QED
            BY <1>0, <1>1, <2>1, <2>3, <3>1 DEF Order, Segments, Replied
    <2>7. Sent'
        <3> SUFFICES ASSUME Live PROVE Marks' /\ Spoken'
            BY <1>0 DEF Sent, Live
        <3>1. Marks /\ Spoken /\ ~Cut /\ ~Unput /\ input.at # "flush"
            BY <2>2 DEF Order, Sent, Marks, Unput
        <3>2. ~CutHeld /\ ~CutQueued /\ \A i \in DOMAIN audio : audio[i].k # "flush" /\ ~CutBehind(i)
            BY <3>1 DEF Cut, CutQueued, CutBehind
        <3>3. /\ ~CutHeld' /\ ~CutQueued' /\ ~Cut' /\ ~Unput' /\ \A i \in DOMAIN audio : ~CutBehind(i)'
            BY <1>0, <2>3, <3>2 DEF CutHeld, CutQueued, Cut, Unput, CutBehind
        <3>4. ~Replied' /\ \A i \in DOMAIN answers' : answers'[i].k = "online"
            <4>1. \A i \in 1 .. n : answers[i + 1].k = "online"
                <5> SUFFICES ASSUME NEW i \in 1 .. n, answers[i + 1].k # "online" PROVE FALSE
                    OBVIOUS
                <5>1. i + 1 \in DOMAIN answers /\ 1 \in DOMAIN answers /\ i + 1 # 1
                    BY <1>1
                <5> QED
                    BY <1>6, <3>1, <5>1 DEF Marks
            <4> QED
                BY <1>1, <4>1 DEF Replied
        <3>5. Marks'
            BY <1>0, <3>1, <3>2, <3>3, <3>4 DEF Marks
        <3>6. Spoken'
            BY <1>0, <2>1, <2>3, <3>1, <3>2, <3>3 DEF Spoken
        <3> QED
            BY <3>5, <3>6
    <2> QED
        BY <1>4, <2>5, <2>6, <2>7 DEF Order
<1> QED
    BY <1>5, <1>6

\* The steps of the local transport.
LEMMA OrderLocal ==
    ASSUME Shape, WayOut, Order, LocalSteps \/ LocalWorld
    PROVE  Order'
<1>1. CASE \E chunk, rest \in BOOLEAN : Push(chunk, rest)
    BY <1>1, OrderPush
<1>2. CASE Flush
    BY <1>2, OrderFlush
<1>3. CASE EndOfInput
    BY <1>3, OrderCalm, CloserFields DEF EndOfInput, commonVars
<1>4. CASE RunCancelled
    BY <1>4, OrderCalm DEF RunCancelled, commonVars
<1>5. CASE StartOk
    BY <1>5, OrderStarts
<1>6. CASE SenderSend
    BY <1>6, OrderSenderSend
<1>7. CASE Garbage
    BY <1>7, OrderCalm DEF Garbage, ReceiverRaises, localVars, commonVars
<1>8. CASE \E e \in Failures : StartFails(e)
    BY <1>8, OrderCalm DEF StartFails, commonVars
<1>9. CASE FlushPut
    BY <1>9, OrderFlushPut
<1>10. CASE FlushTimeout
    BY <1>10, OrderFlushTimeout
<1>11. CASE ClosePut
    BY <1>11, OrderClosePut
<1>12. CASE CloseWait
    BY <1>12, OrderCalm DEF CloseWait, CloserAt, commonVars
<1>13. CASE CloseReap
    BY <1>13, OrderSilent, TaskFacts DEF CloseReap, CloserAt, Stopped, Finished
<1>14. CASE CloseHangup
    BY <1>14, OrderHangup
<1>15. CASE SenderGet
    BY <1>15, OrderSenderGet
<1>16. CASE SenderFails
    BY <1>16, OrderSilent, TaskFacts DEF SenderFails, Stopped, Finished
<1>17. CASE ReceiverReads
    BY <1>17, OrderReceiverReads
<1>18. CASE ReceiverPuts
    BY <1>18, OrderCalm DEF ReceiverPuts, localVars, commonVars
<1>19. CASE ReceiverFails
    BY <1>19, OrderCalm DEF ReceiverFails, ReceiverRaises, localVars, commonVars
<1>20. CASE ConsumerReads
    BY <1>20, OrderCalm DEF ConsumerReads, commonVars
<1>21. CASE RunWakes
    BY <1>21, OrderCalm DEF RunWakes, commonVars
<1>22. CASE RunDrained
    BY <1>22, OrderCalm DEF RunDrained, commonVars
<1>23. CASE RunCloses
    BY <1>23, OrderCalm DEF RunCloses, commonVars
<1>24. CASE RunClosed
    BY <1>24, OrderCalm DEF RunClosed, commonVars
<1>25. CASE RunStops
    BY <1>25, OrderCalm, CloserFields DEF RunStops, InputCancelled, commonVars
<1>26. CASE RunStopped
    BY <1>26, OrderCalm DEF RunStopped, commonVars
<1>27. CASE RunCancelledLeaving
    BY <1>27, OrderCalm DEF RunCancelledLeaving, commonVars
<1> QED
    BY <1>1, <1>2, <1>3, <1>4, <1>5, <1>6, <1>7, <1>8, <1>9, <1>10, <1>11, <1>12, <1>13, <1>14,
       <1>15, <1>16, <1>17, <1>18, <1>19, <1>20, <1>21, <1>22, <1>23, <1>24, <1>25, <1>26, <1>27 DEF
       LocalSteps, LocalWorld, Aclose

----------------------------------------------------------------------------
(* What has been handed on.                                                *)

\* _end_events adds no final and moves none.
LEMMA NamedEnds ==
    ASSUME Shape, Named
    PROVE  \A i \in DOMAIN EndEvents(events, ended) :
             EndEvents(events, ended)[i].k = "final" =>
               EndEvents(events, ended)[i].seg = EndEvents(events, ended)[i].of
<1>1. events \in Seq(EventRec) /\ EndMarker.k = "end" /\ EventCap \in Nat /\ EventCap > 0
    BY Ground, AudioCapAssumption DEF EndMarker, Event, EventCap
<1>2. \A i \in DOMAIN events : events[i].k = "final" => events[i].seg = events[i].of
    BY DEF Named
<1>3. CASE ended
    BY <1>2, <1>3 DEF EndEvents
<1>4. CASE ~ended /\ Len(events) < EventCap
    <2>1. EndEvents(events, ended) = Append(events, EndMarker)
        BY <1>1, <1>4 DEF EndEvents
    <2> QED
        BY <1>1, <1>2, <2>1
<1>5. CASE ~ended /\ Len(events) >= EventCap
    <2>1. EndEvents(events, ended) = Append(Tail(events), EndMarker) /\ events # <<>>
        BY <1>1, <1>5 DEF EndEvents
    <2>2. PICK t \in Seq(EventRec) : t = Tail(events) /\ \A i \in DOMAIN t : i + 1 \in DOMAIN events /\ t[i] = events[i + 1]
        <3>1. Tail(events) \in Seq(EventRec) /\ Len(Tail(events)) = Len(events) - 1 /\ Len(events) \in Nat /\ Len(events) > 0
            BY <1>1, <2>1
        <3>2. DOMAIN Tail(events) = 1 .. Len(events) - 1 /\ DOMAIN events = 1 .. Len(events)
            BY <1>1, <3>1
        <3>3. \A i \in 1 .. Len(events) - 1 : i + 1 \in 1 .. Len(events) /\ Tail(events)[i] = events[i + 1]
            BY <1>1, <3>1
        <3> QED
            BY <3>1, <3>2, <3>3
    <2>3. \A i \in DOMAIN t : t[i].k = "final" => t[i].seg = t[i].of
        BY <1>2, <2>2
    <2>4. EndEvents(events, ended) = Append(t, EndMarker)
        BY <2>1, <2>2
    <2> QED
        BY <1>1, <2>2, <2>3, <2>4
<1> QED
    BY <1>1, <1>3, <1>4, <1>5

\* What the consumers do to the events.
LEMMA NamedEvents ==
    ASSUME Shape, Named,
           \/ UNCHANGED events
           \/ events' = EndEvents(events, ended)
           \/ events # <<>> /\ events' = Tail(events)
           \/ receiver.at = "put" /\ events' = Append(events, receiver.event)
    PROVE  \A i \in DOMAIN events' : events'[i].k = "final" => events'[i].seg = events'[i].of
<1>1. events \in Seq(EventRec) /\ receiver.event \in EventRec
    BY Ground, Fields
<1>2. \A i \in DOMAIN events : events[i].k = "final" => events[i].seg = events[i].of
    BY DEF Named
<1>3. CASE events' = EndEvents(events, ended)
    BY <1>3, NamedEnds
<1>4. CASE events # <<>> /\ events' = Tail(events)
    BY <1>1, <1>2, <1>4
<1>5. CASE receiver.at = "put" /\ events' = Append(events, receiver.event)
    <2>1. receiver.event.k = "final" => receiver.event.seg = receiver.event.of
        BY <1>5 DEF Named
    <2> QED
        BY <1>1, <1>2, <1>5, <2>1
<1> QED
    BY <1>2, <1>3, <1>4, <1>5

\* What becomes of the receiver and the events in a step of the local transport.
LEMMA NamedLocal ==
    ASSUME Shape, Named, Order, LocalSteps \/ LocalWorld
    PROVE  Named'
<1>1. \/ UNCHANGED events
      \/ events' = EndEvents(events, ended)
      \/ events # <<>> /\ events' = Tail(events)
      \/ receiver.at = "put" /\ events' = Append(events, receiver.event)
    BY DEF LocalSteps, LocalWorld, Aclose, commonVars, ReceiverRaises, Push, Flush, EndOfInput,
       RunCancelled, RunCancelledLeaving, StartOk, SenderSend, Garbage, StartFails, FlushPut, FlushTimeout, ClosePut,
       CloseWait, CloseReap, CloseHangup, SenderGet, SenderFails, ReceiverReads, ReceiverPuts,
       ReceiverFails, ConsumerReads, RunWakes, RunDrained, RunCloses, RunClosed, RunStops,
       RunStopped
<1>2. receiver' = receiver \/ receiver'.at # "put" \/ ReceiverReads
    <2>1. ReceiverReads \/ receiver' \in {receiver, Task("recv", EndMarker, "none"), Finished("failed"), Stopped(receiver)}
        BY DEF LocalSteps, LocalWorld, Aclose, commonVars, ReceiverRaises, Push, Flush, EndOfInput,
           RunCancelled, RunCancelledLeaving, StartOk, SenderSend, Garbage, StartFails, FlushPut, FlushTimeout, ClosePut,
           CloseWait, CloseReap, CloseHangup, SenderGet, SenderFails, ReceiverPuts, ReceiverFails,
           ConsumerReads, RunWakes, RunDrained, RunCloses, RunClosed, RunStops, RunStopped
    <2>2. /\ Task("recv", EndMarker, "none").at = "recv" /\ Finished("failed").at = "done"
          /\ Stopped(receiver).at # "put"
        BY TaskFacts DEF Finished, Stopped
    <2> QED
        BY <2>1, <2>2
<1>3. receiver'.at = "put" /\ receiver'.event.k = "final" => receiver'.event.seg = receiver'.event.of
    <2>1. CASE receiver' = receiver
        BY <2>1 DEF Named
    <2>2. CASE receiver'.at # "put"
        BY <2>2
    <2>3. CASE ReceiverReads
        <3>1. answers # <<>> /\ answers \in Seq(AnswerRec) /\ receiver.at = "recv"
            BY <2>3, Ground DEF ReceiverReads
        <3>2. 1 \in DOMAIN answers /\ Head(answers) = answers[1] /\ DOMAIN answers \subseteq Nat /\ \A j \in DOMAIN answers : ~(j < 1)
            BY <3>1
        <3>3. answers[1].k = "offline" => answers[1].of = Label
            BY <3>2 DEF Order, Replies, ReplyBefore
        <3>4. Parsed(answers[1]).k = "final" => Parsed(answers[1]).seg = Parsed(answers[1]).of
            <4>1. CASE answers[1].k = "offline"
                BY <3>3, <4>1 DEF Parsed, Event, Label, Final
            <4>2. CASE answers[1].k # "offline"
                BY <4>2 DEF Parsed, Event
            <4> QED
                BY <4>1, <4>2
        <3>5. receiver' = receiver \/ receiver' = Task("put", Parsed(answers[1]), "none")
            BY <2>3, <3>2 DEF ReceiverReads
        <3> QED
            BY <3>1, <3>4, <3>5, TaskFacts
    <2> QED
        BY <1>2, <2>1, <2>2, <2>3
<1>4. \A i \in DOMAIN events' : events'[i].k = "final" => events'[i].seg = events'[i].of
    BY <1>1, NamedEvents
<1> QED
    BY <1>3, <1>4 DEF Named

\* The standalone transport has one segment.
LEMMA NamedStandalone ==
    ASSUME Shape, Named, StandaloneSteps \/ StandaloneWorld
    PROVE  Named'
<1>1. \/ UNCHANGED events
      \/ events' = EndEvents(events, ended)
      \/ events # <<>> /\ events' = Tail(events)
      \/ receiver.at = "put" /\ events' = Append(events, receiver.event)
    BY DEF StandaloneSteps, StandaloneWorld, commonVars, CallerCancelled, CallerCancelledClosing, RunnerConnects,
       RunnerSends, SegmentReads, CallerPuts, CallerReads, CallerTimesOut, CallerCloses,
       CallerMarks, CallerWaits, CallerReaps, CallerEnds, RunnerGets, RunnerFails, RunnerFinishes,
       RunnerCloses, SegmentLost, SegmentPuts
<1>2. receiver' = receiver \/ receiver'.at # "put" \/ \E m \in Messages : SegmentReads(m)
    <2>1. \/ \E m \in Messages : SegmentReads(m)
          \/ receiver' \in {receiver, Task("recv", EndMarker, "none"), Finished("ok"), Finished("retry"), Stopped(receiver)}
        BY DEF StandaloneSteps, StandaloneWorld, commonVars, SegmentClosed, RunnerRaises,
           CallerCancelled, CallerCancelledClosing, RunnerConnects, RunnerSends, CallerPuts, CallerReads, CallerTimesOut,
           CallerCloses, CallerMarks, CallerWaits, CallerReaps, CallerEnds, RunnerGets, RunnerFails,
           RunnerFinishes, RunnerCloses, SegmentLost, SegmentPuts
    <2>2. /\ Task("recv", EndMarker, "none").at = "recv" /\ Finished("ok").at = "done" /\ Finished("retry").at = "done"
          /\ Stopped(receiver).at # "put"
        BY TaskFacts DEF Finished, Stopped
    <2> QED
        BY <2>1, <2>2
<1>3. receiver'.at = "put" /\ receiver'.event.k = "final" => receiver'.event.seg = receiver'.event.of
    <2>1. CASE receiver' = receiver
        BY <2>1 DEF Named
    <2>2. CASE receiver'.at # "put"
        BY <2>2
    <2>3. CASE \E m \in Messages : SegmentReads(m)
        <3>1. \/ UNCHANGED receiver
              \/ receiver' \in {Finished("retry"), Finished("error")}
              \/ receiver' \in {Task("put", Event("final", 1, 1), "none"), Task("put", Event("interim", 1, 1), "none")}
            BY <2>3 DEF SegmentReads, Receives, Failures
        <3>2. Event("final", 1, 1).seg = Event("final", 1, 1).of /\ Event("interim", 1, 1).seg = Event("interim", 1, 1).of
            BY DEF Event
        <3> QED
            BY <3>1, <3>2, TaskFacts DEF Finished, Named
    <2> QED
        BY <1>2, <2>1, <2>2, <2>3
<1>4. \A i \in DOMAIN events' : events'[i].k = "final" => events'[i].seg = events'[i].of
    BY <1>1, NamedEvents
<1> QED
    BY <1>3, <1>4 DEF Named

\* All of it: what the labels rest on.
LabelInv == WayInv /\ Labels /\ Named

\* No audio, no answer, no event.
LEMMA LabelInit == Init => LabelInv
<1> SUFFICES ASSUME Init PROVE LabelInv
    OBVIOUS
<1>1. WayInv
    BY WayInit
<1>2. /\ audio = <<>> /\ answers = <<>> /\ events = <<>> /\ heard = 0 /\ ~pending
      /\ segs = [active |-> 1, finalizing |-> 0, needsNew |-> FALSE]
      /\ sender.at = "off" /\ input.at = "off" /\ receiver.at = "off"
    BY TaskFacts DEF Init, CommonInit, LocalInit, NoTask, Part
<1>3. DOMAIN audio = {} /\ DOMAIN answers = {} /\ DOMAIN events = {}
    BY <1>2
<1>4. Order
    BY <1>2, <1>3 DEF Order, Fresh, Segments, CloseMeans, Replies, Replied, Final, Sent, Live
<1>5. Named
    BY <1>2, <1>3 DEF Named
<1> QED
    BY <1>1, <1>4, <1>5 DEF LabelInv, Labels

\* Every step keeps the labels.
LEMMA LabelStep ==
    ASSUME LabelInv, [Next]_vars
    PROVE  LabelInv'
<1>0. WayInv' /\ Shape
    BY WayStep DEF LabelInv, WayInv
<1>1. CASE protocol = "local" /\ (LocalSteps \/ LocalWorld) /\ UNCHANGED standaloneVars
    <2>1. protocol' = protocol
        BY <1>1, LocalKeepsProtocol
    <2>2. WayOut /\ Order /\ Named
        BY <1>1 DEF LabelInv, WayInv, LocalReleased, Labels
    <2>3. Order' /\ Named'
        BY <1>0, <1>1, <2>2, OrderLocal, NamedLocal
    <2> QED
        BY <1>0, <2>3 DEF LabelInv, Labels
<1>2. CASE protocol = "standalone" /\ (StandaloneSteps \/ StandaloneWorld) /\ UNCHANGED localVars
    <2>1. protocol' = protocol
        BY <1>2, StandaloneKeepsProtocol
    <2>2. Named'
        BY <1>0, <1>2, NamedStandalone DEF LabelInv
    <2> QED
        BY <1>0, <1>2, <2>1, <2>2 DEF LabelInv, Labels
<1>3. CASE LinkLost /\ UNCHANGED <<localVars, standaloneVars>>
    <2>1. Order => Order'
        BY <1>3, OrderCalm DEF LinkLost, localVars
    <2>2. Named'
        BY <1>3 DEF LinkLost, Named, LabelInv
    <2> QED
        BY <1>0, <1>3, <2>1, <2>2 DEF LabelInv, Labels, LinkLost
<1>4. CASE UNCHANGED vars
    <2>1. Order => Order'
        BY <1>4, OrderCalm DEF vars, commonVars, localVars
    <2>2. Named' /\ protocol' = protocol
        BY <1>4 DEF vars, commonVars, Named, LabelInv
    <2> QED
        BY <1>0, <2>1, <2>2 DEF LabelInv, Labels
<1> QED
    BY <1>1, <1>2, <1>3, <1>4 DEF Next, Steps

\* The labels are kept in every reachable state.
LEMMA LabelAlways == Spec => []LabelInv
BY LabelInit, LabelStep, PTL DEF Spec

\* A final is labelled with the segment it was recognised from, although the label is read
\* when the answer comes, with pushes, a close and lost answers in between (_parse_message,
\* flush, aclose).
THEOREM FinalsNamed == Spec => []FinalNamesItsSegment
<1>1. LabelInv => FinalNamesItsSegment
    BY DEF LabelInv, Named, FinalNamesItsSegment
<1> QED
    BY <1>1, LabelAlways, PTL

=============================================================================
