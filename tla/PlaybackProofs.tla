---------------------------- MODULE PlaybackProofs ----------------------------
(***************************************************************************)
(* The types of PlaybackSystem and the server's account of playback,       *)
(* proved for any number of generations, speeches, packets and remembered  *)
(* records and any queue capacity: the layers agree, no record is          *)
(* forgotten too early or kept for ever, and no packet of a fenced         *)
(* response reaches the wire.                                              *)
(*                                                                         *)
(* Coordinated speaks only of the coordinator's variables, so that it is   *)
(* shown once per method; Methods says which method each step of the       *)
(* connection calls.                                                       *)
(***************************************************************************)
EXTENDS PlaybackSystem, SequenceTheorems, TLAPS

USE ResponseAssumption, ConnectionAssumption, EndpointAssumption, SystemAssumption

-----------------------------------------------------------------------------
(* Sequences and messages. *)

\* What a FIFO queue does: an element is appended, the head is taken.
LEMMA Queue ==
    ASSUME NEW S, NEW q \in Seq(S)
    PROVE  /\ <<>> \in Seq(S)
           /\ \A x \in S : Append(q, x) \in Seq(S) /\ <<x>> \in Seq(S)
           /\ q # <<>> => Head(q) \in S /\ Tail(q) \in Seq(S) /\ Len(q) > 0
           /\ \A r \in Seq(S) : q \o r \in Seq(S)
OBVIOUS

\* The messages of the wire are messages.
LEMMA Messages ==
    ASSUME NEW g \in Nat, NEW n \in Nat \cup {-1}, NEW b \in BOOLEAN,
           NEW o \in {"none", "completed", "cancelled", "stopped", "failed"}
    PROVE  /\ BeginMsg(g) \in Message /\ MediaMsg(g, n) \in Message /\ StopMsg(g, n) \in Message
           /\ StartedMsg(g, n) \in Message /\ CancelMsg(g, n) \in Message
           /\ CloseMsg \in Message /\ DisconnectMsg \in Message
           /\ EndMsg(g, o, n) \in Message /\ EndedMsg(g, o, b, n) \in Message
BY DEF Message, DownType, UpType, Plain, BeginMsg, MediaMsg, StopMsg, StartedMsg, CancelMsg, CloseMsg,
       DisconnectMsg, EndMsg, EndedMsg

\* The fields of a message.
LEMMA Fields ==
    ASSUME NEW m \in Message
    PROVE  m.gen \in Nat /\ m.arg \in Nat \cup {-1} /\ m.played \in BOOLEAN
           /\ m.outcome \in {"none", "completed", "cancelled", "stopped", "failed"}
BY DEF Message

-----------------------------------------------------------------------------
(* Types of the response coordinator. *)

\* Updates of a record are records.
LEMMA RecordUpdate ==
    ASSUME NEW r \in Record, NEW n \in MediaSeq, NEW k \in MediaSeq,
           NEW o \in {"none", "completed", "cancelled", "failed"}
    PROVE  /\ [r EXCEPT !.first = k, !.last = n] \in Record
           /\ [r EXCEPT !.stop = TRUE, !.outcome = o] \in Record
BY DEF Record

\* NewRecord is a record.
LEMMA NewRecordType ==
    ASSUME NEW e \in Nat
    PROVE  NewRecord(e) \in Record /\ NoRecord \in Record
BY DEF NewRecord, NoRecord, Record, MediaSeq, None

\* _remember_terminal keeps the types of the table and the deque.
LEMMA RememberType ==
    ASSUME ResponseTypeOK, NEW g \in Gens, NEW r \in [Gens -> Record], Remember(g, r)
    PROVE  rec' \in [Gens -> Record] /\ order' \in Seq(Gens)
<1>1. Append(order, g) \in Seq(Gens) /\ Append(order, g) # <<>>
    BY Queue DEF ResponseTypeOK
<1>2. Head(Append(order, g)) \in Gens /\ Tail(Append(order, g)) \in Seq(Gens)
    BY <1>1, Queue
<1> QED
    BY <1>1, <1>2, NewRecordType DEF Remember

\* The methods of the coordinator keep its types.
LEMMA CoordinatorTypes ==
    ASSUME ResponseTypeOK
    PROVE  /\ \A e \in Nat : Begin(e) => ResponseTypeOK'
           /\ \A g \in Nat, n \in Nat : NoteMedia(g, n) => ResponseTypeOK'
           /\ \A g \in Gens : Complete(g) => ResponseTypeOK'
           /\ \A g \in Nat : Fenceable(g) => g \in Gens
           /\ \A g \in Nat : Fence(g, "cancelled") => ResponseTypeOK'
           /\ \A g \in Nat : Known(g) /\ PlaybackStarted(g) => ResponseTypeOK'
           /\ \A g \in Nat : Known(g) /\ PlaybackEnded(g) => ResponseTypeOK'
           /\ CloseState => ResponseTypeOK'
<1>1. ASSUME NEW e \in Nat, Begin(e)
      PROVE  ResponseTypeOK'
    BY <1>1, NewRecordType DEF Begin, ResponseTypeOK, Gens
<1>2. ASSUME NEW g \in Nat, NEW n \in Nat, NoteMedia(g, n)
      PROVE  ResponseTypeOK'
    <2>1. g \in Gens /\ rec[g] \in Record /\ rec[g].first \in MediaSeq
        BY <1>2 DEF NoteMedia, Accepts, ResponseTypeOK, Record
    <2> DEFINE k == IF rec[g].first = None THEN n ELSE rec[g].first
    <2>2. rec' = [rec EXCEPT ![g] = [rec[g] EXCEPT !.first = k, !.last = n]]
        BY <1>2, <2>1 DEF NoteMedia, ResponseTypeOK, Record
    <2>3. [rec[g] EXCEPT !.first = k, !.last = n] \in Record
        BY <2>1, RecordUpdate DEF MediaSeq
    <2> QED
        BY <1>2, <2>1, <2>2, <2>3 DEF NoteMedia, ResponseTypeOK
<1>4. ASSUME NEW g \in Gens, Complete(g)
      PROVE  ResponseTypeOK'
    <2>1. rec[g] \in Record
        BY DEF ResponseTypeOK
    <2>2. [rec EXCEPT ![g].outcome = "completed"] \in [Gens -> Record]
        BY <2>1 DEF ResponseTypeOK, Record
    <2>3. rec' \in [Gens -> Record] /\ order' \in Seq(Gens)
        BY <1>4, <2>2, RememberType DEF Complete
    <2> QED
        BY <1>4, <2>3 DEF Complete, ResponseTypeOK
<1>5. ASSUME NEW g \in Nat, Fenceable(g)
      PROVE  g \in Gens
    BY <1>5 DEF Fenceable, ResponseTypeOK
<1>6. ASSUME NEW g \in Nat, Fence(g, "cancelled")
      PROVE  ResponseTypeOK'
    <2>1. g \in Gens
        BY <1>5, <1>6 DEF Fence
    <2> DEFINE o == IF g = active THEN "cancelled" ELSE rec[g].outcome
               r == [rec EXCEPT ![g].stop = TRUE, ![g].outcome = IF g = active THEN "cancelled" ELSE @]
    <2>2. rec[g] \in Record /\ o \in {"none", "completed", "cancelled", "failed"}
        BY <2>1 DEF ResponseTypeOK, Record
    <2>3. r = [rec EXCEPT ![g] = [rec[g] EXCEPT !.stop = TRUE, !.outcome = o]]
        BY <2>1, <2>2 DEF ResponseTypeOK, Record
    <2>4. r \in [Gens -> Record]
        <3>1. [rec[g] EXCEPT !.stop = TRUE, !.outcome = o] \in Record
            BY <2>2, RecordUpdate DEF MediaSeq
        <3> QED
            BY <2>1, <2>3, <3>1 DEF ResponseTypeOK
    <2>5. rec' \in [Gens -> Record] /\ order' \in Seq(Gens)
        BY <1>6, <2>1, <2>4, RememberType DEF Fence
    <2> QED
        BY <1>6, <2>5 DEF Fence, ResponseTypeOK
<1>7. ASSUME NEW g \in Nat, Known(g), PlaybackStarted(g) \/ PlaybackEnded(g)
      PROVE  ResponseTypeOK'
    <2>1. g \in Gens /\ rec[g] \in Record
        BY <1>7 DEF Known, ResponseTypeOK
    <2>2. rec' \in [Gens -> Record]
        <3>1. [rec EXCEPT ![g].started = TRUE] \in [Gens -> Record]
            BY <2>1 DEF ResponseTypeOK, Record
        <3>2. [rec EXCEPT ![g].ended = TRUE] \in [Gens -> Record]
            BY <2>1 DEF ResponseTypeOK, Record
        <3> QED
            BY <1>7, <3>1, <3>2 DEF PlaybackStarted, PlaybackEnded
    <2>3. playback' \in Gens \cup {0} /\ target' \in Gens \cup {0}
        BY <1>7 DEF PlaybackStarted, PlaybackEnded, ResponseTypeOK
    <2> QED
        BY <1>7, <2>2, <2>3 DEF PlaybackStarted, PlaybackEnded, ResponseTypeOK
<1>8. ASSUME CloseState
      PROVE  ResponseTypeOK'
    BY <1>8 DEF CloseState, ResponseTypeOK
<1> QED
    BY <1>1, <1>2, <1>4, <1>5, <1>6, <1>7, <1>8

-----------------------------------------------------------------------------
(* Types of the connection. *)

\* The messages that are not audio.
Control == {m \in Message : m.type # "media"}

\* What the types need to be inductive: a packet is being sent only if one is
\* left, and effects have only control messages to send.
SendLeft == seg.pc = "send" => seg.left > 0
ControlTodo == \A p \in Owners : eff[p].todo \in Seq(Control)

ServerType == ResponseTypeOK /\ WireTypeOK /\ ConnectionTypeOK /\ SendLeft /\ ControlTodo

\* The messages of a fence are control messages.
LEMMA Controls ==
    ASSUME NEW g \in Nat, NEW n \in Nat \cup {-1}, NEW o \in {"none", "completed", "cancelled", "stopped", "failed"}
    PROVE  BeginMsg(g) \in Control /\ StopMsg(g, n) \in Control /\ EndMsg(g, o, n) \in Control /\ CloseMsg \in Control
<1>1. BeginMsg(g) \in Message /\ StopMsg(g, n) \in Message /\ EndMsg(g, o, n) \in Message /\ CloseMsg \in Message
    BY Messages
<1> QED
    BY <1>1 DEF Control, BeginMsg, StopMsg, EndMsg, CloseMsg, Plain

\* A queue of control messages is a queue of messages.
LEMMA ControlQueue ==
    ASSUME NEW q \in Seq(Control), q # <<>>
    PROVE  Head(q) \in Control /\ Head(q) \in Message /\ Tail(q) \in Seq(Control)
BY Queue DEF Control

\* _close_impl leaves a well-typed connection.
LEMMA CloseTypes ==
    ASSUME ServerType, NEW c \in Causes, Close(c), up' \in Seq(Message)
    PROVE  ServerType'
<1>1. ResponseTypeOK'
    BY CoordinatorTypes DEF Close, ServerType
<1>2. WireTypeOK'
    <2>1. CloseMsg \in Message
        BY Messages
    <2> QED
        BY <2>1, Queue DEF Close, ServerType, WireTypeOK
<1>3. eff' = [p \in Owners |-> NoEffect] /\ seg' = NoSegment
    BY DEF Close
<1>4. ConnectionTypeOK'
    <2>1. prod' \in Producer
        BY DEF Close, ServerType, ConnectionTypeOK, Producer
    <2>2. eff' \in [Owners -> Effect]
        BY <1>3, Queue DEF NoEffect, Effect
    <2>3. seg' \in SegmentLoop /\ segq' \in Seq(QueueItem)
        BY <1>3, Queue DEF NoSegment, SegmentLoop, Close
    <2> QED
        BY <2>1, <2>2, <2>3 DEF Close, ServerType, ConnectionTypeOK
<1>5. SendLeft' /\ ControlTodo'
    <2>1. <<>> \in Seq(Control)
        OBVIOUS
    <2> QED
        BY <1>3, <2>1 DEF SendLeft, ControlTodo, NoEffect, NoSegment
<1> QED
    BY <1>1, <1>2, <1>4, <1>5 DEF ServerType

\* The updates of the agent's audio output keep its type.
LEMMA ProducerUpdate ==
    ASSUME NEW r \in Producer
    PROVE  /\ \A n \in Nat : [r EXCEPT !.st = "speaking", !.captured = 0, !.cut = FALSE, !.speech = n] \in Producer
           /\ \A n \in Nat, b \in BOOLEAN : [r EXCEPT !.captured = n, !.owed = b] \in Producer
           /\ \A n \in Nat : [r EXCEPT !.st = "waiting", !.wait = n] \in Producer
           /\ \A n, k \in Nat : [r EXCEPT !.st = "waiting", !.epoch = n, !.wait = k, !.cut = FALSE] \in Producer
           /\ \A n \in Nat : [r EXCEPT !.st = "idle", !.epoch = n] \in Producer
           /\ \A n \in Nat, b \in BOOLEAN : [r EXCEPT !.epoch = n, !.cut = b] \in Producer
           /\ \A n \in Nat : [r EXCEPT !.epoch = n] \in Producer
           /\ [r EXCEPT !.owed = FALSE] \in Producer
BY DEF Producer

\* The agent's audio output keeps the types.
LEMMA AgentTypes ==
    ASSUME ServerType, AgentNext
    PROVE  ServerType'
<1>1. prod \in Producer /\ segq \in Seq(QueueItem)
    BY DEF ServerType, ConnectionTypeOK
<1>2. prod.epoch \in Nat /\ prod.captured \in Nat /\ prod.speech \in Nat /\ prod.owed \in BOOLEAN
      /\ prod.epoch + 1 \in Nat /\ prod.speech + 1 \in Nat
    BY <1>1 DEF Producer
<1>3. SUFFICES UNCHANGED producerFrame /\ prod' \in Producer /\ segq' \in Seq(QueueItem)
    BY DEF ServerType, ConnectionTypeOK, ResponseTypeOK, WireTypeOK, SendLeft, ControlTodo,
           producerFrame, responseVars, wireVars
<1>4. CASE Speak
    <2>1. prod' = [prod EXCEPT !.st = "speaking", !.captured = 0, !.cut = FALSE, !.speech = prod.speech + 1]
        BY <1>1, <1>4 DEF Speak, Producer
    <2>2. prod' \in Producer
        BY <1>1, <1>2, <2>1, ProducerUpdate
    <2> QED
        BY <1>1, <1>4, <2>2 DEF Speak
<1>5. ASSUME NEW n \in SegmentSizes, EmitSegment(n)
      PROVE  UNCHANGED producerFrame /\ prod' \in Producer /\ segq' \in Seq(QueueItem)
    <2>1. n \in Nat
        OBVIOUS
    <2>2. [kind |-> "segment", epoch |-> prod.epoch, left |-> n] \in QueueItem
        BY <1>2, <2>1 DEF QueueItem
    <2>3. segq' \in Seq(QueueItem)
        BY <1>1, <1>5, <2>2, Queue DEF EmitSegment
    <2>4. prod' = [prod EXCEPT !.captured = prod.captured + n, !.owed = (prod.owed \/ prod.captured = 0)]
        BY <1>1, <1>5 DEF EmitSegment, Producer
    <2>5. prod.captured + n \in Nat /\ (prod.owed \/ prod.captured = 0) \in BOOLEAN
        BY <1>2, <2>1
    <2>6. prod' \in Producer
        BY <1>1, <2>4, <2>5, ProducerUpdate
    <2> QED
        BY <1>5, <2>3, <2>6 DEF EmitSegment
<1>6. CASE EndSpeech
    <2>1. [kind |-> "end", epoch |-> prod.epoch, left |-> 0] \in QueueItem
        BY <1>2 DEF QueueItem
    <2> QED
        BY <1>1, <1>2, <1>6, <2>1, Queue, ProducerUpdate DEF EndSpeech
<1>7. CASE CutSpeech
    <2>1. [kind |-> "end", epoch |-> prod.epoch + 1, left |-> 0] \in QueueItem
        BY <1>2 DEF QueueItem
    <2>2. prod' = [prod EXCEPT !.st = "waiting", !.epoch = prod.epoch + 1, !.wait = prod.epoch + 1, !.cut = FALSE]
        BY <1>1, <1>7 DEF CutSpeech, Producer
    <2>3. prod' \in Producer
        BY <1>1, <1>2, <2>2, ProducerUpdate
    <2> QED
        BY <1>1, <1>7, <2>1, <2>3, Queue DEF CutSpeech
<1>8. CASE PlayoutDone
    <2>1. prod' = [prod EXCEPT !.st = "idle", !.epoch = IF prod.wait = prod.epoch THEN prod.epoch + 1 ELSE prod.epoch]
        BY <1>1, <1>8 DEF PlayoutDone, Producer
    <2>2. prod' \in Producer
        <3>1. (IF prod.wait = prod.epoch THEN prod.epoch + 1 ELSE prod.epoch) \in Nat
            BY <1>2
        <3> QED
            BY <1>1, <2>1, <3>1, ProducerUpdate
    <2> QED
        BY <1>1, <1>8, <2>2 DEF PlayoutDone
<1> QED
    BY <1>4, <1>5, <1>6, <1>7, <1>8 DEF AgentNext

\* The segment loop keeps the types.
LEMMA SegmentTypes ==
    ASSUME ServerType, SegmentNext
    PROVE  ServerType'
<1>1. /\ seg \in SegmentLoop /\ seg.gen \in Nat /\ seg.epoch \in Nat /\ seg.left \in Nat
      /\ segq \in Seq(QueueItem) /\ nextSeq \in Nat /\ nextSeq + 1 \in Nat
      /\ activeEpoch \in Nat /\ wd \in Nat /\ changed \in BOOLEAN
      /\ down \in Seq(Message) /\ up \in Seq(Message)
    BY DEF ServerType, ConnectionTypeOK, WireTypeOK, SegmentLoop
<1>2. ResponseTypeOK /\ active \in Nat
    BY DEF ServerType, ResponseTypeOK, Gens
<1>3. ASSUME segq # <<>>
      PROVE  Tail(segq) \in Seq(QueueItem) /\ Head(segq).epoch \in Nat /\ Head(segq).left \in Nat
    <2>1. Head(segq) \in QueueItem
        BY <1>1, <1>3, Queue
    <2> QED
        BY <1>1, <1>3, <2>1, Queue DEF QueueItem
<1>4. ASSUME ResponseTypeOK', WireTypeOK', SendLeft', UNCHANGED segmentFrame, status' = status,
             seg' \in SegmentLoop, segq' \in Seq(QueueItem), nextSeq' \in Nat, activeEpoch' \in Nat,
             wd' \in Nat, changed' \in BOOLEAN
      PROVE  ServerType'
    BY <1>4 DEF ServerType, ConnectionTypeOK, ControlTodo, segmentFrame
<1>5. UNCHANGED responseVars => ResponseTypeOK'
    BY <1>2 DEF ResponseTypeOK, responseVars
<1>6. UNCHANGED wireVars => WireTypeOK'
    BY <1>1 DEF WireTypeOK, wireVars
<1>7. NoSegment \in SegmentLoop /\ NoSegment.pc = "idle"
    BY DEF NoSegment, SegmentLoop
<1>8. seg' = seg => SendLeft'
    BY DEF ServerType, SendLeft
<1>9. CASE SegmentSkip \/ FinishSkip
    BY <1>1, <1>3, <1>4, <1>5, <1>6, <1>8, <1>9 DEF SegmentSkip, FinishSkip, TakeItem, Item
<1>10. CASE SegmentBegin
    <2> DEFINE e == Head(segq).epoch
               n == Head(segq).left
    <2>1. segq' \in Seq(QueueItem) /\ e \in Nat /\ n \in Nat
        BY <1>3, <1>10 DEF SegmentBegin, TakeItem, Item
    <2>2. UNCHANGED <<nextSeq, changed, wd, status, segmentFrame>>
        BY <1>10 DEF SegmentBegin
    <2>3. CASE /\ seg' = [pc |-> "packet", gen |-> active, epoch |-> e, left |-> n]
               /\ activeEpoch' = e /\ UNCHANGED <<responseVars, wireVars>>
        <3>1. seg' \in SegmentLoop /\ SendLeft'
            BY <1>2, <2>1, <2>3 DEF SegmentLoop, SendLeft
        <3> QED
            BY <1>1, <1>4, <1>5, <1>6, <2>1, <2>2, <2>3, <3>1
    <2>4. CASE /\ Begin(e) /\ seg' = [pc |-> "begin", gen |-> generation', epoch |-> e, left |-> n]
               /\ Send(BeginMsg(generation')) /\ UNCHANGED activeEpoch
        <3>1. ResponseTypeOK' /\ generation' \in Nat
            BY <1>2, <2>1, <2>4, CoordinatorTypes DEF ResponseTypeOK
        <3>2. seg' \in SegmentLoop /\ SendLeft'
            BY <2>1, <2>4, <3>1 DEF SegmentLoop, SendLeft
        <3>3. BeginMsg(generation') \in Message
            BY <3>1, Controls DEF Control
        <3>4. WireTypeOK'
            BY <1>1, <2>4, <3>3, Queue DEF Send, WireTypeOK
        <3> QED
            BY <1>1, <1>4, <2>1, <2>2, <2>4, <3>1, <3>2, <3>4
    <2> QED
        BY <1>10, <2>3, <2>4 DEF SegmentBegin
<1>11. CASE SegmentRefused \/ FinishRefused
    <2>1. (IF active # 0 THEN "response_already_active" ELSE "playback_already_active") \in Causes
        BY DEF Causes
    <2>2. up' \in Seq(Message)
        BY <1>1, <1>11 DEF SegmentRefused, FinishRefused
    <2>3. CASE SegmentRefused
        BY <2>1, <2>2, <2>3, CloseTypes DEF SegmentRefused
    <2>4. CASE FinishRefused
        BY <2>2, <2>4, CloseTypes DEF FinishRefused, Causes
    <2> QED
        BY <1>11, <2>3, <2>4
<1>12. CASE SegmentBegun
    <2>1. seg' \in SegmentLoop /\ SendLeft'
        BY <1>1, <1>12 DEF SegmentBegun, SegmentLoop, SendLeft
    <2> QED
        BY <1>1, <1>4, <1>5, <1>6, <1>12, <2>1 DEF SegmentBegun
<1>13. CASE PacketCheck
    <2>1. seg' \in SegmentLoop /\ SendLeft'
        <3>1. CASE seg' = NoSegment
            BY <1>7, <3>1 DEF SendLeft
        <3>2. CASE seg' = [seg EXCEPT !.pc = "send"] /\ seg.left # 0
            <4>1. seg' \in SegmentLoop /\ seg'.left = seg.left
                BY <1>1, <3>2 DEF SegmentLoop
            <4> QED
                BY <1>1, <3>2, <4>1 DEF SendLeft
        <3> QED
            BY <1>13, <3>1, <3>2 DEF PacketCheck
    <2> QED
        BY <1>1, <1>4, <1>5, <1>6, <1>13, <2>1 DEF PacketCheck
<1>14. CASE PacketSend
    <2>1. ResponseTypeOK'
        BY <1>1, <1>2, <1>14, CoordinatorTypes DEF PacketSend
    <2>2. MediaMsg(seg.gen, nextSeq) \in Message
        BY <1>1, Messages
    <2>3. WireTypeOK'
        BY <1>1, <1>14, <2>2, Queue DEF PacketSend, Send, WireTypeOK
    <2>4. seg' \in SegmentLoop /\ SendLeft'
        <3>1. seg.left > 0 /\ seg.left - 1 \in Nat
            BY <1>1, <1>14, SMTT(30) DEF PacketSend, SendLeft, ServerType
        <3>2. seg' = [seg EXCEPT !.pc = "packet", !.left = seg.left - 1]
            BY <1>1, <1>14 DEF PacketSend, SegmentLoop
        <3> QED
            BY <1>1, <3>1, <3>2 DEF SegmentLoop, SendLeft
    <2> QED
        BY <1>1, <1>4, <1>14, <2>1, <2>3, <2>4 DEF PacketSend
<1>15. CASE PacketCut
    <2>1. SendLeft'
        BY <1>7, <1>15 DEF PacketCut, SendLeft
    <2> QED
        BY <1>1, <1>4, <1>5, <1>6, <1>7, <1>15, <2>1 DEF PacketCut
<1>16. CASE FinishResponse
    <2>1. active \in Gens /\ rec[active].last \in MediaSeq
        BY <1>2, <1>16 DEF FinishResponse, IsActiveEpoch, ResponseTypeOK, Record
    <2>2. ResponseTypeOK'
        BY <1>2, <1>16, <2>1, CoordinatorTypes DEF FinishResponse
    <2>3. EndMsg(active, "completed", rec[active].last) \in Message
        BY <1>2, <2>1, Messages DEF MediaSeq, None
    <2>4. WireTypeOK'
        BY <1>1, <1>16, <2>3, Queue DEF FinishResponse, Send, WireTypeOK
    <2>5. segq' \in Seq(QueueItem) /\ Head(segq).epoch \in Nat
        BY <1>3, <1>16 DEF FinishResponse, TakeItem, Item
    <2>6. seg' \in SegmentLoop /\ SendLeft'
        BY <1>2, <1>16, <2>5 DEF FinishResponse, SegmentLoop, SendLeft
    <2> QED
        BY <1>1, <1>4, <1>16, <2>2, <2>4, <2>5, <2>6 DEF FinishResponse
<1>17. CASE FinishAcked
    <2>1. SendLeft'
        BY <1>7, <1>17 DEF FinishAcked, SendLeft
    <2>2. wd' \in Nat /\ activeEpoch' \in Nat
        BY <1>1, <1>17 DEF FinishAcked, Armed
    <2> QED
        BY <1>1, <1>4, <1>5, <1>6, <1>7, <1>17, <2>1, <2>2 DEF FinishAcked
<1> QED
    BY <1>9, <1>10, <1>11, <1>12, <1>13, <1>14, <1>15, <1>16, <1>17 DEF SegmentNext

\* cancel_active_response: the fence spends a generation, and only control
\* messages are sent for it.
LEMMA FenceTypes ==
    ASSUME ServerType, NEW p \in Owners, NEW g \in Nat, NEW more \in Seq(Control), NEW b \in BOOLEAN,
           ApplyFence(p, g, more, b)
    PROVE  /\ ResponseTypeOK' /\ g \in Gens
           /\ minEpoch' \in Nat /\ changed' \in BOOLEAN
           /\ eff' \in [Owners -> Effect] /\ ControlTodo'
           /\ \E m \in Control : down' = Append(down, m)
           /\ down' \in Seq(Message)
<1>1. ResponseTypeOK /\ generation + 1 \in Nat /\ ConnectionTypeOK /\ WireTypeOK /\ ControlTodo
    BY DEF ServerType, ResponseTypeOK
<1>2. g \in Gens /\ ResponseTypeOK'
    BY <1>1, CoordinatorTypes DEF ApplyFence, Fence
<1>3. minEpoch' \in Nat /\ changed' \in BOOLEAN
    BY <1>1, <1>2 DEF ApplyFence, AtLeast, ConnectionTypeOK, ResponseTypeOK, Record
<1> DEFINE msgs == StopAndEnd(g) \o more
<1>4. msgs \in Seq(Control) /\ msgs # <<>>
    <2>1. StopMsg(g, generation + 1) \in Control /\ EndMsg(g, "cancelled", None) \in Control
        BY <1>1, Controls DEF None
    <2>2. StopAndEnd(g) \in Seq(Control) /\ Len(StopAndEnd(g)) > 0
        BY <2>1 DEF StopAndEnd
    <2> QED
        BY <2>2
<1>5. Head(msgs) \in Control /\ Head(msgs) \in Message /\ Tail(msgs) \in Seq(Control)
    BY <1>4, ControlQueue
<1>6. down' = Append(down, Head(msgs))
    BY DEF ApplyFence
<1>7. down' \in Seq(Message)
    BY <1>1, <1>5, <1>6, Queue DEF WireTypeOK
<1> DEFINE e == [gen |-> g, todo |-> Tail(msgs), close |-> b, on |-> TRUE]
<1>8. eff' = [eff EXCEPT ![p] = e]
    BY DEF ApplyFence
<1>9. Tail(msgs) \in Seq(Message)
    BY <1>5 DEF Control
<1>10. e \in Effect
    BY <1>9 DEF Effect
<1>11. eff' \in [Owners -> Effect]
    BY <1>1, <1>8, <1>10 DEF ConnectionTypeOK
<1>12. ControlTodo'
    BY <1>1, <1>5, <1>8 DEF ControlTodo, ConnectionTypeOK
<1> QED
    BY <1>2, <1>3, <1>5, <1>6, <1>7, <1>11, <1>12

\* The reader keeps the types.
LEMMA ReaderTypes ==
    ASSUME ServerType, ReaderNext
    PROVE  ServerType'
<1>1. /\ ResponseTypeOK /\ ConnectionTypeOK /\ SendLeft /\ ControlTodo
      /\ down \in Seq(Message) /\ up \in Seq(Message)
    BY DEF ServerType, WireTypeOK
<1>2. ASSUME NEW type, Read(type)
      PROVE  up' \in Seq(Message) /\ Head(up) \in Message /\ Head(up).gen \in Nat
    <2>1. Head(up) \in Message /\ Tail(up) \in Seq(Message)
        BY <1>1, <1>2, Queue DEF Read
    <2> QED
        BY <1>2, <2>1, Fields DEF Read
<1>3. ASSUME ResponseTypeOK', down' \in Seq(Message), up' \in Seq(Message), minEpoch' \in Nat, changed' \in BOOLEAN,
             eff' \in [Owners -> Effect], ControlTodo', cancels' \subseteq Gens, wd' \in Nat, prod' \in Producer,
             UNCHANGED readerFrame
      PROVE  ServerType'
    BY <1>1, <1>3 DEF ServerType, ConnectionTypeOK, WireTypeOK, SendLeft, readerFrame
<1>4. UNCHANGED responseVars => ResponseTypeOK'
    BY <1>1 DEF ResponseTypeOK, responseVars
<1>5. minEpoch \in Nat /\ changed \in BOOLEAN /\ cancels \subseteq Gens /\ wd \in Nat /\ prod \in Producer
      /\ eff \in [Owners -> Effect]
    BY <1>1 DEF ConnectionTypeOK
<1>6. eff' = eff => ControlTodo'
    BY <1>1 DEF ControlTodo
<1>7. "reader" \in Owners
    BY DEF Owners
<1>8. CASE ReadCancel
    <2> DEFINE g == Head(up).gen
    <2>1. up' \in Seq(Message) /\ g \in Nat
        BY <1>2, <1>8 DEF ReadCancel
    <2>2. CASE UNCHANGED <<responseVars, down, minEpoch, changed, eff, cancels, wd, prod, readerFrame>>
        BY <1>1, <1>3, <1>4, <1>5, <1>6, <2>1, <2>2
    <2>3. CASE /\ ApplyFence("reader", g, <<>>, FALSE) /\ cancels' = cancels \cup {g}
               /\ UNCHANGED <<wd, prod, readerFrame>>
        <3>1. <<>> \in Seq(Control)
            OBVIOUS
        <3>2. /\ ResponseTypeOK' /\ g \in Gens /\ minEpoch' \in Nat /\ changed' \in BOOLEAN
              /\ eff' \in [Owners -> Effect] /\ ControlTodo' /\ down' \in Seq(Message)
            BY <1>7, <2>1, <2>3, <3>1, FenceTypes
        <3> QED
            BY <1>3, <1>5, <2>1, <2>3, <3>2
    <2>4. CASE Close(IF g # playback THEN "stale_cancel_target" ELSE "stale_generation")
        <3>1. (IF g # playback THEN "stale_cancel_target" ELSE "stale_generation") \in Causes
            BY DEF Causes
        <3> QED
            BY <2>1, <2>4, <3>1, CloseTypes
    <2> QED
        BY <1>8, <2>2, <2>3, <2>4 DEF ReadCancel
<1>9. CASE ReadStarted
    <2> DEFINE g == Head(up).gen
               error == StartedError(g, Head(up).arg)
    <2>1. up' \in Seq(Message) /\ g \in Nat
        BY <1>2, <1>9 DEF ReadStarted
    <2>2. CASE error = "none"
        <3>1. Known(g)
            BY <2>2 DEF StartedError
        <3>2. PlaybackStarted(g) /\ UNCHANGED <<down, minEpoch, changed, eff, cancels, wd, prod, readerFrame>>
            BY <1>9, <2>2 DEF ReadStarted
        <3>3. ResponseTypeOK'
            BY <1>1, <2>1, <3>1, <3>2, CoordinatorTypes
        <3> QED
            BY <1>1, <1>3, <1>5, <1>6, <2>1, <3>2, <3>3
    <2>3. CASE error # "none"
        <3>1. error \in Causes
            BY <2>3 DEF StartedError, Causes
        <3>2. Close(error)
            BY <1>9, <2>3 DEF ReadStarted
        <3> QED
            BY <2>1, <3>1, <3>2, CloseTypes
    <2> QED
        BY <2>2, <2>3
<1>10. CASE ReadEnded
    <2> DEFINE m == Head(up)
               error == EndedError(m.gen, m.outcome, m.played, m.arg)
    <2>1. up' \in Seq(Message) /\ m.gen \in Nat
        BY <1>2, <1>10 DEF ReadEnded
    <2>2. CASE error = "none"
        <3>1. Known(m.gen)
            BY <2>2 DEF EndedError
        <3>2. /\ PlaybackEnded(m.gen) /\ UNCHANGED <<down, minEpoch, changed, eff, cancels, readerFrame>>
              /\ prod' = Told /\ wd' = (IF wd = m.gen THEN 0 ELSE wd)
            BY <1>10, <2>2 DEF ReadEnded
        <3>3. ResponseTypeOK'
            BY <1>1, <2>1, <3>1, <3>2, CoordinatorTypes
        <3>4. prod' \in Producer /\ wd' \in Nat
            BY <1>5, <3>2, ProducerUpdate DEF Told
        <3> QED
            BY <1>1, <1>3, <1>5, <1>6, <2>1, <3>2, <3>3, <3>4
    <2>3. CASE error # "none"
        <3>1. error \in Causes
            BY <2>3 DEF EndedError, Causes
        <3>2. Close(error)
            BY <1>10, <2>3 DEF ReadEnded
        <3> QED
            BY <2>1, <3>1, <3>2, CloseTypes
    <2> QED
        BY <2>2, <2>3
<1>11. CASE ReadClose
    <2>1. up' \in Seq(Message) /\ playback \in Nat
        BY <1>1, <1>2, <1>11 DEF ReadClose, ResponseTypeOK, Gens
    <2>2. CloseMsg \in Control /\ CloseMsg \in Message
        BY Controls DEF Control
    <2>3. CASE /\ ApplyFence("reader", playback, <<CloseMsg>>, TRUE)
               /\ UNCHANGED <<cancels, wd, prod, readerFrame>>
        <3>1. <<CloseMsg>> \in Seq(Control)
            BY <2>2
        <3>2. /\ ResponseTypeOK' /\ minEpoch' \in Nat /\ changed' \in BOOLEAN
              /\ eff' \in [Owners -> Effect] /\ ControlTodo' /\ down' \in Seq(Message)
            BY <1>7, <2>1, <2>3, <3>1, FenceTypes
        <3> QED
            BY <1>3, <1>5, <2>1, <2>3, <3>2
    <2>4. CASE /\ down' = Append(down, CloseMsg)
               /\ eff' = [eff EXCEPT !["reader"].on = TRUE, !["reader"].close = TRUE]
               /\ UNCHANGED <<responseVars, minEpoch, changed, cancels, wd, prod, readerFrame>>
        <3>1. down' \in Seq(Message)
            BY <1>1, <2>2, <2>4, Queue
        <3>2. eff' \in [Owners -> Effect]
            BY <1>5, <1>7, <2>4 DEF Effect
        <3>3. \A p \in Owners : eff'[p].todo = eff[p].todo
            BY <1>5, <1>7, <2>4 DEF Effect
        <3>4. ControlTodo'
            BY <1>1, <3>3 DEF ControlTodo
        <3> QED
            BY <1>3, <1>4, <1>5, <2>1, <2>4, <3>1, <3>2, <3>4
    <2>5. CASE Close("stale_generation")
        BY <2>1, <2>5, CloseTypes DEF Causes
    <2> QED
        BY <1>11, <2>3, <2>4, <2>5 DEF ReadClose
<1>12. CASE ReadDisconnect
    <2>1. up' \in Seq(Message)
        BY <1>2, <1>12 DEF ReadDisconnect
    <2> QED
        BY <1>12, <2>1, CloseTypes DEF ReadDisconnect, Causes
<1> QED
    BY <1>8, <1>9, <1>10, <1>11, <1>12 DEF ReaderNext

\* Senders, the interruption coordinator and the interrupt tasks keep the types.
LEMMA TaskTypes ==
    ASSUME ServerType, TaskNext
    PROVE  ServerType'
<1>1. /\ ResponseTypeOK /\ ConnectionTypeOK /\ SendLeft /\ ControlTodo /\ WireTypeOK
      /\ down \in Seq(Message) /\ up \in Seq(Message)
    BY DEF ServerType, WireTypeOK
<1>2. minEpoch \in Nat /\ changed \in BOOLEAN /\ cand \in Nat /\ intr \subseteq InterruptTask /\ wd \in Nat
      /\ prod \in Producer /\ activeEpoch \in Nat /\ eff \in [Owners -> Effect] /\ seg.gen \in Nat
    BY <1>1 DEF ConnectionTypeOK, SegmentLoop
<1>3. ASSUME ResponseTypeOK', WireTypeOK', minEpoch' \in Nat, changed' \in BOOLEAN,
             eff' \in [Owners -> Effect], ControlTodo', cand' \in Nat, intr' \subseteq InterruptTask, wd' \in Nat,
             prod' \in Producer, UNCHANGED <<activeEpoch, nextSeq, segq, seg, cancels, status>>
      PROVE  ServerType'
    BY <1>1, <1>3 DEF ServerType, ConnectionTypeOK, SendLeft
<1>4. UNCHANGED responseVars => ResponseTypeOK'
    BY <1>1 DEF ResponseTypeOK, responseVars
<1>5. UNCHANGED wireVars => WireTypeOK'
    BY <1>1 DEF WireTypeOK, wireVars
<1>6. eff' = eff => ControlTodo'
    BY <1>1 DEF ControlTodo
<1>7. ASSUME NEW p \in Owners, EffectSend(p)
      PROVE  ServerType'
    <2>1. eff[p].todo \in Seq(Control) /\ eff[p].todo # <<>> /\ eff[p] \in Effect
        BY <1>1, <1>2, <1>7 DEF EffectSend, ControlTodo
    <2>2. Head(eff[p].todo) \in Message /\ Tail(eff[p].todo) \in Seq(Control)
        BY <2>1, ControlQueue
    <2>3. WireTypeOK'
        BY <1>1, <1>7, <2>2, Queue DEF EffectSend, Send, WireTypeOK
    <2>4. eff' = [eff EXCEPT ![p] = [eff[p] EXCEPT !.todo = Tail(eff[p].todo)]]
        BY <1>2, <1>7, <2>1 DEF EffectSend, Effect
    <2>5. Tail(eff[p].todo) \in Seq(Message)
        BY <2>2 DEF Control
    <2>6. eff' \in [Owners -> Effect]
        BY <1>2, <2>1, <2>4, <2>5 DEF Effect
    <2>7. ControlTodo'
        BY <1>1, <1>2, <2>1, <2>2, <2>4 DEF ControlTodo, Effect
    <2> QED
        BY <1>2, <1>3, <1>4, <1>7, <2>3, <2>6, <2>7 DEF EffectSend, effectFrame
<1>8. ASSUME NEW p \in Owners, EffectDone(p)
      PROVE  ServerType'
    <2>1. eff[p].gen \in Nat /\ wd' \in Nat
        BY <1>2, <1>8 DEF EffectDone, Effect, Armed
    <2>2. NoEffect \in Effect /\ NoEffect.todo \in Seq(Control)
        BY DEF NoEffect, Effect
    <2>3. eff' \in [Owners -> Effect] /\ ControlTodo'
        BY <1>1, <1>2, <1>8, <2>2 DEF EffectDone, ControlTodo
    <2>4. intr' \subseteq InterruptTask
        BY <1>2, <1>8, <2>1 DEF EffectDone, InterruptTask
    <2> QED
        BY <1>2, <1>3, <1>4, <1>5, <1>8, <2>1, <2>3, <2>4 DEF EffectDone, effectFrame
<1>9. CASE CloseSent
    BY <1>1, <1>9, CloseTypes DEF CloseSent, Causes
<1>10. CASE SubmitCandidate
    <2>1. cand' \in Nat
        BY <1>1, <1>10 DEF SubmitCandidate, ResponseTypeOK, Gens
    <2> QED
        BY <1>2, <1>3, <1>4, <1>5, <1>6, <1>10, <2>1 DEF SubmitCandidate, effectFrame
<1>11. ASSUME NEW b \in BOOLEAN, DecideCandidate(b)
      PROVE  ServerType'
    <2>1. cand' \in Nat /\ UNCHANGED <<intr, wd, status, effectFrame>>
        BY <1>11 DEF DecideCandidate
    <2>2. CASE ApplyFence("coordinator", cand, <<>>, FALSE) /\ UNCHANGED up
        <3>1. <<>> \in Seq(Control) /\ "coordinator" \in Owners
            BY DEF Owners
        <3>2. /\ ResponseTypeOK' /\ minEpoch' \in Nat /\ changed' \in BOOLEAN
              /\ eff' \in [Owners -> Effect] /\ ControlTodo' /\ down' \in Seq(Message)
            BY <1>2, <2>2, <3>1, FenceTypes
        <3>3. WireTypeOK'
            BY <1>1, <2>2, <3>2 DEF WireTypeOK
        <3> QED
            BY <1>2, <1>3, <2>1, <3>2, <3>3 DEF effectFrame
    <2>3. CASE UNCHANGED <<responseVars, wireVars, minEpoch, changed, eff>>
        BY <1>2, <1>3, <1>4, <1>5, <1>6, <2>1, <2>3 DEF effectFrame
    <2> QED
        BY <1>11, <2>2, <2>3 DEF DecideCandidate
<1>12. ASSUME NEW i \in intr, InterruptStart(i)
      PROVE  ServerType'
    <2>1. i \in InterruptTask /\ prod.epoch + 1 \in Nat /\ prod.speech \in Nat
        BY <1>2 DEF Producer
    <2>2. intr' \subseteq InterruptTask
        BY <1>2, <1>12, <2>1 DEF InterruptStart, InterruptTask
    <2>3. prod' = [prod EXCEPT !.epoch = prod.epoch + 1, !.cut = (prod.st # "idle")]
        BY <1>2, <1>12 DEF InterruptStart, Producer
    <2>4. prod' \in Producer
        BY <1>2, <2>1, <2>3, ProducerUpdate
    <2>5. minEpoch' \in Nat /\ changed' \in BOOLEAN
        BY <1>2, <1>12 DEF InterruptStart, AtLeast
    <2> QED
        BY <1>2, <1>3, <1>4, <1>5, <1>6, <1>12, <2>2, <2>4, <2>5 DEF InterruptStart, interruptFrame
<1>13. ASSUME NEW i \in intr, InterruptFinish(i)
      PROVE  ServerType'
    <2>1. prod.epoch + 1 \in Nat
        BY <1>2 DEF Producer
    <2>2. prod' = [prod EXCEPT !.epoch = prod.epoch + 1]
        BY <1>2, <1>13 DEF InterruptFinish, Producer
    <2>3. prod' \in Producer
        BY <1>2, <2>1, <2>2, ProducerUpdate
    <2>4. minEpoch' \in Nat /\ intr' \subseteq InterruptTask
        BY <1>2, <1>13, <2>1 DEF InterruptFinish, AtLeast
    <2> QED
        BY <1>2, <1>3, <1>4, <1>5, <1>6, <1>13, <2>3, <2>4 DEF InterruptFinish, interruptFrame
<1> QED
    BY <1>7, <1>8, <1>9, <1>10, <1>11, <1>12, <1>13 DEF TaskNext

\* Timeouts keep the types.
LEMMA TimeoutTypes ==
    ASSUME ServerType, TimeoutNext
    PROVE  ServerType'
<1>1. up \in Seq(Message)
    BY DEF ServerType, WireTypeOK
<1>2. PICK c \in Causes : Close(c) /\ UNCHANGED up
    BY DEF TimeoutNext, ControlTimeout, WatchdogFire, InterruptTimeout, Retire, Causes
<1> QED
    BY <1>1, <1>2, CloseTypes

-----------------------------------------------------------------------------
(* Types of the endpoint. *)

\* The supervisor keeps the types.
LEMMA SupervisorTypes ==
    ASSUME EndpointTypeOK, WireTypeOK,
           \/ ReceiveBegin \/ ReceiveEnd \/ ReceiveStop \/ ReceiveMedia \/ ReceiveClose
           \/ SendFact \/ StopDevice \/ Disconnect \/ CancelRequest
    PROVE  EndpointTypeOK' /\ WireTypeOK'
<1>1. /\ ws \in WssState /\ gateGen \in Nat
      /\ cmdq \in Seq(Message) /\ mediaq \in Seq(Message) /\ factq \in Seq(Message) /\ Len(mediaq) <= MediaCap
      /\ pb \in PlayState /\ task \in TaskState /\ drops \in BOOLEAN /\ gone \in BOOLEAN /\ lost \subseteq Nat
      /\ dev \in {"running", "stopped", "closed"} \cup Faults
      /\ down \in Seq(Message) /\ up \in Seq(Message)
    BY DEF EndpointTypeOK, WireTypeOK
<1>2. ws.gen \in Nat /\ ws.fence \in Nat /\ ws.stop \in Nat /\ ws.next \in Nat /\ ws.next + 1 \in Nat
    BY <1>1 DEF WssState
<1>3. ASSUME Take
      PROVE  /\ Head(down) \in Message /\ Head(down).gen \in Nat /\ Head(down).arg \in Nat \cup {-1}
             /\ WireTypeOK' /\ UNCHANGED gone
    <2>1. Head(down) \in Message /\ Tail(down) \in Seq(Message)
        BY <1>1, <1>3, Queue DEF Take
    <2> QED
        BY <1>1, <1>3, <2>1, Fields DEF Take, WireTypeOK
<1>4. CloseMsg \in Message /\ DisconnectMsg \in Message
    BY Messages
<1>5. CASE ReceiveBegin
    <2> DEFINE g == Head(down).gen
    <2>1. g \in Nat /\ Head(down) \in Message /\ WireTypeOK' /\ UNCHANGED gone
        BY <1>3, <1>5 DEF ReceiveBegin
    <2>2. [ws EXCEPT !.response = TRUE, !.media = TRUE, !.gen = g, !.fence = g, !.stop = 0] \in WssState
        BY <1>1, <2>1 DEF WssState
    <2>3. ws' \in WssState
        BY <1>1, <1>5, <2>2 DEF ReceiveBegin
    <2>4. gateGen' \in Nat /\ cmdq' \in Seq(Message)
        BY <1>1, <1>5, <2>1, Queue DEF ReceiveBegin
    <2>5. dev' \in {"running", "stopped", "closed"} \cup Faults
        BY <1>1, <1>5 DEF ReceiveBegin, Faults
    <2> QED
        BY <1>1, <1>5, <2>1, <2>3, <2>4, <2>5 DEF ReceiveBegin, EndpointTypeOK, taskVars
<1>6. CASE ReceiveEnd
    <2>1. Head(down) \in Message /\ WireTypeOK' /\ UNCHANGED gone
        BY <1>3, <1>6 DEF ReceiveEnd
    <2>2. ws' \in WssState
        BY <1>1, <1>6 DEF ReceiveEnd, WssState
    <2>3. cmdq' \in Seq(Message)
        BY <1>1, <1>6, <2>1, Queue DEF ReceiveEnd
    <2>4. dev' \in {"running", "stopped", "closed"} \cup Faults
        BY <1>1, <1>6 DEF ReceiveEnd, Faults
    <2> QED
        BY <1>1, <1>6, <2>1, <2>2, <2>3, <2>4 DEF ReceiveEnd, EndpointTypeOK, taskVars
<1>7. CASE ReceiveStop
    <2> DEFINE n == Head(down).arg
    <2>1. Head(down) \in Message /\ n \in Nat \cup {-1} /\ WireTypeOK' /\ UNCHANGED gone
        BY <1>3, <1>7 DEF ReceiveStop
    <2>2. StopAdmitted(Head(down)) => n \in Nat
        BY <1>2, <2>1 DEF StopAdmitted
    <2>3. n \in Nat => [ws EXCEPT !.fence = n, !.stop = n, !.media = FALSE] \in WssState
        BY <1>1 DEF WssState
    <2>4. ws' \in WssState
        BY <1>1, <1>7, <2>2, <2>3 DEF ReceiveStop
    <2>5. cmdq' \in Seq(Message)
        BY <1>1, <1>7, <2>1, Queue DEF ReceiveStop
    <2>6. dev' \in {"running", "stopped", "closed"} \cup Faults
        BY <1>1, <1>7 DEF ReceiveStop, Faults
    <2> QED
        BY <1>1, <1>7, <2>1, <2>4, <2>5, <2>6 DEF ReceiveStop, EndpointTypeOK, taskVars
<1>8. CASE ReceiveMedia
    <2> DEFINE m == Head(down)
               q == IF MediaFull THEN Tail(mediaq) ELSE mediaq
    <2>1. m \in Message /\ WireTypeOK' /\ UNCHANGED gone
        BY <1>3, <1>8 DEF ReceiveMedia
    <2>2. ws' \in WssState
        <3>1. [ws EXCEPT !.next = ws.next + 1] \in WssState
            BY <1>1, <1>2 DEF WssState
        <3>2. ws' = ws \/ ws' = [ws EXCEPT !.next = ws.next + 1]
            BY <1>1, <1>8 DEF ReceiveMedia, WssState
        <3> QED
            BY <1>1, <3>1, <3>2
    <2>3. q \in Seq(Message) /\ Len(q) < MediaCap /\ (MediaFull => mediaq # <<>>)
        BY <1>1 DEF MediaFull
    <2>4. mediaq' = mediaq \/ mediaq' = Append(q, m)
        BY <1>8 DEF ReceiveMedia
    <2>5. mediaq' \in Seq(Message) /\ Len(mediaq') <= MediaCap
        <3>1. CASE mediaq' = mediaq
            BY <1>1, <3>1
        <3>2. CASE mediaq' = Append(q, m)
            <4> HIDE DEF q
            <4>1. Append(q, m) \in Seq(Message) /\ Len(Append(q, m)) = Len(q) + 1 /\ Len(q) \in Nat
                BY <2>1, <2>3
            <4> QED
                BY <2>3, <3>2, <4>1
        <3> QED
            BY <2>4, <3>1, <3>2
    <2>6. drops' \in BOOLEAN /\ dev' \in {"running", "stopped", "closed"} \cup Faults
        BY <1>1, <1>8 DEF ReceiveMedia, Faults
    <2>7. lost' \subseteq Nat
        <3>1. MediaFull => Head(mediaq).gen \in Nat
            BY <1>1, <2>3, Queue, Fields
        <3> QED
            BY <1>1, <1>8, <3>1 DEF ReceiveMedia
    <2> QED
        BY <1>1, <1>8, <2>1, <2>2, <2>5, <2>6, <2>7 DEF ReceiveMedia, EndpointTypeOK, taskVars
<1>9. CASE ReceiveClose
    <2>1. WireTypeOK' /\ UNCHANGED gone
        BY <1>3, <1>9 DEF ReceiveClose
    <2> QED
        BY <1>1, <1>9, <2>1 DEF ReceiveClose, EndpointTypeOK, taskVars
<1>10. CASE SendFact
    <2>1. Head(factq) \in Message /\ Tail(factq) \in Seq(Message)
        BY <1>1, <1>10, Queue DEF SendFact
    <2>2. WireTypeOK'
        BY <1>1, <1>10, <2>1, Queue DEF SendFact, WireTypeOK
    <2> QED
        BY <1>1, <1>10, <2>1, <2>2 DEF SendFact, EndpointTypeOK
<1>11. CASE StopDevice
    <2>1. WireTypeOK'
        BY <1>1, <1>4, <1>11, Queue DEF StopDevice, WireTypeOK
    <2> QED
        BY <1>1, <1>11, <2>1 DEF StopDevice, EndpointTypeOK
<1>12. CASE Disconnect
    <2>1. (up \o factq) \o <<DisconnectMsg>> \in Seq(Message) /\ <<>> \in Seq(Message)
        BY <1>1, <1>4
    <2>2. WireTypeOK'
        BY <1>1, <1>12, <2>1 DEF Disconnect, WireTypeOK
    <2> QED
        BY <1>1, <1>12, <2>1, <2>2 DEF Disconnect, EndpointTypeOK
<1>13. CASE CancelRequest
    <2>1. CancelMsg(ws.gen, ws.gen) \in Message
        BY <1>2, Messages
    <2>2. WireTypeOK'
        BY <1>1, <1>13, <2>1, Queue DEF CancelRequest, WireTypeOK
    <2> QED
        BY <1>1, <1>13, <2>2 DEF CancelRequest, EndpointTypeOK, endpointVars
<1> QED
    BY <1>5, <1>6, <1>7, <1>8, <1>9, <1>10, <1>11, <1>12, <1>13

\* PlaybackState::End and the fact it returns.
LEMMA EndTypes ==
    ASSUME EndpointTypeOK, NEW o \in {"completed", "stopped", "failed"}
    PROVE  Ended(o) \in PlayState /\ EndFact(o) \in Message
<1>1. pb \in PlayState /\ pb.gen \in Nat /\ pb.fence \in Nat /\ pb.stop \in Nat /\ pb.sample \in Nat \cup {-1}
    BY DEF EndpointTypeOK, PlayState
<1>2. Ended(o) \in PlayState
    BY <1>1 DEF Ended, PlayState
<1>3. EndFact(o) \in Message
    BY <1>1, Messages DEF EndFact
<1> QED
    BY <1>2, <1>3

\* The playback task keeps the types.
LEMMA PlaybackTaskTypes ==
    ASSUME EndpointTypeOK, WireTypeOK,
           \/ ProcessCommand \/ Observe \/ TakeMedia \/ Gate \/ WriteChunk \/ BreakOff \/ PlaybackFault
    PROVE  EndpointTypeOK' /\ WireTypeOK'
<1>1. /\ ws \in WssState /\ gateGen \in Nat
      /\ cmdq \in Seq(Message) /\ mediaq \in Seq(Message) /\ factq \in Seq(Message) /\ Len(mediaq) <= MediaCap
      /\ pb \in PlayState /\ task \in TaskState /\ drops \in BOOLEAN /\ gone \in BOOLEAN /\ lost \subseteq Nat
      /\ dev \in {"running", "stopped", "closed"} \cup Faults
    BY DEF EndpointTypeOK
<1>2. /\ pb.gen \in Nat /\ pb.fence \in Nat /\ pb.stop \in Nat
      /\ pb.final \in Nat \cup {-1} /\ pb.sample \in Nat \cup {-1} /\ pb.done \in Nat \cup {-1}
    BY <1>1 DEF PlayState
<1>3. UNCHANGED <<wireVars, supervisorVars>>
    BY DEF ProcessCommand, Observe, TakeMedia, Gate, WriteChunk, BreakOff, PlaybackFault
<1>4. SUFFICES /\ cmdq' \in Seq(Message) /\ mediaq' \in Seq(Message) /\ factq' \in Seq(Message)
               /\ Len(mediaq') <= MediaCap /\ pb' \in PlayState /\ task' \in TaskState /\ drops' \in BOOLEAN
               /\ dev' \in {"running", "stopped", "closed"} \cup Faults
    BY <1>1, <1>3 DEF EndpointTypeOK, WireTypeOK, wireVars, supervisorVars
<1>5. \A o \in {"completed", "stopped", "failed"} :
          Ended(o) \in PlayState /\ Append(factq, EndFact(o)) \in Seq(Message)
    BY <1>1, EndTypes, Queue
<1>6. NoTask \in TaskState
    BY DEF NoTask, TaskState
<1>7. [pb EXCEPT !.degraded = TRUE] \in PlayState
    BY <1>1 DEF PlayState
<1>8. CASE ProcessCommand
    <2> DEFINE c == Head(cmdq)
    <2>1. c \in Message /\ cmdq' \in Seq(Message) /\ c.gen \in Nat /\ c.arg \in Nat \cup {-1}
        <3>1. c \in Message /\ Tail(cmdq) \in Seq(Message)
            BY <1>1, <1>8, Queue DEF ProcessCommand
        <3> QED
            BY <1>8, <3>1, Fields DEF ProcessCommand
    <2>2. UNCHANGED <<task, drops>>
        BY <1>8 DEF ProcessCommand
    <2> DEFINE Kept == /\ mediaq' \in Seq(Message) /\ Len(mediaq') <= MediaCap /\ factq' \in Seq(Message)
                       /\ pb' \in PlayState /\ dev' \in {"running", "stopped", "closed"} \cup Faults
    <2>3. Refuse => Kept
        BY <1>1, <1>5 DEF Refuse, Faults
    <2>4. DoBegin(c) => Kept
        <3>1. [pb EXCEPT !.active = TRUE, !.gen = c.gen, !.stop = 0, !.final = -1,
                         !.sample = -1, !.done = -1, !.degraded = FALSE] \in PlayState
            BY <1>1, <2>1 DEF PlayState
        <3> QED
            BY <1>1, <2>3, <3>1 DEF DoBegin
    <2>5. DoComplete(c) => Kept
        <3>1. [pb EXCEPT !.final = c.arg] \in PlayState
            BY <1>1, <2>1 DEF PlayState
        <3> QED
            BY <1>1, <1>5, <2>3, <3>1 DEF DoComplete
    <2>6. DoStop(c) => Kept
        <3>1. <<>> \in Seq(Message) /\ Len(<<>>) <= MediaCap
            OBVIOUS
        <3>2. c.arg \in Nat => [Ended("stopped") EXCEPT !.fence = c.arg, !.stop = c.arg] \in PlayState
            <4>1. Ended("stopped") \in PlayState
                BY <1>5
            <4> QED
                BY <4>1 DEF PlayState
        <3>3. c.arg > pb.gen => c.arg \in Nat
            BY <1>2, <2>1
        <3> QED
            BY <1>1, <1>5, <2>3, <3>1, <3>2, <3>3 DEF DoStop
    <2> QED
        BY <1>1, <1>8, <2>1, <2>2, <2>4, <2>5, <2>6 DEF ProcessCommand
<1>9. CASE Observe
    BY <1>1, <1>7, <1>9 DEF Observe
<1>10. CASE TakeMedia
    <2>1. Head(mediaq) \in Message /\ Tail(mediaq) \in Seq(Message) /\ Len(Tail(mediaq)) <= MediaCap
        BY <1>1, <1>10 DEF TakeMedia
    <2>2. Head(mediaq).gen \in Nat /\ Head(mediaq).arg \in Nat \cup {-1}
        BY <2>1, Fields
    <2>3. task' \in TaskState
        BY <1>10, <2>2 DEF TakeMedia, TaskState
    <2> QED
        BY <1>1, <1>10, <2>1, <2>3 DEF TakeMedia
<1>11. CASE Gate
    <2>1. [task EXCEPT !.pc = "write"] \in TaskState
        BY <1>1 DEF TaskState
    <2> QED
        BY <1>1, <1>6, <1>7, <1>11, <2>1 DEF Gate
<1>12. CASE WriteChunk
    <2> DEFINE last     == task.chunk + 1 = FrameChunks
               started  == IF pb.sample = -1 THEN <<StartedMsg(pb.gen, task.seq)>> ELSE <<>>
               finished == last /\ task.seq = pb.final
               outcome  == IF pb.degraded THEN "failed" ELSE "completed"
               ended    == IF finished THEN <<EndedMsg(pb.gen, outcome, TRUE, task.seq)>> ELSE <<>>
    <2>1. task.seq \in Nat \cup {-1} /\ task.chunk \in 0 .. FrameChunks - 1
        BY <1>1 DEF TaskState
    <2>2. outcome \in {"completed", "stopped", "failed"}
        OBVIOUS
    <2>3. started \in Seq(Message) /\ ended \in Seq(Message)
        <3>1. StartedMsg(pb.gen, task.seq) \in Message /\ EndedMsg(pb.gen, outcome, TRUE, task.seq) \in Message
            BY <1>2, <2>1, <2>2, Messages
        <3>2. /\ <<StartedMsg(pb.gen, task.seq)>> \in Seq(Message) /\ <<>> \in Seq(Message)
              /\ <<EndedMsg(pb.gen, outcome, TRUE, task.seq)>> \in Seq(Message)
            BY <1>1, <3>1, Queue, ZenonT(60)
        <3> QED
            BY <3>2
    <2>4. UNCHANGED <<cmdq, mediaq, drops>>
        BY <1>12 DEF WriteChunk
    <2>5. CASE /\ dev' = "playback_fact" /\ pb' = Ended("failed")
               /\ factq' = Append(factq, EndFact("failed")) /\ UNCHANGED task
        BY <1>1, <1>5, <2>4, <2>5 DEF Faults
    <2>6. CASE /\ factq' = (factq \o started) \o ended
               /\ pb' = IF finished THEN Ended(outcome)
                        ELSE [pb EXCEPT !.sample = task.seq, !.done = IF last THEN task.seq ELSE @]
               /\ task' = IF last THEN NoTask ELSE [task EXCEPT !.chunk = @ + 1]
               /\ UNCHANGED dev
        <3>1. factq' \in Seq(Message)
            <4> HIDE DEF started, ended
            <4> QED
                BY <1>1, <2>3, <2>6
        <3>2. pb' \in PlayState
            <4>1. [pb EXCEPT !.sample = task.seq, !.done = IF last THEN task.seq ELSE @] \in PlayState
                BY <1>1, <2>1 DEF PlayState
            <4> QED
                BY <1>5, <2>2, <2>6, <4>1
        <3>3. task' \in TaskState
            <4>1. ~last => task.chunk + 1 \in 0 .. FrameChunks - 1
                BY <2>1
            <4>2. ~last => [task EXCEPT !.chunk = task.chunk + 1] \in TaskState
                BY <1>1, <4>1 DEF TaskState
            <4>3. task' = IF last THEN NoTask ELSE [task EXCEPT !.chunk = task.chunk + 1]
                BY <1>1, <2>6 DEF TaskState
            <4> QED
                BY <1>6, <4>2, <4>3
        <3> QED
            BY <1>1, <2>4, <2>6, <3>1, <3>2, <3>3
    <2> QED
        BY <1>12, <2>5, <2>6 DEF WriteChunk
<1>13. CASE BreakOff
    BY <1>1, <1>6, <1>13 DEF BreakOff
<1>14. CASE PlaybackFault
    BY <1>1, <1>5, <1>14 DEF PlaybackFault, Faults
<1> QED
    BY <1>8, <1>9, <1>10, <1>11, <1>12, <1>13, <1>14

-----------------------------------------------------------------------------
(* Type correctness. *)

\* The types with what makes them inductive.
TypeInv == TypeOK /\ SendLeft /\ ControlTodo

\* The inductive form of the types.
THEOREM TypeInvariant == Spec => []TypeInv
<1>1. Init => TypeInv
    <2> SUFFICES ASSUME Init PROVE TypeInv
        OBVIOUS
    <2>1. ResponseTypeOK
        <3>1. <<>> \in Seq(Gens) /\ NoRecord \in Record
            BY NewRecordType
        <3> QED
            BY <3>1 DEF Init, ResponseInit, ResponseTypeOK
    <2>2. WireTypeOK
        BY DEF Init, WireInit, WireTypeOK
    <2>3. ConnectionTypeOK
        <3>1. prod \in Producer
            BY DEF Init, ConnectionInit, Producer
        <3>2. NoSegment \in SegmentLoop /\ NoEffect \in Effect /\ <<>> \in Seq(QueueItem)
            BY DEF NoSegment, SegmentLoop, NoEffect, Effect
        <3> QED
            BY <3>1, <3>2 DEF Init, ConnectionInit, ConnectionTypeOK
    <2>4. EndpointTypeOK
        <3>1. ws \in WssState
            BY DEF Init, EndpointInit, WssState
        <3>2. pb \in PlayState
            BY DEF Init, EndpointInit, PlayState
        <3>3. NoTask \in TaskState /\ <<>> \in Seq(Message) /\ Len(<<>>) <= MediaCap
            BY DEF NoTask, TaskState
        <3> QED
            BY <3>1, <3>2, <3>3 DEF Init, EndpointInit, EndpointTypeOK
    <2>5. SendLeft /\ ControlTodo
        <3>1. <<>> \in Seq(Control)
            OBVIOUS
        <3> QED
            BY <3>1 DEF Init, ConnectionInit, SendLeft, ControlTodo, NoSegment, NoEffect
    <2> QED
        BY <2>1, <2>2, <2>3, <2>4, <2>5 DEF TypeInv, TypeOK
<1>2. TypeInv /\ [Next]_vars => TypeInv'
    <2> SUFFICES ASSUME TypeInv, [Next]_vars PROVE TypeInv'
        OBVIOUS
    <2>1. ServerType /\ EndpointTypeOK /\ WireTypeOK
        BY DEF TypeInv, TypeOK, ServerType
    <2>2. CASE Server
        <3>1. ServerType'
            BY <2>1, <2>2, AgentTypes, SegmentTypes, ReaderTypes, TaskTypes, TimeoutTypes DEF Server, ConnectionNext
        <3>2. EndpointTypeOK'
            BY <2>1, <2>2 DEF Server, EndpointTypeOK, endpointVars
        <3> QED
            BY <3>1, <3>2 DEF TypeInv, TypeOK, ServerType
    <2>3. CASE Endpoint
        <3>1. EndpointTypeOK' /\ WireTypeOK'
            BY <2>1, <2>3, SupervisorTypes, PlaybackTaskTypes DEF Endpoint, EndpointNext, UserCancel
        <3>2. UNCHANGED <<responseVars, connectionVars>>
            BY <2>3 DEF Endpoint
        <3>3. ResponseTypeOK' /\ ConnectionTypeOK' /\ SendLeft' /\ ControlTodo'
            BY <2>1, <3>2 DEF ServerType, ResponseTypeOK, ConnectionTypeOK, SendLeft, ControlTodo,
                              responseVars, connectionVars
        <3> QED
            BY <3>1, <3>3 DEF TypeInv, TypeOK
    <2>4. CASE UNCHANGED vars
        BY <2>4 DEF TypeInv, TypeOK, ResponseTypeOK, WireTypeOK, ConnectionTypeOK, EndpointTypeOK, SendLeft,
                    ControlTodo, vars, responseVars, wireVars, connectionVars, endpointVars
    <2> QED
        BY <2>2, <2>3, <2>4 DEF Next, Finished
<1> QED
    BY <1>1, <1>2, PTL DEF Spec

\* Every variable of the connection and the endpoint keeps its type (TypeOK),
\* for any bounds: generations, sequences, queues of messages, and a playback
\* queue that never holds more than its capacity.
THEOREM PlaybackTypeCorrect == Spec => []TypeOK
<1>1. TypeInv => TypeOK
    BY DEF TypeInv
<1> QED
    BY <1>1, TypeInvariant, PTL

-----------------------------------------------------------------------------
(* The coordinator and the layers above it. *)

Remembered(g) == \E i \in DOMAIN order : order[i] = g

\* An active response holds the slot and has neither ended nor been fenced.
ActiveHolds == active # 0 => active = playback /\ rec[active].outcome = "none" /\ ~rec[active].stop

\* The slot's record exists and has not ended; once the response is over it is
\* on its way to be forgotten.
SlotRecord ==
    playback # 0 => /\ rec[playback].epoch # 0 /\ ~rec[playback].ended
                    /\ active # playback => Remembered(playback)

\* Records leave the table by way of the deque, and only ended ones do.
TableBounded == \A g \in Gens : rec[g] # NoRecord => g = playback \/ Remembered(g)
OnlySlotOpen == \A g \in Gens : rec[g] # NoRecord /\ ~rec[g].ended => g = playback

\* A response that did not complete was fenced.
CutIsFenced == \A g \in Gens : rec[g].outcome \in {"cancelled", "failed"} => rec[g].stop

\* The voice session plays the slot's response until it is fenced.
TargetAgrees == ~closed => target = (IF playback # 0 /\ ~rec[playback].stop THEN playback ELSE 0)

Coordinated == ActiveHolds /\ SlotRecord /\ TableBounded /\ OnlySlotOpen /\ CutIsFenced /\ TargetAgrees

\* The connection and the voice session close together, and no segment is sent
\* under epoch zero.
Connected == (Open <=> ~closed) /\ minEpoch > 0

\* What _remember_terminal does for a response that holds the slot.
LEMMA RememberKeeps ==
    ASSUME ResponseTypeOK, NEW g \in Gens, NEW r \in [Gens -> Record], Remember(g, r), ~r[g].ended,
           \A h \in Gens : r[h] # NoRecord => h = g \/ Remembered(h),
           \A h \in Gens : r[h] # NoRecord /\ ~r[h].ended => h = g
    PROVE  /\ Remembered(g)' /\ rec'[g] = r[g]
           /\ \A h \in Gens : rec'[h] = r[h] \/ rec'[h] = NoRecord
           /\ \A h \in Gens : rec'[h] # NoRecord => h = g \/ Remembered(h)'
<1> DEFINE longer == Append(order, g)
           n == Len(order)
<1>1. /\ order \in Seq(Gens) /\ n \in Nat /\ longer \in Seq(Gens) /\ Len(longer) = n + 1 /\ longer[n + 1] = g
      /\ \A i \in 1 .. n : longer[i] = order[i]
      /\ Head(longer) = longer[1] /\ Head(longer) \in Gens
    BY DEF ResponseTypeOK
<1>2. /\ Tail(longer) \in Seq(Gens) /\ Len(Tail(longer)) = n
      /\ \A i \in 1 .. n : Tail(longer)[i] = longer[i + 1]
    <2> HIDE DEF longer, n
    <2>1. longer # <<>>
        BY <1>1
    <2>2. /\ Tail(longer) \in Seq(Gens) /\ Len(Tail(longer)) = Len(longer) - 1
          /\ \A i \in 1 .. Len(Tail(longer)) : Tail(longer)[i] = longer[i + 1]
        BY <1>1, <2>1, HeadTailProperties
    <2>3. Len(Tail(longer)) = n
        BY <1>1, <2>2
    <2> QED
        BY <2>2, <2>3
<1>3. DOMAIN order = 1 .. n /\ DOMAIN longer = 1 .. n + 1 /\ DOMAIN Tail(longer) = 1 .. n
    BY <1>1, <1>2
<1>4. CASE n + 1 > TerminalLimit
    <2> DEFINE old == Head(longer)
    <2>1. order' = Tail(longer) /\ rec' = (IF r[old].ended THEN [r EXCEPT ![old] = NoRecord] ELSE r)
        BY <1>1, <1>4 DEF Remember
    <2>2. n >= 1
        BY <1>1, <1>4, ResponseAssumption
    <2>3. Remembered(g)'
        <3>1. n \in 1 .. n /\ Tail(longer)[n] = g
            BY <1>1, <1>2, <2>2
        <3> QED
            BY <1>3, <2>1, <3>1 DEF Remembered
    <2>4. rec'[g] = r[g] /\ \A h \in Gens : rec'[h] = r[h] \/ rec'[h] = NoRecord
        BY <1>1, <2>1
    <2>5. ASSUME NEW h \in Gens, rec'[h] # NoRecord, h # g
          PROVE  Remembered(h)'
        <3>1. h # old
            BY <1>1, <2>1, <2>5
        <3>2. Remembered(h)
            BY <2>4, <2>5
        <3>3. PICK i \in 1 .. n : order[i] = h
            BY <1>3, <3>2 DEF Remembered
        <3>4. i # 1
            BY <1>1, <3>1, <3>3
        <3>5. i - 1 \in 1 .. n /\ Tail(longer)[i - 1] = h
            BY <1>1, <1>2, <3>3, <3>4
        <3> QED
            BY <1>3, <2>1, <3>5 DEF Remembered
    <2> QED
        BY <2>3, <2>4, <2>5
<1>5. CASE ~(n + 1 > TerminalLimit)
    <2>1. order' = longer /\ rec' = r
        BY <1>1, <1>5 DEF Remember
    <2>2. Remembered(g)'
        BY <1>1, <1>3, <2>1 DEF Remembered
    <2>3. ASSUME NEW h \in Gens, Remembered(h)
          PROVE  Remembered(h)'
        <3>1. PICK i \in 1 .. n : order[i] = h
            BY <1>3, <2>3 DEF Remembered
        <3>2. i \in 1 .. n + 1 /\ longer[i] = h
            BY <1>1, <3>1
        <3> QED
            BY <1>3, <2>1, <3>2 DEF Remembered
    <2> QED
        BY <2>1, <2>2, <2>3
<1> QED
    BY <1>4, <1>5

\* begin: the slot was free, so every record left has ended.
LEMMA BeginCoordinated ==
    ASSUME ResponseTypeOK, Coordinated, NEW e \in Nat \ {0}, Begin(e)
    PROVE  Coordinated'
<1> DEFINE g == generation + 1
<1>1. g \in Gens /\ g # 0
    BY ResponseAssumption DEF Begin, ResponseTypeOK, Gens
<1>2. /\ active' = g /\ playback' = g /\ target' = g /\ order' = order /\ closed' = closed /\ playback = 0
      /\ rec' = [rec EXCEPT ![g] = NewRecord(e)] /\ rec \in [Gens -> Record]
    BY DEF Begin, BeginFresh, ResponseTypeOK
<1> HIDE DEF g
<1>3. rec'[g] = NewRecord(e) /\ \A h \in Gens : h # g => rec'[h] = rec[h]
    BY <1>1, <1>2
<1>4. NewRecord(e).epoch # 0 /\ ~NewRecord(e).ended /\ ~NewRecord(e).stop /\ NewRecord(e).outcome = "none"
    BY DEF NewRecord
<1>5. ActiveHolds' /\ SlotRecord' /\ TargetAgrees'
    BY <1>1, <1>2, <1>3, <1>4 DEF ActiveHolds, SlotRecord, TargetAgrees
<1>6. TableBounded'
    BY <1>1, <1>2, <1>3 DEF TableBounded, Coordinated, Remembered, Gens
<1>7. OnlySlotOpen' /\ CutIsFenced'
    BY <1>1, <1>2, <1>3, <1>4 DEF OnlySlotOpen, CutIsFenced, Coordinated, Gens
<1> QED
    BY <1>5, <1>6, <1>7 DEF Coordinated

\* A record other than a missing one stays one when a field is set.
LEMMA SlotIsKnown ==
    ASSUME ResponseTypeOK, Coordinated, playback # 0
    PROVE  playback \in Gens /\ rec[playback] # NoRecord /\ Known(playback)
<1>1. playback \in Gens /\ rec[playback].epoch # 0
    BY DEF Coordinated, SlotRecord, ResponseTypeOK
<1>2. NoRecord.epoch = 0
    BY DEF NoRecord, NewRecord
<1> QED
    BY <1>1, <1>2 DEF Known

\* note_media and playback_started change a record that exists and neither its
\* outcome, its fence nor its end.
LEMMA NoteCoordinated ==
    ASSUME ResponseTypeOK, Coordinated, NEW g \in Gens, rec[g] # NoRecord,
           UNCHANGED <<active, playback, order, target, closed>>,
           rec' \in [Gens -> Record],
           \A h \in Gens : h # g => rec'[h] = rec[h],
           rec'[g].epoch = rec[g].epoch, rec'[g].outcome = rec[g].outcome,
           rec'[g].stop = rec[g].stop, rec'[g].ended = rec[g].ended
    PROVE  Coordinated'
<1>1. \A h \in Gens : /\ rec'[h].epoch = rec[h].epoch /\ rec'[h].outcome = rec[h].outcome
                       /\ rec'[h].stop = rec[h].stop /\ rec'[h].ended = rec[h].ended
    OBVIOUS
<1>2. active \in Gens \cup {0} /\ playback \in Gens \cup {0}
    BY DEF ResponseTypeOK
<1>3. ActiveHolds' /\ SlotRecord' /\ CutIsFenced' /\ TargetAgrees'
    BY <1>1, <1>2 DEF Coordinated, ActiveHolds, SlotRecord, CutIsFenced, TargetAgrees, Remembered
<1>4. TableBounded' /\ OnlySlotOpen'
    BY <1>1 DEF Coordinated, TableBounded, OnlySlotOpen, Remembered
<1> QED
    BY <1>3, <1>4 DEF Coordinated

\* complete and fence: the slot's response is over and remembered; `o` and `f`
\* are its outcome and its fence from now on.
LEMMA OverCoordinated ==
    ASSUME ResponseTypeOK, Coordinated, NEW g \in Gens, g = playback, NEW r \in [Gens -> Record], Remember(g, r),
           \A h \in Gens : h # g => r[h] = rec[h],
           r[g].epoch = rec[g].epoch, r[g].ended = rec[g].ended,
           r[g].outcome \in {"cancelled", "failed"} => r[g].stop,
           active' = 0, playback' = playback, closed' = closed,
           ~closed => target' = (IF ~r[g].stop THEN g ELSE 0)
    PROVE  Coordinated'
<1>1. g # 0 /\ rec[g].epoch # 0 /\ ~rec[g].ended
    BY DEF Coordinated, SlotRecord, Gens
<1>2. NoRecord.epoch = 0 /\ NoRecord.outcome = "none" /\ ~NoRecord.ended
    BY DEF NoRecord, NewRecord
<1>3. /\ \A h \in Gens : r[h] # NoRecord => h = g \/ Remembered(h)
      /\ \A h \in Gens : r[h] # NoRecord /\ ~r[h].ended => h = g
    BY DEF Coordinated, TableBounded, OnlySlotOpen
<1>4. /\ Remembered(g)' /\ rec'[g] = r[g]
      /\ \A h \in Gens : rec'[h] = r[h] \/ rec'[h] = NoRecord
      /\ \A h \in Gens : rec'[h] # NoRecord => h = g \/ Remembered(h)'
    BY <1>1, <1>3, RememberKeeps
<1>5. ActiveHolds' /\ SlotRecord' /\ TargetAgrees'
    BY <1>1, <1>4 DEF ActiveHolds, SlotRecord, TargetAgrees
<1>6. TableBounded' /\ OnlySlotOpen'
    BY <1>3, <1>4 DEF TableBounded, OnlySlotOpen
<1>7. CutIsFenced'
    BY <1>2, <1>4 DEF CutIsFenced, Coordinated
<1> QED
    BY <1>5, <1>6, <1>7 DEF Coordinated

\* playback_ended: only a response that is over ends, so its record is already
\* on its way to be forgotten.
LEMMA EndedCoordinated ==
    ASSUME ResponseTypeOK, Coordinated, NEW g \in Gens, g = playback, rec[g].outcome # "none", PlaybackEnded(g)
    PROVE  Coordinated'
<1>1. rec[g] \in Record /\ g # 0 /\ active # g
    BY DEF Coordinated, ActiveHolds, ResponseTypeOK, Gens
<1>2. active = 0 /\ Remembered(g)
    BY <1>1 DEF Coordinated, ActiveHolds, SlotRecord
<1>3. /\ \A h \in Gens : h # g => rec'[h] = rec[h]
      /\ rec'[g].ended /\ rec'[g].outcome = rec[g].outcome /\ rec'[g].stop = rec[g].stop
      /\ playback' = 0 /\ active' = 0 /\ order' = order /\ closed' = closed
    BY <1>1, <1>2 DEF PlaybackEnded, ResponseTypeOK, Record
<1>4. ActiveHolds' /\ SlotRecord'
    BY <1>3 DEF ActiveHolds, SlotRecord
<1>5. TableBounded' /\ OnlySlotOpen' /\ CutIsFenced'
    BY <1>2, <1>3 DEF Coordinated, TableBounded, OnlySlotOpen, CutIsFenced, Remembered
<1>6. TargetAgrees'
    <2>1. rec[g].outcome = "completed" \/ rec[g].stop
        BY <1>1 DEF Coordinated, CutIsFenced, Record
    <2> QED
        BY <1>1, <1>3, <2>1 DEF PlaybackEnded, TargetAgrees, Coordinated
<1> QED
    BY <1>4, <1>5, <1>6 DEF Coordinated

\* Closing takes the voice session's target away and leaves the records.
LEMMA CloseCoordinated ==
    ASSUME Coordinated, CloseState
    PROVE  Coordinated'
BY DEF Coordinated, CloseState, ActiveHolds, SlotRecord, TableBounded, OnlySlotOpen, CutIsFenced, TargetAgrees,
       Remembered

-----------------------------------------------------------------------------
(* The steps of the connection. *)

\* What the invariant needs of the types.
LEMMA TypeFacts ==
    ASSUME TypeInv
    PROVE  /\ ServerType /\ ResponseTypeOK /\ minEpoch \in Nat /\ active \in Nat /\ playback \in Nat /\ cand \in Nat
           /\ prod.epoch \in Nat /\ activeEpoch \in Nat /\ seg.gen \in Nat /\ nextSeq \in Nat
           /\ \A g \in Gens : g \in Nat /\ g # 0 /\ rec[g] \in Record /\ rec[g].epoch \in Nat
<1>1. ServerType /\ ResponseTypeOK /\ ConnectionTypeOK
    BY DEF TypeInv, TypeOK, ServerType
<1>2. Gens \subseteq Nat /\ 0 \notin Gens
    BY ResponseAssumption DEF Gens
<1>3. active \in Nat /\ playback \in Nat /\ \A g \in Gens : rec[g] \in Record
    BY <1>1, <1>2 DEF ResponseTypeOK
<1>4. \A r \in Record : r.epoch \in Nat
    BY DEF Record
<1>5. minEpoch \in Nat /\ cand \in Nat /\ activeEpoch \in Nat /\ nextSeq \in Nat
    BY <1>1 DEF ConnectionTypeOK
<1>6. prod.epoch \in Nat /\ seg.gen \in Nat
    BY <1>1 DEF ConnectionTypeOK, Producer, SegmentLoop
<1> QED
    BY <1>1, <1>2, <1>3, <1>4, <1>5, <1>6

\* A step that touches neither the coordinator, the status nor the fence of
\* epochs keeps the invariant.
LEMMA QuietStep ==
    ASSUME Coordinated, UNCHANGED responseVars
    PROVE  Coordinated'
BY DEF Coordinated, ActiveHolds, SlotRecord, TableBounded, OnlySlotOpen, CutIsFenced, TargetAgrees, Remembered,
       responseVars

\* Every cause of a close ends the connection and the voice session together.
LEMMA CloseStep ==
    ASSUME Coordinated, Connected, NEW c \in Causes, Close(c)
    PROVE  Coordinated' /\ Connected'
<1>1. Coordinated'
    BY CloseCoordinated DEF Close
<1>2. Connected'
    BY DEF Close, CloseState, Connected, Open, Causes
<1> QED
    BY <1>1, <1>2

\* cancel_active_response keeps the invariant.
LEMMA FenceStep ==
    ASSUME TypeInv, Coordinated, Connected, NEW p, NEW g \in Nat, NEW more, NEW b, ApplyFence(p, g, more, b),
           UNCHANGED status
    PROVE  Coordinated' /\ Connected'
<1>1. Fence(g, "cancelled") /\ g \in Gens /\ g = playback /\ Fenceable(g)
    BY TypeFacts, CoordinatorTypes DEF ApplyFence, Fence, Fenceable
<1> DEFINE r == [rec EXCEPT ![g].stop = TRUE, ![g].outcome = IF g = active THEN "cancelled" ELSE @]
<1>2. rec[g] \in Record /\ rec \in [Gens -> Record]
    BY <1>1, TypeFacts DEF ResponseTypeOK
<1>3. /\ \A h \in Gens : h # g => r[h] = rec[h]
      /\ r[g].epoch = rec[g].epoch /\ r[g].ended = rec[g].ended /\ r[g].stop
    BY <1>1, <1>2 DEF Record
<1>4. r \in [Gens -> Record]
    BY <1>1, <1>2 DEF Record
<1>5. Remember(g, r) /\ playback' = playback /\ closed' = closed /\ target' = 0
    BY <1>1 DEF Fence
<1>6. active' = 0
    BY <1>1 DEF Fence, Coordinated, ActiveHolds
<1> HIDE DEF r
<1>7. Coordinated'
    BY <1>1, <1>3, <1>4, <1>5, <1>6, TypeFacts, OverCoordinated
<1>8. minEpoch' > 0
    BY <1>1, TypeFacts DEF ApplyFence, AtLeast, Connected
<1> QED
    BY <1>5, <1>7, <1>8 DEF Connected, Open

\* The segment loop keeps the invariant.
LEMMA SegmentStep ==
    ASSUME TypeInv, Coordinated, Connected, SegmentNext
    PROVE  Coordinated' /\ Connected'
<1>1. UNCHANGED <<status, minEpoch, closed>> => Connected'
    BY DEF Connected, Open
<1>2. CASE SegmentSkip \/ SegmentBegun \/ PacketCheck \/ PacketCut \/ FinishSkip \/ FinishAcked
    BY <1>1, <1>2, QuietStep DEF SegmentSkip, SegmentBegun, PacketCheck, PacketCut, FinishSkip, FinishAcked,
                                segmentFrame, responseVars
<1>3. CASE SegmentBegin
    <2> DEFINE e == Head(segq).epoch
    <2>1. e >= minEpoch /\ segq # <<>> /\ UNCHANGED <<status, segmentFrame>>
        BY <1>3 DEF SegmentBegin, TakeItem, Item
    <2>2. e \in Nat
        <3>1. Head(segq) \in QueueItem
            BY <2>1, Queue DEF TypeInv, TypeOK, ConnectionTypeOK
        <3> QED
            BY <3>1 DEF QueueItem
    <2>3. e \in Nat \ {0}
        BY <2>1, <2>2, TypeFacts DEF Connected
    <2>4. CASE Begin(e)
        <3>1. Coordinated'
            BY <2>3, <2>4, TypeFacts, BeginCoordinated
        <3> QED
            BY <1>1, <2>1, <2>4, <3>1 DEF Begin, segmentFrame
    <2>5. CASE UNCHANGED <<responseVars, wireVars>>
        BY <1>1, <2>1, <2>5, QuietStep DEF responseVars, segmentFrame
    <2> QED
        BY <1>3, <2>4, <2>5 DEF SegmentBegin
<1>4. CASE SegmentRefused
    <2>1. (IF active # 0 THEN "response_already_active" ELSE "playback_already_active") \in Causes
        BY DEF Causes
    <2> QED
        BY <1>4, <2>1, CloseStep DEF SegmentRefused
<1>5. CASE FinishRefused
    <2>1. "response_has_no_media" \in Causes
        BY DEF Causes
    <2> QED
        BY <1>5, <2>1, CloseStep DEF FinishRefused
<1>6. CASE PacketSend
    <2> DEFINE g == seg.gen
    <2>1. NoteMedia(g, nextSeq) /\ UNCHANGED <<status, segmentFrame>>
        BY <1>6 DEF PacketSend
    <2>2. g \in Gens /\ g = playback /\ rec[g] \in Record /\ rec[g] # NoRecord
        BY <2>1, TypeFacts, SlotIsKnown DEF NoteMedia, Accepts, Coordinated, ActiveHolds, ResponseTypeOK
    <2>3. ResponseTypeOK'
        BY <2>1, TypeFacts, CoordinatorTypes
    <2>4. /\ \A h \in Gens : h # g => rec'[h] = rec[h]
          /\ rec'[g].epoch = rec[g].epoch /\ rec'[g].outcome = rec[g].outcome
          /\ rec'[g].stop = rec[g].stop /\ rec'[g].ended = rec[g].ended
        BY <2>1, <2>2, TypeFacts DEF NoteMedia, ResponseTypeOK, Record
    <2>5. rec' \in [Gens -> Record] /\ UNCHANGED <<active, playback, order, target, closed>>
        BY <2>1, <2>3 DEF NoteMedia, ResponseTypeOK
    <2>6. Coordinated'
        BY <2>2, <2>4, <2>5, TypeFacts, NoteCoordinated
    <2> QED
        BY <1>1, <2>1, <2>5, <2>6 DEF segmentFrame
<1>7. CASE FinishResponse
    <2> DEFINE g == active
               r == [rec EXCEPT ![g].outcome = "completed"]
    <2>1. Complete(g) /\ g # 0 /\ UNCHANGED <<status, segmentFrame>>
        BY <1>7 DEF FinishResponse, IsActiveEpoch
    <2>2. g \in Gens /\ g = playback /\ rec[g] \in Record /\ ~rec[g].stop /\ rec \in [Gens -> Record]
        BY <2>1, TypeFacts DEF Coordinated, ActiveHolds, ResponseTypeOK
    <2>3. /\ \A h \in Gens : h # g => r[h] = rec[h]
          /\ r[g].epoch = rec[g].epoch /\ r[g].ended = rec[g].ended /\ ~r[g].stop /\ r[g].outcome = "completed"
        BY <2>2 DEF Record
    <2>4. r \in [Gens -> Record]
        BY <2>2 DEF Record
    <2>5. /\ Remember(g, r) /\ active' = 0 /\ playback' = playback /\ closed' = closed /\ target' = target
        BY <2>1 DEF Complete
    <2>6. ~closed => target = g
        BY <2>1, <2>2 DEF Coordinated, TargetAgrees
    <2> HIDE DEF r
    <2>7. ~closed => target' = (IF ~r[g].stop THEN g ELSE 0)
        BY <2>3, <2>5, <2>6
    <2>8. Coordinated'
        BY <2>2, <2>3, <2>4, <2>5, <2>7, TypeFacts, OverCoordinated
    <2> QED
        BY <1>1, <2>1, <2>5, <2>8 DEF segmentFrame
<1> QED
    BY <1>2, <1>3, <1>4, <1>5, <1>6, <1>7 DEF SegmentNext

\* The reader keeps the invariant.
LEMMA ReaderStep ==
    ASSUME TypeInv, Coordinated, Connected, ReaderNext
    PROVE  Coordinated' /\ Connected'
<1>1. UNCHANGED <<status, minEpoch, closed>> => Connected'
    BY DEF Connected, Open
<1>2. ASSUME NEW type, Read(type)
      PROVE  Head(up).gen \in Nat
    <2>1. Head(up) \in Message
        BY <1>2, Queue DEF Read, TypeInv, TypeOK, WireTypeOK
    <2> QED
        BY <2>1, Fields
<1>3. CASE ReadCancel
    <2> DEFINE g == Head(up).gen
    <2>1. g \in Nat
        BY <1>2, <1>3 DEF ReadCancel
    <2>2. CASE UNCHANGED <<responseVars, down, minEpoch, changed, eff, cancels, wd, prod, readerFrame>>
        BY <1>1, <2>2, QuietStep DEF responseVars, readerFrame
    <2>3. CASE ApplyFence("reader", g, <<>>, FALSE) /\ UNCHANGED readerFrame
        BY <2>1, <2>3, FenceStep DEF readerFrame
    <2>4. CASE Close(IF g # playback THEN "stale_cancel_target" ELSE "stale_generation")
        <3>1. (IF g # playback THEN "stale_cancel_target" ELSE "stale_generation") \in Causes
            BY DEF Causes
        <3> QED
            BY <2>4, <3>1, CloseStep
    <2> QED
        BY <1>3, <2>2, <2>3, <2>4 DEF ReadCancel
<1>4. CASE ReadStarted
    <2> DEFINE g == Head(up).gen
               error == StartedError(g, Head(up).arg)
    <2>1. CASE error = "none"
        <3>1. Known(g)
            BY <2>1 DEF StartedError
        <3>2. PlaybackStarted(g) /\ UNCHANGED <<minEpoch, readerFrame>>
            BY <1>4, <2>1 DEF ReadStarted
        <3>3. g \in Gens /\ rec[g] # NoRecord /\ rec[g] \in Record /\ rec \in [Gens -> Record]
            BY <3>1, TypeFacts DEF Known, ResponseTypeOK
        <3>4. /\ \A h \in Gens : h # g => rec'[h] = rec[h]
              /\ rec'[g].epoch = rec[g].epoch /\ rec'[g].outcome = rec[g].outcome
              /\ rec'[g].stop = rec[g].stop /\ rec'[g].ended = rec[g].ended
            BY <3>2, <3>3 DEF PlaybackStarted, Record
        <3>5. rec' \in [Gens -> Record]
            BY <3>2, <3>3 DEF PlaybackStarted, Record
        <3>6. Coordinated'
            BY <3>2, <3>3, <3>4, <3>5, TypeFacts, NoteCoordinated DEF PlaybackStarted
        <3> QED
            BY <1>1, <3>2, <3>6 DEF PlaybackStarted, readerFrame
    <2>2. CASE error # "none"
        <3>1. error \in Causes
            BY <2>2 DEF StartedError, Causes
        <3>2. Close(error)
            BY <1>4, <2>2 DEF ReadStarted
        <3> QED
            BY <3>1, <3>2, CloseStep
    <2> QED
        BY <2>1, <2>2
<1>5. CASE ReadEnded
    <2> DEFINE m == Head(up)
               g == m.gen
               error == EndedError(g, m.outcome, m.played, m.arg)
    <2>1. CASE error = "none"
        <3>1. Known(g) /\ g = playback /\ m.outcome \in Expected(rec[g])
            BY <2>1 DEF EndedError
        <3>2. PlaybackEnded(g) /\ UNCHANGED <<minEpoch, readerFrame>>
            BY <1>5, <2>1 DEF ReadEnded
        <3>3. g \in Gens /\ rec[g].outcome # "none"
            BY <3>1 DEF Known, Expected
        <3>4. Coordinated'
            BY <3>1, <3>2, <3>3, TypeFacts, EndedCoordinated
        <3> QED
            BY <1>1, <3>2, <3>4 DEF PlaybackEnded, readerFrame
    <2>2. CASE error # "none"
        <3>1. error \in Causes
            BY <2>2 DEF EndedError, Causes
        <3>2. Close(error)
            BY <1>5, <2>2 DEF ReadEnded
        <3> QED
            BY <3>1, <3>2, CloseStep
    <2> QED
        BY <2>1, <2>2
<1>6. CASE ReadClose
    <2>1. CASE ApplyFence("reader", playback, <<CloseMsg>>, TRUE) /\ UNCHANGED readerFrame
        BY <2>1, TypeFacts, FenceStep DEF readerFrame
    <2>2. CASE UNCHANGED <<responseVars, minEpoch, readerFrame>>
        BY <1>1, <2>2, QuietStep DEF responseVars, readerFrame
    <2>3. CASE Close("stale_generation")
        BY <2>3, CloseStep DEF Causes
    <2> QED
        BY <1>6, <2>1, <2>2, <2>3 DEF ReadClose
<1>7. CASE ReadDisconnect
    <2>1. "disconnected" \in Causes
        BY DEF Causes
    <2> QED
        BY <1>7, <2>1, CloseStep DEF ReadDisconnect
<1> QED
    BY <1>3, <1>4, <1>5, <1>6, <1>7 DEF ReaderNext

\* The other tasks and the timeouts keep the invariant.
LEMMA TaskStep ==
    ASSUME TypeInv, Coordinated, Connected, TaskNext \/ TimeoutNext \/ AgentNext
    PROVE  Coordinated' /\ Connected'
<1>1. ASSUME UNCHANGED <<status, responseVars>>, minEpoch' >= minEpoch, minEpoch' \in Nat
      PROVE  Coordinated' /\ Connected'
    BY <1>1, TypeFacts, QuietStep DEF Connected, Open, responseVars
<1>2. minEpoch \in Nat /\ minEpoch >= minEpoch /\ prod.epoch \in Nat /\ activeEpoch \in Nat /\ cand \in Nat
    BY TypeFacts
<1>3. CASE AgentNext
    <2>1. UNCHANGED producerFrame
        BY <1>3 DEF AgentNext, Speak, EmitSegment, EndSpeech, CutSpeech, PlayoutDone
    <2> QED
        BY <1>1, <1>2, <2>1 DEF producerFrame
<1>4. CASE TimeoutNext
    <2>1. PICK c \in Causes : Close(c)
        BY <1>4 DEF TimeoutNext, ControlTimeout, WatchdogFire, InterruptTimeout, Retire, Causes
    <2> QED
        BY <2>1, CloseStep
<1>5. CASE \E p \in Owners : EffectSend(p) \/ EffectDone(p)
    BY <1>1, <1>2, <1>5 DEF EffectSend, EffectDone
<1>6. CASE CloseSent
    <2>1. "closed_by_endpoint" \in Causes
        BY DEF Causes
    <2> QED
        BY <1>6, <2>1, CloseStep DEF CloseSent
<1>7. CASE SubmitCandidate
    BY <1>1, <1>2, <1>7 DEF SubmitCandidate
<1>8. ASSUME NEW b \in BOOLEAN, DecideCandidate(b)
      PROVE  Coordinated' /\ Connected'
    <2>1. CASE ApplyFence("coordinator", cand, <<>>, FALSE) /\ UNCHANGED status
        BY <1>2, <2>1, FenceStep
    <2>2. CASE UNCHANGED <<responseVars, wireVars, minEpoch, changed, eff, status>>
        BY <1>1, <1>2, <2>2
    <2> QED
        BY <1>8, <2>1, <2>2 DEF DecideCandidate
<1>9. ASSUME NEW i \in intr, InterruptStart(i) \/ InterruptFinish(i)
      PROVE  Coordinated' /\ Connected'
    <2>1. UNCHANGED <<status, responseVars>>
        BY <1>9 DEF InterruptStart, InterruptFinish
    <2>2. minEpoch' >= minEpoch /\ minEpoch' \in Nat
        BY <1>2, <1>9 DEF InterruptStart, InterruptFinish, AtLeast
    <2> QED
        BY <1>1, <2>1, <2>2
<1> QED
    BY <1>3, <1>4, <1>5, <1>6, <1>7, <1>8, <1>9 DEF TaskNext

\* The coordinator's invariant holds in every behaviour of the session.
THEOREM CoordinationCorrect == Spec => [](Coordinated /\ Connected)
<1>1. Init => Coordinated /\ Connected
    <2>1. NoRecord.outcome = "none"
        BY DEF NoRecord, NewRecord
    <2> QED
        BY <2>1 DEF Init, ResponseInit, ConnectionInit, Connected, Open, Coordinated, ActiveHolds, SlotRecord,
                    TableBounded, OnlySlotOpen, CutIsFenced, TargetAgrees, Remembered
<1>2. TypeInv /\ Coordinated /\ Connected /\ [Next]_vars => Coordinated' /\ Connected'
    <2> SUFFICES ASSUME TypeInv, Coordinated, Connected, [Next]_vars PROVE Coordinated' /\ Connected'
        OBVIOUS
    <2>1. CASE Server
        BY <2>1, SegmentStep, ReaderStep, TaskStep DEF Server, ConnectionNext
    <2>2. CASE Endpoint \/ UNCHANGED vars
        <3>1. UNCHANGED <<responseVars, status, minEpoch>>
            BY <2>2 DEF Endpoint, vars, connectionVars
        <3> QED
            BY <3>1, QuietStep DEF Connected, Open, responseVars
    <2> QED
        BY <2>1, <2>2 DEF Next, Finished
<1> QED
    BY <1>1, <1>2, TypeInvariant, PTL DEF Spec

\* The active response, the slot, the record's fence and the voice session's
\* target always agree (LayersAgree), however cancels, closes, interruptions,
\* reports and timeouts interleave.
THEOREM LayersCorrect == Spec => []LayersAgree
<1>1. Coordinated /\ Connected => LayersAgree
    BY DEF Coordinated, Connected, ActiveHolds, TargetAgrees, LayersAgree
<1> QED
    BY <1>1, CoordinationCorrect, PTL

\* _remember_terminal never forgets a response whose playback is under way and
\* never keeps one it will not come back to (RecordsKept), whatever the limit.
THEOREM RecordsCorrect == Spec => []RecordsKept
<1>1. TypeInv /\ Coordinated => RecordsKept
    <2> SUFFICES ASSUME TypeInv, Coordinated PROVE RecordsKept
        OBVIOUS
    <2>1. playback # 0 => Known(playback)
        BY TypeFacts, SlotIsKnown
    <2> QED
        BY <2>1 DEF RecordsKept, Coordinated, TableBounded, Remembered, Known
<1> QED
    BY <1>1, CoordinationCorrect, TypeInvariant, PTL

\* A step takes the first frame from the downlink, adds a control message, or
\* is the one that sends audio.
LEMMA DownSteps ==
    ASSUME TypeInv, Next
    PROVE  \/ down' = down
           \/ down # <<>> /\ down' = Tail(down)
           \/ \E m \in Control : down' = Append(down, m)
           \/ PacketSend
<1> DEFINE Quiet == \/ down' = down
                    \/ down # <<>> /\ down' = Tail(down)
                    \/ \E m \in Control : down' = Append(down, m)
<1>1. ServerType /\ ResponseTypeOK /\ playback \in Nat /\ active \in Nat /\ cand \in Nat
    BY TypeFacts
<1>2. \A c : Close(c) => Quiet
    BY Controls DEF Close
<1>3. ASSUME Endpoint
      PROVE  Quiet
    <2>1. CASE ReceiveBegin \/ ReceiveEnd \/ ReceiveStop \/ ReceiveMedia \/ ReceiveClose
        BY <2>1 DEF ReceiveBegin, ReceiveEnd, ReceiveStop, ReceiveMedia, ReceiveClose, Take
    <2>2. CASE SendFact \/ StopDevice \/ Disconnect \/ UserCancel
        BY <2>2 DEF SendFact, StopDevice, Disconnect, UserCancel, CancelRequest
    <2>3. CASE ProcessCommand \/ Observe \/ TakeMedia \/ Gate \/ WriteChunk \/ BreakOff \/ PlaybackFault
        BY <2>3 DEF ProcessCommand, Observe, TakeMedia, Gate, WriteChunk, BreakOff, PlaybackFault, wireVars
    <2> QED
        BY <1>3, <2>1, <2>2, <2>3 DEF Endpoint, EndpointNext
<1>4. ASSUME AgentNext
      PROVE  Quiet
    BY <1>4 DEF AgentNext, Speak, EmitSegment, EndSpeech, CutSpeech, PlayoutDone, producerFrame, wireVars
<1>5. ASSUME SegmentNext, ~PacketSend
      PROVE  Quiet
    <2>1. CASE SegmentSkip \/ SegmentBegun \/ PacketCheck \/ PacketCut \/ FinishSkip \/ FinishAcked
        BY <2>1 DEF SegmentSkip, SegmentBegun, PacketCheck, PacketCut, FinishSkip, FinishAcked, wireVars
    <2>2. CASE SegmentBegin
        <3>1. \A e : Begin(e) => generation' \in Nat
            BY <1>1 DEF Begin, ResponseTypeOK
        <3> QED
            BY <2>2, <3>1, Controls DEF SegmentBegin, Send, wireVars
    <2>3. CASE SegmentRefused \/ FinishRefused
        BY <1>2, <2>3 DEF SegmentRefused, FinishRefused
    <2>4. CASE FinishResponse
        <3>1. active \in Gens
            BY <1>1, <2>4 DEF FinishResponse, IsActiveEpoch, ResponseTypeOK
        <3>2. rec[active].last \in Nat \cup {-1}
            BY <1>1, <3>1 DEF ResponseTypeOK, Record, MediaSeq, None
        <3>3. EndMsg(active, "completed", rec[active].last) \in Control
            BY <1>1, <3>2, Controls
        <3> QED
            BY <2>4, <3>3 DEF FinishResponse, Send
    <2> QED
        BY <1>5, <2>1, <2>2, <2>3, <2>4 DEF SegmentNext
<1>6. ASSUME NEW p \in Owners, NEW g \in Nat, NEW more \in Seq(Control), NEW b \in BOOLEAN, ApplyFence(p, g, more, b)
      PROVE  Quiet
    BY <1>1, <1>6, FenceTypes
<1>7. "reader" \in Owners /\ "coordinator" \in Owners /\ <<>> \in Seq(Control) /\ <<CloseMsg>> \in Seq(Control)
      /\ CloseMsg \in Control
    <2>1. CloseMsg \in Control
        BY Controls
    <2> QED
        BY <2>1 DEF Owners
<1>8. ASSUME ReaderNext
      PROVE  Quiet
    <2>1. ASSUME NEW type, Read(type)
          PROVE  Head(up).gen \in Nat
        <3>1. Head(up) \in Message
            BY <2>1, Queue DEF Read, TypeInv, TypeOK, WireTypeOK
        <3> QED
            BY <3>1, Fields
    <2>2. CASE ReadCancel
        BY <1>2, <1>6, <1>7, <2>1, <2>2 DEF ReadCancel
    <2>3. CASE ReadStarted \/ ReadEnded
        BY <1>2, <2>3 DEF ReadStarted, ReadEnded
    <2>4. CASE ReadClose
        BY <1>1, <1>2, <1>6, <1>7, <2>4 DEF ReadClose
    <2>5. CASE ReadDisconnect
        BY <1>2, <2>5 DEF ReadDisconnect
    <2> QED
        BY <1>8, <2>2, <2>3, <2>4, <2>5 DEF ReaderNext
<1>9. ASSUME TaskNext \/ TimeoutNext
      PROVE  Quiet
    <2>1. CASE TimeoutNext \/ CloseSent
        BY <1>2, <2>1 DEF TimeoutNext, ControlTimeout, WatchdogFire, InterruptTimeout, Retire, CloseSent
    <2>2. ASSUME NEW p \in Owners, EffectSend(p)
          PROVE  Quiet
        <3>1. Head(eff[p].todo) \in Control
            BY <2>2, ControlQueue DEF EffectSend, TypeInv, ControlTodo
        <3> QED
            BY <2>2, <3>1 DEF EffectSend, Send
    <2>3. ASSUME NEW b \in BOOLEAN, DecideCandidate(b)
          PROVE  Quiet
        BY <1>1, <1>6, <1>7, <2>3 DEF DecideCandidate, wireVars
    <2>4. CASE \/ \E p \in Owners : EffectDone(p)
               \/ SubmitCandidate
               \/ \E i \in intr : InterruptStart(i) \/ InterruptFinish(i)
        BY <2>4 DEF EffectDone, SubmitCandidate, InterruptStart, InterruptFinish, interruptFrame, wireVars
    <2> QED
        BY <1>9, <2>1, <2>2, <2>3, <2>4 DEF TaskNext
<1> QED
    BY <1>3, <1>4, <1>5, <1>8, <1>9 DEF Next, Server, ConnectionNext, Finished, vars, wireVars

\* Whatever the segment loop was doing when a response was fenced, no packet of it is
\* reserved for the wire afterwards (NoMediaAfterStop); one that was reserved before may
\* still be written, before the stop.
THEOREM FenceCorrect == Spec => NoMediaAfterStop
<1> DEFINE Silent == \A g \in Gens : rec[g].stop =>
                        \A i \in Len(down) + 1 .. Len(down') : ~(down'[i].type = "media" /\ down'[i].gen = g)
<1>1. TypeInv /\ Coordinated /\ [Next]_vars => [Silent]_vars
    <2> SUFFICES ASSUME TypeInv, Coordinated, Next PROVE Silent
        OBVIOUS
    <2>1. down \in Seq(Message) /\ Len(down) \in Nat
        BY DEF TypeInv, TypeOK, WireTypeOK
    <2>2. CASE down' = down \/ (down # <<>> /\ down' = Tail(down))
        <3>1. Len(down') <= Len(down) /\ Len(down') \in Nat
            BY <2>1, <2>2
        <3> QED
            BY <2>1, <3>1
    <2>3. ASSUME NEW m \in Control, down' = Append(down, m)
          PROVE  Silent
        <3>1. Len(down') = Len(down) + 1 /\ down'[Len(down) + 1] = m /\ m.type # "media"
            BY <2>1, <2>3 DEF Control
        <3> QED
            BY <2>1, <3>1
    <2>4. CASE PacketSend
        <3> DEFINE m == MediaMsg(seg.gen, nextSeq)
        <3>1. m \in Message /\ m.gen = seg.gen
            BY TypeFacts, Messages DEF MediaMsg, Plain
        <3>2. down' = Append(down, m)
            BY <2>4 DEF PacketSend, Send
        <3>3. Len(down') = Len(down) + 1 /\ down'[Len(down) + 1] = m
            BY <2>1, <3>1, <3>2
        <3>4. ~rec[seg.gen].stop
            BY <2>4 DEF PacketSend, NoteMedia, Accepts, Coordinated, ActiveHolds
        <3> HIDE DEF m
        <3> QED
            BY <2>1, <3>1, <3>3, <3>4
    <2> QED
        BY <2>2, <2>3, <2>4, DownSteps
<1> QED
    BY <1>1, TypeInvariant, CoordinationCorrect, PTL DEF Spec, NoMediaAfterStop
=============================================================================
