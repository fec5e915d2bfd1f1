---------------------------- MODULE CrossingProofs ----------------------------
(***************************************************************************)
(* What the server's account of playback says of the endpoint, and what    *)
(* the two make of each other's messages, proved for any bounds.           *)
(***************************************************************************)
EXTENDS PlaybackProofs

-----------------------------------------------------------------------------
(* Queues of messages. *)

\* The messages of a type.
Of(t) == {m \in Message : m.type = t}

\* The queue has a message of S.
Has(q, S) == \E i \in DOMAIN q : q[i] \in S

\* It has at most one.
Once(q, S) == \A i, j \in DOMAIN q : q[i] \in S /\ q[j] \in S => i = j

\* Each one it has is about generation g.
Names(q, S, g) == \A i \in DOMAIN q : q[i] \in S => q[i].gen = g

\* Each one comes before every message of T.
Before(q, S, T) == \A i, j \in DOMAIN q : q[i] \in S /\ q[j] \in T => i < j

\* r has nothing of S that q has not.
NoMore(q, r, S) ==
    /\ Has(r, S) => Has(q, S)
    /\ Once(q, S) => Once(r, S)
    /\ \A g : Names(q, S, g) => Names(r, S, g)

\* A message is appended.
LEMMA AppendQueue ==
    ASSUME NEW q \in Seq(Message), NEW m \in Message, NEW S
    PROVE  /\ Has(Append(q, m), S) <=> Has(q, S) \/ m \in S
           /\ Once(q, S) /\ ~Has(q, S) => Once(Append(q, m), S)
           /\ m \notin S => NoMore(q, Append(q, m), S)
           /\ \A g : Names(q, S, g) /\ (m \in S => m.gen = g) => Names(Append(q, m), S, g)
<1> DEFINE r == Append(q, m)
           n == Len(q)
<1>1. n \in Nat /\ DOMAIN q = 1 .. n /\ DOMAIN r = 1 .. n + 1 /\ r[n + 1] = m /\ \A i \in 1 .. n : r[i] = q[i]
    OBVIOUS
<1> HIDE DEF r, n
<1>2. Has(r, S) <=> Has(q, S) \/ m \in S
    BY <1>1 DEF Has
<1>3. Once(q, S) /\ (~Has(q, S) \/ m \notin S) => Once(r, S)
    BY <1>1 DEF Once, Has
<1>4. \A g : Names(q, S, g) /\ (m \in S => m.gen = g) => Names(r, S, g)
    BY <1>1 DEF Names
<1> QED
    BY <1>2, <1>3, <1>4 DEF r, NoMore

\* An order that appending keeps.
LEMMA AppendBefore ==
    ASSUME NEW q \in Seq(Message), NEW m \in Message, NEW S, NEW T, Before(q, S, T),
           m \notin S \/ (~Has(q, T) /\ m \notin T)
    PROVE  Before(Append(q, m), S, T)
<1> DEFINE r == Append(q, m)
           n == Len(q)
<1>1. n \in Nat /\ DOMAIN q = 1 .. n /\ DOMAIN r = 1 .. n + 1 /\ r[n + 1] = m /\ \A i \in 1 .. n : r[i] = q[i]
    OBVIOUS
<1> HIDE DEF r, n
<1>2. Before(r, S, T)
    BY <1>1 DEF Before, Has
<1> QED
    BY <1>2 DEF r

\* The head is taken.
LEMMA TailQueue ==
    ASSUME NEW q \in Seq(Message), q # <<>>, NEW S
    PROVE  /\ Has(q, S) <=> Head(q) \in S \/ Has(Tail(q), S)
           /\ NoMore(q, Tail(q), S)
           /\ Once(q, S) /\ Head(q) \in S => ~Has(Tail(q), S)
           /\ \A g : Names(q, S, g) /\ Head(q) \in S => Head(q).gen = g
<1> DEFINE r == Tail(q)
           n == Len(q)
<1>1. n \in Nat /\ n > 0 /\ DOMAIN q = 1 .. n /\ DOMAIN r = 1 .. n - 1 /\ \A i \in 1 .. n - 1 : r[i] = q[i + 1]
    OBVIOUS
<1>2. Head(q) = q[1]
    OBVIOUS
<1> HIDE DEF r, n
<1>3. \A i \in 1 .. n : i = 1 \/ (i - 1 \in 1 .. n - 1 /\ r[i - 1] = q[i])
    BY <1>1
<1>4. 1 \in 1 .. n /\ \A i \in 1 .. n - 1 : i + 1 \in 1 .. n /\ i + 1 # 1
    BY <1>1
<1>5. Has(q, S) => q[1] \in S \/ Has(r, S)
    BY <1>1, <1>3 DEF Has
<1>6. q[1] \in S \/ Has(r, S) => Has(q, S)
    BY <1>1, <1>4 DEF Has
<1>7. Once(q, S) => Once(r, S)
    <2> SUFFICES ASSUME Once(q, S), NEW i \in 1 .. n - 1, NEW j \in 1 .. n - 1, r[i] \in S, r[j] \in S PROVE i = j
        BY <1>1 DEF Once
    <2>1. i + 1 = j + 1
        BY <1>1, <1>4 DEF Once
    <2> QED
        BY <2>1
<1>8. Once(q, S) /\ q[1] \in S => ~Has(r, S)
    BY <1>1, <1>4 DEF Once, Has
<1>9. \A g : Names(q, S, g) => Names(r, S, g) /\ (q[1] \in S => q[1].gen = g)
    BY <1>1, <1>4 DEF Names
<1> QED
    BY <1>2, <1>5, <1>6, <1>7, <1>8, <1>9 DEF r, NoMore

\* An order that taking the head keeps.
LEMMA TailBefore ==
    ASSUME NEW q \in Seq(Message), q # <<>>, NEW S, NEW T, Before(q, S, T)
    PROVE  Before(Tail(q), S, T) /\ (Head(q) \in T => ~Has(q, S))
<1> DEFINE r == Tail(q)
           n == Len(q)
<1>1. n \in Nat /\ n > 0 /\ DOMAIN q = 1 .. n /\ DOMAIN r = 1 .. n - 1 /\ \A i \in 1 .. n - 1 : r[i] = q[i + 1]
    OBVIOUS
<1>2. Head(q) = q[1]
    OBVIOUS
<1> HIDE DEF r, n
<1>3. 1 \in 1 .. n /\ \A i \in 1 .. n - 1 : i + 1 \in 1 .. n /\ i + 1 # 1
    BY <1>1
<1>4. Before(r, S, T)
    <2> SUFFICES ASSUME NEW i \in 1 .. n - 1, NEW j \in 1 .. n - 1, r[i] \in S, r[j] \in T PROVE i < j
        BY <1>1 DEF Before
    <2>1. i + 1 < j + 1
        BY <1>1, <1>3 DEF Before
    <2> QED
        BY <2>1
<1>5. q[1] \in T => ~Has(q, S)
    BY <1>1 DEF Before, Has
<1> QED
    BY <1>2, <1>4, <1>5 DEF r

\* A queue is appended to another.
LEMMA JoinQueue ==
    ASSUME NEW q \in Seq(Message), NEW r \in Seq(Message), NEW S
    PROVE  /\ Has(q \o r, S) <=> Has(q, S) \/ Has(r, S)
           /\ Once(q, S) /\ Once(r, S) /\ ~(Has(q, S) /\ Has(r, S)) => Once(q \o r, S)
           /\ \A g : Names(q, S, g) /\ Names(r, S, g) => Names(q \o r, S, g)
<1> DEFINE c == q \o r
           n == Len(q)
           k == Len(r)
<1>1. /\ n \in Nat /\ k \in Nat /\ DOMAIN q = 1 .. n /\ DOMAIN r = 1 .. k /\ DOMAIN c = 1 .. n + k
      /\ \A i \in 1 .. n + k : c[i] = IF i <= n THEN q[i] ELSE r[i - n]
    OBVIOUS
<1> HIDE DEF c, n, k
<1>2. /\ \A i \in 1 .. n : i \in 1 .. n + k /\ c[i] = q[i]
      /\ \A i \in 1 .. k : i + n \in 1 .. n + k /\ c[i + n] = r[i]
      /\ \A i \in 1 .. n + k : \/ i \in 1 .. n /\ c[i] = q[i]
                               \/ i - n \in 1 .. k /\ c[i] = r[i - n] /\ i > n
    BY <1>1
<1>3. Has(c, S) => Has(q, S) \/ Has(r, S)
    BY <1>1, <1>2 DEF Has
<1>4. Has(q, S) \/ Has(r, S) => Has(c, S)
    BY <1>1, <1>2 DEF Has
<1>5. Once(q, S) /\ Once(r, S) /\ ~(Has(q, S) /\ Has(r, S)) => Once(c, S)
    <2> SUFFICES ASSUME Once(q, S), Once(r, S), ~(Has(q, S) /\ Has(r, S)),
                        NEW i \in 1 .. n + k, NEW j \in 1 .. n + k, c[i] \in S, c[j] \in S
                 PROVE  i = j
        BY <1>1 DEF Once
    <2>1. CASE i \in 1 .. n /\ j \in 1 .. n
        BY <1>1, <1>2, <2>1 DEF Once
    <2>2. CASE i - n \in 1 .. k /\ j - n \in 1 .. k /\ c[i] = r[i - n] /\ c[j] = r[j - n]
        <3>1. i - n = j - n
            BY <1>1, <2>2 DEF Once
        <3> QED
            BY <1>1, <3>1
    <2> QED
        BY <1>1, <1>2, <2>1, <2>2 DEF Has
<1>6. \A g : Names(q, S, g) /\ Names(r, S, g) => Names(c, S, g)
    BY <1>1, <1>2 DEF Names
<1> QED
    BY <1>3, <1>4, <1>5, <1>6 DEF c

\* An order that joining two queues keeps.
LEMMA JoinBefore ==
    ASSUME NEW q \in Seq(Message), NEW r \in Seq(Message), NEW S, NEW T,
           Before(q, S, T), Before(r, S, T), ~(Has(q, T) /\ Has(r, S))
    PROVE  Before(q \o r, S, T)
<1> DEFINE c == q \o r
           n == Len(q)
           k == Len(r)
<1>1. /\ n \in Nat /\ k \in Nat /\ DOMAIN q = 1 .. n /\ DOMAIN r = 1 .. k /\ DOMAIN c = 1 .. n + k
      /\ \A i \in 1 .. n + k : c[i] = IF i <= n THEN q[i] ELSE r[i - n]
    OBVIOUS
<1> HIDE DEF c, n, k
<1>2. \A i \in 1 .. n + k : \/ i \in 1 .. n /\ c[i] = q[i]
                            \/ i - n \in 1 .. k /\ c[i] = r[i - n] /\ i > n
    BY <1>1
<1>3. ASSUME NEW i \in 1 .. n + k, NEW j \in 1 .. n + k, c[i] \in S, c[j] \in T
      PROVE  i < j
    <2>1. CASE i \in 1 .. n /\ j \in 1 .. n
        BY <1>1, <1>3, <2>1 DEF Before
    <2>2. CASE i - n \in 1 .. k /\ j - n \in 1 .. k /\ c[i] = r[i - n] /\ c[j] = r[j - n]
        <3>1. i - n < j - n
            BY <1>1, <1>3, <2>2 DEF Before
        <3> QED
            BY <1>1, <3>1
    <2>3. CASE i \in 1 .. n /\ j > n
        BY <1>1, <2>3
    <2> QED
        BY <1>1, <1>2, <1>3, <2>1, <2>2, <2>3 DEF Has
<1>4. Before(c, S, T)
    BY <1>1, <1>3 DEF Before
<1> QED
    BY <1>4 DEF c

\* Nothing is added.
LEMMA SameQueue ==
    ASSUME NEW q, NEW S
    PROVE  NoMore(q, q, S) /\ NoMore(q, <<>>, S)
BY DEF NoMore, Has, Once, Names

\* Two short tuples that agree are equal.
LEMMA ShortTuples ==
    ASSUME NEW S, NEW u \in Seq(S), NEW v \in Seq(S), Len(u) = Len(v), Len(u) \in 0 .. 3,
           \A i \in 1 .. Len(u) : u[i] = v[i]
    PROVE  u = v
BY SeqEqual

\* What the operations on sequences do to tuples of one, two and three.
LEMMA Tuple1 ==
    ASSUME NEW a \in Message
    PROVE  /\ <<a>> \o <<>> = <<a>> /\ <<>> \o <<a>> = <<a>> /\ <<>> \o <<>> = <<>>
           /\ Append(<<>>, a) = <<a>> /\ Head(<<a>>) = a /\ Tail(<<a>>) = <<>> /\ <<a>> # <<>>
<1>1. <<>> \in Seq(Message) /\ <<a>> \in Seq(Message)
    OBVIOUS
<1>2. <<a>> \o <<>> = <<a>> /\ <<>> \o <<a>> = <<a>> /\ <<>> \o <<>> = <<>>
    BY <1>1, ConcatEmptySeq
<1>3. Append(<<>>, a) = <<a>>
    <2> DEFINE u == Append(<<>>, a)
               v == <<a>>
    <2>1. /\ u \in Seq(Message) /\ Len(u) = 1 /\ u[1] = a
          /\ v \in Seq(Message) /\ Len(v) = 1 /\ v[1] = a
        BY <1>1
    <2> HIDE DEF u, v
    <2>2. \A i \in 1 .. Len(u) : u[i] = v[i]
        BY <2>1
    <2>3. u = v
        BY <2>1, <2>2, ShortTuples
    <2> QED
        BY <2>3 DEF u, v
<1>4. Head(<<a>>) = a /\ Tail(<<a>>) = <<>> /\ <<a>> # <<>>
    OBVIOUS
<1> QED
    BY <1>2, <1>3, <1>4

\* A queue of two messages.
LEMMA Tuple2 ==
    ASSUME NEW a \in Message, NEW b \in Message
    PROVE  /\ <<a, b>> \o <<>> = <<a, b>> /\ <<a>> \o <<b>> = <<a, b>> /\ Append(<<a>>, b) = <<a, b>>
           /\ Head(<<a, b>>) = a /\ Tail(<<a, b>>) = <<b>> /\ <<a, b>> # <<>>
<1>1. <<a>> \in Seq(Message) /\ <<b>> \in Seq(Message) /\ <<a, b>> \in Seq(Message)
    OBVIOUS
<1>2. <<a, b>> \o <<>> = <<a, b>>
    BY <1>1, ConcatEmptySeq
<1>3. <<a>> \o <<b>> = <<a, b>>
    <2> DEFINE u == <<a>> \o <<b>>
               v == <<a, b>>
    <2>1. /\ u \in Seq(Message) /\ Len(u) = 2 /\ u[1] = a /\ u[2] = b
          /\ v \in Seq(Message) /\ Len(v) = 2 /\ v[1] = a /\ v[2] = b
        BY <1>1
    <2> HIDE DEF u, v
    <2>2. \A i \in 1 .. Len(u) : u[i] = v[i]
        BY <2>1
    <2>3. u = v
        BY <2>1, <2>2, ShortTuples
    <2> QED
        BY <2>3 DEF u, v
<1>4. Append(<<a>>, b) = <<a, b>>
    <2> DEFINE u == Append(<<a>>, b)
               v == <<a, b>>
    <2>1. /\ u \in Seq(Message) /\ Len(u) = 2 /\ u[1] = a /\ u[2] = b
          /\ v \in Seq(Message) /\ Len(v) = 2 /\ v[1] = a /\ v[2] = b
        BY <1>1
    <2> HIDE DEF u, v
    <2>2. \A i \in 1 .. Len(u) : u[i] = v[i]
        BY <2>1
    <2>3. u = v
        BY <2>1, <2>2, ShortTuples
    <2> QED
        BY <2>3 DEF u, v
<1>5. Head(<<a, b>>) = a /\ Tail(<<a, b>>) = <<b>> /\ <<a, b>> # <<>>
    OBVIOUS
<1> QED
    BY <1>2, <1>3, <1>4, <1>5

\* A queue of three messages.
LEMMA Tuple3 ==
    ASSUME NEW a \in Message, NEW b \in Message, NEW c \in Message
    PROVE  /\ <<a, b>> \o <<c>> = <<a, b, c>> /\ Append(<<a, b>>, c) = <<a, b, c>>
           /\ Head(<<a, b, c>>) = a /\ Tail(<<a, b, c>>) = <<b, c>> /\ <<a, b, c>> # <<>>
<1>1. <<a, b>> \in Seq(Message) /\ <<c>> \in Seq(Message) /\ <<a, b, c>> \in Seq(Message)
    OBVIOUS
<1>2. <<a, b>> \o <<c>> = <<a, b, c>>
    <2> DEFINE u == <<a, b>> \o <<c>>
               v == <<a, b, c>>
    <2>1. /\ u \in Seq(Message) /\ Len(u) = 3 /\ u[1] = a /\ u[2] = b /\ u[3] = c
          /\ v \in Seq(Message) /\ Len(v) = 3 /\ v[1] = a /\ v[2] = b /\ v[3] = c
        BY <1>1
    <2> HIDE DEF u, v
    <2>2. \A i \in 1 .. Len(u) : u[i] = v[i]
        BY <2>1
    <2>3. u = v
        BY <2>1, <2>2, ShortTuples
    <2> QED
        BY <2>3 DEF u, v
<1>3. Append(<<a, b>>, c) = <<a, b, c>>
    <2> DEFINE u == Append(<<a, b>>, c)
               v == <<a, b, c>>
    <2>1. /\ u \in Seq(Message) /\ Len(u) = 3 /\ u[1] = a /\ u[2] = b /\ u[3] = c
          /\ v \in Seq(Message) /\ Len(v) = 3 /\ v[1] = a /\ v[2] = b /\ v[3] = c
        BY <1>1
    <2> HIDE DEF u, v
    <2>2. \A i \in 1 .. Len(u) : u[i] = v[i]
        BY <2>1
    <2>3. u = v
        BY <2>1, <2>2, ShortTuples
    <2> QED
        BY <2>3 DEF u, v
<1>4. Head(<<a, b, c>>) = a /\ Tail(<<a, b, c>>) = <<b, c>> /\ <<a, b, c>> # <<>>
    OBVIOUS
<1> QED
    BY <1>2, <1>3, <1>4

\* The types of the messages.
LEMMA MessageTypes ==
    ASSUME NEW g, NEW n, NEW o, NEW b
    PROVE  /\ BeginMsg(g).type = "begin" /\ BeginMsg(g).gen = g
           /\ MediaMsg(g, n).type = "media" /\ MediaMsg(g, n).gen = g /\ MediaMsg(g, n).arg = n
           /\ StopMsg(g, n).type = "stop" /\ StopMsg(g, n).gen = g /\ StopMsg(g, n).arg = n
           /\ StartedMsg(g, n).type = "started" /\ StartedMsg(g, n).gen = g /\ StartedMsg(g, n).arg = n
           /\ CancelMsg(g, n).type = "cancel" /\ CancelMsg(g, n).gen = g
           /\ CloseMsg.type = "close" /\ DisconnectMsg.type = "disconnect"
           /\ EndMsg(g, o, n).type = "end" /\ EndMsg(g, o, n).gen = g
           /\ EndMsg(g, o, n).outcome = o /\ EndMsg(g, o, n).arg = n
           /\ EndedMsg(g, o, b, n).type = "ended" /\ EndedMsg(g, o, b, n).gen = g /\ EndedMsg(g, o, b, n).arg = n
           /\ EndedMsg(g, o, b, n).outcome = o /\ EndedMsg(g, o, b, n).played = b
BY DEF BeginMsg, MediaMsg, StopMsg, StartedMsg, CancelMsg, CloseMsg, DisconnectMsg, EndMsg, EndedMsg, Plain

-----------------------------------------------------------------------------
(* What a step of the server does to the wire and to the account of        *)
(* responses.                                                              *)

\* The reader takes a message, or another task runs.
Reads == up' = up \/ (up # <<>> /\ up' = Tail(up))

\* Nothing changes that the endpoint or the coordinator could see.
Unheard ==
    /\ UNCHANGED <<responseVars, wireVars, nextSeq, status>>
    /\ eff' = eff \/ \E p \in Owners : eff[p].todo = <<>> /\ eff' = [eff EXCEPT ![p] = NoEffect]

\* A response is begun.
Begins ==
    \E e \in Nat \ {0} : Begin(e) /\ Send(BeginMsg(generation + 1)) /\ UNCHANGED <<nextSeq, eff, status>>

\* A packet is sent.
Plays ==
    /\ NoteMedia(seg.gen, nextSeq) /\ Send(MediaMsg(seg.gen, nextSeq)) /\ nextSeq' = nextSeq + 1
    /\ UNCHANGED <<eff, status>>

\* The active response completes.
Completes ==
    /\ active # 0 /\ Complete(active) /\ Send(EndMsg(active, "completed", rec[active].last))
    /\ UNCHANGED <<nextSeq, eff, status>>

\* The slot's response is fenced.
Fences ==
    /\ \E p \in Owners, more \in {<<>>, <<CloseMsg>>}, b \in BOOLEAN :
          ~eff[p].on /\ ApplyFence(p, playback, more, b)
    /\ up' = up \/ (up # <<>> /\ up' = Tail(up) /\ Head(up).type \in {"cancel", "close"})
    /\ UNCHANGED <<nextSeq, status>>

\* The session closes.
Closes == \E c \in Causes : Close(c) /\ Reads

\* The start of a playback is accepted.
Hears ==
    /\ Read("started") /\ StartedError(Head(up).gen, Head(up).arg) = "none" /\ PlaybackStarted(Head(up).gen)
    /\ UNCHANGED <<down, nextSeq, eff, status>>

\* The end of a playback is accepted and the slot is given back.
Frees ==
    /\ Read("ended") /\ EndedError(Head(up).gen, Head(up).outcome, Head(up).played, Head(up).arg) = "none"
    /\ PlaybackEnded(Head(up).gen)
    /\ UNCHANGED <<down, nextSeq, eff, status>>

\* A repeated cancel is read.
Ignores == Read("cancel") /\ UNCHANGED <<responseVars, down, nextSeq, eff, status>>

\* A close is read while nothing plays.
Answers ==
    /\ Read("close") /\ playback = 0 /\ down' = Append(down, CloseMsg)
    /\ eff' = [eff EXCEPT !["reader"].on = TRUE, !["reader"].close = TRUE]
    /\ UNCHANGED <<responseVars, nextSeq, status>>

\* Every step of the server is one of these.
LEMMA ServerKinds ==
    ASSUME TypeInv, Connected, ConnectionNext
    PROVE  \/ Unheard \/ Begins \/ Plays \/ Completes \/ Fences \/ Closes \/ Hears \/ Frees \/ Ignores \/ Answers
           \/ \E p \in Owners : EffectSend(p)
<1>1. ASSUME NEW c \in Causes, Close(c), Reads
      PROVE  Closes
    BY <1>1 DEF Closes
<1>2. CASE AgentNext
    <2>1. UNCHANGED producerFrame
        BY <1>2 DEF AgentNext, Speak, EmitSegment, EndSpeech, CutSpeech, PlayoutDone
    <2> QED
        BY <2>1 DEF Unheard, producerFrame
<1>3. CASE SegmentSkip \/ SegmentBegun \/ PacketCheck \/ PacketCut \/ FinishSkip \/ FinishAcked
    BY <1>3 DEF SegmentSkip, SegmentBegun, PacketCheck, PacketCut, FinishSkip, FinishAcked, segmentFrame, Unheard
<1>4. CASE SegmentBegin
    <2> DEFINE e == Head(segq).epoch
    <2>1. e >= minEpoch /\ segq # <<>> /\ UNCHANGED <<nextSeq, status, segmentFrame>>
        BY <1>4 DEF SegmentBegin, TakeItem, Item
    <2>2. e \in Nat
        <3>1. Head(segq) \in QueueItem
            BY <2>1, Queue DEF TypeInv, TypeOK, ConnectionTypeOK
        <3> QED
            BY <3>1 DEF QueueItem
    <2>3. e \in Nat \ {0}
        BY <2>1, <2>2, TypeFacts DEF Connected
    <2>4. CASE Begin(e) /\ Send(BeginMsg(generation'))
        <3>1. generation' = generation + 1
            BY <2>4 DEF Begin
        <3> QED
            BY <2>1, <2>3, <2>4, <3>1 DEF Begins, segmentFrame
    <2>5. CASE UNCHANGED <<responseVars, wireVars>>
        BY <2>1, <2>5 DEF Unheard, segmentFrame
    <2> QED
        BY <1>4, <2>4, <2>5 DEF SegmentBegin
<1>5. CASE SegmentRefused \/ FinishRefused
    <2>1. /\ (IF active # 0 THEN "response_already_active" ELSE "playback_already_active") \in Causes
          /\ "response_has_no_media" \in Causes
        BY DEF Causes
    <2> QED
        BY <1>1, <1>5, <2>1 DEF SegmentRefused, FinishRefused, Reads
<1>6. CASE PacketSend
    BY <1>6 DEF PacketSend, Plays, segmentFrame
<1>7. CASE FinishResponse
    BY <1>7 DEF FinishResponse, Completes, IsActiveEpoch, segmentFrame
<1>8. ASSUME NEW type, Read(type)
      PROVE  Reads /\ Head(up).type = type /\ ~eff["reader"].on
    BY <1>8 DEF Read, Reads
<1>9. "reader" \in Owners /\ "coordinator" \in Owners
    BY DEF Owners
<1>10. ASSUME NEW p \in Owners, NEW g, NEW more \in {<<>>, <<CloseMsg>>}, NEW b \in BOOLEAN, ApplyFence(p, g, more, b),
              ~eff[p].on, up' = up \/ (up # <<>> /\ up' = Tail(up) /\ Head(up).type \in {"cancel", "close"}),
              UNCHANGED <<nextSeq, status>>
       PROVE  Fences
    <2>1. g = playback
        BY <1>10 DEF ApplyFence, Fence, Fenceable
    <2> QED
        BY <1>10, <2>1 DEF Fences
<1>11. CASE ReadCancel
    <2> DEFINE g == Head(up).gen
    <2>1. CASE UNCHANGED <<responseVars, down, minEpoch, changed, eff, cancels, wd, prod, readerFrame>>
        BY <1>11, <2>1 DEF ReadCancel, Ignores, readerFrame
    <2>2. CASE ApplyFence("reader", g, <<>>, FALSE) /\ UNCHANGED readerFrame
        <3>1. up # <<>> /\ up' = Tail(up) /\ Head(up).type \in {"cancel", "close"}
            BY <1>11 DEF ReadCancel, Read
        <3> QED
            BY <1>8, <1>9, <1>10, <1>11, <2>2, <3>1 DEF ReadCancel, readerFrame
    <2>3. CASE Close(IF g # playback THEN "stale_cancel_target" ELSE "stale_generation")
        <3>1. (IF g # playback THEN "stale_cancel_target" ELSE "stale_generation") \in Causes
            BY DEF Causes
        <3> QED
            BY <1>1, <1>8, <1>11, <2>3, <3>1 DEF ReadCancel
    <2> QED
        BY <1>11, <2>1, <2>2, <2>3 DEF ReadCancel
<1>12. CASE ReadStarted
    <2> DEFINE error == StartedError(Head(up).gen, Head(up).arg)
    <2>1. CASE error = "none"
        BY <1>12, <2>1 DEF ReadStarted, Hears, readerFrame
    <2>2. CASE error # "none"
        <3>1. error \in Causes
            BY <2>2 DEF StartedError, Causes
        <3> QED
            BY <1>1, <1>8, <1>12, <2>2, <3>1 DEF ReadStarted
    <2> QED
        BY <2>1, <2>2
<1>13. CASE ReadEnded
    <2> DEFINE error == EndedError(Head(up).gen, Head(up).outcome, Head(up).played, Head(up).arg)
    <2>1. CASE error = "none"
        BY <1>13, <2>1 DEF ReadEnded, Frees, readerFrame
    <2>2. CASE error # "none"
        <3>1. error \in Causes
            BY <2>2 DEF EndedError, Causes
        <3> QED
            BY <1>1, <1>8, <1>13, <2>2, <3>1 DEF ReadEnded
    <2> QED
        BY <2>1, <2>2
<1>14. CASE ReadClose
    <2>1. CASE ApplyFence("reader", playback, <<CloseMsg>>, TRUE) /\ UNCHANGED readerFrame
        <3>1. up # <<>> /\ up' = Tail(up) /\ Head(up).type \in {"cancel", "close"}
            BY <1>14 DEF ReadClose, Read
        <3> QED
            BY <1>8, <1>9, <1>10, <1>14, <2>1, <3>1 DEF ReadClose, readerFrame
    <2>2. CASE /\ playback = 0
               /\ down' = Append(down, CloseMsg)
               /\ eff' = [eff EXCEPT !["reader"].on = TRUE, !["reader"].close = TRUE]
               /\ UNCHANGED <<responseVars, minEpoch, changed, cancels, wd, prod, readerFrame>>
        BY <1>14, <2>2 DEF ReadClose, Answers, readerFrame
    <2>3. CASE Close("stale_generation")
        <3>1. "stale_generation" \in Causes
            BY DEF Causes
        <3> QED
            BY <1>1, <1>8, <1>14, <2>3, <3>1 DEF ReadClose
    <2> QED
        BY <1>14, <2>1, <2>2, <2>3 DEF ReadClose
<1>15. CASE ReadDisconnect
    <2>1. "disconnected" \in Causes
        BY DEF Causes
    <2> QED
        BY <1>1, <1>8, <1>15, <2>1 DEF ReadDisconnect
<1>16. CASE TimeoutNext \/ CloseSent
    <2>1. PICK c \in Causes : Close(c) /\ UNCHANGED up
        BY <1>16 DEF TimeoutNext, ControlTimeout, WatchdogFire, InterruptTimeout, Retire, CloseSent, Causes
    <2> QED
        BY <1>1, <2>1 DEF Reads
<1>17. ASSUME NEW p \in Owners, EffectDone(p)
       PROVE  Unheard
    BY <1>17 DEF EffectDone, Unheard, effectFrame
<1>18. CASE SubmitCandidate \/ \E i \in intr : InterruptStart(i) \/ InterruptFinish(i)
    BY <1>18 DEF SubmitCandidate, InterruptStart, InterruptFinish, effectFrame, interruptFrame, Unheard
<1>19. ASSUME NEW b \in BOOLEAN, DecideCandidate(b)
       PROVE  Unheard \/ Fences
    <2>1. CASE ApplyFence("coordinator", cand, <<>>, FALSE) /\ UNCHANGED up
        BY <1>9, <1>10, <1>19, <2>1 DEF DecideCandidate, effectFrame
    <2>2. CASE UNCHANGED <<responseVars, wireVars, minEpoch, changed, eff>>
        BY <1>19, <2>2 DEF DecideCandidate, Unheard, effectFrame
    <2> QED
        BY <1>19, <2>1, <2>2 DEF DecideCandidate
<1> QED
    BY <1>2, <1>3, <1>4, <1>5, <1>6, <1>7, <1>11, <1>12, <1>13, <1>14, <1>15, <1>16, <1>17, <1>18, <1>19
    DEF ConnectionNext, SegmentNext, ReaderNext, TaskNext

-----------------------------------------------------------------------------
(* What a fence has still to send. *)

\* The end a fence sends for a response it cut.
Cancelled(g) == EndMsg(g, "cancelled", None)

\* After the stop comes the end of the response, unless it had completed, and
\* session.close if that was asked for.
Errands ==
    \A p \in Owners :
        /\ eff[p].todo \in {<<>>, <<CloseMsg>>, <<Cancelled(eff[p].gen)>>, <<Cancelled(eff[p].gen), CloseMsg>>}
        /\ eff[p].todo # <<>> => eff[p].on

\* The messages of a fence, in order.
LEMMA FenceMessages ==
    ASSUME TypeInv, NEW p \in Owners, NEW more \in {<<>>, <<CloseMsg>>}, NEW b \in BOOLEAN, ApplyFence(p, playback, more, b)
    PROVE  /\ down' = Append(down, StopMsg(playback, generation + 1))
           /\ eff' = [eff EXCEPT ![p] = [gen |-> playback, close |-> b, on |-> TRUE,
                        todo |-> (IF playback = active THEN <<Cancelled(playback)>> ELSE <<>>) \o more]]
           /\ playback \in Gens /\ StopMsg(playback, generation + 1) \in Message
<1> DEFINE g == playback
           stop == StopMsg(g, generation + 1)
           rest == (IF g = active THEN <<Cancelled(g)>> ELSE <<>>) \o more
           msgs == StopAndEnd(g) \o more
<1>1. g \in Gens /\ g \in Nat /\ generation + 1 \in Nat
    <2>1. Fenceable(g)
        BY DEF ApplyFence, Fence
    <2> QED
        BY <2>1, TypeFacts DEF Fenceable, ResponseTypeOK
<1>2. stop \in Message /\ Cancelled(g) \in Message /\ CloseMsg \in Message
    BY <1>1, Messages DEF Cancelled, None
<1>3. Head(msgs) = stop /\ Tail(msgs) = rest
    <2> DEFINE e == Cancelled(g)
               c == CloseMsg
    <2>1. msgs = (<<stop>> \o (IF g = active THEN <<e>> ELSE <<>>)) \o more
        BY DEF StopAndEnd, Cancelled
    <2>2. stop \in Message /\ e \in Message /\ c \in Message
        BY <1>2
    <2> HIDE DEF stop, e, c, msgs, rest
    <2>3. CASE g = active /\ more = <<>>
        <3>1. msgs = (<<stop>> \o <<e>>) \o <<>> /\ rest = <<e>> \o <<>>
            BY <2>1, <2>3 DEF e, rest
        <3>2. msgs = <<stop, e>> /\ rest = <<e>>
            BY <2>2, <3>1, Tuple1, Tuple2, Tuple3
        <3> QED
            BY <2>2, <3>2, Tuple1, Tuple2, Tuple3
    <2>4. CASE g = active /\ more = <<CloseMsg>>
        <3>1. msgs = (<<stop>> \o <<e>>) \o <<c>> /\ rest = <<e>> \o <<c>>
            BY <2>1, <2>4 DEF e, c, rest
        <3>2. <<stop>> \o <<e>> = <<stop, e>> /\ <<e>> \o <<c>> = <<e, c>>
            BY <2>2, Tuple2
        <3>3. <<stop, e>> \o <<c>> = <<stop, e, c>> /\ Head(<<stop, e, c>>) = stop /\ Tail(<<stop, e, c>>) = <<e, c>>
            BY <2>2, Tuple3
        <3> QED
            BY <3>1, <3>2, <3>3
    <2>5. CASE g # active /\ more = <<>>
        BY <2>1, <2>2, <2>5, Tuple1, Tuple2, Tuple3 DEF rest
    <2>6. CASE g # active /\ more = <<CloseMsg>>
        BY <2>1, <2>2, <2>6, Tuple1, Tuple2, Tuple3 DEF c, rest
    <2> QED
        BY <2>3, <2>4, <2>5, <2>6
<1> QED
    BY <1>1, <1>2, <1>3 DEF ApplyFence

\* What is sent next and what is left.
LEMMA NextErrand ==
    ASSUME TypeInv, Errands, NEW p \in Owners, EffectSend(p)
    PROVE  LET e == Cancelled(eff[p].gen) IN
           /\ down' = Append(down, Head(eff[p].todo)) /\ Head(eff[p].todo) \in Message
           /\ eff' = [eff EXCEPT ![p].todo = Tail(@)] /\ eff[p].on
           /\ \/ eff[p].todo = <<CloseMsg>> /\ Head(eff[p].todo) = CloseMsg /\ Tail(eff[p].todo) = <<>>
              \/ eff[p].todo = <<e>> /\ Head(eff[p].todo) = e /\ Tail(eff[p].todo) = <<>>
              \/ eff[p].todo = <<e, CloseMsg>> /\ Head(eff[p].todo) = e /\ Tail(eff[p].todo) = <<CloseMsg>>
           /\ Open /\ UNCHANGED <<responseVars, up, nextSeq, status>>
<1>1. eff[p].gen \in Nat
    BY DEF TypeInv, TypeOK, ConnectionTypeOK, Effect
<1>2. CloseMsg \in Message /\ Cancelled(eff[p].gen) \in Message
    BY <1>1, Messages DEF Cancelled, None
<1>3. eff[p].todo # <<>>
    BY DEF EffectSend
<1> DEFINE e == Cancelled(eff[p].gen)
           c == CloseMsg
           t == eff[p].todo
<1>4. t \in {<<>>, <<c>>, <<e>>, <<e, c>>} /\ t # <<>> /\ eff[p].on
    BY <1>3 DEF Errands
<1>5. e \in Message /\ c \in Message
    BY <1>2
<1>6. /\ Head(t) \in Message
      /\ \/ t = <<c>> /\ Head(t) = c /\ Tail(t) = <<>>
         \/ t = <<e>> /\ Head(t) = e /\ Tail(t) = <<>>
         \/ t = <<e, c>> /\ Head(t) = e /\ Tail(t) = <<c>>
    <2> HIDE DEF e, c, t
    <2>1. CASE t = <<c>>
        BY <1>5, <2>1, Tuple1, Tuple2, Tuple3
    <2>2. CASE t = <<e>>
        BY <1>5, <2>2, Tuple1, Tuple2, Tuple3
    <2>3. CASE t = <<e, c>>
        BY <1>5, <2>3, Tuple1, Tuple2, Tuple3
    <2> QED
        BY <1>4, <2>1, <2>2, <2>3
<1> QED
    BY <1>4, <1>6 DEF EffectSend, Send, effectFrame

\* The shape of what is left to send never changes.
LEMMA ErrandsKept ==
    ASSUME TypeInv, Connected, Errands, ConnectionNext
    PROVE  Errands'
<1> USE DEF Errands
<1>1. eff \in [Owners -> Effect] /\ "reader" \in Owners
    BY DEF TypeInv, TypeOK, ConnectionTypeOK, Owners
<1>2. CASE eff' = eff
    BY <1>2
<1>3. ASSUME NEW p \in Owners, eff' = [eff EXCEPT ![p] = NoEffect]
      PROVE  Errands'
    BY <1>1, <1>3 DEF NoEffect
<1>4. CASE Fences
    <2>1. PICK p \in Owners, more \in {<<>>, <<CloseMsg>>}, b \in BOOLEAN : ApplyFence(p, playback, more, b)
        BY <1>4 DEF Fences
    <2> DEFINE rest == (IF playback = active THEN <<Cancelled(playback)>> ELSE <<>>) \o more
    <2>2. eff' = [eff EXCEPT ![p] = [gen |-> playback, close |-> b, on |-> TRUE, todo |-> rest]]
        BY <2>1, FenceMessages, ZenonT(60)
    <2>3. rest \in {<<>>, <<CloseMsg>>, <<Cancelled(playback)>>, <<Cancelled(playback), CloseMsg>>}
        <3> DEFINE e == Cancelled(playback)
                   c == CloseMsg
        <3>1. e \in Message /\ c \in Message
            <4>1. playback \in Nat
                BY TypeFacts
            <4> QED
                BY <4>1, Messages DEF Cancelled, None
        <3>2. more \in {<<>>, <<c>>}
            OBVIOUS
        <3> HIDE DEF e, c
        <3>3. (IF playback = active THEN <<e>> ELSE <<>>) \o more \in {<<>>, <<c>>, <<e>>, <<e, c>>}
            <4>1. <<e>> \o <<>> = <<e>> /\ <<e>> \o <<c>> = <<e, c>> /\ <<>> \o <<c>> = <<c>> /\ <<>> \o <<>> = <<>>
                BY <3>1, Tuple1, Tuple2, Tuple3
            <4> QED
                BY <3>2, <4>1
        <3> QED
            BY <3>3 DEF e, c
    <2> HIDE DEF rest
    <2> QED
        BY <1>1, <2>2, <2>3
<1>5. ASSUME NEW p \in Owners, EffectSend(p)
      PROVE  Errands'
    <2>1. /\ eff' = [eff EXCEPT ![p].todo = Tail(@)] /\ eff[p].on
          /\ Tail(eff[p].todo) \in {<<>>, <<CloseMsg>>}
        BY <1>5, NextErrand
    <2> QED
        BY <1>1, <2>1 DEF Effect
<1>6. CASE Closes
    BY <1>6 DEF Closes, Close, NoEffect
<1>7. CASE Answers
    BY <1>1, <1>7 DEF Answers, Effect
<1> QED
    BY <1>2, <1>3, <1>4, <1>5, <1>6, <1>7, ServerKinds
    DEF Unheard, Begins, Plays, Completes, Hears, Frees, Ignores

-----------------------------------------------------------------------------
(* A response in flight.  From response.begin to playback.ended there is   *)
(* always one place that stands for it: the message that begins it, on the *)
(* wire or as a command, the playback itself, or the report of its end.    *)

\* The messages that begin a response.
Openings == Of("begin")

\* The reports that a playback has ended.
Reports == Of("ended")

\* At most one of the five holds.
OneOf(a, b, c, d, e) ==
    /\ a => ~b /\ ~c /\ ~d /\ ~e
    /\ b => ~c /\ ~d /\ ~e
    /\ c => ~d /\ ~e
    /\ d => ~e

\* The places a response can be in.
InFlight == Has(down, Openings) \/ Has(cmdq, Openings) \/ pb.active \/ Has(factq, Reports) \/ Has(up, Reports)

\* A response is in at most one of them, is there once, and is the slot's.
Life ==
    /\ Once(down, Openings) /\ Once(cmdq, Openings) /\ Once(factq, Reports) /\ Once(up, Reports)
    /\ Names(down, Openings, playback) /\ Names(cmdq, Openings, playback)
    /\ Names(factq, Reports, playback) /\ Names(up, Reports, playback)
    /\ pb.active => pb.gen = playback
    /\ OneOf(Has(down, Openings), Has(cmdq, Openings), pb.active, Has(factq, Reports), Has(up, Reports))
    /\ InFlight => playback # 0

\* A queue without a message of a kind.
LEMMA NoneIn ==
    ASSUME NEW q, NEW S, ~Has(q, S)
    PROVE  Once(q, S) /\ \A g : Names(q, S, g)
BY DEF Has, Once, Names

\* Only messages of type t are of type t.
LEMMA OtherType ==
    ASSUME NEW m \in Message, NEW t
    PROVE  m \in Of(t) <=> m.type = t
BY DEF Of

\* A sequence of one is appended like its element.
LEMMA JoinOne ==
    ASSUME NEW q \in Seq(Message), NEW m \in Message
    PROVE  q \o <<m>> = Append(q, m) /\ q \o <<>> = q
OBVIOUS

\* What is appended comes after the head.
LEMMA AppendEnds ==
    ASSUME NEW q \in Seq(Message), NEW m \in Message, q # <<>>
    PROVE  Append(q, m) # <<>> /\ Head(Append(q, m)) = Head(q) /\ Tail(Append(q, m)) = Append(Tail(q), m)
<1> DEFINE u == Tail(Append(q, m))
           v == Append(Tail(q), m)
           n == Len(q)
<1>1. n \in Nat /\ n > 0 /\ Append(q, m) # <<>> /\ Head(Append(q, m)) = Head(q)
    OBVIOUS
<1>2. u \in Seq(Message) /\ Len(u) = n /\ \A i \in 1 .. n : u[i] = Append(q, m)[i + 1]
    BY <1>1
<1>3. Tail(q) \in Seq(Message) /\ Len(Tail(q)) = n - 1 /\ \A i \in 1 .. n - 1 : Tail(q)[i] = q[i + 1]
    BY <1>1
<1>4. v \in Seq(Message) /\ Len(v) = n /\ v[n] = m /\ \A i \in 1 .. n - 1 : v[i] = Tail(q)[i]
    BY <1>1, <1>3
<1>5. \A i \in 1 .. n : Append(q, m)[i + 1] = IF i = n THEN m ELSE q[i + 1]
    BY <1>1
<1> HIDE DEF u, v, n
<1>6. \A i \in 1 .. Len(u) : u[i] = v[i]
    BY <1>1, <1>2, <1>3, <1>4, <1>5
<1>7. u = v
    BY <1>2, <1>4, <1>6, SeqEqual
<1> QED
    BY <1>1, <1>7 DEF u, v

\* A step that moves nothing.
LEMMA LifeStays ==
    ASSUME Life, playback' = playback, NoMore(down, down', Openings), NoMore(cmdq, cmdq', Openings),
           NoMore(factq, factq', Reports), NoMore(up, up', Reports),
           pb.active \in BOOLEAN, pb'.active \in BOOLEAN, pb'.active => pb.active /\ pb'.gen = pb.gen
    PROVE  Life'
BY DEF Life, InFlight, NoMore, OneOf

\* A playback ends and is reported.
LEMMA LifeEnds ==
    ASSUME Life, playback' = playback, NoMore(down, down', Openings), NoMore(cmdq, cmdq', Openings), up' = up,
           pb.active, ~pb'.active, NEW q \in Seq(Message), NoMore(factq, q, Reports),
           NEW m \in Reports, m.gen = pb.gen, factq' = Append(q, m)
    PROVE  Life'
<1>1. m \in Message
    BY DEF Reports, Of
<1>2. ~Has(down, Openings) /\ ~Has(cmdq, Openings) /\ ~Has(factq, Reports) /\ ~Has(up, Reports)
    BY DEF Life, OneOf
<1>3. ~Has(down', Openings) /\ ~Has(cmdq', Openings) /\ ~Has(q, Reports) /\ ~Has(up', Reports)
    BY <1>2 DEF NoMore
<1>4. Once(factq', Reports) /\ Names(factq', Reports, playback) /\ playback # 0
    <2>1. playback # 0 /\ m.gen = playback
        BY DEF Life, InFlight
    <2> QED
        BY <1>1, <1>3, <2>1, NoneIn, AppendQueue
<1> QED
    BY <1>3, <1>4, NoneIn DEF Life, InFlight, OneOf

\* The server's steps.
LEMMA ServerLife ==
    ASSUME TypeInv, Connected, Errands, Life, Server
    PROVE  Life'
<1>1. /\ ConnectionNext /\ UNCHANGED <<cmdq, factq, pb>> /\ pb.active \in BOOLEAN
      /\ down \in Seq(Message) /\ up \in Seq(Message) /\ generation \in Nat /\ playback \in Nat /\ nextSeq \in Nat
    BY TypeFacts DEF Server, endpointVars, TypeInv, TypeOK, EndpointTypeOK, PlayState, WireTypeOK, ResponseTypeOK
<1>2. ASSUME playback' = playback, NoMore(down, down', Openings), NoMore(up, up', Reports)
      PROVE  Life'
    BY <1>1, <1>2, SameQueue, LifeStays
<1>3. ASSUME NEW m \in Message, m.type # "begin", down' = Append(down, m)
      PROVE  NoMore(down, down', Openings)
    BY <1>1, <1>3, AppendQueue, OtherType DEF Openings
<1>4. ASSUME Reads
      PROVE  NoMore(up, up', Reports)
    BY <1>1, <1>4, SameQueue, TailQueue DEF Reads
<1>5. CASE Unheard \/ Hears \/ Ignores
    <2>1. playback' = playback /\ down' = down /\ Reads
        BY <1>5 DEF Unheard, Hears, Ignores, Reads, Read, PlaybackStarted, responseVars, wireVars
    <2> QED
        BY <1>2, <1>4, <2>1, SameQueue
<1>6. CASE Plays \/ Completes \/ Answers
    <2>1. PICK m \in Message : playback' = playback /\ m.type # "begin" /\ down' = Append(down, m) /\ Reads
        <3>1. CASE Plays
            <4>1. seg.gen \in Nat
                BY TypeFacts
            <4>2. MediaMsg(seg.gen, nextSeq) \in Message /\ MediaMsg(seg.gen, nextSeq).type # "begin"
                BY <1>1, <4>1, Messages, MessageTypes
            <4> QED
                BY <3>1, <4>2 DEF Plays, NoteMedia, Send, Reads
        <3>2. CASE Completes
            <4> DEFINE m == EndMsg(active, "completed", rec[active].last)
            <4>1. active \in Gens
                BY <3>2, TypeFacts DEF Completes, ResponseTypeOK
            <4>2. active \in Nat /\ rec[active].last \in Nat \cup {-1}
                BY <4>1, TypeFacts DEF Record, MediaSeq, None
            <4>3. m \in Message /\ m.type # "begin"
                BY <4>2, Messages, MessageTypes
            <4> QED
                BY <3>2, <4>3 DEF Completes, Complete, Send, Reads
        <3>3. CASE Answers
            <4>1. CloseMsg \in Message /\ CloseMsg.type # "begin"
                BY <1>1, Messages, MessageTypes
            <4> QED
                BY <3>3, <4>1 DEF Answers, Read, Reads, responseVars
        <3> QED
            BY <1>6, <3>1, <3>2, <3>3
    <2> QED
        BY <1>2, <1>3, <1>4, <2>1
<1>7. CASE Fences
    <2>1. PICK p \in Owners, more \in {<<>>, <<CloseMsg>>}, b \in BOOLEAN : ApplyFence(p, playback, more, b)
        BY <1>7 DEF Fences
    <2>2. down' = Append(down, StopMsg(playback, generation + 1)) /\ StopMsg(playback, generation + 1) \in Message
        BY <2>1, FenceMessages
    <2>3. StopMsg(playback, generation + 1).type # "begin"
        BY MessageTypes
    <2>4. Reads /\ playback' = playback
        BY <1>7, <2>1 DEF Fences, Reads, ApplyFence, Fence
    <2> QED
        BY <1>2, <1>3, <1>4, <2>2, <2>3, <2>4
<1>8. CASE Closes
    <2>1. CloseMsg \in Message /\ CloseMsg.type # "begin"
        BY <1>1, Messages, MessageTypes
    <2>2. Reads /\ playback' = playback /\ down' = Append(down, CloseMsg)
        BY <1>8 DEF Closes, Close, CloseState
    <2> QED
        BY <1>2, <1>3, <1>4, <2>1, <2>2
<1>9. ASSUME NEW p \in Owners, EffectSend(p)
      PROVE  Life'
    <2> DEFINE m == Head(eff[p].todo)
    <2>1. down' = Append(down, m) /\ m \in Message /\ UNCHANGED <<responseVars, up>>
          /\ (m = CloseMsg \/ m = Cancelled(eff[p].gen))
        BY <1>9, NextErrand
    <2>2. m.type # "begin"
        BY <2>1 DEF Cancelled, EndMsg, CloseMsg, Plain
    <2> HIDE DEF m
    <2> QED
        BY <1>2, <1>3, <1>4, <2>1, <2>2 DEF responseVars, Reads
<1>10. CASE Begins
    <2> DEFINE g == generation + 1
               m == BeginMsg(g)
    <2>1. playback = 0 /\ playback' = g /\ g # 0 /\ up' = up /\ down' = Append(down, m) /\ m \in Message /\ m.gen = g
        <3>1. m \in Message /\ m.gen = g
            BY <1>1, Messages DEF BeginMsg, Plain
        <3> QED
            BY <1>1, <1>10, <3>1 DEF Begins, Begin, BeginFresh, Send
    <2> HIDE DEF m
    <2>2. ~InFlight
        BY <2>1 DEF Life
    <2>3. ~Has(cmdq', Openings) /\ ~pb'.active /\ ~Has(factq', Reports) /\ ~Has(up', Reports) /\ ~Has(down, Openings)
        BY <1>1, <2>1, <2>2 DEF InFlight
    <2>4. Once(down', Openings) /\ Names(down', Openings, g)
        BY <1>1, <2>1, <2>3, NoneIn, AppendQueue
    <2> QED
        BY <2>1, <2>3, <2>4, NoneIn DEF Life, InFlight, OneOf
<1>11. CASE Frees
    <2>1. up # <<>> /\ up' = Tail(up) /\ Head(up).type = "ended" /\ playback' = 0 /\ down' = down
        BY <1>11 DEF Frees, Read, PlaybackEnded
    <2>2. Head(up) \in Reports
        BY <1>1, <2>1, Queue, OtherType DEF Reports
    <2>3. Has(up, Reports) /\ ~Has(Tail(up), Reports)
        BY <1>1, <2>1, <2>2, TailQueue DEF Life
    <2>4. ~Has(down, Openings) /\ ~Has(cmdq, Openings) /\ ~pb.active /\ ~Has(factq, Reports)
        BY <1>1, <2>3 DEF Life, OneOf
    <2> QED
        BY <1>1, <2>1, <2>3, <2>4, NoneIn DEF Life, InFlight, OneOf
<1> QED
    BY <1>1, <1>5, <1>6, <1>7, <1>8, <1>9, <1>10, <1>11, ServerKinds

\* The supervisor's steps.
LEMMA SupervisorLife ==
    ASSUME TypeInv, Life, playback' = playback,
           \/ ReceiveBegin \/ ReceiveEnd \/ ReceiveStop \/ ReceiveMedia \/ ReceiveClose
           \/ SendFact \/ StopDevice \/ Disconnect \/ CancelRequest
    PROVE  Life'
<1>1. /\ pb.active \in BOOLEAN /\ pb' = pb /\ ws.gen \in Nat
      /\ down \in Seq(Message) /\ up \in Seq(Message) /\ cmdq \in Seq(Message) /\ factq \in Seq(Message)
    BY DEF TypeInv, TypeOK, EndpointTypeOK, PlayState, WireTypeOK, WssState, ReceiveBegin, ReceiveEnd, ReceiveStop,
           ReceiveMedia, ReceiveClose, SendFact, StopDevice, Disconnect, CancelRequest, taskVars, endpointVars
<1>2. ASSUME NoMore(down, down', Openings), NoMore(cmdq, cmdq', Openings), NoMore(factq, factq', Reports),
             NoMore(up, up', Reports)
      PROVE  Life'
    BY <1>1, <1>2, LifeStays
<1>3. ASSUME Take, factq' = factq
      PROVE  /\ Head(down) \in Message /\ NoMore(down, down', Openings)
             /\ NoMore(up, up', Reports) /\ NoMore(factq, factq', Reports)
    BY <1>1, <1>3, TailQueue, SameQueue, Queue DEF Take
<1>4. CASE ReceiveBegin
    <2> DEFINE m == Head(down)
    <2>1. Take /\ factq' = factq /\ m.type = "begin" /\ (cmdq' = cmdq \/ cmdq' = Append(cmdq, m))
        BY <1>4 DEF ReceiveBegin, taskVars
    <2>2. m \in Openings
        BY <1>3, <2>1, OtherType DEF Openings
    <2>3. CASE cmdq' = cmdq
        BY <1>2, <1>3, <2>1, <2>3, SameQueue
    <2>4. CASE cmdq' = Append(cmdq, m)
        <3>1. down # <<>> /\ down' = Tail(down) /\ up' = up
            BY <2>1 DEF Take
        <3>2. m.gen = playback /\ Has(down, Openings) /\ ~Has(down', Openings)
            BY <1>1, <2>2, <3>1, TailQueue DEF Life
        <3>3. ~Has(cmdq, Openings) /\ ~pb'.active /\ ~Has(factq', Reports) /\ ~Has(up', Reports) /\ playback # 0
            BY <1>1, <2>1, <3>1, <3>2 DEF Life, OneOf, InFlight
        <3>4. Once(cmdq', Openings) /\ Names(cmdq', Openings, playback)
            BY <1>1, <1>3, <2>1, <2>4, <3>2, <3>3, NoneIn, AppendQueue
        <3> QED
            BY <3>2, <3>3, <3>4, NoneIn DEF Life, OneOf, InFlight
    <2> QED
        BY <2>1, <2>3, <2>4
<1>5. CASE ReceiveEnd \/ ReceiveStop \/ ReceiveMedia \/ ReceiveClose
    <2> DEFINE m == Head(down)
    <2>1. Take /\ factq' = factq /\ (cmdq' = cmdq \/ (cmdq' = Append(cmdq, m) /\ m.type # "begin"))
        BY <1>5 DEF ReceiveEnd, ReceiveStop, ReceiveMedia, ReceiveClose, taskVars
    <2>2. NoMore(cmdq, cmdq', Openings)
        <3>1. m \in Message
            BY <1>3, <2>1
        <3> HIDE DEF m
        <3>2. CASE cmdq' = cmdq
            BY <3>2, SameQueue
        <3>3. CASE cmdq' = Append(cmdq, m) /\ m.type # "begin"
            <4>1. m \notin Openings
                BY <3>1, <3>3, OtherType DEF Openings
            <4> QED
                BY <1>1, <3>1, <3>3, <4>1, AppendQueue
        <3> QED
            BY <2>1, <3>2, <3>3
    <2> QED
        BY <1>2, <1>3, <2>1, <2>2
<1>6. CASE SendFact
    <2> DEFINE m == Head(factq)
    <2>1. factq # <<>> /\ factq' = Tail(factq) /\ up' = Append(up, m) /\ UNCHANGED <<down, cmdq>>
        BY <1>6 DEF SendFact
    <2>2. m \in Message
        BY <1>1, <2>1, Queue
    <2>3. CASE m \notin Reports
        BY <1>1, <1>2, <2>1, <2>2, <2>3, AppendQueue, TailQueue, SameQueue
    <2>4. CASE m \in Reports
        <3>1. m.gen = playback /\ Has(factq, Reports) /\ ~Has(factq', Reports)
            BY <1>1, <2>1, <2>4, TailQueue DEF Life
        <3>2. ~Has(down', Openings) /\ ~Has(cmdq', Openings) /\ ~pb'.active /\ ~Has(up, Reports) /\ playback # 0
            BY <1>1, <2>1, <3>1 DEF Life, OneOf, InFlight
        <3>3. Once(up', Reports) /\ Names(up', Reports, playback)
            BY <1>1, <2>1, <2>2, <3>1, <3>2, NoneIn, AppendQueue
        <3> QED
            BY <3>1, <3>2, <3>3, NoneIn DEF Life, OneOf, InFlight
    <2> QED
        BY <2>3, <2>4
<1>7. CASE StopDevice \/ CancelRequest
    <2>1. PICK m \in Message : m.type # "ended" /\ up' = Append(up, m) /\ UNCHANGED <<down, cmdq, factq>>
        <3>1. CloseMsg \in Message /\ CloseMsg.type # "ended"
            BY <1>1, Messages DEF CloseMsg, Plain
        <3>2. CancelMsg(ws.gen, ws.gen) \in Message /\ CancelMsg(ws.gen, ws.gen).type # "ended"
            BY <1>1, Messages DEF CancelMsg, Plain
        <3> QED
            BY <1>7, <3>1, <3>2 DEF StopDevice, CancelRequest, endpointVars
    <2> QED
        <3>1. m \notin Reports
            BY <2>1, OtherType DEF Reports
        <3>2. NoMore(up, up', Reports)
            BY <1>1, <2>1, <3>1, AppendQueue
        <3> QED
            BY <1>2, <2>1, <3>2, SameQueue
<1>8. CASE Disconnect
    <2> DEFINE q == up \o factq
    <2>1. up' = q \o <<DisconnectMsg>> /\ factq' = <<>> /\ UNCHANGED <<down, cmdq>>
        BY <1>8 DEF Disconnect
    <2>2. q \in Seq(Message) /\ DisconnectMsg \in Message /\ DisconnectMsg \notin Reports
        <3>1. DisconnectMsg \in Message /\ DisconnectMsg.type # "ended"
            BY <1>1, Messages DEF DisconnectMsg, Plain
        <3> QED
            BY <1>1, <3>1, Queue, OtherType DEF Reports
    <2>3. /\ Has(q, Reports) <=> Has(up, Reports) \/ Has(factq, Reports)
          /\ Once(q, Reports) /\ Names(q, Reports, playback)
        BY <1>1, JoinQueue DEF Life, OneOf
    <2> HIDE DEF q
    <2>4. up' = Append(q, DisconnectMsg)
        BY <2>1, <2>2, JoinOne
    <2>5. NoMore(q, up', Reports)
        BY <2>2, <2>4, AppendQueue
    <2>6. ~Has(factq', Reports) /\ Once(factq', Reports) /\ Names(factq', Reports, playback)
        BY <2>1 DEF Has, Once, Names
    <2>7. /\ Has(up', Reports) => Has(up, Reports) \/ Has(factq, Reports)
          /\ Once(up', Reports) /\ Names(up', Reports, playback)
        BY <2>3, <2>5 DEF NoMore
    <2> QED
        BY <1>1, <2>1, <2>6, <2>7 DEF Life, OneOf, InFlight
<1> QED
    BY <1>4, <1>5, <1>6, <1>7, <1>8

\* What happens to the playback in a step of the playback task.  It goes on:
GoesOn ==
    /\ pb'.active = pb.active /\ pb'.gen = pb.gen
    /\ factq' = factq \/ (pb.active /\ factq' = Append(factq, StartedMsg(pb.gen, task.seq)))

\* A command begins it.
StartsUp ==
    /\ ~pb.active /\ cmdq # <<>> /\ cmdq' = Tail(cmdq) /\ Head(cmdq).type = "begin"
    /\ pb'.active /\ pb'.gen = Head(cmdq).gen /\ factq' = factq

\* It ends and is reported, behind its start if that was not reported yet.
EndsUp ==
    /\ pb.active /\ ~pb'.active
    /\ \E q \in Seq(Message), m \in Message :
          /\ q = factq \/ q = Append(factq, StartedMsg(pb.gen, task.seq))
          /\ m.type = "ended" /\ m.gen = pb.gen /\ factq' = Append(q, m)

\* Every step of the playback task is one of these.
LEMMA PlaybackKinds ==
    ASSUME TypeInv,
           \/ ProcessCommand \/ Observe \/ TakeMedia \/ Gate \/ WriteChunk \/ BreakOff \/ PlaybackFault
    PROVE  /\ UNCHANGED wireVars
           /\ cmdq' = cmdq \/ (cmdq # <<>> /\ cmdq' = Tail(cmdq))
           /\ GoesOn \/ StartsUp \/ EndsUp
<1>1. /\ pb \in PlayState /\ task \in TaskState /\ task.seq \in Nat \cup {-1} /\ EndpointTypeOK
      /\ down \in Seq(Message) /\ up \in Seq(Message) /\ cmdq \in Seq(Message) /\ factq \in Seq(Message)
    BY DEF TypeInv, TypeOK, EndpointTypeOK, WireTypeOK, TaskState
<1>2. pb.active \in BOOLEAN /\ pb.gen \in Nat /\ pb.degraded \in BOOLEAN
    BY <1>1 DEF PlayState
<1>3. \A o : ~Ended(o).active
    BY DEF Ended
<1>4. StartedMsg(pb.gen, task.seq) \in Message
    BY <1>1, <1>2, Messages
<1>5. ASSUME NEW q \in Seq(Message), q = factq \/ q = Append(factq, StartedMsg(pb.gen, task.seq)),
             NEW m \in Message, m.type = "ended", m.gen = pb.gen, factq' = Append(q, m), pb.active, ~pb'.active
      PROVE  EndsUp
    BY <1>5 DEF EndsUp
<1>6. ASSUME NEW o \in {"completed", "stopped", "failed"}
      PROVE  EndFact(o) \in Message /\ EndFact(o).type = "ended" /\ EndFact(o).gen = pb.gen
    BY <1>1, <1>6, EndTypes DEF EndFact, EndedMsg, Plain
<1>7. ASSUME NEW o \in {"completed", "stopped", "failed"}, pb.active, ~pb'.active, factq' = Append(factq, EndFact(o))
      PROVE  EndsUp
    BY <1>1, <1>5, <1>6, <1>7
<1>8. Refuse => GoesOn \/ EndsUp
    <2>1. CASE Refuse /\ pb.active
        BY <1>3, <1>7, <2>1 DEF Refuse
    <2> QED
        BY <2>1 DEF Refuse, GoesOn
<1>9. CASE Observe \/ TakeMedia \/ Gate \/ BreakOff
    <2>1. UNCHANGED <<wireVars, cmdq, factq>>
        BY <1>9 DEF Observe, TakeMedia, Gate, BreakOff
    <2>2. pb' = pb \/ pb' = [pb EXCEPT !.degraded = TRUE]
        BY <1>9 DEF Observe, TakeMedia, Gate, BreakOff
    <2>3. pb'.active = pb.active /\ pb'.gen = pb.gen
        BY <1>1, <2>2 DEF PlayState
    <2> QED
        BY <2>1, <2>3 DEF GoesOn
<1>10. CASE ProcessCommand
    <2> DEFINE c == Head(cmdq)
    <2>1. UNCHANGED wireVars /\ cmdq # <<>> /\ cmdq' = Tail(cmdq)
        BY <1>10 DEF ProcessCommand
    <2>2. ASSUME c.type = "begin", DoBegin(c)
          PROVE  GoesOn \/ StartsUp \/ EndsUp
        <3>1. CASE ~pb.active /\ c.gen > pb.fence
            <4>1. /\ pb' = [pb EXCEPT !.active = TRUE, !.gen = c.gen, !.stop = 0, !.final = -1,
                                      !.sample = -1, !.done = -1, !.degraded = FALSE]
                  /\ factq' = factq
                BY <2>2, <3>1 DEF DoBegin
            <4>2. pb'.active /\ pb'.gen = c.gen
                BY <1>1, <4>1 DEF PlayState
            <4> QED
                BY <2>1, <2>2, <3>1, <4>1, <4>2 DEF StartsUp
        <3>2. CASE ~(~pb.active /\ c.gen > pb.fence)
            BY <1>8, <2>2, <3>2 DEF DoBegin
        <3> QED
            BY <3>1, <3>2
    <2>3. ASSUME DoComplete(c)
          PROVE  GoesOn \/ EndsUp
        <3> DEFINE o == IF pb.degraded THEN "failed" ELSE "completed"
        <3>1. CASE Refuse
            BY <1>8, <3>1
        <3>2. CASE pb.active /\ pb' = Ended(o) /\ factq' = Append(factq, EndFact(o))
            <4>1. o \in {"completed", "stopped", "failed"}
                OBVIOUS
            <4> QED
                BY <1>3, <1>7, <3>2, <4>1
        <3>3. CASE pb' = [pb EXCEPT !.final = c.arg] /\ factq' = factq
            BY <1>1, <3>3 DEF PlayState, GoesOn
        <3> QED
            BY <2>3, <3>1, <3>2, <3>3 DEF DoComplete
    <2>4. ASSUME DoStop(c)
          PROVE  GoesOn \/ EndsUp
        <3>1. CASE Refuse
            BY <1>8, <3>1
        <3>2. CASE UNCHANGED <<pb, factq>>
            BY <3>2 DEF GoesOn
        <3>3. CASE /\ pb.active /\ pb' = [Ended("stopped") EXCEPT !.fence = c.arg, !.stop = c.arg]
                   /\ factq' = Append(factq, EndFact("stopped"))
            <4>1. ~pb'.active
                BY <3>3 DEF Ended
            <4> QED
                BY <1>7, <3>3, <4>1
        <3> QED
            BY <2>4, <3>1, <3>2, <3>3 DEF DoStop
    <2>5. GoesOn \/ StartsUp \/ EndsUp
        BY <1>10, <2>2, <2>3, <2>4 DEF ProcessCommand
    <2> QED
        BY <2>1, <2>5
<1>11. CASE WriteChunk
    <2> DEFINE last     == task.chunk + 1 = FrameChunks
               started  == IF pb.sample = -1 THEN <<StartedMsg(pb.gen, task.seq)>> ELSE <<>>
               finished == last /\ task.seq = pb.final
               outcome  == IF pb.degraded THEN "failed" ELSE "completed"
               m        == EndedMsg(pb.gen, outcome, TRUE, task.seq)
               ended    == IF finished THEN <<m>> ELSE <<>>
               q        == factq \o started
    <2>1. UNCHANGED <<wireVars, cmdq>> /\ pb.active
        BY <1>11 DEF WriteChunk, CanPlay
    <2>2. \/ pb' = Ended("failed") /\ factq' = Append(factq, EndFact("failed"))
          \/ /\ factq' = q \o ended
             /\ pb' = IF finished THEN Ended(outcome)
                      ELSE [pb EXCEPT !.sample = task.seq, !.done = IF last THEN task.seq ELSE @]
        BY <1>11 DEF WriteChunk
    <2>3. q \in Seq(Message) /\ (q = factq \/ q = Append(factq, StartedMsg(pb.gen, task.seq)))
        BY <1>1, <1>4, JoinOne, Queue
    <2>4. m \in Message /\ m.type = "ended" /\ m.gen = pb.gen
        BY <1>1, <1>2, Messages DEF EndedMsg, Plain
    <2>5. CASE pb' = Ended("failed") /\ factq' = Append(factq, EndFact("failed"))
        <3>1. EndsUp
            BY <1>3, <1>7, <2>1, <2>5
        <3> QED
            BY <2>1, <3>1
    <2>6. CASE finished /\ factq' = q \o ended /\ pb' = Ended(outcome)
        <3> HIDE DEF q, m
        <3>1. factq' = Append(q, m)
            BY <2>3, <2>4, <2>6, JoinOne
        <3>2. EndsUp
            BY <1>3, <1>5, <2>1, <2>3, <2>4, <2>6, <3>1
        <3> QED
            BY <2>1, <3>2
    <2>7. CASE /\ ~finished /\ factq' = q \o ended
               /\ pb' = [pb EXCEPT !.sample = task.seq, !.done = IF last THEN task.seq ELSE @]
        <3>1. pb'.active = pb.active /\ pb'.gen = pb.gen
            BY <1>1, <2>7 DEF PlayState
        <3> HIDE DEF q
        <3>2. factq' = q
            BY <2>3, <2>4, <2>7, JoinOne
        <3> QED
            BY <2>1, <2>3, <3>1, <3>2 DEF GoesOn
    <2> QED
        BY <2>2, <2>5, <2>6, <2>7
<1>12. CASE PlaybackFault
    <2>1. UNCHANGED <<wireVars, cmdq>> /\ pb.active /\ pb' = Ended("failed") /\ factq' = Append(factq, EndFact("failed"))
        BY <1>12 DEF PlaybackFault, CanPlay
    <2>2. EndsUp
        BY <1>3, <1>7, <2>1
    <2> QED
        BY <2>1, <2>2
<1> QED
    BY <1>9, <1>10, <1>11, <1>12

\* The playback task's steps.
LEMMA PlaybackLife ==
    ASSUME TypeInv, TypeInv', Life, playback' = playback,
           \/ ProcessCommand \/ Observe \/ TakeMedia \/ Gate \/ WriteChunk \/ BreakOff \/ PlaybackFault
    PROVE  Life'
<1>1. /\ UNCHANGED wireVars
      /\ cmdq' = cmdq \/ (cmdq # <<>> /\ cmdq' = Tail(cmdq))
      /\ GoesOn \/ StartsUp \/ EndsUp
    BY PlaybackKinds
<1>2. /\ pb.active \in BOOLEAN /\ pb'.active \in BOOLEAN /\ pb.gen \in Nat /\ task.seq \in Nat \cup {-1}
      /\ down \in Seq(Message) /\ up \in Seq(Message) /\ cmdq \in Seq(Message) /\ factq \in Seq(Message)
    BY DEF TypeInv, TypeOK, EndpointTypeOK, WireTypeOK, PlayState, TaskState
<1>3. /\ NoMore(down, down', Openings) /\ NoMore(cmdq, cmdq', Openings) /\ NoMore(up, up', Reports)
      /\ up' = up /\ down' = down
    BY <1>1, <1>2, SameQueue, TailQueue DEF wireVars
<1>4. StartedMsg(pb.gen, task.seq) \in Message /\ StartedMsg(pb.gen, task.seq) \notin Reports
    <2>1. StartedMsg(pb.gen, task.seq) \in Message /\ StartedMsg(pb.gen, task.seq).type # "ended"
        BY <1>2, Messages DEF StartedMsg, Plain
    <2> QED
        BY <2>1, OtherType DEF Reports
<1>5. ASSUME NEW q, q = factq \/ q = Append(factq, StartedMsg(pb.gen, task.seq))
      PROVE  NoMore(factq, q, Reports)
    <2> DEFINE m == StartedMsg(pb.gen, task.seq)
    <2>1. m \in Message /\ m \notin Reports
        BY <1>4
    <2> HIDE DEF m
    <2>2. NoMore(factq, Append(factq, m), Reports)
        BY <1>2, <2>1, AppendQueue
    <2> QED
        BY <1>5, <2>2, SameQueue DEF m
<1>6. CASE GoesOn
    <2>1. NoMore(factq, factq', Reports)
        BY <1>5, <1>6 DEF GoesOn
    <2> QED
        BY <1>2, <1>3, <1>6, <2>1, LifeStays DEF GoesOn
<1>7. CASE StartsUp
    <2> DEFINE c == Head(cmdq)
    <2>1. c \in Openings
        BY <1>2, <1>7, Queue, OtherType DEF StartsUp, Openings
    <2>2. c.gen = playback /\ Has(cmdq, Openings) /\ ~Has(cmdq', Openings)
        BY <1>2, <1>7, <2>1, TailQueue DEF StartsUp, Life
    <2>3. /\ ~Has(down', Openings) /\ ~Has(factq', Reports) /\ ~Has(up', Reports) /\ playback # 0
          /\ pb'.active /\ pb'.gen = playback
        BY <1>3, <1>7, <2>2 DEF StartsUp, Life, OneOf, InFlight
    <2> QED
        BY <2>2, <2>3, NoneIn DEF Life, OneOf, InFlight
<1>8. CASE EndsUp
    <2>1. PICK q \in Seq(Message), m \in Message :
              /\ q = factq \/ q = Append(factq, StartedMsg(pb.gen, task.seq))
              /\ m.type = "ended" /\ m.gen = pb.gen /\ factq' = Append(q, m)
        BY <1>8 DEF EndsUp
    <2>2. m \in Reports /\ NoMore(factq, q, Reports)
        BY <1>5, <2>1, OtherType DEF Reports
    <2> QED
        BY <1>3, <1>8, <2>1, <2>2, LifeEnds DEF EndsUp
<1> QED
    BY <1>1, <1>6, <1>7, <1>8

\* There is one place for a response in flight, and its name is the slot's.
THEOREM FlightCorrect == Spec => [](Errands /\ Life)
<1>1. Init => Errands /\ Life
    <2> SUFFICES ASSUME Init PROVE Errands /\ Life
        OBVIOUS
    <2>1. Errands
        BY DEF Init, ConnectionInit, NoEffect, Errands
    <2>2. down = <<>> /\ up = <<>> /\ cmdq = <<>> /\ factq = <<>> /\ ~pb.active
        BY DEF Init, WireInit, EndpointInit
    <2>3. \A S : ~Has(<<>>, S) /\ Once(<<>>, S) /\ \A g : Names(<<>>, S, g)
        BY DEF Has, Once, Names
    <2> QED
        BY <2>1, <2>2, <2>3 DEF Life, OneOf, InFlight
<1>2. TypeInv /\ TypeInv' /\ Connected /\ Errands /\ Life /\ [Next]_vars => Errands' /\ Life'
    <2> SUFFICES ASSUME TypeInv, TypeInv', Connected, Errands, Life, [Next]_vars PROVE Errands' /\ Life'
        OBVIOUS
    <2>1. CASE Server
        BY <2>1, ErrandsKept, ServerLife DEF Server
    <2>2. CASE Endpoint
        <3>1. playback' = playback /\ eff' = eff
            BY <2>2 DEF Endpoint, responseVars, connectionVars
        <3>2. Errands'
            BY <3>1 DEF Errands
        <3>3. Life'
            BY <2>2, <3>1, SupervisorLife, PlaybackLife DEF Endpoint, EndpointNext, UserCancel
        <3> QED
            BY <3>2, <3>3
    <2>3. CASE UNCHANGED vars
        BY <2>3 DEF vars, responseVars, wireVars, connectionVars, endpointVars, Errands, Life, InFlight
    <2> QED
        BY <2>1, <2>2, <2>3 DEF Next, Finished
<1> QED
    BY <1>1, <1>2, TypeInvariant, CoordinationCorrect, PTL DEF Spec

\* The server's slot stays with a response for as long as the endpoint plays it
\* (SlotHeld): begin never hands it out over the sound of the last response.
THEOREM SlotCorrect == Spec => []SlotHeld
<1>1. Life => SlotHeld
    BY DEF Life, SlotHeld
<1> QED
    BY <1>1, FlightCorrect, PTL

-----------------------------------------------------------------------------
(* What the coordinator's methods leave in the slot's record. *)

\* complete: only the outcome of the response changes.
LEMMA CompleteRecord ==
    ASSUME TypeInv, Coordinated, active # 0, Complete(active)
    PROVE  /\ active = playback /\ active \in Gens /\ active' = 0 /\ rec[active].first # None
           /\ rec'[active] = [rec[active] EXCEPT !.outcome = "completed"]
           /\ UNCHANGED <<playback, generation, target>>
<1> DEFINE g == active
           r == [rec EXCEPT ![g].outcome = "completed"]
<1>1. ResponseTypeOK /\ g \in Gens /\ rec \in [Gens -> Record]
    BY TypeFacts DEF ResponseTypeOK
<1>2. g = playback /\ ~rec[g].ended /\ rec[g].first # None /\ Remember(g, r) /\ active' = 0
    BY <1>1 DEF Complete, Completable, Coordinated, ActiveHolds, SlotRecord
<1>3. r \in [Gens -> Record] /\ r[g] = [rec[g] EXCEPT !.outcome = "completed"] /\ r[g].ended = rec[g].ended
      /\ \A h \in Gens : h # g => r[h] = rec[h]
    BY <1>1 DEF Record
<1>4. /\ \A h \in Gens : r[h] # NoRecord => h = g \/ Remembered(h)
      /\ \A h \in Gens : r[h] # NoRecord /\ ~r[h].ended => h = g
    BY <1>2, <1>3 DEF Coordinated, TableBounded, OnlySlotOpen
<1> HIDE DEF r
<1>5. rec'[g] = r[g]
    BY <1>1, <1>2, <1>3, <1>4, RememberKeeps
<1> QED
    BY <1>1, <1>2, <1>3, <1>5 DEF Complete

\* fence: the response is stopped and, if it was active, cancelled.
LEMMA FenceRecord ==
    ASSUME TypeInv, Coordinated, NEW p, NEW more, NEW b, ApplyFence(p, playback, more, b)
    PROVE  /\ playback \in Gens /\ ~rec[playback].stop /\ active' = 0 /\ (active # 0 => active = playback)
           /\ rec'[playback] = [rec[playback] EXCEPT !.stop = TRUE,
                                  !.outcome = IF playback = active THEN "cancelled" ELSE @]
           /\ generation' = generation + 1 /\ playback' = playback
<1> DEFINE g == playback
           o == IF g = active THEN "cancelled" ELSE rec[g].outcome
           r == [rec EXCEPT ![g].stop = TRUE, ![g].outcome = IF g = active THEN "cancelled" ELSE @]
<1>1. ResponseTypeOK /\ rec \in [Gens -> Record] /\ Fence(g, "cancelled") /\ Fenceable(g)
    BY TypeFacts DEF ResponseTypeOK, ApplyFence, Fence
<1>2. g \in Gens /\ ~rec[g].ended /\ (active # 0 => active = g)
    BY <1>1 DEF Fenceable, Coordinated, ActiveHolds, SlotRecord, ResponseTypeOK
<1>3. rec[g] \in Record
    BY <1>1, <1>2
<1>4. r \in [Gens -> Record] /\ r[g] = [rec[g] EXCEPT !.stop = TRUE, !.outcome = o] /\ r[g].ended = rec[g].ended
      /\ \A h \in Gens : h # g => r[h] = rec[h]
    BY <1>1, <1>2, <1>3 DEF Record
<1>5. /\ \A h \in Gens : r[h] # NoRecord => h = g \/ Remembered(h)
      /\ \A h \in Gens : r[h] # NoRecord /\ ~r[h].ended => h = g
    BY <1>2, <1>4 DEF Coordinated, TableBounded, OnlySlotOpen
<1>6. Remember(g, r) /\ active' = 0 /\ generation' = generation + 1 /\ playback' = playback /\ ~rec[g].stop
    BY <1>1, <1>2 DEF Fence, Fenceable
<1> HIDE DEF r
<1>7. rec'[g] = r[g]
    BY <1>1, <1>2, <1>4, <1>5, <1>6, RememberKeeps
<1> QED
    BY <1>2, <1>3, <1>4, <1>6, <1>7

-----------------------------------------------------------------------------
(* The downlink as WssSession will admit it: a frame fits the state the    *)
(* frames before it lead to, and the state after the last frame is what    *)
(* the server believes it has told the endpoint.                           *)

\* The endpoint takes frames and plays.
Running == dev = "running"

\* A fence has the end of its response still to send.
Due(p) == eff[p].todo # <<>> /\ Head(eff[p].todo).type = "end"

\* It is the slot's response, which is fenced and no longer active.
Dues ==
    /\ \A p \in Owners : Due(p) => active = 0 /\ playback = eff[p].gen /\ playback # 0 /\ rec[playback].stop
    /\ \A p, q \in Owners : Due(p) /\ Due(q) => p = q

\* WssSession in state a admits m and goes to b.
Fits(a, m, b) ==
    \/ /\ m = BeginMsg(m.gen) /\ ~a.response /\ m.gen > a.fence
       /\ b = [a EXCEPT !.response = TRUE, !.media = TRUE, !.gen = m.gen, !.fence = m.gen, !.stop = 0]
    \/ /\ m = MediaMsg(a.gen, a.next) /\ a.media /\ a.fence = a.gen
       /\ b = [a EXCEPT !.next = @ + 1]
    \/ /\ m = EndMsg(a.gen, "completed", a.next - 1) /\ a.next > 0 /\ a.response /\ a.stop = 0
       /\ b = [a EXCEPT !.response = FALSE, !.media = FALSE]
    \/ /\ m = Cancelled(a.gen) /\ a.response /\ a.stop # 0
       /\ b = [a EXCEPT !.response = FALSE, !.media = FALSE]
    \/ /\ m = StopMsg(a.gen, m.arg) /\ a.stop = 0 /\ m.arg > a.fence
       /\ b = [a EXCEPT !.fence = m.arg, !.stop = m.arg, !.media = FALSE]
    \/ m = CloseMsg /\ b = a

\* What the server believes of the state its frames lead to.
Sent(v) ==
    /\ v.next = nextSeq /\ v.fence <= generation
    /\ v.response <=> active # 0 \/ \E p \in Owners : Due(p)
    /\ active # 0 => v.gen = active /\ v.media /\ v.fence = active
    /\ playback # 0 /\ ~rec[playback].stop => v.gen = playback /\ v.stop = 0
    /\ \A p \in Owners : Due(p) => v.gen = eff[p].gen /\ v.stop # 0
    /\ active # 0 /\ rec[active].first # None => rec[active].last = nextSeq - 1 /\ nextSeq > 0

\* w is a run of WssSession over the frames of q.
Run(w, q) ==
    /\ w \in Seq(WssState) /\ Len(w) = Len(q) + 1
    /\ \A i \in 1 .. Len(q) : Fits(w[i], q[i], w[i + 1])

\* The downlink is a run of WssSession from its state to the one the server
\* believes in.
Stream == Running => \E w : Run(w, down) /\ w[1] = ws /\ (Open => Sent(w[Len(w)]))

\* A frame that fits the last state extends a run.
LEMMA RunAppend ==
    ASSUME NEW w, NEW q \in Seq(Message), Run(w, q), NEW m \in Message, NEW b \in WssState, Fits(w[Len(w)], m, b)
    PROVE  Run(Append(w, b), Append(q, m)) /\ Append(w, b)[1] = w[1] /\ Append(w, b)[Len(Append(w, b))] = b
<1> DEFINE n == Len(q)
           x == Append(w, b)
           r == Append(q, m)
<1>1. n \in Nat /\ w \in Seq(WssState) /\ Len(w) = n + 1 /\ \A i \in 1 .. n : Fits(w[i], q[i], w[i + 1])
    BY DEF Run
<1>2. x \in Seq(WssState) /\ Len(x) = n + 2 /\ x[n + 2] = b /\ \A i \in 1 .. n + 1 : x[i] = w[i]
    BY <1>1
<1>3. Len(r) = n + 1 /\ r[n + 1] = m /\ \A i \in 1 .. n : r[i] = q[i]
    OBVIOUS
<1> HIDE DEF n, x, r
<1>4. ASSUME NEW i \in 1 .. n + 1
      PROVE  Fits(x[i], r[i], x[i + 1])
    <2>1. CASE i \in 1 .. n
        <3>1. x[i] = w[i] /\ r[i] = q[i] /\ x[i + 1] = w[i + 1]
            BY <1>1, <1>2, <1>3, <2>1
        <3> QED
            BY <1>1, <2>1, <3>1
    <2>2. CASE i = n + 1
        <3>1. x[i] = w[Len(w)] /\ r[i] = m /\ x[i + 1] = b
            BY <1>1, <1>2, <1>3, <2>2
        <3> QED
            BY <3>1
    <2> QED
        BY <1>1, <2>1, <2>2
<1>5. Run(x, r)
    BY <1>1, <1>2, <1>3, <1>4 DEF Run
<1>6. x[1] = w[1] /\ x[Len(x)] = b
    BY <1>1, <1>2
<1> QED
    BY <1>5, <1>6 DEF x, r

\* The endpoint's next frame fits its state, and the rest is a run.
LEMMA RunTail ==
    ASSUME NEW w, NEW q \in Seq(Message), q # <<>>, Run(w, q)
    PROVE  /\ Fits(w[1], Head(q), w[2]) /\ w[1] \in WssState /\ w[2] \in WssState
           /\ Run(Tail(w), Tail(q)) /\ Tail(w)[1] = w[2] /\ Tail(w)[Len(Tail(w))] = w[Len(w)]
<1> DEFINE n == Len(q)
           x == Tail(w)
           r == Tail(q)
<1>1. n \in Nat /\ n > 0 /\ w \in Seq(WssState) /\ Len(w) = n + 1 /\ \A i \in 1 .. n : Fits(w[i], q[i], w[i + 1])
    BY DEF Run
<1>2. x \in Seq(WssState) /\ Len(x) = n /\ \A i \in 1 .. n : x[i] = w[i + 1]
    BY <1>1
<1>3. Len(r) = n - 1 /\ Head(q) = q[1] /\ \A i \in 1 .. n - 1 : r[i] = q[i + 1]
    BY <1>1
<1>4. w[1] \in WssState /\ w[2] \in WssState
    BY <1>1
<1> HIDE DEF n, x, r
<1>5. ASSUME NEW i \in 1 .. n - 1
      PROVE  Fits(x[i], r[i], x[i + 1])
    <2>1. i + 1 \in 1 .. n /\ x[i] = w[i + 1] /\ r[i] = q[i + 1] /\ x[i + 1] = w[(i + 1) + 1]
        BY <1>1, <1>2, <1>3
    <2> QED
        BY <1>1, <2>1
<1>6. Run(x, r)
    BY <1>1, <1>2, <1>3, <1>5 DEF Run
<1>7. x[1] = w[2] /\ x[Len(x)] = w[Len(w)] /\ Fits(w[1], q[1], w[2])
    BY <1>1, <1>2
<1> QED
    BY <1>3, <1>4, <1>6, <1>7 DEF x, r

\* A fence makes the end of the active response due, and no other end is.
LEMMA FenceDue ==
    ASSUME TypeInv, Coordinated, Dues,
           NEW p \in Owners, NEW more \in {<<>>, <<CloseMsg>>}, NEW b \in BOOLEAN, ApplyFence(p, playback, more, b)
    PROVE  /\ Due(p)' <=> playback = active
           /\ eff'[p].gen = playback
           /\ \A q \in Owners : ~Due(q) /\ (q # p => ~Due(q)')
<1> DEFINE e == Cancelled(playback)
           c == CloseMsg
           rest == (IF playback = active THEN <<e>> ELSE <<>>) \o more
<1>1. eff \in [Owners -> Effect] /\ playback \in Nat
    BY TypeFacts DEF TypeInv, TypeOK, ConnectionTypeOK
<1>2. eff' = [eff EXCEPT ![p] = [gen |-> playback, close |-> b, on |-> TRUE, todo |-> rest]]
    BY FenceMessages
<1>3. e \in Message /\ c \in Message /\ e.type = "end" /\ c.type # "end"
    BY <1>1, Messages DEF Cancelled, None, EndMsg, CloseMsg, Plain
<1>4. more \in {<<>>, <<c>>}
    OBVIOUS
<1>5. rest # <<>> /\ Head(rest).type = "end" <=> playback = active
    <2> HIDE DEF e, c
    <2>1. /\ <<e>> \o <<>> = <<e>> /\ <<>> \o <<c>> = <<c>> /\ <<>> \o <<>> = <<>> /\ <<e>> \o <<c>> = <<e, c>>
          /\ Head(<<e>>) = e /\ Head(<<c>>) = c /\ Head(<<e, c>>) = e /\ <<e>> # <<>> /\ <<e, c>> # <<>>
        BY <1>3, Tuple1, Tuple2
    <2>2. CASE playback = active /\ more = <<>>
        BY <1>3, <2>1, <2>2
    <2>3. CASE playback = active /\ more = <<c>>
        BY <1>3, <2>1, <2>3
    <2>4. CASE playback # active /\ more = <<>>
        BY <1>3, <2>1, <2>4
    <2>5. CASE playback # active /\ more = <<c>>
        BY <1>3, <2>1, <2>5
    <2> QED
        BY <1>4, <2>2, <2>3, <2>4, <2>5
<1> HIDE DEF rest
<1>6. eff'[p].todo = rest /\ eff'[p].gen = playback /\ \A q \in Owners : q # p => eff'[q] = eff[q]
    BY <1>1, <1>2
<1>7. \A q \in Owners : ~Due(q)
    BY FenceRecord DEF Dues
<1> QED
    BY <1>5, <1>6, <1>7 DEF Due

\* Sending the first of what a fence has left leaves no end due by its owner.
LEMMA ErrandDue ==
    ASSUME TypeInv, Errands, NEW p \in Owners, EffectSend(p)
    PROVE  /\ ~Due(p)' /\ \A q \in Owners : q # p => eff'[q] = eff[q]
           /\ \/ ~Due(p) /\ Head(eff[p].todo) = CloseMsg
              \/ Due(p) /\ Head(eff[p].todo) = Cancelled(eff[p].gen)
           /\ down' = Append(down, Head(eff[p].todo)) /\ Head(eff[p].todo) \in Message
           /\ UNCHANGED <<responseVars, up, nextSeq, status>>
<1> DEFINE e == Cancelled(eff[p].gen)
           c == CloseMsg
           t == eff[p].todo
<1>1. eff \in [Owners -> Effect] /\ eff[p].gen \in Nat
    BY DEF TypeInv, TypeOK, ConnectionTypeOK, Effect
<1>2. e \in Message /\ c \in Message /\ e.type = "end" /\ c.type # "end"
    BY <1>1, Messages DEF Cancelled, None, EndMsg, CloseMsg, Plain
<1>3. /\ down' = Append(down, Head(t)) /\ Head(t) \in Message
      /\ eff' = [eff EXCEPT ![p].todo = Tail(@)]
      /\ \/ t = <<c>> /\ Head(t) = c /\ Tail(t) = <<>>
         \/ t = <<e>> /\ Head(t) = e /\ Tail(t) = <<>>
         \/ t = <<e, c>> /\ Head(t) = e /\ Tail(t) = <<c>>
      /\ UNCHANGED <<responseVars, up, nextSeq, status>>
    BY NextErrand
<1>4. eff'[p].todo = Tail(t) /\ \A q \in Owners : q # p => eff'[q] = eff[q]
    BY <1>1, <1>3 DEF Effect
<1> HIDE DEF e, c, t
<1>5. Head(<<c>>) = c /\ <<c>> # <<>> /\ <<e>> # <<>> /\ <<e, c>> # <<>>
    BY <1>2, Tuple1, Tuple2
<1>6. ~Due(p)'
    BY <1>2, <1>3, <1>4, <1>5 DEF Due
<1>7. \/ ~Due(p) /\ Head(t) = c
      \/ Due(p) /\ Head(t) = e
    BY <1>2, <1>3, <1>5 DEF Due, t
<1> QED
    BY <1>3, <1>4, <1>6, <1>7 DEF e, c, t

\* Nobody waits for an acknowledgement while the reader reads.
LEMMA PromptReader ==
    ASSUME Prompt, Errands, NEW t, Read(t)
    PROVE  \A p \in Owners : ~Due(p) /\ eff[p].todo = <<>> /\ ~eff[p].on
BY DEF Read, Sending, Errands, Due

\* What a step other than a fence, an end or a begin leaves alone.
Quiet ==
    /\ UNCHANGED <<active, playback, generation, nextSeq>>
    /\ \A g \in Gens : rec'[g].stop = rec[g].stop /\ rec'[g].first = rec[g].first /\ rec'[g].last = rec[g].last
    /\ \A p \in Owners : eff'[p].todo = eff[p].todo /\ (eff[p].todo # <<>> => eff'[p].gen = eff[p].gen)

\* Such a step changes nothing of what has been sent.
LEMMA QuietSent ==
    ASSUME TypeInv, Quiet, Dues
    PROVE  Dues' /\ \A v : Sent(v) => Sent(v)'
<1>1. \A p \in Owners : (Due(p)' <=> Due(p)) /\ (Due(p) => eff'[p].gen = eff[p].gen)
    BY DEF Quiet, Due
<1>2. (playback # 0 => playback \in Gens) /\ (active # 0 => active \in Gens)
    BY TypeFacts DEF ResponseTypeOK
<1>3. Dues'
    BY <1>1, <1>2 DEF Dues, Quiet
<1>4. ASSUME NEW v, Sent(v)
      PROVE  Sent(v)'
    BY <1>1, <1>2, <1>4 DEF Sent, Quiet
<1> QED
    BY <1>3, <1>4

\* The quiet steps of the server.
LEMMA ServerQuiet ==
    ASSUME Prompt, TypeInv, Errands, Unheard \/ Hears \/ Ignores \/ Answers
    PROVE  Quiet
<1>1. eff \in [Owners -> Effect] /\ rec \in [Gens -> Record] /\ "reader" \in Owners
    BY TypeFacts DEF TypeInv, TypeOK, ConnectionTypeOK, ResponseTypeOK, Owners
<1>2. CASE Unheard
    <2>1. UNCHANGED <<active, playback, generation, nextSeq, rec>>
        BY <1>2 DEF Unheard, responseVars
    <2>2. \A p \in Owners : eff'[p].todo = eff[p].todo /\ (eff[p].todo # <<>> => eff'[p].gen = eff[p].gen)
        BY <1>1, <1>2 DEF Unheard, NoEffect
    <2> QED
        BY <2>1, <2>2 DEF Quiet
<1>3. CASE Hears
    <2>1. \A g \in Gens : rec'[g].stop = rec[g].stop /\ rec'[g].first = rec[g].first /\ rec'[g].last = rec[g].last
        BY <1>1, <1>3 DEF Hears, PlaybackStarted, Record
    <2> QED
        BY <1>3, <2>1 DEF Hears, PlaybackStarted, Quiet
<1>4. CASE Ignores
    BY <1>4 DEF Ignores, Quiet, responseVars
<1>5. CASE Answers
    <2>1. eff["reader"].todo = <<>>
        BY <1>1, <1>5, PromptReader DEF Answers
    <2>2. \A p \in Owners : eff'[p].todo = eff[p].todo /\ (eff[p].todo # <<>> => eff'[p].gen = eff[p].gen)
        BY <1>1, <1>5, <2>1 DEF Answers, Effect
    <2> QED
        BY <1>5, <2>2 DEF Answers, Quiet, responseVars
<1> QED
    BY <1>2, <1>3, <1>4, <1>5

\* An end is due only by the fence of the slot's response.
LEMMA DuesKept ==
    ASSUME Prompt, TypeInv, Coordinated, Connected, Errands, Dues, ConnectionNext
    PROVE  Dues'
<1>1. eff \in [Owners -> Effect] /\ rec \in [Gens -> Record] /\ ResponseTypeOK
    BY TypeFacts DEF TypeInv, TypeOK, ConnectionTypeOK, ResponseTypeOK
<1>2. CASE Unheard \/ Hears \/ Ignores \/ Answers
    BY <1>2, ServerQuiet, QuietSent
<1>3. ASSUME eff' = eff, \A p \in Owners : ~Due(p)
      PROVE  Dues'
    BY <1>3 DEF Dues, Due
<1>4. CASE Begins
    BY <1>3, <1>4 DEF Begins, Begin, BeginFresh, Dues
<1>5. CASE Plays
    BY <1>3, <1>5 DEF Plays, NoteMedia, Accepts, Dues
<1>6. CASE Completes
    BY <1>3, <1>6 DEF Completes, Dues
<1>7. CASE Frees
    BY <1>3, <1>7, PromptReader DEF Frees
<1>8. CASE Closes
    BY <1>8 DEF Closes, Close, NoEffect, Dues, Due
<1>9. CASE Fences
    <2>1. PICK p \in Owners, more \in {<<>>, <<CloseMsg>>}, b \in BOOLEAN : ApplyFence(p, playback, more, b)
        BY <1>9 DEF Fences
    <2>2. eff'[p].gen = playback /\ \A q \in Owners : q # p => ~Due(q)'
        BY <2>1, FenceDue
    <2>3. playback \in Gens /\ playback' = playback /\ active' = 0 /\ rec'[playback].stop
        <3>1. playback \in Gens /\ playback' = playback /\ active' = 0
              /\ rec'[playback] = [rec[playback] EXCEPT !.stop = TRUE,
                                     !.outcome = IF playback = active THEN "cancelled" ELSE @]
            BY <2>1, FenceRecord
        <3>2. rec[playback] \in Record
            BY <1>1, <3>1
        <3> QED
            BY <3>1, <3>2 DEF Record
    <2>4. playback # 0
        BY <2>3, TypeFacts
    <2> QED
        BY <2>2, <2>3, <2>4 DEF Dues
<1>10. ASSUME NEW p \in Owners, EffectSend(p)
       PROVE  Dues'
    <2>1. ~Due(p)' /\ UNCHANGED responseVars /\ \A q \in Owners : q # p => eff'[q] = eff[q]
        BY <1>10, ErrandDue
    <2> QED
        BY <2>1 DEF Dues, Due, responseVars
<1> QED
    BY <1>2, <1>4, <1>5, <1>6, <1>7, <1>8, <1>9, <1>10, ServerKinds

\* A frame is sent that fits, or none is.
Sends(v) ==
    \/ down' = down /\ Sent(v)'
    \/ \E m \in Message, b \in WssState : down' = Append(down, m) /\ Fits(v, m, b) /\ (Open' => Sent(b)')

\* The types of a state of WssSession.
LEMMA WssTypes ==
    ASSUME NEW v \in WssState
    PROVE  /\ v.response \in BOOLEAN /\ v.media \in BOOLEAN
           /\ v.gen \in Nat /\ v.fence \in Nat /\ v.stop \in Nat /\ v.next \in Nat
BY DEF WssState

\* response.begin.
LEMMA BeginSent ==
    ASSUME TypeInv, Dues, NEW v \in WssState, Sent(v), Begins
    PROVE  Sends(v)
<1> DEFINE g == generation + 1
           m == BeginMsg(g)
<1>1. PICK e \in Nat \ {0} : Begin(e) /\ Send(m) /\ UNCHANGED <<nextSeq, eff, status>>
    BY DEF Begins
<1>2. /\ active = 0 /\ playback = 0 /\ active' = g /\ playback' = g /\ generation' = g
      /\ rec' = [rec EXCEPT ![g] = NewRecord(e)] /\ g <= MaxGeneration
    <2>1. generation \in Nat
        BY TypeFacts DEF ResponseTypeOK
    <2> QED
        BY <1>1, <2>1, ResponseAssumption DEF Begin, BeginFresh
<1>3. generation \in Nat /\ rec \in [Gens -> Record] /\ g \in Gens /\ g # 0 /\ g \in Nat
    BY <1>2, TypeFacts DEF ResponseTypeOK, Gens
<1>4. m \in Message /\ m.gen = g /\ m = BeginMsg(m.gen)
    BY <1>3, Messages DEF BeginMsg, Plain
<1>5. PICK b \in WssState :
          /\ b = [v EXCEPT !.response = TRUE, !.media = TRUE, !.gen = g, !.fence = g, !.stop = 0]
          /\ b.response /\ b.media /\ b.gen = g /\ b.fence = g /\ b.stop = 0 /\ b.next = v.next
    <2> DEFINE c == [v EXCEPT !.response = TRUE, !.media = TRUE, !.gen = g, !.fence = g, !.stop = 0]
    <2>1. c \in WssState /\ c.response /\ c.media /\ c.gen = g /\ c.fence = g /\ c.stop = 0 /\ c.next = v.next
        BY <1>3 DEF WssState
    <2> QED
        BY <2>1
<1>6. \A p \in Owners : ~Due(p) /\ ~Due(p)'
    BY <1>1, <1>2 DEF Dues, Due
<1>7. Fits(v, m, b)
    <2>1. ~v.response /\ g > v.fence
        BY <1>2, <1>3, <1>6, WssTypes DEF Sent
    <2> HIDE DEF m
    <2> QED
        BY <1>4, <1>5, <2>1 DEF Fits
<1>8. Sent(b)'
    <2>1. rec'[g] = NewRecord(e) /\ NewRecord(e).first = None /\ NewRecord(e).stop = FALSE
        BY <1>2, <1>3 DEF NewRecord
    <2>2. nextSeq' = nextSeq /\ v.next = nextSeq
        BY <1>1 DEF Sent
    <2> HIDE DEF g
    <2> QED
        BY <1>2, <1>3, <1>5, <1>6, <2>1, <2>2 DEF Sent
<1> HIDE DEF m
<1> QED
    BY <1>1, <1>4, <1>5, <1>7, <1>8 DEF Sends, Send

\* A packet.
LEMMA PlaySent ==
    ASSUME TypeInv, Coordinated, Dues, NEW v \in WssState, Sent(v), Plays
    PROVE  Sends(v)
<1> DEFINE g == active
           m == MediaMsg(g, nextSeq)
           b == [v EXCEPT !.next = @ + 1]
<1>1. /\ g = seg.gen /\ g # 0 /\ NoteMedia(g, nextSeq) /\ down' = Append(down, m) /\ nextSeq' = nextSeq + 1
      /\ UNCHANGED <<eff, status, active, playback, generation>>
    BY DEF Plays, NoteMedia, Accepts, Send
<1>2. /\ g \in Gens /\ g \in Nat /\ rec \in [Gens -> Record] /\ nextSeq \in Nat /\ g = playback /\ ~rec[g].stop
      /\ rec[g] \in Record
    BY <1>1, TypeFacts DEF ResponseTypeOK, Coordinated, ActiveHolds
<1>3. m \in Message
    BY <1>2, Messages
<1>4. b \in WssState /\ b.next = v.next + 1 /\ b.response = v.response /\ b.media = v.media /\ b.gen = v.gen
      /\ b.fence = v.fence /\ b.stop = v.stop
    BY DEF WssState
<1>5. \A p \in Owners : ~Due(p) /\ ~Due(p)'
    BY <1>1 DEF Dues, Due
<1>6. rec'[g].stop = rec[g].stop /\ rec'[g].last = nextSeq
    BY <1>1, <1>2 DEF NoteMedia, Record
<1>7. Fits(v, m, b)
    BY <1>1 DEF Sent, Fits
<1>8. Sent(b)'
    <2> HIDE DEF b
    <2> QED
        BY <1>1, <1>2, <1>4, <1>5, <1>6 DEF Sent
<1> HIDE DEF m, b
<1> QED
    BY <1>1, <1>3, <1>4, <1>7, <1>8 DEF Sends

\* response.end(completed).
LEMMA CompleteSent ==
    ASSUME TypeInv, Coordinated, Dues, NEW v \in WssState, Sent(v), Completes
    PROVE  Sends(v)
<1> DEFINE g == active
           m == EndMsg(g, "completed", rec[g].last)
           b == [v EXCEPT !.response = FALSE, !.media = FALSE]
<1>1. g # 0 /\ Complete(g) /\ down' = Append(down, m) /\ UNCHANGED <<nextSeq, eff, status>>
    BY DEF Completes, Send
<1>2. /\ g = playback /\ g \in Gens /\ active' = 0 /\ rec[g].first # None
      /\ rec'[g] = [rec[g] EXCEPT !.outcome = "completed"] /\ UNCHANGED <<playback, generation>>
    BY <1>1, CompleteRecord
<1>3. g \in Nat /\ rec[g] \in Record /\ rec[g].last \in Nat \cup {-1} /\ ~rec[g].stop
    BY <1>1, <1>2, TypeFacts DEF Record, MediaSeq, None, Coordinated, ActiveHolds
<1>4. m \in Message
    BY <1>3, Messages
<1>5. b \in WssState /\ b.next = v.next /\ ~b.response /\ ~b.media /\ b.gen = v.gen /\ b.fence = v.fence /\ b.stop = v.stop
    BY DEF WssState
<1>6. \A p \in Owners : ~Due(p) /\ ~Due(p)'
    BY <1>1 DEF Dues, Due
<1>7. rec'[g].stop = rec[g].stop
    BY <1>2, <1>3 DEF Record
<1>8. Fits(v, m, b)
    <2>1. v.gen = g /\ v.response /\ v.stop = 0 /\ rec[g].last = v.next - 1 /\ v.next > 0
        BY <1>1, <1>2, <1>3 DEF Sent
    <2> QED
        BY <2>1 DEF Fits
<1>9. Sent(b)'
    <2> HIDE DEF b
    <2> QED
        BY <1>1, <1>2, <1>3, <1>5, <1>6, <1>7 DEF Sent
<1> HIDE DEF m, b
<1> QED
    BY <1>1, <1>4, <1>5, <1>8, <1>9 DEF Sends

\* playback.stop.
LEMMA FenceSent ==
    ASSUME TypeInv, Coordinated, Dues, NEW v \in WssState, Sent(v), Fences
    PROVE  Sends(v)
<1> DEFINE g == playback
           f == generation + 1
           m == StopMsg(g, f)
<1>1. PICK p \in Owners, more \in {<<>>, <<CloseMsg>>}, closing \in BOOLEAN : ApplyFence(p, g, more, closing)
    BY DEF Fences
<1>2. down' = Append(down, m) /\ m \in Message /\ nextSeq' = nextSeq
    BY <1>1, FenceMessages DEF Fences
<1>3. /\ g \in Gens /\ ~rec[g].stop /\ active' = 0 /\ (active # 0 => active = g) /\ generation' = f /\ playback' = g
      /\ rec'[g] = [rec[g] EXCEPT !.stop = TRUE, !.outcome = IF g = active THEN "cancelled" ELSE @]
    BY <1>1, FenceRecord
<1>4. /\ Due(p)' <=> g = active
      /\ eff'[p].gen = g
      /\ \A q \in Owners : ~Due(q) /\ (q # p => ~Due(q)')
    BY <1>1, FenceDue
<1>5. g # 0 /\ rec[g] \in Record /\ generation \in Nat /\ f \in Nat /\ f # 0
    BY <1>3, TypeFacts DEF ResponseTypeOK
<1>6. rec'[g].stop
    BY <1>3, <1>5 DEF Record
<1>7. PICK b \in WssState :
          /\ b = [v EXCEPT !.fence = f, !.stop = f, !.media = FALSE]
          /\ b.next = v.next /\ b.response = v.response /\ b.gen = v.gen /\ b.fence = f /\ b.stop = f
    <2> DEFINE c == [v EXCEPT !.fence = f, !.stop = f, !.media = FALSE]
    <2>1. c \in WssState /\ c.next = v.next /\ c.response = v.response /\ c.gen = v.gen /\ c.fence = f /\ c.stop = f
        BY <1>5 DEF WssState
    <2> QED
        BY <2>1
<1>8. Fits(v, m, b)
    <2>1. v.gen = g /\ v.stop = 0 /\ f > v.fence /\ m.arg = f
        BY <1>3, <1>5, WssTypes DEF Sent, StopMsg, Plain
    <2> QED
        BY <1>7, <2>1 DEF Fits
<1>9. Sent(b)'
    <2>1. v.response <=> active # 0
        BY <1>4 DEF Sent
    <2>2. v.gen = g
        BY <1>3, <1>5 DEF Sent
    <2>3. b.response <=> \E q \in Owners : Due(q)'
        BY <1>3, <1>4, <1>5, <1>7, <2>1
    <2>4. v.next = nextSeq
        BY DEF Sent
    <2> HIDE DEF f
    <2> QED
        BY <1>2, <1>3, <1>4, <1>5, <1>6, <1>7, <2>2, <2>3, <2>4 DEF Sent
<1> HIDE DEF m
<1> QED
    BY <1>2, <1>7, <1>8, <1>9 DEF Sends

\* What a fence sends after its stop.
LEMMA ErrandSent ==
    ASSUME TypeInv, Errands, Dues, NEW v \in WssState, Sent(v), NEW p \in Owners, EffectSend(p)
    PROVE  Sends(v)
<1> DEFINE m == Head(eff[p].todo)
           b == [v EXCEPT !.response = FALSE, !.media = FALSE]
<1>1. /\ ~Due(p)' /\ \A q \in Owners : q # p => eff'[q] = eff[q]
      /\ \/ ~Due(p) /\ m = CloseMsg
         \/ Due(p) /\ m = Cancelled(eff[p].gen)
      /\ down' = Append(down, m) /\ m \in Message
      /\ UNCHANGED <<responseVars, nextSeq>>
    BY ErrandDue
<1>2. UNCHANGED <<active, playback, rec, generation, nextSeq>>
    BY <1>1 DEF responseVars
<1> HIDE DEF m
<1>3. \A q \in Owners : q # p => (Due(q)' <=> Due(q)) /\ eff'[q].gen = eff[q].gen
    BY <1>1 DEF Due
<1>4. CASE ~Due(p) /\ m = CloseMsg
    <2>1. Fits(v, m, v)
        BY <1>4 DEF Fits
    <2>2. \A q \in Owners : (Due(q)' <=> Due(q)) /\ (Due(q) => eff'[q].gen = eff[q].gen)
        BY <1>1, <1>3, <1>4
    <2>3. Sent(v)'
        BY <1>2, <2>2 DEF Sent
    <2> QED
        BY <1>1, <2>1, <2>3 DEF Sends
<1>5. CASE Due(p) /\ m = Cancelled(eff[p].gen)
    <2>1. b \in WssState /\ b.next = v.next /\ ~b.response /\ ~b.media /\ b.gen = v.gen /\ b.fence = v.fence
          /\ b.stop = v.stop
        BY DEF WssState
    <2>2. Fits(v, m, b)
        <3>1. v.response /\ v.gen = eff[p].gen /\ v.stop # 0
            BY <1>5 DEF Sent
        <3> QED
            BY <1>5, <3>1 DEF Fits
    <2>3. \A q \in Owners : ~Due(q)'
        BY <1>1, <1>3, <1>5 DEF Dues
    <2>4. active = 0 /\ playback # 0 /\ rec[playback].stop
        BY <1>5 DEF Dues
    <2>5. Sent(b)'
        <3> HIDE DEF b
        <3> QED
            BY <1>2, <2>1, <2>3, <2>4 DEF Sent
    <2> HIDE DEF b
    <2> QED
        BY <1>1, <2>1, <2>2, <2>5 DEF Sends
<1> QED
    BY <1>1, <1>4, <1>5

\* Every step of the server sends a frame that fits, or none.
LEMMA ServerSent ==
    ASSUME Prompt, TypeInv, Coordinated, Connected, Errands, Dues, ConnectionNext, NEW v \in WssState, Sent(v)
    PROVE  Sends(v)
<1>1. CloseMsg \in Message
    <2>1. nextSeq \in Nat
        BY TypeFacts
    <2> QED
        BY <2>1, Messages
<1>2. CASE Unheard \/ Hears \/ Ignores \/ Answers
    <2>1. Sent(v)'
        BY <1>2, ServerQuiet, QuietSent
    <2>2. down' = down \/ down' = Append(down, CloseMsg)
        BY <1>2 DEF Unheard, Hears, Ignores, Answers, wireVars
    <2>3. Fits(v, CloseMsg, v)
        BY DEF Fits
    <2> QED
        BY <1>1, <2>1, <2>2, <2>3 DEF Sends
<1>3. CASE Closes
    <2>1. down' = Append(down, CloseMsg) /\ ~Open'
        BY <1>3 DEF Closes, Close, Open, Causes
    <2>2. Fits(v, CloseMsg, v)
        BY DEF Fits
    <2> QED
        BY <1>1, <2>1, <2>2 DEF Sends
<1>4. CASE Frees
    <2> DEFINE g == Head(up).gen
    <2>1. /\ down' = down /\ UNCHANGED <<active, generation, nextSeq, eff>> /\ playback' = 0
          /\ rec' = [rec EXCEPT ![g].ended = TRUE]
        BY <1>4 DEF Frees, PlaybackEnded
    <2>2. \A p \in Owners : ~Due(p) /\ ~Due(p)'
        BY <1>4, <2>1, PromptReader DEF Frees, Due
    <2>3. rec \in [Gens -> Record] /\ (active # 0 => active \in Gens)
        BY TypeFacts DEF ResponseTypeOK
    <2>4. active # 0 => rec'[active].first = rec[active].first /\ rec'[active].last = rec[active].last
        BY <2>1, <2>3 DEF Record
    <2>5. Sent(v)'
        BY <2>1, <2>2, <2>4 DEF Sent
    <2> QED
        BY <2>1, <2>5 DEF Sends
<1> QED
    BY <1>2, <1>3, <1>4, BeginSent, PlaySent, CompleteSent, FenceSent, ErrandSent, ServerKinds

\* The server's steps keep the downlink admissible.
LEMMA ServerStream ==
    ASSUME Prompt, TypeInv, Coordinated, Connected, Errands, Dues, Stream, Server, Open
    PROVE  Stream'
<1>1. /\ ConnectionNext /\ UNCHANGED <<ws, dev>> /\ down \in Seq(Message)
    BY DEF Server, endpointVars, TypeInv, TypeOK, WireTypeOK
<1> SUFFICES ASSUME Running PROVE \E w : Run(w, down') /\ w[1] = ws /\ (Open' => Sent(w[Len(w)])')
    BY <1>1 DEF Stream, Running
<1>2. PICK w : Run(w, down) /\ w[1] = ws /\ Sent(w[Len(w)])
    BY DEF Stream
<1> DEFINE v == w[Len(w)]
<1>3. v \in WssState
    BY <1>1, <1>2 DEF Run
<1>4. Sends(v)
    BY <1>1, <1>2, <1>3, ServerSent
<1>5. CASE down' = down /\ Sent(v)'
    BY <1>2, <1>5
<1>6. CASE \E m \in Message, b \in WssState : down' = Append(down, m) /\ Fits(v, m, b) /\ (Open' => Sent(b)')
    <2>1. PICK m \in Message, b \in WssState : down' = Append(down, m) /\ Fits(v, m, b) /\ (Open' => Sent(b)')
        BY <1>6
    <2> DEFINE x == Append(w, b)
    <2>2. Run(x, down') /\ x[1] = w[1] /\ x[Len(x)] = b
        BY <1>1, <1>2, <2>1, RunAppend
    <2> HIDE DEF x
    <2> QED
        BY <1>2, <2>1, <2>2
<1> QED
    BY <1>4, <1>5, <1>6 DEF Sends

\* A closed connection takes no more steps.
LEMMA ServerOpen ==
    ASSUME ConnectionNext
    PROVE  Open
<1>1. CASE AgentNext
    BY <1>1 DEF AgentNext, Speak, EmitSegment, EndSpeech, CutSpeech, PlayoutDone
<1>2. CASE SegmentNext
    BY <1>2 DEF SegmentNext, SegmentSkip, SegmentBegin, SegmentRefused, SegmentBegun, PacketCheck, PacketSend, PacketCut,
                FinishSkip, FinishResponse, FinishRefused, FinishAcked, TakeItem, Item
<1>3. CASE ReaderNext
    BY <1>3 DEF ReaderNext, ReadCancel, ReadStarted, ReadEnded, ReadClose, ReadDisconnect, Read
<1>4. CASE TaskNext
    BY <1>4 DEF TaskNext, EffectSend, EffectDone, CloseSent, SubmitCandidate, DecideCandidate, InterruptStart,
                InterruptFinish
<1>5. CASE TimeoutNext
    BY <1>5 DEF TimeoutNext, ControlTimeout, WatchdogFire, Retire, InterruptTimeout
<1> QED
    BY <1>1, <1>2, <1>3, <1>4, <1>5 DEF ConnectionNext

-----------------------------------------------------------------------------
(* The commands between the supervisor and the playback task.  What the    *)
(* supervisor admitted in state a of WssSession decides which commands     *)
(* the playback task has still to take.                                    *)

\* The end and the stop that the supervisor admitted last.
EndCmd(a) == EndMsg(a.gen, "completed", a.next - 1)
StopCmd(a) == StopMsg(a.gen, a.stop)

\* WssSession has admitted a stop.
Halted(a) == a.stop # 0 /\ ~a.media

\* It has admitted the end of a response with audio.
OverIn(a) == ~a.response /\ ~a.media /\ a.next > 0

\* Nothing of the response but its begin has been taken.
Ahead(a, q) ==
    \/ q = <<>> /\ a.response /\ a.stop = 0
    \/ q = <<EndCmd(a)>> /\ OverIn(a) /\ a.stop = 0
    \/ q = <<StopCmd(a)>> /\ Halted(a)
    \/ q = <<EndCmd(a), StopCmd(a)>> /\ OverIn(a) /\ Halted(a)

\* Its end has been taken too.
Late(a, q) ==
    \/ q = <<>> /\ OverIn(a) /\ a.stop = 0
    \/ q = <<StopCmd(a)>> /\ OverIn(a) /\ Halted(a)

\* PlaybackState plays the response with the final sequence f, if any.
Playing(f) == pb.active /\ pb.gen = ws.gen /\ pb.fence < ws.gen /\ pb.stop = 0 /\ pb.final = f

\* Nothing plays and no command is left; unless it was stopped, the last playback
\* has ended.
Idle ==
    /\ cmdq = <<>> /\ ~pb.active /\ pb.fence <= ws.fence
    /\ ws.stop = 0 => pb.gen = 0 /\ pb.fence = ws.gen /\ ~ws.response

\* The begin is still a command.
Begun == ~pb.active /\ pb.fence < ws.gen /\ cmdq # <<>> /\ Head(cmdq) = BeginMsg(ws.gen) /\ Ahead(ws, Tail(cmdq))

\* The response plays and its end has not been taken.
Going == Playing(-1) /\ Ahead(ws, cmdq)

\* The response plays up to its final sequence.
Ending == Playing(ws.next - 1) /\ Late(ws, cmdq)

\* The stop crossed the end of the playback.
Crossed == cmdq = <<StopCmd(ws)>> /\ ~pb.active /\ pb.gen = 0 /\ pb.fence = ws.gen /\ Halted(ws)

\* The generations of WssSession are in order.
Ordered(a) == a.gen <= a.fence /\ (a.stop # 0 => a.stop = a.fence /\ a.stop > a.gen)

\* Which commands are left, for the state of WssSession and of PlaybackState.
Commands == Running =>
    /\ gateGen = ws.gen /\ Ordered(ws)
    /\ \/ Idle
       \/ ws.gen = playback /\ playback # 0 /\ (Begun \/ Going \/ Ending \/ Crossed)

\* What becomes a command.
Commanded(m) == m.type \in {"begin", "stop"} \/ (m.type = "end" /\ m.outcome = "completed")

\* The ways a frame fits, by its type.
LEMMA FitsKinds ==
    ASSUME NEW a \in WssState, NEW m \in Message, NEW b \in WssState, Fits(a, m, b)
    PROVE  \/ /\ m.type = "begin" /\ m = BeginMsg(m.gen) /\ ~a.response /\ m.gen > a.fence
              /\ b = [a EXCEPT !.response = TRUE, !.media = TRUE, !.gen = m.gen, !.fence = m.gen, !.stop = 0]
           \/ /\ m.type = "media" /\ m.gen = a.gen /\ m.arg = a.next /\ a.media /\ a.fence = a.gen
              /\ b = [a EXCEPT !.next = @ + 1]
           \/ /\ m.type = "end" /\ m.outcome = "completed" /\ m = EndCmd(a) /\ m.gen = a.gen
              /\ a.next > 0 /\ a.response /\ a.stop = 0
              /\ b = [a EXCEPT !.response = FALSE, !.media = FALSE]
           \/ /\ m.type = "end" /\ m.outcome = "cancelled" /\ m.gen = a.gen /\ a.response /\ a.stop # 0
              /\ b = [a EXCEPT !.response = FALSE, !.media = FALSE]
           \/ /\ m.type = "stop" /\ m = StopMsg(a.gen, m.arg) /\ m.gen = a.gen /\ a.stop = 0 /\ m.arg > a.fence
              /\ b = [a EXCEPT !.fence = m.arg, !.stop = m.arg, !.media = FALSE]
           \/ m.type = "close" /\ b = a
<1>1. CASE m = BeginMsg(m.gen)
    <2>1. m.type = "begin"
        BY <1>1 DEF BeginMsg, Plain
    <2> QED
        BY <1>1, <2>1 DEF Fits, BeginMsg, MediaMsg, EndMsg, Cancelled, StopMsg, CloseMsg, Plain
<1>2. CASE m = MediaMsg(a.gen, a.next) /\ a.media /\ a.fence = a.gen /\ b = [a EXCEPT !.next = @ + 1]
    <2>1. m.type = "media" /\ m.gen = a.gen /\ m.arg = a.next
        BY <1>2 DEF MediaMsg, Plain
    <2> QED
        BY <1>2, <2>1
<1>3. CASE /\ m = EndMsg(a.gen, "completed", a.next - 1) /\ a.next > 0 /\ a.response /\ a.stop = 0
           /\ b = [a EXCEPT !.response = FALSE, !.media = FALSE]
    <2>1. m.type = "end" /\ m.outcome = "completed" /\ m.gen = a.gen
        BY <1>3 DEF EndMsg, Plain
    <2> QED
        BY <1>3, <2>1 DEF EndCmd
<1>4. CASE /\ m = Cancelled(a.gen) /\ a.response /\ a.stop # 0
           /\ b = [a EXCEPT !.response = FALSE, !.media = FALSE]
    <2>1. m.type = "end" /\ m.outcome = "cancelled" /\ m.gen = a.gen
        BY <1>4 DEF EndMsg, Cancelled, Plain
    <2> QED
        BY <1>4, <2>1
<1>5. CASE /\ m = StopMsg(a.gen, m.arg) /\ a.stop = 0 /\ m.arg > a.fence
           /\ b = [a EXCEPT !.fence = m.arg, !.stop = m.arg, !.media = FALSE]
    <2>1. m.type = "stop" /\ m.gen = a.gen
        BY <1>5 DEF StopMsg, Plain
    <2> QED
        BY <1>5, <2>1
<1>6. CASE m = CloseMsg /\ b = a
    <2>1. m.type = "close"
        BY <1>6 DEF CloseMsg, Plain
    <2> QED
        BY <1>6, <2>1
<1> QED
    BY <1>1, <1>2, <1>3, <1>4, <1>5, <1>6 DEF Fits

\* The commands of the response are messages.
LEMMA CommandMessages ==
    ASSUME NEW a \in WssState
    PROVE  /\ BeginMsg(a.gen) \in Message /\ StopCmd(a) \in Message /\ (a.next > 0 => EndCmd(a) \in Message)
           /\ BeginMsg(a.gen).type = "begin" /\ BeginMsg(a.gen).gen = a.gen
           /\ StopCmd(a).type = "stop" /\ StopCmd(a).gen = a.gen /\ StopCmd(a).arg = a.stop
           /\ EndCmd(a).type = "end" /\ EndCmd(a).gen = a.gen /\ EndCmd(a).arg = a.next - 1
           /\ EndCmd(a).outcome = "completed"
<1>1. a.gen \in Nat /\ a.stop \in Nat /\ a.next \in Nat
    BY WssTypes
<1>2. a.next > 0 => a.next - 1 \in Nat
    BY <1>1
<1>3. BeginMsg(a.gen) \in Message /\ StopCmd(a) \in Message
    BY <1>1, Messages DEF StopCmd
<1>4. a.next > 0 => EndCmd(a) \in Message
    BY <1>1, <1>2, Messages DEF EndCmd
<1> QED
    BY <1>3, <1>4 DEF EndCmd, StopCmd, BeginMsg, StopMsg, EndMsg, Plain

\* A frame of the response that is admitted moves the commands along.
LEMMA AheadMoves ==
    ASSUME NEW a \in WssState, NEW m \in Message, NEW b \in WssState, Fits(a, m, b), m.type \notin {"begin", "close"},
           NEW q, Ahead(a, q)
    PROVE  Ahead(b, IF Commanded(m) THEN Append(q, m) ELSE q)
<1> USE WssTypes
<1>1. CASE m.type = "media" /\ a.media /\ b = [a EXCEPT !.next = @ + 1]
    <2>1. ~Commanded(m) /\ b.response = a.response /\ b.stop = a.stop
        BY <1>1 DEF Commanded, WssState
    <2>2. q = <<>> /\ a.response /\ a.stop = 0
        BY <1>1 DEF Ahead, OverIn, Halted
    <2> QED
        BY <2>1, <2>2 DEF Ahead
<1>2. CASE /\ m.type = "end" /\ m.outcome = "completed" /\ m = EndCmd(a) /\ a.next > 0 /\ a.response /\ a.stop = 0
           /\ b = [a EXCEPT !.response = FALSE, !.media = FALSE]
    <2>1. Commanded(m) /\ ~b.response /\ ~b.media /\ b.stop = 0 /\ b.next = a.next /\ b.gen = a.gen
        BY <1>2 DEF Commanded, WssState
    <2>2. EndCmd(b) = m /\ OverIn(b)
        BY <1>2, <2>1 DEF EndCmd, OverIn
    <2>3. q = <<>>
        BY <1>2 DEF Ahead, OverIn, Halted
    <2>4. Append(q, m) = <<EndCmd(b)>>
        BY <2>2, <2>3, Tuple1
    <2> QED
        BY <2>1, <2>2, <2>4 DEF Ahead
<1>3. CASE /\ m.type = "end" /\ m.outcome = "cancelled" /\ a.response /\ a.stop # 0
           /\ b = [a EXCEPT !.response = FALSE, !.media = FALSE]
    <2>1. ~Commanded(m) /\ ~b.media /\ b.stop = a.stop /\ b.gen = a.gen
        BY <1>3 DEF Commanded, WssState
    <2>2. q = <<StopCmd(a)>> /\ Halted(a)
        BY <1>3 DEF Ahead, OverIn
    <2>3. q = <<StopCmd(b)>> /\ Halted(b)
        BY <2>1, <2>2 DEF StopCmd, Halted
    <2> QED
        BY <2>1, <2>3 DEF Ahead
<1>4. CASE /\ m.type = "stop" /\ m = StopMsg(a.gen, m.arg) /\ a.stop = 0 /\ m.arg > a.fence
           /\ b = [a EXCEPT !.fence = m.arg, !.stop = m.arg, !.media = FALSE]
    <2>1. Commanded(m) /\ ~b.media /\ b.stop = m.arg /\ b.gen = a.gen /\ b.next = a.next /\ b.response = a.response
        BY <1>4 DEF Commanded, WssState
    <2>2. Halted(b) /\ m = StopCmd(b)
        <3>1. m.arg # 0
            BY <1>4, Fields
        <3> QED
            BY <1>4, <2>1, <3>1 DEF Halted, StopCmd
    <2>3. CASE q = <<>>
        BY <2>1, <2>2, <2>3, Tuple1 DEF Ahead
    <2>4. CASE q = <<EndCmd(a)>> /\ OverIn(a)
        <3>1. EndCmd(b) = EndCmd(a) /\ OverIn(b)
            BY <2>1, <2>4 DEF EndCmd, OverIn
        <3>2. EndCmd(a) \in Message
            BY <2>4, CommandMessages DEF OverIn
        <3>3. Append(q, m) = <<EndCmd(b), StopCmd(b)>>
            BY <2>2, <2>4, <3>1, <3>2, Tuple2
        <3> QED
            BY <2>1, <2>2, <3>1, <3>3 DEF Ahead
    <2> QED
        BY <1>4, <2>3, <2>4 DEF Ahead, Halted
<1> QED
    BY <1>1, <1>2, <1>3, <1>4, FitsKinds

\* The same once the end has been taken.
LEMMA LateMoves ==
    ASSUME NEW a \in WssState, NEW m \in Message, NEW b \in WssState, Fits(a, m, b), m.type \notin {"begin", "close"},
           NEW q, Late(a, q)
    PROVE  Late(b, IF Commanded(m) THEN Append(q, m) ELSE q) /\ b.next = a.next
<1> USE WssTypes
<1>1. CASE /\ m.type = "stop" /\ m = StopMsg(a.gen, m.arg) /\ a.stop = 0 /\ m.arg > a.fence
           /\ b = [a EXCEPT !.fence = m.arg, !.stop = m.arg, !.media = FALSE]
    <2>1. Commanded(m) /\ ~b.media /\ b.stop = m.arg /\ b.gen = a.gen /\ b.next = a.next /\ b.response = a.response
        BY <1>1 DEF Commanded, WssState
    <2>2. Halted(b) /\ m = StopCmd(b)
        <3>1. m.arg # 0
            BY <1>1, Fields
        <3> QED
            BY <1>1, <2>1, <3>1 DEF Halted, StopCmd
    <2>3. q = <<>> /\ OverIn(a)
        BY <1>1 DEF Late, Halted
    <2>4. OverIn(b)
        BY <2>1, <2>3 DEF OverIn
    <2>5. Append(q, m) = <<StopCmd(b)>>
        BY <2>2, <2>3, Tuple1
    <2> QED
        BY <2>1, <2>2, <2>4, <2>5 DEF Late
<1> QED
    BY <1>1, FitsKinds DEF Late, OverIn

-----------------------------------------------------------------------------
(* Stops and the audio the playback task has still to play. *)

\* The stops, and the reports that a playback was stopped.
Stops == Of("stop")
StopReports == {m \in Reports : m.outcome = "stopped"}

\* A stop on its way is the slot's, which is fenced; it is the only one, and once
\* it is reported there is none.
StopsAgree == Running =>
    /\ Once(down, Stops) /\ Names(down, Stops, playback) /\ Once(cmdq, Stops)
    /\ Has(down, Stops) \/ Has(cmdq, Stops) \/ Has(factq, StopReports) \/ Has(up, StopReports) =>
           playback # 0 /\ rec[playback].stop
    /\ Has(cmdq, Stops) => ~Has(down, Stops)
    /\ Has(factq, StopReports) \/ Has(up, StopReports) => ~Has(down, Stops) /\ ~Has(cmdq, Stops)
    /\ playback # 0 => rec[playback].outcome # "failed"

\* The sequences of q rise, are all above n, and are all below n.
Rising(q) == \A i, j \in DOMAIN q : i < j => q[i].arg < q[j].arg
Above(q, n) == \A i \in DOMAIN q : n < q[i].arg
Below(q, n) == \A i \in DOMAIN q : q[i].arg \in 0 .. n - 1

\* The packets are played in the order they were admitted.
InOrder == Running =>
    /\ Below(mediaq, ws.next) /\ Rising(mediaq)
    /\ task.pc # "loop" => task.seq \in 0 .. ws.next - 1 /\ Above(mediaq, task.seq)
    /\ pb.active => /\ pb.sample < ws.next /\ pb.done <= pb.sample /\ Above(mediaq, pb.sample)
                    /\ task.pc # "loop" => pb.done < task.seq /\ pb.sample <= task.seq

\* A packet is queued.
LEMMA RisingAppend ==
    ASSUME NEW q \in Seq(Message), NEW m \in Message, NEW n \in Nat, Below(q, n), m.arg = n, Rising(q)
    PROVE  /\ Below(Append(q, m), n + 1) /\ Rising(Append(q, m))
           /\ \A k \in Nat \cup {-1} : k < n /\ Above(q, k) => Above(Append(q, m), k)
<1> DEFINE r == Append(q, m)
           c == Len(q)
<1>1. c \in Nat /\ DOMAIN q = 1 .. c /\ DOMAIN r = 1 .. c + 1 /\ r[c + 1] = m /\ \A i \in 1 .. c : r[i] = q[i]
    OBVIOUS
<1> HIDE DEF r, c
<1>2. Below(r, n + 1)
    BY <1>1 DEF Below
<1>3. Rising(r)
    <2> SUFFICES ASSUME NEW i \in 1 .. c + 1, NEW j \in 1 .. c + 1, i < j PROVE r[i].arg < r[j].arg
        BY <1>1 DEF Rising
    <2>1. i \in 1 .. c /\ r[i] = q[i] /\ q[i].arg \in 0 .. n - 1
        BY <1>1 DEF Below
    <2>2. CASE j = c + 1
        BY <1>1, <2>1, <2>2
    <2>3. CASE j \in 1 .. c
        BY <1>1, <2>1, <2>3 DEF Rising
    <2> QED
        BY <1>1, <2>2, <2>3
<1>4. ASSUME NEW k \in Nat \cup {-1}, k < n, Above(q, k)
      PROVE  Above(r, k)
    BY <1>1, <1>4 DEF Above
<1> QED
    BY <1>2, <1>3, <1>4 DEF r

\* A packet is taken, or dropped from a full queue.
LEMMA RisingTail ==
    ASSUME NEW q \in Seq(Message), q # <<>>, NEW n \in Nat, Below(q, n), Rising(q)
    PROVE  /\ Below(Tail(q), n) /\ Rising(Tail(q)) /\ Above(Tail(q), Head(q).arg) /\ Head(q).arg \in 0 .. n - 1
           /\ \A k \in Nat \cup {-1} : Above(q, k) => Above(Tail(q), k) /\ k < Head(q).arg
<1> DEFINE r == Tail(q)
           c == Len(q)
<1>1. c \in Nat /\ c > 0 /\ DOMAIN q = 1 .. c /\ DOMAIN r = 1 .. c - 1 /\ \A i \in 1 .. c - 1 : r[i] = q[i + 1]
    OBVIOUS
<1>2. Head(q) = q[1]
    OBVIOUS
<1> HIDE DEF r, c
<1>3. 1 \in 1 .. c /\ \A i \in 1 .. c - 1 : i + 1 \in 1 .. c /\ 1 < i + 1
    BY <1>1
<1>4. Below(r, n) /\ q[1].arg \in 0 .. n - 1
    BY <1>1, <1>3 DEF Below
<1>5. Rising(r)
    <2> SUFFICES ASSUME NEW i \in 1 .. c - 1, NEW j \in 1 .. c - 1, i < j PROVE r[i].arg < r[j].arg
        BY <1>1 DEF Rising
    <2>1. i + 1 \in 1 .. c /\ j + 1 \in 1 .. c /\ i + 1 < j + 1
        BY <1>1
    <2> QED
        BY <1>1, <2>1 DEF Rising
<1>6. Above(r, q[1].arg)
    BY <1>1, <1>3 DEF Above, Rising
<1>7. ASSUME NEW k \in Nat \cup {-1}, Above(q, k)
      PROVE  Above(r, k) /\ k < q[1].arg
    BY <1>1, <1>3, <1>7 DEF Above
<1> QED
    BY <1>2, <1>4, <1>5, <1>6, <1>7 DEF r

\* The empty queue.
LEMMA RisingEmpty ==
    ASSUME NEW n, NEW k
    PROVE  Below(<<>>, n) /\ Rising(<<>>) /\ Above(<<>>, k)
BY DEF Below, Rising, Above

\* The supervisor admits the next frame.
LEMMA Admits ==
    ASSUME TypeInv, Stream, Commands, UNCHANGED <<responseVars, connectionVars>>,
           ReceiveBegin \/ ReceiveEnd \/ ReceiveStop \/ ReceiveMedia
    PROVE  LET m == Head(down) IN
           /\ m \in Message /\ m.type # "close" /\ Fits(ws, m, ws') /\ ws' \in WssState /\ dev' = dev /\ gateGen' = ws'.gen
           /\ cmdq' = (IF Commanded(m) THEN Append(cmdq, m) ELSE cmdq)
           /\ mediaq' = (IF m.type = "media" THEN Append(IF MediaFull THEN Tail(mediaq) ELSE mediaq, m) ELSE mediaq)
           /\ UNCHANGED <<factq, pb, task, up>> /\ down # <<>> /\ down' = Tail(down)
           /\ Stream' /\ Running
<1> DEFINE m == Head(down)
<1>1. /\ down \in Seq(Message) /\ ws \in WssState /\ gateGen = ws.gen /\ ws.gen <= ws.fence /\ dev = "running"
      /\ down # <<>> /\ down' = Tail(down) /\ up' = up /\ UNCHANGED <<factq, pb, task>>
    BY DEF TypeInv, TypeOK, WireTypeOK, EndpointTypeOK, Commands, Ordered, Running, ReceiveBegin, ReceiveEnd, ReceiveStop,
           ReceiveMedia, Take, taskVars
<1>2. PICK w : Run(w, down) /\ w[1] = ws /\ (Open => Sent(w[Len(w)]))
    BY <1>1 DEF Stream, Running
<1>3. /\ Fits(ws, m, w[2]) /\ w[2] \in WssState
      /\ Run(Tail(w), down') /\ Tail(w)[1] = w[2] /\ Tail(w)[Len(Tail(w))] = w[Len(w)]
    BY <1>1, <1>2, RunTail
<1>4. m \in Message
    BY <1>1, Queue
<1> DEFINE b == w[2]
           P == /\ m.type # "close" /\ ws' = b /\ dev' = dev /\ gateGen' = b.gen
                /\ cmdq' = (IF Commanded(m) THEN Append(cmdq, m) ELSE cmdq)
                /\ mediaq' = (IF m.type = "media" THEN Append(IF MediaFull THEN Tail(mediaq) ELSE mediaq, m) ELSE mediaq)
<1>5. P
    <2> HIDE DEF b
    <2>1. b \in WssState /\ Fits(ws, m, b)
        BY <1>3 DEF b
    <2>3. CASE ReceiveBegin
        <3>1. /\ m.type = "begin" /\ ~ws.response /\ m.gen > ws.fence
              /\ b = [ws EXCEPT !.response = TRUE, !.media = TRUE, !.gen = m.gen, !.fence = m.gen, !.stop = 0]
            BY <1>1, <1>4, <2>1, <2>3, FitsKinds DEF ReceiveBegin
        <3>2. m.gen > gateGen /\ b.gen = m.gen /\ m.gen \in Nat /\ gateGen \in Nat
            BY <1>1, <1>4, <3>1, Fields, WssTypes DEF WssState
        <3> QED
            BY <1>1, <2>3, <3>1, <3>2 DEF ReceiveBegin, Commanded
    <2>4. CASE ReceiveEnd
        <3>1. /\ m.type = "end" /\ ws.response /\ m.gen = ws.gen
              /\ b = [ws EXCEPT !.response = FALSE, !.media = FALSE]
            BY <1>1, <1>4, <2>1, <2>4, FitsKinds DEF ReceiveEnd
        <3>2. b.gen = ws.gen
            BY <1>1, <3>1 DEF WssState
        <3> QED
            BY <1>1, <2>4, <3>1, <3>2 DEF ReceiveEnd, Commanded
    <2>5. CASE ReceiveStop
        <3>1. /\ m.type = "stop" /\ m.gen = ws.gen /\ ws.stop = 0 /\ m.arg > ws.fence
              /\ b = [ws EXCEPT !.fence = m.arg, !.stop = m.arg, !.media = FALSE]
            BY <1>1, <1>4, <2>1, <2>5, FitsKinds DEF ReceiveStop
        <3>2. b.gen = ws.gen
            BY <1>1, <3>1 DEF WssState
        <3> QED
            BY <1>1, <2>5, <3>1, <3>2 DEF ReceiveStop, Commanded, StopAdmitted
    <2>6. CASE ReceiveMedia
        <3>1. /\ m.type = "media" /\ m.gen = ws.gen /\ m.arg = ws.next /\ ws.media /\ ws.fence = ws.gen
              /\ b = [ws EXCEPT !.next = @ + 1]
            BY <1>1, <1>4, <2>1, <2>6, FitsKinds DEF ReceiveMedia
        <3>2. b.gen = ws.gen /\ ~MediaStale(m)
            BY <1>1, <3>1, WssTypes DEF WssState, MediaStale
        <3> QED
            BY <1>1, <2>6, <3>1, <3>2 DEF ReceiveMedia, Commanded
    <2> QED
        BY <2>3, <2>4, <2>5, <2>6
<1>6. Stream'
    <2> DEFINE x == Tail(w)
               v == w[Len(w)]
    <2>1. Sent(v) => Sent(v)'
        BY DEF Sent, Due, responseVars, connectionVars
    <2>2. Open' <=> Open
        BY DEF Open, connectionVars
    <2> HIDE DEF x
    <2>3. Run(x, down') /\ x[1] = ws' /\ (Open' => Sent(x[Len(x)])')
        BY <1>2, <1>3, <1>5, <2>1, <2>2 DEF x
    <2> QED
        BY <2>3 DEF Stream
<1> QED
    BY <1>1, <1>3, <1>4, <1>5, <1>6 DEF Running

\* Types used below.
LEMMA EndpointTypes ==
    ASSUME TypeInv
    PROVE  /\ ws \in WssState /\ pb \in PlayState /\ task \in TaskState
           /\ down \in Seq(Message) /\ up \in Seq(Message)
           /\ cmdq \in Seq(Message) /\ mediaq \in Seq(Message) /\ factq \in Seq(Message)
           /\ ws.gen \in Nat /\ ws.fence \in Nat /\ ws.stop \in Nat /\ ws.next \in Nat /\ ws.media \in BOOLEAN
           /\ ws.response \in BOOLEAN
           /\ pb.active \in BOOLEAN /\ pb.gen \in Nat /\ pb.fence \in Nat /\ pb.stop \in Nat
           /\ pb.final \in Nat \cup {-1} /\ pb.sample \in Nat \cup {-1} /\ pb.done \in Nat \cup {-1}
           /\ task.seq \in Nat \cup {-1} /\ task.gen \in Nat
BY DEF TypeInv, TypeOK, EndpointTypeOK, WireTypeOK, WssState, PlayState, TaskState

\* An admitted frame keeps the generations of WssSession in order.
LEMMA OrderedMoves ==
    ASSUME NEW a \in WssState, NEW m \in Message, NEW b \in WssState, Fits(a, m, b), Ordered(a)
    PROVE  /\ Ordered(b)
           /\ m.type # "begin" => b.gen = a.gen
           /\ m.type = "begin" => b.gen = m.gen /\ m.gen > a.fence /\ m.gen > a.gen
           /\ a.fence <= b.fence
<1>1. /\ a.gen \in Nat /\ a.fence \in Nat /\ a.stop \in Nat /\ m.gen \in Nat /\ m.arg \in Nat \cup {-1}
    BY WssTypes, Fields
<1>2. CASE m.type = "begin"
    <2>1. m.gen > a.fence /\ b = [a EXCEPT !.response = TRUE, !.media = TRUE, !.gen = m.gen, !.fence = m.gen, !.stop = 0]
        BY <1>2, FitsKinds
    <2>2. b.gen = m.gen /\ b.fence = m.gen /\ b.stop = 0
        BY <2>1 DEF WssState
    <2> QED
        BY <1>1, <1>2, <2>1, <2>2 DEF Ordered
<1>3. CASE m.type = "stop"
    <2>1. m.arg > a.fence /\ b = [a EXCEPT !.fence = m.arg, !.stop = m.arg, !.media = FALSE]
        BY <1>3, FitsKinds
    <2>2. b.gen = a.gen /\ b.fence = m.arg /\ b.stop = m.arg
        BY <2>1 DEF WssState
    <2> QED
        BY <1>1, <1>3, <2>1, <2>2 DEF Ordered
<1>4. CASE m.type \notin {"begin", "stop"}
    <2>1. \/ b = [a EXCEPT !.next = @ + 1] \/ b = [a EXCEPT !.response = FALSE, !.media = FALSE] \/ b = a
        BY <1>4, FitsKinds
    <2>2. b.gen = a.gen /\ b.fence = a.fence /\ b.stop = a.stop
        BY <2>1 DEF WssState
    <2> QED
        BY <1>1, <1>4, <2>2 DEF Ordered
<1> QED
    BY <1>2, <1>3, <1>4

\* An admitted frame leaves the commands in order.
LEMMA AdmitCommands ==
    ASSUME TypeInv, Stream, Commands, Life, StopsAgree, UNCHANGED <<responseVars, connectionVars>>,
           ReceiveBegin \/ ReceiveEnd \/ ReceiveStop \/ ReceiveMedia
    PROVE  Commands'
<1> DEFINE m == Head(down)
           b == ws'
<1>1. /\ m \in Message /\ m.type # "close" /\ Fits(ws, m, b) /\ b \in WssState /\ dev' = dev /\ gateGen' = b.gen
      /\ cmdq' = (IF Commanded(m) THEN Append(cmdq, m) ELSE cmdq)
      /\ UNCHANGED <<factq, pb, task, up>> /\ down # <<>> /\ Running
    BY Admits
<1>2. playback' = playback
    BY DEF responseVars
<1>3. /\ ws \in WssState /\ cmdq \in Seq(Message) /\ ws.gen \in Nat /\ ws.fence \in Nat /\ ws.next \in Nat /\ ws.stop \in Nat
      /\ pb.active \in BOOLEAN /\ pb.fence \in Nat /\ pb.gen \in Nat /\ down \in Seq(Message)
    BY EndpointTypes
<1>4. gateGen = ws.gen /\ Ordered(ws)
    BY <1>1 DEF Commands
<1>5. /\ Ordered(b) /\ ws.fence <= b.fence
      /\ m.type # "begin" => b.gen = ws.gen
      /\ m.type = "begin" => b.gen = m.gen /\ m.gen > ws.fence /\ m.gen > ws.gen
    BY <1>1, <1>3, <1>4, OrderedMoves
<1>6. m.type = "begin" => m.gen = playback /\ playback # 0
    <2> SUFFICES ASSUME m.type = "begin" PROVE m.gen = playback /\ playback # 0
        OBVIOUS
    <2>1. m \in Openings
        BY <1>1, OtherType DEF Openings
    <2>2. Has(down, Openings) /\ m.gen = playback
        BY <1>1, <1>3, <2>1, TailQueue DEF Life
    <2> QED
        BY <2>2 DEF Life, InFlight
<1>7. m.type = "stop" => m.gen = playback /\ playback # 0
    <2> SUFFICES ASSUME m.type = "stop" PROVE m.gen = playback /\ playback # 0
        OBVIOUS
    <2>1. m \in Stops
        BY <1>1, OtherType DEF Stops
    <2>2. Has(down, Stops) /\ m.gen = playback
        BY <1>1, <1>3, <2>1, TailQueue DEF StopsAgree
    <2> QED
        BY <1>1, <2>2 DEF StopsAgree
<1>8. b.gen \in Nat /\ b.fence \in Nat /\ b.stop \in Nat /\ b.next \in Nat
    BY <1>1, WssTypes
<1> HIDE DEF m
<1>9. SUFFICES \/ Idle'
               \/ b.gen = playback /\ playback # 0 /\ (Begun \/ Going \/ Ending \/ Crossed)'
    BY <1>1, <1>2, <1>5 DEF Commands
<1>10. CASE Idle
    <2>1. cmdq = <<>> /\ ~pb.active /\ pb.fence <= ws.fence /\ (ws.stop = 0 => pb.gen = 0 /\ pb.fence = ws.gen /\ ~ws.response)
        BY <1>10 DEF Idle
    <2>2. CASE m.type = "begin"
        <3>1. cmdq' = <<m>> /\ Head(cmdq') = m /\ Tail(cmdq') = <<>> /\ cmdq' # <<>>
            BY <1>1, <2>1, <2>2, Tuple1 DEF Commanded
        <3>2. m = BeginMsg(b.gen) /\ b.response /\ b.stop = 0
            BY <1>1, <1>3, <1>5, <2>2, FitsKinds DEF WssState
        <3>3. pb.fence < b.gen
            BY <1>1, <1>3, <1>5, <1>8, <2>1, <2>2
        <3>4. Begun'
            BY <1>1, <2>1, <3>1, <3>2, <3>3 DEF Begun, Ahead
        <3> QED
            BY <1>5, <1>6, <2>2, <3>4
    <2>3. CASE m.type = "media"
        <3>1. b.stop = ws.stop /\ b.response = ws.response /\ b.gen = ws.gen /\ b.fence = ws.fence
            BY <1>1, <1>3, <2>3, FitsKinds DEF WssState
        <3>2. cmdq' = cmdq
            BY <1>1, <2>3 DEF Commanded
        <3> QED
            BY <1>1, <2>1, <3>1, <3>2 DEF Idle
    <2>4. CASE m.type = "end"
        <3>1. ws.stop # 0 /\ b.stop = ws.stop /\ b.gen = ws.gen /\ b.fence = ws.fence /\ m.outcome = "cancelled"
            BY <1>1, <1>3, <2>1, <2>4, FitsKinds DEF WssState
        <3>2. cmdq' = cmdq
            BY <1>1, <2>4, <3>1 DEF Commanded
        <3> QED
            BY <1>1, <2>1, <3>1, <3>2 DEF Idle
    <2>5. CASE m.type = "stop"
        <3>1. /\ m = StopMsg(ws.gen, m.arg) /\ m.gen = ws.gen /\ ws.stop = 0 /\ m.arg > ws.fence
              /\ b.stop = m.arg /\ b.gen = ws.gen /\ ~b.media
            BY <1>1, <1>3, <2>5, FitsKinds DEF WssState
        <3>2. cmdq' = <<m>>
            BY <1>1, <2>1, <2>5, Tuple1 DEF Commanded
        <3>3. m = StopCmd(b) /\ Halted(b)
            BY <1>3, <1>8, <3>1 DEF StopCmd, Halted
        <3>4. Crossed'
            BY <1>1, <2>1, <3>1, <3>2, <3>3 DEF Crossed
        <3> QED
            BY <1>7, <2>5, <3>1, <3>4
    <2> QED
        BY <1>1, <1>3, <2>2, <2>3, <2>4, <2>5, FitsKinds
<1>11. CASE ws.gen = playback /\ playback # 0 /\ (Begun \/ Going \/ Ending \/ Crossed)
    <2>1. m.type # "begin" /\ b.gen = ws.gen
        BY <1>3, <1>5, <1>6, <1>11
    <2>2. m.type \notin {"begin", "close"}
        BY <1>1, <2>1
    <2>3. CASE Begun
        <3> DEFINE q == Tail(cmdq)
        <3>1. /\ ~pb.active /\ pb.fence < ws.gen /\ cmdq # <<>> /\ Head(cmdq) = BeginMsg(ws.gen) /\ Ahead(ws, q)
              /\ q \in Seq(Message)
            BY <1>3, <2>3, Queue DEF Begun
        <3>2. Ahead(b, IF Commanded(m) THEN Append(q, m) ELSE q)
            BY <1>1, <1>3, <2>2, <3>1, AheadMoves
        <3>3. cmdq' # <<>> /\ Head(cmdq') = Head(cmdq) /\ Tail(cmdq') = (IF Commanded(m) THEN Append(q, m) ELSE q)
            BY <1>1, <1>3, <3>1, AppendEnds
        <3> HIDE DEF q
        <3>4. Begun'
            BY <1>1, <2>1, <3>1, <3>2, <3>3 DEF Begun
        <3> QED
            BY <1>11, <2>1, <3>4
    <2>4. CASE Going
        <3>1. Ahead(ws, cmdq) /\ Playing(-1)
            BY <2>4 DEF Going
        <3>2. Ahead(b, cmdq')
            BY <1>1, <1>3, <2>2, <3>1, AheadMoves
        <3>3. Playing(-1)'
            BY <1>1, <2>1, <3>1 DEF Playing
        <3> QED
            BY <1>11, <2>1, <3>2, <3>3 DEF Going
    <2>5. CASE Ending
        <3>1. Late(ws, cmdq) /\ Playing(ws.next - 1)
            BY <2>5 DEF Ending
        <3>2. Late(b, cmdq') /\ b.next = ws.next
            BY <1>1, <1>3, <2>2, <3>1, LateMoves
        <3>3. Playing(ws.next - 1)'
            BY <1>1, <2>1, <3>1, <3>2 DEF Playing
        <3> QED
            BY <1>11, <2>1, <3>2, <3>3 DEF Ending
    <2>6. CASE Crossed
        <3>1. Halted(ws) /\ cmdq = <<StopCmd(ws)>>
            BY <2>6 DEF Crossed
        <3>2. b.stop = ws.stop /\ ~b.media /\ m.type = "end" /\ m.outcome = "cancelled"
            <4>1. m.type = "end" /\ m.outcome = "cancelled" /\ b = [ws EXCEPT !.response = FALSE, !.media = FALSE]
                BY <1>1, <1>3, <2>2, <3>1, FitsKinds DEF Halted
            <4> QED
                BY <1>3, <4>1 DEF WssState
        <3>3. cmdq' = cmdq /\ StopCmd(b) = StopCmd(ws) /\ Halted(b)
            BY <1>1, <2>1, <3>1, <3>2 DEF Commanded, StopCmd, Halted
        <3>4. Crossed'
            BY <1>1, <2>1, <2>6, <3>3 DEF Crossed
        <3> QED
            BY <1>11, <2>1, <3>4
    <2> QED
        BY <1>11, <2>3, <2>4, <2>5, <2>6
<1> QED
    BY <1>1, <1>10, <1>11 DEF Commands

\* PlaybackState::Begin for the response that was announced.
LEMMA BeginCommand ==
    ASSUME TypeInv, TypeInv', Commands, InOrder, ProcessCommand, UNCHANGED playback, Begun, ws.gen = playback, playback # 0
    PROVE  Commands' /\ InOrder' /\ dev' = dev
<1>1. /\ pb \in PlayState /\ pb.fence \in Nat /\ ws.gen \in Nat /\ ws.next \in Nat /\ mediaq \in Seq(Message)
      /\ task.seq \in Nat \cup {-1} /\ Running
    BY EndpointTypes DEF ProcessCommand, Running
<1>2. /\ ~pb.active /\ pb.fence < ws.gen /\ Head(cmdq) = BeginMsg(ws.gen) /\ Ahead(ws, Tail(cmdq))
    BY DEF Begun
<1>3. Head(cmdq).type = "begin" /\ Head(cmdq).gen = ws.gen
    BY <1>2 DEF BeginMsg, Plain
<1>4. DoBegin(Head(cmdq)) /\ cmdq' = Tail(cmdq) /\ UNCHANGED <<ws, gateGen, task>>
    BY <1>3 DEF ProcessCommand, supervisorVars
<1>5. /\ pb' = [pb EXCEPT !.active = TRUE, !.gen = ws.gen, !.stop = 0, !.final = -1,
                          !.sample = -1, !.done = -1, !.degraded = FALSE]
      /\ UNCHANGED <<mediaq, dev>>
    BY <1>1, <1>2, <1>3, <1>4 DEF DoBegin
<1>6. /\ pb'.active /\ pb'.gen = ws.gen /\ pb'.stop = 0 /\ pb'.final = -1 /\ pb'.sample = -1 /\ pb'.done = -1
      /\ pb'.fence = pb.fence
    BY <1>1, <1>5 DEF PlayState
<1>7. Going'
    BY <1>2, <1>4, <1>6 DEF Going, Playing
<1>8. Commands'
    BY <1>1, <1>4, <1>5, <1>7 DEF Commands, Running
<1>9. InOrder'
    <2>1. Below(mediaq, ws.next) /\ Rising(mediaq) /\ (task.pc # "loop" => task.seq \in 0 .. ws.next - 1 /\ Above(mediaq, task.seq))
        BY <1>1 DEF InOrder
    <2>2. Above(mediaq, -1)
        BY <1>1, <2>1 DEF Below, Above
    <2> QED
        BY <1>1, <1>4, <1>5, <1>6, <2>1, <2>2 DEF InOrder
<1> QED
    BY <1>5, <1>8, <1>9

\* The fields of a playback that has ended.
LEMMA EndedFields ==
    ASSUME NEW o
    PROVE  /\ ~Ended(o).active /\ (o # "stopped" => Ended(o).gen = 0 /\ Ended(o).fence = pb.gen)
           /\ LET e == [Ended("stopped") EXCEPT !.fence = ws.stop, !.stop = ws.stop] IN ~e.active /\ e.fence = ws.stop
BY DEF Ended

\* PlaybackState::SetFinalMediaSequence for the response that plays.
LEMMA EndCommand ==
    ASSUME TypeInv, TypeInv', Commands, InOrder, ProcessCommand, UNCHANGED playback, Going, ws.gen = playback, playback # 0,
           OverIn(ws), Head(cmdq) = EndCmd(ws),
           \/ Tail(cmdq) = <<>> /\ ws.stop = 0
           \/ Tail(cmdq) = <<StopCmd(ws)>> /\ Halted(ws)
    PROVE  Commands' /\ InOrder' /\ dev' = dev
<1>1. /\ pb \in PlayState /\ pb.fence \in Nat /\ ws.gen \in Nat /\ ws.next \in Nat /\ mediaq \in Seq(Message)
      /\ pb.sample \in Nat \cup {-1} /\ pb.done \in Nat \cup {-1} /\ ws.fence \in Nat
      /\ task.seq \in Nat \cup {-1} /\ Running /\ ws \in WssState
    BY EndpointTypes DEF ProcessCommand, Running
<1>2. pb.active /\ pb.gen = ws.gen /\ pb.fence < ws.gen /\ pb.stop = 0 /\ pb.final = -1
    BY DEF Going, Playing
<1>3. ~ws.response /\ ~ws.media /\ ws.next > 0
    BY DEF OverIn
<1>4. Head(cmdq).type = "end" /\ Head(cmdq).gen = ws.gen /\ Head(cmdq).arg = ws.next - 1
    BY <1>1, CommandMessages
<1>5. DoComplete(Head(cmdq)) /\ cmdq' = Tail(cmdq) /\ UNCHANGED <<ws, gateGen, task>>
    BY <1>4 DEF ProcessCommand, supervisorVars
<1>6. /\ Below(mediaq, ws.next) /\ Rising(mediaq)
      /\ task.pc # "loop" => task.seq \in 0 .. ws.next - 1 /\ Above(mediaq, task.seq)
      /\ pb.sample < ws.next /\ pb.done <= pb.sample /\ Above(mediaq, pb.sample)
      /\ task.pc # "loop" => pb.done < task.seq /\ pb.sample <= task.seq
    BY <1>1, <1>2 DEF InOrder
<1>7. gateGen = ws.gen /\ Ordered(ws)
    BY <1>1 DEF Commands
<1>8. /\ UNCHANGED <<mediaq, dev>>
      /\ \/ /\ pb.done = ws.next - 1
            /\ pb' = Ended("failed") \/ pb' = Ended("completed")
         \/ pb' = [pb EXCEPT !.final = ws.next - 1]
    <2>1. pb.sample <= ws.next - 1 /\ pb.done <= ws.next - 1
        BY <1>1, <1>6
    <2> QED
        BY <1>2, <1>4, <1>5, <2>1 DEF DoComplete
<1>9. CASE pb' = Ended("failed") \/ pb' = Ended("completed")
    <2>1. ~pb'.active /\ pb'.gen = 0 /\ pb'.fence = ws.gen
        BY <1>2, <1>9, EndedFields
    <2>2. CASE Tail(cmdq) = <<>> /\ ws.stop = 0
        <3>1. Idle'
            BY <1>1, <1>3, <1>5, <1>7, <2>1, <2>2 DEF Idle, Ordered
        <3> QED
            BY <1>1, <1>5, <1>6, <1>7, <1>8, <2>1, <3>1 DEF Commands, InOrder
    <2>3. CASE Tail(cmdq) = <<StopCmd(ws)>> /\ Halted(ws)
        <3>1. Crossed'
            BY <1>5, <2>1, <2>3 DEF Crossed, Halted, StopCmd
        <3> QED
            BY <1>1, <1>5, <1>6, <1>7, <1>8, <2>1, <3>1 DEF Commands, InOrder
    <2> QED
        BY <2>2, <2>3
<1>10. CASE pb' = [pb EXCEPT !.final = ws.next - 1]
    <2>1. /\ pb'.active /\ pb'.gen = ws.gen /\ pb'.fence = pb.fence /\ pb'.stop = 0 /\ pb'.final = ws.next - 1
          /\ pb'.sample = pb.sample /\ pb'.done = pb.done
        BY <1>1, <1>2, <1>10 DEF PlayState
    <2>2. Late(ws, Tail(cmdq))
        BY DEF Late
    <2>3. Ending'
        BY <1>2, <1>5, <2>1, <2>2 DEF Ending, Playing
    <2> QED
        BY <1>1, <1>5, <1>6, <1>7, <1>8, <2>1, <2>3 DEF Commands, InOrder
<1> QED
    BY <1>8, <1>9, <1>10

\* PlaybackState::Stop for the response that plays.
LEMMA StopCommand ==
    ASSUME TypeInv, TypeInv', Commands, InOrder, ProcessCommand, UNCHANGED playback, NEW f, Playing(f), Halted(ws),
           ws.gen = playback, playback # 0, cmdq = <<StopCmd(ws)>>
    PROVE  Commands' /\ InOrder' /\ dev' = dev
<1>1. /\ pb \in PlayState /\ pb.fence \in Nat /\ ws.gen \in Nat /\ ws.next \in Nat /\ ws.stop \in Nat
      /\ ws.fence \in Nat /\ task.seq \in Nat \cup {-1} /\ Running /\ ws \in WssState
    BY EndpointTypes DEF ProcessCommand, Running
<1>2. pb.active /\ pb.gen = ws.gen /\ pb.fence < ws.gen /\ pb.stop = 0 /\ ws.stop # 0
    BY DEF Playing, Halted
<1>3. gateGen = ws.gen /\ Ordered(ws)
    BY <1>1 DEF Commands
<1>4. StopCmd(ws) \in Message /\ StopCmd(ws).type = "stop" /\ StopCmd(ws).gen = ws.gen /\ StopCmd(ws).arg = ws.stop
    BY <1>1, CommandMessages
<1>5. Head(cmdq) = StopCmd(ws) /\ Tail(cmdq) = <<>>
    BY <1>4, Tuple1
<1>6. DoStop(Head(cmdq)) /\ cmdq' = <<>> /\ UNCHANGED <<ws, gateGen, task>>
    BY <1>4, <1>5 DEF ProcessCommand, supervisorVars
<1>7. /\ pb' = [Ended("stopped") EXCEPT !.fence = ws.stop, !.stop = ws.stop]
      /\ mediaq' = <<>> /\ dev' = dev
    <2>1. ws.stop > ws.gen /\ ws.stop > pb.fence
        BY <1>1, <1>2, <1>3 DEF Ordered
    <2> QED
        BY <1>2, <1>4, <1>5, <1>6, <2>1 DEF DoStop
<1>8. ~pb'.active /\ pb'.fence = ws.stop
    BY <1>7, EndedFields
<1>9. Idle'
    BY <1>1, <1>2, <1>3, <1>6, <1>8 DEF Idle, Ordered
<1>10. Commands'
    BY <1>3, <1>6, <1>9 DEF Commands
<1>11. InOrder'
    <2>1. task.pc # "loop" => task.seq \in 0 .. ws.next - 1
        BY <1>1 DEF InOrder
    <2> QED
        BY <1>6, <1>7, <1>8, <2>1, RisingEmpty DEF InOrder
<1> QED
    BY <1>7, <1>10, <1>11

\* A stop that crossed the end of its playback is refused, and only that.
LEMMA CrossedCommand ==
    ASSUME TypeInv, ProcessCommand, Crossed, ws.gen = playback, playback # 0
    PROVE  dev' = "playback_command" /\ ws'.stop # 0 /\ pb'.fence = ws'.gen /\ UNCHANGED <<factq, pb>>
<1>1. ws \in WssState /\ ws.gen \in Nat
    BY EndpointTypes
<1>2. cmdq = <<StopCmd(ws)>> /\ ~pb.active /\ pb.gen = 0 /\ pb.fence = ws.gen /\ ws.stop # 0
    BY DEF Crossed, Halted
<1>3. StopCmd(ws) \in Message /\ StopCmd(ws).type = "stop" /\ StopCmd(ws).gen = ws.gen
    BY <1>1, CommandMessages
<1>4. Head(cmdq) = StopCmd(ws)
    BY <1>2, <1>3, Tuple1
<1>5. DoStop(Head(cmdq)) /\ ws' = ws
    BY <1>3, <1>4 DEF ProcessCommand, supervisorVars
<1>6. Refuse
    BY <1>2, <1>3, <1>4, <1>5 DEF DoStop
<1> QED
    BY <1>2, <1>5, <1>6 DEF Refuse

\* The way the endpoint may stop running.
Stopping ==
    \/ dev' \in {"stopped", "closed", "playback_write"}
    \/ dev' = "playback_command" /\ ws'.stop # 0 /\ pb'.fence = ws'.gen

\* ProcessPlaybackCommands.
LEMMA CommandKept ==
    ASSUME TypeInv, TypeInv', Commands, InOrder, ProcessCommand, UNCHANGED playback
    PROVE  Commands' /\ InOrder' /\ (dev' = dev \/ (Stopping /\ UNCHANGED <<factq, pb>>))
<1>1. Running /\ cmdq # <<>> /\ ws \in WssState /\ cmdq \in Seq(Message)
    BY EndpointTypes DEF ProcessCommand, Running
<1>2. ws.gen = playback /\ playback # 0 /\ (Begun \/ Going \/ Ending \/ Crossed)
    BY <1>1 DEF Commands, Idle
<1>3. StopCmd(ws) \in Message /\ (ws.next > 0 => EndCmd(ws) \in Message)
    BY <1>1, CommandMessages
<1>4. CASE Begun
    BY <1>2, <1>4, BeginCommand
<1>5. CASE Going
    <2>1. Playing(-1) /\ Ahead(ws, cmdq)
        BY <1>5 DEF Going
    <2>2. CASE cmdq = <<EndCmd(ws)>> /\ OverIn(ws) /\ ws.stop = 0
        <3>1. Head(cmdq) = EndCmd(ws) /\ Tail(cmdq) = <<>>
            BY <1>3, <2>2, Tuple1 DEF OverIn
        <3> QED
            BY <1>2, <1>5, <2>2, <3>1, EndCommand
    <2>3. CASE cmdq = <<EndCmd(ws), StopCmd(ws)>> /\ OverIn(ws) /\ Halted(ws)
        <3>1. Head(cmdq) = EndCmd(ws) /\ Tail(cmdq) = <<StopCmd(ws)>>
            BY <1>3, <2>3, Tuple2 DEF OverIn
        <3> QED
            BY <1>2, <1>5, <2>3, <3>1, EndCommand
    <2>4. CASE cmdq = <<StopCmd(ws)>> /\ Halted(ws)
        BY <1>2, <2>1, <2>4, StopCommand
    <2> QED
        BY <1>1, <2>1, <2>2, <2>3, <2>4 DEF Ahead
<1>6. CASE Ending
    <2>1. Playing(ws.next - 1) /\ cmdq = <<StopCmd(ws)>> /\ Halted(ws)
        BY <1>1, <1>6 DEF Ending, Late
    <2> QED
        BY <1>2, <2>1, StopCommand
<1>7. CASE Crossed
    <2>1. dev' = "playback_command" /\ ws'.stop # 0 /\ pb'.fence = ws'.gen /\ UNCHANGED <<factq, pb>>
        BY <1>2, <1>7, CrossedCommand
    <2> QED
        BY <2>1 DEF Stopping, Commands, InOrder, Running
<1> QED
    BY <1>2, <1>4, <1>5, <1>6, <1>7

\* A write of the packet the playback task holds: it is never out of order.
LEMMA WriteKept ==
    ASSUME TypeInv, TypeInv', Commands, InOrder, WriteChunk, UNCHANGED playback
    PROVE  Commands' /\ InOrder' /\ dev' = dev
<1>1. /\ pb \in PlayState /\ pb.fence \in Nat /\ ws.gen \in Nat /\ ws.next \in Nat /\ mediaq \in Seq(Message)
      /\ pb.sample \in Nat \cup {-1} /\ pb.done \in Nat \cup {-1} /\ ws.fence \in Nat /\ pb.degraded \in BOOLEAN
      /\ task.seq \in Nat \cup {-1} /\ Running /\ ws \in WssState /\ task \in TaskState
    BY EndpointTypes DEF WriteChunk, Running, PlayState
<1>2. cmdq = <<>> /\ pb.active /\ task.pc = "write" /\ UNCHANGED <<ws, gateGen, cmdq, mediaq>>
    BY DEF WriteChunk, CanPlay, supervisorVars
<1>3. gateGen = ws.gen /\ Ordered(ws) /\ ws.gen = playback /\ playback # 0
    BY <1>1, <1>2 DEF Commands, Idle
<1>4. \/ Playing(-1) /\ Ahead(ws, <<>>)
      \/ Playing(ws.next - 1) /\ OverIn(ws) /\ ws.stop = 0
    BY <1>1, <1>2 DEF Commands, Idle, Begun, Going, Ending, Crossed, Late
<1>5. /\ pb.gen = ws.gen /\ pb.fence < ws.gen /\ pb.stop = 0
      /\ pb.final = -1 \/ (pb.final = ws.next - 1 /\ OverIn(ws) /\ ws.stop = 0)
    BY <1>4 DEF Playing
<1>6. /\ Below(mediaq, ws.next) /\ Rising(mediaq)
      /\ task.seq \in 0 .. ws.next - 1 /\ Above(mediaq, task.seq)
      /\ pb.sample < ws.next /\ pb.done <= pb.sample
      /\ pb.done < task.seq /\ pb.sample <= task.seq
    BY <1>1, <1>2 DEF InOrder
<1> DEFINE last == task.chunk + 1 = FrameChunks
           next == [pb EXCEPT !.sample = task.seq, !.done = IF last THEN task.seq ELSE @]
<1>7. /\ dev' = dev /\ task' = IF last THEN NoTask ELSE [task EXCEPT !.chunk = @ + 1]
      /\ \/ /\ task.seq = pb.final /\ last
            /\ pb' = Ended("failed") \/ pb' = Ended("completed")
         \/ pb' = next
    <2>1. /\ ~(pb.final # -1 /\ task.seq > pb.final)
          /\ ~(task.seq < pb.sample) /\ ~(task.seq <= pb.done)
        BY <1>1, <1>5, <1>6
    <2> QED
        BY <2>1 DEF WriteChunk
<1>8. CASE task.seq = pb.final /\ last /\ (pb' = Ended("failed") \/ pb' = Ended("completed"))
    <2>1. ~pb'.active /\ pb'.gen = 0 /\ pb'.fence = ws.gen
        BY <1>5, <1>8, EndedFields
    <2>2. OverIn(ws) /\ ws.stop = 0
        BY <1>1, <1>5, <1>6, <1>8
    <2>3. Idle'
        BY <1>1, <1>2, <1>3, <2>1, <2>2 DEF Idle, Ordered, OverIn
    <2>4. task'.pc = "loop"
        BY <1>7, <1>8 DEF NoTask
    <2> QED
        BY <1>1, <1>2, <1>3, <1>6, <1>7, <2>1, <2>3, <2>4 DEF Commands, InOrder
<1>9. CASE pb' = next
    <2>1. /\ pb'.active = pb.active /\ pb'.gen = pb.gen /\ pb'.fence = pb.fence /\ pb'.stop = pb.stop
          /\ pb'.final = pb.final /\ pb'.sample = task.seq /\ pb'.done = IF last THEN task.seq ELSE pb.done
        BY <1>1, <1>9 DEF PlayState
    <2>2. IF last THEN task'.pc = "loop" ELSE task'.pc = task.pc /\ task'.seq = task.seq
        BY <1>1, <1>7 DEF NoTask, TaskState
    <2> HIDE DEF last
    <2>3. (Going \/ Ending)'
        BY <1>2, <1>4, <2>1 DEF Going, Ending, Playing, Late
    <2>4. InOrder'
        <3>1. pb'.sample < ws.next /\ pb'.done <= pb'.sample /\ Above(mediaq, pb'.sample)
            BY <1>1, <1>6, <2>1
        <3>2. task'.pc # "loop" => task'.seq = task.seq /\ pb'.done < task'.seq /\ pb'.sample <= task'.seq
            BY <1>1, <1>6, <2>1, <2>2
        <3> QED
            BY <1>2, <1>6, <3>1, <3>2 DEF InOrder
    <2> QED
        BY <1>2, <1>3, <1>7, <2>3, <2>4 DEF Commands
<1> QED
    BY <1>7, <1>8, <1>9

\* The other steps of the playback task.
LEMMA LoopKept ==
    ASSUME TypeInv, TypeInv', Commands, InOrder, Observe \/ TakeMedia \/ Gate \/ BreakOff, UNCHANGED playback
    PROVE  Commands' /\ InOrder' /\ dev' = dev
<1>1. /\ pb \in PlayState /\ ws.next \in Nat /\ mediaq \in Seq(Message) /\ Running /\ task \in TaskState
      /\ pb.sample \in Nat \cup {-1} /\ pb.done \in Nat \cup {-1} /\ pb.active \in BOOLEAN
    BY EndpointTypes DEF Observe, TakeMedia, Gate, BreakOff, Running
<1>2. /\ UNCHANGED <<ws, gateGen, cmdq, dev>>
      /\ pb' = pb \/ pb' = [pb EXCEPT !.degraded = TRUE]
    BY DEF Observe, TakeMedia, Gate, BreakOff, supervisorVars
<1>3. /\ pb'.active = pb.active /\ pb'.gen = pb.gen /\ pb'.fence = pb.fence /\ pb'.stop = pb.stop
      /\ pb'.final = pb.final /\ pb'.sample = pb.sample /\ pb'.done = pb.done
    BY <1>1, <1>2 DEF PlayState
<1>4. Commands'
    BY <1>1, <1>2, <1>3 DEF Commands, Idle, Begun, Going, Ending, Crossed, Playing, Running
<1>5. CASE Observe \/ Gate \/ BreakOff
    <2>1. mediaq' = mediaq /\ (task'.pc = "loop" \/ (task'.pc # "loop" /\ task.pc # "loop" /\ task'.seq = task.seq))
        <3>1. CASE Observe
            BY <3>1 DEF Observe
        <3>2. CASE Gate
            <4>1. mediaq' = mediaq /\ task.pc = "held" /\ (task' = [task EXCEPT !.pc = "write"] \/ task' = NoTask)
                BY <3>2 DEF Gate
            <4> QED
                BY <1>1, <4>1 DEF TaskState, NoTask
        <3>3. CASE BreakOff
            BY <3>3 DEF BreakOff, NoTask
        <3> QED
            BY <1>5, <3>1, <3>2, <3>3
    <2> QED
        BY <1>1, <1>2, <1>3, <1>4, <2>1 DEF InOrder, Running
<1>6. CASE TakeMedia
    <2>1. /\ mediaq # <<>> /\ task.pc = "loop" /\ mediaq' = Tail(mediaq) /\ pb' = pb
          /\ task'.pc = "held" /\ task'.seq = Head(mediaq).arg
        BY <1>6 DEF TakeMedia
    <2>2. /\ Below(mediaq, ws.next) /\ Rising(mediaq)
          /\ pb.active => pb.sample < ws.next /\ pb.done <= pb.sample /\ Above(mediaq, pb.sample)
        BY <1>1 DEF InOrder
    <2> DEFINE h == Head(mediaq).arg
               r == Tail(mediaq)
    <2>3. /\ Below(r, ws.next) /\ Rising(r) /\ Above(r, h) /\ h \in 0 .. ws.next - 1
          /\ \A k \in Nat \cup {-1} : Above(mediaq, k) => Above(r, k) /\ k < h
        BY <1>1, <2>1, <2>2, RisingTail
    <2> HIDE DEF h, r
    <2>4. pb.active => /\ pb.sample < ws.next /\ pb.done <= pb.sample /\ Above(r, pb.sample)
                       /\ pb.done < h /\ pb.sample <= h
        BY <1>1, <2>2, <2>3
    <2>5. mediaq' = r /\ task'.seq = h
        BY <2>1 DEF h, r
    <2> QED
        BY <1>2, <1>4, <2>1, <2>3, <2>4, <2>5 DEF InOrder
<1> QED
    BY <1>2, <1>4, <1>5, <1>6

\* An admitted packet is behind all others.
LEMMA AdmitOrder ==
    ASSUME TypeInv, Stream, Commands, InOrder, UNCHANGED <<responseVars, connectionVars>>,
           ReceiveBegin \/ ReceiveEnd \/ ReceiveStop \/ ReceiveMedia
    PROVE  InOrder'
<1> DEFINE m == Head(down)
           b == ws'
<1>1. /\ m \in Message /\ m.type # "close" /\ Fits(ws, m, b) /\ b \in WssState /\ Running
      /\ mediaq' = (IF m.type = "media" THEN Append(IF MediaFull THEN Tail(mediaq) ELSE mediaq, m) ELSE mediaq)
      /\ UNCHANGED <<pb, task>>
    BY Admits
<1>2. /\ ws \in WssState /\ ws.next \in Nat /\ mediaq \in Seq(Message) /\ pb.sample \in Nat \cup {-1}
      /\ pb.done \in Nat \cup {-1} /\ task.seq \in Nat \cup {-1}
    BY EndpointTypes
<1>3. /\ Below(mediaq, ws.next) /\ Rising(mediaq)
      /\ task.pc # "loop" => task.seq \in 0 .. ws.next - 1 /\ Above(mediaq, task.seq)
      /\ pb.active => /\ pb.sample < ws.next /\ pb.done <= pb.sample /\ Above(mediaq, pb.sample)
                      /\ task.pc # "loop" => pb.done < task.seq /\ pb.sample <= task.seq
    BY <1>1 DEF InOrder
<1> HIDE DEF m
<1>4. CASE m.type # "media"
    <2>1. mediaq' = mediaq
        BY <1>1, <1>4
    <2>2. b.next = ws.next
        <3>1. \/ b = [ws EXCEPT !.response = TRUE, !.media = TRUE, !.gen = m.gen, !.fence = m.gen, !.stop = 0]
              \/ b = [ws EXCEPT !.response = FALSE, !.media = FALSE]
              \/ b = [ws EXCEPT !.fence = m.arg, !.stop = m.arg, !.media = FALSE]
            BY <1>1, <1>2, <1>4, FitsKinds
        <3> QED
            BY <1>2, <3>1 DEF WssState
    <2> QED
        BY <1>1, <1>3, <2>1, <2>2 DEF InOrder
<1>5. CASE m.type = "media"
    <2>1. m.arg = ws.next /\ b = [ws EXCEPT !.next = @ + 1]
        BY <1>1, <1>2, <1>5, FitsKinds
    <2>2. b.next = ws.next + 1
        BY <1>2, <2>1 DEF WssState
    <2>3. PICK q : q = (IF MediaFull THEN Tail(mediaq) ELSE mediaq)
        OBVIOUS
    <2>4. MediaFull => mediaq # <<>>
        BY EndpointAssumption DEF MediaFull
    <2>5. /\ q \in Seq(Message) /\ Below(q, ws.next) /\ Rising(q)
          /\ \A k \in Nat \cup {-1} : Above(mediaq, k) => Above(q, k)
        <3>1. CASE MediaFull
            <4>1. Tail(mediaq) \in Seq(Message)
                BY <1>2, <2>4, <3>1, Queue
            <4> QED
                BY <1>2, <1>3, <2>3, <2>4, <3>1, <4>1, RisingTail
        <3>2. CASE ~MediaFull
            BY <1>2, <1>3, <2>3, <3>2
        <3> QED
            BY <3>1, <3>2
    <2>6. mediaq' = Append(q, m)
        BY <1>1, <1>5, <2>3
    <2>7. /\ Below(mediaq', b.next) /\ Rising(mediaq')
          /\ \A k \in Nat \cup {-1} : k < ws.next /\ Above(mediaq, k) => Above(mediaq', k)
        BY <1>1, <1>2, <2>1, <2>2, <2>5, <2>6, RisingAppend
    <2>8. task.pc # "loop" => task.seq \in 0 .. b.next - 1 /\ Above(mediaq', task.seq)
        BY <1>2, <1>3, <2>2, <2>7
    <2>9. pb.active => pb.sample < b.next /\ Above(mediaq', pb.sample)
        BY <1>2, <1>3, <2>2, <2>7
    <2> QED
        BY <1>1, <1>3, <2>7, <2>8, <2>9 DEF InOrder
<1> QED
    BY <1>4, <1>5

-----------------------------------------------------------------------------
(* The stops in flight, step by step. *)

\* A report of a stop is a report.
LEMMA StopReported ==
    ASSUME NEW q, ~Has(q, Reports)
    PROVE  ~Has(q, StopReports)
BY DEF Has, StopReports

\* A step that moves no stop.
LEMMA StopsStay ==
    ASSUME StopsAgree, UNCHANGED <<dev, playback>>, NoMore(down, down', Stops), NoMore(cmdq, cmdq', Stops),
           NoMore(factq, factq', StopReports), NoMore(up, up', StopReports),
           playback # 0 => rec'[playback].stop = rec[playback].stop /\ rec'[playback].outcome # "failed"
    PROVE  StopsAgree'
BY DEF StopsAgree, NoMore, Running

\* A response is given back only when its stop, if there was one, is reported.
LEMMA FreedStops ==
    ASSUME TypeInv, Life, StopsAgree, Running, Frees
    PROVE  ~Has(down, Stops) /\ ~Has(cmdq, Stops)
<1> DEFINE m == Head(up)
<1>1. up \in Seq(Message) /\ up # <<>> /\ m.type = "ended" /\ m \in Message
    BY Queue DEF Frees, Read, TypeInv, TypeOK, WireTypeOK
<1>2. m \in Reports
    BY <1>1, OtherType DEF Reports
<1>3. Has(up, Reports) /\ m.gen = playback /\ playback # 0
    BY <1>1, <1>2, TailQueue DEF Life, InFlight
<1>4. m.outcome \in Expected(rec[playback])
    BY <1>3 DEF Frees, EndedError
<1>5. CASE rec[playback].stop
    <2>1. m.outcome = "stopped"
        BY <1>3, <1>4, <1>5 DEF Expected, StopsAgree
    <2>2. m \in StopReports
        BY <1>2, <2>1 DEF StopReports
    <2>3. Has(up, StopReports)
        BY <1>1, <2>2, TailQueue
    <2> QED
        BY <2>3 DEF StopsAgree
<1> QED
    BY <1>5 DEF StopsAgree

\* The server's steps.
LEMMA ServerStops ==
    ASSUME TypeInv, Coordinated, Connected, Errands, Life, StopsAgree, Server
    PROVE  StopsAgree'
<1>1. /\ ConnectionNext /\ UNCHANGED <<cmdq, factq, dev>> /\ rec \in [Gens -> Record]
      /\ down \in Seq(Message) /\ up \in Seq(Message) /\ generation \in Nat /\ playback \in Nat /\ nextSeq \in Nat
      /\ (playback # 0 => playback \in Gens) /\ (active # 0 => active = playback)
    BY TypeFacts DEF Server, endpointVars, TypeInv, TypeOK, WireTypeOK, ResponseTypeOK, Coordinated, ActiveHolds
<1> SUFFICES ASSUME Running PROVE StopsAgree'
    BY <1>1 DEF StopsAgree, Running
<1>2. ASSUME playback' = playback, NoMore(down, down', Stops), NoMore(up, up', StopReports),
             playback # 0 => rec'[playback].stop = rec[playback].stop /\ rec'[playback].outcome \in {rec[playback].outcome, "completed"}
      PROVE  StopsAgree'
    <2>1. playback # 0 => rec'[playback].outcome # "failed"
        BY <1>2 DEF StopsAgree
    <2> QED
        BY <1>1, <1>2, <2>1, SameQueue, StopsStay
<1>3. ASSUME NEW m \in Message, m.type # "stop", down' = Append(down, m)
      PROVE  NoMore(down, down', Stops)
    BY <1>1, <1>3, AppendQueue, OtherType DEF Stops
<1>4. ASSUME Reads
      PROVE  NoMore(up, up', StopReports)
    BY <1>1, <1>4, SameQueue, TailQueue DEF Reads
<1>5. CloseMsg \in Message /\ CloseMsg.type # "stop"
    BY <1>1, Messages DEF CloseMsg, Plain
<1>6. CASE Unheard \/ Ignores \/ Answers
    <2>1. playback' = playback /\ rec' = rec /\ (down' = down \/ down' = Append(down, CloseMsg)) /\ Reads
        BY <1>6 DEF Unheard, Ignores, Answers, Reads, Read, responseVars, wireVars
    <2> QED
        BY <1>2, <1>3, <1>4, <1>5, <2>1, SameQueue
<1>7. CASE Hears
    <2>1. playback' = playback /\ down' = down /\ Reads /\ rec' = [rec EXCEPT ![Head(up).gen].started = TRUE]
        BY <1>7 DEF Hears, Reads, Read, PlaybackStarted
    <2>2. playback # 0 => rec'[playback].stop = rec[playback].stop /\ rec'[playback].outcome = rec[playback].outcome
        BY <1>1, <2>1 DEF Record
    <2> QED
        BY <1>2, <1>4, <2>1, <2>2, SameQueue
<1>8. CASE Plays
    <2> DEFINE m == MediaMsg(seg.gen, nextSeq)
    <2>1. seg.gen \in Nat
        BY TypeFacts
    <2>2. m \in Message /\ m.type # "stop"
        BY <1>1, <2>1, Messages DEF MediaMsg, Plain
    <2>3. /\ playback' = playback /\ down' = Append(down, m) /\ Reads
          /\ rec' = [rec EXCEPT ![seg.gen].first = IF @ = None THEN nextSeq ELSE @, ![seg.gen].last = nextSeq]
        BY <1>8 DEF Plays, NoteMedia, Send, Reads
    <2> HIDE DEF m
    <2>4. playback # 0 => rec'[playback].stop = rec[playback].stop /\ rec'[playback].outcome = rec[playback].outcome
        BY <1>1, <2>3 DEF Record
    <2> QED
        BY <1>2, <1>3, <1>4, <2>2, <2>3, <2>4
<1>9. CASE Completes
    <2> DEFINE m == EndMsg(active, "completed", rec[active].last)
    <2>1. /\ active = playback /\ rec'[active] = [rec[active] EXCEPT !.outcome = "completed"] /\ playback' = playback
          /\ active \in Gens
        BY <1>9, CompleteRecord DEF Completes
    <2>2. active \in Nat /\ rec[active] \in Record /\ rec[active].last \in Nat \cup {-1}
        BY <2>1, TypeFacts DEF Record, MediaSeq, None
    <2>3. m \in Message /\ m.type # "stop" /\ down' = Append(down, m) /\ Reads
        BY <1>9, <2>2, Messages DEF Completes, Send, Reads, EndMsg, Plain
    <2> HIDE DEF m
    <2>4. rec'[playback].stop = rec[playback].stop /\ rec'[playback].outcome = "completed"
        BY <2>1, <2>2 DEF Record
    <2> QED
        BY <1>2, <1>3, <1>4, <2>1, <2>3, <2>4
<1>10. CASE Closes
    <2>1. Reads /\ playback' = playback /\ rec' = rec /\ down' = Append(down, CloseMsg)
        BY <1>10 DEF Closes, Close, CloseState
    <2> QED
        BY <1>2, <1>3, <1>4, <1>5, <2>1
<1>11. ASSUME NEW p \in Owners, EffectSend(p)
       PROVE  StopsAgree'
    <2> DEFINE m == Head(eff[p].todo)
    <2>1. down' = Append(down, m) /\ m \in Message /\ UNCHANGED <<responseVars, up>>
          /\ (m = CloseMsg \/ m = Cancelled(eff[p].gen))
        BY <1>11, NextErrand
    <2>2. m.type # "stop"
        BY <2>1 DEF Cancelled, EndMsg, CloseMsg, Plain
    <2> HIDE DEF m
    <2> QED
        BY <1>2, <1>3, <1>4, <2>1, <2>2 DEF responseVars, Reads
<1>12. CASE Fences
    <2>1. PICK p \in Owners, more \in {<<>>, <<CloseMsg>>}, b \in BOOLEAN : ApplyFence(p, playback, more, b)
        BY <1>12 DEF Fences
    <2> DEFINE m == StopMsg(playback, generation + 1)
    <2>2. down' = Append(down, m) /\ m \in Message
        BY <2>1, FenceMessages
    <2>3. m.type = "stop" /\ m.gen = playback
        BY DEF StopMsg, Plain
    <2>4. /\ playback \in Gens /\ ~rec[playback].stop /\ playback' = playback
          /\ rec'[playback] = [rec[playback] EXCEPT !.stop = TRUE,
                                 !.outcome = IF playback = active THEN "cancelled" ELSE @]
        BY <2>1, FenceRecord
    <2>5. playback # 0 /\ rec[playback] \in Record
        BY <2>4, TypeFacts
    <2>6. rec'[playback].stop /\ rec'[playback].outcome # "failed"
        BY <2>4, <2>5 DEF Record, StopsAgree
    <2>7. ~Has(down, Stops) /\ ~Has(cmdq, Stops) /\ ~Has(factq, StopReports) /\ ~Has(up, StopReports)
        BY <2>4 DEF StopsAgree
    <2>8. ~Has(up', StopReports)
        <3>1. Reads
            BY <1>12 DEF Fences, Reads
        <3> QED
            BY <1>4, <2>7, <3>1 DEF NoMore
    <2> HIDE DEF m
    <2>9. Once(down', Stops) /\ Names(down', Stops, playback)
        BY <1>1, <2>2, <2>3, <2>7, NoneIn, AppendQueue
    <2> QED
        BY <1>1, <2>4, <2>5, <2>6, <2>7, <2>8, <2>9, NoneIn DEF StopsAgree
<1>13. CASE Begins
    <2> DEFINE g == generation + 1
               m == BeginMsg(g)
    <2>1. PICK e \in Nat \ {0} : Begin(e) /\ Send(m)
        BY <1>13 DEF Begins
    <2>2. playback = 0 /\ playback' = g /\ up' = up /\ down' = Append(down, m) /\ rec' = [rec EXCEPT ![g] = NewRecord(e)]
        BY <2>1 DEF Begin, BeginFresh, Send
    <2>3. m \in Message /\ m.type # "stop"
        <3>1. g \in Nat /\ nextSeq \in Nat \cup {-1}
            BY <1>1
        <3>2. m \in Message
            BY <3>1, Messages
        <3> QED
            BY <3>2 DEF BeginMsg, Plain
    <2>4. g \in Gens
        BY <1>1, <2>1, ResponseAssumption DEF Begin, Gens
    <2> HIDE DEF m
    <2>5. NoMore(down, down', Stops)
        BY <1>3, <2>2, <2>3
    <2>6. ~Has(down, Stops) /\ ~Has(cmdq, Stops) /\ ~Has(factq, StopReports) /\ ~Has(up, StopReports)
        BY <2>2 DEF StopsAgree
    <2>7. ~Has(down', Stops)
        BY <2>5, <2>6 DEF NoMore
    <2>8. rec'[g].outcome # "failed"
        BY <1>1, <2>2, <2>4 DEF NewRecord
    <2> QED
        BY <1>1, <2>2, <2>6, <2>7, <2>8, NoneIn DEF StopsAgree
<1>14. CASE Frees
    <2>1. up # <<>> /\ up' = Tail(up) /\ Head(up).type = "ended" /\ playback' = 0 /\ down' = down
        BY <1>14 DEF Frees, Read, PlaybackEnded
    <2>2. Head(up) \in Reports
        BY <1>1, <2>1, Queue, OtherType DEF Reports
    <2>3. Has(up, Reports) /\ ~Has(up', Reports)
        BY <1>1, <2>1, <2>2, TailQueue DEF Life
    <2>4. ~Has(factq, Reports)
        BY <2>3 DEF Life, OneOf
    <2>5. ~Has(down, Stops) /\ ~Has(cmdq, Stops)
        BY <1>14, FreedStops
    <2> QED
        BY <1>1, <2>1, <2>3, <2>4, <2>5, NoneIn, StopReported DEF StopsAgree
<1> QED
    BY <1>1, <1>6, <1>7, <1>8, <1>9, <1>10, <1>11, <1>12, <1>13, <1>14, ServerKinds

\* The supervisor's steps.
LEMMA SupervisorStops ==
    ASSUME TypeInv, Stream, Commands, StopsAgree, UNCHANGED <<responseVars, connectionVars>>,
           \/ ReceiveBegin \/ ReceiveEnd \/ ReceiveStop \/ ReceiveMedia \/ ReceiveClose
           \/ SendFact \/ StopDevice \/ Disconnect \/ CancelRequest
    PROVE  StopsAgree'
<1>1. /\ ws.gen \in Nat /\ UNCHANGED <<playback, rec>>
      /\ down \in Seq(Message) /\ up \in Seq(Message) /\ cmdq \in Seq(Message) /\ factq \in Seq(Message)
    BY EndpointTypes DEF responseVars
<1>2. CASE ReceiveBegin \/ ReceiveEnd \/ ReceiveStop \/ ReceiveMedia
    <2> DEFINE m == Head(down)
    <2>1. /\ m \in Message /\ dev' = dev /\ UNCHANGED <<factq, up>> /\ down # <<>> /\ down' = Tail(down) /\ Running
          /\ cmdq' = (IF Commanded(m) THEN Append(cmdq, m) ELSE cmdq)
        BY <1>2, Admits
    <2>2. m \in Stops <=> m.type = "stop"
        BY <2>1, OtherType DEF Stops
    <2>3. NoMore(down, down', Stops)
        BY <1>1, <2>1, TailQueue
    <2>4. CASE m.type # "stop"
        <3>1. NoMore(cmdq, cmdq', Stops)
            BY <1>1, <2>1, <2>2, <2>4, AppendQueue, SameQueue
        <3> QED
            BY <1>1, <2>1, <2>3, <3>1, SameQueue, StopsStay DEF StopsAgree
    <2>5. CASE m.type = "stop"
        <3>1. cmdq' = Append(cmdq, m)
            BY <2>1, <2>5 DEF Commanded
        <3>2. Has(down, Stops) /\ ~Has(down', Stops)
            BY <1>1, <2>1, <2>2, <2>5, TailQueue DEF StopsAgree
        <3>3. /\ playback # 0 /\ rec[playback].stop /\ ~Has(cmdq, Stops)
              /\ ~Has(factq, StopReports) /\ ~Has(up, StopReports)
            BY <2>1, <3>2 DEF StopsAgree
        <3>4. Once(cmdq', Stops)
            BY <1>1, <2>1, <3>1, <3>3, NoneIn, AppendQueue
        <3> QED
            BY <1>1, <2>1, <3>2, <3>3, <3>4, NoneIn DEF StopsAgree
    <2> QED
        BY <2>4, <2>5
<1>3. CASE ReceiveClose \/ StopDevice \/ Disconnect
    <2>1. dev' # "running"
        BY <1>3 DEF ReceiveClose, StopDevice, Disconnect
    <2> QED
        BY <2>1 DEF StopsAgree, Running
<1>4. CASE CancelRequest
    <2> DEFINE m == CancelMsg(ws.gen, ws.gen)
    <2>1. up' = Append(up, m) /\ UNCHANGED <<down, cmdq, factq, dev>>
        BY <1>4 DEF CancelRequest, endpointVars
    <2>2. m \in Message
        BY <1>1, Messages
    <2>3. m.type # "ended"
        BY DEF CancelMsg, Plain
    <2> HIDE DEF m
    <2>4. m \notin StopReports
        BY <2>2, <2>3 DEF StopReports, Reports, Of
    <2>5. NoMore(up, up', StopReports)
        BY <1>1, <2>1, <2>2, <2>4, AppendQueue
    <2> QED
        BY <1>1, <2>1, <2>5, SameQueue, StopsStay DEF StopsAgree, Running
<1>5. CASE SendFact
    <2> DEFINE m == Head(factq)
    <2>1. factq # <<>> /\ factq' = Tail(factq) /\ up' = Append(up, m) /\ UNCHANGED <<down, cmdq, dev>>
        BY <1>5 DEF SendFact
    <2>2. m \in Message
        BY <1>1, <2>1, Queue
    <2>3. /\ Has(factq', StopReports) \/ Has(up', StopReports) => Has(factq, StopReports) \/ Has(up, StopReports)
        BY <1>1, <2>1, <2>2, TailQueue, AppendQueue
    <2> QED
        BY <1>1, <2>1, <2>3 DEF StopsAgree, Running
<1> QED
    BY <1>2, <1>3, <1>4, <1>5

\* The playback task reports a stop only when it takes one.
LEMMA TaskStops ==
    ASSUME TypeInv, TypeInv', StopsAgree, UNCHANGED <<playback, rec>>,
           \/ ProcessCommand \/ Observe \/ TakeMedia \/ Gate \/ WriteChunk \/ BreakOff \/ PlaybackFault
    PROVE  StopsAgree'
<1> SUFFICES ASSUME Running' PROVE StopsAgree'
    BY DEF StopsAgree
<1>1. /\ pb \in PlayState /\ pb.degraded \in BOOLEAN /\ pb.gen \in Nat /\ task.seq \in Nat \cup {-1} /\ EndpointTypeOK
      /\ cmdq \in Seq(Message) /\ factq \in Seq(Message)
    BY EndpointTypes DEF TypeInv, TypeOK, PlayState
<1>2. Running /\ dev' = dev /\ UNCHANGED <<down, up>>
    BY DEF ProcessCommand, Observe, TakeMedia, Gate, WriteChunk, BreakOff, PlaybackFault, Running, wireVars
<1>3. ASSUME NEW o \in {"completed", "stopped", "failed"}
      PROVE  EndFact(o) \in Message /\ EndFact(o).outcome = o
    BY <1>1, <1>3, EndTypes DEF EndFact, EndedMsg, Plain
<1>4. ASSUME NEW o \in {"completed", "failed"}, factq' = Append(factq, EndFact(o))
      PROVE  NoMore(factq, factq', StopReports)
    <2>1. EndFact(o) \in Message /\ EndFact(o) \notin StopReports
        BY <1>3 DEF StopReports
    <2> QED
        BY <1>1, <1>4, <2>1, AppendQueue
<1>5. ASSUME NoMore(factq, factq', StopReports), NoMore(cmdq, cmdq', Stops)
      PROVE  StopsAgree'
    BY <1>2, <1>5, SameQueue, StopsStay DEF StopsAgree
<1>6. CASE ProcessCommand
    <2> DEFINE c == Head(cmdq)
    <2>1. /\ cmdq # <<>> /\ cmdq' = Tail(cmdq) /\ c \in Message
          /\ (c.type = "begin" /\ DoBegin(c)) \/ (c.type = "end" /\ DoComplete(c)) \/ (c.type = "stop" /\ DoStop(c))
        BY <1>1, <1>6, Queue DEF ProcessCommand
    <2>2. NoMore(cmdq, cmdq', Stops)
        BY <1>1, <2>1, TailQueue
    <2>3. ~Refuse
        BY <1>2 DEF Refuse, Running
    <2>4. CASE c.type # "stop"
        <3>1. factq' = factq \/ \E o \in {"completed", "failed"} : factq' = Append(factq, EndFact(o))
            BY <2>1, <2>3, <2>4 DEF DoBegin, DoComplete
        <3> QED
            BY <1>4, <1>5, <2>2, <3>1, SameQueue
    <2>5. CASE c.type = "stop"
        <3>1. factq' = factq \/ factq' = Append(factq, EndFact("stopped"))
            BY <2>1, <2>3, <2>5 DEF DoStop
        <3>2. c \in Stops
            BY <2>1, <2>5, OtherType DEF Stops
        <3>3. Has(cmdq, Stops) /\ ~Has(cmdq', Stops)
            BY <1>1, <1>2, <2>1, <3>2, TailQueue DEF StopsAgree
        <3> QED
            BY <1>2, <3>3, NoneIn DEF StopsAgree
    <2> QED
        BY <2>4, <2>5
<1>7. CASE WriteChunk
    <2>1. PICK s, e : /\ factq' = (factq \o s) \o e /\ cmdq' = cmdq
                      /\ s \in {<<>>, <<StartedMsg(pb.gen, task.seq)>>}
                      /\ e = <<>> \/ \E o \in {"completed", "failed"} : e = <<EndedMsg(pb.gen, o, TRUE, task.seq)>>
        BY <1>2, <1>7 DEF WriteChunk, Running
    <2>2. ASSUME NEW m \in Message, m.outcome # "stopped"
          PROVE  <<m>> \in Seq(Message) /\ ~Has(<<m>>, StopReports)
        BY <2>2 DEF Has, StopReports
    <2>3. s \in Seq(Message) /\ ~Has(s, StopReports)
        <3>1. StartedMsg(pb.gen, task.seq) \in Message /\ StartedMsg(pb.gen, task.seq).outcome # "stopped"
            <4>1. StartedMsg(pb.gen, task.seq) \in Message
                BY <1>1, Messages
            <4> QED
                BY <4>1 DEF StartedMsg, Plain
        <3>2. <<>> \in Seq(Message) /\ ~Has(<<>>, StopReports)
            BY DEF Has
        <3> QED
            BY <2>1, <2>2, <3>1, <3>2
    <2>4. e \in Seq(Message) /\ ~Has(e, StopReports)
        <3>1. ASSUME NEW o \in {"completed", "failed"}
              PROVE  EndedMsg(pb.gen, o, TRUE, task.seq) \in Message /\ EndedMsg(pb.gen, o, TRUE, task.seq).outcome # "stopped"
            <4>1. EndedMsg(pb.gen, o, TRUE, task.seq) \in Message
                BY <1>1, <3>1, Messages
            <4> QED
                BY <3>1, <4>1 DEF EndedMsg, Plain
        <3>2. <<>> \in Seq(Message) /\ ~Has(<<>>, StopReports)
            BY DEF Has
        <3>3. CASE e = <<>>
            BY <3>2, <3>3
        <3>4. ASSUME NEW o \in {"completed", "failed"}, e = <<EndedMsg(pb.gen, o, TRUE, task.seq)>>
              PROVE  e \in Seq(Message) /\ ~Has(e, StopReports)
            <4> DEFINE m == EndedMsg(pb.gen, o, TRUE, task.seq)
            <4>1. m \in Message /\ m.outcome # "stopped" /\ e = <<m>>
                BY <3>1, <3>4
            <4> HIDE DEF m
            <4> QED
                BY <2>2, <4>1
        <3> QED
            BY <2>1, <3>3, <3>4
    <2>5. factq \o s \in Seq(Message) /\ (Has(factq \o s, StopReports) <=> Has(factq, StopReports))
        BY <1>1, <2>3, Queue, JoinQueue
    <2>6. Has(factq', StopReports) <=> Has(factq, StopReports)
        BY <2>1, <2>4, <2>5, JoinQueue
    <2> QED
        BY <1>2, <2>1, <2>6 DEF StopsAgree
<1>8. CASE Observe \/ TakeMedia \/ Gate \/ BreakOff
    <2>1. UNCHANGED <<cmdq, factq>>
        BY <1>8 DEF Observe, TakeMedia, Gate, BreakOff
    <2> QED
        BY <1>5, <2>1, SameQueue
<1>9. ~PlaybackFault
    BY <1>2 DEF PlaybackFault, Running
<1> QED
    BY <1>6, <1>7, <1>8, <1>9

-----------------------------------------------------------------------------
(* EndpointAccepts. *)

\* A response that is given back leaves the endpoint idle.
LEMMA FreedIdle ==
    ASSUME TypeInv, Life, StopsAgree, Commands, Running, Frees
    PROVE  Idle
<1>1. cmdq \in Seq(Message) /\ up \in Seq(Message) /\ ws \in WssState
    BY EndpointTypes
<1>2. up # <<>> /\ Head(up) \in Reports
    BY <1>1, Queue, OtherType DEF Frees, Read, Reports
<1>3. Has(up, Reports)
    BY <1>1, <1>2, TailQueue
<1>4. ~pb.active /\ ~Has(cmdq, Openings) /\ ~Has(cmdq, Stops)
    BY <1>3, FreedStops DEF Life, OneOf
<1>5. ~Begun
    <2> SUFFICES ASSUME cmdq # <<>>, Head(cmdq) = BeginMsg(ws.gen) PROVE FALSE
        BY DEF Begun
    <2>1. Head(cmdq) \in Openings
        BY <1>1, CommandMessages, OtherType DEF Openings
    <2> QED
        BY <1>1, <1>4, <2>1, TailQueue
<1>6. ~Crossed
    <2> SUFFICES ASSUME cmdq = <<StopCmd(ws)>> PROVE FALSE
        BY DEF Crossed
    <2>1. StopCmd(ws) \in Stops /\ StopCmd(ws) \in Message
        BY <1>1, CommandMessages, OtherType DEF Stops
    <2>2. cmdq # <<>> /\ Head(cmdq) \in Stops
        BY <2>1, Tuple1
    <2> QED
        BY <1>1, <1>4, <2>2, TailQueue
<1>7. ~Going /\ ~Ending
    BY <1>4 DEF Going, Ending, Playing
<1> QED
    BY <1>5, <1>6, <1>7 DEF Commands

\* A response takes an idle endpoint and leaves it idle.
LEMMA ServerCommands ==
    ASSUME TypeInv, Coordinated, Connected, Errands, Life, StopsAgree, Commands, Server
    PROVE  Commands'
<1>1. /\ ConnectionNext /\ UNCHANGED <<ws, gateGen, cmdq, pb, dev>> /\ cmdq \in Seq(Message) /\ up \in Seq(Message)
      /\ ws \in WssState
    BY EndpointTypes DEF Server, endpointVars
<1> SUFFICES ASSUME Running PROVE Commands'
    BY <1>1 DEF Commands, Running
<1>2. CASE playback' = playback
    BY <1>1, <1>2 DEF Commands, Idle, Begun, Going, Ending, Crossed, Playing
<1>3. CASE Idle
    BY <1>1, <1>3 DEF Commands, Idle
<1>4. CASE Begins
    <2>1. playback = 0
        BY <1>4 DEF Begins, Begin, BeginFresh
    <2> QED
        BY <1>3, <2>1 DEF Commands
<1>5. CASE Frees
    BY <1>3, <1>5, FreedIdle
<1>6. CASE Unheard \/ Plays \/ Completes \/ Fences \/ Closes \/ Hears \/ Ignores \/ Answers
    <2>1. playback' = playback
        BY <1>6 DEF Unheard, Plays, Completes, Fences, Closes, Hears, Ignores, Answers, responseVars, NoteMedia, Complete,
                    ApplyFence, Fence, Close, CloseState, PlaybackStarted
    <2> QED
        BY <1>2, <2>1
<1>7. ASSUME NEW p \in Owners, EffectSend(p)
      PROVE  playback' = playback
    BY <1>7 DEF EffectSend, responseVars
<1> QED
    BY <1>1, <1>2, <1>4, <1>5, <1>6, <1>7, ServerKinds

\* The account of the commands, the stops and the audio, all together.
Accounts == Dues /\ Stream /\ Commands /\ StopsAgree /\ InOrder

\* The supervisor's steps.
LEMMA SupervisorAccounts ==
    ASSUME TypeInv, TypeInv', Life, Accounts, UNCHANGED <<responseVars, connectionVars>>,
           \/ ReceiveBegin \/ ReceiveEnd \/ ReceiveStop \/ ReceiveMedia \/ ReceiveClose
           \/ SendFact \/ StopDevice \/ Disconnect \/ CancelRequest
    PROVE  Accounts' /\ (UNCHANGED <<dev, ws, pb>> \/ (dev' = dev /\ Running) \/ (Running /\ Stopping))
<1> USE DEF Accounts
<1>1. Dues'
    BY DEF Dues, Due, responseVars, connectionVars
<1>2. StopsAgree'
    BY SupervisorStops
<1>3. CASE ReceiveBegin \/ ReceiveEnd \/ ReceiveStop \/ ReceiveMedia
    <2>1. Stream' /\ Running /\ dev' = dev
        BY <1>3, Admits
    <2>2. Commands' /\ InOrder'
        BY <1>3, AdmitCommands, AdmitOrder
    <2> QED
        BY <1>1, <1>2, <2>1, <2>2
<1>4. CASE ReceiveClose \/ StopDevice
    <2>1. Running /\ dev' \in {"closed", "stopped"}
        BY <1>4 DEF ReceiveClose, StopDevice, Take, Running
    <2> QED
        BY <1>1, <1>2, <2>1 DEF Stream, Commands, InOrder, Running, Stopping
<1>5. CASE SendFact \/ Disconnect \/ CancelRequest
    <2>1. UNCHANGED <<dev, ws, pb, gateGen, cmdq, mediaq, task, down>>
        BY <1>5 DEF SendFact, Disconnect, CancelRequest, endpointVars
    <2>2. UNCHANGED <<playback, active, generation, rec, nextSeq, eff, status>>
        BY DEF responseVars, connectionVars
    <2>3. Stream'
        BY <2>1, <2>2 DEF Stream, Running, Sent, Due, Open
    <2>4. Commands'
        BY <2>1, <2>2 DEF Commands, Idle, Begun, Going, Ending, Crossed, Playing, Running
    <2>5. InOrder'
        BY <2>1 DEF InOrder, Running
    <2> QED
        BY <1>1, <1>2, <2>1, <2>3, <2>4, <2>5
<1> QED
    BY <1>3, <1>4, <1>5

\* The playback task's steps.
LEMMA TaskAccounts ==
    ASSUME TypeInv, TypeInv', Accounts, UNCHANGED <<responseVars, connectionVars>>,
           \/ ProcessCommand \/ Observe \/ TakeMedia \/ Gate \/ WriteChunk \/ BreakOff \/ PlaybackFault
    PROVE  Accounts' /\ Running /\ (dev' = dev \/ Stopping)
<1> USE DEF Accounts
<1>1. Dues'
    BY DEF Dues, Due, responseVars, connectionVars
<1>2. UNCHANGED <<playback, active, generation, rec, nextSeq, eff, status>>
    BY DEF responseVars, connectionVars
<1>3. StopsAgree'
    BY <1>2, TaskStops
<1>4. UNCHANGED <<ws, down>> /\ Running
    BY DEF ProcessCommand, Observe, TakeMedia, Gate, WriteChunk, BreakOff, PlaybackFault, supervisorVars, wireVars, Running
<1>5. Stream'
    BY <1>2, <1>4 DEF Stream, Running, Sent, Due, Open
<1>6. CASE ProcessCommand
    BY <1>1, <1>2, <1>3, <1>4, <1>5, <1>6, CommandKept
<1>7. CASE Observe \/ TakeMedia \/ Gate \/ BreakOff
    BY <1>1, <1>2, <1>3, <1>4, <1>5, <1>7, LoopKept
<1>8. CASE WriteChunk
    BY <1>1, <1>2, <1>3, <1>4, <1>5, <1>8, WriteKept
<1>9. CASE PlaybackFault
    <2>1. dev' = "playback_write"
        BY <1>9 DEF PlaybackFault
    <2> QED
        BY <1>1, <1>3, <1>4, <1>5, <2>1 DEF Commands, InOrder, Running, Stopping
<1> QED
    BY <1>6, <1>7, <1>8, <1>9

\* The accounts hold of every behaviour, and with them EndpointAccepts.
THEOREM AccountsCorrect == Prompt => (Spec => [](Accounts /\ EndpointAccepts))
<1> SUFFICES ASSUME Prompt PROVE Spec => [](Accounts /\ EndpointAccepts)
    OBVIOUS
<1>1. Init => Accounts /\ EndpointAccepts
    <2> SUFFICES ASSUME Init PROVE Accounts /\ EndpointAccepts
        OBVIOUS
    <2>1. /\ down = <<>> /\ up = <<>> /\ cmdq = <<>> /\ factq = <<>> /\ mediaq = <<>> /\ task.pc = "loop" /\ gateGen = 0
          /\ ~pb.active /\ pb.fence = 0 /\ pb.gen = 0 /\ dev = "running"
          /\ ws = [response |-> FALSE, media |-> FALSE, gen |-> 0, fence |-> 0, stop |-> 0, next |-> 0]
          /\ playback = 0 /\ active = 0 /\ generation = 0 /\ nextSeq = 0 /\ \A p \in Owners : eff[p].todo = <<>>
        BY DEF Init, WireInit, EndpointInit, ResponseInit, ConnectionInit, NoTask, NoEffect
    <2>2. Dues
        BY <2>1 DEF Dues, Due
    <2>3. Stream
        <3> DEFINE w == <<ws>>
        <3>1. ws \in WssState
            BY <2>1 DEF WssState
        <3>2. Sent(ws)
            BY <2>1 DEF Sent, Due
        <3>3. w \in Seq(WssState) /\ Len(w) = 1 /\ w[1] = ws /\ Len(down) = 0
            BY <2>1, <3>1
        <3> HIDE DEF w
        <3>4. Run(w, down) /\ w[1] = ws /\ Sent(w[Len(w)])
            BY <3>2, <3>3 DEF Run
        <3> QED
            BY <3>4 DEF Stream
    <2>4. Commands
        BY <2>1 DEF Commands, Ordered, Idle
    <2>5. StopsAgree
        <3>1. \A S : ~Has(<<>>, S) /\ Once(<<>>, S) /\ \A g : Names(<<>>, S, g)
            BY DEF Has, Once, Names
        <3> QED
            BY <2>1, <3>1 DEF StopsAgree
    <2>6. InOrder
        BY <2>1, RisingEmpty DEF InOrder
    <2> QED
        BY <2>1, <2>2, <2>3, <2>4, <2>5, <2>6 DEF Accounts, EndpointAccepts
<1>2. TypeInv /\ TypeInv' /\ Coordinated /\ Connected /\ Errands /\ Life /\ Accounts /\ EndpointAccepts /\ [Next]_vars
      => Accounts' /\ EndpointAccepts'
    <2> SUFFICES ASSUME TypeInv, TypeInv', Coordinated, Connected, Errands, Life, Accounts, EndpointAccepts, [Next]_vars
                 PROVE  Accounts' /\ EndpointAccepts'
        OBVIOUS
    <2> USE DEF Accounts
    <2>1. ASSUME UNCHANGED <<dev, ws, pb>> \/ (dev' = dev /\ Running) \/ (Running /\ Stopping)
          PROVE  EndpointAccepts'
        BY <2>1 DEF EndpointAccepts, Stopping, Running
    <2>2. CASE Server
        <3>1. ConnectionNext /\ UNCHANGED endpointVars
            BY <2>2 DEF Server
        <3>2. Open
            BY <3>1, ServerOpen
        <3>3. Dues' /\ Stream'
            BY <2>2, <3>1, <3>2, DuesKept, ServerStream
        <3>4. Commands' /\ StopsAgree'
            BY <2>2, ServerCommands, ServerStops
        <3>5. UNCHANGED <<dev, ws, pb, mediaq, task>>
            BY <3>1 DEF endpointVars
        <3>6. InOrder'
            BY <3>5 DEF InOrder, Running
        <3> QED
            BY <2>1, <3>3, <3>4, <3>5, <3>6
    <2>3. CASE Endpoint
        <3>1. UNCHANGED <<responseVars, connectionVars>>
            BY <2>3 DEF Endpoint
        <3>2. CASE \/ ReceiveBegin \/ ReceiveEnd \/ ReceiveStop \/ ReceiveMedia \/ ReceiveClose
                   \/ SendFact \/ StopDevice \/ Disconnect \/ CancelRequest
            BY <2>1, <3>1, <3>2, SupervisorAccounts
        <3>3. CASE ProcessCommand \/ Observe \/ TakeMedia \/ Gate \/ WriteChunk \/ BreakOff \/ PlaybackFault
            BY <2>1, <3>1, <3>3, TaskAccounts
        <3> QED
            BY <2>3, <3>2, <3>3 DEF Endpoint, EndpointNext, UserCancel
    <2>4. CASE UNCHANGED vars
        <3>1. UNCHANGED <<dev, ws, pb, mediaq, task, cmdq, gateGen, factq, down, up, playback, active, generation, rec, nextSeq,
                          eff, status>>
            BY <2>4 DEF vars, endpointVars, wireVars, responseVars, connectionVars
        <3>2. Dues' /\ Stream'
            BY <3>1 DEF Dues, Due, Stream, Running, Sent, Open
        <3>3. Commands'
            BY <3>1 DEF Commands, Idle, Begun, Going, Ending, Crossed, Playing, Running
        <3>4. StopsAgree' /\ InOrder'
            BY <3>1 DEF StopsAgree, InOrder, Running
        <3> QED
            BY <2>1, <3>1, <3>2, <3>3, <3>4
    <2> QED
        BY <2>2, <2>3, <2>4 DEF Next, Finished
<1> QED
    BY <1>1, <1>2, TypeInvariant, CoordinationCorrect, FlightCorrect, PTL DEF Spec

\* Nothing the server sends makes the firmware give up, except a stop that
\* crossed the end of its playback: WssSession admits every frame, and
\* PlaybackState every command and every packet, in the order they come.
THEOREM EndpointCorrect == Prompt => (Spec => []EndpointAccepts)
<1> SUFFICES ASSUME Prompt PROVE Spec => []EndpointAccepts
    OBVIOUS
<1> QED
    BY AccountsCorrect, PTL

-----------------------------------------------------------------------------
(* The epochs of the segment queue. *)

\* Nobody is interrupting the agent, nor about to.
Calm == intr = {} /\ \A p \in Owners : eff[p].on => eff[p].gen = 0

\* Nothing holds the slot but the response of the producer's own epoch.
Owned == playback # 0 => active # 0 /\ rec[active].epoch = prod.epoch

\* A queued segment that will be sent is of the speech under way, which owes its
\* playback end and may begin or continue its response; a queued end of that
\* epoch is the one the output waits for.
Fitting ==
    {s \in QueueItem :
        /\ s.epoch <= prod.epoch
        /\ s.kind = "segment" => s.left > 0
        /\ s.kind = "segment" /\ s.epoch >= minEpoch =>
             s.epoch = prod.epoch /\ prod.st # "idle" /\ prod.owed /\ ~prod.cut /\ Calm /\ Owned
        /\ s.kind = "end" /\ s.epoch = prod.epoch => prod.st = "waiting" /\ prod.wait = prod.epoch}

\* Every queued item fits.
QueueFits == \A i \in DOMAIN segq : segq[i] \in Fitting

\* The end of the epoch is behind all its segments.
EndLast ==
    \A i, j \in DOMAIN segq : segq[i].kind = "end" /\ segq[i].epoch = prod.epoch
                                /\ segq[j].kind = "segment" /\ segq[j].epoch = prod.epoch => j < i

\* A speech whose segments will be queued finds the slot its own.
SpeechFits ==
    prod.st = "speaking" /\ ~prod.cut /\ prod.epoch >= minEpoch => Calm /\ Owned /\ (prod.captured > 0 => prod.owed)

\* The active response is that of the producer's epoch, uncut.
ActiveFits == active # 0 => Calm /\ rec[active].epoch = prod.epoch /\ prod.epoch >= minEpoch /\ ~prod.cut

\* The output waits for the slot's playback to end.
SlotOwed == playback # 0 => prod.owed /\ prod.st # "idle"

\* An effect under way is a fence of the slot's response or a close.
EffectsFit ==
    \A p \in Owners : /\ ~eff[p].on => eff[p].gen = 0
                      /\ eff[p].on /\ eff[p].gen = 0 => eff[p].close
                      /\ eff[p].gen # 0 => playback = eff[p].gen

\* An interrupt that waits has cut the current speech.
CutsFit == \A i \in intr : i.pc = "wait" => i.speech = prod.speech /\ (prod.st = "speaking" => prod.cut)

\* A response without a packet has the segment loop at its first one.
LoopFits ==
    /\ changed => seg.pc = "send"
    /\ active # 0 /\ rec[active].first = None =>
         /\ seg.pc \in {"begin", "packet", "send"} /\ seg.gen = active /\ seg.left > 0 /\ ~changed
         /\ seg.epoch = rec[active].epoch

\* The epochs of the producer, the queue, the segment loop and the slot agree.
Epochs ==
    Open => /\ QueueFits /\ EndLast /\ SpeechFits /\ ActiveFits /\ SlotOwed
            /\ EffectsFit /\ CutsFit /\ LoopFits

\* The items of a queue that loses its head.
LEMMA TailItems ==
    ASSUME NEW S, NEW q \in Seq(S), q # <<>>
    PROVE  /\ 1 \in DOMAIN q /\ Head(q) = q[1]
           /\ \A i \in DOMAIN Tail(q) : i \in Nat /\ i + 1 \in DOMAIN q /\ i + 1 # 1 /\ Tail(q)[i] = q[i + 1]
<1> DEFINE n == Len(q)
<1>1. n \in Nat /\ n > 0 /\ DOMAIN q = 1 .. n /\ DOMAIN Tail(q) = 1 .. n - 1
      /\ \A i \in 1 .. n - 1 : Tail(q)[i] = q[i + 1]
    OBVIOUS
<1>2. Head(q) = q[1]
    OBVIOUS
<1> QED
    BY <1>1, <1>2

\* The items of a queue that gains x.
LEMMA AppendItems ==
    ASSUME NEW S, NEW q \in Seq(S), NEW x \in S
    PROVE  \A i \in DOMAIN Append(q, x) : \/ i \in DOMAIN q /\ Append(q, x)[i] = q[i]
                                          \/ i \notin DOMAIN q /\ Append(q, x)[i] = x /\ \A j \in DOMAIN q : j < i
OBVIOUS

\* What the types say.
LEMMA EpochTypes ==
    ASSUME TypeInv
    PROVE  /\ prod \in Producer /\ segq \in Seq(QueueItem) /\ seg \in SegmentLoop /\ eff \in [Owners -> Effect]
           /\ minEpoch \in Nat /\ prod.epoch \in Nat /\ prod.wait \in Nat /\ prod.captured \in Nat /\ prod.speech \in Nat
           /\ prod.owed \in BOOLEAN /\ prod.cut \in BOOLEAN
           /\ \A i \in DOMAIN segq : segq[i] \in QueueItem /\ segq[i].epoch \in Nat /\ segq[i].left \in Nat
                                       /\ segq[i].kind \in {"segment", "end"}
<1>1. ConnectionTypeOK
    BY DEF TypeInv, TypeOK
<1>2. \A i \in DOMAIN segq : segq[i] \in QueueItem
    BY <1>1 DEF ConnectionTypeOK
<1>3. \A s \in QueueItem : s.epoch \in Nat /\ s.left \in Nat /\ s.kind \in {"segment", "end"}
    BY DEF QueueItem
<1>4. \A r \in Producer : r.epoch \in Nat /\ r.wait \in Nat /\ r.captured \in Nat /\ r.speech \in Nat
                            /\ r.owed \in BOOLEAN /\ r.cut \in BOOLEAN
    BY DEF Producer
<1> QED
    BY <1>1, <1>2, <1>3, <1>4 DEF ConnectionTypeOK

\* No segment is live while the slot's response is not the epoch's own, or somebody interrupts.
LEMMA NoneLive ==
    ASSUME TypeInv, Open, Epochs, ~Calm \/ ~Owned \/ ~prod.owed \/ prod.cut \/ prod.st = "idle"
    PROVE  /\ \A i \in DOMAIN segq : segq[i].kind = "segment" => segq[i].epoch < minEpoch
           /\ ~Calm \/ ~Owned => ~(prod.st = "speaking" /\ ~prod.cut /\ prod.epoch >= minEpoch)
           /\ ~Calm \/ ~Owned \/ ~prod.owed \/ prod.cut \/ prod.st = "idle" => active = 0 \/ (active # playback)
<1>1. \A i \in DOMAIN segq : segq[i].kind = "segment" => segq[i].epoch < minEpoch
    BY EpochTypes DEF Epochs, QueueFits, Fitting
<1>2. ~Calm \/ ~Owned => ~(prod.st = "speaking" /\ ~prod.cut /\ prod.epoch >= minEpoch)
    BY DEF Epochs, SpeechFits
<1> QED
    BY <1>1, <1>2 DEF Epochs, ActiveFits, SlotOwed, Owned

\* The response and the connection's other tasks stay as they are.
EpochFrame ==
    UNCHANGED <<active, playback, rec, minEpoch, seg, changed, eff, intr, status>>

\* The agent's audio output keeps the epochs.
LEMMA AgentEpochs ==
    ASSUME TypeInv, Coordinated, Prompt, Epochs, Open, AgentNext
    PROVE  Epochs'
<1>1. EpochFrame /\ Open
    BY DEF AgentNext, Speak, EndSpeech, CutSpeech, PlayoutDone, EmitSegment, producerFrame, responseVars, EpochFrame
<1>2. /\ prod \in Producer /\ segq \in Seq(QueueItem) /\ minEpoch \in Nat /\ prod.epoch \in Nat /\ prod.wait \in Nat
      /\ prod.captured \in Nat /\ prod.speech \in Nat
    BY EpochTypes
<1>3. \A i \in DOMAIN segq : segq[i].epoch \in Nat /\ segq[i].kind \in {"segment", "end"}
    BY EpochTypes
<1>4. /\ QueueFits /\ EndLast /\ SpeechFits /\ ActiveFits /\ SlotOwed
      /\ EffectsFit /\ CutsFit /\ LoopFits
    BY DEF Epochs
<1>5. (Calm' <=> Calm) /\ EffectsFit' /\ LoopFits' /\ (active # 0 => active = playback)
    BY <1>1, <1>4 DEF EpochFrame, Calm, EffectsFit, LoopFits, Coordinated, ActiveHolds
<1>6. CASE Speak
    <2>1. /\ prod.st = "idle" /\ intr = {} /\ segq' = segq
          /\ prod' = [prod EXCEPT !.st = "speaking", !.captured = 0, !.cut = FALSE, !.speech = @ + 1]
        BY <1>6 DEF Speak
    <2>2. /\ prod'.st = "speaking" /\ prod'.captured = 0 /\ ~prod'.cut /\ prod'.epoch = prod.epoch
          /\ prod'.owed = prod.owed /\ prod'.wait = prod.wait
        BY <1>2, <2>1 DEF Producer
    <2>3. playback = 0 /\ active = 0
        BY <1>4, <1>5, <2>1 DEF SlotOwed
    <2>4. Calm' /\ Owned'
        BY <1>1, <1>4, <2>1, <2>3 DEF EffectsFit, Calm, Owned, EpochFrame
    <2>5. QueueFits' /\ EndLast'
        BY <1>1, <1>4, <2>1, <2>2, NoneLive, <1>2, <1>3 DEF QueueFits, Fitting, EndLast, EpochFrame
    <2> QED
        BY <1>1, <1>5, <2>1, <2>2, <2>3, <2>4, <2>5
        DEF Epochs, SpeechFits, ActiveFits, SlotOwed, CutsFit, EpochFrame
<1>7. ASSUME NEW n \in SegmentSizes, EmitSegment(n) PROVE Epochs'
    <2> DEFINE x == [kind |-> "segment", epoch |-> prod.epoch, left |-> n]
    <2>1. /\ prod.st = "speaking" /\ ~prod.cut
          /\ prod' = [prod EXCEPT !.captured = @ + n, !.owed = (@ \/ prod.captured = 0)]
          /\ segq' = IF prod.epoch < minEpoch THEN segq ELSE Append(segq, x)
        BY <1>7 DEF EmitSegment
    <2>2. n \in Nat /\ n > 0 /\ x \in QueueItem
        BY <1>2, ConnectionAssumption DEF QueueItem
    <2>3. /\ prod'.st = "speaking" /\ ~prod'.cut /\ prod'.epoch = prod.epoch /\ prod'.wait = prod.wait
          /\ prod'.owed = (prod.owed \/ prod.captured = 0) /\ prod'.speech = prod.speech
        BY <1>2, <2>1 DEF Producer
    <2>4. prod.owed => prod'.owed
        BY <2>3
    <2>5. Owned' <=> Owned
        BY <1>1, <2>3 DEF Owned, EpochFrame
    <2>6. prod.epoch >= minEpoch => Calm /\ Owned /\ prod'.owed
        <3>1. prod.captured = 0 \/ prod.captured > 0
            BY <1>2
        <3> QED
            BY <1>4, <2>1, <2>3, <3>1 DEF SpeechFits
    <2>7. ASSUME NEW s, s \in Fitting PROVE s \in Fitting'
        BY <1>1, <1>5, <2>1, <2>3, <2>4, <2>5, <2>7 DEF Fitting, EpochFrame
    <2>8. prod.epoch >= minEpoch => x \in Fitting'
        BY <1>1, <1>2, <1>5, <2>2, <2>3, <2>5, <2>6 DEF Fitting, EpochFrame
    <2>9. \A i \in DOMAIN segq : ~(segq[i].kind = "end" /\ segq[i].epoch = prod.epoch)
        BY <1>4, <2>1 DEF QueueFits, Fitting
    <2> HIDE DEF x
    <2>10. QueueFits'
        <3>1. CASE prod.epoch < minEpoch
            BY <1>4, <2>1, <2>7, <3>1 DEF QueueFits
        <3>2. CASE ~(prod.epoch < minEpoch)
            <4>1. segq' = Append(segq, x) /\ prod.epoch >= minEpoch
                BY <1>2, <2>1, <3>2
            <4>2. \A i \in DOMAIN segq' : (i \in DOMAIN segq /\ segq'[i] = segq[i]) \/ segq'[i] = x
                BY <1>2, <2>2, <4>1, AppendItems
            <4> QED
                BY <1>4, <2>7, <2>8, <4>1, <4>2 DEF QueueFits
        <3> QED
            BY <3>1, <3>2
    <2>11. EndLast'
        <3>1. CASE prod.epoch < minEpoch
            BY <1>4, <2>1, <2>3, <3>1 DEF EndLast
        <3>2. CASE ~(prod.epoch < minEpoch)
            <4>1. segq' = Append(segq, x) /\ x.kind = "segment"
                BY <2>1, <3>2 DEF x
            <4>2. \A i \in DOMAIN segq' : (i \in DOMAIN segq /\ segq'[i] = segq[i]) \/ segq'[i] = x
                BY <1>2, <2>2, <4>1, AppendItems
            <4> QED
                BY <2>3, <2>9, <4>1, <4>2 DEF EndLast
        <3> QED
            BY <3>1, <3>2
    <2>12. SpeechFits' /\ ActiveFits' /\ SlotOwed' /\ CutsFit'
        BY <1>1, <1>4, <1>5, <2>1, <2>3, <2>4, <2>5, <2>6 DEF SpeechFits, ActiveFits, SlotOwed, CutsFit, EpochFrame
    <2> QED
        BY <1>5, <2>10, <2>11, <2>12 DEF Epochs
<1>8. CASE EndSpeech
    <2> DEFINE x == [kind |-> "end", epoch |-> prod.epoch, left |-> 0]
    <2>1. /\ prod.st = "speaking" /\ ~prod.cut
          /\ prod' = [prod EXCEPT !.st = "waiting", !.wait = prod.epoch]
          /\ segq' = Append(segq, x)
        BY <1>8 DEF EndSpeech
    <2>2. x \in QueueItem /\ x.kind = "end"
        BY <1>2 DEF QueueItem
    <2>3. /\ prod'.st = "waiting" /\ ~prod'.cut /\ prod'.epoch = prod.epoch /\ prod'.wait = prod.epoch
          /\ prod'.owed = prod.owed /\ prod'.speech = prod.speech
        BY <1>2, <2>1 DEF Producer
    <2>4. Owned' <=> Owned
        BY <1>1, <2>3 DEF Owned, EpochFrame
    <2>5. ASSUME NEW s, s \in Fitting PROVE s \in Fitting'
        BY <1>1, <1>5, <2>1, <2>3, <2>4, <2>5 DEF Fitting, EpochFrame
    <2>6. x \in Fitting'
        BY <1>2, <2>2, <2>3 DEF Fitting
    <2> HIDE DEF x
    <2>7. \A i \in DOMAIN segq' : \/ i \in DOMAIN segq /\ segq'[i] = segq[i]
                                  \/ i \notin DOMAIN segq /\ segq'[i] = x /\ \A j \in DOMAIN segq : j < i
        BY <1>2, <2>1, <2>2, AppendItems
    <2>8. QueueFits'
        BY <1>4, <2>5, <2>6, <2>7 DEF QueueFits
    <2>9. EndLast'
        BY <1>4, <2>2, <2>3, <2>7 DEF EndLast
    <2>10. SpeechFits' /\ ActiveFits' /\ SlotOwed' /\ CutsFit'
        BY <1>1, <1>4, <1>5, <2>1, <2>3 DEF SpeechFits, ActiveFits, SlotOwed, CutsFit, EpochFrame
    <2> QED
        BY <1>5, <2>8, <2>9, <2>10 DEF Epochs
<1>9. CASE CutSpeech
    <2> DEFINE x == [kind |-> "end", epoch |-> prod.epoch + 1, left |-> 0]
    <2>1. /\ prod.st # "idle" /\ prod.cut
          /\ prod' = [prod EXCEPT !.st = "waiting", !.epoch = @ + 1, !.wait = prod.epoch + 1, !.cut = FALSE]
          /\ segq' = Append(segq, x)
        BY <1>9 DEF CutSpeech
    <2>2. x \in QueueItem /\ x.kind = "end"
        BY <1>2 DEF QueueItem
    <2>3. /\ prod'.st = "waiting" /\ prod'.epoch = prod.epoch + 1 /\ prod'.wait = prod.epoch + 1
          /\ prod'.owed = prod.owed /\ prod'.speech = prod.speech
        BY <1>2, <2>1 DEF Producer
    <2>4. \A i \in DOMAIN segq : segq[i] \in Fitting'
        BY <1>1, <1>2, <1>3, <1>4, <2>1, <2>3, NoneLive DEF QueueFits, Fitting, EpochFrame
    <2>5. x \in Fitting'
        BY <1>2, <2>2, <2>3 DEF Fitting
    <2>6. active = 0
        BY <1>4, <2>1 DEF ActiveFits
    <2>7. \A i \in DOMAIN segq : segq[i].epoch # prod'.epoch
        BY <1>2, <1>3, <1>4, <2>3 DEF QueueFits, Fitting
    <2> HIDE DEF x
    <2>8. \A i \in DOMAIN segq' : \/ i \in DOMAIN segq /\ segq'[i] = segq[i]
                                  \/ i \notin DOMAIN segq /\ segq'[i] = x /\ \A j \in DOMAIN segq : j < i
        BY <1>2, <2>1, <2>2, AppendItems
    <2>9. QueueFits'
        BY <2>4, <2>5, <2>8 DEF QueueFits
    <2>10. EndLast'
        BY <2>2, <2>7, <2>8 DEF EndLast
    <2>11. SpeechFits' /\ ActiveFits' /\ SlotOwed' /\ CutsFit'
        BY <1>1, <1>4, <2>1, <2>3, <2>6 DEF SpeechFits, ActiveFits, SlotOwed, CutsFit, EpochFrame
    <2> QED
        BY <1>5, <2>9, <2>10, <2>11 DEF Epochs
<1>10. CASE PlayoutDone
    <2>1. /\ prod.st = "waiting" /\ ~prod.owed /\ ~prod.cut /\ segq' = segq
          /\ prod' = [prod EXCEPT !.st = "idle", !.epoch = IF prod.wait = @ THEN @ + 1 ELSE @]
        BY <1>10 DEF PlayoutDone
    <2>2. /\ prod'.st = "idle" /\ prod'.epoch = (IF prod.wait = prod.epoch THEN prod.epoch + 1 ELSE prod.epoch)
          /\ prod'.speech = prod.speech
        BY <1>2, <2>1 DEF Producer
    <2>3. playback = 0 /\ active = 0
        BY <1>4, <1>5, <2>1 DEF SlotOwed
    <2>4. \A i \in DOMAIN segq : segq[i] \in Fitting' /\ ~(segq[i].kind = "end" /\ segq[i].epoch = prod'.epoch)
        BY <1>1, <1>2, <1>3, <1>4, <2>1, <2>2, NoneLive DEF QueueFits, Fitting, EpochFrame
    <2>5. SpeechFits' /\ ActiveFits' /\ SlotOwed' /\ CutsFit'
        BY <1>1, <1>4, <2>1, <2>2, <2>3 DEF SpeechFits, ActiveFits, SlotOwed, CutsFit, EpochFrame
    <2> QED
        BY <1>5, <2>1, <2>4, <2>5 DEF Epochs, QueueFits, EndLast
<1> QED
    BY <1>6, <1>7, <1>8, <1>9, <1>10 DEF AgentNext

\* A step that leaves the response in its slot and the producer alone.
LEMMA EpochsStay ==
    ASSUME TypeInv, Epochs, Open, UNCHANGED <<active, playback, minEpoch, intr, prod>>,
           active # 0 => rec'[active].epoch = rec[active].epoch,
           segq' = segq \/ (segq # <<>> /\ segq' = Tail(segq)),
           Calm' <=> Calm, EffectsFit', LoopFits'
    PROVE  Epochs'
<1>1. QueueFits /\ EndLast /\ SpeechFits /\ ActiveFits /\ SlotOwed /\ CutsFit
    BY DEF Epochs
<1>2. Owned' <=> Owned
    BY DEF Owned
<1>3. \A s : s \in Fitting => s \in Fitting'
    BY <1>2 DEF Fitting
<1>4. QueueFits' /\ EndLast'
    <2>1. CASE segq' = segq
        BY <1>1, <1>3, <2>1 DEF QueueFits, EndLast
    <2>2. CASE segq # <<>> /\ segq' = Tail(segq)
        <3>1. \A i \in DOMAIN segq' : i \in Nat /\ i + 1 \in DOMAIN segq /\ segq'[i] = segq[i + 1]
            BY <2>2, EpochTypes, TailItems
        <3>2. QueueFits'
            BY <1>1, <1>3, <3>1 DEF QueueFits
        <3>3. ASSUME NEW i \in DOMAIN segq', NEW j \in DOMAIN segq',
                     segq'[i].kind = "end", segq'[i].epoch = prod'.epoch,
                     segq'[j].kind = "segment", segq'[j].epoch = prod'.epoch
              PROVE  j < i
            <4>1. j + 1 < i + 1
                BY <1>1, <3>1, <3>3 DEF EndLast
            <4> QED
                BY <3>1, <4>1
        <3>4. EndLast'
            BY <3>3 DEF EndLast
        <3> QED
            BY <3>2, <3>4
    <2> QED
        BY <2>1, <2>2
<1>5. SpeechFits' /\ ActiveFits' /\ SlotOwed' /\ CutsFit'
    BY <1>1, <1>2 DEF SpeechFits, ActiveFits, SlotOwed, CutsFit
<1> QED
    BY <1>4, <1>5 DEF Epochs

\* The effects and interrupts are left alone.
LEMMA CalmStays ==
    ASSUME Epochs, Open, UNCHANGED <<eff, intr, playback>>
    PROVE  (Calm' <=> Calm) /\ EffectsFit'
BY DEF Epochs, Calm, EffectsFit

\* The segment at the head of the queue, if it is to be sent, is of the active
\* response or finds the slot free.
LEMMA HeadFits ==
    ASSUME TypeInv, Epochs, Open, segq # <<>>
    PROVE  /\ Head(segq) \in QueueItem /\ Head(segq) \in Fitting
           /\ Head(segq).epoch \in Nat /\ Head(segq).left \in Nat
<1>1. Head(segq) = segq[1] /\ 1 \in DOMAIN segq
    BY EpochTypes, TailItems
<1> QED
    BY <1>1, EpochTypes DEF Epochs, QueueFits

\* The segment loop keeps the epochs; it finds the slot free for the response it
\* begins, and a packet in the response it completes.
LEMMA SegmentEpochs ==
    ASSUME TypeInv, Coordinated, Connected, Epochs, Open, SegmentNext
    PROVE  Epochs' /\ ~SegmentRefused /\ ~FinishRefused
<1>1. /\ seg \in SegmentLoop /\ segq \in Seq(QueueItem) /\ minEpoch \in Nat /\ prod.epoch \in Nat
      /\ ResponseTypeOK /\ nextSeq \in Nat /\ changed \in BOOLEAN
    BY EpochTypes, TypeFacts DEF TypeInv, TypeOK, ConnectionTypeOK
<1>2. /\ QueueFits /\ EndLast /\ SpeechFits /\ ActiveFits /\ SlotOwed
      /\ EffectsFit /\ CutsFit /\ LoopFits
    BY DEF Epochs
<1>3. ~closed /\ (active # 0 => active = playback /\ active = target /\ active \in Gens)
    BY <1>1 DEF Coordinated, Connected, ActiveHolds, TargetAgrees, ResponseTypeOK
<1>4. ~SegmentRefused
    <2>1. SUFFICES ASSUME Item("segment"), Head(segq).epoch >= minEpoch PROVE IsActiveEpoch(Head(segq).epoch) \/ BeginFresh
        BY DEF SegmentRefused
    <2>2. Owned /\ Head(segq).epoch = prod.epoch
        BY <2>1, HeadFits DEF Item, Fitting
    <2> QED
        BY <1>3, <2>2 DEF Owned, IsActiveEpoch, BeginFresh, Coordinated, TargetAgrees
<1>5. ~FinishRefused
    BY <1>2 DEF FinishRefused, Item, LoopFits, IsActiveEpoch
<1>6. CASE SegmentSkip \/ FinishSkip
    <2>1. UNCHANGED <<active, playback, minEpoch, intr, prod, rec, seg, changed, eff>>
        BY <1>6 DEF SegmentSkip, FinishSkip, responseVars, segmentFrame
    <2>2. segq # <<>> /\ segq' = Tail(segq)
        BY <1>6 DEF SegmentSkip, FinishSkip, TakeItem, Item
    <2>3. LoopFits'
        BY <1>2, <2>1 DEF LoopFits
    <2> QED
        BY <1>4, <1>5, <2>1, <2>2, <2>3, CalmStays, EpochsStay
<1>7. CASE SegmentBegin /\ IsActiveEpoch(Head(segq).epoch) /\ UNCHANGED responseVars
    <2>1. /\ UNCHANGED <<active, playback, minEpoch, intr, prod, rec, changed, eff>>
          /\ segq # <<>> /\ segq' = Tail(segq) /\ Head(segq).kind = "segment" /\ seg.pc = "idle"
        BY <1>7 DEF SegmentBegin, TakeItem, Item, responseVars, segmentFrame
    <2>2. active # 0 /\ seg' = [pc |-> "packet", gen |-> active, epoch |-> rec[active].epoch, left |-> Head(segq).left]
        BY <1>7, <1>3 DEF SegmentBegin, IsActiveEpoch, BeginFresh, Begin
    <2>3. Head(segq).left > 0
        BY <2>1, HeadFits DEF Fitting
    <2>4. ~changed
        BY <1>2, <2>1 DEF LoopFits
    <2>5. LoopFits'
        BY <2>1, <2>2, <2>3, <2>4 DEF LoopFits
    <2> QED
        BY <1>4, <1>5, <2>1, <2>5, CalmStays, EpochsStay
<1>8. CASE SegmentBegin /\ Begin(Head(segq).epoch)
    <2> DEFINE e == Head(segq).epoch
               g == generation + 1
    <2>1. /\ UNCHANGED <<minEpoch, intr, prod, changed, eff>>
          /\ segq # <<>> /\ segq' = Tail(segq) /\ Head(segq).kind = "segment" /\ seg.pc = "idle" /\ e >= minEpoch
        BY <1>8 DEF SegmentBegin, TakeItem, Item, segmentFrame
    <2>2. /\ active = 0 /\ playback = 0 /\ active' = g /\ playback' = g /\ generation' = g
          /\ rec' = [rec EXCEPT ![g] = NewRecord(e)]
          /\ g \in Gens /\ g # 0
        BY <1>1, <1>8, ResponseAssumption DEF Begin, BeginFresh, ResponseTypeOK, Gens
    <2>3. seg' = [pc |-> "begin", gen |-> g, epoch |-> e, left |-> Head(segq).left]
        BY <1>8, <2>2 DEF SegmentBegin, IsActiveEpoch
    <2>4. rec'[g].epoch = e /\ rec'[g].first = None
        BY <1>1, <2>2 DEF ResponseTypeOK, NewRecord
    <2>5. /\ e = prod.epoch /\ prod.st # "idle" /\ prod.owed /\ ~prod.cut /\ Calm /\ Head(segq).left > 0
        BY <2>1, HeadFits DEF Fitting
    <2>6. ~changed
        BY <1>2, <2>1 DEF LoopFits
    <2> HIDE DEF e, g
    <2>7. Calm' /\ Owned' /\ EffectsFit'
        BY <1>2, <2>1, <2>2, <2>4, <2>5 DEF Calm, Owned, EffectsFit
    <2>8. LoopFits'
        BY <2>1, <2>2, <2>3, <2>4, <2>5, <2>6 DEF LoopFits
    <2>9. \A s : s \in Fitting => s \in Fitting'
        BY <2>1, <2>5, <2>7 DEF Fitting
    <2>10. \A i \in DOMAIN segq' : i \in Nat /\ i + 1 \in DOMAIN segq /\ segq'[i] = segq[i + 1]
        BY <1>1, <2>1, TailItems
    <2>11. QueueFits'
        BY <1>2, <2>9, <2>10 DEF QueueFits
    <2>12. EndLast'
        <3>1. ASSUME NEW i \in DOMAIN segq', NEW j \in DOMAIN segq',
                     segq'[i].kind = "end", segq'[i].epoch = prod'.epoch,
                     segq'[j].kind = "segment", segq'[j].epoch = prod'.epoch
              PROVE  j < i
            <4>1. j + 1 < i + 1
                BY <1>2, <2>1, <2>10, <3>1 DEF EndLast
            <4> QED
                BY <2>10, <4>1
        <3> QED
            BY <3>1 DEF EndLast
    <2>13. SpeechFits' /\ ActiveFits' /\ SlotOwed' /\ CutsFit'
        BY <1>2, <2>1, <2>2, <2>4, <2>5, <2>7 DEF SpeechFits, ActiveFits, SlotOwed, CutsFit
    <2> QED
        BY <1>4, <1>5, <2>7, <2>8, <2>11, <2>12, <2>13 DEF Epochs
<1>9. CASE SegmentBegun \/ PacketCheck \/ PacketCut \/ FinishAcked
    <2>1. UNCHANGED <<active, playback, minEpoch, intr, prod, rec, eff, segq>>
        BY <1>9 DEF SegmentBegun, PacketCheck, PacketCut, FinishAcked, responseVars, segmentFrame
    <2>2. LoopFits'
        <3>1. CASE SegmentBegun
            BY <1>1, <1>2, <2>1, <3>1 DEF SegmentBegun, LoopFits, SegmentLoop
        <3>2. CASE PacketCheck
            <4>1. changed' = changed /\ ~changed /\ seg.pc = "packet"
                BY <1>2, <3>2 DEF PacketCheck, LoopFits
            <4>2. CASE active # 0 /\ rec[active].first = None
                <5>1. seg.left > 0 /\ seg.epoch = prod.epoch /\ seg.gen = active /\ seg.epoch >= minEpoch
                    BY <1>2, <4>2 DEF LoopFits, ActiveFits
                <5>2. seg' = [seg EXCEPT !.pc = "send"]
                    BY <1>1, <3>2, <5>1 DEF PacketCheck, SegmentLoop
                <5>3. seg'.pc = "send" /\ seg'.left = seg.left /\ seg'.epoch = seg.epoch /\ seg'.gen = seg.gen
                    BY <1>1, <5>2 DEF SegmentLoop
                <5> QED
                    BY <1>2, <2>1, <4>1, <4>2, <5>3 DEF LoopFits
            <4> QED
                BY <2>1, <4>1, <4>2 DEF LoopFits
        <3>3. CASE PacketCut
            <4>1. changed' = FALSE /\ seg.pc = "send" /\ (changed \/ ~Accepts(seg.gen))
                BY <3>3 DEF PacketCut
            <4>2. ~(active # 0 /\ rec[active].first = None)
                BY <1>2, <1>3, <4>1 DEF LoopFits, Accepts
            <4> QED
                BY <2>1, <4>1, <4>2 DEF LoopFits
        <3>4. CASE FinishAcked
            <4>1. changed' = changed /\ seg.pc = "finish"
                BY <3>4 DEF FinishAcked
            <4> QED
                BY <1>2, <2>1, <4>1 DEF LoopFits
        <3> QED
            BY <1>9, <3>1, <3>2, <3>3, <3>4
    <2> QED
        BY <1>4, <1>5, <2>1, <2>2, CalmStays, EpochsStay
<1>10. CASE PacketSend
    <2>1. /\ UNCHANGED <<active, playback, minEpoch, intr, prod, eff, segq>> /\ changed' = FALSE
          /\ NoteMedia(seg.gen, nextSeq) /\ seg.gen = active /\ active # 0
        BY <1>10 DEF PacketSend, NoteMedia, Accepts, segmentFrame
    <2>2. rec' = [rec EXCEPT ![active].first = IF @ = None THEN nextSeq ELSE @, ![active].last = nextSeq]
        BY <2>1 DEF NoteMedia
    <2>3. rec'[active].epoch = rec[active].epoch /\ rec'[active].first # None
        BY <1>1, <1>3, <2>1, <2>2 DEF ResponseTypeOK, Record, None
    <2>4. LoopFits'
        BY <2>1, <2>3 DEF LoopFits
    <2> QED
        BY <1>4, <1>5, <2>1, <2>3, <2>4, CalmStays, EpochsStay
<1>11. CASE FinishResponse
    <2>1. /\ UNCHANGED <<minEpoch, intr, prod, eff, changed>> /\ segq # <<>> /\ segq' = Tail(segq) /\ seg.pc = "idle"
          /\ Head(segq).kind = "end" /\ active # 0 /\ rec[active].epoch = Head(segq).epoch /\ Complete(active)
        BY <1>11 DEF FinishResponse, TakeItem, Item, segmentFrame, IsActiveEpoch
    <2>2. active' = 0 /\ playback' = playback
        BY <2>1 DEF Complete
    <2>3. Head(segq).epoch = prod.epoch /\ prod.st = "waiting"
        BY <1>2, <2>1, HeadFits DEF ActiveFits, Fitting
    <2>4. /\ \A i \in DOMAIN segq' : i \in Nat /\ i + 1 \in DOMAIN segq /\ i + 1 # 1 /\ segq'[i] = segq[i + 1]
          /\ Head(segq) = segq[1] /\ 1 \in DOMAIN segq
        BY <1>1, <2>1, TailItems
    <2>5. \A i \in DOMAIN segq' : ~(segq'[i].kind = "segment" /\ segq'[i].epoch = prod.epoch)
        BY <1>2, <2>1, <2>3, <2>4 DEF EndLast
    <2>6. QueueFits'
        BY <1>2, <2>1, <2>4, <2>5 DEF QueueFits, Fitting
    <2>7. EndLast'
        BY <2>1, <2>5 DEF EndLast
    <2>8. Calm' /\ EffectsFit'
        BY <1>2, <2>1, <2>2 DEF Calm, EffectsFit, ActiveFits
    <2>9. LoopFits'
        BY <1>2, <2>1, <2>2 DEF LoopFits
    <2>10. SpeechFits' /\ ActiveFits' /\ SlotOwed' /\ CutsFit'
        BY <1>2, <2>1, <2>2, <2>3 DEF SpeechFits, ActiveFits, SlotOwed, CutsFit
    <2> QED
        BY <1>4, <1>5, <2>6, <2>7, <2>8, <2>9, <2>10 DEF Epochs
<1> QED
    <2>1. SegmentBegin => (IsActiveEpoch(Head(segq).epoch) /\ UNCHANGED responseVars) \/ Begin(Head(segq).epoch)
        BY DEF SegmentBegin
    <2> QED
        BY <1>4, <1>5, <1>6, <1>7, <1>8, <1>9, <1>10, <1>11, <2>1 DEF SegmentNext

\* A fence leaves no segment of the response's epoch to be sent.
LEMMA FenceEpochs ==
    ASSUME TypeInv, Coordinated, Connected, Epochs, Open, NEW p \in Owners,
           NEW more \in {<<>>, <<CloseMsg>>}, NEW b \in BOOLEAN, ApplyFence(p, playback, more, b),
           UNCHANGED <<segq, seg, intr, prod>>
    PROVE  Epochs'
<1>1. /\ prod.epoch \in Nat /\ minEpoch \in Nat /\ ResponseTypeOK /\ eff \in [Owners -> Effect]
      /\ \A i \in DOMAIN segq : segq[i] \in QueueItem /\ segq[i].epoch \in Nat /\ segq[i].kind \in {"segment", "end"}
    BY EpochTypes, TypeFacts
<1>2. /\ QueueFits /\ EndLast /\ SpeechFits /\ ActiveFits /\ SlotOwed
      /\ EffectsFit /\ CutsFit /\ LoopFits
    BY DEF Epochs
<1>3. playback \in Gens /\ playback # 0 /\ active' = 0 /\ playback' = playback /\ (active # 0 => active = playback)
    BY FenceRecord, TypeFacts
<1>4. rec[playback].epoch \in Nat /\ minEpoch' = AtLeast(minEpoch, rec[playback].epoch + 1)
    BY <1>3, TypeFacts DEF ApplyFence
<1>5. minEpoch' \in Nat /\ minEpoch' >= minEpoch /\ minEpoch' > rec[playback].epoch
    BY <1>1, <1>4 DEF AtLeast
<1>6. /\ \A i \in DOMAIN segq : segq[i].kind = "segment" => segq[i].epoch < minEpoch'
      /\ ~(prod.st = "speaking" /\ ~prod.cut /\ prod.epoch >= minEpoch')
    <2>1. CASE active # 0
        <3>1. minEpoch' > prod.epoch
            BY <1>2, <1>3, <1>5, <2>1 DEF ActiveFits
        <3> QED
            BY <1>1, <1>2, <1>5, <3>1 DEF QueueFits, Fitting
    <2>2. CASE active = 0
        <3>1. ~Owned
            BY <1>3, <2>2 DEF Owned
        <3> QED
            BY <1>1, <1>5, <3>1, NoneLive
    <2> QED
        BY <2>1, <2>2
<1>7. eff' = [eff EXCEPT ![p] = [gen |-> playback, close |-> b, on |-> TRUE,
                 todo |-> (IF playback = active THEN <<Cancelled(playback)>> ELSE <<>>) \o more]]
    BY FenceMessages
<1>8. EffectsFit'
    BY <1>1, <1>2, <1>3, <1>7 DEF EffectsFit
<1>9. QueueFits' /\ EndLast'
    BY <1>1, <1>2, <1>5, <1>6 DEF QueueFits, Fitting, EndLast
<1>10. SpeechFits' /\ ActiveFits' /\ SlotOwed' /\ CutsFit'
    BY <1>2, <1>3, <1>6 DEF SpeechFits, ActiveFits, SlotOwed, CutsFit
<1>11. LoopFits'
    BY <1>3 DEF LoopFits, ApplyFence
<1> QED
    BY <1>8, <1>9, <1>10, <1>11 DEF Epochs

\* A close leaves nothing to say.
LEMMA CloseEpochs ==
    ASSUME NEW c \in Causes, Close(c)
    PROVE  Epochs'
BY DEF Close, Epochs, Open, Causes

\* The reader keeps the epochs: a report that is accepted finds no segment waiting.
LEMMA ReaderEpochs ==
    ASSUME TypeInv, Coordinated, Connected, Prompt, Epochs, Open, ReaderNext
    PROVE  Epochs'
<1>1. /\ prod \in Producer /\ prod.epoch \in Nat /\ minEpoch \in Nat /\ ResponseTypeOK /\ eff \in [Owners -> Effect]
      /\ \A i \in DOMAIN segq : segq[i] \in QueueItem /\ segq[i].epoch \in Nat /\ segq[i].kind \in {"segment", "end"}
    BY EpochTypes, TypeFacts
<1>2. /\ QueueFits /\ EndLast /\ SpeechFits /\ ActiveFits /\ SlotOwed
      /\ EffectsFit /\ CutsFit /\ LoopFits
    BY DEF Epochs
<1>3. CASE \E c \in Causes : Close(c)
    BY <1>3, CloseEpochs
<1>4. CASE ReadCancel
    <2>1. CASE UNCHANGED <<responseVars, minEpoch, changed, eff, prod, readerFrame>>
        <3>1. UNCHANGED <<active, playback, minEpoch, intr, prod, rec, eff, segq, seg, changed>>
            BY <2>1 DEF responseVars, readerFrame
        <3>2. LoopFits'
            BY <1>2, <3>1 DEF LoopFits
        <3> QED
            BY <3>1, <3>2, CalmStays, EpochsStay
    <2>2. CASE \E g : Fenceable(g) /\ ApplyFence("reader", g, <<>>, FALSE) /\ UNCHANGED <<wd, prod, readerFrame>>
        <3>1. ApplyFence("reader", playback, <<>>, FALSE) /\ UNCHANGED <<segq, seg, intr, prod>>
            BY <2>2 DEF Fenceable, readerFrame
        <3> QED
            BY <3>1, FenceEpochs DEF Owners
    <2>3. CASE \E c \in {"stale_cancel_target", "stale_generation"} : Close(c)
        BY <1>3, <2>3 DEF Causes
    <2> QED
        BY <1>4, <2>1, <2>2, <2>3 DEF ReadCancel
<1>5. CASE ReadStarted
    <2> DEFINE g == Head(up).gen
               error == StartedError(g, Head(up).arg)
    <2>1. CASE error = "none"
        <3>1. PlaybackStarted(g) /\ UNCHANGED <<minEpoch, changed, eff, prod, readerFrame>>
            BY <1>5, <2>1 DEF ReadStarted
        <3>2. UNCHANGED <<active, playback, minEpoch, intr, prod, eff, segq, seg, changed>>
            BY <3>1 DEF PlaybackStarted, readerFrame
        <3>3. active # 0 => rec'[active].epoch = rec[active].epoch /\ rec'[active].first = rec[active].first
            BY <1>1, <3>1 DEF PlaybackStarted, ResponseTypeOK, Record
        <3>4. LoopFits'
            BY <1>2, <3>2, <3>3 DEF LoopFits
        <3> QED
            BY <3>2, <3>3, <3>4, CalmStays, EpochsStay
    <2>2. CASE error # "none"
        <3>1. error \in Causes
            BY <2>2 DEF StartedError, Causes
        <3> QED
            BY <1>3, <1>5, <2>2, <3>1 DEF ReadStarted
    <2> QED
        BY <2>1, <2>2
<1>6. CASE ReadEnded
    <2> DEFINE m == Head(up)
               error == EndedError(m.gen, m.outcome, m.played, m.arg)
    <2>1. CASE error = "none"
        <3>1. PlaybackEnded(m.gen) /\ prod' = Told /\ UNCHANGED <<minEpoch, changed, eff, readerFrame>> /\ ~Sending
            BY <1>6, <2>1 DEF ReadEnded, Read
        <3>2. m.gen = playback /\ playback # 0 /\ Expected(rec[playback]) # {}
            BY <2>1, TypeFacts DEF EndedError, Known
        <3>3. active = 0 /\ ~Owned
            BY <3>2 DEF Expected, Coordinated, ActiveHolds, Owned
        <3>4. /\ UNCHANGED <<active, minEpoch, intr, eff, segq, seg, changed>> /\ playback' = 0
              /\ prod' = [prod EXCEPT !.owed = FALSE]
            BY <3>1 DEF PlaybackEnded, readerFrame, Told
        <3>5. /\ prod'.epoch = prod.epoch /\ prod'.st = prod.st /\ prod'.cut = prod.cut /\ prod'.wait = prod.wait
              /\ prod'.speech = prod.speech
            BY <1>1, <3>4 DEF Producer
        <3>6. /\ \A i \in DOMAIN segq : segq[i].kind = "segment" => segq[i].epoch < minEpoch
              /\ ~(prod.st = "speaking" /\ ~prod.cut /\ prod.epoch >= minEpoch)
            BY <3>3, NoneLive
        <3>7. QueueFits' /\ EndLast'
            BY <1>1, <1>2, <3>4, <3>5, <3>6 DEF QueueFits, Fitting, EndLast
        <3>8. EffectsFit'
            BY <1>2, <3>1, <3>4 DEF EffectsFit, Sending
        <3>9. SpeechFits' /\ ActiveFits' /\ SlotOwed' /\ CutsFit'
            BY <1>2, <3>3, <3>4, <3>5, <3>6 DEF SpeechFits, ActiveFits, SlotOwed, CutsFit
        <3>10. LoopFits'
            BY <1>2, <3>3, <3>4 DEF LoopFits
        <3> QED
            BY <3>7, <3>8, <3>9, <3>10 DEF Epochs
    <2>2. CASE error # "none"
        <3>1. error \in Causes
            BY <2>2 DEF EndedError, Causes
        <3> QED
            BY <1>3, <1>6, <2>2, <3>1 DEF ReadEnded
    <2> QED
        BY <2>1, <2>2
<1>7. CASE ReadClose
    <2>1. CASE ApplyFence("reader", playback, <<CloseMsg>>, TRUE) /\ UNCHANGED <<cancels, wd, prod, readerFrame>>
        <3>1. UNCHANGED <<segq, seg, intr, prod>>
            BY <2>1 DEF readerFrame
        <3> QED
            BY <2>1, <3>1, FenceEpochs DEF Owners
    <2>2. CASE /\ playback = 0 /\ eff' = [eff EXCEPT !["reader"].on = TRUE, !["reader"].close = TRUE]
               /\ UNCHANGED <<responseVars, minEpoch, changed, cancels, wd, prod, readerFrame>>
        <3>1. UNCHANGED <<active, playback, minEpoch, intr, prod, rec, segq, seg, changed>>
            BY <2>2 DEF responseVars, readerFrame
        <3>2. ~eff["reader"].on
            BY <1>7 DEF ReadClose, Read
        <3>3. /\ eff'["reader"].on /\ eff'["reader"].close /\ eff'["reader"].gen = eff["reader"].gen
              /\ eff'["coordinator"] = eff["coordinator"]
            BY <1>1, <2>2 DEF Owners, Effect
        <3>4. (Calm' <=> Calm) /\ EffectsFit'
            BY <1>2, <3>1, <3>2, <3>3 DEF Calm, EffectsFit, Owners
        <3>5. LoopFits'
            BY <1>2, <3>1 DEF LoopFits
        <3> QED
            BY <3>1, <3>4, <3>5, EpochsStay
    <2>3. CASE Close("stale_generation")
        BY <1>3, <2>3 DEF Causes
    <2> QED
        BY <1>7, <2>1, <2>2, <2>3 DEF ReadClose
<1>8. CASE ReadDisconnect
    BY <1>3, <1>8 DEF ReadDisconnect, Causes
<1> QED
    BY <1>4, <1>5, <1>6, <1>7, <1>8 DEF ReaderNext

\* The tasks keep the epochs.
LEMMA TaskEpochs ==
    ASSUME TypeInv, Coordinated, Connected, Epochs, Open, TaskNext
    PROVE  Epochs'
<1>1. /\ prod \in Producer /\ prod.epoch \in Nat /\ minEpoch \in Nat /\ ResponseTypeOK /\ eff \in [Owners -> Effect]
      /\ activeEpoch \in Nat /\ intr \subseteq InterruptTask
      /\ \A i \in DOMAIN segq : segq[i] \in QueueItem /\ segq[i].epoch \in Nat /\ segq[i].kind \in {"segment", "end"}
    BY EpochTypes, TypeFacts DEF TypeInv, TypeOK, ConnectionTypeOK
<1>2. /\ QueueFits /\ EndLast /\ SpeechFits /\ ActiveFits /\ SlotOwed
      /\ EffectsFit /\ CutsFit /\ LoopFits
    BY DEF Epochs
<1>3. ASSUME NEW p \in Owners, EffectSend(p) PROVE Epochs'
    <2>1. UNCHANGED <<active, playback, minEpoch, intr, prod, rec, segq, seg, changed>>
        BY <1>3 DEF EffectSend, responseVars, effectFrame
    <2>2. eff' = [eff EXCEPT ![p].todo = Tail(@)]
        BY <1>3 DEF EffectSend
    <2>3. \A q \in Owners : eff'[q].on = eff[q].on /\ eff'[q].gen = eff[q].gen /\ eff'[q].close = eff[q].close
        BY <1>1, <2>2 DEF Effect
    <2>4. (Calm' <=> Calm) /\ EffectsFit' /\ LoopFits'
        BY <1>2, <2>1, <2>3 DEF Calm, EffectsFit, LoopFits
    <2> QED
        BY <2>1, <2>4, EpochsStay
<1>4. ASSUME NEW p \in Owners, EffectDone(p) PROVE Epochs'
    <2> DEFINE new == [gen |-> eff[p].gen, pc |-> "new", speech |-> 0]
    <2>1. /\ UNCHANGED <<active, playback, minEpoch, prod, rec, segq, seg, changed>>
          /\ eff[p].on /\ ~eff[p].close /\ eff' = [eff EXCEPT ![p] = NoEffect] /\ intr' = intr \cup {new}
        BY <1>4 DEF EffectDone, responseVars, effectFrame
    <2>2. eff[p].gen # 0 /\ ~Calm
        BY <1>2, <2>1 DEF EffectsFit, Calm
    <2>3. active = 0
        BY <1>2, <2>2 DEF ActiveFits
    <2>4. /\ \A i \in DOMAIN segq : segq[i].kind = "segment" => segq[i].epoch < minEpoch
          /\ ~(prod.st = "speaking" /\ ~prod.cut /\ prod.epoch >= minEpoch)
        BY <2>2, NoneLive
    <2>5. new.pc = "new"
        OBVIOUS
    <2> HIDE DEF new
    <2>6. EffectsFit'
        BY <1>1, <1>2, <2>1 DEF EffectsFit, NoEffect
    <2>7. QueueFits' /\ EndLast'
        BY <1>1, <1>2, <2>1, <2>4 DEF QueueFits, Fitting, EndLast
    <2>8. SpeechFits' /\ ActiveFits' /\ SlotOwed' /\ CutsFit' /\ LoopFits'
        BY <1>2, <2>1, <2>3, <2>4, <2>5 DEF SpeechFits, ActiveFits, SlotOwed, CutsFit, LoopFits
    <2> QED
        BY <2>6, <2>7, <2>8 DEF Epochs
<1>5. CASE CloseSent
    BY <1>5, CloseEpochs DEF CloseSent, Causes
<1>6. CASE SubmitCandidate
    <2>1. UNCHANGED <<active, playback, minEpoch, intr, prod, rec, segq, seg, changed, eff>>
        BY <1>6 DEF SubmitCandidate, responseVars, effectFrame
    <2>2. LoopFits'
        BY <1>2, <2>1 DEF LoopFits
    <2> QED
        BY <2>1, <2>2, CalmStays, EpochsStay
<1>7. ASSUME NEW b \in BOOLEAN, DecideCandidate(b) PROVE Epochs'
    <2>1. UNCHANGED <<intr, segq, seg, prod>>
        BY <1>7 DEF DecideCandidate, effectFrame
    <2>2. CASE ApplyFence("coordinator", playback, <<>>, FALSE)
        BY <2>1, <2>2, FenceEpochs DEF Owners
    <2>3. CASE UNCHANGED <<responseVars, wireVars, minEpoch, changed, eff>>
        <3>1. UNCHANGED <<active, playback, rec, minEpoch, eff, changed>>
            BY <2>3 DEF responseVars
        <3>2. LoopFits'
            BY <1>2, <2>1, <3>1 DEF LoopFits
        <3> QED
            BY <2>1, <3>1, <3>2, CalmStays, EpochsStay
    <2> QED
        BY <1>7, <2>2, <2>3 DEF DecideCandidate
<1>8. ASSUME NEW i \in intr, InterruptStart(i) PROVE Epochs'
    <2> DEFINE j == [i EXCEPT !.pc = "wait", !.speech = prod.speech]
    <2>1. /\ UNCHANGED <<active, playback, rec, segq, seg, eff>> /\ changed' = (seg.pc = "send")
          /\ minEpoch' = (IF activeEpoch = 0 THEN minEpoch ELSE AtLeast(minEpoch, activeEpoch + 1))
          /\ prod' = [prod EXCEPT !.epoch = @ + 1, !.cut = (prod.st # "idle")]
          /\ intr' = (intr \ {i}) \cup {j}
        BY <1>8 DEF InterruptStart, responseVars, interruptFrame
    <2>2. minEpoch' \in Nat /\ minEpoch' >= minEpoch
        BY <1>1, <2>1 DEF AtLeast
    <2>3. /\ prod'.epoch = prod.epoch + 1 /\ prod'.st = prod.st /\ prod'.cut = (prod.st # "idle")
          /\ prod'.owed = prod.owed /\ prod'.speech = prod.speech
        BY <1>1, <2>1 DEF Producer
    <2>4. ~Calm
        BY DEF Calm
    <2>5. active = 0
        BY <1>2, <2>4 DEF ActiveFits
    <2>6. /\ \A k \in DOMAIN segq : segq[k].kind = "segment" => segq[k].epoch < minEpoch
          /\ \A k \in DOMAIN segq : segq[k].epoch < prod'.epoch
        BY <1>1, <1>2, <2>3, <2>4, NoneLive DEF QueueFits, Fitting
    <2>7. i \in InterruptTask
        BY <1>1
    <2>8. j.speech = prod.speech
        BY <2>7 DEF InterruptTask
    <2> HIDE DEF j
    <2>9. QueueFits' /\ EndLast'
        BY <1>1, <1>2, <2>1, <2>2, <2>3, <2>6 DEF QueueFits, Fitting, EndLast
    <2>10. CutsFit'
        BY <1>2, <2>1, <2>3, <2>8 DEF CutsFit
    <2>11. SpeechFits' /\ ActiveFits' /\ SlotOwed' /\ LoopFits' /\ EffectsFit'
        BY <1>2, <2>1, <2>3, <2>5 DEF SpeechFits, ActiveFits, SlotOwed, LoopFits, EffectsFit
    <2> QED
        BY <2>9, <2>10, <2>11 DEF Epochs
<1>9. ASSUME NEW i \in intr, InterruptFinish(i) PROVE Epochs'
    <2>1. /\ UNCHANGED <<active, playback, rec, segq, seg, eff, changed>>
          /\ i.pc = "wait" /\ (prod.st = "idle" \/ prod.speech # i.speech)
          /\ minEpoch' = AtLeast(minEpoch, prod.epoch + 1)
          /\ prod' = [prod EXCEPT !.epoch = @ + 1] /\ intr' = intr \ {i}
        BY <1>9 DEF InterruptFinish, responseVars, interruptFrame
    <2>2. prod.st = "idle"
        BY <1>2, <2>1 DEF CutsFit
    <2>3. minEpoch' \in Nat /\ minEpoch' >= minEpoch /\ minEpoch' > prod.epoch
        BY <1>1, <2>1 DEF AtLeast
    <2>4. prod'.epoch = prod.epoch + 1 /\ prod'.st = "idle" /\ prod'.cut = prod.cut /\ prod'.speech = prod.speech
        BY <1>1, <2>1, <2>2 DEF Producer
    <2>5. playback = 0 /\ active = 0
        BY <1>2, <2>2 DEF SlotOwed, Coordinated, ActiveHolds
    <2>6. \A k \in DOMAIN segq : segq[k].epoch < prod'.epoch /\ segq[k].epoch < minEpoch'
        BY <1>1, <1>2, <2>3, <2>4 DEF QueueFits, Fitting
    <2>7. QueueFits' /\ EndLast'
        BY <1>1, <1>2, <2>1, <2>3, <2>4, <2>6 DEF QueueFits, Fitting, EndLast
    <2>8. SpeechFits' /\ ActiveFits' /\ SlotOwed' /\ CutsFit' /\ LoopFits' /\ EffectsFit'
        BY <1>2, <2>1, <2>4, <2>5 DEF SpeechFits, ActiveFits, SlotOwed, CutsFit, LoopFits, EffectsFit
    <2> QED
        BY <2>7, <2>8 DEF Epochs
<1> QED
    BY <1>3, <1>4, <1>5, <1>6, <1>7, <1>8, <1>9 DEF TaskNext

\* Every step keeps the epochs.
LEMMA EpochsKept ==
    ASSUME TypeInv, Coordinated, Connected, Prompt, Epochs, [Next]_vars
    PROVE  Epochs'
<1>1. CASE Server
    <2>1. Open
        BY <1>1 DEF Server, ConnectionNext, AgentNext, Speak, EndSpeech, CutSpeech, PlayoutDone, EmitSegment,
               SegmentNext, SegmentSkip, SegmentBegin, SegmentRefused, SegmentBegun, PacketCheck, PacketSend, PacketCut,
               FinishSkip, FinishResponse, FinishRefused, FinishAcked, TakeItem, Item, ReaderNext, ReadCancel, ReadStarted,
               ReadEnded, ReadClose, ReadDisconnect, Read, TaskNext, EffectSend, EffectDone, CloseSent, SubmitCandidate,
               DecideCandidate, InterruptStart, InterruptFinish, TimeoutNext, ControlTimeout, WatchdogFire, Retire,
               InterruptTimeout
    <2>2. CASE TimeoutNext
        BY <2>2, CloseEpochs DEF TimeoutNext, ControlTimeout, WatchdogFire, Retire, InterruptTimeout, Causes
    <2> QED
        BY <1>1, <2>1, <2>2, AgentEpochs, SegmentEpochs, ReaderEpochs, TaskEpochs DEF Server, ConnectionNext
<1>2. CASE Endpoint \/ UNCHANGED vars
    <2>1. UNCHANGED <<active, playback, rec, minEpoch, segq, seg, changed, eff, intr, prod, status>>
        BY <1>2 DEF Endpoint, vars, responseVars, connectionVars
    <2> QED
        BY <2>1 DEF Epochs, Open, QueueFits, Fitting, EndLast, SpeechFits, ActiveFits, SlotOwed, EffectsFit, CutsFit,
                    LoopFits, Calm, Owned
<1> QED
    BY <1>1, <1>2 DEF Next, Finished

-----------------------------------------------------------------------------
(* The evidence the endpoint's reports rest on. *)

\* The packet was sent for the response in the slot.
InSlot(n) == rec[playback].first # None /\ n \in rec[playback].first .. rec[playback].last

\* The response in the slot has completed.
Closing == playback # 0 /\ rec[playback].outcome = "completed"

\* response.end of a completed response, and playback.started.
Finals == {m \in Message : m.type = "end" /\ m.outcome = "completed"}
Starts == Of("started")

\* A packet is of a response begun before, and if that is still the slot's, one
\* of its sequences; a final end names the last sequence of the slot's response.
Frames ==
    {m \in Message :
        /\ m.type = "media" => m.gen \in 1 .. generation /\ (m.gen = playback => InSlot(m.arg))
        /\ m \in Finals => Closing /\ m.arg = rec[playback].last}

\* The packets among them.
Packets == {m \in Frames : m.type = "media"}

\* The messages whose evidence the server will accept, or will refuse only for a
\* stop that crossed them or a failure of the hardware.
Facts ==
    {m \in Message :
        /\ m.type = "cancel" => m.gen # 0
        /\ m.type = "started" => playback # 0 /\ m.gen = playback /\ ~rec[playback].started /\ InSlot(m.arg)
        /\ m.type = "ended" =>
             /\ playback # 0 /\ m.outcome \in {"completed", "stopped", "failed"}
             /\ m.outcome = "completed" => Closing /\ m.played /\ m.arg = rec[playback].last
             /\ m.outcome = "failed" => Closing \/ dev = "playback_write"
             /\ m.outcome = "stopped" => rec[playback].stop
             /\ m.arg # None => m.played /\ InSlot(m.arg)}

\* The sequences of the slot's response.
SlotSpan ==
    /\ playback <= generation
    /\ playback # 0 /\ rec[playback].first # None =>
         rec[playback].first <= rec[playback].last /\ rec[playback].last < nextSeq

\* What the endpoint has to play, plays and takes for the end is the slot's.
Sounding == Running =>
    /\ down \in Seq(Frames) /\ cmdq \in Seq(Frames) /\ mediaq \in Seq(Packets)
    /\ task.pc # "loop" => task.gen \in 1 .. generation /\ (task.gen = playback => InSlot(task.seq))
    /\ pb.active /\ pb.sample # -1 => InSlot(pb.sample)
    /\ pb.active /\ pb.final # -1 => Closing /\ pb.final = rec[playback].last

\* A final end on its way is the only one, ahead of every stop, and its response
\* has still to be begun or is under way in WssSession.
EndsIn == Running =>
    /\ Once(down, Finals) /\ Before(down, Finals, Stops)
    /\ Has(down, Finals) \/ active # 0 => Has(down, Openings) \/ (ws.response /\ ws.stop = 0)

\* A playback is reported as started once, before its end is reported.
Evidence ==
    /\ factq \in Seq(Facts) /\ up \in Seq(Facts)
    /\ Once(factq, Starts) /\ Once(up, Starts)
    /\ Has(factq, Starts) => ~Has(up, Starts) /\ ~Has(up, Reports)
    /\ Before(factq, Starts, Reports) /\ Before(up, Starts, Reports)
    /\ Has(down, Openings) \/ Has(cmdq, Openings) \/ (pb.active /\ pb.sample = -1) =>
         ~rec[playback].started /\ ~Has(factq, Starts) /\ ~Has(up, Starts)

\* The evidence invariant.
Heard == SlotSpan /\ Sounding /\ EndsIn /\ Evidence

\* A queue whose messages are all of T.
LEMMA QueueOf ==
    ASSUME NEW S, NEW q \in Seq(S), NEW T, \A i \in DOMAIN q : q[i] \in T
    PROVE  q \in Seq(T)
OBVIOUS

\* The messages of a queue, and a larger set they are of.
LEMMA QueueIn ==
    ASSUME NEW S, NEW q \in Seq(S)
    PROVE  (\A i \in DOMAIN q : q[i] \in S) /\ \A T : S \subseteq T => q \in Seq(T)
<1>1. \A i \in DOMAIN q : q[i] \in S
    OBVIOUS
<1>2. ASSUME NEW T, S \subseteq T PROVE q \in Seq(T)
    BY <1>1, <1>2, QueueOf
<1> QED
    BY <1>1, <1>2

\* The fields of a record.
LEMMA SlotTypes ==
    ASSUME TypeInv
    PROVE  /\ generation \in Nat /\ playback \in Nat /\ nextSeq \in Nat /\ active \in Nat
           /\ rec \in [Gens -> Record]
           /\ (playback # 0 => /\ playback \in Gens /\ rec[playback] \in Record
                               /\ rec[playback].first \in Nat \cup {-1} /\ rec[playback].last \in Nat \cup {-1}
                               /\ rec[playback].stop \in BOOLEAN /\ rec[playback].started \in BOOLEAN)
<1>1. /\ ResponseTypeOK /\ playback \in Nat /\ nextSeq \in Nat /\ active \in Nat
      /\ \A g \in Gens : rec[g] \in Record
    BY TypeFacts
<1>2. \A r \in Record : r.first \in Nat \cup {-1} /\ r.last \in Nat \cup {-1} /\ r.stop \in BOOLEAN /\ r.started \in BOOLEAN
    BY DEF Record, MediaSeq, None
<1> QED
    BY <1>1, <1>2 DEF ResponseTypeOK

\* What a step of the server other than a begin or an accepted report keeps.
Grows ==
    /\ playback' = playback /\ dev' = dev /\ generation <= generation'
    /\ playback # 0 => /\ \A n : InSlot(n) => InSlot(n)'
                       /\ rec[playback].outcome = "completed" =>
                            rec'[playback].outcome = "completed" /\ rec'[playback].last = rec[playback].last
                       /\ rec[playback].stop => rec'[playback].stop

\* It keeps the frames and the facts.
LEMMA SetsGrow ==
    ASSUME TypeInv, TypeInv', Grows
    PROVE  /\ Frames \subseteq Frames' /\ Packets \subseteq Packets'
           /\ \A m \in Facts : (m.type = "started" => ~rec'[playback].started) => m \in Facts'
<1>1. generation \in Nat /\ generation' \in Nat /\ playback \in Nat
    BY SlotTypes DEF TypeInv, TypeOK, ResponseTypeOK
<1>2. Frames \subseteq Frames'
    <2> SUFFICES ASSUME NEW m \in Frames PROVE m \in Frames'
        OBVIOUS
    <2>1. m \in Message /\ m.gen \in Nat
        BY Fields DEF Frames
    <2>2. m.type = "media" => m.gen \in 1 .. generation' /\ (m.gen = playback' => InSlot(m.arg)')
        BY <1>1, <2>1 DEF Frames, Grows
    <2>3. m \in Finals => Closing' /\ m.arg = rec'[playback'].last
        BY DEF Frames, Grows, Closing
    <2> QED
        BY <2>1, <2>2, <2>3 DEF Frames
<1>3. Packets \subseteq Packets'
    BY <1>2 DEF Packets
<1>4. ASSUME NEW m \in Facts, m.type = "started" => ~rec'[playback].started PROVE m \in Facts'
    BY <1>4 DEF Facts, Grows, Closing
<1> QED
    BY <1>2, <1>3, <1>4

\* The quiet steps of the server grow.
LEMMA ServerGrows ==
    ASSUME TypeInv, Coordinated, Connected, Errands, SlotSpan, dev' = dev,
           \/ Unheard \/ Plays \/ Completes \/ Fences \/ Closes \/ Hears \/ Ignores \/ Answers
           \/ \E p \in Owners : EffectSend(p)
    PROVE  /\ Grows /\ SlotSpan' /\ (active' # 0 => active' = active)
           /\ playback # 0 /\ ~Hears => rec'[playback].started = rec[playback].started
<1>1. /\ generation \in Nat /\ playback \in Nat /\ nextSeq \in Nat /\ active \in Nat /\ rec \in [Gens -> Record]
      /\ (playback # 0 => /\ playback \in Gens /\ rec[playback] \in Record
                          /\ rec[playback].first \in Nat \cup {-1} /\ rec[playback].last \in Nat \cup {-1})
      /\ (active # 0 => active = playback /\ rec[playback].outcome = "none")
    BY SlotTypes DEF Coordinated, ActiveHolds
<1>2. ASSUME UNCHANGED <<playback, active, nextSeq>>, generation' \in Nat, generation <= generation',
             playback # 0 => /\ rec'[playback].first = rec[playback].first /\ rec'[playback].last = rec[playback].last
                             /\ rec'[playback].outcome = rec[playback].outcome /\ rec'[playback].stop = rec[playback].stop
      PROVE  Grows /\ SlotSpan' /\ (active' # 0 => active' = active)
    BY <1>1, <1>2 DEF Grows, SlotSpan, InSlot
<1>3. CASE Unheard \/ Ignores \/ Answers \/ \E p \in Owners : EffectSend(p)
    <2>1. UNCHANGED <<playback, active, nextSeq, generation, rec>>
        BY <1>3 DEF Unheard, Ignores, Answers, EffectSend, responseVars, effectFrame
    <2> QED
        BY <1>1, <1>2, <2>1
<1>4. CASE Closes
    <2>1. /\ UNCHANGED <<playback, active, nextSeq, rec>>
          /\ generation' = (IF target # 0 THEN generation + 1 ELSE generation)
        BY <1>4 DEF Closes, Close, CloseState
    <2> QED
        BY <1>1, <1>2, <2>1
<1>5. CASE Hears
    <2> DEFINE g == Head(up).gen
    <2>1. UNCHANGED <<playback, active, nextSeq, generation>> /\ rec' = [rec EXCEPT ![g].started = TRUE]
        BY <1>5 DEF Hears, PlaybackStarted
    <2>2. playback # 0 => /\ rec'[playback].first = rec[playback].first /\ rec'[playback].last = rec[playback].last
                          /\ rec'[playback].outcome = rec[playback].outcome /\ rec'[playback].stop = rec[playback].stop
        BY <1>1, <2>1 DEF Record
    <2> QED
        BY <1>1, <1>2, <1>5, <2>1, <2>2
<1>6. CASE Plays
    <2>1. /\ seg.gen = active /\ active # 0 /\ UNCHANGED <<playback, active, generation>> /\ nextSeq' = nextSeq + 1
          /\ rec' = [rec EXCEPT ![active].first = IF @ = None THEN nextSeq ELSE @, ![active].last = nextSeq]
        BY <1>6 DEF Plays, NoteMedia, Accepts
    <2>2. active = playback /\ playback # 0
        BY <1>1, <2>1
    <2>3. rec'[playback] = [rec[playback] EXCEPT !.first = IF rec[playback].first = None THEN nextSeq ELSE rec[playback].first,
                                                 !.last = nextSeq]
        BY <1>1, <2>1, <2>2
    <2>4. /\ rec'[playback].first = (IF rec[playback].first = None THEN nextSeq ELSE rec[playback].first)
          /\ rec'[playback].last = nextSeq /\ rec'[playback].stop = rec[playback].stop
          /\ rec'[playback].started = rec[playback].started
        BY <1>1, <2>2, <2>3 DEF Record
    <2>5. rec[playback].first # None => rec[playback].first <= rec[playback].last /\ rec[playback].last < nextSeq
        BY <2>2 DEF SlotSpan
    <2>6. ASSUME NEW n, InSlot(n) PROVE InSlot(n)'
        BY <1>1, <2>1, <2>2, <2>4, <2>5, <2>6 DEF InSlot, None
    <2>7. SlotSpan'
        BY <1>1, <2>1, <2>2, <2>4, <2>5 DEF SlotSpan, None
    <2> QED
        BY <1>1, <2>1, <2>2, <2>4, <2>6, <2>7 DEF Grows
<1>7. CASE Completes
    <2>1. /\ active = playback /\ active' = 0 /\ playback # 0 /\ UNCHANGED <<playback, generation, nextSeq>>
          /\ rec'[playback] = [rec[playback] EXCEPT !.outcome = "completed"]
        BY <1>7, CompleteRecord DEF Completes
    <2>2. /\ rec'[playback].first = rec[playback].first /\ rec'[playback].last = rec[playback].last
          /\ rec'[playback].outcome = "completed" /\ rec'[playback].stop = rec[playback].stop
          /\ rec'[playback].started = rec[playback].started
        BY <1>1, <2>1 DEF Record
    <2> QED
        BY <1>1, <2>1, <2>2 DEF Grows, SlotSpan, InSlot
<1>8. CASE Fences
    <2>1. /\ playback # 0 /\ active' = 0 /\ playback' = playback /\ generation' = generation + 1 /\ nextSeq' = nextSeq
          /\ rec'[playback] = [rec[playback] EXCEPT !.stop = TRUE,
                                 !.outcome = IF playback = active THEN "cancelled" ELSE @]
        BY <1>8, FenceRecord, TypeFacts DEF Fences
    <2>2. /\ rec'[playback].first = rec[playback].first /\ rec'[playback].last = rec[playback].last
          /\ rec'[playback].outcome = (IF playback = active THEN "cancelled" ELSE rec[playback].outcome)
          /\ rec'[playback].stop /\ rec'[playback].started = rec[playback].started
        BY <1>1, <2>1 DEF Record
    <2> QED
        BY <1>1, <2>1, <2>2 DEF Grows, SlotSpan, InSlot
<1> QED
    BY <1>3, <1>4, <1>5, <1>6, <1>7, <1>8

\* What those steps send.
LEMMA ServerFrames ==
    ASSUME TypeInv, Coordinated, Connected, Errands, SlotSpan, dev' = dev,
           \/ Unheard \/ Plays \/ Completes \/ Fences \/ Closes \/ Hears \/ Ignores \/ Answers
           \/ \E p \in Owners : EffectSend(p)
    PROVE  /\ Reads
           /\ \/ down' = down
              \/ \E m \in Message : /\ down' = Append(down, m) /\ m \in Frames' /\ m \notin Openings
                                    /\ m \in Finals => Completes
<1>1. /\ generation \in Nat /\ playback \in Nat /\ nextSeq \in Nat /\ active \in Nat /\ rec \in [Gens -> Record]
      /\ (playback # 0 => /\ playback \in Gens /\ rec[playback] \in Record
                          /\ rec[playback].first \in Nat \cup {-1} /\ rec[playback].last \in Nat \cup {-1})
      /\ (active # 0 => active = playback /\ rec[playback].outcome = "none")
    BY SlotTypes DEF Coordinated, ActiveHolds
<1>2. ASSUME NEW m \in Message, m.type \notin {"media", "begin"}, m.type = "end" => m.outcome # "completed"
      PROVE  m \in Frames' /\ m \notin Openings /\ m \notin Finals
    BY <1>2 DEF Frames, Openings, Of, Finals
<1>3. CloseMsg \in Message /\ CloseMsg.type = "close"
    BY <1>1, Messages DEF CloseMsg, Plain
<1>4. CloseMsg \in Frames' /\ CloseMsg \notin Openings /\ CloseMsg \notin Finals
    BY <1>2, <1>3
<1>5. CASE Unheard \/ Hears \/ Ignores
    BY <1>5 DEF Unheard, Hears, Ignores, wireVars, Reads, Read
<1>6. CASE Answers
    BY <1>3, <1>4, <1>6 DEF Answers, Reads, Read
<1>7. CASE Closes
    <2>1. down' = Append(down, CloseMsg) /\ Reads
        BY <1>7 DEF Closes, Close
    <2> QED
        BY <1>3, <1>4, <2>1
<1>8. ASSUME NEW p \in Owners, EffectSend(p)
      PROVE  up' = up /\ \E m \in Message : down' = Append(down, m) /\ m \in Frames' /\ m \notin Openings /\ m \notin Finals
    <2> DEFINE m == Head(eff[p].todo)
    <2>1. down' = Append(down, m) /\ m \in Message /\ up' = up /\ (m = CloseMsg \/ m = Cancelled(eff[p].gen))
        BY <1>8, NextErrand
    <2>2. m.type \notin {"media", "begin"} /\ (m.type = "end" => m.outcome # "completed")
        BY <2>1 DEF Cancelled, EndMsg, CloseMsg, Plain
    <2> HIDE DEF m
    <2> QED
        BY <1>2, <2>1, <2>2
<1>9. CASE Fences
    <2> DEFINE m == StopMsg(playback, generation + 1)
    <2>1. down' = Append(down, m) /\ m \in Message
        BY <1>9, FenceMessages DEF Fences
    <2>2. m.type = "stop"
        BY DEF StopMsg, Plain
    <2>3. Reads
        BY <1>9 DEF Fences, Reads
    <2> HIDE DEF m
    <2> QED
        BY <1>2, <2>1, <2>2, <2>3
<1>10. CASE Plays
    <2> DEFINE m == MediaMsg(seg.gen, nextSeq)
    <2>1. /\ seg.gen = active /\ active # 0 /\ active = playback /\ UNCHANGED <<playback, generation>> /\ Reads
          /\ rec' = [rec EXCEPT ![active].first = IF @ = None THEN nextSeq ELSE @, ![active].last = nextSeq]
          /\ down' = Append(down, m)
        BY <1>1, <1>10 DEF Plays, NoteMedia, Accepts, Send, Reads
    <2>2. m \in Message
        BY <1>1, <2>1, Messages
    <2>3. m.type = "media" /\ m.gen = playback /\ m.arg = nextSeq
        BY <2>1 DEF MediaMsg, Plain
    <2>4. rec'[playback] = [rec[playback] EXCEPT !.first = IF rec[playback].first = None THEN nextSeq ELSE rec[playback].first,
                                                 !.last = nextSeq]
        BY <1>1, <2>1
    <2>5. /\ rec'[playback].first = (IF rec[playback].first = None THEN nextSeq ELSE rec[playback].first)
          /\ rec'[playback].last = nextSeq
        BY <1>1, <2>1, <2>4 DEF Record
    <2>6. rec[playback].first # None => rec[playback].first <= rec[playback].last /\ rec[playback].last < nextSeq
        BY <2>1 DEF SlotSpan
    <2>7. nextSeq \in rec'[playback].first .. rec'[playback].last /\ rec'[playback].first # None
        BY <1>1, <2>1, <2>5, <2>6 DEF None
    <2>8. playback \in 1 .. generation'
        BY <1>1, <2>1 DEF SlotSpan
    <2>9. ASSUME NEW x \in Message, x.type = "media", x.gen = playback, x.arg = nextSeq
          PROVE  x \in Frames' /\ x \notin Openings /\ x \notin Finals
        <3>1. x \notin Finals /\ x \notin Openings
            BY <2>9 DEF Finals, Openings, Of
        <3>2. InSlot(x.arg)'
            BY <2>1, <2>7, <2>9 DEF InSlot
        <3> QED
            BY <2>1, <2>8, <2>9, <3>1, <3>2 DEF Frames
    <2> HIDE DEF m
    <2> QED
        BY <2>1, <2>2, <2>3, <2>9
<1>11. CASE Completes
    <2> DEFINE m == EndMsg(active, "completed", rec[active].last)
    <2>1. /\ active = playback /\ playback # 0 /\ UNCHANGED <<playback, generation>>
          /\ rec'[playback] = [rec[playback] EXCEPT !.outcome = "completed"]
        BY <1>11, CompleteRecord DEF Completes
    <2>2. down' = Append(down, m) /\ Reads
        BY <1>11 DEF Completes, Send, Reads
    <2>3. m \in Message
        BY <1>1, <2>1, Messages
    <2>4. m.type = "end" /\ m.arg = rec[playback].last
        BY <2>1 DEF EndMsg, Plain
    <2>5. Closing' /\ rec'[playback'].last = rec[playback].last
        BY <1>1, <2>1 DEF Closing, Record
    <2> HIDE DEF m
    <2>6. m \in Frames' /\ m \notin Openings
        BY <2>3, <2>4, <2>5 DEF Frames, Openings, Of
    <2> QED
        BY <1>11, <2>2, <2>3, <2>6
<1> QED
    BY <1>5, <1>6, <1>7, <1>8, <1>9, <1>10, <1>11 DEF Reads

\* A queue of facts stays one if nothing has started meanwhile.
LEMMA FactsStay ==
    ASSUME TypeInv, TypeInv', Grows, NEW q \in Seq(Facts),
           \/ ~Has(q, Starts)
           \/ playback # 0 => rec'[playback].started = rec[playback].started
    PROVE  q \in Seq(Facts')
<1>1. \A i \in DOMAIN q : q[i] \in Facts
    BY QueueIn
<1>2. ASSUME NEW i \in DOMAIN q PROVE q[i] \in Facts'
    <2>1. q[i] \in Facts /\ q[i] \in Message
        BY <1>1 DEF Facts
    <2>2. q[i].type = "started" => ~rec'[playback].started
        <3> SUFFICES ASSUME q[i].type = "started" PROVE ~rec'[playback].started
            OBVIOUS
        <3>1. q[i] \in Starts
            BY <2>1 DEF Starts, Of
        <3>2. Has(q, Starts)
            BY <3>1 DEF Has
        <3>3. playback # 0 /\ ~rec[playback].started
            BY <2>1 DEF Facts
        <3> QED
            BY <3>2, <3>3
    <2> QED
        BY <2>1, <2>2, SetsGrow
<1> QED
    BY <1>2, QueueOf

\* The steps of the server that neither begin nor free a response.
LEMMA GrowHeard ==
    ASSUME TypeInv, TypeInv', Coordinated, Connected, Errands, Life, StopsAgree, Heard, UNCHANGED endpointVars,
           \/ Unheard \/ Plays \/ Completes \/ Fences \/ Closes \/ Hears \/ Ignores \/ Answers
           \/ \E p \in Owners : EffectSend(p)
    PROVE  Heard'
<1> USE DEF Heard
<1>1. /\ UNCHANGED <<cmdq, mediaq, factq, pb, task, ws, dev>> /\ down \in Seq(Message) /\ up \in Seq(Message)
      /\ factq \in Seq(Message) /\ pb.active \in BOOLEAN
    BY EndpointTypes DEF endpointVars
<1>2. /\ Grows /\ SlotSpan' /\ (active' # 0 => active' = active)
      /\ playback # 0 /\ ~Hears => rec'[playback].started = rec[playback].started
    BY <1>1, ServerGrows
<1>3. /\ Reads
      /\ \/ down' = down
         \/ \E m \in Message : /\ down' = Append(down, m) /\ m \in Frames' /\ m \notin Openings
                               /\ m \in Finals => Completes
    BY <1>1, ServerFrames
<1>4. /\ Frames \subseteq Frames' /\ Packets \subseteq Packets'
    BY <1>2, SetsGrow
<1>5. playback' = playback /\ generation \in Nat /\ generation' \in Nat /\ generation <= generation'
    BY <1>2, SlotTypes DEF Grows, TypeInv, TypeOK, ResponseTypeOK
<1>6. Sounding'
    <2> SUFFICES ASSUME Running PROVE Sounding'
        BY <1>1 DEF Sounding, Running
    <2>1. down \in Seq(Frames) /\ cmdq \in Seq(Frames) /\ mediaq \in Seq(Packets)
        BY DEF Sounding
    <2>2. down \in Seq(Frames') /\ cmdq \in Seq(Frames') /\ mediaq \in Seq(Packets')
        BY <1>4, <2>1, QueueIn
    <2>3. down' \in Seq(Frames')
        BY <1>3, <2>2, Queue
    <2>4. task.pc # "loop" => task.gen \in 1 .. generation' /\ (task.gen = playback => InSlot(task.seq)')
        <3> SUFFICES ASSUME task.pc # "loop"
                     PROVE  task.gen \in 1 .. generation' /\ (task.gen = playback => InSlot(task.seq)')
            OBVIOUS
        <3>1. task.gen \in 1 .. generation /\ (task.gen = playback => InSlot(task.seq))
            BY DEF Sounding
        <3> QED
            BY <1>1, <1>2, <1>5, <3>1 DEF Grows, InSlot
    <2>5. pb.active => playback # 0
        BY DEF Life, InFlight
    <2>6. pb.active /\ pb.sample # -1 => InSlot(pb.sample)'
        BY <1>1, <1>2, <2>5 DEF Sounding, Grows, InSlot
    <2>7. pb.active /\ pb.final # -1 => Closing' /\ pb.final = rec'[playback'].last
        BY <1>1, <1>2, <2>5 DEF Sounding, Grows, Closing
    <2> QED
        BY <1>1, <1>5, <2>2, <2>3, <2>4, <2>6, <2>7 DEF Sounding
<1>7. EndsIn'
    <2> SUFFICES ASSUME Running PROVE EndsIn'
        BY <1>1 DEF EndsIn, Running
    <2>1. /\ Once(down, Finals) /\ Before(down, Finals, Stops)
          /\ Has(down, Finals) \/ active # 0 => Has(down, Openings) \/ (ws.response /\ ws.stop = 0)
        BY DEF EndsIn
    <2>2. CASE down' = down
        BY <1>1, <1>2, <2>1, <2>2 DEF EndsIn
    <2>3. ASSUME NEW m \in Message, down' = Append(down, m), m \notin Finals
          PROVE  EndsIn'
        <3>1. Once(down', Finals) /\ (Has(down', Finals) => Has(down, Finals)) /\ (Has(down, Openings) => Has(down', Openings))
            BY <1>1, <2>1, <2>3, AppendQueue DEF NoMore
        <3>2. Before(down', Finals, Stops)
            BY <1>1, <2>1, <2>3, AppendBefore
        <3> QED
            BY <1>1, <1>2, <2>1, <3>1, <3>2 DEF EndsIn
    <2>4. ASSUME NEW m \in Message, down' = Append(down, m), m \in Finals, Completes
          PROVE  EndsIn'
        <3>1. active # 0 /\ ~Closing /\ ~rec[playback].stop
            BY <2>4 DEF Completes, Closing, Coordinated, ActiveHolds
        <3>2. ~Has(down, Finals)
            <4>1. \A i \in DOMAIN down : down[i] \in Frames
                BY QueueIn DEF Sounding
            <4> QED
                BY <3>1, <4>1 DEF Has, Frames
        <3>3. ~Has(down, Stops)
            BY <3>1 DEF StopsAgree
        <3>4. Once(down', Finals) /\ (Has(down, Openings) => Has(down', Openings))
            BY <1>1, <2>1, <2>4, <3>2, AppendQueue
        <3>5. m \notin Stops
            BY <2>4 DEF Stops, Of, Finals
        <3>6. Before(down', Finals, Stops)
            BY <1>1, <2>1, <2>4, <3>3, <3>5, AppendBefore
        <3> QED
            BY <1>1, <2>1, <3>1, <3>4, <3>6 DEF EndsIn
    <2> QED
        BY <1>3, <2>2, <2>3, <2>4
<1>8. Evidence'
    <2>1. /\ factq \in Seq(Facts) /\ up \in Seq(Facts) /\ Once(factq, Starts) /\ Once(up, Starts)
          /\ (Has(factq, Starts) => ~Has(up, Starts) /\ ~Has(up, Reports))
          /\ Before(factq, Starts, Reports) /\ Before(up, Starts, Reports)
        BY DEF Evidence
    <2>2. /\ up' \in Seq(Facts) /\ Once(up', Starts) /\ (Has(up', Starts) => Has(up, Starts))
          /\ (Has(up', Reports) => Has(up, Reports)) /\ Before(up', Starts, Reports)
        <3>1. CASE up' = up
            BY <2>1, <3>1
        <3>2. CASE up # <<>> /\ up' = Tail(up)
            <4>1. Tail(up) \in Seq(Facts)
                BY <2>1, <3>2, Queue
            <4>2. NoMore(up, Tail(up), Starts) /\ NoMore(up, Tail(up), Reports) /\ Before(Tail(up), Starts, Reports)
                BY <1>1, <2>1, <3>2, TailQueue, TailBefore
            <4> QED
                BY <2>1, <3>2, <4>1, <4>2 DEF NoMore
        <3> QED
            BY <1>3, <3>1, <3>2 DEF Reads
    <2>3. Has(down', Openings) => Has(down, Openings)
        BY <1>1, <1>3, AppendQueue
    <2>4. CASE ~Hears
        <3>1. factq \in Seq(Facts') /\ up' \in Seq(Facts')
            BY <1>2, <2>1, <2>2, <2>4, FactsStay
        <3>2. InFlight => playback # 0
            BY DEF Life
        <3>3. Has(down, Openings) \/ Has(cmdq, Openings) \/ (pb.active /\ pb.sample = -1) =>
                 ~rec'[playback].started /\ ~Has(factq, Starts) /\ ~Has(up, Starts)
            BY <1>2, <2>4, <3>2 DEF Evidence, InFlight
        <3> QED
            BY <1>1, <1>5, <2>1, <2>2, <2>3, <3>1, <3>3 DEF Evidence
    <2>5. CASE Hears
        <3>1. up # <<>> /\ up' = Tail(up) /\ Head(up) \in Starts
            BY <1>1, <2>5, Queue, OtherType DEF Hears, Read, Starts
        <3>2. Has(up, Starts) /\ ~Has(up', Starts)
            BY <1>1, <2>1, <3>1, TailQueue
        <3>3. ~Has(factq, Starts)
            BY <2>1, <3>2
        <3>4. factq \in Seq(Facts') /\ up' \in Seq(Facts')
            BY <1>2, <2>1, <2>2, <3>2, <3>3, FactsStay
        <3>5. ~(Has(down, Openings) \/ Has(cmdq, Openings) \/ (pb.active /\ pb.sample = -1))
            BY <3>2 DEF Evidence
        <3> QED
            BY <1>1, <2>1, <2>2, <2>3, <3>3, <3>4, <3>5 DEF Evidence
    <2> QED
        BY <2>4, <2>5
<1> QED
    BY <1>2, <1>6, <1>7, <1>8

\* A new response finds nothing of another on its way.
LEMMA BeginHeard ==
    ASSUME TypeInv, TypeInv', Life, Heard, UNCHANGED endpointVars, Begins
    PROVE  Heard'
<1> DEFINE g == generation + 1
           m == BeginMsg(g)
<1> USE DEF Heard
<1>1. /\ UNCHANGED <<cmdq, mediaq, factq, pb, task, ws, dev>> /\ down \in Seq(Message) /\ up \in Seq(Message)
      /\ factq \in Seq(Message) /\ cmdq \in Seq(Message) /\ generation \in Nat /\ rec \in [Gens -> Record] /\ nextSeq \in Nat
    BY EndpointTypes, SlotTypes DEF endpointVars
<1>2. /\ playback = 0 /\ playback' = g /\ generation' = g /\ up' = up /\ down' = Append(down, m)
      /\ active' = g
      /\ \E e : rec' = [rec EXCEPT ![g] = NewRecord(e)]
    BY <1>1 DEF Begins, Begin, BeginFresh, Send
<1>3. g \in Gens
    BY <1>1, <1>2, ResponseAssumption DEF Begins, Begin, Gens
<1>4. rec'[g].first = None /\ ~rec'[g].started
    BY <1>1, <1>2, <1>3 DEF NewRecord
<1>5. m \in Message /\ m \in Openings /\ m.type = "begin"
    <2>1. g \in Nat /\ nextSeq \in Nat
        BY <1>1
    <2>2. m \in Message
        BY <2>1, Messages
    <2> QED
        BY <2>2 DEF Openings, Of, BeginMsg, Plain
<1> HIDE DEF m
<1>6. ~Has(down, Openings) /\ ~Has(cmdq, Openings) /\ ~pb.active /\ ~Has(factq, Reports) /\ ~Has(up, Reports)
    BY <1>2 DEF Life, InFlight
<1>7. SlotSpan'
    BY <1>1, <1>2, <1>4 DEF SlotSpan
<1>8. Sounding'
    <2> SUFFICES ASSUME Running PROVE Sounding'
        BY <1>1 DEF Sounding, Running
    <2>1. down \in Seq(Frames) /\ cmdq \in Seq(Frames) /\ mediaq \in Seq(Packets)
        BY DEF Sounding
    <2>2. Frames \subseteq Frames' /\ Packets \subseteq Packets'
        <3>1. ASSUME NEW x \in Frames PROVE x \in Frames'
            <4>1. x \in Message /\ x \notin Finals /\ (x.type = "media" => x.gen \in 1 .. generation)
                BY <1>2 DEF Frames, Closing
            <4>2. x.type = "media" => x.gen \in 1 .. generation' /\ x.gen # playback'
                BY <1>1, <1>2, <4>1
            <4> QED
                BY <4>1, <4>2 DEF Frames
        <3> QED
            BY <3>1 DEF Packets
    <2>3. down \in Seq(Frames') /\ cmdq \in Seq(Frames') /\ mediaq \in Seq(Packets')
        BY <2>1, <2>2, QueueIn
    <2>4. m \in Frames'
        BY <1>5 DEF Frames, Finals
    <2>5. down' \in Seq(Frames')
        BY <1>2, <2>3, <2>4, Queue
    <2>6. task.pc # "loop" => task.gen \in 1 .. generation' /\ task.gen # playback'
        BY <1>1, <1>2 DEF Sounding
    <2> QED
        BY <1>1, <1>6, <2>3, <2>5, <2>6 DEF Sounding
<1>9. EndsIn'
    <2> SUFFICES ASSUME Running PROVE EndsIn'
        BY <1>1 DEF EndsIn, Running
    <2>1. Has(down', Openings)
        BY <1>1, <1>2, <1>5, AppendQueue
    <2>2. m \notin Finals
        BY <1>5 DEF Finals
    <2>3. Once(down', Finals) /\ Before(down', Finals, Stops)
        BY <1>1, <1>2, <1>5, <2>2, AppendQueue, AppendBefore DEF EndsIn, NoMore
    <2> QED
        BY <2>1, <2>3 DEF EndsIn
<1>10. Evidence'
    <2>1. /\ factq \in Seq(Facts) /\ up \in Seq(Facts) /\ Before(factq, Starts, Reports) /\ Before(up, Starts, Reports)
        BY DEF Evidence
    <2>2. ASSUME NEW x \in Facts PROVE x \in Facts' /\ x \notin Starts
        BY <1>2, <2>2 DEF Facts, Starts, Of
    <2>3. factq \in Seq(Facts') /\ up \in Seq(Facts')
        <3>1. Facts \subseteq Facts'
            BY <2>2
        <3> QED
            BY <2>1, <3>1, QueueIn
    <2>4. ~Has(factq, Starts) /\ ~Has(up, Starts)
        BY <2>1, <2>2, QueueIn DEF Has
    <2> QED
        BY <1>1, <1>2, <1>4, <2>1, <2>3, <2>4, NoneIn DEF Evidence
<1> QED
    BY <1>7, <1>8, <1>9, <1>10

\* A report that is accepted leaves nothing of its response on its way.
LEMMA FreeHeard ==
    ASSUME TypeInv, TypeInv', Coordinated, Life, StopsAgree, Commands, Heard, UNCHANGED endpointVars, Frees
    PROVE  Heard'
<1> USE DEF Heard
<1>1. /\ UNCHANGED <<cmdq, mediaq, factq, pb, task, ws, dev>> /\ down \in Seq(Message) /\ up \in Seq(Message)
      /\ factq \in Seq(Message) /\ generation \in Nat
    BY EndpointTypes, SlotTypes DEF endpointVars
<1>2. /\ up # <<>> /\ up' = Tail(up) /\ Head(up).type = "ended" /\ playback' = 0
      /\ UNCHANGED <<down, active, generation>>
    BY DEF Frees, Read, PlaybackEnded
<1>3. Head(up) \in Reports
    BY <1>1, <1>2, Queue, OtherType DEF Reports
<1>4. Has(up, Reports) /\ ~Has(up', Reports) /\ Head(up).gen = playback
    BY <1>1, <1>2, <1>3, TailQueue DEF Life
<1>5. ~Has(down, Openings) /\ ~Has(cmdq, Openings) /\ ~pb.active /\ ~Has(factq, Reports) /\ playback # 0
    BY <1>4 DEF Life, OneOf, InFlight
<1>6. active = 0
    <2>1. Head(up).outcome \in Expected(rec[playback])
        BY <1>4 DEF Frees, EndedError
    <2> QED
        BY <2>1 DEF Expected, Coordinated, ActiveHolds
<1>7. SlotSpan'
    BY <1>1, <1>2 DEF SlotSpan
<1>8. Running => Idle /\ ~Has(down, Finals)
    <2> SUFFICES ASSUME Running PROVE Idle /\ ~Has(down, Finals)
        OBVIOUS
    <2>1. Idle
        BY FreedIdle
    <2> QED
        BY <1>5, <2>1 DEF EndsIn, Idle
<1>9. Sounding'
    <2> SUFFICES ASSUME Running PROVE Sounding'
        BY <1>1 DEF Sounding, Running
    <2>1. down \in Seq(Frames) /\ mediaq \in Seq(Packets) /\ cmdq = <<>>
        BY <1>8 DEF Sounding, Idle
    <2>2. ASSUME NEW x \in Frames, x \notin Finals PROVE x \in Frames'
        BY <1>2, <2>2 DEF Frames
    <2>3. down \in Seq(Frames')
        <3>1. \A i \in DOMAIN down : down[i] \in Frames /\ down[i] \notin Finals
            BY <1>8, <2>1, QueueIn DEF Has
        <3>2. \A i \in DOMAIN down : down[i] \in Frames'
            BY <2>2, <3>1
        <3> QED
            BY <1>1, <3>2, QueueOf
    <2>4. Packets \subseteq Packets'
        BY <2>2 DEF Packets, Finals
    <2>5. mediaq \in Seq(Packets')
        BY <2>1, <2>4, QueueIn
    <2>6. task.pc # "loop" => task.gen \in 1 .. generation' /\ task.gen # playback'
        BY <1>1, <1>2 DEF Sounding
    <2> QED
        BY <1>1, <1>2, <1>5, <2>1, <2>3, <2>5, <2>6 DEF Sounding
<1>10. EndsIn'
    BY <1>1, <1>2, <1>6, <1>8 DEF EndsIn, Running
<1>11. Evidence'
    <2>1. /\ factq \in Seq(Facts) /\ up \in Seq(Facts) /\ Before(factq, Starts, Reports) /\ Before(up, Starts, Reports)
          /\ (Has(factq, Starts) => ~Has(up, Starts) /\ ~Has(up, Reports))
        BY DEF Evidence
    <2>2. ~Has(factq, Starts) /\ ~Has(up, Starts)
        BY <1>1, <1>2, <1>3, <1>4, <2>1, TailBefore
    <2>3. ~Has(up', Starts) /\ up' \in Seq(Facts)
        BY <1>1, <1>2, <2>1, <2>2, Queue, TailQueue
    <2>4. ASSUME NEW q \in Seq(Facts), ~Has(q, Starts), ~Has(q, Reports) PROVE q \in Seq(Facts')
        <3>1. \A i \in DOMAIN q : q[i] \in Facts /\ q[i] \notin Starts /\ q[i] \notin Reports
            BY <2>4, QueueIn DEF Has
        <3>2. \A i \in DOMAIN q : q[i] \in Facts'
            BY <3>1 DEF Facts, Starts, Reports, Of
        <3> QED
            BY <3>2, QueueOf
    <2>5. factq \in Seq(Facts') /\ up' \in Seq(Facts')
        BY <1>4, <1>5, <2>1, <2>2, <2>3, <2>4
    <2>6. Before(up', Starts, Reports)
        BY <2>3 DEF Before, Has
    <2> QED
        BY <1>1, <1>2, <1>5, <2>1, <2>2, <2>3, <2>5, <2>6, NoneIn DEF Evidence
<1> QED
    BY <1>7, <1>9, <1>10, <1>11

\* The server's steps.
LEMMA ServerHeard ==
    ASSUME TypeInv, TypeInv', Coordinated, Connected, Errands, Life, Accounts, Heard, Server
    PROVE  Heard'
BY ServerKinds, GrowHeard, BeginHeard, FreeHeard DEF Server, Accounts

-----------------------------------------------------------------------------
(* The endpoint's steps. *)

\* The server's account does not change, and a failure of the hardware stays.
LEMMA EndpointSets ==
    ASSUME UNCHANGED <<responseVars, connectionVars>>, dev = "running" \/ dev' = dev
    PROVE  /\ UNCHANGED <<playback, rec, generation, active, nextSeq>>
           /\ Frames' = Frames /\ Packets' = Packets /\ Facts \subseteq Facts' /\ (Closing' <=> Closing)
           /\ \A n : InSlot(n)' <=> InSlot(n)
<1>1. UNCHANGED <<playback, rec, generation, active, nextSeq>>
    BY DEF responseVars, connectionVars
<1>2. (Closing' <=> Closing) /\ \A n : InSlot(n)' <=> InSlot(n)
    BY <1>1 DEF Closing, InSlot
<1>3. Frames' = Frames
    BY <1>1, <1>2 DEF Frames
<1>4. Facts \subseteq Facts'
    BY <1>1, <1>2 DEF Facts
<1> QED
    BY <1>1, <1>2, <1>3, <1>4 DEF Packets

\* A frame is admitted.
LEMMA AdmitHeard ==
    ASSUME TypeInv, TypeInv', Coordinated, Life, Accounts, Heard, UNCHANGED <<responseVars, connectionVars>>,
           ReceiveBegin \/ ReceiveEnd \/ ReceiveStop \/ ReceiveMedia
    PROVE  Heard'
<1> DEFINE m == Head(down)
<1> USE DEF Heard
<1>1. /\ m \in Message /\ m.type # "close" /\ Fits(ws, m, ws') /\ ws' \in WssState /\ dev' = dev
      /\ cmdq' = (IF Commanded(m) THEN Append(cmdq, m) ELSE cmdq)
      /\ mediaq' = (IF m.type = "media" THEN Append(IF MediaFull THEN Tail(mediaq) ELSE mediaq, m) ELSE mediaq)
      /\ UNCHANGED <<factq, pb, task, up>> /\ down # <<>> /\ down' = Tail(down) /\ Running
    BY Admits DEF Accounts
<1>2. /\ UNCHANGED <<playback, rec, generation, active, nextSeq>>
      /\ Frames' = Frames /\ Packets' = Packets /\ Facts \subseteq Facts' /\ (Closing' <=> Closing)
      /\ \A n : InSlot(n)' <=> InSlot(n)
    BY <1>1, EndpointSets
<1>3. /\ down \in Seq(Message) /\ cmdq \in Seq(Message) /\ ws \in WssState
      /\ down \in Seq(Frames) /\ cmdq \in Seq(Frames) /\ mediaq \in Seq(Packets)
      /\ Once(down, Finals) /\ Before(down, Finals, Stops)
      /\ Has(down, Finals) \/ active # 0 => Has(down, Openings) \/ (ws.response /\ ws.stop = 0)
    BY <1>1, EndpointTypes DEF Sounding, EndsIn
<1>4. SlotSpan'
    BY <1>2 DEF SlotSpan
<1>5. m \in Frames /\ down' \in Seq(Frames)
    BY <1>1, <1>3, Queue
<1> HIDE DEF m
<1>6. Sounding'
    <2>1. cmdq' \in Seq(Frames)
        BY <1>1, <1>3, <1>5, Queue
    <2>2. mediaq' \in Seq(Packets)
        <3>1. CASE m.type # "media"
            BY <1>1, <1>3, <3>1
        <3>2. CASE m.type = "media"
            <4>1. m \in Packets
                BY <1>5, <3>2 DEF Packets
            <4>2. CASE MediaFull
                <5>1. mediaq # <<>>
                    BY <4>2, EndpointAssumption DEF MediaFull
                <5>2. Tail(mediaq) \in Seq(Packets)
                    BY <1>3, <5>1, Queue
                <5> QED
                    BY <1>1, <3>2, <4>1, <4>2, <5>2, Queue
            <4>3. CASE ~MediaFull
                BY <1>1, <1>3, <3>2, <4>1, <4>3, Queue
            <4> QED
                BY <4>2, <4>3
        <3> QED
            BY <3>1, <3>2
    <2> QED
        BY <1>1, <1>2, <1>5, <2>1, <2>2 DEF Sounding, InSlot
<1>7. EndsIn'
    <2>1. /\ NoMore(down, down', Finals) /\ Before(down', Finals, Stops)
          /\ (Has(down, Openings) <=> m \in Openings \/ Has(down', Openings))
          /\ (m \in Finals => ~Has(down', Finals)) /\ (m \in Stops => ~Has(down, Finals))
        BY <1>1, <1>3, TailQueue, TailBefore DEF m
    <2>2. Once(down', Finals) /\ (Has(down', Finals) => Has(down, Finals))
        BY <1>3, <2>1 DEF NoMore
    <2>3. Has(down', Finals) \/ active # 0 => Has(down', Openings) \/ (ws'.response /\ ws'.stop = 0)
        <3> SUFFICES ASSUME Has(down', Finals) \/ active # 0 PROVE Has(down', Openings) \/ (ws'.response /\ ws'.stop = 0)
            OBVIOUS
        <3>1. Has(down, Openings) \/ (ws.response /\ ws.stop = 0)
            BY <1>3, <2>2
        <3>2. CASE m.type = "begin"
            <4>1. ws' = [ws EXCEPT !.response = TRUE, !.media = TRUE, !.gen = m.gen, !.fence = m.gen, !.stop = 0]
                BY <1>1, <1>3, <3>2, FitsKinds
            <4> QED
                BY <1>3, <4>1 DEF WssState
        <3>3. CASE m.type = "media"
            <4>1. ws' = [ws EXCEPT !.next = @ + 1]
                BY <1>1, <1>3, <3>3, FitsKinds
            <4>2. ws'.response = ws.response /\ ws'.stop = ws.stop
                BY <1>3, <4>1 DEF WssState
            <4>3. m \notin Openings
                BY <3>3 DEF Openings, Of
            <4> QED
                BY <2>1, <3>1, <4>2, <4>3
        <3>4. CASE m.type = "stop"
            <4>1. m \in Stops
                BY <1>1, <3>4, OtherType DEF Stops
            <4>2. ~Has(down', Finals)
                BY <2>1, <2>2, <4>1
            <4>3. Has(down, Stops)
                BY <1>1, <1>3, <4>1, TailQueue DEF m
            <4>4. playback # 0 /\ rec[playback].stop
                BY <1>1, <4>3 DEF Accounts, StopsAgree
            <4> QED
                BY <4>2, <4>4 DEF Coordinated, ActiveHolds
        <3>5. CASE m.type = "end" /\ m.outcome = "completed"
            <4>1. m \in Finals
                BY <1>1, <3>5 DEF Finals
            <4>2. ~Has(down', Finals) /\ Closing
                BY <1>5, <2>1, <4>1 DEF Frames
            <4> QED
                BY <4>2 DEF Closing, Coordinated, ActiveHolds
        <3>6. CASE m.type = "end" /\ m.outcome # "completed"
            <4>1. ws.stop # 0
                BY <1>1, <1>3, <3>6, FitsKinds
            <4>2. m \notin Openings
                BY <3>6 DEF Openings, Of
            <4> QED
                BY <2>1, <3>1, <4>1, <4>2
        <3> QED
            BY <1>1, <1>3, <3>2, <3>3, <3>4, <3>5, <3>6, FitsKinds
    <2> QED
        BY <1>2, <2>1, <2>2, <2>3 DEF EndsIn
<1>8. Evidence'
    <2>1. factq \in Seq(Facts') /\ up \in Seq(Facts')
        BY <1>2, QueueIn DEF Evidence
    <2>2. (Has(down', Openings) => Has(down, Openings)) /\ (m \in Openings => Has(down, Openings))
        BY <1>1, <1>3, TailQueue DEF m
    <2>3. Has(cmdq', Openings) => Has(cmdq, Openings) \/ m \in Openings
        BY <1>1, <1>3, AppendQueue
    <2> QED
        BY <1>1, <1>2, <2>1, <2>2, <2>3 DEF Evidence
<1> QED
    BY <1>4, <1>6, <1>7, <1>8

\* The supervisor's other steps.
LEMMA SupervisorHeard ==
    ASSUME TypeInv, Life, Heard, UNCHANGED <<responseVars, connectionVars>>,
           ReceiveClose \/ SendFact \/ StopDevice \/ Disconnect \/ CancelRequest
    PROVE  Heard'
<1> USE DEF Heard
<1>1. /\ down \in Seq(Message) /\ up \in Seq(Message) /\ factq \in Seq(Message) /\ ws.gen \in Nat
      /\ factq \in Seq(Facts) /\ up \in Seq(Facts) /\ Once(factq, Starts) /\ Once(up, Starts)
      /\ (Has(factq, Starts) => ~Has(up, Starts) /\ ~Has(up, Reports))
      /\ Before(factq, Starts, Reports) /\ Before(up, Starts, Reports)
    BY EndpointTypes DEF Evidence
<1>2. /\ dev = "running" \/ dev' = dev
      /\ UNCHANGED <<cmdq, mediaq, pb, task, ws>>
    BY DEF ReceiveClose, SendFact, StopDevice, Disconnect, CancelRequest, Take, taskVars, endpointVars
<1>3. /\ UNCHANGED <<playback, rec, generation, active, nextSeq>>
      /\ Frames' = Frames /\ Packets' = Packets /\ Facts \subseteq Facts' /\ (Closing' <=> Closing)
      /\ \A n : InSlot(n)' <=> InSlot(n)
    BY <1>2, EndpointSets
<1>4. SlotSpan'
    BY <1>3 DEF SlotSpan
<1>5. dev' # "running" \/ UNCHANGED <<down, dev>>
    BY DEF ReceiveClose, SendFact, StopDevice, Disconnect, CancelRequest, endpointVars
<1>6. Sounding'
    <2>1. CASE dev' # "running"
        BY <2>1 DEF Sounding, Running
    <2>2. CASE UNCHANGED <<down, dev>>
        BY <1>2, <1>3, <2>2 DEF Sounding, Running, InSlot
    <2> QED
        BY <1>5, <2>1, <2>2
<1>7. EndsIn'
    <2>1. CASE dev' # "running"
        BY <2>1 DEF EndsIn, Running
    <2>2. CASE UNCHANGED <<down, dev>>
        BY <1>2, <1>3, <2>2 DEF EndsIn, Running
    <2> QED
        BY <1>5, <2>1, <2>2
<1>8. Has(down', Openings) => Has(down, Openings)
    BY <1>1, TailQueue DEF ReceiveClose, SendFact, StopDevice, Disconnect, CancelRequest, Take, endpointVars
<1>9. ASSUME /\ factq' \in Seq(Facts) /\ up' \in Seq(Facts) /\ Once(factq', Starts) /\ Once(up', Starts)
             /\ (Has(factq', Starts) => ~Has(up', Starts) /\ ~Has(up', Reports))
             /\ Before(factq', Starts, Reports) /\ Before(up', Starts, Reports)
             /\ (Has(factq', Starts) \/ Has(up', Starts) => Has(factq, Starts) \/ Has(up, Starts))
      PROVE  Evidence'
    <2>1. factq' \in Seq(Facts') /\ up' \in Seq(Facts')
        BY <1>3, <1>9, QueueIn
    <2> QED
        BY <1>2, <1>3, <1>8, <1>9, <2>1 DEF Evidence
<1>10. Evidence'
    <2>1. CASE ReceiveClose
        BY <1>1, <1>9, <2>1 DEF ReceiveClose, Take, taskVars
    <2>2. CASE StopDevice \/ CancelRequest
        <3>1. PICK m \in Message : /\ m.type \notin {"started", "ended"} /\ m \in Facts
                                   /\ up' = Append(up, m) /\ factq' = factq
            <4>1. CloseMsg \in Message /\ CloseMsg.type = "close"
                BY <1>1, Messages DEF CloseMsg, Plain
            <4>2. CloseMsg \in Facts
                BY <4>1 DEF Facts
            <4>3. ASSUME ws.gen # 0
                  PROVE  /\ CancelMsg(ws.gen, ws.gen) \in Message /\ CancelMsg(ws.gen, ws.gen).type = "cancel"
                         /\ CancelMsg(ws.gen, ws.gen) \in Facts
                <5>1. /\ CancelMsg(ws.gen, ws.gen) \in Message /\ CancelMsg(ws.gen, ws.gen).type = "cancel"
                      /\ CancelMsg(ws.gen, ws.gen).gen = ws.gen
                    BY <1>1, Messages DEF CancelMsg, Plain
                <5> QED
                    BY <4>3, <5>1 DEF Facts
            <4> QED
                BY <2>2, <4>1, <4>2, <4>3 DEF StopDevice, CancelRequest, endpointVars
        <3>2. m \notin Starts /\ m \notin Reports
            BY <3>1 DEF Starts, Reports, Of
        <3>3. /\ up' \in Seq(Facts) /\ NoMore(up, up', Starts) /\ NoMore(up, up', Reports)
              /\ Before(up', Starts, Reports)
            BY <1>1, <3>1, <3>2, Queue, AppendQueue, AppendBefore
        <3> QED
            BY <1>1, <1>9, <3>1, <3>3 DEF NoMore
    <2>3. CASE SendFact
        <3> DEFINE m == Head(factq)
        <3>1. factq # <<>> /\ factq' = Tail(factq) /\ up' = Append(up, m)
            BY <2>3 DEF SendFact
        <3>2. m \in Facts /\ m \in Message /\ factq' \in Seq(Facts)
            BY <1>1, <3>1, Queue
        <3>3. /\ NoMore(factq, factq', Starts) /\ Before(factq', Starts, Reports)
              /\ (m \in Starts => Has(factq, Starts) /\ ~Has(factq', Starts))
              /\ (m \in Reports => ~Has(factq, Starts))
            BY <1>1, <3>1, TailQueue, TailBefore
        <3> HIDE DEF m
        <3>4. m \in Starts => m \notin Reports
            BY DEF Starts, Reports, Of
        <3>5. up' \in Seq(Facts)
            BY <1>1, <3>1, <3>2, Queue
        <3>6. /\ (Has(up', Starts) <=> Has(up, Starts) \/ m \in Starts)
              /\ (Has(up', Reports) <=> Has(up, Reports) \/ m \in Reports)
            BY <1>1, <3>1, <3>2, AppendQueue
        <3>7. Once(up', Starts)
            <4>1. CASE m \in Starts
                BY <1>1, <3>1, <3>2, <3>3, <4>1, AppendQueue
            <4>2. CASE m \notin Starts
                BY <1>1, <3>1, <3>2, <4>2, AppendQueue DEF NoMore
            <4> QED
                BY <4>1, <4>2
        <3>8. Before(up', Starts, Reports)
            BY <1>1, <3>1, <3>2, <3>3, <3>4, AppendBefore
        <3>9. Once(factq', Starts) /\ (Has(factq', Starts) => Has(factq, Starts))
            BY <1>1, <3>3 DEF NoMore
        <3>10. Has(factq', Starts) => ~Has(up', Starts) /\ ~Has(up', Reports)
            BY <1>1, <3>3, <3>6, <3>9
        <3>11. Has(factq', Starts) \/ Has(up', Starts) => Has(factq, Starts) \/ Has(up, Starts)
            BY <3>3, <3>6, <3>9
        <3> QED
            BY <1>9, <3>2, <3>3, <3>5, <3>7, <3>8, <3>9, <3>10, <3>11
    <2>4. CASE Disconnect
        <3> DEFINE q == up \o factq
        <3>1. up' = q \o <<DisconnectMsg>> /\ factq' = <<>>
            BY <2>4 DEF Disconnect
        <3>2. DisconnectMsg \in Message /\ DisconnectMsg.type = "disconnect"
            BY <1>1, Messages DEF DisconnectMsg, Plain
        <3>3. DisconnectMsg \in Facts /\ DisconnectMsg \notin Starts /\ DisconnectMsg \notin Reports
            BY <3>2 DEF Facts, Starts, Reports, Of
        <3>4. q \in Seq(Message) /\ q \in Seq(Facts)
            BY <1>1, Queue
        <3>5. (Has(q, Starts) <=> Has(up, Starts) \/ Has(factq, Starts)) /\ Once(q, Starts)
            BY <1>1, JoinQueue
        <3>6. Before(q, Starts, Reports)
            BY <1>1, JoinBefore
        <3> HIDE DEF q
        <3>7. up' = Append(q, DisconnectMsg)
            BY <3>1, <3>2, <3>4, JoinOne
        <3>8. up' \in Seq(Facts) /\ NoMore(q, up', Starts) /\ Before(up', Starts, Reports)
            BY <3>2, <3>3, <3>4, <3>6, <3>7, Queue, AppendQueue, AppendBefore
        <3>9. ~Has(factq', Starts) /\ Once(factq', Starts) /\ Before(factq', Starts, Reports) /\ factq' \in Seq(Facts)
            BY <1>1, <3>1, Queue DEF Has, Once, Before
        <3> QED
            BY <1>9, <3>5, <3>8, <3>9 DEF NoMore
    <2> QED
        BY <2>1, <2>2, <2>3, <2>4
<1> QED
    BY <1>4, <1>6, <1>7, <1>10

\* The fields of the fact that a playback has ended.
LEMMA EndFactFields ==
    ASSUME TypeInv, NEW o \in {"completed", "stopped", "failed"}
    PROVE  /\ EndFact(o) \in Message /\ EndFact(o) \in Reports /\ EndFact(o).type = "ended" /\ EndFact(o).outcome = o
           /\ EndFact(o).arg = pb.sample /\ (EndFact(o).played <=> pb.sample # -1)
<1>1. EndFact(o) \in Message
    BY EndTypes DEF TypeInv, TypeOK
<1>2. /\ EndFact(o).type = "ended" /\ EndFact(o).outcome = o
      /\ EndFact(o).arg = pb.sample /\ (EndFact(o).played <=> pb.sample # -1)
    BY DEF EndFact, EndedMsg, Plain
<1> QED
    BY <1>1, <1>2 DEF Reports, Of

\* A step of the playback task that reports nothing.
LEMMA SilentEvidence ==
    ASSUME TypeInv, Evidence, UNCHANGED <<responseVars, connectionVars, down, up, factq>>, dev = "running",
           Has(cmdq', Openings) \/ (pb'.active /\ pb'.sample = -1) => Has(cmdq, Openings) \/ (pb.active /\ pb.sample = -1)
    PROVE  Evidence'
<1>1. UNCHANGED <<playback, rec>> /\ Facts \subseteq Facts'
    BY EndpointSets
<1>2. factq \in Seq(Facts') /\ up \in Seq(Facts')
    BY <1>1, QueueIn DEF Evidence
<1> QED
    BY <1>1, <1>2 DEF Evidence

\* A step that reports the end, behind the start if that was not reported yet.
LEMMA ReportEvidence ==
    ASSUME TypeInv, Life, Evidence, UNCHANGED <<responseVars, connectionVars, down, up>>, dev = "running",
           pb.active, ~pb'.active, cmdq' = cmdq \/ (cmdq # <<>> /\ cmdq' = Tail(cmdq)),
           NEW q \in Seq(Message), q \in Seq(Facts), Once(q, Starts), Before(q, Starts, Reports),
           Has(q, Starts) => ~Has(up, Starts), NEW m \in Reports, m \in Facts', factq' = Append(q, m)
    PROVE  Evidence'
<1>1. UNCHANGED <<playback, rec>> /\ Facts \subseteq Facts'
    BY EndpointSets
<1>2. up \in Seq(Facts') /\ q \in Seq(Facts')
    BY <1>1, QueueIn DEF Evidence
<1>3. factq' \in Seq(Facts')
    BY <1>2, Queue
<1>4. m \in Message /\ m \notin Starts
    BY DEF Reports, Starts, Of
<1>5. NoMore(q, factq', Starts) /\ Before(factq', Starts, Reports)
    BY <1>4, AppendQueue, AppendBefore
<1>6. ~Has(down, Openings) /\ ~Has(cmdq, Openings) /\ ~Has(up, Reports)
    BY DEF Life, OneOf
<1>7. ~Has(cmdq', Openings)
    BY <1>6, EndpointTypes, TailQueue
<1>8. up \in Seq(Message) /\ Once(up, Starts) /\ Before(up, Starts, Reports)
    BY EndpointTypes DEF Evidence
<1> QED
    BY <1>2, <1>3, <1>5, <1>6, <1>7, <1>8 DEF Evidence, NoMore

\* The commands of the playback task.
LEMMA CommandHeard ==
    ASSUME TypeInv, TypeInv', Life, Accounts, Heard, UNCHANGED <<responseVars, connectionVars>>, ProcessCommand
    PROVE  Heard'
<1> DEFINE c == Head(cmdq)
<1> USE DEF Heard
<1>1. /\ dev = "running" /\ cmdq # <<>> /\ cmdq' = Tail(cmdq) /\ UNCHANGED <<down, up, ws, task>>
      /\ \/ c.type = "begin" /\ DoBegin(c)
         \/ c.type = "end" /\ DoComplete(c)
         \/ c.type = "stop" /\ DoStop(c)
    BY DEF ProcessCommand, wireVars, supervisorVars
<1>2. /\ UNCHANGED <<playback, rec, generation, active, nextSeq>>
      /\ Frames' = Frames /\ Packets' = Packets /\ Facts \subseteq Facts' /\ (Closing' <=> Closing)
      /\ \A n : InSlot(n)' <=> InSlot(n)
    BY <1>1, EndpointSets
<1>3. /\ cmdq \in Seq(Message) /\ cmdq \in Seq(Frames) /\ down \in Seq(Frames) /\ mediaq \in Seq(Packets)
      /\ factq \in Seq(Message) /\ factq \in Seq(Facts) /\ Once(factq, Starts) /\ Before(factq, Starts, Reports)
      /\ (Has(factq, Starts) => ~Has(up, Starts))
      /\ pb \in PlayState /\ pb.sample \in Nat \cup {-1} /\ pb.done \in Nat \cup {-1} /\ pb.active \in BOOLEAN
      /\ (pb.active /\ pb.sample # -1 => InSlot(pb.sample))
      /\ (pb.active /\ pb.final # -1 => Closing /\ pb.final = rec[playback].last)
      /\ (pb.active => playback # 0)
    BY <1>1, EndpointTypes DEF Sounding, Running, Evidence, Life, InFlight
<1>4. SlotSpan'
    BY <1>2 DEF SlotSpan
<1>5. c \in Message /\ c \in Frames /\ cmdq' \in Seq(Frames)
    BY <1>1, <1>3, Queue
<1>6. EndsIn'
    BY <1>1, <1>2 DEF EndsIn, Running
<1>7. Has(cmdq', Openings) => Has(cmdq, Openings)
    BY <1>1, <1>3, TailQueue
<1>8. Running /\ (dev' = dev \/ (Stopping /\ UNCHANGED <<factq, pb>>))
    BY <1>1, <1>2, CommandKept DEF Accounts, Running
<1> HIDE DEF c
<1>9. CASE dev' # dev
    <2>1. UNCHANGED <<factq, pb>> /\ ~Running'
        BY <1>1, <1>8, <1>9 DEF Running
    <2>2. Evidence'
        BY <1>1, <1>7, <2>1, SilentEvidence
    <2> QED
        BY <1>4, <1>6, <2>1, <2>2 DEF Sounding
<1>10. CASE dev' = dev
    <2>1. ~Refuse
        BY <1>1, <1>10 DEF Refuse
    <2>2. ASSUME mediaq' = mediaq \/ mediaq' = <<>>,
                 pb'.active /\ pb'.sample # -1 => InSlot(pb'.sample),
                 pb'.active /\ pb'.final # -1 => Closing /\ pb'.final = rec[playback].last
          PROVE  Sounding'
        <3>1. mediaq' \in Seq(Packets)
            BY <1>3, <2>2, Queue
        <3> QED
            BY <1>1, <1>2, <1>3, <1>5, <1>10, <2>2, <3>1 DEF Sounding, Running, InSlot
    <2>3. ASSUME NEW o \in {"completed", "stopped", "failed"}, pb.active, ~pb'.active,
                 factq' = Append(factq, EndFact(o)), mediaq' = mediaq \/ mediaq' = <<>>,
                 o # "stopped" => Closing, o = "completed" => pb.sample # -1 /\ pb.sample = rec[playback].last,
                 o = "stopped" => rec[playback].stop
          PROVE  Heard'
        <3>1. Sounding'
            BY <2>2, <2>3
        <3>2. ASSUME NEW x \in Message, x.type = "ended", x.outcome = o, x.arg = pb.sample, x.played <=> pb.sample # -1
              PROVE  x \in Facts'
            BY <1>2, <1>3, <2>3, <3>2 DEF Facts, None
        <3>3. EndFact(o) \in Reports /\ EndFact(o) \in Facts'
            BY <2>3, <3>2, EndFactFields
        <3>4. Evidence'
            BY <1>1, <1>3, <2>3, <3>3, ReportEvidence
        <3> QED
            BY <1>4, <1>6, <3>1, <3>4
    <2>4. CASE c.type = "begin"
        <3>1. /\ ~pb.active /\ UNCHANGED <<factq, mediaq>>
              /\ pb' = [pb EXCEPT !.active = TRUE, !.gen = c.gen, !.stop = 0, !.final = -1,
                                  !.sample = -1, !.done = -1, !.degraded = FALSE]
            BY <1>1, <2>1, <2>4 DEF DoBegin
        <3>2. pb'.sample = -1 /\ pb'.final = -1
            BY <1>3, <3>1 DEF PlayState
        <3>3. c \in Openings
            BY <1>5, <2>4, OtherType DEF Openings
        <3>4. Has(cmdq, Openings)
            BY <1>1, <1>3, <3>3, TailQueue DEF c
        <3>5. Evidence'
            BY <1>1, <3>1, <3>4, SilentEvidence
        <3>6. Sounding'
            BY <2>2, <3>1, <3>2
        <3> QED
            BY <1>4, <1>6, <3>5, <3>6
    <2>5. CASE c.type = "end"
        <3> DEFINE o == IF pb.degraded THEN "failed" ELSE "completed"
        <3>1. /\ pb.active /\ pb.sample <= c.arg /\ UNCHANGED mediaq
              /\ \/ pb.done = c.arg /\ pb' = Ended(o) /\ factq' = Append(factq, EndFact(o))
                 \/ pb' = [pb EXCEPT !.final = c.arg] /\ factq' = factq
            BY <1>1, <2>1, <2>5 DEF DoComplete
        <3>2. Closing /\ c.arg = rec[playback].last /\ c.arg \in Nat
            <4>1. c.outcome = "completed" /\ c.arg \in Nat
                <5>1. Commands /\ Running /\ ws \in WssState
                    BY <1>8, EndpointTypes DEF Accounts
                <5>2. Going \/ Ending
                    BY <3>1, <5>1, <1>1 DEF Commands, Idle, Begun, Crossed
                <5>3. (c = EndCmd(ws) /\ OverIn(ws)) \/ c = StopCmd(ws)
                    <6>1. /\ StopCmd(ws) \in Message /\ (ws.next > 0 => EndCmd(ws) \in Message)
                        BY <5>1, CommandMessages
                    <6>2. CASE cmdq = <<EndCmd(ws)>> /\ OverIn(ws)
                        BY <6>1, <6>2, Tuple1 DEF c, OverIn
                    <6>3. CASE cmdq = <<StopCmd(ws)>>
                        BY <6>1, <6>3, Tuple1 DEF c
                    <6>4. CASE cmdq = <<EndCmd(ws), StopCmd(ws)>> /\ OverIn(ws)
                        BY <6>1, <6>4, Tuple2 DEF c, OverIn
                    <6> QED
                        BY <1>1, <5>2, <6>2, <6>3, <6>4 DEF Going, Ending, Ahead, Late
                <5>4. c = EndCmd(ws) /\ ws.next > 0 /\ ws.next \in Nat
                    BY <2>5, <5>1, <5>3, CommandMessages DEF OverIn, WssState
                <5> QED
                    BY <5>1, <5>4, CommandMessages DEF EndCmd
            <4>2. c \in Finals
                BY <1>5, <2>5, <4>1 DEF Finals
            <4> QED
                BY <1>5, <4>1, <4>2 DEF Frames
        <3>3. o \in {"completed", "failed"}
            OBVIOUS
        <3>4. pb.done <= pb.sample
            BY <1>8, <3>1 DEF Accounts, InOrder
        <3> HIDE DEF o
        <3>5. CASE pb.done = c.arg /\ pb' = Ended(o) /\ factq' = Append(factq, EndFact(o))
            <4>2. pb.sample = rec[playback].last /\ pb.sample # -1
                BY <1>3, <3>1, <3>2, <3>4, <3>5
            <4>3. ~pb'.active
                BY <3>5, EndedFields
            <4> QED
                BY <2>3, <3>1, <3>2, <3>3, <3>5, <4>2, <4>3
        <3>6. CASE pb' = [pb EXCEPT !.final = c.arg] /\ factq' = factq
            <4>1. pb'.active = pb.active /\ pb'.sample = pb.sample /\ pb'.final = c.arg
                BY <1>3, <3>6 DEF PlayState
            <4>2. Sounding'
                BY <1>3, <2>2, <3>1, <3>2, <4>1
            <4>3. Evidence'
                BY <1>1, <1>7, <3>6, <4>1, SilentEvidence
            <4> QED
                BY <1>4, <1>6, <4>2, <4>3
        <3> QED
            BY <3>1, <3>5, <3>6
    <2>6. CASE c.type = "stop"
        <3>1. \/ mediaq' = <<>> /\ UNCHANGED <<pb, factq>>
              \/ /\ pb.active /\ pb' = [Ended("stopped") EXCEPT !.fence = c.arg, !.stop = c.arg]
                 /\ factq' = Append(factq, EndFact("stopped")) /\ mediaq' = <<>>
            BY <1>1, <2>1, <2>6 DEF DoStop
        <3>2. CASE mediaq' = <<>> /\ UNCHANGED <<pb, factq>>
            <4>1. Sounding'
                BY <1>3, <2>2, <3>2
            <4>2. Evidence'
                BY <1>1, <1>7, <3>2, SilentEvidence
            <4> QED
                BY <1>4, <1>6, <4>1, <4>2
        <3>3. CASE /\ pb.active /\ pb' = [Ended("stopped") EXCEPT !.fence = c.arg, !.stop = c.arg]
                   /\ factq' = Append(factq, EndFact("stopped")) /\ mediaq' = <<>>
            <4>1. ~pb'.active
                BY <3>3 DEF Ended
            <4>2. c \in Stops
                BY <1>5, <2>6, OtherType DEF Stops
            <4>3. Has(cmdq, Stops)
                BY <1>1, <1>3, <4>2, TailQueue DEF c
            <4>4. rec[playback].stop
                BY <1>8, <4>3 DEF Accounts, StopsAgree
            <4> QED
                BY <2>3, <3>3, <4>1, <4>4
        <3> QED
            BY <3>1, <3>2, <3>3
    <2> QED
        BY <1>1, <2>4, <2>5, <2>6
<1> QED
    BY <1>9, <1>10

\* The steps of the playback task that write nothing.
LEMMA LoopHeard ==
    ASSUME TypeInv, TypeInv', Heard, UNCHANGED <<responseVars, connectionVars>>,
           Observe \/ TakeMedia \/ Gate \/ BreakOff
    PROVE  Heard'
<1> USE DEF Heard
<1>1. /\ dev = "running" /\ UNCHANGED <<down, up, ws, cmdq, factq, dev>>
    BY DEF Observe, TakeMedia, Gate, BreakOff, wireVars, supervisorVars
<1>2. /\ UNCHANGED <<playback, rec, generation, active, nextSeq>>
      /\ Frames' = Frames /\ Packets' = Packets /\ Facts \subseteq Facts' /\ (Closing' <=> Closing)
      /\ \A n : InSlot(n)' <=> InSlot(n)
    BY <1>1, EndpointSets
<1>3. /\ down \in Seq(Frames) /\ cmdq \in Seq(Frames) /\ mediaq \in Seq(Packets)
      /\ task \in TaskState /\ task.pc \in {"loop", "held", "write"}
      /\ (task.pc # "loop" => task.gen \in 1 .. generation /\ (task.gen = playback => InSlot(task.seq)))
      /\ pb \in PlayState
      /\ (pb.active /\ pb.sample # -1 => InSlot(pb.sample))
      /\ (pb.active /\ pb.final # -1 => Closing /\ pb.final = rec[playback].last)
    BY <1>1, EndpointTypes DEF Sounding, Running, TaskState
<1>4. SlotSpan'
    BY <1>2 DEF SlotSpan
<1>5. EndsIn'
    BY <1>1, <1>2 DEF EndsIn, Running
<1>6. pb'.active = pb.active /\ pb'.sample = pb.sample /\ pb'.final = pb.final
    <2>1. pb' = pb \/ pb' = [pb EXCEPT !.degraded = TRUE]
        BY DEF Observe, TakeMedia, Gate, BreakOff
    <2> QED
        BY <1>3, <2>1 DEF PlayState
<1>7. Evidence'
    BY <1>1, <1>6, SilentEvidence
<1>8. mediaq' \in Seq(Packets) /\ (task'.pc # "loop" => task'.gen \in 1 .. generation /\ (task'.gen = playback => InSlot(task'.seq)))
    <2>1. CASE Observe
        BY <1>3, <2>1 DEF Observe
    <2>2. CASE TakeMedia
        <3> DEFINE m == Head(mediaq)
        <3>1. /\ mediaq # <<>> /\ mediaq' = Tail(mediaq)
              /\ task' = [pc |-> "held", gen |-> m.gen, seq |-> m.arg, chunk |-> 0]
            BY <2>2 DEF TakeMedia
        <3>2. m \in Packets /\ mediaq' \in Seq(Packets)
            BY <1>3, <3>1, Queue
        <3>3. m.gen \in 1 .. generation /\ (m.gen = playback => InSlot(m.arg))
            BY <3>2 DEF Packets, Frames
        <3> QED
            BY <3>1, <3>2, <3>3
    <2>3. CASE Gate
        <3>1. mediaq' = mediaq /\ task.pc = "held" /\ (task' = [task EXCEPT !.pc = "write"] \/ task' = NoTask)
            BY <2>3 DEF Gate
        <3>2. task' = NoTask \/ (task'.gen = task.gen /\ task'.seq = task.seq)
            BY <1>3, <3>1 DEF TaskState
        <3> QED
            BY <1>3, <3>1, <3>2 DEF NoTask
    <2>4. CASE BreakOff
        BY <1>3, <2>4 DEF BreakOff, NoTask
    <2> QED
        BY <2>1, <2>2, <2>3, <2>4
<1>9. Sounding'
    BY <1>1, <1>2, <1>3, <1>6, <1>8 DEF Sounding, Running, InSlot
<1> QED
    BY <1>4, <1>5, <1>7, <1>9

\* A write, and a write that fails.
LEMMA WriteHeard ==
    ASSUME TypeInv, TypeInv', Life, Accounts, Heard, UNCHANGED <<responseVars, connectionVars>>,
           WriteChunk \/ PlaybackFault
    PROVE  Heard'
<1> USE DEF Heard
<1>1. /\ dev = "running" /\ task.pc = "write" /\ UNCHANGED <<down, up, ws, cmdq, mediaq>>
      /\ pb.active /\ task.gen = pb.gen
    BY DEF WriteChunk, PlaybackFault, CanPlay, wireVars, supervisorVars
<1>2. /\ UNCHANGED <<playback, rec, generation, active, nextSeq>>
      /\ Frames' = Frames /\ Packets' = Packets /\ Facts \subseteq Facts' /\ (Closing' <=> Closing)
      /\ \A n : InSlot(n)' <=> InSlot(n)
    BY <1>1, EndpointSets
<1>3. /\ down \in Seq(Frames) /\ cmdq \in Seq(Frames) /\ mediaq \in Seq(Packets) /\ up \in Seq(Message)
      /\ factq \in Seq(Message) /\ factq \in Seq(Facts) /\ Once(factq, Starts) /\ Before(factq, Starts, Reports)
      /\ (Has(factq, Starts) => ~Has(up, Starts) /\ ~Has(up, Reports))
      /\ Once(up, Starts) /\ Before(up, Starts, Reports) /\ up \in Seq(Facts)
      /\ (pb.sample = -1 => ~rec[playback].started /\ ~Has(factq, Starts) /\ ~Has(up, Starts))
      /\ task \in TaskState /\ task.gen \in 1 .. generation /\ (task.gen = playback => InSlot(task.seq))
      /\ pb \in PlayState /\ pb.gen \in Nat /\ pb.sample \in Nat \cup {-1} /\ task.seq \in Nat \cup {-1}
      /\ (pb.sample # -1 => InSlot(pb.sample))
      /\ (pb.final # -1 => Closing /\ pb.final = rec[playback].last)
    BY <1>1, EndpointTypes DEF Sounding, Running, Evidence
<1>4. /\ pb.gen = playback /\ playback # 0
      /\ ~Has(down, Openings) /\ ~Has(cmdq, Openings) /\ ~Has(factq, Reports) /\ ~Has(up, Reports)
    BY <1>1 DEF Life, OneOf, InFlight
<1>5. InSlot(task.seq) /\ task.seq # -1
    <2>1. ws.next \in Nat /\ task.seq \in 0 .. ws.next - 1
        BY <1>1, EndpointTypes DEF Accounts, InOrder, Running
    <2> QED
        BY <1>1, <1>3, <1>4, <2>1
<1>6. SlotSpan'
    BY <1>2 DEF SlotSpan
<1>7. CASE PlaybackFault
    <2>1. /\ dev' = "playback_write" /\ ~pb'.active /\ factq' = Append(factq, EndFact("failed"))
        BY <1>7, EndedFields DEF PlaybackFault
    <2>2. Sounding' /\ EndsIn'
        BY <2>1 DEF Sounding, EndsIn, Running
    <2>3. ASSUME NEW x \in Message, x.type = "ended", x.outcome = "failed", x.arg = pb.sample, x.played <=> pb.sample # -1
          PROVE  x \in Facts'
        BY <1>2, <1>3, <1>4, <2>1, <2>3 DEF Facts, None
    <2>4. EndFact("failed") \in Reports /\ EndFact("failed") \in Facts'
        BY <2>3, EndFactFields
    <2>5. Evidence'
        BY <1>1, <1>3, <2>1, <2>4, ReportEvidence
    <2> QED
        BY <1>6, <2>2, <2>5
<1>8. CASE WriteChunk
    <2> DEFINE last == task.chunk + 1 = FrameChunks
               sm == StartedMsg(pb.gen, task.seq)
               started == IF pb.sample = -1 THEN <<sm>> ELSE <<>>
               finished == last /\ task.seq = pb.final
               o == IF pb.degraded THEN "failed" ELSE "completed"
               em == EndedMsg(pb.gen, o, TRUE, task.seq)
               ended == IF finished THEN <<em>> ELSE <<>>
               q == factq \o started
    <2>1. dev' = dev
        BY <1>2, <1>8, WriteKept DEF Accounts
    <2>2. /\ factq' = q \o ended
          /\ pb' = IF finished THEN Ended(o)
                   ELSE [pb EXCEPT !.sample = task.seq, !.done = IF last THEN task.seq ELSE @]
          /\ task' = IF last THEN NoTask ELSE [task EXCEPT !.chunk = @ + 1]
        BY <1>1, <1>8, <2>1 DEF WriteChunk
    <2>3. o \in {"completed", "failed"}
        OBVIOUS
    <2>4. EndsIn'
        BY <1>1, <1>2, <2>1 DEF EndsIn, Running
    <2>5. task'.pc # "loop" => task'.gen = task.gen /\ task'.seq = task.seq
        BY <1>3, <2>2 DEF TaskState, NoTask
    <2>6. /\ sm \in Message /\ sm.type = "started" /\ sm.gen = playback /\ sm.arg = task.seq
        BY <1>3, <1>4, Messages DEF StartedMsg, Plain
    <2>7. em \in Message /\ em.type = "ended" /\ em.outcome = o /\ em.arg = task.seq /\ em.played
        <3> HIDE DEF o
        <3> QED
            BY <1>3, <2>3, Messages DEF EndedMsg, Plain
    <2>8. pb.sample = -1 => sm \in Facts
        BY <1>3, <1>4, <1>5, <2>6 DEF Facts
    <2>9. sm \in Starts /\ sm \notin Reports
        BY <2>6 DEF Starts, Reports, Of
    <2> HIDE DEF sm
    <2>10. IF pb.sample = -1 THEN q = Append(factq, sm) ELSE q = factq
        BY <1>3, <2>6, JoinOne
    <2> HIDE DEF q
    <2>11. /\ q \in Seq(Message) /\ q \in Seq(Facts) /\ Once(q, Starts) /\ Before(q, Starts, Reports)
           /\ (Has(q, Starts) => ~Has(up, Starts) /\ ~Has(up, Reports)) /\ ~Has(q, Reports)
        <3>1. CASE pb.sample = -1
            <4>1. q = Append(factq, sm)
                BY <2>10, <3>1
            <4>2. q \in Seq(Message) /\ q \in Seq(Facts)
                BY <1>3, <2>6, <2>8, <3>1, <4>1, Queue
            <4>3. Once(q, Starts) /\ ~Has(q, Reports)
                BY <1>3, <1>4, <2>6, <2>9, <3>1, <4>1, AppendQueue
            <4>4. Before(q, Starts, Reports)
                BY <1>3, <1>4, <2>6, <2>9, <4>1, AppendBefore
            <4> QED
                BY <1>3, <1>4, <3>1, <4>2, <4>3, <4>4
        <3>2. CASE pb.sample # -1
            BY <1>3, <1>4, <2>10, <3>2
        <3> QED
            BY <3>1, <3>2
    <2>12. CASE finished
        <3>1. factq' = Append(q, em) /\ ~pb'.active
            <4>1. pb' = Ended(o) /\ factq' = q \o <<em>>
                BY <2>2, <2>12
            <4>2. ~Ended(o).active
                BY EndedFields
            <4> HIDE DEF em, o
            <4> QED
                BY <2>7, <2>11, <4>1, <4>2, JoinOne
        <3> HIDE DEF em, o
        <3>2. Closing /\ task.seq = rec[playback].last
            BY <1>3, <1>5, <2>12
        <3>3. em \in Reports
            BY <2>7 DEF Reports, Of
        <3>4. ASSUME NEW x \in Message, x.type = "ended", x.outcome = o, x.arg = task.seq, x.played
              PROVE  x \in Facts'
            BY <1>2, <1>4, <1>5, <2>3, <3>2, <3>4 DEF Facts
        <3>5. em \in Facts'
            BY <2>7, <3>4
        <3> HIDE DEF finished
        <3>6. Evidence'
            BY <1>1, <2>11, <3>1, <3>3, <3>5, ReportEvidence
        <3>7. Sounding'
            BY <1>1, <1>2, <1>3, <1>5, <2>1, <2>5, <3>1 DEF Sounding, Running, InSlot
        <3> QED
            BY <1>6, <2>4, <3>6, <3>7
    <2>13. CASE ~finished
        <3> HIDE DEF em, o
        <3>1. factq' = q
            BY <2>2, <2>7, <2>11, <2>13, JoinOne
        <3>2. pb' = [pb EXCEPT !.sample = task.seq, !.done = IF last THEN task.seq ELSE @]
            BY <2>2, <2>13
        <3>3. pb'.active = pb.active /\ pb'.sample = task.seq /\ pb'.final = pb.final
            BY <1>3, <3>2 DEF PlayState
        <3> HIDE DEF finished
        <3>4. Sounding'
            BY <1>1, <1>2, <1>3, <1>5, <2>1, <2>5, <3>3 DEF Sounding, Running, InSlot
        <3>5. factq' \in Seq(Facts') /\ up \in Seq(Facts')
            BY <1>2, <1>3, <2>11, <3>1, QueueIn
        <3>6. Evidence'
            BY <1>1, <1>3, <1>4, <1>5, <2>11, <3>1, <3>3, <3>5 DEF Evidence
        <3> QED
            BY <1>6, <2>4, <3>4, <3>6
    <2> QED
        BY <2>12, <2>13
<1> QED
    BY <1>7, <1>8

\* The endpoint's steps.
LEMMA EndpointHeard ==
    ASSUME TypeInv, TypeInv', Coordinated, Life, Accounts, Heard, Endpoint
    PROVE  Heard'
<1>1. UNCHANGED <<responseVars, connectionVars>>
    BY DEF Endpoint
<1>2. CASE ReceiveBegin \/ ReceiveEnd \/ ReceiveStop \/ ReceiveMedia
    BY <1>1, <1>2, AdmitHeard
<1>3. CASE ReceiveClose \/ SendFact \/ StopDevice \/ Disconnect \/ CancelRequest
    BY <1>1, <1>3, SupervisorHeard
<1>4. CASE ProcessCommand
    BY <1>1, <1>4, CommandHeard
<1>5. CASE Observe \/ TakeMedia \/ Gate \/ BreakOff
    BY <1>1, <1>5, LoopHeard
<1>6. CASE WriteChunk \/ PlaybackFault
    BY <1>1, <1>6, WriteHeard
<1> QED
    BY <1>2, <1>3, <1>4, <1>5, <1>6 DEF Endpoint, EndpointNext, UserCancel

-----------------------------------------------------------------------------
(* What the reader does with the reports. *)

\* A fence is refused only for a stop.
LEMMA FenceRefused ==
    ASSUME Coordinated, Connected, Open, playback # 0, ~Fenceable(playback)
    PROVE  rec[playback].stop
BY DEF Coordinated, Connected, TargetAgrees, Fenceable

\* The start of a playback is accepted.
LEMMA StartAccepted ==
    ASSUME TypeInv, Coordinated, NEW m \in Facts, m.type = "started"
    PROVE  StartedError(m.gen, m.arg) = "none"
<1>1. /\ playback # 0 /\ m.gen = playback /\ ~rec[playback].started /\ m \in Message
      /\ rec[playback].first # None /\ m.arg \in rec[playback].first .. rec[playback].last
    BY DEF Facts, InSlot
<1>2. Known(playback) /\ ~rec[playback].ended
    BY <1>1, TypeFacts, SlotIsKnown DEF Coordinated, SlotRecord
<1>3. m.arg \in Nat \cup {-1} /\ rec[playback].first \in Nat \cup {-1} /\ rec[playback].last \in Nat \cup {-1}
    BY <1>1, Fields, SlotTypes
<1>4. ~(m.arg < rec[playback].first) /\ ~(m.arg > rec[playback].last)
    BY <1>1, <1>3
<1> QED
    BY <1>1, <1>2, <1>4 DEF StartedError

\* The end of a playback is accepted, or its outcome was overtaken by a stop or
\* is that of the hardware.
LEMMA EndAccepted ==
    ASSUME TypeInv, Coordinated, Connected, Open, Life, SlotSpan, NEW m \in Facts, m.type = "ended", m.gen = playback
    PROVE  LET error == EndedError(m.gen, m.outcome, m.played, m.arg) IN
           \/ error = "none"
           \/ error = "invalid_playback_outcome" /\ (rec[playback].stop \/ dev = "playback_write")
<1> DEFINE r == rec[playback]
<1>1. /\ playback # 0 /\ m \in Message /\ m.outcome \in {"completed", "stopped", "failed"}
      /\ (m.outcome = "completed" => r.outcome = "completed" /\ m.played /\ m.arg = r.last)
      /\ (m.outcome = "failed" => r.outcome = "completed" \/ dev = "playback_write")
      /\ (m.outcome = "stopped" => r.stop)
      /\ (m.arg # None => m.played /\ r.first # None /\ m.arg \in r.first .. r.last)
    BY DEF Facts, InSlot, Closing
<1>2. Known(playback) /\ ~r.ended
    BY <1>1, TypeFacts, SlotIsKnown DEF Coordinated, SlotRecord
<1>3. /\ m.arg \in Nat \cup {-1} /\ r.first \in Nat \cup {-1} /\ r.last \in Nat \cup {-1}
      /\ (r.first # None => r.first <= r.last)
    BY <1>1, Fields, SlotTypes DEF SlotSpan
<1>4. m.arg # None => m.played /\ r.last # None /\ ~(m.arg > r.last)
    BY <1>1, <1>3 DEF None
<1>5. ~r.stop => playback = target /\ ~closed
    BY <1>1 DEF Coordinated, Connected, TargetAgrees
<1>6. m.outcome \notin Expected(r) => r.stop \/ dev = "playback_write"
    BY <1>1 DEF Expected
<1> HIDE DEF r
<1>7. EndedError(m.gen, m.outcome, m.played, m.arg) =
         IF m.outcome \notin Expected(r) THEN "invalid_playback_outcome" ELSE "none"
    BY <1>1, <1>2, <1>4, <1>5 DEF EndedError, r
<1> QED
    BY <1>6, <1>7 DEF r

\* A message of the endpoint keeps the session open, or closes it for one of the
\* reasons of ServerAccepts.
LEMMA ReaderAccepts ==
    ASSUME TypeInv, Coordinated, Connected, Open, Life, Heard, dev' = dev, ReaderNext
    PROVE  Open' \/ ServerAccepts'
<1> DEFINE m == Head(up)
<1>1. up # <<>> /\ m.type \in {"cancel", "started", "ended", "close", "disconnect"}
    BY DEF ReaderNext, ReadCancel, ReadStarted, ReadEnded, ReadClose, ReadDisconnect, Read
<1>2. up \in Seq(Message) /\ up \in Seq(Facts)
    BY EndpointTypes DEF Heard, Evidence
<1>3. m \in Facts /\ m \in Message
    BY <1>1, <1>2, Queue
<1>4. ASSUME NEW c \in {"stale_cancel_target", "stale_generation", "invalid_playback_outcome", "disconnected"}, Close(c),
             c = "stale_generation" => rec[playback].stop,
             c = "invalid_playback_outcome" => rec[playback].stop \/ dev = "playback_write"
      PROVE  ServerAccepts'
    <2>1. status' = c /\ UNCHANGED <<playback, rec>>
        BY <1>4 DEF Close, CloseState
    <2> QED
        BY <1>4, <2>1 DEF ServerAccepts
<1>5. CASE ReadCancel
    <2>1. m.type = "cancel" /\ m.gen # 0
        BY <1>3, <1>5 DEF ReadCancel, Read, Facts
    <2>2. CASE ~Fenceable(m.gen) /\ Close(IF m.gen # playback THEN "stale_cancel_target" ELSE "stale_generation")
        <3>1. CASE m.gen # playback
            BY <1>4, <2>2, <3>1
        <3>2. CASE m.gen = playback
            <4>1. rec[playback].stop
                BY <2>1, <2>2, <3>2, FenceRefused
            <4> QED
                BY <1>4, <2>2, <3>2, <4>1
        <3> QED
            BY <3>1, <3>2
    <2> QED
        BY <1>5, <2>2 DEF ReadCancel, Open, readerFrame
<1>6. CASE ReadStarted
    <2>1. StartedError(m.gen, m.arg) = "none"
        BY <1>3, <1>6, StartAccepted DEF ReadStarted, Read
    <2> QED
        BY <1>6, <2>1 DEF ReadStarted, Open, readerFrame
<1>7. CASE ReadEnded
    <2>1. m.type = "ended"
        BY <1>7 DEF ReadEnded, Read
    <2>2. m \in Reports
        BY <1>3, <2>1 DEF Reports, Of
    <2>3. m.gen = playback
        BY <1>1, <1>2, <2>2, TailQueue DEF Life
    <2> DEFINE error == EndedError(m.gen, m.outcome, m.played, m.arg)
    <2>4. \/ error = "none"
          \/ error = "invalid_playback_outcome" /\ (rec[playback].stop \/ dev = "playback_write")
        <3>1. SlotSpan
            BY DEF Heard
        <3> HIDE DEF m
        <3> QED
            BY <1>3, <2>1, <2>3, <3>1, EndAccepted
    <2>5. IF error = "none" THEN status' = status ELSE Close(error)
        BY <1>7 DEF ReadEnded, readerFrame
    <2> HIDE DEF error
    <2> QED
        BY <1>4, <2>4, <2>5 DEF Open
<1>8. CASE ReadClose
    <2>1. CASE playback # 0 /\ ~Fenceable(playback) /\ Close("stale_generation")
        <3>1. rec[playback].stop
            BY <2>1, FenceRefused
        <3> QED
            BY <1>4, <2>1, <3>1
    <2> QED
        BY <1>8, <2>1 DEF ReadClose, Open, readerFrame
<1>9. CASE ReadDisconnect
    BY <1>4, <1>9 DEF ReadDisconnect
<1> QED
    BY <1>5, <1>6, <1>7, <1>8, <1>9 DEF ReaderNext

\* The server's steps close the session only for the reasons of ServerAccepts.
LEMMA ConnectionAccepts ==
    ASSUME TypeInv, Coordinated, Connected, Life, Epochs, Heard, Server
    PROVE  Open' \/ ServerAccepts'
<1>1. ConnectionNext /\ dev' = dev
    BY DEF Server, endpointVars
<1>2. Open
    BY <1>1, ServerOpen
<1>3. ASSUME NEW c \in {"closed_by_endpoint", "control_timeout", "runtime_failure", "playback_terminal_timeout", "retired"},
             Close(c)
      PROVE  ServerAccepts'
    BY <1>3 DEF Close, ServerAccepts
<1>4. CASE AgentNext
    BY <1>2, <1>4 DEF AgentNext, Speak, EmitSegment, EndSpeech, CutSpeech, PlayoutDone, producerFrame, Open
<1>5. CASE SegmentNext
    <2>1. ~SegmentRefused /\ ~FinishRefused
        BY <1>2, <1>5, SegmentEpochs
    <2> QED
        BY <1>2, <1>5, <2>1 DEF SegmentNext, SegmentSkip, SegmentBegin, SegmentBegun, PacketCheck, PacketSend, PacketCut,
                                FinishSkip, FinishResponse, FinishAcked, Open
<1>6. CASE ReaderNext
    BY <1>1, <1>2, <1>6, ReaderAccepts
<1>7. CASE TaskNext
    BY <1>2, <1>3, <1>7 DEF TaskNext, EffectSend, EffectDone, CloseSent, SubmitCandidate, DecideCandidate, InterruptStart,
                            InterruptFinish, Open
<1>8. CASE TimeoutNext
    BY <1>3, <1>8 DEF TimeoutNext, ControlTimeout, WatchdogFire, Retire, InterruptTimeout
<1> QED
    BY <1>1, <1>4, <1>5, <1>6, <1>7, <1>8 DEF ConnectionNext

\* Nothing the firmware reports makes the server close with a protocol error,
\* except a report, cancel or close that crossed a stop, a cancel of a playback
\* that has ended and a failure of the hardware; and the segment loop always
\* finds the slot free for the response it begins and a packet in the response it
\* completes (ServerAccepts).
THEOREM ServerCorrect == Prompt => (Spec => []ServerAccepts)
<1> SUFFICES ASSUME Prompt PROVE Spec => []ServerAccepts
    OBVIOUS
<1>1. Init => Epochs /\ Heard /\ ServerAccepts
    <2> SUFFICES ASSUME Init PROVE Epochs /\ Heard /\ ServerAccepts
        OBVIOUS
    <2>1. /\ down = <<>> /\ up = <<>> /\ cmdq = <<>> /\ factq = <<>> /\ mediaq = <<>> /\ task.pc = "loop"
          /\ ~pb.active /\ playback = 0 /\ active = 0 /\ generation = 0 /\ status = "open"
          /\ segq = <<>> /\ intr = {} /\ ~changed /\ prod.st = "idle"
          /\ \A p \in Owners : ~eff[p].on /\ eff[p].gen = 0
        BY DEF Init, WireInit, EndpointInit, ResponseInit, ConnectionInit, NoTask, NoEffect
    <2>2. Epochs
        BY <2>1 DEF Epochs, QueueFits, EndLast, SpeechFits, ActiveFits, SlotOwed, EffectsFit, CutsFit, LoopFits
    <2>3. ASSUME NEW q, q = <<>>
          PROVE  /\ q \in Seq(Frames) /\ q \in Seq(Packets) /\ q \in Seq(Facts)
                 /\ \A S : ~Has(q, S) /\ Once(q, S) /\ \A T : Before(q, S, T)
        <3>1. DOMAIN q = {}
            BY <2>3
        <3> QED
            BY <2>3, <3>1 DEF Has, Once, Before
    <2>4. /\ down \in Seq(Frames) /\ cmdq \in Seq(Frames) /\ mediaq \in Seq(Packets)
          /\ factq \in Seq(Facts) /\ up \in Seq(Facts)
        BY <2>1, <2>3
    <2>5. /\ ~Has(down, Openings) /\ ~Has(cmdq, Openings) /\ ~Has(down, Finals) /\ ~Has(factq, Starts) /\ ~Has(up, Starts)
          /\ Once(down, Finals) /\ Once(factq, Starts) /\ Once(up, Starts)
          /\ Before(down, Finals, Stops) /\ Before(factq, Starts, Reports) /\ Before(up, Starts, Reports)
        BY <2>1, <2>3
    <2>6. SlotSpan
        BY <2>1 DEF SlotSpan
    <2>7. Sounding
        BY <2>1, <2>4 DEF Sounding
    <2>8. EndsIn
        BY <2>1, <2>5 DEF EndsIn
    <2>9. Evidence
        BY <2>1, <2>4, <2>5 DEF Evidence
    <2> QED
        BY <2>1, <2>2, <2>6, <2>7, <2>8, <2>9 DEF Heard, ServerAccepts
<1>2. TypeInv /\ TypeInv' /\ Coordinated /\ Connected /\ Errands /\ Life /\ Accounts
      /\ Epochs /\ Heard /\ ServerAccepts /\ [Next]_vars
      => Epochs' /\ Heard' /\ ServerAccepts'
    <2> SUFFICES ASSUME TypeInv, TypeInv', Coordinated, Connected, Errands, Life, Accounts,
                        Epochs, Heard, ServerAccepts, [Next]_vars
                 PROVE  Epochs' /\ Heard' /\ ServerAccepts'
        OBVIOUS
    <2>1. Epochs'
        BY EpochsKept
    <2>2. CASE Server
        <3>1. Heard'
            BY <2>2, ServerHeard
        <3>2. ServerAccepts'
            BY <2>2, ConnectionAccepts DEF ServerAccepts, Open
        <3> QED
            BY <2>1, <3>1, <3>2
    <2>3. CASE Endpoint
        <3>1. Heard'
            BY <2>3, EndpointHeard
        <3>2. UNCHANGED <<playback, rec, status>>
            BY <2>3 DEF Endpoint, responseVars, connectionVars
        <3>3. dev = "running" \/ dev' = dev
            BY <2>3 DEF Endpoint, EndpointNext, ReceiveBegin, ReceiveEnd, ReceiveStop, ReceiveMedia, ReceiveClose, Take,
                        SendFact, StopDevice, Disconnect, ProcessCommand, Observe, TakeMedia, Gate, WriteChunk, BreakOff,
                        UserCancel, CancelRequest, PlaybackFault
        <3>4. ServerAccepts'
            BY <3>2, <3>3 DEF ServerAccepts
        <3> QED
            BY <2>1, <3>1, <3>4
    <2>4. CASE UNCHANGED vars
        <3>1. UNCHANGED <<down, up, cmdq, factq, mediaq, task, pb, ws, dev, playback, active, rec, generation, nextSeq, status>>
            BY <2>4 DEF vars, endpointVars, wireVars, responseVars, connectionVars
        <3>2. Frames' = Frames /\ Facts' = Facts
            BY <3>1 DEF Frames, Facts, Closing, InSlot
        <3>3. Packets' = Packets
            BY <3>2 DEF Packets
        <3>4. SlotSpan' /\ EndsIn'
            BY <3>1 DEF Heard, SlotSpan, EndsIn, Running
        <3>5. Sounding'
            BY <3>1, <3>2, <3>3 DEF Heard, Sounding, Running, InSlot, Closing
        <3>6. Evidence'
            BY <3>1, <3>2 DEF Heard, Evidence
        <3> QED
            BY <2>1, <3>1, <3>4, <3>5, <3>6 DEF Heard, ServerAccepts
    <2> QED
        BY <2>2, <2>3, <2>4 DEF Next, Finished
<1> QED
    BY <1>1, <1>2, TypeInvariant, CoordinationCorrect, FlightCorrect, AccountsCorrect, PTL DEF Spec
=============================================================================
