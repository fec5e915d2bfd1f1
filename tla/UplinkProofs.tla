---------------------------- MODULE UplinkProofs ----------------------------
(***************************************************************************)
(* The uplink, proved for any profile limits, windows, buffers and number  *)
(* of packets and timers: recoveries stay within their budget, what is     *)
(* pushed is fresh, no gap waits without a timer while deliveries do not   *)
(* stall, and the whole path implements AudioChannel.                      *)
(*                                                                         *)
(* The port and the UDP session touch each other only in ReceiveAudio and  *)
(* in the puts, so the invariant of each side is shown once per operator   *)
(* of that side and UplinkSystem's steps are composed of those.            *)
(***************************************************************************)
EXTENDS UplinkSystem, FiniteSetTheorems, WellFoundedInduction, TLAPS

----------------------------------------------------------------------------
(* Arithmetic.                                                             *)

\* A set of numbers that is not empty has a least one (min(self._reorder)).
LEMMA MinExists ==
    ASSUME NEW T \in SUBSET Nat, T # {}
    PROVE  \E x \in T : \A y \in T : x <= y
<1> DEFINE R == OpToRel(<, Nat)
<1>1. \A x, y \in Nat : y < x => <<y, x>> \in R
    BY DEF OpToRel
<1>2. IsWellFoundedOn(R, Nat)
    BY NatLessThanWellFounded
<1> HIDE DEF R
<1>3. PICK x \in T : \A y \in T : ~(<<y, x>> \in R)
    BY <1>2, WFMin
<1>4. \A y \in T : ~(y < x)
    BY <1>1, <1>3
<1> QED
    BY <1>4

\* A bounded one has a greatest (fresh[-1]).
LEMMA MaxExists ==
    ASSUME NEW n \in Nat, NEW T \in SUBSET (0 .. n), T # {}
    PROVE  \E x \in T : \A y \in T : y <= x
<1> DEFINE U == {n - x : x \in T}
<1>1. \A y \in T : y \in Nat /\ n - y \in Nat
    OBVIOUS
<1>2. U \in SUBSET Nat /\ U # {}
    BY <1>1
<1>3. PICK u \in U : \A v \in U : u <= v
    BY <1>2, MinExists
<1>4. PICK x \in T : u = n - x
    OBVIOUS
<1>5. \A y \in T : n - x <= n - y
    BY <1>3, <1>4
<1> QED
    BY <1>1, <1>5

\* The distance of two timestamps is a number.
LEMMA DeltaNat ==
    ASSUME NEW a \in Int, NEW b \in Int
    PROVE  Delta(a, b) \in Nat
BY PortAssumption DEF Delta

----------------------------------------------------------------------------
(* The port.                                                               *)

Callers == Tasks \cup {"reader"}

\* A packet's deadline leaves it no more than MaxAge from its arrival and from
\* the time it was due.
Timely == {c \in Item : c.dl <= c.rcv + MaxAge /\ c.dl <= c.exp + MaxAge}

PutRec == [o : Callers, item : Timely]

PortOK ==
    /\ PortTypeOK
    /\ port.queue \in Seq(Timely) /\ inp.item \in Timely
    /\ puts \in Seq(PutRec) /\ landed \subseteq Callers
    /\ inp.pc = "push" => inp.left >= 1

\* The limits of the session's profile.
LEMMA Limits ==
    ASSUME PortTypeOK
    PROVE  /\ MaxAge \in Nat /\ MaxAge > 0 /\ InCap \in Nat /\ InCap > 0
           /\ Frames \in Nat /\ Frames > 0 /\ MaxInvalid \in Nat /\ MaxInvalid > 0
<1>1. /\ MaxAgeOf \in [{"wss", "udp"} -> Nat \ {0}] /\ InCapOf \in [{"wss", "udp"} -> Nat \ {0}]
      /\ Frames \in Nat \ {0} /\ MaxInvalid \in Nat \ {0}
    BY PortAssumption
<1>2. profile \in {"wss", "udp"}
    BY DEF PortTypeOK
<1>3. MaxAge \in Nat \ {0} /\ InCap \in Nat \ {0}
    BY <1>1, <1>2 DEF MaxAge, InCap
<1> QED
    BY <1>1, <1>3

PortRec == [queue : Seq(Item), closed : BOOLEAN, origin : Int, start : Nat, lastTs : Int,
            lastAt : Nat, debt : Nat, catch : BOOLEAN, dropped : Nat, paced : Nat]

\* A port with one field replaced is a port.
LEMMA PortFields ==
    ASSUME NEW p \in PortRec
    PROVE  /\ \A v \in Seq(Item) : [p EXCEPT !.queue = v] \in PortRec
           /\ \A v \in BOOLEAN : [p EXCEPT !.closed = v] \in PortRec
           /\ \A v \in Int : [p EXCEPT !.origin = v] \in PortRec
           /\ \A v \in Nat : [p EXCEPT !.start = v] \in PortRec
           /\ \A v \in Int : [p EXCEPT !.lastTs = v] \in PortRec
           /\ \A v \in Nat : [p EXCEPT !.lastAt = v] \in PortRec
           /\ \A v \in Nat : [p EXCEPT !.debt = v] \in PortRec
           /\ \A v \in BOOLEAN : [p EXCEPT !.catch = v] \in PortRec
           /\ \A v \in Nat : [p EXCEPT !.dropped = v] \in PortRec
           /\ \A v \in Nat : [p EXCEPT !.paced = v] \in PortRec
BY DEF PortRec

\* A timeline that starts over leaves the rest of the port alone.
LEMMA Restarted ==
    ASSUME NEW p \in PortRec, NEW o \in Int, NEW s \in Nat
    PROVE  LET q == [p EXCEPT !.origin = o, !.start = s]
           IN  q \in PortRec /\ q.queue = p.queue /\ q.closed = p.closed /\ q.debt = p.debt
<1>1. [p EXCEPT !.origin = o, !.start = s] = [[p EXCEPT !.origin = o] EXCEPT !.start = s]
    BY Zenon
<1>2. [[p EXCEPT !.origin = o] EXCEPT !.start = s] \in PortRec
    BY PortFields
<1> QED
    BY <1>1, <1>2 DEF PortRec

\* The port that judged a packet, and the deadline it gave it.
LEMMA JudgedOK ==
    ASSUME PortOK, NEW ts \in Nat, NEW id \in Nat
    PROVE  /\ Touched(ts) \in PortRec /\ Touched(ts).queue = port.queue /\ Touched(ts).closed = port.closed
           /\ Judged(ts) \in PortRec /\ Judged(ts).queue = port.queue /\ Judged(ts).closed = port.closed
           /\ Queued(id, ts) \in Timely
<1>1. port \in PortRec /\ now \in Nat /\ MaxAge \in Nat /\ ts \in Int
    BY Limits DEF PortOK, PortTypeOK, PortRec
<1> DEFINE restarted == [port EXCEPT !.origin = ts, !.start = now]
<1>r. restarted \in PortRec /\ restarted.queue = port.queue /\ restarted.closed = port.closed
    BY <1>1, Restarted
<1> HIDE DEF restarted
<1>2. Touched(ts) \in PortRec /\ Touched(ts).queue = port.queue /\ Touched(ts).closed = port.closed
    BY <1>1, <1>r DEF Touched, restarted
<1>3. Anchored(ts) \in PortRec
    BY <1>1, <1>2, <1>r DEF Anchored, restarted
<1>4. Debt \in Nat
    BY <1>1 DEF Debt, Arrival, PortRec
<1>5. Judged(ts) \in PortRec /\ Judged(ts).queue = port.queue /\ Judged(ts).closed = port.closed
    <2> DEFINE p == Anchored(ts)
               ahead == p.start + Delta(ts, p.origin) - now > MaxAge
    <2>1. (IF Udp \/ First THEN port.debt ELSE Debt) \in Nat
        BY <1>1, <1>4 DEF PortRec
    <2>2. (IF ahead THEN ts ELSE p.origin) \in Int /\ (IF ahead THEN now ELSE p.start) \in Nat
        BY <1>1, <1>3 DEF PortRec
    <2>3. port.queue \in Seq(Item) /\ port.closed \in BOOLEAN
        BY <1>1 DEF PortRec
    <2> HIDE DEF ahead
    <2> QED
        BY <1>1, <2>1, <2>2, <2>3 DEF PortRec, Judged, ahead
<1>6. Queued(id, ts) \in Timely
    <2> DEFINE p == Judged(ts)
               due == p.start + Delta(ts, p.origin)
    <2>1. due \in Nat
        <3>1. p.start \in Nat /\ p.origin \in Int
            BY <1>5 DEF PortRec
        <3>2. Delta(ts, p.origin) \in Nat
            BY <1>1, <3>1, DeltaNat
        <3> QED
            BY <3>1, <3>2
    <2>2. Lesser(now, due) \in Nat /\ Lesser(now, due) <= now /\ Lesser(now, due) <= due
        BY <1>1, <2>1 DEF Lesser
    <2>3. Queued(id, ts) = [id |-> id, ts |-> ts, rcv |-> now, exp |-> due, dl |-> Lesser(now, due) + MaxAge]
        BY DEF Queued
    <2> HIDE DEF due, p
    <2> QED
        BY <1>1, <2>1, <2>2, <2>3 DEF Timely, Item
<1> QED
    BY <1>2, <1>5, <1>6

InpRec == [pc : {"off", "get", "decode", "push", "failed", "gone"}, item : Item,
           left : 0..Frames, bad : 0..MaxInvalid]

\* What every step does that does not close the port.
PortStep ==
    /\ profile' = profile /\ port'.closed = port.closed
    /\ now' = now \/ (now' = now + 1 /\ UNCHANGED <<claim, recov>>)
    /\ UNCHANGED <<claim, recov>> \/ ClaimRecovery

\* The invariant of the port, from its parts.
LEMMA PortBuilt ==
    ASSUME PortOK, profile' = profile, now' \in Nat,
           port' \in PortRec, port'.queue \in Seq(Timely), Len(port'.queue) <= InCap,
           claim' \in [at : Int, n : Nat], recov' \in Seq(Nat),
           puts' \in Seq(PutRec), landed' \subseteq Callers,
           inp' \in InpRec, inp'.item \in Timely, inp'.pc = "push" => inp'.left >= 1
    PROVE  PortOK'
BY DEF PortOK, PortTypeOK, PortRec, InpRec, PutRec, Timely, Callers, MaxAge, InCap

\* What PortOK says of each variable.
LEMMA PortParts ==
    ASSUME PortOK
    PROVE  /\ profile \in {"wss", "udp"} /\ now \in Nat
           /\ port \in PortRec /\ port.queue \in Seq(Timely) /\ Len(port.queue) <= InCap
           /\ claim \in [at : Int, n : Nat] /\ recov \in Seq(Nat)
           /\ puts \in Seq(PutRec) /\ landed \subseteq Callers
           /\ inp \in InpRec /\ inp.item \in Timely /\ (inp.pc = "push" => inp.left >= 1)
           /\ Timely \subseteq Item
BY DEF PortOK, PortTypeOK, PortRec, InpRec, Timely

\* A sequence of typed elements grows and shrinks.
LEMMA SeqTyped ==
    ASSUME NEW S, NEW s \in Seq(S)
    PROVE  /\ \A e \in S : Append(s, e) \in Seq(S) /\ Len(Append(s, e)) = Len(s) + 1
           /\ Len(s) \in Nat /\ \A i \in 1..Len(s) : s[i] \in S
           /\ s # <<>> => Tail(s) \in Seq(S) /\ Head(s) \in S /\ Len(Tail(s)) = Len(s) - 1
OBVIOUS

\* A sequence over a set is one over a larger set.
LEMMA SeqWider ==
    ASSUME NEW S, NEW T, S \subseteq T, NEW s \in Seq(S)
    PROVE  s \in Seq(T)
OBVIOUS

\* _claim_uplink_freshness_recovery keeps the types.
LEMMA ClaimTyped ==
    ASSUME PortTypeOK, ClaimRecovery
    PROVE  claim' \in [at : Int, n : Nat] /\ recov' \in Seq(Nat)
<1>1. now \in Nat /\ claim \in [at : Int, n : Nat] /\ recov \in Seq(Nat)
    BY DEF PortTypeOK
<1>2. ClaimedNow \in [at : Int, n : Nat]
    BY <1>1, SMTT(30) DEF ClaimedNow
<1>3. Append(recov, now) \in Seq(Nat)
    BY <1>1
<1> QED
    BY <1>1, <1>2, <1>3 DEF ClaimRecovery

\* receive_audio, receive_udp_audio.
LEMMA ReceiveOK ==
    ASSUME PortOK, NEW o \in Callers, NEW id \in Nat, NEW ts \in Nat, ReceiveAudio(o, id, ts)
    PROVE  PortOK' /\ PortStep
<1>1. port \in PortRec /\ port.queue \in Seq(Timely) /\ Len(port.queue) <= InCap /\ InCap \in Nat /\ now \in Nat
    BY PortParts, Limits DEF PortOK
<1>2. Queued(id, ts) \in Timely /\ Timely \subseteq Item
    BY JudgedOK DEF Timely
<1>3. port' \in PortRec /\ port'.queue \in Seq(Timely) /\ Len(port'.queue) <= InCap /\ port'.closed = port.closed
    <2>1. CASE port' = port
        BY <1>1, <2>1
    <2>2. CASE port' = Touched(ts) \/ port' = Judged(ts)
        BY <1>1, <2>2, JudgedOK
    <2>3. CASE port' = CatchUpDrop(ts)
        <3>1. PacedNow \in Nat /\ port.dropped + 1 \in Nat /\ None \in Int /\ ts \in Int
            BY <1>1 DEF PacedNow, PortRec, None
        <3> DEFINE q == [[[port EXCEPT !.lastTs = ts] EXCEPT !.lastAt = now] EXCEPT !.origin = None]
                   r == [[[q EXCEPT !.start = 0] EXCEPT !.dropped = port.dropped + 1] EXCEPT !.paced = PacedNow]
        <3>2. CatchUpDrop(ts) = r
            BY <1>1 DEF CatchUpDrop, PortRec
        <3>3. q \in PortRec
            <4>1. [port EXCEPT !.lastTs = ts] \in PortRec
                BY <1>1, <3>1, PortFields
            <4>2. [[port EXCEPT !.lastTs = ts] EXCEPT !.lastAt = now] \in PortRec
                BY <1>1, <4>1, PortFields
            <4> QED
                BY <3>1, <4>2, PortFields
        <3>4. r \in PortRec
            <4> HIDE DEF q
            <4>1. [q EXCEPT !.start = 0] \in PortRec
                BY <3>3, PortFields
            <4>2. [[q EXCEPT !.start = 0] EXCEPT !.dropped = port.dropped + 1] \in PortRec
                BY <3>1, <4>1, PortFields
            <4> QED
                BY <3>1, <4>2, PortFields
        <3>5. CatchUpDrop(ts).queue = port.queue /\ CatchUpDrop(ts).closed = port.closed
            BY <1>1 DEF CatchUpDrop, PortRec
        <3> QED
            BY <1>1, <2>3, <3>2, <3>4, <3>5
    <2>4. CASE HasRoom /\ port' = [Judged(ts) EXCEPT !.queue = Append(port.queue, Queued(id, ts))]
        <3> DEFINE q == Append(port.queue, Queued(id, ts))
        <3>1. q \in Seq(Timely) /\ q \in Seq(Item)
            BY <1>1, <1>2, SeqTyped DEF PortRec
        <3>2. Len(q) <= InCap
            BY <1>1, <1>2, <2>4, SeqTyped DEF HasRoom
        <3> HIDE DEF q
        <3>3. port'.queue = q /\ port'.closed = port.closed
            BY <2>4, JudgedOK, SMTT(30) DEF PortRec, q
        <3>4. port' \in PortRec
            BY <2>4, <3>1, JudgedOK, PortFields DEF q
        <3> QED
            BY <3>1, <3>2, <3>3, <3>4
    <2>5. \/ port' \in {port, Touched(ts), Judged(ts), CatchUpDrop(ts)}
          \/ HasRoom /\ port' = [Judged(ts) EXCEPT !.queue = Append(port.queue, Queued(id, ts))]
        <3> DEFINE q == Append(port.queue, Queued(id, ts))
        <3>1. [Judged(ts) EXCEPT !.queue = Append(@, Queued(id, ts))] = [Judged(ts) EXCEPT !.queue = q]
            BY JudgedOK
        <3> HIDE DEF q
        <3>2. \/ port' \in {port, Touched(ts), Judged(ts), CatchUpDrop(ts)}
              \/ HasRoom /\ port' = [Judged(ts) EXCEPT !.queue = q]
            BY <3>1, Zenon DEF ReceiveAudio
        <3> QED
            BY <3>2 DEF q
    <2> QED
        BY <2>1, <2>2, <2>3, <2>4, <2>5
<1>4. puts' \in Seq(PutRec)
    <2> DEFINE put == [o |-> o, item |-> Queued(id, ts)]
    <2>1. put \in PutRec /\ puts \in Seq(PutRec)
        BY <1>2, PortParts DEF PutRec
    <2>2. puts' = puts \/ puts' = Append(puts, put)
        BY Zenon DEF ReceiveAudio
    <2> HIDE DEF put
    <2> QED
        BY <2>1, <2>2, SeqTyped
<1>5. /\ claim' \in [at : Int, n : Nat] /\ recov' \in Seq(Nat)
      /\ UNCHANGED <<claim, recov>> \/ ClaimRecovery
    <2>1. claim \in [at : Int, n : Nat] /\ recov \in Seq(Nat) /\ PortTypeOK
        BY PortParts DEF PortOK
    <2>2. UNCHANGED <<claim, recov>> \/ ClaimRecovery
        BY DEF ReceiveAudio
    <2> QED
        BY <2>1, <2>2, ClaimTyped
<1>6. UNCHANGED <<profile, now, landed, inp>>
    BY DEF ReceiveAudio
<1>7. PortOK'
    BY <1>3, <1>4, <1>5, <1>6, PortParts, PortBuilt
<1> QED
    BY <1>3, <1>5, <1>6, <1>7 DEF PortStep

\* A put that is gone leaves the others in their order.
LEMMA DroppedOK ==
    ASSUME PortOK, NEW o
    PROVE  Dropped(o) \in Seq(PutRec)
<1> DEFINE mine == CHOOSE i \in DOMAIN puts : puts[i].o = o
           n == Len(puts) - 1
<1>1. puts \in Seq(PutRec) /\ Len(puts) \in Nat /\ \A i \in 1..Len(puts) : puts[i] \in PutRec
    BY PortParts, SeqTyped
<1>2. CASE Waiting(o)
    <2>1. mine \in 1..Len(puts)
        BY <1>1, <1>2 DEF Waiting
    <2>2. n \in Nat
        BY <1>1, <2>1
    <2> HIDE DEF mine, n
    <2>3. \A i \in 1..n : puts[IF i < mine THEN i ELSE i + 1] \in PutRec
        BY <1>1, <2>1, <2>2 DEF n
    <2>4. [i \in 1..n |-> puts[IF i < mine THEN i ELSE i + 1]] \in Seq(PutRec)
        BY <2>2, <2>3
    <2> QED
        BY <1>2, <2>4 DEF Dropped, mine, n
<1>3. CASE ~Waiting(o)
    BY <1>1, <1>3 DEF Dropped
<1> QED
    BY <1>2, <1>3

\* A waiting put lands.
LEMMA PutLandsOK ==
    ASSUME PortOK, PutLands
    PROVE  PortOK' /\ PortStep
<1>1. /\ puts # <<>> /\ HasRoom /\ port' = [port EXCEPT !.queue = Append(port.queue, Head(puts).item)]
      /\ puts' = Tail(puts) /\ landed' = landed \cup {Head(puts).o}
      /\ UNCHANGED <<profile, now, claim, inp, recov>>
    BY PortParts DEF PutLands, PortRec
<1>2. Head(puts) \in PutRec /\ Tail(puts) \in Seq(PutRec)
    BY <1>1, PortParts, SeqTyped
<1>3. Head(puts).item \in Timely /\ Head(puts).o \in Callers
    BY <1>2 DEF PutRec
<1> DEFINE q == Append(port.queue, Head(puts).item)
<1>4. q \in Seq(Timely) /\ q \in Seq(Item) /\ Len(q) = Len(port.queue) + 1 /\ Len(port.queue) \in Nat
    BY <1>3, PortParts, SeqTyped DEF PortRec
<1>5. Len(q) <= InCap
    BY <1>1, <1>4, Limits DEF HasRoom, PortOK
<1> HIDE DEF q
<1>6. port' \in PortRec /\ port'.queue = q /\ port'.closed = port.closed
    BY <1>1, <1>4, PortParts, PortFields DEF PortRec, q
<1>7. landed' \subseteq Callers
    BY <1>1, <1>3, PortParts
<1>8. PortOK'
    BY <1>1, <1>2, <1>4, <1>5, <1>6, <1>7, PortParts, PortBuilt
<1> QED
    BY <1>1, <1>6, <1>8 DEF PortStep

\* A caller leaves the queue of puts: it resumes, gives up or is cancelled.
LEMMA PutsOK ==
    ASSUME PortOK, UNCHANGED <<profile, now, port, claim, inp, recov>>,
           landed' \subseteq landed, puts' = puts \/ \E o \in Callers : puts' = Dropped(o)
    PROVE  PortOK' /\ PortStep
<1>1. puts' \in Seq(PutRec) /\ landed' \subseteq Callers
    BY DroppedOK, PortParts
<1>2. PortOK'
    BY <1>1, PortParts, PortBuilt
<1> QED
    BY <1>2 DEF PortStep

\* The binding closes its ports.
LEMMA CloseOK ==
    ASSUME PortOK, ClosePort
    PROVE  PortOK' /\ UNCHANGED <<profile, now, claim, recov>> /\ port'.closed = TRUE
<1>1. [port EXCEPT !.closed = TRUE, !.queue = <<>>] = [[port EXCEPT !.closed = TRUE] EXCEPT !.queue = <<>>]
    BY Zenon
<1>2. [port EXCEPT !.closed = TRUE] \in PortRec
    BY PortParts, PortFields
<1>3. port' \in PortRec /\ port'.queue = <<>> /\ port'.closed = TRUE
    <2>1. <<>> \in Seq(Item)
        OBVIOUS
    <2>2. port' \in PortRec
        BY <1>1, <1>2, <2>1, PortFields, Zenon DEF ClosePort
    <2>3. port'.queue = <<>>
        BY PortParts DEF ClosePort, PortRec
    <2>4. port'.closed = TRUE
        BY PortParts DEF ClosePort, PortRec
    <2> QED
        BY <2>2, <2>3, <2>4
<1>4. UNCHANGED <<profile, now, puts, landed, claim, inp, recov>>
    BY DEF ClosePort
<1>5. port'.queue \in Seq(Timely) /\ Len(port'.queue) <= InCap
    BY <1>3, Limits DEF PortOK
<1>6. /\ now' \in Nat /\ claim' \in [at : Int, n : Nat] /\ recov' \in Seq(Nat)
      /\ puts' \in Seq(PutRec) /\ landed' \subseteq Callers
      /\ inp' \in InpRec /\ inp'.item \in Timely /\ (inp'.pc = "push" => inp'.left >= 1)
    BY <1>4, PortParts
<1>7. PortOK'
    BY <1>3, <1>4, <1>5, <1>6, PortBuilt
<1> QED
    BY <1>3, <1>4, <1>7

----------------------------------------------------------------------------
(* The input loop.                                                         *)

\* The newest fresh packet exists and its new deadline is MaxAge from its arrival.
LEMMA LiveEdgeOK ==
    ASSUME PortOK, NEW item \in Timely, NEW backlog \in Seq(Timely), Fresh(item, backlog) # {}
    PROVE  LiveEdge(item, backlog) \in Timely
<1> DEFINE c == Candidates(item, backlog)
           n == Len(backlog) + 1
           F == Fresh(item, backlog)
           newest == CHOOSE i \in F : \A j \in F : j <= i
           e == c[newest]
<1>1. c \in Seq(Timely) /\ Len(c) = n /\ DOMAIN c = 1..n /\ n \in Nat
    BY DEF Candidates
<1>2. F \in SUBSET (0 .. n) /\ F \subseteq 1..n
    BY <1>1 DEF Fresh
<1>3. \E i \in F : \A j \in F : j <= i
    BY <1>1, <1>2, MaxExists
<1>4. newest \in 1..n
    BY <1>2, <1>3
<1>5. e \in Timely
    BY <1>1, <1>4
<1> HIDE DEF c, n, F, newest, e
<1>6. LiveEdge(item, backlog) = [e EXCEPT !.exp = e.rcv, !.dl = e.rcv + MaxAge]
    BY DEF LiveEdge, c, F, newest, e
<1>7. MaxAge \in Nat
    BY Limits DEF PortOK
<1>8. e.id \in Int /\ e.ts \in Nat /\ e.rcv \in Nat
    BY <1>5 DEF Timely, Item
<1>9. LiveEdge(item, backlog) = [id |-> e.id, ts |-> e.ts, rcv |-> e.rcv, exp |-> e.rcv, dl |-> e.rcv + MaxAge]
    BY <1>5, <1>6 DEF Timely, Item
<1> QED
    BY <1>7, <1>8, <1>9 DEF Timely, Item

\* A port with another backlog and a restarted timeline.
LEMMA Requeued ==
    ASSUME PortOK, NEW q \in Seq(Timely), NEW o \in Int, NEW s \in Nat
    PROVE  /\ [port EXCEPT !.queue = q, !.origin = o, !.start = s] \in PortRec
           /\ [port EXCEPT !.queue = q, !.origin = o, !.start = s].queue = q
           /\ [port EXCEPT !.queue = q, !.origin = o, !.start = s].closed = port.closed
<1>1. q \in Seq(Item) /\ port \in PortRec
    BY PortParts
<1>2. [port EXCEPT !.queue = q, !.origin = o, !.start = s]
        = [[port EXCEPT !.queue = q] EXCEPT !.origin = o, !.start = s]
    BY <1>1 DEF PortRec
<1>3. [port EXCEPT !.queue = q] \in PortRec
    BY <1>1, PortFields
<1>4. [port EXCEPT !.queue = q].queue = q /\ [port EXCEPT !.queue = q].closed = port.closed
    BY <1>1 DEF PortRec
<1> QED
    BY <1>2, <1>3, <1>4, Restarted

\* drop_stale_to_live_edge leaves at most one packet, with a restarted timeline.
LEMMA AtLiveEdgeOK ==
    ASSUME PortOK, NEW item \in Timely, NEW backlog \in Seq(Timely)
    PROVE  /\ AtLiveEdge(item, backlog) \in PortRec
           /\ AtLiveEdge(item, backlog).queue \in Seq(Timely)
           /\ Len(AtLiveEdge(item, backlog).queue) <= InCap
           /\ AtLiveEdge(item, backlog).closed = port.closed
<1>1. InCap \in Nat /\ InCap > 0 /\ port \in PortRec /\ Timely \subseteq Item
    BY Limits, PortParts DEF PortOK
<1>3. CASE Fresh(item, backlog) # {}
    <2> DEFINE e == LiveEdge(item, backlog)
    <2>1. e \in Timely
        BY <1>3, LiveEdgeOK
    <2>2. e.ts \in Int /\ e.rcv \in Nat
        BY <2>1 DEF Timely, Item
    <2> HIDE DEF e
    <2> DEFINE q == <<e>>
    <2>3. q \in Seq(Timely) /\ Len(q) = 1
        BY <2>1
    <2>4. AtLiveEdge(item, backlog) = [port EXCEPT !.queue = q, !.origin = e.ts, !.start = e.rcv]
        BY <1>3 DEF AtLiveEdge, e
    <2> HIDE DEF q
    <2>5. \A o \in Int, s \in Nat :
             /\ [port EXCEPT !.queue = q, !.origin = o, !.start = s] \in PortRec
             /\ [port EXCEPT !.queue = q, !.origin = o, !.start = s].queue = q
             /\ [port EXCEPT !.queue = q, !.origin = o, !.start = s].closed = port.closed
        BY <2>3, Requeued
    <2> DEFINE p == [port EXCEPT !.queue = q, !.origin = e.ts, !.start = e.rcv]
    <2>6. p \in PortRec /\ p.queue = q /\ p.closed = port.closed
        BY <2>2, <2>5
    <2> HIDE DEF p
    <2>7. AtLiveEdge(item, backlog) = p
        BY <2>4 DEF p
    <2>8. Len(q) <= InCap
        BY <1>1, <2>3
    <2> QED
        BY <2>3, <2>6, <2>7, <2>8, Zenon
<1>4. CASE Fresh(item, backlog) = {}
    <2> DEFINE q == <<>>
    <2>1. AtLiveEdge(item, backlog) = [port EXCEPT !.queue = q, !.origin = None, !.start = 0]
        BY <1>4 DEF AtLiveEdge
    <2>2. q \in Seq(Timely) /\ Len(q) = 0 /\ None \in Int /\ 0 \in Nat
        BY DEF None
    <2> HIDE DEF q
    <2>3. \A o \in Int, s \in Nat :
             /\ [port EXCEPT !.queue = q, !.origin = o, !.start = s] \in PortRec
             /\ [port EXCEPT !.queue = q, !.origin = o, !.start = s].queue = q
             /\ [port EXCEPT !.queue = q, !.origin = o, !.start = s].closed = port.closed
        BY <2>2, Requeued
    <2> DEFINE p == [port EXCEPT !.queue = q, !.origin = None, !.start = 0]
    <2>4. p \in PortRec /\ p.queue = q /\ p.closed = port.closed
        BY <2>2, <2>3, Zenon
    <2> HIDE DEF p
    <2>5. AtLiveEdge(item, backlog) = p
        BY <2>1 DEF p
    <2>6. Len(q) <= InCap
        BY <1>1, <2>2
    <2> QED
        BY <2>2, <2>4, <2>5, <2>6, Zenon
<1> QED
    BY <1>3, <1>4

\* The loop that failed keeps the packet it failed on.
LEMMA FailedOK ==
    ASSUME PortOK
    PROVE  Failed \in InpRec /\ Failed.item \in Timely /\ Failed.pc = "failed"
BY PortParts, Limits DEF Failed, InpRec, PortOK

\* WSS catches up after an isolated stale packet.
LEMMA CatchUpOK ==
    ASSUME NEW p \in PortRec
    PROVE  CatchUpFrom(p) \in PortRec /\ CatchUpFrom(p).queue = p.queue /\ CatchUpFrom(p).closed = p.closed
<1> DEFINE q == [[p EXCEPT !.catch = TRUE] EXCEPT !.dropped = 0]
<1>1. CatchUpFrom(p) = [[q EXCEPT !.paced = 0] EXCEPT !.debt = 0]
    BY DEF CatchUpFrom, PortRec
<1>2. q \in PortRec
    <2>1. [p EXCEPT !.catch = TRUE] \in PortRec
        BY PortFields
    <2> QED
        BY <2>1, PortFields
<1>3. [[q EXCEPT !.paced = 0] EXCEPT !.debt = 0] \in PortRec
    <2> HIDE DEF q
    <2>1. [q EXCEPT !.paced = 0] \in PortRec
        BY <1>2, PortFields
    <2> QED
        BY <2>1, PortFields
<1> QED
    BY <1>1, <1>3 DEF CatchUpFrom, PortRec

\* A step of the loop, from what it does to the port and to the loop.
LEMMA LoopBuilt ==
    ASSUME PortOK, UNCHANGED <<profile, now, puts, landed>>,
           port' \in PortRec, port'.queue \in Seq(Timely), Len(port'.queue) <= InCap, port'.closed = port.closed,
           inp' \in InpRec, inp'.item \in Timely, inp'.pc = "push" => inp'.left >= 1,
           UNCHANGED <<claim, recov>> \/ ClaimRecovery
    PROVE  PortOK' /\ PortStep
<1>1. claim' \in [at : Int, n : Nat] /\ recov' \in Seq(Nat)
    BY PortParts, ClaimTyped DEF PortOK
<1>2. PortOK'
    BY <1>1, PortParts, PortBuilt
<1> QED
    BY <1>2 DEF PortStep

\* The loop takes a packet, or skips to the live edge.
LEMMA GetAudioOK ==
    ASSUME PortOK, GetAudio
    PROVE  PortOK' /\ PortStep
<1> DEFINE item == Head(port.queue)
           backlog == Tail(port.queue)
<1>1. UNCHANGED <<profile, now, puts, landed>>
    BY DEF GetAudio
<1>2. port.queue # <<>> /\ inp.pc = "get"
    BY DEF GetAudio
<1>3. item \in Timely /\ backlog \in Seq(Timely) /\ Len(backlog) <= InCap
    BY <1>2, PortParts, SeqTyped, Limits DEF PortOK
<1>4. CASE /\ port' = [port EXCEPT !.queue = backlog]
           /\ inp' = [inp EXCEPT !.pc = "decode", !.item = item]
           /\ UNCHANGED <<claim, recov>>
    <2> HIDE DEF item, backlog
    <2>1. backlog \in Seq(Item) /\ item \in Item
        BY <1>3, PortParts
    <2>2. port' \in PortRec
        BY <1>4, <2>1, PortParts, PortFields, Zenon
    <2>3. port'.queue = backlog /\ port'.closed = port.closed
        BY <1>4, PortParts DEF PortRec
    <2>4. inp' \in InpRec /\ inp'.item = item /\ inp'.pc = "decode"
        BY <1>4, <2>1, PortParts DEF InpRec
    <2> QED
        BY <1>1, <1>3, <1>4, <2>2, <2>3, <2>4, LoopBuilt
<1>5. CASE SkipStale(item, backlog)
    <2> HIDE DEF item, backlog
    <2> DEFINE p == AtLiveEdge(item, backlog)
    <2>1. p \in PortRec /\ p.queue \in Seq(Timely) /\ Len(p.queue) <= InCap /\ p.closed = port.closed
        BY <1>3, AtLiveEdgeOK
    <2>2. UNCHANGED <<claim, recov>> \/ ClaimRecovery
        BY <1>5, Zenon DEF SkipStale
    <2>3. port' = p \/ port' = CatchUpFrom(p)
        BY <1>5, Zenon DEF SkipStale
    <2>4. inp' = inp \/ inp' = Failed
        BY <1>5, Zenon DEF SkipStale
    <2> HIDE DEF p
    <2>5. port' \in PortRec /\ port'.queue = p.queue /\ port'.closed = p.closed
        BY <2>1, <2>3, CatchUpOK, Zenon
    <2>6. inp' \in InpRec /\ inp'.item \in Timely /\ inp'.pc # "push"
        BY <1>2, <2>4, FailedOK, PortParts
    <2>7. port'.queue \in Seq(Timely) /\ Len(port'.queue) <= InCap /\ port'.closed = port.closed
        BY <2>1, <2>5, Zenon
    <2> QED
        BY <1>1, <2>2, <2>5, <2>6, <2>7, LoopBuilt
<1>6. \/ /\ port' = [port EXCEPT !.queue = backlog]
         /\ inp' = [inp EXCEPT !.pc = "decode", !.item = item]
         /\ UNCHANGED <<claim, recov>>
      \/ SkipStale(item, backlog)
    <2>1. port.queue = port.queue
        OBVIOUS
    <2> QED
        BY PortParts, Zenon DEF GetAudio
<1> QED
    BY <1>4, <1>5, <1>6

\* The loop gives a packet up that became stale.
LEMMA GiveUpOK ==
    ASSUME PortOK, GiveUp, UNCHANGED <<profile, now, puts, landed, claim, recov>>
    PROVE  PortOK' /\ PortStep
<1>1. inp.item \in Timely /\ port.queue \in Seq(Timely)
    BY PortParts
<1> DEFINE p == AtLiveEdge(inp.item, port.queue)
<1>2. p \in PortRec /\ p.queue \in Seq(Timely) /\ Len(p.queue) <= InCap /\ p.closed = port.closed
    BY <1>1, AtLiveEdgeOK
<1> HIDE DEF p
<1>3. port' = p /\ inp' = Failed
    BY DEF GiveUp, p
<1>4. inp' \in InpRec /\ inp'.item \in Timely /\ inp'.pc # "push"
    BY <1>3, FailedOK
<1>5. /\ port' \in PortRec /\ port'.queue \in Seq(Timely) /\ Len(port'.queue) <= InCap
      /\ port'.closed = port.closed
    BY <1>2, <1>3, Zenon
<1> QED
    BY <1>4, <1>5, LoopBuilt

\* mark_consumed.
LEMMA RebasedOK ==
    ASSUME PortOK
    PROVE  Rebased \in PortRec /\ Rebased.queue = port.queue /\ Rebased.closed = port.closed
<1>1. inp.item.ts \in Int /\ inp.item.exp \in Nat /\ port \in PortRec
    BY PortParts DEF Timely, Item
<1> DEFINE r == [port EXCEPT !.origin = inp.item.ts, !.start = inp.item.exp]
<1>2. r \in PortRec /\ r.queue = port.queue /\ r.closed = port.closed
    BY <1>1, Restarted
<1>3. Rebased = r \/ Rebased = port
    BY Zenon DEF Rebased
<1> HIDE DEF r
<1> QED
    BY <1>1, <1>2, <1>3, Zenon

\* _input_loop.
LEMMA InputOK ==
    ASSUME PortOK, InputLoop
    PROVE  PortOK' /\ PortStep
<1> USE PortParts, Limits DEF PortOK
<1>1. CASE GetAudio
    BY <1>1, GetAudioOK
<1>2. CASE Decoded
    <2>1. CASE GiveUp
        BY <1>2, <2>1, GiveUpOK DEF Decoded
    <2>2. CASE inp' = [inp EXCEPT !.pc = "push", !.left = Frames, !.bad = 0] /\ UNCHANGED port
        <3>1. inp' = [pc |-> "push", item |-> inp.item, left |-> Frames, bad |-> 0]
            BY <2>2 DEF InpRec
        <3>2. inp' \in InpRec /\ inp'.item \in Timely /\ inp'.left >= 1
            BY <3>1 DEF InpRec
        <3> QED
            BY <1>2, <2>2, <3>2, LoopBuilt DEF Decoded
    <2> QED
        BY <1>2, <2>1, <2>2 DEF Decoded
<1>3. CASE InvalidOpus
    <2>1. inp.bad \in 0..MaxInvalid /\ (inp.bad + 1 < MaxInvalid => inp.bad + 1 \in 0..MaxInvalid)
        BY DEF InpRec
    <2>2. inp' \in InpRec /\ inp'.item \in Timely /\ inp'.pc # "push"
        <3>1. CASE inp' = Failed
            BY <3>1, FailedOK
        <3>2. CASE inp' = [inp EXCEPT !.pc = "get", !.bad = inp.bad + 1] /\ inp.bad + 1 < MaxInvalid
            BY <2>1, <3>2 DEF InpRec
        <3> QED
            BY <1>3, <2>1, <3>1, <3>2 DEF InvalidOpus, InpRec
    <2> QED
        BY <1>3, <2>2, LoopBuilt DEF InvalidOpus
<1>4. CASE FramePushed
    <2>1. CASE GiveUp
        BY <1>4, <2>1, GiveUpOK DEF FramePushed
    <2>2. CASE /\ inp' = IF inp.left = 1 THEN [inp EXCEPT !.pc = "get", !.left = 0] ELSE [inp EXCEPT !.left = inp.left - 1]
               /\ port' = IF inp.left = 1 THEN Rebased ELSE port
        <3>1. inp.pc = "push" /\ UNCHANGED <<profile, now, puts, landed, claim, recov>>
            BY <1>4 DEF FramePushed
        <3>2. inp.left \in 0..Frames /\ inp.left >= 1
            BY <3>1 DEF InpRec
        <3>3. inp' \in InpRec /\ inp'.item \in Timely /\ (inp'.pc = "push" => inp'.left >= 1)
            <4>1. CASE inp.left = 1
                <5>1. inp' = [pc |-> "get", item |-> inp.item, left |-> 0, bad |-> inp.bad]
                    BY <2>2, <4>1 DEF InpRec
                <5> QED
                    BY <5>1 DEF InpRec
            <4>2. CASE inp.left # 1
                <5>1. inp.left - 1 \in 0..Frames /\ inp.left - 1 >= 1
                    BY <3>2, <4>2
                <5> QED
                    BY <2>2, <4>2, <5>1 DEF InpRec
            <4> QED
                BY <4>1, <4>2
        <3>4. port' \in PortRec /\ port'.queue = port.queue /\ port'.closed = port.closed
            BY <2>2, RebasedOK, Zenon
        <3> QED
            BY <3>1, <3>3, <3>4, LoopBuilt
    <2> QED
        BY <1>4, <2>1, <2>2 DEF FramePushed, InpRec
<1>5. CASE PushFailed
    <2>1. inp' \in InpRec /\ inp'.item \in Timely /\ inp'.pc # "push"
        BY <1>5, FailedOK DEF PushFailed
    <2> QED
        BY <1>5, <2>1, LoopBuilt DEF PushFailed
<1> QED
    BY <1>1, <1>2, <1>3, <1>4, <1>5 DEF InputLoop

----------------------------------------------------------------------------
(* The UDP session.                                                        *)

UsRec == [closed : BOOLEAN, expired : BOOLEAN, registered : BOOLEAN, src : Sources \cup {NoSource},
          ready : BOOLEAN, cursor : Nat, hi : Int, seen : SUBSET Nat, reorder : SUBSET Nat,
          ref : Timers \cup {NoTimer}, reackOpen : BOOLEAN, reacks : 0..Reacks]
TaskRec == [pc : {"off", "gone", "idle", "sleep", "drain", "deliver", "blocked"}, exp : Nat, last : Nat]
SentRec == [kind : {"audio", "keepalive"}, ts : Nat]
DatagramRec == [n : Nat, src : Sources]

\* What waits in the session was sent.
Buffered ==
    /\ IsFiniteSet(us.reorder) /\ us.hi >= -1
    /\ us.reorder \subseteq 1..Len(sent)
    /\ \A i \in DOMAIN uq : uq[i].n <= Len(sent)

\* The task that runs is the one that drains, and it delivers a packet that was sent.
Running ==
    /\ \A o \in Tasks : (task[o].pc \in {"drain", "deliver"}) <=> (cpu = o)
    /\ \A o \in Tasks : task[o].pc = "deliver" => task[o].exp \in 1..Len(sent)

\* A closed session has no worker.
ClosedIdle == us.closed => task["worker"].pc = "gone"

SessionOK == UdpTypeOK /\ Buffered /\ Running /\ ClosedIdle

LEMMA Names ==
    /\ Idle \notin Tasks /\ "worker" \in Tasks /\ "worker" \notin Timers /\ Timers \subseteq Tasks
    /\ NoTimer \notin Tasks /\ NoTimer \notin Timers /\ "reader" \notin Tasks
    /\ Jitter \in Nat /\ Jitter > 0 /\ ReplaySize \in Nat /\ ReplaySize > 0
    /\ UdpQueue \in Nat /\ UdpQueue > 0 /\ Reacks \in Nat
<1>1. {Jitter, ReplaySize, MaxJump, UdpQueue} \subseteq Nat \ {0} /\ Reacks \in Nat
    BY SessionAssumption
<1>2. Jitter \in Nat \ {0} /\ ReplaySize \in Nat \ {0} /\ UdpQueue \in Nat \ {0}
    BY <1>1
<1>3. "worker" \notin Timers /\ "reader" \notin Timers /\ "none" \notin Timers
    BY SessionAssumption
<1> QED
    BY <1>1, <1>2, <1>3 DEF Idle, NoTimer, Tasks

\* What SessionOK says of each variable.
LEMMA SessionParts ==
    ASSUME SessionOK
    PROVE  /\ sent \in Seq(SentRec) /\ uq \in Seq(DatagramRec) /\ Len(uq) <= UdpQueue
           /\ us \in UsRec /\ Cardinality(us.reorder) <= Jitter
           /\ task \in [Tasks -> TaskRec] /\ cpu \in Tasks \cup {Idle}
           /\ gw \in {"up", "failed", "closed"} /\ log \in Seq(Nat)
           /\ stalled \in BOOLEAN /\ fail \in BOOLEAN
           /\ Buffered /\ Running /\ ClosedIdle
BY DEF SessionOK, UdpTypeOK, UsRec, TaskRec, SentRec, DatagramRec

\* The invariant of the session, from its parts.
LEMMA SessionBuilt ==
    ASSUME sent' \in Seq(SentRec), uq' \in Seq(DatagramRec), Len(uq') <= UdpQueue,
           us' \in UsRec, Cardinality(us'.reorder) <= Jitter,
           task' \in [Tasks -> TaskRec], cpu' \in Tasks \cup {Idle},
           gw' \in {"up", "failed", "closed"}, log' \in Seq(Nat),
           stalled' \in BOOLEAN, fail' \in BOOLEAN, Buffered', Running', ClosedIdle'
    PROVE  SessionOK'
BY DEF SessionOK, UdpTypeOK, UsRec, TaskRec, SentRec, DatagramRec

\* A session with one field replaced is a session.
LEMMA UsFields ==
    ASSUME NEW s \in UsRec
    PROVE  /\ \A v \in BOOLEAN : [s EXCEPT !.closed = v] \in UsRec
           /\ \A v \in BOOLEAN : [s EXCEPT !.expired = v] \in UsRec
           /\ \A v \in BOOLEAN : [s EXCEPT !.registered = v] \in UsRec
           /\ \A v \in Sources \cup {NoSource} : [s EXCEPT !.src = v] \in UsRec
           /\ \A v \in BOOLEAN : [s EXCEPT !.ready = v] \in UsRec
           /\ \A v \in Nat : [s EXCEPT !.cursor = v] \in UsRec
           /\ \A v \in Int : [s EXCEPT !.hi = v] \in UsRec
           /\ \A v \in SUBSET Nat : [s EXCEPT !.seen = v] \in UsRec
           /\ \A v \in SUBSET Nat : [s EXCEPT !.reorder = v] \in UsRec
           /\ \A v \in Timers \cup {NoTimer} : [s EXCEPT !.ref = v] \in UsRec
           /\ \A v \in BOOLEAN : [s EXCEPT !.reackOpen = v] \in UsRec
           /\ \A v \in 0..Reacks : [s EXCEPT !.reacks = v] \in UsRec
BY DEF UsRec

\* The record of one task is replaced.
LEMMA TaskSet ==
    ASSUME NEW t \in [Tasks -> TaskRec], NEW o \in Tasks, NEW r \in TaskRec
    PROVE  /\ [t EXCEPT ![o] = r] \in [Tasks -> TaskRec]
           /\ [t EXCEPT ![o] = r][o] = r
           /\ \A x \in Tasks : x # o => [t EXCEPT ![o] = r][x] = t[x]
OBVIOUS

LEMMA AtTyped ==
    ASSUME NEW pc \in {"off", "gone", "idle", "sleep"}
    PROVE  At(pc) \in TaskRec /\ At(pc).pc = pc
BY DEF At, TaskRec

----------------------------------------------------------------------------
(* What the operators of the session change.                               *)

\* ReplayWindow.commit.
LEMMA CommittedOK ==
    ASSUME NEW s \in UsRec, s.hi >= -1, NEW n \in Nat
    PROVE  /\ Committed(s, n) \in UsRec
           /\ Committed(s, n).hi \in Int /\ Committed(s, n).hi >= s.hi /\ Committed(s, n).hi >= n
           /\ \A m \in Nat : (m \in s.seen \/ m = n) /\ Committed(s, n).hi - m < ReplaySize
                               => m \in Committed(s, n).seen
           /\ Committed(s, n).reorder = s.reorder /\ Committed(s, n).ref = s.ref
           /\ Committed(s, n).cursor = s.cursor /\ Committed(s, n).closed = s.closed
           /\ Committed(s, n).expired = s.expired
<1> DEFINE hi == IF n > s.hi THEN n ELSE s.hi
           seen == {m \in s.seen \cup {n} : hi - m < ReplaySize}
<1>1. s.hi \in Int /\ s.seen \in SUBSET Nat
    BY DEF UsRec
<1>2. hi \in Int /\ hi >= s.hi /\ hi >= n
    BY <1>1
<1> HIDE DEF hi
<1>3. seen \in SUBSET Nat /\ \A m \in Nat : (m \in s.seen \/ m = n) /\ hi - m < ReplaySize => m \in seen
    BY <1>1
<1> HIDE DEF seen
<1>4. Committed(s, n) = [[s EXCEPT !.hi = hi] EXCEPT !.seen = seen]
    BY DEF Committed, hi, seen, UsRec
<1>5. [s EXCEPT !.hi = hi] \in UsRec
    BY <1>2, UsFields
<1>6. Committed(s, n) \in UsRec
    BY <1>3, <1>4, <1>5, UsFields
<1>7. Committed(s, n).hi = hi /\ Committed(s, n).seen = seen
    BY <1>4 DEF UsRec
<1>8. /\ Committed(s, n).reorder = s.reorder /\ Committed(s, n).ref = s.ref
      /\ Committed(s, n).cursor = s.cursor
    BY <1>4 DEF UsRec
<1>9. Committed(s, n).closed = s.closed /\ Committed(s, n).expired = s.expired
    BY <1>4 DEF UsRec
<1> QED
    BY <1>2, <1>3, <1>6, <1>7, <1>8, <1>9

\* Closing or expiring: the worker is gone, the remembered timer is off.
LEMMA CancelledOK ==
    ASSUME SessionOK
    PROVE  /\ Cancelled(task) \in [Tasks -> TaskRec]
           /\ Cancelled(task)["worker"].pc = "gone"
           /\ \A o \in Tasks : Cancelled(task)[o] \in {task[o], At("gone"), At("off")}
<1>1. task \in [Tasks -> TaskRec] /\ At("gone") \in TaskRec /\ At("off") \in TaskRec /\ At("gone").pc = "gone"
    BY SessionParts, AtTyped
<1> QED
    BY <1>1, Names DEF Cancelled

\* What is buffered and who may fill the gap is as before.
SameBuffer ==
    /\ us'.hi = us.hi /\ us'.seen = us.seen /\ us'.reorder = us.reorder
    /\ us'.ref = us.ref /\ us'.closed = us.closed

\* The replay window has taken n.
Advance(n) ==
    /\ us'.hi >= us.hi /\ us'.hi >= n
    /\ \A m \in Nat : (m \in us.seen \/ m = n) /\ us'.hi - m < ReplaySize => m \in us'.seen

----------------------------------------------------------------------------
(* The steps of the session.                                               *)

\* close and expire.
LEMMA CancelOK ==
    ASSUME SessionOK, cpu = Idle, task' = Cancelled(task),
           us' = [us EXCEPT !.closed = TRUE, !.registered = FALSE] \/ us' = [us EXCEPT !.expired = TRUE, !.registered = FALSE],
           UNCHANGED <<sent, uq, cpu, log, stalled>>, gw' \in {"up", "failed", "closed"}, fail' \in BOOLEAN
    PROVE  /\ SessionOK' /\ task'["worker"].pc = "gone"
           /\ us'.hi = us.hi /\ us'.seen = us.seen /\ us'.reorder = us.reorder
<1>1. us \in UsRec
    BY SessionParts
<1>2. us' \in UsRec
    <2>1. CASE us' = [us EXCEPT !.closed = TRUE, !.registered = FALSE]
        <3>1. us' = [[us EXCEPT !.closed = TRUE] EXCEPT !.registered = FALSE]
            BY <2>1, Zenon
        <3>2. [us EXCEPT !.closed = TRUE] \in UsRec
            BY <1>1, UsFields
        <3> QED
            BY <3>1, <3>2, UsFields
    <2>2. CASE us' = [us EXCEPT !.expired = TRUE, !.registered = FALSE]
        <3>1. us' = [[us EXCEPT !.expired = TRUE] EXCEPT !.registered = FALSE]
            BY <2>2, Zenon
        <3>2. [us EXCEPT !.expired = TRUE] \in UsRec
            BY <1>1, UsFields
        <3> QED
            BY <3>1, <3>2, UsFields
    <2> QED
        BY <2>1, <2>2
<1>3. us'.hi = us.hi /\ us'.seen = us.seen /\ us'.reorder = us.reorder
    BY <1>1 DEF UsRec
<1>4. Buffered'
    BY <1>3, SessionParts DEF Buffered
<1>5. Running'
    <2>1. \A o \in Tasks : task[o].pc \notin {"drain", "deliver"}
        BY Names, SessionParts DEF Running
    <2>2. \A o \in Tasks : task'[o].pc \notin {"drain", "deliver"}
        BY <2>1, CancelledOK, AtTyped
    <2> QED
        BY <2>2, Names DEF Running
<1>6. ClosedIdle' /\ task'["worker"].pc = "gone"
    BY CancelledOK DEF ClosedIdle
<1>7. SessionOK'
    BY <1>2, <1>3, <1>4, <1>5, <1>6, CancelledOK, SessionParts, SessionBuilt
<1> QED
    BY <1>3, <1>6, <1>7

\* route_datagram, enqueue.
LEMMA ArriveOK ==
    ASSUME SessionOK, NEW n \in 0..Len(sent), NEW src \in Sources, Arrive(n, src)
    PROVE  SessionOK'
<1> DEFINE d == [n |-> n, src |-> src]
           q == IF Len(uq) = UdpQueue THEN Tail(uq) ELSE uq
<1>1. uq \in Seq(DatagramRec) /\ Len(uq) <= UdpQueue /\ Len(uq) \in Nat /\ sent \in Seq(SentRec)
    BY SessionParts, SeqTyped
<1>2. d \in DatagramRec /\ d.n <= Len(sent)
    BY <1>1 DEF DatagramRec
<1>3. /\ q \in Seq(DatagramRec) /\ Len(q) < UdpQueue
      /\ \A i \in 1..Len(q) : q[i].n <= Len(sent)
    <2>1. CASE Len(uq) = UdpQueue
        <3>1. q = Tail(uq) /\ uq # <<>>
            BY <1>1, <2>1, Names
        <3>2. \A i \in 1..Len(Tail(uq)) : Tail(uq)[i] = uq[i + 1] /\ i + 1 \in 1..Len(uq)
            BY <1>1, <3>1
        <3>3. \A i \in 1..Len(uq) : uq[i].n <= Len(sent)
            BY <1>1, SessionParts DEF Buffered
        <3> QED
            BY <1>1, <2>1, <3>1, <3>2, <3>3, SeqTyped
    <2>2. CASE Len(uq) # UdpQueue
        BY <1>1, <2>2, Names, SessionParts DEF Buffered
    <2> QED
        BY <2>1, <2>2
<1> HIDE DEF d, q
<1>4. uq' = Append(q, d) /\ UNCHANGED <<sent, us, task, cpu, gw, fail, log, stalled>>
    BY DEF Arrive, d, q
<1>5. uq' \in Seq(DatagramRec) /\ Len(uq') <= UdpQueue
    BY <1>2, <1>3, <1>4, Names, SeqTyped
<1>6. \A i \in DOMAIN uq' : uq'[i].n <= Len(sent)
    BY <1>2, <1>3, <1>4
<1>7. Buffered' /\ Running' /\ ClosedIdle'
    BY <1>4, <1>6, SessionParts DEF Buffered, Running, ClosedIdle
<1> QED
    BY <1>4, <1>5, <1>7, SessionParts, SessionBuilt

\* connection_lost, transport_failed.
LEMMA TransportLostOK ==
    ASSUME SessionOK, TransportLost
    PROVE  SessionOK'
<1>1. /\ UNCHANGED <<sent, uq, us, task, cpu, log, stalled>> /\ gw' = "failed"
      /\ fail' \in BOOLEAN
    BY SessionParts DEF TransportLost, Report
<1>2. Buffered' /\ Running' /\ ClosedIdle'
    BY <1>1, SessionParts DEF Buffered, Running, ClosedIdle
<1> QED
    BY <1>1, <1>2, SessionParts, SessionBuilt

\* The endpoint sends.
LEMMA SendOK ==
    ASSUME SessionOK, Send, PortOK
    PROVE  /\ SessionOK' /\ Len(sent') = Len(sent) + 1
           /\ \A i \in 1..Len(sent) : sent'[i] = sent[i]
           /\ sent'[Len(sent) + 1].kind = "audio" \/ Udp
           /\ sent'[Len(sent) + 1] \in SentRec
<1>1. sent \in Seq(SentRec) /\ Len(sent) \in Nat
    BY SessionParts, SeqTyped
<1>2. LastTs \in Nat
    <2>1. sent # <<>> => sent[Len(sent)] \in SentRec
        BY <1>1
    <2>2. \A e \in SentRec : e.ts \in Nat
        BY DEF SentRec
    <2> QED
        BY <2>1, <2>2 DEF LastTs
<1>3. MaxSkip[profile] \in Nat
    <2>1. MaxSkip \in [{"wss", "udp"} -> Nat]
        BY UplinkAssumption
    <2> QED
        BY <2>1, PortParts
<1>4. TsMod \in Nat /\ TsMod > 0
    BY PortAssumption
<1>5. PICK e : e \in SentRec /\ sent' = Append(sent, e) /\ (e.kind = "audio" \/ Udp)
    <2>1. CASE \E skip \in 1..(1 + MaxSkip[profile]) :
                 sent' = Append(sent, [kind |-> "audio", ts |-> (LastTs + skip) % TsMod])
        <3>1. PICK skip \in 1..(1 + MaxSkip[profile]) :
                 sent' = Append(sent, [kind |-> "audio", ts |-> (LastTs + skip) % TsMod])
            BY <2>1
        <3>2. (LastTs + skip) % TsMod \in Nat
            BY <1>2, <1>3, <1>4
        <3>3. [kind |-> "audio", ts |-> (LastTs + skip) % TsMod] \in SentRec
            BY <3>2 DEF SentRec
        <3> QED
            BY <3>1, <3>3
    <2>2. CASE Udp /\ sent' = Append(sent, [kind |-> "keepalive", ts |-> LastTs])
        BY <1>2, <2>2 DEF SentRec
    <2> QED
        BY <2>1, <2>2 DEF Send
<1>6. UNCHANGED <<uq, us, task, cpu, gw, fail, log, stalled>>
    BY DEF Send
<1>7. sent' \in Seq(SentRec) /\ Len(sent') = Len(sent) + 1
    BY <1>1, <1>5, SeqTyped
<1>8. \A i \in 1..Len(sent) : i \in 1..Len(sent')
    BY <1>1, <1>7
<1>9. Buffered'
    <2>0. \A d \in DatagramRec : d.n \in Nat
        BY DEF DatagramRec
    <2>1. \A i \in DOMAIN uq : uq[i].n <= Len(sent) /\ uq[i].n \in Nat
        BY <2>0, SessionParts, SeqTyped DEF Buffered
    <2>2. \A i \in DOMAIN uq : uq[i].n <= Len(sent')
        BY <1>1, <1>7, <2>1
    <2> QED
        BY <1>6, <1>8, <2>2, SessionParts DEF Buffered
<1>10. Running' /\ ClosedIdle'
    BY <1>6, <1>8, SessionParts DEF Running, ClosedIdle
<1>11. SessionOK'
    BY <1>6, <1>7, <1>9, <1>10, SessionParts, SessionBuilt
<1> QED
    BY <1>1, <1>5, <1>7, <1>11

\* The worker takes the oldest datagram.
LEMMA HeadTaken ==
    ASSUME SessionOK, Take
    PROVE  /\ Head(uq) \in DatagramRec /\ Head(uq).n \in 0..Len(sent)
           /\ uq' \in Seq(DatagramRec) /\ Len(uq') <= UdpQueue
           /\ \A i \in DOMAIN uq' : uq'[i].n <= Len(sent)
           /\ cpu = Idle /\ task["worker"].pc = "idle"
           /\ UNCHANGED <<sent, gw, log, stalled>>
<1>1. uq \in Seq(DatagramRec) /\ Len(uq) <= UdpQueue /\ Len(uq) \in Nat /\ sent \in Seq(SentRec) /\ Len(sent) \in Nat
    BY SessionParts, SeqTyped
<1>2. uq # <<>> /\ uq' = Tail(uq) /\ cpu = Idle /\ task["worker"].pc = "idle" /\ UNCHANGED <<sent, gw, log, stalled>>
    BY DEF Take
<1>3. \A i \in 1..Len(uq) : uq[i].n <= Len(sent)
    BY <1>1, SessionParts DEF Buffered
<1>4. Head(uq) \in DatagramRec /\ Head(uq) = uq[1] /\ 1 \in 1..Len(uq)
    BY <1>1, <1>2
<1>5. Head(uq).n \in Nat
    BY <1>4 DEF DatagramRec
<1>6. \A i \in 1..Len(Tail(uq)) : Tail(uq)[i] = uq[i + 1] /\ i + 1 \in 1..Len(uq)
    BY <1>1, <1>2
<1>7. Tail(uq) \in Seq(DatagramRec) /\ Len(Tail(uq)) = Len(uq) - 1
    BY <1>1, <1>2, SeqTyped
<1>8. Head(uq).n \in 0..Len(sent)
    BY <1>1, <1>3, <1>4, <1>5
<1>9. DOMAIN Tail(uq) = 1..Len(Tail(uq))
    BY <1>7
<1>10. \A i \in DOMAIN uq' : uq'[i].n <= Len(sent)
    BY <1>2, <1>3, <1>6, <1>9
<1>11. Len(uq') <= UdpQueue
    BY <1>1, <1>2, <1>7, Names
<1> QED
    BY <1>2, <1>4, <1>7, <1>8, <1>10, <1>11

\* A datagram that changes nothing, but perhaps the count of acknowledgements.
LEMMA TakeIgnoredOK ==
    ASSUME SessionOK, Take, TakeIgnored(Head(uq))
    PROVE  SessionOK' /\ SameBuffer /\ UNCHANGED <<task, cpu, fail>>
<1>1. UNCHANGED <<task, cpu, fail>>
    BY DEF TakeIgnored
<1>2. us' = us \/ (us.reacks > 0 /\ us' = [us EXCEPT !.reacks = us.reacks - 1])
    BY SessionParts DEF TakeIgnored, RepeatedProbe, UsRec
<1>3. us' \in UsRec /\ SameBuffer
    <2>1. CASE us' = us
        BY <2>1, SessionParts DEF SameBuffer
    <2>2. CASE us.reacks > 0 /\ us' = [us EXCEPT !.reacks = us.reacks - 1]
        <3>1. us.reacks \in 0..Reacks /\ us \in UsRec
            BY SessionParts DEF UsRec
        <3>2. us.reacks - 1 \in 0..Reacks
            BY <2>2, <3>1, Names
        <3>3. us' \in UsRec
            BY <2>2, <3>1, <3>2, UsFields
        <3>4. us'.hi = us.hi /\ us'.seen = us.seen /\ us'.reorder = us.reorder /\ us'.ref = us.ref
            BY <2>2, <3>1 DEF UsRec
        <3>5. us'.closed = us.closed
            BY <2>2, <3>1 DEF UsRec
        <3> QED
            BY <3>3, <3>4, <3>5 DEF SameBuffer
    <2> QED
        BY <1>2, <2>1, <2>2
<1>4. Buffered'
    BY <1>3, HeadTaken, SessionParts DEF Buffered, SameBuffer
<1>5. Running' /\ ClosedIdle'
    BY <1>1, <1>3, HeadTaken, SessionParts DEF Running, ClosedIdle, SameBuffer
<1>6. Cardinality(us'.reorder) <= Jitter
    BY <1>3, SessionParts DEF SameBuffer
<1>7. SessionOK'
    BY <1>1, <1>3, <1>4, <1>5, <1>6, HeadTaken, SessionParts, SessionBuilt
<1> QED
    BY <1>1, <1>3, <1>7

\* The first probe.
LEMMA TakeProbeOK ==
    ASSUME SessionOK, Take, TakeProbe(Head(uq))
    PROVE  /\ SessionOK' /\ Advance(0) /\ cpu' = cpu
           /\ us'.reorder = us.reorder /\ us'.ref = us.ref
           /\ UNCHANGED <<task, fail>> \/ (fail' = TRUE /\ task' = [task EXCEPT !["worker"] = At("gone")])
<1> DEFINE c == Committed(us, 0)
           src == Head(uq).src
<1>1. us \in UsRec /\ us.hi >= -1
    BY SessionParts DEF Buffered
<1>2. /\ c \in UsRec /\ c.hi \in Int /\ c.hi >= us.hi /\ c.hi >= 0
      /\ \A m \in Nat : (m \in us.seen \/ m = 0) /\ c.hi - m < ReplaySize => m \in c.seen
      /\ c.reorder = us.reorder /\ c.ref = us.ref /\ c.closed = us.closed
    BY <1>1, CommittedOK
<1>3. src \in Sources \cup {NoSource}
    BY HeadTaken DEF DatagramRec
<1> HIDE DEF c, src
<1>4. \/ us' = [c EXCEPT !.src = src, !.cursor = 1, !.ready = TRUE, !.reackOpen = TRUE, !.reacks = Reacks]
      \/ us' = [c EXCEPT !.src = src]
    BY DEF TakeProbe, c, src
<1>5. us' \in UsRec
    <2>1. [c EXCEPT !.src = src] \in UsRec
        BY <1>2, <1>3, UsFields
    <2>2. CASE us' = [c EXCEPT !.src = src, !.cursor = 1, !.ready = TRUE, !.reackOpen = TRUE, !.reacks = Reacks]
        <3> DEFINE q == [[c EXCEPT !.src = src] EXCEPT !.cursor = 1]
                   r == [[[q EXCEPT !.ready = TRUE] EXCEPT !.reackOpen = TRUE] EXCEPT !.reacks = Reacks]
        <3>1. us' = r
            BY <1>2, <2>2 DEF UsRec
        <3>2. q \in UsRec
            BY <2>1, UsFields
        <3> HIDE DEF q
        <3>3. [q EXCEPT !.ready = TRUE] \in UsRec
            BY <3>2, UsFields
        <3>4. [[q EXCEPT !.ready = TRUE] EXCEPT !.reackOpen = TRUE] \in UsRec
            BY <3>3, UsFields
        <3>5. Reacks \in 0..Reacks
            BY Names
        <3>6. r \in UsRec
            BY <3>4, <3>5, UsFields
        <3> QED
            BY <3>1, <3>6, Zenon
    <2> QED
        BY <1>4, <2>1, <2>2
<1>6. us'.hi = c.hi /\ us'.seen = c.seen /\ us'.reorder = c.reorder /\ us'.ref = c.ref
    BY <1>2, <1>4 DEF UsRec
<1>7. us'.closed = c.closed
    BY <1>2, <1>4 DEF UsRec
<1>8. /\ cpu' = cpu
      /\ UNCHANGED <<task, fail>> \/ (fail' = TRUE /\ task' = [task EXCEPT !["worker"] = At("gone")])
    BY DEF TakeProbe, Report
<1>9. /\ task' \in [Tasks -> TaskRec]
      /\ \A o \in Tasks : task'[o] = task[o] \/ task'[o] = At("gone")
    BY <1>8, SessionParts, AtTyped, TaskSet, Names
<1>10. Advance(0)
    BY <1>2, <1>6 DEF Advance
<1>11. Buffered'
    BY <1>1, <1>2, <1>6, HeadTaken, SessionParts DEF Buffered
<1>12. Running'
    <2>1. \A o \in Tasks : task[o].pc \notin {"drain", "deliver"}
        BY HeadTaken, Names, SessionParts DEF Running
    <2>2. \A o \in Tasks : task'[o].pc \notin {"drain", "deliver"}
        BY <1>9, <2>1, AtTyped
    <2> QED
        BY <1>8, <2>2, HeadTaken, Names DEF Running
<1>13. ClosedIdle'
    <2>1. ~us.closed
        BY HeadTaken, SessionParts DEF ClosedIdle
    <2> QED
        BY <1>2, <1>7, <2>1 DEF ClosedIdle
<1>14. fail' \in BOOLEAN /\ Cardinality(us'.reorder) <= Jitter
    BY <1>2, <1>6, <1>8, SessionParts
<1>15. SessionOK'
    BY <1>5, <1>8, <1>9, <1>11, <1>12, <1>13, <1>14, HeadTaken, SessionParts, SessionBuilt
<1> QED
    BY <1>2, <1>6, <1>8, <1>10, <1>15

\* A buffer grows and shrinks by one.
LEMMA AddOne ==
    ASSUME NEW S, NEW x, IsFiniteSet(S)
    PROVE  IsFiniteSet(S \cup {x}) /\ Cardinality(S \cup {x}) <= Cardinality(S) + 1
<1>1. Cardinality(S) \in Nat
    BY FS_CardinalityType
<1>2. IsFiniteSet(S \cup {x}) /\ Cardinality(S \cup {x}) = IF x \in S THEN Cardinality(S) ELSE Cardinality(S) + 1
    BY FS_AddElement
<1> QED
    BY <1>1, <1>2

LEMMA RemoveOne ==
    ASSUME NEW S, NEW x, IsFiniteSet(S)
    PROVE  IsFiniteSet(S \ {x}) /\ Cardinality(S \ {x}) <= Cardinality(S)
<1>1. Cardinality(S) \in Nat
    BY FS_CardinalityType
<1>2. IsFiniteSet(S \ {x}) /\ Cardinality(S \ {x}) = IF x \in S THEN Cardinality(S) - 1 ELSE Cardinality(S)
    BY FS_RemoveElement
<1> QED
    BY <1>1, <1>2

\* _resync_media_cursor.
LEMMA ResyncedOK ==
    ASSUME SessionOK, NEW n \in Nat
    PROVE  /\ Resynced(n) \in UsRec
           /\ Resynced(n).hi = us.hi /\ Resynced(n).seen = us.seen /\ Resynced(n).closed = us.closed
           /\ n < us.cursor + Jitter => Resynced(n) = us
           /\ ~(n < us.cursor + Jitter) => Resynced(n).reorder = {} /\ Resynced(n).ref = NoTimer /\ Resynced(n).cursor = n
<1>1. us \in UsRec
    BY SessionParts
<1>2. CASE n < us.cursor + Jitter
    BY <1>1, <1>2, Zenon DEF Resynced
<1>3. CASE ~(n < us.cursor + Jitter)
    <2> DEFINE r == [[[us EXCEPT !.reorder = {}] EXCEPT !.ref = NoTimer] EXCEPT !.cursor = n]
    <2>1. Resynced(n) = r
        BY <1>1, <1>3 DEF Resynced, UsRec
    <2>2. [us EXCEPT !.reorder = {}] \in UsRec
        BY <1>1, UsFields
    <2>3. [[us EXCEPT !.reorder = {}] EXCEPT !.ref = NoTimer] \in UsRec
        BY <2>2, UsFields
    <2>4. r \in UsRec
        BY <2>3, UsFields
    <2>5. r.hi = us.hi /\ r.seen = us.seen /\ r.reorder = {} /\ r.ref = NoTimer /\ r.cursor = n
        BY <1>1 DEF UsRec
    <2>6. r.closed = us.closed
        BY <1>1 DEF UsRec
    <2> HIDE DEF r
    <2> QED
        BY <1>3, <2>1, <2>4, <2>5, <2>6, Zenon
<1> QED
    BY <1>2, <1>3

\* Media: buffered behind a resynchronised cursor, buffered, or delivered past a full buffer.
LEMMA TakeMediaOK ==
    ASSUME SessionOK, Take, TakeMedia(Head(uq))
    PROVE  LET n == Head(uq).n IN
           /\ SessionOK' /\ Advance(n) /\ CanAccept(n) /\ n \in 1..Len(sent)
           /\ cpu' = "worker" /\ fail' = fail /\ us'.closed = us.closed
           /\ \/ us'.reorder \subseteq us.reorder \cup {n} /\ task'["worker"].pc = "drain"
              \/ us'.reorder = us.reorder /\ task'["worker"].pc = "deliver" /\ task'["worker"].exp = n
           /\ \/ us'.ref = us.ref /\ \A x \in Timers : task'[x] = task[x]
              \/ /\ us'.ref = NoTimer
                 /\ \A x \in Timers : task'[x] = task[x] \/ task'[x] = At("off")
                 /\ us.ref # NoTimer => task'[us.ref] = At("off")
<1> DEFINE n == Head(uq).n
           resync == n >= us.cursor + Jitter
           r == Resynced(n)
           c == Committed(r, n)
           s == [c EXCEPT !.reackOpen = FALSE]
           t == IF resync THEN ResyncCancels(task) ELSE task
           direct == Cardinality(s.reorder) >= Jitter
           w == [pc |-> IF direct THEN "deliver" ELSE "drain", exp |-> s.cursor, last |-> n]
<1>1. us \in UsRec /\ us.hi >= -1 /\ us.cursor \in Nat /\ us.reorder \in SUBSET Nat /\ us.ref \in Timers \cup {NoTimer}
    BY SessionParts DEF Buffered, UsRec
<1>2. n \in 0..Len(sent) /\ n # 0 /\ ~Ignored(Head(uq)) /\ Len(sent) \in Nat
    BY HeadTaken, SessionParts, SeqTyped DEF TakeMedia
<1>3. n \in Nat /\ n \in 1..Len(sent)
    BY <1>2
<1>4. /\ us' = (IF direct THEN s ELSE [s EXCEPT !.reorder = s.reorder \cup {n}])
      /\ task' = [t EXCEPT !["worker"] = w] /\ cpu' = "worker" /\ fail' = fail
    BY DEF TakeMedia
<1> HIDE DEF n
<1>5. /\ r \in UsRec /\ r.hi = us.hi /\ r.seen = us.seen /\ r.closed = us.closed
      /\ ~resync => r = us
      /\ resync => r.reorder = {} /\ r.ref = NoTimer /\ r.cursor = n
    <2>1. resync <=> ~(n < us.cursor + Jitter)
        BY <1>1, <1>3, Names
    <2> QED
        BY <1>3, <2>1, ResyncedOK
<1> HIDE DEF r, resync
<1>6. /\ c \in UsRec /\ c.hi \in Int /\ c.hi >= us.hi /\ c.hi >= n
      /\ \A m \in Nat : (m \in us.seen \/ m = n) /\ c.hi - m < ReplaySize => m \in c.seen
      /\ c.reorder = r.reorder /\ c.ref = r.ref /\ c.cursor = r.cursor /\ c.closed = r.closed
    BY <1>1, <1>3, <1>5, CommittedOK
<1> HIDE DEF c
<1>7. s \in UsRec
    BY <1>6, UsFields
<1>8. s.hi = c.hi /\ s.seen = c.seen /\ s.reorder = c.reorder /\ s.ref = c.ref /\ s.cursor = c.cursor
    BY <1>6 DEF UsRec
<1>9. s.closed = us.closed
    BY <1>5, <1>6 DEF UsRec
<1> HIDE DEF s
<1>10. s.reorder \subseteq us.reorder /\ IsFiniteSet(s.reorder) /\ Cardinality(s.reorder) \in Nat
       /\ s.reorder \subseteq 1..Len(sent) /\ s.cursor \in Nat
    <2>1. s.reorder \subseteq us.reorder
        BY <1>5, <1>6, <1>8
    <2>2. IsFiniteSet(us.reorder) /\ us.reorder \subseteq 1..Len(sent)
        BY SessionParts DEF Buffered
    <2>3. IsFiniteSet(s.reorder)
        BY <2>1, <2>2, FS_Subset
    <2> QED
        BY <1>7, <2>1, <2>2, <2>3, FS_CardinalityType DEF UsRec
<1>11. direct => ~resync /\ s.cursor = n
    <2>1. resync => Cardinality(s.reorder) = 0
        BY <1>5, <1>6, <1>8, FS_EmptySet
    <2>2. direct => ~resync
        BY <1>10, <2>1, Names
    <2>3. ASSUME ~resync, direct PROVE s.cursor = n
        <3>1. s.cursor = us.cursor /\ s.reorder = us.reorder
            BY <1>5, <1>6, <1>8, <2>3
        <3>2. n < us.cursor + Jitter
            BY <1>1, <1>3, <2>3, Names DEF resync
        <3>3. Cardinality(us.reorder) >= Jitter
            BY <2>3, <3>1
        <3>4. us.ready /\ ~(n < us.cursor)
            BY <1>2, Zenon DEF Ignored, n
        <3>5. n = us.cursor
            BY <1>2, <3>2, <3>3, <3>4, Zenon DEF Ignored, n
        <3> QED
            BY <3>1, <3>5
    <2> QED
        BY <2>2, <2>3
<1>12. us' \in UsRec
    <2>1. s.reorder \cup {n} \in SUBSET Nat
        BY <1>1, <1>3, <1>10
    <2> QED
        BY <1>4, <1>7, <2>1, UsFields
<1>13. us'.hi = s.hi /\ us'.seen = s.seen /\ us'.ref = s.ref
    BY <1>4, <1>7 DEF UsRec
<1>14. us'.closed = us.closed
    <2>1. us'.closed = s.closed
        BY <1>4, <1>7 DEF UsRec
    <2> QED
        BY <1>9, <2>1
<1>15. IF direct THEN us'.reorder = s.reorder ELSE us'.reorder = s.reorder \cup {n}
    BY <1>4, <1>7 DEF UsRec
<1>16. IsFiniteSet(us'.reorder) /\ Cardinality(us'.reorder) <= Jitter /\ us'.reorder \subseteq 1..Len(sent)
    <2>1. CASE direct
        <3>1. s.reorder = us.reorder
            BY <1>5, <1>6, <1>8, <1>11, <2>1
        <3> QED
            BY <1>10, <1>15, <2>1, <3>1, SessionParts
    <2>2. CASE ~direct
        <3>1. Cardinality(s.reorder) < Jitter
            BY <1>10, <2>2, Names
        <3>2. IsFiniteSet(s.reorder \cup {n}) /\ Cardinality(s.reorder \cup {n}) <= Cardinality(s.reorder) + 1
            BY <1>10, AddOne
        <3>3. Cardinality(s.reorder \cup {n}) \in Nat
            BY <3>2, FS_CardinalityType
        <3>4. Cardinality(s.reorder \cup {n}) <= Jitter
            BY <1>10, <3>1, <3>2, <3>3, Names
        <3> QED
            BY <1>3, <1>10, <1>15, <2>2, <3>2, <3>4
    <2> QED
        BY <2>1, <2>2
<1> DEFINE off == At("off")
<1>17. off \in TaskRec /\ off.pc = "off"
    BY AtTyped
<1> HIDE DEF off
<1>18. /\ t \in [Tasks -> TaskRec] /\ \A o \in Tasks : t[o] = task[o] \/ t[o] = off
       /\ ~resync => t = task
       /\ resync /\ us.ref # NoTimer => t[us.ref] = off
    <2>1. task \in [Tasks -> TaskRec]
        BY SessionParts
    <2>2. CASE ~resync
        BY <2>1, <2>2
    <2>3. CASE resync /\ us.ref = NoTimer
        BY <2>1, <2>3 DEF ResyncCancels
    <2>4. CASE resync /\ us.ref # NoTimer
        <3>1. us.ref \in Tasks
            BY <1>1, <2>4, Names
        <3>2. t = [task EXCEPT ![us.ref] = off]
            BY <2>4 DEF ResyncCancels, off
        <3> QED
            BY <1>17, <2>1, <2>4, <3>1, <3>2, TaskSet
    <2> QED
        BY <2>2, <2>3, <2>4
<1> HIDE DEF t
<1>19. w \in TaskRec /\ w.pc = (IF direct THEN "deliver" ELSE "drain") /\ w.exp = s.cursor
    BY <1>3, <1>10 DEF TaskRec
<1> HIDE DEF w
<1>20. /\ task' \in [Tasks -> TaskRec] /\ task'["worker"] = w
       /\ \A o \in Tasks : o # "worker" => task'[o] = t[o]
    BY <1>4, <1>18, <1>19, TaskSet, Names
<1>21. Running'
    <2>1. \A o \in Tasks : task[o].pc \notin {"drain", "deliver"}
        BY HeadTaken, Names, SessionParts DEF Running
    <2>2. \A o \in Tasks : o # "worker" => task'[o].pc \notin {"drain", "deliver"}
        BY <1>17, <1>18, <1>20, <2>1
    <2>3. task'["worker"].pc \in {"drain", "deliver"}
        BY <1>19, <1>20
    <2>4. task'["worker"].pc = "deliver" => task'["worker"].exp \in 1..Len(sent)
        BY <1>3, <1>11, <1>19, <1>20
    <2>5. sent' = sent
        BY HeadTaken
    <2> QED
        BY <1>4, <2>2, <2>3, <2>4, <2>5, Names DEF Running
<1>22. ClosedIdle'
    <2>1. ~us.closed
        BY HeadTaken, SessionParts DEF ClosedIdle
    <2> QED
        BY <1>14, <2>1 DEF ClosedIdle
<1>23. us'.hi \in Int /\ us'.hi >= us.hi /\ us'.hi >= n
    BY <1>6, <1>8, <1>13
<1>24. Buffered'
    <2>1. us'.hi >= -1
        BY <1>3, <1>23
    <2> QED
        BY <1>16, <2>1, HeadTaken DEF Buffered
<1>25. SessionOK'
    BY <1>4, <1>12, <1>16, <1>20, <1>21, <1>22, <1>24, HeadTaken, SessionParts, SessionBuilt, Names
<1>26. Advance(n)
    <2>1. us'.seen = c.seen /\ us'.hi = c.hi
        BY <1>8, <1>13
    <2> QED
        BY <1>6, <1>23, <2>1 DEF Advance
<1>27. CanAccept(n)
    BY <1>2, Zenon DEF Ignored, n
<1>28. \/ us'.reorder \subseteq us.reorder \cup {n} /\ task'["worker"].pc = "drain"
       \/ us'.reorder = us.reorder /\ task'["worker"].pc = "deliver" /\ task'["worker"].exp = n
    <2>1. CASE direct
        <3>1. s.reorder = us.reorder
            BY <1>5, <1>6, <1>8, <1>11, <2>1
        <3> QED
            BY <1>11, <1>15, <1>19, <1>20, <2>1, <3>1
    <2>2. CASE ~direct
        BY <1>10, <1>15, <1>19, <1>20, <2>2
    <2> QED
        BY <2>1, <2>2
<1>29. \/ us'.ref = us.ref /\ \A x \in Timers : task'[x] = task[x]
       \/ /\ us'.ref = NoTimer
          /\ \A x \in Timers : task'[x] = task[x] \/ task'[x] = off
          /\ us.ref # NoTimer => task'[us.ref] = off
    <2>1. CASE resync
        <3>1. us'.ref = NoTimer
            BY <1>5, <1>6, <1>8, <1>13, <2>1
        <3> QED
            BY <1>1, <1>18, <1>20, <2>1, <3>1, Names
    <2>2. CASE ~resync
        <3>1. us'.ref = us.ref
            BY <1>5, <1>6, <1>8, <1>13, <2>2
        <3> QED
            BY <1>18, <1>20, <2>2, <3>1, Names
    <2> QED
        BY <2>1, <2>2
<1> QED
    BY <1>3, <1>4, <1>14, <1>25, <1>26, <1>27, <1>28, <1>29 DEF n, off

----------------------------------------------------------------------------
(* _drain_reorder.                                                         *)

\* The task finds the expected packet in the buffer.
LEMMA PopOK ==
    ASSUME SessionOK, NEW o \in Tasks, Pop(o)
    PROVE  /\ SessionOK' /\ UNCHANGED <<sent, cpu, fail, log, stalled>> /\ cpu = o
           /\ us'.hi = us.hi /\ us'.seen = us.seen /\ us'.ref = us.ref /\ us'.closed = us.closed
           /\ task[o].exp \in us.reorder /\ us'.reorder = us.reorder \ {task[o].exp}
           /\ task'[o].pc = "deliver" /\ task'[o].exp = task[o].exp
           /\ \A x \in Tasks : x # o => task'[x] = task[x]
<1> DEFINE n == task[o].exp
           r == [task[o] EXCEPT !.pc = "deliver"]
<1>1. us \in UsRec /\ task \in [Tasks -> TaskRec] /\ task[o] \in TaskRec
    BY SessionParts
<1>2. /\ cpu = o /\ n \in us.reorder /\ us' = [us EXCEPT !.reorder = us.reorder \ {n}]
      /\ task[o].pc = "drain" /\ task' = [task EXCEPT ![o] = r]
      /\ UNCHANGED <<sent, uq, cpu, gw, fail, log, stalled>>
    BY <1>1 DEF Pop
<1>3. r \in TaskRec /\ r.pc = "deliver" /\ r.exp = n /\ us.reorder \in SUBSET Nat
    BY <1>1 DEF TaskRec, UsRec
<1> HIDE DEF r, n
<1>4. us' \in UsRec
    BY <1>1, <1>2, <1>3, UsFields
<1>5. us'.hi = us.hi /\ us'.seen = us.seen /\ us'.ref = us.ref /\ us'.reorder = us.reorder \ {n}
    BY <1>1, <1>2 DEF UsRec
<1>6. us'.closed = us.closed
    BY <1>1, <1>2 DEF UsRec
<1>7. /\ task' \in [Tasks -> TaskRec] /\ task'[o] = r
      /\ \A x \in Tasks : x # o => task'[x] = task[x]
    BY <1>1, <1>2, <1>3, TaskSet
<1>8. IsFiniteSet(us'.reorder) /\ Cardinality(us'.reorder) <= Jitter
    <2>1. IsFiniteSet(us.reorder) /\ Cardinality(us.reorder) <= Jitter
        BY SessionParts DEF Buffered
    <2>2. IsFiniteSet(us'.reorder) /\ Cardinality(us'.reorder) <= Cardinality(us.reorder)
        BY <1>5, <2>1, RemoveOne
    <2>3. Cardinality(us'.reorder) \in Nat /\ Cardinality(us.reorder) \in Nat
        BY <2>1, <2>2, FS_CardinalityType
    <2> QED
        BY <2>1, <2>2, <2>3, Names
<1>9. Buffered'
    BY <1>2, <1>5, <1>8, SessionParts DEF Buffered
<1>10. Running'
    <2>1. n \in 1..Len(sent)
        BY <1>2, SessionParts DEF Buffered
    <2> QED
        BY <1>2, <1>3, <1>7, <2>1, SessionParts DEF Running
<1>11. ClosedIdle'
    <2>1. CASE o = "worker"
        BY <1>2, <1>6, <2>1, SessionParts DEF ClosedIdle
    <2>2. CASE o # "worker"
        BY <1>6, <1>7, <2>2, Names, SessionParts DEF ClosedIdle
    <2> QED
        BY <2>1, <2>2
<1>12. SessionOK'
    BY <1>2, <1>4, <1>7, <1>8, <1>9, <1>10, <1>11, SessionParts, SessionBuilt
<1> QED
    BY <1>2, <1>3, <1>5, <1>6, <1>7, <1>12 DEF n

\* A delivery is over and the task's count becomes the cursor.
LEMMA MovedOK ==
    ASSUME SessionOK, NEW o \in Tasks, Moved(o), task[o].pc \in {"deliver", "blocked"}, cpu \in {o, Idle},
           cpu' = o, log' \in Seq(Nat), stalled' \in BOOLEAN, UNCHANGED <<sent, uq, gw, fail>>
    PROVE  /\ SessionOK' /\ SameBuffer
           /\ task'[o].pc = "drain" /\ \A x \in Tasks : x # o => task'[x] = task[x]
<1> DEFINE r == [pc |-> "drain", exp |-> task[o].exp + 1, last |-> task[o].last]
<1>1. us \in UsRec /\ task \in [Tasks -> TaskRec] /\ task[o] \in TaskRec /\ task[o].exp \in Nat /\ task[o].last \in Nat
    BY SessionParts DEF TaskRec
<1>2. r \in TaskRec /\ r.pc = "drain" /\ task[o].exp + 1 \in Nat
    BY <1>1 DEF TaskRec
<1>3. task' = [task EXCEPT ![o] = r]
    <2>1. task' = [task EXCEPT ![o].pc = "drain", ![o].exp = task[o].exp + 1]
        BY <1>1 DEF Moved, TaskRec
    <2> DEFINE p == [task EXCEPT ![o].pc = "drain"]
    <2>2. task' = [p EXCEPT ![o].exp = task[o].exp + 1]
        BY <2>1, Zenon
    <2>3. p = [task EXCEPT ![o] = [task[o] EXCEPT !.pc = "drain"]]
        BY <1>1
    <2>4. [p[o] EXCEPT !.exp = task[o].exp + 1] = r
        <3>1. p[o] = [task[o] EXCEPT !.pc = "drain"]
            BY <1>1, <2>3
        <3>2. [task[o] EXCEPT !.pc = "drain"] = [pc |-> "drain", exp |-> task[o].exp, last |-> task[o].last]
            BY <1>1 DEF TaskRec
        <3> QED
            BY <3>1, <3>2
    <2> QED
        BY <1>1, <2>2, <2>3, <2>4
<1> HIDE DEF r
<1>4. us' = [us EXCEPT !.cursor = task[o].exp + 1]
    BY DEF Moved
<1>5. us' \in UsRec
    BY <1>1, <1>2, <1>4, UsFields
<1>6. us'.hi = us.hi /\ us'.seen = us.seen /\ us'.reorder = us.reorder /\ us'.ref = us.ref
    BY <1>1, <1>4 DEF UsRec
<1>7. us'.closed = us.closed
    BY <1>1, <1>4 DEF UsRec
<1>8. /\ task' \in [Tasks -> TaskRec] /\ task'[o] = r
      /\ \A x \in Tasks : x # o => task'[x] = task[x]
    BY <1>1, <1>2, <1>3, TaskSet
<1>9. Buffered' /\ Cardinality(us'.reorder) <= Jitter
    BY <1>6, SessionParts DEF Buffered
<1>10. Running'
    BY <1>2, <1>8, Names, SessionParts DEF Running
<1>11. ClosedIdle'
    <2>1. CASE o = "worker"
        BY <1>7, <2>1, SessionParts DEF ClosedIdle
    <2>2. CASE o # "worker"
        BY <1>7, <1>8, <2>2, Names, SessionParts DEF ClosedIdle
    <2> QED
        BY <2>1, <2>2
<1>12. SessionOK'
    BY <1>5, <1>8, <1>9, <1>10, <1>11, SessionParts, SessionBuilt
<1> QED
    BY <1>2, <1>6, <1>7, <1>8, <1>12 DEF SameBuffer

\* A task stops running: it waits for room, or ends.
LEMMA StopsOK ==
    ASSUME SessionOK, NEW o \in Tasks, cpu \in {o, Idle}, cpu' = Idle, us' = us,
           NEW r \in TaskRec, r.pc \in {"off", "gone", "blocked"}, task' = [task EXCEPT ![o] = r],
           o = "worker" /\ task[o].pc = "gone" => r.pc = "gone",
           log' \in Seq(Nat), stalled' \in BOOLEAN, fail' \in BOOLEAN, UNCHANGED <<sent, uq, gw>>
    PROVE  SessionOK' /\ task'[o] = r /\ \A x \in Tasks : x # o => task'[x] = task[x]
<1>1. task \in [Tasks -> TaskRec]
    BY SessionParts
<1>2. /\ task' \in [Tasks -> TaskRec] /\ task'[o] = r
      /\ \A x \in Tasks : x # o => task'[x] = task[x]
    BY <1>1, TaskSet
<1>3. Buffered'
    BY SessionParts DEF Buffered
<1>4. Running'
    <2>1. \A x \in Tasks : x # o => task[x].pc \notin {"drain", "deliver"}
        BY Names, SessionParts DEF Running
    <2>2. \A x \in Tasks : task'[x].pc \notin {"drain", "deliver"}
        BY <1>2, <2>1
    <2> QED
        BY <2>2, Names DEF Running
<1>5. ClosedIdle'
    <2>1. CASE o = "worker"
        BY <1>2, <2>1, SessionParts DEF ClosedIdle
    <2>2. CASE o # "worker"
        BY <1>2, <2>2, Names, SessionParts DEF ClosedIdle
    <2> QED
        BY <2>1, <2>2
<1>6. SessionOK'
    BY <1>2, <1>3, <1>4, <1>5, SessionParts, SessionBuilt
<1> QED
    BY <1>2, <1>6

\* A step that leaves the port alone.
LEMMA PortStutter ==
    ASSUME PortOK, UNCHANGED portVars
    PROVE  PortOK' /\ PortStep
<1>1. UNCHANGED <<profile, now, port, puts, landed, claim, inp, recov>>
    BY DEF portVars
<1> QED
    BY <1>1, PutsOK

\* What receive_audio took, it took while the port was open.
LEMMA TakenOK ==
    ASSUME log \in Seq(Nat), NEW n \in Nat
    PROVE  /\ Taken(n) \in Seq(Nat)
           /\ Taken(n) = log \/ (Taken(n) = Append(log, n) /\ ~port.closed)
<1>1. CASE Verdict(sent[n].ts) \in {"ok", "full"}
    <2>1. ~port.closed
        BY <1>1 DEF Verdict
    <2>2. Append(log, n) \in Seq(Nat)
        BY SeqTyped
    <2> QED
        BY <1>1, <2>1, <2>2 DEF Taken
<1>2. CASE Verdict(sent[n].ts) \notin {"ok", "full"}
    BY <1>2 DEF Taken
<1> QED
    BY <1>1, <1>2

\* The packet is handed to receive_audio; a keepalive only moves the cursor.
LEMMA DeliverOK ==
    ASSUME SessionOK, PortOK, NEW o \in Tasks, Deliver(o)
    PROVE  /\ SessionOK' /\ PortOK' /\ PortStep /\ SameBuffer
           /\ cpu = o /\ task[o].pc = "deliver" /\ sent' = sent
           /\ log' = log \/ (log' = Append(log, task[o].exp) /\ KindOf(task[o].exp) = "audio" /\ ~port.closed)
           /\ \A x \in Tasks : x # o => task'[x] = task[x]
           /\ \/ task'[o].pc = "drain" /\ cpu' = cpu /\ fail' = fail /\ (stalled => stalled')
              \/ task'[o].pc # "deliver" /\ (fail' = TRUE \/ stalled' = TRUE)
<1> DEFINE n == task[o].exp
<1>1. cpu = o /\ task[o].pc = "deliver" /\ UNCHANGED <<sent, uq, gw>>
    BY DEF Deliver
<1>2. n \in 1..Len(sent) /\ n \in Nat /\ sent[n] \in SentRec /\ sent[n].ts \in Nat
    <2>1. n \in 1..Len(sent)
        BY <1>1, SessionParts DEF Running
    <2>2. sent \in Seq(SentRec) /\ Len(sent) \in Nat
        BY SessionParts, SeqTyped
    <2>3. sent[n] \in SentRec /\ n \in Nat
        BY <2>1, <2>2
    <2> QED
        BY <2>1, <2>3 DEF SentRec
<1>3. task \in [Tasks -> TaskRec] /\ task[o] \in TaskRec /\ us \in UsRec /\ o \in Callers
    BY SessionParts DEF Callers
<1>4. CASE KindOf(n) # "audio"
    <2>1. Moved(o) /\ UNCHANGED <<portVars, cpu, fail, log, stalled>>
        BY <1>4 DEF Deliver
    <2>2. SessionOK' /\ SameBuffer /\ task'[o].pc = "drain" /\ \A x \in Tasks : x # o => task'[x] = task[x]
        BY <1>1, <2>1, SessionParts, MovedOK
    <2>3. PortOK' /\ PortStep
        BY <2>1, PortStutter
    <2> QED
        BY <1>1, <2>1, <2>2, <2>3
<1>5. CASE KindOf(n) = "audio"
    <2> DEFINE v == Verdict(sent[n].ts)
    <2>1. /\ ReceiveAudio(o, n, sent[n].ts) /\ log' = Taken(n) /\ stalled' = (stalled \/ v = "full")
          /\ \/ v = "ok" /\ Moved(o) /\ UNCHANGED <<cpu, fail>>
             \/ v = "full" /\ task' = [task EXCEPT ![o].pc = "blocked"] /\ cpu' = Idle /\ UNCHANGED <<us, fail>>
             \/ Ends(o)
        BY <1>5, Zenon DEF Deliver
    <2> HIDE DEF v
    <2>2. PortOK' /\ PortStep
        BY <1>2, <1>3, <2>1, ReceiveOK
    <2>3. log' \in Seq(Nat) /\ (log' = log \/ (log' = Append(log, n) /\ ~port.closed)) /\ stalled' \in BOOLEAN
        BY <1>2, <2>1, SessionParts, TakenOK
    <2>4. CASE Moved(o) /\ UNCHANGED <<cpu, fail>>
        <3>1. SessionOK' /\ SameBuffer /\ task'[o].pc = "drain" /\ \A x \in Tasks : x # o => task'[x] = task[x]
            BY <1>1, <2>3, <2>4, MovedOK
        <3> QED
            BY <1>1, <1>5, <2>1, <2>2, <2>3, <2>4, <3>1
    <2>5. CASE v = "full" /\ task' = [task EXCEPT ![o].pc = "blocked"] /\ cpu' = Idle /\ UNCHANGED <<us, fail>>
        <3> DEFINE r == [task[o] EXCEPT !.pc = "blocked"]
        <3>1. r \in TaskRec /\ r.pc = "blocked" /\ task' = [task EXCEPT ![o] = r]
            BY <1>3, <2>5 DEF TaskRec
        <3> HIDE DEF r
        <3>2. SessionOK' /\ task'[o] = r /\ \A x \in Tasks : x # o => task'[x] = task[x]
            <4>1. fail' \in BOOLEAN /\ us' = us
                BY <2>5, SessionParts
            <4> QED
                BY <1>1, <2>3, <2>5, <3>1, <4>1, StopsOK
        <3>3. SameBuffer
            BY <2>5 DEF SameBuffer
        <3>4. stalled' = TRUE
            BY <2>1, <2>5
        <3> QED
            BY <1>1, <1>5, <2>2, <2>3, <3>1, <3>2, <3>3, <3>4
    <2>6. CASE Ends(o)
        <3> DEFINE r == At(IF o = "worker" THEN "gone" ELSE "off")
        <3>1. r \in TaskRec /\ r.pc \in {"gone", "off"} /\ (o = "worker" => r.pc = "gone")
            BY AtTyped
        <3> HIDE DEF r
        <3>2. task' = [task EXCEPT ![o] = r] /\ fail' = TRUE /\ cpu' = Idle /\ us' = us
            BY <2>6 DEF Ends, Report, r
        <3>3. SessionOK' /\ task'[o] = r /\ \A x \in Tasks : x # o => task'[x] = task[x]
            BY <1>1, <2>3, <3>1, <3>2, StopsOK
        <3>4. SameBuffer
            BY <3>2 DEF SameBuffer
        <3> QED
            BY <1>1, <1>5, <2>2, <2>3, <3>1, <3>2, <3>3, <3>4
    <2> QED
        BY <2>1, <2>4, <2>5, <2>6
<1> QED
    BY <1>4, <1>5

\* A caller that waited resumes.
LEMMA UnblockedOK ==
    ASSUME SessionOK, PortOK, NEW o \in Tasks, Unblocked(o)
    PROVE  /\ SessionOK' /\ PortOK' /\ PortStep /\ SameBuffer /\ cpu = Idle /\ cpu' = o
           /\ task[o].pc = "blocked" /\ task'[o].pc = "drain"
           /\ \A x \in Tasks : x # o => task'[x] = task[x]
           /\ UNCHANGED <<sent, fail, log, stalled>>
<1>1. /\ cpu = Idle /\ task[o].pc = "blocked" /\ PutReturns(o) /\ Moved(o) /\ cpu' = o
      /\ UNCHANGED <<sent, uq, gw, fail, log, stalled>>
    BY DEF Unblocked
<1>2. PortOK' /\ PortStep
    BY <1>1, PutsOK DEF PutReturns, Callers
<1>3. SessionOK' /\ SameBuffer /\ task'[o].pc = "drain" /\ \A x \in Tasks : x # o => task'[x] = task[x]
    BY <1>1, SessionParts, MovedOK
<1> QED
    BY <1>1, <1>2, <1>3

\* A caller gives up waiting.
LEMMA BlockedTooLongOK ==
    ASSUME SessionOK, PortOK, NEW o \in Tasks, BlockedTooLong(o)
    PROVE  /\ SessionOK' /\ PortOK' /\ PortStep /\ SameBuffer /\ fail' = TRUE
           /\ task'[o].pc \in {"gone", "off"} /\ \A x \in Tasks : x # o => task'[x] = task[x]
           /\ UNCHANGED <<sent, log, stalled>>
<1>1. /\ cpu = Idle /\ task[o].pc = "blocked" /\ PutAbandoned(o) /\ Ends(o)
      /\ UNCHANGED <<sent, uq, gw, log, stalled>>
    BY DEF BlockedTooLong
<1>2. PortOK' /\ PortStep
    BY <1>1, PutsOK DEF PutAbandoned, Callers
<1> DEFINE r == At(IF o = "worker" THEN "gone" ELSE "off")
<1>3. r \in TaskRec /\ r.pc \in {"gone", "off"} /\ (o = "worker" => r.pc = "gone")
    BY AtTyped
<1> HIDE DEF r
<1>4. task' = [task EXCEPT ![o] = r] /\ fail' = TRUE /\ cpu' = Idle /\ us' = us
    BY <1>1 DEF Ends, Report, r
<1>5. SessionOK' /\ task'[o] = r /\ \A x \in Tasks : x # o => task'[x] = task[x]
    BY <1>1, <1>3, <1>4, SessionParts, StopsOK
<1>6. SameBuffer
    BY <1>4 DEF SameBuffer
<1> QED
    BY <1>1, <1>2, <1>3, <1>4, <1>5, <1>6

\* The loop is over: the timer is armed, cancelled or left as it is.
LEMMA FinishOK ==
    ASSUME SessionOK, NEW o \in Tasks, Finish(o)
    PROVE  /\ SessionOK' /\ cpu = o /\ cpu' = Idle /\ task[o].pc = "drain"
           /\ UNCHANGED <<sent, log, stalled>>
           /\ us'.hi = us.hi /\ us'.seen = us.seen /\ us'.reorder = us.reorder
           /\ fail' = fail \/ fail' = TRUE
           /\ \A x \in Tasks : task'[x].pc = "sleep" => (task[x].pc = "sleep" /\ x # o) \/ x = us'.ref
           /\ \A x \in Tasks : task'[x].pc = "blocked" => task[x].pc = "blocked"
           /\ \/ us.reorder = {} /\ us.ref # NoTimer /\ us'.ref = NoTimer /\ task'[us.ref].pc = "off"
              \/ us.reorder # {} /\ us.ref = NoTimer /\ us'.ref \in Timers /\ task'[us'.ref].pc = "sleep"
              \/ /\ (us.reorder = {}) <=> (us.ref = NoTimer)
                 /\ us'.ref = us.ref /\ \A x \in Tasks : x # o => task'[x] = task[x]
           /\ o # "worker" => task'["worker"] = task["worker"]
<1> DEFINE echoFails == o = "worker" /\ KindOf(task[o].last) = "keepalive" /\ SendFails
           r == At(IF o # "worker" THEN "off" ELSE IF echoFails THEN "gone" ELSE "idle")
           t == [task EXCEPT ![o] = r]
           new == CHOOSE x \in Timers : t[x].pc = "off"
           off == At("off")
           sleep == At("sleep")
<1>1. us \in UsRec /\ task \in [Tasks -> TaskRec] /\ us.ref \in Timers \cup {NoTimer}
    BY SessionParts DEF UsRec
<1>2. r \in TaskRec /\ r.pc \in {"off", "gone", "idle"}
    BY AtTyped
<1>3. off \in TaskRec /\ off.pc = "off" /\ sleep \in TaskRec /\ sleep.pc = "sleep"
    BY AtTyped
<1>4. /\ cpu = o /\ task[o].pc = "drain" /\ cpu' = Idle /\ UNCHANGED <<sent, uq, gw, log, stalled>>
      /\ fail' = fail \/ fail' = TRUE
    BY DEF Finish, Report
<1>5. \/ us.reorder = {} /\ us.ref # NoTimer /\ task' = [t EXCEPT ![us.ref] = off] /\ us' = [us EXCEPT !.ref = NoTimer]
      \/ /\ us.reorder # {} /\ us.ref = NoTimer /\ (\E x \in Timers : t[x].pc = "off")
         /\ task' = [t EXCEPT ![new] = sleep] /\ us' = [us EXCEPT !.ref = new]
      \/ ((us.reorder = {}) <=> (us.ref = NoTimer)) /\ task' = t /\ us' = us
    BY DEF Finish
<1> HIDE DEF echoFails, r
<1>6. t \in [Tasks -> TaskRec] /\ t[o] = r /\ \A x \in Tasks : x # o => t[x] = task[x]
    BY <1>1, <1>2, TaskSet
<1> HIDE DEF t, new, off, sleep
<1>7. \A x \in Tasks : x # o => task[x].pc \notin {"drain", "deliver"}
    BY <1>4, SessionParts DEF Running
<1>8. ASSUME us' \in UsRec, us'.hi = us.hi, us'.seen = us.seen, us'.reorder = us.reorder, us'.closed = us.closed,
             task' \in [Tasks -> TaskRec],
             \A x \in Tasks : task'[x] \in {t[x], off, sleep},
             task'["worker"] = t["worker"]
      PROVE  /\ SessionOK'
             /\ \A x \in Tasks : task'[x].pc = "blocked" => task[x].pc = "blocked"
             /\ o # "worker" => task'["worker"] = task["worker"]
    <2>1. \A x \in Tasks : task'[x].pc \notin {"drain", "deliver"}
        BY <1>2, <1>3, <1>6, <1>7, <1>8
    <2>2. Running'
        BY <1>4, <2>1, Names DEF Running
    <2>3. Buffered' /\ Cardinality(us'.reorder) <= Jitter
        BY <1>4, <1>8, SessionParts DEF Buffered
    <2>4. ClosedIdle'
        <3>1. CASE o = "worker"
            BY <1>4, <1>8, <3>1, SessionParts DEF ClosedIdle
        <3>2. CASE o # "worker"
            BY <1>6, <1>8, <3>2, Names, SessionParts DEF ClosedIdle
        <3> QED
            BY <3>1, <3>2
    <2>5. fail' \in BOOLEAN
        BY <1>4, SessionParts
    <2>6. SessionOK'
        BY <1>4, <1>8, <2>2, <2>3, <2>4, <2>5, SessionParts, SessionBuilt
    <2>7. \A x \in Tasks : task'[x].pc = "blocked" => task[x].pc = "blocked"
        BY <1>2, <1>3, <1>6, <1>8
    <2>8. o # "worker" => task'["worker"] = task["worker"]
        BY <1>6, <1>8, Names
    <2> QED
        BY <2>6, <2>7, <2>8
<1>9. ASSUME NEW v \in Timers \cup {NoTimer}, us' = [us EXCEPT !.ref = v]
      PROVE  /\ us' \in UsRec /\ us'.hi = us.hi /\ us'.seen = us.seen /\ us'.reorder = us.reorder
             /\ us'.closed = us.closed /\ us'.ref = v
    <2>1. us' \in UsRec
        BY <1>1, <1>9, UsFields
    <2>2. us'.hi = us.hi /\ us'.seen = us.seen /\ us'.reorder = us.reorder /\ us'.ref = v
        BY <1>1, <1>9 DEF UsRec
    <2>3. us'.closed = us.closed
        BY <1>1, <1>9 DEF UsRec
    <2> QED
        BY <2>1, <2>2, <2>3
<1>10. CASE us.reorder = {} /\ us.ref # NoTimer /\ task' = [t EXCEPT ![us.ref] = off] /\ us' = [us EXCEPT !.ref = NoTimer]
    <2>1. us.ref \in Timers /\ us.ref \in Tasks /\ us.ref # "worker"
        BY <1>1, <1>10, Names
    <2>2. /\ us' \in UsRec /\ us'.hi = us.hi /\ us'.seen = us.seen /\ us'.reorder = us.reorder
          /\ us'.closed = us.closed /\ us'.ref = NoTimer
        BY <1>9, <1>10
    <2>3. /\ task' \in [Tasks -> TaskRec] /\ task'[us.ref] = off
          /\ \A x \in Tasks : x # us.ref => task'[x] = t[x]
        BY <1>3, <1>6, <1>10, <2>1, TaskSet
    <2>4. \A x \in Tasks : task'[x].pc = "sleep" => task[x].pc = "sleep" /\ x # o
        BY <1>2, <1>3, <1>6, <2>3
    <2>5. /\ SessionOK' /\ \A x \in Tasks : task'[x].pc = "blocked" => task[x].pc = "blocked"
          /\ o # "worker" => task'["worker"] = task["worker"]
        BY <1>8, <2>1, <2>2, <2>3, Names
    <2> QED
        BY <1>3, <1>4, <1>10, <2>2, <2>3, <2>4, <2>5
<1>11. CASE /\ us.reorder # {} /\ us.ref = NoTimer /\ (\E x \in Timers : t[x].pc = "off")
            /\ task' = [t EXCEPT ![new] = sleep] /\ us' = [us EXCEPT !.ref = new]
    <2>1. new \in Timers
        BY <1>11 DEF new
    <2>2. new \in Tasks /\ new # "worker" /\ new \in Timers \cup {NoTimer}
        BY <2>1, Names
    <2>3. /\ us' \in UsRec /\ us'.hi = us.hi /\ us'.seen = us.seen /\ us'.reorder = us.reorder
          /\ us'.closed = us.closed /\ us'.ref = new
        BY <1>9, <1>11, <2>2
    <2>4. /\ task' \in [Tasks -> TaskRec] /\ task'[new] = sleep
          /\ \A x \in Tasks : x # new => task'[x] = t[x]
        BY <1>3, <1>6, <1>11, <2>2, TaskSet
    <2>5. \A x \in Tasks : task'[x].pc = "sleep" => (task[x].pc = "sleep" /\ x # o) \/ x = us'.ref
        BY <1>2, <1>6, <2>3, <2>4
    <2>6. /\ SessionOK' /\ \A x \in Tasks : task'[x].pc = "blocked" => task[x].pc = "blocked"
          /\ o # "worker" => task'["worker"] = task["worker"]
        BY <1>8, <2>2, <2>3, <2>4, Names
    <2> QED
        BY <1>3, <1>4, <1>11, <2>1, <2>3, <2>4, <2>5, <2>6
<1>12. CASE ((us.reorder = {}) <=> (us.ref = NoTimer)) /\ task' = t /\ us' = us
    <2>1. /\ SessionOK' /\ \A x \in Tasks : task'[x].pc = "blocked" => task[x].pc = "blocked"
          /\ o # "worker" => task'["worker"] = task["worker"]
        BY <1>1, <1>6, <1>8, <1>12
    <2>2. \A x \in Tasks : task'[x].pc = "sleep" => task[x].pc = "sleep" /\ x # o
        BY <1>2, <1>6, <1>12
    <2> QED
        BY <1>4, <1>6, <1>12, <2>1, <2>2
<1> QED
    BY <1>5, <1>10, <1>11, <1>12

\* A timer wakes up: nothing is left for it, or it gives the gap up.
LEMMA GapExpiresOK ==
    ASSUME SessionOK, NEW x \in Timers, GapExpires(x)
    PROVE  /\ SessionOK' /\ cpu = Idle /\ task[x].pc = "sleep" /\ UNCHANGED <<sent, fail, log, stalled>>
           /\ us'.hi = us.hi /\ us'.seen = us.seen /\ us'.reorder = us.reorder /\ us'.closed = us.closed
           /\ \A o \in Tasks : o # x => task'[o] = task[o]
           /\ \/ (us.closed \/ us.reorder = {}) /\ us'.ref = us.ref /\ task'[x].pc = "off" /\ cpu' = Idle
              \/ us.reorder # {} /\ us'.ref = NoTimer /\ task'[x].pc = "drain" /\ cpu' = x
<1>1. us \in UsRec /\ task \in [Tasks -> TaskRec] /\ x \in Tasks /\ x # "worker" /\ task[x] \in TaskRec
    BY SessionParts, Names
<1>2. cpu = Idle /\ task[x].pc = "sleep" /\ UNCHANGED <<sent, uq, gw, fail, log, stalled>>
    BY DEF GapExpires
<1>3. CASE (us.closed \/ us.reorder = {}) /\ task' = [task EXCEPT ![x] = At("off")] /\ UNCHANGED <<us, cpu>>
    <2> DEFINE r == At("off")
    <2>1. r \in TaskRec /\ r.pc = "off"
        BY AtTyped
    <2> HIDE DEF r
    <2>2. task' = [task EXCEPT ![x] = r] /\ us' = us /\ cpu' = Idle
        BY <1>2, <1>3 DEF r
    <2>3. SessionOK' /\ task'[x] = r /\ \A o \in Tasks : o # x => task'[o] = task[o]
        BY <1>1, <1>2, <2>1, <2>2, SessionParts, StopsOK
    <2> QED
        BY <1>2, <1>3, <2>1, <2>2, <2>3
<1>4. CASE ~(us.closed \/ us.reorder = {})
    <2> DEFINE first == CHOOSE n \in us.reorder : \A m \in us.reorder : n <= m
               c == IF first > us.cursor THEN first ELSE us.cursor
               r == [pc |-> "drain", exp |-> c, last |-> task[x].last]
    <2>1. us.reorder \in SUBSET Nat /\ us.reorder # {} /\ us.cursor \in Nat
        BY <1>1, <1>4 DEF UsRec
    <2>2. first \in us.reorder
        BY <2>1, MinExists
    <2>3. c \in Nat
        BY <2>1, <2>2
    <2>4. /\ us' = [us EXCEPT !.cursor = c, !.ref = NoTimer] /\ cpu' = x
          /\ task' = [task EXCEPT ![x].pc = "drain", ![x].exp = c]
        BY <1>4 DEF GapExpires
    <2> HIDE DEF c
    <2>5. r \in TaskRec /\ r.pc = "drain"
        BY <1>1, <2>3 DEF TaskRec
    <2>6. task' = [task EXCEPT ![x] = r]
        <3> DEFINE p == [task EXCEPT ![x].pc = "drain"]
        <3>1. task' = [p EXCEPT ![x].exp = c]
            BY <2>4, Zenon
        <3>2. p = [task EXCEPT ![x] = [task[x] EXCEPT !.pc = "drain"]]
            BY <1>1
        <3>3. [task[x] EXCEPT !.pc = "drain"] = [pc |-> "drain", exp |-> task[x].exp, last |-> task[x].last]
            BY <1>1 DEF TaskRec
        <3>4. p[x] = [task[x] EXCEPT !.pc = "drain"]
            BY <1>1, <3>2
        <3>5. [p[x] EXCEPT !.exp = c] = r
            BY <3>3, <3>4
        <3> QED
            BY <1>1, <3>1, <3>2, <3>5
    <2> HIDE DEF r
    <2>7. us' \in UsRec
        <3>1. us' = [[us EXCEPT !.cursor = c] EXCEPT !.ref = NoTimer]
            BY <2>4, Zenon
        <3>2. [us EXCEPT !.cursor = c] \in UsRec
            BY <1>1, <2>3, UsFields
        <3> QED
            BY <3>1, <3>2, UsFields
    <2>8. us'.hi = us.hi /\ us'.seen = us.seen /\ us'.reorder = us.reorder /\ us'.ref = NoTimer
        BY <1>1, <2>4 DEF UsRec
    <2>9. us'.closed = us.closed
        BY <1>1, <2>4 DEF UsRec
    <2>10. /\ task' \in [Tasks -> TaskRec] /\ task'[x] = r
           /\ \A o \in Tasks : o # x => task'[o] = task[o]
        BY <1>1, <2>5, <2>6, TaskSet
    <2>11. Running'
        <3>1. \A o \in Tasks : task[o].pc \notin {"drain", "deliver"}
            BY <1>2, Names, SessionParts DEF Running
        <3> QED
            BY <2>4, <2>5, <2>10, <3>1 DEF Running
    <2>12. Buffered' /\ Cardinality(us'.reorder) <= Jitter
        BY <1>2, <2>8, SessionParts DEF Buffered
    <2>13. ClosedIdle'
        BY <1>4, <2>9 DEF ClosedIdle
    <2>14. SessionOK'
        BY <1>1, <1>2, <2>4, <2>7, <2>10, <2>11, <2>12, <2>13, SessionParts, SessionBuilt
    <2> QED
        BY <1>2, <2>1, <2>4, <2>5, <2>8, <2>9, <2>10, <2>14
<1> QED
    BY <1>3, <1>4 DEF GapExpires

----------------------------------------------------------------------------
(* The uplink as a whole.                                                  *)

ConnOK ==
    /\ read \in Nat /\ reader \in {"off", "read", "blocked", "failed", "gone"}
    /\ conn \in {"starting", "probing", "open", "closing", "cancelled", "unbound", "closed"}

SystemOK == PortOK /\ SessionOK /\ ConnOK

\* The binding closes its ports.
PortShut == port'.closed = TRUE /\ UNCHANGED <<profile, now, claim, recov, sent, log>>

\* The session stays, whatever arrives or fails around it.
Quiet == UNCHANGED <<sent, us, task, cpu, log, stalled>> /\ (fail' = fail \/ fail' = TRUE)

\* The session is closed or expires.
Ending ==
    /\ cpu = Idle /\ cpu' = Idle /\ UNCHANGED <<sent, log, stalled>> /\ task'["worker"].pc = "gone"
    /\ us'.hi = us.hi /\ us'.seen = us.seen /\ us'.reorder = us.reorder

\* Datagrams are taken and delivered.
Media ==
    \/ Take
    \/ \E o \in Tasks : Pop(o) \/ Deliver(o) \/ Finish(o) \/ Unblocked(o) \/ BlockedTooLong(o)
    \/ \E x \in Timers : GapExpires(x)

SessionStep == Quiet \/ Ending \/ Send \/ ReadMedia \/ (Udp /\ Media)

LEMMA InitOK ==
    ASSUME Init
    PROVE  SystemOK
<1>1. PortOK
    <2>1. NoItem \in Timely
        <3>1. MaxAge \in Nat
            <4>1. MaxAgeOf \in [{"wss", "udp"} -> Nat \ {0}] /\ profile \in {"wss", "udp"}
                BY PortAssumption DEF Init, PortInit
            <4> QED
                BY <4>1 DEF MaxAge
        <3>2. NoItem \in Item
            BY DEF NoItem, Item, None
        <3>3. NoItem.dl = 0 /\ NoItem.rcv = 0 /\ NoItem.exp = 0
            BY DEF NoItem
        <3> QED
            BY <3>1, <3>2, <3>3 DEF Timely
    <2>2. InCap \in Nat /\ Frames \in Nat /\ MaxInvalid \in Nat
        <3>1. InCapOf \in [{"wss", "udp"} -> Nat \ {0}] /\ profile \in {"wss", "udp"} /\ Frames \in Nat \ {0} /\ MaxInvalid \in Nat \ {0}
            BY PortAssumption DEF Init, PortInit
        <3> QED
            BY <3>1 DEF InCap
    <2>3. NoItem \in Item
        BY <2>1 DEF Timely
    <2>4. /\ port = [queue |-> <<>>, closed |-> FALSE, origin |-> None, start |-> 0, lastTs |-> None,
                     lastAt |-> 0, debt |-> 0, catch |-> FALSE, dropped |-> 0, paced |-> 0]
          /\ profile \in {"wss", "udp"} /\ now = 0 /\ puts = <<>> /\ landed = {} /\ recov = <<>>
          /\ claim = [at |-> None, n |-> 0]
          /\ inp = [pc |-> "off", item |-> NoItem, left |-> 0, bad |-> 0]
        BY DEF Init, PortInit
    <2> HIDE DEF NoItem
    <2>5. port \in PortRec /\ port.queue = <<>>
        BY <2>4 DEF PortRec, None
    <2>6. inp \in InpRec /\ inp.item = NoItem /\ inp.pc = "off"
        BY <2>2, <2>3, <2>4 DEF InpRec
    <2>7. claim \in [at : Int, n : Nat]
        BY <2>4 DEF None
    <2>8. port.queue \in Seq(Timely) /\ puts \in Seq(PutRec) /\ recov \in Seq(Nat) /\ Len(port.queue) <= InCap
        BY <2>2, <2>4, <2>5
    <2> QED
        BY <2>1, <2>4, <2>5, <2>6, <2>7, <2>8 DEF PortOK, PortTypeOK, PortRec, InpRec
<1>2. SessionOK
    <2>1. /\ us = [closed |-> FALSE, expired |-> FALSE, registered |-> TRUE, src |-> NoSource, ready |-> FALSE,
                   cursor |-> 0, hi |-> None, seen |-> {}, reorder |-> {}, ref |-> NoTimer,
                   reackOpen |-> FALSE, reacks |-> 0]
          /\ task = [o \in Tasks |-> At(IF o = "worker" THEN "idle" ELSE "off")]
          /\ sent = <<>> /\ uq = <<>> /\ cpu = Idle /\ gw = "up" /\ fail = FALSE /\ log = <<>> /\ stalled = FALSE
        BY DEF Init, UdpInit
    <2>2. us \in UsRec
        BY <2>1, Names DEF UsRec, None
    <2>3. us.reorder = {} /\ us.hi = -1 /\ us.closed = FALSE
        BY <2>1 DEF None
    <2>4. \A o \in Tasks : task[o] \in TaskRec /\ task[o].pc \in {"idle", "off"}
        BY <2>1, AtTyped
    <2>5. task \in [Tasks -> TaskRec]
        BY <2>1, <2>4
    <2>6. Buffered
        BY <2>1, <2>3, FS_EmptySet DEF Buffered
    <2>7. Running
        BY <2>1, <2>4, Names DEF Running
    <2>8. ClosedIdle
        BY <2>3 DEF ClosedIdle
    <2>9. Cardinality(us.reorder) <= Jitter
        BY <2>3, FS_EmptySet, Names
    <2>10. sent \in Seq(SentRec) /\ uq \in Seq(DatagramRec) /\ Len(uq) <= UdpQueue /\ log \in Seq(Nat)
        BY <2>1, Names
    <2> QED
        BY <2>1, <2>2, <2>5, <2>6, <2>7, <2>8, <2>9, <2>10
           DEF SessionOK, UdpTypeOK, UsRec, TaskRec, SentRec, DatagramRec
<1>3. ConnOK
    BY DEF Init, ConnOK
<1> QED
    BY <1>1, <1>2, <1>3 DEF SystemOK

\* A session that nothing touches.
LEMMA SessionStutter ==
    ASSUME SessionOK, UNCHANGED udpVars
    PROVE  SessionOK' /\ Quiet
<1>1. UNCHANGED <<sent, uq, us, task, cpu, gw, fail, log, stalled>>
    BY DEF udpVars
<1>2. SessionOK'
    BY <1>1 DEF SessionOK, UdpTypeOK, Buffered, Running, ClosedIdle
<1> QED
    BY <1>1, <1>2 DEF Quiet

\* UdpMediaSession.close, wherever it is called from.
LEMMA CloseSessionOK ==
    ASSUME SessionOK, cpu = Idle, CloseSession, UNCHANGED <<sent, uq, cpu, log, stalled>>,
           gw' \in {"up", "failed", "closed"}, fail' = fail
    PROVE  /\ SessionOK' /\ (Quiet \/ Ending)
           /\ landed' \subseteq landed /\ (puts' = puts \/ puts' = Dropped("worker"))
<1>1. CASE us.closed
    <2>1. UNCHANGED <<us, task, puts, landed>>
        BY <1>1 DEF CloseSession
    <2>2. SessionOK'
        BY <2>1 DEF SessionOK, UdpTypeOK, Buffered, Running, ClosedIdle
    <2> QED
        BY <2>1, <2>2 DEF Quiet
<1>2. CASE ~us.closed
    <2>1. /\ us' = [us EXCEPT !.closed = TRUE, !.registered = FALSE] /\ task' = Cancelled(task)
          /\ puts' = Dropped("worker") /\ landed' = landed \ {"worker"}
        BY <1>2 DEF CloseSession
    <2>2. SessionOK' /\ Ending
        BY <2>1, CancelOK, SessionParts DEF Ending
    <2> QED
        BY <2>1, <2>2
<1> QED
    BY <1>1, <1>2

----------------------------------------------------------------------------
(* The steps of the uplink.                                                *)

Kept == SystemOK' /\ (PortStep \/ PortShut) /\ SessionStep

LEMMA ReaderOK ==
    ASSUME SystemOK, Reader
    PROVE  Kept
<1> USE DEF SystemOK, Kept, SessionStep
<1>1. CASE ReadMedia
    <2> DEFINE n == read + 1
               v == Verdict(sent[n].ts)
    <2>1. read \in Nat /\ sent \in Seq(SentRec) /\ Len(sent) \in Nat /\ log \in Seq(Nat)
        BY SessionParts, SeqTyped DEF ConnOK
    <2>2. /\ read < Len(sent) /\ ReceiveAudio("reader", n, sent[n].ts) /\ read' = n /\ log' = Taken(n)
          /\ UNCHANGED <<sent, uq, us, task, cpu, gw, fail, stalled, conn>>
          /\ reader' = IF v = "ok" THEN "read" ELSE IF v = "full" THEN "blocked" ELSE "failed"
        BY <1>1 DEF ReadMedia
    <2>3. n \in Nat /\ n \in 1..Len(sent) /\ "reader" \in Callers
        BY <2>1, <2>2 DEF Callers
    <2>4. sent[n].ts \in Nat
        <3>1. sent[n] \in SentRec
            BY <2>1, <2>3
        <3> QED
            BY <3>1 DEF SentRec
    <2> HIDE DEF n, v
    <2>5. PortOK' /\ PortStep
        BY <2>2, <2>3, <2>4, ReceiveOK
    <2>6. log' \in Seq(Nat)
        BY <2>1, <2>2, <2>3, TakenOK
    <2>7. SessionOK'
        BY <2>2, <2>6 DEF SessionOK, UdpTypeOK, Buffered, Running, ClosedIdle
    <2>8. ConnOK'
        BY <2>2, <2>3 DEF ConnOK
    <2> QED
        BY <1>1, <2>5, <2>7, <2>8
<1>2. CASE ReaderResumes
    <2>1. PortOK' /\ PortStep
        BY <1>2, PutsOK DEF ReaderResumes, PutReturns, Callers
    <2>2. SessionOK' /\ Quiet
        BY <1>2, SessionStutter DEF ReaderResumes
    <2>3. ConnOK'
        BY <1>2 DEF ReaderResumes, ConnOK
    <2> QED
        BY <2>1, <2>2, <2>3
<1>3. CASE ReaderGivesUp
    <2>1. PortOK' /\ PortStep
        BY <1>3, PutsOK DEF ReaderGivesUp, PutAbandoned, Callers
    <2>2. SessionOK' /\ Quiet
        BY <1>3, SessionStutter DEF ReaderGivesUp
    <2>3. ConnOK'
        BY <1>3 DEF ReaderGivesUp, ConnOK
    <2> QED
        BY <2>1, <2>2, <2>3
<1> QED
    BY <1>1, <1>2, <1>3 DEF Reader

LEMMA ConnectionOK ==
    ASSUME SystemOK, Connection
    PROVE  Kept
<1> USE DEF SystemOK, Kept, SessionStep
<1>1. CASE StartTasks
    <2>1. /\ cpu = Idle /\ inp' = [inp EXCEPT !.pc = "get"] /\ reader' = "read"
          /\ UNCHANGED <<profile, now, port, claim, recov, sent, uq, cpu, gw, fail, log, stalled, read>>
          /\ \/ conn' = "probing" /\ UNCHANGED <<us, task, puts, landed>>
             \/ conn' = "open" /\ CloseSession
        BY <1>1 DEF StartTasks
    <2>2. /\ SessionOK' /\ (Quiet \/ Ending)
          /\ landed' \subseteq landed /\ (puts' = puts \/ puts' = Dropped("worker"))
        <3>1. CASE UNCHANGED <<us, task, puts, landed>>
            <4>1. UNCHANGED udpVars
                BY <2>1, <3>1 DEF udpVars
            <4> QED
                BY <3>1, <4>1, SessionStutter
        <3>2. CASE CloseSession
            BY <2>1, <3>2, CloseSessionOK, SessionParts
        <3> QED
            BY <2>1, <3>1, <3>2
    <2>3. puts' \in Seq(PutRec) /\ landed' \subseteq Callers
        BY <2>2, DroppedOK, PortParts
    <2>4. inp' \in InpRec /\ inp'.item = inp.item /\ inp'.pc = "get"
        BY <2>1, PortParts DEF InpRec
    <2>5. PortOK'
        BY <2>1, <2>3, <2>4, PortParts, PortBuilt
    <2>6. PortStep
        BY <2>1 DEF PortStep
    <2>7. ConnOK'
        BY <2>1 DEF ConnOK
    <2> QED
        BY <2>2, <2>5, <2>6, <2>7
<1>2. CASE ProbeReady \/ ProbeTimeout \/ ChildFailed \/ SessionEnds
    <2>1. UNCHANGED <<portVars, udpVars, read, reader>> /\ conn' \in {"open", "closing"}
        BY <1>2 DEF ProbeReady, ProbeTimeout, ChildFailed, SessionEnds, Closing
    <2>2. PortOK' /\ PortStep
        BY <2>1, PortStutter
    <2>3. SessionOK' /\ Quiet
        BY <2>1, SessionStutter
    <2>4. ConnOK'
        BY <2>1 DEF ConnOK
    <2> QED
        BY <2>2, <2>3, <2>4
<1>3. CASE CancelTasks
    <2>1. /\ inp' = [pc |-> "gone", item |-> NoItem, left |-> 0, bad |-> 0] /\ reader' = "gone"
          /\ puts' = Dropped("reader") /\ landed' = landed \ {"reader"} /\ conn' = "cancelled"
          /\ UNCHANGED <<profile, now, port, claim, recov>> /\ UNCHANGED udpVars /\ read' = read
        BY <1>3 DEF CancelTasks
    <2>2. NoItem \in Timely /\ NoItem \in Item
        <3>1. NoItem \in Item /\ NoItem.dl = 0 /\ NoItem.rcv = 0 /\ NoItem.exp = 0
            BY DEF NoItem, Item, None
        <3>2. MaxAge \in Nat
            BY Limits DEF PortOK
        <3> QED
            BY <3>1, <3>2 DEF Timely
    <2>3. Frames \in Nat /\ MaxInvalid \in Nat
        BY Limits DEF PortOK
    <2> HIDE DEF NoItem
    <2>4. inp' \in InpRec /\ inp'.item = NoItem /\ inp'.pc = "gone"
        BY <2>1, <2>2, <2>3 DEF InpRec
    <2>5. puts' \in Seq(PutRec) /\ landed' \subseteq Callers
        BY <2>1, DroppedOK, PortParts
    <2>6. PortOK'
        BY <2>1, <2>2, <2>4, <2>5, PortParts, PortBuilt
    <2>7. PortStep
        BY <2>1 DEF PortStep
    <2>8. SessionOK' /\ Quiet
        BY <2>1, SessionStutter
    <2>9. ConnOK'
        BY <2>1 DEF ConnOK
    <2> QED
        BY <2>6, <2>7, <2>8, <2>9
<1>4. CASE CloseBinding
    <2>1. ClosePort /\ conn' = "unbound" /\ UNCHANGED udpVars /\ UNCHANGED <<read, reader>>
        BY <1>4 DEF CloseBinding
    <2>2. PortOK' /\ UNCHANGED <<profile, now, claim, recov>> /\ port'.closed = TRUE
        BY <2>1, CloseOK
    <2>3. SessionOK' /\ Quiet
        BY <2>1, SessionStutter
    <2>4. ConnOK'
        BY <2>1 DEF ConnOK
    <2>5. PortShut
        BY <2>1, <2>2 DEF PortShut, udpVars
    <2> QED
        BY <2>2, <2>3, <2>4, <2>5
<1>5. CASE CloseUdp
    <2>1. /\ cpu = Idle /\ CloseSession /\ conn' = "closed"
          /\ UNCHANGED <<profile, now, port, claim, inp, recov, sent, uq, cpu, gw, fail, log, stalled, read, reader>>
        BY <1>5 DEF CloseUdp
    <2>2. /\ SessionOK' /\ (Quiet \/ Ending)
          /\ landed' \subseteq landed /\ (puts' = puts \/ puts' = Dropped("worker"))
        BY <2>1, CloseSessionOK, SessionParts
    <2>3. PortOK' /\ PortStep
        BY <2>1, <2>2, PutsOK, Names DEF Callers
    <2>4. ConnOK'
        BY <2>1 DEF ConnOK
    <2> QED
        BY <2>2, <2>3, <2>4
<1> QED
    BY <1>1, <1>2, <1>3, <1>4, <1>5 DEF Connection

LEMMA UdpPathOK ==
    ASSUME SystemOK, UdpPath
    PROVE  Kept
<1> USE DEF SystemOK, Kept, SessionStep
<1>0. Udp /\ UNCHANGED connVars
    BY DEF UdpPath
<1>c. ConnOK'
    BY <1>0 DEF ConnOK, connVars
<1>1. CASE Take
    <2>1. PortOK' /\ PortStep
        BY <1>1, PortStutter DEF Take
    <2>2. SessionOK'
        <3>1. CASE TakeIgnored(Head(uq))
            BY <1>1, <3>1, TakeIgnoredOK
        <3>2. CASE TakeProbe(Head(uq))
            BY <1>1, <3>2, TakeProbeOK
        <3>3. CASE TakeMedia(Head(uq))
            BY <1>1, <3>3, TakeMediaOK
        <3> QED
            BY <1>1, <3>1, <3>2, <3>3 DEF Take
    <2> QED
        BY <1>0, <1>c, <1>1, <2>1, <2>2 DEF Media
<1>2. ASSUME NEW o \in Tasks, Drain(o) \/ Unblocked(o) \/ BlockedTooLong(o)
      PROVE  Kept
    <2>1. Media
        BY <1>2 DEF Media, Drain
    <2>2. CASE Pop(o)
        <3>1. PortOK' /\ PortStep
            BY <2>2, PortStutter DEF Pop
        <3>2. SessionOK'
            BY <2>2, <1>2, PopOK
        <3> QED
            BY <1>0, <1>c, <2>1, <3>1, <3>2
    <2>3. CASE Deliver(o)
        BY <1>0, <1>c, <1>2, <2>1, <2>3, DeliverOK
    <2>4. CASE Finish(o)
        <3>1. PortOK' /\ PortStep
            BY <2>4, PortStutter DEF Finish
        <3>2. SessionOK'
            BY <2>4, <1>2, FinishOK
        <3> QED
            BY <1>0, <1>c, <2>1, <3>1, <3>2
    <2>5. CASE Unblocked(o)
        BY <1>0, <1>c, <1>2, <2>1, <2>5, UnblockedOK
    <2>6. CASE BlockedTooLong(o)
        BY <1>0, <1>c, <1>2, <2>1, <2>6, BlockedTooLongOK
    <2> QED
        BY <1>2, <2>2, <2>3, <2>4, <2>5, <2>6 DEF Drain
<1>3. ASSUME NEW x \in Timers, GapExpires(x)
      PROVE  Kept
    <2>1. PortOK' /\ PortStep
        BY <1>3, PortStutter DEF GapExpires
    <2>2. SessionOK'
        BY <1>3, GapExpiresOK
    <2>3. Media
        BY <1>3 DEF Media
    <2> QED
        BY <1>0, <1>c, <2>1, <2>2, <2>3
<1>4. CASE Expire
    <2>1. /\ cpu = Idle /\ us' = [us EXCEPT !.expired = TRUE, !.registered = FALSE] /\ task' = Cancelled(task)
          /\ puts' = Dropped("worker") /\ landed' = landed \ {"worker"} /\ fail' = TRUE
          /\ UNCHANGED <<profile, now, port, claim, inp, recov, sent, uq, cpu, gw, log, stalled>>
        BY <1>4 DEF Expire, Report
    <2>2. SessionOK' /\ Ending
        BY <2>1, CancelOK, SessionParts DEF Ending
    <2>3. PortOK' /\ PortStep
        BY <2>1, PutsOK, Names DEF Callers
    <2> QED
        BY <1>c, <2>2, <2>3
<1>5. CASE TransportLost
    <2>1. PortOK' /\ PortStep
        BY <1>5, PortStutter DEF TransportLost
    <2>2. SessionOK'
        BY <1>5, TransportLostOK
    <2>3. Quiet
        BY <1>5 DEF TransportLost, Report, Quiet
    <2> QED
        BY <1>c, <2>1, <2>2, <2>3
<1>6. CASE GatewayClose
    <2>1. /\ cpu = Idle /\ gw' = "closed" /\ (CloseSession \/ UNCHANGED <<us, task, puts, landed>>)
          /\ UNCHANGED <<profile, now, port, claim, inp, recov, sent, uq, cpu, fail, log, stalled>>
        BY <1>6 DEF GatewayClose
    <2>2. /\ SessionOK' /\ (Quiet \/ Ending)
          /\ landed' \subseteq landed /\ (puts' = puts \/ puts' = Dropped("worker"))
        <3>1. CASE CloseSession
            BY <2>1, <3>1, CloseSessionOK
        <3>2. CASE UNCHANGED <<us, task, puts, landed>>
            <4>1. SessionOK'
                BY <2>1, <3>2 DEF SessionOK, UdpTypeOK, Buffered, Running, ClosedIdle
            <4> QED
                BY <2>1, <3>2, <4>1 DEF Quiet
        <3> QED
            BY <2>1, <3>1, <3>2
    <2>3. PortOK' /\ PortStep
        BY <2>1, <2>2, PutsOK, Names DEF Callers
    <2> QED
        BY <1>c, <2>2, <2>3
<1>7. ASSUME NEW n \in 0..Len(sent), NEW src \in Sources, Arrive(n, src)
      PROVE  Kept
    <2>1. PortOK' /\ PortStep
        BY <1>7, PortStutter DEF Arrive
    <2>2. SessionOK'
        BY <1>7, ArriveOK
    <2>3. Quiet
        BY <1>7 DEF Arrive, Quiet
    <2> QED
        BY <1>c, <2>1, <2>2, <2>3
<1> QED
    BY <1>1, <1>2, <1>3, <1>4, <1>5, <1>6, <1>7, Names
       DEF UdpPath, WorkerStep, TimerStep

\* Every step keeps the invariant and is one of the steps above.
LEMMA StepOK ==
    ASSUME SystemOK, [Next]_vars
    PROVE  Kept
<1> USE DEF SystemOK, Kept, SessionStep
<1>1. CASE Tick
    <2>1. /\ now' = now + 1 /\ UNCHANGED <<profile, port, puts, landed, claim, inp, recov>>
          /\ UNCHANGED udpVars /\ UNCHANGED connVars
        BY <1>1 DEF Tick
    <2>2. now' \in Nat
        BY <2>1, PortParts
    <2>3. PortOK' /\ PortStep
        BY <2>1, <2>2, PortParts, PortBuilt DEF PortStep
    <2>4. SessionOK' /\ Quiet
        BY <2>1, SessionStutter
    <2>5. ConnOK'
        BY <2>1 DEF ConnOK, connVars
    <2> QED
        BY <2>3, <2>4, <2>5
<1>2. CASE Send
    <2>1. PortOK' /\ PortStep
        BY <1>2, PortStutter DEF Send
    <2>2. SessionOK'
        BY <1>2, SendOK
    <2>3. ConnOK'
        BY <1>2 DEF Send, ConnOK, connVars
    <2> QED
        BY <1>2, <2>1, <2>2, <2>3
<1>3. CASE Input
    <2>1. InputLoop /\ UNCHANGED udpVars /\ UNCHANGED connVars
        BY <1>3 DEF Input
    <2>2. PortOK' /\ PortStep
        BY <2>1, InputOK
    <2>3. SessionOK' /\ Quiet
        BY <2>1, SessionStutter
    <2>4. ConnOK'
        BY <2>1 DEF ConnOK, connVars
    <2> QED
        BY <2>2, <2>3, <2>4
<1>4. CASE Put
    <2>1. PutLands /\ UNCHANGED udpVars /\ UNCHANGED connVars
        BY <1>4 DEF Put
    <2>2. PortOK' /\ PortStep
        BY <2>1, PutLandsOK
    <2>3. SessionOK' /\ Quiet
        BY <2>1, SessionStutter
    <2>4. ConnOK'
        BY <2>1 DEF ConnOK, connVars
    <2> QED
        BY <2>2, <2>3, <2>4
<1>5. CASE UNCHANGED vars
    <2>1. UNCHANGED portVars /\ UNCHANGED udpVars /\ UNCHANGED connVars
        BY <1>5 DEF vars
    <2>2. PortOK' /\ PortStep
        BY <2>1, PortStutter
    <2>3. SessionOK' /\ Quiet
        BY <2>1, SessionStutter
    <2>4. ConnOK'
        BY <2>1 DEF ConnOK, connVars
    <2> QED
        BY <2>2, <2>3, <2>4
<1> QED
    BY <1>1, <1>2, <1>3, <1>4, <1>5, ReaderOK, ConnectionOK, UdpPathOK DEF Next, Stopped

\* The invariant the results below start from.
THEOREM SystemSound == Spec => []SystemOK
<1>1. SystemOK /\ [Next]_vars => SystemOK'
    BY StepOK DEF Kept
<1> QED
    BY <1>1, InitOK, PTL DEF Spec

\* The queues keep their bounds and the state its types: a put that waits for
\* room never lands in a full input queue, and the datagram queue drops its
\* oldest datagram instead of growing (receive_audio, UdpMediaSession.enqueue).
THEOREM UplinkTyped == Spec => []TypeOK
<1>1. SystemOK => TypeOK
    <2>1. SUFFICES ASSUME SystemOK PROVE TypeOK
        OBVIOUS
    <2>2. PutRec \subseteq [o : Tasks \cup {"reader"}, item : Item]
        BY DEF PutRec, Timely, Callers
    <2>3. puts \in Seq([o : Tasks \cup {"reader"}, item : Item])
        BY <2>1, <2>2, PortParts, SeqWider DEF SystemOK
    <2>4. PortTypeOK /\ UdpTypeOK /\ landed \subseteq Tasks \cup {"reader"}
        BY <2>1 DEF SystemOK, PortOK, SessionOK, Callers
    <2> QED
        BY <2>1, <2>3, <2>4 DEF TypeOK, SystemOK, ConnOK
<1> QED
    BY <1>1, SystemSound, PTL

----------------------------------------------------------------------------
(* The recovery budget.                                                    *)

\* How many of the last recoveries the current window granted.
GrantedHere == Lesser(claim.n, MaxRecoveries)
WindowOpens == Len(recov) - GrantedHere + 1

\* Recoveries are recorded in the order of the clock; the current window
\* opened with the first it granted, and the window before, of at most
\* MaxRecoveries, lies more than Window behind that one.
InOrder == \A i, j \in 1..Len(recov) : i <= j => recov[i] <= recov[j] /\ recov[j] <= now
WindowKept ==
    /\ claim.n >= 1 /\ WindowOpens >= 1 /\ claim.at <= now /\ recov[WindowOpens] = claim.at
    /\ WindowOpens > MaxRecoveries => claim.at - recov[WindowOpens - MaxRecoveries] > Window
Budget ==
    /\ InOrder /\ RecoveriesBounded
    /\ IF claim.at = None THEN recov = <<>> ELSE WindowKept

\* A step that claims nothing.
LEMMA BudgetKept ==
    ASSUME PortTypeOK, Budget, now' \in Nat, now' >= now, UNCHANGED <<claim, recov>>
    PROVE  Budget'
<1>1. now \in Nat /\ recov \in Seq(Nat) /\ claim \in [at : Int, n : Nat]
    BY DEF PortTypeOK
<1>2. InOrder'
    <2>1. \A j \in 1..Len(recov) : recov[j] \in Nat
        BY <1>1
    <2> QED
        BY <1>1, <2>1 DEF Budget, InOrder
<1>3. RecoveriesBounded'
    BY DEF Budget, RecoveriesBounded
<1>4. ASSUME claim.at # None
      PROVE  WindowKept'
    <2>1. claim.at \in Int /\ WindowKept
        BY <1>1, <1>4 DEF Budget
    <2>2. WindowOpens' = WindowOpens /\ claim.at <= now'
        BY <1>1, <2>1 DEF WindowOpens, GrantedHere, WindowKept
    <2> QED
        BY <2>1, <2>2 DEF WindowKept
<1> QED
    BY <1>2, <1>3, <1>4 DEF Budget

\* _claim_uplink_freshness_recovery: granted in a new window, granted in the
\* current one, or refused.
LEMMA BudgetClaimed ==
    ASSUME PortTypeOK, Budget, ClaimRecovery, now' = now
    PROVE  Budget'
<1> DEFINE M == MaxRecoveries
           L == Len(recov)
<1>1. /\ now \in Nat /\ recov \in Seq(Nat) /\ claim.at \in Int /\ claim.n \in Nat
      /\ claim = [at |-> claim.at, n |-> claim.n]
      /\ L \in Nat /\ \A i \in 1..L : recov[i] \in Nat
    BY SMTT(30) DEF PortTypeOK
<1>2. M \in Nat /\ M >= 1 /\ Window \in Nat
    <2>1. M \in Nat \ {0} /\ Window \in Nat
        BY PortAssumption
    <2> QED
        BY <2>1
<1>n. L \in Nat /\ M \in Nat /\ M >= 1 /\ Window \in Nat /\ now \in Nat
    BY <1>1, <1>2
<1>3. claim' = ClaimedNow /\ recov' = IF ClaimedNow.n <= M THEN Append(recov, now) ELSE recov
    BY DEF ClaimRecovery, Granted
<1>4. claim.at # None => WindowKept
    BY DEF Budget
<1>5. InOrder /\ RecoveriesBounded
    BY DEF Budget
<1>6. ASSUME recov' = Append(recov, now)
      PROVE  /\ recov' \in Seq(Nat) /\ Len(recov') = L + 1 /\ recov'[L + 1] = now
             /\ \A i \in 1..L : recov'[i] = recov[i]
             /\ InOrder'
    <2>1. /\ recov' \in Seq(Nat) /\ Len(recov') = L + 1 /\ recov'[L + 1] = now
          /\ \A i \in 1..L : recov'[i] = recov[i]
        BY <1>1, <1>6
    <2>2. \A i \in 1..L : recov[i] <= now
        BY <1>1, <1>5 DEF InOrder
    <2>3. ASSUME NEW i \in 1..(L + 1), NEW j \in 1..(L + 1), i <= j
          PROVE  recov'[i] <= recov'[j] /\ recov'[j] <= now
        <3>1. CASE j = L + 1
            BY <1>1, <2>1, <2>2, <2>3, <3>1, SMTT(30)
        <3>2. CASE j # L + 1
            <4>1. i \in 1..L /\ j \in 1..L
                BY <1>1, <2>3, <3>2
            <4> QED
                BY <1>5, <2>1, <2>3, <4>1 DEF InOrder
        <3> QED
            BY <3>1, <3>2
    <2>4. InOrder'
        BY <2>1, <2>3 DEF InOrder
    <2> QED
        BY <2>1, <2>4
<1>7. ASSUME recov' = Append(recov, now), WindowKept'
      PROVE  RecoveriesBounded'
    <2>1. /\ recov' \in Seq(Nat) /\ Len(recov') = L + 1 /\ recov'[L + 1] = now
          /\ \A i \in 1..L : recov'[i] = recov[i]
          /\ InOrder'
        BY <1>6, <1>7
    <2> DEFINE w == WindowOpens'
    <2>2. w >= L + 2 - M /\ w \in Int /\ w <= L + 1
        <3>1. claim'.n \in Nat /\ claim'.n >= 1
            <4>1. claim'.n \in Nat
                BY <1>1, <1>3 DEF ClaimedNow
            <4> QED
                BY <1>7, <4>1 DEF WindowKept
        <3> QED
            BY <1>1, <1>2, <2>1, <3>1, SMTT(30) DEF WindowOpens, GrantedHere, Lesser
    <2>3. /\ claim'.at <= now /\ claim'.at \in Int
          /\ w > M => claim'.at - recov'[w - M] > Window
        <3>1. claim'.at \in Int
            BY <1>1, <1>3 DEF ClaimedNow
        <3> QED
            BY <1>7, <3>1 DEF WindowKept
    <2> HIDE DEF w
    <2>4. ASSUME NEW i \in 1..(L + 1), i + 2 * M - 1 \in 1..(L + 1)
          PROVE  recov'[i + 2 * M - 1] - recov'[i] > Window
        <3>1. CASE i + 2 * M - 1 = L + 1
            <4>1. w - M \in 1..(L + 1) /\ i <= w - M
                <5> HIDE DEF L, M
                <5> QED
                    BY <1>n, <2>2, <2>4, <3>1
            <4>2. recov'[i] <= recov'[w - M] /\ recov'[w - M] \in Nat /\ recov'[i] \in Nat
                BY <2>1, <2>4, <4>1 DEF InOrder
            <4>3. w > M
                BY <1>1, <1>2, <2>2, <4>1
            <4> QED
                <5> HIDE DEF L, M
                <5>1. recov'[i + 2 * M - 1] = now
                    BY <2>1, <3>1
                <5>2. claim'.at - recov'[w - M] > Window
                    BY <2>3, <4>3
                <5> QED
                    BY <1>n, <2>3, <4>2, <5>1, <5>2
        <3>2. CASE i + 2 * M - 1 # L + 1
            <4>1. i \in 1..L /\ i + 2 * M - 1 \in 1..L
                BY <1>1, <1>2, <2>4, <3>2, SMTT(30)
            <4>2. recov[i + 2 * M - 1] - recov[i] > Window
                BY <1>1, <1>5, <4>1 DEF RecoveriesBounded
            <4> QED
                BY <2>1, <4>1, <4>2
        <3> QED
            BY <3>1, <3>2
    <2>5. DOMAIN recov' = 1..(L + 1)
        BY <2>1
    <2> QED
        BY <2>4, <2>5 DEF RecoveriesBounded
<1>8. CASE claim.at = None \/ now - claim.at > Window
    <2>1. claim' = [at |-> now, n |-> 1] /\ recov' = Append(recov, now)
        BY <1>2, <1>3, <1>8 DEF ClaimedNow
    <2>2. /\ recov' \in Seq(Nat) /\ Len(recov') = L + 1 /\ recov'[L + 1] = now
          /\ \A i \in 1..L : recov'[i] = recov[i]
          /\ InOrder'
        BY <1>6, <2>1
    <2>3. WindowOpens' = L + 1
        BY <1>1, <1>2, <2>1, <2>2 DEF WindowOpens, GrantedHere, Lesser
    <2>4. ASSUME L + 1 > M
          PROVE  now - recov'[L + 1 - M] > Window
        <3>1. L >= 1
            BY <1>1, <1>2, <2>4
        <3>2. claim.at # None
            <4>1. recov # <<>>
                BY <1>1, <3>1
            <4> QED
                BY <4>1 DEF Budget
        <3>3. /\ WindowOpens \in 1..L /\ L + 1 - M <= WindowOpens /\ recov[WindowOpens] = claim.at
            <4>1. WindowKept
                BY <1>4, <3>2
            <4>2. GrantedHere \in Nat /\ GrantedHere >= 1 /\ GrantedHere <= M
                BY <1>1, <1>2, <4>1 DEF GrantedHere, Lesser, WindowKept
            <4> QED
                <5> DEFINE g == GrantedHere
                <5>1. WindowOpens = L - g + 1 /\ WindowOpens >= 1 /\ recov[WindowOpens] = claim.at
                    BY <4>1 DEF WindowOpens, WindowKept
                <5>2. g \in Nat /\ g >= 1 /\ g <= M
                    BY <4>2
                <5> HIDE DEF g, L, M
                <5> QED
                    BY <1>n, <5>1, <5>2
        <3>4. L + 1 - M \in 1..L
            BY <1>1, <1>2, <2>4
        <3>5. recov[L + 1 - M] <= claim.at /\ recov[L + 1 - M] \in Nat
            BY <1>1, <1>5, <3>3, <3>4 DEF InOrder
        <3> QED
            <4>1. recov'[L + 1 - M] = recov[L + 1 - M]
                BY <2>2, <3>4
            <4>2. now - claim.at > Window /\ claim.at \in Int
                BY <1>1, <1>8, <3>2
            <4> DEFINE r == recov[L + 1 - M]
            <4> HIDE DEF r, L, M
            <4> QED
                BY <1>n, <3>5, <4>1, <4>2 DEF r
    <2>5. WindowKept'
        <3>1. claim'.at = now /\ claim'.n = 1
            BY <2>1
        <3>2. recov'[WindowOpens'] = now /\ WindowOpens' >= 1
            BY <1>n, <2>2, <2>3
        <3>3. WindowOpens' > M => now - recov'[WindowOpens' - M] > Window
            <4> DEFINE w == WindowOpens'
            <4>1. w = L + 1
                BY <2>3
            <4>t. L + 1 > M => now - recov'[L + 1 - M] > Window
                BY <2>4
            <4> HIDE DEF w, L, M
            <4>2. w > M => now - recov'[w - M] > Window
                <5>1. SUFFICES ASSUME w > M PROVE now - recov'[w - M] > Window
                    OBVIOUS
                <5>2. w - M = L + 1 - M /\ L + 1 > M
                    BY <1>n, <4>1, <5>1
                <5> QED
                    BY <4>t, <5>2
            <4> QED
                BY <4>2 DEF w
        <3> QED
            BY <1>n, <3>1, <3>2, <3>3 DEF WindowKept
    <2>6. claim'.at # None
        BY <1>1, <2>1 DEF None
    <2> QED
        BY <1>7, <2>1, <2>2, <2>5, <2>6 DEF Budget
<1>9. CASE ~(claim.at = None \/ now - claim.at > Window)
    <2>1. claim'.at = claim.at /\ claim'.n = claim.n + 1 /\ ClaimedNow.n = claim.n + 1
        BY <1>1, <1>3, <1>9 DEF ClaimedNow
    <2>2. WindowKept
        BY <1>4, <1>9
    <2>3. CASE claim.n + 1 <= M
        <3>1. recov' = Append(recov, now)
            BY <1>3, <2>1, <2>3
        <3>2. /\ recov' \in Seq(Nat) /\ Len(recov') = L + 1
              /\ \A i \in 1..L : recov'[i] = recov[i]
              /\ InOrder'
            BY <1>6, <3>1
        <3>3. WindowOpens' = WindowOpens /\ WindowOpens \in 1..L
            <4>1. GrantedHere = claim.n /\ GrantedHere' = claim.n + 1 /\ claim.n >= 1
                <5>1. claim.n < M /\ claim.n >= 1
                    BY <1>1, <1>n, <2>2, <2>3 DEF WindowKept
                <5>2. claim.n + 1 < M \/ claim.n + 1 = M
                    BY <1>1, <1>n, <2>3
                <5> QED
                    BY <2>1, <5>1, <5>2 DEF GrantedHere, Lesser
            <4>2. WindowOpens = L - claim.n + 1 /\ WindowOpens' = L + 1 - (claim.n + 1) + 1 /\ WindowOpens >= 1
                <5>1. WindowOpens = L - claim.n + 1 /\ WindowOpens >= 1
                    BY <2>2, <4>1 DEF WindowOpens, WindowKept
                <5>2. WindowOpens' = Len(recov') - GrantedHere' + 1
                    BY Zenon DEF WindowOpens
                <5> QED
                    BY <3>2, <4>1, <5>1, <5>2
            <4> HIDE DEF L, M
            <4> QED
                BY <1>1, <1>n, <4>1, <4>2
        <3>4. WindowKept'
            <4>1. claim'.n >= 1 /\ WindowOpens' >= 1 /\ claim'.at <= now' /\ recov'[WindowOpens'] = claim'.at
                BY <1>1, <2>1, <2>2, <3>2, <3>3 DEF WindowKept
            <4>2. WindowOpens > M => WindowOpens - M \in 1..L
                BY <1>1, <1>2, <3>3
            <4>3. WindowOpens > M => claim.at - recov[WindowOpens - M] > Window
                BY <2>2 DEF WindowKept
            <4> QED
                BY <2>1, <3>2, <3>3, <4>1, <4>2, <4>3 DEF WindowKept
        <3> QED
            BY <1>7, <1>9, <2>1, <3>1, <3>2, <3>4 DEF Budget
    <2>4. CASE ~(claim.n + 1 <= M)
        <3>1. recov' = recov
            BY <1>3, <2>1, <2>4
        <3>2. WindowOpens' = WindowOpens
            BY <1>1, <1>2, <2>1, <2>4, <3>1 DEF WindowOpens, GrantedHere, Lesser
        <3>3. WindowKept'
            BY <1>1, <2>1, <2>2, <3>1, <3>2 DEF WindowKept
        <3>4. InOrder' /\ RecoveriesBounded'
            BY <1>5, <3>1 DEF InOrder, RecoveriesBounded
        <3> QED
            BY <1>9, <2>1, <3>3, <3>4 DEF Budget
    <2> QED
        BY <2>3, <2>4
<1> QED
    BY <1>8, <1>9

\* Stale packets are forgiven at a bounded rate: an interval of the length of
\* the window holds fewer than twice the budget, at whatever moments packets
\* turn out stale and gaps are forgiven (_claim_uplink_freshness_recovery).
THEOREM RecoveryRate == Spec => []RecoveriesBounded
<1>1. Init => Budget
    <2>1. SUFFICES ASSUME Init PROVE Budget
        OBVIOUS
    <2>2. recov = <<>> /\ claim = [at |-> None, n |-> 0]
        BY <2>1 DEF Init, PortInit
    <2> QED
        BY <2>2 DEF Budget, InOrder, RecoveriesBounded
<1>2. SystemOK /\ Budget /\ [Next]_vars => Budget'
    <2>1. SUFFICES ASSUME SystemOK, Budget, [Next]_vars PROVE Budget'
        OBVIOUS
    <2>2. (PortStep \/ PortShut) /\ SystemOK'
        BY <2>1, StepOK DEF Kept
    <2>3. PortTypeOK /\ now \in Nat /\ now' \in Nat
        BY <2>1, <2>2 DEF SystemOK, PortOK, PortTypeOK
    <2>4. \/ now' = now /\ ClaimRecovery
          \/ now' >= now /\ UNCHANGED <<claim, recov>>
        BY <2>2, <2>3 DEF PortStep, PortShut
    <2> QED
        BY <2>1, <2>3, <2>4, BudgetKept, BudgetClaimed
<1>3. Budget => RecoveriesBounded
    BY DEF Budget
<1> QED
    BY <1>1, <1>2, <1>3, SystemSound, PTL DEF Spec

\* The input loop moves by itself, but for its start and its end.
LEMMA InputMoves ==
    ASSUME [Next]_vars
    PROVE  inp' = inp \/ InputLoop \/ StartTasks \/ CancelTasks
<1>1. CASE Reader
    BY <1>1 DEF Reader, ReadMedia, ReceiveAudio, ReaderResumes, ReaderGivesUp, PutReturns, PutAbandoned
<1>2. CASE Connection
    <2>1. CASE CloseBinding \/ CloseUdp
        BY <2>1 DEF CloseBinding, CloseUdp, ClosePort
    <2> QED
        BY <1>2, <2>1 DEF Connection, ProbeReady, ProbeTimeout, ChildFailed, SessionEnds, Closing, portVars
<1>3. CASE UdpPath
    <2>1. CASE Take
        BY <2>1 DEF Take, portVars
    <2>2. ASSUME NEW o, Drain(o) PROVE inp' = inp
        BY <2>2 DEF Drain, Pop, Finish, Deliver, ReceiveAudio, portVars
    <2>3. ASSUME NEW o, Unblocked(o) \/ BlockedTooLong(o) PROVE inp' = inp
        BY <2>3 DEF Unblocked, BlockedTooLong, PutReturns, PutAbandoned
    <2>4. ASSUME NEW x, GapExpires(x) PROVE inp' = inp
        BY <2>4 DEF GapExpires, portVars
    <2>5. CASE Expire \/ TransportLost \/ GatewayClose
        BY <2>5 DEF Expire, TransportLost, GatewayClose, portVars
    <2>6. ASSUME NEW n, NEW src, Arrive(n, src) PROVE inp' = inp
        BY <2>6 DEF Arrive, portVars
    <2> QED
        BY <1>3, <2>1, <2>2, <2>3, <2>4, <2>5, <2>6 DEF UdpPath, WorkerStep, TimerStep
<1> QED
    BY <1>1, <1>2, <1>3 DEF Next, Tick, Send, Input, Put, PutLands, Stopped, vars, portVars

\* run starts its tasks once.
NotStarted == conn = "starting" => inp.pc = "off"

LEMMA NotStartedStep ==
    ASSUME NotStarted, [Next]_vars
    PROVE  NotStarted'
<1>1. SUFFICES ASSUME conn' = "starting" PROVE inp'.pc = "off"
    BY DEF NotStarted
<1>2. CASE Connection
    BY <1>1, <1>2 DEF Connection, StartTasks, ProbeReady, ProbeTimeout, ChildFailed, SessionEnds, Closing,
                      CancelTasks, CloseBinding, CloseUdp
<1>3. CASE ~Connection
    <2>1. conn' = conn
        BY <1>3 DEF Next, Tick, Send, Reader, ReadMedia, ReaderResumes, ReaderGivesUp, Input, Put, UdpPath,
                    Stopped, vars, connVars
    <2>2. inp.pc = "off"
        BY <1>1, <2>1 DEF NotStarted
    <2>3. ~InputLoop
        BY <2>2 DEF InputLoop, GetAudio, Decoded, InvalidOpus, FramePushed, PushFailed
    <2> QED
        BY <1>3, <2>2, <2>3, InputMoves DEF Connection
<1> QED
    BY <1>2, <1>3

\* A frame is pushed only while its packet is younger than MaxAge, by its
\* arrival and by its timeline (_remaining_uplink_budget): every packet on its
\* way to the agent has a deadline within MaxAge of both.
THEOREM PushedFresh == Spec => FreshAtPush
<1> DEFINE Fresher == inp.pc = "push" /\ inp'.pc # "failed" /\ inp'.pc # "gone" /\ inp' # inp =>
                        now - inp.item.rcv < MaxAge /\ now - inp.item.exp < MaxAge
<1>1. Init => NotStarted
    BY DEF Init, PortInit, NotStarted
<1>2. NotStarted /\ [Next]_vars => NotStarted'
    BY NotStartedStep
<1>3. SystemOK /\ NotStarted /\ [Next]_vars => [Fresher]_vars
    <2>1. SUFFICES ASSUME SystemOK, NotStarted, [Next]_vars,
                          inp.pc = "push", inp'.pc # "failed", inp'.pc # "gone", inp' # inp
                   PROVE  now - inp.item.rcv < MaxAge /\ now - inp.item.exp < MaxAge
        OBVIOUS
    <2>2. ~Stale(inp.item)
        <3>1. ~StartTasks /\ ~CancelTasks
            BY <2>1 DEF StartTasks, CancelTasks, NotStarted
        <3>2. InputLoop
            BY <2>1, <3>1, InputMoves
        <3>3. FramePushed \/ PushFailed
            BY <2>1, <3>2 DEF InputLoop, GetAudio, Decoded, InvalidOpus
        <3>4. Failed.pc = "failed"
            BY DEF Failed
        <3> QED
            BY <2>1, <3>3, <3>4 DEF FramePushed, PushFailed, GiveUp
    <2>3. inp.item \in Timely /\ now \in Nat /\ MaxAge \in Nat
        BY <2>1, PortParts, Limits DEF SystemOK, PortOK
    <2> QED
        BY <2>2, <2>3 DEF Stale, Timely, Item
<1> QED
    BY <1>1, <1>2, <1>3, SystemSound, PTL DEF Spec, FreshAtPush

----------------------------------------------------------------------------
(* The gap timer.                                                          *)

Undisturbed == task["worker"].pc # "gone" /\ ~fail /\ ~stalled

\* The one timer that sleeps is the one remembered, and between two
\* suspensions it is armed exactly while packets wait behind a gap.
Armed ==
    Undisturbed =>
        /\ us.ref # NoTimer => task[us.ref].pc = "sleep"
        /\ \A x \in Timers : task[x].pc = "sleep" => x = us.ref
        /\ \A o \in Tasks : task[o].pc # "blocked"
        /\ cpu = Idle => ((us.reorder = {}) <=> (us.ref = NoTimer))

\* Taking a datagram.
LEMMA ArmedTake ==
    ASSUME SystemOK, Armed, Take
    PROVE  Armed'
<1>0. SessionOK /\ us.ref \in Timers \cup {NoTimer}
    BY SessionParts DEF SystemOK, UsRec
<1>1. cpu = Idle /\ task["worker"].pc = "idle" /\ stalled' = stalled
    BY <1>0, HeadTaken
<1>2. CASE TakeIgnored(Head(uq))
    <2>1. SameBuffer /\ UNCHANGED <<task, cpu, fail>>
        BY <1>0, <1>2, TakeIgnoredOK
    <2> QED
        BY <1>1, <2>1 DEF Armed, Undisturbed, SameBuffer
<1>3. CASE TakeProbe(Head(uq))
    <2>1. /\ cpu' = cpu /\ us'.reorder = us.reorder /\ us'.ref = us.ref
          /\ UNCHANGED <<task, fail>> \/ fail' = TRUE
        BY <1>0, <1>3, TakeProbeOK
    <2> QED
        BY <1>1, <2>1 DEF Armed, Undisturbed
<1>4. CASE TakeMedia(Head(uq))
    <2>1. /\ cpu' = "worker" /\ fail' = fail
          /\ task'["worker"].pc \in {"drain", "deliver"}
          /\ \/ us'.ref = us.ref /\ \A x \in Timers : task'[x] = task[x]
             \/ /\ us'.ref = NoTimer
                /\ \A x \in Timers : task'[x] = task[x] \/ task'[x] = At("off")
                /\ us.ref # NoTimer => task'[us.ref] = At("off")
        BY <1>0, <1>4, TakeMediaOK
    <2>2. SUFFICES ASSUME Undisturbed' PROVE Armed'
        BY DEF Armed
    <2>3. /\ us.ref # NoTimer => task[us.ref].pc = "sleep"
          /\ \A x \in Timers : task[x].pc = "sleep" => x = us.ref
          /\ \A o \in Tasks : task[o].pc # "blocked"
        BY <1>1, <2>1, <2>2 DEF Armed, Undisturbed
    <2>4. At("off").pc = "off" /\ cpu' # Idle
        BY <2>1, AtTyped, Names
    <2>5. \A x \in Timers : task'[x].pc # "blocked"
        BY <2>1, <2>3, <2>4, Names
    <2>6. \A o \in Tasks : task'[o].pc # "blocked"
        BY <2>1, <2>5 DEF Tasks
    <2>7. /\ us'.ref # NoTimer => task'[us'.ref].pc = "sleep"
          /\ \A x \in Timers : task'[x].pc = "sleep" => x = us'.ref
        BY <1>0, <2>1, <2>3, <2>4
    <2> QED
        BY <2>4, <2>6, <2>7 DEF Armed
<1> QED
    BY <1>2, <1>3, <1>4 DEF Take

\* Draining the buffer.
LEMMA ArmedDrain ==
    ASSUME SystemOK, Armed, NEW o \in Tasks,
           Pop(o) \/ Deliver(o) \/ Finish(o) \/ Unblocked(o) \/ BlockedTooLong(o)
    PROVE  Armed'
<1>0. SessionOK /\ PortOK /\ us.ref \in Timers \cup {NoTimer} /\ Timers \subseteq Tasks /\ NoTimer \notin Timers
    BY SessionParts, Names DEF SystemOK, UsRec
<1>1. SUFFICES ASSUME Undisturbed' PROVE Armed'
    BY DEF Armed
<1>2. ASSUME Undisturbed
      PROVE  /\ us.ref # NoTimer => us.ref \in Tasks /\ task[us.ref].pc = "sleep"
             /\ \A x \in Timers : task[x].pc = "sleep" => x = us.ref
             /\ \A x \in Tasks : task[x].pc # "blocked"
    BY <1>0, <1>2 DEF Armed
\* A task that runs on, with its buffer and its timer as they were.
<1>3. ASSUME Undisturbed, us'.ref = us.ref, cpu' # Idle, task[o].pc # "sleep",
             task'[o].pc \in {"drain", "deliver"},
             \A x \in Tasks : x # o => task'[x] = task[x]
      PROVE  Armed'
    <2>1. us.ref # o
        BY <1>2, <1>3, Names
    <2>2. us.ref # NoTimer => task'[us.ref].pc = "sleep"
        BY <1>2, <1>3, <2>1
    <2>3. \A x \in Timers : task'[x].pc = "sleep" => x = us.ref
        BY <1>0, <1>2, <1>3
    <2>4. \A x \in Tasks : task'[x].pc # "blocked"
        BY <1>2, <1>3
    <2> QED
        BY <1>3, <2>2, <2>3, <2>4 DEF Armed
<1>4. CASE Pop(o)
    <2>1. /\ UNCHANGED <<cpu, fail, stalled>> /\ cpu = o /\ us'.ref = us.ref
          /\ task'[o].pc = "deliver" /\ \A x \in Tasks : x # o => task'[x] = task[x]
        BY <1>0, <1>4, PopOK
    <2>2. task[o].pc = "drain" /\ cpu' # Idle
        BY <1>4, <2>1, Names DEF Pop
    <2>3. Undisturbed
        BY <1>1, <2>1, <2>2, Names DEF Undisturbed
    <2> QED
        BY <1>3, <2>1, <2>2, <2>3
<1>5. CASE Deliver(o)
    <2>1. /\ us'.ref = us.ref /\ cpu = o /\ task[o].pc = "deliver"
          /\ \A x \in Tasks : x # o => task'[x] = task[x]
          /\ \/ task'[o].pc = "drain" /\ cpu' = cpu /\ fail' = fail /\ (stalled => stalled')
             \/ task'[o].pc # "deliver" /\ (fail' = TRUE \/ stalled' = TRUE)
        BY <1>0, <1>5, DeliverOK DEF SameBuffer
    <2>2. task'[o].pc = "drain" /\ cpu' = cpu /\ fail' = fail /\ (stalled => stalled')
        BY <1>1, <2>1 DEF Undisturbed
    <2>3. Undisturbed /\ cpu' # Idle
        BY <1>1, <2>1, <2>2, Names DEF Undisturbed
    <2> QED
        BY <1>3, <2>1, <2>2, <2>3
<1>6. CASE Finish(o)
    <2>1. /\ cpu = o /\ cpu' = Idle /\ task[o].pc = "drain" /\ stalled' = stalled /\ us'.reorder = us.reorder
          /\ fail' = fail \/ fail' = TRUE
          /\ o # "worker" => task'["worker"] = task["worker"]
        BY <1>0, <1>6, FinishOK
    <2>2. /\ \A x \in Tasks : task'[x].pc = "sleep" => (task[x].pc = "sleep" /\ x # o) \/ x = us'.ref
          /\ \A x \in Tasks : task'[x].pc = "blocked" => task[x].pc = "blocked"
        BY <1>0, <1>6, FinishOK
    <2>3. \/ us.reorder = {} /\ us.ref # NoTimer /\ us'.ref = NoTimer /\ task'[us.ref].pc = "off"
          \/ us.reorder # {} /\ us.ref = NoTimer /\ us'.ref \in Timers /\ task'[us'.ref].pc = "sleep"
          \/ /\ (us.reorder = {}) <=> (us.ref = NoTimer)
             /\ us'.ref = us.ref /\ \A x \in Tasks : x # o => task'[x] = task[x]
        BY <1>0, <1>6, FinishOK
    <2>4. Undisturbed
        BY <1>1, <2>1 DEF Undisturbed
    <2>5. /\ us.ref # NoTimer => us.ref \in Tasks /\ task[us.ref].pc = "sleep"
          /\ \A x \in Timers : task[x].pc = "sleep" => x = us.ref
          /\ \A x \in Tasks : task[x].pc # "blocked"
        BY <1>2, <2>4
    <2>6. \A x \in Tasks : task'[x].pc # "blocked"
        BY <2>2, <2>5
    <2>7. (us'.reorder = {}) <=> (us'.ref = NoTimer)
        BY <1>0, <2>1, <2>3
    <2>8. us'.ref # NoTimer => task'[us'.ref].pc = "sleep"
        BY <2>1, <2>3, <2>5
    <2>9. \A x \in Timers : task'[x].pc = "sleep" => x = us'.ref
        BY <1>0, <2>2, <2>3, <2>5
    <2> QED
        BY <2>6, <2>7, <2>8, <2>9 DEF Armed
<1>7. CASE Unblocked(o)
    <2>1. /\ task[o].pc = "blocked" /\ (\A x \in Tasks : x # o => task'[x] = task[x]) /\ UNCHANGED <<fail, stalled>>
        BY <1>0, <1>7, UnblockedOK
    <2>2. Undisturbed
        BY <1>1, <2>1, Names DEF Undisturbed
    <2> QED
        BY <1>2, <2>1, <2>2
<1>8. CASE BlockedTooLong(o)
    <2>1. fail' = TRUE
        BY <1>0, <1>8, BlockedTooLongOK
    <2> QED
        BY <1>1, <2>1 DEF Undisturbed
<1> QED
    BY <1>4, <1>5, <1>6, <1>7, <1>8

\* A timer that wakes up undisturbed is the one armed and finds packets to give up.
LEMMA ArmedExpires ==
    ASSUME SystemOK, Armed, NEW x \in Timers, GapExpires(x)
    PROVE  Armed'
<1>0. SessionOK /\ ClosedIdle /\ Timers \subseteq Tasks /\ x # "worker" /\ x # NoTimer /\ "worker" \in Tasks /\ x # Idle
    BY SessionParts, Names DEF SystemOK, SessionOK
<1>1. /\ cpu = Idle /\ task[x].pc = "sleep" /\ UNCHANGED <<fail, stalled>>
      /\ us'.reorder = us.reorder /\ (\A o \in Tasks : o # x => task'[o] = task[o])
      /\ \/ (us.closed \/ us.reorder = {}) /\ us'.ref = us.ref /\ task'[x].pc = "off" /\ cpu' = Idle
         \/ us.reorder # {} /\ us'.ref = NoTimer /\ task'[x].pc = "drain" /\ cpu' = x
    BY <1>0, GapExpiresOK
<1>2. SUFFICES ASSUME Undisturbed' PROVE Armed'
    BY DEF Armed
<1>3. Undisturbed
    BY <1>0, <1>1, <1>2 DEF Undisturbed
<1>4. /\ \A o \in Timers : task[o].pc = "sleep" => o = us.ref
      /\ \A o \in Tasks : task[o].pc # "blocked"
      /\ (us.reorder = {}) <=> (us.ref = NoTimer)
    BY <1>1, <1>3 DEF Armed
<1>5. us.ref = x /\ us.reorder # {}
    BY <1>0, <1>1, <1>4
<1>6. ~us.closed
    BY <1>0, <1>3 DEF ClosedIdle, Undisturbed
<1>7. us'.ref = NoTimer /\ task'[x].pc = "drain" /\ cpu' # Idle
    BY <1>0, <1>1, <1>5, <1>6
<1>8. \A o \in Timers : task'[o].pc # "sleep"
    BY <1>0, <1>1, <1>4, <1>5, <1>7
<1>9. \A o \in Tasks : task'[o].pc # "blocked"
    BY <1>1, <1>4, <1>7
<1> QED
    BY <1>7, <1>8, <1>9 DEF Armed

\* A gap never waits without an end as long as no delivery had to wait for room
\* and nothing failed: whichever task drained the buffer last, packets left
\* behind a gap have a sleeping timer (_drain_reorder, _expire_reorder_gap,
\* _resync_media_cursor).
THEOREM GapsAreTimed == Spec => []GapTimerArmed
<1>1. Init => Armed
    <2>1. SUFFICES ASSUME Init PROVE Armed
        OBVIOUS
    <2>2. /\ us.reorder = {} /\ us.ref = NoTimer
          /\ task = [o \in Tasks |-> At(IF o = "worker" THEN "idle" ELSE "off")]
        BY <2>1 DEF Init, UdpInit
    <2>3. \A o \in Tasks : task[o].pc \in {"idle", "off"}
        BY <2>2, AtTyped
    <2> QED
        BY <2>2, <2>3, Names DEF Armed
<1>2. SystemOK /\ Armed /\ [Next]_vars => Armed'
    <2>1. SUFFICES ASSUME SystemOK, Armed, [Next]_vars PROVE Armed'
        OBVIOUS
    <2>2. SessionStep
        BY <2>1, StepOK DEF Kept
    <2>3. CASE Quiet \/ Send \/ ReadMedia
        <3>1. UNCHANGED <<us, task, cpu, stalled>> /\ (fail' = fail \/ fail' = TRUE)
            BY <2>3 DEF Quiet, Send, ReadMedia
        <3> QED
            BY <2>1, <3>1 DEF Armed, Undisturbed
    <2>4. CASE Ending
        BY <2>4 DEF Ending, Armed, Undisturbed
    <2>5. CASE Media
        BY <2>1, <2>5, ArmedTake, ArmedDrain, ArmedExpires DEF Media
    <2> QED
        BY <2>2, <2>3, <2>4, <2>5 DEF SessionStep
<1>3. Armed => GapTimerArmed
    BY DEF Armed, Undisturbed, GapTimerArmed, GapWaits, TimerSleeps
<1> QED
    BY <1>1, <1>2, <1>3, SystemSound, PTL DEF Spec

----------------------------------------------------------------------------
(* At most once.                                                           *)

\* The replay window will not accept m again: it has seen it, or m is behind it.
Gone(m) == us.hi >= m /\ (m \in us.seen \/ us.hi - m >= ReplaySize)
NotTaken(m) == \A i \in DOMAIN log : log[i] # m

\* On UDP a packet is in one place at a time: in the reorder buffer, in the
\* hands of the task that delivers it, or taken, and the window knows it.
UdpOnce ==
    Udp => /\ \A i \in DOMAIN log : Gone(log[i])
           /\ \A m \in us.reorder : Gone(m) /\ NotTaken(m)
           /\ \A o \in Tasks : task[o].pc = "deliver" =>
                Gone(task[o].exp) /\ NotTaken(task[o].exp) /\ task[o].exp \notin us.reorder

\* On WSS packets are read one after the other.
WssOnce ==
    ~Udp => /\ \A i \in DOMAIN log : log[i] <= read
            /\ \A n \in DOMAIN sent : sent[n].kind = "audio"

Once == UdpOnce /\ WssOnce

\* The window never forgets.
LEMMA GoneKept ==
    ASSUME us \in UsRec, us' \in UsRec, NEW m \in Nat, Gone(m),
           (us'.hi = us.hi /\ us'.seen = us.seen) \/ \E n \in Nat : Advance(n)
    PROVE  Gone(m)'
<1>1. us.hi \in Int /\ us'.hi \in Int /\ ReplaySize \in Nat
    BY Names DEF UsRec
<1>2. CASE us'.hi = us.hi /\ us'.seen = us.seen
    BY <1>2 DEF Gone
<1>3. CASE \E n \in Nat : Advance(n)
    <2>1. /\ us'.hi >= us.hi
          /\ m \in us.seen /\ us'.hi - m < ReplaySize => m \in us'.seen
        BY <1>3 DEF Advance
    <2>2. us'.hi >= m
        BY <1>1, <2>1 DEF Gone
    <2>3. CASE us'.hi - m < ReplaySize
        <3>1. m \in us.seen
            BY <1>1, <2>1, <2>3 DEF Gone
        <3> QED
            BY <2>1, <2>2, <2>3, <3>1 DEF Gone
    <2>4. CASE ~(us'.hi - m < ReplaySize)
        BY <1>1, <2>2, <2>4 DEF Gone
    <2> QED
        BY <2>3, <2>4
<1> QED
    BY <1>2, <1>3

\* What the window accepts it has not seen.
LEMMA AcceptedNew ==
    ASSUME us \in UsRec, NEW n \in Nat, CanAccept(n)
    PROVE  ~Gone(n)
<1>1. us.hi \in Int /\ ReplaySize \in Nat
    BY Names DEF UsRec
<1> QED
    BY <1>1 DEF CanAccept, Gone, None

\* A step that adds nothing to the buffer and takes nothing out of it to deliver.
LEMMA OnceKept ==
    ASSUME SystemOK, SystemOK', UdpOnce, profile' = profile, log' = log,
           (us'.hi = us.hi /\ us'.seen = us.seen) \/ \E n \in Nat : Advance(n),
           us'.reorder \subseteq us.reorder,
           \A o \in Tasks : task'[o].pc = "deliver" => task[o].pc = "deliver" /\ task'[o].exp = task[o].exp
    PROVE  UdpOnce'
<1>1. /\ us \in UsRec /\ us' \in UsRec /\ log \in Seq(Nat) /\ us.reorder \in SUBSET Nat
      /\ \A o \in Tasks : task[o].exp \in Nat
    <2>1. us \in UsRec /\ us' \in UsRec /\ log \in Seq(Nat) /\ task \in [Tasks -> TaskRec]
        BY SessionParts DEF SystemOK, SessionOK, UdpTypeOK, UsRec
    <2> QED
        BY <2>1 DEF UsRec, TaskRec
<1>2. \A m \in Nat : Gone(m) => Gone(m)'
    BY <1>1, GoneKept
<1>3. \A m : NotTaken(m) => NotTaken(m)'
    BY DEF NotTaken
<1>4. SUFFICES ASSUME Udp' PROVE UdpOnce'
    BY DEF UdpOnce
<1>5. Udp
    BY <1>4 DEF Udp
<1>6. \A i \in DOMAIN log : log[i] \in Nat /\ Gone(log[i])
    BY <1>1, <1>5 DEF UdpOnce
<1>7. \A i \in DOMAIN log' : Gone(log[i])'
    BY <1>2, <1>6
<1>8. \A m \in us'.reorder : Gone(m)' /\ NotTaken(m)'
    BY <1>1, <1>2, <1>3, <1>5 DEF UdpOnce
<1>9. ASSUME NEW o \in Tasks, task'[o].pc = "deliver"
      PROVE  Gone(task[o].exp)' /\ NotTaken(task[o].exp)' /\ task'[o].exp \notin us'.reorder
    <2> DEFINE m == task[o].exp
    <2>1. m \in Nat /\ task'[o].exp = m /\ Gone(m) /\ NotTaken(m) /\ m \notin us.reorder
        BY <1>1, <1>5, <1>9 DEF UdpOnce
    <2>2. m \notin us'.reorder
        BY <2>1
    <2>3. us'.hi >= m /\ (m \in us'.seen \/ us'.hi - m >= ReplaySize)
        BY <1>1, <2>1, GoneKept DEF Gone
    <2>4. \A i \in DOMAIN log' : log'[i] # m
        BY <2>1 DEF NotTaken
    <2> HIDE DEF m
    <2> QED
        BY <2>1, <2>2, <2>3, <2>4 DEF Gone, NotTaken
<1>10. \A i \in DOMAIN log' : us'.hi >= log'[i] /\ (log'[i] \in us'.seen \/ us'.hi - log'[i] >= ReplaySize)
    BY <1>7 DEF Gone
<1> QED
    BY <1>8, <1>9, <1>10 DEF UdpOnce, Gone, NotTaken

\* A media datagram is accepted: it was neither buffered, nor in delivery, nor taken.
LEMMA OnceAccepted ==
    ASSUME SystemOK, SystemOK', UdpOnce, Take, TakeMedia(Head(uq)), profile' = profile
    PROVE  UdpOnce'
<1>n. PICK n : n = Head(uq).n
    OBVIOUS
<1>0. /\ SessionOK /\ us \in UsRec /\ us' \in UsRec /\ log \in Seq(Nat) /\ us.reorder \in SUBSET Nat
      /\ Running' /\ ReplaySize \in Nat
    BY SessionParts, Names DEF SystemOK, SessionOK, UdpTypeOK, UsRec
<1>1. /\ Advance(n) /\ CanAccept(n) /\ n \in 1..Len(sent) /\ cpu' = "worker"
      /\ \/ us'.reorder \subseteq us.reorder \cup {n} /\ task'["worker"].pc = "drain"
         \/ us'.reorder = us.reorder /\ task'["worker"].pc = "deliver" /\ task'["worker"].exp = n
    BY <1>0, <1>n, TakeMediaOK
<1>2. n \in Nat /\ log' = log
    <2>1. Head(uq).n \in 0..Len(sent) /\ log' = log /\ Len(sent) \in Nat
        BY <1>0, HeadTaken, SessionParts, SeqTyped
    <2> QED
        BY <1>n, <2>1
<1>3. SUFFICES ASSUME Udp' PROVE UdpOnce'
    BY DEF UdpOnce
<1>4. Udp
    BY <1>3 DEF Udp
<1>5. /\ \A i \in DOMAIN log : log[i] \in Nat /\ Gone(log[i])
      /\ \A m \in us.reorder : m \in Nat /\ Gone(m) /\ NotTaken(m)
    BY <1>0, <1>4 DEF UdpOnce
<1>6. ~Gone(n) /\ NotTaken(n) /\ n \notin us.reorder
    BY <1>0, <1>1, <1>2, <1>5, AcceptedNew DEF NotTaken
<1>7. \A m \in Nat : Gone(m) => Gone(m)'
    BY <1>0, <1>1, <1>2, GoneKept
<1>8. Gone(n)'
    <2>1. us'.hi \in Int /\ us'.hi >= n /\ (us'.hi - n < ReplaySize => n \in us'.seen)
        BY <1>0, <1>1, <1>2 DEF Advance, UsRec
    <2> QED
        BY <1>0, <1>2, <2>1 DEF Gone
<1>9. \A m : NotTaken(m) => NotTaken(m)'
    BY <1>2 DEF NotTaken
<1>10. \A m \in us'.reorder : Gone(m)' /\ NotTaken(m)'
    <2>1. \A m \in us'.reorder : m \in us.reorder \/ m = n
        BY <1>1
    <2> QED
        BY <1>5, <1>6, <1>7, <1>8, <1>9, <2>1
<1>11. \A i \in DOMAIN log' : us'.hi >= log'[i] /\ (log'[i] \in us'.seen \/ us'.hi - log'[i] >= ReplaySize)
    BY <1>2, <1>5, <1>7 DEF Gone
<1>12. ASSUME NEW o \in Tasks, task'[o].pc = "deliver"
       PROVE  Gone(task[o].exp)' /\ NotTaken(task[o].exp)' /\ task'[o].exp \notin us'.reorder
    <2>1. o = "worker"
        BY <1>0, <1>1, <1>12 DEF Running
    <2>2. us'.reorder = us.reorder /\ task'[o].exp = n
        BY <1>1, <1>12, <2>1
    <2>3. us'.hi >= n /\ (n \in us'.seen \/ us'.hi - n >= ReplaySize)
        BY <1>8 DEF Gone
    <2>4. \A i \in DOMAIN log' : log'[i] # n
        BY <1>2, <1>6 DEF NotTaken
    <2> QED
        BY <1>6, <2>2, <2>3, <2>4 DEF Gone, NotTaken
<1> QED
    BY <1>10, <1>11, <1>12 DEF UdpOnce, Gone, NotTaken

\* The expected packet leaves the buffer for the task that delivers it.
LEMMA OncePopped ==
    ASSUME SystemOK, SystemOK', UdpOnce, NEW o \in Tasks, Pop(o), profile' = profile
    PROVE  UdpOnce'
<1>n. PICK n : n = task[o].exp
    OBVIOUS
<1>0. SessionOK /\ Running'
    BY DEF SystemOK, SessionOK
<1>1. /\ cpu = o /\ cpu' = o /\ log' = log /\ us'.hi = us.hi /\ us'.seen = us.seen
      /\ n \in us.reorder /\ us'.reorder = us.reorder \ {n} /\ task'[o].pc = "deliver" /\ task'[o].exp = n
    BY <1>0, <1>n, PopOK
<1>2. SUFFICES ASSUME Udp' PROVE UdpOnce'
    BY DEF UdpOnce
<1>3. Udp
    BY <1>2 DEF Udp
<1>4. /\ \A i \in DOMAIN log : Gone(log[i])
      /\ \A m \in us.reorder : Gone(m) /\ NotTaken(m)
    BY <1>3 DEF UdpOnce
<1>5. \A m : (Gone(m) => Gone(m)') /\ (NotTaken(m) => NotTaken(m)')
    BY <1>1 DEF Gone, NotTaken
<1>6. \A i \in DOMAIN log' : us'.hi >= log'[i] /\ (log'[i] \in us'.seen \/ us'.hi - log'[i] >= ReplaySize)
    BY <1>1, <1>4 DEF Gone
<1>7. \A m \in us'.reorder : Gone(m)' /\ NotTaken(m)'
    BY <1>1, <1>4, <1>5
<1>8. ASSUME NEW x \in Tasks, task'[x].pc = "deliver"
      PROVE  Gone(task[x].exp)' /\ NotTaken(task[x].exp)' /\ task'[x].exp \notin us'.reorder
    <2>1. x = o /\ task'[x].exp = n
        BY <1>0, <1>1, <1>8 DEF Running
    <2>2. Gone(n)' /\ NotTaken(n)' /\ n \notin us'.reorder
        BY <1>1, <1>4, <1>5
    <2> QED
        BY <2>1, <2>2 DEF Gone, NotTaken
<1> QED
    BY <1>6, <1>7, <1>8 DEF UdpOnce, Gone, NotTaken

\* A packet is delivered: it was not taken before, and what is buffered is another.
LEMMA OnceDelivered ==
    ASSUME SystemOK, SystemOK', UdpOnce, NEW o \in Tasks, Deliver(o), profile' = profile
    PROVE  UdpOnce' /\ (Udp => NotTaken(task[o].exp))
<1> DEFINE n == task[o].exp
<1>0. SessionOK /\ PortOK /\ Running /\ log \in Seq(Nat)
    BY SessionParts DEF SystemOK, SessionOK
<1>1. /\ cpu = o /\ task[o].pc = "deliver" /\ us'.hi = us.hi /\ us'.seen = us.seen /\ us'.reorder = us.reorder
      /\ log' = log \/ log' = Append(log, n)
      /\ \A x \in Tasks : x # o => task'[x] = task[x]
      /\ task'[o].pc # "deliver"
    BY <1>0, DeliverOK DEF SameBuffer
<1> HIDE DEF n
<1>2. ASSUME Udp
      PROVE  NotTaken(n) /\ Gone(n) /\ n \notin us.reorder
    BY <1>1, <1>2 DEF UdpOnce, n
<1>3. ASSUME Udp'
      PROVE  UdpOnce'
    <2>1. Udp
        BY <1>3 DEF Udp
    <2>2. /\ \A i \in DOMAIN log : Gone(log[i])
          /\ \A m \in us.reorder : Gone(m) /\ NotTaken(m)
        BY <2>1 DEF UdpOnce
    <2>3. \A m : Gone(m) => us'.hi >= m /\ (m \in us'.seen \/ us'.hi - m >= ReplaySize)
        BY <1>1 DEF Gone
    <2>4. \A i \in DOMAIN log' : (i \in DOMAIN log /\ log'[i] = log[i]) \/ log'[i] = n
        <3>1. CASE log' = log
            BY <3>1
        <3>2. CASE log' = Append(log, n)
            BY <1>0, <3>2
        <3> QED
            BY <1>1, <3>1, <3>2
    <2>5. \A i \in DOMAIN log' : us'.hi >= log'[i] /\ (log'[i] \in us'.seen \/ us'.hi - log'[i] >= ReplaySize)
        BY <1>2, <2>1, <2>2, <2>3, <2>4
    <2>6. \A m \in us'.reorder : \A i \in DOMAIN log' : log'[i] # m
        BY <1>1, <1>2, <2>1, <2>2, <2>4 DEF NotTaken
    <2>7. \A x \in Tasks : task'[x].pc # "deliver"
        BY <1>0, <1>1 DEF Running
    <2> QED
        BY <1>1, <2>2, <2>3, <2>5, <2>6, <2>7 DEF UdpOnce, Gone, NotTaken
<1>4. UdpOnce'
    BY <1>3 DEF UdpOnce
<1> QED
    BY <1>2, <1>4 DEF n

\* Only the reader counts the packets it read.
LEMMA ReadMoves ==
    ASSUME [Next]_vars
    PROVE  read' = read \/ ReadMedia
<1>1. CASE Reader
    BY <1>1 DEF Reader, ReaderResumes, ReaderGivesUp
<1>2. CASE Connection
    BY <1>2 DEF Connection, StartTasks, ProbeReady, ProbeTimeout, ChildFailed, SessionEnds, Closing,
                CancelTasks, CloseBinding, CloseUdp
<1> QED
    BY <1>1, <1>2 DEF Next, Tick, Send, Input, Put, UdpPath, Stopped, vars, connVars

\* Sending adds one packet and, on WSS, only audio.
LEMMA SentGrows ==
    ASSUME SystemOK, Send, profile' = profile
    PROVE  /\ AudioOf(sent) \subseteq AudioOf(sent')
           /\ (~Udp /\ \A n \in DOMAIN sent : sent[n].kind = "audio") => \A n \in DOMAIN sent' : sent'[n].kind = "audio"
<1>1. sent \in Seq(SentRec) /\ Len(sent) \in Nat /\ SessionOK /\ PortOK
    BY SessionParts, SeqTyped DEF SystemOK
<1>2. /\ SessionOK' /\ Len(sent') = Len(sent) + 1
      /\ \A i \in 1..Len(sent) : sent'[i] = sent[i]
      /\ sent'[Len(sent) + 1].kind = "audio" \/ Udp
    BY <1>1, SendOK
<1>3. DOMAIN sent = 1..Len(sent)
    BY <1>1
<1>4. DOMAIN sent' = 1..(Len(sent) + 1)
    <2>1. sent' \in Seq(SentRec)
        BY <1>2 DEF SessionOK, UdpTypeOK, SentRec
    <2> QED
        BY <1>2, <2>1
<1>5. \A i \in 1..(Len(sent) + 1) : i \in 1..Len(sent) \/ i = Len(sent) + 1
    BY <1>1
<1>6. 1..Len(sent) \subseteq 1..(Len(sent) + 1)
    BY <1>1
<1> QED
    BY <1>2, <1>3, <1>4, <1>5, <1>6 DEF AudioOf

\* On WSS every packet is read once, after all before it.
LEMMA WssOnceStep ==
    ASSUME SystemOK, WssOnce, [Next]_vars
    PROVE  WssOnce' /\ (ReadMedia => NotTaken(read + 1) /\ read + 1 \in AudioOf(sent))
<1>0. Kept
    BY StepOK
<1>1. profile' = profile
    BY <1>0 DEF Kept, PortStep, PortShut
<1>2. /\ read \in Nat /\ log \in Seq(Nat) /\ \A i \in DOMAIN log : log[i] \in Nat
      /\ sent \in Seq(SentRec) /\ Len(sent) \in Nat
    BY SessionParts, SeqTyped DEF SystemOK, ConnOK
<1>3. CASE ReadMedia
    <2> DEFINE n == read + 1
    <2>1. ~Udp /\ read' = n /\ log' = Taken(n) /\ sent' = sent /\ read < Len(sent)
        BY <1>3 DEF ReadMedia
    <2>2. (\A i \in DOMAIN log : log[i] <= read) /\ \A m \in DOMAIN sent : sent[m].kind = "audio"
        BY <2>1 DEF WssOnce
    <2>3. NotTaken(n)
        BY <1>2, <2>2 DEF NotTaken
    <2>4. n \in AudioOf(sent)
        BY <1>2, <2>1, <2>2 DEF AudioOf
    <2>5. n \in Nat
        BY <1>2
    <2> HIDE DEF n
    <2>6. log' = log \/ log' = Append(log, n)
        BY <1>2, <2>1, <2>5, TakenOK
    <2>7. \A i \in DOMAIN log' : (i \in DOMAIN log /\ log'[i] = log[i]) \/ log'[i] = n
        <3>1. CASE log' = log
            BY <3>1
        <3>2. CASE log' = Append(log, n)
            BY <1>2, <3>2
        <3> QED
            BY <2>6, <3>1, <3>2
    <2>8. \A i \in DOMAIN log' : log'[i] <= n
        <3>1. \A i \in DOMAIN log : log[i] <= n
            BY <1>2, <2>2 DEF n
        <3> QED
            BY <2>5, <2>7, <3>1
    <2>9. WssOnce'
        BY <2>1, <2>2, <2>8 DEF WssOnce
    <2> QED
        BY <2>3, <2>4, <2>9 DEF n
<1>4. CASE ~ReadMedia
    <2>1. read' = read
        BY <1>4, ReadMoves
    <2>2. CASE Udp
        BY <1>1, <1>4, <2>2 DEF WssOnce, Udp
    <2>3. CASE ~Udp
        <3>1. (\A i \in DOMAIN log : log[i] <= read) /\ \A m \in DOMAIN sent : sent[m].kind = "audio"
            BY <2>3 DEF WssOnce
        <3>2. log' = log /\ \A m \in DOMAIN sent' : sent'[m].kind = "audio"
            <4>1. CASE Send
                BY <1>1, <2>3, <3>1, <4>1, SentGrows DEF Send
            <4>2. CASE Quiet \/ Ending
                BY <3>1, <4>2 DEF Quiet, Ending
            <4> QED
                BY <1>0, <1>4, <2>3, <4>1, <4>2 DEF Kept, SessionStep
        <3> QED
            BY <1>4, <2>1, <3>1, <3>2 DEF WssOnce
    <2> QED
        BY <2>2, <2>3
<1> QED
    BY <1>3, <1>4

\* On UDP the step is one of those above or leaves the buffer alone.
LEMMA UdpOnceStep ==
    ASSUME SystemOK, UdpOnce, [Next]_vars
    PROVE  UdpOnce'
<1>0. Kept /\ SystemOK'
    BY StepOK DEF Kept
<1>1. profile' = profile
    BY <1>0 DEF Kept, PortStep, PortShut
<1>2. SessionOK /\ PortOK /\ Running /\ Running'
    BY <1>0 DEF SystemOK, SessionOK
<1>3. CASE Quiet \/ Send
    <2>1. UNCHANGED <<us, task, log>>
        BY <1>3 DEF Quiet, Send
    <2> QED
        BY <1>0, <1>1, <2>1, OnceKept
<1>4. CASE ReadMedia
    BY <1>1, <1>4 DEF ReadMedia, UdpOnce, Udp
<1>5. CASE Ending
    <2>1. log' = log /\ us'.hi = us.hi /\ us'.seen = us.seen /\ us'.reorder = us.reorder /\ cpu' = Idle
        BY <1>5 DEF Ending
    <2>2. \A o \in Tasks : task'[o].pc # "deliver"
        BY <1>2, <2>1, Names DEF Running
    <2> QED
        BY <1>0, <1>1, <2>1, <2>2, OnceKept
<1>6. CASE Take
    <2>1. log' = log
        BY <1>6 DEF Take
    <2>2. CASE TakeIgnored(Head(uq))
        <3>1. SameBuffer /\ UNCHANGED <<task, cpu, fail>>
            BY <1>2, <1>6, <2>2, TakeIgnoredOK
        <3> QED
            BY <1>0, <1>1, <2>1, <3>1, OnceKept DEF SameBuffer
    <2>3. CASE TakeProbe(Head(uq))
        <3>1. Advance(0) /\ us'.reorder = us.reorder /\ cpu' = cpu /\ cpu = Idle
            BY <1>2, <1>6, <2>3, TakeProbeOK, HeadTaken
        <3>2. \A o \in Tasks : task'[o].pc # "deliver"
            BY <1>2, <3>1, Names DEF Running
        <3>3. \E n \in Nat : Advance(n)
            BY <3>1
        <3> QED
            BY <1>0, <1>1, <2>1, <3>1, <3>2, <3>3, OnceKept
    <2>4. CASE TakeMedia(Head(uq))
        BY <1>0, <1>1, <1>6, <2>4, OnceAccepted
    <2> QED
        BY <1>6, <2>2, <2>3, <2>4 DEF Take
<1>7. ASSUME NEW o \in Tasks, Finish(o) \/ Unblocked(o) \/ BlockedTooLong(o)
      PROVE  UdpOnce'
    <2>1. CASE Finish(o)
        <3>1. log' = log /\ us'.hi = us.hi /\ us'.seen = us.seen /\ us'.reorder = us.reorder /\ cpu' = Idle
            BY <1>2, <1>7, <2>1, FinishOK
        <3>2. \A x \in Tasks : task'[x].pc # "deliver"
            BY <1>2, <3>1, Names DEF Running
        <3> QED
            BY <1>0, <1>1, <3>1, <3>2, OnceKept
    <2>2. CASE Unblocked(o) \/ BlockedTooLong(o)
        <3>1. /\ SameBuffer /\ log' = log /\ task'[o].pc # "deliver"
              /\ \A x \in Tasks : x # o => task'[x] = task[x]
            BY <1>2, <1>7, <2>2, UnblockedOK, BlockedTooLongOK
        <3> QED
            BY <1>0, <1>1, <3>1, OnceKept DEF SameBuffer
    <2> QED
        BY <1>7, <2>1, <2>2
<1>8. ASSUME NEW x \in Timers, GapExpires(x)
      PROVE  UdpOnce'
    <2>1. /\ log' = log /\ us'.hi = us.hi /\ us'.seen = us.seen /\ us'.reorder = us.reorder
          /\ (\A o \in Tasks : o # x => task'[o] = task[o]) /\ task'[x].pc # "deliver"
        BY <1>2, <1>8, GapExpiresOK
    <2> QED
        BY <1>0, <1>1, <2>1, OnceKept
<1>9. ASSUME NEW o \in Tasks, Pop(o) \/ Deliver(o)
      PROVE  UdpOnce'
    BY <1>0, <1>1, <1>9, OncePopped, OnceDelivered
<1> QED
    BY <1>0, <1>3, <1>4, <1>5, <1>6, <1>7, <1>8, <1>9 DEF Kept, SessionStep, Media

\* The port closes, packets are sent, or one that was not taken before is taken.
LEMMA ChannelStep ==
    ASSUME SystemOK, Once, [Next]_vars
    PROVE  [Channel!Offer \/ Channel!DeliverOnce \/ Channel!Shut]_(Channel!chanVars)
<1> USE DEF Channel!Offer, Channel!DeliverOnce, Channel!Shut, Channel!chanVars
<1>0. Kept
    BY StepOK
<1>1. port.closed \in BOOLEAN /\ SessionOK /\ PortOK /\ read \in Nat /\ log \in Seq(Nat) /\ sent \in Seq(SentRec)
    BY PortParts, SessionParts DEF SystemOK, PortRec, ConnOK
<1>2. CASE PortShut
    <2>1. port'.closed = TRUE /\ sent' = sent /\ log' = log
        BY <1>2 DEF PortShut
    <2> QED
        BY <1>1, <2>1
<1>3. CASE PortStep
    <2>1. port'.closed = port.closed /\ profile' = profile
        BY <1>3 DEF PortStep
    <2>2. ASSUME sent' = sent, log' = log
          PROVE  UNCHANGED Channel!chanVars
        BY <2>1, <2>2
    <2>3. ASSUME NEW n, sent' = sent, log' = Append(log, n), ~port.closed, n \in AudioOf(sent), NotTaken(n)
          PROVE  Channel!DeliverOnce
        BY <1>1, <2>1, <2>3 DEF NotTaken
    <2>4. CASE Send
        <3>1. AudioOf(sent) \subseteq AudioOf(sent') /\ log' = log
            BY <2>1, <2>4, SentGrows DEF Send
        <3> QED
            BY <2>1, <3>1
    <2>5. CASE ReadMedia
        <3>1. NotTaken(read + 1) /\ read + 1 \in AudioOf(sent)
            BY <2>5, WssOnceStep DEF Once
        <3>2. sent' = sent /\ log' = Taken(read + 1) /\ read + 1 \in Nat
            BY <1>1, <2>5 DEF ReadMedia
        <3>3. log' = log \/ (log' = Append(log, read + 1) /\ ~port.closed)
            BY <1>1, <3>2, TakenOK
        <3> QED
            BY <2>2, <2>3, <3>1, <3>2, <3>3
    <2>6. CASE Udp /\ Media
        <3>1. ASSUME NEW o \in Tasks, Deliver(o)
              PROVE  Channel!DeliverOnce \/ UNCHANGED Channel!chanVars
            <4> DEFINE n == task[o].exp
            <4>1. /\ sent' = sent /\ task[o].pc = "deliver"
                  /\ log' = log \/ (log' = Append(log, n) /\ KindOf(n) = "audio" /\ ~port.closed)
                BY <1>1, <3>1, DeliverOK
            <4>2. NotTaken(n)
                BY <2>6, <3>1, <4>1 DEF Once, UdpOnce
            <4>3. n \in 1..Len(sent) /\ n # 0
                <5>1. n \in 1..Len(sent)
                    BY <1>1, <3>1, <4>1 DEF SessionOK, Running
                <5> QED
                    BY <5>1
            <4>4. KindOf(n) = "audio" => n \in AudioOf(sent)
                BY <1>1, <4>3 DEF KindOf, AudioOf
            <4> HIDE DEF n
            <4> QED
                BY <2>2, <2>3, <4>1, <4>2, <4>4
        <3>2. CASE ~\E o \in Tasks : Deliver(o)
            <4>1. sent' = sent /\ log' = log
                BY <2>6, <3>2 DEF Media, Take, Pop, Finish, Unblocked, BlockedTooLong, GapExpires
            <4> QED
                BY <2>2, <4>1
        <3> QED
            BY <3>1, <3>2
    <2>7. CASE Quiet \/ Ending
        BY <2>2, <2>7 DEF Quiet, Ending
    <2> QED
        BY <1>0, <2>4, <2>5, <2>6, <2>7 DEF Kept, SessionStep
<1> QED
    BY <1>0, <1>2, <1>3 DEF Kept

\* The whole uplink implements AudioChannel: each audio packet reaches
\* receive_audio at most once and none after the port closed, however datagrams
\* are repeated, reordered and dropped and whichever task delivers them (_handle,
\* _drain_reorder, _expire_reorder_gap, RvaWssConnection._reader_loop).
THEOREM DeliveredAtMostOnce == Spec => AtMostOnce
<1>1. Init => Once /\ Channel!ChanInit
    <2>1. SUFFICES ASSUME Init PROVE Once /\ Channel!ChanInit
        OBVIOUS
    <2>2. /\ log = <<>> /\ sent = <<>> /\ us.reorder = {} /\ port.closed = FALSE
          /\ task = [o \in Tasks |-> At(IF o = "worker" THEN "idle" ELSE "off")]
        BY <2>1 DEF Init, PortInit, UdpInit
    <2>3. \A o \in Tasks : task[o].pc # "deliver"
        BY <2>2, AtTyped
    <2>4. Once
        BY <2>2, <2>3 DEF Once, UdpOnce, WssOnce
    <2>5. Channel!ChanInit
        BY <2>2 DEF Channel!ChanInit, AudioOf
    <2> QED
        BY <2>4, <2>5
<1>2. SystemOK /\ Once /\ [Next]_vars => Once'
    BY UdpOnceStep, WssOnceStep DEF Once
<1>3. SystemOK /\ Once /\ [Next]_vars => [Channel!Offer \/ Channel!DeliverOnce \/ Channel!Shut]_(Channel!chanVars)
    BY ChannelStep
<1> QED
    BY <1>1, <1>2, <1>3, SystemSound, PTL DEF Spec, AtMostOnce, Channel!ChanSpec
============================================================================
