----------------------------- MODULE UdpSession -----------------------------
(***************************************************************************)
(* The udp-opus-gcm/1 media session of the worker                          *)
(* (transport/udp_gateway.py and udp_wire.py): a bounded datagram queue, a *)
(* worker that authenticates, de-duplicates and reorders datagrams, the    *)
(* tasks that give up on a gap, the grant's expiry, and the gateway's one  *)
(* socket.                                                                 *)
(*                                                                         *)
(* asyncio tasks share one thread: `cpu` is the task that is running and   *)
(* has not reached an await that suspends.  Delivering a packet suspends   *)
(* only on a full input queue, so the cursor, which moves after the        *)
(* delivery, can be read and moved by another task meanwhile.              *)
(*                                                                         *)
(* A datagram is a sequence number: 0 is the probe, n > 0 the nth of       *)
(* `sent`.  Datagrams of a conforming endpoint are well formed and         *)
(* authentic; others change nothing before the authentication they fail.   *)
(* The 250 ms spacing and the deadline of repeated probes are left to      *)
(* chance, their count is kept.                                            *)
(***************************************************************************)
EXTENDS UplinkPort

CONSTANTS
    Jitter,       \* UDP_JITTER_WINDOW_PACKETS
    ReplaySize,   \* UDP_REPLAY_WINDOW_PACKETS
    MaxJump,      \* UDP_MAX_SEQUENCE_FORWARD_JUMP
    UdpQueue,     \* udp queue_size
    Reacks,       \* acknowledgements a repeated probe may ask for
    Sources,      \* addresses a datagram may come from
    Timers        \* identities of _expire_reorder_gap tasks; bound: how many exist at a time

ASSUME SessionAssumption ==
    /\ {Jitter, ReplaySize, MaxJump, UdpQueue} \subseteq Nat \ {0} /\ Reacks \in Nat
    /\ {"worker", "reader", "none"} \cap Timers = {}

NoSource == "none"
NoTimer == "none"
Idle == "none"
Tasks == {"worker"} \cup Timers

VARIABLES
    sent,   \* what the endpoint sent: kind and timestamp by sequence number
    uq,     \* _queue of received datagrams
    us,     \* UdpMediaSession
    task,   \* the worker and the gap timers
    cpu,    \* the task that is running, or Idle
    gw,     \* the gateway's socket
    fail,   \* RvaWssConnection._failures holds the first error reported
    log,    \* history: packets receive_audio took, in order
    stalled \* history: a delivery had to wait for room

udpVars == <<sent, uq, us, task, cpu, gw, fail, log, stalled>>

KindOf(n) == IF n = 0 THEN "probe" ELSE sent[n].kind
Report == fail' = TRUE
\* receive_audio did not raise.
Taken(n) == IF Verdict(sent[n].ts) \in {"ok", "full"} THEN Append(log, n) ELSE log
At(pc) == [pc |-> pc, exp |-> 0, last |-> 0]

\* _send raises: the grant has expired or there is no socket.
SendFails == us.expired \/ gw # "up"

-----------------------------------------------------------------------------
(* ReplayWindow. *)

CanAccept(n) ==
    \/ us.hi = None
    \/ n > us.hi /\ n - us.hi <= MaxJump
    \/ n <= us.hi /\ us.hi - n < ReplaySize /\ n \notin us.seen
Contains(n) == us.hi # None /\ n <= us.hi /\ us.hi - n < ReplaySize /\ n \in us.seen
Committed(s, n) ==
    LET hi == IF n > s.hi THEN n ELSE s.hi
    IN [s EXCEPT !.hi = hi, !.seen = {m \in @ \cup {n} : hi - m < ReplaySize}]

-----------------------------------------------------------------------------
(* The gateway. *)

\* route_datagram and UdpMediaSession.enqueue: a full queue loses its oldest.
\* The network delivers any datagram, at any time, any number of times.
Arrive(n, src) ==
    /\ cpu = Idle /\ gw = "up" /\ us.registered /\ ~us.closed
    /\ n \in 0..Len(sent)
    /\ uq' = Append(IF Len(uq) = UdpQueue THEN Tail(uq) ELSE uq, [n |-> n, src |-> src])
    /\ UNCHANGED <<portVars, sent, us, task, cpu, gw, fail, log, stalled>>

\* connection_lost or transport_failed: every session is told.
TransportLost ==
    /\ cpu = Idle /\ gw = "up"
    /\ gw' = "failed"
    /\ IF us.registered THEN Report ELSE UNCHANGED fail
    /\ UNCHANGED <<portVars, sent, uq, us, task, cpu, log, stalled>>

\* What closing or expiring a session cancels: the worker and the timer it
\* remembers.  A timer that is delivering is no longer remembered.
Cancelled(t) ==
    [o \in Tasks |-> IF o = "worker" THEN At("gone") ELSE IF o = us.ref THEN At("off") ELSE t[o]]

\* UdpMediaSession.close, by the connection or by the gateway.
CloseSession ==
    IF us.closed THEN UNCHANGED <<us, task, puts, landed>>
    ELSE /\ us' = [us EXCEPT !.closed = TRUE, !.registered = FALSE]
         /\ task' = Cancelled(task)
         /\ puts' = Dropped("worker") /\ landed' = landed \ {"worker"}

GatewayClose ==
    /\ cpu = Idle /\ gw = "up"
    /\ gw' = "closed"
    /\ IF us.registered THEN CloseSession ELSE UNCHANGED <<us, task, puts, landed>>
    /\ UNCHANGED <<profile, now, port, claim, inp, recov, sent, uq, cpu, fail, log, stalled>>

Expire ==
    /\ cpu = Idle /\ ~us.closed /\ ~us.expired
    /\ us' = [us EXCEPT !.expired = TRUE, !.registered = FALSE]
    /\ task' = Cancelled(task)
    /\ puts' = Dropped("worker") /\ landed' = landed \ {"worker"}
    /\ Report
    /\ UNCHANGED <<profile, now, port, claim, inp, recov, sent, uq, cpu, gw, log, stalled>>

-----------------------------------------------------------------------------
(* The worker takes a datagram. *)

\* The datagram changes nothing: expired, replayed, out of window, from another
\* source, or media before the probe.  A repeated probe may be answered again.
Ignored(d) ==
    \/ us.expired
    \/ ~CanAccept(d.n)
    \/ us.src # NoSource /\ d.src # us.src
    \/ d.n # 0 /\ (~us.ready \/ d.n < us.cursor)
    \/ d.n # 0 /\ us.ready /\ d.n # us.cursor /\ d.n < us.cursor + Jitter /\ Cardinality(us.reorder) >= Jitter

RepeatedProbe(d) ==
    /\ ~us.expired /\ ~CanAccept(d.n) /\ Contains(d.n)
    /\ d.n = 0 /\ us.ready /\ us.src = d.src /\ us.reackOpen /\ us.reacks > 0

TakeIgnored(d) ==
    /\ Ignored(d)
    /\ us' \in {us} \cup (IF RepeatedProbe(d) /\ ~SendFails THEN {[us EXCEPT !.reacks = @ - 1]} ELSE {})
    /\ UNCHANGED <<task, cpu, fail>>

\* The first probe pins the source, is acknowledged and opens the path.  With
\* no socket, the acknowledgement raises and ends the worker.
TakeProbe(d) ==
    /\ ~Ignored(d) /\ d.n = 0
    /\ IF ~SendFails
         THEN /\ us' = [Committed(us, 0) EXCEPT !.src = d.src, !.cursor = 1, !.ready = TRUE,
                                                !.reackOpen = TRUE, !.reacks = Reacks]
              /\ UNCHANGED <<task, cpu, fail>>
         ELSE /\ us' = [Committed(us, 0) EXCEPT !.src = d.src]
              /\ task' = [task EXCEPT !["worker"] = At("gone")]
              /\ Report /\ UNCHANGED cpu

\* _resync_media_cursor
Resynced(n) ==
    IF n < us.cursor + Jitter THEN us
    ELSE [us EXCEPT !.reorder = {}, !.ref = NoTimer, !.cursor = n]
ResyncCancels(t) ==
    IF us.ref = NoTimer THEN t ELSE [t EXCEPT ![us.ref] = At("off")]

\* Media: committed to the replay window, then buffered, or, when the buffer is
\* full and this is the expected packet, delivered past it.
TakeMedia(d) ==
    /\ ~Ignored(d) /\ d.n # 0
    /\ LET resync == d.n >= us.cursor + Jitter
           s == [Committed(Resynced(d.n), d.n) EXCEPT !.reackOpen = FALSE]
           t == IF resync THEN ResyncCancels(task) ELSE task
           direct == Cardinality(s.reorder) >= Jitter
       IN /\ us' = IF direct THEN s ELSE [s EXCEPT !.reorder = @ \cup {d.n}]
          /\ task' = [t EXCEPT !["worker"] = [pc |-> IF direct THEN "deliver" ELSE "drain",
                                              exp |-> s.cursor, last |-> d.n]]
    /\ cpu' = "worker" /\ UNCHANGED fail

Take ==
    /\ cpu = Idle /\ task["worker"].pc = "idle" /\ uq # <<>>
    /\ uq' = Tail(uq)
    /\ TakeIgnored(Head(uq)) \/ TakeProbe(Head(uq)) \/ TakeMedia(Head(uq))
    /\ UNCHANGED <<portVars, sent, gw, log, stalled>>

-----------------------------------------------------------------------------
(* _drain_reorder, in the worker and in the timers. *)

\* The loop finds the expected packet and takes it out of the buffer.
Pop(o) ==
    /\ cpu = o /\ task[o].pc = "drain" /\ task[o].exp \in us.reorder
    /\ us' = [us EXCEPT !.reorder = @ \ {task[o].exp}]
    /\ task' = [task EXCEPT ![o].pc = "deliver"]
    /\ UNCHANGED <<portVars, sent, uq, cpu, gw, fail, log, stalled>>

\* The delivery is over: the task's own count becomes the cursor.
Moved(o) ==
    /\ us' = [us EXCEPT !.cursor = task[o].exp + 1]
    /\ task' = [task EXCEPT ![o].pc = "drain", ![o].exp = @ + 1]

\* An exception ends the task and is reported.
Ends(o) ==
    /\ task' = [task EXCEPT ![o] = At(IF o = "worker" THEN "gone" ELSE "off")]
    /\ Report /\ cpu' = Idle /\ UNCHANGED us

Deliver(o) ==
    /\ cpu = o /\ task[o].pc = "deliver"
    /\ LET n == task[o].exp IN
       IF KindOf(n) = "audio"
         THEN /\ ReceiveAudio(o, n, sent[n].ts)
              /\ log' = Taken(n)
              /\ stalled' = (stalled \/ Verdict(sent[n].ts) = "full")
              /\ CASE Verdict(sent[n].ts) = "ok" -> Moved(o) /\ UNCHANGED <<cpu, fail>>
                   [] Verdict(sent[n].ts) = "full" ->
                        task' = [task EXCEPT ![o].pc = "blocked"] /\ cpu' = Idle /\ UNCHANGED <<us, fail>>
                   [] OTHER -> Ends(o)
         ELSE Moved(o) /\ UNCHANGED <<portVars, cpu, fail, log, stalled>>
    /\ UNCHANGED <<sent, uq, gw>>

Unblocked(o) ==
    /\ cpu = Idle /\ o \in Tasks /\ task[o].pc = "blocked"
    /\ PutReturns(o) /\ Moved(o) /\ cpu' = o
    /\ UNCHANGED <<sent, uq, gw, fail, log, stalled>>

BlockedTooLong(o) ==
    /\ cpu = Idle /\ o \in Tasks /\ task[o].pc = "blocked" /\ Waiting(o) /\ ~port.closed
    /\ PutAbandoned(o) /\ Ends(o)
    /\ UNCHANGED <<sent, uq, gw, log, stalled>>

\* The loop is over: a timer is armed for what is left, or the one armed is
\* cancelled.  The worker then echoes a keepalive.
Finish(o) ==
    /\ cpu = o /\ task[o].pc = "drain" /\ task[o].exp \notin us.reorder
    /\ LET echoFails == o = "worker" /\ KindOf(task[o].last) = "keepalive" /\ SendFails
           t == [task EXCEPT ![o] = At(IF o # "worker" THEN "off" ELSE IF echoFails THEN "gone" ELSE "idle")]
       IN /\ \/ /\ us.reorder = {} /\ us.ref # NoTimer
                /\ task' = [t EXCEPT ![us.ref] = At("off")]
                /\ us' = [us EXCEPT !.ref = NoTimer]
             \/ /\ us.reorder # {} /\ us.ref = NoTimer
                /\ \E x \in Timers : t[x].pc = "off"
                /\ LET new == CHOOSE x \in Timers : t[x].pc = "off"
                   IN task' = [t EXCEPT ![new] = At("sleep")] /\ us' = [us EXCEPT !.ref = new]
             \/ (us.reorder = {}) = (us.ref = NoTimer) /\ task' = t /\ UNCHANGED us
          /\ IF echoFails THEN Report ELSE UNCHANGED fail
    /\ cpu' = Idle
    /\ UNCHANGED <<portVars, sent, uq, gw, log, stalled>>

GapExpiresStillArmed(x) ==
    /\ cpu = Idle /\ task[x].pc = "sleep"
    /\ IF us.closed \/ us.reorder = {}
         THEN task' = [task EXCEPT ![x] = At("off")] /\ UNCHANGED <<us, cpu>>
         ELSE LET first == CHOOSE n \in us.reorder : \A m \in us.reorder : n <= m
                  c == IF first > us.cursor THEN first ELSE us.cursor
              IN /\ us' = [us EXCEPT !.cursor = c]
                 /\ task' = [task EXCEPT ![x].pc = "drain", ![x].exp = c]
                 /\ cpu' = x
    /\ UNCHANGED <<portVars, sent, uq, gw, fail, log, stalled>>

\* _expire_reorder_gap wakes up: the gap is given up and the rest delivered.
GapExpires(x) ==
    /\ cpu = Idle /\ task[x].pc = "sleep"
    /\ IF us.closed \/ us.reorder = {}
         THEN task' = [task EXCEPT ![x] = At("off")] /\ UNCHANGED <<us, cpu>>
         ELSE LET first == CHOOSE n \in us.reorder : \A m \in us.reorder : n <= m
                  c == IF first > us.cursor THEN first ELSE us.cursor
              IN /\ us' = [us EXCEPT !.cursor = c, !.ref = NoTimer]
                 /\ task' = [task EXCEPT ![x].pc = "drain", ![x].exp = c]
                 /\ cpu' = x
    /\ UNCHANGED <<portVars, sent, uq, gw, fail, log, stalled>>

Drain(o) == Pop(o) \/ Deliver(o) \/ Finish(o)

-----------------------------------------------------------------------------
UdpTypeOK ==
    /\ sent \in Seq([kind : {"audio", "keepalive"}, ts : Nat])
    /\ uq \in Seq([n : Nat, src : Sources]) /\ Len(uq) <= UdpQueue
    /\ us \in [closed : BOOLEAN, expired : BOOLEAN, registered : BOOLEAN, src : Sources \cup {NoSource},
               ready : BOOLEAN, cursor : Nat, hi : Int, seen : SUBSET Nat, reorder : SUBSET Nat,
               ref : Timers \cup {NoTimer}, reackOpen : BOOLEAN, reacks : 0..Reacks]
    /\ Cardinality(us.reorder) <= Jitter
    /\ task \in [Tasks -> [pc : {"off", "gone", "idle", "sleep", "drain", "deliver", "blocked"},
                           exp : Nat, last : Nat]]
    /\ cpu \in Tasks \cup {Idle}
    /\ gw \in {"up", "failed", "closed"}
    /\ log \in Seq(Nat) /\ stalled \in BOOLEAN /\ fail \in BOOLEAN

UdpInit ==
    /\ sent = <<>> /\ uq = <<>>
    /\ us = [closed |-> FALSE, expired |-> FALSE, registered |-> TRUE, src |-> NoSource, ready |-> FALSE,
             cursor |-> 0, hi |-> None, seen |-> {}, reorder |-> {}, ref |-> NoTimer,
             reackOpen |-> FALSE, reacks |-> 0]
    /\ task = [o \in Tasks |-> At(IF o = "worker" THEN "idle" ELSE "off")]
    /\ cpu = Idle /\ gw = "up" /\ fail = FALSE /\ log = <<>> /\ stalled = FALSE
=============================================================================
