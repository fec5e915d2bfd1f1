---------------------------- MODULE UplinkSystem ----------------------------
(***************************************************************************)
(* The uplink of one session: the endpoint's packets, over the WebSocket   *)
(* or over UDP, the input queue, and the connection that starts and ends   *)
(* them (RvaWssConnection.run, close, bindings/rva/runtime.py).            *)
(***************************************************************************)
EXTENDS UdpSession

CONSTANTS
    MaxSent,      \* bound: packets the endpoint sends, by profile
    MaxClock,     \* bound: the clock, by profile
    MaxSkip,      \* bound: packets the endpoint leaves out in one gap, by profile
    Keepalives    \* the endpoint may send keepalives

ASSUME UplinkAssumption ==
    {MaxSent, MaxClock, MaxSkip} \subseteq [{"wss", "udp"} -> Nat] /\ Keepalives \in BOOLEAN

VARIABLES
    read,    \* packets the reader took from the WebSocket
    reader,  \* the reader task
    conn     \* where RvaWssConnection.run is

connVars == <<read, reader, conn>>
vars == <<portVars, udpVars, connVars>>

Live == reader \in {"off", "read", "blocked", "failed", "gone"}
    /\ conn \in {"starting", "probing", "open"}

-----------------------------------------------------------------------------
(* The environment: the clock and the endpoint. *)

Tick ==
    /\ cpu = Idle /\ now < MaxClock[profile] /\ conn = "open"
    /\ now' = now + 1
    /\ UNCHANGED <<profile, port, puts, landed, claim, inp, recov, udpVars, connVars>>

LastTs == IF sent = <<>> THEN 0 ELSE sent[Len(sent)].ts

\* The endpoint captures a packet every 60 ms and may leave some out.
Send ==
    /\ Len(sent) < MaxSent[profile] /\ conn = "open"
    /\ \/ \E skip \in 1..(1 + MaxSkip[profile]) :
            sent' = Append(sent, [kind |-> "audio", ts |-> (LastTs + skip) % TsMod])
       \/ /\ Keepalives /\ Udp
          /\ sent' = Append(sent, [kind |-> "keepalive", ts |-> LastTs])
    /\ UNCHANGED <<portVars, uq, us, task, cpu, gw, fail, log, stalled, connVars>>

-----------------------------------------------------------------------------
(* The reader: WSS media arrives in order and waits for the input queue. *)

ReadMedia ==
    /\ cpu = Idle /\ ~Udp /\ reader = "read" /\ read < Len(sent)
    /\ LET n == read + 1
           v == Verdict(sent[n].ts)
       IN /\ ReceiveAudio("reader", n, sent[n].ts)
          /\ reader' = IF v = "ok" THEN "read" ELSE IF v = "full" THEN "blocked" ELSE "failed"
          /\ read' = n /\ log' = Taken(n)
    /\ UNCHANGED <<sent, uq, us, task, cpu, gw, fail, stalled, conn>>

ReaderResumes ==
    /\ cpu = Idle /\ reader = "blocked"
    /\ PutReturns("reader") /\ reader' = "read"
    /\ UNCHANGED <<udpVars, read, conn>>

ReaderGivesUp ==
    /\ cpu = Idle /\ reader = "blocked" /\ Waiting("reader") /\ ~port.closed
    /\ PutAbandoned("reader") /\ reader' = "failed"
    /\ UNCHANGED <<udpVars, read, conn>>

Reader == ReadMedia \/ ReaderResumes \/ ReaderGivesUp

-----------------------------------------------------------------------------
(* The connection. *)

\* The runner has started: the tasks are created, and UDP waits for its probe.
StartTasks ==
    /\ cpu = Idle /\ conn = "starting"
    /\ inp' = [inp EXCEPT !.pc = "get"] /\ reader' = "read"
    /\ IF Udp
         THEN conn' = "probing" /\ UNCHANGED <<us, task, puts, landed>>
         ELSE conn' = "open" /\ CloseSession
    /\ UNCHANGED <<profile, now, port, claim, recov, sent, uq, cpu, gw, fail, log, stalled, read>>

\* wait_ready returns or times out.  Until then no failure is looked at.
ProbeReady ==
    /\ cpu = Idle /\ conn = "probing" /\ us.ready
    /\ conn' = "open"
    /\ UNCHANGED <<portVars, udpVars, read, reader>>

\* run leaves its try block; which close code it then sends is not kept.
Closing == conn' = "closing" /\ UNCHANGED <<portVars, udpVars, read, reader>>

ProbeTimeout == cpu = Idle /\ conn = "probing" /\ ~us.ready /\ Closing

\* A child task ended.
ChildFailed ==
    /\ cpu = Idle /\ conn = "open"
    /\ fail \/ inp.pc = "failed" \/ reader = "failed"
    /\ Closing

\* _idle_loop, a disconnect, a response sent over a path that is gone
\* (UdpMediaSession.send_audio), or the worker retires the session.
SessionEnds == cpu = Idle /\ Live /\ Closing

\* _close_impl: the tasks are cancelled, the binding closes its ports, the UDP
\* session is closed and the socket with it.
CancelTasks ==
    /\ cpu = Idle /\ conn = "closing"
    /\ inp' = [pc |-> "gone", item |-> NoItem, left |-> 0, bad |-> 0] /\ reader' = "gone"
    /\ puts' = Dropped("reader") /\ landed' = landed \ {"reader"}
    /\ conn' = "cancelled"
    /\ UNCHANGED <<profile, now, port, claim, recov, udpVars, read>>

CloseBinding ==
    /\ cpu = Idle /\ conn = "cancelled"
    /\ ClosePort /\ conn' = "unbound"
    /\ UNCHANGED <<udpVars, read, reader>>

CloseUdp ==
    /\ cpu = Idle /\ conn = "unbound"
    /\ CloseSession /\ conn' = "closed"
    /\ UNCHANGED <<profile, now, port, claim, inp, recov, sent, uq, cpu, gw, fail, log, stalled, read, reader>>

Connection ==
    \/ StartTasks \/ ProbeReady \/ ProbeTimeout \/ ChildFailed \/ SessionEnds
    \/ CancelTasks \/ CloseBinding \/ CloseUdp

-----------------------------------------------------------------------------
Input == cpu = Idle /\ InputLoop /\ UNCHANGED <<udpVars, connVars>>
Put == cpu = Idle /\ PutLands /\ UNCHANGED <<udpVars, connVars>>

WorkerStep == Take \/ Drain("worker") \/ Unblocked("worker")
TimerStep(x) == GapExpires(x) \/ Drain(x) \/ Unblocked(x)

\* A session on WSS has closed its UDP session when it starts.
UdpPath ==
    /\ Udp
    /\ \/ WorkerStep
       \/ \E x \in Timers : TimerStep(x)
       \/ \E o \in Tasks : BlockedTooLong(o)
       \/ Expire \/ TransportLost \/ GatewayClose
       \/ \E n \in 0..Len(sent), src \in Sources : Arrive(n, src)
    /\ UNCHANGED connVars

Stopped == conn = "closed" /\ cpu = Idle /\ UNCHANGED vars

Init == PortInit /\ UdpInit /\ read = 0 /\ reader = "off" /\ conn = "starting" 

Next == Tick \/ Send \/ Reader \/ Connection \/ Input \/ Put \/ UdpPath \/ Stopped

Spec == Init /\ [][Next]_vars

-----------------------------------------------------------------------------
(* Properties. *)

\* Types, and the bounds of the queues: a put that waits for room never lands in a
\* full input queue, and the datagram queue drops its oldest instead of growing
\* (receive_audio, UdpMediaSession.enqueue).
TypeOK ==
    /\ PortTypeOK /\ UdpTypeOK
    /\ puts \in Seq([o : Tasks \cup {"reader"}, item : Item]) /\ landed \subseteq Tasks \cup {"reader"}
    /\ read \in Nat /\ reader \in {"off", "read", "blocked", "failed", "gone"}
    /\ conn \in {"starting", "probing", "open", "closing", "cancelled", "unbound", "closed"}

AudioOf(s) == {n \in DOMAIN s : s[n].kind = "audio"}

Channel == INSTANCE AudioChannel WITH offered <- AudioOf(sent), delivered <- log, open <- ~port.closed

\* Each audio packet of the endpoint reaches receive_audio at most once, and
\* none after the port closed, however datagrams are repeated and reordered and
\* although the worker and the gap timers move the one cursor back and forth
\* around their suspensions (udp_gateway.py _handle, _drain_reorder).
AtMostOnce == Channel!ChanSpec

Newer(n) == First \/ Step(sent[n].ts) \in 1..(TsMod \div 2)
Offered(o) == cpu = o /\ task[o].pc = "deliver" /\ KindOf(task[o].exp) = "audio"

\* A datagram that comes after its gap was given up is dropped, and what reaches
\* receive_audio is newer than all before it (udp_gateway.py _handle).  It does not
\* hold: a worker that was suspended sets the cursor back.
LateDropped == conn = "open" => \A o \in Tasks : Offered(o) => Newer(task[o].exp)

\* The decoder meets packets in the order they were captured, on WSS always and
\* on UDP as long as no delivery had to wait for the input queue: the reorder
\* buffer, the timers and the jumps to the live edge keep the order.
DecodedInOrder ==
    [][inp.pc = "get" /\ inp'.pc = "decode" => inp'.item.id > inp.item.id \/ (Udp /\ stalled)]_vars

GapWaits == us.reorder # {} /\ cpu = Idle /\ task["worker"].pc # "gone" /\ ~fail
TimerSleeps == us.ref # NoTimer /\ task[us.ref].pc = "sleep"

\* A gap in the UDP sequence never waits without an end: while packets are
\* buffered behind it, no delivery had to wait for room and nothing failed, its
\* timer sleeps (_drain_reorder, _expire_reorder_gap, _resync_media_cursor).
GapTimerArmed == GapWaits /\ ~stalled => TimerSleeps

\* The wait for a gap is bounded, also when deliveries wait for room: the timer
\* sleeps or a delivery is under way that will arm it.  It does not hold: a timer
\* that wakes up to an empty buffer leaves itself remembered as the armed one.
GapWaitBounded ==
    GapWaits => TimerSleeps \/ \E o \in Tasks : task[o].pc = "blocked"

\* No frame enters the agent once its packet is MaxAge old, by its arrival, and,
\* by the timeline that the packet was judged by (_remaining_uplink_budget).
FreshAtPush ==
    [][inp.pc = "push" /\ inp'.pc # "failed" /\ inp'.pc # "gone" /\ inp' # inp =>
         now - inp.item.rcv < MaxAge /\ now - inp.item.exp < MaxAge]_vars

\* Stale packets are forgiven at a bounded rate: the window restarts with the
\* first recovery after it ended, so an interval of its length holds fewer than
\* twice the budget (_claim_uplink_freshness_recovery).
RecoveriesBounded ==
    \A i \in DOMAIN recov : i + 2 * MaxRecoveries - 1 \in DOMAIN recov =>
        recov[i + 2 * MaxRecoveries - 1] - recov[i] > Window
=============================================================================
