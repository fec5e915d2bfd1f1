----------------------------- MODULE UplinkPort -----------------------------
(***************************************************************************)
(* The server's audio input (bindings/rva/runtime.py): _AudioQueuePort,    *)
(* which judges the age of every uplink packet and queues it, and          *)
(* _input_loop, which decodes packets and pushes them into the agent.      *)
(*                                                                         *)
(* One unit of `now` and of a media timestamp is the 60 ms of one packet,  *)
(* so a conforming timestamp is always cadenced, a paced arrival is one    *)
(* exactly as late as its media, and the 5 ms phase correction and the 2 % *)
(* clock skew, both below the unit, are zero.  A packet is decoded into    *)
(* frames that are pushed one by one.                                      *)
(***************************************************************************)
EXTENDS Integers, Sequences, FiniteSets

CONSTANTS
    TsMod,           \* 2^32, the modulus of media timestamps
    MaxAgeOf,        \* uplink_max_age_seconds, by profile
    InCapOf,         \* input_queue_packets, by profile
    Window,          \* _UPLINK_STALE_RECOVERY_WINDOW_SECONDS
    MaxRecoveries,   \* _UPLINK_MAX_RECOVERABLE_STALE_DROPS
    PacedNeeded,     \* _WSS_CATCHUP_REQUIRED_PACED_INTERVALS
    RebaseAfter,     \* _TIMELINE_REBASE_SECONDS
    MaxInvalid,      \* max_consecutive_invalid_opus_packets
    Frames           \* frames of one packet

ASSUME PortAssumption ==
    /\ {MaxAgeOf, InCapOf} \subseteq [{"wss", "udp"} -> Nat \ {0}]
    /\ {TsMod, MaxRecoveries, PacedNeeded, RebaseAfter, MaxInvalid, Frames} \subseteq Nat \ {0}
    /\ Window \in Nat

None == -1

VARIABLES
    profile,  \* the selected media profile
    now,      \* the monotonic clock
    port,     \* _AudioQueuePort
    puts,     \* queue.put tasks waiting for room, oldest first
    landed,   \* callers whose put is done and who have not yet resumed
    claim,    \* _stale_recovery_window_started_at and _stale_recovery_count
    inp,      \* the input loop
    recov     \* history: when recoveries were granted

portVars == <<profile, now, port, puts, landed, claim, inp, recov>>

Udp == profile = "udp"
MaxAge == MaxAgeOf[profile]
InCap == InCapOf[profile]
Pending == Len(puts) + Cardinality(landed)      \* _pending_audio_puts
HasRoom == Len(port.queue) < InCap
Delta(a, b) == (a - b) % TsMod
Lesser(a, b) == IF a < b THEN a ELSE b

-----------------------------------------------------------------------------
(* The recovery budget. *)

ClaimedNow ==
    IF claim.at = None \/ now - claim.at > Window
      THEN [at |-> now, n |-> 1]
      ELSE [claim EXCEPT !.n = @ + 1]
GrantedAlways == TRUE

Granted == ClaimedNow.n <= MaxRecoveries

ClaimRecovery ==
    /\ claim' = ClaimedNow
    /\ recov' = IF Granted THEN Append(recov, now) ELSE recov

-----------------------------------------------------------------------------
(* What _receive_audio decides about a packet with timestamp ts.  The      *)
(* parts follow the order of the code; each takes the port the last left.  *)

Arrival == now - port.lastAt
Step(ts) == Delta(ts, port.lastTs)
First == port.lastTs = None

\* The packet is further ahead of its predecessor than the time between them allows.
Jump(ts) == ~First /\ Step(ts) - Arrival > MaxAge

\* The gap of an endpoint that dropped frames itself.
GapEligible(ts) ==
    Udp /\ Step(ts) < TsMod \div 2 /\ Step(ts) <= 2 * MaxAge /\ port.queue = <<>> /\ Pending = 0

Rejected(ts) == ~First /\ (Step(ts) = 0 \/ (Jump(ts) /\ ~(GapEligible(ts) /\ Granted)))

\* The first packet after a reset starts the timeline, whatever becomes of it.
Touched(ts) == IF port.origin = None THEN [port EXCEPT !.origin = ts, !.start = now] ELSE port
Anchored(ts) == IF Jump(ts) THEN [port EXCEPT !.origin = ts, !.start = now] ELSE Touched(ts)

CatchingUp == ~Udp /\ ~First /\ port.catch
PacedNow == IF port.dropped # 0 /\ Arrival = 1 THEN port.paced + 1 ELSE 0
StillCatchingUp == CatchingUp /\ PacedNow < PacedNeeded
CatchUpExhausted == port.dropped + 1 > 2 * MaxAge

CatchUpDrop(ts) ==
    [port EXCEPT !.lastTs = ts, !.lastAt = now, !.origin = None, !.start = 0,
                 !.dropped = @ + 1, !.paced = PacedNow]

\* WSS media may not outrun the clock: each packet owes what its arrival did not cover.
Debt == IF port.debt + 1 > Arrival THEN port.debt + 1 - Arrival ELSE 0
BurstExceeded == ~Udp /\ ~First /\ Debt > MaxAge

\* The timeline says when the packet is due; one too far ahead restarts it.
Judged(ts) ==
    LET p == Anchored(ts)
        ahead == p.start + Delta(ts, p.origin) - now > MaxAge
    IN [queue |-> port.queue, closed |-> port.closed,
        origin |-> IF ahead THEN ts ELSE p.origin, start |-> IF ahead THEN now ELSE p.start,
        lastTs |-> ts, lastAt |-> now, debt |-> IF Udp \/ First THEN port.debt ELSE Debt,
        catch |-> FALSE, dropped |-> 0, paced |-> 0]

QueuedByTimeline(id, ts) ==
    LET due == Judged(ts).start + Delta(ts, Judged(ts).origin)
    IN [id |-> id, ts |-> ts, rcv |-> now, exp |-> due, dl |-> due + MaxAge]

Queued(id, ts) ==
    LET p == Judged(ts)
        due == p.start + Delta(ts, p.origin)
    IN [id |-> id, ts |-> ts, rcv |-> now, exp |-> due, dl |-> Lesser(now, due) + MaxAge]

VerdictUnguarded(ts) ==
    IF Rejected(ts) THEN "invalid_media_timestamp" ELSE IF HasRoom THEN "ok" ELSE "full"

\* receive_audio or receive_udp_audio, called by task o.  verdict is what the
\* caller sees: "ok", "full" (it waits for room), or the error raised.
Verdict(ts) ==
    IF port.closed THEN "closed"
    ELSE IF Rejected(ts) THEN "invalid_media_timestamp"
    ELSE IF StillCatchingUp THEN IF CatchUpExhausted THEN "media_overloaded" ELSE "ok"
    ELSE IF BurstExceeded THEN "invalid_media_timestamp"
    ELSE IF HasRoom THEN "ok" ELSE "full"

ReceiveAudio(o, id, ts) ==
    /\ port' = IF port.closed THEN port
               ELSE IF Verdict(ts) = "invalid_media_timestamp" THEN Touched(ts)
               ELSE IF StillCatchingUp THEN CatchUpDrop(ts)
               ELSE IF HasRoom THEN [Judged(ts) EXCEPT !.queue = Append(@, Queued(id, ts))]
               ELSE Judged(ts)
    /\ puts' = IF Verdict(ts) = "full" THEN Append(puts, [o |-> o, item |-> Queued(id, ts)]) ELSE puts
    /\ IF ~port.closed /\ ~First /\ Step(ts) # 0 /\ Jump(ts) /\ GapEligible(ts)
         THEN ClaimRecovery
         ELSE UNCHANGED <<claim, recov>>
    /\ UNCHANGED <<profile, now, landed, inp>>

PutLandsUnchecked ==
    /\ puts # <<>> /\ ~port.closed
    /\ port' = [port EXCEPT !.queue = Append(@, Head(puts).item)]
    /\ puts' = Tail(puts)
    /\ landed' = landed \cup {Head(puts).o}
    /\ UNCHANGED <<profile, now, claim, inp, recov>>

\* A waiting put finds room.  A put_nowait may have come first: the queue wakes
\* the oldest waiter, it does not reserve the place.
PutLands ==
    /\ puts # <<>> /\ HasRoom /\ ~port.closed
    /\ port' = [port EXCEPT !.queue = Append(@, Head(puts).item)]
    /\ puts' = Tail(puts)
    /\ landed' = landed \cup {Head(puts).o}
    /\ UNCHANGED <<profile, now, claim, inp, recov>>

Waiting(o) == \E i \in DOMAIN puts : puts[i].o = o
\* A caller waits for one put at a time.
Dropped(o) ==
    LET mine == CHOOSE i \in DOMAIN puts : puts[i].o = o
    IN IF Waiting(o) THEN [i \in 1..(Len(puts) - 1) |-> puts[IF i < mine THEN i ELSE i + 1]] ELSE puts

\* The caller of a full queue resumes: its put is done, or the port has closed.
PutReturns(o) ==
    /\ o \in landed \/ (Waiting(o) /\ port.closed)
    /\ puts' = Dropped(o) /\ landed' = landed \ {o}
    /\ UNCHANGED <<profile, now, port, claim, inp, recov>>

\* The caller gives up (queue_timeout_seconds), or is cancelled.
PutAbandoned(o) ==
    /\ puts' = Dropped(o) /\ landed' = landed \ {o}
    /\ UNCHANGED <<profile, now, port, claim, inp, recov>>

ClosePort ==
    /\ port' = [port EXCEPT !.closed = TRUE, !.queue = <<>>]
    /\ UNCHANGED <<profile, now, puts, landed, claim, inp, recov>>

-----------------------------------------------------------------------------
(* The input loop. *)

Stale(item) == item.dl <= now

\* drop_stale_to_live_edge: of the current packet and the backlog only the
\* newest fresh one is kept, and it restarts the timeline.
Candidates(item, backlog) == <<item>> \o backlog
Fresh(item, backlog) ==
    {i \in DOMAIN Candidates(item, backlog) : ~Stale(Candidates(item, backlog)[i])}
LiveEdge(item, backlog) ==
    LET newest == CHOOSE i \in Fresh(item, backlog) : \A j \in Fresh(item, backlog) : j <= i
        e == Candidates(item, backlog)[newest]
    IN [e EXCEPT !.exp = e.rcv, !.dl = e.rcv + MaxAge]
IsolatedStale(item, backlog) ==
    /\ Cardinality(Fresh(item, backlog)) = Len(backlog)
    /\ Len(backlog) < InCap /\ Pending = 0
AtLiveEdgeUndrained(item, backlog) ==
    IF Fresh(item, backlog) # {}
      THEN [port EXCEPT !.queue = Append(backlog, LiveEdge(item, backlog))]
      ELSE [port EXCEPT !.queue = <<>>, !.origin = None, !.start = 0]

AtLiveEdge(item, backlog) ==
    IF Fresh(item, backlog) # {}
      THEN LET e == LiveEdge(item, backlog)
           IN [port EXCEPT !.queue = <<e>>, !.origin = e.ts, !.start = e.rcv]
      ELSE [port EXCEPT !.queue = <<>>, !.origin = None, !.start = 0]

CatchUpFrom(p) == [p EXCEPT !.catch = TRUE, !.dropped = 0, !.paced = 0, !.debt = 0]

\* The loop raises; run answers every error by closing.
Failed == [pc |-> "failed", item |-> inp.item, left |-> 0, bad |-> 0]

\* A packet found stale before it is decoded is skipped within the budget.
SkipStale(item, backlog) ==
    LET p == AtLiveEdge(item, backlog) IN
    IF IsolatedStale(item, backlog)
      THEN /\ ClaimRecovery
           /\ port' = IF Granted /\ ~Udp /\ Fresh(item, backlog) = {} THEN CatchUpFrom(p) ELSE p
           /\ inp' = IF Granted THEN inp ELSE Failed
      ELSE port' = p /\ inp' = Failed /\ UNCHANGED <<claim, recov>>

GetAudio ==
    /\ inp.pc = "get" /\ port.queue # <<>>
    /\ LET item == Head(port.queue) IN
       \/ /\ ~Stale(item)
          /\ port' = [port EXCEPT !.queue = Tail(@)]
          /\ inp' = [inp EXCEPT !.pc = "decode", !.item = item]
          /\ UNCHANGED <<claim, recov>>
       \/ Stale(item) /\ SkipStale(item, Tail(port.queue))
    /\ UNCHANGED <<profile, now, puts, landed>>

\* Stale once decoding has begun: no recovery.
GiveUp == port' = AtLiveEdge(inp.item, port.queue) /\ inp' = Failed

Decoded ==
    /\ inp.pc = "decode"
    /\ \/ ~Stale(inp.item) /\ inp' = [inp EXCEPT !.pc = "push", !.left = Frames, !.bad = 0] /\ UNCHANGED port
       \/ Stale(inp.item) /\ GiveUp
    /\ UNCHANGED <<profile, now, puts, landed, claim, recov>>

InvalidOpus ==
    /\ inp.pc = "decode"
    /\ inp' = IF inp.bad + 1 >= MaxInvalid THEN Failed
              ELSE [inp EXCEPT !.pc = "get", !.bad = @ + 1]
    /\ UNCHANGED <<profile, now, port, puts, landed, claim, recov>>

\* mark_consumed moves the origin of the arithmetic, not the phase.
Rebased ==
    IF port.origin # None /\ Delta(inp.item.ts, port.origin) >= RebaseAfter
      THEN [port EXCEPT !.origin = inp.item.ts, !.start = inp.item.exp] ELSE port

\* runner.push_audio returned within the packet's remaining budget.
FramePushed ==
    /\ inp.pc = "push"
    /\ \/ /\ ~Stale(inp.item)
          /\ inp' = IF inp.left = 1 THEN [inp EXCEPT !.pc = "get", !.left = 0] ELSE [inp EXCEPT !.left = @ - 1]
          /\ port' = IF inp.left = 1 THEN Rebased ELSE port
       \/ Stale(inp.item) /\ GiveUp
    /\ UNCHANGED <<profile, now, puts, landed, claim, recov>>

\* runner.push_audio raised: the agent's input is full, or the runner terminated.
PushFailed ==
    /\ inp.pc = "push"
    /\ inp' = Failed
    /\ UNCHANGED <<profile, now, port, puts, landed, claim, recov>>

InputLoop == GetAudio \/ Decoded \/ InvalidOpus \/ FramePushed \/ PushFailed

-----------------------------------------------------------------------------
NoItem == [id |-> None, ts |-> 0, rcv |-> 0, exp |-> 0, dl |-> 0]
Item == [id : Int, ts : Nat, rcv : Nat, exp : Nat, dl : Nat]

PortTypeOK ==
    /\ profile \in {"wss", "udp"} /\ now \in Nat
    /\ port \in [queue : Seq(Item), closed : BOOLEAN, origin : Int, start : Nat, lastTs : Int,
                 lastAt : Nat, debt : Nat, catch : BOOLEAN, dropped : Nat, paced : Nat]
    /\ Len(port.queue) <= InCap
    /\ claim \in [at : Int, n : Nat]
    /\ inp \in [pc : {"off", "get", "decode", "push", "failed", "gone"}, item : Item,
                left : 0..Frames, bad : 0..MaxInvalid]
    /\ recov \in Seq(Nat)

PortInit ==
    /\ profile \in {"wss", "udp"} /\ now = 0
    /\ port = [queue |-> <<>>, closed |-> FALSE, origin |-> None, start |-> 0, lastTs |-> None,
               lastAt |-> 0, debt |-> 0, catch |-> FALSE, dropped |-> 0, paced |-> 0]
    /\ puts = <<>> /\ landed = {}
    /\ claim = [at |-> None, n |-> 0]
    /\ inp = [pc |-> "off", item |-> NoItem, left |-> 0, bad |-> 0]
    /\ recov = <<>>
=============================================================================
