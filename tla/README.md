# A TLA+ model of the realtime voice agent

The repository is a voice agent: devices (ESP32 firmware, a desktop reference
client) bootstrap at a *Session Director*, are routed to a *Realtime Worker* under
a lease, and hold one voice session there. This directory specifies and checks
seven mechanisms of it and proves theorems about each:

1. **routing**: who may serve a device, under which epoch, for how long;
2. **playback**: what the server believes about a response and what the endpoint
   does with it;
3. **uplink**: how the user's audio reaches the agent, over WebSocket and UDP, in
   order, once, and not too late;
4. **recognition**: the FunASR client, streaming and one-shot;
5. **the desktop client**: session, transport, reopening and the facts it reports;
6. **the agent runner**: its input, output, failure and staged close;
7. **turn taking**: which user turn is answered and which one a playback belongs to.

Paths below are relative to `src/`; `W` is
`server/apps/realtime_worker/src/realtime_worker`, `D` is
`server/apps/session_director/src/session_director`, `C` is
`clients/desktop_reference/src/rva_desktop`, `F` is `firmware/components`.

## 1. Inventory

| Component | State | Operations | Hard because | Model |
|---|---|---|---|---|
| Coordination store (`D/store.py`) | routes with lease and fencing token, per-worker route index, consumed jtis, heartbeat records, drain flags; keys with TTL | acquire, renew, release, consume, heartbeat, drain, list (one Lua script each) | stale `now`, TTL against stored expiry, capacity counted from an index | `CoordinationStore` |
| Director handlers (`D/service.py`, `D/app.py`) | none between requests; a handler's locals across awaits | bootstrap, heartbeat, consume, release, drain | a value read before an await is used after it; a handler outlives its client's timeout | `SessionDirector` |
| Contracts (`server/packages/voice_contracts`) | claims, leases, grants, heartbeats | validation, signature | - | records of the two above; cryptography left out |
| Worker registry, admission, heartbeat loop (`W/app.py`, `admission.py`, `auth.py`, `lifecycle.py`) | reservations, sessions with lease deadlines, pending releases, the heartbeat in flight | reserve, consume, run, revoke, expire, extend, acknowledge, drain, shutdown, restart | overlapping timers, lost replies, crash with unsent releases | `WorkerRegistry` |
| Response coordinator and voice session (`W/bindings/rva/response.py`, `W/voice/session.py`) | active response, playback slot, records, deque of terminal records, generation, target | begin, note_media, complete, fence, started, ended, close | four places say what is playing; a bounded history | `ResponseCoordinator` |
| RVA binding and runtime (`W/bindings/rva/binding.py`, `runtime.py`) | segment queue, producer epochs, control queue, effects, watchdog, remembered cancels | segment loop, reader, writer, interrupt tasks, watchdog, close | tasks interleave at every await; messages cross on the wire | `RvaConnection`, `VoiceWire` |
| Interruption (`W/interruption.py`, `vad.py`) | latest candidate | submit, decide, accept | verdict about a response that may be over | candidate and verdict in `RvaConnection`; the VAD wrapper is not modelled |
| Agent runner (`W/agent.py`) | LiveKit session, roomless input and output, terminal future, close task | start, push, speak, deliver, wait_for_playout, fail, close in stages | a stage outlives its timer, a failure nobody awaits yet, a put waiting while the queue closes | `AgentRunner`; output and interrupt also in `RvaConnection` |
| Response gate and trace (`W/agent.py` 480-600, 860-991, `observability/events.py`) | speaking state, contamination, pending markers, current and answered turn | user and agent states, transcripts, the turn hook, playback facts | LiveKit's events come in many orders, and a hook late or never | `TurnTaking` |
| UDP gateway (`W/transport/udp_gateway.py`, `udp_wire.py`) | queue, probe, pinned source, replay window, reorder buffer, cursor, timers | probe, receive, resync, drain, gap timeout, expire, close | two tasks move one cursor around their suspensions | `UdpSession` |
| Uplink freshness (`runtime.py` 177-543, 904-1098) | timeline, anchor, catch-up, input queue, recovery window | receive_audio, drop to the live edge, recover, decode, push | age by arrival and by timeline, budget window, a full queue | `UplinkPort`, `UplinkSystem` |
| FunASR client (`W/providers/funasr_stt.py`) | audio and event queues, segments, fatal error, tasks | start, push, flush, aclose, recognise | five tasks, two closers, a server that does not read | `FunAsr`, `FunAsrLocal`, `FunAsrStandalone`, `Recognition` |
| TTS and LLM clients, logs, recording, settings | - | clients of external services, I/O | - | not modelled |
| Desktop client (`C`) | session state, replay window, reorder and pending buffers, playbacks, the operation that owns a reopen | connect, receive, render, report, keepalive, reopen, stop | media overtakes control, a session replaced under a receiver | `DesktopState`, `DesktopTransport`, `DesktopApp` |
| Firmware voice core and runtime (`F/voice_core`, `F/native_runtime`) | session gate, supervisor, playback task, `PlaybackState`, FreeRTOS queues | handle control and media, process commands, write, publish facts | two tasks, three queues, a full queue | playback in `EndpointPlayback` |
| Firmware transports (`F/transport_wss`, `F/transport_udp`) | admitted response, fence, media sequence; jitter buffer | accept, poll | same | `WssSession`'s admission in `EndpointPlayback`; UDP planned |
| Board, display, device configuration, `app_main.cc` | - | drivers, screens, flash | - | not modelled (I/O) |
| Operator tools (`server/tools`, `firmware/tools`) | - | load generation, provisioning | - | not modelled (no part of the running system) |

What makes each part correct: a device has one owner per epoch, a route changes
hands only after expiry, what a worker serves is leased, nothing consumed is
leaked, capacity is counted right (routing); the coordinator's layers agree, the
slot is held while the endpoint plays, records are neither lost nor kept for
ever, a fenced response is silent, crossings on the wire are the only reason for
protocol errors, nobody waits for ever, a damaged playback is not reported as
complete (playback); a packet is used once, in order and while it is fresh, and a
gap never waits for ever (uplink); a result names its segment and a call leaves
nothing behind (recognition); the client understands every conforming worker,
reports what was heard and returns its grants (desktop); a close is answered and
releases everything in order, a failure is seen (agent runner); a clean turn is
answered and a playback belongs to the turn that asked for it (turn taking). The
hazards behind these are listed, line by line, in
`PROJECT.json`.

## 2. Modules

```
CoordinationStore <- SessionDirector <- WorkerRegistry <- LeaseSystem <- MCLeaseSystem (runs)
                                                                      <- LeaseInvariants <- LeaseProofs
ResponseCoordinator + VoiceWire <- RvaConnection  \
                       VoiceWire <- EndpointPlayback -> PlaybackSystem (runs) <- PlaybackProofs <- CrossingProofs
UplinkPort <- UdpSession <- UplinkSystem <- MCUplink (runs)       UplinkSystem implements AudioChannel
                                         <- UplinkProofs
FunAsr <- FunAsrLocal + FunAsrStandalone <- Recognition <- MCRecognition (run)
                                                     <- RecognitionProofs
DesktopState <- DesktopTransport <- DesktopApp (run) <- DesktopProofs
AgentRunner (run) <- AgentProofs        TurnTaking (run) <- TurnProofs
```

### Routing

* **CoordinationStore**: `lease`, `fencing`, `routes`, `jti`, `record` are the
  Redis keys; each Lua script is one atomic operator taking the caller's `now`.
  Every key carries the time Redis drops it, separate from the expiry written in
  it, so that a script that uses an old `now` sees a key that Redis has already
  dropped. The modelled store is the Redis one. The session epoch is a uuid in the code
  (`D/service.py:137`); it and the fencing token are fresh with every acquire, and one
  field stands for both here.
* **SessionDirector**: bootstrap and heartbeat handlers are split at every await
  that touches the store and keep their clock reading, worker list and loops in
  `boot` and `hb`. Whether a worker offers what the device asks for is an
  arbitrary set (`offers`). Redis timeouts end a handler at any await.
* **WorkerRegistry**: one session record per worker and device (`idle`,
  `reserved`, `consuming`, `consumed`, `running`, `retiring`), the pending
  releases, and the worker's side of its heartbeats. A heartbeat whose client
  timed out leaves its handler running: handlers live in slots, and two slots
  mean two may overlap. Restart keeps the worker id and loses everything else.
* **LeaseSystem**: the composition with a clock; `released` and `forgotten` are
  history variables (routes released on purpose; consumed leases the worker
  cannot know of).

Abstractions: one global clock (no skew between director, Redis and workers);
`list_workers` is one snapshot; the reading of `now` is merged with the handler's
first store call; pending releases are a set without the cap of 64 per heartbeat;
the send lock is not held while connections retire; the cancellation paths of the
shutdown and sessions of the lab authenticator are left out.

### Playback (wss-opus/1)

* **ResponseCoordinator**: the methods of `response.py` and `voice/session.py`. A
  response is named by its generation (the code gives each its own id). A method
  that raises is a guard plus an error operator (`StartedError`, `EndedError`) with
  the exceptions in the code's order.
* **VoiceWire**: two FIFO streams and the fields receivers decide on.
* **RvaConnection**: the event loop's tasks: the agent's output, the segment loop
  (`seg.pc` is the await it is at), the reader, the two owners of fence effects
  (`eff`), the interrupt tasks, the watchdog, and `Close`, which cancels all of
  them. A control message is handed over and acknowledged in two steps; media and
  control leave through one first-come wire lock, so messages enter `down` when
  handed over: a packet reserved before a fence may still be written before the stop
  (`runtime.py` 1226-1234), which `NoMediaAfterStop` does not speak of.
* **EndpointPlayback**: the supervisor (`Receive*`, `SendFact`, `Disconnect`) and
  the playback task (`ProcessCommand`, `Observe`, `TakeMedia`, `Gate`,
  `WriteChunk`), joined by the command, media and fact queues. When `running_` is
  cleared, the playback task halts and the supervisor sends the facts left and
  disconnects.
* **PlaybackSystem**: the composition and its properties.

Abstractions: text, transcripts and the uplink carry no playback state and are left
out; only `wss-opus/1` (its FIFO order makes the drain deadline and the concealment
of the last packet unreachable); the capacities of the server's segment and
control queues are left out, their timeouts are not; the three points at which
the playback task takes commands each empty the queue before it goes on; cancel
requests are numbered by the response they name (the firmware offers
`EncodeCancelRequest` without a caller, so when it is used is a free choice); after
a close the frames already handed over may still arrive; every reason to close that
lies outside playback is the one action `Retire`.

External assumptions, from how the code uses LiveKit: when the agent speaks is a
free choice; an interrupted speech hands over no more audio, clears the buffer and
waits once more; `wait_for_playout` returns when the number of reported playback
ends reaches the number of captured segments.

`Prompt` is an assumption on scheduling used by two runs: a coroutine resumed by
an acknowledgement runs before the reaction of the endpoint has travelled back,
and an interrupt returns before LiveKit's next speech. asyncio runs ready
callbacks in order, and a network round trip lies in between. Without it
`playback.stop` and the `response.end` of the same fence, two sends in the code,
can be separated by the endpoint's report and the next `response.begin`.
`PlaybackSafety` does without it, and so do the proofs except those of
`EndpointAccepts` and `ServerAccepts`, which have it as a hypothesis.

### Uplink

* **UplinkPort**: `receive_audio` with its checks in the code's order (`Verdict` says
  which one rejects), the catch-up after a gap, the put that waits for room, and
  `_input_loop`: the jump to the live edge over stale packets, the recovery budget,
  decoding, and the pushes one by one. It is the code of whichever task
  calls it. One unit of time is one 60 ms packet, so the 5 ms phase correction and
  the 2 % skew allowance, both below it, are zero.
* **UdpSession**: one gateway session. `cpu` is the task that runs and has not yet
  suspended; delivering a packet suspends only on a full input queue, and the cursor
  moves after the delivery, so the worker and the gap timers meet around it.
* **UplinkSystem**: endpoint, network, reader, and the start and cleanup of the
  connection's tasks in the order of `run` and `close`; either profile is chosen in
  `Init`.
* **AudioChannel**: what the uplink promises whatever carries it: packets are
  delivered at most once and none after the input closed. `UplinkSystem` implements
  it with `offered <- the audio packets sent, delivered <- log, open <- ~port.closed`;
  the property `AtMostOnce` is that refinement.

`DecodedInOrder` excepts a UDP session after a delivery had to wait (`stalled`):
`put_nowait` of one task may overtake the waiting put of another.

### Recognition

* **FunAsr**: the queues, the first fatal error and the end marker.
* **FunAsrLocal**: `FunASRStream` and the LiveKit adapter that drives it. Five tasks;
  whichever of `_run` and the input task comes second to `aclose` returns at once. The
  server answers each end of segment once, stays silent, sends garbage or hangs up.
  `_run` may be cancelled at every await, those of its `finally` block included
  (`RunCancelled`, `AcloseCancelled`, `RunCancelledLeaving`).
* **FunAsrStandalone**: one utterance; what the server sends is chosen when it is
  read, from one message of each class the client tells apart. The call may be
  cancelled while it pushes, waits or closes (`CallerCancelled`,
  `CallerCancelledClosing`), and so may its runner.
* **Recognition**: either transport.

An interrupted `connection.close()` is the business of websockets: the stream has let
go of the connection.

### Desktop client

* **DesktopState**: `SessionState`; each operator returns the state, the event and the
  error, with the checks in the code's order.
* **DesktopTransport**: the UDP transport: replay window, packets waiting for their
  `response.begin`, reorder buffer, the skip of a gap.
* **DesktopApp**: the receiver, keepalive and uplink tasks, the operation that owns a
  reopen, connect with its rollback, stop and cleanup, against a worker that follows
  the protocol and a network that loses, repeats and reorders. A session number stands
  for session and `_session_generation`. `grants` is the fate of every grant the Director
  gave: a release may fail, be refused or time out wherever one is made; the rollback of
  a connect is not shielded, so that a cancellation cuts its release (`"cut"`), while the
  close is, so that only a second one does (`"torn"`, `"pressed"`). The run itself may be
  cancelled again in its `finally` (`CancelledAgain`), as `cli.py`'s timeout or an
  interrupt does: the tasks are cancelled once more and the close is skipped (`"left"`).
  A bootstrap whose answer is lost is no grant the client has received.

Left out: transcripts and text (their own sequence numbers on an ordered stream), the
audio backends, and clocks: whether a wait is over or a grant is due is a free choice.

### Agent runner and turn taking

* **AgentRunner**: both runners and the part of the session runtime that starts, feeds,
  watches and closes them. A close stage runs in a task of its own; its timer answers
  the caller, and the close goes on only when the stage has really finished, well or
  with an exception. Each flushed segment has a delivery task of its own, several of
  which run side by side across interrupted speeches: `delivery` is what became of each,
  `tasks` what the output still knows of, `awaited` what the gather of `wait_for_playout`
  waits for. The exceptions of the delivery inside `capture_frame` go to LiveKit and are
  not modelled.
* **TurnTaking**: the response gate, the observers of LiveKit's states and the trace.
  `muted`, `answered`, `owner`, `fresh` and `early` are history variables. External: hooks
  run in the order of the turns and may be skipped; a user does not open a clean turn
  before the hooks of earlier turns ran or were skipped, which is the premise of the
  comment in `user_state_changed`. LiveKit reports "thinking" at any time, for suppressed
  turns too, and "speaking" before or after the endpoint's `playback.started`, so that
  both sides of `self._playback_turn_id or ensure_turn()` (`W/agent.py:571`) are taken.

## 3. Runs

| Run | Shows | Instance |
|---|---|---|
| `Lease` | `ServedLeaseIsValid`, `NoLeakedLease`, `TypeOK`, `IndexCoversLeases`, `OneOwnerPerEpoch`, `NoSplitBrain`, `Takeover` | two scopes, chosen at the start: one worker with one place and two devices that compete for it, two heartbeats and every kind of disturbance once; two workers and one device, two heartbeats, takeover after expiry |
| `PlaybackSafety` | `TypeOK`, `SlotHeld`, `LayersAgree`, `RecordsKept`, `NoMediaAfterStop` | two speeches of up to two packets, any task order, history of one record, playback queue of one packet |
| `PlaybackCrossings` | `ServerAccepts`, `EndpointAccepts` | two responses of one packet written in two chunks, cancels, closes and hardware faults at any time |
| `PlaybackRelease` | `PlaybackReleased`, `AgentReleased` | two responses, an endpoint that may stay silent |
| `Uplink` | `TypeOK`, `GapTimerArmed`, `RecoveriesBounded`, `AtMostOnce`, `DecodedInOrder`, `FreshAtPush` | WSS: six packets, five ticks, queue of two, age limit of one; UDP: four packets in any order and number, two gap timers, input queue and datagram queue of one |
| `Recognition` | `TypeOK`, `FinalNamesItsSegment`, `Released`, `Ends` | audio queue of one; streaming: two frames and two flushes; one-shot: up to three chunks, three server messages of ten classes |
| `Desktop` | `TypeOK`, `GrantsReturned`, `RecoveryFinishes`, `ServerUnderstood`, `FactsAreHeard` | both profiles, two responses, three packets and one lost link, close or failing sink, or two packets and a refresh that falls due, two grants and hence one reopen, any number of cancellations and failing releases, no concealment (every gap is too wide) |
| `AgentRunner` | `TypeOK`, `NoPcmAfterClose`, `TtsOutlivesSession`, `EndMeansDelivered`, `FailureSeen`, `CloseAnswered`, `ResourcesReleased` | both runners, input queue of two, two segments delivered side by side, interrupted speeches, an output whose close raises |
| `TurnTaking` | `PlaybackAttributed`, `CleanTurnAnswered` | two texts, two markers, four turns, two speaking edges per turn, two responses |
| `LeaseOverlap` (violated) | `ServedLeaseIsValid` with overlapping heartbeat handlers | two slots |
| `QueueLoss` (violated) | `CompletedIsComplete` | queue of one packet |
| `GapStranded` (violated) | `GapWaitBounded` | UDP, six datagrams, two gap timers, input queue of one |

Bounds. A TTL of two ticks distinguishes before, at and after an expiry with a
handler in between; two tokens allow one takeover; one disturbance at any point
reaches each error path with everything else in flight (the proofs cover the
rest). In playback, two responses are the least at which the slot, the deque
(limit 1 where the code has 32) and the fence matter, two packets the least with
a packet after the one being sent, and four generations are those of two
responses and their fences. Queues of one packet overflow at once. In the uplink, four datagrams give a gap,
packets behind it and a late one, two timers an old one that still delivers while
the next is armed; the time dependent checks are explored over WSS, where the
clock runs past the recovery window, and UDP is explored without the clock, so that
only its order is at issue. The replay window and the jumps of the code (64, 1024) are
kept or shrunk to three and four so that they are met. In recognition a queue of one
makes every put wait. In the desktop client three packets are the least with a frame
missing between two that are heard; a refresh sets all three tasks going at once, so it
takes the place of a packet, and recoveries that race with it come from expired
playbacks. Four turns are two contaminated ones, a skipped hook and a clean one. Deadlock
is checked in the playback and uplink runs; the others stop where their clock does or
when the call, the client or the session is over.

The violated runs are disagreements between a sentence of the documentation and
the code, quoted in `PROJECT.json`:
* *LeaseOverlap*: `renew_route` writes `now + ttl` whatever is stored; a handler that
  outlived its client's timeout moves the expiry back below what a later heartbeat
  announced, and the worker goes on serving a route that may be taken over.
* *QueueLoss*: the playback task compares its drop counter at the top of its loop,
  before it takes commands; a drop of a response it does not know yet is
  forgotten, and the response is reported as completed.
* *GapStranded*: two timers meet when one is suspended in a delivery on a full input
  queue. The other wakes up to a buffer the first has emptied and returns without
  forgetting itself, so the next gap finds a timer remembered that no longer runs, and
  its packets wait without one. `GapTimerArmed` is what remains true: it excepts a
  session after a delivery had to wait.

Fairness. In `PlaybackSystem` (`FairSpec`): each task of the event loop and each timer is weakly
fair (asyncio runs ready callbacks; `asyncio.timeout` and the watchdog's sleep
fire), and LiveKit ends or cuts a speech it has begun. Reading the socket is not
fair and nothing is assumed of the endpoint: `PlaybackReleased` and
`AgentReleased` therefore rest on the terminal watchdog and the timeouts.
In `Recognition`: the steps of the client's tasks and timers; nothing of the server,
the network or the user. In `AgentRunner`: the ready tasks and timers, and that a
LiveKit session which is not hung finishes the close it began; `ResourcesReleased`
excepts a session whose close hangs, and an output whose close raised with playbacks
unreported, for which a speech may wait for ever. The other specifications have no
fairness.

## 4. Proofs

All theorems hold for every value of the constants under the named assumptions
(finite sets of workers and devices, positive capacities, windows and TTLs,
`TerminalLimit` at least 1, `MediaCap` and `FrameChunks` at least 1, segments of at
least one packet, since `capture_frame` and the segment loop drop an empty one). The bounds that
keep TLC's instances finite are constants like the others, so a theorem holds for any
number of packets, beats, turns and responses.

**Routing** (`LeaseProofs`).
Its frame lemmas describe what each step may do to the lease, the sessions and the
heartbeats, so that an invariant is proved against a few kinds of change.
* `TypeCorrect`: the types.
* `BaseCorrect`: `Base` = types, no clock reading from the future (`Times`), a lease
  carries the newest token and a token determines its grant (`Fences`), sessions,
  releases and heartbeats stem from grants of their worker (`Origins`), the loops of
  a handler shrink (`Loops`). From it `OneOwner` (two sessions of one epoch have the
  same grant, hence the same worker) and `TakeoverCorrect` (a stale `now` is at most
  the clock, so what it sees as expired is expired).
* `IndexCorrect`: every script writes the index with the lease.
* `NoLeakCorrect`: needs `Applied` (what a handler has released stays released).
* `ServedCorrect` and `SplitBrainFree`: assume `NoOverlap` (handlers of one worker do
  not overlap; `LeaseOverlap` shows that the assumption is needed) and
  use `Exclusive`: no expiry is further away than a TTL (`Horizon`), a handler in
  flight will not write below what was promised (`Fresh`), what it has renewed keeps
  its expiry (`Renewed`), the store covers the grant and the deadline (`Covered`), and
  so a session that may be served holds the lease (`Holds`).

**Playback** (`PlaybackProofs`, `CrossingProofs`).
* `PlaybackTypeCorrect`: types of server, wire and firmware, with `SendLeft` (a packet
  is sent only if one is left) and `ControlTodo` (effects send control messages only)
  as strengthening.
* `CoordinationCorrect`: `Coordinated` = an active response holds the slot and is
  neither over nor fenced (`ActiveHolds`); the slot's record exists, has not ended, and
  is in the deque once the response is over (`SlotRecord`); every record is the
  slot's or in the deque (`TableBounded`); only the slot's record has not ended
  (`OnlySlotOpen`); a response that did not complete was fenced (`CutIsFenced`); the
  session's target is the slot until the fence (`TargetAgrees`). `LayersAgree` alone is
  not inductive: at `playback_ended` the target is given up only for completed
  responses, so one must know that all others were fenced. `RecordsKept` needs that a
  record evicted from the deque has ended or holds the slot, and the limit to be
  positive, or the response just remembered would be evicted. The invariant
  speaks of the coordinator's variables only and is shown once per method; the
  `*Step` lemmas say which method each task calls.
* `LayersCorrect`, `RecordsCorrect`: from it.
* `FenceCorrect`: the action property `NoMediaAfterStop`. Audio is reserved for the wire
  in one step only, whose guard makes the response active, hence not fenced. A packet
  reserved before the fence may still be written, before the stop.
* `FlightCorrect`, `SlotCorrect`: `SlotHeld`. `Life` = a response that the endpoint has
  still to begin, plays or has still to report is in exactly one of five places (downlink,
  command queue, `PlaybackState`, fact queue, uplink), is there once, and is the slot's;
  `Errands` says what a fence has still to send, so that nobody sends another begin.
* `EndpointCorrect`: `EndpointAccepts`, under the scheduling assumption `Prompt` of the
  run `PlaybackCrossings`. What may come
  next depends on a queue whose length has no bound, so `Stream` says that the downlink is
  a run of `WssSession` from the state it is in to the one the server believes in; every
  send appends a state to that run and every receive drops one. `Commands` lists what
  the command queue holds for each state of `WssSession` and `PlaybackState`; `Dues` (a
  fence that has its end to send is the slot's, and the only one), `StopsAgree` (at most
  one stop is on its way) and `InOrder` (packets are played in the order admitted) are the
  rest of `Accounts`.
* `ServerCorrect`: `ServerAccepts`, under the same hypothesis. `Epochs` = the producer, the
  segment queue, the loop and the slot agree on the epoch and on who may begin, hence
  `begin` and `finish` are never refused; `Heard` = every packet that is queued, played
  or reported lies between the first and the last sequence of the slot's response
  (`SlotSpan`, `Sounding`), the final end is ahead of every stop (`EndsIn`), and a playback
  is reported as started once and before its end (`Evidence`), hence every report passes
  the checks of `playback_started` and `playback_ended` unless it crossed a stop.

**Uplink** (`UplinkProofs`). The port and the UDP session touch each other only in
`ReceiveAudio` and in the puts. Each operator of either side is shown once to keep its
side's invariant, and each step of `UplinkSystem` is then one of a few kinds
(`StepOK`): a clock tick or a claim for the port; quiet, ending, sending, reading or
draining for the session. The results are proved against those kinds.
* `UplinkTyped`: `SystemOK` = types, every packet on its way carries a deadline within
  `MaxAge` of its arrival and of the time it was due (`Timely`), what is buffered was
  sent (`Buffered`), the task that runs is the one that drains (`Running`), a closed
  session has no worker (`ClosedIdle`). Without `Running` and `Buffered` the sequence
  numbers handed to `receive_audio` have no type.
* `PushedFresh`: from `Timely`, and that `run` starts its input loop once.
* `RecoveryRate`: `Budget` = recoveries are recorded in the order of the clock, the
  current window opened with the first recovery it granted, and the recovery
  `MaxRecoveries` before that one is more than `Window` older. The property alone says
  nothing of the window that is open and is not inductive.
* `GapsAreTimed`: `Armed` = undisturbed, the only timer that sleeps is the one
  remembered, no task is suspended in a delivery, and between suspensions a timer is
  armed exactly while packets are buffered. Needs `ClosedIdle`: a timer that wakes up
  in a closed session leaves itself remembered.
* `DeliveredAtMostOnce`: the refinement of `AudioChannel`. `Once` = on UDP a packet is
  in one place at a time (reorder buffer, delivering task, taken) and the replay window
  will not accept it again; on WSS what was taken is not newer than what was read.
  That the window never forgets (`GoneKept`) holds for any size of it and any jump.

**Agent runner** (`AgentProofs`). Input, terminal future and close owner share state
only through `Publish` and `InputClose`.
* `RunnerTyped`, `ClosedInputSilent`: types and `NoPcmAfterClose`; the latter is
  inductive since `InputClose` replaces the queue by the end marker.
* `TtsClosedLast`: `StagesInOrder` says what `run` and `_close_once` have done when the
  owner reaches a stage; a stage that outlives its timer makes it necessary to say it
  of the stage's outcome and not of the caller's.
* `FutureNeverStale`, `CloseOwesAnswer`: whoever asks for the terminal future sees the
  first result published, and the owner does not finish with a result pending
  (`OwnerStages`).
* `EndAfterDelivery`: the action property `EndMeansDelivered`, which speaks of what became
  of each segment and not of the flag the code keeps. `Deliveries` = a delivery that runs
  is among the tasks the output knows, one that failed is too until its done callback has
  raised the flag, and a wait gathers every task that is left. Without the
  second part a refusal that came before the wait would be forgotten.

**Turn taking** (`TurnProofs`).
* `TurnsTyped`, with the bound on the markers.
* `PlaybackOwned`: `PlaybackAttributed`, with "speaking" before or after the playback's
  start. `Handover` follows a response from the request over the pending
  marks of the observers to its playback. The two exceptions are those of
  `PlaybackAlwaysAttributed` below.
* `CleanTurnHeard`: `HooksInOrder` (hooks wait for turns before the open one) and
  `CleanUnmarked` (a clean utterance began by dropping the markers and added none).

**Recognition** (`RecognitionProofs`). The protocol is chosen once and the transports
share only the variables of `FunAsr`, so each has its own invariant beside the types.
The server's answers are any that the model allows, in any number.
* `RecognitionTyped`: `Shape` = types, the queues within their capacity, what the sender
  holds while it sends is an item (`Holding`), segment numbers bounded by the flushes
  made (`Numbered`).
* `NothingLeftBehind`: `Released`, from `WayOut` for the streaming client (`aclose` is run
  once, by the input task or by `_run`, and has ended the tasks before it hangs up;
  whoever sees `closed` has a closer to wait for) and `CallerWay` for the one-shot call
  (the runner closes its segment before it ends, and the call waits for it unless what
  is left cannot be padded or the close itself was cancelled). Of a streaming client
  that was cancelled in its close it is still shown that sender, receiver and connection
  are gone; the rest is what `CancelledReleased` below is about.
* `FinalsNamed`: `FinalNamesItsSegment`. The label of a final is read from the client's
  segments when the answer arrives, long after the audio was pushed, so the property
  alone says nothing of what is on its way. `Labels` says where the flush that is due
  has got to: its marker not put, on its way behind the audio of its segment, or
  answered (`Marks`); which segment the queued audio and the audio at the server then
  belong to (`Spoken`); and that a second answer still unread can only be the close
  marker's, which belongs to the active segment (`Replies`).

**Desktop client** (`DesktopProofs`).
* `GrantsGoBack`: `GrantsReturned`, whatever the transport delivers. `Grants` = the grant
  at hand is the last one given and the only one held, and is with the operation that is
  connecting or rolling back or with the session that is open (`Fate`); a release is cut
  short only under a run that is cancelled, after which none is asked for; `Owner` =
  the lock is with the task that waits for it, and a run that is being ended has nobody
  left to take it, without which a reopen could receive a grant after the last one was
  given back; `Wire` = the receiver reads what the profile carries, without which
  `accept_control` could be given a message it does not know and nothing could be said
  of the state after it. The transport's buffers are left arbitrary.
* `RecoveriesFinish`: `RecoveryFinishes`. `Recovery` = at most one playback is open in the
  session state, the current one (`Ledger`), so a recovery that owes its reopen has ended
  the only one whose end could signal (`Owing`); after the signal the receiver reads
  nothing more, or reads from a session that was replaced (`Signal`). What remains is the
  keepalive task, whose reopen ends the playback too: while it has one to do, `next_event`
  waits for nothing (`Due`), and when it has ended a playback just as the receiver read
  the begin of the next, what the receiver still holds cannot be a gap, so it starts no
  recovery of its own before it comes to the reopen (`Racing`). `Aside` and `Unborn` bound
  what is put aside and what precedes the receiver's start.

Only model-checked:
* `DecodedInOrder`: it relates the order of the input queue, the waiting puts, the
  delivering task and the buffer;
* `TypeOK`, `ServerUnderstood` and `FactsAreHeard` of the desktop client: they depend on
  which packets the transport hands over, and `AdmitPending` is a fold over a sorted
  buffer, about which nothing can be shown without induction over data;
* liveness (`PlaybackReleased`, `AgentReleased`, `Ends`, `FailureSeen`, `CloseAnswered`,
  `ResourcesReleased`), which the prover does not treat: it has neither fairness nor
  ENABLED, nor induction over data for recursive definitions.

## 5. Statements of the repository that the models refute

Besides the three violated runs, modelling met these places where the code does not do
what a comment, test or document says. Where a definition states the sentence it is
kept in the module and named here; no run is spent on it.

* `GrantConsumedOnce` (`D/store.py:316`; `docs/architecture/server.md:74`): the jti key
  lives `exp - now` from the time the script runs, while `now` was read before; with the
  route renewed meanwhile a consume delayed past the expiry succeeds a second time.
* `DrainIsOneWay` (`D/store.py:301`; `server.md:57`): the drain flag has the TTL of the
  heartbeat record, and the same process registers as not draining afterwards.
* `LateDropped` (`W/transport/udp_gateway.py:461`; `docs/architecture/system.md:101`): a
  worker suspended in a delivery writes its own cursor back after a gap timer has moved
  it, so a late packet reaches `receive_audio` and ends the session with
  `invalid_media_timestamp`.
* `CancelledReleased` (`tests/test_funasr_stt.py`), in three ways: `aclose` of a one-shot
  stream cancelled with more than a packet left computes a negative padding, raises, and
  leaves the runner and its connection (`funasr_stt.py:511`); a cancellation at the put of
  the close marker passes the `except` by and leaves the runner (`:519`); a cancellation
  of the `aclose` in `_run`'s `finally` skips the rest of the block, and the input and
  consumer tasks stay (`:1067`).
* `GrantsAlwaysReturned` (what `_rollback_connect` and `close` are for,
  `C/session/client.py:98`; `tests/test_session.py:574` tests the shielded close only): a
  release that fails is traced and not tried again (`C/transport/director.py:105`); a
  cancellation that meets `_rollback_connect` cancels its release, and `close` does not
  know of the grant (`client.py:135`); a run cancelled in its `finally` before the close
  skips it (`C/app.py:160`), which `cli.py`'s timeout can do. The route then waits for
  its TTL.
* `FatalNotRetried` (`funasr_stt.py:1056`; `server.md:120`): a rejection that is not
  retryable, followed by the lost connection or a timeout, is handed on as retryable.
* `EvidenceAccepted` (`C/app.py:395` against `C/session/state.py:193`): a gap recovery
  may report evidence its own session state refuses, and the run ends instead.
* `PlaybackAlwaysAttributed` (`W/agent.py:919`, "Keep the first response owner until it is
  handed to playback"): a response that was never handed over leaves its turn to the
  next one, and a playback that starts before "speaking" when the user has opened another
  turn is attributed to that turn (`W/agent.py:571`).
* `MarkedSuppressed` (`W/agent.py:521`; its docstring at 482): only the oldest marker
  is compared, and a mismatch clears them all, so a contaminated turn is answered.

Smaller remarks: the budget of two recoveries per ten seconds is a tumbling window, so
up to three may fall within ten seconds; a repeated probe counts as activity; a gap
timer that is delivering is not cancelled by the session's expiry; an interim result
after a flush carries the next segment's label; the final of the last segment is
usually lost at `aclose`, and the end marker may evict an unread result; the desktop's
uplink does not catch `FreshReopenRequired` when the grant is due for a refresh; a stop
that crosses a local end is a protocol error for the desktop client too (the exception
in `ServerUnderstood`); a second speaking edge before the final resets the
contamination of its turn.

## 6. Plan

Done: the seven mechanisms above, theorems about each, the refinement of `AudioChannel`
proved. Next, in order:
1. An exclusive-ownership specification implemented by `LeaseSystem`.
2. The downlink of `udp-opus-gcm/1`: the send-before-note order of `runtime.py`
   1215-1224 and the firmware's jitter buffer with drain deadline and concealment.

Not modelled, and why: the TTS and LLM clients (request and response, one error path,
which the runtime's model has); event logs, recording, settings, drivers, display,
flash storage (I/O); load generators and the provisioning script (no part of the
running system); signatures and encryption (assumed to work); the process-local
coordination store (`D/store.py` 80-226, tests and development only); the VAD wrapper (a
classifier's state, no protocol).
