------------------------------- MODULE FunAsr -------------------------------
(***************************************************************************)
(* The part the two FunASR transports of the speech recogniser have in     *)
(* common (providers/funasr_stt.py): a bounded queue of audio towards the  *)
(* task that sends it, a bounded queue of events towards their consumer,   *)
(* the first fatal error, and the marker that ends the events.  Every step *)
(* of the two machines is the code between two awaits.                     *)
(*                                                                         *)
(* An audio item is a chunk of the segment it was spoken in, or a marker.  *)
(* An error is what the caller tells apart: "retry" (a ProviderError with  *)
(* retryable set, a BackpressureError, an OSError or a TimeoutError, all   *)
(* of which LiveKit retries) or "error" (everything else).                 *)
(***************************************************************************)
EXTENDS Naturals, Sequences

CONSTANT AudioCap    \* queue_max_chunks

ASSUME AudioCapAssumption == AudioCap \in Nat \ {0}

VARIABLES
    protocol,    \* config.protocol: "local" or "standalone"
    audio,       \* _audio: the chunks and markers waiting to be sent
    events,      \* _events: the recognition events waiting for the consumer
    fatal,       \* _fatal: "none", "retry" or "error"
    closed,      \* _closed
    ended,       \* _events_ended
    link,        \* the WebSocket: "none", "up" or "lost" (the peer has gone)
    answers,     \* what the server has sent and recv() has not returned
    receiver,    \* the receiving task: [at, event, result]
    outcome      \* how the LiveKit call ended, "none" while it runs

commonVars ==
    <<protocol, audio, events, fatal, closed, ended, link, answers, receiver, outcome>>

EventCap == 2 * AudioCap

Failures == {"retry", "error"}

Marker(k) == [k |-> k, seg |-> 0]
Chunk(s)  == [k |-> "pcm", seg |-> s]

\* A recognition event: what it is, the segment it is labelled with, and the segment
\* whose audio it was recognised from (known to the model, not to the code).
Event(k, s, of) == [k |-> k, seg |-> s, of |-> of]
EndMarker == Event("end", 0, 0)

AudioFull  == Len(audio) >= AudioCap
EventsFull == Len(events) >= EventCap

Task(at, e, r) == [at |-> at, event |-> e, result |-> r]
NoTask == Task("off", EndMarker, "none")
Finished(r) == Task("done", EndMarker, r)

\* _cancel_and_wait: a task that has ended keeps its result.
Stopped(t) == IF t.at \in {"off", "done"} THEN t ELSE Finished("cancelled")

\* _set_fatal: the first error is the one that is reported.
SetFatal(e) == IF fatal = "none" THEN e ELSE fatal

\* Mutant: the marker is put without making room for it.
EndEventsOver(queue, done) == IF done THEN queue ELSE Append(queue, EndMarker)

\* _end_events: once, making room for the marker when the queue is full.
EndEvents(queue, done) ==
    IF done
      THEN queue
      ELSE Append(IF Len(queue) >= EventCap THEN Tail(queue) ELSE queue, EndMarker)

CommonInit ==
    /\ protocol \in {"local", "standalone"}
    /\ audio = <<>>
    /\ events = <<>>
    /\ fatal = "none"
    /\ closed = FALSE
    /\ ended = FALSE
    /\ link = "none"
    /\ answers = <<>>
    /\ receiver = NoTask
    /\ outcome = "none"

\* The peer goes away: sends fail from now on, what it has sent can still be read.
LinkLost ==
    /\ link = "up"
    /\ link' = "lost"
    /\ UNCHANGED <<protocol, audio, events, fatal, closed, ended, answers, receiver, outcome>>
=============================================================================
