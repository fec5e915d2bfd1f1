------------------------- MODULE ResponseCoordinator -------------------------
(***************************************************************************)
(* The server's account of responses and their playback: the response      *)
(* coordinator (bindings/rva/response.py) on top of the voice session      *)
(* state (voice/session.py).  A response is named by its generation: the   *)
(* code gives every generation its own response_id.  Methods that raise    *)
(* are guards here; RvaConnection says what an exception does.  The        *)
(* transition lock is never contended between two awaits, so a method is   *)
(* one step.                                                               *)
(***************************************************************************)
EXTENDS Integers, Sequences

CONSTANTS
    MaxGeneration,  \* bound: generations handed out to responses and fences
    TerminalLimit   \* terminal records remembered (32 in the code)

ASSUME ResponseAssumption == MaxGeneration \in Nat /\ TerminalLimit \in Nat \ {0}

VARIABLES
    active,      \* ResponseCoordinator._active, 0 for None
    playback,    \* ResponseCoordinator._playback
    rec,         \* ResponseCoordinator._records, NoRecord for a missing key
    order,       \* ResponseCoordinator._terminal_order
    generation,  \* VoiceSessionState._generation
    target,      \* VoiceSessionState._active_playback
    closed       \* VoiceSessionState._closed

responseVars == <<active, playback, rec, order, generation, target, closed>>

Gens == 1 .. MaxGeneration

\* A media sequence or None.
None == -1
MediaSeq == Nat \cup {None}

\* ResponseRecord
Record == [epoch : Nat, first : MediaSeq, last : MediaSeq,
           outcome : {"none", "completed", "cancelled", "failed"},
           stop : BOOLEAN, started : BOOLEAN, ended : BOOLEAN]

NewRecord(e) == [epoch |-> e, first |-> None, last |-> None, outcome |-> "none",
                 stop |-> FALSE, started |-> FALSE, ended |-> FALSE]

NoRecord == NewRecord(0)

ResponseTypeOK ==
    /\ active \in Gens \cup {0}
    /\ playback \in Gens \cup {0}
    /\ rec \in [Gens -> Record]
    /\ order \in Seq(Gens)
    /\ generation \in Nat
    /\ target \in Gens \cup {0}
    /\ closed \in BOOLEAN

ResponseInit ==
    /\ active = 0 /\ playback = 0 /\ target = 0 /\ generation = 0
    /\ rec = [g \in Gens |-> NoRecord]
    /\ order = <<>>
    /\ closed = FALSE

Known(g) == g \in Gens /\ rec[g] # NoRecord

-----------------------------------------------------------------------------
\* Mutant: the record is dropped whether or not its playback has ended.
RememberForgetful(g, r) ==
    LET longer == Append(order, g) IN
    /\ order' = IF Len(longer) > TerminalLimit THEN Tail(longer) ELSE longer
    /\ rec' = IF Len(longer) > TerminalLimit THEN [r EXCEPT ![Head(longer)] = NoRecord] ELSE r

\* _remember_terminal: once the deque is over its limit the oldest key leaves
\* it, and its record is dropped if the playback has ended.
Remember(g, r) ==
    LET longer == Append(order, g)
        full   == Len(longer) > TerminalLimit
        old    == Head(longer)
    IN  /\ order' = IF full THEN Tail(longer) ELSE longer
        /\ rec' = IF full /\ r[old].ended THEN [r EXCEPT ![old] = NoRecord] ELSE r

\* The active response is the one of epoch e: begin continues it, and
\* _finish_response completes it.
IsActiveEpoch(e) == active # 0 /\ rec[active].epoch = e

\* begin: the segment starts a new response.
BeginFresh == active = 0 /\ playback = 0 /\ target = 0 /\ ~closed

Begin(e) ==
    /\ BeginFresh
    /\ generation + 2 <= MaxGeneration    \* bound: leaves room for the fence
    /\ generation' = generation + 1
    /\ target' = generation + 1
    /\ active' = generation + 1
    /\ playback' = generation + 1
    /\ rec' = [rec EXCEPT ![generation + 1] = NewRecord(e)]
    /\ UNCHANGED <<order, closed>>

\* Mutant: only the session state is asked, not the active response.
AcceptsOpen(g) == g # 0 /\ ~closed

Accepts(g) == g # 0 /\ g = active /\ ~closed /\ g = target

NoteMedia(g, seq) ==
    /\ Accepts(g)
    /\ rec' = [rec EXCEPT ![g].first = IF @ = None THEN seq ELSE @, ![g].last = seq]
    /\ UNCHANGED <<active, playback, order, generation, target, closed>>

Completable(g) == rec[g].first # None /\ g = active /\ g = playback

Complete(g) ==
    /\ Completable(g)
    /\ active' = 0
    /\ Remember(g, [rec EXCEPT ![g].outcome = "completed"])
    /\ UNCHANGED <<playback, generation, target, closed>>

Fenceable(g) == g # 0 /\ g = playback /\ ~rec[g].stop /\ ~closed /\ g = target

\* Mutant: the slot is given back at the fence, before the endpoint has stopped.
FenceFreesSlot(g, outcome) ==
    /\ Fenceable(g)
    /\ generation' = generation + 1
    /\ target' = 0 /\ active' = 0 /\ playback' = 0
    /\ Remember(g, [rec EXCEPT ![g].stop = TRUE, ![g].outcome = IF g = active THEN outcome ELSE @])
    /\ UNCHANGED closed

\* Mutant: the voice session keeps its target.
FenceKeepsTarget(g, outcome) ==
    /\ Fenceable(g)
    /\ generation' = generation + 1
    /\ active' = IF g = active THEN 0 ELSE active
    /\ Remember(g, [rec EXCEPT ![g].stop = TRUE, ![g].outcome = IF g = active THEN outcome ELSE @])
    /\ UNCHANGED <<playback, target, closed>>

\* fence with cancel_playback: a generation is spent on the fence.
Fence(g, outcome) ==
    /\ Fenceable(g)
    /\ generation' = generation + 1
    /\ target' = 0
    /\ active' = IF g = active THEN 0 ELSE active
    /\ Remember(g, [rec EXCEPT ![g].stop = TRUE, ![g].outcome = IF g = active THEN outcome ELSE @])
    /\ UNCHANGED <<playback, closed>>

-----------------------------------------------------------------------------
\* playback_started, with the exception it raises.
StartedError(g, seq) ==
    IF ~Known(g) THEN "stale_generation"
    ELSE IF rec[g].started \/ rec[g].ended THEN "duplicate_playback_started"
    ELSE IF rec[g].first = None \/ seq < rec[g].first \/ seq > rec[g].last THEN "invalid_playback_sequence"
    ELSE "none"

PlaybackStarted(g) ==
    /\ rec' = [rec EXCEPT ![g].started = TRUE]
    /\ UNCHANGED <<active, playback, order, generation, target, closed>>

\* The outcomes a record admits at its current state.
Expected(r) ==
    CASE r.outcome = "cancelled" -> {"stopped"}
      [] r.outcome = "failed"    -> {"failed"}
      [] r.outcome = "completed" -> IF r.stop THEN {"stopped"} ELSE {"completed", "failed"}
      [] OTHER                   -> {}

\* playback_ended, with the exception it raises.
EndedError(g, outcome, played, last) ==
    IF ~Known(g) THEN "stale_generation"
    ELSE IF rec[g].ended THEN "duplicate_playback_ended"
    ELSE IF g # playback THEN "stale_generation"
    ELSE IF outcome \notin Expected(rec[g]) THEN "invalid_playback_outcome"
    ELSE IF outcome = "completed" /\ ~played THEN "playback_evidence_mismatch"
    ELSE IF outcome = "completed" /\ last # rec[g].last THEN "invalid_playback_sequence"
    ELSE IF outcome # "completed" /\ last # None /\ (~played \/ rec[g].last = None \/ last > rec[g].last)
      THEN "invalid_playback_sequence"
    ELSE IF rec[g].outcome = "completed" /\ ~rec[g].stop /\ (closed \/ g # target) THEN "stale_generation"
    ELSE "none"

\* The slot is given back, and finish_playback where no fence has done it.
PlaybackEnded(g) ==
    /\ rec' = [rec EXCEPT ![g].ended = TRUE]
    /\ playback' = 0
    /\ target' = IF rec[g].outcome = "completed" /\ ~rec[g].stop THEN 0 ELSE target
    /\ UNCHANGED <<active, order, generation, closed>>

\* VoiceSessionState._close_impl
CloseState ==
    /\ closed' = TRUE
    /\ target' = 0
    /\ generation' = IF target # 0 THEN generation + 1 ELSE generation
    /\ UNCHANGED <<active, playback, rec, order>>
=============================================================================
