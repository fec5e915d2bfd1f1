----------------------------- MODULE TurnTaking -----------------------------
(***************************************************************************)
(* Who answers a user's turn.  The playback response gate                  *)
(* (_PlaybackResponseGate, agent.py) marks the turns that overlap endpoint *)
(* playback and suppresses the reply when LiveKit's on_user_turn_completed *)
(* hook arrives, possibly much later or never; the session observers       *)
(* (_register_livekit_observers, _LiveKitPlaybackTrace, Tracer) attribute  *)
(* speech, requests and playback to turns from the same events.            *)
(*                                                                         *)
(* External: LiveKit.  Its user states, transcripts and agent states come  *)
(* in any order a full-duplex session allows: it may report "speaking" for *)
(* a response before or after its first frame is on the wire or heard (it  *)
(* does so at the latest before the playback is over), and "thinking" or   *)
(* "listening" at any time.  Hooks run in the order of the turns, and      *)
(* LiveKit may skip one while a response it may not interrupt is active.   *)
(* A user does not open a clean turn before the hooks of the earlier turns *)
(* ran or were skipped (the premise of the comment in user_state_changed). *)
(***************************************************************************)
EXTENDS Naturals, Sequences, FiniteSets

CONSTANTS
    Texts,         \* transcripts of a turn
    PendingLimit,  \* pending_limit: markers the gate keeps
    MaxTurns,      \* bound: user turns
    MaxEdges,      \* bound: speaking edges without a final in between
    MaxResponses   \* bound: responses

ASSUME TurnAssumption == PendingLimit \in Nat \ {0}

NoTurn == 0

VARIABLES
    active, tainted, pending,     \* _PlaybackResponseGate
    utterance,  \* the user's turn: open?, opened by a speaking edge?, overlapped playback?
    turns, edges,
    speaking,   \* LiveKit's user state
    hooks,      \* turns whose hook has not run
    answered, muted,   \* turns with a reply, turns suppressed
    response,   \* "none", "thinking", "playing", "heard"
    spoken,     \* LiveKit has reported "speaking" for this response
    owner,      \* the trace turn the response was requested for
    fresh,      \* when it was requested nobody owned a response or a playback
    early,      \* its playback started before "speaking", in another trace turn
    responses,
    current, sequence,                      \* Tracer
    agentState, responseTurn, responsePending, playbackTurn   \* the observers

gateVars == <<active, tainted, pending>>
userVars == <<utterance, turns, edges, speaking, hooks, answered, muted>>
responseVars == <<response, spoken, owner, fresh, early, responses>>
traceVars == <<current, sequence, agentState, responseTurn, responsePending, playbackTurn>>
vars == <<gateVars, userVars, responseVars, traceVars>>

Quiet == [open |-> FALSE, edge |-> FALSE, overlap |-> FALSE]

Init ==
    /\ active = FALSE /\ tainted = FALSE /\ pending = <<>>
    /\ utterance = Quiet /\ turns = 0 /\ edges = 0 /\ speaking = FALSE
    /\ hooks = <<>> /\ answered = {} /\ muted = {}
    /\ response = "none" /\ spoken = FALSE /\ owner = NoTurn /\ responses = 0
    /\ fresh = FALSE /\ early = FALSE
    /\ current = NoTurn /\ sequence = 0
    /\ agentState = "initializing" /\ responseTurn = NoTurn
    /\ responsePending = FALSE /\ playbackTurn = NoTurn

----------------------------------------------------------------------------
(* Tracer.                                                                 *)

\* ensure_turn, and the turn it returns.
EnsureTurn ==
    IF current = NoTurn THEN current' = sequence + 1 /\ sequence' = sequence + 1
    ELSE UNCHANGED <<current, sequence>>

Ensured == IF current = NoTurn THEN sequence + 1 ELSE current

\* The turn playback is reported for: the frozen one, or the current one.
PlaybackTurn == IF playbackTurn = NoTurn THEN Ensured ELSE playbackTurn

\* clear_turn: the current turn is over if it is this one.
Cleared(t) == IF Ensured = t THEN NoTurn ELSE current

----------------------------------------------------------------------------
(* The gate.                                                               *)

\* Mutant: an unconsumed marker survives the start of a clean turn.
GateSpeakingKeeps ==
    /\ tainted' = active
    /\ UNCHANGED <<active, pending>>

\* user_state_changed to "speaking": contamination starts anew; a clean turn drops the markers
\* of the hooks LiveKit skipped.
GateSpeaking ==
    /\ pending' = IF active THEN pending ELSE <<>>
    /\ tainted' = active
    /\ UNCHANGED active

\* deque(maxlen): the oldest marker falls out.
Marked(m) == IF Len(pending) = PendingLimit THEN Append(Tail(pending), m) ELSE Append(pending, m)

\* observe_transcript.
GateTranscript(text, final) ==
    /\ tainted' = (~final /\ (tainted \/ active))
    /\ pending' = IF final /\ (tainted \/ active)
                  THEN Marked([turn |-> turns', text |-> text]) ELSE pending
    /\ UNCHANGED active

\* Whether observe_transcript marks the turn it closes.
Marks == tainted \/ active

\* should_suppress: the head marker answers the hook it was made for; a
\* mismatch drops all of them.
Suppressed(text) == (pending # <<>> /\ Head(pending).text = text) \/ active

AfterHook(text) ==
    IF pending # <<>> /\ Head(pending).text = text THEN Tail(pending) ELSE <<>>

----------------------------------------------------------------------------
(* The user.                                                               *)

\* on_user_state, speaking: a new trace turn when the response or playback
\* of the current one is in progress.
TraceSpeaking ==
    LET busy == /\ agentState \in {"thinking", "speaking"}
                /\ \/ responseTurn # NoTurn /\ responseTurn = current
                   \/ playbackTurn # NoTurn /\ playbackTurn = current
    IN /\ IF busy THEN current' = sequence + 1 /\ sequence' = sequence + 1 ELSE EnsureTurn
       /\ UNCHANGED <<agentState, responseTurn, responsePending, playbackTurn>>

UserSpeaks ==
    /\ ~speaking /\ edges < MaxEdges
    /\ hooks = <<>> \/ active
    /\ utterance.open \/ turns < MaxTurns
    /\ turns' = IF utterance.open THEN turns ELSE turns + 1
    /\ edges' = edges + 1
    /\ speaking' = TRUE
    /\ utterance' = [open |-> TRUE, edge |-> TRUE, overlap |-> utterance.overlap \/ active]
    /\ GateSpeaking
    /\ TraceSpeaking
    /\ UNCHANGED <<hooks, answered, muted, responseVars>>

\* on_user_state, from speaking to anything else.
UserStops ==
    /\ speaking
    /\ speaking' = FALSE
    /\ EnsureTurn
    /\ UNCHANGED <<gateVars, utterance, turns, edges, hooks, answered, muted, responseVars,
                   agentState, responseTurn, responsePending, playbackTurn>>

\* on_user_transcript: interim or final, with or without a speaking edge; the
\* hook of a final turn is still to come.
Transcript(text, final) ==
    /\ utterance.open \/ turns < MaxTurns
    /\ turns' = IF utterance.open THEN turns ELSE turns + 1
    /\ LET u == [utterance EXCEPT !.open = TRUE, !.overlap = @ \/ active]
       IN /\ utterance' = IF final THEN Quiet ELSE u
          /\ hooks' = IF final
                      THEN Append(hooks, [turn |-> turns', text |-> text, marked |-> Marks,
                                          clean |-> u.edge /\ ~u.overlap])
                      ELSE hooks
    /\ edges' = IF final THEN 0 ELSE edges
    /\ GateTranscript(text, final)
    /\ EnsureTurn
    /\ UNCHANGED <<speaking, answered, muted, responseVars, agentState, responseTurn,
                   responsePending, playbackTurn>>

\* Mutant: every "thinking" takes the response over.
ThinkingTakes ==
    /\ agentState' = "thinking"
    /\ EnsureTurn
    /\ responseTurn' = Ensured
    /\ responsePending' = TRUE
    /\ UNCHANGED playbackTurn

\* on_agent_state, thinking: the first one owns the response until it is
\* handed to playback.
Thinking ==
    LET takes == ~responsePending /\ playbackTurn = NoTurn
    IN /\ agentState' = "thinking"
       /\ IF takes THEN EnsureTurn ELSE UNCHANGED <<current, sequence>>
       /\ responseTurn' = IF takes THEN Ensured ELSE responseTurn
       /\ responsePending' = (responsePending \/ takes)
       /\ UNCHANGED playbackTurn

\* on_user_turn_completed of the oldest turn: StopResponse, or LiveKit asks
\* the LLM and reports that it is thinking.
HookRuns ==
    /\ hooks # <<>>
    /\ response = "none" \/ active
    /\ LET h == Head(hooks)
           stop == Suppressed(h.text)
       IN /\ pending' = AfterHook(h.text)
          /\ hooks' = Tail(hooks)
          /\ muted' = IF stop THEN muted \cup {[hook |-> h, active |-> active]} ELSE muted
          /\ answered' = IF stop THEN answered ELSE answered \cup {h}
          /\ IF stop THEN UNCHANGED <<responseVars, traceVars>>
             ELSE /\ responses < MaxResponses
                  /\ response' = "thinking" /\ responses' = responses + 1
                  /\ spoken' = FALSE /\ early' = FALSE
                  /\ owner' = Ensured
                  /\ fresh' = (~responsePending /\ playbackTurn = NoTurn)
                  /\ Thinking
    /\ UNCHANGED <<active, tainted, utterance, turns, edges, speaking>>

\* LiveKit skips the hook: a response it may not interrupt is active.
HookSkipped ==
    /\ hooks # <<>> /\ response # "none"
    /\ hooks' = Tail(hooks)
    /\ UNCHANGED <<gateVars, utterance, turns, edges, speaking, answered, muted, responseVars,
                   traceVars>>

----------------------------------------------------------------------------
(* The response.                                                           *)

\* A suppressed turn makes LiveKit think for a moment, with or without a
\* response on its way.
SpuriousThinking ==
    /\ agentState # "thinking"
    /\ Thinking
    /\ UNCHANGED <<gateVars, userVars, responseVars>>

\* Full-duplex input moves LiveKit to listening while the response goes on.
Listening ==
    /\ agentState # "listening"
    /\ agentState' = "listening"
    /\ UNCHANGED <<gateVars, userVars, responseVars, current, sequence, responseTurn,
                   responsePending, playbackTurn>>

\* The response is over, and with it what was remembered of its request.
ResponseOver ==
    /\ response' = "none" /\ spoken' = FALSE /\ owner' = NoTurn
    /\ fresh' = FALSE /\ early' = FALSE
    /\ agentState' = "listening"
    /\ UNCHANGED responses

\* The reply comes to nothing before it is on the wire.
Abandoned ==
    /\ response = "thinking"
    /\ ResponseOver
    /\ UNCHANGED <<gateVars, userVars, current, sequence, responseTurn, responsePending,
                   playbackTurn>>

\* on_agent_state, speaking: freeze_turn hands the response to playback, unless
\* the endpoint was first.
AgentSpeaks ==
    /\ response # "none" /\ ~spoken
    /\ spoken' = TRUE
    /\ agentState' = "speaking"
    /\ playbackTurn' = IF playbackTurn # NoTurn THEN playbackTurn
                       ELSE IF responseTurn # NoTurn THEN responseTurn ELSE Ensured
    /\ IF responseTurn = NoTurn THEN EnsureTurn ELSE UNCHANGED <<current, sequence>>
    /\ responsePending' = FALSE
    /\ UNCHANGED <<gateVars, userVars, response, owner, fresh, early, responses, responseTurn>>

\* The runtime begins the response on the wire: set_response_gate(True).
ResponseBegins ==
    /\ response = "thinking"
    /\ response' = "playing"
    /\ active' = TRUE
    /\ UNCHANGED <<tainted, pending, userVars, spoken, owner, fresh, early, responses, traceVars>>

\* runner.playback_started: LiveKit is told, then the trace, which falls back on
\* the current turn when nothing was handed over yet.
PlaybackStarted ==
    /\ response = "playing"
    /\ response' = "heard"
    /\ playbackTurn' = PlaybackTurn
    /\ early' = (playbackTurn = NoTurn /\ Ensured # owner)
    /\ IF playbackTurn = NoTurn THEN EnsureTurn ELSE UNCHANGED <<current, sequence>>
    /\ UNCHANGED <<gateVars, userVars, spoken, owner, fresh, responses, agentState, responseTurn,
                   responsePending>>

\* runner.playback_finished, then set_response_gate(False); a response may
\* end without having been heard.  clear_turn forgets the turn reported.
PlaybackFinished ==
    /\ response \in {"playing", "heard"}
    /\ ResponseOver
    /\ active' = FALSE
    /\ current' = Cleared(PlaybackTurn)
    /\ sequence' = IF playbackTurn = NoTurn /\ current = NoTurn THEN sequence + 1 ELSE sequence
    /\ playbackTurn' = NoTurn
    /\ UNCHANGED <<tainted, pending, userVars, responseTurn, responsePending>>

Next ==
    \/ UserSpeaks \/ UserStops
    \/ \E text \in Texts, final \in BOOLEAN : Transcript(text, final)
    \/ HookRuns \/ HookSkipped
    \/ SpuriousThinking \/ Listening \/ Abandoned \/ AgentSpeaks
    \/ ResponseBegins \/ PlaybackStarted \/ PlaybackFinished

Spec == Init /\ [][Next]_vars

----------------------------------------------------------------------------
(* Properties.                                                             *)

Marker == [turn : Nat, text : Texts]
Hook == [turn : Nat, text : Texts, marked : BOOLEAN, clean : BOOLEAN]

\* Types, and the bound of the gate: however many hooks LiveKit skips, the
\* markers stay within pending_limit (_PlaybackResponseGate).
TypeOK ==
    /\ active \in BOOLEAN /\ tainted \in BOOLEAN
    /\ pending \in Seq(Marker) /\ Len(pending) <= PendingLimit
    /\ utterance \in [open : BOOLEAN, edge : BOOLEAN, overlap : BOOLEAN]
    /\ turns \in Nat /\ edges \in Nat /\ speaking \in BOOLEAN
    /\ hooks \in Seq(Hook) /\ answered \subseteq Hook
    /\ muted \subseteq [hook : Hook, active : BOOLEAN]
    /\ response \in {"none", "thinking", "playing", "heard"} /\ spoken \in BOOLEAN
    /\ owner \in Nat /\ fresh \in BOOLEAN /\ early \in BOOLEAN /\ responses \in Nat
    /\ current \in Nat /\ sequence \in Nat
    /\ agentState \in {"initializing", "thinking", "listening", "speaking"}
    /\ responseTurn \in Nat /\ responsePending \in BOOLEAN /\ playbackTurn \in Nat

\* A marker never suppresses an unrelated later turn: one that began cleanly,
\* met no playback and was the newest when its hook ran outside playback is
\* answered, although an earlier turn had the same words and its hook was
\* skipped (user_state_changed, should_suppress).
CleanTurnAnswered ==
    [][\A m \in muted' \ muted :
          m.hook.clean /\ m.hook.turn = turns /\ ~utterance.open => m.active]_vars

\* Suppress LLM replies for user turns contaminated by endpoint playback
\* (_PlaybackResponseGate): a turn the gate marked is never answered.
\* It does not hold: should_suppress compares with the oldest marker only.
MarkedSuppressed == \A h \in answered : ~h.marked

\* The playback is on the wire's side of the handover: reported by LiveKit or
\* heard, whichever came first.
HandedOver == response # "none" /\ (spoken \/ response = "heard")

\* Endpoint playback is attributed to the turn the response was requested for,
\* whatever the user says in between and whether LiveKit reports "speaking"
\* before the playback or after it.  Two cases are excepted, and the next
\* definition is false because of them: the request found a response or a
\* playback that was never handed over or finished (an abandoned reply, a
\* suppressed turn's "thinking"), and the playback started before "speaking"
\* when the user had already opened another trace turn (freeze_turn,
\* on_agent_state, playback_started).
PlaybackAttributed == HandedOver /\ fresh /\ ~early => playbackTurn = owner

\* Keep the first response owner until it is handed to playback
\* (on_agent_state): without the exceptions.  It does not hold.
PlaybackAlwaysAttributed == HandedOver => playbackTurn = owner

=============================================================================
