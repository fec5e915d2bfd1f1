----------------------------- MODULE TurnProofs -----------------------------
(***************************************************************************)
(* Turn taking, proved for any transcripts, any number of turns and        *)
(* responses and any capacity of the gate: playback is attributed to the   *)
(* turn it answers, whether LiveKit reports the speech before or after the *)
(* endpoint plays it, and a clean turn is answered.                        *)
(***************************************************************************)
EXTENDS TurnTaking, TLAPS

\* Hooks wait for earlier turns than the one that is open.
HooksInOrder ==
    \A i \in DOMAIN hooks : hooks[i].turn <= turns /\ (utterance.open => hooks[i].turn < turns)

\* The response on its way, and what the observers remember of it: until LiveKit
\* or the endpoint hands it over the request's turn is remembered as pending,
\* from then on as the playback's.
Handover ==
    /\ active <=> response \in {"playing", "heard"}
    /\ response # "none" /\ fresh =>
         /\ owner # NoTurn
         /\ ~spoken => responsePending /\ responseTurn = owner
         /\ ~spoken /\ response # "heard" => playbackTurn = NoTurn
         /\ response # "heard" => ~early
         /\ spoken \/ response = "heard" => playbackTurn # NoTurn /\ (~early => playbackTurn = owner)

\* A clean utterance began by dropping the markers, and neither it nor its final
\* added one.
CleanUnmarked ==
    /\ ~utterance.open => utterance = Quiet
    /\ utterance.open /\ utterance.edge /\ ~utterance.overlap => pending = <<>> /\ ~tainted
    /\ ~utterance.open =>
         \A i \in DOMAIN hooks : hooks[i].clean /\ hooks[i].turn = turns => pending = <<>>

Clean == HooksInOrder /\ CleanUnmarked

----------------------------------------------------------------------------
(* The operators the actions share.                                        *)

\* Tracer.ensure_turn returns a turn, the one it made current.
LEMMA EnsureTurnKeeps ==
    ASSUME TypeOK, EnsureTurn
    PROVE  current' \in Nat /\ sequence' \in Nat
BY DEF TypeOK, EnsureTurn, NoTurn

\* The turn ensure_turn returns is one.
LEMMA EnsuredTurn ==
    ASSUME TypeOK
    PROVE  Ensured \in Nat /\ Ensured # NoTurn
BY DEF TypeOK, Ensured, NoTurn

\* on_agent_state, thinking.
LEMMA ThinkingKeeps ==
    ASSUME TypeOK, Thinking
    PROVE  /\ current' \in Nat /\ sequence' \in Nat /\ agentState' = "thinking"
           /\ responseTurn' \in Nat /\ responsePending' \in BOOLEAN /\ playbackTurn' = playbackTurn
           /\ ~responsePending /\ playbackTurn = NoTurn => responseTurn' = Ensured /\ responsePending'
           /\ responsePending \/ playbackTurn # NoTurn =>
                responseTurn' = responseTurn /\ responsePending' = responsePending
<1>1. current' \in Nat /\ sequence' \in Nat
    BY EnsureTurnKeeps DEF TypeOK, Thinking
<1>2. responseTurn' \in Nat
    BY EnsuredTurn DEF TypeOK, Thinking
<1>3. responsePending' \in BOOLEAN
    BY DEF Thinking
<1> QED
    BY <1>1, <1>2, <1>3 DEF TypeOK, Thinking

\* The gate's deque keeps its bound.
LEMMA MarkedKeeps ==
    ASSUME TypeOK, NEW m \in Marker
    PROVE  Marked(m) \in Seq(Marker) /\ Len(Marked(m)) <= PendingLimit
<1>1. CASE Len(pending) = PendingLimit
    <2>1. pending # <<>> /\ Tail(pending) \in Seq(Marker) /\ Len(Tail(pending)) = Len(pending) - 1
        BY <1>1, TurnAssumption DEF TypeOK
    <2> QED
        BY <1>1, <2>1, TurnAssumption DEF TypeOK, Marked
<1>2. CASE Len(pending) # PendingLimit
    BY <1>2, TurnAssumption DEF TypeOK, Marked
<1> QED
    BY <1>1, <1>2

\* should_suppress consumes the head marker or drops all of them.
LEMMA AfterHookKeeps ==
    ASSUME TypeOK, NEW text
    PROVE  /\ AfterHook(text) \in Seq(Marker) /\ Len(AfterHook(text)) <= PendingLimit
           /\ pending = <<>> => AfterHook(text) = <<>>
BY TurnAssumption DEF TypeOK, AfterHook

----------------------------------------------------------------------------
(* Types.                                                                  *)

\* Every step keeps the types and the bound of the deque.
LEMMA TypeStep ==
    ASSUME TypeOK, [Next]_vars
    PROVE  TypeOK'
<1> USE DEF gateVars, userVars, responseVars, traceVars
<1>1. CASE UserSpeaks
    <2>1. current' \in Nat /\ sequence' \in Nat
        BY <1>1, EnsureTurnKeeps DEF UserSpeaks, TraceSpeaking, TypeOK
    <2>2. pending' \in Seq(Marker) /\ Len(pending') <= PendingLimit /\ tainted' \in BOOLEAN
        BY <1>1, TurnAssumption DEF UserSpeaks, GateSpeaking, TypeOK
    <2>3. utterance' \in [open : BOOLEAN, edge : BOOLEAN, overlap : BOOLEAN]
        BY <1>1 DEF UserSpeaks, TypeOK
    <2> QED
        BY <1>1, <2>1, <2>2, <2>3 DEF UserSpeaks, GateSpeaking, TraceSpeaking, TypeOK
<1>2. CASE UserStops
    BY <1>2, EnsureTurnKeeps, ZenonT(60) DEF UserStops, TypeOK
<1>3. ASSUME NEW text \in Texts, NEW final \in BOOLEAN, Transcript(text, final)
      PROVE  TypeOK'
    <2>1. current' \in Nat /\ sequence' \in Nat
        BY <1>3, EnsureTurnKeeps DEF Transcript
    <2>2. turns' \in Nat /\ edges' \in Nat
        BY <1>3 DEF Transcript, TypeOK
    <2>3. [turn |-> turns', text |-> text] \in Marker
        BY <2>2 DEF Marker
    <2>4. pending' \in Seq(Marker) /\ Len(pending') <= PendingLimit
        BY <1>3, <2>3, MarkedKeeps DEF Transcript, GateTranscript, TypeOK
    <2>5. tainted' \in BOOLEAN
        BY <1>3 DEF Transcript, GateTranscript
    <2>6. utterance' \in [open : BOOLEAN, edge : BOOLEAN, overlap : BOOLEAN]
        BY <1>3 DEF Transcript, TypeOK, Quiet
    <2>7. hooks' \in Seq(Hook)
        <3> DEFINE u == [utterance EXCEPT !.open = TRUE, !.overlap = @ \/ active]
                   h == [turn |-> turns', text |-> text, marked |-> Marks, clean |-> u.edge /\ ~u.overlap]
        <3>1. Marks \in BOOLEAN /\ (u.edge /\ ~u.overlap) \in BOOLEAN
            BY DEF Marks
        <3>2. h \in Hook
            BY <2>2, <3>1 DEF Hook
        <3>3. hooks' = IF final THEN Append(hooks, h) ELSE hooks
            BY <1>3 DEF Transcript
        <3> HIDE DEF h
        <3> QED
            BY <3>2, <3>3 DEF TypeOK
    <2> QED
        BY <1>3, <2>1, <2>2, <2>4, <2>5, <2>6, <2>7 DEF Transcript, GateTranscript, TypeOK
<1>4. CASE HookRuns
    <2> DEFINE h == Head(hooks)
    <2>1. h \in Hook /\ Tail(hooks) \in Seq(Hook)
        BY <1>4 DEF HookRuns, TypeOK
    <2>2. hooks' \in Seq(Hook) /\ pending' \in Seq(Marker) /\ Len(pending') <= PendingLimit
        BY <1>4, <2>1, AfterHookKeeps DEF HookRuns
    <2>3. answered' \subseteq Hook /\ muted' \subseteq [hook : Hook, active : BOOLEAN]
        BY <1>4, <2>1 DEF HookRuns, TypeOK
    <2>4. CASE Suppressed(h.text)
        BY <1>4, <2>2, <2>3, <2>4 DEF HookRuns, TypeOK
    <2>5. CASE ~Suppressed(h.text)
        <3>1. /\ Thinking /\ owner' = Ensured /\ response' = "thinking"
              /\ responses' = responses + 1
            BY <1>4, <2>5 DEF HookRuns
        <3>2. spoken' \in BOOLEAN /\ early' \in BOOLEAN /\ fresh' \in BOOLEAN
            BY <1>4, <2>5 DEF HookRuns
        <3> QED
            BY <1>4, <2>2, <2>3, <3>1, <3>2, ThinkingKeeps, EnsuredTurn DEF HookRuns, TypeOK
    <2> QED
        BY <2>4, <2>5
<1>5. CASE HookSkipped
    BY <1>5 DEF HookSkipped, TypeOK
<1>6. CASE SpuriousThinking
    BY <1>6, ThinkingKeeps DEF SpuriousThinking, TypeOK
<1>7. CASE Listening
    BY <1>7 DEF Listening, TypeOK
<1>8. CASE Abandoned
    <2>1. spoken' \in BOOLEAN /\ early' \in BOOLEAN /\ fresh' \in BOOLEAN
        BY <1>8 DEF Abandoned, ResponseOver
    <2> QED
        BY <1>8, <2>1 DEF Abandoned, ResponseOver, TypeOK, NoTurn
<1>9. CASE AgentSpeaks
    <2>1. current' \in Nat /\ sequence' \in Nat
        BY <1>9, EnsureTurnKeeps DEF AgentSpeaks, TypeOK
    <2>2. spoken' \in BOOLEAN /\ responsePending' \in BOOLEAN
        BY <1>9 DEF AgentSpeaks
    <2> QED
        BY <1>9, <2>1, <2>2, EnsuredTurn DEF AgentSpeaks, TypeOK
<1>10. CASE ResponseBegins
    BY <1>10 DEF ResponseBegins, TypeOK
<1>11. CASE PlaybackStarted
    <2>1. current' \in Nat /\ sequence' \in Nat
        BY <1>11, EnsureTurnKeeps DEF PlaybackStarted, TypeOK
    <2>2. early' \in BOOLEAN
        BY <1>11 DEF PlaybackStarted
    <2> QED
        BY <1>11, <2>1, <2>2, EnsuredTurn DEF PlaybackStarted, PlaybackTurn, TypeOK
<1>12. CASE PlaybackFinished
    <2>1. spoken' \in BOOLEAN /\ early' \in BOOLEAN /\ fresh' \in BOOLEAN /\ active' \in BOOLEAN
        BY <1>12 DEF PlaybackFinished, ResponseOver
    <2>2. current' \in Nat /\ sequence' \in Nat
        BY <1>12 DEF PlaybackFinished, Cleared, TypeOK, NoTurn
    <2> QED
        BY <1>12, <2>1, <2>2 DEF PlaybackFinished, ResponseOver, TypeOK, NoTurn
<1>13. CASE UNCHANGED vars
    BY <1>13 DEF vars, TypeOK
<1> QED
    BY <1>1, <1>2, <1>3, <1>4, <1>5, <1>6, <1>7, <1>8, <1>9, <1>10, <1>11, <1>12, <1>13 DEF Next

----------------------------------------------------------------------------
(* The response and its turn.                                              *)

\* A response is handed from its request to playback under one turn.
LEMMA HandoverStep ==
    ASSUME TypeOK, Handover, [Next]_vars
    PROVE  Handover'
<1> USE DEF gateVars, userVars, responseVars, traceVars, Handover
<1>1. CASE UserSpeaks
    BY <1>1 DEF UserSpeaks, GateSpeaking, TraceSpeaking
<1>2. CASE UserStops
    BY <1>2 DEF UserStops
<1>3. ASSUME NEW text \in Texts, NEW final \in BOOLEAN, Transcript(text, final)
      PROVE  Handover'
    BY <1>3 DEF Transcript, GateTranscript
<1>4. CASE HookRuns
    <2> DEFINE h == Head(hooks)
    <2>1. CASE Suppressed(h.text)
        BY <1>4, <2>1 DEF HookRuns
    <2>2. CASE ~Suppressed(h.text)
        <3>1. /\ Thinking /\ owner' = Ensured /\ response' = "thinking" /\ UNCHANGED active
              /\ ~spoken' /\ ~early' /\ (fresh' <=> ~responsePending /\ playbackTurn = NoTurn)
            BY <1>4, <2>2 DEF HookRuns
        <3>2. ~active /\ response = "none"
            BY <1>4, <2>2 DEF HookRuns, Suppressed
        <3> QED
            BY <3>1, <3>2, ThinkingKeeps, EnsuredTurn DEF TypeOK
    <2> QED
        BY <2>1, <2>2
<1>5. CASE HookSkipped
    BY <1>5 DEF HookSkipped
<1>6. CASE SpuriousThinking
    <2>1. CASE response # "none" /\ fresh
        <3>1. responsePending \/ playbackTurn # NoTurn
            BY <2>1 DEF TypeOK
        <3> QED
            BY <1>6, <3>1, ThinkingKeeps DEF SpuriousThinking
    <2>2. CASE ~(response # "none" /\ fresh)
        BY <1>6, <2>2 DEF SpuriousThinking
    <2> QED
        BY <2>1, <2>2
<1>7. CASE Listening
    BY <1>7 DEF Listening
<1>8. CASE Abandoned
    BY <1>8 DEF Abandoned, ResponseOver
<1>9. CASE AgentSpeaks
    BY <1>9 DEF AgentSpeaks, NoTurn
<1>10. CASE ResponseBegins
    BY <1>10 DEF ResponseBegins
<1>11. CASE PlaybackStarted
    BY <1>11, EnsuredTurn DEF PlaybackStarted, PlaybackTurn
<1>12. CASE PlaybackFinished
    BY <1>12 DEF PlaybackFinished, ResponseOver
<1>13. CASE UNCHANGED vars
    BY <1>13 DEF vars
<1> QED
    BY <1>1, <1>2, <1>3, <1>4, <1>5, <1>6, <1>7, <1>8, <1>9, <1>10, <1>11, <1>12, <1>13 DEF Next

----------------------------------------------------------------------------
(* Clean turns and the gate's markers.                                     *)

\* Only the user's actions and the hooks touch what Clean speaks of.
LEMMA CleanFrame ==
    ASSUME Clean, UNCHANGED <<pending, tainted, utterance, turns, hooks>>
    PROVE  Clean'
BY DEF Clean, HooksInOrder, CleanUnmarked

\* The turns of the hooks are numbers.
LEMMA HookTurns ==
    ASSUME TypeOK
    PROVE  \A i \in DOMAIN hooks : hooks[i].turn \in Nat
<1>1. \A i \in DOMAIN hooks : hooks[i] \in Hook
    BY DEF TypeOK
<1> QED
    BY <1>1 DEF Hook

\* No step gives a clean turn a marker.
LEMMA CleanStep ==
    ASSUME TypeOK, Clean, [Next]_vars
    PROVE  Clean'
<1> USE DEF gateVars, userVars, responseVars, traceVars
<1>1. CASE UserSpeaks
    <2>1. hooks' = hooks /\ utterance'.open /\ utterance'.edge /\ (utterance'.overlap = (utterance.overlap \/ active))
        BY <1>1 DEF UserSpeaks
    <2>3. HooksInOrder'
        BY <1>1, <2>1, HookTurns DEF UserSpeaks, Clean, HooksInOrder, TypeOK
    <2>4. CleanUnmarked'
        BY <1>1, <2>1 DEF UserSpeaks, GateSpeaking, CleanUnmarked
    <2> QED
        BY <2>3, <2>4 DEF Clean
<1>2. CASE UserStops
    BY <1>2, CleanFrame DEF UserStops
<1>3. ASSUME NEW text \in Texts, NEW final \in BOOLEAN, Transcript(text, final)
      PROVE  Clean'
    <2> DEFINE u == [utterance EXCEPT !.open = TRUE, !.overlap = @ \/ active]
               h == [turn |-> turns', text |-> text, marked |-> Marks, clean |-> u.edge /\ ~u.overlap]
    <2>1. \A i \in DOMAIN hooks : hooks[i].turn \in Nat /\ hooks[i].turn < turns'
        BY <1>3, HookTurns DEF Transcript, TypeOK, Clean, HooksInOrder
    <2>2. turns' \in Nat
        BY <1>3 DEF Transcript, TypeOK
    <2>3. u.open /\ (u.edge <=> utterance.edge) /\ (u.overlap <=> utterance.overlap \/ active)
        BY DEF TypeOK
    <2>4. CASE ~final
        <3>1. hooks' = hooks /\ utterance' = u /\ pending' = pending /\ tainted' = (tainted \/ active)
            BY <1>3, <2>4 DEF Transcript, GateTranscript
        <3>2. HooksInOrder'
            BY <2>1, <2>2, <3>1 DEF HooksInOrder
        <3>3. utterance.edge => utterance.open
            BY DEF Clean, CleanUnmarked, Quiet
        <3>4. CleanUnmarked'
            BY <2>3, <3>1, <3>3 DEF Clean, CleanUnmarked
        <3> QED
            BY <3>2, <3>4 DEF Clean
    <2>5. CASE final
        <3>1. hooks' = Append(hooks, h) /\ utterance' = Quiet
            BY <1>3, <2>5 DEF Transcript
        <3>2. h.turn = turns' /\ (h.clean <=> u.edge /\ ~u.overlap)
            OBVIOUS
        <3> HIDE DEF h
        <3>3. DOMAIN hooks' = 1 .. Len(hooks) + 1 /\ DOMAIN hooks = 1 .. Len(hooks) /\ Len(hooks) \in Nat
            BY <3>1 DEF TypeOK
        <3>4. \A i \in DOMAIN hooks' : hooks'[i] = h \/ (i \in DOMAIN hooks /\ hooks'[i] = hooks[i])
            BY <3>1, <3>3 DEF TypeOK
        <3>5. HooksInOrder'
            BY <2>1, <2>2, <3>1, <3>2, <3>4 DEF HooksInOrder, Quiet
        <3>6. h.clean => pending' = <<>>
            <4>1. utterance.edge => utterance.open
                BY DEF Clean, CleanUnmarked, Quiet
            <4>2. h.clean => pending = <<>> /\ ~tainted /\ ~active
                BY <2>3, <3>2, <4>1 DEF Clean, CleanUnmarked
            <4> QED
                BY <1>3, <4>2 DEF Transcript, GateTranscript
        <3>7. CleanUnmarked'
            BY <2>1, <2>2, <3>1, <3>4, <3>6 DEF CleanUnmarked, Quiet
        <3> QED
            BY <3>5, <3>7 DEF Clean
    <2> QED
        BY <2>4, <2>5
<1>4. CASE HookRuns \/ HookSkipped
    <2>1. hooks # <<>> /\ hooks' = Tail(hooks) /\ UNCHANGED <<tainted, utterance, turns>>
        BY <1>4 DEF HookRuns, HookSkipped
    <2>2. pending = <<>> => pending' = <<>>
        BY <1>4, AfterHookKeeps DEF HookRuns, HookSkipped
    <2>3. \A i \in DOMAIN hooks' : i + 1 \in DOMAIN hooks /\ hooks'[i] = hooks[i + 1]
        BY <2>1 DEF TypeOK
    <2>4. HooksInOrder'
        BY <2>1, <2>3 DEF Clean, HooksInOrder
    <2>5. CleanUnmarked'
        BY <2>1, <2>2, <2>3 DEF Clean, CleanUnmarked
    <2> QED
        BY <2>4, <2>5 DEF Clean
<1>5. CASE SpuriousThinking \/ Listening \/ Abandoned
    BY <1>5, CleanFrame DEF SpuriousThinking, Listening, Abandoned, ResponseOver
<1>6. CASE AgentSpeaks \/ ResponseBegins \/ PlaybackStarted \/ PlaybackFinished
    BY <1>6, CleanFrame DEF AgentSpeaks, ResponseBegins, PlaybackStarted, PlaybackFinished, ResponseOver
<1>7. CASE UNCHANGED vars
    BY <1>7, CleanFrame DEF vars
<1> QED
    BY <1>1, <1>2, <1>3, <1>4, <1>5, <1>6, <1>7 DEF Next

----------------------------------------------------------------------------
(* The theorems.                                                           *)

\* The observers are registered and the gate is built before anyone speaks.
LEMMA TurnInit == Init => TypeOK /\ Handover /\ Clean
<1> SUFFICES ASSUME Init PROVE TypeOK /\ Handover /\ Clean
    OBVIOUS
<1>1. <<>> \in Seq(Marker) /\ <<>> \in Seq(Hook) /\ Len(<<>>) <= PendingLimit
    BY TurnAssumption
<1>2. TypeOK
    BY <1>1 DEF Init, TypeOK, Quiet, NoTurn
<1>3. Handover /\ Clean
    BY DEF Init, Handover, Clean, HooksInOrder, CleanUnmarked, Quiet
<1> QED
    BY <1>2, <1>3

\* The inductive invariant holds in every reachable state.
LEMMA TurnAlways == Spec => [](TypeOK /\ Handover /\ Clean)
BY TurnInit, TypeStep, HandoverStep, CleanStep, PTL DEF Spec

\* The types of the gate, the user and the observers, and the bound of the
\* gate's markers, for any pending_limit.
THEOREM TurnsTyped == Spec => []TypeOK
BY TurnAlways, PTL

\* Endpoint playback is attributed to the turn the response was requested for,
\* for any number of turns, edges and responses and whether LiveKit or the
\* endpoint reports it first, but for the two cases PlaybackAttributed excepts
\* (freeze_turn, on_agent_state, playback_started).
THEOREM PlaybackOwned == Spec => []PlaybackAttributed
<1>1. Handover => PlaybackAttributed
    BY DEF Handover, PlaybackAttributed, HandedOver
<1> QED
    BY <1>1, TurnAlways, PTL

\* No marker outlives the turn it was made for: a clean newest turn is muted
\* only by playback that is active when its hook runs (should_suppress,
\* user_state_changed).
THEOREM CleanTurnHeard == Spec => CleanTurnAnswered
<1> DEFINE Heard == \A m \in muted' \ muted :
                       m.hook.clean /\ m.hook.turn = turns /\ ~utterance.open => m.active
<1>1. ASSUME TypeOK, Clean, [Next]_vars PROVE Heard
    <2>1. CASE HookRuns
        <3> DEFINE h == Head(hooks)
        <3>1. ASSUME NEW m \in muted' \ muted, m.hook.clean, m.hook.turn = turns, ~utterance.open
              PROVE  m.active
            <4>1. m = [hook |-> h, active |-> active] /\ Suppressed(h.text)
                BY <2>1, <3>1 DEF HookRuns
            <4>2. 1 \in DOMAIN hooks /\ h = hooks[1]
                BY <1>1, <2>1 DEF HookRuns, TypeOK
            <4>3. m.hook = hooks[1]
                BY <4>1, <4>2
            <4>4. pending = <<>>
                BY <1>1, <3>1, <4>2, <4>3 DEF Clean, CleanUnmarked
            <4> QED
                BY <4>1, <4>4 DEF Suppressed
        <3> QED
            BY <3>1
    <2>2. HookRuns \/ UNCHANGED muted
        BY <1>1 DEF Next, vars, gateVars, userVars, responseVars, traceVars, UserSpeaks, UserStops, Transcript,
                    HookSkipped, SpuriousThinking, Listening, Abandoned, AgentSpeaks, ResponseBegins,
                    PlaybackStarted, PlaybackFinished
    <2> QED
        BY <2>1, <2>2
<1> QED
    BY <1>1, TurnAlways, PTL DEF Spec, CleanTurnAnswered

=============================================================================
