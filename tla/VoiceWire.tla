------------------------------ MODULE VoiceWire ------------------------------
(***************************************************************************)
(* The WebSocket between a realtime worker and an endpoint that negotiated *)
(* wss-opus/1: two reliable FIFO streams, control and media in one.  Only  *)
(* the fields the receivers decide on are kept.                            *)
(***************************************************************************)
EXTENDS Integers, Sequences

VARIABLES
    down,   \* frames from the server that the endpoint has not handled
    up      \* messages from the endpoint that the server has not read

wireVars == <<down, up>>

DownType == {"begin", "media", "end", "stop", "close"}
UpType   == {"started", "ended", "cancel", "close", "disconnect"}

\* arg is the media sequence, the final media sequence, the fence generation or
\* the request id, whichever the message has; -1 where it is absent.
Message == [type : DownType \cup UpType, gen : Nat, arg : Nat \cup {-1},
            outcome : {"none", "completed", "cancelled", "stopped", "failed"}, played : BOOLEAN]

Plain(type, g, arg) == [type |-> type, gen |-> g, arg |-> arg, outcome |-> "none", played |-> FALSE]

BeginMsg(g)           == Plain("begin", g, -1)
MediaMsg(g, seq)      == Plain("media", g, seq)
StopMsg(g, fence)     == Plain("stop", g, fence)
StartedMsg(g, seq)    == Plain("started", g, seq)
CancelMsg(g, id)      == Plain("cancel", g, id)
CloseMsg              == Plain("close", 0, -1)
DisconnectMsg         == Plain("disconnect", 0, -1)
EndMsg(g, outcome, final) == [Plain("end", g, final) EXCEPT !.outcome = outcome]
EndedMsg(g, outcome, played, last) ==
    [Plain("ended", g, last) EXCEPT !.outcome = outcome, !.played = played]

WireTypeOK == down \in Seq(Message) /\ up \in Seq(Message)

WireInit == down = <<>> /\ up = <<>>
=============================================================================
