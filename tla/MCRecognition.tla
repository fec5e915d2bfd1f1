---------------------------- MODULE MCRecognition ----------------------------
(***************************************************************************)
(* Bounded instances of Recognition: one message of each class the server  *)
(* may send.                                                               *)
(***************************************************************************)
EXTENDS Recognition

Message(t, c, x) == [type |-> t, code |-> c, text |-> x]

AllMessages ==
    {Message("ready", "", ""), Message("interim", "", "a"), Message("interim", "", "b"),
     Message("interim", "", ""), Message("final", "", "a"), Message("final", "", ""),
     Message("error", "no_speech", ""), Message("error", "busy", ""),
     Message("error", "invalid_audio", ""), Message("malformed", "", "")}
=============================================================================
