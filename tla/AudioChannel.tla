---------------------------- MODULE AudioChannel ----------------------------
(***************************************************************************)
(* What the uplink promises the agent, whatever carries it: each packet of *)
(* the endpoint arrives at most once, and none after the input closed.     *)
(* Loss and lateness are allowed.                                          *)
(***************************************************************************)
EXTENDS Naturals, Sequences

VARIABLES
    offered,    \* packets the endpoint has sent
    delivered,  \* packets handed to the input, in order
    open        \* the input accepts packets

chanVars == <<offered, delivered, open>>

ChanInit == offered = {} /\ delivered = <<>> /\ open = TRUE

Offer ==
    /\ offered \subseteq offered' /\ offered # offered'
    /\ UNCHANGED <<delivered, open>>

DeliverOnce ==
    /\ open = TRUE
    /\ \E p \in offered :
         /\ \A i \in DOMAIN delivered : delivered[i] # p
         /\ delivered' = Append(delivered, p)
    /\ UNCHANGED <<offered, open>>

Shut == open = TRUE /\ open' = FALSE /\ UNCHANGED <<offered, delivered>>

ChanSpec == ChanInit /\ [][Offer \/ DeliverOnce \/ Shut]_chanVars
=============================================================================
