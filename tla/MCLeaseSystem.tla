--------------------------- MODULE MCLeaseSystem ---------------------------
(***************************************************************************)
(* Bounded instances of LeaseSystem.  A behaviour happens within a scope:  *)
(* the workers and devices that take part, how many heartbeats are sent    *)
(* and how many disturbances (losses, timeouts, aborts, drains, shutdowns, *)
(* restarts) happen.                                                       *)
(***************************************************************************)
EXTENDS LeaseSystem

CONSTANTS
    Scopes,     \* bound: [workers, devices, beats, disturbances] of a behaviour
    Kinds       \* the kinds of disturbances that may happen

VARIABLES beats, disturbances, scope

mcVars == <<vars, beats, disturbances, scope>>

OneEach == [w \in Workers |-> 1]

\* One worker and every device, disturbed once; or every worker and one device.
RenewOrMove ==
    { [workers |-> {1}, devices |-> Devices, beats |-> 2, disturbances |-> 1],
      [workers |-> Workers, devices |-> {CHOOSE d \in Devices : TRUE}, beats |-> 2, disturbances |-> 0] }
Everyone == { [workers |-> Workers, devices |-> Devices, beats |-> 3, disturbances |-> 1] }

MCInit == Init /\ beats = 0 /\ disturbances = 0 /\ scope \in Scopes

Disturb ==
    \/ /\ \/ "abort"   \in Kinds /\ \E b \in Boots : BootstrapAbort(b)
          \/ "abort"   \in Kinds /\ \E w \in scope.workers, s \in Slots : HeartbeatAbort(w, s)
          \/ "release" \in Kinds /\ \E g \in grants : Release(g)
          \/ "drain"   \in Kinds /\ \E w \in scope.workers : Drain(w)
       /\ UNCHANGED workerVars
    \/ \E w \in scope.workers :
          \/ "abort"   \in Kinds /\ \E d \in scope.devices : ConsumeUnavailable(w, d) \/ StartupAbort(w, d)
          \/ "abort"   \in Kinds /\ HeartbeatFail(w)
          \/ "end"     \in Kinds /\ \E d \in scope.devices : SessionEnd(w, d)
          \/ "drain"   \in Kinds /\ WorkerDrain(w)
          \/ "restart" \in Kinds /\ ShutdownStart(w)
          \/ "restart" \in Kinds /\ Restart(w)

Beat == \E w \in scope.workers, s \in Slots : HeartbeatSend(w, s)

Progress ==
    \/ Tick
    \/ /\ \/ \E b \in Boots :
                \/ \E d \in scope.devices, offers \in SUBSET scope.workers : BootstrapList(b, d, offers)
                \/ BootstrapConflict(b)
                \/ \E w \in scope.workers : BootstrapFull(b, w) \/ BootstrapGrant(b, w)
          \/ \E w \in scope.workers, s \in Slots :
                \/ HeartbeatStart(w, s)
                \/ \E c \in hb[w][s].toRelease : HeartbeatRelease(w, s, c)
                \/ \E c \in hb[w][s].toRenew : HeartbeatRenew(w, s, c)
                \/ HeartbeatReply(w, s)
       /\ UNCHANGED workerVars
    \/ \E w \in scope.workers :
          \/ \E g \in grants : Reserve(w, g)
          \/ \E d \in scope.devices :
                ConsumeStart(w, d) \/ ConsumeAccepted(w, d) \/ ConsumeRejected(w, d) \/ SessionStart(w, d)
          \/ RevokeExpired(w)
          \/ \E s \in Slots : HeartbeatExtend(w, s) \/ HeartbeatFinish(w, s) \/ HeartbeatDiscard(w, s)
          \/ RegistryClose(w)

MCNext ==
    /\ \/ Progress /\ UNCHANGED <<beats, disturbances>>
       \/ Beat /\ beats < scope.beats /\ beats' = beats + 1 /\ UNCHANGED disturbances
       \/ /\ Disturb
          /\ disturbances < scope.disturbances
          /\ disturbances' = disturbances + 1
          /\ UNCHANGED beats
    /\ UNCHANGED scope

MCSpec == MCInit /\ [][MCNext]_mcVars
=============================================================================
