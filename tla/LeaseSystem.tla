---------------------------- MODULE LeaseSystem ----------------------------
(***************************************************************************)
(* Routing of sessions: coordination store, director handlers, workers and *)
(* devices put together, with time passing.                                *)
(***************************************************************************)
EXTENDS WorkerRegistry

CONSTANT MaxTime    \* bound: the clock

ASSUME TimeAssumption == MaxTime \in Nat

vars == <<clock, storeVars, directorVars, workerVars>>

Init == clock = 0 /\ StoreInit /\ DirectorInit /\ WorkerInit

Tick ==
    /\ clock < MaxTime
    /\ clock' = clock + 1
    /\ UNCHANGED <<storeVars, directorVars, workerVars>>

DirectorStep ==
    \/ \E b \in Boots :
          \/ \E d \in Devices, offers \in SUBSET Workers : BootstrapList(b, d, offers)
          \/ BootstrapConflict(b)
          \/ BootstrapAbort(b)
          \/ \E w \in Workers : BootstrapFull(b, w) \/ BootstrapGrant(b, w)
    \/ \E w \in Workers, s \in Slots :
          \/ HeartbeatStart(w, s)
          \/ \E c \in hb[w][s].toRelease : HeartbeatRelease(w, s, c)
          \/ \E c \in hb[w][s].toRenew : HeartbeatRenew(w, s, c)
          \/ HeartbeatReply(w, s)
          \/ HeartbeatAbort(w, s)
    \/ \E g \in grants : Release(g)
    \/ \E w \in Workers : Drain(w)

SessionStep(w) ==
    \/ \E g \in grants : Reserve(w, g)
    \/ \E d \in Devices :
          \/ ConsumeStart(w, d)
          \/ ConsumeAccepted(w, d)
          \/ ConsumeRejected(w, d)
          \/ ConsumeUnavailable(w, d)
          \/ StartupAbort(w, d)
          \/ SessionStart(w, d)
          \/ SessionEnd(w, d)
    \/ RevokeExpired(w)

WorkerStep(w) ==
    \/ SessionStep(w)
    \/ \E s \in Slots :
          HeartbeatSend(w, s) \/ HeartbeatExtend(w, s) \/ HeartbeatFinish(w, s) \/ HeartbeatDiscard(w, s)
    \/ HeartbeatFail(w)
    \/ WorkerDrain(w)
    \/ ShutdownStart(w)
    \/ RegistryClose(w)
    \/ Restart(w)

\* The director's steps leave the workers alone.
Next ==
    \/ Tick
    \/ DirectorStep /\ UNCHANGED workerVars
    \/ \E w \in Workers : WorkerStep(w)

Spec == Init /\ [][Next]_vars

-----------------------------------------------------------------------------
\* Every variable of the store, the handlers and the workers keeps its type.
TypeOK == StoreTypeOK /\ DirectorTypeOK /\ WorkerTypeOK

\* A connection whose grant has been consumed.
Owns(w, d) == sess[w][d].st \in {"consumed", "running", "retiring"}

\* Core invariant 1 of docs/architecture/system.md: no two workers ever own a
\* session under the same device and session_epoch.  The epoch is bound to a
\* worker by acquire_route, the grant, consume_grant and the registry together.
OneOwnerPerEpoch ==
    \A v, w \in Workers, d \in Devices :
        /\ Owns(v, d) /\ Owns(w, d)
        /\ sess[v][d].fence = sess[w][d].fence
        => v = w

\* The worker would still accept media on this session.
Serves(w, d) == sess[w][d].st = "running" /\ sess[w][d].deadline > clock

\* Core invariant 5 of docs/architecture/system.md: once a lease is no longer
\* valid its epoch is dead.  A session that a worker still serves by its own
\* deadline (_lease_deadlines) has an unexpired lease in the store, unless the
\* route was released on purpose.  Holds when the heartbeat handlers of one
\* worker do not overlap (one slot).
ServedLeaseIsValid ==
    \A w \in Workers, d \in Devices :
        Serves(w, d) /\ ClaimOf(w, d) \notin released =>
            lease[d].fence = sess[w][d].fence /\ lease[d].exp > clock

\* Two workers serve one device at the same time only if the route of the older
\* session has been released on purpose: expiry alone never leads to two live
\* owners (renew_route, acquire_route, extend_lease_deadlines, revoke_expired_leases).
\* Holds when the heartbeat handlers of one worker do not overlap (one slot).
NoSplitBrain ==
    \A v, w \in Workers, d \in Devices :
        /\ Serves(v, d) /\ Serves(w, d)
        /\ sess[v][d].fence < sess[w][d].fence
        => ClaimOf(v, d) \in released

\* The per-worker route index that acquire_route counts for capacity holds every
\* unexpired lease of the worker, with the lease's own expiry as its score.
IndexCoversLeases ==
    \A w \in Workers, d \in Devices :
        lease[d].worker = w /\ lease[d].exp > clock => routes[w][d] = lease[d].exp

\* A lease whose grant was consumed is never leaked: its worker still has the
\* session or still has to send its release, unless the process died or took a
\* 503 for a refusal.  In particular acknowledge_lease_releases only drops
\* releases the director has really applied.
NoLeakedLease ==
    \A w \in Workers, d \in Devices :
        LET c == [dev |-> d, fence |-> lease[d].fence] IN
        /\ lease[d].worker = w /\ Present(d)
        /\ \E j \in jti : j.dev = d /\ j.fence = c.fence
        => \/ Owns(w, d) /\ sess[w][d].fence = c.fence
           \/ c \in pending[w]
           \/ c \in forgotten

\* What acquire_route may do to a route, whatever clock reading it was given:
\* tokens never go back, and a lease is replaced only after it has expired or
\* has been deleted, under a token larger than any before.
TakeoverStep ==
    \A d \in Devices :
        /\ fencing'[d] >= fencing[d]
        /\ lease'[d].fence # lease[d].fence /\ lease'[d].fence # 0 =>
              /\ lease'[d].fence > fencing[d]
              /\ lease[d].fence = 0 \/ lease[d].exp <= clock

Takeover == [][TakeoverStep]_vars

\* docs/architecture/server.md: a grant's jti is consumed once.  It does not
\* hold for a handler delayed past the grant's expiry.
GrantConsumedOnce ==
    \A i, j \in jti : i.dev = j.dev /\ i.fence = j.fence => i = j

\* docs/architecture/server.md: /workers/{id}/drain is one-way for a process.
\* It does not hold: the flag lapses with the heartbeat record, restart or not.
DrainIsOneWay ==
    [][\A w \in Workers : record[w].draining => record'[w].draining]_vars
=============================================================================
