--------------------------- MODULE WorkerRegistry ---------------------------
(***************************************************************************)
(* The lease side of a Realtime Worker: SharedSessionAdmission             *)
(* (admission.py), RvaSessionRegistry, WorkerHeartbeatLoop, the WebSocket  *)
(* endpoint and the shutdown sequence (app.py).                            *)
(*                                                                         *)
(* One admission reservation per principal makes sess[w][d] the only       *)
(* connection a worker can have for a device:                              *)
(*   reserved   admission token held, consume request on its way           *)
(*   consuming  the director has verified the grant and read its clock     *)
(*   consumed   the consume script has run                                 *)
(*   running    in _connections and _lease_deadlines                       *)
(*   retiring   revoked, its close not finished, reservation still held    *)
(***************************************************************************)
EXTENDS SessionDirector

VARIABLES
    sess,       \* connections and reservations
    pending,    \* _pending_releases
    draining,   \* SharedSessionAdmission._draining
    phase,      \* progress of the shutdown
    awaiting,   \* the slot of the heartbeat whose reply send_once waits for, 0 if none
    forgotten   \* history: claims the process no longer knows of, without having queued a release

workerVars == <<sess, pending, draining, phase, awaiting, forgotten>>

SessionState == {"idle", "reserved", "consuming", "consumed", "running", "retiring"}

Session == [st : SessionState, fence : Nat, exp : Nat, now : Nat, deadline : Nat]

NoSession == [st |-> "idle", fence |-> 0, exp |-> 0, now |-> 0, deadline |-> 0]

WorkerInit ==
    /\ sess      = [w \in Workers |-> [d \in Devices |-> NoSession]]
    /\ pending   = [w \in Workers |-> {}]
    /\ draining  = [w \in Workers |-> FALSE]
    /\ phase     = [w \in Workers |-> "up"]
    /\ awaiting  = [w \in Workers |-> 0]
    /\ forgotten = {}

WorkerTypeOK ==
    /\ sess      \in [Workers -> [Devices -> Session]]
    /\ pending   \in [Workers -> SUBSET Claim]
    /\ draining  \in [Workers -> BOOLEAN]
    /\ phase     \in [Workers -> {"up", "stopping", "closed"}]
    /\ awaiting  \in [Workers -> Slots \cup {0}]
    /\ forgotten \in SUBSET Claim

-----------------------------------------------------------------------------

\* The claims of w's sessions for the devices in D.
ClaimOf(w, d) == [dev |-> d, fence |-> sess[w][d].fence]

ClaimsOf(w, D) == {ClaimOf(w, d) : d \in D}

Running(w) == {d \in Devices : sess[w][d].st = "running"}

Reservations(w) == {d \in Devices : sess[w][d].st # "idle"}

Expired(w) == {d \in Running(w) : sess[w][d].deadline <= clock}

\* _remove_claims_locked and _schedule_retirements for the devices in D.
Retired(w, D) ==
    [d \in Devices |-> IF d \in D THEN [sess[w][d] EXCEPT !.st = "retiring", !.deadline = 0]
                       ELSE sess[w][d]]

Revoke(w, D) ==
    /\ sess'    = [sess EXCEPT ![w] = Retired(w, D)]
    /\ pending' = [pending EXCEPT ![w] = @ \cup ClaimsOf(w, D)]

\* The reservation is released and the session is gone.
Forget(w, d) == sess' = [sess EXCEPT ![w][d] = NoSession]

QueueRelease(w, d) == pending' = [pending EXCEPT ![w] = @ \cup {ClaimOf(w, d)}]

-----------------------------------------------------------------------------
(* A device presents a grant.                                              *)

\* WorkerAuthenticator.verify, then RvaSessionRegistry.reserve.
Reserve(w, g) ==
    /\ g.worker = w
    /\ g.exp > clock
    /\ phase[w] # "closed"
    /\ ~ draining[w]
    /\ Cardinality(Reservations(w)) < MaxSessions[w]
    /\ sess[w][g.dev].st = "idle"
    /\ sess' = [sess EXCEPT ![w][g.dev] =
                   [st |-> "reserved", fence |-> g.fence, exp |-> g.exp, now |-> 0, deadline |-> 0]]
    /\ UNCHANGED <<clock, storeVars, directorVars, pending, draining, phase, awaiting, forgotten>>

\* DirectorService.consume_grant up to the await: verify, read the clock.
ConsumeStart(w, d) ==
    /\ sess[w][d].st = "reserved"
    /\ sess[w][d].exp > clock
    /\ sess' = [sess EXCEPT ![w][d] = [sess[w][d] EXCEPT !.st = "consuming", !.now = clock]]
    /\ UNCHANGED <<clock, storeVars, directorVars, pending, draining, phase, awaiting, forgotten>>

ConsumeAccepted(w, d) ==
    /\ sess[w][d].st = "consuming"
    /\ ConsumeGrant(w, ClaimOf(w, d), sess[w][d].exp, sess[w][d].now)
    /\ sess' = [sess EXCEPT ![w][d] = [sess[w][d] EXCEPT !.st = "consumed"]]
    /\ UNCHANGED <<clock, directorVars, pending, draining, phase, awaiting, forgotten>>

\* A 409: only the reservation is given back.
ConsumeRejected(w, d) ==
    /\ \/ sess[w][d].st = "reserved" /\ sess[w][d].exp <= clock
       \/ /\ sess[w][d].st = "consuming"
          /\ ~ Consumable(w, ClaimOf(w, d), sess[w][d].exp, sess[w][d].now)
    /\ Forget(w, d)
    /\ UNCHANGED <<clock, storeVars, directorVars, pending, draining, phase, awaiting, forgotten>>

\* A 503 after a Redis timeout; the script may have run.  Treated as a 409.
ConsumeUnavailable(w, d) ==
    /\ sess[w][d].st \in {"consuming", "consumed"}
    /\ Forget(w, d)
    /\ forgotten' = forgotten \cup {ClaimOf(w, d)}
    /\ UNCHANGED <<clock, storeVars, directorVars, pending, draining, phase, awaiting>>

\* The HTTP call or websocket.accept raises: abort_startup.
StartupAbort(w, d) ==
    /\ sess[w][d].st \in {"reserved", "consuming", "consumed"}
    /\ QueueRelease(w, d)
    /\ Forget(w, d)
    /\ UNCHANGED <<clock, storeVars, directorVars, draining, phase, awaiting, forgotten>>

\* RvaSessionRegistry.run: register, or give up when the registry has closed.
SessionStart(w, d) ==
    /\ sess[w][d].st = "consumed"
    /\ \/ /\ phase[w] # "closed"
          /\ sess' = [sess EXCEPT ![w][d] = [sess[w][d] EXCEPT !.st = "running", !.deadline = sess[w][d].exp]]
          /\ UNCHANGED pending
       \/ /\ phase[w] = "closed"
          /\ QueueRelease(w, d)
          /\ Forget(w, d)
    /\ UNCHANGED <<clock, storeVars, directorVars, draining, phase, awaiting, forgotten>>

\* The `finally` of run: the connection is closed, by either side or revoked.
SessionEnd(w, d) ==
    /\ sess[w][d].st \in {"running", "retiring"}
    /\ QueueRelease(w, d)
    /\ Forget(w, d)
    /\ UNCHANGED <<clock, storeVars, directorVars, draining, phase, awaiting, forgotten>>

\* _enforce_lease_expiry, at some time after the earliest deadline.
RevokeExpired(w) ==
    /\ Expired(w) # {}
    /\ Revoke(w, Expired(w))
    /\ UNCHANGED <<clock, storeVars, directorVars, draining, phase, awaiting, forgotten>>

-----------------------------------------------------------------------------
(* WorkerHeartbeatLoop.send_once, one at a time under _send_lock.          *)

HeartbeatSend(w, s) ==
    /\ awaiting[w] = 0
    /\ hb[w][s].st = "idle"
    /\ Expired(w) = {}
    /\ hb' = [hb EXCEPT ![w][s] =
                 [NoHeartbeat EXCEPT !.st             = "sent",
                                     !.active         = Cardinality(Reservations(w)),
                                     !.draining       = draining[w],
                                     !.activeLeases   = ClaimsOf(w, Running(w)),
                                     !.releasedLeases = pending[w]]]
    /\ awaiting' = [awaiting EXCEPT ![w] = s]
    /\ UNCHANGED <<clock, storeVars, boot, grants, sess, pending, draining, phase, forgotten>>

\* Mutant: the deadline counts from the time the reply arrives.
ExtendedFromReply(w, h) ==
    [d \in Devices |->
        IF /\ d \in Running(w)
           /\ ClaimOf(w, d) \in h.activeLeases \ h.rejected
           /\ sess[w][d].deadline > clock
        THEN [sess[w][d] EXCEPT !.deadline = clock + LeaseTTL]
        ELSE sess[w][d]]

\* extend_lease_deadlines of the claims that were not rejected.
Extended(w, h) ==
    [d \in Devices |->
        IF /\ d \in Running(w)
           /\ ClaimOf(w, d) \in h.activeLeases \ h.rejected
           /\ sess[w][d].deadline > clock
        THEN [sess[w][d] EXCEPT !.deadline = h.now + LeaseTTL]
        ELSE sess[w][d]]

HeartbeatExtend(w, s) ==
    /\ awaiting[w] = s
    /\ hb[w][s].st = "replied"
    /\ sess' = [sess EXCEPT ![w] = Extended(w, hb[w][s])]
    /\ hb' = [hb EXCEPT ![w][s] = [hb[w][s] EXCEPT !.st = "applied"]]
    /\ UNCHANGED <<clock, storeVars, boot, grants, pending, draining, phase, awaiting, forgotten>>

\* acknowledge_lease_releases drops what this heartbeat carried; the mutant
\* drops what has been queued since as well.
AcknowledgeAll(queue, h) == {}

Acknowledge(queue, h) == queue \ h.releasedLeases

\* The rest of _send_once: revoke what has expired, acknowledge the releases
\* that were sent, adopt the drain, revoke what the director rejected.
HeartbeatFinish(w, s) ==
    LET h    == hb[w][s]
        gone == Expired(w) \cup {d \in Running(w) : ClaimOf(w, d) \in h.rejected}
        late == Expired(w)
        kept == Acknowledge(pending[w] \cup ClaimsOf(w, late), h)
    IN  /\ awaiting[w] = s
        /\ h.st = "applied"
        /\ sess'     = [sess EXCEPT ![w] = Retired(w, gone)]
        /\ pending'  = [pending EXCEPT ![w] = kept \cup ClaimsOf(w, gone \ late)]
        /\ draining' = [draining EXCEPT ![w] = @ \/ h.draining]
        /\ hb'       = [hb EXCEPT ![w][s] = NoHeartbeat]
        /\ awaiting' = [awaiting EXCEPT ![w] = 0]
        /\ UNCHANGED <<clock, storeVars, boot, grants, phase, forgotten>>

\* Timeout, connection error or 503.  The director may still be working on it.
HeartbeatFail(w) ==
    /\ awaiting[w] # 0
    /\ awaiting' = [awaiting EXCEPT ![w] = 0]
    /\ hb' = IF hb[w][awaiting[w]].st \in {"replied", "applied"}
             THEN [hb EXCEPT ![w][awaiting[w]] = NoHeartbeat]
             ELSE hb
    /\ Revoke(w, Expired(w))
    /\ UNCHANGED <<clock, storeVars, boot, grants, draining, phase, forgotten>>

\* A reply nobody waits for any more.
HeartbeatDiscard(w, s) ==
    /\ awaiting[w] # s
    /\ hb[w][s].st = "replied"
    /\ hb' = [hb EXCEPT ![w][s] = NoHeartbeat]
    /\ UNCHANGED <<clock, storeVars, boot, grants, workerVars>>

-----------------------------------------------------------------------------
(* Drain, shutdown and restart of the process.                             *)

\* /internal/v1/drain of the worker.
WorkerDrain(w) ==
    /\ ~ draining[w]
    /\ draining' = [draining EXCEPT ![w] = TRUE]
    /\ UNCHANGED <<clock, storeVars, directorVars, sess, pending, phase, awaiting, forgotten>>

\* The lifespan ends: drain, snapshot_active_lease_releases.
ShutdownStart(w) ==
    /\ phase[w] = "up"
    /\ phase'    = [phase EXCEPT ![w] = "stopping"]
    /\ draining' = [draining EXCEPT ![w] = TRUE]
    /\ pending'  = [pending EXCEPT ![w] = @ \cup ClaimsOf(w, Running(w))]
    /\ UNCHANGED <<clock, storeVars, directorVars, sess, awaiting, forgotten>>

\* _close_owner: every connection is retired.
RegistryClose(w) ==
    /\ phase[w] = "stopping"
    /\ phase' = [phase EXCEPT ![w] = "closed"]
    /\ Revoke(w, Running(w))
    /\ UNCHANGED <<clock, storeVars, directorVars, draining, awaiting, forgotten>>

\* The process exits or crashes and a new one starts under the same worker_id.
Restart(w) ==
    /\ sess'      = [sess EXCEPT ![w] = [d \in Devices |-> NoSession]]
    /\ forgotten' = forgotten \cup pending[w] \cup ClaimsOf(w, Reservations(w))
    /\ pending'   = [pending EXCEPT ![w] = {}]
    /\ draining'  = [draining EXCEPT ![w] = FALSE]
    /\ phase'     = [phase EXCEPT ![w] = "up"]
    /\ awaiting'  = [awaiting EXCEPT ![w] = 0]
    /\ hb' = [hb EXCEPT ![w] = [s \in Slots |-> IF hb[w][s].st = "applied" THEN NoHeartbeat
                                                ELSE hb[w][s]]]
    /\ UNCHANGED <<clock, storeVars, boot, grants>>
=============================================================================
