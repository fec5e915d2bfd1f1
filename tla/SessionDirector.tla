-------------------------- MODULE SessionDirector --------------------------
(***************************************************************************)
(* The handlers of DirectorService (service.py).  A handler reads the      *)
(* clock once, at its start, and then awaits one store script after the    *)
(* other; between two awaits any other handler, of this or of another      *)
(* director process, may run.  A handler keeps running when its HTTP       *)
(* client has given up, and it dies with a 503 when a Redis command times  *)
(* out (app.py, redis_timeout_handler).                                    *)
(***************************************************************************)
EXTENDS CoordinationStore

CONSTANTS
    Boots,      \* bootstrap requests that may be in progress at the same time
    Slots,      \* heartbeat requests of one worker that may be in progress at once
    MaxFence    \* bound: acquisitions of one route

ASSUME SlotsAssumption == 0 \notin Slots
ASSUME FenceAssumption == MaxFence \in Nat

VARIABLES
    boot,       \* bootstrap handlers
    grants,     \* connect grants issued so far; a device may use, lose or reuse each
    hb          \* heartbeat requests: payload, progress of the handler, reply

directorVars == <<boot, grants, hb>>

\* ConnectGrantClaims; the jti is one to one with (dev, fence).
Grant == [dev : Devices, fence : Nat, worker : Workers, exp : Nat]

Bootstrap == [busy : BOOLEAN, dev : Devices, now : Nat,
              cands : SUBSET Workers, load : [Workers -> Nat]]

HeartbeatState == {"idle", "sent", "busy", "replied", "applied"}

Heartbeat ==
    [st : HeartbeatState,
     active : Nat, draining : BOOLEAN,                \* payload, then snapshot.draining
     activeLeases : SUBSET Claim, releasedLeases : SUBSET Claim,
     now : Nat,                                       \* read when the handler starts
     toRelease : SUBSET Claim, toRenew : SUBSET Claim, \* what the two loops have left
     rejected : SUBSET Claim]

NoHeartbeat ==
    [st |-> "idle", active |-> 0, draining |-> FALSE, activeLeases |-> {}, releasedLeases |-> {},
     now |-> 0, toRelease |-> {}, toRenew |-> {}, rejected |-> {}]

NoBootstrap ==
    [busy |-> FALSE, dev |-> CHOOSE d \in Devices : TRUE, now |-> 0, cands |-> {},
     load |-> [w \in Workers |-> 0]]

DirectorInit ==
    /\ boot = [b \in Boots |-> NoBootstrap]
    /\ grants = {}
    /\ hb = [w \in Workers |-> [s \in Slots |-> NoHeartbeat]]

DirectorTypeOK ==
    /\ boot   \in [Boots -> Bootstrap]
    /\ grants \in SUBSET Grant
    /\ hb     \in [Workers -> [Slots -> Heartbeat]]

-----------------------------------------------------------------------------
(* bootstrap: list the workers, then try to acquire the route on the       *)
(* candidates in order of load.                                            *)

\* _candidate_workers.  `offers` are the workers that are healthy and whose
\* binding has one of the requested profiles.
Candidates(offers) ==
    {w \in offers : Alive(w) /\ ~ record[w].draining /\ record[w].active < MaxSessions[w]}

\* The sort key (active / max, active, worker_id), compared without division.
Before(v, w, load) ==
    LET lv == load[v] * MaxSessions[w]
        lw == load[w] * MaxSessions[v]
    IN  \/ lv < lw
        \/ lv = lw /\ load[v] < load[w]
        \/ lv = lw /\ load[v] = load[w] /\ v < w

First(cands, load, w) ==
    /\ w \in cands
    /\ \A v \in cands \ {w} : Before(w, v, load)

BootstrapList(b, d, offers) ==
    /\ ~ boot[b].busy
    /\ Candidates(offers) # {}
    /\ boot' = [boot EXCEPT ![b] = [busy  |-> TRUE,
                                    dev   |-> d,
                                    now   |-> clock,
                                    cands |-> Candidates(offers),
                                    load  |-> [w \in Workers |->
                                        IF w \in Candidates(offers) THEN record[w].active ELSE 0]]]
    /\ UNCHANGED <<clock, storeVars, grants, hb>>

BootstrapDone(b) == boot' = [boot EXCEPT ![b] = NoBootstrap]

\* LeaseConflictError leaves the loop and becomes a 409.
BootstrapConflict(b) ==
    /\ boot[b].busy
    /\ Conflict(boot[b].dev, boot[b].now)
    /\ BootstrapDone(b)
    /\ UNCHANGED <<clock, storeVars, grants, hb>>

\* WorkerCapacityError: the next candidate, or a 503 after the last one.
BootstrapFull(b, w) ==
    /\ boot[b].busy
    /\ First(boot[b].cands, boot[b].load, w)
    /\ AcquireRefused(boot[b].dev, w, boot[b].load[w], boot[b].now)
    /\ IF boot[b].cands = {w}
       THEN BootstrapDone(b)
       ELSE boot' = [boot EXCEPT ![b] = [boot[b] EXCEPT !.cands = boot[b].cands \ {w}]]
    /\ UNCHANGED <<clock, grants, hb>>

\* The grant carries the worker, the token and the expiry of the lease.
BootstrapGrant(b, w) ==
    /\ boot[b].busy
    /\ First(boot[b].cands, boot[b].load, w)
    /\ fencing[boot[b].dev] < MaxFence
    /\ AcquireGranted(boot[b].dev, w, boot[b].load[w], boot[b].now)
    /\ grants' = grants \cup {[dev    |-> boot[b].dev,
                               fence  |-> fencing[boot[b].dev] + 1,
                               worker |-> w,
                               exp    |-> boot[b].now + LeaseTTL]}
    /\ BootstrapDone(b)
    /\ UNCHANGED <<clock, hb>>

\* A Redis timeout between two scripts.
BootstrapAbort(b) ==
    /\ boot[b].busy
    /\ BootstrapDone(b)
    /\ UNCHANGED <<clock, storeVars, grants, hb>>

-----------------------------------------------------------------------------
(* heartbeat: record the worker, release every released claim, renew every *)
(* active one, reply.                                                      *)

HeartbeatStart(w, s) ==
    /\ hb[w][s].st = "sent"
    /\ StoreHeartbeat(w, hb[w][s].active, hb[w][s].draining, clock)
    /\ hb' = [hb EXCEPT ![w][s] = [hb[w][s] EXCEPT !.st        = "busy",
                                                   !.now       = clock,
                                                   !.active    = 0,
                                                   !.draining  = StoredDraining(w, hb[w][s].draining),
                                                   !.toRelease = hb[w][s].releasedLeases,
                                                   !.toRenew   = hb[w][s].activeLeases]]
    /\ UNCHANGED <<clock, boot, grants>>

HeartbeatRelease(w, s, c) ==
    /\ hb[w][s].st = "busy"
    /\ c \in hb[w][s].toRelease
    /\ ReleaseRoute(w, c)
    /\ hb' = [hb EXCEPT ![w][s] = [hb[w][s] EXCEPT !.toRelease = hb[w][s].toRelease \ {c}]]
    /\ UNCHANGED <<clock, boot, grants>>

HeartbeatRenew(w, s, c) ==
    /\ hb[w][s].st = "busy"
    /\ hb[w][s].toRelease = {}
    /\ c \in hb[w][s].toRenew
    /\ \/ /\ RenewRoute(w, c, hb[w][s].now)
          /\ hb' = [hb EXCEPT ![w][s] = [hb[w][s] EXCEPT !.toRenew = hb[w][s].toRenew \ {c}]]
       \/ /\ ~ Renewable(w, c, hb[w][s].now)
          /\ hb' = [hb EXCEPT ![w][s] = [hb[w][s] EXCEPT !.toRenew  = hb[w][s].toRenew \ {c},
                                                           !.rejected = hb[w][s].rejected \cup {c}]]
          /\ UNCHANGED storeVars
    /\ UNCHANGED <<clock, boot, grants>>

HeartbeatReply(w, s) ==
    /\ hb[w][s].st = "busy"
    /\ hb[w][s].toRelease = {} /\ hb[w][s].toRenew = {}
    /\ hb' = [hb EXCEPT ![w][s] = [hb[w][s] EXCEPT !.st = "replied"]]
    /\ UNCHANGED <<clock, storeVars, boot, grants>>

\* The request is lost, or a Redis timeout ends the handler with a 503.
HeartbeatAbort(w, s) ==
    /\ hb[w][s].st \in {"sent", "busy"}
    /\ hb' = [hb EXCEPT ![w][s] = NoHeartbeat]
    /\ UNCHANGED <<clock, storeVars, boot, grants>>

-----------------------------------------------------------------------------
(* The two remaining requests run one script each.                         *)

\* /v1/session/release by a device that holds the identity of a lease.
Release(g) ==
    /\ ReleaseRoute(g.worker, [dev |-> g.dev, fence |-> g.fence])
    /\ UNCHANGED <<clock, boot, grants, hb>>

\* /internal/v1/workers/{worker_id}/drain; a 404 when the record has lapsed.
Drain(w) ==
    /\ SetDraining(w)
    /\ UNCHANGED <<clock, boot, grants, hb>>
=============================================================================
