------------------------- MODULE CoordinationStore -------------------------
(***************************************************************************)
(* The shared coordination store of the Session Director                   *)
(* (server/apps/session_director/.../store.py, RedisCoordinationStore).    *)
(* Every operator named after a store method is one Lua script, which      *)
(* Redis runs atomically.  The scripts compare stored expiries with the    *)
(* `now` their CALLER read earlier, while Redis drops a key by its own     *)
(* clock: both are kept apart here (`now` is a parameter, `clock` is the   *)
(* time at which the script runs).  The in-memory store is the special     *)
(* case now = clock.                                                       *)
(*                                                                         *)
(* A session_epoch is a fresh uuid of every acquisition, so it is          *)
(* identified with the fencing token acquired with it; a tenant and device *)
(* are one member of Devices, the route key.                               *)
(***************************************************************************)
EXTENDS Integers, FiniteSets

CONSTANTS
    Workers,        \* worker ids; numbers, for the tie-break of the selection
    Devices,        \* route keys: (tenant_id, device_id)
    MaxSessions,    \* max_sessions of every worker
    LeaseTTL,       \* route_lease_ttl_seconds
    HeartbeatTTL    \* worker_heartbeat_ttl_seconds

ASSUME WorkersAssumption  == Workers \subseteq Nat
ASSUME DevicesAssumption  == IsFiniteSet(Devices) /\ Devices # {}
ASSUME CapacityAssumption == MaxSessions \in [Workers -> Nat \ {0}]
ASSUME TTLAssumption      == LeaseTTL \in Nat \ {0} /\ HeartbeatTTL \in Nat \ {0}

VARIABLES
    clock,      \* the time, one clock for Redis, directors and workers
    lease,      \* the route key of every device
    fencing,    \* the INCR counter behind the fencing tokens
    routes,     \* per worker: the ZSET of its routes, scored by expiry (0: not a member)
    jti,        \* consumed grants, each with the time its key is dropped
    record,     \* per worker: heartbeat record and drain key
    released    \* history: claims whose route some release has deleted

storeVars == <<lease, fencing, routes, jti, record, released>>

Nobody == -1

\* A lease claim (LeaseRenewal): whose route, acquired with which token.
Claim == [dev : Devices, fence : Nat]

\* `exp` is the expires_at of the JSON value, `px` the TTL deadline of the key.
Lease == [worker : Workers \cup {Nobody}, fence : Nat, exp : Nat, px : Nat]

NoLease == [worker |-> Nobody, fence |-> 0, exp |-> 0, px |-> 0]

Record == [active : Nat, draining : BOOLEAN, exp : Nat]

NoRecord == [active |-> 0, draining |-> FALSE, exp |-> 0]

Consumption == [dev : Devices, fence : Nat, px : Nat]

StoreInit ==
    /\ lease    = [d \in Devices |-> NoLease]
    /\ fencing  = [d \in Devices |-> 0]
    /\ routes   = [w \in Workers |-> [d \in Devices |-> 0]]
    /\ jti      = {}
    /\ record   = [w \in Workers |-> NoRecord]
    /\ released = {}

StoreTypeOK ==
    /\ clock    \in Nat
    /\ lease    \in [Devices -> Lease]
    /\ fencing  \in [Devices -> Nat]
    /\ routes   \in [Workers -> [Devices -> Nat]]
    /\ jti      \in SUBSET Consumption
    /\ record   \in [Workers -> Record]
    /\ released \in SUBSET Claim

-----------------------------------------------------------------------------
(* What a GET finds.                                                       *)

Present(d) == lease[d].px > clock

Alive(w) == record[w].exp > clock

\* The route is there and is exactly this claim of this worker.
Matches(w, c) ==
    /\ Present(c.dev)
    /\ lease[c.dev].worker = w
    /\ lease[c.dev].fence = c.fence

-----------------------------------------------------------------------------
(* acquire_route: refused while a lease runs, refused when the worker is   *)
(* full, else a new lease under the next fencing token.                    *)

\* Mutants: the comparison is off by one; there is no comparison.
ConflictOffByOne(d, now) == Present(d) /\ lease[d].exp > now + 1

ConflictUnchecked(d, now) == FALSE

Conflict(d, now) == Present(d) /\ lease[d].exp > now

\* ZREMRANGEBYSCORE: drop the members of one worker's set that have expired.
Purged(w, now) ==
    [d \in Devices |-> IF routes[w][d] > now THEN routes[w][d] ELSE 0]

Reserved(w, now) == Cardinality({d \in Devices : routes[w][d] > now})

Full(w, active, now) ==
    active >= MaxSessions[w] \/ Reserved(w, now) >= MaxSessions[w]

\* Mutant: the refusal gives the token back.
AcquireRefusedDecr(d, w, active, now) ==
    /\ ~ Conflict(d, now)
    /\ Full(w, active, now)
    /\ lease'   = [lease EXCEPT ![d] = NoLease]
    /\ routes'  = [routes EXCEPT ![w] = Purged(w, now)]
    /\ fencing' = [fencing EXCEPT ![d] = @ - 1]
    /\ UNCHANGED <<jti, record, released>>

AcquireRefused(d, w, active, now) ==
    /\ ~ Conflict(d, now)
    /\ Full(w, active, now)
    /\ lease'  = [lease EXCEPT ![d] = NoLease]
    /\ routes' = [routes EXCEPT ![w] = Purged(w, now)]
    /\ UNCHANGED <<fencing, jti, record, released>>

\* Mutant: the counter is read but not incremented.
AcquireGrantedNoIncr(d, w, active, now) ==
    /\ ~ Conflict(d, now)
    /\ ~ Full(w, active, now)
    /\ lease' = [lease EXCEPT ![d] = [worker |-> w,
                                      fence  |-> fencing[d] + 1,
                                      exp    |-> now + LeaseTTL,
                                      px     |-> clock + LeaseTTL]]
    /\ routes' = [routes EXCEPT ![w] = [Purged(w, now) EXCEPT ![d] = now + LeaseTTL]]
    /\ UNCHANGED <<fencing, jti, record, released>>

AcquireGranted(d, w, active, now) ==
    /\ ~ Conflict(d, now)
    /\ ~ Full(w, active, now)
    /\ fencing' = [fencing EXCEPT ![d] = @ + 1]
    /\ lease' = [lease EXCEPT ![d] = [worker |-> w,
                                      fence  |-> fencing[d] + 1,
                                      exp    |-> now + LeaseTTL,
                                      px     |-> clock + LeaseTTL]]
    /\ routes' = [routes EXCEPT ![w] = [Purged(w, now) EXCEPT ![d] = now + LeaseTTL]]
    /\ UNCHANGED <<jti, record, released>>

-----------------------------------------------------------------------------
(* renew_route and release_route_claim: compare the whole claim, then      *)
(* rewrite the expiry or delete the route.                                 *)

Renewable(w, c, now) == Matches(w, c) /\ lease[c.dev].exp > now

\* Mutant: the score in the index is not moved.
RenewRouteNoZadd(w, c, now) ==
    /\ Renewable(w, c, now)
    /\ lease' = [lease EXCEPT ![c.dev] = [lease[c.dev] EXCEPT !.exp = now + LeaseTTL,
                                                              !.px  = clock + LeaseTTL]]
    /\ UNCHANGED <<fencing, routes, jti, record, released>>

RenewRoute(w, c, now) ==
    /\ Renewable(w, c, now)
    /\ lease'  = [lease EXCEPT ![c.dev] = [lease[c.dev] EXCEPT !.exp = now + LeaseTTL,
                                                               !.px  = clock + LeaseTTL]]
    /\ routes' = [routes EXCEPT ![w][c.dev] = now + LeaseTTL]
    /\ UNCHANGED <<fencing, jti, record, released>>

ReleaseRoute(w, c) ==
    /\ IF Matches(w, c)
       THEN /\ lease'    = [lease EXCEPT ![c.dev] = NoLease]
            /\ routes'   = [routes EXCEPT ![w][c.dev] = 0]
            /\ released' = released \cup {c}
       ELSE UNCHANGED <<lease, routes, released>>
    /\ UNCHANGED <<fencing, jti, record>>

-----------------------------------------------------------------------------
(* consume_grant_result: the claim must be the running lease, the grant    *)
(* must not have expired, and SET NX must create the key of its jti.       *)

Consumed(c) == \E j \in jti : j.dev = c.dev /\ j.fence = c.fence /\ j.px > clock

Consumable(w, c, exp, now) ==
    /\ Renewable(w, c, now)
    /\ exp > now
    /\ ~ Consumed(c)

ConsumeGrant(w, c, exp, now) ==
    /\ Consumable(w, c, exp, now)
    /\ jti' = jti \cup {[dev |-> c.dev, fence |-> c.fence, px |-> clock + (exp - now)]}
    /\ UNCHANGED <<lease, fencing, routes, record, released>>

-----------------------------------------------------------------------------
(* heartbeat and set_draining.  The drain key has the TTL of the record    *)
(* and a heartbeat that finds it set keeps it set.                         *)

StoredDraining(w, draining) == draining \/ (Alive(w) /\ record[w].draining)

StoreHeartbeat(w, active, draining, now) ==
    /\ record' = [record EXCEPT ![w] = [active   |-> active,
                                        draining |-> StoredDraining(w, draining),
                                        exp      |-> now + HeartbeatTTL]]
    /\ UNCHANGED <<lease, fencing, routes, jti, released>>

SetDraining(w) ==
    /\ Alive(w)
    /\ record' = [record EXCEPT ![w] = [record[w] EXCEPT !.draining = TRUE]]
    /\ UNCHANGED <<lease, fencing, routes, jti, released>>
=============================================================================
