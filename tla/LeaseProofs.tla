---------------------------- MODULE LeaseProofs -----------------------------
(***************************************************************************)
(* LeaseSystem, proved for any workers, devices, capacities, TTLs and      *)
(* bounds.  First type correctness and what one step may do to a session,  *)
(* to the queued releases of a worker, to a heartbeat, to a route and to   *)
(* the clock; the proofs of the invariants use those lemmas instead of the *)
(* actions.  Then the safety properties, from the inductive invariants of  *)
(* LeaseInvariants; last, that workers and store agree on who may serve a  *)
(* device, as long as the heartbeat handlers of one worker do not overlap  *)
(* (NoOverlap).                                                            *)
(***************************************************************************)
EXTENDS LeaseInvariants, FiniteSetTheorems, TLAPS

USE WorkersAssumption, DevicesAssumption, CapacityAssumption, TTLAssumption,
    SlotsAssumption, FenceAssumption, TimeAssumption

\* Updates of functions, of functions of functions and of records keep the type.
LEMMA Update ==
    ASSUME NEW D, NEW S, NEW f \in [D -> S], NEW a \in D, NEW x \in S
    PROVE  [f EXCEPT ![a] = x] \in [D -> S]
OBVIOUS

\* Updating one entry of a two-level function keeps its type.
LEMMA Update2 ==
    ASSUME NEW D, NEW E, NEW S, NEW f \in [D -> [E -> S]], NEW a \in D, NEW b \in E, NEW x \in S
    PROVE  [f EXCEPT ![a][b] = x] \in [D -> [E -> S]]
OBVIOUS

\* renew_route: an extended lease is a lease.
LEMMA LeaseUpdate ==
    ASSUME NEW r \in Lease, NEW e \in Nat, NEW p \in Nat
    PROVE  [r EXCEPT !.exp = e, !.px = p] \in Lease
BY DEF Lease

\* set_draining: a drained heartbeat record is a record.
LEMMA RecordUpdate ==
    ASSUME NEW r \in Record
    PROVE  [r EXCEPT !.draining = TRUE] \in Record
BY DEF Record

\* bootstrap tries the next candidate.
LEMMA BootstrapUpdate ==
    ASSUME NEW r \in Bootstrap, NEW C \in SUBSET Workers
    PROVE  [r EXCEPT !.cands = C] \in Bootstrap
BY DEF Bootstrap

\* The session records the worker actions write.
LEMMA SessionUpdate ==
    ASSUME NEW r \in Session, NEW n \in Nat, NEW st \in SessionState
    PROVE  /\ [r EXCEPT !.st = st] \in Session
           /\ [r EXCEPT !.st = st, !.now = n] \in Session
           /\ [r EXCEPT !.st = st, !.deadline = n] \in Session
           /\ [r EXCEPT !.deadline = n] \in Session
BY DEF Session

\* The heartbeat records written when a handler starts and when a worker sends.
LEMMA HeartbeatUpdate ==
    ASSUME NEW r \in Heartbeat, NEW st \in HeartbeatState, NEW n \in Nat, NEW a \in Nat, NEW q \in BOOLEAN,
           NEW A \in SUBSET Claim, NEW B \in SUBSET Claim
    PROVE  /\ [r EXCEPT !.st = st, !.now = n, !.active = a, !.draining = q,
                        !.toRelease = A, !.toRenew = B] \in Heartbeat
           /\ [r EXCEPT !.st = st, !.active = a, !.draining = q,
                        !.activeLeases = A, !.releasedLeases = B] \in Heartbeat
BY DEF Heartbeat

\* A heartbeat that only changes status keeps its type.
LEMMA HeartbeatStatus ==
    ASSUME NEW r \in Heartbeat, NEW st \in HeartbeatState
    PROVE  [r EXCEPT !.st = st] \in Heartbeat
BY DEF Heartbeat

\* The heartbeat records written by the release and renewal loops.
LEMMA HeartbeatLoops ==
    ASSUME NEW r \in Heartbeat, NEW A \in SUBSET Claim, NEW B \in SUBSET Claim
    PROVE  /\ [r EXCEPT !.toRelease = A] \in Heartbeat
           /\ [r EXCEPT !.toRenew = A] \in Heartbeat
           /\ [r EXCEPT !.toRenew = A, !.rejected = B] \in Heartbeat
BY DEF Heartbeat

\* The number of reservations a heartbeat reports is a number.
LEMMA ReservationsCount ==
    ASSUME NEW w \in Workers
    PROVE  Cardinality(Reservations(w)) \in Nat
<1>1. Reservations(w) \subseteq Devices
    BY DEF Reservations
<1>2. IsFiniteSet(Reservations(w))
    BY <1>1, FS_Subset
<1> QED
    BY <1>2, FS_CardinalityType

\* Claims of sessions are claims.
LEMMA ClaimTypes ==
    ASSUME WorkerTypeOK, NEW w \in Workers
    PROVE  /\ \A d \in Devices : ClaimOf(w, d) \in Claim
           /\ \A D \in SUBSET Devices : ClaimsOf(w, D) \in SUBSET Claim
           /\ Expired(w) \subseteq Running(w) /\ Running(w) \subseteq Devices
           /\ Reservations(w) \subseteq Devices
BY DEF WorkerTypeOK, ClaimOf, ClaimsOf, Claim, Session, Expired, Running, Reservations

\* _remove_claims_locked leaves a table of sessions.
LEMMA RetiredType ==
    ASSUME WorkerTypeOK, NEW w \in Workers, NEW D \in SUBSET Devices
    PROVE  Retired(w, D) \in [Devices -> Session]
<1>1. \A d \in Devices : sess[w][d] \in Session
    BY DEF WorkerTypeOK
<1>2. \A r \in Session : [r EXCEPT !.st = "retiring", !.deadline = 0] \in Session
    BY SessionUpdate DEF SessionState
<1> QED
    BY <1>1, <1>2 DEF Retired

\* revoke_lease_claims and revoke_expired_leases keep the registry well typed.
LEMMA RevokeType ==
    ASSUME WorkerTypeOK, NEW w \in Workers, NEW D \in SUBSET Devices, Revoke(w, D)
    PROVE  /\ sess' \in [Workers -> [Devices -> Session]]
           /\ pending' \in [Workers -> SUBSET Claim]
<1>1. Retired(w, D) \in [Devices -> Session]
    BY RetiredType
<1>2. ClaimsOf(w, D) \in SUBSET Claim
    BY ClaimTypes
<1> QED
    BY <1>1, <1>2 DEF Revoke, WorkerTypeOK

\* The absent records have the type of the present ones.
LEMMA NullTypes ==
    /\ NoLease \in Lease /\ NoRecord \in Record /\ NoBootstrap \in Bootstrap
    /\ NoHeartbeat \in Heartbeat /\ NoSession \in Session
BY DEF NoLease, Lease, NoRecord, Record, NoBootstrap, Bootstrap, NoHeartbeat, Heartbeat,
       HeartbeatState, NoSession, Session, SessionState, Nobody

\* The initial state is well typed.
LEMMA TypeInit == Init => TypeOK
BY NullTypes DEF Init, StoreInit, DirectorInit, WorkerInit, TypeOK, StoreTypeOK, DirectorTypeOK, WorkerTypeOK

\* Every script keeps the types of the store.
LEMMA PurgedType ==
    ASSUME StoreTypeOK, NEW w \in Workers, NEW now \in Nat
    PROVE  Purged(w, now) \in [Devices -> Nat]
BY DEF StoreTypeOK, Purged

\* Every script of the store keeps the types of the store.
LEMMA StoreTypes ==
    ASSUME StoreTypeOK, NEW w \in Workers, UNCHANGED clock
    PROVE  /\ UNCHANGED storeVars => StoreTypeOK'
           /\ \A d \in Devices, active \in Nat, now \in Nat :
                 AcquireRefused(d, w, active, now) \/ AcquireGranted(d, w, active, now) => StoreTypeOK'
           /\ \A c \in Claim, now \in Nat : RenewRoute(w, c, now) => StoreTypeOK'
           /\ \A c \in Claim : ReleaseRoute(w, c) => StoreTypeOK'
           /\ \A c \in Claim, exp \in Nat, now \in Nat : ConsumeGrant(w, c, exp, now) => StoreTypeOK'
           /\ \A active \in Nat, drain \in BOOLEAN, now \in Nat :
                 StoreHeartbeat(w, active, drain, now) => StoreTypeOK'
           /\ SetDraining(w) => StoreTypeOK'
<1>1. UNCHANGED storeVars => StoreTypeOK'
    BY DEF StoreTypeOK, storeVars
<1>2. ASSUME NEW d \in Devices, NEW active \in Nat, NEW now \in Nat,
             AcquireRefused(d, w, active, now)
      PROVE  StoreTypeOK'
    <2>1. Purged(w, now) \in [Devices -> Nat]
        BY PurgedType
    <2> QED
        BY <1>2, <2>1, NullTypes DEF AcquireRefused, StoreTypeOK
<1>3. ASSUME NEW d \in Devices, NEW active \in Nat, NEW now \in Nat,
             AcquireGranted(d, w, active, now)
      PROVE  StoreTypeOK'
    <2>1. Purged(w, now) \in [Devices -> Nat]
        BY PurgedType
    <2> DEFINE new == [worker |-> w, fence |-> fencing[d] + 1, exp |-> now + LeaseTTL, px |-> clock + LeaseTTL]
    <2>2. new \in Lease
        BY DEF Lease, StoreTypeOK
    <2>3. lease' = [lease EXCEPT ![d] = new]
        BY <1>3 DEF AcquireGranted
    <2> HIDE DEF new
    <2>4. lease' \in [Devices -> Lease]
        BY <2>2, <2>3, Update DEF StoreTypeOK
    <2>5. [Purged(w, now) EXCEPT ![d] = now + LeaseTTL] \in [Devices -> Nat]
        BY <2>1, Update
    <2>6. routes' \in [Workers -> [Devices -> Nat]]
        BY <1>3, <2>5, Update DEF AcquireGranted, StoreTypeOK
    <2> QED
        BY <1>3, <2>4, <2>6 DEF AcquireGranted, StoreTypeOK
<1>4. ASSUME NEW c \in Claim, NEW now \in Nat, RenewRoute(w, c, now)
      PROVE  StoreTypeOK'
    <2>1. c.dev \in Devices /\ lease[c.dev] \in Lease
        BY DEF StoreTypeOK, Claim
    <2> DEFINE new == [lease[c.dev] EXCEPT !.exp = now + LeaseTTL, !.px = clock + LeaseTTL]
    <2>2. new \in Lease
        <3>1. now + LeaseTTL \in Nat /\ clock + LeaseTTL \in Nat
            BY DEF StoreTypeOK
        <3> QED
            BY <2>1, <3>1, LeaseUpdate
    <2>3. lease' = [lease EXCEPT ![c.dev] = new]
        BY <1>4 DEF RenewRoute
    <2> HIDE DEF new
    <2>5. lease' \in [Devices -> Lease]
        BY <2>1, <2>2, <2>3, Update DEF StoreTypeOK
    <2>4. routes' \in [Workers -> [Devices -> Nat]]
        BY <1>4, <2>1, Update2 DEF RenewRoute, StoreTypeOK
    <2> QED
        BY <1>4, <2>4, <2>5 DEF RenewRoute, StoreTypeOK
<1>5. ASSUME NEW c \in Claim, ReleaseRoute(w, c)
      PROVE  StoreTypeOK'
    BY <1>5, NullTypes DEF ReleaseRoute, StoreTypeOK, Claim
<1>6. ASSUME NEW c \in Claim, NEW exp \in Nat, NEW now \in Nat, ConsumeGrant(w, c, exp, now)
      PROVE  StoreTypeOK'
    BY <1>6 DEF ConsumeGrant, Consumable, StoreTypeOK, Claim, Consumption
<1>7. ASSUME NEW active \in Nat, NEW drain \in BOOLEAN, NEW now \in Nat,
             StoreHeartbeat(w, active, drain, now)
      PROVE  StoreTypeOK'
    <2>1. StoredDraining(w, drain) \in BOOLEAN
        BY DEF StoredDraining
    <2> QED
        BY <1>7, <2>1 DEF StoreHeartbeat, StoreTypeOK, Record
<1>8. SetDraining(w) => StoreTypeOK'
    BY ZenonT(60) DEF SetDraining, StoreTypeOK, Record
<1> QED
    BY <1>1, <1>2, <1>3, <1>4, <1>5, <1>6, <1>7, <1>8

-----------------------------------------------------------------------------
\* Every handler step of the director keeps the types of its own state.
LEMMA TypeBootstrap ==
    ASSUME TypeOK, UNCHANGED workerVars, NEW b \in Boots,
           \/ \E d \in Devices, offers \in SUBSET Workers : BootstrapList(b, d, offers)
           \/ BootstrapConflict(b)
           \/ BootstrapAbort(b)
           \/ \E w \in Workers : BootstrapFull(b, w) \/ BootstrapGrant(b, w)
    PROVE  TypeOK'
<1> USE DEF TypeOK
<1>1. WorkerTypeOK'
    BY DEF WorkerTypeOK, workerVars
<1>2. boot[b] \in Bootstrap /\ boot[b].dev \in Devices /\ boot[b].now \in Nat
      /\ boot[b].cands \in SUBSET Workers /\ \A w \in Workers : boot[b].load[w] \in Nat
    BY DEF DirectorTypeOK, Bootstrap
<1>3. BootstrapDone(b) => boot' \in [Boots -> Bootstrap]
    BY NullTypes, Update DEF BootstrapDone, DirectorTypeOK
<1>4. ASSUME NEW d \in Devices, NEW offers \in SUBSET Workers, BootstrapList(b, d, offers)
      PROVE  TypeOK'
    <2> DEFINE new == [busy  |-> TRUE, dev |-> d, now |-> clock, cands |-> Candidates(offers),
                       load  |-> [w \in Workers |->
                                     IF w \in Candidates(offers) THEN record[w].active ELSE 0]]
    <2>1. boot' = [boot EXCEPT ![b] = new]
        BY <1>4 DEF BootstrapList
    <2>2. Candidates(offers) \in SUBSET Workers
        BY DEF Candidates
    <2>3. [w \in Workers |-> IF w \in Candidates(offers) THEN record[w].active ELSE 0] \in [Workers -> Nat]
        BY DEF StoreTypeOK, Record
    <2>4. new \in Bootstrap
        BY <2>2, <2>3 DEF Bootstrap, StoreTypeOK
    <2> HIDE DEF new
    <2>5. boot' \in [Boots -> Bootstrap]
        BY <2>1, <2>4, Update DEF DirectorTypeOK
    <2>6. StoreTypeOK'
        BY <1>4 DEF BootstrapList, StoreTypeOK, storeVars
    <2> QED
        BY <1>1, <1>4, <2>5, <2>6 DEF BootstrapList, DirectorTypeOK
<1>5. ASSUME BootstrapConflict(b) \/ BootstrapAbort(b)
      PROVE  TypeOK'
    BY <1>1, <1>3, <1>5 DEF BootstrapConflict, BootstrapAbort, DirectorTypeOK, StoreTypeOK, storeVars
<1>6. ASSUME NEW w \in Workers, BootstrapFull(b, w)
      PROVE  TypeOK'
    <2>1. StoreTypeOK'
        BY <1>2, <1>6, StoreTypes DEF BootstrapFull
    <2> DEFINE new == [boot[b] EXCEPT !.cands = boot[b].cands \ {w}]
    <2>2. new \in Bootstrap
        BY <1>2, BootstrapUpdate
    <2>3. BootstrapDone(b) \/ boot' = [boot EXCEPT ![b] = new]
        BY <1>6 DEF BootstrapFull
    <2> HIDE DEF new
    <2>4. boot' \in [Boots -> Bootstrap]
        BY <1>3, <2>2, <2>3, Update DEF DirectorTypeOK
    <2> QED
        BY <1>1, <1>6, <2>1, <2>4 DEF BootstrapFull, DirectorTypeOK
<1>7. ASSUME NEW w \in Workers, BootstrapGrant(b, w)
      PROVE  TypeOK'
    <2>1. StoreTypeOK'
        BY <1>2, <1>7, StoreTypes DEF BootstrapGrant
    <2>2. [dev |-> boot[b].dev, fence |-> fencing[boot[b].dev] + 1, worker |-> w,
           exp |-> boot[b].now + LeaseTTL] \in Grant
        BY <1>2 DEF Grant, StoreTypeOK
    <2> QED
        BY <1>1, <1>3, <1>7, <2>1, <2>2 DEF BootstrapGrant, DirectorTypeOK
<1> QED
    BY <1>4, <1>5, <1>6, <1>7

\* A step of the director's heartbeat handler keeps the types.
LEMMA TypeHeartbeat ==
    ASSUME TypeOK, UNCHANGED workerVars, NEW w \in Workers, NEW s \in Slots,
           \/ HeartbeatStart(w, s)
           \/ \E c \in hb[w][s].toRelease : HeartbeatRelease(w, s, c)
           \/ \E c \in hb[w][s].toRenew : HeartbeatRenew(w, s, c)
           \/ HeartbeatReply(w, s)
           \/ HeartbeatAbort(w, s)
    PROVE  TypeOK'
<1> USE DEF TypeOK
<1>1. WorkerTypeOK'
    BY DEF WorkerTypeOK, workerVars
<1>2. hb[w][s] \in Heartbeat
    BY DEF DirectorTypeOK
<1>3. /\ hb[w][s].toRelease \in SUBSET Claim /\ hb[w][s].toRenew \in SUBSET Claim
      /\ hb[w][s].activeLeases \in SUBSET Claim /\ hb[w][s].releasedLeases \in SUBSET Claim
      /\ hb[w][s].rejected \in SUBSET Claim /\ hb[w][s].now \in Nat
      /\ hb[w][s].active \in Nat /\ hb[w][s].draining \in BOOLEAN
    BY <1>2 DEF Heartbeat
<1>4. ASSUME NEW new \in Heartbeat, hb' = [hb EXCEPT ![w][s] = new]
      PROVE  hb' \in [Workers -> [Slots -> Heartbeat]]
    BY <1>4, Update2 DEF DirectorTypeOK
<1>5. ASSUME HeartbeatStart(w, s)
      PROVE  TypeOK'
    <2> DEFINE new == [hb[w][s] EXCEPT !.st        = "busy",
                                       !.now       = clock,
                                       !.active    = 0,
                                       !.draining  = StoredDraining(w, hb[w][s].draining),
                                       !.toRelease = hb[w][s].releasedLeases,
                                       !.toRenew   = hb[w][s].activeLeases]
    <2>1. StoredDraining(w, hb[w][s].draining) \in BOOLEAN /\ clock \in Nat /\ "busy" \in HeartbeatState
        BY DEF StoredDraining, StoreTypeOK, HeartbeatState
    <2>2. new \in Heartbeat
        BY <1>2, <1>3, <2>1, HeartbeatUpdate
    <2>3. hb' = [hb EXCEPT ![w][s] = new]
        BY <1>5 DEF HeartbeatStart
    <2> HIDE DEF new
    <2>4. StoreTypeOK'
        BY <1>3, <1>5, <2>1, StoreTypes DEF HeartbeatStart
    <2> QED
        BY <1>1, <1>4, <1>5, <2>2, <2>3, <2>4 DEF HeartbeatStart, DirectorTypeOK
<1>6. ASSUME NEW c \in hb[w][s].toRelease, HeartbeatRelease(w, s, c)
      PROVE  TypeOK'
    <2> DEFINE new == [hb[w][s] EXCEPT !.toRelease = hb[w][s].toRelease \ {c}]
    <2>1. hb[w][s].toRelease \ {c} \in SUBSET Claim
        BY <1>3
    <2>2. new \in Heartbeat
        BY <1>2, <2>1, HeartbeatLoops
    <2>3. hb' = [hb EXCEPT ![w][s] = new]
        BY <1>6 DEF HeartbeatRelease
    <2> HIDE DEF new
    <2>4. StoreTypeOK'
        BY <1>3, <1>6, StoreTypes DEF HeartbeatRelease
    <2> QED
        BY <1>1, <1>4, <1>6, <2>2, <2>3, <2>4 DEF HeartbeatRelease, DirectorTypeOK
<1>7. ASSUME NEW c \in hb[w][s].toRenew, HeartbeatRenew(w, s, c)
      PROVE  TypeOK'
    <2> DEFINE new == [hb[w][s] EXCEPT !.toRenew = hb[w][s].toRenew \ {c}]
    <2> DEFINE rej == [hb[w][s] EXCEPT !.toRenew = hb[w][s].toRenew \ {c},
                                       !.rejected = hb[w][s].rejected \cup {c}]
    <2>1. new \in Heartbeat /\ rej \in Heartbeat
        <3>1. hb[w][s].toRenew \ {c} \in SUBSET Claim /\ hb[w][s].rejected \cup {c} \in SUBSET Claim
            BY <1>3
        <3> QED
            BY <1>2, <3>1, HeartbeatLoops
    <2>2. hb' = [hb EXCEPT ![w][s] = new] \/ hb' = [hb EXCEPT ![w][s] = rej]
        BY <1>7 DEF HeartbeatRenew
    <2> HIDE DEF new, rej
    <2>3. StoreTypeOK'
        BY <1>3, <1>7, StoreTypes DEF HeartbeatRenew
    <2> QED
        BY <1>1, <1>4, <1>7, <2>1, <2>2, <2>3 DEF HeartbeatRenew, DirectorTypeOK
<1>8. ASSUME HeartbeatReply(w, s) \/ HeartbeatAbort(w, s)
      PROVE  TypeOK'
    <2> DEFINE new == [hb[w][s] EXCEPT !.st = "replied"]
    <2>1. new \in Heartbeat
        BY <1>2, HeartbeatStatus DEF HeartbeatState
    <2>2. hb' = [hb EXCEPT ![w][s] = new] \/ hb' = [hb EXCEPT ![w][s] = NoHeartbeat]
        BY <1>8 DEF HeartbeatReply, HeartbeatAbort
    <2> HIDE DEF new
    <2>3. StoreTypeOK'
        BY <1>8 DEF HeartbeatReply, HeartbeatAbort, StoreTypeOK, storeVars
    <2> QED
        BY <1>1, <1>4, <1>8, <2>1, <2>2, <2>3, NullTypes DEF HeartbeatReply, HeartbeatAbort, DirectorTypeOK
<1> QED
    BY <1>5, <1>6, <1>7, <1>8

-----------------------------------------------------------------------------
\* Every step of a worker keeps the types.
LEMMA TypeSession ==
    ASSUME TypeOK, NEW w \in Workers, SessionStep(w)
    PROVE  TypeOK'
<1> USE DEF TypeOK
<1>1. \A d \in Devices : sess[w][d] \in Session /\ sess[w][d].exp \in Nat /\ sess[w][d].now \in Nat
                         /\ ClaimOf(w, d) \in Claim
    BY ClaimTypes DEF WorkerTypeOK, Session
<1>2. ASSUME NEW d \in Devices, NEW new \in Session, sess' = [sess EXCEPT ![w][d] = new]
      PROVE  sess' \in [Workers -> [Devices -> Session]]
    BY <1>2, Update2 DEF WorkerTypeOK
<1>3. ASSUME NEW d \in Devices, Forget(w, d)
      PROVE  sess' \in [Workers -> [Devices -> Session]]
    BY <1>2, <1>3, NullTypes DEF Forget
<1>4. ASSUME NEW d \in Devices, QueueRelease(w, d)
      PROVE  pending' \in [Workers -> SUBSET Claim]
    BY <1>1, <1>4 DEF QueueRelease, WorkerTypeOK
<1>5. ASSUME UNCHANGED <<clock, storeVars, directorVars>>
      PROVE  StoreTypeOK' /\ DirectorTypeOK'
    BY <1>5 DEF StoreTypeOK, storeVars, DirectorTypeOK, directorVars
<1>6. ASSUME NEW g \in grants, Reserve(w, g)
      PROVE  TypeOK'
    <2>1. g.dev \in Devices /\ g.fence \in Nat /\ g.exp \in Nat
        BY DEF DirectorTypeOK, Grant
    <2>2. [st |-> "reserved", fence |-> g.fence, exp |-> g.exp, now |-> 0, deadline |-> 0] \in Session
        BY <2>1 DEF Session, SessionState
    <2>3. sess' \in [Workers -> [Devices -> Session]]
        BY <1>2, <1>6, <2>1, <2>2 DEF Reserve
    <2> QED
        BY <1>5, <1>6, <2>3 DEF Reserve, WorkerTypeOK
<1>7. ASSUME NEW d \in Devices, ConsumeStart(w, d)
      PROVE  TypeOK'
    <2> DEFINE new == [sess[w][d] EXCEPT !.st = "consuming", !.now = clock]
    <2>1. new \in Session
        BY <1>1, SessionUpdate DEF SessionState, StoreTypeOK
    <2>2. sess' = [sess EXCEPT ![w][d] = new]
        BY <1>7 DEF ConsumeStart
    <2> HIDE DEF new
    <2> QED
        BY <1>2, <1>5, <1>7, <2>1, <2>2 DEF ConsumeStart, WorkerTypeOK
<1>8. ASSUME NEW d \in Devices, ConsumeAccepted(w, d)
      PROVE  TypeOK'
    <2> DEFINE new == [sess[w][d] EXCEPT !.st = "consumed"]
    <2>1. new \in Session
        <3>1. "consumed" \in SessionState /\ 0 \in Nat
            BY DEF SessionState
        <3> QED
            BY <1>1, <3>1, SessionUpdate
    <2>2. sess' = [sess EXCEPT ![w][d] = new]
        BY <1>8 DEF ConsumeAccepted
    <2> HIDE DEF new
    <2>3. StoreTypeOK'
        BY <1>1, <1>8, StoreTypes DEF ConsumeAccepted
    <2> QED
        BY <1>2, <1>8, <2>1, <2>2, <2>3 DEF ConsumeAccepted, WorkerTypeOK, DirectorTypeOK, directorVars
<1>9. ASSUME NEW d \in Devices, ConsumeRejected(w, d) \/ ConsumeUnavailable(w, d)
      PROVE  TypeOK'
    <2>1. sess' \in [Workers -> [Devices -> Session]]
        BY <1>3, <1>9 DEF ConsumeRejected, ConsumeUnavailable
    <2>2. forgotten' \in SUBSET Claim
        BY <1>1, <1>9 DEF ConsumeRejected, ConsumeUnavailable, WorkerTypeOK
    <2> QED
        BY <1>5, <1>9, <2>1, <2>2 DEF ConsumeRejected, ConsumeUnavailable, WorkerTypeOK
<1>10. ASSUME NEW d \in Devices, StartupAbort(w, d) \/ SessionEnd(w, d)
       PROVE  TypeOK'
    <2>1. sess' \in [Workers -> [Devices -> Session]] /\ pending' \in [Workers -> SUBSET Claim]
        BY <1>3, <1>4, <1>10 DEF StartupAbort, SessionEnd
    <2> QED
        BY <1>5, <1>10, <2>1 DEF StartupAbort, SessionEnd, WorkerTypeOK
<1>11. ASSUME NEW d \in Devices, SessionStart(w, d)
       PROVE  TypeOK'
    <2> DEFINE new == [sess[w][d] EXCEPT !.st = "running", !.deadline = sess[w][d].exp]
    <2>1. new \in Session
        BY <1>1, SessionUpdate DEF SessionState
    <2>2. \/ sess' = [sess EXCEPT ![w][d] = new] /\ UNCHANGED pending
          \/ Forget(w, d) /\ QueueRelease(w, d)
        BY <1>11 DEF SessionStart
    <2> HIDE DEF new
    <2>3. sess' \in [Workers -> [Devices -> Session]] /\ pending' \in [Workers -> SUBSET Claim]
        BY <1>2, <1>3, <1>4, <2>1, <2>2 DEF WorkerTypeOK
    <2> QED
        BY <1>5, <1>11, <2>3 DEF SessionStart, WorkerTypeOK
<1>12. ASSUME RevokeExpired(w)
       PROVE  TypeOK'
    <2>1. Expired(w) \in SUBSET Devices
        BY ClaimTypes
    <2>2. sess' \in [Workers -> [Devices -> Session]] /\ pending' \in [Workers -> SUBSET Claim]
        BY <1>12, <2>1, RevokeType DEF RevokeExpired
    <2> QED
        BY <1>5, <1>12, <2>2 DEF RevokeExpired, WorkerTypeOK
<1> QED
    BY <1>6, <1>7, <1>8, <1>9, <1>10, <1>11, <1>12 DEF SessionStep

\* extend_lease_deadlines leaves a table of sessions.
LEMMA ExtendedType ==
    ASSUME TypeOK, NEW w \in Workers, NEW h \in Heartbeat
    PROVE  Extended(w, h) \in [Devices -> Session]
<1>1. h.now + LeaseTTL \in Nat
    BY DEF Heartbeat
<1>2. \A d \in Devices : sess[w][d] \in Session
    BY DEF TypeOK, WorkerTypeOK
<1>3. \A r \in Session : [r EXCEPT !.deadline = h.now + LeaseTTL] \in Session
    BY <1>1, SessionUpdate DEF SessionState
<1> QED
    BY <1>2, <1>3 DEF Extended

\* A step of a worker keeps the types.
LEMMA TypeWorker ==
    ASSUME TypeOK, NEW w \in Workers, WorkerStep(w)
    PROVE  TypeOK'
<1> USE DEF TypeOK
<1>1. ASSUME NEW s \in Slots, NEW new \in Heartbeat, hb' = [hb EXCEPT ![w][s] = new]
      PROVE  hb' \in [Workers -> [Slots -> Heartbeat]]
    BY <1>1, Update2 DEF DirectorTypeOK
<1>2. \A s \in Slots : hb[w][s] \in Heartbeat
    BY DEF DirectorTypeOK
<1>3. ASSUME UNCHANGED <<clock, storeVars>>
      PROVE  StoreTypeOK'
    BY <1>3 DEF StoreTypeOK, storeVars
<1>4. ASSUME NEW s \in Slots, HeartbeatSend(w, s)
      PROVE  TypeOK'
    <2> DEFINE new == [NoHeartbeat EXCEPT !.st             = "sent",
                                          !.active         = Cardinality(Reservations(w)),
                                          !.draining       = draining[w],
                                          !.activeLeases   = ClaimsOf(w, Running(w)),
                                          !.releasedLeases = pending[w]]
    <2>1. ClaimsOf(w, Running(w)) \in SUBSET Claim /\ pending[w] \in SUBSET Claim /\ draining[w] \in BOOLEAN
        BY ClaimTypes DEF WorkerTypeOK
    <2>2. new \in Heartbeat
        BY <2>1, ReservationsCount, NullTypes, HeartbeatUpdate DEF HeartbeatState
    <2>3. hb' = [hb EXCEPT ![w][s] = new]
        BY <1>4 DEF HeartbeatSend
    <2> HIDE DEF new
    <2>4. hb' \in [Workers -> [Slots -> Heartbeat]]
        BY <1>1, <2>2, <2>3
    <2> QED
        BY <1>3, <1>4, <2>4 DEF HeartbeatSend, DirectorTypeOK, WorkerTypeOK
<1>5. ASSUME NEW s \in Slots, HeartbeatExtend(w, s)
      PROVE  TypeOK'
    <2> DEFINE new == [hb[w][s] EXCEPT !.st = "applied"]
    <2>1. new \in Heartbeat
        BY <1>2, HeartbeatStatus DEF HeartbeatState
    <2>2. hb' = [hb EXCEPT ![w][s] = new]
        BY <1>5 DEF HeartbeatExtend
    <2> HIDE DEF new
    <2>3. sess' \in [Workers -> [Devices -> Session]]
        BY <1>2, <1>5, ExtendedType, Update DEF HeartbeatExtend, WorkerTypeOK
    <2>4. hb' \in [Workers -> [Slots -> Heartbeat]]
        BY <1>1, <2>1, <2>2
    <2> QED
        BY <1>3, <1>5, <2>3, <2>4 DEF HeartbeatExtend, DirectorTypeOK, WorkerTypeOK
<1>6. ASSUME NEW s \in Slots, HeartbeatFinish(w, s)
      PROVE  TypeOK'
    <2> DEFINE gone == Expired(w) \cup {d \in Running(w) : ClaimOf(w, d) \in hb[w][s].rejected}
    <2> DEFINE kept == (pending[w] \cup ClaimsOf(w, Expired(w))) \ hb[w][s].releasedLeases
    <2>1. gone \in SUBSET Devices /\ gone \ Expired(w) \in SUBSET Devices /\ Expired(w) \in SUBSET Devices
        BY ClaimTypes
    <2>2. Retired(w, gone) \in [Devices -> Session]
        BY <2>1, RetiredType
    <2>3. kept \cup ClaimsOf(w, gone \ Expired(w)) \in SUBSET Claim
        BY <2>1, ClaimTypes DEF WorkerTypeOK
    <2>4. /\ sess' = [sess EXCEPT ![w] = Retired(w, gone)]
          /\ pending' = [pending EXCEPT ![w] = kept \cup ClaimsOf(w, gone \ Expired(w))]
          /\ hb' = [hb EXCEPT ![w][s] = NoHeartbeat]
          /\ draining' = [draining EXCEPT ![w] = @ \/ hb[w][s].draining]
          /\ awaiting' = [awaiting EXCEPT ![w] = 0]
        BY <1>6 DEF HeartbeatFinish, Acknowledge
    <2> HIDE DEF gone, kept
    <2>5. sess' \in [Workers -> [Devices -> Session]] /\ pending' \in [Workers -> SUBSET Claim]
        BY <2>2, <2>3, <2>4, Update DEF WorkerTypeOK
    <2>6. hb' \in [Workers -> [Slots -> Heartbeat]]
        BY <1>1, <2>4, NullTypes
    <2>7. draining' \in [Workers -> BOOLEAN] /\ awaiting' \in [Workers -> Slots \cup {0}]
        BY <2>4 DEF WorkerTypeOK
    <2> QED
        BY <1>3, <1>6, <2>5, <2>6, <2>7 DEF HeartbeatFinish, DirectorTypeOK, WorkerTypeOK
<1>7. ASSUME NEW s \in Slots, HeartbeatDiscard(w, s)
      PROVE  TypeOK'
    <2>1. hb' \in [Workers -> [Slots -> Heartbeat]]
        BY <1>1, <1>7, NullTypes DEF HeartbeatDiscard
    <2> QED
        BY <1>3, <1>7, <2>1 DEF HeartbeatDiscard, DirectorTypeOK, WorkerTypeOK, workerVars
<1>8. ASSUME HeartbeatFail(w)
      PROVE  TypeOK'
    <2>1. awaiting[w] \in Slots
        BY <1>8 DEF HeartbeatFail, WorkerTypeOK
    <2>2. hb' \in [Workers -> [Slots -> Heartbeat]]
        BY <1>1, <1>8, <2>1, NullTypes DEF HeartbeatFail, DirectorTypeOK
    <2>3. Expired(w) \in SUBSET Devices
        BY ClaimTypes
    <2>4. sess' \in [Workers -> [Devices -> Session]] /\ pending' \in [Workers -> SUBSET Claim]
        BY <1>8, <2>3, RevokeType DEF HeartbeatFail
    <2>5. awaiting' \in [Workers -> Slots \cup {0}]
        BY <1>8 DEF HeartbeatFail, WorkerTypeOK
    <2> QED
        BY <1>3, <1>8, <2>2, <2>4, <2>5 DEF HeartbeatFail, DirectorTypeOK, WorkerTypeOK
<1>9. ASSUME WorkerDrain(w)
      PROVE  TypeOK'
    BY <1>3, <1>9 DEF WorkerDrain, DirectorTypeOK, directorVars, WorkerTypeOK
<1>10. ASSUME ShutdownStart(w)
       PROVE  TypeOK'
    <2>1. ClaimsOf(w, Running(w)) \in SUBSET Claim
        BY ClaimTypes
    <2> QED
        BY <1>3, <1>10, <2>1 DEF ShutdownStart, DirectorTypeOK, directorVars, WorkerTypeOK
<1>11. ASSUME RegistryClose(w)
       PROVE  TypeOK'
    <2>1. Running(w) \in SUBSET Devices
        BY ClaimTypes
    <2>2. sess' \in [Workers -> [Devices -> Session]] /\ pending' \in [Workers -> SUBSET Claim]
        BY <1>11, <2>1, RevokeType DEF RegistryClose
    <2> QED
        BY <1>3, <1>11, <2>2 DEF RegistryClose, DirectorTypeOK, directorVars, WorkerTypeOK
<1>12. ASSUME Restart(w)
       PROVE  TypeOK'
    <2>1. [d \in Devices |-> NoSession] \in [Devices -> Session]
        BY NullTypes
    <2>2. ClaimsOf(w, Reservations(w)) \in SUBSET Claim /\ pending[w] \in SUBSET Claim
        BY ClaimTypes DEF WorkerTypeOK
    <2>3. [s \in Slots |-> IF hb[w][s].st = "applied" THEN NoHeartbeat ELSE hb[w][s]] \in [Slots -> Heartbeat]
        BY <1>2, NullTypes
    <2>4. hb' \in [Workers -> [Slots -> Heartbeat]]
        BY <1>12, <2>3, Update DEF Restart, DirectorTypeOK
    <2>5. sess' \in [Workers -> [Devices -> Session]]
        BY <1>12, <2>1, Update DEF Restart, WorkerTypeOK
    <2> QED
        BY <1>3, <1>12, <2>2, <2>4, <2>5 DEF Restart, DirectorTypeOK, WorkerTypeOK
<1> QED
    BY <1>4, <1>5, <1>6, <1>7, <1>8, <1>9, <1>10, <1>11, <1>12, TypeSession DEF WorkerStep

\* Every step keeps the types.
LEMMA TypeNext ==
    ASSUME TypeOK, [Next]_vars
    PROVE  TypeOK'
<1>1. CASE UNCHANGED vars
    BY <1>1 DEF TypeOK, StoreTypeOK, DirectorTypeOK, WorkerTypeOK, vars, storeVars, directorVars, workerVars
<1>2. CASE Tick
    BY <1>2 DEF Tick, TypeOK, StoreTypeOK, DirectorTypeOK, WorkerTypeOK, storeVars, directorVars, workerVars
<1>3. CASE DirectorStep /\ UNCHANGED workerVars
    <2>1. ASSUME NEW g \in grants, Release(g)
          PROVE  TypeOK'
        <3>1. g.worker \in Workers /\ [dev |-> g.dev, fence |-> g.fence] \in Claim
            BY DEF TypeOK, DirectorTypeOK, Grant, Claim
        <3>2. StoreTypeOK'
            BY <2>1, <3>1, StoreTypes DEF Release, TypeOK
        <3> QED
            BY <1>3, <2>1, <3>2 DEF Release, TypeOK, DirectorTypeOK, WorkerTypeOK, workerVars
    <2>2. ASSUME NEW w \in Workers, Drain(w)
          PROVE  TypeOK'
        <3>1. StoreTypeOK'
            BY <2>2, StoreTypes DEF Drain, TypeOK
        <3> QED
            BY <1>3, <2>2, <3>1 DEF Drain, TypeOK, DirectorTypeOK, WorkerTypeOK, workerVars
    <2> QED
        BY <1>3, <2>1, <2>2, TypeBootstrap, TypeHeartbeat DEF DirectorStep
<1>4. CASE \E w \in Workers : WorkerStep(w)
    BY <1>4, TypeWorker
<1> QED
    BY <1>1, <1>2, <1>3, <1>4 DEF Next

\* Store, handlers and workers keep their types (TypeOK) in every behaviour.
THEOREM TypeCorrect == Spec => []TypeOK
<1>1. Init => TypeOK
    BY TypeInit
<1>2. TypeOK /\ [Next]_vars => TypeOK'
    BY TypeNext
<1> QED
    BY <1>1, <1>2, PTL DEF Spec

\* The fields of a heartbeat, for later use.
LEMMA HeartbeatTypes ==
    ASSUME TypeOK, NEW w \in Workers, NEW s \in Slots
    PROVE  /\ hb[w][s] \in Heartbeat /\ hb[w][s].now \in Nat
           /\ \A c \in hb[w][s].activeLeases \cup hb[w][s].releasedLeases
                      \cup hb[w][s].toRenew \cup hb[w][s].toRelease : c \in Claim
<1>1. hb[w][s] \in Heartbeat
    BY DEF TypeOK, DirectorTypeOK
<1> QED
    BY <1>1 DEF Heartbeat

-----------------------------------------------------------------------------
(* What a step may do to one session, to the releases of one worker, to    *)
(* one heartbeat and to the routes.                                        *)

SameClaim(w, d) == sess'[w][d].fence = sess[w][d].fence /\ sess'[w][d].exp = sess[w][d].exp

SessionChange(w, d) ==
    \/ sess'[w][d] = sess[w][d]
    \/ sess'[w][d] = NoSession
    \/ /\ sess[w][d].st = "idle" /\ sess'[w][d].st = "reserved" /\ sess'[w][d].now = 0
       /\ [dev |-> d, fence |-> sess'[w][d].fence, worker |-> w, exp |-> sess'[w][d].exp] \in grants
    \/ /\ sess[w][d].st = "reserved" /\ sess'[w][d].st = "consuming"
       /\ SameClaim(w, d) /\ sess'[w][d].now = clock
    \/ /\ sess[w][d].st = "consuming" /\ sess'[w][d].st = "consumed"
       /\ SameClaim(w, d) /\ sess'[w][d].now = sess[w][d].now
       /\ ConsumeGrant(w, ClaimOf(w, d), sess[w][d].exp, sess[w][d].now)
    \/ /\ sess[w][d].st = "consumed" /\ sess'[w][d].st = "running"
       /\ SameClaim(w, d) /\ sess'[w][d].now = sess[w][d].now /\ sess'[w][d].deadline = sess[w][d].exp
    \/ /\ sess[w][d].st = "running" /\ sess'[w][d].st = "retiring"
       /\ SameClaim(w, d) /\ sess'[w][d].now = sess[w][d].now
    \/ /\ sess[w][d].st = "running" /\ sess'[w][d].st = "running"
       /\ SameClaim(w, d) /\ sess'[w][d].now = sess[w][d].now
       /\ sess[w][d].deadline > clock
       /\ \E s \in Slots : /\ hb[w][s].st = "replied"
                           /\ ClaimOf(w, d) \in hb[w][s].activeLeases \ hb[w][s].rejected
                           /\ sess'[w][d].deadline = hb[w][s].now + LeaseTTL

\* Retiring running sessions is one of the admitted session changes.
LEMMA RetiredChange ==
    ASSUME TypeOK, NEW w \in Workers, NEW D \in SUBSET Running(w), sess' = [sess EXCEPT ![w] = Retired(w, D)],
           NEW v \in Workers, NEW e \in Devices
    PROVE  SessionChange(v, e)
<1>1. CASE v = w /\ e \in D
    <2>1. sess'[v][e] = [sess[v][e] EXCEPT !.st = "retiring", !.deadline = 0]
        BY <1>1 DEF TypeOK, WorkerTypeOK, Retired
    <2>2. sess[v][e] \in Session
        BY DEF TypeOK, WorkerTypeOK
    <2>3. \A r \in Session : LET q == [r EXCEPT !.st = "retiring", !.deadline = 0]
                            IN  q.st = "retiring" /\ q.fence = r.fence /\ q.exp = r.exp /\ q.now = r.now
        BY DEF Session
    <2>4. sess[v][e].st = "running"
        BY <1>1 DEF Running
    <2> QED
        BY <2>1, <2>2, <2>3, <2>4 DEF SessionChange, SameClaim
<1>2. CASE ~ (v = w /\ e \in D)
    <2>1. sess'[v][e] = sess[v][e]
        BY <1>2 DEF TypeOK, WorkerTypeOK, Retired
    <2> QED
        BY <2>1 DEF SessionChange
<1> QED
    BY <1>1, <1>2

\* An assignment to one session, whose change is one of the listed ones.
LEMMA OneSessionChange ==
    ASSUME TypeOK, NEW w \in Workers, NEW d \in Devices, NEW new, sess' = [sess EXCEPT ![w][d] = new],
           sess'[w][d] = new => SessionChange(w, d), NEW v \in Workers, NEW e \in Devices
    PROVE  SessionChange(v, e)
<1>1. sess'[w][d] = new
    BY DEF TypeOK, WorkerTypeOK
<1>2. v # w \/ e # d => sess'[v][e] = sess[v][e]
    BY DEF TypeOK, WorkerTypeOK
<1> QED
    BY <1>1, <1>2 DEF SessionChange

\* So is every step of a connection.
LEMMA SessionStepChange ==
    ASSUME TypeOK, NEW w \in Workers, SessionStep(w), NEW v \in Workers, NEW e \in Devices
    PROVE  SessionChange(v, e)
<1>1. \A d \in Devices : sess[w][d] \in Session
    BY DEF TypeOK, WorkerTypeOK
<1>2. ASSUME NEW d \in Devices, Forget(w, d)
      PROVE  SessionChange(v, e)
    <2>1. sess'[w][d] = NoSession => SessionChange(w, d)
        BY DEF SessionChange
    <2> QED
        BY <1>2, <2>1, OneSessionChange DEF Forget
<1>3. ASSUME NEW g \in grants, Reserve(w, g)
      PROVE  SessionChange(v, e)
    <2> DEFINE new == [st |-> "reserved", fence |-> g.fence, exp |-> g.exp, now |-> 0, deadline |-> 0]
    <2>1. g.dev \in Devices
        BY DEF TypeOK, DirectorTypeOK, Grant
    <2>2. g = [dev |-> g.dev, fence |-> g.fence, worker |-> w, exp |-> g.exp]
        BY <1>3 DEF Reserve, TypeOK, DirectorTypeOK, Grant
    <2>3. sess'[w][g.dev] = new => SessionChange(w, g.dev)
        BY <1>3, <2>1, <2>2 DEF SessionChange, Reserve
    <2>4. sess' = [sess EXCEPT ![w][g.dev] = new]
        BY <1>3 DEF Reserve
    <2> HIDE DEF new
    <2> QED
        BY <2>1, <2>3, <2>4, OneSessionChange
<1>4. ASSUME NEW d \in Devices, ConsumeStart(w, d)
      PROVE  SessionChange(v, e)
    <2> DEFINE new == [sess[w][d] EXCEPT !.st = "consuming", !.now = clock]
    <2>1. sess' = [sess EXCEPT ![w][d] = new]
        BY <1>4 DEF ConsumeStart
    <2>2. new.st = "consuming" /\ new.fence = sess[w][d].fence /\ new.exp = sess[w][d].exp /\ new.now = clock
        BY <1>1 DEF Session
    <2>3. sess'[w][d] = new => SessionChange(w, d)
        BY <1>4, <2>2 DEF SessionChange, SameClaim, ConsumeStart
    <2> QED
        BY <2>1, <2>3, OneSessionChange
<1>5. ASSUME NEW d \in Devices, ConsumeAccepted(w, d)
      PROVE  SessionChange(v, e)
    <2> DEFINE new == [sess[w][d] EXCEPT !.st = "consumed"]
    <2>1. sess' = [sess EXCEPT ![w][d] = new]
        BY <1>5 DEF ConsumeAccepted
    <2>2. /\ new.st = "consumed" /\ new.fence = sess[w][d].fence /\ new.exp = sess[w][d].exp
          /\ new.now = sess[w][d].now
        BY <1>1 DEF Session
    <2>3. sess'[w][d] = new => SessionChange(w, d)
        BY <1>5, <2>2 DEF SessionChange, SameClaim, ConsumeAccepted
    <2> QED
        BY <2>1, <2>3, OneSessionChange
<1>6. ASSUME NEW d \in Devices, SessionStart(w, d)
      PROVE  SessionChange(v, e)
    <2> DEFINE new == [sess[w][d] EXCEPT !.st = "running", !.deadline = sess[w][d].exp]
    <2>1. sess' = [sess EXCEPT ![w][d] = new] \/ Forget(w, d)
        BY <1>6 DEF SessionStart
    <2>2. /\ new.st = "running" /\ new.fence = sess[w][d].fence /\ new.exp = sess[w][d].exp
          /\ new.now = sess[w][d].now /\ new.deadline = sess[w][d].exp
        BY <1>1 DEF Session
    <2>3. sess'[w][d] = new => SessionChange(w, d)
        BY <1>6, <2>2 DEF SessionChange, SameClaim, SessionStart
    <2> QED
        BY <1>2, <2>1, <2>3, OneSessionChange
<1>7. ASSUME RevokeExpired(w)
      PROVE  SessionChange(v, e)
    <2>1. Expired(w) \in SUBSET Running(w)
        BY DEF Expired
    <2> QED
        BY <1>7, <2>1, RetiredChange DEF RevokeExpired, Revoke
<1> QED
    BY <1>2, <1>3, <1>4, <1>5, <1>6, <1>7
       DEF SessionStep, ConsumeRejected, ConsumeUnavailable, StartupAbort, SessionEnd

\* So is the extension of deadlines by an accepted heartbeat.
LEMMA ExtendChange ==
    ASSUME TypeOK, NEW w \in Workers, NEW s \in Slots, HeartbeatExtend(w, s),
           NEW v \in Workers, NEW e \in Devices
    PROVE  SessionChange(v, e)
<1> DEFINE ext == [sess[w][e] EXCEPT !.deadline = hb[w][s].now + LeaseTTL]
<1> DEFINE P == e \in Running(w) /\ ClaimOf(w, e) \in hb[w][s].activeLeases \ hb[w][s].rejected
                /\ sess[w][e].deadline > clock
<1>1. v # w => sess'[v][e] = sess[v][e]
    BY DEF HeartbeatExtend, TypeOK, WorkerTypeOK
<1>2. sess'[w][e] = IF P THEN ext ELSE sess[w][e]
    BY DEF HeartbeatExtend, Extended, TypeOK, WorkerTypeOK
<1>3. sess[w][e] \in Session
    BY DEF TypeOK, WorkerTypeOK
<1>4. /\ ext.st = sess[w][e].st /\ ext.fence = sess[w][e].fence /\ ext.exp = sess[w][e].exp
      /\ ext.now = sess[w][e].now /\ ext.deadline = hb[w][s].now + LeaseTTL
    BY <1>3 DEF Session
<1> HIDE DEF ext
<1>5. CASE P /\ v = w
    <2>1. sess[w][e].st = "running"
        BY <1>5 DEF Running
    <2> QED
        BY <1>2, <1>4, <1>5, <2>1 DEF SessionChange, SameClaim, HeartbeatExtend
<1>6. CASE ~ P /\ v = w
    BY <1>2, <1>6 DEF SessionChange
<1>7. CASE v # w
    BY <1>1, <1>7 DEF SessionChange
<1> QED
    BY <1>5, <1>6, <1>7

\* Every step changes a session in one of these ways.
LEMMA SessionFrame ==
    ASSUME TypeOK, [Next]_vars, NEW v \in Workers, NEW e \in Devices
    PROVE  SessionChange(v, e)
<1>1. UNCHANGED sess => SessionChange(v, e)
    BY DEF SessionChange
<1>2. ASSUME NEW w \in Workers, WorkerStep(w)
      PROVE  SessionChange(v, e)
    <2>1. ASSUME NEW s \in Slots, HeartbeatFinish(w, s)
          PROVE  SessionChange(v, e)
        <3>1. Expired(w) \cup {d \in Running(w) : ClaimOf(w, d) \in hb[w][s].rejected} \in SUBSET Running(w)
            BY DEF Expired
        <3> QED
            BY <2>1, <3>1, RetiredChange DEF HeartbeatFinish
    <2>2. ASSUME HeartbeatFail(w) \/ RegistryClose(w)
          PROVE  SessionChange(v, e)
        <3>1. Expired(w) \in SUBSET Running(w) /\ Running(w) \in SUBSET Running(w)
            BY DEF Expired
        <3> QED
            BY <2>2, <3>1, RetiredChange DEF HeartbeatFail, RegistryClose, Revoke
    <2>3. ASSUME Restart(w)
          PROVE  SessionChange(v, e)
        BY <2>3 DEF Restart, TypeOK, WorkerTypeOK, SessionChange
    <2>4. ASSUME NEW s \in Slots, HeartbeatSend(w, s) \/ HeartbeatDiscard(w, s)
          PROVE  SessionChange(v, e)
        BY <1>1, <2>4 DEF HeartbeatSend, HeartbeatDiscard, workerVars
    <2>5. ASSUME WorkerDrain(w) \/ ShutdownStart(w)
          PROVE  SessionChange(v, e)
        BY <1>1, <2>5 DEF WorkerDrain, ShutdownStart
    <2> QED
        BY <1>2, <2>1, <2>2, <2>3, <2>4, <2>5, SessionStepChange, ExtendChange DEF WorkerStep
<1> QED
    BY <1>1, <1>2 DEF Next, Tick, vars, workerVars

-----------------------------------------------------------------------------
\* A release is queued for a claim of a connection the worker has, and a
\* heartbeat reports claims of running connections and queued releases.
PendingChange(w) == pending'[w] \subseteq pending[w] \cup ClaimsOf(w, Reservations(w))

\* Claims of fewer sessions are fewer claims.
LEMMA ClaimsMonotone ==
    ASSUME NEW w \in Workers, NEW D \in SUBSET Reservations(w)
    PROVE  ClaimsOf(w, D) \subseteq ClaimsOf(w, Reservations(w))
BY DEF ClaimsOf

\* Running and expired sessions are reserved ones.
LEMMA RunningReserved ==
    ASSUME NEW w \in Workers
    PROVE  Expired(w) \subseteq Reservations(w) /\ Running(w) \subseteq Reservations(w)
BY DEF Expired, Running, Reservations

\* What any step may do to the queue of pending releases.
LEMMA PendingFrame ==
    ASSUME TypeOK, [Next]_vars, NEW v \in Workers
    PROVE  PendingChange(v)
<1>1. UNCHANGED pending => PendingChange(v)
    BY DEF PendingChange
<1>2. ASSUME NEW w \in Workers, WorkerStep(w)
      PROVE  PendingChange(v)
    <2>1. ASSUME NEW d \in Devices, QueueRelease(w, d), sess[w][d].st # "idle"
          PROVE  PendingChange(v)
        <3>1. ClaimOf(w, d) \in ClaimsOf(w, Reservations(w))
            BY <2>1 DEF ClaimsOf, Reservations
        <3> QED
            BY <2>1, <3>1 DEF QueueRelease, PendingChange, TypeOK, WorkerTypeOK
    <2>2. ASSUME NEW D \in SUBSET Reservations(w), pending' = [pending EXCEPT ![w] = pending[w] \cup ClaimsOf(w, D)]
          PROVE  PendingChange(v)
        BY <2>2, ClaimsMonotone DEF PendingChange, TypeOK, WorkerTypeOK
    <2>3. ASSUME RevokeExpired(w) \/ HeartbeatFail(w) \/ ShutdownStart(w) \/ RegistryClose(w)
          PROVE  PendingChange(v)
        BY <2>2, <2>3, RunningReserved DEF RevokeExpired, HeartbeatFail, ShutdownStart, RegistryClose, Revoke
    <2>4. ASSUME NEW s \in Slots, HeartbeatFinish(w, s)
          PROVE  PendingChange(v)
        <3> DEFINE gone == Expired(w) \cup {d \in Running(w) : ClaimOf(w, d) \in hb[w][s].rejected}
        <3> DEFINE kept == (pending[w] \cup ClaimsOf(w, Expired(w))) \ hb[w][s].releasedLeases
        <3>1. pending' = [pending EXCEPT ![w] = kept \cup ClaimsOf(w, gone \ Expired(w))]
            BY <2>4 DEF HeartbeatFinish, Acknowledge
        <3>2. Expired(w) \in SUBSET Reservations(w) /\ gone \ Expired(w) \in SUBSET Reservations(w)
            BY RunningReserved
        <3>3. kept \cup ClaimsOf(w, gone \ Expired(w)) \subseteq pending[w] \cup ClaimsOf(w, Reservations(w))
            BY <3>2, ClaimsMonotone
        <3> QED
            BY <3>1, <3>3 DEF PendingChange, TypeOK, WorkerTypeOK
    <2>5. ASSUME Restart(w)
          PROVE  PendingChange(v)
        BY <2>5 DEF Restart, PendingChange, TypeOK, WorkerTypeOK
    <2>6. ASSUME NEW d \in Devices, StartupAbort(w, d) \/ SessionEnd(w, d) \/ SessionStart(w, d)
          PROVE  PendingChange(v)
        BY <1>1, <2>1, <2>6 DEF StartupAbort, SessionEnd, SessionStart
    <2>7. ASSUME NEW d \in Devices,
                 ConsumeStart(w, d) \/ ConsumeAccepted(w, d) \/ ConsumeRejected(w, d) \/ ConsumeUnavailable(w, d)
          PROVE  PendingChange(v)
        BY <1>1, <2>7 DEF ConsumeStart, ConsumeAccepted, ConsumeRejected, ConsumeUnavailable
    <2>8. ASSUME NEW g \in grants, Reserve(w, g)
          PROVE  PendingChange(v)
        BY <1>1, <2>8 DEF Reserve
    <2>9. ASSUME NEW s \in Slots, HeartbeatSend(w, s) \/ HeartbeatExtend(w, s) \/ HeartbeatDiscard(w, s)
          PROVE  PendingChange(v)
        BY <1>1, <2>9 DEF HeartbeatSend, HeartbeatExtend, HeartbeatDiscard, workerVars
    <2>10. ASSUME WorkerDrain(w)
           PROVE  PendingChange(v)
        BY <1>1, <2>10 DEF WorkerDrain
    <2> QED
        BY <1>2, <2>3, <2>4, <2>5, <2>6, <2>7, <2>8, <2>9, <2>10 DEF WorkerStep, SessionStep
<1> QED
    BY <1>1, <1>2 DEF Next, Tick, vars, workerVars

SameReport(w, s) ==
    /\ hb'[w][s].activeLeases = hb[w][s].activeLeases
    /\ hb'[w][s].releasedLeases = hb[w][s].releasedLeases

SameHandler(w, s) ==
    /\ SameReport(w, s)
    /\ hb'[w][s].now = hb[w][s].now

HeartbeatChange(w, s) ==
    \/ hb'[w][s] = hb[w][s]
    \/ hb'[w][s] = NoHeartbeat
    \/ /\ hb[w][s].st = "idle" /\ hb'[w][s].st = "sent" /\ hb'[w][s].now = 0
       /\ hb'[w][s].activeLeases = ClaimsOf(w, Running(w))
       /\ hb'[w][s].releasedLeases = pending[w]
       /\ hb'[w][s].toRelease = {} /\ hb'[w][s].toRenew = {} /\ hb'[w][s].rejected = {}
    \/ /\ hb[w][s].st = "sent" /\ hb'[w][s].st = "busy" /\ hb'[w][s].now = clock /\ SameReport(w, s)
       /\ hb'[w][s].toRelease = hb[w][s].releasedLeases /\ hb'[w][s].toRenew = hb[w][s].activeLeases
       /\ hb'[w][s].rejected = hb[w][s].rejected
       /\ UNCHANGED <<clock, lease, released, sess, grants>>
    \/ /\ hb[w][s].st = "busy" /\ hb'[w][s].st = "busy" /\ SameHandler(w, s)
       /\ \E c \in hb[w][s].toRelease :
             ReleaseRoute(w, c) /\ hb'[w][s].toRelease = hb[w][s].toRelease \ {c}
       /\ hb'[w][s].toRenew = hb[w][s].toRenew /\ hb'[w][s].rejected = hb[w][s].rejected
    \/ /\ hb[w][s].st = "busy" /\ hb'[w][s].st = "busy" /\ SameHandler(w, s)
       /\ hb'[w][s].toRelease = hb[w][s].toRelease
       /\ \E c \in hb[w][s].toRenew :
             /\ hb'[w][s].toRenew = hb[w][s].toRenew \ {c}
             /\ \/ RenewRoute(w, c, hb[w][s].now) /\ hb'[w][s].rejected = hb[w][s].rejected
                \/ UNCHANGED storeVars /\ hb'[w][s].rejected = hb[w][s].rejected \cup {c}
    \/ /\ hb[w][s].st = "busy" /\ hb'[w][s].st = "replied" /\ SameHandler(w, s)
       /\ hb[w][s].toRelease = {} /\ hb[w][s].toRenew = {}
       /\ hb'[w][s].toRelease = {} /\ hb'[w][s].toRenew = {} /\ hb'[w][s].rejected = hb[w][s].rejected
       /\ UNCHANGED storeVars
    \/ /\ hb[w][s].st = "replied" /\ hb'[w][s].st = "applied" /\ SameHandler(w, s)
       /\ hb'[w][s].toRelease = hb[w][s].toRelease /\ hb'[w][s].toRenew = hb[w][s].toRenew
       /\ hb'[w][s].rejected = hb[w][s].rejected
       /\ UNCHANGED storeVars

\* A step that writes one heartbeat changes no other.
LEMMA OneHeartbeatChange ==
    ASSUME TypeOK, NEW w \in Workers, NEW s \in Slots, NEW new, hb' = [hb EXCEPT ![w][s] = new],
           hb'[w][s] = new => HeartbeatChange(w, s), NEW v \in Workers, NEW t \in Slots
    PROVE  HeartbeatChange(v, t)
<1>1. hb'[w][s] = new
    BY DEF TypeOK, DirectorTypeOK
<1>2. v # w \/ t # s => hb'[v][t] = hb[v][t]
    BY DEF TypeOK, DirectorTypeOK
<1> QED
    BY <1>1, <1>2 DEF HeartbeatChange

\* What any step may do to a heartbeat.
LEMMA HeartbeatFrame ==
    ASSUME TypeOK, [Next]_vars, NEW v \in Workers, NEW t \in Slots
    PROVE  HeartbeatChange(v, t)
<1>1. UNCHANGED hb => HeartbeatChange(v, t)
    BY DEF HeartbeatChange
<1>2. ASSUME NEW w \in Workers, NEW s \in Slots, hb' = [hb EXCEPT ![w][s] = NoHeartbeat]
      PROVE  HeartbeatChange(v, t)
    <2>1. hb'[w][s] = NoHeartbeat => HeartbeatChange(w, s)
        BY DEF HeartbeatChange
    <2> QED
        BY <1>2, <2>1, OneHeartbeatChange
<1>3. ASSUME NEW w \in Workers, NEW s \in Slots, UNCHANGED workerVars, HeartbeatStart(w, s)
      PROVE  HeartbeatChange(v, t)
    <2> DEFINE new == [hb[w][s] EXCEPT !.st        = "busy",
                                       !.now       = clock,
                                       !.active    = 0,
                                       !.draining  = StoredDraining(w, hb[w][s].draining),
                                       !.toRelease = hb[w][s].releasedLeases,
                                       !.toRenew   = hb[w][s].activeLeases]
    <2>1. hb' = [hb EXCEPT ![w][s] = new]
        BY <1>3 DEF HeartbeatStart
    <2>2. hb[w][s] \in Heartbeat
        BY DEF TypeOK, DirectorTypeOK
    <2>3. /\ new.st = "busy" /\ new.now = clock /\ new.activeLeases = hb[w][s].activeLeases
          /\ new.releasedLeases = hb[w][s].releasedLeases /\ new.rejected = hb[w][s].rejected
          /\ new.toRelease = hb[w][s].releasedLeases /\ new.toRenew = hb[w][s].activeLeases
        BY <2>2 DEF Heartbeat
    <2> HIDE DEF new
    <2>4. hb'[w][s] = new => HeartbeatChange(w, s)
        BY <1>3, <2>3 DEF HeartbeatChange, SameReport, HeartbeatStart, StoreHeartbeat, workerVars
    <2> QED
        BY <2>1, <2>4, OneHeartbeatChange
<1>4. ASSUME NEW w \in Workers, NEW s \in Slots, NEW c \in hb[w][s].toRelease, HeartbeatRelease(w, s, c)
      PROVE  HeartbeatChange(v, t)
    <2> DEFINE new == [hb[w][s] EXCEPT !.toRelease = hb[w][s].toRelease \ {c}]
    <2>1. hb' = [hb EXCEPT ![w][s] = new]
        BY <1>4 DEF HeartbeatRelease
    <2>2. hb[w][s] \in Heartbeat
        BY DEF TypeOK, DirectorTypeOK
    <2>3. /\ new.st = hb[w][s].st /\ new.now = hb[w][s].now /\ new.activeLeases = hb[w][s].activeLeases
          /\ new.releasedLeases = hb[w][s].releasedLeases /\ new.rejected = hb[w][s].rejected
          /\ new.toRelease = hb[w][s].toRelease \ {c} /\ new.toRenew = hb[w][s].toRenew
        BY <2>2 DEF Heartbeat
    <2> HIDE DEF new
    <2>4. hb'[w][s] = new => HeartbeatChange(w, s)
        BY <1>4, <2>3 DEF HeartbeatChange, SameHandler, SameReport, HeartbeatRelease
    <2> QED
        BY <2>1, <2>4, OneHeartbeatChange
<1>5. ASSUME NEW w \in Workers, NEW s \in Slots, NEW c \in hb[w][s].toRenew, HeartbeatRenew(w, s, c)
      PROVE  HeartbeatChange(v, t)
    <2> DEFINE new == [hb[w][s] EXCEPT !.toRenew = hb[w][s].toRenew \ {c}]
    <2> DEFINE rej == [hb[w][s] EXCEPT !.toRenew = hb[w][s].toRenew \ {c},
                                       !.rejected = hb[w][s].rejected \cup {c}]
    <2>1. \/ hb' = [hb EXCEPT ![w][s] = new] /\ RenewRoute(w, c, hb[w][s].now)
          \/ hb' = [hb EXCEPT ![w][s] = rej] /\ UNCHANGED storeVars
        BY <1>5 DEF HeartbeatRenew
    <2>2. hb[w][s] \in Heartbeat
        BY DEF TypeOK, DirectorTypeOK
    <2>3. /\ new.st = hb[w][s].st /\ new.now = hb[w][s].now /\ new.activeLeases = hb[w][s].activeLeases
          /\ new.releasedLeases = hb[w][s].releasedLeases /\ new.rejected = hb[w][s].rejected
          /\ new.toRelease = hb[w][s].toRelease /\ new.toRenew = hb[w][s].toRenew \ {c}
        BY <2>2 DEF Heartbeat
    <2>4. /\ rej.st = hb[w][s].st /\ rej.now = hb[w][s].now /\ rej.activeLeases = hb[w][s].activeLeases
          /\ rej.releasedLeases = hb[w][s].releasedLeases /\ rej.rejected = hb[w][s].rejected \cup {c}
          /\ rej.toRelease = hb[w][s].toRelease /\ rej.toRenew = hb[w][s].toRenew \ {c}
        BY <2>2 DEF Heartbeat
    <2> HIDE DEF new, rej
    <2>5. hb'[w][s] = new /\ RenewRoute(w, c, hb[w][s].now) => HeartbeatChange(w, s)
        BY <1>5, <2>3 DEF HeartbeatChange, SameHandler, SameReport, HeartbeatRenew
    <2>6. hb'[w][s] = rej /\ UNCHANGED storeVars => HeartbeatChange(w, s)
        BY <1>5, <2>4 DEF HeartbeatChange, SameHandler, SameReport, HeartbeatRenew
    <2> QED
        BY <2>1, <2>5, <2>6, OneHeartbeatChange
<1>6. ASSUME NEW w \in Workers, NEW s \in Slots, HeartbeatReply(w, s) \/ HeartbeatExtend(w, s)
      PROVE  HeartbeatChange(v, t)
    <2> DEFINE new(x) == [hb[w][s] EXCEPT !.st = x]
    <2>1. PICK x \in {"replied", "applied"} :
             /\ hb' = [hb EXCEPT ![w][s] = new(x)]
             /\ x = "replied" => HeartbeatReply(w, s)
             /\ x = "applied" => HeartbeatExtend(w, s)
        BY <1>6 DEF HeartbeatReply, HeartbeatExtend
    <2>2. hb[w][s] \in Heartbeat
        BY DEF TypeOK, DirectorTypeOK
    <2>3. /\ new(x).st = x /\ new(x).now = hb[w][s].now /\ new(x).activeLeases = hb[w][s].activeLeases
          /\ new(x).releasedLeases = hb[w][s].releasedLeases /\ new(x).rejected = hb[w][s].rejected
          /\ new(x).toRelease = hb[w][s].toRelease /\ new(x).toRenew = hb[w][s].toRenew
        BY <2>2 DEF Heartbeat
    <2> HIDE DEF new
    <2>4. hb'[w][s] = new(x) => HeartbeatChange(w, s)
        BY <2>1, <2>3 DEF HeartbeatChange, SameHandler, SameReport, HeartbeatReply, HeartbeatExtend
    <2> QED
        BY <2>1, <2>4, OneHeartbeatChange
<1>7. ASSUME NEW w \in Workers, NEW s \in Slots, HeartbeatSend(w, s)
      PROVE  HeartbeatChange(v, t)
    <2> DEFINE new == [NoHeartbeat EXCEPT !.st             = "sent",
                                          !.active         = Cardinality(Reservations(w)),
                                          !.draining       = draining[w],
                                          !.activeLeases   = ClaimsOf(w, Running(w)),
                                          !.releasedLeases = pending[w]]
    <2>1. hb' = [hb EXCEPT ![w][s] = new]
        BY <1>7 DEF HeartbeatSend
    <2>2. /\ new.st = "sent" /\ new.now = 0 /\ new.activeLeases = ClaimsOf(w, Running(w))
          /\ new.releasedLeases = pending[w] /\ new.rejected = {}
          /\ new.toRelease = {} /\ new.toRenew = {}
        BY DEF NoHeartbeat
    <2> HIDE DEF new
    <2>3. hb'[w][s] = new => HeartbeatChange(w, s)
        BY <1>7, <2>2 DEF HeartbeatChange, HeartbeatSend
    <2> QED
        BY <2>1, <2>3, OneHeartbeatChange
<1>8. ASSUME NEW w \in Workers, HeartbeatFail(w)
      PROVE  HeartbeatChange(v, t)
    <2>1. awaiting[w] \in Slots
        BY <1>8 DEF HeartbeatFail, TypeOK, WorkerTypeOK
    <2> QED
        BY <1>1, <1>2, <1>8, <2>1 DEF HeartbeatFail
<1>9. ASSUME NEW w \in Workers, Restart(w)
      PROVE  HeartbeatChange(v, t)
    BY <1>9 DEF Restart, HeartbeatChange, TypeOK, DirectorTypeOK
<1>10. ASSUME NEW w \in Workers, WorkerStep(w)
       PROVE  HeartbeatChange(v, t)
    <2>1. CASE SessionStep(w) \/ WorkerDrain(w) \/ ShutdownStart(w) \/ RegistryClose(w)
        <3>1. UNCHANGED hb
            BY <2>1 DEF SessionStep, Reserve, ConsumeStart, ConsumeAccepted, ConsumeRejected, ConsumeUnavailable,
               StartupAbort, SessionStart, SessionEnd, RevokeExpired, WorkerDrain, ShutdownStart, RegistryClose,
               directorVars
        <3> QED
            BY <1>1, <3>1
    <2>2. ASSUME NEW s \in Slots, HeartbeatFinish(w, s) \/ HeartbeatDiscard(w, s)
          PROVE  HeartbeatChange(v, t)
        BY <1>2, <2>2 DEF HeartbeatFinish, HeartbeatDiscard
    <2> QED
        BY <1>6, <1>7, <1>8, <1>9, <1>10, <2>1, <2>2 DEF WorkerStep
<1>11. ASSUME DirectorStep, UNCHANGED workerVars
       PROVE  HeartbeatChange(v, t)
    <2>1. ASSUME NEW b \in Boots,
                 \/ \E d \in Devices, offers \in SUBSET Workers : BootstrapList(b, d, offers)
                 \/ BootstrapConflict(b)
                 \/ BootstrapAbort(b)
                 \/ \E w \in Workers : BootstrapFull(b, w) \/ BootstrapGrant(b, w)
          PROVE  UNCHANGED hb
        BY <2>1 DEF BootstrapList, BootstrapConflict, BootstrapAbort, BootstrapFull, BootstrapGrant
    <2>2. ASSUME NEW w \in Workers, NEW s \in Slots, HeartbeatAbort(w, s)
          PROVE  HeartbeatChange(v, t)
        BY <1>2, <2>2 DEF HeartbeatAbort
    <2>3. ASSUME (\E g \in grants : Release(g)) \/ (\E w \in Workers : Drain(w))
          PROVE  UNCHANGED hb
        BY <2>3 DEF Release, Drain
    <2> QED
        BY <1>1, <1>3, <1>4, <1>5, <1>6, <1>11, <2>1, <2>2, <2>3 DEF DirectorStep
<1> QED
    BY <1>1, <1>10, <1>11 DEF Next, Tick, vars, directorVars

-----------------------------------------------------------------------------
\* The steps that touch a route.
RouteChange ==
    \/ UNCHANGED <<lease, fencing, routes, released, grants>>
    \/ /\ UNCHANGED <<clock, workerVars>>
       /\ \/ \E b \in Boots, w \in Workers : BootstrapFull(b, w)
          \/ \E b \in Boots, w \in Workers : BootstrapGrant(b, w)
          \/ \E w \in Workers, c \in Claim : ReleaseRoute(w, c) /\ UNCHANGED grants
          \/ \E w \in Workers, s \in Slots : \E c \in hb[w][s].toRenew :
                /\ hb[w][s].st = "busy"
                /\ RenewRoute(w, c, hb[w][s].now)
                /\ UNCHANGED grants

\* What any step may do to the route index.
LEMMA RouteFrame ==
    ASSUME TypeOK, [Next]_vars
    PROVE  RouteChange
<1>1. ASSUME NEW w \in Workers, WorkerStep(w)
      PROVE  UNCHANGED <<lease, fencing, routes, released, grants>>
    <2>1. CASE SessionStep(w)
        BY <2>1 DEF SessionStep, Reserve, ConsumeStart, ConsumeAccepted, ConsumeGrant, ConsumeRejected,
           ConsumeUnavailable, StartupAbort, SessionStart, SessionEnd, RevokeExpired, storeVars, directorVars
    <2>2. CASE ~ SessionStep(w)
        BY <1>1, <2>2 DEF WorkerStep, HeartbeatSend, HeartbeatExtend, HeartbeatFinish, HeartbeatDiscard,
           HeartbeatFail, WorkerDrain, ShutdownStart, RegistryClose, Restart, storeVars, directorVars
    <2> QED
        BY <2>1, <2>2
<1>2. ASSUME DirectorStep, UNCHANGED workerVars
      PROVE  RouteChange
    <2>1. ASSUME NEW b \in Boots,
                 \/ \E d \in Devices, offers \in SUBSET Workers : BootstrapList(b, d, offers)
                 \/ BootstrapConflict(b)
                 \/ BootstrapAbort(b)
          PROVE  RouteChange
        BY <2>1 DEF BootstrapList, BootstrapConflict, BootstrapAbort, storeVars, RouteChange
    <2>2. ASSUME NEW b \in Boots, NEW w \in Workers, BootstrapFull(b, w) \/ BootstrapGrant(b, w)
          PROVE  RouteChange
        <3>1. UNCHANGED clock
            BY <2>2 DEF BootstrapFull, BootstrapGrant
        <3> QED
            BY <1>2, <2>2, <3>1 DEF RouteChange
    <2>3. ASSUME NEW w \in Workers, NEW s \in Slots,
                 HeartbeatStart(w, s) \/ HeartbeatReply(w, s) \/ HeartbeatAbort(w, s)
          PROVE  RouteChange
        BY <2>3 DEF HeartbeatStart, StoreHeartbeat, HeartbeatReply, HeartbeatAbort, storeVars, RouteChange
    <2>4. ASSUME NEW w \in Workers, NEW s \in Slots, NEW c \in hb[w][s].toRelease, HeartbeatRelease(w, s, c)
          PROVE  RouteChange
        <3>1. c \in Claim
            BY DEF TypeOK, DirectorTypeOK, Heartbeat
        <3> QED
            BY <1>2, <2>4, <3>1 DEF HeartbeatRelease, RouteChange
    <2>5. ASSUME NEW w \in Workers, NEW s \in Slots, NEW c \in hb[w][s].toRenew, HeartbeatRenew(w, s, c)
          PROVE  RouteChange
        <3>1. CASE RenewRoute(w, c, hb[w][s].now)
            BY <1>2, <2>5, <3>1 DEF HeartbeatRenew, RouteChange
        <3>2. CASE UNCHANGED storeVars
            BY <2>5, <3>2 DEF HeartbeatRenew, RouteChange, storeVars
        <3> QED
            BY <2>5, <3>1, <3>2 DEF HeartbeatRenew
    <2>6. ASSUME NEW g \in grants, Release(g)
          PROVE  RouteChange
        <3>1. g.worker \in Workers /\ [dev |-> g.dev, fence |-> g.fence] \in Claim
            BY DEF TypeOK, DirectorTypeOK, Grant, Claim
        <3> QED
            BY <1>2, <2>6, <3>1 DEF Release, RouteChange
    <2>7. ASSUME NEW w \in Workers, Drain(w)
          PROVE  RouteChange
        BY <2>7 DEF Drain, SetDraining, RouteChange
    <2> QED
        BY <1>2, <2>1, <2>2, <2>3, <2>4, <2>5, <2>6, <2>7 DEF DirectorStep
<1>3. ASSUME Tick \/ UNCHANGED vars
      PROVE  RouteChange
    BY <1>3 DEF Tick, vars, storeVars, directorVars, RouteChange
<1> QED
    BY <1>1, <1>2, <1>3 DEF Next, RouteChange

\* A bootstrap handler reads the clock when it starts.
LEMMA BootstrapFrame ==
    ASSUME TypeOK, [Next]_vars, NEW b \in Boots
    PROVE  boot'[b].now = boot[b].now \/ boot'[b].now = 0 \/ boot'[b].now = clock
<1>1. ASSUME NEW w \in Workers, WorkerStep(w)
      PROVE  UNCHANGED boot
    <2>1. CASE SessionStep(w)
        BY <2>1 DEF SessionStep, Reserve, ConsumeStart, ConsumeAccepted, ConsumeRejected,
           ConsumeUnavailable, StartupAbort, SessionStart, SessionEnd, RevokeExpired, directorVars
    <2>2. CASE ~ SessionStep(w)
        BY <1>1, <2>2 DEF WorkerStep, HeartbeatSend, HeartbeatExtend, HeartbeatFinish, HeartbeatDiscard,
           HeartbeatFail, WorkerDrain, ShutdownStart, RegistryClose, Restart, directorVars
    <2> QED
        BY <2>1, <2>2
<1>2. NoBootstrap.now = 0
    BY DEF NoBootstrap
<1>3. ASSUME NEW a \in Boots, NEW new, boot' = [boot EXCEPT ![a] = new],
             new.now = boot[a].now \/ new.now = 0 \/ new.now = clock
      PROVE  boot'[b].now = boot[b].now \/ boot'[b].now = 0 \/ boot'[b].now = clock
    BY <1>3 DEF TypeOK, DirectorTypeOK
<1>4. ASSUME NEW a \in Boots, NEW d \in Devices, NEW offers \in SUBSET Workers, BootstrapList(a, d, offers)
      PROVE  boot'[b].now = boot[b].now \/ boot'[b].now = 0 \/ boot'[b].now = clock
    <2> DEFINE new == [busy  |-> TRUE, dev |-> d, now |-> clock, cands |-> Candidates(offers),
                       load  |-> [w \in Workers |->
                                     IF w \in Candidates(offers) THEN record[w].active ELSE 0]]
    <2>1. boot' = [boot EXCEPT ![a] = new]
        BY <1>4 DEF BootstrapList
    <2>2. new.now = clock
        OBVIOUS
    <2> HIDE DEF new
    <2> QED
        BY <1>3, <2>1, <2>2
<1>5. ASSUME NEW a \in Boots, BootstrapDone(a)
      PROVE  boot'[b].now = boot[b].now \/ boot'[b].now = 0 \/ boot'[b].now = clock
    BY <1>2, <1>3, <1>5 DEF BootstrapDone
<1>6. ASSUME NEW a \in Boots, NEW w \in Workers, BootstrapFull(a, w)
      PROVE  boot'[b].now = boot[b].now \/ boot'[b].now = 0 \/ boot'[b].now = clock
    <2> DEFINE new == [boot[a] EXCEPT !.cands = boot[a].cands \ {w}]
    <2>1. BootstrapDone(a) \/ boot' = [boot EXCEPT ![a] = new]
        BY <1>6 DEF BootstrapFull
    <2>2. boot[a] \in Bootstrap
        BY DEF TypeOK, DirectorTypeOK
    <2>3. new.now = boot[a].now
        BY <2>2 DEF Bootstrap
    <2> HIDE DEF new
    <2> QED
        BY <1>3, <1>5, <2>1, <2>3
<1>7. ASSUME NEW a \in Boots, BootstrapConflict(a) \/ BootstrapAbort(a) \/ \E w \in Workers : BootstrapGrant(a, w)
      PROVE  boot'[b].now = boot[b].now \/ boot'[b].now = 0 \/ boot'[b].now = clock
    BY <1>5, <1>7 DEF BootstrapConflict, BootstrapAbort, BootstrapGrant
<1>8. ASSUME NEW w \in Workers, NEW s \in Slots,
             \/ HeartbeatStart(w, s) \/ HeartbeatReply(w, s) \/ HeartbeatAbort(w, s)
             \/ \E c \in hb[w][s].toRelease : HeartbeatRelease(w, s, c)
             \/ \E c \in hb[w][s].toRenew : HeartbeatRenew(w, s, c)
      PROVE  UNCHANGED boot
    BY <1>8 DEF HeartbeatStart, HeartbeatRelease, HeartbeatRenew, HeartbeatReply, HeartbeatAbort
<1>9. ASSUME DirectorStep
      PROVE  boot'[b].now = boot[b].now \/ boot'[b].now = 0 \/ boot'[b].now = clock
    BY <1>4, <1>6, <1>7, <1>8, <1>9 DEF DirectorStep, Release, Drain
<1> QED
    BY <1>1, <1>9 DEF Next, Tick, vars, directorVars

\* Time passes alone.
LEMMA ClockFrame ==
    ASSUME TypeOK, [Next]_vars
    PROVE  \/ UNCHANGED clock
           \/ clock' = clock + 1 /\ UNCHANGED <<storeVars, directorVars, workerVars>>
<1>1. ASSUME NEW w \in Workers, WorkerStep(w)
      PROVE  UNCHANGED clock
    <2>1. CASE SessionStep(w)
        BY <2>1 DEF SessionStep, Reserve, ConsumeStart, ConsumeAccepted, ConsumeRejected,
           ConsumeUnavailable, StartupAbort, SessionStart, SessionEnd, RevokeExpired
    <2>2. CASE ~ SessionStep(w)
        BY <1>1, <2>2 DEF WorkerStep, HeartbeatSend, HeartbeatExtend, HeartbeatFinish, HeartbeatDiscard,
           HeartbeatFail, WorkerDrain, ShutdownStart, RegistryClose, Restart
    <2> QED
        BY <2>1, <2>2
<1>2. ASSUME DirectorStep
      PROVE  UNCHANGED clock
    <2>1. ASSUME NEW b \in Boots,
                 \/ \E d \in Devices, offers \in SUBSET Workers : BootstrapList(b, d, offers)
                 \/ BootstrapConflict(b)
                 \/ BootstrapAbort(b)
                 \/ \E w \in Workers : BootstrapFull(b, w) \/ BootstrapGrant(b, w)
          PROVE  UNCHANGED clock
        BY <2>1 DEF BootstrapList, BootstrapConflict, BootstrapAbort, BootstrapFull, BootstrapGrant
    <2>2. ASSUME NEW w \in Workers, NEW s \in Slots,
                 \/ HeartbeatStart(w, s) \/ HeartbeatReply(w, s) \/ HeartbeatAbort(w, s)
                 \/ \E c \in hb[w][s].toRelease : HeartbeatRelease(w, s, c)
                 \/ \E c \in hb[w][s].toRenew : HeartbeatRenew(w, s, c)
          PROVE  UNCHANGED clock
        BY <2>2 DEF HeartbeatStart, HeartbeatRelease, HeartbeatRenew, HeartbeatReply, HeartbeatAbort
    <2> QED
        BY <1>2, <2>1, <2>2 DEF DirectorStep, Release, Drain
<1> QED
    BY <1>1, <1>2 DEF Next, Tick, vars

\* What a step may do to the route of one device.
Acquired(d, b, w) ==
    /\ boot[b].dev = d
    /\ ~ Conflict(d, boot[b].now)
    /\ fencing' = [fencing EXCEPT ![d] = fencing[d] + 1]
    /\ lease'[d].worker = w /\ lease'[d].fence = fencing[d] + 1
    /\ lease'[d].exp = boot[b].now + LeaseTTL /\ lease'[d].px = clock + LeaseTTL
    /\ grants' = grants \cup {[dev |-> d, fence |-> fencing[d] + 1, worker |-> w, exp |-> boot[b].now + LeaseTTL]}

LeaseChange(d) ==
    \/ lease'[d] = lease[d]
    \/ /\ lease'[d] = NoLease
       /\ \/ \E b \in Boots : ~ Conflict(d, boot[b].now)
          \/ \E w \in Workers, c \in Claim : c.dev = d /\ Matches(w, c) /\ released' = released \cup {c}
    \/ \E b \in Boots, w \in Workers : Acquired(d, b, w)
    \/ \E w \in Workers, s \in Slots : \E c \in hb[w][s].toRenew :
          /\ hb[w][s].st = "busy" /\ c.dev = d
          /\ Renewable(w, c, hb[w][s].now)
          /\ lease'[d].worker = lease[d].worker /\ lease'[d].fence = lease[d].fence
          /\ lease'[d].exp = hb[w][s].now + LeaseTTL /\ lease'[d].px = clock + LeaseTTL

\* What any step may do to a lease.
LEMMA LeaseFrame ==
    ASSUME TypeOK, [Next]_vars, NEW d \in Devices
    PROVE  LeaseChange(d)
<1>1. ASSUME NEW b \in Boots, NEW w \in Workers, BootstrapFull(b, w)
      PROVE  LeaseChange(d)
    BY <1>1 DEF BootstrapFull, AcquireRefused, LeaseChange, TypeOK, StoreTypeOK
<1>2. ASSUME NEW b \in Boots, NEW w \in Workers, BootstrapGrant(b, w)
      PROVE  LeaseChange(d)
    <2> DEFINE new == [worker |-> w, fence |-> fencing[boot[b].dev] + 1, exp |-> boot[b].now + LeaseTTL,
                       px |-> clock + LeaseTTL]
    <2>1. boot[b].dev \in Devices
        BY DEF TypeOK, DirectorTypeOK, Bootstrap
    <2>2. lease' = [lease EXCEPT ![boot[b].dev] = new]
        BY <1>2 DEF BootstrapGrant, AcquireGranted
    <2>3. /\ new.worker = w /\ new.fence = fencing[boot[b].dev] + 1 /\ new.exp = boot[b].now + LeaseTTL
          /\ new.px = clock + LeaseTTL
        OBVIOUS
    <2> HIDE DEF new
    <2>4. CASE d # boot[b].dev
        BY <2>2, <2>4 DEF LeaseChange, TypeOK, StoreTypeOK
    <2>5. CASE d = boot[b].dev
        <3>1. lease'[d] = new
            BY <2>1, <2>2, <2>5 DEF TypeOK, StoreTypeOK
        <3>2. Acquired(d, b, w)
            BY <1>2, <2>3, <2>5, <3>1 DEF Acquired, BootstrapGrant, AcquireGranted
        <3> QED
            BY <3>2 DEF LeaseChange
    <2> QED
        BY <2>4, <2>5
<1>3. ASSUME NEW w \in Workers, NEW c \in Claim, ReleaseRoute(w, c)
      PROVE  LeaseChange(d)
    BY <1>3 DEF ReleaseRoute, LeaseChange, TypeOK, StoreTypeOK
<1>4. ASSUME NEW w \in Workers, NEW s \in Slots, NEW c \in hb[w][s].toRenew, hb[w][s].st = "busy",
             RenewRoute(w, c, hb[w][s].now)
      PROVE  LeaseChange(d)
    <2> DEFINE new == [lease[c.dev] EXCEPT !.exp = hb[w][s].now + LeaseTTL, !.px = clock + LeaseTTL]
    <2>1. c.dev \in Devices
        BY DEF TypeOK, DirectorTypeOK, Heartbeat, Claim
    <2>2. lease' = [lease EXCEPT ![c.dev] = new]
        BY <1>4 DEF RenewRoute
    <2>3. lease[c.dev] \in Lease
        BY <2>1 DEF TypeOK, StoreTypeOK
    <2>4. /\ new.worker = lease[c.dev].worker /\ new.fence = lease[c.dev].fence
          /\ new.exp = hb[w][s].now + LeaseTTL /\ new.px = clock + LeaseTTL
        BY <2>3 DEF Lease
    <2> HIDE DEF new
    <2>5. CASE d # c.dev
        BY <2>2, <2>5 DEF LeaseChange, TypeOK, StoreTypeOK
    <2>6. CASE d = c.dev
        <3>1. lease'[d] = new
            BY <2>1, <2>2, <2>6 DEF TypeOK, StoreTypeOK
        <3> QED
            BY <1>4, <2>4, <2>6, <3>1 DEF LeaseChange, RenewRoute
    <2> QED
        BY <2>5, <2>6
<1> QED
    BY <1>1, <1>2, <1>3, <1>4, RouteFrame DEF RouteChange, LeaseChange

\* Tokens and grants are only added, together, by an acquisition.
LEMMA GrantFrame ==
    ASSUME TypeOK, [Next]_vars
    PROVE  \/ UNCHANGED <<fencing, grants>>
           \/ /\ UNCHANGED <<clock, workerVars>>
              /\ \E d \in Devices, b \in Boots, w \in Workers : Acquired(d, b, w) /\ BootstrapGrant(b, w)
<1>1. ASSUME NEW b \in Boots, NEW w \in Workers, BootstrapGrant(b, w)
      PROVE  boot[b].dev \in Devices /\ Acquired(boot[b].dev, b, w)
    <2>1. boot[b].dev \in Devices
        BY DEF TypeOK, DirectorTypeOK, Bootstrap
    <2>2. lease'[boot[b].dev] = [worker |-> w, fence |-> fencing[boot[b].dev] + 1, exp |-> boot[b].now + LeaseTTL,
                                 px |-> clock + LeaseTTL]
        BY <1>1, <2>1 DEF BootstrapGrant, AcquireGranted, TypeOK, StoreTypeOK
    <2> QED
        BY <1>1, <2>1, <2>2 DEF Acquired, BootstrapGrant, AcquireGranted
<1>2. ASSUME NEW b \in Boots, NEW w \in Workers, BootstrapFull(b, w)
      PROVE  UNCHANGED <<fencing, grants>>
    BY <1>2 DEF BootstrapFull, AcquireRefused
<1>3. ASSUME NEW w \in Workers, NEW c \in Claim, ReleaseRoute(w, c)
      PROVE  UNCHANGED fencing
    BY <1>3 DEF ReleaseRoute
<1>4. ASSUME NEW w \in Workers, NEW s \in Slots, NEW c \in hb[w][s].toRenew,
             RenewRoute(w, c, hb[w][s].now)
      PROVE  UNCHANGED fencing
    BY <1>4 DEF RenewRoute
<1> QED
    BY <1>1, <1>2, <1>3, <1>4, RouteFrame DEF RouteChange

-----------------------------------------------------------------------------
\* A grant is consumed by the script of one connection.
LEMMA ConsumeFrame ==
    ASSUME TypeOK, [Next]_vars
    PROVE  UNCHANGED jti \/ \E w \in Workers, d \in Devices : ConsumeAccepted(w, d)
<1>1. ASSUME NEW w \in Workers, WorkerStep(w)
      PROVE  UNCHANGED jti \/ \E d \in Devices : ConsumeAccepted(w, d)
    <2>1. CASE SessionStep(w)
        BY <2>1 DEF SessionStep, Reserve, ConsumeStart, ConsumeRejected,
           ConsumeUnavailable, StartupAbort, SessionStart, SessionEnd, RevokeExpired, storeVars
    <2>2. CASE ~ SessionStep(w)
        BY <1>1, <2>2 DEF WorkerStep, HeartbeatSend, HeartbeatExtend, HeartbeatFinish, HeartbeatDiscard,
           HeartbeatFail, WorkerDrain, ShutdownStart, RegistryClose, Restart, storeVars
    <2> QED
        BY <2>1, <2>2
<1>2. ASSUME DirectorStep
      PROVE  UNCHANGED jti
    <2>1. ASSUME NEW b \in Boots,
                 \/ \E d \in Devices, offers \in SUBSET Workers : BootstrapList(b, d, offers)
                 \/ BootstrapConflict(b)
                 \/ BootstrapAbort(b)
                 \/ \E w \in Workers : BootstrapFull(b, w) \/ BootstrapGrant(b, w)
          PROVE  UNCHANGED jti
        BY <2>1 DEF BootstrapList, BootstrapConflict, BootstrapAbort, BootstrapFull, BootstrapGrant,
           AcquireRefused, AcquireGranted, storeVars
    <2>2. ASSUME NEW w \in Workers, NEW s \in Slots,
                 \/ HeartbeatStart(w, s) \/ HeartbeatReply(w, s) \/ HeartbeatAbort(w, s)
                 \/ \E c \in hb[w][s].toRelease : HeartbeatRelease(w, s, c)
                 \/ \E c \in hb[w][s].toRenew : HeartbeatRenew(w, s, c)
          PROVE  UNCHANGED jti
        BY <2>2 DEF HeartbeatStart, HeartbeatRelease, HeartbeatRenew, HeartbeatReply, HeartbeatAbort,
           StoreHeartbeat, ReleaseRoute, RenewRoute, storeVars
    <2> QED
        BY <1>2, <2>1, <2>2 DEF DirectorStep, Release, Drain, ReleaseRoute, SetDraining
<1> QED
    BY <1>1, <1>2 DEF Next, Tick, vars, storeVars

\* Claims given up stay given up.
LEMMA ForgottenFrame ==
    ASSUME TypeOK, [Next]_vars
    PROVE  forgotten \subseteq forgotten'
<1>1. ASSUME NEW w \in Workers, WorkerStep(w)
      PROVE  forgotten \subseteq forgotten'
    <2>1. CASE SessionStep(w)
        BY <2>1 DEF SessionStep, Reserve, ConsumeStart, ConsumeAccepted, ConsumeRejected,
           ConsumeUnavailable, StartupAbort, SessionStart, SessionEnd, RevokeExpired
    <2>2. CASE ~ SessionStep(w)
        BY <1>1, <2>2 DEF WorkerStep, HeartbeatSend, HeartbeatExtend, HeartbeatFinish, HeartbeatDiscard,
           HeartbeatFail, WorkerDrain, ShutdownStart, RegistryClose, Restart, workerVars
    <2> QED
        BY <2>1, <2>2
<1> QED
    BY <1>1 DEF Next, Tick, vars, workerVars

\* A queued release leaves the queue when a finished heartbeat has carried it
\* or the process dies.
PendingKept(w, c) ==
    \/ c \in pending'[w]
    \/ c \in forgotten'
    \/ \E s \in Slots : hb[w][s].st = "applied" /\ c \in hb[w][s].releasedLeases

\* Why a pending release may disappear from the queue.
LEMMA PendingKeptFrame ==
    ASSUME TypeOK, [Next]_vars, NEW v \in Workers, NEW c \in pending[v]
    PROVE  PendingKept(v, c)
<1>1. UNCHANGED pending => PendingKept(v, c)
    BY DEF PendingKept
<1>2. ASSUME NEW w \in Workers, WorkerStep(w)
      PROVE  PendingKept(v, c)
    <2>1. ASSUME NEW X, pending' = [pending EXCEPT ![w] = pending[w] \cup X]
          PROVE  PendingKept(v, c)
        BY <2>1 DEF PendingKept, TypeOK, WorkerTypeOK
    <2>2. ASSUME NEW s \in Slots, HeartbeatFinish(w, s)
          PROVE  PendingKept(v, c)
        <3> DEFINE new == ((pending[w] \cup ClaimsOf(w, Expired(w))) \ hb[w][s].releasedLeases) \cup
                          ClaimsOf(w, (Expired(w) \cup {d \in Running(w) : ClaimOf(w, d) \in hb[w][s].rejected})
                                      \ Expired(w))
        <3>1. pending' = [pending EXCEPT ![w] = new] /\ hb[w][s].st = "applied"
            BY <2>2 DEF HeartbeatFinish, Acknowledge
        <3>2. v = w /\ c \notin hb[w][s].releasedLeases => c \in new
            OBVIOUS
        <3> HIDE DEF new
        <3> QED
            BY <3>1, <3>2 DEF PendingKept, TypeOK, WorkerTypeOK
    <2>3. ASSUME Restart(w)
          PROVE  PendingKept(v, c)
        <3>1. CASE v = w
            BY <2>3, <3>1 DEF Restart, PendingKept
        <3>2. CASE v # w
            BY <2>3, <3>2 DEF Restart, PendingKept, TypeOK, WorkerTypeOK
        <3> QED
            BY <3>1, <3>2
    <2>4. ASSUME SessionStep(w)
          PROVE  PendingKept(v, c)
        BY <1>1, <2>1, <2>4 DEF SessionStep, Reserve, ConsumeStart, ConsumeAccepted, ConsumeRejected,
           ConsumeUnavailable, StartupAbort, SessionStart, SessionEnd, RevokeExpired, QueueRelease, Revoke
    <2>5. ASSUME HeartbeatFail(w) \/ WorkerDrain(w) \/ ShutdownStart(w) \/ RegistryClose(w)
          PROVE  PendingKept(v, c)
        BY <1>1, <2>1, <2>5 DEF HeartbeatFail, WorkerDrain, ShutdownStart, RegistryClose, Revoke
    <2>6. ASSUME NEW s \in Slots, HeartbeatSend(w, s) \/ HeartbeatExtend(w, s) \/ HeartbeatDiscard(w, s)
          PROVE  PendingKept(v, c)
        BY <1>1, <2>6 DEF HeartbeatSend, HeartbeatExtend, HeartbeatDiscard, workerVars
    <2> QED
        BY <1>2, <2>2, <2>3, <2>4, <2>5, <2>6 DEF WorkerStep
<1> QED
    BY <1>1, <1>2 DEF Next, Tick, vars, workerVars

\* A connection that has its grant stays, or leaves its release behind, or is
\* forgotten.
OwnerKept(w, d) ==
    \/ Owns(w, d)' /\ sess'[w][d].fence = sess[w][d].fence
    \/ ClaimOf(w, d) \in pending'[w]
    \/ ClaimOf(w, d) \in forgotten'

\* What becomes of a session that owns a claim.
LEMMA OwnerKeptFrame ==
    ASSUME TypeOK, [Next]_vars, NEW v \in Workers, NEW e \in Devices, Owns(v, e)
    PROVE  OwnerKept(v, e)
<1>1. sess'[v][e] # NoSession => OwnerKept(v, e)
    <2>1. SessionChange(v, e)
        BY SessionFrame
    <2> QED
        BY <2>1 DEF SessionChange, SameClaim, Owns, OwnerKept
<1>2. sess'[v][e] = sess[v][e] => OwnerKept(v, e)
    BY DEF OwnerKept, Owns
<1>3. UNCHANGED sess => OwnerKept(v, e)
    BY <1>2
<1>4. ASSUME NEW w \in Workers, WorkerStep(w), sess'[v][e] = NoSession
      PROVE  OwnerKept(v, e)
    <2>1. ASSUME NEW d \in Devices, Forget(w, d), QueueRelease(w, d) \/ forgotten' = forgotten \cup {ClaimOf(w, d)}
          PROVE  OwnerKept(v, e)
        <3>1. CASE v = w /\ e = d
            BY <2>1, <3>1 DEF OwnerKept, QueueRelease, TypeOK, WorkerTypeOK
        <3>2. CASE ~ (v = w /\ e = d)
            BY <1>2, <2>1, <3>2 DEF Forget, TypeOK, WorkerTypeOK
        <3> QED
            BY <3>1, <3>2
    <2>2. ASSUME NEW d \in Devices, ConsumeRejected(w, d)
          PROVE  OwnerKept(v, e)
        <3>1. ~ (v = w /\ e = d)
            BY <2>2 DEF ConsumeRejected, Owns
        <3> QED
            BY <1>2, <2>2, <3>1 DEF ConsumeRejected, Forget, TypeOK, WorkerTypeOK
    <2>3. ASSUME NEW d \in Devices, ConsumeUnavailable(w, d) \/ StartupAbort(w, d) \/ SessionEnd(w, d)
          PROVE  OwnerKept(v, e)
        BY <2>1, <2>3 DEF ConsumeUnavailable, StartupAbort, SessionEnd
    <2>4. ASSUME NEW d \in Devices, SessionStart(w, d)
          PROVE  OwnerKept(v, e)
        <3>1. CASE Forget(w, d) /\ QueueRelease(w, d)
            BY <2>1, <3>1
        <3>2. CASE sess' = [sess EXCEPT ![w][d] = [sess[w][d] EXCEPT !.st = "running", !.deadline = sess[w][d].exp]]
            <4>1. CASE v = w /\ e = d
                <5>1. sess[w][d] \in Session
                    BY DEF TypeOK, WorkerTypeOK
                <5>2. [sess[w][d] EXCEPT !.st = "running", !.deadline = sess[w][d].exp].st = "running"
                    BY <5>1 DEF Session
                <5>3. sess'[v][e].st = "running"
                    BY <3>2, <4>1, <5>2 DEF TypeOK, WorkerTypeOK
                <5> QED
                    BY <1>1, <5>3 DEF NoSession
            <4>2. CASE ~ (v = w /\ e = d)
                BY <1>2, <3>2, <4>2 DEF TypeOK, WorkerTypeOK
            <4> QED
                BY <4>1, <4>2
        <3> QED
            BY <2>4, <3>1, <3>2 DEF SessionStart
    <2>5. ASSUME NEW D \in SUBSET Devices, sess' = [sess EXCEPT ![w] = Retired(w, D)]
          PROVE  OwnerKept(v, e)
        <3>1. CASE v = w /\ e \in D
            <4>1. sess[v][e] \in Session
                BY DEF TypeOK, WorkerTypeOK
            <4>2. sess'[v][e] = [sess[v][e] EXCEPT !.st = "retiring", !.deadline = 0]
                BY <2>5, <3>1 DEF Retired, TypeOK, WorkerTypeOK
            <4>3. sess'[v][e].st = "retiring"
                BY <4>1, <4>2 DEF Session
            <4> QED
                BY <1>1, <4>3 DEF NoSession
        <3>2. CASE ~ (v = w /\ e \in D)
            BY <1>2, <2>5, <3>2 DEF Retired, TypeOK, WorkerTypeOK
        <3> QED
            BY <3>1, <3>2
    <2>6. ASSUME RevokeExpired(w) \/ HeartbeatFail(w) \/ RegistryClose(w)
          PROVE  OwnerKept(v, e)
        BY <2>5, <2>6, ClaimTypes DEF RevokeExpired, HeartbeatFail, RegistryClose, Revoke, TypeOK
    <2>7. ASSUME NEW s \in Slots, HeartbeatFinish(w, s)
          PROVE  OwnerKept(v, e)
        <3>1. Expired(w) \cup {d \in Running(w) : ClaimOf(w, d) \in hb[w][s].rejected} \in SUBSET Devices
            BY ClaimTypes DEF TypeOK
        <3> QED
            BY <2>5, <2>7, <3>1 DEF HeartbeatFinish
    <2>8. ASSUME NEW s \in Slots, HeartbeatExtend(w, s)
          PROVE  OwnerKept(v, e)
        <3>1. SessionChange(v, e) /\ UNCHANGED <<pending, forgotten>>
            BY <2>8, ExtendChange DEF HeartbeatExtend
        <3>2. sess[v][e] \in Session
            BY DEF TypeOK, WorkerTypeOK
        <3>3. sess'[v][e].st = sess[v][e].st
            BY <2>8, <3>2 DEF HeartbeatExtend, Extended, TypeOK, WorkerTypeOK, Session
        <3> QED
            BY <1>1, <1>4, <3>3 DEF Owns, NoSession
    <2>9. ASSUME Restart(w)
          PROVE  OwnerKept(v, e)
        <3>1. CASE v = w
            <4>1. ClaimOf(w, e) \in ClaimsOf(w, Reservations(w))
                BY <3>1 DEF ClaimsOf, Reservations, Owns
            <4> QED
                BY <2>9, <3>1, <4>1 DEF Restart, OwnerKept
        <3>2. CASE v # w
            BY <1>2, <2>9, <3>2 DEF Restart, TypeOK, WorkerTypeOK
        <3> QED
            BY <3>1, <3>2
    <2>10. ASSUME NEW g \in grants, Reserve(w, g)
           PROVE  OwnerKept(v, e)
        <3>1. g.dev \in Devices /\ ~ (v = w /\ e = g.dev)
            BY <2>10 DEF Reserve, Owns, TypeOK, DirectorTypeOK, Grant
        <3> QED
            BY <1>2, <2>10, <3>1 DEF Reserve, TypeOK, WorkerTypeOK
    <2>11. ASSUME NEW d \in Devices, ConsumeStart(w, d) \/ ConsumeAccepted(w, d)
           PROVE  OwnerKept(v, e)
        <3>1. ~ (v = w /\ e = d)
            BY <2>11 DEF ConsumeStart, ConsumeAccepted, Owns
        <3> QED
            BY <1>2, <2>11, <3>1 DEF ConsumeStart, ConsumeAccepted, TypeOK, WorkerTypeOK
    <2>12. ASSUME NEW s \in Slots, HeartbeatSend(w, s) \/ HeartbeatDiscard(w, s)
           PROVE  OwnerKept(v, e)
        BY <1>3, <2>12 DEF HeartbeatSend, HeartbeatDiscard, workerVars
    <2>13. ASSUME WorkerDrain(w) \/ ShutdownStart(w)
           PROVE  OwnerKept(v, e)
        BY <1>3, <2>13 DEF WorkerDrain, ShutdownStart
    <2>14. ASSUME SessionStep(w)
           PROVE  OwnerKept(v, e)
        BY <2>2, <2>3, <2>4, <2>6, <2>10, <2>11, <2>14 DEF SessionStep
    <2> QED
        BY <1>4, <2>6, <2>7, <2>8, <2>9, <2>12, <2>13, <2>14 DEF WorkerStep
<1> QED
    BY <1>1, <1>3, <1>4 DEF Next, Tick, vars, workerVars

-----------------------------------------------------------------------------
(* The parts of Base.                                                      *)

\* The base invariant holds initially.
LEMMA BaseInit == Init => Base
<1>1. Init => TypeOK
    BY TypeInit
<1>2. Init => Times /\ Fences /\ Origins /\ Loops
    BY DEF Init, StoreInit, DirectorInit, WorkerInit, Times, Fences, Origins, Loops,
       NoLease, NoBootstrap, NoHeartbeat, NoSession
<1> QED
    BY <1>1, <1>2 DEF Base

\* Clock readings stay in the past.
LEMMA TimesStep ==
    ASSUME TypeOK, Times, [Next]_vars
    PROVE  Times'
<1>1. clock \in Nat /\ clock' \in Nat /\ clock' >= clock
    BY ClockFrame DEF TypeOK, StoreTypeOK
<1>2. ASSUME NEW b \in Boots
      PROVE  boot'[b].now <= clock'
    <2>1. boot'[b].now = boot[b].now \/ boot'[b].now = 0 \/ boot'[b].now = clock
        BY BootstrapFrame
    <2>2. boot[b].now \in Nat /\ boot[b].now <= clock
        BY DEF TypeOK, DirectorTypeOK, Bootstrap, Times
    <2> QED
        BY <1>1, <2>1, <2>2
<1>3. ASSUME NEW w \in Workers, NEW s \in Slots
      PROVE  hb'[w][s].now <= clock'
    <2>1. hb'[w][s].now = hb[w][s].now \/ hb'[w][s].now = 0 \/ hb'[w][s].now = clock
        BY HeartbeatFrame DEF HeartbeatChange, SameHandler, NoHeartbeat
    <2>2. hb[w][s].now \in Nat /\ hb[w][s].now <= clock
        BY ZenonT(60) DEF TypeOK, DirectorTypeOK, Heartbeat, Times
    <2> QED
        BY <1>1, <2>1, <2>2
<1>4. ASSUME NEW w \in Workers, NEW d \in Devices
      PROVE  sess'[w][d].now <= clock'
    <2>1. sess'[w][d].now = sess[w][d].now \/ sess'[w][d].now = 0 \/ sess'[w][d].now = clock
        <3>1. SessionChange(w, d)
            BY SessionFrame
        <3>2. NoSession.now = 0
            BY DEF NoSession
        <3> QED
            BY <3>1, <3>2 DEF SessionChange
    <2>2. sess[w][d] \in Session
        BY DEF TypeOK, WorkerTypeOK
    <2>3. sess[w][d].now \in Nat
        BY <2>2 DEF Session
    <2>4. sess[w][d].now <= clock
        BY DEF Times
    <2> QED
        BY <1>1, <2>1, <2>3, <2>4
<1>5. ASSUME NEW d \in Devices
      PROVE  lease'[d].exp <= lease'[d].px
    <2>1. \/ lease'[d] = lease[d]
          \/ lease'[d] = NoLease
          \/ \E n \in Nat : n <= clock /\ lease'[d].exp = n + LeaseTTL /\ lease'[d].px = clock + LeaseTTL
        <3>1. \A b \in Boots : boot[b].now \in Nat /\ boot[b].now <= clock
            BY DEF TypeOK, DirectorTypeOK, Bootstrap, Times
        <3>2. \A w \in Workers, s \in Slots : hb[w][s].now \in Nat /\ hb[w][s].now <= clock
            BY DEF TypeOK, DirectorTypeOK, Heartbeat, Times
        <3> QED
            BY <3>1, <3>2, LeaseFrame DEF LeaseChange, Acquired
    <2>2. lease[d].exp <= lease[d].px
        BY DEF Times
    <2> QED
        BY <1>1, <2>1, <2>2 DEF NoLease
<1> QED
    BY <1>2, <1>3, <1>4, <1>5 DEF Times

\* The fields of a grant.
LEMMA GrantTypes ==
    ASSUME TypeOK
    PROVE  \A g \in grants : /\ g.dev \in Devices /\ g.fence \in Nat /\ g.worker \in Workers /\ g.exp \in Nat
                            /\ g = [dev |-> g.dev, fence |-> g.fence, worker |-> g.worker, exp |-> g.exp]
BY DEF TypeOK, DirectorTypeOK, Grant

\* Grants are never withdrawn.
LEMMA GrantedStable ==
    ASSUME TypeOK, [Next]_vars
    PROVE  /\ grants \subseteq grants'
           /\ \A w \in Workers, c \in Claim : Granted(w, c) => Granted(w, c)'
<1>1. grants \subseteq grants'
    BY GrantFrame DEF Acquired
<1> QED
    BY <1>1 DEF Granted

\* Tokens stay unique and newest on their leases.
LEMMA FencesStep ==
    ASSUME TypeOK, Fences, [Next]_vars
    PROVE  Fences'
<1>1. \A d \in Devices : fencing[d] \in Nat
    BY DEF TypeOK, StoreTypeOK
<1>2. ASSUME NEW d \in Devices, lease'[d].fence # 0
      PROVE  /\ lease'[d].fence = fencing'[d]
             /\ Granted(lease[d].worker, [dev |-> d, fence |-> fencing[d]])'
    <2>1. CASE lease'[d].fence = lease[d].fence /\ lease'[d].worker = lease[d].worker /\ fencing'[d] = fencing[d]
        <3>1. lease[d].fence = fencing[d] /\ Granted(lease[d].worker, [dev |-> d, fence |-> fencing[d]])
            BY <1>2, <2>1 DEF Fences
        <3> QED
            BY <2>1, <3>1, GrantedStable DEF Granted
    <2>2. ASSUME NEW b \in Boots, NEW w \in Workers, Acquired(d, b, w)
          PROVE  /\ lease'[d].fence = fencing'[d]
                 /\ Granted(lease[d].worker, [dev |-> d, fence |-> fencing[d]])'
        <3>1. fencing'[d] = fencing[d] + 1 /\ lease'[d].fence = fencing[d] + 1 /\ lease'[d].worker = w
            BY <2>2 DEF Acquired, TypeOK, StoreTypeOK
        <3>2. [dev |-> d, fence |-> fencing[d] + 1, worker |-> w, exp |-> boot[b].now + LeaseTTL] \in grants'
            BY <2>2 DEF Acquired
        <3> QED
            BY <3>1, <3>2 DEF Granted
    <2>3. lease'[d] = NoLease => FALSE
        BY <1>2 DEF NoLease
    <2>4. \/ fencing'[d] = fencing[d]
          \/ \E b \in Boots, w \in Workers : Acquired(d, b, w)
        BY GrantFrame DEF Acquired, TypeOK, StoreTypeOK
    <2>5. \/ lease'[d].fence = lease[d].fence /\ lease'[d].worker = lease[d].worker
          \/ \E b \in Boots, w \in Workers : Acquired(d, b, w)
        BY <2>3, LeaseFrame DEF LeaseChange
    <2> QED
        BY <2>1, <2>2, <2>4, <2>5
<1>3. ASSUME NEW g \in grants'
      PROVE  g.fence # 0 /\ g.fence <= fencing'[g.dev]
    <2>1. CASE UNCHANGED <<fencing, grants>>
        BY <1>3, <2>1 DEF Fences
    <2>2. ASSUME NEW d \in Devices, NEW b \in Boots, NEW w \in Workers, Acquired(d, b, w)
          PROVE  g.fence # 0 /\ g.fence <= fencing'[g.dev]
        <3>1. \A e \in Devices : fencing'[e] >= fencing[e] /\ fencing'[d] = fencing[d] + 1
            BY <1>1, <2>2 DEF Acquired, TypeOK, StoreTypeOK
        <3>2. CASE g \in grants
            <4>1. g.dev \in Devices /\ g.fence \in Nat /\ g.fence # 0 /\ g.fence <= fencing[g.dev]
                BY <3>2, GrantTypes DEF Fences
            <4>2. fencing'[g.dev] \in Nat /\ fencing'[g.dev] >= fencing[g.dev]
                BY <3>1, <4>1, TypeNext DEF TypeOK, StoreTypeOK
            <4> QED
                BY <1>1, <4>1, <4>2
        <3>3. CASE g = [dev |-> d, fence |-> fencing[d] + 1, worker |-> w, exp |-> boot[b].now + LeaseTTL]
            BY <1>1, <3>1, <3>3
        <3> QED
            BY <1>3, <2>2, <3>2, <3>3 DEF Acquired
    <2> QED
        BY <2>1, <2>2, GrantFrame
<1>4. ASSUME NEW g \in grants', NEW h \in grants', g.dev = h.dev, g.fence = h.fence
      PROVE  g = h
    <2>1. CASE UNCHANGED grants
        BY <1>4, <2>1 DEF Fences
    <2>2. ASSUME NEW d \in Devices, NEW b \in Boots, NEW w \in Workers, Acquired(d, b, w)
          PROVE  g = h
        <3> DEFINE new == [dev |-> d, fence |-> fencing[d] + 1, worker |-> w, exp |-> boot[b].now + LeaseTTL]
        <3>1. grants' = grants \cup {new}
            BY <2>2 DEF Acquired
        <3>2. \A k \in grants : k.dev = d => k.fence < fencing[d] + 1
            BY <1>1, GrantTypes DEF Fences
        <3>3. new.dev = d /\ new.fence = fencing[d] + 1
            OBVIOUS
        <3> HIDE DEF new
        <3>4. \A k \in grants : k.dev = new.dev /\ k.fence = new.fence => FALSE
            BY <1>1, <3>2, <3>3, GrantTypes
        <3> QED
            BY <1>4, <3>1, <3>4 DEF Fences
    <2> QED
        BY <2>1, <2>2, GrantFrame
<1>5. ASSUME NEW j \in jti'
      PROVE  j.fence <= fencing'[j.dev]
    <2>1. j \in Consumption
        BY TypeNext DEF TypeOK, StoreTypeOK
    <2>2. j.dev \in Devices /\ j.fence \in Nat
        BY <2>1 DEF Consumption
    <2>3. fencing'[j.dev] \in Nat /\ fencing'[j.dev] >= fencing[j.dev]
        BY <1>1, <2>2, TypeNext, GrantFrame DEF Acquired, TypeOK, StoreTypeOK
    <2>4. j.fence <= fencing[j.dev]
        <3>1. CASE j \in jti
            BY <3>1 DEF Fences
        <3>2. ASSUME NEW w \in Workers, NEW d \in Devices, ConsumeAccepted(w, d), j \notin jti
              PROVE  j.fence <= fencing[j.dev]
            <4>1. j.dev = d /\ j.fence = sess[w][d].fence /\ lease[d].fence = sess[w][d].fence
                BY <3>2 DEF ConsumeAccepted, ConsumeGrant, Consumable, Renewable, Matches, ClaimOf
            <4>2. lease[d].fence = 0 \/ lease[d].fence = fencing[d]
                BY DEF Fences
            <4> QED
                BY <1>1, <4>1, <4>2
        <3> QED
            BY <3>1, <3>2, ConsumeFrame
    <2> QED
        BY <1>1, <2>2, <2>3, <2>4
<1> QED
    BY <1>2, <1>3, <1>4, <1>5 DEF Fences

\* Sessions and heartbeats only ever speak of granted claims.
LEMMA OriginsStep ==
    ASSUME TypeOK, Origins, [Next]_vars
    PROVE  Origins'
<1>1. grants \subseteq grants'
    BY GrantedStable
<1>2. ASSUME NEW w \in Workers, NEW D \in SUBSET Reservations(w), NEW c \in ClaimsOf(w, D)
      PROVE  Granted(w, c)
    <2>1. PICK d \in D : c = ClaimOf(w, d)
        BY DEF ClaimsOf
    <2>2. d \in Devices /\ sess[w][d].st # "idle"
        BY DEF Reservations
    <2>3. [dev |-> d, fence |-> sess[w][d].fence, worker |-> w, exp |-> sess[w][d].exp] \in grants
        BY <2>2 DEF Origins
    <2> QED
        BY <2>1, <2>3 DEF Granted, ClaimOf
<1>3. ASSUME NEW w \in Workers, NEW d \in Devices, sess'[w][d].st # "idle"
      PROVE  [dev |-> d, fence |-> sess'[w][d].fence, worker |-> w, exp |-> sess'[w][d].exp] \in grants'
    <2>1. SessionChange(w, d)
        BY SessionFrame
    <2>2. NoSession.st = "idle"
        BY DEF NoSession
    <2>3. sess[w][d].st # "idle" =>
             [dev |-> d, fence |-> sess[w][d].fence, worker |-> w, exp |-> sess[w][d].exp] \in grants
        BY DEF Origins
    <2> QED
        BY <1>1, <1>3, <2>1, <2>2, <2>3 DEF SessionChange, SameClaim
<1>4. ASSUME NEW w \in Workers, NEW c \in pending'[w]
      PROVE  Granted(w, c)'
    <2>1. c \in pending[w] \/ c \in ClaimsOf(w, Reservations(w))
        BY PendingFrame DEF PendingChange
    <2>2. Granted(w, c)
        BY <1>2, <2>1 DEF Origins
    <2> QED
        BY <1>1, <2>2 DEF Granted
<1>5. ASSUME NEW w \in Workers, NEW s \in Slots,
             NEW c \in hb'[w][s].activeLeases \cup hb'[w][s].releasedLeases
      PROVE  Granted(w, c)'
    <2>1. HeartbeatChange(w, s)
        BY HeartbeatFrame
    <2>2. NoHeartbeat.activeLeases = {} /\ NoHeartbeat.releasedLeases = {}
        BY DEF NoHeartbeat
    <2>3. \/ c \in hb[w][s].activeLeases \cup hb[w][s].releasedLeases
          \/ c \in pending[w]
          \/ c \in ClaimsOf(w, Running(w))
        BY <1>5, <2>1, <2>2 DEF HeartbeatChange, SameHandler, SameReport
    <2>4. Granted(w, c)
        BY <1>2, <2>3, RunningReserved DEF Origins
    <2> QED
        BY <1>1, <2>4 DEF Granted
<1> QED
    BY <1>3, <1>4, <1>5 DEF Origins

\* The loops of a handler stay within the request it was sent.
LEMMA LoopsStep ==
    ASSUME TypeOK, Loops, [Next]_vars
    PROVE  Loops'
<1> SUFFICES ASSUME NEW w \in Workers, NEW s \in Slots
             PROVE  /\ hb'[w][s].toRenew \subseteq hb'[w][s].activeLeases
                    /\ hb'[w][s].toRelease \subseteq hb'[w][s].releasedLeases
                    /\ hb'[w][s].rejected \subseteq hb'[w][s].activeLeases
                    /\ hb'[w][s].st \in {"replied", "applied"} =>
                          hb'[w][s].toRenew = {} /\ hb'[w][s].toRelease = {}
    BY DEF Loops
<1>1. HeartbeatChange(w, s)
    BY HeartbeatFrame
<1>2. /\ hb[w][s].toRenew \subseteq hb[w][s].activeLeases
      /\ hb[w][s].toRelease \subseteq hb[w][s].releasedLeases
      /\ hb[w][s].rejected \subseteq hb[w][s].activeLeases
      /\ hb[w][s].st \in {"replied", "applied"} => hb[w][s].toRenew = {} /\ hb[w][s].toRelease = {}
    BY DEF Loops
<1> QED
    BY <1>1, <1>2 DEF HeartbeatChange, SameHandler, SameReport, NoHeartbeat

\* The base invariant is preserved by every step.
LEMMA BaseStep ==
    ASSUME Base, [Next]_vars
    PROVE  Base'
BY TypeNext, TimesStep, FencesStep, OriginsStep, LoopsStep DEF Base

\* The part of the inductive invariant that needs no assumption on overlapping
\* heartbeat handlers: types, clock readings, fencing tokens, claims, handler loops.
THEOREM BaseCorrect == Spec => []Base
<1>1. Init => Base
    BY BaseInit
<1>2. Base /\ [Next]_vars => Base'
    BY BaseStep
<1> QED
    BY <1>1, <1>2, PTL DEF Spec

\* No two workers own a session under one device and epoch (OneOwnerPerEpoch):
\* the token of a session determines the grant it came from, and the grant its worker.
THEOREM OneOwner == Spec => []OneOwnerPerEpoch
<1>1. Base => OneOwnerPerEpoch
    <2> SUFFICES ASSUME Base, NEW v \in Workers, NEW w \in Workers, NEW d \in Devices, Owns(v, d), Owns(w, d),
                        sess[v][d].fence = sess[w][d].fence
                 PROVE  v = w
        BY DEF OneOwnerPerEpoch
    <2> DEFINE grant(x) == [dev |-> d, fence |-> sess[x][d].fence, worker |-> x, exp |-> sess[x][d].exp]
    <2>1. grant(v) \in grants /\ grant(w) \in grants
        BY DEF Base, Origins, Owns
    <2>2. grant(v) = grant(w)
        BY <2>1 DEF Base, Fences
    <2>3. grant(v).worker = grant(w).worker
        BY <2>2
    <2> QED
        BY <2>3
<1> QED
    BY <1>1, BaseCorrect, PTL

\* Tokens never go back and a lease is replaced only when it has expired or
\* is gone, under a new token (Takeover).
THEOREM TakeoverCorrect == Spec => Takeover
<1>1. Base /\ [Next]_vars => [TakeoverStep]_vars
    <2> SUFFICES ASSUME Base, [Next]_vars, NEW d \in Devices
                 PROVE  /\ fencing'[d] >= fencing[d]
                        /\ lease'[d].fence # lease[d].fence /\ lease'[d].fence # 0 =>
                              /\ lease'[d].fence > fencing[d]
                              /\ lease[d].fence = 0 \/ lease[d].exp <= clock
        BY DEF TakeoverStep
    <2>1. TypeOK
        BY DEF Base
    <2>2. \A e \in Devices : fencing[e] \in Nat
        BY <2>1 DEF TypeOK, StoreTypeOK
    <2>3. fencing'[d] >= fencing[d]
        BY <2>1, <2>2, GrantFrame DEF Acquired, TypeOK, StoreTypeOK
    <2>4. ASSUME lease'[d].fence # lease[d].fence, lease'[d].fence # 0
          PROVE  lease'[d].fence > fencing[d] /\ lease[d].exp <= clock
        <3>1. PICK b \in Boots, w \in Workers : Acquired(d, b, w)
            BY <2>1, <2>4, LeaseFrame DEF LeaseChange, NoLease
        <3>2. lease[d] \in Lease /\ boot[b].now \in Nat /\ boot[b].now <= clock /\ clock \in Nat
            BY <2>1 DEF TypeOK, StoreTypeOK, DirectorTypeOK, Bootstrap, Base, Times
        <3>3. lease[d].exp \in Nat /\ lease[d].px \in Nat /\ lease[d].exp <= lease[d].px
            BY <3>2 DEF Lease, Base, Times
        <3>4. lease'[d].fence = fencing[d] + 1 /\ (lease[d].px <= clock \/ lease[d].exp <= boot[b].now)
            BY <3>1, <3>2, <3>3 DEF Acquired, Conflict, Present
        <3> QED
            BY <2>2, <3>2, <3>3, <3>4
    <2> QED
        BY <2>3, <2>4
<1> QED
    BY <1>1, BaseCorrect, PTL DEF Spec, Takeover

-----------------------------------------------------------------------------
(* The capacity index.                                                     *)

\* Every step keeps the capacity index in step with the leases.
LEMMA IndexStep ==
    ASSUME Base, IndexCoversLeases, [Next]_vars
    PROVE  IndexCoversLeases'
<1>1. /\ TypeOK /\ clock \in Nat /\ clock' \in Nat /\ clock' >= clock
      /\ lease \in [Devices -> Lease] /\ routes \in [Workers -> [Devices -> Nat]]
    BY ClockFrame DEF Base, TypeOK, StoreTypeOK
<1>2. \A d \in Devices : lease[d].exp \in Nat
    BY <1>1 DEF Lease
<1>3. NoLease.exp = 0
    BY DEF NoLease
<1>4. ASSUME NEW w \in Workers, NEW now \in Nat, now <= clock, NEW v \in Workers, NEW d \in Devices,
             lease[d].worker = v, lease[d].exp > clock
      PROVE  routes[v][d] = lease[d].exp /\ (v = w => Purged(w, now)[d] = lease[d].exp)
    BY <1>1, <1>2, <1>4 DEF IndexCoversLeases, Purged
<1> SUFFICES ASSUME NEW v \in Workers, NEW d \in Devices, lease'[d].worker = v, lease'[d].exp > clock'
             PROVE  routes'[v][d] = lease'[d].exp
    BY DEF IndexCoversLeases
<1>5. CASE UNCHANGED <<lease, routes>>
    BY <1>1, <1>2, <1>5 DEF IndexCoversLeases
<1>6. ASSUME NEW b \in Boots, NEW w \in Workers, BootstrapFull(b, w), UNCHANGED clock
      PROVE  routes'[v][d] = lease'[d].exp
    <2>1. boot[b].now \in Nat /\ boot[b].now <= clock
        BY <1>1 DEF TypeOK, DirectorTypeOK, Bootstrap, Base, Times
    <2>2. /\ lease' = [lease EXCEPT ![boot[b].dev] = NoLease]
          /\ routes' = [routes EXCEPT ![w] = Purged(w, boot[b].now)]
        BY <1>6 DEF BootstrapFull, AcquireRefused
    <2>3. d # boot[b].dev /\ lease'[d] = lease[d]
        BY <1>1, <1>3, <2>2
    <2> QED
        BY <1>1, <1>4, <1>6, <2>1, <2>2, <2>3
<1>7. ASSUME NEW b \in Boots, NEW w \in Workers, BootstrapGrant(b, w), UNCHANGED clock
      PROVE  routes'[v][d] = lease'[d].exp
    <2>1. boot[b].now \in Nat /\ boot[b].now <= clock /\ boot[b].dev \in Devices
        BY <1>1 DEF TypeOK, DirectorTypeOK, Bootstrap, Base, Times
    <2> DEFINE new == [worker |-> w, fence |-> fencing[boot[b].dev] + 1,
                       exp |-> boot[b].now + LeaseTTL, px |-> clock + LeaseTTL]
    <2> DEFINE row == [Purged(w, boot[b].now) EXCEPT ![boot[b].dev] = boot[b].now + LeaseTTL]
    <2>2. lease' = [lease EXCEPT ![boot[b].dev] = new] /\ routes' = [routes EXCEPT ![w] = row]
        BY <1>7 DEF BootstrapGrant, AcquireGranted
    <2>3. new.worker = w /\ new.exp = boot[b].now + LeaseTTL
        OBVIOUS
    <2>4. /\ row[boot[b].dev] = boot[b].now + LeaseTTL
          /\ d # boot[b].dev => row[d] = Purged(w, boot[b].now)[d]
        BY <2>1 DEF Purged
    <2> HIDE DEF new, row
    <2>5. CASE d = boot[b].dev
        BY <1>1, <2>2, <2>3, <2>4, <2>5
    <2>6. CASE d # boot[b].dev
        <3>1. lease'[d] = lease[d] /\ routes'[v][d] = IF v = w THEN Purged(w, boot[b].now)[d] ELSE routes[v][d]
            BY <1>1, <2>2, <2>4, <2>6
        <3> QED
            BY <1>1, <1>4, <1>7, <2>1, <3>1
    <2> QED
        BY <2>5, <2>6
<1>8. ASSUME NEW w \in Workers, NEW c \in Claim, ReleaseRoute(w, c), UNCHANGED clock
      PROVE  routes'[v][d] = lease'[d].exp
    <2>1. CASE Matches(w, c)
        <3>1. lease' = [lease EXCEPT ![c.dev] = NoLease] /\ routes' = [routes EXCEPT ![w][c.dev] = 0]
            BY <1>8, <2>1 DEF ReleaseRoute
        <3>2. d # c.dev /\ lease'[d] = lease[d] /\ routes'[v][d] = routes[v][d]
            BY <1>1, <1>3, <3>1
        <3> QED
            BY <1>8, <3>2 DEF IndexCoversLeases
    <2>2. CASE ~ Matches(w, c)
        BY <1>5, <1>8, <2>2 DEF ReleaseRoute
    <2> QED
        BY <2>1, <2>2
<1>9. ASSUME NEW w \in Workers, NEW s \in Slots, NEW c \in hb[w][s].toRenew, RenewRoute(w, c, hb[w][s].now),
             UNCHANGED clock
      PROVE  routes'[v][d] = lease'[d].exp
    <2>1. c.dev \in Devices
        <3>1. c \in Claim
            BY <1>1, HeartbeatTypes
        <3> QED
            BY <3>1 DEF Claim
    <2> DEFINE new == [lease[c.dev] EXCEPT !.exp = hb[w][s].now + LeaseTTL, !.px = clock + LeaseTTL]
    <2>2. lease' = [lease EXCEPT ![c.dev] = new] /\ routes' = [routes EXCEPT ![w][c.dev] = hb[w][s].now + LeaseTTL]
        BY <1>9 DEF RenewRoute
    <2>3. lease[c.dev] \in Lease /\ lease[c.dev].worker = w
        BY <1>1, <1>9, <2>1 DEF RenewRoute, Renewable, Matches
    <2>4. new.worker = w /\ new.exp = hb[w][s].now + LeaseTTL
        BY <2>3 DEF Lease
    <2> HIDE DEF new
    <2>5. CASE d = c.dev
        BY <1>1, <2>1, <2>2, <2>4, <2>5
    <2>6. CASE d # c.dev
        <3>1. lease'[d] = lease[d] /\ routes'[v][d] = routes[v][d]
            BY <1>1, <2>1, <2>2, <2>6
        <3> QED
            BY <1>9, <3>1 DEF IndexCoversLeases
    <2> QED
        BY <2>5, <2>6
<1> QED
    BY <1>1, <1>5, <1>6, <1>7, <1>8, <1>9, RouteFrame DEF RouteChange

\* The route index counts every unexpired lease of a worker (IndexCoversLeases),
\* so acquire_route never hands out more leases than max_sessions.
THEOREM IndexCorrect == Spec => []IndexCoversLeases
<1>1. Init => IndexCoversLeases
    BY DEF Init, StoreInit, IndexCoversLeases, NoLease
<1>2. Base /\ IndexCoversLeases /\ [Next]_vars => IndexCoversLeases'
    BY IndexStep
<1> QED
    BY <1>1, <1>2, BaseCorrect, PTL DEF Spec

-----------------------------------------------------------------------------
(* No lost releases.                                                       *)

\* A granted claim that holds no lease never gets one again.
LEMMA StaysGone ==
    ASSUME Base, [Next]_vars, NEW w \in Workers, NEW c \in Claim, Granted(w, c),
           ~ (Present(c.dev) /\ lease[c.dev].fence = c.fence)
    PROVE  ~ (Present(c.dev) /\ lease[c.dev].fence = c.fence)'
<1>1. /\ TypeOK /\ clock \in Nat /\ clock' \in Nat /\ clock' >= clock
      /\ c.dev \in Devices /\ c.fence \in Nat /\ fencing[c.dev] \in Nat /\ lease[c.dev] \in Lease
    BY ClockFrame DEF Base, TypeOK, StoreTypeOK, Claim
<1>2. c.fence # 0 /\ c.fence <= fencing[c.dev]
    BY DEF Granted, Base, Fences
<1>3. CASE lease'[c.dev] = lease[c.dev]
    <2>1. lease[c.dev].px \in Nat
        BY <1>1 DEF Lease
    <2> QED
        BY <1>1, <1>3, <2>1 DEF Present
<1>4. CASE lease'[c.dev] = NoLease
    BY <1>2, <1>4 DEF NoLease
<1>5. ASSUME NEW b \in Boots, NEW v \in Workers, Acquired(c.dev, b, v)
      PROVE  lease'[c.dev].fence # c.fence
    BY <1>1, <1>2, <1>5 DEF Acquired
<1>6. CASE Present(c.dev) /\ lease'[c.dev].fence = lease[c.dev].fence
    BY <1>6
<1>7. LeaseChange(c.dev)
    BY <1>1, LeaseFrame
<1>8. \/ lease'[c.dev] = lease[c.dev]
      \/ lease'[c.dev] = NoLease
      \/ \E b \in Boots, v \in Workers : Acquired(c.dev, b, v)
      \/ Present(c.dev) /\ lease'[c.dev].fence = lease[c.dev].fence
    BY <1>7 DEF LeaseChange, Renewable, Matches
<1> QED
    BY <1>3, <1>4, <1>5, <1>6, <1>8

\* A claim of a worker that the store does not match holds no lease at all.
LEMMA GrantedMatches ==
    ASSUME Base, NEW w \in Workers, NEW c \in Claim, Granted(w, c),
           Present(c.dev), lease[c.dev].fence = c.fence
    PROVE  Matches(w, c)
<1>1. c.dev \in Devices
    BY DEF Claim
<1>2. PICK g \in grants : g.worker = w /\ g.dev = c.dev /\ g.fence = c.fence
    BY DEF Granted
<1>3. lease[c.dev].fence # 0
    BY <1>2 DEF Base, Fences
<1>4. PICK h \in grants : h.worker = lease[c.dev].worker /\ h.dev = c.dev /\ h.fence = lease[c.dev].fence
    BY <1>1, <1>3 DEF Base, Fences, Granted
<1>5. g = h
    BY <1>2, <1>4 DEF Base, Fences
<1> QED
    BY <1>2, <1>4, <1>5 DEF Matches

\* What a handler has released is not granted again under the same token.
LEMMA AppliedStep ==
    ASSUME Base, Applied, [Next]_vars
    PROVE  Applied'
<1>1. TypeOK
    BY DEF Base
<1> SUFFICES ASSUME NEW w \in Workers, NEW s \in Slots, Started(w, s)',
                    NEW c \in hb'[w][s].releasedLeases \ hb'[w][s].toRelease
             PROVE  ~ (Present(c.dev) /\ lease[c.dev].fence = c.fence)'
    BY DEF Applied
<1>2. HeartbeatChange(w, s)
    BY <1>1, HeartbeatFrame
<1>3. ASSUME c \in hb[w][s].releasedLeases
      PROVE  c \in Claim /\ Granted(w, c)
    BY <1>1, <1>3 DEF Base, Origins, TypeOK, DirectorTypeOK, Heartbeat
<1>4. ASSUME Started(w, s), c \in hb[w][s].releasedLeases \ hb[w][s].toRelease
      PROVE  ~ (Present(c.dev) /\ lease[c.dev].fence = c.fence)'
    <2>1. ~ (Present(c.dev) /\ lease[c.dev].fence = c.fence)
        BY <1>4 DEF Applied
    <2> QED
        BY <1>3, <1>4, <2>1, StaysGone
<1>5. ASSUME ReleaseRoute(w, c), c \in hb[w][s].releasedLeases
      PROVE  ~ (Present(c.dev) /\ lease[c.dev].fence = c.fence)'
    <2>1. c \in Claim /\ Granted(w, c) /\ c.dev \in Devices /\ c.fence # 0
        BY <1>3, <1>5 DEF Claim, Granted, Base, Fences
    <2>2. CASE Matches(w, c)
        <3>1. lease'[c.dev] = NoLease
            BY <1>1, <1>5, <2>1, <2>2 DEF ReleaseRoute, TypeOK, StoreTypeOK
        <3> QED
            BY <2>1, <3>1 DEF NoLease
    <2>3. CASE ~ Matches(w, c)
        <3>1. ~ (Present(c.dev) /\ lease[c.dev].fence = c.fence)
            BY <2>1, <2>3, GrantedMatches
        <3> QED
            BY <2>1, <3>1, StaysGone
    <2> QED
        BY <2>2, <2>3
<1>6. NoHeartbeat.st = "idle"
    BY DEF NoHeartbeat
<1> QED
    BY <1>2, <1>4, <1>5, <1>6 DEF HeartbeatChange, SameHandler, SameReport, Started

\* No step leaks a consumed lease.
LEMMA NoLeakStep ==
    ASSUME Base, Applied, NoLeakedLease, [Next]_vars
    PROVE  NoLeakedLease'
<1>1. TypeOK /\ clock \in Nat /\ clock' \in Nat /\ clock' >= clock
    BY ClockFrame DEF Base, TypeOK, StoreTypeOK
<1> SUFFICES ASSUME NEW w \in Workers, NEW d \in Devices, lease'[d].worker = w, Present(d)',
                    NEW j \in jti', j.dev = d, j.fence = lease'[d].fence
             PROVE  \/ Owns(w, d)' /\ sess'[w][d].fence = lease'[d].fence
                    \/ [dev |-> d, fence |-> lease'[d].fence] \in pending'[w]
                    \/ [dev |-> d, fence |-> lease'[d].fence] \in forgotten'
    BY DEF NoLeakedLease
<1>2. lease[d] \in Lease /\ lease[d].px \in Nat /\ fencing[d] \in Nat
    BY <1>1 DEF TypeOK, StoreTypeOK, Lease
<1>3. ASSUME NEW b \in Boots, NEW v \in Workers, Acquired(d, b, v)
      PROVE  FALSE
    <2>1. UNCHANGED jti
        <3>1. UNCHANGED jti \/ UNCHANGED <<fencing, grants>>
            BY <1>1, ConsumeFrame DEF ConsumeAccepted, ConsumeGrant, directorVars
        <3>2. fencing' # fencing
            BY <1>1, <1>2, <1>3 DEF Acquired, TypeOK, StoreTypeOK
        <3> QED
            BY <3>1, <3>2
    <2>2. j.fence <= fencing[d] /\ lease'[d].fence = fencing[d] + 1
        BY <1>3, <2>1 DEF Acquired, Base, Fences
    <2> QED
        BY <1>2, <2>2
<1>4. lease'[d] # NoLease
    BY <1>1 DEF NoLease, Present
<1>5. lease'[d].fence = lease[d].fence /\ lease'[d].worker = lease[d].worker /\ Present(d)
    <2>1. CASE lease'[d] = lease[d]
        BY <1>1, <1>2, <2>1 DEF Present
    <2> QED
        BY <1>1, <1>3, <1>4, <2>1, LeaseFrame DEF LeaseChange, Renewable, Matches
<1>6. CASE j \in jti
    <2> DEFINE c == [dev |-> d, fence |-> lease[d].fence]
    <2>1. \/ Owns(w, d) /\ sess[w][d].fence = c.fence
          \/ c \in pending[w]
          \/ c \in forgotten
        BY <1>5, <1>6 DEF NoLeakedLease
    <2>2. CASE Owns(w, d) /\ sess[w][d].fence = c.fence
        <3>1. OwnerKept(w, d)
            BY <1>1, <2>2, OwnerKeptFrame
        <3>2. ClaimOf(w, d) = c
            BY <2>2 DEF ClaimOf
        <3> QED
            BY <1>5, <2>2, <3>1, <3>2 DEF OwnerKept
    <2>3. CASE c \in pending[w]
        <3>1. PendingKept(w, c)
            BY <1>1, <2>3, PendingKeptFrame
        <3>2. ASSUME NEW s \in Slots, hb[w][s].st = "applied", c \in hb[w][s].releasedLeases
              PROVE  FALSE
            <4>1. hb[w][s].toRelease = {}
                BY <3>2 DEF Base, Loops
            <4>2. ~ (Present(c.dev) /\ lease[c.dev].fence = c.fence)
                BY <3>2, <4>1 DEF Applied, Started
            <4> QED
                BY <1>5, <4>2
        <3> QED
            BY <1>5, <3>1, <3>2 DEF PendingKept
    <2>4. CASE c \in forgotten
        <3>1. forgotten \subseteq forgotten'
            BY <1>1, ForgottenFrame
        <3> QED
            BY <1>5, <2>4, <3>1
    <2> QED
        BY <2>1, <2>2, <2>3, <2>4
<1>7. ASSUME NEW v \in Workers, NEW e \in Devices, ConsumeAccepted(v, e), j \notin jti
      PROVE  Owns(w, d)' /\ sess'[w][d].fence = lease'[d].fence
    <2>1. j.dev = e /\ j.fence = sess[v][e].fence /\ lease[e].worker = v
        BY <1>7 DEF ConsumeAccepted, ConsumeGrant, Consumable, Renewable, Matches, ClaimOf
    <2>2. v = w /\ e = d /\ sess[w][d].fence = lease[d].fence
        BY <1>5, <2>1
    <2> DEFINE new == [sess[w][d] EXCEPT !.st = "consumed"]
    <2>3. sess[w][d] \in Session
        BY <1>1 DEF TypeOK, WorkerTypeOK
    <2>4. new.st = "consumed" /\ new.fence = sess[w][d].fence
        BY <2>3 DEF Session
    <2>5. sess'[w][d] = new
        BY <1>1, <1>7, <2>2 DEF ConsumeAccepted, TypeOK, WorkerTypeOK
    <2> QED
        BY <1>5, <2>2, <2>4, <2>5 DEF Owns
<1> QED
    BY <1>1, <1>6, <1>7, ConsumeFrame

\* A consumed lease is never leaked by a worker that is alive (NoLeakedLease).
THEOREM NoLeakCorrect == Spec => []NoLeakedLease
<1>1. Init => Applied /\ NoLeakedLease
    BY DEF Init, StoreInit, DirectorInit, Applied, Started, NoHeartbeat, NoLeakedLease
<1>2. Base /\ Applied /\ NoLeakedLease /\ [Next]_vars => Applied' /\ NoLeakedLease'
    BY AppliedStep, NoLeakStep
<1> QED
    BY <1>1, <1>2, BaseCorrect, PTL DEF Spec

-----------------------------------------------------------------------------
(* Workers and store.                                                      *)

\* A step that changes a route or a grant leaves the workers and the clock
\* alone, and a claim that was released stays released.
LEMMA RouteAlone ==
    ASSUME TypeOK, [Next]_vars
    PROVE  /\ \A d \in Devices : lease'[d] # lease[d] => UNCHANGED <<clock, sess>>
           /\ grants' # grants => UNCHANGED <<clock, sess>>
           /\ released \subseteq released'
<1>1. RouteChange
    BY RouteFrame
<1>2. ASSUME NEW b \in Boots, NEW w \in Workers, BootstrapFull(b, w) \/ BootstrapGrant(b, w)
      PROVE  UNCHANGED released
    BY <1>2 DEF BootstrapFull, BootstrapGrant, AcquireRefused, AcquireGranted
<1>3. ASSUME NEW w \in Workers, NEW c \in Claim, ReleaseRoute(w, c)
      PROVE  released \subseteq released'
    BY <1>3 DEF ReleaseRoute
<1>4. ASSUME NEW w \in Workers, NEW s \in Slots, NEW c \in hb[w][s].toRenew, RenewRoute(w, c, hb[w][s].now)
      PROVE  UNCHANGED released
    BY <1>4 DEF RenewRoute
<1> QED
    BY <1>1, <1>2, <1>3, <1>4 DEF RouteChange, workerVars

\* The numbers and claims an argument about one session needs.
LEMMA SessionTypes ==
    ASSUME Base, NEW w \in Workers, NEW d \in Devices
    PROVE  /\ sess[w][d] \in Session
           /\ sess[w][d].fence \in Nat /\ sess[w][d].exp \in Nat /\ sess[w][d].deadline \in Nat
           /\ ClaimOf(w, d) \in Claim
           /\ lease[d] \in Lease /\ lease[d].fence \in Nat /\ lease[d].exp \in Nat /\ lease[d].px \in Nat
           /\ lease[d].exp <= lease[d].px
           /\ sess[w][d].st # "idle" => /\ Granted(w, ClaimOf(w, d))
                                        /\ sess[w][d].fence # 0 /\ sess[w][d].fence <= fencing[d]
<1>1. sess[w][d] \in Session /\ lease[d] \in Lease
    BY DEF Base, TypeOK, WorkerTypeOK, StoreTypeOK
<1>2. ASSUME sess[w][d].st # "idle"
      PROVE  /\ Granted(w, ClaimOf(w, d))
             /\ sess[w][d].fence # 0 /\ sess[w][d].fence <= fencing[d]
    <2> DEFINE g == [dev |-> d, fence |-> sess[w][d].fence, worker |-> w, exp |-> sess[w][d].exp]
    <2>1. g \in grants
        BY <1>2 DEF Base, Origins
    <2>2. g.dev = d /\ g.fence = sess[w][d].fence /\ g.worker = w
        OBVIOUS
    <2> HIDE DEF g
    <2>3. g.fence # 0 /\ g.fence <= fencing[g.dev]
        BY <2>1 DEF Base, Fences
    <2> QED
        BY <2>1, <2>2, <2>3 DEF Granted, ClaimOf
<1> QED
    BY <1>1, <1>2, ClaimTypes DEF Session, Lease, Base, TypeOK, Times

\* A claim was granted to one worker.
LEMMA GrantedOnce ==
    ASSUME Base, NEW v \in Workers, NEW w \in Workers, NEW c, NEW k, Granted(v, k), Granted(w, c),
           k.dev = c.dev, k.fence = c.fence
    PROVE  v = w
BY DEF Granted, Base, Fences

\* A granted claim has a token its route has reached.
LEMMA GrantedFence ==
    ASSUME Base, NEW w \in Workers, NEW c, Granted(w, c)
    PROVE  c.fence # 0 /\ c.fence <= fencing[c.dev] /\ c.dev \in Devices /\ c.fence \in Nat
           /\ fencing[c.dev] \in Nat
<1>1. PICK g \in grants : g.worker = w /\ g.dev = c.dev /\ g.fence = c.fence
    BY DEF Granted
<1>2. g.dev \in Devices /\ g.fence \in Nat
    BY GrantTypes DEF Base
<1> QED
    BY <1>1, <1>2 DEF Base, Fences, TypeOK, StoreTypeOK

\* A claim in a report of worker w was granted to w.
LEMMA ReportGranted ==
    ASSUME Base, NEW w \in Workers, NEW s \in Slots, NEW c \in hb[w][s].activeLeases \cup hb[w][s].toRenew
    PROVE  Granted(w, c) /\ c \in hb[w][s].activeLeases
BY DEF Base, Origins, Loops

-----------------------------------------------------------------------------
\* No step promises more than one TTL.
LEMMA HorizonStep ==
    ASSUME Base, Horizon, [Next]_vars
    PROVE  Horizon'
<1>1. TypeOK /\ clock \in Nat /\ clock' \in Nat /\ clock' >= clock
    BY ClockFrame DEF Base, TypeOK, StoreTypeOK
<1>2. ASSUME NEW g \in grants'
      PROVE  g.exp <= clock' + LeaseTTL
    <2>1. CASE g \in grants
        BY <1>1, <2>1, GrantTypes DEF Horizon
    <2>2. ASSUME NEW d \in Devices, NEW b \in Boots, NEW w \in Workers, Acquired(d, b, w), g \notin grants
          PROVE  g.exp <= clock' + LeaseTTL
        <3>1. g = [dev |-> d, fence |-> fencing[d] + 1, worker |-> w, exp |-> boot[b].now + LeaseTTL]
            BY <2>2 DEF Acquired
        <3>2. boot[b].now \in Nat /\ boot[b].now <= clock
            BY DEF Base, Times, TypeOK, DirectorTypeOK, Bootstrap
        <3>3. g.exp = boot[b].now + LeaseTTL
            BY <3>1
        <3> QED
            BY <1>1, <3>2, <3>3
    <2> QED
        BY <1>1, <2>1, <2>2, GrantFrame
<1>3. ASSUME NEW w \in Workers, NEW d \in Devices, sess'[w][d].st = "running"
      PROVE  sess'[w][d].deadline <= clock' + LeaseTTL
    <2>1. SessionChange(w, d)
        BY <1>1, SessionFrame
    <2>2. CASE sess'[w][d] = sess[w][d]
        <3>1. sess[w][d].deadline <= clock + LeaseTTL /\ sess[w][d].deadline \in Nat
            BY <1>3, <2>2, SessionTypes DEF Horizon
        <3> QED
            BY <1>1, <2>2, <3>1
    <2>3. CASE sess[w][d].st = "consumed" /\ sess'[w][d].deadline = sess[w][d].exp
        <3>1. [dev |-> d, fence |-> sess[w][d].fence, worker |-> w, exp |-> sess[w][d].exp] \in grants
            BY <2>3 DEF Base, Origins
        <3>2. sess[w][d].exp <= clock + LeaseTTL
            BY <3>1 DEF Horizon
        <3> QED
            BY <1>1, <2>3, <3>2, SessionTypes
    <2>4. ASSUME NEW s \in Slots, sess'[w][d].deadline = hb[w][s].now + LeaseTTL
          PROVE  sess'[w][d].deadline <= clock' + LeaseTTL
        <3>1. hb[w][s].now \in Nat /\ hb[w][s].now <= clock
            BY <1>1, HeartbeatTypes DEF Base, Times
        <3> QED
            BY <1>1, <2>4, <3>1
    <2> QED
        BY <1>3, <2>1, <2>2, <2>3, <2>4 DEF SessionChange, NoSession
<1> QED
    BY <1>2, <1>3 DEF Horizon

\* What a started handler keeps of its earlier state.
LEMMA StartedFrame ==
    ASSUME Base, [Next]_vars, NEW w \in Workers, NEW s \in Slots, Started(w, s)'
    PROVE  \/ /\ hb'[w][s].now = clock /\ hb'[w][s].toRenew = hb'[w][s].activeLeases
              /\ UNCHANGED <<clock, lease, released, sess, grants>>
              /\ hb'[w][s].activeLeases = hb[w][s].activeLeases
           \/ Started(w, s) /\ SameHandler(w, s)
<1>1. HeartbeatChange(w, s)
    BY HeartbeatFrame DEF Base
<1> QED
    BY <1>1 DEF HeartbeatChange, SameHandler, SameReport, NoHeartbeat, Started

\* Without overlap a started handler cannot shorten a promise.
LEMMA FreshStep ==
    ASSUME NoOverlap, Base, Horizon, Fresh, [Next]_vars
    PROVE  Fresh'
<1>1. TypeOK
    BY DEF Base
<1> SUFFICES ASSUME NEW w \in Workers, NEW s \in Slots, Started(w, s)', NEW c \in hb'[w][s].activeLeases
             PROVE  /\ \A g \in grants' : g.dev = c.dev /\ g.fence = c.fence =>
                          g.exp <= hb'[w][s].now + LeaseTTL
                    /\ sess'[w][c.dev].st = "running" /\ sess'[w][c.dev].fence = c.fence =>
                          sess'[w][c.dev].deadline <= hb'[w][s].now + LeaseTTL
    BY DEF Fresh
<1>2. Granted(w, c) /\ c.dev \in Devices /\ c.fence \in Nat
    <2>1. c \in hb[w][s].activeLeases
        BY StartedFrame DEF SameHandler, SameReport
    <2> QED
        BY <2>1, ReportGranted, GrantedFence
<1>3. CASE /\ hb'[w][s].now = clock
           /\ UNCHANGED <<clock, lease, released, sess, grants>>
    BY <1>2, <1>3 DEF Horizon
<1>4. CASE Started(w, s) /\ SameHandler(w, s)
    <2>1. c \in hb[w][s].activeLeases /\ hb'[w][s].now = hb[w][s].now
        BY <1>4 DEF SameHandler, SameReport
    <2>2. ASSUME NEW g \in grants', g.dev = c.dev, g.fence = c.fence
          PROVE  g.exp <= hb'[w][s].now + LeaseTTL
        <3>1. CASE g \in grants
            BY <1>4, <2>1, <2>2, <3>1 DEF Fresh
        <3>2. ASSUME NEW d \in Devices, NEW b \in Boots, NEW v \in Workers, Acquired(d, b, v), g \notin grants
              PROVE  FALSE
            <4>1. g = [dev |-> d, fence |-> fencing[d] + 1, worker |-> v, exp |-> boot[b].now + LeaseTTL]
                BY <3>2 DEF Acquired
            <4>2. c.dev = d /\ c.fence = fencing[d] + 1
                BY <2>2, <4>1
            <4>3. c.fence <= fencing[d] /\ fencing[d] \in Nat
                BY <1>2, <4>2, GrantedFence
            <4> QED
                BY <4>2, <4>3
        <3> QED
            BY <1>1, <3>1, <3>2, GrantFrame
    <2>3. ASSUME sess'[w][c.dev].st = "running", sess'[w][c.dev].fence = c.fence
          PROVE  sess'[w][c.dev].deadline <= hb'[w][s].now + LeaseTTL
        <3>1. SessionChange(w, c.dev)
            BY <1>1, <1>2, SessionFrame
        <3>2. CASE sess'[w][c.dev] = sess[w][c.dev]
            BY <1>4, <2>1, <2>3, <3>2 DEF Fresh
        <3>3. CASE /\ sess[w][c.dev].st = "consumed" /\ sess'[w][c.dev].deadline = sess[w][c.dev].exp
                   /\ SameClaim(w, c.dev)
            <4> DEFINE g == [dev |-> c.dev, fence |-> sess[w][c.dev].fence, worker |-> w,
                             exp |-> sess[w][c.dev].exp]
            <4>1. g \in grants
                BY <1>2, <3>3 DEF Base, Origins
            <4>2. g.dev = c.dev /\ g.fence = c.fence /\ g.exp = sess'[w][c.dev].deadline
                BY <2>3, <3>3 DEF SameClaim
            <4> HIDE DEF g
            <4> QED
                BY <1>4, <2>1, <4>1, <4>2 DEF Fresh
        <3>4. ASSUME NEW t \in Slots, sess'[w][c.dev].deadline = hb[w][t].now + LeaseTTL
              PROVE  sess'[w][c.dev].deadline <= hb'[w][s].now + LeaseTTL
            <4>1. t = s /\ hb[w][s].now \in Nat
                BY <1>1, HeartbeatTypes DEF NoOverlap
            <4> QED
                BY <2>1, <3>4, <4>1
        <3> QED
            BY <2>3, <3>1, <3>2, <3>3, <3>4 DEF SessionChange, NoSession
    <2> QED
        BY <2>2, <2>3
<1> QED
    BY <1>3, <1>4, StartedFrame

\* A route that changes and still carries an old claim c of worker w was
\* renewed by the heartbeat handler of w.
LEMMA RenewalFrame ==
    ASSUME NoOverlap, Base, [Next]_vars, NEW w \in Workers, NEW c \in Claim, Granted(w, c),
           lease'[c.dev].fence = c.fence
    PROVE  \/ lease'[c.dev] = lease[c.dev]
           \/ \E s \in Slots : /\ hb[w][s].st = "busy" /\ c \in hb[w][s].activeLeases
                               /\ lease[c.dev].fence = c.fence
                               /\ lease'[c.dev].exp = hb[w][s].now + LeaseTTL
<1>1. TypeOK /\ c.dev \in Devices /\ c.fence # 0 /\ c.fence <= fencing[c.dev] /\ c.fence \in Nat
      /\ fencing[c.dev] \in Nat
    BY GrantedFence DEF Base
<1>2. CASE lease'[c.dev] = NoLease
    BY <1>1, <1>2 DEF NoLease
<1>3. ASSUME NEW b \in Boots, NEW v \in Workers, Acquired(c.dev, b, v)
      PROVE  FALSE
    BY <1>1, <1>3 DEF Acquired
<1>4. ASSUME NEW v \in Workers, NEW s \in Slots, NEW k \in hb[v][s].toRenew, hb[v][s].st = "busy",
             k.dev = c.dev, Renewable(v, k, hb[v][s].now), lease'[c.dev].fence = lease[c.dev].fence,
             lease'[c.dev].exp = hb[v][s].now + LeaseTTL
      PROVE  /\ hb[w][s].st = "busy" /\ c \in hb[w][s].activeLeases
             /\ lease[c.dev].fence = c.fence
             /\ lease'[c.dev].exp = hb[w][s].now + LeaseTTL
    <2>1. k.fence = c.fence
        BY <1>4 DEF Renewable, Matches
    <2>2. k \in Claim /\ Granted(v, k) /\ k \in hb[v][s].activeLeases
        BY <1>1, HeartbeatTypes, ReportGranted
    <2>3. k = c
        <3>1. \A x, y \in Claim : x.dev = y.dev /\ x.fence = y.fence => x = y
            BY DEF Claim
        <3> QED
            BY <1>4, <2>1, <2>2, <3>1
    <2>4. v = w
        BY <2>2, <2>3, GrantedOnce
    <2> QED
        BY <1>4, <2>2, <2>3, <2>4
<1>5. LeaseChange(c.dev)
    BY <1>1, LeaseFrame
<1> QED
    BY <1>2, <1>3, <1>4, <1>5 DEF LeaseChange

\* Without overlap nothing undoes a renewal before it is announced.
LEMMA RenewedStep ==
    ASSUME NoOverlap, Base, Renewed, [Next]_vars
    PROVE  Renewed'
<1>1. TypeOK
    BY DEF Base
<1> SUFFICES ASSUME NEW w \in Workers, NEW s \in Slots, Started(w, s)',
                    NEW c \in hb'[w][s].activeLeases \ (hb'[w][s].toRenew \cup hb'[w][s].rejected),
                    lease'[c.dev].fence = c.fence
             PROVE  lease'[c.dev].exp >= hb'[w][s].now + LeaseTTL
    BY DEF Renewed
<1>2. Started(w, s) /\ SameHandler(w, s)
    BY StartedFrame
<1>3. c \in hb[w][s].activeLeases /\ hb'[w][s].now = hb[w][s].now
    BY <1>2 DEF SameHandler, SameReport
<1>4. c \in Claim /\ Granted(w, c) /\ hb[w][s].now \in Nat
    BY <1>1, <1>3, HeartbeatTypes, ReportGranted
<1>5. CASE c \notin hb[w][s].toRenew \cup hb[w][s].rejected
    <2>1. CASE lease'[c.dev] = lease[c.dev]
        BY <1>2, <1>3, <1>5, <2>1 DEF Renewed
    <2>2. ASSUME NEW t \in Slots, lease'[c.dev].exp = hb[w][t].now + LeaseTTL
          PROVE  lease'[c.dev].exp >= hb'[w][s].now + LeaseTTL
        <3>1. t = s
            BY DEF NoOverlap
        <3> QED
            BY <1>3, <1>4, <2>2, <3>1
    <2> QED
        BY <1>4, <2>1, <2>2, RenewalFrame
<1>6. CASE c \in hb[w][s].toRenew \cup hb[w][s].rejected
    <2>1. HeartbeatChange(w, s)
        BY <1>1, HeartbeatFrame
    <2>2. RenewRoute(w, c, hb[w][s].now)
        BY <1>2, <1>6, <2>1 DEF HeartbeatChange, Started, NoHeartbeat
    <2>3. c.dev \in Devices /\ lease[c.dev] \in Lease
        BY <1>1, <1>4 DEF Claim, TypeOK, StoreTypeOK
    <2> DEFINE new == [lease[c.dev] EXCEPT !.exp = hb[w][s].now + LeaseTTL, !.px = clock + LeaseTTL]
    <2>4. lease'[c.dev] = new
        BY <1>1, <2>2, <2>3 DEF RenewRoute, TypeOK, StoreTypeOK
    <2>5. new.exp = hb[w][s].now + LeaseTTL
        BY <2>3 DEF Lease
    <2> HIDE DEF new
    <2> QED
        BY <1>3, <1>4, <2>4, <2>5
<1> QED
    BY <1>5, <1>6

\* The store's expiry stays at or above the worker's deadline.
LEMMA CoveredStep ==
    ASSUME NoOverlap, Base, Fresh, Renewed, Covered, [Next]_vars
    PROVE  Covered'
<1>1. TypeOK
    BY DEF Base
<1>2. ASSUME NEW g \in grants', lease'[g.dev].fence = g.fence
      PROVE  lease'[g.dev].exp >= g.exp
    <2>1. CASE g \in grants
        <3> DEFINE c == [dev |-> g.dev, fence |-> g.fence]
        <3>1. c.dev = g.dev /\ c.fence = g.fence
            OBVIOUS
        <3>2. c \in Claim /\ g.worker \in Workers /\ g.exp \in Nat
            BY <1>1, <2>1, GrantTypes DEF Claim
        <3> HIDE DEF c
        <3>3. Granted(g.worker, c)
            BY <2>1, <3>1 DEF Granted
        <3>4. CASE lease'[g.dev] = lease[g.dev]
            BY <1>2, <2>1, <3>4 DEF Covered
        <3>5. ASSUME NEW s \in Slots, hb[g.worker][s].st = "busy", c \in hb[g.worker][s].activeLeases,
                     lease'[g.dev].exp = hb[g.worker][s].now + LeaseTTL
              PROVE  lease'[g.dev].exp >= g.exp
            <4>1. g.exp <= hb[g.worker][s].now + LeaseTTL
                BY <2>1, <3>1, <3>2, <3>5 DEF Fresh, Started
            <4>2. hb[g.worker][s].now \in Nat
                BY <1>1, <3>2, HeartbeatTypes
            <4> QED
                BY <3>2, <3>5, <4>1, <4>2
        <3> QED
            BY <1>2, <3>1, <3>2, <3>3, <3>4, <3>5, RenewalFrame
    <2>2. ASSUME NEW d \in Devices, NEW b \in Boots, NEW w \in Workers, Acquired(d, b, w), g \notin grants
          PROVE  lease'[g.dev].exp >= g.exp
        <3>1. g = [dev |-> d, fence |-> fencing[d] + 1, worker |-> w, exp |-> boot[b].now + LeaseTTL]
            BY <2>2 DEF Acquired
        <3>2. g.dev = d /\ g.exp = boot[b].now + LeaseTTL
            BY <3>1
        <3>3. boot[b].now \in Nat
            BY <1>1 DEF TypeOK, DirectorTypeOK, Bootstrap
        <3> QED
            BY <2>2, <3>2, <3>3 DEF Acquired
    <2> QED
        BY <1>1, <2>1, <2>2, GrantFrame
<1>3. ASSUME NEW w \in Workers, NEW d \in Devices, sess'[w][d].st = "running",
             lease'[d].fence = sess'[w][d].fence
      PROVE  lease'[d].exp >= sess'[w][d].deadline
    <2>1. CASE lease'[d] = lease[d]
        <3>1. SessionChange(w, d)
            BY <1>1, SessionFrame
        <3>2. CASE sess'[w][d] = sess[w][d]
            BY <1>3, <2>1, <3>2 DEF Covered
        <3>3. CASE /\ sess[w][d].st = "consumed" /\ sess'[w][d].deadline = sess[w][d].exp
                   /\ SameClaim(w, d)
            <4> DEFINE g == [dev |-> d, fence |-> sess[w][d].fence, worker |-> w, exp |-> sess[w][d].exp]
            <4>1. g \in grants
                BY <3>3 DEF Base, Origins
            <4>2. g.dev = d /\ g.fence = lease[d].fence /\ g.exp = sess'[w][d].deadline
                BY <1>3, <2>1, <3>3 DEF SameClaim
            <4> HIDE DEF g
            <4>3. lease[d].exp >= g.exp
                BY <4>1, <4>2 DEF Covered
            <4> QED
                BY <2>1, <4>2, <4>3
        <3>4. ASSUME NEW s \in Slots, hb[w][s].st = "replied", SameClaim(w, d),
                     ClaimOf(w, d) \in hb[w][s].activeLeases \ hb[w][s].rejected,
                     sess'[w][d].deadline = hb[w][s].now + LeaseTTL
              PROVE  lease'[d].exp >= sess'[w][d].deadline
            <4>1. hb[w][s].toRenew = {}
                BY <3>4 DEF Base, Loops
            <4>2. ClaimOf(w, d).dev = d /\ ClaimOf(w, d).fence = lease[d].fence
                BY <1>3, <2>1, <3>4 DEF ClaimOf, SameClaim
            <4>3. lease[d].exp >= hb[w][s].now + LeaseTTL
                BY <3>4, <4>1, <4>2 DEF Renewed, Started
            <4> QED
                BY <2>1, <3>4, <4>3
        <3> QED
            BY <1>3, <3>1, <3>2, <3>3, <3>4 DEF SessionChange, NoSession
    <2>2. CASE lease'[d] # lease[d]
        <3>1. sess' = sess
            BY <1>1, <2>2, RouteAlone
        <3>2. /\ ClaimOf(w, d) \in Claim /\ Granted(w, ClaimOf(w, d)) /\ sess[w][d].deadline \in Nat
            BY <1>3, <3>1, SessionTypes
        <3>3. ClaimOf(w, d).dev = d /\ ClaimOf(w, d).fence = sess[w][d].fence
            BY DEF ClaimOf
        <3>4. PICK s \in Slots : /\ hb[w][s].st = "busy" /\ ClaimOf(w, d) \in hb[w][s].activeLeases
                                 /\ lease'[d].exp = hb[w][s].now + LeaseTTL
            BY <1>3, <2>2, <3>1, <3>2, <3>3, RenewalFrame
        <3>5. sess[w][d].deadline <= hb[w][s].now + LeaseTTL
            BY <1>3, <3>1, <3>3, <3>4 DEF Fresh, Started
        <3>6. hb[w][s].now \in Nat
            BY <1>1, HeartbeatTypes
        <3> QED
            BY <3>1, <3>2, <3>4, <3>5, <3>6
    <2> QED
        BY <2>1, <2>2
<1> QED
    BY <1>2, <1>3 DEF Covered

\* A session that may still be served, and whose token the lease has, keeps
\* acquire_route from taking the route away.
LEMMA HeldConflicts ==
    ASSUME Base, Covered, NEW w \in Workers, NEW d \in Devices, lease[d].fence = sess[w][d].fence,
           Serves(w, d) \/ (sess[w][d].st = "consumed" /\ sess[w][d].exp > clock),
           NEW b \in Boots
    PROVE  Conflict(d, boot[b].now)
<1>1. clock \in Nat /\ boot[b].now \in Nat /\ boot[b].now <= clock
    BY DEF Base, TypeOK, StoreTypeOK, DirectorTypeOK, Bootstrap, Times
<1>2. lease[d].exp \in Nat /\ lease[d].px \in Nat /\ lease[d].exp <= lease[d].px
      /\ sess[w][d].deadline \in Nat /\ sess[w][d].exp \in Nat
    BY SessionTypes
<1>3. lease[d].exp > clock
    <2>1. CASE Serves(w, d)
        BY <1>1, <1>2, <2>1 DEF Serves, Covered
    <2>2. CASE sess[w][d].st = "consumed" /\ sess[w][d].exp > clock
        <3> DEFINE g == [dev |-> d, fence |-> sess[w][d].fence, worker |-> w, exp |-> sess[w][d].exp]
        <3>1. g \in grants
            BY <2>2 DEF Base, Origins
        <3>2. g.dev = d /\ g.fence = lease[d].fence /\ g.exp = sess[w][d].exp
            OBVIOUS
        <3> HIDE DEF g
        <3>3. lease[d].exp >= sess[w][d].exp
            BY <3>1, <3>2 DEF Covered
        <3> QED
            BY <1>1, <1>2, <2>2, <3>3
    <2> QED
        BY <2>1, <2>2
<1> QED
    BY <1>1, <1>2, <1>3 DEF Conflict, Present

\* A served session keeps its lease until it is released.
LEMMA HoldsStep ==
    ASSUME Base, Covered, Holds, [Next]_vars
    PROVE  Holds'
<1>1. TypeOK /\ clock \in Nat /\ clock' \in Nat /\ clock' >= clock
    BY ClockFrame DEF Base, TypeOK, StoreTypeOK
<1> SUFFICES ASSUME NEW w \in Workers, NEW d \in Devices,
                    \/ Serves(w, d)'
                    \/ sess'[w][d].st = "consumed" /\ sess'[w][d].exp > clock',
                    ClaimOf(w, d)' \notin released'
             PROVE  lease'[d].fence = sess'[w][d].fence
    BY DEF Holds
<1>2. released \subseteq released' /\ SessionChange(w, d) /\ LeaseChange(d)
    BY <1>1, RouteAlone, SessionFrame, LeaseFrame
<1>3. sess[w][d].exp \in Nat /\ sess[w][d].deadline \in Nat
    BY SessionTypes
<1>4. CASE lease'[d] = lease[d]
    <2>1. CASE sess'[w][d] = sess[w][d]
        <3>1. Serves(w, d) \/ (sess[w][d].st = "consumed" /\ sess[w][d].exp > clock)
            BY <1>1, <1>3, <2>1 DEF Serves
        <3>2. ClaimOf(w, d) \notin released
            BY <1>2, <2>1 DEF ClaimOf
        <3> QED
            BY <1>4, <2>1, <3>1, <3>2 DEF Holds
    <2>2. CASE ConsumeGrant(w, ClaimOf(w, d), sess[w][d].exp, sess[w][d].now) /\ SameClaim(w, d)
        BY <1>4, <2>2 DEF ConsumeGrant, Consumable, Renewable, Matches, ClaimOf, SameClaim
    <2>3. CASE /\ sess[w][d].st = "consumed" /\ sess'[w][d].st = "running" /\ SameClaim(w, d)
               /\ sess'[w][d].deadline = sess[w][d].exp
        <3>1. sess[w][d].exp > clock
            BY <1>1, <1>3, <2>3 DEF Serves
        <3>2. ClaimOf(w, d) \notin released
            BY <1>2, <2>3 DEF ClaimOf, SameClaim
        <3> QED
            BY <1>4, <2>3, <3>1, <3>2 DEF Holds, SameClaim
    <2>4. CASE sess[w][d].st = "running" /\ SameClaim(w, d) /\ sess[w][d].deadline > clock
        <3>1. ClaimOf(w, d) \notin released
            BY <1>2, <2>4 DEF ClaimOf, SameClaim
        <3> QED
            BY <1>4, <2>4, <3>1 DEF Holds, SameClaim, Serves
    <2> QED
        BY <1>2, <2>1, <2>2, <2>3, <2>4 DEF SessionChange, NoSession, Serves
<1>5. CASE lease'[d] # lease[d]
    <2>1. sess' = sess /\ clock' = clock
        BY <1>1, <1>5, RouteAlone
    <2>2. Serves(w, d) \/ (sess[w][d].st = "consumed" /\ sess[w][d].exp > clock)
        BY <2>1 DEF Serves
    <2>3. ClaimOf(w, d) \notin released
        BY <1>2, <2>1 DEF ClaimOf
    <2>4. lease[d].fence = sess[w][d].fence
        BY <2>2, <2>3 DEF Holds
    <2>5. \A b \in Boots : Conflict(d, boot[b].now)
        BY <2>2, <2>4, HeldConflicts
    <2>6. ASSUME NEW v \in Workers, NEW c \in Claim, c.dev = d, Matches(v, c), released' = released \cup {c}
          PROVE  FALSE
        <3>1. c = [dev |-> d, fence |-> sess'[w][d].fence]
            BY <2>1, <2>4, <2>6 DEF Matches, Claim
        <3> QED
            BY <2>6, <3>1 DEF ClaimOf
    <2>7. lease'[d].fence = lease[d].fence
        BY <1>2, <1>5, <2>5, <2>6 DEF LeaseChange, Acquired
    <2> QED
        BY <2>1, <2>4, <2>7
<1> QED
    BY <1>4, <1>5

-----------------------------------------------------------------------------
\* The invariant behind ServedCorrect and SplitBrainFree.
LEMMA ExclusiveInvariant ==
    ASSUME NoOverlap
    PROVE  Spec => []Exclusive
<1>1. Init => Exclusive
    <2>1. Init => Horizon /\ Fresh /\ Renewed /\ Covered /\ Holds
        BY DEF Init, StoreInit, DirectorInit, WorkerInit, Horizon, Fresh, Renewed, Covered, Holds, Serves,
           Started, NoHeartbeat, NoSession
    <2> QED
        BY <2>1, BaseInit DEF Exclusive
<1>2. Exclusive /\ [Next]_vars => Exclusive'
    BY BaseStep, HorizonStep, FreshStep, RenewedStep, CoveredStep, HoldsStep DEF Exclusive
<1> QED
    BY <1>1, <1>2, PTL DEF Spec

\* When heartbeat handlers do not overlap, a session that is served by its
\* worker's deadline has an unexpired lease (ServedLeaseIsValid).
THEOREM ServedCorrect ==
    ASSUME NoOverlap
    PROVE  Spec => []ServedLeaseIsValid
<1>1. Exclusive => ServedLeaseIsValid
    <2> SUFFICES ASSUME Exclusive, NEW w \in Workers, NEW d \in Devices, Serves(w, d), ClaimOf(w, d) \notin released
                 PROVE  lease[d].fence = sess[w][d].fence /\ lease[d].exp > clock
        BY DEF ServedLeaseIsValid
    <2>1. lease[d].fence = sess[w][d].fence
        BY DEF Exclusive, Holds
    <2>2. lease[d].exp >= sess[w][d].deadline /\ sess[w][d].deadline > clock
        BY <2>1 DEF Exclusive, Covered, Serves
    <2>3. lease[d].exp \in Nat /\ sess[w][d].deadline \in Nat /\ clock \in Nat
        BY SessionTypes DEF Exclusive, Base, TypeOK, StoreTypeOK
    <2> QED
        BY <2>1, <2>2, <2>3
<1> QED
    BY <1>1, ExclusiveInvariant, PTL

\* When heartbeat handlers do not overlap, two workers serve one device only
\* after a deliberate release (NoSplitBrain).
THEOREM SplitBrainFree ==
    ASSUME NoOverlap
    PROVE  Spec => []NoSplitBrain
<1>1. Exclusive => NoSplitBrain
    <2> SUFFICES ASSUME Exclusive, NEW v \in Workers, NEW w \in Workers, NEW d \in Devices,
                        Serves(v, d), Serves(w, d), sess[v][d].fence < sess[w][d].fence,
                        ClaimOf(v, d) \notin released
                 PROVE  FALSE
        BY DEF NoSplitBrain
    <2>1. Base
        BY DEF Exclusive
    <2>2. lease[d].fence = sess[v][d].fence
        BY DEF Exclusive, Holds
    <2>3. sess[v][d].fence # 0 /\ sess[v][d].fence \in Nat
        BY <2>1, SessionTypes DEF Serves
    <2>4. sess[w][d].fence <= fencing[d] /\ sess[w][d].fence \in Nat /\ fencing[d] \in Nat
        BY <2>1, SessionTypes DEF Serves, Base, TypeOK, StoreTypeOK
    <2>5. lease[d].fence = fencing[d]
        BY <2>1, <2>2, <2>3 DEF Base, Fences
    <2> QED
        BY <2>2, <2>3, <2>4, <2>5
<1> QED
    BY <1>1, ExclusiveInvariant, PTL
=============================================================================
