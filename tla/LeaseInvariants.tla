-------------------------- MODULE LeaseInvariants --------------------------
(***************************************************************************)
(* The inductive invariants behind the properties of LeaseSystem, as named *)
(* parts.                                                                  *)
(***************************************************************************)
EXTENDS LeaseSystem

\* A grant for claim c was issued to worker w.
Granted(w, c) == \E g \in grants : g.worker = w /\ g.dev = c.dev /\ g.fence = c.fence

\* No handler has a clock reading from the future, and a key outlives the
\* expiry written in it.
Times ==
    /\ \A b \in Boots : boot[b].now <= clock
    /\ \A w \in Workers, s \in Slots : hb[w][s].now <= clock
    /\ \A w \in Workers, d \in Devices : sess[w][d].now <= clock
    /\ \A d \in Devices : lease[d].exp <= lease[d].px

\* A lease carries the newest token of its route, and a token determines the
\* grant it was issued with.
Fences ==
    /\ \A d \in Devices : lease[d].fence # 0 =>
          lease[d].fence = fencing[d] /\ Granted(lease[d].worker, [dev |-> d, fence |-> fencing[d]])
    /\ \A g \in grants : g.fence # 0 /\ g.fence <= fencing[g.dev]
    /\ \A g, h \in grants : g.dev = h.dev /\ g.fence = h.fence => g = h
    /\ \A j \in jti : j.fence <= fencing[j.dev]

\* Sessions are started by grants of their worker, and whatever a worker says
\* to the director is about claims granted to it.
Origins ==
    /\ \A w \in Workers, d \in Devices : sess[w][d].st # "idle" =>
          [dev |-> d, fence |-> sess[w][d].fence, worker |-> w, exp |-> sess[w][d].exp] \in grants
    /\ \A w \in Workers : \A c \in pending[w] : Granted(w, c)
    /\ \A w \in Workers, s \in Slots :
          \A c \in hb[w][s].activeLeases \cup hb[w][s].releasedLeases : Granted(w, c)

\* How far a heartbeat handler is.
Loops ==
    \A w \in Workers, s \in Slots :
        /\ hb[w][s].toRenew \subseteq hb[w][s].activeLeases
        /\ hb[w][s].toRelease \subseteq hb[w][s].releasedLeases
        /\ hb[w][s].rejected \subseteq hb[w][s].activeLeases
        /\ hb[w][s].st \in {"replied", "applied"} =>
              hb[w][s].toRenew = {} /\ hb[w][s].toRelease = {}

\* The parts that hold however many handlers overlap.
Base == TypeOK /\ Times /\ Fences /\ Origins /\ Loops

-----------------------------------------------------------------------------
Started(w, s) == hb[w][s].st \in {"busy", "replied", "applied"}

\* No expiry and no deadline is further away than one TTL.
Horizon ==
    /\ \A g \in grants : g.exp <= clock + LeaseTTL
    /\ \A w \in Workers, d \in Devices :
          sess[w][d].st = "running" => sess[w][d].deadline <= clock + LeaseTTL

\* A handler that has started will not write an expiry below anything its
\* worker has been promised for the claims it renews.
Fresh ==
    \A w \in Workers, s \in Slots : Started(w, s) =>
        \A c \in hb[w][s].activeLeases :
            /\ \A g \in grants : g.dev = c.dev /\ g.fence = c.fence => g.exp <= hb[w][s].now + LeaseTTL
            /\ sess[w][c.dev].st = "running" /\ sess[w][c.dev].fence = c.fence =>
                  sess[w][c.dev].deadline <= hb[w][s].now + LeaseTTL

\* A claim a handler has renewed still has the expiry the reply will announce.
Renewed ==
    \A w \in Workers, s \in Slots : Started(w, s) =>
        \A c \in hb[w][s].activeLeases \ (hb[w][s].toRenew \cup hb[w][s].rejected) :
            lease[c.dev].fence = c.fence => lease[c.dev].exp >= hb[w][s].now + LeaseTTL

\* The store never promises less than the grant and the worker's deadline.
Covered ==
    /\ \A g \in grants : lease[g.dev].fence = g.fence => lease[g.dev].exp >= g.exp
    /\ \A w \in Workers, d \in Devices :
          sess[w][d].st = "running" /\ lease[d].fence = sess[w][d].fence =>
              lease[d].exp >= sess[w][d].deadline

\* A session that is or may still be served holds the lease, unless released.
Holds ==
    \A w \in Workers, d \in Devices :
        /\ \/ Serves(w, d)
           \/ sess[w][d].st = "consumed" /\ sess[w][d].exp > clock
        /\ ClaimOf(w, d) \notin released
        => lease[d].fence = sess[w][d].fence

\* Heartbeat handlers of one worker do not overlap.
NoOverlap == \A s, t \in Slots : s = t

Exclusive == Base /\ Horizon /\ Fresh /\ Renewed /\ Covered /\ Holds

-----------------------------------------------------------------------------
\* What a handler has released stays released.
Applied ==
    \A w \in Workers, s \in Slots : Started(w, s) =>
        \A c \in hb[w][s].releasedLeases \ hb[w][s].toRelease :
            ~ (Present(c.dev) /\ lease[c.dev].fence = c.fence)

NoLeak == Base /\ Applied /\ NoLeakedLease

Indexed == Base /\ IndexCoversLeases
=============================================================================
