----------------------------- MODULE RateLimit -----------------------------
(***************************************************************************)
(* internal/ratelimit: token buckets keyed by an address or a user.  The   *)
(* module holds one Limiter; Inbound keeps three of them and Outbound two, *)
(* and newLimits (cmd/kavira/main.go) makes fresh ones on SIGHUP.          *)
(*                                                                         *)
(* A token is counted as Window units, so that one tick of the clock adds  *)
(* Limit units and the refill of a fraction of a token is exact.           *)
(***************************************************************************)
EXTENDS Integers, FiniteSets, Functions, FiniteSetsExt, TLC

CONSTANTS
    Keys,        \* keys of the buckets
    Limit,       \* events per window, and the burst
    Window,      \* ticks of the window
    MaxBuckets   \* buckets held before a new key prunes (65536)

ASSUME RateAssumption ==
    Limit \in Nat \ {0} /\ Window \in Nat \ {0} /\ MaxBuckets \in Nat

VARIABLES
    now,      \* the clock
    buckets,  \* key -> [tokens, last]
    ideal,    \* observation: the bucket of every key, none ever pruned
    granted   \* observation: key -> t -> events allowed in this tick and the last t

rateVars == <<buckets, ideal, granted>>

Full == Limit * Window

Fresh == [tokens |-> Full, last |-> now]

Filled(b) == b.tokens + (now - b.last) * Limit

RateInit ==
    /\ buckets = [k \in {} |-> 0]
    /\ ideal = [k \in Keys |-> Fresh]
    /\ granted = [k \in Keys |-> [t \in 0..Window |-> 0]]

\* Seeded fault: the time of the refill is not written down.
RefilledAgain(b) == [tokens |-> Min({Full, Filled(b)}), last |-> b.last]

Refilled(b) == [tokens |-> Min({Full, Filled(b)}), last |-> now]

\* Seeded fault: any pause is taken for idleness.
IdleSoon(b) == now > b.last

Idle(b) == Filled(b) >= Full

\* A new key prunes the buckets that are full again once MaxBuckets are held;
\* it is added even when none of them is.
Held(k) ==
    IF k \notin DOMAIN buckets /\ Cardinality(DOMAIN buckets) >= MaxBuckets
    THEN Restrict(buckets, {j \in DOMAIN buckets : ~Idle(buckets[j])})
    ELSE buckets

Found(k) == IF k \in DOMAIN buckets THEN Refilled(buckets[k]) ELSE Fresh

Pay(b, ok) == [b EXCEPT !.tokens = @ - IF ok THEN Window ELSE 0]

\* A map with an entry written.
Put(f, k, v) == [j \in DOMAIN f \cup {k} |-> IF j = k THEN v ELSE f[j]]

\* Allow, with its answer.
Allow(k, ok) ==
    LET b == Found(k)
        i == [tokens |-> Min({Full, Filled(ideal[k])}), last |-> now]
    IN /\ ok = (b.tokens >= Window)
       /\ buckets' = Put(Held(k), k, Pay(b, ok))
       /\ ideal' = [ideal EXCEPT ![k] = Pay(i, ok)]
       /\ granted' = [granted EXCEPT ![k] = [t \in 0..Window |-> granted[k][t] + IF ok THEN 1 ELSE 0]]

RateTick ==
    /\ granted' = [k \in Keys |-> [t \in 0..Window |->
                      IF t = 0 THEN 0 ELSE granted[k][t - 1]]]
    /\ UNCHANGED <<buckets, ideal>>

\* A bucket holds between no tokens and Limit of them.
RateTypeOK ==
    /\ DOMAIN buckets \subseteq Keys
    /\ \A k \in DOMAIN buckets : buckets[k].tokens \in 0..Full
                                 /\ buckets[k].last \in 0..now

\* However events and pauses alternate, and whatever pruning forgot, no key
\* gets more than twice its limit within any window (Allow).
RateBound ==
    \A k \in Keys : granted[k][Window] <= 2 * Limit

\* prune drops "buckets that refilled completely (idle long enough to carry
\* no state)": a forgotten key is worth exactly what it would be worth had its
\* bucket been kept.
PruningInvisible ==
    \A k \in Keys :
        LET held == IF k \in DOMAIN buckets THEN Filled(buckets[k]) ELSE Full
        IN Min({Full, held}) = Min({Full, Filled(ideal[k])})
=============================================================================
