-------------------------- MODULE ScreeningProofs --------------------------
(***************************************************************************)
(* Theorems about Screening and the RateLimit and MailChecks it is built   *)
(* from, for any number of sessions, keys and ticks, any limit and window, *)
(* any time to live of a cached answer and any duration of a query.        *)
(*                                                                         *)
(* RateBound counts events and says nothing of the tokens that are left;   *)
(* GrantInv trades one against the other.  PruningInvisible needs to know  *)
(* that a bucket that is kept is the ideal one, not merely worth the same  *)
(* now (BucketInv).  AnswersFresh looks back from the answer through the   *)
(* cache to the start of a query (CacheInv, Asking).  VerdictIsWorst needs *)
(* what each stage hands to the next (FairInv), and what the score and the *)
(* classifier compute: a sum and a product over a set, by induction.       *)
(***************************************************************************)
EXTENDS Screening, FiniteSetTheorems, WellFoundedInduction, TLAPS

-----------------------------------------------------------------------------
(***************************************************************************)
(* The limiter                                                             *)
(***************************************************************************)
Bucket == [tokens : Nat, last : Nat]

\* The tokens a bucket is worth now.
Worth(b) == IF Filled(b) <= Full THEN Filled(b) ELSE Full

\* Buckets are kept for some of the keys.  The ideal bucket of a key that has
\* one is that very bucket; that of a key that has none is full.
BucketInv ==
    /\ now \in Nat
    /\ DOMAIN buckets \subseteq Keys
    /\ buckets = [k \in DOMAIN buckets |-> buckets[k]]
    /\ ideal \in [Keys -> Bucket]
    /\ \A k \in Keys : ideal[k].tokens <= Full /\ ideal[k].last <= now
    /\ \A k \in DOMAIN buckets : buckets[k] = ideal[k]
    /\ \A k \in Keys \ DOMAIN buckets : Filled(ideal[k]) >= Full

\* What a key was granted in the last t ticks and what it could be granted now
\* stay within a full bucket and t refills.
GrantInv ==
    /\ granted \in [Keys -> [0..Window -> Nat]]
    /\ \A k \in Keys : \A t \in 0..Window :
          Window * granted[k][t] + Worth(ideal[k]) <= Full + t * Limit

RateInv == BucketInv /\ GrantInv

\* The smaller of two numbers.
LEMMA MinOfTwo ==
    ASSUME NEW a \in Int, NEW b \in Int
    PROVE  Min({a, b}) = IF b <= a THEN b ELSE a
<1> DEFINE m == IF b <= a THEN b ELSE a
<1>1. m \in {a, b} /\ \A y \in {a, b} : m <= y
    OBVIOUS
<1>2. \A x \in {a, b} : (\A y \in {a, b} : x <= y) => x = m
    OBVIOUS
<1> QED
    BY <1>1, <1>2 DEF Min

\* A full bucket, and the tokens of one.
LEMMA FullLemma ==
    Full \in Nat /\ Window \in Nat /\ Window > 0 /\ Limit \in Nat /\ Limit > 0 /\ Full >= Window
<1>1. Window \in Nat /\ Window > 0 /\ Limit \in Nat /\ Limit > 0
    BY RateAssumption
<1>2. \A i, j \in Nat : i > 0 /\ j > 0 => i * j \in Nat /\ i * j >= j
    OBVIOUS
<1> QED
    BY <1>1, <1>2 DEF Full

\* What a bucket is worth by now.
LEMMA FilledLemma ==
    ASSUME now \in Nat, NEW b \in Bucket, b.tokens <= Full, b.last <= now
    PROVE  /\ Filled(b) \in Nat
           /\ Worth(b) \in Nat /\ Worth(b) <= Full
           /\ Min({Full, Filled(b)}) = Worth(b)
<1>1. b.tokens \in Nat /\ b.last \in Nat /\ now - b.last \in Nat /\ Limit \in Nat /\ Full \in Nat
    BY FullLemma DEF Bucket
<1>2. \A i, j \in Nat : i * j \in Nat
    OBVIOUS
<1>3. Filled(b) \in Nat
    BY <1>1, <1>2 DEF Filled
<1>4. Worth(b) \in Nat /\ Worth(b) <= Full
    BY <1>1, <1>3 DEF Worth
<1>5. Min({Full, Filled(b)}) = Worth(b)
    <2>1. Full \in Int /\ Filled(b) \in Int
        BY <1>1, <1>3
    <2> QED
        BY <2>1, MinOfTwo DEF Worth
<1> QED
    BY <1>3, <1>4, <1>5

\* A bucket refilled just now holds what it is worth.
LEMMA JustFilled ==
    ASSUME now \in Nat, NEW n \in Nat, n <= Full
    PROVE  /\ [tokens |-> n, last |-> now] \in Bucket
           /\ Filled([tokens |-> n, last |-> now]) = n
           /\ Worth([tokens |-> n, last |-> now]) = n
<1>1. (now - now) * Limit = 0 /\ Full \in Nat
    BY FullLemma
<1> QED
    BY <1>1 DEF Filled, Worth, Bucket

\* What Allow finds for a key: the bucket's worth, refilled just now.
LEMMA FoundLemma ==
    ASSUME BucketInv, NEW k \in Keys
    PROVE  Found(k) = [tokens |-> Worth(ideal[k]), last |-> now]
<1>1. Full \in Nat
    BY FullLemma
<1>2. ideal[k] \in Bucket /\ ideal[k].tokens <= Full /\ ideal[k].last <= now /\ now \in Nat
    BY DEF BucketInv
<1>3. CASE k \in DOMAIN buckets
    <2>1. buckets[k] = ideal[k]
        BY <1>3 DEF BucketInv
    <2> QED
        BY <1>2, <1>3, <2>1, FilledLemma DEF Found, Refilled
<1>4. CASE k \notin DOMAIN buckets
    <2>1. Filled(ideal[k]) >= Full /\ Filled(ideal[k]) \in Nat
        BY <1>2, <1>4, FilledLemma DEF BucketInv
    <2>2. Worth(ideal[k]) = Full
        BY <1>1, <2>1 DEF Worth
    <2> QED
        BY <1>4, <2>2 DEF Found, Fresh
<1> QED
    BY <1>3, <1>4

\* Pruning keeps what it keeps, and drops only buckets that are full again.
LEMMA HeldLemma ==
    ASSUME BucketInv, NEW k \in Keys
    PROVE  /\ DOMAIN Held(k) \subseteq DOMAIN buckets
           /\ \A j \in DOMAIN Held(k) : Held(k)[j] = buckets[j]
           /\ \A j \in DOMAIN buckets \ DOMAIN Held(k) : Filled(buckets[j]) >= Full
           /\ k \in DOMAIN buckets => k \in DOMAIN Held(k)
<1> DEFINE kept == {j \in DOMAIN buckets : ~Idle(buckets[j])}
           full == k \notin DOMAIN buckets /\ Cardinality(DOMAIN buckets) >= MaxBuckets
<1>1. CASE full
    <2>1. Held(k) = [j \in kept |-> buckets[j]]
        BY <1>1 DEF Held, Restrict
    <2>2. \A j \in DOMAIN buckets \ kept : Filled(buckets[j]) >= Full
        BY DEF Idle
    <2> HIDE DEF kept
    <2>3. kept \subseteq DOMAIN buckets
        BY DEF kept
    <2> QED
        BY <1>1, <2>1, <2>2, <2>3
<1>2. CASE ~full
    <2>1. Held(k) = buckets
        BY <1>2 DEF Held
    <2> QED
        BY <2>1
<1> QED
    BY <1>1, <1>2

\* A message asks for a token.
LEMMA AllowStep ==
    ASSUME RateInv, NEW k \in Keys, NEW ok \in BOOLEAN, Allow(k, ok), now' = now
    PROVE  RateInv'
<1> DEFINE w == Worth(ideal[k])
           n == IF ok THEN w - Window ELSE w
           b == [tokens |-> n, last |-> now]
<1>1. BucketInv /\ GrantInv /\ now \in Nat
    BY DEF RateInv, BucketInv
<1>2. /\ Full \in Nat /\ Window \in Nat /\ Window > 0 /\ Limit \in Nat
    BY FullLemma
<1>3. ideal[k] \in Bucket /\ ideal[k].tokens <= Full /\ ideal[k].last <= now
    BY <1>1 DEF BucketInv
<1>4. w \in Nat /\ w <= Full /\ Min({Full, Filled(ideal[k])}) = w
    BY <1>1, <1>3, FilledLemma
<1>5. Found(k) = [tokens |-> w, last |-> now]
    BY <1>1, FoundLemma
<1>6. ok = (w >= Window)
    BY <1>5 DEF Allow
<1> HIDE DEF w
<1>7. n \in Nat /\ n <= Full /\ n = w - (IF ok THEN Window ELSE 0)
    <2>1. CASE ok
        <3>1. w >= Window
            BY <1>6, <2>1, Zenon
        <3> QED
            BY <1>2, <1>4, <2>1, <3>1
    <2>2. CASE ~ok
        BY <1>2, <1>4, <1>6, <2>2
    <2> QED
        BY <2>1, <2>2
<1>8. Pay([tokens |-> w, last |-> now], ok) = b
    BY <1>2, <1>4, <1>7 DEF Pay
<1>9. buckets' = Put(Held(k), k, b) /\ ideal' = [ideal EXCEPT ![k] = b]
    BY <1>4, <1>5, <1>8 DEF Allow
<1>10. b \in Bucket /\ b.tokens <= Full /\ b.last = now /\ Filled(b) = n /\ Worth(b) = n
    BY <1>1, <1>7, JustFilled
<1>11. granted' = [granted EXCEPT ![k] =
            [t \in 0..Window |-> granted[k][t] + IF ok THEN 1 ELSE 0]]
    BY DEF Allow
<1>12. /\ Full' = Full
       /\ \A j \in Keys : Filled(ideal[j])' = Filled(ideal'[j])
       /\ \A j \in Keys : Worth(ideal[j])' = Worth(ideal'[j])
    BY DEF Filled, Worth, Full
<1> HIDE DEF b
<1>13. /\ DOMAIN Held(k) \subseteq DOMAIN buckets
       /\ \A j \in DOMAIN Held(k) : Held(k)[j] = buckets[j]
       /\ \A j \in DOMAIN buckets \ DOMAIN Held(k) : Filled(buckets[j]) >= Full
    BY <1>1, HeldLemma
<1>14. /\ DOMAIN buckets' = {k} \cup DOMAIN Held(k)
       /\ buckets' = [j \in DOMAIN buckets' |-> buckets'[j]]
       /\ buckets'[k] = b
       /\ \A j \in DOMAIN Held(k) : j # k => buckets'[j] = buckets[j]
    BY <1>9, <1>13 DEF Put
<1>15. ideal' \in [Keys -> Bucket]
    BY <1>1, <1>9, <1>10 DEF BucketInv
<1>16. ideal'[k] = b /\ \A j \in Keys \ {k} : ideal'[j] = ideal[j]
    BY <1>1, <1>9 DEF BucketInv
<1>17. BucketInv'
    <2>1. DOMAIN buckets' \subseteq Keys
        BY <1>1, <1>13, <1>14 DEF BucketInv
    <2>2. \A j \in Keys : ideal'[j].tokens <= Full /\ ideal'[j].last <= now'
        BY <1>1, <1>10, <1>16 DEF BucketInv
    <2>3. \A j \in DOMAIN buckets' : buckets'[j] = ideal'[j]
        BY <1>1, <1>13, <1>14, <1>16, <2>1 DEF BucketInv
    <2>4. \A j \in Keys \ DOMAIN buckets' : Filled(ideal[j])' >= Full
        <3> TAKE j \in Keys \ DOMAIN buckets'
        <3>1. j # k /\ ideal'[j] = ideal[j] /\ ideal[j] \in Bucket
            BY <1>1, <1>14, <1>16 DEF BucketInv
        <3>2. Filled(ideal[j]) >= Full
            BY <1>1, <1>13, <1>14 DEF BucketInv
        <3> QED
            BY <3>1, <3>2, <1>12
    <2> QED
        BY <1>1, <1>12, <1>14, <1>15, <2>1, <2>2, <2>3, <2>4 DEF BucketInv
<1>18. GrantInv'
    <2>1. /\ granted' \in [Keys -> [0..Window -> Nat]]
          /\ \A t \in 0..Window : granted'[k][t] = granted[k][t] + IF ok THEN 1 ELSE 0
          /\ \A j \in Keys \ {k} : granted'[j] = granted[j]
        <3> DEFINE g == [t \in 0..Window |-> granted[k][t] + IF ok THEN 1 ELSE 0]
        <3>1. granted \in [Keys -> [0..Window -> Nat]]
            BY <1>1 DEF GrantInv
        <3>2. g \in [0..Window -> Nat]
            <4>1. \A t \in 0..Window : granted[k][t] \in Nat
                BY <3>1
            <4>2. \A t \in 0..Window : granted[k][t] + (IF ok THEN 1 ELSE 0) \in Nat
                BY <4>1
            <4> QED
                BY <4>2
        <3>3. \A t \in 0..Window : g[t] = granted[k][t] + IF ok THEN 1 ELSE 0
            OBVIOUS
        <3> HIDE DEF g
        <3>4. granted' = [granted EXCEPT ![k] = g]
            BY <1>11 DEF g
        <3> QED
            BY <3>1, <3>2, <3>3, <3>4
    <2>2. ASSUME NEW j \in Keys, NEW t \in 0..Window
          PROVE  Window * granted'[j][t] + Worth(ideal[j])' <= Full + t * Limit
        <3>1. Window * granted[j][t] + Worth(ideal[j]) <= Full + t * Limit
            BY <1>1 DEF GrantInv
        <3>2. CASE j # k
            <4>1. ideal'[j] = ideal[j] /\ granted'[j] = granted[j] /\ ideal[j] \in Bucket
                BY <1>1, <1>16, <2>1, <3>2 DEF BucketInv
            <4> QED
                BY <1>12, <3>1, <4>1
        <3>3. CASE j = k
            <4>1. Worth(ideal[j])' = n
                BY <1>10, <1>12, <1>16, <3>3
            <4>2. Window * granted[j][t] + w <= Full + t * Limit
                BY <3>1, <3>3 DEF w
            <4>3. granted[j][t] \in Nat /\ granted'[j][t] = granted[j][t] + IF ok THEN 1 ELSE 0
                BY <1>1, <2>1, <3>3 DEF GrantInv
            <4>4. Window * granted'[j][t] = Window * granted[j][t] + IF ok THEN Window ELSE 0
                BY <1>2, <4>3
            <4>5. Window * granted[j][t] \in Nat /\ t * Limit \in Nat
                BY <1>2, <4>3
            <4> QED
                BY <1>2, <1>4, <1>7, <4>1, <4>2, <4>4, <4>5
        <3> QED
            BY <3>2, <3>3
    <2> QED
        BY <1>12, <2>1, <2>2 DEF GrantInv
<1> QED
    BY <1>17, <1>18 DEF RateInv

\* Tokens come with time.
LEMMA TickStep ==
    ASSUME RateInv, RateTick, now' = now + 1
    PROVE  RateInv'
<1>1. BucketInv /\ GrantInv /\ now \in Nat /\ now' \in Nat
    BY DEF RateInv, BucketInv
<1>2. Full \in Nat /\ Window \in Nat /\ Window > 0 /\ Limit \in Nat /\ Full' = Full
    BY FullLemma DEF Full
<1>3. buckets' = buckets /\ ideal' = ideal
    BY DEF RateTick
<1>4. ASSUME NEW k \in Keys
      PROVE  /\ Filled(ideal[k])' = Filled(ideal[k]) + Limit
             /\ Worth(ideal[k]) \in Nat /\ Worth(ideal[k])' \in Nat
             /\ Worth(ideal[k])' <= Worth(ideal[k]) + Limit
             /\ Worth(ideal[k])' <= Full
             /\ Filled(ideal[k]) \in Nat
    <2>1. ideal[k] \in Bucket /\ ideal[k].tokens <= Full /\ ideal[k].last <= now
        BY <1>1 DEF BucketInv
    <2>2. Filled(ideal[k]) \in Nat /\ Worth(ideal[k]) \in Nat
        BY <1>1, <2>1, FilledLemma
    <2>3. ((now + 1) - ideal[k].last) * Limit = (now - ideal[k].last) * Limit + Limit
        <3>1. \A i \in Nat : (i + 1) * Limit = i * Limit + Limit
            BY <1>2
        <3>2. now - ideal[k].last \in Nat
            BY <1>1, <2>1 DEF Bucket
        <3>3. (now + 1) - ideal[k].last = (now - ideal[k].last) + 1
            BY <1>1, <2>1 DEF Bucket
        <3> QED
            BY <3>1, <3>2, <3>3
    <2>4. (now - ideal[k].last) * Limit \in Int /\ ideal[k].tokens \in Nat
        BY <1>1, <1>2, <2>1 DEF Bucket
    <2>5. Filled(ideal[k])' = Filled(ideal[k]) + Limit
        <3>1. Filled(ideal[k])' = ideal[k].tokens + ((now + 1) - ideal[k].last) * Limit
            BY <1>3, Zenon DEF Filled
        <3>2. Filled(ideal[k]) = ideal[k].tokens + (now - ideal[k].last) * Limit
            BY Zenon DEF Filled
        <3> DEFINE d == (now - ideal[k].last) * Limit
        <3>3. d \in Int /\ ((now + 1) - ideal[k].last) * Limit = d + Limit
            BY <2>3, <2>4
        <3> HIDE DEF d
        <3>4. ideal[k].tokens + (d + Limit) = (ideal[k].tokens + d) + Limit
            BY <1>2, <2>4, <3>3
        <3> QED
            BY <3>1, <3>2, <3>3, <3>4, Zenon DEF d
    <2> QED
        BY <1>2, <2>2, <2>5 DEF Worth
<1>5. BucketInv'
    <2>1. \A k \in Keys : ideal'[k].tokens <= Full' /\ ideal'[k].last <= now'
        <3> TAKE k \in Keys
        <3>1. ideal[k] \in Bucket /\ ideal[k].tokens <= Full /\ ideal[k].last <= now
            BY <1>1 DEF BucketInv
        <3> QED
            BY <1>1, <1>2, <1>3, <3>1 DEF Bucket
    <2>2. \A k \in Keys \ DOMAIN buckets' : Filled(ideal[k])' >= Full'
        <3> TAKE k \in Keys \ DOMAIN buckets'
        <3>1. Filled(ideal[k]) >= Full
            BY <1>1, <1>3 DEF BucketInv
        <3> QED
            BY <1>2, <1>4, <3>1
    <2> QED
        BY <1>1, <1>3, <2>1, <2>2 DEF BucketInv
<1>6. GrantInv'
    <2>1. granted' = [k \in Keys |-> [t \in 0..Window |->
                        IF t = 0 THEN 0 ELSE granted[k][t - 1]]]
        BY DEF RateTick
    <2>2. granted \in [Keys -> [0..Window -> Nat]]
        BY <1>1 DEF GrantInv
    <2>3. ASSUME NEW k \in Keys, NEW t \in 0..Window
          PROVE  granted'[k][t] = (IF t = 0 THEN 0 ELSE granted[k][t - 1])
        BY <2>1
    <2>4. ASSUME NEW k \in Keys, NEW t \in 0..Window
          PROVE  (IF t = 0 THEN 0 ELSE granted[k][t - 1]) \in Nat
        BY <1>2, <2>2
    <2>5. granted' \in [Keys -> [0..Window -> Nat]]
        BY <2>1, <2>4
    <2>6. ASSUME NEW k \in Keys, NEW t \in 0..Window
          PROVE  Window * granted'[k][t] + Worth(ideal[k])' <= Full + t * Limit
        <3>1. CASE t = 0
            BY <1>2, <1>4, <2>3, <3>1
        <3>2. CASE t # 0
            <4>1. t - 1 \in 0..Window /\ granted'[k][t] = granted[k][t - 1]
                  /\ granted[k][t - 1] \in Nat
                BY <1>2, <2>2, <2>3, <3>2
            <4>2. Window * granted[k][t - 1] + Worth(ideal[k]) <= Full + (t - 1) * Limit
                BY <1>1, <4>1 DEF GrantInv
            <4>3. (t - 1) * Limit + Limit = t * Limit
                BY <1>2
            <4>4. /\ Window * granted[k][t - 1] \in Nat
                  /\ (t - 1) * Limit \in Int /\ t * Limit \in Int
                BY <1>2, <4>1
            <4> HIDE DEF Worth
            <4> QED
                BY <1>2, <1>4, <4>1, <4>2, <4>3, <4>4
        <3> QED
            BY <3>1, <3>2
    <2> QED
        BY <1>2, <2>5, <2>6 DEF GrantInv
<1> QED
    BY <1>5, <1>6 DEF RateInv

-----------------------------------------------------------------------------
(***************************************************************************)
(* The sessions                                                            *)
(***************************************************************************)
Stages == {"idle", "auth", "dnsbl", "analyze", "uribl", "decide", "done"}

\* A session record has these fields, of whatever type.
Fields == {"stage", "mail", "action", "tagged", "asking", "since", "age", "todo",
           "score", "dmarc", "listed", "uribl", "bayes", "scanned"}

IsWork(w) == w = [f \in Fields |-> w[f]]

\* What DMARC tells apart in a message.
IsMail(m) ==
    /\ m.from \in {"", "org", "sub"}
    /\ m.dns \in [{"org", "sub", "other"} -> Records \cup {NoRecord}]
    /\ m.spf \in Identifiers
    /\ m.dkim \subseteq Identifiers

\* The body of PolicyAsPublished for one message.
PolicyOn(m, dmarc) ==
    m.from # "" /\ cfg.mailauth /\ cfg.enforce =>
        IF ~Resolved(m)
        THEN dmarc > Accept => /\ m.from # OrgDomain(m.from)
                               /\ Answers(m, OrgDomain(m.from))
                               /\ dmarc <= OrgAsks(m)
        ELSE IF Sender(m) = NoRecord \/ Vouched(m, Sender(m)) # {} THEN dmarc = Accept
        ELSE \/ dmarc = Published(m)
             \/ Sender(m).partial /\ dmarc = Max({Accept, Published(m) - 1})

\* A query under way has a name to ask about and has not outlasted its timeout;
\* the last answer was fresh; DMARC has done what was published.
Asking(w) ==
    w.asking => /\ w.since <= now /\ now <= w.since + LookupTime
                /\ NameOf(w) # NoName

Judged(w) ==
    /\ w.stage # "idle" => IsMail(w.mail)
    /\ w.stage \notin {"idle", "auth"} => PolicyOn(w.mail, w.dmarc)

Good(w) ==
    /\ IsWork(w)
    /\ w.stage \in Stages /\ w.action \in {Accept, Quarantine, Reject}
    /\ w.asking \in BOOLEAN /\ w.since \in Nat
    /\ w.age \in Nat /\ w.age <= TTL + LookupTime
    /\ Asking(w)
    /\ Judged(w)

SessionsInv ==
    /\ sess = [s \in Sessions |-> sess[s]]
    /\ \A s \in Sessions : Good(sess[s])

\* A step of one session keeps the others good.
LEMMA SessionStep ==
    ASSUME SessionsInv, NEW s \in Sessions, NEW v, Good(v),
           sess' = [sess EXCEPT ![s] = v], now' = now, cfg' = cfg
    PROVE  SessionsInv'
<1>1. \A r \in Sessions : Good(sess[r])' = Good(sess'[r])
    BY DEF Good, IsWork, Asking, Judged, NameOf, PolicyOn
<1>2. sess' = [r \in Sessions |-> sess'[r]]
    BY DEF SessionsInv
<1>3. \A r \in Sessions : sess'[r] = IF r = s THEN v ELSE sess[r]
    BY DEF SessionsInv
<1>4. \A r \in Sessions : Good(sess'[r])
    BY <1>3 DEF SessionsInv
<1> QED
    BY <1>1, <1>2, <1>4 DEF SessionsInv

\* A query begins.
LEMMA AskStep ==
    ASSUME SessionsInv, now \in Nat, NEW s \in Sessions, Ask(s)
    PROVE  SessionsInv'
<1> DEFINE w == sess[s]
           v == [w EXCEPT !.asking = TRUE, !.since = now]
<1>1. sess' = [sess EXCEPT ![s] = v] /\ now' = now /\ cfg' = cfg
    BY DEF Ask
<1>2. Good(w)
    BY DEF SessionsInv
<1>3. NameOf(w) # NoName
    BY DEF Ask
<1> HIDE DEF w
<1>4. /\ IsWork(v) /\ v.asking = TRUE /\ v.since = now /\ v.stage = w.stage
      /\ v.mail = w.mail /\ v.todo = w.todo /\ v.action = w.action /\ v.age = w.age
      /\ v.dmarc = w.dmarc
    BY <1>2 DEF Good, IsWork, Fields
<1> HIDE DEF v
<1>5. NameOf(v) = NameOf(w)
    BY <1>4 DEF NameOf
<1>6. Asking(v)
    BY <1>3, <1>4, <1>5, ScreenAssumption DEF Asking
<1>7. Judged(v)
    BY <1>2, <1>4 DEF Judged, Good
<1>8. Good(v)
    BY <1>2, <1>4, <1>6, <1>7 DEF Good
<1> QED
    BY <1>1, <1>8, SessionStep

\* An answer that is fresh leaves a good session.
LEMMA AnsweredGood ==
    ASSUME NEW w, Good(w), w.stage \in {"dnsbl", "uribl"},
           NEW listed, NEW age \in Nat, age <= TTL + LookupTime
    PROVE  Good(Answered(w, listed, age))
<1> DEFINE v == Answered(w, listed, age)
<1>1. IsWork(w) /\ w.stage \in Stages /\ w.action \in {Accept, Quarantine, Reject} /\ w.since \in Nat
    BY DEF Good
<1>2. CASE w.stage = "dnsbl"
    <2>1. v = [w EXCEPT !.asking = FALSE, !.age = age, !.listed = listed,
                        !.action = IF listed THEN Reject ELSE w.action,
                        !.stage = IF listed THEN "done" ELSE "analyze"]
        BY <1>1, <1>2 DEF Answered, IsWork, Fields
    <2>2. /\ IsWork(v) /\ v.asking = FALSE /\ v.age = age /\ v.since = w.since
          /\ v.mail = w.mail /\ v.dmarc = w.dmarc
        BY <1>1, <2>1 DEF IsWork, Fields
    <2>3. v.action = (IF listed THEN Reject ELSE w.action)
          /\ v.stage = (IF listed THEN "done" ELSE "analyze")
        BY <1>1, <2>1 DEF IsWork, Fields
    <2> HIDE DEF v
    <2>4. v.action \in {Accept, Quarantine, Reject} /\ v.stage \in {"done", "analyze"}
        BY <1>1, <2>3
    <2>5. Judged(v)
        BY <1>2, <2>2, <2>4 DEF Good, Judged
    <2> QED
        BY <1>1, <2>2, <2>4, <2>5 DEF Good, Asking, Stages, v
<1>3. CASE w.stage = "uribl"
    <2> DEFINE rest == IF listed THEN <<>> ELSE SelectSeq(w.todo, LAMBDA d : d # Head(w.todo))
               pts == w.score + (IF listed THEN 25 ELSE 0)
    <2>1. v = [w EXCEPT !.asking = FALSE, !.age = age, !.uribl = listed,
                        !.score = pts, !.todo = rest]
        BY <1>1, <1>3 DEF Answered, IsWork, Fields
    <2> HIDE DEF rest, pts
    <2>2. /\ IsWork(v) /\ v.asking = FALSE /\ v.age = age /\ v.since = w.since
          /\ v.mail = w.mail /\ v.dmarc = w.dmarc /\ v.action = w.action /\ v.stage = w.stage
        BY <1>1, <2>1 DEF IsWork, Fields
    <2> HIDE DEF v
    <2>5. Judged(v)
        BY <1>3, <2>2 DEF Good, Judged
    <2> QED
        BY <1>1, <2>2, <2>5 DEF Good, Asking, v
<1> QED
    BY <1>2, <1>3

\* The cache: nothing in it is from the future, and an entry expires TTL after
\* the end of the query that filled it.
Cached == [listed : BOOLEAN, expires : Nat, asof : Nat]

CacheInv ==
    /\ IsFiniteSet(DOMAIN cache) /\ Cardinality(DOMAIN cache) <= CacheLimit + 1
    /\ \A n \in DOMAIN cache :
          /\ cache[n] \in Cached
          /\ cache[n].asof <= now
          /\ cache[n].expires <= cache[n].asof + LookupTime + TTL
          /\ cache[n].expires <= MaxTime + TTL

ClockInv == now \in Nat /\ now <= MaxTime

\* An answer that needs no query.
LEMMA AnswerAtOnceStep ==
    ASSUME SessionsInv, CacheInv, ClockInv, NEW s \in Sessions, AnswerAtOnce(s)
    PROVE  SessionsInv'
<1> DEFINE w == sess[s]
           n == NameOf(w)
           over == w.stage = "uribl" /\ (w.todo = <<>> \/ ~cfg.blacklist)
<1>1. Good(w) /\ now' = now /\ cfg' = cfg /\ w.stage \in {"dnsbl", "uribl"} /\ ~w.asking
    BY DEF SessionsInv, AnswerAtOnce
<1>2. \/ sess' = [sess EXCEPT ![s] = IF over THEN [w EXCEPT !.stage = "decide", !.todo = <<>>]
                                     ELSE Answered(w, FALSE, 0)]
      \/ Live(n) /\ sess' = [sess EXCEPT ![s] = Answered(w, cache[n].listed, now - cache[n].asof)]
    BY DEF AnswerAtOnce
<1>3. TTL \in Nat /\ LookupTime \in Nat /\ now \in Nat
    BY ScreenAssumption DEF ClockInv
<1>4. CASE sess' = [sess EXCEPT ![s] = IF over THEN [w EXCEPT !.stage = "decide", !.todo = <<>>]
                                       ELSE Answered(w, FALSE, 0)]
    <2>1. CASE over
        <3> DEFINE v == [w EXCEPT !.stage = "decide", !.todo = <<>>]
        <3>1. sess' = [sess EXCEPT ![s] = v]
            BY <1>4, <2>1
        <3> HIDE DEF w
        <3>2. /\ IsWork(v) /\ v.asking = w.asking /\ v.age = w.age /\ v.since = w.since
              /\ v.mail = w.mail /\ v.dmarc = w.dmarc /\ v.action = w.action /\ v.stage = "decide"
            BY <1>1 DEF Good, IsWork, Fields
        <3> HIDE DEF v
        <3>3. Judged(v)
            BY <1>1, <3>2 DEF Good, Judged
        <3>4. Good(v)
            BY <1>1, <3>2, <3>3 DEF Good, Asking, Stages
        <3> QED
            BY <1>1, <3>1, <3>4, SessionStep
    <2>2. CASE ~over
        <3>1. sess' = [sess EXCEPT ![s] = Answered(w, FALSE, 0)]
            BY <1>4, <2>2
        <3>2. Good(Answered(w, FALSE, 0))
            <4>1. 0 \in Nat /\ 0 <= TTL + LookupTime
                BY <1>3
            <4> HIDE DEF w
            <4> QED
                BY <1>1, <4>1, AnsweredGood, Zenon
        <3> QED
            BY <1>1, <3>1, <3>2, SessionStep
    <2> QED
        BY <2>1, <2>2
<1>5. CASE Live(n) /\ sess' = [sess EXCEPT ![s] =
                                  Answered(w, cache[n].listed, now - cache[n].asof)]
    <2> DEFINE age == now - cache[n].asof
               listed == cache[n].listed
    <2>1. n \in DOMAIN cache /\ now <= cache[n].expires
        BY <1>5 DEF Live
    <2>2. /\ cache[n].expires \in Nat /\ cache[n].asof \in Nat /\ cache[n].asof <= now
          /\ cache[n].expires <= cache[n].asof + LookupTime + TTL
        BY <2>1 DEF CacheInv, Cached
    <2>3. age \in Nat /\ age <= TTL + LookupTime
        BY <1>3, <2>1, <2>2
    <2>4. sess' = [sess EXCEPT ![s] = Answered(w, listed, age)]
        BY <1>5
    <2> HIDE DEF age, listed
    <2>5. Good(Answered(w, listed, age))
        BY <1>1, <2>3, AnsweredGood
    <2> QED
        BY <1>1, <2>4, <2>5, SessionStep
<1> QED
    BY <1>2, <1>4, <1>5

\* The answer of a query, into the session and into the cache.
LEMMA StoreStep ==
    ASSUME SessionsInv, CacheInv, ClockInv, NEW s \in Sessions, NEW listed \in BOOLEAN,
           Store(s, listed)
    PROVE  SessionsInv' /\ CacheInv'
<1> DEFINE w == sess[s]
           age == now - w.since
           e == [listed |-> listed, expires |-> now + TTL, asof |-> w.since]
           n == NameOf(w)
<1>1. Good(w) /\ now' = now /\ cfg' = cfg /\ w.asking
    BY DEF SessionsInv, Store
<1>2. sess' = [sess EXCEPT ![s] = Answered(w, listed, age)] /\ cache' = Put(Room(cache), n, e)
    BY DEF Store
<1>3. /\ TTL \in Nat /\ LookupTime \in Nat /\ MaxTime \in Nat /\ CacheLimit \in Nat
      /\ now \in Nat /\ now <= MaxTime
    BY ScreenAssumption DEF ClockInv
<1> HIDE DEF w
<1>4. w.since \in Nat /\ w.since <= now /\ now <= w.since + LookupTime /\ n # NoName
    BY <1>1 DEF Good, Asking
<1>5. w.stage \in {"dnsbl", "uribl"}
    BY <1>4 DEF NameOf
<1>6. age \in Nat /\ age <= TTL + LookupTime
    BY <1>3, <1>4
<1>7. SessionsInv'
    <2> HIDE DEF age
    <2>1. Good(Answered(w, listed, age))
        BY <1>1, <1>5, <1>6, AnsweredGood
    <2> QED
        BY <1>1, <1>2, <2>1, SessionStep
<1>8. CacheInv'
    <2> HIDE DEF n
    <2>1. e \in Cached /\ e.asof <= now /\ e.expires <= MaxTime + TTL
          /\ e.expires <= e.asof + LookupTime + TTL
        BY <1>3, <1>4 DEF Cached
    <2> HIDE DEF e
    <2>2. /\ DOMAIN Room(cache) \subseteq DOMAIN cache
          /\ \A j \in DOMAIN Room(cache) : Room(cache)[j] = cache[j]
          /\ IsFiniteSet(DOMAIN Room(cache)) /\ Cardinality(DOMAIN Room(cache)) <= CacheLimit
        <3>1. CASE Cardinality(DOMAIN cache) > CacheLimit
            <4>1. Room(cache) = [j \in {} |-> 0]
                BY <3>1 DEF Room
            <4>2. DOMAIN Room(cache) = {}
                BY <4>1
            <4>3. IsFiniteSet({}) /\ Cardinality({}) = 0
                BY FS_EmptySet
            <4> QED
                BY <1>3, <4>2, <4>3
        <3>2. CASE ~(Cardinality(DOMAIN cache) > CacheLimit)
            <4>1. Room(cache) = cache
                BY <3>2 DEF Room
            <4>2. IsFiniteSet(DOMAIN cache)
                BY DEF CacheInv
            <4>3. Cardinality(DOMAIN cache) \in Nat
                BY <4>2, FS_CardinalityType
            <4> QED
                BY <1>3, <3>2, <4>1, <4>2, <4>3
        <3> QED
            BY <3>1, <3>2
    <2>3. /\ DOMAIN cache' = DOMAIN Room(cache) \cup {n}
          /\ \A j \in DOMAIN cache' : cache'[j] = e \/ (j \in DOMAIN cache /\ cache'[j] = cache[j])
        <3> DEFINE R == Room(cache)
        <3> HIDE DEF R
        <3>1. cache' = Put(R, n, e) /\ \A j \in DOMAIN R : j \in DOMAIN cache /\ R[j] = cache[j]
            BY <1>2, <2>2 DEF R
        <3>2. DOMAIN cache' = DOMAIN R \cup {n}
            BY <3>1 DEF Put
        <3>3. \A j \in DOMAIN cache' : cache'[j] = IF j = n THEN e ELSE R[j]
            BY <3>1 DEF Put
        <3>4. \A j \in DOMAIN cache' : cache'[j] = e \/ (j \in DOMAIN cache /\ cache'[j] = cache[j])
            <4> TAKE j \in DOMAIN cache'
            <4>1. CASE j = n
                BY <3>3, <4>1
            <4>2. CASE j # n
                <5>1. j \in DOMAIN R /\ cache'[j] = R[j]
                    BY <3>2, <3>3, <4>2
                <5> QED
                    BY <3>1, <5>1
            <4> QED
                BY <4>1, <4>2
        <3> QED
            BY <3>2, <3>4, Zenon DEF R
    <2>4. IsFiniteSet(DOMAIN cache') /\ Cardinality(DOMAIN cache') <= CacheLimit + 1
        <3> DEFINE D == DOMAIN Room(cache)
        <3>1. IsFiniteSet(D) /\ Cardinality(D) <= CacheLimit /\ DOMAIN cache' = D \cup {n}
            BY <2>2, <2>3
        <3> HIDE DEF D
        <3>2. Cardinality(D) \in Nat
            BY <3>1, FS_CardinalityType
        <3>3. /\ IsFiniteSet(D \cup {n})
              /\ Cardinality(D \cup {n}) = IF n \in D THEN Cardinality(D) ELSE Cardinality(D) + 1
            BY <3>1, FS_AddElement
        <3> QED
            BY <1>3, <3>1, <3>2, <3>3
    <2>5. \A j \in DOMAIN cache' :
            /\ cache'[j] \in Cached
            /\ cache'[j].asof <= now'
            /\ cache'[j].expires <= cache'[j].asof + LookupTime + TTL
            /\ cache'[j].expires <= MaxTime + TTL
        BY <1>1, <2>1, <2>3 DEF CacheInv
    <2> QED
        BY <2>4, <2>5 DEF CacheInv
<1> QED
    BY <1>7, <1>8

-----------------------------------------------------------------------------
(***************************************************************************)
(* DMARC                                                                   *)
(***************************************************************************)
\* Every message a client sends is one DMARC can judge.
LEMMA MailsLemma ==
    ASSUME NEW ip, NEW m \in Mails(ip)
    PROVE  IsMail(m)
<1> DEFINE P == Plain(ip)
           DNS == [{"org", "sub", "other"} -> Records \cup {NoRecord}]
<1>1. NoRecords \in DNS /\ \A d \in {"org", "sub"}, r \in Records : [NoRecords EXCEPT ![d] = r] \in DNS
    BY DEF NoRecords
<1>2. \A p \in {"none", "quarantine", "reject"} :
        [p |-> p, sp |-> "", aspf |-> "relaxed", adkim |-> "relaxed", partial |-> FALSE] \in Records
    BY DEF Records
<1>3. P.from = "org" /\ P.dns = NoRecords /\ P.dkim = {} /\ P.spf \in Identifiers
    BY DEF Plain, Identifiers
<1>4. ASSUME NEW u PROVE IsMail([P EXCEPT !.uris = u])
    <2>1. [P EXCEPT !.uris = u].from = "org" /\ [P EXCEPT !.uris = u].dns = NoRecords
          /\ [P EXCEPT !.uris = u].dkim = {} /\ [P EXCEPT !.uris = u].spf \in Identifiers
        BY DEF Plain, Identifiers
    <2> QED
        BY <1>1, <2>1 DEF IsMail
<1>5. ASSUME NEW pass \in BOOLEAN, NEW p \in {"none", "quarantine", "reject"}
      PROVE  IsMail(Forged(ip, pass, p)) /\ Forged(ip, pass, p).dns["org"] \in Records
    <2> DEFINE rec == [p |-> p, sp |-> "", aspf |-> "relaxed", adkim |-> "relaxed", partial |-> FALSE]
               F == Forged(ip, pass, p)
    <2>1. rec \in Records
        BY <1>2
    <2> HIDE DEF rec
    <2>2. F = [Plain(ip) EXCEPT !.spf.pass = pass, !.dns["org"] = rec]
        BY DEF Forged, rec
    <2>3. F.from = "org" /\ F.dkim = {} /\ F.spf \in Identifiers
        BY <2>2 DEF Plain, Identifiers
    <2>4. F.dns = [NoRecords EXCEPT !["org"] = rec]
        BY <2>2 DEF Plain
    <2>5. F.dns \in DNS /\ F.dns["org"] = rec
        BY <1>1, <2>1, <2>4 DEF NoRecords
    <2> QED
        BY <2>1, <2>3, <2>5 DEF IsMail
<1>6. ASSUME m \in AuthMails(ip) PROVE IsMail(m)
    <2>1. PICK f \in FromDomains, d \in RecordDomains, r \in Records,
               s \in Identifiers, k \in Signatures : m = AuthMail(ip, f, d, r, s, k)
        BY <1>6 DEF AuthMails
    <2>2. k \subseteq Identifiers
        <3>1. /\ [domain |-> "org", pass |-> TRUE] \in Identifiers
              /\ [domain |-> "sub", pass |-> TRUE] \in Identifiers
              /\ [domain |-> "org", pass |-> FALSE] \in Identifiers
            BY DEF Identifiers
        <3> QED
            BY <3>1, Zenon DEF Signatures
    <2>3. m.from = f /\ m.dns = [NoRecords EXCEPT ![d] = r] /\ m.spf = s /\ m.dkim = k
        BY <2>1 DEF AuthMail, Plain
    <2> QED
        BY <1>1, <2>2, <2>3 DEF IsMail, FromDomains, RecordDomains
<1>11. ASSUME m \in UnresolvedMails(ip) PROVE IsMail(m)
    <2>1. FewRecords \subseteq Records \cup {NoRecord}
        BY DEF FewRecords
    <2>2. PICK f \in RecordDomains, q \in FewRecords, r \in FewRecords, pass \in BOOLEAN,
               u \in {{"org"}, {"sub"}, {"org", "sub"}} : m = UnresolvedMail(ip, f, q, r, pass, u)
        BY <1>11 DEF UnresolvedMails
    <2>3. PICK d : d = [NoRecords EXCEPT !["sub"] = q, !["org"] = r]
        OBVIOUS
    <2>4. d \in DNS
        BY <1>1, <2>1, <2>3
    <2>5. m.from = f /\ m.dns = d /\ m.spf = [domain |-> "org", pass |-> pass] /\ m.dkim = {}
        BY <2>2, <2>3 DEF UnresolvedMail, Plain
    <2>6. m.spf \in Identifiers
        BY <2>5 DEF Identifiers
    <2> QED
        BY <2>4, <2>5, <2>6 DEF IsMail, RecordDomains
<1>7. ASSUME m \in ContentMails(ip) PROVE IsMail(m)
    <2>1. ForgedRecords(ip) \subseteq Records \cup {NoRecord}
        BY <1>5 DEF ForgedRecords
    <2>2. PICK c \in Contents, r \in ForgedRecords(ip) : m = ContentMail(ip, c, r)
        BY <1>7 DEF ContentMails
    <2>3. m.from = "org" /\ m.dkim = {} /\ m.spf \in Identifiers
        <3>1. m.from = "org"
            BY <2>2 DEF ContentMail, Plain
        <3>2. m.dkim = {}
            BY <2>2 DEF ContentMail, Plain
        <3>3. m.spf \in Identifiers
            <4>1. m.spf = [Plain(ip).spf EXCEPT !.pass = FALSE]
                BY <2>2 DEF ContentMail, Plain
            <4>2. PICK q : q = Plain(ip).spf
                OBVIOUS
            <4>3. q \in Identifiers
                BY <1>3, <4>2
            <4>4. [q EXCEPT !.pass = FALSE] \in Identifiers
                BY <4>3 DEF Identifiers
            <4> QED
                BY <4>1, <4>2, <4>4
        <3> QED
            BY <3>1, <3>2, <3>3
    <2>4. m.dns = [NoRecords EXCEPT !["org"] = r]
        BY <2>2 DEF ContentMail, Plain
    <2>5. m.dns \in DNS
        BY <2>1, <2>2, <2>4 DEF NoRecords
    <2> QED
        BY <2>3, <2>5 DEF IsMail
<1>8. CASE traffic = "plain"
    BY <1>4, <1>8 DEF Mails
<1>9. CASE traffic # "plain" /\ traffic = "forged"
    <2>1. m = Forged(ip, FALSE, "reject")
        BY <1>9 DEF Mails
    <2> QED
        BY <1>5, <2>1
<1>10. CASE traffic # "plain" /\ traffic # "forged"
    <2>1. m \in AuthMails(ip) \/ m \in UnresolvedMails(ip) \/ m \in ContentMails(ip)
        BY <1>10 DEF Mails
    <2> QED
        BY <1>6, <1>7, <1>11, <2>1
<1> QED
    BY <1>8, <1>9, <1>10

\* The larger of two numbers.
LEMMA MaxOfTwo ==
    ASSUME NEW a \in Int, NEW b \in Int
    PROVE  Max({a, b}) = IF b >= a THEN b ELSE a
<1> DEFINE m == IF b >= a THEN b ELSE a
<1>1. m \in {a, b} /\ \A y \in {a, b} : m >= y
    OBVIOUS
<1>2. \A x \in {a, b} : (\A y \in {a, b} : x >= y) => x = m
    OBVIOUS
<1> QED
    BY <1>1, <1>2 DEF Max

\* A domain vouches for a message exactly when a passing identifier is aligned.
LEMMA PassesLemma ==
    ASSUME NEW m, IsMail(m), m.from # "", NEW rec \in Records
    PROVE  Passes(m, rec) <=> Vouched(m, rec) # {}
<1>1. /\ m.from \in {"org", "sub"} /\ m.spf.domain \in {"org", "sub", "other"}
      /\ \A i \in m.dkim : i.domain \in {"org", "sub", "other"}
    BY DEF IsMail, Identifiers
<1>2. rec.aspf \in {"strict", "relaxed"} /\ rec.adkim \in {"strict", "relaxed"}
    BY DEF Records
<1>3. ASSUME NEW mode \in {"strict", "relaxed"}, NEW d \in {"org", "sub", "other"}
      PROVE  Aligned(d, m.from, mode) <=> d \in {"org", "sub"} /\ (mode = "strict" => d = m.from)
    BY <1>1 DEF Aligned, OrgDomain
<1> DEFINE By(mode, ids) == {d \in {"org", "sub"} :
                                /\ mode = "strict" => d = m.from
                                /\ \E i \in ids : i.pass /\ i.domain = d}
<1>4. Vouched(m, rec) = By(rec.aspf, {m.spf}) \cup By(rec.adkim, m.dkim)
    BY DEF Vouched
<1>5. (m.spf.pass /\ Aligned(m.spf.domain, m.from, rec.aspf)) <=> By(rec.aspf, {m.spf}) # {}
    BY <1>1, <1>2, <1>3
<1>6. (\E i \in m.dkim : i.pass /\ Aligned(i.domain, m.from, rec.adkim)) <=> By(rec.adkim, m.dkim) # {}
    BY <1>1, <1>2, <1>3
<1> QED
    BY <1>4, <1>5, <1>6 DEF Passes

\* A record is one, and says something.
LEMMA RecordLemma ==
    ASSUME NEW r \in Records
    PROVE  /\ r # NoRecord /\ r.partial \in BOOLEAN
           /\ r.p \in {"none", "quarantine", "reject"}
           /\ r.sp \in {"", "none", "quarantine", "reject"}
<1>1. /\ r.partial \in BOOLEAN
      /\ r.p \in {"none", "quarantine", "reject"}
      /\ r.sp \in {"", "none", "quarantine", "reject"}
    BY DEF Records
<1>2. NoRecord.p = "absent"
    BY DEF NoRecord
<1> QED
    BY <1>1, <1>2

\* The record in force is the sender's, and its policy is the published one.
LEMMA FoundRecord ==
    ASSUME NEW m, IsMail(m), m.from # "", Resolved(m)
    PROVE  /\ LookupDMARC(m, m.from).rec = Sender(m)
           /\ Sender(m) = NoRecord \/ Sender(m) \in Records
           /\ Sender(m) # NoRecord =>
                LookupDMARC(m, m.from).org = (m.dns[m.from] = NoRecord /\ m.from = "sub")
<1>1. m.from \in {"org", "sub"} /\ m.dns["org"] \in Records \cup {NoRecord}
      /\ m.dns["sub"] \in Records \cup {NoRecord}
    BY DEF IsMail
<1>2. LookupDMARC(m, m.from).rec = Sender(m)
    BY <1>1 DEF LookupDMARC, Answers, Resolved, Sender, OrgDomain
<1>3. Sender(m) = NoRecord \/ Sender(m) \in Records
    BY <1>1 DEF Sender, OrgDomain
<1>4. Sender(m) # NoRecord =>
        LookupDMARC(m, m.from).org = (m.dns[m.from] = NoRecord /\ m.from = "sub")
    BY <1>1 DEF LookupDMARC, Answers, Resolved, Sender, OrgDomain
<1> QED
    BY <1>2, <1>3, <1>4

\* After a failed query there is no record, or the organization's.
LEMMA FallbackRecord ==
    ASSUME NEW m, IsMail(m), m.from # "", ~Resolved(m)
    PROVE  \/ LookupDMARC(m, m.from).rec = NoRecord
           \/ /\ m.from # OrgDomain(m.from) /\ Answers(m, OrgDomain(m.from))
              /\ m.dns[OrgDomain(m.from)] \in Records
              /\ LookupDMARC(m, m.from) = [rec |-> m.dns[OrgDomain(m.from)], org |-> TRUE]
<1>1. m.from \in {"org", "sub"} /\ m.dns["org"] \in Records \cup {NoRecord}
      /\ m.dns["sub"] \in Records \cup {NoRecord}
    BY DEF IsMail
<1>2. ~Answers(m, m.from)
    BY DEF Answers, Resolved
<1>3. OrgDomain(m.from) = "org"
    BY <1>1 DEF OrgDomain
<1>4. CASE OrgDomain(m.from) # m.from /\ Answers(m, OrgDomain(m.from))
    <2>1. LookupDMARC(m, m.from) = [rec |-> m.dns[OrgDomain(m.from)], org |-> TRUE]
        BY <1>2, <1>4 DEF LookupDMARC
    <2>2. m.dns[OrgDomain(m.from)] \in Records
        BY <1>1, <1>3, <1>4 DEF Answers
    <2> QED
        BY <1>4, <2>1, <2>2
<1>5. CASE ~(OrgDomain(m.from) # m.from /\ Answers(m, OrgDomain(m.from)))
    <2>1. LookupDMARC(m, m.from).rec = NoRecord
        BY <1>2, <1>5 DEF LookupDMARC
    <2> QED
        BY <2>1
<1> QED
    BY <1>4, <1>5

\* A policy that is not sampled is softened by one level.
LEMMA SoftenLemma ==
    ASSUME NEW p \in {"none", "quarantine", "reject"}
    PROVE  ActionOf(IF p = "reject" THEN "quarantine" ELSE "none") = Max({Accept, ActionOf(p) - 1})
<1>1. CASE p = "reject"
    <2>1. ActionOf(p) = 2 /\ ActionOf("quarantine") = 1
        BY <1>1 DEF ActionOf, Accept, Quarantine, Reject
    <2>2. Max({0, 1}) = 1
        BY MaxOfTwo
    <2> QED
        BY <1>1, <2>1, <2>2 DEF Accept
<1>2. CASE p = "quarantine"
    <2>1. ActionOf(p) = 1 /\ ActionOf("none") = 0
        BY <1>2 DEF ActionOf, Accept, Quarantine, Reject
    <2>2. Max({0, 0}) = 0
        BY MaxOfTwo
    <2> QED
        BY <1>2, <2>1, <2>2 DEF Accept
<1>3. CASE p = "none"
    <2>1. ActionOf(p) = 0 /\ ActionOf("none") = 0
        BY <1>3 DEF ActionOf, Accept, Quarantine, Reject
    <2>2. Max({0, -1}) = 0
        BY MaxOfTwo
    <2> QED
        BY <1>3, <2>1, <2>2 DEF Accept
<1> QED
    BY <1>1, <1>2, <1>3

\* The policy found is the one published, or sampling softened it.
LEMMA PublishedLemma ==
    ASSUME NEW m, IsMail(m), m.from # "", Resolved(m), Sender(m) \in Records, NEW sampled \in BOOLEAN
    PROVE  LET a == ActionOf(PolicyOf(LookupDMARC(m, m.from), sampled))
           IN  \/ a = Published(m)
               \/ Sender(m).partial /\ a = Max({Accept, Published(m) - 1})
<1> DEFINE found == LookupDMARC(m, m.from)
           rec == Sender(m)
           p == IF found.org /\ rec.sp # "" THEN rec.sp ELSE rec.p
           a == ActionOf(PolicyOf(found, sampled))
           pub == Published(m)
<1>1. /\ found.rec = rec /\ rec \in Records
      /\ found.org = (m.dns[m.from] = NoRecord /\ m.from = "sub")
    <2>1. rec # NoRecord
        BY RecordLemma
    <2> QED
        BY <2>1, FoundRecord
<1>2. rec # NoRecord /\ rec.partial \in BOOLEAN
      /\ rec.p \in {"none", "quarantine", "reject"}
      /\ rec.sp \in {"", "none", "quarantine", "reject"}
    <2> HIDE DEF rec
    <2> QED
        BY <1>1, RecordLemma
<1>3. m.from \in {"org", "sub"}
    BY DEF IsMail
<1>4. Published(m) = ActionOf(p)
    <2>1. CASE m.dns[m.from] # NoRecord
        <3>1. rec = m.dns[m.from] /\ p = rec.p
            BY <1>1, <2>1 DEF Sender
        <3> QED
            BY <2>1, <3>1 DEF Published
    <2>2. CASE m.dns[m.from] = NoRecord
        <3>1. rec = m.dns[OrgDomain(m.from)]
            BY <2>2 DEF Sender
        <3>2. m.from = "sub" /\ found.org
            BY <1>1, <1>2, <1>3, <2>2, <3>1 DEF OrgDomain
        <3>3. p = IF rec.sp = "" THEN rec.p ELSE rec.sp
            BY <3>2
        <3> HIDE DEF p, rec
        <3> QED
            BY <1>2, <2>2, <3>1, <3>3 DEF Published
    <2> QED
        BY <2>1, <2>2
<1>5. PolicyOf(found, sampled) = IF sampled \/ ~rec.partial THEN p
                                 ELSE IF p = "reject" THEN "quarantine" ELSE "none"
    BY <1>1 DEF PolicyOf
<1>6. p \in {"none", "quarantine", "reject"}
    BY <1>2
<1> HIDE DEF p, found, rec
<1>7. pub = ActionOf(p)
    BY <1>4
<1> HIDE DEF pub
<1>8. CASE sampled \/ ~rec.partial
    <2>1. a = pub
        BY <1>5, <1>7, <1>8
    <2> QED
        BY <2>1 DEF a, pub, found
<1>9. CASE ~(sampled \/ ~rec.partial)
    <2>1. a = ActionOf(IF p = "reject" THEN "quarantine" ELSE "none")
        BY <1>5, <1>9
    <2>2. a = Max({Accept, ActionOf(p) - 1})
        BY <1>6, <2>1, SoftenLemma
    <2> QED
        BY <1>7, <1>9, <2>2 DEF rec, a, found, pub
<1> QED
    BY <1>8, <1>9

\* What Check does is what was published.
LEMMA CheckAuthLemma ==
    ASSUME NEW m, IsMail(m), NEW sampled \in BOOLEAN
    PROVE  /\ CheckAuth(m, cfg.enforce, sampled) \in {Accept, Quarantine, Reject}
           /\ PolicyOn(m, CheckAuth(m, cfg.enforce, sampled))
<1> DEFINE found == LookupDMARC(m, m.from)
           a == CheckAuth(m, cfg.enforce, sampled)
           excused == \/ m.from = "" \/ ~cfg.enforce
                      \/ found.rec = NoRecord \/ Passes(m, found.rec)
<1>1. a = IF excused THEN Accept ELSE ActionOf(PolicyOf(found, sampled))
    BY DEF CheckAuth, ActionOf
<1>2. \A p : ActionOf(p) \in {Accept, Quarantine, Reject}
    BY DEF ActionOf
<1>3. a \in {Accept, Quarantine, Reject}
    BY <1>1, <1>2
<1>4. ASSUME m.from # "", cfg.enforce, Resolved(m)
      PROVE  IF Sender(m) = NoRecord \/ Vouched(m, Sender(m)) # {} THEN a = Accept
             ELSE \/ a = Published(m)
                  \/ Sender(m).partial /\ a = Max({Accept, Published(m) - 1})
    <2>1. found.rec = Sender(m) /\ (Sender(m) = NoRecord \/ Sender(m) \in Records)
        BY <1>4, FoundRecord
    <2>2. CASE Sender(m) = NoRecord
        BY <1>1, <2>1, <2>2
    <2>3. CASE Sender(m) # NoRecord
        <3>1. Sender(m) \in Records
            BY <2>1, <2>3
        <3>2. Passes(m, Sender(m)) <=> Vouched(m, Sender(m)) # {}
            BY <1>4, <3>1, PassesLemma
        <3>3. CASE Vouched(m, Sender(m)) # {}
            BY <1>1, <2>1, <3>2, <3>3
        <3>4. CASE Vouched(m, Sender(m)) = {}
            <4>1. a = ActionOf(PolicyOf(found, sampled))
                BY <1>1, <1>4, <2>1, <2>3, <3>2, <3>4
            <4>2. \/ a = Published(m)
                  \/ Sender(m).partial /\ a = Max({Accept, Published(m) - 1})
                <5> HIDE DEF a
                <5> QED
                    BY <1>4, <3>1, <4>1, PublishedLemma
            <4> QED
                BY <2>3, <3>4, <4>2
        <3> QED
            BY <3>3, <3>4
    <2> QED
        BY <2>2, <2>3
<1>6. ASSUME m.from # "", cfg.enforce, ~Resolved(m), a > Accept
      PROVE  m.from # OrgDomain(m.from) /\ Answers(m, OrgDomain(m.from)) /\ a <= OrgAsks(m)
    <2> DEFINE top == m.dns[OrgDomain(m.from)]
               p == IF top.sp = "" THEN top.p ELSE top.sp
    <2>1. ~excused /\ a = ActionOf(PolicyOf(found, sampled))
        <3> HIDE DEF excused, a
        <3>1. CASE excused
            <4>1. a = 0 /\ a > 0
                BY <1>1, <1>6, <3>1 DEF Accept
            <4> QED
                BY <4>1
        <3>2. CASE ~excused
            BY <1>1, <3>2
        <3> QED
            BY <3>1, <3>2
    <2>2. /\ m.from # OrgDomain(m.from) /\ Answers(m, OrgDomain(m.from)) /\ top \in Records
          /\ found.rec = top /\ found.org
        <3>1. found.rec # NoRecord
            BY <2>1
        <3>2. found = [rec |-> top, org |-> TRUE] /\ m.from # OrgDomain(m.from)
              /\ Answers(m, OrgDomain(m.from)) /\ top \in Records
            BY <1>6, <3>1, FallbackRecord
        <3> HIDE DEF found, top
        <3> QED
            BY <3>2
    <2>3. Vouched(m, top) = {}
        <3>1. ~Passes(m, top)
            BY <2>1, <2>2, Zenon
        <3> HIDE DEF top
        <3> QED
            BY <1>6, <2>2, <3>1, PassesLemma
    <2>4. OrgAsks(m) = ActionOf(p)
        BY <2>3 DEF OrgAsks
    <2>5. p \in {"none", "quarantine", "reject"}
        BY <2>2, RecordLemma
    <2>6. PolicyOf(found, sampled) \in {p, IF p = "reject" THEN "quarantine" ELSE "none"}
        <3>1. (IF found.org /\ found.rec.sp # "" THEN found.rec.sp ELSE found.rec.p) = p
            BY <2>2
        <3> HIDE DEF p, top, found
        <3> QED
            BY <3>1 DEF PolicyOf
    <2> HIDE DEF p, top, found, a
    <2>7. a <= ActionOf(p)
        <3>1. ActionOf("reject") = 2 /\ ActionOf("quarantine") = 1 /\ ActionOf("none") = 0
            BY DEF ActionOf, Accept, Quarantine, Reject
        <3>2. a \in {ActionOf(p), ActionOf(IF p = "reject" THEN "quarantine" ELSE "none")}
            BY <2>1, <2>6
        <3>3. CASE p = "reject"
            BY <3>1, <3>2, <3>3
        <3>4. CASE p = "quarantine"
            BY <3>1, <3>2, <3>4
        <3>5. CASE p = "none"
            BY <3>1, <3>2, <3>5
        <3> QED
            BY <2>5, <3>3, <3>4, <3>5
    <2> QED
        BY <2>2, <2>4, <2>7
<1> HIDE DEF a
<1>5. PolicyOn(m, a)
    BY <1>4, <1>6 DEF PolicyOn
<1> QED
    BY <1>3, <1>5 DEF a

\* SPF, DKIM and DMARC.
LEMMA AuthenticateStep ==
    ASSUME SessionsInv, NEW s \in Sessions, NEW sampled \in BOOLEAN, Authenticate(s, sampled)
    PROVE  SessionsInv'
<1> DEFINE w == sess[s]
           a == IF cfg.mailauth THEN CheckAuth(w.mail, cfg.enforce, sampled) ELSE Accept
           st == IF a = Reject THEN "done" ELSE "dnsbl"
           v == [w EXCEPT !.action = a, !.dmarc = a, !.stage = st]
<1>1. Good(w) /\ now' = now /\ cfg' = cfg /\ w.stage = "auth"
    BY DEF SessionsInv, Authenticate
<1>2. sess' = [sess EXCEPT ![s] = v]
    BY DEF Authenticate
<1> HIDE DEF w
<1>3. IsMail(w.mail)
    BY <1>1 DEF Good, Judged
<1>4. a \in {Accept, Quarantine, Reject} /\ PolicyOn(w.mail, a)
    <2>1. CASE cfg.mailauth
        BY <1>3, <2>1, CheckAuthLemma
    <2>2. CASE ~cfg.mailauth
        BY <2>2 DEF PolicyOn
    <2> QED
        BY <2>1, <2>2
<1>5. st \in {"done", "dnsbl"}
    OBVIOUS
<1>6. ~w.asking
    BY <1>1 DEF Good, Asking, NameOf
<1> HIDE DEF a, st
<1>7. /\ IsWork(v) /\ v.asking = w.asking /\ v.since = w.since /\ v.stage = st
      /\ v.mail = w.mail /\ v.action = a /\ v.age = w.age /\ v.dmarc = a
    BY <1>1 DEF Good, IsWork, Fields
<1> HIDE DEF v
<1>8. Judged(v)
    BY <1>3, <1>4, <1>7 DEF Judged
<1>9. Good(v)
    BY <1>1, <1>4, <1>5, <1>6, <1>7, <1>8 DEF Good, Asking, Stages
<1> QED
    BY <1>1, <1>2, <1>9, SessionStep

\* A session that is free is good, and so is one a message has just come to.
LEMMA FreeLemma ==
    /\ Good(Free)
    /\ \A m : IsMail(m) => Good([Free EXCEPT !.stage = "auth", !.mail = m])
<1>1. TTL \in Nat /\ LookupTime \in Nat
    BY ScreenAssumption
<1>2. /\ IsWork(Free) /\ Free.stage = "idle" /\ Free.action = Accept /\ Free.asking = FALSE
      /\ Free.since = 0 /\ Free.age = 0
    BY DEF Free, IsWork, Fields
<1>3. Good(Free)
    <2>1. Asking(Free) /\ Free.asking \in BOOLEAN
        BY <1>2 DEF Asking
    <2>2. Judged(Free)
        BY <1>2 DEF Judged
    <2>3. Free.since \in Nat /\ Free.age \in Nat /\ Free.age <= TTL + LookupTime
        BY <1>1, <1>2
    <2>4. Free.stage \in Stages /\ Free.action \in {Accept, Quarantine, Reject}
        BY <1>2 DEF Stages
    <2> QED
        BY <1>2, <2>1, <2>2, <2>3, <2>4 DEF Good
<1>4. ASSUME NEW m, IsMail(m)
      PROVE  Good([Free EXCEPT !.stage = "auth", !.mail = m])
    <2> DEFINE v == [Free EXCEPT !.stage = "auth", !.mail = m]
    <2>1. /\ IsWork(v) /\ v.stage = "auth" /\ v.mail = m /\ v.action = Accept /\ v.asking = FALSE
          /\ v.since = 0 /\ v.age = 0
        BY <1>2 DEF IsWork, Fields
    <2> HIDE DEF v
    <2>2. Good(v)
        <3>1. Asking(v) /\ v.asking \in BOOLEAN
            BY <2>1 DEF Asking
        <3>2. Judged(v)
            BY <1>4, <2>1 DEF Judged
        <3>3. v.since \in Nat /\ v.age \in Nat /\ v.age <= TTL + LookupTime
            BY <1>1, <2>1
        <3>4. v.stage \in Stages /\ v.action \in {Accept, Quarantine, Reject}
            BY <2>1 DEF Stages
        <3> QED
            BY <2>1, <3>1, <3>2, <3>3, <3>4 DEF Good
    <2> QED
        BY <2>2 DEF v
<1> QED
    BY <1>3, <1>4

\* A message is let in, or turned away.
LEMMA AdmitStep ==
    ASSUME SessionsInv, NEW s \in Sessions, NEW k, NEW ok \in BOOLEAN, Admit(s, k, ok)
    PROVE  SessionsInv'
<1>1. sess[s] = Free /\ now' = now /\ cfg' = cfg
    BY DEF Admit
<1>2. CASE ok
    <2>1. PICK m \in Mails(k) : sess' = [sess EXCEPT ![s].stage = "auth", ![s].mail = m]
        BY <1>2 DEF Admit
    <2>2. IsMail(m)
        BY MailsLemma
    <2> DEFINE v == [Free EXCEPT !.stage = "auth", !.mail = m]
    <2>3. sess' = [sess EXCEPT ![s] = v]
        BY <1>1, <2>1
    <2>4. Good(v)
        BY <2>2, FreeLemma
    <2> HIDE DEF v
    <2> QED
        BY <1>1, <2>3, <2>4, SessionStep
<1>3. CASE ~ok
    <2>1. sess' = sess
        BY <1>3 DEF Admit
    <2> QED
        BY <1>1, <2>1 DEF SessionsInv, Good, IsWork, Asking, Judged, NameOf, PolicyOn
<1> QED
    BY <1>2, <1>3

\* DATA is answered.
LEMMA LeaveStep ==
    ASSUME SessionsInv, NEW s \in Sessions, Leave(s)
    PROVE  SessionsInv'
<1>1. sess' = [sess EXCEPT ![s] = Free] /\ now' = now /\ cfg' = cfg
    BY DEF Leave
<1> QED
    BY <1>1, FreeLemma, SessionStep

\* The heuristics.
LEMMA AnalyzeStep ==
    ASSUME SessionsInv, NEW s \in Sessions, Analyze(s)
    PROVE  SessionsInv'
<1> DEFINE w == sess[s]
           c == Total(w.mail)
           u == UrisOf(w.mail)
           v == IF ~cfg.antispam THEN [w EXCEPT !.stage = "done"]
                ELSE [w EXCEPT !.stage = "uribl", !.score = c, !.todo = u]
<1>1. Good(w) /\ now' = now /\ cfg' = cfg /\ w.stage = "analyze"
    BY DEF SessionsInv, Analyze
<1>2. sess' = [sess EXCEPT ![s] = v]
    BY DEF Analyze
<1> HIDE DEF w, c, u
<1>3. ~w.asking
    BY <1>1 DEF Good, Asking, NameOf
<1>4. /\ IsWork(v) /\ v.asking = w.asking /\ v.since = w.since /\ v.stage \in {"done", "uribl"}
      /\ v.mail = w.mail /\ v.action = w.action /\ v.age = w.age /\ v.dmarc = w.dmarc
    <2>1. CASE cfg.antispam
        BY <1>1, <2>1 DEF Good, IsWork, Fields
    <2>2. CASE ~cfg.antispam
        BY <1>1, <2>2 DEF Good, IsWork, Fields
    <2> QED
        BY <2>1, <2>2
<1> HIDE DEF v
<1>5. Judged(v)
    BY <1>1, <1>4 DEF Judged, Good
<1>6. Good(v)
    BY <1>1, <1>3, <1>4, <1>5 DEF Good, Asking, Stages
<1> QED
    BY <1>1, <1>2, <1>6, SessionStep

\* The verdict.
LEMMA DecideStep ==
    ASSUME SessionsInv, NEW s \in Sessions, NEW scanned \in BOOLEAN, Decide(s, scanned)
    PROVE  SessionsInv'
<1> DEFINE w == sess[s]
<1>1. Good(w) /\ now' = now /\ cfg' = cfg /\ w.stage = "decide"
    BY DEF SessionsInv, Decide
<1> DEFINE virus == scanned /\ w.mail.infected
           Score(p) == IF virus THEN 100 ELSE Clamp(w.score + BayesPoints(p))
           After(p) == [sess EXCEPT ![s].stage = "done", ![s].bayes = p, ![s].scanned = scanned,
                                    ![s].tagged = Score(p) >= TagScore,
                                    ![s].action = Verdict(w, Score(p), virus)]
           probs == BayesScores(corpus, w.mail.words)
           Odds == IF probs = {} THEN {50} ELSE probs
<1>2. PICK p : sess' = After(p)
    <2>1. \E p \in Odds : sess' = After(p)
        BY DEF Decide
    <2> HIDE DEF Odds, After
    <2> QED
        BY <2>1
<1> DEFINE c == Score(p)
           a == Verdict(w, c, virus)
           g == c >= TagScore
           v == [w EXCEPT !.stage = "done", !.bayes = p, !.scanned = scanned,
                          !.tagged = g, !.action = a]
<1>3. a \in {Accept, Quarantine, Reject}
    BY <1>1 DEF Verdict, Good
<1>4. sess' = [sess EXCEPT ![s] = v]
    BY <1>2
<1> HIDE DEF w, a, g, c, Score
<1>5. ~w.asking
    BY <1>1 DEF Good, Asking, NameOf
<1>6. /\ IsWork(v) /\ v.asking = w.asking /\ v.since = w.since /\ v.stage = "done"
      /\ v.mail = w.mail /\ v.action = a /\ v.age = w.age /\ v.dmarc = w.dmarc
    BY <1>1 DEF Good, IsWork, Fields
<1> HIDE DEF v
<1>7. Judged(v)
    BY <1>1, <1>6 DEF Judged, Good
<1>8. Good(v)
    BY <1>1, <1>3, <1>5, <1>6, <1>7 DEF Good, Asking, Stages
<1> QED
    BY <1>1, <1>4, <1>8, SessionStep

-----------------------------------------------------------------------------
(***************************************************************************)
(* The inductive invariant and the theorems                                *)
(***************************************************************************)
ScreenInv == RateInv /\ ClockInv /\ CacheInv /\ SessionsInv

\* The invariant holds at the start.
LEMMA ScreenInvInit == Init => ScreenInv
<1> SUFFICES ASSUME Init PROVE ScreenInv
    OBVIOUS
<1>1. /\ Full \in Nat /\ Window \in Nat /\ Window > 0 /\ Limit \in Nat
      /\ MaxTime \in Nat /\ CacheLimit \in Nat
    BY FullLemma, ScreenAssumption
<1>2. now = 0 /\ now \in Nat
    BY DEF Init
<1>3. buckets = [k \in {} |-> 0] /\ ideal = [k \in Keys |-> Fresh]
      /\ granted = [k \in Keys |-> [t \in 0..Window |-> 0]]
    BY DEF Init, RateInit
<1>4. Fresh \in Bucket /\ Fresh.tokens = Full /\ Fresh.last = now /\ Filled(Fresh) = Full
      /\ Worth(Fresh) = Full
    BY <1>1, <1>2, JustFilled DEF Fresh
<1>5. BucketInv
    <2>1. DOMAIN buckets = {} /\ buckets = [k \in DOMAIN buckets |-> buckets[k]]
        BY <1>3
    <2>2. ideal \in [Keys -> Bucket] /\ \A k \in Keys : ideal[k] = Fresh
        BY <1>3, <1>4
    <2> QED
        BY <1>1, <1>2, <1>4, <2>1, <2>2 DEF BucketInv
<1>6. GrantInv
    <2>1. granted \in [Keys -> [0..Window -> Nat]]
        BY <1>3
    <2>2. ASSUME NEW k \in Keys, NEW t \in 0..Window
          PROVE  Window * granted[k][t] + Worth(ideal[k]) <= Full + t * Limit
        <3>1. granted[k][t] = 0 /\ Worth(ideal[k]) = Full
            BY <1>3, <1>4
        <3>2. t * Limit \in Nat /\ Window * 0 = 0
            BY <1>1
        <3> QED
            BY <1>1, <3>1, <3>2
    <2> QED
        BY <2>1, <2>2 DEF GrantInv
<1>7. ClockInv
    BY <1>1, <1>2 DEF ClockInv
<1>8. CacheInv
    <2>1. cache = [n \in {} |-> 0]
        BY DEF Init
    <2>2. DOMAIN cache = {}
        BY <2>1
    <2>3. IsFiniteSet({}) /\ Cardinality({}) = 0
        BY FS_EmptySet
    <2> QED
        BY <1>1, <2>2, <2>3 DEF CacheInv
<1>9. SessionsInv
    <2>1. sess = [s \in Sessions |-> Free]
        BY DEF Init
    <2> QED
        BY <2>1, FreeLemma DEF SessionsInv
<1> QED
    BY <1>5, <1>6, <1>7, <1>8, <1>9 DEF ScreenInv, RateInv

\* What a step that leaves a variable alone leaves of the invariant.
LEMMA RateUnchanged ==
    ASSUME RateInv, UNCHANGED <<now, rateVars>>
    PROVE  RateInv'
<1>1. now' = now /\ buckets' = buckets /\ ideal' = ideal /\ granted' = granted
    BY DEF rateVars
<1>2. BucketInv'
    BY <1>1 DEF RateInv, BucketInv, Filled, Full
<1>3. GrantInv'
    BY <1>1 DEF RateInv, GrantInv, Worth, Filled, Full
<1> QED
    BY <1>2, <1>3 DEF RateInv

\* No query ends and no time passes.
LEMMA CacheUnchanged ==
    ASSUME ClockInv, CacheInv, cache' = cache, now' = now
    PROVE  ClockInv' /\ CacheInv'
BY DEF CacheInv, ClockInv

\* Time passes.
LEMMA ClockStep ==
    ASSUME ScreenInv, Tick
    PROVE  ScreenInv'
<1>1. /\ now' = now + 1 /\ now < MaxTime /\ RateTick /\ UNCHANGED <<cfg, cache, sess>>
      /\ \A s \in Sessions : sess[s].asking => now < sess[s].since + LookupTime
    BY DEF Tick
<1>2. now \in Nat /\ MaxTime \in Nat /\ LookupTime \in Nat /\ CacheLimit \in Nat
    BY ScreenAssumption DEF ScreenInv, ClockInv
<1>3. RateInv'
    BY <1>1, TickStep DEF ScreenInv
<1>4. ClockInv'
    BY <1>1, <1>2 DEF ClockInv
<1>5. CacheInv'
    <2>1. \A n \in DOMAIN cache : cache[n].asof \in Nat /\ cache[n].asof <= now'
        BY <1>1, <1>2 DEF ScreenInv, CacheInv, Cached
    <2> QED
        BY <1>1, <2>1 DEF ScreenInv, CacheInv
<1>6. SessionsInv'
    <2>1. ASSUME NEW s \in Sessions PROVE Good(sess[s])'
        <3>1. Good(sess[s])
            BY DEF ScreenInv, SessionsInv
        <3>2. Asking(sess[s])'
            <4>1. sess[s].since \in Nat /\ Asking(sess[s])
                BY <3>1 DEF Good
            <4>2. NameOf(sess[s])' = NameOf(sess[s])
                BY <1>1 DEF NameOf
            <4>3. CASE sess[s].asking
                BY <1>1, <1>2, <4>1, <4>2, <4>3 DEF Asking
            <4>4. CASE ~sess[s].asking
                BY <1>1, <4>4 DEF Asking
            <4> QED
                BY <4>3, <4>4
        <3>3. Judged(sess[s])'
            BY <1>1, <3>1 DEF Good, Judged, PolicyOn
        <3> QED
            BY <1>1, <3>1, <3>2, <3>3 DEF Good, IsWork
    <2> QED
        BY <1>1, <2>1 DEF ScreenInv, SessionsInv
<1> QED
    BY <1>3, <1>4, <1>5, <1>6 DEF ScreenInv

\* Every step keeps the invariant.
LEMMA ScreenInvStep == ScreenInv /\ [Next]_vars => ScreenInv'
<1> SUFFICES ASSUME ScreenInv, [Next]_vars PROVE ScreenInv'
    OBVIOUS
<1>1. RateInv /\ ClockInv /\ CacheInv /\ SessionsInv /\ now \in Nat
    BY DEF ScreenInv, ClockInv
<1>2. ASSUME NEW s \in Sessions, NEW k \in Keys, NEW ok \in BOOLEAN, Admit(s, k, ok)
      PROVE  ScreenInv'
    <2>1. now' = now /\ cache' = cache
        BY <1>2 DEF Admit
    <2>2. RateInv'
        <3>1. CASE cfg.ratelimit
            <4>1. Allow(k, ok)
                BY <1>2, <3>1 DEF Admit
            <4> QED
                BY <1>1, <2>1, <4>1, AllowStep
        <3>2. CASE ~cfg.ratelimit
            <4>1. UNCHANGED rateVars
                BY <1>2, <3>2 DEF Admit
            <4> QED
                BY <1>1, <2>1, <4>1, RateUnchanged
        <3> QED
            BY <3>1, <3>2
    <2>3. SessionsInv'
        BY <1>1, <1>2, AdmitStep
    <2> QED
        BY <1>1, <2>1, <2>2, <2>3, CacheUnchanged DEF ScreenInv
<1>3. ASSUME UNCHANGED <<now, rateVars, cache>>, SessionsInv'
      PROVE  ScreenInv'
    BY <1>1, <1>3, RateUnchanged, CacheUnchanged DEF ScreenInv
<1>4. ASSUME NEW s \in Sessions, NEW sampled \in BOOLEAN, Authenticate(s, sampled)
      PROVE  ScreenInv'
    <2>1. UNCHANGED <<now, rateVars, cache>>
        BY <1>4 DEF Authenticate
    <2> QED
        BY <1>1, <1>3, <1>4, <2>1, AuthenticateStep
<1>5. ASSUME NEW s \in Sessions, AnswerAtOnce(s)
      PROVE  ScreenInv'
    <2>1. UNCHANGED <<now, rateVars, cache>>
        BY <1>5 DEF AnswerAtOnce
    <2> QED
        BY <1>1, <1>3, <1>5, <2>1, AnswerAtOnceStep
<1>6. ASSUME NEW s \in Sessions, Ask(s)
      PROVE  ScreenInv'
    <2>1. UNCHANGED <<now, rateVars, cache>>
        BY <1>6 DEF Ask
    <2> QED
        BY <1>1, <1>3, <1>6, <2>1, AskStep
<1>7. ASSUME NEW s \in Sessions, Analyze(s)
      PROVE  ScreenInv'
    <2>1. UNCHANGED <<now, rateVars, cache>>
        BY <1>7 DEF Analyze
    <2> QED
        BY <1>1, <1>3, <1>7, <2>1, AnalyzeStep
<1>8. ASSUME NEW s \in Sessions, Leave(s)
      PROVE  ScreenInv'
    <2>1. UNCHANGED <<now, rateVars, cache>>
        BY <1>8 DEF Leave
    <2> QED
        BY <1>1, <1>3, <1>8, <2>1, LeaveStep
<1>9. ASSUME NEW s \in Sessions, NEW listed \in BOOLEAN, Store(s, listed)
      PROVE  ScreenInv'
    <2>1. UNCHANGED <<now, rateVars>>
        BY <1>9 DEF Store
    <2>2. SessionsInv' /\ CacheInv'
        BY <1>1, <1>9, StoreStep
    <2>3. ClockInv'
        BY <1>1, <2>1 DEF ClockInv
    <2>4. RateInv'
        BY <1>1, <2>1, RateUnchanged
    <2> QED
        BY <2>2, <2>3, <2>4 DEF ScreenInv
<1>10. ASSUME NEW s \in Sessions, NEW scanned \in BOOLEAN, Decide(s, scanned)
      PROVE  ScreenInv'
    <2>1. UNCHANGED <<now, rateVars, cache>>
        BY <1>10 DEF Decide
    <2> QED
        BY <1>1, <1>3, <1>10, <2>1, DecideStep
<1>11. CASE Tick
    BY <1>11, ClockStep
<1>12. CASE UNCHANGED vars
    <2>1. UNCHANGED <<now, rateVars, cache, cfg, sess>>
        BY <1>12 DEF vars
    <2>2. SessionsInv'
        BY <1>1, <2>1 DEF SessionsInv, Good, IsWork, Asking, Judged, NameOf, PolicyOn
    <2> QED
        BY <1>3, <2>1, <2>2
<1> QED
    BY <1>2, <1>4, <1>5, <1>6, <1>7, <1>8, <1>9, <1>10, <1>11, <1>12 DEF Next

\* The inductive invariant holds of every behaviour of Spec.
LEMMA ScreenInvAlways == Spec => []ScreenInv
<1> QED
    BY ScreenInvInit, ScreenInvStep, PTL DEF Spec

\* The shape of the state: tokens stay between none and a full bucket, the
\* cache is at most one entry over its limit, and a query under way has a name
\* to ask about (Limiter.Allow, Checker.store, Screen).
THEOREM TypeCorrect == Spec => []TypeOK
<1>1. ScreenInv => TypeOK
    <2> SUFFICES ASSUME ScreenInv PROVE TypeOK
        OBVIOUS
    <2>1. /\ MaxTime \in Nat /\ TTL \in Nat /\ CacheLimit \in Nat /\ Full \in Nat
          /\ now \in Nat /\ now <= MaxTime
        BY ScreenAssumption, FullLemma DEF ScreenInv, ClockInv
    <2>2. RateTypeOK
        <3>1. DOMAIN buckets \subseteq Keys
            BY DEF ScreenInv, RateInv, BucketInv
        <3>2. ASSUME NEW k \in DOMAIN buckets
              PROVE  buckets[k].tokens \in 0..Full /\ buckets[k].last \in 0..now
            <4>1. k \in Keys /\ buckets[k] = ideal[k] /\ ideal[k] \in Bucket
                  /\ ideal[k].tokens <= Full /\ ideal[k].last <= now
                BY <3>1 DEF ScreenInv, RateInv, BucketInv
            <4> QED
                BY <2>1, <4>1 DEF Bucket
        <3> QED
            BY <3>1, <3>2 DEF RateTypeOK
    <2>3. \A n \in DOMAIN cache : cache[n].asof \in 0..now
                                  /\ cache[n].expires \in 0..(MaxTime + TTL)
        BY <2>1 DEF ScreenInv, CacheInv, Cached
    <2>4. \A s \in Sessions : sess[s].action \in {Accept, Quarantine, Reject}
                              /\ (sess[s].asking => NameOf(sess[s]) # NoName)
        BY DEF ScreenInv, SessionsInv, Good, Asking
    <2>5. Cardinality(DOMAIN cache) <= CacheLimit + 1
        BY DEF ScreenInv, CacheInv
    <2> QED
        BY <2>1, <2>2, <2>3, <2>4, <2>5 DEF TypeOK
<1> QED
    BY <1>1, ScreenInvAlways, PTL

\* No key is granted more than twice its limit within a window, however events
\* and pauses alternate and whatever prune forgets (Limiter.Allow).
THEOREM RateBoundAlways == Spec => []RateBound
<1>1. ScreenInv => RateBound
    <2> SUFFICES ASSUME ScreenInv, NEW k \in Keys PROVE granted[k][Window] <= 2 * Limit
        BY DEF RateBound
    <2>1. Window \in Nat /\ Window > 0 /\ Limit \in Nat /\ Window \in 0..Window /\ now \in Nat
        BY FullLemma DEF ScreenInv, ClockInv
    <2>2. granted[k][Window] \in Nat
        BY <2>1 DEF ScreenInv, RateInv, GrantInv
    <2>3. Window * granted[k][Window] + Worth(ideal[k]) <= Full + Window * Limit
        BY <2>1 DEF ScreenInv, RateInv, GrantInv
    <2>4. Worth(ideal[k]) \in Nat
        <3>1. ideal[k] \in Bucket /\ ideal[k].tokens <= Full /\ ideal[k].last <= now
            BY DEF ScreenInv, RateInv, BucketInv
        <3> QED
            BY <2>1, <3>1, FilledLemma
    <2>5. Full = Window * Limit
        BY <2>1 DEF Full
    <2>6. \A g, w, l \in Nat : w > 0 /\ w * g <= w * l + w * l => g <= 2 * l
        <3> TAKE g \in Nat, w \in Nat, l \in Nat
        <3> HAVE w > 0 /\ w * g <= w * l + w * l
        <3>1. CASE g > 2 * l
            <4>1. w * g >= w * (2 * l + 1)
                BY <3>1
            <4>2. w * (2 * l + 1) = w * l + w * l + w
                OBVIOUS
            <4>3. w * g \in Nat /\ w * l \in Nat
                OBVIOUS
            <4> QED
                BY <4>1, <4>2, <4>3
        <3> QED
            BY <3>1
    <2>7. Window * granted[k][Window] <= Window * Limit + Window * Limit
        <3>1. Window * granted[k][Window] \in Nat /\ Window * Limit \in Nat
            BY <2>1, <2>2
        <3> QED
            BY <2>3, <2>4, <2>5, <3>1
    <2> QED
        BY <2>1, <2>2, <2>6, <2>7
<1> QED
    BY <1>1, ScreenInvAlways, PTL

\* A key whose bucket prune forgot is worth what it would be worth had the
\* bucket been kept (Limiter.prune).
THEOREM PruningInvisibleAlways == Spec => []PruningInvisible
<1>1. ScreenInv => PruningInvisible
    <2> SUFFICES ASSUME ScreenInv, NEW k \in Keys
                 PROVE  Min({Full, IF k \in DOMAIN buckets THEN Filled(buckets[k]) ELSE Full})
                        = Min({Full, Filled(ideal[k])})
        BY DEF PruningInvisible
    <2>1. Full \in Int
        BY FullLemma
    <2>2. CASE k \in DOMAIN buckets
        BY <2>2 DEF ScreenInv, RateInv, BucketInv
    <2>3. CASE k \notin DOMAIN buckets
        <3>1. Filled(ideal[k]) >= Full /\ Filled(ideal[k]) \in Int
            <4>1. ideal[k] \in Bucket /\ ideal[k].tokens <= Full /\ ideal[k].last <= now
                  /\ now \in Nat /\ Filled(ideal[k]) >= Full
                BY <2>3 DEF ScreenInv, RateInv, BucketInv
            <4>2. Filled(ideal[k]) \in Nat
                BY <4>1, FilledLemma
            <4> QED
                BY <4>1, <4>2
        <3>2. Min({Full, Filled(ideal[k])}) = Full
            BY <2>1, <3>1, MinOfTwo
        <3>3. Min({Full, Full}) = Full
            BY <2>1, MinOfTwo
        <3> QED
            BY <2>3, <3>2, <3>3
    <2> QED
        BY <2>2, <2>3
<1> QED
    BY <1>1, ScreenInvAlways, PTL

\* An answer a session acts on is no older than TTL and one query, also when a
\* slow query of another session overwrote a newer entry (Checker.lookup).
THEOREM AnswersFreshAlways == Spec => []AnswersFresh
<1>1. ScreenInv => AnswersFresh
    BY DEF ScreenInv, SessionsInv, Good, AnswersFresh
<1> QED
    BY <1>1, ScreenInvAlways, PTL

\* DMARC does what the owner of the From domain published, for every record,
\* alignment mode, identifier and sample, and no later step of the screening
\* changes what it found (Checker.Check, evaluateDMARC, Screen).  A failed query
\* means Accept, but for that about a subdomain whose organization's record is
\* found: then no more than the organization asks for.
THEOREM PolicyAsPublishedAlways == Spec => []PolicyAsPublished
<1>1. ScreenInv => PolicyAsPublished
    <2> SUFFICES ASSUME ScreenInv, NEW s \in Sessions,
                        sess[s].stage \notin {"idle", "auth"},
                        sess[s].mail.from # "", cfg.mailauth, cfg.enforce
                 PROVE  PolicyOn(sess[s].mail, sess[s].dmarc)
        BY Zenon DEF PolicyAsPublished, PolicyOn
    <2> QED
        BY DEF ScreenInv, SessionsInv, Good, Judged
<1> QED
    BY <1>1, ScreenInvAlways, PTL

-----------------------------------------------------------------------------
(***************************************************************************)
(* Folds over finite sets.  The library defines a fold by a recursive      *)
(* function on the subsets of the set, which is a CHOOSE: that there is    *)
(* such a function, and what its values are, goes by the cardinality.      *)
(***************************************************************************)
\* Every nonempty set of numbers has a least one: induction, for the provers.
LEMMA LeastNumber ==
    ASSUME NEW T, T \subseteq Nat, T # {}
    PROVE  \E x \in T : \A y \in T : ~(y < x)
<1>1. \E x \in T : \A y \in T : ~(<<y, x>> \in OpToRel(<, Nat))
    BY NatLessThanWellFounded, WFMin
<1> QED
    BY <1>1 DEF OpToRel

\* The element a fold takes from a set.
Pick(s) == CHOOSE x \in s : TRUE

\* A set loses one element when Pick is taken from it.
LEMMA PickLemma ==
    ASSUME NEW S, IsFiniteSet(S), NEW s \in SUBSET S, s # {}
    PROVE  /\ Pick(s) \in s /\ s \ {Pick(s)} \in SUBSET S
           /\ Cardinality(s) \in Nat /\ Cardinality(s \ {Pick(s)}) = Cardinality(s) - 1
           /\ Cardinality(s) > 0 /\ Cardinality(s \ {Pick(s)}) \in Nat
<1>1. Pick(s) \in s
    BY DEF Pick
<1>2. IsFiniteSet(s)
    BY FS_Subset
<1>3. Cardinality(s \ {Pick(s)}) = Cardinality(s) - 1 /\ IsFiniteSet(s \ {Pick(s)})
    BY <1>1, <1>2, FS_RemoveElement
<1>4. Cardinality(s) \in Nat /\ Cardinality(s \ {Pick(s)}) \in Nat
    BY <1>2, <1>3, FS_CardinalityType
<1>5. Cardinality(s) > 0
    BY <1>3, <1>4
<1> QED
    BY <1>1, <1>3, <1>4, <1>5

\* Induction along a fold: what holds of the empty set, and of a set when it
\* holds of that set without the element picked, holds of all subsets.
LEMMA SubsetInduction ==
    ASSUME NEW S, IsFiniteSet(S), NEW P, {} \in P,
           \A s \in SUBSET S : s # {} /\ s \ {Pick(s)} \in P => s \in P
    PROVE  \A s \in SUBSET S : s \in P
<1> SUFFICES ASSUME NEW z \in SUBSET S, z \notin P PROVE FALSE
    OBVIOUS
<1> DEFINE N == {Cardinality(s) : s \in {s \in SUBSET S : s \notin P}}
<1>1. N \subseteq Nat
    <2>1. \A s \in SUBSET S : Cardinality(s) \in Nat
        BY FS_Subset, FS_CardinalityType
    <2> QED
        BY <2>1
<1>2. N # {}
    OBVIOUS
<1>3. PICK n \in N : \A k \in N : ~(k < n)
    <2> HIDE DEF N
    <2> QED
        BY <1>1, <1>2, LeastNumber
<1>4. PICK s \in SUBSET S : s \notin P /\ n = Cardinality(s)
    BY <1>3
<1>5. s # {}
    BY <1>4
<1>6. s \ {Pick(s)} \notin P
    BY <1>4, <1>5
<1>7. Cardinality(s \ {Pick(s)}) \in N
    BY <1>5, <1>6, PickLemma
<1>8. Cardinality(s \ {Pick(s)}) < n
    BY <1>4, <1>5, PickLemma
<1> QED
    BY <1>3, <1>7, <1>8

\* f gives every subset what is folded from b by the steps of G.
Folds(f, S, V, b, G) ==
    /\ f \in [SUBSET S -> V] /\ f[{}] = b
    /\ \A s \in SUBSET S : s # {} => f[s] = G[Pick(s)][f[s \ {Pick(s)}]]

\* A fold over a finite set is defined: it is built up by cardinality.
LEMMA FoldExists ==
    ASSUME NEW S, IsFiniteSet(S), NEW V, NEW b \in V, NEW G \in [S -> [V -> V]]
    PROVE  \E f : Folds(f, S, V, b, G)
<1> DEFINE C == [s \in SUBSET S |-> Cardinality(s)]
           E == [SUBSET S -> V]
           Right(f, s) == f[s] = IF s = {} THEN b ELSE G[Pick(s)][f[s \ {Pick(s)}]]
           M == {n \in Nat : \A f \in E : \E s \in SUBSET S : C[s] <= n /\ ~Right(f, s)}
<1>1. \A s \in SUBSET S : C[s] \in Nat /\ C[s] <= Cardinality(S)
    BY FS_Subset, FS_CardinalityType
<1>2. \A s \in SUBSET S : s # {} => /\ Pick(s) \in S /\ s \ {Pick(s)} \in SUBSET S
                                   /\ C[s \ {Pick(s)}] = C[s] - 1
    BY PickLemma
<1>3. \A s \in SUBSET S : s # {} => C[s] > 0
    BY PickLemma
<1>4. Cardinality(S) \in Nat
    BY FS_CardinalityType
<1> HIDE DEF C
<1>5. M = {}
    <2> SUFFICES ASSUME M # {} PROVE FALSE
        OBVIOUS
    <2>1. PICK n \in M : \A k \in M : ~(k < n)
        <3>1. M \subseteq Nat
            OBVIOUS
        <3> HIDE DEF M
        <3> QED
            BY <3>1, LeastNumber
    <2>2. n \in Nat
        BY <2>1
    <2>3. PICK f \in E : \A s \in SUBSET S : C[s] < n => Right(f, s)
        <3>1. CASE n = 0
            <4>1. [s \in SUBSET S |-> b] \in E
                OBVIOUS
            <4>2. \A s \in SUBSET S : ~(C[s] < n)
                BY <1>1, <3>1
            <4> QED
                BY <4>1, <4>2
        <3>2. CASE n # 0
            <4>1. n - 1 \in Nat /\ n - 1 < n
                BY <2>2, <3>2
            <4>2. n - 1 \notin M
                BY <2>1, <4>1
            <4>3. PICK f \in E : \A s \in SUBSET S : C[s] <= n - 1 => Right(f, s)
                BY <4>1, <4>2
            <4>4. \A s \in SUBSET S : C[s] < n => C[s] <= n - 1
                BY <1>1, <2>2
            <4> QED
                BY <4>3, <4>4
        <3> QED
            BY <3>1, <3>2
    <2> DEFINE g == [s \in SUBSET S |-> IF C[s] = n
                                        THEN IF s = {} THEN b ELSE G[Pick(s)][f[s \ {Pick(s)}]]
                                        ELSE f[s]]
    <2>4. ASSUME NEW s \in SUBSET S
          PROVE  (IF s = {} THEN b ELSE G[Pick(s)][f[s \ {Pick(s)}]]) \in V
        <3>1. CASE s # {}
            <4>1. PICK t : t = s \ {Pick(s)}
                OBVIOUS
            <4>2. Pick(s) \in S /\ t \in SUBSET S
                BY <1>2, <3>1, <4>1
            <4>3. f[t] \in V
                BY <2>3, <4>2
            <4>4. G[Pick(s)][f[t]] \in V
                BY <4>2, <4>3
            <4> QED
                BY <3>1, <4>1, <4>4
        <3> QED
            BY <3>1
    <2>5. g \in E
        BY <2>4
    <2>6. \A s \in SUBSET S : C[s] < n => g[s] = f[s]
        BY <1>1, <2>2
    <2>7. \A s \in SUBSET S : C[s] = n =>
             g[s] = IF s = {} THEN b ELSE G[Pick(s)][f[s \ {Pick(s)}]]
        OBVIOUS
    <2> HIDE DEF g
    <2>8. ASSUME NEW s \in SUBSET S, C[s] <= n PROVE Right(g, s)
        <3>1. s # {} => C[s \ {Pick(s)}] < n /\ g[s \ {Pick(s)}] = f[s \ {Pick(s)}]
            <4> SUFFICES ASSUME s # {}
                         PROVE  C[s \ {Pick(s)}] < n /\ g[s \ {Pick(s)}] = f[s \ {Pick(s)}]
                OBVIOUS
            <4>1. PICK t : t = s \ {Pick(s)}
                OBVIOUS
            <4>2. t \in SUBSET S /\ C[t] = C[s] - 1
                BY <1>2, <4>1
            <4>3. C[t] < n
                BY <1>1, <2>2, <2>8, <4>2
            <4>4. g[t] = f[t]
                BY <2>6, <4>2, <4>3
            <4> QED
                BY <4>1, <4>3, <4>4
        <3>2. CASE C[s] = n
            BY <2>7, <3>1, <3>2
        <3>3. CASE C[s] # n
            <4>1. C[s] < n
                BY <1>1, <2>2, <2>8, <3>3
            <4> QED
                BY <2>3, <2>6, <3>1, <4>1
        <3> QED
            BY <3>2, <3>3
    <2> QED
        BY <2>1, <2>5, <2>8
<1>6. Cardinality(S) \notin M
    BY <1>5
<1>7. PICK f \in E : \A s \in SUBSET S : C[s] <= Cardinality(S) => Right(f, s)
    BY <1>4, <1>6
<1>8. \A s \in SUBSET S : Right(f, s)
    BY <1>1, <1>7
<1>9. Folds(f, S, V, b, G)
    BY <1>8 DEF Folds
<1> QED
    BY <1>9

\* The sums and products of MailChecks, as the library's folds define them.
PointsUp(f, S) ==
    f = [s \in SUBSET S |-> IF s = {} THEN 0 ELSE Points[Pick(s)] + f[s \ {Pick(s)}]]

FilePoints(file) ==
    CASE file = "exe" -> Executable [] file = "pdf.exe" -> Executable + DoubleExtension [] OTHER -> 0

FilesUp(f, q, S) ==
    f = [s \in SUBSET S |-> IF s = {} THEN 0 ELSE FilePoints(q[Pick(s)]) + f[s \ {Pick(s)}]]

SpamUp(f, c, S) ==
    f = [s \in SUBSET S |->
            IF s = {} THEN 1 ELSE f[s \ {Pick(s)}] * TokenProb(c, Pick(s))]

HamUp(f, c, S) ==
    f = [s \in SUBSET S |->
            IF s = {} THEN 1 ELSE f[s \ {Pick(s)}] * (100 - TokenProb(c, Pick(s)))]

\* Total is two of them ...
LEMMA TotalMeans ==
    ASSUME NEW m
    PROVE  Total(m) = (CHOOSE f : PointsUp(f, RulesOf(m)))[RulesOf(m)]
                      + (CHOOSE f : FilesUp(f, FilesOf(m), DOMAIN FilesOf(m)))[DOMAIN FilesOf(m)]
BY DEF Total, MapThenSumSet, MapThenFoldSet, PointsUp, FilesUp, FilePoints, Pick

\* ... and the classifier's answer the two others.
LEMMA CombineMeans ==
    ASSUME NEW c, NEW S, NEW spam, spam = (CHOOSE f : SpamUp(f, c, S))[S],
           NEW ham, ham = (CHOOSE f : HamUp(f, c, S))[S]
    PROVE  Combine(c, S) = (spam * 100) \div (spam + ham)
BY DEF Combine, FoldSet, MapThenFoldSet, SpamUp, HamUp, Pick

\* What a fold of numbers gives: a number.
AddsUp(f, S, F) ==
    f = [s \in SUBSET S |-> IF s = {} THEN 0 ELSE F[Pick(s)] + f[s \ {Pick(s)}]]

\* A sum of numbers over a finite set exists, and is a number.
LEMMA SumLemma ==
    ASSUME NEW S, IsFiniteSet(S), NEW F \in [S -> Nat]
    PROVE  /\ \E f : AddsUp(f, S, F)
           /\ \A f : AddsUp(f, S, F) => f[S] \in Nat
<1>1. \E f : AddsUp(f, S, F)
    <2> DEFINE G == [x \in S |-> [v \in Nat |-> F[x] + v]]
    <2>1. G \in [S -> [Nat -> Nat]]
        OBVIOUS
    <2>2. \A x \in S : \A v \in Nat : G[x][v] = F[x] + v
        OBVIOUS
    <2> HIDE DEF G
    <2>3. PICK f : Folds(f, S, Nat, 0, G)
        BY <2>1, FoldExists
    <2>4. \A s \in SUBSET S : f[s] = IF s = {} THEN 0 ELSE F[Pick(s)] + f[s \ {Pick(s)}]
        <3> SUFFICES ASSUME NEW s \in SUBSET S, s # {} PROVE f[s] = F[Pick(s)] + f[s \ {Pick(s)}]
            BY <2>3 DEF Folds
        <3>1. PICK t : t = s \ {Pick(s)}
            OBVIOUS
        <3>2. Pick(s) \in S /\ t \in SUBSET S
            BY <3>1, PickLemma
        <3>3. f[t] \in Nat /\ f[s] = G[Pick(s)][f[t]]
            BY <2>3, <3>1, <3>2 DEF Folds
        <3> QED
            BY <2>2, <3>1, <3>2, <3>3
    <2>5. f = [s \in SUBSET S |-> f[s]]
        BY <2>3 DEF Folds
    <2>6. AddsUp(f, S, F)
        BY <2>4, <2>5 DEF AddsUp
    <2> QED
        BY <2>6
<1>2. ASSUME NEW f, AddsUp(f, S, F) PROVE f[S] \in Nat
    <2> DEFINE P == {s \in SUBSET S : f[s] \in Nat}
    <2>1. \A s \in SUBSET S : f[s] = IF s = {} THEN 0 ELSE F[Pick(s)] + f[s \ {Pick(s)}]
        BY <1>2 DEF AddsUp
    <2>2. {} \in P
        <3>1. {} \in SUBSET S
            OBVIOUS
        <3>2. f[{}] = 0
            BY <2>1, <3>1
        <3> QED
            BY <3>1, <3>2
    <2>3. ASSUME NEW s \in SUBSET S, s # {}, s \ {Pick(s)} \in P PROVE s \in P
        <3>1. PICK n : n = f[s \ {Pick(s)}]
            OBVIOUS
        <3>2. n \in Nat /\ Pick(s) \in S
            BY <2>3, <3>1, PickLemma
        <3>3. f[s] = F[Pick(s)] + n
            BY <2>1, <2>3, <3>1
        <3> QED
            BY <3>2, <3>3
    <2> HIDE DEF P
    <2>4. \A s \in SUBSET S : s \in P
        BY <2>2, <2>3, SubsetInduction
    <2> QED
        BY <2>4 DEF P
<1> QED
    BY <1>1, <1>2

\* The points of the files are numbers.
LEMMA FilePointsType == \A file : FilePoints(file) \in Nat
BY DEF FilePoints, Executable, DoubleExtension

\* The heuristics give a message a number of points.
LEMMA TotalType ==
    ASSUME NEW m, IsFiniteSet(RulesOf(m)), RulesOf(m) \subseteq DOMAIN Points,
           IsFiniteSet(DOMAIN FilesOf(m))
    PROVE  Total(m) \in Nat
<1>1. PICK R : R = RulesOf(m)
    OBVIOUS
<1>2. PICK q : q = FilesOf(m)
    OBVIOUS
<1>3. PICK D : D = DOMAIN q
    OBVIOUS
<1>4. IsFiniteSet(R) /\ R \subseteq DOMAIN Points /\ IsFiniteSet(D)
    BY <1>1, <1>2, <1>3
<1> DEFINE a == CHOOSE f : PointsUp(f, R)
           b == CHOOSE f : FilesUp(f, q, D)
<1>5. a[R] \in Nat
    <2> DEFINE F == [r \in R |-> Points[r]]
    <2>1. \A r \in DOMAIN Points : Points[r] \in Nat
        BY DEF Points
    <2>2. F \in [R -> Nat]
        BY <1>4, <2>1
    <2>3. ASSUME NEW s \in SUBSET R, s # {} PROVE F[Pick(s)] = Points[Pick(s)]
        BY <1>4, <2>3, PickLemma
    <2> HIDE DEF F
    <2>4. \A f : AddsUp(f, R, F) <=> PointsUp(f, R)
        BY <2>3 DEF AddsUp, PointsUp
    <2>5. \E f : PointsUp(f, R)
        BY <1>4, <2>2, <2>4, SumLemma
    <2>6. PointsUp(a, R)
        BY <2>5
    <2> HIDE DEF a
    <2> QED
        BY <1>4, <2>2, <2>4, <2>6, SumLemma
<1>6. b[D] \in Nat
    <2> DEFINE F == [i \in D |-> FilePoints(q[i])]
    <2>1. F \in [D -> Nat]
        BY FilePointsType
    <2>2. ASSUME NEW s \in SUBSET D, s # {} PROVE F[Pick(s)] = FilePoints(q[Pick(s)])
        BY <1>4, <2>2, PickLemma
    <2> HIDE DEF F
    <2>3. \A f : AddsUp(f, D, F) <=> FilesUp(f, q, D)
        BY <2>2 DEF AddsUp, FilesUp
    <2>4. \E f : FilesUp(f, q, D)
        BY <1>4, <2>1, <2>3, SumLemma
    <2>5. FilesUp(b, q, D)
        BY <2>4
    <2> HIDE DEF b
    <2> QED
        BY <1>4, <2>1, <2>3, <2>5, SumLemma
<1>7. Total(m) = a[R] + b[D]
    BY <1>1, <1>2, <1>3, TotalMeans
<1> HIDE DEF a, b
<1> QED
    BY <1>5, <1>6, <1>7

\* f is the product of k, once for every element of a subset.
TimesUp(f, S, k) ==
    f = [s \in SUBSET S |-> IF s = {} THEN 1 ELSE f[s \ {Pick(s)}] * k]

\* It exists for a finite set.
LEMMA ProductExists ==
    ASSUME NEW S, IsFiniteSet(S), NEW k \in Nat
    PROVE  \E f : TimesUp(f, S, k)
<1> DEFINE G == [x \in S |-> [v \in Nat |-> v * k]]
<1>1. G \in [S -> [Nat -> Nat]]
    OBVIOUS
<1>2. \A x \in S : \A v \in Nat : G[x][v] = v * k
    OBVIOUS
<1> HIDE DEF G
<1>3. PICK f : Folds(f, S, Nat, 1, G)
    BY <1>1, FoldExists
<1>4. \A s \in SUBSET S : f[s] = IF s = {} THEN 1 ELSE f[s \ {Pick(s)}] * k
    <2> SUFFICES ASSUME NEW s \in SUBSET S, s # {} PROVE f[s] = f[s \ {Pick(s)}] * k
        BY <1>3 DEF Folds
    <2>1. PICK t : t = s \ {Pick(s)}
        OBVIOUS
    <2>2. Pick(s) \in S /\ t \in SUBSET S
        BY <2>1, PickLemma
    <2>3. f[t] \in Nat /\ f[s] = G[Pick(s)][f[t]]
        BY <1>3, <2>1, <2>2 DEF Folds
    <2> QED
        BY <1>2, <2>1, <2>2, <2>3
<1>5. f = [s \in SUBSET S |-> f[s]]
    BY <1>3 DEF Folds
<1>6. TimesUp(f, S, k)
    BY <1>4, <1>5 DEF TimesUp
<1> QED
    BY <1>6

\* Spam less likely than not, word for word, is so altogether.
LEMMA ProductsCompare ==
    ASSUME NEW S, IsFiniteSet(S), NEW f, TimesUp(f, S, 40), NEW g, TimesUp(g, S, 60)
    PROVE  f[S] \in Nat /\ g[S] \in Nat /\ f[S] <= g[S] /\ g[S] > 0
<1> DEFINE P == {s \in SUBSET S : f[s] \in Nat /\ g[s] \in Nat /\ f[s] <= g[s] /\ g[s] > 0}
<1>1. \A s \in SUBSET S : f[s] = IF s = {} THEN 1 ELSE f[s \ {Pick(s)}] * 40
    BY DEF TimesUp
<1>2. \A s \in SUBSET S : g[s] = IF s = {} THEN 1 ELSE g[s \ {Pick(s)}] * 60
    BY DEF TimesUp
<1>3. {} \in P
    <2>1. {} \in SUBSET S
        OBVIOUS
    <2>2. f[{}] = 1 /\ g[{}] = 1
        BY <1>1, <1>2, <2>1
    <2> QED
        BY <2>1, <2>2
<1>4. ASSUME NEW s \in SUBSET S, s # {}, s \ {Pick(s)} \in P PROVE s \in P
    <2>1. PICK n : n = f[s \ {Pick(s)}]
        OBVIOUS
    <2>2. PICK k : k = g[s \ {Pick(s)}]
        OBVIOUS
    <2>3. n \in Nat /\ k \in Nat /\ n <= k /\ k > 0
        BY <1>4, <2>1, <2>2
    <2>4. f[s] = n * 40 /\ g[s] = k * 60
        BY <1>1, <1>2, <1>4, <2>1, <2>2
    <2>5. n * 40 \in Nat /\ k * 60 \in Nat /\ n * 40 <= k * 60 /\ k * 60 > 0
        BY <2>3
    <2> QED
        BY <2>4, <2>5
<1> HIDE DEF P
<1>5. \A s \in SUBSET S : s \in P
    BY <1>3, <1>4, SubsetInduction
<1>6. S \in P
    BY <1>5
<1> QED
    BY <1>6 DEF P

\* Then the percentage is at most fifty.
LEMMA AtMostHalf ==
    ASSUME NEW a \in Nat, NEW b \in Nat, a <= b, b > 0
    PROVE  (a * 100) \div (a + b) \in Int /\ (a * 100) \div (a + b) <= 50
<1>1. PICK n : n = a * 100
    OBVIOUS
<1>2. PICK d : d = a + b
    OBVIOUS
<1>3. n \in Nat /\ d \in Nat /\ d > 0 /\ n <= 50 * d
    BY <1>1, <1>2
<1>4. PICK q : q = n \div d
    OBVIOUS
<1>5. q \in Int /\ d * q <= n
    BY <1>3, <1>4
<1>6. q > 50 => d * q > 50 * d
    BY <1>3, <1>5
<1>7. q <= 50
    <2>1. d * q \in Int /\ 50 * d \in Int
        BY <1>3, <1>5
    <2> QED
        BY <1>3, <1>5, <1>6, <2>1
<1> QED
    BY <1>1, <1>2, <1>4, <1>5, <1>7

\* The classifier does not condemn words the corpus has hardly seen.
LEMMA NovelLemma ==
    ASSUME NEW c, NEW S, IsFiniteSet(S), \A t \in S : TokenProb(c, t) = 40
    PROVE  Combine(c, S) \in Int /\ Combine(c, S) <= 50
<1> DEFINE f == CHOOSE h : SpamUp(h, c, S)
           g == CHOOSE h : HamUp(h, c, S)
<1>1. ASSUME NEW s \in SUBSET S, s # {}
      PROVE  TokenProb(c, Pick(s)) = 40 /\ 100 - TokenProb(c, Pick(s)) = 60
    <2>1. Pick(s) \in S
        BY <1>1, PickLemma
    <2>2. TokenProb(c, Pick(s)) = 40
        BY <2>1
    <2> QED
        BY <2>2
<1>2. \A h : SpamUp(h, c, S) <=> TimesUp(h, S, 40)
    BY <1>1 DEF SpamUp, TimesUp
<1>3. \A h : HamUp(h, c, S) <=> TimesUp(h, S, 60)
    BY <1>1 DEF HamUp, TimesUp
<1>4. TimesUp(f, S, 40)
    <2>1. \E h : SpamUp(h, c, S)
        BY <1>2, ProductExists
    <2>2. SpamUp(f, c, S)
        BY <2>1
    <2> HIDE DEF f
    <2> QED
        BY <1>2, <2>2
<1>5. TimesUp(g, S, 60)
    <2>1. \E h : HamUp(h, c, S)
        BY <1>3, ProductExists
    <2>2. HamUp(g, c, S)
        BY <2>1
    <2> HIDE DEF g
    <2> QED
        BY <1>3, <2>2
<1>6. PICK spam : spam = f[S]
    OBVIOUS
<1>7. PICK ham : ham = g[S]
    OBVIOUS
<1>8. Combine(c, S) = (spam * 100) \div (spam + ham)
    BY <1>6, <1>7, CombineMeans
<1> HIDE DEF f, g
<1>9. spam \in Nat /\ ham \in Nat /\ spam <= ham /\ ham > 0
    BY <1>4, <1>5, <1>6, <1>7, ProductsCompare
<1> QED
    BY <1>8, <1>9, AtMostHalf

-----------------------------------------------------------------------------
(***************************************************************************)
(* The content of messages                                                 *)
(***************************************************************************)
Vocabulary == {"new", "buy", "rare", "meet"}

\* What the content checks tell apart in a message.
IsContent(m) ==
    /\ m.fromRules \subseteq {"FROM_DISPLAY_NAME_SPOOF"}
    /\ m.subjectRules \subseteq {"SUBJECT_ALL_CAPS"}
    /\ m.bodyRules = {}
    /\ m.files \in Seq({"exe", "pdf", "pdf.exe"})
    /\ m.words \subseteq Vocabulary

\* Every message a client sends has such content.
LEMMA ContentsLemma ==
    ASSUME NEW ip, NEW m \in Mails(ip)
    PROVE  IsContent(m)
<1> DEFINE X == {"exe", "pdf", "pdf.exe"}
<1>1. <<>> \in Seq(X) /\ <<"exe">> \in Seq(X) /\ <<"pdf", "pdf.exe">> \in Seq(X)
    OBVIOUS
<1>2. ASSUME m.fromRules = {}, m.subjectRules = {}, m.bodyRules = {}, m.files = <<>>, m.words = {}
      PROVE  IsContent(m)
    BY <1>1, <1>2 DEF IsContent
<1>3. ASSUME NEW u, m = [Plain(ip) EXCEPT !.uris = u] PROVE IsContent(m)
    <2>1. m.fromRules = {} /\ m.subjectRules = {} /\ m.bodyRules = {} /\ m.files = <<>> /\ m.words = {}
        BY <1>3 DEF Plain
    <2> QED
        BY <1>2, <2>1
<1>4. ASSUME NEW p, m = Forged(ip, FALSE, p) PROVE IsContent(m)
    <2>1. m.fromRules = {} /\ m.subjectRules = {} /\ m.bodyRules = {} /\ m.files = <<>> /\ m.words = {}
        BY <1>4 DEF Forged, Plain
    <2> QED
        BY <1>2, <2>1
<1>5. ASSUME m \in AuthMails(ip) PROVE IsContent(m)
    <2>1. PICK f \in FromDomains, d \in RecordDomains, r \in Records,
               s \in Identifiers, k \in Signatures : m = AuthMail(ip, f, d, r, s, k)
        BY <1>5 DEF AuthMails
    <2>2. m.fromRules = {} /\ m.subjectRules = {} /\ m.bodyRules = {} /\ m.files = <<>> /\ m.words = {}
        BY <2>1 DEF AuthMail, Plain
    <2> QED
        BY <1>2, <2>2
<1>10. ASSUME m \in UnresolvedMails(ip) PROVE IsContent(m)
    <2>1. PICK f \in RecordDomains, q \in FewRecords, r \in FewRecords, pass \in BOOLEAN,
               u \in {{"org"}, {"sub"}, {"org", "sub"}} : m = UnresolvedMail(ip, f, q, r, pass, u)
        BY <1>10 DEF UnresolvedMails
    <2>2. m.fromRules = {} /\ m.subjectRules = {} /\ m.bodyRules = {} /\ m.files = <<>> /\ m.words = {}
        BY <2>1 DEF UnresolvedMail, Plain
    <2> QED
        BY <1>2, <2>2
<1>6. ASSUME m \in ContentMails(ip) PROVE IsContent(m)
    <2>1. PICK c \in Contents, r \in ForgedRecords(ip) : m = ContentMail(ip, c, r)
        BY <1>6 DEF ContentMails
    <2>2. m.fromRules = c.fromRules
        BY <2>1 DEF ContentMail, Plain
    <2>3. m.subjectRules = {"SUBJECT_ALL_CAPS"} /\ m.bodyRules = {}
        BY <2>1 DEF ContentMail, Plain
    <2>4. m.files = c.files
        BY <2>1 DEF ContentMail, Plain
    <2>5. m.words = c.words
        BY <2>1 DEF ContentMail, Plain
    <2>6. c.fromRules \in {{}, {"FROM_DISPLAY_NAME_SPOOF"}}
        BY DEF Contents
    <2>7. c.files \in {<<>>, <<"exe">>, <<"pdf", "pdf.exe">>}
        BY DEF Contents
    <2>8. c.words \in {{}, {"new", "rare"}, {"new", "buy", "rare"}, {"buy", "meet", "new"}}
        BY DEF Contents
    <2>9. m.files \in Seq(X)
        BY <1>1, <2>4, <2>7
    <2>10. m.words \subseteq Vocabulary
        BY <2>5, <2>8 DEF Vocabulary
    <2>11. m.fromRules \subseteq {"FROM_DISPLAY_NAME_SPOOF"}
        BY <2>2, <2>6
    <2>12. m.subjectRules \subseteq {"SUBJECT_ALL_CAPS"} /\ m.bodyRules = {}
        BY <2>3
    <2> QED
        BY <2>9, <2>10, <2>11, <2>12 DEF IsContent
<1>7. CASE traffic = "plain"
    BY <1>3, <1>7 DEF Mails
<1>8. CASE traffic # "plain" /\ traffic = "forged"
    <2>1. m = Forged(ip, FALSE, "reject")
        BY <1>8 DEF Mails
    <2> QED
        BY <1>4, <2>1
<1>9. CASE traffic # "plain" /\ traffic # "forged"
    <2>1. m \in AuthMails(ip) \/ m \in UnresolvedMails(ip) \/ m \in ContentMails(ip)
        BY <1>9 DEF Mails
    <2> QED
        BY <1>5, <1>6, <1>10, <2>1
<1> QED
    BY <1>7, <1>8, <1>9

\* Sets of a few elements are finite.
LEMMA FewFinite ==
    ASSUME NEW a, NEW b, NEW c, NEW d, NEW e
    PROVE  IsFiniteSet({a, b, c, d, e})
<1>1. IsFiniteSet({a} \cup {b})
    BY FS_Singleton, FS_Union
<1>2. IsFiniteSet({a, b})
    <2>1. {a, b} = {a} \cup {b}
        OBVIOUS
    <2> QED
        BY <1>1, <2>1
<1>3. IsFiniteSet({c, d})
    <2>1. IsFiniteSet({c} \cup {d})
        BY FS_Singleton, FS_Union
    <2>2. {c, d} = {c} \cup {d}
        OBVIOUS
    <2> QED
        BY <2>1, <2>2
<1>4. IsFiniteSet({a, b} \cup {c, d})
    BY <1>2, <1>3, FS_Union
<1>5. IsFiniteSet({e})
    BY FS_Singleton
<1>6. IsFiniteSet(({a, b} \cup {c, d}) \cup {e})
    BY <1>4, <1>5, FS_Union
<1>7. {a, b, c, d, e} = ({a, b} \cup {c, d}) \cup {e}
    OBVIOUS
<1> QED
    BY <1>6, <1>7

\* The points of a message are a number.
LEMMA ContentTotal ==
    ASSUME NEW m, IsContent(m)
    PROVE  Total(m) \in Nat
<1> DEFINE A == {"MALFORMED_HEADERS", "NO_MESSAGE_ID", "NO_DATE", "NO_RECIPIENT_HEADER", "NO_FROM"}
           B == {"FROM_DISPLAY_NAME_SPOOF", "NO_SUBJECT", "SUBJECT_ALL_CAPS", "SHORT_BODY_WITH_LINK", "NO_FROM"}
<1>1. RulesOf(m) \subseteq A \cup B
    BY DEF RulesOf, IsContent
<1>2. A \cup B \subseteq DOMAIN Points
    BY DEF Points
<1>3. IsFiniteSet(A) /\ IsFiniteSet(B)
    BY FewFinite
<1> HIDE DEF A, B
<1>4. IsFiniteSet(A \cup B)
    BY <1>3, FS_Union
<1>5. IsFiniteSet(RulesOf(m)) /\ RulesOf(m) \subseteq DOMAIN Points
    BY <1>1, <1>2, <1>4, FS_Subset
<1>6. IsFiniteSet(DOMAIN FilesOf(m))
    <2>1. FilesOf(m) \in Seq({"exe", "pdf", "pdf.exe"})
        BY DEF FilesOf, IsContent
    <2>2. DOMAIN FilesOf(m) = 1..Len(FilesOf(m)) /\ Len(FilesOf(m)) \in Nat
        BY <2>1
    <2> QED
        BY <2>2, FS_Interval
<1> QED
    BY <1>5, <1>6, TotalType

\* A bad attachment is any file that is not harmless.
LEMMA ContentFiles ==
    ASSUME NEW m, IsContent(m)
    PROVE  BadAttachment(m) <=> ~m.malformed /\ \E i \in DOMAIN m.files : m.files[i] # "pdf"
<1>1. \A i \in DOMAIN m.files : m.files[i] \in {"exe", "pdf", "pdf.exe"}
    BY DEF IsContent
<1>2. CASE m.malformed
    <2>1. FilesOf(m) = <<>>
        BY <1>2 DEF FilesOf
    <2> QED
        BY <1>2, <2>1 DEF BadAttachment
<1>3. CASE ~m.malformed
    <2>1. FilesOf(m) = m.files
        BY <1>3 DEF FilesOf
    <2> QED
        BY <1>1, <1>3, <2>1 DEF BadAttachment
<1> QED
    BY <1>2, <1>3

Novel(c, words) == \A t \in words : c.tokens[t].ham + c.tokens[t].spam < 3

\* What the classifier says of words it has hardly seen.
LEMMA BayesLemma ==
    ASSUME NEW c \in Corpora, NEW words \in SUBSET Vocabulary, Novel(c, words),
           NEW p \in IF BayesScores(c, words) = {} THEN {50} ELSE BayesScores(c, words)
    PROVE  Min({50, p}) = p
<1>1. \A t \in Vocabulary : c.tokens[t].ham \in Nat /\ c.tokens[t].spam \in Nat
    BY DEF Corpora, Vocabulary
<1>2. ASSUME NEW t \in words PROVE TokenProb(c, t) = 40
    <2>1. PICK n : n = c.tokens[t].ham + c.tokens[t].spam
        OBVIOUS
    <2>2. n \in Nat
        BY <1>1, <2>1
    <2>3. n < 3
        BY <2>1 DEF Novel
    <2>4. ~(n >= 3)
        BY <2>2, <2>3
    <2>5. ~Known(c.tokens[t])
        BY <2>1, <2>4 DEF Known, MinOccurrences
    <2> QED
        BY <2>5 DEF TokenProb, UnknownProb
<1>3. p \in Int /\ p <= 50
    <2>1. CASE BayesScores(c, words) = {}
        BY <2>1
    <2>2. CASE BayesScores(c, words) # {}
        <3>1. p \in BayesScores(c, words)
            BY <2>2
        <3>2. PICK S \in Decisive(c, words) : p = Combine(c, S)
            BY <2>2, <3>1 DEF BayesScores
        <3>3. S \subseteq words
            BY DEF Decisive
        <3>4. IsFiniteSet({"new", "buy", "rare", "meet", "new"})
            BY FewFinite
        <3>5. IsFiniteSet(S)
            <4>1. Vocabulary = {"new", "buy", "rare", "meet", "new"}
                BY DEF Vocabulary
            <4>2. IsFiniteSet(Vocabulary) /\ S \subseteq Vocabulary
                BY <3>3, <3>4, <4>1
            <4> QED
                BY <4>2, FS_Subset
        <3>6. \A t \in S : TokenProb(c, t) = 40
            BY <1>2, <3>3
        <3> QED
            BY <3>2, <3>5, <3>6, NovelLemma
    <2> QED
        BY <2>1, <2>2
<1> QED
    BY <1>3, MinOfTwo

-----------------------------------------------------------------------------
(***************************************************************************)
(* The verdict                                                             *)
(***************************************************************************)
\* What the engine asks for, and the strictest of all: the body of
\* VerdictIsWorst for one session.
Weighed(w) == IF Novel(corpus, w.mail.words) THEN Min({50, w.bayes}) ELSE w.bayes

Scored(w) ==
    LET score == Clamp(Total(w.mail) + (IF w.uribl THEN 25 ELSE 0) + BayesPoints(Weighed(w)))
    IN IF score >= RejectScore THEN Reject
       ELSE IF score >= QuarantineScore THEN Quarantine ELSE Accept

EngineSays(w) ==
    IF ~cfg.antispam \/ w.listed \/ w.dmarc = Reject THEN Accept
    ELSE IF w.scanned /\ w.mail.infected THEN Reject
    ELSE IF ~w.mail.malformed /\ cfg.rejectExecutables
            /\ \E i \in DOMAIN w.mail.files : w.mail.files[i] # "pdf" THEN Reject
    ELSE Scored(w)

Worst(w) == w.action = Max({w.dmarc, IF w.listed THEN Reject ELSE Accept, EngineSays(w)})

\* What the stages before have found so far: nothing yet, or what DMARC asked
\* for, with the points of the heuristics and of the one listed link.
Pending(w) ==
    /\ ~w.listed /\ w.action = w.dmarc /\ w.dmarc \in {Accept, Quarantine}

Counted(w) ==
    /\ cfg.antispam
    /\ ~w.uribl => w.score = Total(w.mail)
    /\ w.uribl => w.score = Total(w.mail) + 25 /\ w.todo = <<>>

Fair(w) ==
    /\ w.stage # "idle" => IsContent(w.mail)
    /\ w.stage = "auth" => ~w.listed /\ ~w.uribl
    /\ w.stage \in {"dnsbl", "analyze", "uribl", "decide"} => Pending(w)
    /\ w.stage \in {"dnsbl", "analyze"} => ~w.uribl
    /\ w.stage \in {"uribl", "decide"} => Counted(w)
    /\ w.stage = "done" => Worst(w)

FairInv ==
    /\ corpus \in Corpora
    /\ \A s \in Sessions : Fair(sess[s])

\* The largest of three dispositions.
LEMMA MaxOfThree ==
    ASSUME NEW a \in 0..2, NEW b \in 0..2, NEW c \in 0..2, NEW m \in {a, b, c}, a <= m, b <= m, c <= m
    PROVE  Max({a, b, c}) = m
<1>1. m \in {a, b, c} /\ \A y \in {a, b, c} : m >= y
    OBVIOUS
<1>2. \A x \in {a, b, c} : (\A y \in {a, b, c} : x >= y) => x = m
    OBVIOUS
<1> QED
    BY <1>1, <1>2 DEF Max

\* Nothing is stricter than Reject, which is 2.
LEMMA RejectIsMost ==
    ASSUME NEW d \in 0..2
    PROVE  Max({d, 2, 0}) = 2
<1>1. 2 \in {d, 2, 0} /\ \A y \in {d, 2, 0} : 2 >= y
    OBVIOUS
<1>2. \A x \in {d, 2, 0} : (\A y \in {d, 2, 0} : x >= y) => x = 2
    OBVIOUS
<1> QED
    BY <1>1, <1>2 DEF Max

\* A step of one session keeps the others as they are.
LEMMA FairStep ==
    ASSUME SessionsInv, FairInv, NEW s \in Sessions, NEW v, Fair(v),
           sess' = [sess EXCEPT ![s] = v], cfg' = cfg, corpus' = corpus
    PROVE  FairInv'
<1>1. \A r \in Sessions : Fair(sess[r])' = Fair(sess'[r])
    BY DEF Fair, Pending, Counted, Worst, EngineSays, Scored, Weighed
<1>2. \A r \in Sessions : sess'[r] = IF r = s THEN v ELSE sess[r]
    BY DEF SessionsInv
<1>3. \A r \in Sessions : Fair(sess'[r])
    BY <1>2 DEF FairInv
<1> QED
    BY <1>1, <1>3 DEF FairInv

\* No session does anything.
LEMMA FairSame ==
    ASSUME FairInv, sess' = sess, cfg' = cfg, corpus' = corpus
    PROVE  FairInv'
<1>1. \A r \in Sessions : Fair(sess[r])' = Fair(sess'[r])
    BY DEF Fair, Pending, Counted, Worst, EngineSays, Scored, Weighed
<1>2. \A r \in Sessions : Fair(sess'[r])
    BY DEF FairInv
<1> QED
    BY <1>1, <1>2 DEF FairInv

\* DMARC's reject is final.
LEMMA AuthenticateFair ==
    ASSUME SessionsInv, FairInv, NEW s \in Sessions, NEW sampled \in BOOLEAN, Authenticate(s, sampled)
    PROVE  FairInv'
<1> DEFINE w == sess[s]
           a == IF cfg.mailauth THEN CheckAuth(w.mail, cfg.enforce, sampled) ELSE Accept
           st == IF a = Reject THEN "done" ELSE "dnsbl"
           v == [w EXCEPT !.action = a, !.dmarc = a, !.stage = st]
<1>1. Good(w) /\ Fair(w) /\ cfg' = cfg /\ corpus' = corpus /\ w.stage = "auth"
    BY DEF SessionsInv, FairInv, Authenticate
<1>2. sess' = [sess EXCEPT ![s] = v]
    BY DEF Authenticate
<1>3. a \in {Accept, Quarantine, Reject}
    BY DEF CheckAuth
<1>4. (a = Reject => st = "done") /\ (a # Reject => st = "dnsbl")
    OBVIOUS
<1> HIDE DEF w, a, st
<1>5. /\ v.stage = st /\ v.mail = w.mail /\ v.action = a /\ v.dmarc = a
      /\ v.listed = w.listed /\ v.uribl = w.uribl
    BY <1>1 DEF Good, IsWork, Fields
<1> HIDE DEF v
<1>6. ~v.listed /\ ~v.uribl /\ IsContent(v.mail)
    BY <1>1, <1>5 DEF Fair
<1>7. CASE a = Reject
    <2>1. EngineSays(v) = Accept
        BY <1>5, <1>7 DEF EngineSays
    <2>2. Max({Reject, Accept, Accept}) = Reject
        BY MaxOfThree DEF Reject, Accept
    <2>3. Worst(v)
        BY <1>5, <1>6, <1>7, <2>1, <2>2 DEF Worst
    <2>4. v.stage = "done"
        BY <1>4, <1>5, <1>7
    <2> QED
        BY <1>1, <1>2, <1>6, <2>3, <2>4, FairStep DEF Fair
<1>8. CASE a # Reject
    <2>1. v.stage = "dnsbl" /\ v.action = v.dmarc /\ v.dmarc \in {Accept, Quarantine}
        BY <1>3, <1>4, <1>5, <1>8
    <2>2. Fair(v)
        BY <1>6, <2>1 DEF Fair, Pending
    <2> QED
        BY <1>1, <1>2, <2>2, FairStep
<1> QED
    BY <1>7, <1>8

\* Fresh messages and free sessions.
LEMMA FreshFair ==
    /\ Fair(Free)
    /\ \A m : IsContent(m) => Fair([Free EXCEPT !.stage = "auth", !.mail = m])
<1>1. Free.stage = "idle"
    BY DEF Free
<1>2. Fair(Free)
    BY <1>1 DEF Fair
<1>3. ASSUME NEW m, IsContent(m) PROVE Fair([Free EXCEPT !.stage = "auth", !.mail = m])
    <2> DEFINE v == [Free EXCEPT !.stage = "auth", !.mail = m]
    <2>1. v.stage = "auth" /\ v.mail = m
        BY DEF Free
    <2>2. ~v.listed /\ ~v.uribl
        BY DEF Free
    <2> HIDE DEF v
    <2>3. Fair(v)
        BY <1>3, <2>1, <2>2 DEF Fair
    <2> QED
        BY <2>3 DEF v
<1> QED
    BY <1>2, <1>3

\* A message is let in, or turned away.
LEMMA AdmitFair ==
    ASSUME SessionsInv, FairInv, NEW s \in Sessions, NEW k, NEW ok \in BOOLEAN, Admit(s, k, ok)
    PROVE  FairInv'
<1>1. sess[s] = Free /\ cfg' = cfg /\ corpus' = corpus
    BY DEF Admit
<1>2. CASE ok
    <2>1. PICK m \in Mails(k) : sess' = [sess EXCEPT ![s].stage = "auth", ![s].mail = m]
        BY <1>2 DEF Admit
    <2>2. IsContent(m)
        BY ContentsLemma
    <2> DEFINE v == [Free EXCEPT !.stage = "auth", !.mail = m]
    <2>3. sess' = [sess EXCEPT ![s] = v]
        BY <1>1, <2>1
    <2>4. Fair(v)
        BY <2>2, FreshFair
    <2> HIDE DEF v
    <2> QED
        BY <1>1, <2>3, <2>4, FairStep
<1>3. CASE ~ok
    <2>1. sess' = sess
        BY <1>3 DEF Admit
    <2> QED
        BY <1>1, <2>1, FairSame
<1> QED
    BY <1>2, <1>3

\* DATA is answered.
LEMMA LeaveFair ==
    ASSUME SessionsInv, FairInv, NEW s \in Sessions, Leave(s)
    PROVE  FairInv'
<1>1. sess' = [sess EXCEPT ![s] = Free] /\ cfg' = cfg /\ corpus' = corpus
    BY DEF Leave
<1> QED
    BY <1>1, FreshFair, FairStep

\* The heuristics begin the score; without the engine DMARC has the last word.
LEMMA AnalyzeFair ==
    ASSUME SessionsInv, FairInv, NEW s \in Sessions, Analyze(s)
    PROVE  FairInv'
<1> DEFINE w == sess[s]
           c == Total(w.mail)
           u == UrisOf(w.mail)
           v == IF ~cfg.antispam THEN [w EXCEPT !.stage = "done"]
                ELSE [w EXCEPT !.stage = "uribl", !.score = c, !.todo = u]
<1>1. Good(w) /\ Fair(w) /\ cfg' = cfg /\ corpus' = corpus /\ w.stage = "analyze"
    BY DEF SessionsInv, FairInv, Analyze
<1>2. sess' = [sess EXCEPT ![s] = v]
    BY DEF Analyze
<1>3. c = Total(w.mail)
    OBVIOUS
<1> HIDE DEF w, c, u
<1>4. IsContent(w.mail) /\ Pending(w) /\ ~w.uribl
    BY <1>1 DEF Fair
<1>5. CASE cfg.antispam
    <2>1. /\ v.stage = "uribl" /\ v.mail = w.mail /\ v.action = w.action /\ v.dmarc = w.dmarc
          /\ v.listed = w.listed /\ v.uribl = w.uribl /\ v.score = c
        BY <1>1, <1>5 DEF Good, IsWork, Fields
    <2> HIDE DEF v
    <2>2. Pending(v) /\ Counted(v)
        BY <1>3, <1>4, <1>5, <2>1 DEF Pending, Counted
    <2>3. Fair(v)
        BY <1>4, <2>1, <2>2 DEF Fair
    <2> QED
        BY <1>1, <1>2, <2>3, FairStep
<1>6. CASE ~cfg.antispam
    <2>1. /\ v.stage = "done" /\ v.mail = w.mail /\ v.action = w.action /\ v.dmarc = w.dmarc
          /\ v.listed = w.listed
        BY <1>1, <1>6 DEF Good, IsWork, Fields
    <2> HIDE DEF v
    <2>2. EngineSays(v) = Accept
        BY <1>6 DEF EngineSays
    <2>3. ~v.listed /\ v.action = v.dmarc /\ v.dmarc \in {Accept, Quarantine}
        BY <1>4, <2>1 DEF Pending
    <2>4. Max({v.dmarc, Accept, Accept}) = v.dmarc
        BY <2>3, MaxOfThree DEF Accept, Quarantine
    <2>5. Worst(v)
        BY <2>2, <2>3, <2>4 DEF Worst
    <2>6. Fair(v)
        BY <1>4, <2>1, <2>5 DEF Fair
    <2> QED
        BY <1>1, <1>2, <2>6, FairStep
<1> QED
    BY <1>5, <1>6

\* A listed address is rejected whatever DMARC said; a listed link adds its
\* points once, for the loop over the links ends with it.
LEMMA AnsweredFair ==
    ASSUME NEW w, Good(w), Fair(w), w.stage \in {"dnsbl", "uribl"},
           w.stage = "uribl" => w.todo # <<>>, NEW listed \in BOOLEAN, NEW age
    PROVE  Fair(Answered(w, listed, age))
<1> DEFINE v == Answered(w, listed, age)
<1>1. IsWork(w) /\ IsContent(w.mail) /\ Pending(w)
    BY DEF Good, Fair
<1>2. CASE w.stage = "dnsbl"
    <2>1. v = [w EXCEPT !.asking = FALSE, !.age = age, !.listed = listed,
                        !.action = IF listed THEN Reject ELSE w.action,
                        !.stage = IF listed THEN "done" ELSE "analyze"]
        BY <1>1, <1>2 DEF Answered, IsWork, Fields
    <2>2. v.mail = w.mail /\ v.dmarc = w.dmarc /\ v.listed = listed /\ v.uribl = w.uribl
        BY <1>1, <2>1 DEF IsWork, Fields
    <2>3. v.action = (IF listed THEN Reject ELSE w.action)
          /\ v.stage = (IF listed THEN "done" ELSE "analyze")
        BY <1>1, <2>1 DEF IsWork, Fields
    <2> HIDE DEF v
    <2>4. CASE listed
        <3>1. v.action = Reject /\ v.stage = "done" /\ v.listed
            BY <2>2, <2>3, <2>4
        <3>2. EngineSays(v) = Accept
            BY <3>1 DEF EngineSays
        <3>3. v.dmarc \in {Accept, Quarantine}
            BY <1>1, <2>2 DEF Pending
        <3>4. Max({v.dmarc, Reject, Accept}) = Reject
            <4>1. PICK d : d = v.dmarc
                OBVIOUS
            <4>2. d \in 0..2 /\ d <= 2
                BY <3>3, <4>1 DEF Accept, Quarantine
            <4>4. Max({d, 2, 0}) = 2
                BY <4>2, RejectIsMost
            <4> QED
                BY <4>1, <4>4 DEF Accept, Reject
        <3>5. Worst(v)
            BY <3>1, <3>2, <3>4 DEF Worst
        <3> QED
            BY <1>1, <2>2, <3>1, <3>5 DEF Fair, v
    <2>5. CASE ~listed
        <3>1. v.action = w.action /\ v.stage = "analyze" /\ ~v.listed /\ ~v.uribl
            BY <1>2, <2>2, <2>3, <2>5 DEF Fair
        <3>2. Pending(v)
            BY <1>1, <2>2, <3>1 DEF Pending
        <3> QED
            BY <1>1, <2>2, <3>1, <3>2 DEF Fair, v
    <2> QED
        BY <2>4, <2>5
<1>3. CASE w.stage = "uribl"
    <2> DEFINE rest == IF listed THEN <<>> ELSE SelectSeq(w.todo, LAMBDA d : d # Head(w.todo))
               pts == w.score + (IF listed THEN 25 ELSE 0)
    <2>1. v = [w EXCEPT !.asking = FALSE, !.age = age, !.uribl = listed,
                        !.score = pts, !.todo = rest]
        BY <1>1, <1>3 DEF Answered, IsWork, Fields
    <2>2. listed => rest = <<>>
        OBVIOUS
    <2>3. Total(w.mail) \in Nat /\ w.score = Total(w.mail) /\ cfg.antispam
        <3>1. Counted(w) /\ w.todo # <<>>
            BY <1>3 DEF Fair
        <3> QED
            BY <1>1, <3>1, ContentTotal DEF Counted
    <2>4. (listed => pts = Total(w.mail) + 25) /\ (~listed => pts = Total(w.mail))
        BY <2>3
    <2> HIDE DEF rest, pts
    <2>5. /\ v.mail = w.mail /\ v.dmarc = w.dmarc /\ v.action = w.action /\ v.stage = w.stage
          /\ v.listed = w.listed /\ v.uribl = listed /\ v.score = pts /\ v.todo = rest
        BY <1>1, <2>1 DEF IsWork, Fields
    <2> HIDE DEF v
    <2>6. Pending(v)
        BY <1>1, <2>5 DEF Pending
    <2>7. Counted(v)
        BY <2>2, <2>3, <2>4, <2>5 DEF Counted
    <2>8. Fair(v)
        BY <1>1, <1>3, <2>5, <2>6, <2>7 DEF Fair
    <2> QED
        BY <2>8 DEF v
<1> QED
    BY <1>2, <1>3

\* An answer that needs no query.
LEMMA AnswerAtOnceFair ==
    ASSUME SessionsInv, CacheInv, FairInv, NEW s \in Sessions, AnswerAtOnce(s)
    PROVE  FairInv'
<1>1. PICK w : w = sess[s]
    OBVIOUS
<1>2. PICK n : n = NameOf(w)
    OBVIOUS
<1>3. Good(w) /\ Fair(w) /\ cfg' = cfg /\ corpus' = corpus /\ w.stage \in {"dnsbl", "uribl"}
    BY <1>1 DEF SessionsInv, FairInv, AnswerAtOnce
<1> DEFINE d == [w EXCEPT !.stage = "decide", !.todo = <<>>]
           v == IF w.stage = "uribl" /\ (w.todo = <<>> \/ ~cfg.blacklist) THEN d ELSE Answered(w, FALSE, 0)
<1>4. \/ n = NoName /\ sess' = [sess EXCEPT ![s] = v]
      \/ /\ n # NoName /\ Live(n)
         /\ sess' = [sess EXCEPT ![s] = Answered(w, cache[n].listed, now - cache[n].asof)]
    BY <1>1, <1>2 DEF AnswerAtOnce
<1>5. CASE n = NoName /\ sess' = [sess EXCEPT ![s] = v]
    <2>1. CASE w.stage = "uribl" /\ (w.todo = <<>> \/ ~cfg.blacklist)
        <3>1. /\ d.mail = w.mail /\ d.dmarc = w.dmarc /\ d.action = w.action /\ d.stage = "decide"
              /\ d.listed = w.listed /\ d.uribl = w.uribl /\ d.score = w.score /\ d.todo = <<>>
            BY <1>3 DEF Good, IsWork, Fields
        <3>2. v = d
            BY <2>1
        <3> HIDE DEF d, v
        <3>3. IsContent(w.mail) /\ Pending(w) /\ Counted(w)
            BY <1>3, <2>1 DEF Fair
        <3>4. Pending(d) /\ Counted(d)
            BY <3>1, <3>3 DEF Pending, Counted
        <3>5. Fair(d)
            BY <3>1, <3>3, <3>4 DEF Fair
        <3> QED
            BY <1>3, <1>5, <3>2, <3>5, FairStep
    <2>2. CASE ~(w.stage = "uribl" /\ (w.todo = <<>> \/ ~cfg.blacklist))
        <3>1. v = Answered(w, FALSE, 0)
            BY <2>2
        <3> HIDE DEF v, d
        <3>2. Fair(Answered(w, FALSE, 0))
            BY <1>3, <2>2, AnsweredFair
        <3> QED
            BY <1>3, <1>5, <3>1, <3>2, FairStep
    <2> QED
        BY <2>1, <2>2
<1>6. CASE /\ n # NoName /\ Live(n)
           /\ sess' = [sess EXCEPT ![s] = Answered(w, cache[n].listed, now - cache[n].asof)]
    <2>1. w.stage = "uribl" => w.todo # <<>>
        BY <1>2, <1>6 DEF NameOf
    <2>2. cache[n].listed \in BOOLEAN
        BY <1>6 DEF Live, CacheInv, Cached
    <2>3. Fair(Answered(w, cache[n].listed, now - cache[n].asof))
        BY <1>3, <2>1, <2>2, AnsweredFair
    <2> QED
        BY <1>3, <1>6, <2>3, FairStep
<1> QED
    BY <1>4, <1>5, <1>6

\* The answer of a query.
LEMMA StoreFair ==
    ASSUME SessionsInv, FairInv, NEW s \in Sessions, NEW listed \in BOOLEAN, Store(s, listed)
    PROVE  FairInv'
<1>1. PICK w : w = sess[s]
    OBVIOUS
<1>2. Good(w) /\ Fair(w) /\ cfg' = cfg /\ corpus' = corpus /\ w.asking
    BY <1>1 DEF SessionsInv, FairInv, Store
<1>3. sess' = [sess EXCEPT ![s] = Answered(w, listed, now - w.since)]
    BY <1>1 DEF Store
<1>4. NameOf(w) # NoName
    BY <1>2 DEF Good, Asking
<1>5. w.stage \in {"dnsbl", "uribl"} /\ (w.stage = "uribl" => w.todo # <<>>)
    BY <1>4 DEF NameOf
<1>6. Fair(Answered(w, listed, now - w.since))
    BY <1>2, <1>5, AnsweredFair
<1> QED
    BY <1>2, <1>3, <1>6, FairStep

\* A query begins.
LEMMA AskFair ==
    ASSUME SessionsInv, FairInv, NEW s \in Sessions, Ask(s)
    PROVE  FairInv'
<1> DEFINE w == sess[s]
           v == [w EXCEPT !.asking = TRUE, !.since = now]
<1>1. sess' = [sess EXCEPT ![s] = v] /\ cfg' = cfg /\ corpus' = corpus
    BY DEF Ask
<1>2. Good(w) /\ Fair(w)
    BY DEF SessionsInv, FairInv
<1>3. w.stage \in {"dnsbl", "uribl"}
    BY DEF Ask, NameOf
<1> HIDE DEF w
<1>4. /\ v.mail = w.mail /\ v.dmarc = w.dmarc /\ v.action = w.action /\ v.stage = w.stage
      /\ v.listed = w.listed /\ v.uribl = w.uribl /\ v.score = w.score /\ v.todo = w.todo
    BY <1>2 DEF Good, IsWork, Fields
<1> HIDE DEF v
<1>5. Fair(v)
    BY <1>2, <1>3, <1>4 DEF Fair, Pending, Counted
<1> QED
    BY <1>1, <1>2, <1>5, FairStep

\* The engine's verdict on top of what DMARC asked for.
LEMMA StricterOf ==
    ASSUME NEW d \in {Accept, Quarantine}, NEW e \in {Accept, Quarantine, Reject}
    PROVE  Max({d, Accept, e}) = IF e = Accept THEN d ELSE e
<1> USE DEF Accept, Quarantine, Reject
<1>1. d \in 0..2 /\ e \in 0..2 /\ d <= 1
    OBVIOUS
<1>2. CASE e = 0
    BY <1>1, <1>2, MaxOfThree
<1>3. CASE e # 0
    <2>1. d <= e /\ 0 <= e /\ e <= e /\ e \in {d, 0, e}
        BY <1>1, <1>3
    <2> QED
        BY <1>1, <1>3, <2>1, MaxOfThree
<1> QED
    BY <1>2, <1>3

\* The classifier, the antivirus and the verdict.
LEMMA DecideFair ==
    ASSUME SessionsInv, FairInv, NEW s \in Sessions, NEW scanned \in BOOLEAN, Decide(s, scanned)
    PROVE  FairInv'
<1> DEFINE w == sess[s]
<1>1. Good(w) /\ Fair(w) /\ cfg' = cfg /\ corpus' = corpus /\ w.stage = "decide" /\ corpus \in Corpora
    BY DEF SessionsInv, FairInv, Decide
<1> DEFINE virus == scanned /\ w.mail.infected
           Score(p) == IF virus THEN 100 ELSE Clamp(w.score + BayesPoints(p))
           After(p) == [sess EXCEPT ![s].stage = "done", ![s].bayes = p, ![s].scanned = scanned,
                                    ![s].tagged = Score(p) >= TagScore,
                                    ![s].action = Verdict(w, Score(p), virus)]
           probs == BayesScores(corpus, w.mail.words)
           Odds == IF probs = {} THEN {50} ELSE probs
<1>2. PICK p \in Odds : sess' = After(p)
    <2>1. \E p \in Odds : sess' = After(p)
        BY DEF Decide
    <2> HIDE DEF Odds, After
    <2> QED
        BY <2>1
<1> DEFINE c == Score(p)
           a == Verdict(w, c, virus)
           g == c >= TagScore
           v == [w EXCEPT !.stage = "done", !.bayes = p, !.scanned = scanned,
                          !.tagged = g, !.action = a]
<1>3. sess' = [sess EXCEPT ![s] = v]
    BY <1>2
<1>4. IsContent(w.mail) /\ Pending(w) /\ Counted(w)
    BY <1>1 DEF Fair
<1>5. Novel(corpus, w.mail.words) => Min({50, p}) = p
    <2>1. w.mail.words \in SUBSET Vocabulary
        BY <1>4 DEF IsContent
    <2> HIDE DEF w
    <2> QED
        BY <1>1, <1>2, <2>1, BayesLemma
<1>6. a = IF \/ virus
             \/ BadAttachment(w.mail) /\ cfg.rejectExecutables
             \/ c >= RejectScore
          THEN Reject ELSE IF c >= QuarantineScore THEN Quarantine ELSE w.action
    BY DEF Verdict
<1>7. ~virus => c = Clamp(w.score + BayesPoints(p))
    OBVIOUS
<1>7a. virus <=> scanned /\ w.mail.infected
    OBVIOUS
<1> HIDE DEF w, a, g, c, Score, Odds, probs, After, virus
<1>8. /\ v.stage = "done" /\ v.mail = w.mail /\ v.action = a /\ v.dmarc = w.dmarc
      /\ v.listed = w.listed /\ v.uribl = w.uribl /\ v.bayes = p /\ v.scanned = scanned
    BY <1>1 DEF Good, IsWork, Fields
<1> HIDE DEF v
<1>9. Weighed(v) = p
    BY <1>5, <1>8 DEF Weighed
<1>10. w.score = Total(v.mail) + (IF v.uribl THEN 25 ELSE 0)
    <2>1. Total(w.mail) \in Nat
        BY <1>4, ContentTotal
    <2> QED
        BY <1>4, <1>8, <2>1 DEF Counted
<1>11. ~virus => Scored(v) = IF c >= RejectScore THEN Reject
                            ELSE IF c >= QuarantineScore THEN Quarantine ELSE Accept
    BY <1>7, <1>9, <1>10 DEF Scored
<1>12. cfg.antispam /\ ~v.listed /\ v.dmarc \in {Accept, Quarantine} /\ v.dmarc # Reject
       /\ w.action = v.dmarc
    BY <1>4, <1>8 DEF Pending, Counted, Accept, Quarantine, Reject
<1>13. BadAttachment(w.mail) <=> ~v.mail.malformed /\ \E i \in DOMAIN v.mail.files : v.mail.files[i] # "pdf"
    BY <1>4, <1>8, ContentFiles
<1>14. EngineSays(v) = IF virus \/ (BadAttachment(w.mail) /\ cfg.rejectExecutables) THEN Reject ELSE Scored(v)
    BY <1>7a, <1>8, <1>12, <1>13 DEF EngineSays
<1>15. PICK e : e = EngineSays(v)
    OBVIOUS
<1>16. e \in {Accept, Quarantine, Reject} /\ a = IF e = Accept THEN v.dmarc ELSE e
    <2>1. Accept # Quarantine /\ Accept # Reject
        BY DEF Accept, Quarantine, Reject
    <2>2. CASE virus
        BY <1>6, <1>14, <1>15, <2>1, <2>2
    <2>3. CASE ~virus /\ BadAttachment(w.mail) /\ cfg.rejectExecutables
        BY <1>6, <1>14, <1>15, <2>1, <2>3
    <2>4. CASE ~virus /\ ~(BadAttachment(w.mail) /\ cfg.rejectExecutables)
        BY <1>6, <1>11, <1>12, <1>14, <1>15, <2>1, <2>4
    <2> QED
        BY <2>2, <2>3, <2>4
<1>17. Max({v.dmarc, Accept, e}) = a
    BY <1>12, <1>16, StricterOf
<1>18. Worst(v)
    BY <1>8, <1>12, <1>15, <1>17 DEF Worst
<1>19. Fair(v)
    BY <1>4, <1>8, <1>18 DEF Fair
<1> QED
    BY <1>1, <1>3, <1>19, FairStep

\* The sessions and the corpus at the start.
LEMMA FairInit == Init => FairInv
<1> SUFFICES ASSUME Init PROVE FairInv
    OBVIOUS
<1>1. corpus \in Corpora
    <2>1. \E c : c \in Corpora
        BY DEF Corpora
    <2>2. (CHOOSE c \in Corpora : TRUE) \in Corpora
        BY <2>1
    <2>3. corpus \in IF traffic = "any" THEN Corpora ELSE {CHOOSE c \in Corpora : TRUE}
        BY DEF Init
    <2> QED
        BY <2>2, <2>3
<1>2. \A s \in Sessions : sess[s] = Free
    BY DEF Init
<1> QED
    BY <1>1, <1>2, FreshFair DEF FairInv

\* Every step keeps to what was found.
LEMMA FairNext == ScreenInv /\ FairInv /\ [Next]_vars => FairInv'
<1> SUFFICES ASSUME ScreenInv, FairInv, [Next]_vars PROVE FairInv'
    OBVIOUS
<1>1. CacheInv /\ SessionsInv
    BY DEF ScreenInv
<1>2. ASSUME NEW s \in Sessions, NEW k \in Keys, NEW ok \in BOOLEAN, Admit(s, k, ok) PROVE FairInv'
    BY <1>1, <1>2, AdmitFair
<1>3. ASSUME NEW s \in Sessions, NEW sampled \in BOOLEAN, Authenticate(s, sampled) PROVE FairInv'
    BY <1>1, <1>3, AuthenticateFair
<1>4. ASSUME NEW s \in Sessions, AnswerAtOnce(s) PROVE FairInv'
    BY <1>1, <1>4, AnswerAtOnceFair
<1>5. ASSUME NEW s \in Sessions, Ask(s) PROVE FairInv'
    BY <1>1, <1>5, AskFair
<1>6. ASSUME NEW s \in Sessions, Analyze(s) PROVE FairInv'
    BY <1>1, <1>6, AnalyzeFair
<1>7. ASSUME NEW s \in Sessions, Leave(s) PROVE FairInv'
    BY <1>1, <1>7, LeaveFair
<1>8. ASSUME NEW s \in Sessions, NEW listed \in BOOLEAN, Store(s, listed) PROVE FairInv'
    BY <1>1, <1>8, StoreFair
<1>9. ASSUME NEW s \in Sessions, NEW scanned \in BOOLEAN, Decide(s, scanned) PROVE FairInv'
    BY <1>1, <1>9, DecideFair
<1>10. CASE Tick
    BY <1>10, FairSame DEF Tick
<1>11. CASE UNCHANGED vars
    BY <1>11, FairSame DEF vars
<1> QED
    BY <1>2, <1>3, <1>4, <1>5, <1>6, <1>7, <1>8, <1>9, <1>10, <1>11 DEF Next

\* The verdict on a message is the strictest that DMARC, the blacklist, the
\* antivirus, the attachments or the score call for, and no stricter, whatever
\* the thresholds, the weight of the classifier and the number of tokens it
\* combines; words the corpus has hardly seen never add to the score (Screen,
\* Engine.Check, Bayes.Score).  A failed scan and the attachments of a message
\* that does not parse call for nothing.
THEOREM VerdictIsWorstAlways == Spec => []VerdictIsWorst
<1>1. FairInv => VerdictIsWorst
    <2>1. ASSUME FairInv, NEW s \in Sessions, sess[s].stage = "done" PROVE Worst(sess[s])
        BY <2>1 DEF FairInv, Fair
    <2> QED
        BY <2>1, Zenon DEF VerdictIsWorst, Worst, EngineSays, Scored, Weighed, Novel
<1> QED
    BY <1>1, FairInit, FairNext, ScreenInvAlways, PTL DEF Spec
=============================================================================
