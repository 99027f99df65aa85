-------------------------- MODULE ReputationProofs --------------------------
(***************************************************************************)
(* Warm-up and reputation for any number of sessions, any ramp the         *)
(* configuration accepts and any scores.                                   *)
(*                                                                         *)
(* OvershootBounded compares what was sent with the cap; MaySend compares  *)
(* the counter.  The two are tied by Remembers: the counter in memory, and *)
(* the one in the file, hold what was sent today less what a death has     *)
(* made, or would make, forgotten; a counter of an earlier day starts over *)
(* at the next look.  The counter's own bound survives a restart because   *)
(* the file obeys it too, and the passing of time because the ramp never   *)
(* shrinks; CleanMeansSaved needs to know that a stopped daemon has        *)
(* nothing to save.  DomainInv says so.                                    *)
(***************************************************************************)
EXTENDS Reputation, FiniteSetTheorems, TLAPS

\* The sessions that passed MaySend and have not reported Sent yet.
InData == {s \in Sessions : pc[s] = "data"}

\* The file holds no count a session could not have reported.
DiskBounded == disk.daySent < DailyLimit(disk.age) + Cardinality(Sessions)

\* A daemon that is not running has no sessions and nothing to save.
DownIsEmpty ==
    phase = "down" => dirty = FALSE /\ InData = {} /\ mem.daySent = 0 /\ today.unsaved = 0

\* The record r has counted what was sent today, n messages aside: its day is
\* today, or one that is over.
Remembers(r, n) ==
    IF r.known
    THEN /\ today.sent <= r.daySent + n
         /\ r.day <= today.since \/ (r.day = HalfDays /\ today.sent <= n)
    ELSE today.sent <= n

TodayInv ==
    /\ phase # "down" => Remembers(mem, today.lost)
    /\ Remembers(disk, today.lost + today.unsaved)
    /\ phase # "down" /\ disk.known => mem.day <= disk.day

DomainInv ==
    /\ TypeOK
    /\ mem.daySent + Cardinality(InData) < DailyLimit(mem.age) + Cardinality(Sessions)
    /\ DiskBounded
    /\ DownIsEmpty
    /\ TodayInv
    /\ CleanMeansSaved

-----------------------------------------------------------------------------
(***************************************************************************)
(* The ramp                                                                *)
(***************************************************************************)

\* A step of a leg is worth the same wherever it is taken.
LEMMA ProductSteps ==
    ASSUME NEW x \in Nat, NEW d \in Nat, NEW m \in Nat, x <= m
    PROVE  /\ x * d \in Nat /\ m * d \in Nat
           /\ x * d <= m * d
           /\ (x + 1) * d = x * d + d
  OBVIOUS

\* The first leg grows from Day1 to Day7.
LEMMA FirstLeg ==
    ASSUME NEW x \in 0..12
    PROVE  /\ (x * (Day7 - Day1)) \div 12 \in 0..(Day7 - Day1)
           /\ (x * (Day7 - Day1)) \div 12 <= ((x + 1) * (Day7 - Day1)) \div 12
<1> DEFINE d == Day7 - Day1
<1>1. d \in Nat
  BY ReputationAssumption
<1>2. x * d \in Nat /\ x * d <= 12 * d /\ (x + 1) * d = x * d + d
  BY <1>1, ProductSteps
<1> HIDE DEF d
<1>3. \A p \in Nat : p <= 12 * d => p \div 12 \in 0..d /\ p \div 12 <= (p + d) \div 12
  BY <1>1
<1> QED
  BY <1>1, <1>2, <1>3 DEF d

\* The second leg grows from Day7 to Full.
LEMMA SecondLeg ==
    ASSUME NEW x \in 0..46
    PROVE  /\ (x * (Full - Day7)) \div 46 \in 0..(Full - Day7)
           /\ (x * (Full - Day7)) \div 46 <= ((x + 1) * (Full - Day7)) \div 46
<1> DEFINE d == Full - Day7
<1>1. d \in Nat
  BY ReputationAssumption
<1>2. x * d \in Nat /\ x * d <= 46 * d /\ (x + 1) * d = x * d + d
  BY <1>1, ProductSteps
<1> HIDE DEF d
<1>3. \A p \in Nat : p <= 46 * d => p \div 46 \in 0..d /\ p \div 46 <= (p + d) \div 46
  BY <1>1
<1> QED
  BY <1>1, <1>2, <1>3 DEF d

\* DailyLimit at every age, over the breaks at one, seven and thirty days.
LEMMA RampLemma ==
    ASSUME NEW h \in Nat
    PROVE  DailyLimit(h) <= DailyLimit(h + 1) /\ DailyLimit(h) \in Day1..Full
<1>1. CASE h <= 1
  BY <1>1, ReputationAssumption DEF DailyLimit
<1>2. CASE h \in 2..13
  <2>1. h - 2 \in 0..12 /\ (h + 1) - 2 = (h - 2) + 1
    BY <1>2
  <2>2. DailyLimit(h) = Day1 + ((h - 2) * (Day7 - Day1)) \div 12
    <3>1. CASE h = 2
      <4>1. (0 * (Day7 - Day1)) \div 12 = 0
        BY ReputationAssumption
      <4> QED
        BY <3>1, <4>1, ReputationAssumption DEF DailyLimit
    <3>2. CASE h > 2
      BY <1>2, <3>2 DEF DailyLimit
    <3> QED
      BY <1>2, <3>1, <3>2
  <2>3. DailyLimit(h + 1) = Day1 + (((h - 2) + 1) * (Day7 - Day1)) \div 12
    BY <1>2, <2>1 DEF DailyLimit
  <2>4. (h - 2) + 1 \in 0..12
    BY <1>2
  <2> QED
    BY <2>1, <2>2, <2>3, <2>4, FirstLeg, ReputationAssumption
<1>3. CASE h \in 14..59
  <2>1. h - 14 \in 0..45 /\ (h + 1) - 14 = (h - 14) + 1
    BY <1>3
  <2>2. DailyLimit(h) = Day7 + ((h - 14) * (Full - Day7)) \div 46
    <3>1. CASE h = 14
      <4>1. (0 * (Full - Day7)) \div 46 = 0 /\ (12 * (Day7 - Day1)) \div 12 = Day7 - Day1
        BY ReputationAssumption
      <4> QED
        BY <3>1, <4>1, ReputationAssumption DEF DailyLimit
    <3>2. CASE h > 14
      BY <1>3, <3>2 DEF DailyLimit
    <3> QED
      BY <1>3, <3>1, <3>2
  <2>3. DailyLimit(h + 1) = Day7 + (((h - 14) + 1) * (Full - Day7)) \div 46
    <3>1. CASE h = 59
      <4>1. (46 * (Full - Day7)) \div 46 = Full - Day7
        BY ReputationAssumption
      <4> QED
        BY <3>1, <4>1, ReputationAssumption DEF DailyLimit
    <3>2. CASE h < 59
      BY <1>3, <2>1, <3>2 DEF DailyLimit
    <3> QED
      BY <1>3, <3>1, <3>2
  <2>4. (h - 14) + 1 \in 0..46 /\ h - 14 \in 0..46
    BY <1>3
  <2> QED
    BY <2>2, <2>3, <2>4, SecondLeg, ReputationAssumption
<1>4. CASE h >= 60
  BY <1>4, ReputationAssumption DEF DailyLimit
<1> QED
  BY <1>1, <1>2, <1>3, <1>4

-----------------------------------------------------------------------------
(***************************************************************************)
(* What the operations do to a record                                      *)
(***************************************************************************)

\* The fields of a record.
LEMMA Fields ==
    ASSUME NEW r \in Records
    PROVE  /\ r.known \in BOOLEAN /\ r.score \in 0..Top /\ r.updated \in 0..Top
           /\ r.age \in 0..MaxAge /\ r.daySent \in Nat /\ r.day \in 0..HalfDays
  BY DEF Records

\* get returns a known record of the right shape that has not counted more,
\* and if it is a record the store knew it has the same age.
LEMMA GetLemma ==
    ASSUME NEW r \in Records
    PROVE  /\ Get(r) \in Records /\ Get(r).known = TRUE
           /\ Get(r).daySent = 0 \/ (Get(r).daySent = r.daySent /\ Get(r).age = r.age)
<1>0. 0 \in 0..HalfDays /\ 0 \in 0..Top /\ 0 \in 0..MaxAge /\ Normal \in 0..Top
  BY ReputationAssumption DEF HalfDays
<1>1. Fresh \in Records /\ Fresh.known = TRUE /\ Fresh.daySent = 0
  BY <1>0 DEF Fresh, Records
<1>2. /\ Decay(r) \in Records /\ Decay(r).known = r.known
      /\ Decay(r).daySent = r.daySent /\ Decay(r).age = r.age
  <2> DEFINE c == IF r.score < Normal THEN Least(Normal, r.score + r.updated)
                  ELSE Most(Normal, r.score - r.updated)
  <2>1. c \in 0..Top
    BY Fields, ReputationAssumption DEF Least, Most
  <2>2. Decay(r) = r \/ Decay(r) = [r EXCEPT !.updated = 0, !.score = c]
    BY DEF Decay
  <2> HIDE DEF c
  <2>3. CASE Decay(r) = [r EXCEPT !.updated = 0, !.score = c]
    BY <1>0, <2>1, <2>3 DEF Records
  <2> QED
    BY <2>2, <2>3
<1>3. ASSUME NEW q \in Records
      PROVE  /\ Rollover(q) \in Records /\ Rollover(q).known = q.known
             /\ Rollover(q).daySent = 0 \/ Rollover(q) = q
  <2>1. Rollover(q) = q \/ Rollover(q) = [q EXCEPT !.daySent = 0, !.day = 0]
    BY DEF Rollover
  <2>2. CASE Rollover(q) = [q EXCEPT !.daySent = 0, !.day = 0]
    <3>1. 0 \in Nat
      OBVIOUS
    <3>2. Rollover(q) \in Records
      BY <1>0, <2>2, <3>1 DEF Records
    <3>3. Rollover(q).known = q.known
      BY <1>0, <2>2, <3>1 DEF Records
    <3>4. Rollover(q).daySent = 0
      BY <1>0, <2>2, <3>1 DEF Records
    <3> QED
      BY <3>2, <3>3, <3>4
  <2> QED
    BY <2>1, <2>2
<1>4. Get(r) = IF r.known THEN Rollover(Decay(r)) ELSE Fresh
  BY DEF Get
<1>5. CASE r.known = TRUE
  BY <1>2, <1>3, <1>4, <1>5
<1>6. CASE r.known = FALSE
  BY <1>1, <1>4, <1>6
<1> QED
  BY <1>5, <1>6, Fields

\* What get does to the day's counter.
LEMMA GetDay ==
    ASSUME NEW r \in Records
    PROVE  /\ r.known /\ r.day < HalfDays => Get(r).daySent = r.daySent /\ Get(r).day = r.day
           /\ ~(r.known /\ r.day < HalfDays) => Get(r).daySent = 0 /\ Get(r).day = 0
<1> DEFINE c == IF r.score < Normal THEN Least(Normal, r.score + r.updated)
                ELSE Most(Normal, r.score - r.updated)
           d == Decay(r)
<1>1. d = r \/ d = [r EXCEPT !.updated = 0, !.score = c]
  BY DEF Decay
<1> HIDE DEF c
<1>2. d.day = r.day /\ d.daySent = r.daySent /\ d = [x \in DOMAIN d |-> d[x]]
      /\ "daySent" \in DOMAIN d /\ "day" \in DOMAIN d
  BY <1>1 DEF Records
<1> HIDE DEF d
<1>3. r.known \in BOOLEAN /\ r.day \in 0..HalfDays /\ HalfDays \in Nat
  BY Fields DEF HalfDays
<1>4. CASE r.known /\ r.day < HalfDays
  <2>1. Get(r) = d
    BY <1>2, <1>4 DEF Get, Rollover, d
  <2> QED
    BY <1>2, <1>4, <2>1
<1>5. CASE r.known /\ ~(r.day < HalfDays)
  <2>1. Get(r) = [d EXCEPT !.daySent = 0, !.day = 0]
    BY <1>2, <1>5 DEF Get, Rollover, d
  <2> QED
    BY <1>2, <1>5, <2>1
<1>6. CASE ~r.known
  BY <1>6 DEF Get, Fresh
<1> QED
  BY <1>3, <1>4, <1>5, <1>6

\* Half a day later the record has the right shape, the same count and an
\* allowance that is no smaller.
LEMMA OlderLemma ==
    ASSUME NEW r \in Records
    PROVE  /\ Older(r) \in Records /\ Older(r).known = r.known
           /\ Older(r).daySent = r.daySent
           /\ Older(r).day = IF r.known THEN Least(HalfDays, r.day + 1) ELSE r.day
           /\ DailyLimit(r.age) <= DailyLimit(Older(r).age)
           /\ DailyLimit(r.age) \in Nat /\ DailyLimit(Older(r).age) \in Nat
<1> DEFINE u == Least(Top, r.updated + 1)
           a == Least(MaxAge, r.age + 1)
           d == Least(HalfDays, r.day + 1)
<1>1. HalfDays \in Nat
  BY DEF HalfDays
<1>2. /\ u \in 0..Top /\ a \in 0..MaxAge /\ d \in 0..HalfDays
      /\ a = r.age \/ a = r.age + 1
  BY <1>1, Fields, ReputationAssumption DEF Least
<1>3. Older(r) = IF ~r.known THEN r ELSE [r EXCEPT !.updated = u, !.age = a, !.day = d]
  BY DEF Older
<1> HIDE DEF u, a, d
<1>4. /\ Older(r) \in Records /\ Older(r).known = r.known
      /\ Older(r).daySent = r.daySent
      /\ Older(r).day = IF r.known THEN d ELSE r.day
      /\ Older(r).age = r.age \/ Older(r).age = r.age + 1
  BY <1>2, <1>3 DEF Records
<1>5. r.age \in Nat
  BY Fields
<1> QED
  BY <1>4, <1>5, RampLemma, ReputationAssumption DEF d

\* The sessions in DATA are finitely many, and no more than all.
LEMMA InDataFinite ==
    /\ IsFiniteSet(InData) /\ Cardinality(InData) \in Nat
    /\ Cardinality(Sessions) \in Nat /\ Cardinality(InData) <= Cardinality(Sessions)
<1>1. InData \subseteq Sessions
  BY DEF InData
<1> QED
  BY <1>1, ReputationAssumption, FS_Subset, FS_CardinalityType

\* The same after a step.
LEMMA InDataFinite2 ==
    /\ IsFiniteSet(InData') /\ Cardinality(InData') \in Nat
    /\ Cardinality(InData') <= Cardinality(Sessions)
<1>1. InData' \subseteq Sessions
  BY DEF InData
<1> QED
  BY <1>1, ReputationAssumption, FS_Subset, FS_CardinalityType

\* A session that leaves DATA makes one less.
LEMMA LeaveData ==
    ASSUME NEW s \in Sessions, pc \in [Sessions -> {"idle", "data"}], pc[s] = "data",
           pc' = [pc EXCEPT ![s] = "idle"]
    PROVE  Cardinality(InData') = Cardinality(InData) - 1
<1>1. InData' = InData \ {s} /\ s \in InData
  BY DEF InData
<1> QED
  BY <1>1, InDataFinite, FS_RemoveElement

\* Record counts what it is told on top of what get left.
LEMMA RecordLemma ==
    ASSUME mem \in Records, NEW d \in Int, NEW sent \in Nat, Record(d, sent)
    PROVE  /\ mem' \in Records /\ mem'.known = TRUE /\ dirty' = TRUE
           /\ \/ mem'.daySent = sent
              \/ mem'.daySent = mem.daySent + sent /\ mem'.age = mem.age
           /\ mem'.daySent = Get(mem).daySent + sent /\ mem'.day = Get(mem).day
<1>1. PICK r \in Records :
         /\ r = Get(mem)
         /\ r.known = TRUE
         /\ r.daySent = 0 \/ (r.daySent = mem.daySent /\ r.age = mem.age)
  BY GetLemma
<1>2. \A x \in Int : Clamp(x) \in 0..Top
  BY ReputationAssumption DEF Clamp, Least, Most
<1>3. r.score \in 0..Top /\ r.daySent \in Nat /\ mem.daySent \in Nat
  BY Fields
<1>4. PICK c \in 0..Top : c = Clamp(r.score + d)
  BY <1>2, <1>3, ReputationAssumption
<1>5. PICK n \in Nat : n = r.daySent + sent
  BY <1>3
<1>6. mem' = [r EXCEPT !.score = c, !.updated = 0, !.daySent = n] /\ dirty' = TRUE
  BY <1>1, <1>4, <1>5 DEF Record
<1>7. 0 \in 0..Top
  BY ReputationAssumption
<1>8. mem' \in Records
  BY <1>6, <1>7 DEF Records
<1>9. mem'.known = r.known /\ mem'.age = r.age /\ mem'.daySent = n /\ mem'.day = r.day
  BY <1>6, <1>7 DEF Records
<1> QED
  BY <1>1, <1>3, <1>5, <1>6, <1>8, <1>9

\* What was sent today stays remembered when get has looked at the record and
\* n messages were counted.
LEMMA CountedLemma ==
    ASSUME DomainInv, phase # "down", phase' = phase, disk' = disk, NEW n \in Nat, Counted(n),
           mem'.known = TRUE, mem'.daySent = Get(mem).daySent + n, mem'.day = Get(mem).day
    PROVE  /\ today' \in [since : 0..HalfDays, sent : Nat, unsaved : Nat, lost : Nat]
           /\ TodayInv'
<1> DEFINE over == (mem.known => mem.day >= HalfDays) /\ today.since >= HalfDays
           v == IF over THEN NewToday ELSE today
<1>1. today \in [since : 0..HalfDays, sent : Nat, unsaved : Nat, lost : Nat]
  BY DEF DomainInv, TypeOK
<1>2. /\ mem.known \in BOOLEAN /\ mem.day \in 0..HalfDays /\ mem.daySent \in Nat
      /\ disk.known \in BOOLEAN /\ disk.day \in 0..HalfDays /\ disk.daySent \in Nat /\ HalfDays = 2
  BY Fields DEF DomainInv, TypeOK, HalfDays
<1>3. today' = [v EXCEPT !.sent = v.sent + n, !.unsaved = v.unsaved + n]
  BY DEF Counted
<1>4. /\ v \in [since : 0..HalfDays, sent : Nat, unsaved : Nat, lost : Nat]
      /\ over => v.since = 0 /\ v.sent = 0 /\ v.unsaved = 0 /\ v.lost = 0
      /\ ~over => v = today
  BY <1>1, <1>2 DEF NewToday
<1> HIDE DEF v, over
<1>5. /\ today' \in [since : 0..HalfDays, sent : Nat, unsaved : Nat, lost : Nat]
      /\ today'.since = v.since /\ today'.sent = v.sent + n /\ today'.unsaved = v.unsaved + n
      /\ today'.lost = v.lost
  <2>1. PICK a \in Nat, b \in Nat : a = v.sent + n /\ b = v.unsaved + n
    BY <1>4
  <2>2. today' = [v EXCEPT !.sent = a, !.unsaved = b]
    BY <1>3, <2>1
  <2>3. /\ today' \in [since : 0..HalfDays, sent : Nat, unsaved : Nat, lost : Nat]
        /\ today'.since = v.since /\ today'.sent = a /\ today'.unsaved = b /\ today'.lost = v.lost
    BY <1>4, <2>2
  <2> QED
    BY <2>1, <2>3
<1>6. /\ mem.known /\ mem.day < HalfDays => mem'.daySent = mem.daySent + n /\ mem'.day = mem.day
      /\ ~(mem.known /\ mem.day < HalfDays) => mem'.daySent = n /\ mem'.day = 0
  BY GetDay DEF DomainInv, TypeOK
<1>7. /\ Remembers(mem, today.lost) /\ Remembers(disk, today.lost + today.unsaved)
      /\ disk.known => mem.day <= disk.day /\ mem.known
  BY DEF DomainInv, TodayInv, TypeOK
<1>8. /\ today.since \in Nat /\ today.sent \in Nat /\ today.lost \in Nat /\ today.unsaved \in Nat
  BY <1>1, <1>2
<1>9. today'.sent <= mem'.daySent + today'.lost /\ mem'.day <= today'.since
  BY <1>2, <1>4, <1>5, <1>6, <1>7, <1>8 DEF Remembers, over
<1>10. /\ disk.known => /\ today'.sent <= disk.daySent + (today'.lost + today'.unsaved)
                        /\ \/ disk.day <= today'.since
                           \/ disk.day = HalfDays /\ today'.sent <= today'.lost + today'.unsaved
       /\ ~disk.known => today'.sent <= today'.lost + today'.unsaved
  BY <1>2, <1>4, <1>5, <1>7, <1>8 DEF Remembers, over
<1>11. disk.known => mem'.day <= disk.day
  BY <1>2, <1>6, <1>7
<1> QED
  BY <1>5, <1>9, <1>10, <1>11 DEF TodayInv, Remembers

-----------------------------------------------------------------------------
\* The record of a domain that was never met.
LEMMA NoRecordLemma ==
    /\ NoRecord \in Records /\ NoRecord.known = FALSE
    /\ NoRecord.daySent = 0 /\ NoRecord.age = 0
<1>1. 0 \in 0..HalfDays /\ 0 \in 0..Top /\ 0 \in 0..MaxAge /\ Normal \in 0..Top
  BY ReputationAssumption DEF HalfDays
<1>2. Fresh \in Records
  BY <1>1 DEF Fresh, Records
<1>3. NoRecord \in Records
  BY <1>2 DEF NoRecord, Records
<1>4. NoRecord.known = FALSE /\ NoRecord.daySent = 0 /\ NoRecord.age = 0
  BY DEF NoRecord, Fresh
<1> QED
  BY <1>3, <1>4

\* The invariant holds at the start ...
LEMMA InitInv == Init => DomainInv
<1> SUFFICES ASSUME Init PROVE DomainInv
  OBVIOUS
<1>1. NoRecord \in Records /\ NoRecord.daySent = 0 /\ NoRecord.age = 0
  BY NoRecordLemma
<1>2. TypeOK
  <2>1. today \in [since : 0..HalfDays, sent : Nat, unsaved : Nat, lost : Nat]
    BY DEF Init, NewToday, HalfDays
  <2> QED
    BY <1>1, <2>1, NoRecordLemma, ReputationAssumption DEF Init, TypeOK
<1>3. DailyLimit(0) \in Nat /\ DailyLimit(0) > 0
  BY RampLemma, ReputationAssumption
<1>4. InData = {}
  BY DEF Init, InData
<1>5. Cardinality(InData) = 0 /\ Cardinality(Sessions) \in Nat
  BY <1>4, FS_EmptySet, InDataFinite
<1>6. mem.daySent + Cardinality(InData) < DailyLimit(mem.age) + Cardinality(Sessions)
  BY <1>1, <1>3, <1>5 DEF Init
<1>7. DiskBounded
  BY <1>1, <1>3, <1>5 DEF Init, DiskBounded
<1>8. DownIsEmpty /\ CleanMeansSaved
  BY <1>1, <1>4 DEF Init, DownIsEmpty, CleanMeansSaved
<1>9. NoRecord.known = FALSE /\ today.sent = 0 /\ today.lost = 0 /\ today.unsaved = 0
  BY NoRecordLemma DEF Init, NewToday
<1>10. TodayInv
  BY <1>9 DEF Init, TodayInv, Remembers
<1> QED
  BY <1>2, <1>6, <1>7, <1>8, <1>10 DEF DomainInv

\* A running step that keeps the file and does not lower the flag keeps the
\* invariant when the count and the sessions in DATA obey the bound.
LEMMA RunningKeeps ==
    ASSUME DomainInv, phase # "down", phase' = phase, disk' = disk,
           mem' \in Records, mem'.known = TRUE \/ mem' = mem, dirty' \in BOOLEAN,
           pc' \in [Sessions -> {"idle", "data"}], bounces' \in Nat, faults' = faults,
           dirty' = TRUE \/ (dirty' = dirty /\ mem' = mem),
           today' \in [since : 0..HalfDays, sent : Nat, unsaved : Nat, lost : Nat], TodayInv',
           mem'.daySent + Cardinality(InData') < DailyLimit(mem'.age) + Cardinality(Sessions)
    PROVE  DomainInv'
<1>1. TypeOK'
  BY DEF DomainInv, TypeOK
<1>2. DiskBounded' /\ DownIsEmpty'
  BY DEF DomainInv, DiskBounded, DownIsEmpty
<1>3. CleanMeansSaved'
  BY DEF DomainInv, CleanMeansSaved
<1> QED
  BY <1>1, <1>2, <1>3 DEF DomainInv

\* ... and every step keeps it.
LEMMA StepInv == DomainInv /\ [Next]_vars => DomainInv'
<1> SUFFICES ASSUME DomainInv, [Next]_vars PROVE DomainInv'
  OBVIOUS
<1> USE DEF DomainInv
<1>0. /\ mem \in Records /\ disk \in Records /\ dirty \in BOOLEAN
      /\ pc \in [Sessions -> {"idle", "data"}] /\ bounces \in Nat /\ faults \in Nat
      /\ mem.daySent \in Nat /\ disk.daySent \in Nat /\ mem.age \in Nat /\ disk.age \in Nat
      /\ today \in [since : 0..HalfDays, sent : Nat, unsaved : Nat, lost : Nat]
  BY Fields DEF TypeOK
<1>a. /\ Cardinality(InData) \in Nat /\ Cardinality(InData') \in Nat
      /\ Cardinality(Sessions) \in Nat
      /\ Cardinality(InData') <= Cardinality(Sessions)
  BY InDataFinite, InDataFinite2
<1>b. \A h \in Nat : DailyLimit(h) \in Nat /\ DailyLimit(h) > 0
  BY RampLemma, ReputationAssumption
<1>1. ASSUME NEW s \in Sessions, MaySend(s) PROVE DomainInv'
  <2>1. PICK r \in Records :
          /\ r = Get(mem) /\ r.known = TRUE
          /\ r.daySent = 0 \/ (r.daySent = mem.daySent /\ r.age = mem.age)
    BY <1>0, GetLemma
  <2>2. /\ phase # "down" /\ phase' = phase /\ disk' = disk /\ mem' = r
        /\ bounces' = bounces /\ faults' = faults
        /\ dirty' = (dirty \/ r # mem)
        /\ pc' = [pc EXCEPT ![s] = IF ~Blocked(r) /\ AllowSend(r) THEN "data" ELSE "idle"]
        /\ pc[s] = "idle"
    BY <1>1, <2>1 DEF MaySend
  <2>3. r.daySent \in Nat /\ r.age \in Nat
    BY Fields
  <2>4. mem'.daySent + Cardinality(InData') < DailyLimit(mem'.age) + Cardinality(Sessions)
    <3>1. CASE r.daySent = 0
      BY <1>a, <1>b, <2>2, <2>3, <3>1
    <3>2. CASE AllowSend(r)
      BY <1>a, <1>b, <2>2, <2>3, <3>2 DEF AllowSend
    <3>3. CASE ~AllowSend(r) /\ r.daySent = mem.daySent /\ r.age = mem.age
      <4>1. pc' = pc
        BY <1>0, <2>2, <3>3
      <4>2. InData' = InData
        BY <4>1 DEF InData
      <4> QED
        BY <2>2, <3>3, <4>2
    <3> QED
      BY <2>1, <3>1, <3>2, <3>3
  <2>5. pc' \in [Sessions -> {"idle", "data"}]
    BY <1>0, <2>2
  <2>6. dirty' \in BOOLEAN /\ (dirty' = TRUE \/ (dirty' = dirty /\ mem' = mem))
    <3>1. CASE r = mem
      BY <1>0, <2>2, <3>1, Zenon
    <3>2. CASE r # mem
      BY <1>0, <2>2, <3>2, Zenon
    <3> QED
      BY <3>1, <3>2
  <2>7. today' \in [since : 0..HalfDays, sent : Nat, unsaved : Nat, lost : Nat] /\ TodayInv'
    <3>1. Counted(0) /\ 0 \in Nat
      BY <1>1 DEF MaySend
    <3>2. mem'.known = TRUE /\ mem'.daySent = Get(mem).daySent + 0 /\ mem'.day = Get(mem).day
      BY <2>1, <2>2, <2>3
    <3> QED
      BY <2>2, <3>1, <3>2, CountedLemma
  <2> QED
    BY <1>0, <2>1, <2>2, <2>4, <2>5, <2>6, <2>7, RunningKeeps
<1>2. ASSUME NEW s \in Sessions, Sent(s) PROVE DomainInv'
  <2>0. Record(1, 1) /\ 1 \in Int /\ 1 \in Nat
    BY <1>2 DEF Sent
  <2>1. /\ mem' \in Records /\ mem'.known = TRUE /\ dirty' = TRUE
        /\ mem'.daySent = 1 \/ (mem'.daySent = mem.daySent + 1 /\ mem'.age = mem.age)
        /\ mem'.daySent = Get(mem).daySent + 1 /\ mem'.day = Get(mem).day
    BY <1>0, <2>0, RecordLemma
  <2>2. /\ phase # "down" /\ phase' = phase /\ disk' = disk
        /\ bounces' = bounces /\ faults' = faults
        /\ pc[s] = "data" /\ pc' = [pc EXCEPT ![s] = "idle"]
    BY <1>2 DEF Sent
  <2>3. Cardinality(InData') = Cardinality(InData) - 1
    BY <1>0, <2>2, LeaveData
  <2>4. mem'.age \in Nat
    BY <2>1, Fields
  <2>5. mem'.daySent + Cardinality(InData') < DailyLimit(mem'.age) + Cardinality(Sessions)
    BY <1>0, <1>a, <1>b, <2>1, <2>3, <2>4, InDataFinite
  <2>6. pc' \in [Sessions -> {"idle", "data"}]
    BY <1>0, <2>2
  <2>7. today' \in [since : 0..HalfDays, sent : Nat, unsaved : Nat, lost : Nat] /\ TodayInv'
    <3>1. Counted(1)
      BY <1>2 DEF Sent
    <3> QED
      BY <2>0, <2>1, <2>2, <3>1, CountedLemma
  <2> QED
    BY <1>0, <2>1, <2>2, <2>5, <2>6, <2>7, RunningKeeps
<1>3. ASSUME NEW s \in Sessions, NotSent(s) PROVE DomainInv'
  <2>1. /\ phase # "down" /\ phase' = phase /\ disk' = disk /\ mem' = mem /\ dirty' = dirty
        /\ bounces' = bounces /\ faults' = faults /\ today' = today
        /\ pc[s] = "data" /\ pc' = [pc EXCEPT ![s] = "idle"]
    BY <1>3 DEF NotSent
  <2>2. Cardinality(InData') = Cardinality(InData) - 1
    BY <1>0, <2>1, LeaveData
  <2>3. mem'.daySent + Cardinality(InData') < DailyLimit(mem'.age) + Cardinality(Sessions)
    BY <1>0, <1>a, <1>b, <2>1, <2>2
  <2>4. pc' \in [Sessions -> {"idle", "data"}]
    BY <1>0, <2>1
  <2>5. TodayInv'
    BY <2>1 DEF TodayInv, Remembers
  <2> QED
    BY <1>0, <2>1, <2>3, <2>4, <2>5, RunningKeeps
<1>4. CASE Bounce
  <2>1. Record(-BounceCost, 0) /\ -BounceCost \in Int
    BY <1>4, ReputationAssumption DEF Bounce
  <2>2. /\ mem' \in Records /\ mem'.known = TRUE /\ dirty' = TRUE
        /\ mem'.daySent = 0 \/ (mem'.daySent = mem.daySent + 0 /\ mem'.age = mem.age)
        /\ mem'.daySent = Get(mem).daySent + 0 /\ mem'.day = Get(mem).day
    BY <1>0, <2>1, RecordLemma
  <2>3. /\ phase # "down" /\ phase' = phase /\ disk' = disk
        /\ bounces' \in Nat /\ faults' = faults /\ pc' = pc
    BY <1>0, <1>4 DEF Bounce
  <2>4. InData' = InData
    BY <2>3 DEF InData
  <2>5. mem'.age \in Nat
    BY <2>2, Fields
  <2>6. mem'.daySent + Cardinality(InData') < DailyLimit(mem'.age) + Cardinality(Sessions)
    BY <1>0, <1>a, <1>b, <2>2, <2>4, <2>5
  <2>7. today' \in [since : 0..HalfDays, sent : Nat, unsaved : Nat, lost : Nat] /\ TodayInv'
    <3>1. Counted(0) /\ 0 \in Nat
      BY <1>4 DEF Bounce
    <3> QED
      BY <2>2, <2>3, <3>1, CountedLemma
  <2> QED
    BY <1>0, <2>2, <2>3, <2>6, <2>7, RunningKeeps
<1>5. ASSUME PeriodicSave \/ Terminate PROVE DomainInv'
  <2>1. /\ phase = "up" /\ phase' \in {"up", "draining"} /\ mem' = mem /\ pc' = pc
        /\ bounces' = bounces /\ faults' \in Nat /\ Save
    BY <1>0, <1>5 DEF PeriodicSave, Terminate
  <2>2. InData' = InData
    BY <2>1 DEF InData
  <2>3. CASE SaveOk
    <3>1. /\ dirty' = FALSE /\ disk' = mem
          /\ today' = [today EXCEPT !.unsaved = 0]
      BY <1>0, <2>1, <2>3 DEF SaveOk, CleanMeansSaved
    <3>2. /\ today' \in [since : 0..HalfDays, sent : Nat, unsaved : Nat, lost : Nat]
          /\ today'.since = today.since /\ today'.sent = today.sent /\ today'.unsaved = 0
          /\ today'.lost = today.lost /\ today'.lost + 0 = today'.lost
      BY <1>0, <3>1
    <3>3. TypeOK'
      BY <1>0, <2>1, <3>1, <3>2 DEF TypeOK
    <3>4. DiskBounded'
      BY <1>0, <1>a, <1>b, <3>1 DEF DiskBounded
    <3>5. DownIsEmpty' /\ CleanMeansSaved'
      BY <2>1, <3>1 DEF DownIsEmpty, CleanMeansSaved
    <3>6. mem.day \in Nat
      BY <1>0, Fields DEF HalfDays
    <3>7. TodayInv'
      BY <2>1, <3>1, <3>2, <3>6 DEF TodayInv, Remembers
    <3> QED
      BY <2>1, <2>2, <3>3, <3>4, <3>5, <3>7
  <2>4. CASE SaveFails
    <3>1. dirty' = dirty /\ dirty /\ disk' = disk /\ today' = today
      BY <2>4 DEF SaveFails
    <3>2. TypeOK'
      BY <1>0, <2>1, <3>1 DEF TypeOK
    <3>3. DiskBounded' /\ DownIsEmpty' /\ CleanMeansSaved' /\ TodayInv'
      BY <2>1, <3>1 DEF DiskBounded, DownIsEmpty, CleanMeansSaved, TodayInv, Remembers
    <3> QED
      BY <2>1, <2>2, <3>2, <3>3
  <2> QED
    BY <2>1, <2>3, <2>4 DEF Save
<1>6. ASSUME Exit \/ Crash PROVE DomainInv'
  <2>1. /\ phase' = "down" /\ mem' = NoRecord /\ dirty' = FALSE
        /\ pc' = [s \in Sessions |-> "idle"]
        /\ disk' = disk /\ bounces' = bounces /\ faults' \in Nat
        /\ today' = [today EXCEPT !.lost = today.lost + today.unsaved, !.unsaved = 0]
    BY <1>0, <1>6 DEF Exit, Crash, Down
  <2>2. /\ NoRecord \in Records /\ NoRecord.daySent = 0 /\ NoRecord.age = 0
    BY NoRecordLemma
  <2>3. InData' = {}
    BY <2>1 DEF InData
  <2>4. Cardinality(InData') = 0
    BY <2>3, FS_EmptySet
  <2>8. /\ today' \in [since : 0..HalfDays, sent : Nat, unsaved : Nat, lost : Nat]
        /\ today'.since = today.since /\ today'.sent = today.sent /\ today'.unsaved = 0
        /\ today'.lost + today'.unsaved = today.lost + today.unsaved
    <3> DEFINE n == today.lost + today.unsaved
    <3>1. n \in Nat /\ n + 0 = n
      BY <1>0
    <3> HIDE DEF n
    <3>2. today' = [today EXCEPT !.lost = n, !.unsaved = 0]
      BY <2>1 DEF n
    <3>3. /\ today' \in [since : 0..HalfDays, sent : Nat, unsaved : Nat, lost : Nat]
          /\ today'.since = today.since /\ today'.sent = today.sent /\ today'.unsaved = 0
          /\ today'.lost = n
      BY <1>0, <3>1, <3>2
    <3> QED
      BY <3>1, <3>3 DEF n
  <2>5. TypeOK'
    BY <1>0, <2>1, <2>2, <2>8 DEF TypeOK
  <2>6. mem'.daySent + Cardinality(InData') < DailyLimit(mem'.age) + Cardinality(Sessions)
    BY <1>a, <1>b, <2>1, <2>2, <2>4
  <2>7. DiskBounded' /\ DownIsEmpty' /\ CleanMeansSaved'
    BY <2>1, <2>2, <2>3, <2>8 DEF DiskBounded, DownIsEmpty, CleanMeansSaved
  <2>9. TodayInv'
    BY <2>1, <2>8 DEF TodayInv, Remembers
  <2> QED
    BY <2>5, <2>6, <2>7, <2>9
<1>7. CASE Start
  <2>1. /\ phase = "down" /\ phase' = "up" /\ mem' = disk /\ disk' = disk /\ dirty' = dirty
        /\ pc' = pc /\ bounces' = bounces /\ faults' = faults /\ today' = today
    BY <1>7 DEF Start
  <2>2. InData' = {}
    BY <2>1 DEF InData, DownIsEmpty
  <2>3. Cardinality(InData') = 0
    BY <2>2, FS_EmptySet
  <2>4. TypeOK'
    BY <1>0, <2>1 DEF TypeOK
  <2>5. mem'.daySent + Cardinality(InData') < DailyLimit(mem'.age) + Cardinality(Sessions)
    BY <1>0, <1>a, <1>b, <2>1, <2>3 DEF DiskBounded
  <2>6. DiskBounded' /\ DownIsEmpty' /\ CleanMeansSaved'
    BY <2>1 DEF DiskBounded, DownIsEmpty, CleanMeansSaved
  <2>7. today.unsaved = 0 /\ today.lost + today.unsaved = today.lost /\ disk.day <= disk.day
    BY <1>0, <2>1, Fields DEF DownIsEmpty, HalfDays
  <2>8. TodayInv'
    BY <2>1, <2>7 DEF TodayInv, Remembers
  <2> QED
    BY <2>4, <2>5, <2>6, <2>8
<1>8. CASE Tick
  <2>1. /\ mem' = Older(mem) /\ disk' = Older(disk) /\ dirty' = dirty /\ phase' = phase
        /\ pc' = pc /\ bounces' = bounces /\ faults' = faults
        /\ today' = [today EXCEPT !.since = Least(HalfDays, today.since + 1)]
    BY <1>8 DEF Tick
  <2>2. /\ mem' \in Records /\ mem'.known = mem.known /\ mem'.daySent = mem.daySent
        /\ DailyLimit(mem.age) <= DailyLimit(mem'.age)
        /\ DailyLimit(mem.age) \in Nat /\ DailyLimit(mem'.age) \in Nat
    BY <1>0, <2>1, OlderLemma
  <2>3. /\ disk' \in Records /\ disk'.known = disk.known /\ disk'.daySent = disk.daySent
        /\ DailyLimit(disk.age) <= DailyLimit(disk'.age)
        /\ DailyLimit(disk.age) \in Nat /\ DailyLimit(disk'.age) \in Nat
    BY <1>0, <2>1, OlderLemma
  <2>4. InData' = InData
    BY <2>1 DEF InData
  <2>9. /\ mem'.day = (IF mem.known THEN Least(HalfDays, mem.day + 1) ELSE mem.day)
        /\ disk'.day = (IF disk.known THEN Least(HalfDays, disk.day + 1) ELSE disk.day)
        /\ mem.day \in 0..HalfDays /\ disk.day \in 0..HalfDays /\ HalfDays = 2
        /\ mem.known \in BOOLEAN /\ disk.known \in BOOLEAN
    BY <1>0, <2>1, OlderLemma, Fields DEF HalfDays
  <2>10. /\ today' \in [since : 0..HalfDays, sent : Nat, unsaved : Nat, lost : Nat]
         /\ today'.since = Least(HalfDays, today.since + 1) /\ today'.sent = today.sent
         /\ today'.unsaved = today.unsaved /\ today'.lost = today.lost
         /\ today.since \in 0..HalfDays
    <3> DEFINE n == Least(HalfDays, today.since + 1)
    <3>1. n \in 0..HalfDays /\ today.since \in 0..HalfDays
      BY <1>0, <2>9 DEF Least
    <3> HIDE DEF n
    <3>2. today' = [today EXCEPT !.since = n]
      BY <2>1 DEF n
    <3>3. /\ today' \in [since : 0..HalfDays, sent : Nat, unsaved : Nat, lost : Nat]
          /\ today'.since = n /\ today'.sent = today.sent
          /\ today'.unsaved = today.unsaved /\ today'.lost = today.lost
      BY <1>0, <3>1, <3>2
    <3> QED
      BY <3>1, <3>3 DEF n
  <2>11. \A d, e \in 0..HalfDays : /\ d <= e => Least(HalfDays, d + 1) <= Least(HalfDays, e + 1)
                                   /\ Least(HalfDays, HalfDays + 1) = HalfDays
    BY <2>9 DEF Least
  <2>12. TodayInv'
    <3>1. phase # "down" => Remembers(mem, today.lost)'
      BY <2>1, <2>2, <2>9, <2>10, <2>11 DEF TodayInv, Remembers
    <3>2. Remembers(disk, today.lost + today.unsaved)'
      BY <2>1, <2>3, <2>9, <2>10, <2>11 DEF TodayInv, Remembers
    <3>3. phase # "down" /\ disk.known => mem'.day <= disk'.day
      BY <2>9, <2>11 DEF TodayInv, TypeOK
    <3> QED
      BY <2>1, <2>3, <3>1, <3>2, <3>3 DEF TodayInv
  <2>5. TypeOK'
    BY <1>0, <2>1, <2>2, <2>3, <2>10 DEF TypeOK
  <2>6. mem'.daySent + Cardinality(InData') < DailyLimit(mem'.age) + Cardinality(Sessions)
    BY <1>0, <1>a, <2>2, <2>4
  <2>7. DiskBounded'
    BY <1>0, <1>a, <2>3 DEF DiskBounded
  <2>8. DownIsEmpty' /\ CleanMeansSaved'
    BY <2>1, <2>2, <2>4, <2>10 DEF DownIsEmpty, CleanMeansSaved
  <2> QED
    BY <2>5, <2>6, <2>7, <2>8, <2>12
<1>9. CASE UNCHANGED vars
  BY <1>9 DEF vars, TypeOK, InData, DiskBounded, DownIsEmpty, CleanMeansSaved, TodayInv, Remembers
<1> QED
  BY <1>1, <1>2, <1>3, <1>4, <1>5, <1>6, <1>7, <1>8, <1>9 DEF Next

-----------------------------------------------------------------------------
\* Records, file, flag and sessions keep their types: get, Record, Save, the
\* clamped score and a restart never leave the range of a field, and the file
\* never knows a domain that a running store has forgotten.
THEOREM TypeCorrect == Spec => []TypeOK
<1>1. DomainInv => TypeOK
  BY DEF DomainInv
<1> QED
  BY <1>1, InitInv, StepInv, PTL DEF Spec

\* MaySend reads the count at the start of DATA and Sent raises it at the end;
\* with any number of sessions between the two, through rollover, failing Saves,
\* restarts from the file and the growth of the ramp, a domain sends in a day
\* less than the number of its sessions above the cap, the messages aside that
\* were sent after the last Save that worked before the daemon died.
THEOREM OvershootBoundedAlways == Spec => []OvershootBounded
<1>1. ASSUME DomainInv, phase # "down"
      PROVE  today.sent + Cardinality(InData)
                < DailyLimit(mem.age) + Cardinality(Sessions) + today.lost
  <2>1. /\ mem.known \in BOOLEAN /\ mem.daySent \in Nat /\ mem.age \in Nat
        /\ today.sent \in Nat /\ today.lost \in Nat
    BY <1>1, Fields DEF DomainInv, TypeOK
  <2>2. today.sent <= mem.daySent + today.lost
    BY <1>1, <2>1 DEF DomainInv, TodayInv, Remembers
  <2>3. DailyLimit(mem.age) \in Nat /\ Cardinality(Sessions) \in Nat /\ Cardinality(InData) \in Nat
    BY <2>1, RampLemma, InDataFinite, ReputationAssumption
  <2> QED
    BY <1>1, <2>1, <2>2, <2>3 DEF DomainInv
<1>2. DomainInv => OvershootBounded
  BY <1>1 DEF OvershootBounded, InData
<1> QED
  BY <1>2, InitInv, StepInv, PTL DEF Spec

\* DailyLimit never shrinks as a domain ages and stays between Day1 and Full,
\* for every ramp config.validate accepts: its legs meet at 1, 7 and 30 days
\* in spite of the integer division.
THEOREM RampGrowsAlways == Spec => []RampGrows
<1>1. DomainInv => RampGrows
  <2> SUFFICES ASSUME DomainInv, NEW h \in mem.age..(mem.age + 60)
               PROVE  DailyLimit(h) <= DailyLimit(h + 1) /\ DailyLimit(h) \in Day1..Full
    BY DEF RampGrows
  <2>1. mem.age \in Nat
    BY Fields DEF DomainInv, TypeOK
  <2>2. h \in Nat
    BY <2>1
  <2> QED
    BY <2>2, RampLemma
<1> QED
  BY <1>1, InitInv, StepInv, PTL DEF Spec

\* While Store.dirty is down the file holds what memory holds, although a mere
\* read may change the record and a Save may fail: a Save that is skipped would
\* write nothing new.
THEOREM CleanMeansSavedAlways == Spec => []CleanMeansSaved
<1>1. DomainInv => CleanMeansSaved
  BY DEF DomainInv
<1> QED
  BY <1>1, InitInv, StepInv, PTL DEF Spec
=============================================================================
