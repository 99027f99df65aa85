----------------------------- MODULE Reputation -----------------------------
(***************************************************************************)
(* Sending reputation and warm-up: the record of one sending domain in     *)
(* internal/reputation, the gate MaySend and the report Sent that          *)
(* submission sessions go through (cmd/kavira/main.go), the bounces the    *)
(* queue reports, the periodic Save, and the daemon's stop and restart.    *)
(*                                                                         *)
(* Time goes in half days and scores in half points (decay is one point a  *)
(* day, a delivery earns half a point); a timestamp is kept as the time    *)
(* passed since, counted as far as it makes a difference.                  *)
(***************************************************************************)
EXTENDS Integers, FiniteSets

CONSTANTS
    Sessions,           \* submission sessions of the domain's users
    Day1, Day7, Full,   \* reputation.warmup
    Top, Normal, Burned,\* scores: 200, 100 and 20 (ScoreSuspect/2) half points
    BounceCost,         \* 4 half points
    MaxBounces,         \* bound: bounces
    MaxAge,             \* bound: half days of age counted (60 are 30 days)
    MaxFaults           \* bound: stops and crashes

ASSUME ReputationAssumption ==
    /\ IsFiniteSet(Sessions)
    /\ Day1 \in Nat \ {0} /\ Day7 \in Nat /\ Full \in Nat
    /\ Day1 <= Day7 /\ Day7 <= Full     \* config.validate: the ramp must grow
    /\ Top \in Nat /\ Normal \in 0..Top /\ Burned \in 0..(Normal - 1)
    /\ BounceCost \in Nat
    /\ MaxBounces \in Nat
    /\ MaxAge \in Nat
    /\ MaxFaults \in Nat

VARIABLES
    mem,       \* the record in Store.records
    disk,      \* the record in the JSON file
    dirty,     \* Store.dirty
    phase,     \* of the daemon: up, draining (after SIGTERM), down
    pc,        \* of the sessions: idle, or in DATA past MaySend
    bounces, faults,
    \* observation
    today      \* the messages sent since the day began: all of them, those no
               \* Save has written yet, and those a death has made forgotten

vars == <<mem, disk, dirty, phase, pc, bounces, faults, today>>

HalfDays == 2   \* half days in a day

Fresh == [known |-> TRUE, score |-> Normal, updated |-> 0, age |-> 0,
          daySent |-> 0, day |-> 0]
NoRecord == [Fresh EXCEPT !.known = FALSE]

NewToday == [since |-> 0, sent |-> 0, unsaved |-> 0, lost |-> 0]

Least(a, b) == IF a < b THEN a ELSE b
Most(a, b) == IF a > b THEN a ELSE b

Init ==
    /\ mem = NoRecord
    /\ disk = NoRecord
    /\ dirty = FALSE
    /\ phase = "up"
    /\ pc = [s \in Sessions |-> "idle"]
    /\ bounces = MaxBounces
    /\ faults = MaxFaults
    /\ today = [NewToday EXCEPT !.since = HalfDays]

-----------------------------------------------------------------------------
(***************************************************************************)
(* reputation.go                                                           *)
(***************************************************************************)

\* Seeded fault: every look at the record restarts the decay.
DecayTouches(r) ==
    IF r.updated < HalfDays THEN [r EXCEPT !.updated = 0]
    ELSE [r EXCEPT !.updated = 0,
                   !.score = IF r.score < Normal THEN Least(Normal, r.score + r.updated)
                             ELSE Most(Normal, r.score - r.updated)]

\* A point a day toward Normal, once a day at least has passed since the
\* last event or decay.
Decay(r) ==
    IF r.updated < HalfDays THEN r
    ELSE [r EXCEPT !.updated = 0,
                   !.score = IF r.score < Normal THEN Least(Normal, r.score + r.updated)
                             ELSE Most(Normal, r.score - r.updated)]

\* The daily counter starts over 24 hours after it last did.
Rollover(r) == IF r.day < HalfDays THEN r ELSE [r EXCEPT !.daySent = 0, !.day = 0]

\* get: every read of the record brings it up to date.
Get(r) == IF r.known THEN Rollover(Decay(r)) ELSE Fresh

\* Seeded fault: the second leg of the ramp starts from the wrong cap.
DailyLimitGap(h) ==
    IF h <= 2 THEN Day1
    ELSE IF h >= 60 THEN Full
    ELSE IF h <= 14 THEN Day1 + ((h - 2) * (Day7 - Day1)) \div 12
    ELSE Day1 + ((h - 14) * (Full - Day7)) \div 46

\* DailyLimit at the age of h half days: Day1 on the first day, Day7 after
\* a week, Full after thirty days, linear in between.
DailyLimit(h) ==
    IF h <= 2 THEN Day1
    ELSE IF h >= 60 THEN Full
    ELSE IF h <= 14 THEN Day1 + ((h - 2) * (Day7 - Day1)) \div 12
    ELSE Day7 + ((h - 14) * (Full - Day7)) \div 46

Clamp(n) == Most(0, Least(Top, n))

Blocked(r) == r.score <= Burned

\* Seeded fault: the gate takes one message more.
AllowSendOneMore(r) == r.daySent <= DailyLimit(r.age)

AllowSend(r) == r.daySent < DailyLimit(r.age)

\* Record of an event worth d half points.
Record(d, sent) ==
    LET r == Get(mem)
    IN /\ mem' = [r EXCEPT !.score = Clamp(r.score + d), !.updated = 0,
                           !.daySent = r.daySent + sent]
       /\ dirty' = TRUE

\* Save: the whole file is replaced, when something changed ...
SaveOk ==
    /\ disk' = IF dirty THEN mem ELSE disk
    /\ dirty' = FALSE
    /\ today' = [today EXCEPT !.unsaved = 0]

\* Seeded fault: the flag is lowered before the file is written.
SaveFailsClean == dirty /\ dirty' = FALSE /\ UNCHANGED <<disk, today>>

\* ... or the directory, the file or the rename fails, which saveState logs:
\* the record stays marked, and the next Save tries again.
SaveFails == dirty /\ UNCHANGED <<disk, dirty, today>>

Save == SaveOk \/ SaveFails

\* get has looked at the record, and n messages were sent.  A day begins when
\* the counter starts over, but no sooner than 24 hours after the last one
\* did, whatever a restarted daemon remembers of it.
Counted(n) ==
    LET over == (mem.known => mem.day >= HalfDays) /\ today.since >= HalfDays
        t == IF over THEN NewToday ELSE today
    IN today' = [t EXCEPT !.sent = @ + n, !.unsaved = @ + n]

-----------------------------------------------------------------------------
(***************************************************************************)
(* The submission sessions, the queue and the daemon, main.go              *)
(***************************************************************************)

\* MaySend at the start of DATA: Blocked and AllowSend, one lock each; the
\* lock is not held until the message is accepted.
MaySend(s) ==
    LET r == Get(mem)
    IN /\ phase # "down"
       /\ pc[s] = "idle"
       /\ mem' = r
       /\ dirty' = (dirty \/ r # mem)
       /\ pc' = [pc EXCEPT ![s] = IF ~Blocked(r) /\ AllowSend(r) THEN "data" ELSE "idle"]
       /\ Counted(0)
       /\ UNCHANGED <<disk, phase, bounces, faults>>

\* Sent: the message was accepted, whatever its number of recipients.
Sent(s) ==
    /\ phase # "down"
    /\ pc[s] = "data"
    /\ Record(1, 1)
    /\ Counted(1)
    /\ pc' = [pc EXCEPT ![s] = "idle"]
    /\ UNCHANGED <<disk, phase, bounces, faults>>

\* The message was too big, failed for every recipient, or never arrived.
NotSent(s) ==
    /\ phase # "down"
    /\ pc[s] = "data"
    /\ pc' = [pc EXCEPT ![s] = "idle"]
    /\ UNCHANGED <<mem, disk, dirty, phase, bounces, faults, today>>

\* bounceFn records EventBounce; the scheduler runs until the process ends.
Bounce ==
    /\ phase # "down"
    /\ bounces > 0
    /\ bounces' = bounces - 1
    /\ Record(-BounceCost, 0)
    /\ Counted(0)
    /\ UNCHANGED <<disk, phase, pc, faults>>

\* The five-minute ticker, stopped by SIGTERM.
PeriodicSave ==
    /\ phase = "up"
    /\ dirty
    /\ Save
    /\ UNCHANGED <<mem, phase, pc, bounces, faults>>

\* SIGTERM: the state is saved, or not, then the servers are asked to finish.
Terminate ==
    /\ phase = "up"
    /\ faults > 0
    /\ faults' = faults - 1
    /\ Save
    /\ phase' = "draining"
    /\ UNCHANGED <<mem, pc, bounces>>

\* What is in memory goes.
Down ==
    /\ phase' = "down"
    /\ mem' = NoRecord
    /\ dirty' = FALSE
    /\ pc' = [s \in Sessions |-> "idle"]
    /\ today' = [today EXCEPT !.lost = @ + today.unsaved, !.unsaved = 0]

\* Every session ended, or the thirty seconds are over.
Exit ==
    /\ phase = "draining"
    /\ Down
    /\ UNCHANGED <<disk, bounces, faults>>

Crash ==
    /\ phase # "down"
    /\ faults > 0
    /\ faults' = faults - 1
    /\ Down
    /\ UNCHANGED <<disk, bounces>>

\* reputation.Open.
Start ==
    /\ phase = "down"
    /\ phase' = "up"
    /\ mem' = disk
    /\ UNCHANGED <<disk, dirty, pc, bounces, faults, today>>

Older(r) ==
    IF ~r.known THEN r
    ELSE [r EXCEPT !.updated = Least(Top, @ + 1), !.age = Least(MaxAge, @ + 1),
                   !.day = Least(HalfDays, @ + 1)]

Tick ==
    /\ Older(mem) # mem \/ Older(disk) # disk \/ today.since < HalfDays
    /\ mem' = Older(mem)
    /\ disk' = Older(disk)
    /\ today' = [today EXCEPT !.since = Least(HalfDays, @ + 1)]
    /\ UNCHANGED <<dirty, phase, pc, bounces, faults>>

Next ==
    \/ \E s \in Sessions : MaySend(s) \/ Sent(s) \/ NotSent(s)
    \/ Bounce \/ PeriodicSave \/ Terminate \/ Exit \/ Crash \/ Start \/ Tick

Spec == Init /\ [][Next]_vars

(***************************************************************************)
(* Fairness: time passes, a stopped daemon exits and is started again.     *)
(***************************************************************************)
FairSpec == Spec /\ WF_vars(Tick) /\ WF_vars(Exit) /\ WF_vars(Start)

-----------------------------------------------------------------------------
(***************************************************************************)
(* Properties                                                              *)
(***************************************************************************)
Records == [known : BOOLEAN, score : 0..Top, updated : 0..Top, age : 0..MaxAge,
            daySent : Nat, day : 0..HalfDays]

\* The shape of the state.  A score stays within 0 and Top, and the file
\* never knows a subject the memory of a running daemon has forgotten.
TypeOK ==
    /\ mem \in Records
    /\ disk \in Records
    /\ dirty \in BOOLEAN
    /\ phase \in {"up", "draining", "down"}
    /\ pc \in [Sessions -> {"idle", "data"}]
    /\ bounces \in Nat
    /\ faults \in Nat
    /\ today \in [since : 0..HalfDays, sent : Nat, unsaved : Nat, lost : Nat]
    /\ phase # "down" /\ disk.known => mem.known

\* MaySend reads the count at the start of DATA and Sent raises it at the
\* end: between the two every session of the domain may have passed the
\* gate.  And a count is on disk only after a Save: what was sent since the
\* last one that worked is forgotten by a crash, and by the exit of a daemon
\* whose sessions went on while it drained.  Beyond what was forgotten, the
\* messages sent in a day exceed the cap by less than the number of sessions.
OvershootBounded ==
    phase # "down" =>
        today.sent + Cardinality({s \in Sessions : pc[s] = "data"})
            < DailyLimit(mem.age) + Cardinality(Sessions) + today.lost

\* From any age a domain is met at, over the thirty days of the ramp and
\* beyond, its allowance never shrinks and stays between Day1 and Full
\* (DailyLimit's legs meet at 1, 7 and 30 days).
RampGrows ==
    \A h \in mem.age..(mem.age + 60) :
        /\ DailyLimit(h) <= DailyLimit(h + 1)
        /\ DailyLimit(h) \in Day1..Full

\* A burned sender "is refused with 450 until it recovers" (README): once
\* bounces stop coming it does recover, however often it keeps trying.
Recovers == Blocked(Get(mem)) ~> ~Blocked(Get(mem))

\* While Store.dirty is down, nothing would be lost by dying: memory and file
\* agree.  Every read may change the record (get decays the score and rolls
\* the day over), Save skips the write when the flag is down, and a Save that
\* fails must leave it up, also the last one before the daemon drains.
CleanMeansSaved == phase # "down" /\ ~dirty => mem = disk
=============================================================================
