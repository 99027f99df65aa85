---------------------------- MODULE QueueProofs ----------------------------
(***************************************************************************)
(* The safety of the outbound queue for every number of envelopes,         *)
(* attempts, MX hosts and faults.                                          *)
(*                                                                         *)
(* The properties are not inductive by themselves: a pass works on copies  *)
(* of the envelopes and several steps lie between a remote answer and the  *)
(* file operation that records it.  QueueInv ties the copies to the files  *)
(* (Snapshot), says what is already true while a removal is pending        *)
(* (Removal), and states the two counting bounds for an envelope at rest   *)
(* as well as for the one under way (Duplicates, Attempts).                *)
(***************************************************************************)
EXTENDS Queue, TLAPS

\* Ids beyond last were never seen.
Fresh == \A i \in Ids : i > last => /\ i \notin files
                                    /\ copies[i] = 0 /\ dsn[i] = 0
                                    /\ tries[i] = 0

\* The copies the pass holds are the files' contents.
Snapshot ==
    /\ due \subseteq files
    /\ cur \notin due
    /\ InAttempt => cur \in files
    /\ \A i \in due : memAtt[i] = att[i]
    /\ \A i \in Ids : att[i] < MaxAttempts
    /\ pc = "send" => memAtt[cur] = att[cur]
    /\ pc = "update" => memAtt[cur] = att[cur] + 1 /\ memAtt[cur] < MaxAttempts

\* A removal is pending only once the envelope's fate is settled.
Removal == pc = "remove" => Settled(cur)

Removing(i) == pc = "remove" /\ cur = i

DuplicatesOf(i) ==
    copies[i] + dsn[i] <= redo[i] + unanswered[i] +
                          IF i \in files /\ ~Removing(i) THEN 0 ELSE 1

AttemptsOf(i) ==
    tries[i] <= redo[i] + att[i] +
                IF i \in files /\ ~(InAttempt /\ cur = i) THEN 0 ELSE 1

Duplicates == \A i \in Ids : DuplicatesOf(i)

Attempts == \A i \in Ids : AttemptsOf(i)

QueueInv ==
    /\ TypeOK
    /\ Fresh
    /\ Snapshot
    /\ Removal
    /\ NoSilentLoss
    /\ Duplicates
    /\ Attempts

-----------------------------------------------------------------------------
\* backoff of a counted attempt is a natural number of minutes.
LEMMA BackoffType == ASSUME NEW n \in Nat \ {0} PROVE Backoff(n) \in Nat
BY DEF Backoff

\* Initially nothing is queued and everything holds.
LEMMA InitInv == Init => QueueInv
BY QueueAssumption DEF Init, QueueInv, TypeOK, Fresh, Snapshot, Removal, NoSilentLoss,
   Duplicates, DuplicatesOf, Attempts, AttemptsOf, Ids, Froms, PCs, InAttempt,
   Settled, Removing

\* The envelope under way is a queued one.
LEMMA CurrentIn == ASSUME QueueInv, InAttempt PROVE cur \in Ids /\ cur \in files /\ cur \notin due
BY DEF QueueInv, TypeOK, Snapshot, Ids

\* Every step keeps QueueInv: one case per action, one step per conjunct.
LEMMA StepInv == QueueInv /\ [Next]_vars => QueueInv'
<1> SUFFICES ASSUME QueueInv, [Next]_vars PROVE QueueInv'
  OBVIOUS
<1> USE QueueAssumption DEF QueueInv, diskVars, schedVars, obsVars
<1>1. CASE \E f \in Froms : Enqueue(f)
  <2> PICK f \in Froms : Enqueue(f)
    BY <1>1
  <2>0. /\ last + 1 \in Ids /\ last + 1 \notin files
        /\ copies[last + 1] = 0 /\ dsn[last + 1] = 0 /\ tries[last + 1] = 0
        /\ InAttempt => cur # last + 1
    BY DEF Enqueue, TypeOK, Ids, Fresh, Snapshot
  <2>1. TypeOK'
    <3>0. last' \in 0..MaxId
      BY <2>0 DEF Enqueue, TypeOK, Ids
    <3>1. files' \in SUBSET Ids
      BY <2>0 DEF Enqueue, TypeOK
    <3>2. from' \in [Ids -> Froms] /\ att' \in [Ids -> Nat] /\ wait' \in [Ids -> Nat]
      BY <2>0 DEF Enqueue, TypeOK
    <3> QED
      BY <3>0, <3>1, <3>2 DEF Enqueue, TypeOK, InAttempt
  <2>2. Fresh'
    <3> SUFFICES ASSUME NEW i \in Ids, i > last'
                 PROVE  /\ i \notin files' /\ copies'[i] = 0
                        /\ dsn'[i] = 0 /\ tries'[i] = 0
      BY DEF Fresh
    <3>1. i > last /\ i # last + 1
      BY DEF Enqueue, TypeOK, Ids
    <3> QED
      BY <3>1 DEF Enqueue, Fresh
  <2>3. Snapshot'
    <3>1. due' \subseteq files' /\ cur' \notin due' /\ (InAttempt' => cur' \in files')
      BY <2>0 DEF Enqueue, TypeOK, Snapshot, InAttempt
    <3>2. \A i \in files : att'[i] = att[i]
      BY <2>0 DEF Enqueue, TypeOK
    <3>3. \A i \in Ids : att'[i] < MaxAttempts
      BY <2>0 DEF Enqueue, TypeOK, Snapshot
    <3> QED
      BY <2>0, <3>1, <3>2, <3>3 DEF Enqueue, Snapshot, InAttempt
  <2>4. Removal'
    BY <2>0 DEF Enqueue, TypeOK, Removal, Settled, Ids, InAttempt
  <2>5. NoSilentLoss'
    BY <2>0 DEF Enqueue, TypeOK, NoSilentLoss, Removal, Settled, Ids, InAttempt
  <2>6. Duplicates'
    <3> SUFFICES ASSUME NEW i \in Ids PROVE DuplicatesOf(i)'
      BY DEF Duplicates
    <3>1. copies[i] \in Nat /\ dsn[i] \in Nat /\ redo[i] \in Nat /\ unanswered[i] \in Nat
      BY DEF TypeOK
    <3>2. CASE i = last + 1
      BY <2>0, <3>1, <3>2 DEF Enqueue, Duplicates, DuplicatesOf, Removing, InAttempt
    <3>3. CASE i # last + 1
      <4>1. (i \in files' <=> i \in files) /\ (Removing(i)' <=> Removing(i))
        BY <3>3 DEF Enqueue, Removing
      <4> QED
        BY <4>1, <3>1 DEF Enqueue, Duplicates, DuplicatesOf
    <3> QED
      BY <3>2, <3>3
  <2>7. Attempts'
    <3> SUFFICES ASSUME NEW i \in Ids PROVE AttemptsOf(i)'
      BY DEF Attempts
    <3>1. tries[i] \in Nat /\ redo[i] \in Nat /\ att[i] \in Nat
      BY DEF TypeOK
    <3>2. CASE i = last + 1
      BY <2>0, <3>1, <3>2 DEF Enqueue, Attempts, AttemptsOf, InAttempt, TypeOK, Snapshot
    <3>3. CASE i # last + 1
      BY <2>0, <3>1, <3>3 DEF Enqueue, Attempts, AttemptsOf, InAttempt, TypeOK
    <3> QED
      BY <3>2, <3>3
  <2> QED
    BY <2>1, <2>2, <2>3, <2>4, <2>5, <2>6, <2>7
<1>2. CASE Process
  <2>1. TypeOK'
    BY <1>2 DEF Process, ProcessWith, Due, TypeOK, PCs, InAttempt
  <2>2. Fresh'
    BY <1>2 DEF Process, ProcessWith, Due, TypeOK, Fresh, Snapshot, Ids, InAttempt
  <2>3. Snapshot'
    BY <1>2 DEF Process, ProcessWith, Due, TypeOK, Snapshot, InAttempt, Ids
  <2>4. Removal'
    BY <1>2 DEF Process, ProcessWith, Due, TypeOK, Removal, Settled, Ids, InAttempt
  <2>5. NoSilentLoss'
    BY <1>2 DEF Process, ProcessWith, Due, TypeOK, NoSilentLoss, Removal, Settled, Ids, InAttempt
  <2>6. Duplicates'
    BY <1>2 DEF Process, ProcessWith, Due, TypeOK, Snapshot, Duplicates, DuplicatesOf, Removing, InAttempt
  <2>7. Attempts'
    BY <1>2 DEF Process, ProcessWith, Due, TypeOK, Snapshot, Attempts, AttemptsOf, InAttempt
  <2> QED
    BY <2>1, <2>2, <2>3, <2>4, <2>5, <2>6, <2>7
<1>3. CASE \E i \in Ids : ProcessSkips(i)
  <2> PICK k \in Ids : ProcessSkips(k)
    BY <1>3
  <2>0. cur = 0 /\ pc = "idle"
    BY DEF ProcessSkips, ProcessWith, TypeOK, InAttempt
  <2>1. TypeOK'
    BY <2>0 DEF ProcessSkips, ProcessWith, Due, Fault, TypeOK, PCs, InAttempt
  <2>2. Fresh'
    BY <2>0 DEF ProcessSkips, ProcessWith, Due, Fault, TypeOK, Fresh, Snapshot, Ids, InAttempt
  <2>3. Snapshot'
    <3>1. due' \subseteq files /\ cur = 0 /\ cur' \notin due'
      BY <2>0 DEF ProcessSkips, ProcessWith, Due, TypeOK, InAttempt, Ids
    <3> QED
      BY <2>0, <3>1 DEF ProcessSkips, ProcessWith, Due, TypeOK, InAttempt, Snapshot
  <2>4. Removal'
    BY <2>0 DEF ProcessSkips, ProcessWith, Due, Fault, TypeOK, Removal, Settled, Ids, InAttempt
  <2>5. NoSilentLoss'
    BY <2>0 DEF ProcessSkips, ProcessWith, Due, Fault, TypeOK, NoSilentLoss, Removal, Settled, Ids, InAttempt
  <2>6. Duplicates'
    BY <2>0 DEF ProcessSkips, ProcessWith, Due, Fault, TypeOK, Snapshot, Duplicates, DuplicatesOf, Removing, InAttempt
  <2>7. Attempts'
    BY <2>0 DEF ProcessSkips, ProcessWith, Due, Fault, TypeOK, Snapshot, Attempts, AttemptsOf, InAttempt
  <2> QED
    BY <2>1, <2>2, <2>3, <2>4, <2>5, <2>6, <2>7
<1>4. CASE EndPass
  <2>1. TypeOK'
    BY <1>4 DEF EndPass, TypeOK, PCs, InAttempt
  <2>2. Fresh'
    BY <1>4 DEF EndPass, TypeOK, Fresh, Snapshot, Ids, InAttempt
  <2>3. Snapshot'
    BY <1>4 DEF EndPass, TypeOK, Snapshot, InAttempt, Ids
  <2>4. Removal'
    BY <1>4 DEF EndPass, TypeOK, Removal, Settled, Ids, InAttempt
  <2>5. NoSilentLoss'
    BY <1>4 DEF EndPass, TypeOK, NoSilentLoss, Removal, Settled, Ids, InAttempt
  <2>6. Duplicates'
    BY <1>4 DEF EndPass, TypeOK, Snapshot, Duplicates, DuplicatesOf, Removing, InAttempt
  <2>7. Attempts'
    BY <1>4 DEF EndPass, TypeOK, Snapshot, Attempts, AttemptsOf, InAttempt
  <2> QED
    BY <2>1, <2>2, <2>3, <2>4, <2>5, <2>6, <2>7
<1>5. CASE \E i \in Ids, n \in 1..MaxMX : Attempt(i, n)
  <2> PICK k \in Ids, n \in 1..MaxMX : Attempt(k, n)
    BY <1>5
  <2>0. k \in files /\ k \in due /\ pc = "pass" /\ cur = 0
    BY DEF Attempt, Snapshot, TypeOK, InAttempt
  <2>1. TypeOK'
    <3>1. tries' \in [Ids -> Nat] /\ hosts' \in Nat /\ cur' \in 0..MaxId /\ cur' # 0
      BY <2>0 DEF Attempt, TypeOK, Ids
    <3> QED
      BY <3>1 DEF Attempt, TypeOK, PCs, InAttempt
  <2>2. Fresh'
    BY <2>0 DEF Attempt, TypeOK, Fresh, Snapshot, Ids, InAttempt
  <2>3. Snapshot'
    BY <2>0 DEF Attempt, TypeOK, Snapshot, InAttempt, Ids
  <2>4. Removal'
    BY <2>0 DEF Attempt, TypeOK, Removal, Settled, Ids, InAttempt
  <2>5. NoSilentLoss'
    BY <2>0 DEF Attempt, TypeOK, NoSilentLoss, Removal, Settled, Ids, InAttempt
  <2>6. Duplicates'
    BY <2>0 DEF Attempt, TypeOK, Snapshot, Duplicates, DuplicatesOf, Removing, InAttempt
  <2>7. Attempts'
    <3> SUFFICES ASSUME NEW i \in Ids PROVE AttemptsOf(i)'
      BY DEF Attempts
    <3>1. tries[i] \in Nat /\ redo[i] \in Nat /\ att[i] \in Nat
      BY DEF TypeOK
    <3>2. CASE i = k
      BY <2>0, <3>1, <3>2 DEF Attempt, Attempts, AttemptsOf, TypeOK, InAttempt
    <3>3. CASE i # k
      BY <2>0, <3>1, <3>3 DEF Attempt, Attempts, AttemptsOf, TypeOK, InAttempt
    <3> QED
      BY <3>2, <3>3
  <2> QED
    BY <2>1, <2>2, <2>3, <2>4, <2>5, <2>6, <2>7
<1>6. CASE SendOk
  <2>0. cur \in Ids /\ cur \in files /\ cur \notin due /\ pc = "send"
    BY <1>6, CurrentIn DEF SendOk, InAttempt
  <2>1. TypeOK'
    BY <1>6, <2>0 DEF SendOk, TypeOK, PCs, InAttempt
  <2>2. Fresh'
    BY <1>6, <2>0 DEF SendOk, TypeOK, Fresh, Snapshot, Ids, InAttempt
  <2>3. Snapshot'
    BY <1>6, <2>0 DEF SendOk, TypeOK, Snapshot, InAttempt, Ids
  <2>4. Removal'
    <3>1. copies'[cur] > 0
      BY <1>6, <2>0 DEF SendOk, TypeOK
    <3> QED
      BY <1>6, <3>1 DEF SendOk, Removal, Settled
  <2>5. NoSilentLoss'
    <3>1. files' = files /\ last' = last /\ dsn' = dsn /\ dropped' = dropped
      BY <1>6 DEF SendOk
    <3>2. \A i \in Ids : copies[i] > 0 => copies'[i] > 0
      BY <1>6, <2>0 DEF SendOk, TypeOK
    <3>3. 1..last \subseteq Ids
      BY DEF TypeOK, Ids
    <3> QED
      BY <3>1, <3>2, <3>3 DEF NoSilentLoss, Settled
  <2>6. Duplicates'
    <3> SUFFICES ASSUME NEW i \in Ids PROVE DuplicatesOf(i)'
      BY DEF Duplicates
    <3>1. copies[i] \in Nat /\ dsn[i] \in Nat /\ redo[i] \in Nat /\ unanswered[i] \in Nat
      BY DEF TypeOK
    <3>2. CASE i = cur
      BY <1>6, <2>0, <3>1, <3>2 DEF SendOk, Duplicates, DuplicatesOf, Removing, TypeOK, InAttempt
    <3>3. CASE i # cur
      BY <1>6, <2>0, <3>1, <3>3 DEF SendOk, Duplicates, DuplicatesOf, Removing, TypeOK, InAttempt
    <3> QED
      BY <3>2, <3>3
  <2>7. Attempts'
    BY <1>6, <2>0 DEF SendOk, TypeOK, Snapshot, Attempts, AttemptsOf, InAttempt
  <2> QED
    BY <2>1, <2>2, <2>3, <2>4, <2>5, <2>6, <2>7
<1>7. CASE SendUnanswered
  <2>0. cur \in Ids /\ cur \in files /\ cur \notin due /\ pc = "send"
    BY <1>7, CurrentIn DEF SendUnanswered, InAttempt
  <2>1. TypeOK'
    <3>1. memAtt' \in [Ids -> Nat] /\ hosts' \in Nat /\ pc' \in {"send", "bounce", "update"}
      BY <1>7, <2>0 DEF SendUnanswered, AfterTransient, TypeOK
    <3>2. copies' \in [Ids -> Nat] /\ unanswered' \in [Ids -> Nat] /\ faults' \in Nat
      BY <1>7, <2>0 DEF SendUnanswered, Fault, TypeOK
    <3> QED
      BY <1>7, <2>0, <3>1, <3>2 DEF SendUnanswered, TypeOK, PCs, InAttempt
  <2>2. Fresh'
    BY <1>7, <2>0 DEF SendUnanswered, AfterTransient, Fault, TypeOK, Fresh, Snapshot, Ids, InAttempt
  <2>3. Snapshot'
    <3>1. CASE hosts > 1
      BY <1>7, <2>0, <3>1 DEF SendUnanswered, AfterTransient, Snapshot, InAttempt
    <3>2. CASE ~(hosts > 1)
      <4>1. memAtt'[cur] = att[cur] + 1 /\ att[cur] \in Nat
        BY <1>7, <2>0, <3>2 DEF SendUnanswered, AfterTransient, Snapshot, TypeOK
      <4>2. \A i \in due : memAtt'[i] = memAtt[i]
        BY <1>7, <2>0, <3>2 DEF SendUnanswered, AfterTransient, TypeOK
      <4>3. pc' = "update" => memAtt'[cur] < MaxAttempts
        BY <1>7, <2>0, <3>2, <4>1 DEF SendUnanswered, AfterTransient, Snapshot, TypeOK
      <4> QED
        BY <1>7, <2>0, <3>2, <4>1, <4>2, <4>3 DEF SendUnanswered, AfterTransient, Snapshot, InAttempt
    <3> QED
      BY <3>1, <3>2
  <2>4. Removal'
    BY <1>7, <2>0 DEF SendUnanswered, AfterTransient, Fault, TypeOK, Removal, Settled, Ids, InAttempt
  <2>5. NoSilentLoss'
    <3>1. files' = files /\ last' = last /\ dsn' = dsn /\ dropped' = dropped
      BY <1>7 DEF SendUnanswered
    <3>2. \A i \in Ids : copies[i] > 0 => copies'[i] > 0
      BY <1>7, <2>0 DEF SendUnanswered, TypeOK
    <3>3. 1..last \subseteq Ids
      BY DEF TypeOK, Ids
    <3> QED
      BY <3>1, <3>2, <3>3 DEF NoSilentLoss, Settled
  <2>6. Duplicates'
    <3> SUFFICES ASSUME NEW i \in Ids PROVE DuplicatesOf(i)'
      BY DEF Duplicates
    <3>1. copies[i] \in Nat /\ dsn[i] \in Nat /\ redo[i] \in Nat /\ unanswered[i] \in Nat
      BY DEF TypeOK
    <3>2. CASE i = cur
      BY <1>7, <2>0, <3>1, <3>2 DEF SendUnanswered, AfterTransient, Fault, Duplicates, DuplicatesOf, Removing, TypeOK, InAttempt
    <3>3. CASE i # cur
      BY <1>7, <2>0, <3>1, <3>3 DEF SendUnanswered, AfterTransient, Fault, Duplicates, DuplicatesOf, Removing, TypeOK, InAttempt
    <3> QED
      BY <3>2, <3>3
  <2>7. Attempts'
    BY <1>7, <2>0 DEF SendUnanswered, AfterTransient, Fault, TypeOK, Snapshot, Attempts, AttemptsOf, InAttempt
  <2> QED
    BY <2>1, <2>2, <2>3, <2>4, <2>5, <2>6, <2>7
<1>8. CASE SendTransient
  <2>0. cur \in Ids /\ cur \in files /\ cur \notin due /\ pc = "send"
    BY <1>8, CurrentIn DEF SendTransient, InAttempt
  <2>1. TypeOK'
    <3>1. memAtt' \in [Ids -> Nat] /\ hosts' \in Nat /\ pc' \in {"send", "bounce", "update"}
      BY <1>8, <2>0 DEF SendTransient, AfterTransient, TypeOK
    <3> QED
      BY <1>8, <2>0, <3>1 DEF SendTransient, TypeOK, PCs, InAttempt
  <2>2. Fresh'
    BY <1>8, <2>0 DEF SendTransient, AfterTransient, TypeOK, Fresh, Snapshot, Ids, InAttempt
  <2>3. Snapshot'
    <3>1. CASE hosts > 1
      BY <1>8, <2>0, <3>1 DEF SendTransient, AfterTransient, Snapshot, InAttempt
    <3>2. CASE ~(hosts > 1)
      <4>1. memAtt'[cur] = att[cur] + 1 /\ att[cur] \in Nat
        BY <1>8, <2>0, <3>2 DEF SendTransient, AfterTransient, Snapshot, TypeOK
      <4>2. \A i \in due : memAtt'[i] = memAtt[i]
        BY <1>8, <2>0, <3>2 DEF SendTransient, AfterTransient, TypeOK
      <4>3. pc' = "update" => memAtt'[cur] < MaxAttempts
        BY <1>8, <2>0, <3>2, <4>1 DEF SendTransient, AfterTransient, Snapshot, TypeOK
      <4> QED
        BY <1>8, <2>0, <3>2, <4>1, <4>2, <4>3 DEF SendTransient, AfterTransient, Snapshot, InAttempt
    <3> QED
      BY <3>1, <3>2
  <2>4. Removal'
    BY <1>8, <2>0 DEF SendTransient, AfterTransient, TypeOK, Removal, Settled, Ids, InAttempt
  <2>5. NoSilentLoss'
    BY <1>8, <2>0 DEF SendTransient, AfterTransient, TypeOK, NoSilentLoss, Removal, Settled, Ids, InAttempt
  <2>6. Duplicates'
    BY <1>8, <2>0 DEF SendTransient, AfterTransient, TypeOK, Snapshot, Duplicates, DuplicatesOf, Removing, InAttempt
  <2>7. Attempts'
    <3> SUFFICES ASSUME NEW i \in Ids PROVE AttemptsOf(i)'
      BY DEF Attempts
    <3>1. tries[i] \in Nat /\ redo[i] \in Nat /\ att[i] \in Nat
      BY DEF TypeOK
    <3>2. CASE i = cur
      BY <1>8, <2>0, <3>1, <3>2 DEF SendTransient, AfterTransient, Attempts, AttemptsOf, TypeOK, InAttempt
    <3>3. CASE i # cur
      BY <1>8, <2>0, <3>1, <3>3 DEF SendTransient, AfterTransient, Attempts, AttemptsOf, TypeOK, InAttempt
    <3> QED
      BY <3>2, <3>3
  <2> QED
    BY <2>1, <2>2, <2>3, <2>4, <2>5, <2>6, <2>7
<1>9. CASE SendRefused
  <2>0. cur \in Ids /\ cur \in files /\ cur \notin due /\ pc = "send"
    BY <1>9, CurrentIn DEF SendRefused, InAttempt
  <2>1. TypeOK'
    BY <1>9, <2>0 DEF SendRefused, TypeOK, PCs, InAttempt
  <2>2. Fresh'
    BY <1>9, <2>0 DEF SendRefused, TypeOK, Fresh, Snapshot, Ids, InAttempt
  <2>3. Snapshot'
    BY <1>9, <2>0 DEF SendRefused, TypeOK, Snapshot, InAttempt, Ids
  <2>4. Removal'
    BY <1>9, <2>0 DEF SendRefused, TypeOK, Removal, Settled, Ids, InAttempt
  <2>5. NoSilentLoss'
    BY <1>9, <2>0 DEF SendRefused, TypeOK, NoSilentLoss, Removal, Settled, Ids, InAttempt
  <2>6. Duplicates'
    BY <1>9, <2>0 DEF SendRefused, TypeOK, Snapshot, Duplicates, DuplicatesOf, Removing, InAttempt
  <2>7. Attempts'
    BY <1>9, <2>0 DEF SendRefused, TypeOK, Snapshot, Attempts, AttemptsOf, InAttempt
  <2> QED
    BY <2>1, <2>2, <2>3, <2>4, <2>5, <2>6, <2>7
<1>10. CASE Bounce
  <2>0. cur \in Ids /\ cur \in files /\ cur \notin due /\ pc = "bounce"
    BY <1>10, CurrentIn DEF Bounce, InAttempt
  <2>1. TypeOK'
    <3>1. penalties' \in [Ids -> Nat] /\ dsn' \in [Ids -> Nat]
      BY <1>10, <2>0 DEF Bounce, TypeOK
    <3>2. dropped' \in SUBSET Ids
      BY <1>10, <2>0 DEF Bounce, TypeOK
    <3>3. faults' \in Nat
      BY <1>10 DEF Bounce, Fault, TypeOK
    <3> QED
      BY <1>10, <2>0, <3>1, <3>2, <3>3 DEF Bounce, TypeOK, PCs, InAttempt
  <2>2. Fresh'
    BY <1>10, <2>0 DEF Bounce, Fault, TypeOK, Fresh, Snapshot, Ids, InAttempt
  <2>3. Snapshot'
    BY <1>10, <2>0 DEF Bounce, Fault, TypeOK, Snapshot, InAttempt, Ids
  <2>4. Removal'
    <3>1. copies[cur] \in Nat /\ dsn[cur] \in Nat
      BY <2>0 DEF TypeOK
    <3>2. dsn' = [dsn EXCEPT ![cur] = @ + 1] \/ cur \in dropped'
      BY <1>10 DEF Bounce
    <3>3. dsn'[cur] > 0 \/ cur \in dropped'
      BY <2>0, <3>1, <3>2 DEF TypeOK
    <3> QED
      BY <1>10, <3>3 DEF Bounce, Removal, Settled
  <2>5. NoSilentLoss'
    <3>1. files' = files /\ last' = last /\ copies' = copies
      BY <1>10 DEF Bounce
    <3>2. dropped \subseteq dropped'
      BY <1>10 DEF Bounce
    <3>3. \A i \in Ids : dsn[i] > 0 => dsn'[i] > 0
      BY <1>10, <2>0 DEF Bounce, TypeOK
    <3>4. 1..last \subseteq Ids
      BY DEF TypeOK, Ids
    <3> QED
      BY <3>1, <3>2, <3>3, <3>4 DEF NoSilentLoss, Settled
  <2>6. Duplicates'
    <3> SUFFICES ASSUME NEW i \in Ids PROVE DuplicatesOf(i)'
      BY DEF Duplicates
    <3>1. copies[i] \in Nat /\ dsn[i] \in Nat /\ redo[i] \in Nat /\ unanswered[i] \in Nat
      BY DEF TypeOK
    <3>2. CASE i = cur
      BY <1>10, <2>0, <3>1, <3>2 DEF Bounce, Fault, Duplicates, DuplicatesOf, Removing, TypeOK, InAttempt
    <3>3. CASE i # cur
      BY <1>10, <2>0, <3>1, <3>3 DEF Bounce, Fault, Duplicates, DuplicatesOf, Removing, TypeOK, InAttempt
    <3> QED
      BY <3>2, <3>3
  <2>7. Attempts'
    BY <1>10, <2>0 DEF Bounce, Fault, TypeOK, Snapshot, Attempts, AttemptsOf, InAttempt
  <2> QED
    BY <2>1, <2>2, <2>3, <2>4, <2>5, <2>6, <2>7
<1>11. CASE RemoveOk
  <2>0. cur \in Ids /\ cur \in files /\ cur \notin due /\ pc = "remove"
    BY <1>11, CurrentIn DEF RemoveOk, InAttempt
  <2>1. TypeOK'
    BY <1>11, <2>0 DEF RemoveOk, NextEnvelope, TypeOK, PCs, InAttempt
  <2>2. Fresh'
    BY <1>11, <2>0 DEF RemoveOk, NextEnvelope, TypeOK, Fresh, Snapshot, Ids, InAttempt
  <2>3. Snapshot'
    BY <1>11, <2>0 DEF RemoveOk, NextEnvelope, TypeOK, Snapshot, InAttempt, Ids
  <2>4. Removal'
    BY <1>11, <2>0 DEF RemoveOk, NextEnvelope, TypeOK, Removal, Settled, Ids, InAttempt
  <2>5. NoSilentLoss'
    BY <1>11, <2>0 DEF RemoveOk, NextEnvelope, TypeOK, NoSilentLoss, Removal, Settled, Ids, InAttempt
  <2>6. Duplicates'
    <3> SUFFICES ASSUME NEW i \in Ids PROVE DuplicatesOf(i)'
      BY DEF Duplicates
    <3>1. copies[i] \in Nat /\ dsn[i] \in Nat /\ redo[i] \in Nat /\ unanswered[i] \in Nat
      BY DEF TypeOK
    <3>2. CASE i = cur
      BY <1>11, <2>0, <3>1, <3>2 DEF RemoveOk, NextEnvelope, Duplicates, DuplicatesOf, Removing, TypeOK, InAttempt
    <3>3. CASE i # cur
      BY <1>11, <2>0, <3>1, <3>3 DEF RemoveOk, NextEnvelope, Duplicates, DuplicatesOf, Removing, TypeOK, InAttempt
    <3> QED
      BY <3>2, <3>3
  <2>7. Attempts'
    <3> SUFFICES ASSUME NEW i \in Ids PROVE AttemptsOf(i)'
      BY DEF Attempts
    <3>1. tries[i] \in Nat /\ redo[i] \in Nat /\ att[i] \in Nat
      BY DEF TypeOK
    <3>2. CASE i = cur
      BY <1>11, <2>0, <3>1, <3>2 DEF RemoveOk, NextEnvelope, Attempts, AttemptsOf, TypeOK, InAttempt
    <3>3. CASE i # cur
      BY <1>11, <2>0, <3>1, <3>3 DEF RemoveOk, NextEnvelope, Attempts, AttemptsOf, TypeOK, InAttempt
    <3> QED
      BY <3>2, <3>3
  <2> QED
    BY <2>1, <2>2, <2>3, <2>4, <2>5, <2>6, <2>7
<1>12. CASE RemoveFails
  <2>0. cur \in Ids /\ cur \in files /\ cur \notin due /\ pc = "remove"
    BY <1>12, CurrentIn DEF RemoveFails, InAttempt
  <2>1. TypeOK'
    BY <1>12, <2>0 DEF RemoveFails, NextEnvelope, Fault, TypeOK, PCs, InAttempt
  <2>2. Fresh'
    BY <1>12, <2>0 DEF RemoveFails, NextEnvelope, Fault, TypeOK, Fresh, Snapshot, Ids, InAttempt
  <2>3. Snapshot'
    BY <1>12, <2>0 DEF RemoveFails, NextEnvelope, Fault, TypeOK, Snapshot, InAttempt, Ids
  <2>4. Removal'
    BY <1>12, <2>0 DEF RemoveFails, NextEnvelope, Fault, TypeOK, Removal, Settled, Ids, InAttempt
  <2>5. NoSilentLoss'
    BY <1>12, <2>0 DEF RemoveFails, NextEnvelope, Fault, TypeOK, NoSilentLoss, Removal, Settled, Ids, InAttempt
  <2>6. Duplicates'
    <3> SUFFICES ASSUME NEW i \in Ids PROVE DuplicatesOf(i)'
      BY DEF Duplicates
    <3>1. copies[i] \in Nat /\ dsn[i] \in Nat /\ redo[i] \in Nat /\ unanswered[i] \in Nat
      BY DEF TypeOK
    <3>2. CASE i = cur
      BY <1>12, <2>0, <3>1, <3>2 DEF RemoveFails, NextEnvelope, Fault, Duplicates, DuplicatesOf, Removing, TypeOK, InAttempt
    <3>3. CASE i # cur
      BY <1>12, <2>0, <3>1, <3>3 DEF RemoveFails, NextEnvelope, Fault, Duplicates, DuplicatesOf, Removing, TypeOK, InAttempt
    <3> QED
      BY <3>2, <3>3
  <2>7. Attempts'
    <3> SUFFICES ASSUME NEW i \in Ids PROVE AttemptsOf(i)'
      BY DEF Attempts
    <3>1. tries[i] \in Nat /\ redo[i] \in Nat /\ att[i] \in Nat
      BY DEF TypeOK
    <3>2. CASE i = cur
      BY <1>12, <2>0, <3>1, <3>2 DEF RemoveFails, NextEnvelope, Fault, Attempts, AttemptsOf, TypeOK, InAttempt
    <3>3. CASE i # cur
      BY <1>12, <2>0, <3>1, <3>3 DEF RemoveFails, NextEnvelope, Fault, Attempts, AttemptsOf, TypeOK, InAttempt
    <3> QED
      BY <3>2, <3>3
  <2> QED
    BY <2>1, <2>2, <2>3, <2>4, <2>5, <2>6, <2>7
<1>13. CASE UpdateOk
  <2>0. cur \in Ids /\ cur \in files /\ cur \notin due /\ pc = "update"
    BY <1>13, CurrentIn DEF UpdateOk, InAttempt
  <2>1. TypeOK'
    <3>1. Backoff(memAtt[cur]) \in Nat
      BY <1>13, <2>0, BackoffType DEF UpdateOk, TypeOK, Snapshot
    <3>2. wait' \in [Ids -> Nat]
      BY <1>13, <2>0, <3>1 DEF UpdateOk, TypeOK
    <3>3. files' \in SUBSET Ids /\ att' \in [Ids -> Nat]
      BY <1>13, <2>0 DEF UpdateOk, TypeOK
    <3> QED
      BY <1>13, <3>2, <3>3 DEF UpdateOk, NextEnvelope, TypeOK, PCs, InAttempt
  <2>2. Fresh'
    BY <1>13, <2>0 DEF UpdateOk, NextEnvelope, TypeOK, Fresh, Snapshot, Ids, InAttempt
  <2>3. Snapshot'
    <3>1. att'[cur] = memAtt[cur] /\ \A i \in Ids : i # cur => att'[i] = att[i]
      BY <1>13, <2>0 DEF UpdateOk, TypeOK
    <3>2. cur' = 0 /\ cur' \notin due'
      BY <1>13 DEF UpdateOk, NextEnvelope, TypeOK, Ids
    <3>3. due' \subseteq files' /\ \A i \in due' : i # cur /\ i \in Ids
      BY <1>13, <2>0 DEF UpdateOk, Snapshot, TypeOK
    <3> QED
      BY <1>13, <2>0, <3>1, <3>2, <3>3 DEF UpdateOk, NextEnvelope, Snapshot, InAttempt
  <2>4. Removal'
    BY <1>13, <2>0 DEF UpdateOk, NextEnvelope, TypeOK, Removal, Settled, Ids, InAttempt
  <2>5. NoSilentLoss'
    BY <1>13, <2>0 DEF UpdateOk, NextEnvelope, TypeOK, NoSilentLoss, Removal, Settled, Ids, InAttempt
  <2>6. Duplicates'
    BY <1>13, <2>0 DEF UpdateOk, NextEnvelope, TypeOK, Snapshot, Duplicates, DuplicatesOf, Removing, InAttempt
  <2>7. Attempts'
    <3> SUFFICES ASSUME NEW i \in Ids PROVE AttemptsOf(i)'
      BY DEF Attempts
    <3>1. tries[i] \in Nat /\ redo[i] \in Nat /\ att[i] \in Nat
      BY DEF TypeOK
    <3>2. CASE i = cur
      BY <1>13, <2>0, <3>1, <3>2 DEF UpdateOk, NextEnvelope, Snapshot, Attempts, AttemptsOf, TypeOK, InAttempt
    <3>3. CASE i # cur
      BY <1>13, <2>0, <3>1, <3>3 DEF UpdateOk, NextEnvelope, Snapshot, Attempts, AttemptsOf, TypeOK, InAttempt
    <3> QED
      BY <3>2, <3>3
  <2> QED
    BY <2>1, <2>2, <2>3, <2>4, <2>5, <2>6, <2>7
<1>14. CASE UpdateFails
  <2>0. cur \in Ids /\ cur \in files /\ cur \notin due /\ pc = "update"
    BY <1>14, CurrentIn DEF UpdateFails, InAttempt
  <2>1. TypeOK'
    BY <1>14, <2>0 DEF UpdateFails, NextEnvelope, Fault, TypeOK, PCs, InAttempt
  <2>2. Fresh'
    BY <1>14, <2>0 DEF UpdateFails, NextEnvelope, Fault, TypeOK, Fresh, Snapshot, Ids, InAttempt
  <2>3. Snapshot'
    BY <1>14, <2>0 DEF UpdateFails, NextEnvelope, Fault, TypeOK, Snapshot, InAttempt, Ids
  <2>4. Removal'
    BY <1>14, <2>0 DEF UpdateFails, NextEnvelope, Fault, TypeOK, Removal, Settled, Ids, InAttempt
  <2>5. NoSilentLoss'
    BY <1>14, <2>0 DEF UpdateFails, NextEnvelope, Fault, TypeOK, NoSilentLoss, Removal, Settled, Ids, InAttempt
  <2>6. Duplicates'
    <3> SUFFICES ASSUME NEW i \in Ids PROVE DuplicatesOf(i)'
      BY DEF Duplicates
    <3>1. copies[i] \in Nat /\ dsn[i] \in Nat /\ redo[i] \in Nat /\ unanswered[i] \in Nat
      BY DEF TypeOK
    <3>2. CASE i = cur
      BY <1>14, <2>0, <3>1, <3>2 DEF UpdateFails, NextEnvelope, Fault, Duplicates, DuplicatesOf, Removing, TypeOK, InAttempt
    <3>3. CASE i # cur
      BY <1>14, <2>0, <3>1, <3>3 DEF UpdateFails, NextEnvelope, Fault, Duplicates, DuplicatesOf, Removing, TypeOK, InAttempt
    <3> QED
      BY <3>2, <3>3
  <2>7. Attempts'
    <3> SUFFICES ASSUME NEW i \in Ids PROVE AttemptsOf(i)'
      BY DEF Attempts
    <3>1. tries[i] \in Nat /\ redo[i] \in Nat /\ att[i] \in Nat
      BY DEF TypeOK
    <3>2. CASE i = cur
      BY <1>14, <2>0, <3>1, <3>2 DEF UpdateFails, NextEnvelope, Fault, Attempts, AttemptsOf, TypeOK, InAttempt
    <3>3. CASE i # cur
      BY <1>14, <2>0, <3>1, <3>3 DEF UpdateFails, NextEnvelope, Fault, Attempts, AttemptsOf, TypeOK, InAttempt
    <3> QED
      BY <3>2, <3>3
  <2> QED
    BY <2>1, <2>2, <2>3, <2>4, <2>5, <2>6, <2>7
<1>15. CASE Tick
  <2>1. TypeOK'
    <3>1. wait' \in [Ids -> Nat] /\ elapsed' \in Nat
      BY <1>15 DEF Tick, TypeOK
    <3> QED
      BY <1>15, <3>1 DEF Tick, TypeOK, InAttempt
  <2>2. Fresh'
    BY <1>15 DEF Tick, InPass, TypeOK, Fresh, Snapshot, Ids, InAttempt
  <2>3. Snapshot'
    BY <1>15 DEF Tick, InPass, TypeOK, Snapshot, InAttempt, Ids
  <2>4. Removal'
    BY <1>15 DEF Tick, InPass, TypeOK, Removal, Settled, Ids, InAttempt
  <2>5. NoSilentLoss'
    BY <1>15 DEF Tick, InPass, TypeOK, NoSilentLoss, Removal, Settled, Ids, InAttempt
  <2>6. Duplicates'
    BY <1>15 DEF Tick, InPass, TypeOK, Snapshot, Duplicates, DuplicatesOf, Removing, InAttempt
  <2>7. Attempts'
    BY <1>15 DEF Tick, InPass, TypeOK, Snapshot, Attempts, AttemptsOf, InAttempt
  <2> QED
    BY <2>1, <2>2, <2>3, <2>4, <2>5, <2>6, <2>7
<1>16. CASE Reload
  <2>1. TypeOK'
    BY <1>16 DEF Reload, TypeOK, PCs, InAttempt
  <2>2. Fresh'
    BY <1>16 DEF Reload, TypeOK, Fresh, Snapshot, Ids, InAttempt
  <2>3. Snapshot'
    BY <1>16 DEF Reload, TypeOK, Snapshot, InAttempt, Ids
  <2>4. Removal'
    BY <1>16 DEF Reload, TypeOK, Removal, Settled, Ids, InAttempt
  <2>5. NoSilentLoss'
    BY <1>16 DEF Reload, TypeOK, NoSilentLoss, Removal, Settled, Ids, InAttempt
  <2>6. Duplicates'
    BY <1>16 DEF Reload, TypeOK, Snapshot, Duplicates, DuplicatesOf, Removing, InAttempt
  <2>7. Attempts'
    BY <1>16 DEF Reload, TypeOK, Snapshot, Attempts, AttemptsOf, InAttempt
  <2> QED
    BY <2>1, <2>2, <2>3, <2>4, <2>5, <2>6, <2>7
<1>17. CASE Crash
  <2>0. InAttempt => cur \in Ids /\ cur \in files
    BY CurrentIn
  <2>1. TypeOK'
    <3>1. redo' \in [Ids -> Nat] /\ faults' \in Nat
      BY <1>17, <2>0 DEF Crash, Fault, TypeOK
    <3>2. memAtt' \in [Ids -> Nat]
      BY <1>17 DEF Crash
    <3> QED
      BY <1>17, <3>1, <3>2 DEF Crash, TypeOK, PCs, InAttempt
  <2>2. Fresh'
    BY <1>17, <2>0 DEF Crash, Fault, TypeOK, Fresh, Snapshot, Ids, InAttempt
  <2>3. Snapshot'
    BY <1>17, <2>0 DEF Crash, Fault, TypeOK, Snapshot, InAttempt, Ids
  <2>4. Removal'
    BY <1>17, <2>0 DEF Crash, Fault, TypeOK, Removal, Settled, Ids, InAttempt
  <2>5. NoSilentLoss'
    BY <1>17, <2>0 DEF Crash, Fault, TypeOK, NoSilentLoss, Removal, Settled, Ids, InAttempt
  <2>6. Duplicates'
    <3> SUFFICES ASSUME NEW i \in Ids PROVE DuplicatesOf(i)'
      BY DEF Duplicates
    <3>1. copies[i] \in Nat /\ dsn[i] \in Nat /\ redo[i] \in Nat /\ unanswered[i] \in Nat
      BY DEF TypeOK
    <3>2. CASE i = cur
      BY <1>17, <2>0, <3>1, <3>2 DEF Crash, Fault, Duplicates, DuplicatesOf, Removing, TypeOK, InAttempt
    <3>3. CASE i # cur
      BY <1>17, <2>0, <3>1, <3>3 DEF Crash, Fault, Duplicates, DuplicatesOf, Removing, TypeOK, InAttempt
    <3> QED
      BY <3>2, <3>3
  <2>7. Attempts'
    <3> SUFFICES ASSUME NEW i \in Ids PROVE AttemptsOf(i)'
      BY DEF Attempts
    <3>1. tries[i] \in Nat /\ redo[i] \in Nat /\ att[i] \in Nat
      BY DEF TypeOK
    <3>2. CASE i = cur
      BY <1>17, <2>0, <3>1, <3>2 DEF Crash, Fault, Attempts, AttemptsOf, TypeOK, InAttempt
    <3>3. CASE i # cur
      BY <1>17, <2>0, <3>1, <3>3 DEF Crash, Fault, Attempts, AttemptsOf, TypeOK, InAttempt
    <3> QED
      BY <3>2, <3>3
  <2> QED
    BY <2>1, <2>2, <2>3, <2>4, <2>5, <2>6, <2>7
<1>18. CASE Restart
  <2>1. TypeOK'
    BY <1>18 DEF Restart, TypeOK, PCs, InAttempt
  <2>2. Fresh'
    BY <1>18 DEF Restart, TypeOK, Fresh, Snapshot, Ids, InAttempt
  <2>3. Snapshot'
    BY <1>18 DEF Restart, TypeOK, Snapshot, InAttempt, Ids
  <2>4. Removal'
    BY <1>18 DEF Restart, TypeOK, Removal, Settled, Ids, InAttempt
  <2>5. NoSilentLoss'
    BY <1>18 DEF Restart, TypeOK, NoSilentLoss, Removal, Settled, Ids, InAttempt
  <2>6. Duplicates'
    BY <1>18 DEF Restart, TypeOK, Snapshot, Duplicates, DuplicatesOf, Removing, InAttempt
  <2>7. Attempts'
    BY <1>18 DEF Restart, TypeOK, Snapshot, Attempts, AttemptsOf, InAttempt
  <2> QED
    BY <2>1, <2>2, <2>3, <2>4, <2>5, <2>6, <2>7
<1>19. CASE UNCHANGED vars
  <2>1. TypeOK'
    BY <1>19 DEF vars, TypeOK, PCs, InAttempt
  <2>2. Fresh'
    BY <1>19 DEF vars, TypeOK, Fresh, Snapshot, Ids, InAttempt
  <2>3. Snapshot'
    BY <1>19 DEF vars, TypeOK, Snapshot, InAttempt, Ids
  <2>4. Removal'
    BY <1>19 DEF vars, TypeOK, Removal, Settled, Ids, InAttempt
  <2>5. NoSilentLoss'
    BY <1>19 DEF vars, TypeOK, NoSilentLoss, Removal, Settled, Ids, InAttempt
  <2>6. Duplicates'
    BY <1>19 DEF vars, TypeOK, Snapshot, Duplicates, DuplicatesOf, Removing, InAttempt
  <2>7. Attempts'
    BY <1>19 DEF vars, TypeOK, Snapshot, Attempts, AttemptsOf, InAttempt
  <2> QED
    BY <2>1, <2>2, <2>3, <2>4, <2>5, <2>6, <2>7
<1> QED
  BY <1>1, <1>2, <1>3, <1>4, <1>5, <1>6, <1>7, <1>8, <1>9, <1>10, <1>11, <1>12, <1>13, <1>14, <1>15, <1>16, <1>17, <1>18, <1>19 DEF Next, Send

\* Everything below follows from QueueInv.
LEMMA QueueInvariant == Spec => []QueueInv
<1>1. QueueInv /\ [Next]_vars => QueueInv'
  BY StepInv
<1> QED
  BY <1>1, InitInv, PTL DEF Spec

\* The state of queue and scheduler always has the shape TypeOK states.
THEOREM TypeCorrect == Spec => []TypeOK
<1>1. QueueInv => TypeOK
  BY DEF QueueInv
<1> QED
  BY <1>1, QueueInvariant, PTL

\* No accepted envelope disappears unsettled (scheduler.go attempt removes a
\* file only after the transport or bounceFn is done with it).
THEOREM NoSilentLossAlways == Spec => []NoSilentLoss
<1>1. QueueInv => NoSilentLoss
  BY DEF QueueInv
<1> QED
  BY <1>1, QueueInvariant, PTL

\* Duplicate copies and notifications are bounded by the outcomes that did
\* not reach the disk and by the answers that transport.go trySend did not get.
THEOREM DuplicatesBoundedAlways == Spec => []DuplicatesBounded
<1>1. QueueInv => DuplicatesBounded
  <2> SUFFICES ASSUME QueueInv, NEW i \in Ids
               PROVE  copies[i] + dsn[i] <= 1 + redo[i] + unanswered[i]
    BY DEF DuplicatesBounded
  <2>1. copies[i] \in Nat /\ dsn[i] \in Nat /\ redo[i] \in Nat /\ unanswered[i] \in Nat
    BY DEF QueueInv, TypeOK
  <2>2. DuplicatesOf(i)
    BY DEF QueueInv, Duplicates
  <2> QED
    BY <2>1, <2>2 DEF DuplicatesOf
<1> QED
  BY <1>1, QueueInvariant, PTL

\* Deliver is called at most max_attempts times per envelope, plus once per
\* attempt whose outcome did not reach the disk.
THEOREM AttemptsBoundedAlways == Spec => []AttemptsBounded
<1>1. QueueInv => AttemptsBounded
  <2> SUFFICES ASSUME QueueInv, NEW i \in Ids
               PROVE  tries[i] <= MaxAttempts + redo[i]
    BY DEF AttemptsBounded
  <2>1. tries[i] \in Nat /\ redo[i] \in Nat /\ att[i] \in Nat /\ att[i] < MaxAttempts
    BY DEF QueueInv, TypeOK, Snapshot
  <2>2. AttemptsOf(i)
    BY DEF QueueInv, Attempts
  <2> QED
    BY <2>1, <2>2, QueueAssumption DEF AttemptsOf
<1> QED
  BY <1>1, QueueInvariant, PTL

\* A pass never works on a stale copy of an envelope.
THEOREM SnapshotFreshAlways == Spec => []SnapshotFresh
<1>1. QueueInv => SnapshotFresh
  BY DEF QueueInv, TypeOK, Snapshot, SnapshotFresh, InAttempt
<1> QED
  BY <1>1, QueueInvariant, PTL

-----------------------------------------------------------------------------
(***************************************************************************)
(* Reputation penalties.  PenaltyInv rests on QueueInv: it counts the      *)
(* penalties as Duplicates counts the copies, and follows the failed       *)
(* attempts from the calls of Deliver to the limit that ends the retries.  *)
(***************************************************************************)
Earned(i) == i \in refused \/ tries[i] >= MaxAttempts

PenaltyOf(i) ==
    /\ penalties[i] <= redo[i] + IF i \in files /\ ~Removing(i) THEN 0 ELSE 1
    /\ i > last => penalties[i] = 0
    /\ penalties[i] > 0 => Earned(i)

\* No attempt is counted that Deliver was not called for.
CountedOf(i) == att[i] <= tries[i]

UnderWay ==
    /\ pc = "send" => memAtt[cur] < tries[cur]
    /\ pc = "update" => memAtt[cur] <= tries[cur]
    /\ pc = "bounce" => Earned(cur)

PenaltyInv ==
    /\ \A i \in Ids : PenaltyOf(i)
    /\ \A i \in Ids : CountedOf(i)
    /\ UnderWay

\* The failures at the start: none.
LEMMA PenaltyInit == Init => PenaltyInv
BY QueueAssumption DEF Init, PenaltyInv, PenaltyOf, CountedOf, UnderWay, Ids, Removing

\* What an envelope's counters are.
LEMMA CounterTypes ==
    ASSUME TypeOK, NEW i \in Ids
    PROVE  /\ penalties[i] \in Nat /\ redo[i] \in Nat /\ tries[i] \in Nat
           /\ att[i] \in Nat /\ memAtt[i] \in Nat
BY DEF TypeOK

\* A step that touches neither files nor counters keeps the parts about
\* single envelopes, as long as no removal begins or ends.
LEMMA SameCounters ==
    ASSUME PenaltyInv, UNCHANGED <<last, files, att, penalties, tries, redo>>,
           refused \subseteq refused', pc # "remove", pc' # "remove", NEW i \in Ids
    PROVE  PenaltyOf(i)' /\ CountedOf(i)'
BY DEF PenaltyInv, PenaltyOf, CountedOf, Earned, Removing

\* Every step keeps PenaltyInv.
LEMMA PenaltyStep == QueueInv /\ PenaltyInv /\ [Next]_vars => PenaltyInv'
<1> SUFFICES ASSUME QueueInv, PenaltyInv, [Next]_vars PROVE PenaltyInv'
  OBVIOUS
<1> USE QueueAssumption DEF diskVars, schedVars, obsVars
<1>t. TypeOK /\ Snapshot
  BY DEF QueueInv
<1>1. CASE \E f \in Froms : Enqueue(f)
  <2> PICK f \in Froms : Enqueue(f)
    BY <1>1
  <2>0. last + 1 \in Ids /\ (InAttempt => cur # last + 1)
    BY <1>t DEF Enqueue, TypeOK, Ids, Fresh, Snapshot, QueueInv
  <2>1. ASSUME NEW i \in Ids PROVE PenaltyOf(i)' /\ CountedOf(i)'
    <3>1. penalties[i] \in Nat /\ redo[i] \in Nat /\ tries[i] \in Nat /\ att[i] \in Nat
      BY <1>t, CounterTypes
    <3>2. PenaltyOf(i) /\ CountedOf(i) /\ (Removing(i)' <=> Removing(i))
      BY DEF PenaltyInv, Enqueue, Removing
    <3>3. CASE i = last + 1
      <4>1. penalties[i] = 0 /\ att'[i] = 0
        BY <1>t, <2>0, <3>2, <3>3 DEF PenaltyOf, Enqueue, TypeOK, Ids
      <4> QED
        BY <3>1, <3>3, <4>1 DEF Enqueue, PenaltyOf, CountedOf
    <3>4. CASE i # last + 1
      <4>1. (i > last' => i > last) /\ att'[i] = att[i] /\ (i \in files' <=> i \in files)
        BY <1>t, <3>4 DEF Enqueue, TypeOK, Ids
      <4> QED
        BY <3>1, <3>2, <4>1 DEF Enqueue, PenaltyOf, CountedOf, Earned
    <3> QED
      BY <3>3, <3>4
  <2>2. UnderWay'
    BY DEF Enqueue, PenaltyInv, UnderWay, Earned
  <2> QED
    BY <2>1, <2>2 DEF PenaltyInv
<1>2. CASE \/ Process \/ \E i \in Ids : ProcessSkips(i)
           \/ EndPass \/ Restart
  <2>1. /\ UNCHANGED <<last, files, att, penalties, tries, redo, refused>>
        /\ pc # "remove" /\ pc' \in {"pass", "idle"}
    BY <1>2 DEF Process, ProcessSkips, ProcessWith, EndPass, Restart
  <2> QED
    BY <2>1, SameCounters DEF PenaltyInv, UnderWay
<1>3. CASE \E i \in Ids, n \in 1..MaxMX : Attempt(i, n)
  <2> PICK k \in Ids, n \in 1..MaxMX : Attempt(k, n)
    BY <1>3
  <2>1. ASSUME NEW i \in Ids PROVE PenaltyOf(i)' /\ CountedOf(i)' /\ tries'[i] >= tries[i]
    <3>1. penalties[i] \in Nat /\ redo[i] \in Nat /\ tries[i] \in Nat /\ att[i] \in Nat
      BY <1>t, CounterTypes
    <3>2. tries'[i] \in Nat /\ tries'[i] >= tries[i]
      BY <1>t, <3>1 DEF Attempt, TypeOK
    <3>3. PenaltyOf(i) /\ CountedOf(i) /\ ~Removing(i) /\ ~Removing(i)'
      BY DEF PenaltyInv, Attempt, Removing
    <3> QED
      BY <3>1, <3>2, <3>3 DEF Attempt, PenaltyOf, CountedOf, Earned
  <2>2. UnderWay'
    <3>1. memAtt[k] = att[k] /\ tries[k] \in Nat /\ att[k] \in Nat /\ att[k] <= tries[k]
      BY <1>t, CounterTypes DEF Attempt, Snapshot, PenaltyInv, CountedOf
    <3>2. tries'[k] = tries[k] + 1 /\ cur' = k /\ memAtt' = memAtt /\ pc' = "send"
      BY <1>t DEF Attempt, TypeOK
    <3> QED
      BY <3>1, <3>2 DEF UnderWay
  <2> QED
    BY <2>1, <2>2 DEF PenaltyInv
<1>4. CASE SendUnanswered \/ SendTransient
  <2>0. cur \in Ids /\ pc = "send" /\ AfterTransient
    BY <1>4, CurrentIn DEF SendUnanswered, SendTransient, InAttempt
  <2>1. UNCHANGED <<last, files, att, penalties, tries, redo, refused, cur>>
    BY <1>4 DEF SendUnanswered, SendTransient
  <2>2. memAtt[cur] \in Nat /\ tries[cur] \in Nat /\ memAtt[cur] < tries[cur]
    BY <1>t, <2>0, CounterTypes DEF PenaltyInv, UnderWay
  <2>3. CASE hosts > 1
    <3>1. pc' = pc /\ memAtt' = memAtt
      BY <2>0, <2>3 DEF AfterTransient
    <3> QED
      BY <2>0, <2>1, <3>1, SameCounters DEF PenaltyInv, UnderWay, Earned
  <2>4. CASE ~(hosts > 1)
    <3>1. memAtt'[cur] = memAtt[cur] + 1
      BY <1>t, <2>0, <2>4 DEF AfterTransient, TypeOK
    <3>2. pc' \in {"bounce", "update"} /\ (pc' = "bounce" => memAtt[cur] + 1 >= MaxAttempts)
      BY <2>0, <2>4 DEF AfterTransient
    <3>3. UnderWay'
      BY <2>1, <2>2, <3>1, <3>2 DEF UnderWay, Earned
    <3> QED
      BY <2>0, <2>1, <3>2, <3>3, SameCounters DEF PenaltyInv
  <2> QED
    BY <2>3, <2>4
<1>5. CASE SendRefused
  <2>1. /\ UNCHANGED <<last, files, att, penalties, tries, redo, cur>>
        /\ refused' = refused \cup {cur} /\ pc = "send" /\ pc' = "bounce"
    BY <1>5 DEF SendRefused
  <2> QED
    BY <2>1, SameCounters DEF PenaltyInv, UnderWay, Earned
<1>6. CASE SendOk
  <2>0. /\ UNCHANGED <<last, files, att, penalties, tries, redo, refused>>
        /\ pc = "send" /\ pc' = "remove"
    BY <1>6 DEF SendOk
  <2>1. ASSUME NEW i \in Ids PROVE PenaltyOf(i)' /\ CountedOf(i)'
    <3>1. penalties[i] \in Nat /\ redo[i] \in Nat
      BY <1>t, CounterTypes
    <3> QED
      BY <2>0, <3>1 DEF PenaltyInv, PenaltyOf, CountedOf, Earned, Removing
  <2> QED
    BY <2>0, <2>1 DEF PenaltyInv, UnderWay
<1>7. CASE Bounce
  <2>0. /\ cur \in Ids /\ cur \in files
        /\ UNCHANGED <<last, files, att, tries, redo, refused, cur>>
        /\ pc = "bounce" /\ pc' = "remove"
    BY <1>7, CurrentIn DEF Bounce, InAttempt
  <2>1. penalties' = penalties \/ penalties' = [penalties EXCEPT ![cur] = @ + 1]
    BY <1>7 DEF Bounce
  <2>2. ASSUME NEW i \in Ids PROVE PenaltyOf(i)' /\ CountedOf(i)'
    <3>1. penalties[i] \in Nat /\ redo[i] \in Nat
      BY <1>t, CounterTypes
    <3>2. PenaltyOf(i) /\ CountedOf(i)
      BY DEF PenaltyInv
    <3>3. CASE i # cur
      <4>1. penalties'[i] = penalties[i]
        BY <1>t, <2>1, <3>3 DEF TypeOK
      <4> QED
        BY <2>0, <3>1, <3>2, <3>3, <4>1 DEF PenaltyOf, CountedOf, Earned, Removing
    <3>4. CASE i = cur
      <4>1. penalties'[i] = penalties[i] \/ penalties'[i] = penalties[i] + 1
        BY <1>t, <2>0, <2>1, <3>4 DEF TypeOK
      <4>2. Earned(i)'
        BY <2>0, <3>4 DEF PenaltyInv, UnderWay, Earned
      <4>3. ~(i > last)
        BY <2>0, <3>4 DEF QueueInv, Fresh
      <4>4. penalties[i] <= redo[i] /\ Removing(i)'
        BY <2>0, <3>1, <3>2, <3>4 DEF PenaltyOf, Removing
      <4>5. penalties'[i] <= redo'[i] + 1
        BY <2>0, <3>1, <4>1, <4>4
      <4> QED
        BY <2>0, <3>2, <4>2, <4>3, <4>4, <4>5 DEF PenaltyOf, CountedOf
    <3> QED
      BY <3>3, <3>4
  <2> QED
    BY <2>0, <2>2 DEF PenaltyInv, UnderWay
<1>8. CASE RemoveOk
  <2>0. /\ UNCHANGED <<last, att, penalties, tries, redo, refused>>
        /\ files' = files \ {cur} /\ pc = "remove" /\ pc' = "pass"
    BY <1>8 DEF RemoveOk, NextEnvelope
  <2>1. ASSUME NEW i \in Ids PROVE PenaltyOf(i)' /\ CountedOf(i)'
    BY <2>0 DEF PenaltyInv, PenaltyOf, CountedOf, Earned, Removing
  <2> QED
    BY <2>0, <2>1 DEF PenaltyInv, UnderWay
<1>9. CASE RemoveFails \/ UpdateFails \/ Crash
  <2>0. /\ UNCHANGED <<last, files, att, penalties, tries, refused>>
        /\ pc' \in {"pass", "down"}
        /\ redo' = IF InAttempt THEN [redo EXCEPT ![cur] = @ + 1] ELSE redo
    BY <1>9 DEF RemoveFails, UpdateFails, Crash, NextEnvelope, InAttempt
  <2>1. ASSUME NEW i \in Ids PROVE PenaltyOf(i)' /\ CountedOf(i)'
    <3>1. penalties[i] \in Nat /\ redo[i] \in Nat
      BY <1>t, CounterTypes
    <3>2. redo'[i] = IF InAttempt /\ i = cur THEN redo[i] + 1 ELSE redo[i]
      BY <1>t, <2>0 DEF TypeOK
    <3>3. PenaltyOf(i) /\ CountedOf(i) /\ ~Removing(i)'
      BY <2>0 DEF PenaltyInv, Removing
    <3> QED
      BY <2>0, <3>1, <3>2, <3>3 DEF PenaltyOf, CountedOf, Earned, Removing, InAttempt
  <2> QED
    BY <2>0, <2>1 DEF PenaltyInv, UnderWay
<1>10. CASE UpdateOk
  <2>0. /\ UNCHANGED <<last, penalties, tries, redo, refused>>
        /\ pc = "update" /\ pc' = "pass"
        /\ att' = [att EXCEPT ![cur] = memAtt[cur]]
    BY <1>10 DEF UpdateOk, NextEnvelope
  <2>1. cur \in Ids /\ files' = files
    BY <1>10, CurrentIn DEF UpdateOk, InAttempt
  <2>2. \A i \in Ids : att'[i] = IF i = cur THEN memAtt[cur] ELSE att[i]
    BY <1>t, <2>0 DEF TypeOK
  <2>3. ASSUME NEW i \in Ids PROVE PenaltyOf(i)' /\ CountedOf(i)'
    BY <2>0, <2>1, <2>2 DEF PenaltyInv, PenaltyOf, CountedOf, UnderWay, Earned, Removing
  <2> QED
    BY <2>0, <2>3 DEF PenaltyInv, UnderWay
<1>11. CASE Tick \/ Reload \/ UNCHANGED vars
  <2>1. UNCHANGED <<last, files, att, penalties, tries, redo, refused, pc, cur, memAtt>>
    BY <1>11 DEF Tick, Reload, vars
  <2> QED
    BY <2>1 DEF PenaltyInv, PenaltyOf, CountedOf, UnderWay, Earned, Removing
<1> QED
  BY <1>1, <1>2, <1>3, <1>4, <1>5, <1>6, <1>7, <1>8, <1>9, <1>10, <1>11 DEF Next, Send

\* bounceFn penalises a sender once per message, unless an outcome did not
\* reach the disk, and only after a refusal or max_attempts failed attempts.
THEOREM PenaltiesEarnedAlways == Spec => []PenaltiesEarned
<1>1. QueueInv /\ PenaltyInv => PenaltiesEarned
  <2> SUFFICES ASSUME QueueInv, PenaltyInv, NEW i \in Ids
               PROVE  /\ penalties[i] <= 1 + redo[i]
                      /\ penalties[i] > 0 => Earned(i)
    BY DEF PenaltiesEarned, Earned
  <2>1. penalties[i] \in Nat /\ redo[i] \in Nat
    BY CounterTypes DEF QueueInv
  <2> QED
    BY <2>1 DEF PenaltyInv, PenaltyOf
<1>2. QueueInv /\ PenaltyInv /\ [Next]_vars => PenaltyInv'
  BY PenaltyStep
<1> QED
  BY <1>1, <1>2, PenaltyInit, QueueInvariant, PTL DEF Spec

-----------------------------------------------------------------------------
(***************************************************************************)
(* The queue implements its contract.  Only what last, files, copies, dsn  *)
(* and dropped become is visible to QueueContract.                         *)
(***************************************************************************)
\* A step that leaves what the contract sees alone is a stutter.
LEMMA InvisibleStep ==
    ASSUME UNCHANGED <<last, files, copies, dsn, dropped>>
    PROVE  UNCHANGED Contract!cvars
BY DEF Contract!cvars, Settled

\* A step that settles the envelope under way, and nothing else.
LEMMA SettlingStep ==
    ASSUME cur \in Ids, cur \in files, UNCHANGED <<last, files>>,
           \A i \in Ids : Settled(i)' <=> (Settled(i) \/ i = cur)
    PROVE  Contract!Settle(cur)
<1>1. {i \in Ids : Settled(i)}' = {i \in Ids : Settled(i)} \cup {cur}
  OBVIOUS
<1> QED
  BY <1>1 DEF Contract!Settle, Ids

\* Every step of the queue is a step of the contract or a stutter.
LEMMA ContractStep ==
    ASSUME QueueInv, [Next]_vars PROVE [Contract!CNext]_(Contract!cvars)
<1> USE QueueAssumption DEF diskVars, schedVars, obsVars
<1>a. Ids = 1..MaxId
  BY DEF Ids
<1>1. CASE \E f \in Froms : Enqueue(f)
  <2> PICK f \in Froms : Enqueue(f)
    BY <1>1
  <2>1. {i \in Ids : Settled(i)}' = {i \in Ids : Settled(i)}
    BY DEF Enqueue, Settled
  <2>2. Contract!Accept
    BY <2>1 DEF Enqueue, Contract!Accept
  <2> QED
    BY <2>2 DEF Contract!CNext
<1>2. CASE SendOk \/ SendUnanswered
  <2>0. cur \in Ids /\ cur \in files
    BY <1>2, CurrentIn DEF SendOk, SendUnanswered, InAttempt
  <2>1. copies' = [copies EXCEPT ![cur] = @ + 1] /\ UNCHANGED <<last, files, dsn, dropped>>
    BY <1>2 DEF SendOk, SendUnanswered
  <2>2. copies \in [Ids -> Nat]
    BY DEF QueueInv, TypeOK
  <2>3. copies'[cur] > 0 /\ \A i \in Ids : i # cur => copies'[i] = copies[i]
    BY <2>0, <2>1, <2>2
  <2>4. \A i \in Ids : Settled(i)' <=> (Settled(i) \/ i = cur)
    BY <2>1, <2>3 DEF Settled
  <2>5. Contract!Settle(cur)
    BY <2>0, <2>1, <2>4, SettlingStep
  <2> QED
    BY <2>0, <2>5, <1>a DEF Contract!CNext
<1>3. CASE Bounce
  <2>0. cur \in Ids /\ cur \in files
    BY <1>3, CurrentIn DEF Bounce, InAttempt
  <2>1. /\ UNCHANGED <<last, files, copies>>
        /\ \/ dsn' = [dsn EXCEPT ![cur] = @ + 1] /\ dropped' = dropped
           \/ dsn' = dsn /\ dropped' = dropped \cup {cur}
    BY <1>3 DEF Bounce
  <2>2. dsn \in [Ids -> Nat]
    BY DEF QueueInv, TypeOK
  <2>3. /\ dsn'[cur] > 0 \/ cur \in dropped'
        /\ \A i \in Ids : i # cur => /\ dsn'[i] = dsn[i]
                                     /\ (i \in dropped') <=> (i \in dropped)
    BY <2>0, <2>1, <2>2
  <2>4. \A i \in Ids : Settled(i)' <=> (Settled(i) \/ i = cur)
    <3> TAKE i \in Ids
    <3>1. CASE i = cur
      BY <2>3, <3>1 DEF Settled
    <3>2. CASE i # cur
      BY <2>1, <2>3, <3>2 DEF Settled
    <3> QED
      BY <3>1, <3>2
  <2>5. Contract!Settle(cur)
    BY <2>0, <2>1, <2>4, SettlingStep
  <2> QED
    BY <2>0, <2>5, <1>a DEF Contract!CNext
<1>4. CASE RemoveOk
  <2>0. cur \in Ids /\ cur \in files /\ Settled(cur)
    BY <1>4, CurrentIn DEF RemoveOk, InAttempt, QueueInv, Removal
  <2>1. {i \in Ids : Settled(i)}' = {i \in Ids : Settled(i)}
    BY <1>4 DEF RemoveOk, Settled
  <2>2. Contract!LetGo(cur)
    BY <1>4, <2>0, <2>1 DEF RemoveOk, Contract!LetGo
  <2> QED
    BY <2>0, <2>2, <1>a DEF Contract!CNext
<1>5. CASE UpdateOk
  <2>1. cur \in files
    BY <1>5, CurrentIn DEF UpdateOk, InAttempt
  <2>2. UNCHANGED <<last, files, copies, dsn, dropped>>
    BY <1>5, <2>1 DEF UpdateOk
  <2> QED
    BY <2>2, InvisibleStep
<1>6. CASE \/ Process \/ \E i \in Ids : ProcessSkips(i)
           \/ EndPass \/ \E i \in Ids, n \in 1..MaxMX : Attempt(i, n)
  <2>1. UNCHANGED <<last, files, copies, dsn, dropped>>
    BY <1>6 DEF Process, ProcessSkips, ProcessWith, EndPass, Attempt
  <2> QED
    BY <2>1, InvisibleStep
<1>7. CASE SendTransient \/ SendRefused \/ RemoveFails \/ UpdateFails
  <2>1. UNCHANGED <<last, files, copies, dsn, dropped>>
    BY <1>7 DEF SendTransient, SendRefused, RemoveFails, UpdateFails
  <2> QED
    BY <2>1, InvisibleStep
<1>8. CASE Tick \/ Reload \/ Crash \/ Restart \/ UNCHANGED vars
  <2>1. UNCHANGED <<last, files, copies, dsn, dropped>>
    BY <1>8 DEF Tick, Reload, Crash, Restart, vars
  <2> QED
    BY <2>1, InvisibleStep
<1> QED
  BY <1>1, <1>2, <1>3, <1>4, <1>5, <1>6, <1>7, <1>8 DEF Next, Send

\* The queue implements QueueContract: it lets go only of settled messages
\* and never brings a removed envelope back.
THEOREM QueueImplementsContract == Spec => ContractHolds
<1>1. Init => Contract!CInit
  BY DEF Init, Contract!CInit, Settled
<1>2. QueueInv /\ [Next]_vars => [Contract!CNext]_(Contract!cvars)
  BY ContractStep
<1> QED
  BY <1>1, <1>2, QueueInvariant, PTL DEF Spec, ContractHolds, Contract!ContractSpec

=============================================================================
