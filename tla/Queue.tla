------------------------------- MODULE Queue -------------------------------
(***************************************************************************)
(* The outbound queue: envelopes as files in the queue directory           *)
(* (internal/queue/queue.go), the one scheduler goroutine that drains them *)
(* (internal/queue/scheduler.go), the SMTP transport it calls              *)
(* (internal/queue/transport.go) and the bounce callback of the daemon     *)
(* (bounceFn in cmd/kavira/main.go).                                       *)
(*                                                                         *)
(* A step of the scheduler is one call that touches the disk or the        *)
(* network, so that the process may die between any two of them.           *)
(* NextAttempt is kept as the minutes still to wait: Tick lets every file  *)
(* come one minute closer, which needs no bound on the clock.              *)
(***************************************************************************)
EXTENDS Integers, FiniteSets

CONSTANTS
    MaxId,        \* bound: envelopes enqueued in a behaviour
    MaxAttempts,  \* queue.max_attempts
    MaxMX,        \* bound: hosts mxHosts returns for a domain
    MaxFaults     \* bound: crashes, failed writes, lost answers, ...

ASSUME QueueAssumption ==
    /\ MaxId \in Nat
    /\ MaxAttempts \in Nat \ {0}   \* config.validate refuses <= 0
    /\ MaxMX \in Nat \ {0}
    /\ MaxFaults \in Nat

VARIABLES
    \* the queue directory
    last,        \* envelopes accepted so far: ids are 1..last, oldest first
    files,       \* the ids that have an ID.json
    from,        \* Envelope.From: the null reverse-path or a local user
    att,         \* Envelope.Attempts on disk
    wait,        \* Envelope.NextAttempt on disk, in minutes from now
    \* the scheduler goroutine
    pc,          \* what it does next
    due,         \* Process: the rest of the snapshot Due returned
    memAtt,      \* Attempts in the snapshot's envelopes
    cur,         \* the envelope of the running attempt (0: none)
    hosts,       \* Deliver: MX hosts not tried yet
    elapsed,     \* minutes since Process read its "now"
    \* the rest of the world
    resolvable,  \* storage.Resolve finds the senders' mailboxes
    faults,      \* faults still allowed
    \* observations
    copies,      \* times a remote host took the message
    dsn,         \* delivery status notifications filed for the sender
    dropped,     \* ids bounceFn had nobody to notify of
    penalties,   \* EventBounce records against the sender
    refused,     \* ids a remote host answered 5xx for
    tries,       \* calls of Transport.Deliver
    redo,        \* attempts whose outcome did not reach the disk
    unanswered   \* times a host took the message and the transport saw an error

diskVars  == <<last, files, from, att, wait>>
schedVars == <<pc, due, memAtt, cur, hosts, elapsed>>
obsVars   == <<copies, dsn, dropped, penalties, refused, tries, redo, unanswered>>
vars      == <<diskVars, schedVars, resolvable, faults, obsVars>>

Ids == 1..MaxId

PCs == {"down", "idle", "pass", "send", "bounce", "remove", "update"}

Froms == {"null", "user"}

InAttempt == pc \in {"send", "bounce", "remove", "update"}

InPass == pc = "pass" \/ InAttempt

-----------------------------------------------------------------------------
\* backoff: 1 minute << (attempts-1), the exponent capped at 8, four hours at most.
Backoff(n) ==
    LET k == IF n > 9 THEN 9 ELSE n
        d == <<1, 2, 4, 8, 16, 32, 64, 128, 256>>[k]
    IN IF d > 240 THEN 240 ELSE d

\* Longer than any delay Update writes: what elapsed is counted up to.
LongestBackoff == Backoff(MaxAttempts)

Init ==
    /\ last = 0
    /\ files = {}
    /\ from = [i \in Ids |-> "user"]
    /\ att = [i \in Ids |-> 0]
    /\ wait = [i \in Ids |-> 0]
    /\ pc = "idle"
    /\ due = {}
    /\ memAtt = [i \in Ids |-> 0]
    /\ cur = 0
    /\ hosts = 0
    /\ elapsed = 0
    /\ resolvable = TRUE
    /\ faults = MaxFaults
    /\ copies = [i \in Ids |-> 0]
    /\ dsn = [i \in Ids |-> 0]
    /\ dropped = {}
    /\ penalties = [i \in Ids |-> 0]
    /\ refused = {}
    /\ tries = [i \in Ids |-> 0]
    /\ redo = [i \in Ids |-> 0]
    /\ unanswered = [i \in Ids |-> 0]

Fault == faults > 0 /\ faults' = faults - 1

-----------------------------------------------------------------------------
(***************************************************************************)
(* queue.go                                                                *)
(***************************************************************************)

\* Enqueue by an SMTP session: a new file, due at once.  A failed write or
\* an unsplittable recipient leaves nothing behind and is the session's
\* error, so it is no step of this module.
Enqueue(f) ==
    /\ pc # "down"
    /\ last < MaxId
    /\ last' = last + 1
    /\ files' = files \cup {last + 1}
    /\ from' = [from EXCEPT ![last + 1] = f]
    /\ att' = [att EXCEPT ![last + 1] = 0]
    /\ wait' = [wait EXCEPT ![last + 1] = 0]
    /\ UNCHANGED <<schedVars, resolvable, faults, obsVars>>

\* Seeded fault: NextAttempt is held against Created, so that no deferred
\* envelope is ever due again.
DueAtCreation == {i \in files : wait[i] = 0 /\ att[i] = 0}

\* Due: the parsed envelopes whose NextAttempt is not after now.
Due == {i \in files : wait[i] = 0}

\* Seeded fault: the pass trusts the attempt counts of an earlier snapshot.
ProcessStale(S) ==
    /\ pc = "idle"
    /\ S # {}
    /\ pc' = "pass"
    /\ due' = S
    /\ elapsed' = 0
    /\ UNCHANGED <<diskVars, memAtt, cur, hosts, resolvable, obsVars>>

\* Process reads its snapshot of the directory; the envelopes it attempts
\* are these copies, whatever happens to the files meanwhile.
ProcessWith(S) ==
    /\ pc = "idle"
    /\ S # {}
    /\ pc' = "pass"
    /\ due' = S
    /\ memAtt' = [i \in Ids |-> IF i \in S THEN att[i] ELSE 0]
    /\ elapsed' = 0
    /\ UNCHANGED <<diskVars, cur, hosts, resolvable, obsVars>>

Process == ProcessWith(Due) /\ UNCHANGED faults

\* A file that cannot be read is skipped for this pass, and stays on disk.
ProcessSkips(i) == i \in Due /\ ProcessWith(Due \ {i}) /\ Fault

\* The end of the range over the snapshot: wait for the ticker.
EndPass ==
    /\ pc = "pass"
    /\ due = {}
    /\ pc' = "idle"
    /\ memAtt' = [i \in Ids |-> 0]
    /\ elapsed' = 0
    /\ UNCHANGED <<diskVars, due, cur, hosts, resolvable, faults, obsVars>>

-----------------------------------------------------------------------------
(***************************************************************************)
(* scheduler.go attempt, and transport.go Deliver                          *)
(***************************************************************************)

\* attempt calls Deliver for the oldest envelope left; mxHosts returns n >= 1
\* hosts (the domain itself when it has no MX).
Attempt(i, n) ==
    /\ pc = "pass"
    /\ i \in due
    /\ \A j \in due : i <= j
    /\ cur' = i
    /\ due' = due \ {i}
    /\ hosts' = n
    /\ pc' = "send"
    /\ tries' = [tries EXCEPT ![i] = @ + 1]
    /\ UNCHANGED <<diskVars, memAtt, elapsed, resolvable, faults, copies, dsn,
                   dropped, penalties, refused, redo, unanswered>>

\* Seeded fault: one attempt too many before giving up.
AfterTransientOffByOne ==
    IF hosts > 1
    THEN /\ hosts' = hosts - 1
         /\ UNCHANGED <<pc, memAtt>>
    ELSE /\ memAtt' = [memAtt EXCEPT ![cur] = @ + 1]
         /\ pc' = IF memAtt[cur] + 1 > MaxAttempts THEN "bounce" ELSE "update"
         /\ hosts' = 0

\* Seeded fault: the failed attempt is counted for every host.
AfterTransientPerHost ==
    /\ memAtt' = [memAtt EXCEPT ![cur] = @ + 1]
    /\ IF hosts > 1 /\ memAtt[cur] + 1 < MaxAttempts
       THEN /\ hosts' = hosts - 1
            /\ UNCHANGED pc
       ELSE /\ pc' = IF memAtt[cur] + 1 >= MaxAttempts THEN "bounce" ELSE "update"
            /\ hosts' = 0

\* A transient error from trySend: the next host, or, after the last one,
\* the deferral branch of attempt, which counts the attempt and gives up
\* at MaxAttempts.
AfterTransient ==
    IF hosts > 1
    THEN /\ hosts' = hosts - 1
         /\ UNCHANGED <<pc, memAtt>>
    ELSE /\ memAtt' = [memAtt EXCEPT ![cur] = @ + 1]
         /\ pc' = IF memAtt[cur] + 1 >= MaxAttempts THEN "bounce" ELSE "update"
         /\ hosts' = 0

\* Seeded fault: a delivered envelope is left in the queue.
SendOkKeeps ==
    /\ pc = "send"
    /\ copies' = [copies EXCEPT ![cur] = @ + 1]
    /\ pc' = "pass"
    /\ cur' = 0
    /\ hosts' = 0
    /\ UNCHANGED <<diskVars, due, memAtt, elapsed, resolvable, faults, dsn,
                   dropped, penalties, refused, tries, redo, unanswered>>

\* trySend: the host took the message and answered QUIT.
SendOk ==
    /\ pc = "send"
    /\ copies' = [copies EXCEPT ![cur] = @ + 1]
    /\ pc' = "remove"
    /\ hosts' = 0
    /\ UNCHANGED <<diskVars, due, memAtt, cur, elapsed, resolvable, faults, dsn,
                   dropped, penalties, refused, tries, redo, unanswered>>

\* trySend: the host took the message, but its answer to the final dot is lost
\* or late (w.Close), or its answer to QUIT, whose error trySend returns
\* unclassified: a transient error all the same.
SendUnanswered ==
    /\ pc = "send"
    /\ Fault
    /\ copies' = [copies EXCEPT ![cur] = @ + 1]
    /\ unanswered' = [unanswered EXCEPT ![cur] = @ + 1]
    /\ AfterTransient
    /\ UNCHANGED <<diskVars, due, cur, elapsed, resolvable, dsn, dropped,
                   penalties, refused, tries, redo>>

\* trySend: connection refused, timeout, 4xx, and the host did not take it.
SendTransient ==
    /\ pc = "send"
    /\ AfterTransient
    /\ UNCHANGED <<diskVars, due, cur, elapsed, resolvable, faults, obsVars>>

\* Seeded fault: the envelope is removed before the bounce is filed.
SendRefusedRemovesFirst ==
    /\ pc = "send"
    /\ refused' = refused \cup {cur}
    /\ files' = files \ {cur}
    /\ pc' = "bounce"
    /\ hosts' = 0
    /\ UNCHANGED <<last, from, att, wait, due, memAtt, cur, elapsed, resolvable, faults,
                   copies, dsn, dropped, penalties, tries, redo, unanswered>>

\* trySend: 5xx, which classify makes a PermanentError; no other host is tried.
SendRefused ==
    /\ pc = "send"
    /\ refused' = refused \cup {cur}
    /\ pc' = "bounce"
    /\ hosts' = 0
    /\ UNCHANGED <<diskVars, due, memAtt, cur, elapsed, resolvable, faults,
                   copies, dsn, dropped, penalties, tries, redo, unanswered>>

-----------------------------------------------------------------------------
(***************************************************************************)
(* bounceFn in main.go, then Update and Remove                             *)
(***************************************************************************)

\* bounceFn: the sender is penalised, the notification is built (never for
\* the null reverse-path) and delivered to the sender's own mailbox.
Bounce ==
    /\ pc = "bounce"
    /\ pc' = "remove"
    /\ penalties' = IF from[cur] = "null" THEN penalties
                    ELSE [penalties EXCEPT ![cur] = @ + 1]
    /\ \/ /\ from[cur] = "null"        \* BuildBounce returns nil
          /\ dropped' = dropped \cup {cur}
          /\ UNCHANGED <<dsn, faults>>
       \/ /\ from[cur] # "null"
          /\ resolvable
          /\ dsn' = [dsn EXCEPT ![cur] = @ + 1]
          /\ UNCHANGED <<dropped, faults>>
       \/ /\ from[cur] # "null"        \* sender not local (any more)
          /\ ~resolvable
          /\ dropped' = dropped \cup {cur}
          /\ UNCHANGED <<dsn, faults>>
       \/ /\ from[cur] # "null"        \* maildir.Deliver failed: logged
          /\ resolvable
          /\ Fault
          /\ dropped' = dropped \cup {cur}
          /\ UNCHANGED dsn
    /\ UNCHANGED <<diskVars, due, memAtt, cur, hosts, elapsed, resolvable,
                   copies, refused, tries, redo, unanswered>>

NextEnvelope == pc' = "pass" /\ cur' = 0

RemoveOk ==
    /\ pc = "remove"
    /\ files' = files \ {cur}
    /\ NextEnvelope
    /\ UNCHANGED <<last, from, att, wait, due, memAtt, hosts, elapsed,
                   resolvable, faults, obsVars>>

\* attempt ignores Remove's error: the envelope stays due.
RemoveFails ==
    /\ pc = "remove"
    /\ Fault
    /\ redo' = [redo EXCEPT ![cur] = @ + 1]
    /\ NextEnvelope
    /\ UNCHANGED <<diskVars, due, memAtt, hosts, elapsed, resolvable, copies,
                   dsn, dropped, penalties, refused, tries, unanswered>>

\* Seeded fault: a delay already over is written as a negative one.
UpdateOkNegative ==
    /\ pc = "update"
    /\ files' = files \cup {cur}
    /\ att' = [att EXCEPT ![cur] = memAtt[cur]]
    /\ wait' = [wait EXCEPT ![cur] = Backoff(memAtt[cur]) - elapsed]
    /\ NextEnvelope
    /\ UNCHANGED <<last, from, due, memAtt, hosts, elapsed, resolvable, faults, obsVars>>

\* Update: NextAttempt counts from the pass's own "now", which is elapsed
\* minutes ago.  The rename creates the file whether or not it still exists.
UpdateOk ==
    /\ pc = "update"
    /\ files' = files \cup {cur}
    /\ att' = [att EXCEPT ![cur] = memAtt[cur]]
    /\ wait' = [wait EXCEPT ![cur] =
                  IF Backoff(memAtt[cur]) > elapsed THEN Backoff(memAtt[cur]) - elapsed ELSE 0]
    /\ NextEnvelope
    /\ UNCHANGED <<last, from, due, memAtt, hosts, elapsed, resolvable, faults, obsVars>>

\* attempt logs Update's error: the file keeps its old count and stays due.
UpdateFails ==
    /\ pc = "update"
    /\ Fault
    /\ redo' = [redo EXCEPT ![cur] = @ + 1]
    /\ NextEnvelope
    /\ UNCHANGED <<diskVars, due, memAtt, hosts, elapsed, resolvable, copies,
                   dsn, dropped, penalties, refused, tries, unanswered>>

-----------------------------------------------------------------------------
(***************************************************************************)
(* Time, configuration reload, and the death of the process                *)
(***************************************************************************)

Tick ==
    /\ \/ \E i \in files : wait[i] > 0
       \/ InPass /\ elapsed < LongestBackoff
    /\ wait' = [i \in Ids |-> IF wait[i] > 0 THEN wait[i] - 1 ELSE 0]
    /\ elapsed' = IF InPass /\ elapsed < LongestBackoff THEN elapsed + 1 ELSE elapsed
    /\ UNCHANGED <<last, files, from, att, pc, due, memAtt, cur, hosts,
                   resolvable, faults, obsVars>>

\* SIGHUP: the senders' domain may leave or re-enter the configuration.
Reload ==
    /\ pc # "down"
    /\ resolvable' = ~resolvable
    /\ UNCHANGED <<diskVars, schedVars, faults, obsVars>>

\* The process dies, or exits on SIGTERM: the daemon closes schedStop and
\* does not wait for a running pass.
Crash ==
    /\ pc # "down"
    /\ Fault
    /\ pc' = "down"
    /\ redo' = IF InAttempt THEN [redo EXCEPT ![cur] = @ + 1] ELSE redo
    /\ due' = {}
    /\ memAtt' = [i \in Ids |-> 0]
    /\ cur' = 0
    /\ hosts' = 0
    /\ elapsed' = 0
    /\ UNCHANGED <<diskVars, resolvable, copies, dsn, dropped, penalties,
                   refused, tries, unanswered>>

\* queue.Open and go sched.Run: nothing but the directory is remembered.
Restart ==
    /\ pc = "down"
    /\ pc' = "idle"
    /\ UNCHANGED <<diskVars, due, memAtt, cur, hosts, elapsed, resolvable,
                   faults, obsVars>>

Send == SendOk \/ SendUnanswered \/ SendTransient \/ SendRefused

Next ==
    \/ \E f \in Froms : Enqueue(f)
    \/ Process
    \/ \E i \in Ids : ProcessSkips(i)
    \/ EndPass
    \/ \E i \in Ids, n \in 1..MaxMX : Attempt(i, n)
    \/ Send
    \/ Bounce
    \/ RemoveOk \/ RemoveFails
    \/ UpdateOk \/ UpdateFails
    \/ Tick \/ Reload \/ Crash \/ Restart

Spec == Init /\ [][Next]_vars

(***************************************************************************)
(* Fairness.  The scheduler goroutine runs, every network step ends at the *)
(* transport's deadline, time passes, systemd restarts a daemon that died. *)
(* Nothing is assumed of what remote hosts answer.                         *)
(***************************************************************************)
Fairness ==
    /\ WF_vars(Process)
    /\ WF_vars(EndPass)
    /\ WF_vars(\E i \in Ids, n \in 1..MaxMX : Attempt(i, n))
    /\ WF_vars(Send)
    /\ WF_vars(Bounce)
    /\ WF_vars(RemoveOk)
    /\ WF_vars(UpdateOk)
    /\ WF_vars(Tick)
    /\ WF_vars(Restart)

FairSpec == Spec /\ Fairness

-----------------------------------------------------------------------------
(***************************************************************************)
(* Properties                                                              *)
(***************************************************************************)

\* The shape of the state; in particular no delay on disk is negative and
\* the scheduler names an envelope exactly while it attempts one.
TypeOK ==
    /\ last \in 0..MaxId
    /\ files \in SUBSET Ids
    /\ from \in [Ids -> Froms]
    /\ att \in [Ids -> Nat]
    /\ wait \in [Ids -> Nat]
    /\ pc \in PCs
    /\ due \in SUBSET Ids
    /\ memAtt \in [Ids -> Nat]
    /\ cur \in 0..MaxId
    /\ InAttempt <=> cur # 0
    /\ hosts \in Nat
    /\ elapsed \in Nat
    /\ resolvable \in BOOLEAN
    /\ faults \in Nat
    /\ copies \in [Ids -> Nat]
    /\ dsn \in [Ids -> Nat]
    /\ dropped \in SUBSET Ids
    /\ penalties \in [Ids -> Nat]
    /\ refused \in SUBSET Ids
    /\ tries \in [Ids -> Nat]
    /\ redo \in [Ids -> Nat]
    /\ unanswered \in [Ids -> Nat]

\* What happened to i outside this process: a host took it, the sender was
\* told, or nobody can be told (null reverse-path, notification dropped).
Settled(i) == copies[i] > 0 \/ dsn[i] > 0 \/ i \in dropped

\* No accepted envelope disappears from the queue, whatever crashes and
\* write errors happen, unless a host took it, the sender got a
\* notification, or bounceFn found nobody to notify.
NoSilentLoss == \A i \in 1..last : i \in files \/ Settled(i)

\* The copies and notifications of one message exceed one only by the
\* outcomes that did not reach the disk (crash, failed Remove or Update)
\* and the times a host took it and no answer came, to the final dot or to
\* QUIT (attempt, trySend).
DuplicatesBounded ==
    \A i \in Ids : copies[i] + dsn[i] <= 1 + redo[i] + unanswered[i]

\* Deliver is called at most max_attempts times for an envelope, plus once
\* for every attempt whose outcome did not reach the disk.
AttemptsBounded == \A i \in Ids : tries[i] <= MaxAttempts + redo[i]

\* bounceFn costs a sender reputation only for a message that a host refused
\* with 5xx or that max_attempts calls of Deliver failed for, and again only
\* when the outcome did not reach the disk, whatever crashes come between.
PenaltiesEarned ==
    \A i \in Ids :
        /\ penalties[i] <= 1 + redo[i]
        /\ penalties[i] > 0 => i \in refused \/ tries[i] >= MaxAttempts

\* The snapshot a pass works on is never stale: what is left of it is still
\* on disk, with the same count, below the limit (attempt writes the copy
\* back without reading the file again).
SnapshotFresh ==
    /\ \A i \in due : i \in files /\ memAtt[i] = att[i] /\ att[i] < MaxAttempts
    /\ pc \in {"send", "update"} => cur \in files

\* The queue keeps the promise of QueueContract: it holds what is on disk,
\* lets go only of what is settled, and never brings a removed file back.
Contract == INSTANCE QueueContract WITH
                accepted <- last, held <- files,
                settled <- {i \in Ids : Settled(i)}

ContractHolds == Contract!ContractSpec

\* Every queued envelope leaves the queue: retries end, because the count
\* on disk grows with every recorded attempt and faults are finite.
EventuallyLeaves == \A i \in Ids : i \in files ~> i \notin files
=============================================================================
