----------------------------- MODULE AuthGuard -----------------------------
(***************************************************************************)
(* Password checks, internal/auth: Authenticator.Verify, called at the     *)
(* same time by SMTP, IMAP and POP3 sessions, and the Guard it consults,   *)
(* a mutex-protected map of failures per user and per source address.      *)
(* Verify takes the mutex once per call of the Guard, so a step is one     *)
(* such call or the (slow) password check between them.                    *)
(*                                                                         *)
(* Time is kept as what is left of a lock and what has passed since the    *)
(* last failure, counted up to the quiet period that forgives.             *)
(***************************************************************************)
EXTENDS Integers, FiniteSets

CONSTANTS
    Logins,       \* calls of Verify that may run at the same time
    Users, IPs,   \* the keys
    MaxFailures,  \* auth.max_failures
    Lockout,      \* auth.lockout_minutes
    Capacity      \* entries before prune is tried (65536)

ASSUME GuardAssumption ==
    /\ IsFiniteSet(Logins)
    /\ Users \cap IPs = {}
    /\ MaxFailures \in Nat \ {0}
    /\ Lockout \in Nat \ {0}
    /\ Capacity \in Nat

VARIABLES
    \* Guard.entries
    entries,   \* keys that have an entry
    fails,     \* guardEntry.fails
    lock,      \* minutes until lockedUntil
    idle,      \* minutes since last, counted up to Forgiven
    \* the calls of Verify
    pc, user, ip,
    \* observations
    burst,     \* failures recorded for a key since it was last free of its past
    cleared    \* keys whose state the last step cleared by Success

guardVars == <<entries, fails, lock, idle>>
callVars  == <<pc, user, ip>>
obsVars   == <<burst, cleared>>
authVars == <<guardVars, callVars, obsVars>>

Keys == Users \cup IPs

\* A quiet period longer than twice the lockout.
Forgiven == 2 * Lockout + 1

AuthInit ==
    /\ entries = {}
    /\ fails = [k \in Keys |-> 0]
    /\ lock = [k \in Keys |-> 0]
    /\ idle = [k \in Keys |-> 0]
    /\ pc = [l \in Logins |-> "start"]
    /\ user \in [Logins -> Users]
    /\ ip \in [Logins -> IPs]
    /\ burst = [k \in Keys |-> 0]
    /\ cleared = {}

Goto(l, label) == pc' = [pc EXCEPT ![l] = label]

-----------------------------------------------------------------------------
(***************************************************************************)
(* guard.go                                                                *)
(***************************************************************************)
Blocked(k) == k \in entries /\ lock[k] > 0

\* Seeded fault: the oldest entries go, locked or not.
PruneAll == entries

\* prune: entries that are neither locked nor recent.
Pruned == {k \in entries : lock[k] = 0 /\ idle[k] = Forgiven}

\* Seeded fault: one failure too many.
LocksLate(n) == n > MaxFailures

\* Reaching maxFailures locks the key out.
Locks(n) == n >= MaxFailures

LockoutOf(k) == Lockout

\* e.fails++, counted no further than it makes a difference.
Count(n) == IF n > MaxFailures THEN n ELSE n + 1

\* Fail: prune when the map is full and the key is new; forget the failures
\* before a quiet period; count; lock.
Fail(k) ==
    LET dead == IF k \notin entries /\ Cardinality(entries) >= Capacity THEN Pruned ELSE {}
        old == k \in entries /\ idle[k] < Forgiven
        n == IF old THEN Count(fails[k]) ELSE 1
    IN /\ entries' = (entries \ dead) \cup {k}
       /\ fails' = [j \in Keys |-> IF j = k THEN n ELSE IF j \in dead THEN 0 ELSE fails[j]]
       /\ lock' = [j \in Keys |->
                     IF j = k
                     THEN IF Locks(n) THEN LockoutOf(k) ELSE lock[k]
                     ELSE IF j \in dead THEN 0 ELSE lock[j]]
       /\ idle' = [j \in Keys |-> IF j = k \/ j \in dead THEN 0 ELSE idle[j]]
       /\ burst' = [burst EXCEPT ![k] = IF old THEN @ + 1 ELSE 1]
       /\ cleared' = {}

\* Success deletes the entry.
Success(k) ==
    /\ entries' = entries \ {k}
    /\ fails' = [fails EXCEPT ![k] = 0]
    /\ lock' = [lock EXCEPT ![k] = 0]
    /\ idle' = [idle EXCEPT ![k] = 0]
    /\ burst' = [burst EXCEPT ![k] = 0]
    /\ cleared' = {k}

-----------------------------------------------------------------------------
(***************************************************************************)
(* auth.go Verify                                                          *)
(***************************************************************************)
NoGuard == UNCHANGED <<guardVars, burst>> /\ cleared' = {}

\* A call for user u from address i; Blocked(userKey) ends it with
\* ErrLocked where it began.
CheckUser(l, u, i) ==
    /\ pc[l] = "start"
    /\ ~Blocked(u)
    /\ Goto(l, "checkIP")
    /\ user' = [user EXCEPT ![l] = u]
    /\ ip' = [ip EXCEPT ![l] = i]
    /\ NoGuard

CheckIP(l) ==
    /\ pc[l] = "checkIP"
    /\ Goto(l, IF Blocked(ip[l]) THEN "start" ELSE "password")
    /\ NoGuard /\ UNCHANGED <<user, ip>>

\* VerifyPassword says yes or no; an unknown user is a no after as long.
CheckPassword(l, ok) ==
    /\ pc[l] = "password"
    /\ Goto(l, IF ok THEN "successUser" ELSE "failUser")
    /\ NoGuard /\ UNCHANGED <<user, ip>>

FailUser(l) ==
    /\ pc[l] = "failUser"
    /\ Fail(user[l])
    /\ Goto(l, "failIP")
    /\ UNCHANGED <<user, ip>>

\* The call sleeps for the longer delay and returns ErrInvalid.
FailIP(l) ==
    /\ pc[l] = "failIP"
    /\ Fail(ip[l])
    /\ Goto(l, "start")
    /\ UNCHANGED <<user, ip>>

SuccessUser(l) ==
    /\ pc[l] = "successUser"
    /\ Success(user[l])
    /\ Goto(l, "successIP")
    /\ UNCHANGED <<user, ip>>

SuccessIP(l) ==
    /\ pc[l] = "successIP"
    /\ Success(ip[l])
    /\ Goto(l, "start")
    /\ UNCHANGED <<user, ip>>

Tick ==
    /\ \E k \in entries : lock[k] > 0 \/ idle[k] < Forgiven
    /\ lock' = [k \in Keys |-> IF lock[k] > 0 THEN lock[k] - 1 ELSE 0]
    /\ idle' = [k \in Keys |-> IF k \in entries /\ idle[k] < Forgiven THEN idle[k] + 1
                               ELSE idle[k]]
    /\ burst' = [k \in Keys |-> IF lock[k] = 1 THEN 0 ELSE burst[k]]
    /\ cleared' = {}
    /\ UNCHANGED <<entries, fails, callVars>>

AuthNext ==
    \/ Tick
    \/ \E l \in Logins :
        \/ \E u \in Users, i \in IPs : CheckUser(l, u, i)
        \/ CheckIP(l)
        \/ \E ok \in BOOLEAN : CheckPassword(l, ok)
        \/ FailUser(l) \/ FailIP(l) \/ SuccessUser(l) \/ SuccessIP(l)

AuthSpec == AuthInit /\ [][AuthNext]_authVars

-----------------------------------------------------------------------------
(***************************************************************************)
(* Properties                                                              *)
(***************************************************************************)

\* The shape of the state; a key without an entry carries none.
AuthTypeOK ==
    /\ entries \in SUBSET Keys
    /\ fails \in [Keys -> Nat]
    /\ lock \in [Keys -> 0..Lockout]
    /\ idle \in [Keys -> 0..Forgiven]
    /\ pc \in [Logins -> {"start", "checkIP", "password", "failUser", "failIP",
                          "successUser", "successIP"}]
    /\ user \in [Logins -> Users]
    /\ ip \in [Logins -> IPs]
    /\ burst \in [Keys -> Nat]
    /\ \A k \in Keys \ entries : fails[k] = 0 /\ lock[k] = 0 /\ idle[k] = 0

\* The lockout works although Verify checks it first and counts later: until
\* a lock ends, a login succeeds or a quiet period passes, a key collects at
\* most max_failures failures plus one for each other call in flight.
FailuresBounded ==
    \A k \in Keys : burst[k] < MaxFailures + Cardinality(Logins)

\* A lock ends by the passing of its time or by a successful login with that
\* key, never because prune made room or because an older failure is
\* recorded late.
LocksHold ==
    [][\A k \in Keys : lock[k] > 1 /\ lock'[k] = 0 => k \in cleared']_authVars
=============================================================================
