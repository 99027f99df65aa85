---------------------------- MODULE AccessProofs ----------------------------
(***************************************************************************)
(* What a client of an account meets: the lockout at the login             *)
(* (AuthGuard), the IMAP sessions behind it (ImapSession), and the text of *)
(* their commands (ImapText).  The three share no state; they share the    *)
(* facts about sequences and the induction over them.                      *)
(***************************************************************************)
EXTENDS AuthGuard, ImapSession, ImapText,
        FiniteSetTheorems, SequenceTheorems, WellFoundedInduction, TLAPS

-----------------------------------------------------------------------------
(***************************************************************************)
(* AuthGuard: the lockout for any number of logins, users, addresses, any  *)
(* threshold and any capacity of the map.                                  *)
(*                                                                         *)
(* FailuresBounded is not inductive: Verify checks a key, computes a slow  *)
(* hash and counts afterwards, so what bounds the failures of a locked key *)
(* is the number of calls that passed the check before it was locked and   *)
(* have not counted yet (InFlight).  GuardInv gives every key one of two   *)
(* states: free, with fewer failures than the threshold and no more than   *)
(* the entry says, or locked, with room left for the calls in flight.      *)
(***************************************************************************)
\* The calls that are past their check of the key and may still count a
\* failure for it.
InFlight(k) ==
    {l \in Logins :
        \/ user[l] = k /\ pc[l] \in {"checkIP", "password", "failUser"}
        \/ ip[l] = k /\ pc[l] \in {"password", "failUser", "failIP"}}

\* A key that is not locked has seen fewer failures than it takes; one that
\* was locked before starts from none, and its next failure locks it again.
FreeKey(k) ==
    lock[k] = 0 =>
        /\ burst[k] < MaxFailures
        /\ k \in entries /\ fails[k] < MaxFailures => burst[k] <= fails[k]
        /\ k \in entries /\ fails[k] >= MaxFailures => burst[k] = 0

\* The entry of a locked key is no candidate for pruning or forgiveness, and
\* the calls in flight cannot push the key over the bound.
LockedKey(k) ==
    lock[k] > 0 =>
        /\ k \in entries
        /\ fails[k] >= MaxFailures
        /\ lock[k] + idle[k] <= Lockout
        /\ burst[k] + Cardinality(InFlight(k)) < MaxFailures + Cardinality(Logins)

GuardInv ==
    /\ AuthTypeOK
    /\ \A k \in Keys : FreeKey(k) /\ LockedKey(k)

-----------------------------------------------------------------------------
\* The calls in flight are finitely many, and no more than all.
LEMMA InFlightFinite ==
    ASSUME NEW k
    PROVE  /\ IsFiniteSet(InFlight(k)) /\ Cardinality(InFlight(k)) \in Nat
           /\ Cardinality(InFlight(k)) <= Cardinality(Logins)
           /\ Cardinality(Logins) \in Nat
<1>1. InFlight(k) \subseteq Logins
  BY DEF InFlight
<1> QED
  BY <1>1, GuardAssumption, FS_Subset, FS_CardinalityType

\* Calls that leave, or stay, make the number no larger; when one leaves for
\* good it is smaller by one at least.
LEMMA InFlightShrinks ==
    ASSUME NEW k, InFlight(k)' \subseteq InFlight(k)
    PROVE  /\ Cardinality(InFlight(k)') <= Cardinality(InFlight(k))
           /\ Cardinality(InFlight(k)') \in Nat
<1>1. IsFiniteSet(InFlight(k))
  BY InFlightFinite
<1> QED
  BY <1>1, FS_Subset, FS_CardinalityType

\* A login that has counted is in flight no more.
LEMMA InFlightLeaves ==
    ASSUME NEW k, NEW S, IsFiniteSet(S), NEW l \in S, InFlight(k)' \subseteq S \ {l}
    PROVE  /\ Cardinality(InFlight(k)') < Cardinality(S)
           /\ Cardinality(InFlight(k)') \in Nat /\ Cardinality(S) \in Nat
<1>1. IsFiniteSet(S \ {l}) /\ Cardinality(S \ {l}) = Cardinality(S) - 1
  BY FS_RemoveElement
<1>2. Cardinality(S) \in Nat /\ Cardinality(S \ {l}) \in Nat
  BY <1>1, FS_CardinalityType
<1>3. Cardinality(InFlight(k)') <= Cardinality(S \ {l}) /\ Cardinality(InFlight(k)') \in Nat
  BY <1>1, FS_Subset, FS_CardinalityType
<1> QED
  BY <1>1, <1>2, <1>3

\* A counted failure of a key whose call leaves the calls in flight keeps the
\* invariant, for that key and for the others.
LEMMA FailKeeps ==
    ASSUME GuardInv, NEW k \in Keys, Fail(k), NEW l \in Logins,
           l \in InFlight(k), InFlight(k)' \subseteq InFlight(k) \ {l},
           \A j \in Keys : InFlight(j)' \subseteq InFlight(j)
    PROVE  /\ entries' \in SUBSET Keys /\ fails' \in [Keys -> Nat]
           /\ lock' \in [Keys -> 0..Lockout] /\ idle' \in [Keys -> 0..Forgiven]
           /\ burst' \in [Keys -> Nat]
           /\ \A j \in Keys \ entries' : fails'[j] = 0 /\ lock'[j] = 0 /\ idle'[j] = 0
           /\ \A j \in Keys : FreeKey(j)' /\ LockedKey(j)'
<1> DEFINE dead == IF k \notin entries /\ Cardinality(entries) >= Capacity THEN Pruned ELSE {}
           old == k \in entries /\ idle[k] < Forgiven
           n == IF old THEN Count(fails[k]) ELSE 1
<1>1. /\ entries' = (entries \ dead) \cup {k}
      /\ fails' = [j \in Keys |-> IF j = k THEN n ELSE IF j \in dead THEN 0 ELSE fails[j]]
      /\ lock' = [j \in Keys |->
                     IF j = k THEN IF n >= MaxFailures THEN Lockout ELSE lock[k]
                     ELSE IF j \in dead THEN 0 ELSE lock[j]]
      /\ idle' = [j \in Keys |-> IF j = k \/ j \in dead THEN 0 ELSE idle[j]]
      /\ burst' = [burst EXCEPT ![k] = IF old THEN @ + 1 ELSE 1]
  BY DEF Fail, Locks, LockoutOf
<1>2. k \notin dead /\ \A j \in dead : j \in entries /\ lock[j] = 0
  BY DEF Pruned
<1>3. n \in Nat /\ n >= 1 /\ (old => n >= fails[k])
  BY GuardAssumption DEF GuardInv, AuthTypeOK, Count
<1> HIDE DEF dead, old, n
<1>4. /\ entries' \in SUBSET Keys /\ fails' \in [Keys -> Nat]
      /\ idle' \in [Keys -> 0..Forgiven] /\ burst' \in [Keys -> Nat]
  BY <1>1, <1>2, <1>3, GuardAssumption DEF GuardInv, AuthTypeOK, Forgiven
<1>5. lock' \in [Keys -> 0..Lockout]
  BY <1>1, <1>2, <1>3, GuardAssumption DEF GuardInv, AuthTypeOK
<1>6. \A j \in Keys \ entries' : fails'[j] = 0 /\ lock'[j] = 0 /\ idle'[j] = 0
  BY <1>1, <1>2 DEF GuardInv, AuthTypeOK
<1>7. ASSUME NEW j \in Keys, j # k PROVE FreeKey(j)' /\ LockedKey(j)'
  <2>1. /\ burst'[j] = burst[j] /\ burst[j] \in Nat
        /\ j \in entries' <=> j \in entries \ dead
    BY <1>1, <1>7 DEF GuardInv, AuthTypeOK
  <2>2. j \notin dead => fails'[j] = fails[j] /\ lock'[j] = lock[j] /\ idle'[j] = idle[j]
    BY <1>1, <1>7
  <2>3. j \in dead => lock'[j] = 0 /\ lock[j] = 0 /\ j \notin entries'
    BY <1>1, <1>2, <1>7
  <2>4. FreeKey(j) /\ LockedKey(j)
    BY DEF GuardInv
  <2>5. FreeKey(j)'
    BY <2>1, <2>2, <2>3, <2>4 DEF FreeKey
  <2>6. LockedKey(j)'
    <3> SUFFICES ASSUME lock'[j] > 0
                 PROVE  /\ j \in entries' /\ fails'[j] >= MaxFailures
                        /\ lock'[j] + idle'[j] <= Lockout
                        /\ burst'[j] + Cardinality(InFlight(j)')
                              < MaxFailures + Cardinality(Logins)
      BY DEF LockedKey
    <3>1. j \notin dead /\ lock[j] > 0
      BY <2>2, <2>3
    <3>2. Cardinality(InFlight(j)') <= Cardinality(InFlight(j)) /\ Cardinality(InFlight(j)') \in Nat
      BY InFlightShrinks
    <3>3. /\ Cardinality(InFlight(j)) \in Nat /\ Cardinality(Logins) \in Nat
          /\ burst[j] + Cardinality(InFlight(j)) < MaxFailures + Cardinality(Logins)
      BY <2>4, <3>1, InFlightFinite DEF LockedKey
    <3>4. burst'[j] + Cardinality(InFlight(j)') < MaxFailures + Cardinality(Logins)
      BY <2>1, <3>2, <3>3, GuardAssumption
    <3> QED
      BY <2>1, <2>2, <2>4, <3>1, <3>4 DEF LockedKey
  <2> QED
    BY <2>5, <2>6
<1>8. FreeKey(k)' /\ LockedKey(k)'
  <2>1. /\ k \in entries' /\ fails'[k] = n /\ idle'[k] = 0
        /\ lock'[k] = IF n >= MaxFailures THEN Lockout ELSE lock[k]
        /\ burst'[k] = IF old THEN burst[k] + 1 ELSE 1
        /\ burst[k] \in Nat /\ fails[k] \in Nat /\ lock[k] \in 0..Lockout /\ idle[k] \in 0..Forgiven
    BY <1>1 DEF GuardInv, AuthTypeOK
  <2>2. FreeKey(k) /\ LockedKey(k)
    BY DEF GuardInv
  <2>3. lock[k] > 0 => old /\ n >= MaxFailures
    BY <2>1, <2>2, GuardAssumption DEF LockedKey, old, n, Count, Forgiven
  <2>4. old /\ lock[k] = 0 /\ fails[k] < MaxFailures => n = fails[k] + 1 /\ burst[k] <= fails[k]
    BY <2>1, <2>2, GuardAssumption DEF FreeKey, old, n, Count
  <2>5. old /\ lock[k] = 0 /\ fails[k] >= MaxFailures => n >= MaxFailures /\ burst[k] = 0
    BY <2>1, <2>2, <1>3, GuardAssumption DEF FreeKey, old
  <2>6. ~old => n = 1
    BY DEF n
  <2>7. FreeKey(k)'
    BY <2>1, <2>3, <2>4, <2>5, <2>6, GuardAssumption DEF FreeKey
  <2>8. LockedKey(k)'
    <3> SUFFICES ASSUME lock'[k] > 0
                 PROVE  /\ fails'[k] >= MaxFailures /\ lock'[k] + idle'[k] <= Lockout
                        /\ burst'[k] + Cardinality(InFlight(k)')
                              < MaxFailures + Cardinality(Logins)
      BY <2>1 DEF LockedKey
    <3>1. n >= MaxFailures
      BY <2>1, <2>3
    <3>2. fails'[k] >= MaxFailures /\ lock'[k] + idle'[k] <= Lockout
      BY <2>1, <3>1, GuardAssumption
    <3>3. CASE lock[k] > 0
      <4>1. /\ Cardinality(InFlight(k)') < Cardinality(InFlight(k))
            /\ Cardinality(InFlight(k)') \in Nat /\ Cardinality(InFlight(k)) \in Nat
        BY InFlightFinite, InFlightLeaves
      <4>2. burst[k] + Cardinality(InFlight(k)) < MaxFailures + Cardinality(Logins)
        BY <3>3, <2>2 DEF LockedKey
      <4>3. burst'[k] = burst[k] + 1
        BY <3>3, <2>1, <2>3
      <4>4. Cardinality(Logins) \in Nat
        BY InFlightFinite
      <4> QED
        BY <3>2, <4>1, <4>2, <4>3, <4>4, <2>1, GuardAssumption
    <3>4. CASE lock[k] = 0
      <4>1. InFlight(k)' \subseteq Logins \ {l}
        BY DEF InFlight
      <4>2. /\ Cardinality(InFlight(k)') < Cardinality(Logins)
            /\ Cardinality(InFlight(k)') \in Nat /\ Cardinality(Logins) \in Nat
        BY <4>1, GuardAssumption, InFlightLeaves
      <4>3. burst'[k] <= MaxFailures /\ burst'[k] \in Nat
        BY <3>4, <2>1, <2>2, <2>4, <2>5, <2>6, GuardAssumption DEF FreeKey
      <4> QED
        BY <3>2, <4>2, <4>3, GuardAssumption
    <3> QED
      BY <3>3, <3>4, <2>1
  <2> QED
    BY <2>7, <2>8
<1> QED
  BY <1>4, <1>5, <1>6, <1>7, <1>8

\* A key that is not locked, or whose calls in flight grow no more, keeps the
\* invariant when the Guard does not change.
LEMMA CallKeeps ==
    ASSUME GuardInv, NoGuard,
           \A k \in Keys : lock[k] > 0 => InFlight(k)' \subseteq InFlight(k)
    PROVE  \A k \in Keys : FreeKey(k)' /\ LockedKey(k)'
<1> SUFFICES ASSUME NEW k \in Keys PROVE FreeKey(k)' /\ LockedKey(k)'
  OBVIOUS
<1>1. /\ entries' = entries /\ fails' = fails /\ lock' = lock /\ idle' = idle
      /\ burst' = burst
  BY DEF NoGuard, guardVars
<1>2. FreeKey(k) /\ LockedKey(k) /\ burst[k] \in Nat
  BY DEF GuardInv, AuthTypeOK
<1>3. FreeKey(k)'
  BY <1>1, <1>2 DEF FreeKey
<1>4. ASSUME lock[k] > 0
      PROVE  burst[k] + Cardinality(InFlight(k)') < MaxFailures + Cardinality(Logins)
  <2>1. Cardinality(InFlight(k)') <= Cardinality(InFlight(k)) /\ Cardinality(InFlight(k)') \in Nat
    BY <1>4, InFlightShrinks
  <2>2. Cardinality(InFlight(k)) \in Nat /\ Cardinality(Logins) \in Nat
    BY InFlightFinite
  <2> QED
    BY <1>2, <1>4, <2>1, <2>2, GuardAssumption DEF LockedKey
<1>5. LockedKey(k)'
  BY <1>1, <1>2, <1>4 DEF LockedKey
<1> QED
  BY <1>3, <1>5

\* A successful login frees its key and touches no other.
LEMMA SuccessKeeps ==
    ASSUME GuardInv, NEW k \in Keys, Success(k),
           \A j \in Keys : InFlight(j)' \subseteq InFlight(j)
    PROVE  /\ entries' \in SUBSET Keys /\ fails' \in [Keys -> Nat]
           /\ lock' \in [Keys -> 0..Lockout] /\ idle' \in [Keys -> 0..Forgiven]
           /\ burst' \in [Keys -> Nat]
           /\ \A j \in Keys \ entries' : fails'[j] = 0 /\ lock'[j] = 0 /\ idle'[j] = 0
           /\ \A j \in Keys : FreeKey(j)' /\ LockedKey(j)'
<1>1. /\ entries' \in SUBSET Keys /\ fails' \in [Keys -> Nat]
      /\ lock' \in [Keys -> 0..Lockout] /\ idle' \in [Keys -> 0..Forgiven]
      /\ burst' \in [Keys -> Nat]
      /\ \A j \in Keys \ entries' : fails'[j] = 0 /\ lock'[j] = 0 /\ idle'[j] = 0
  BY GuardAssumption DEF GuardInv, AuthTypeOK, Success, Forgiven
<1>2. ASSUME NEW j \in Keys PROVE FreeKey(j)' /\ LockedKey(j)'
  <2>1. FreeKey(j) /\ LockedKey(j) /\ burst[j] \in Nat
    BY DEF GuardInv, AuthTypeOK
  <2>2. CASE j = k
    <3>1. k \notin entries' /\ lock'[k] = 0 /\ burst'[k] = 0
      BY DEF Success, GuardInv, AuthTypeOK
    <3> QED
      BY <2>2, <3>1, GuardAssumption DEF FreeKey, LockedKey
  <2>3. CASE j # k
    <3>1. /\ j \in entries' <=> j \in entries
          /\ fails'[j] = fails[j] /\ lock'[j] = lock[j] /\ idle'[j] = idle[j]
          /\ burst'[j] = burst[j]
      BY <2>3 DEF Success, GuardInv, AuthTypeOK
    <3>2. /\ Cardinality(InFlight(j)') <= Cardinality(InFlight(j))
          /\ Cardinality(InFlight(j)') \in Nat
          /\ Cardinality(InFlight(j)) \in Nat /\ Cardinality(Logins) \in Nat
      BY InFlightShrinks, InFlightFinite
    <3>3. FreeKey(j)'
      BY <2>1, <3>1 DEF FreeKey
    <3>4. LockedKey(j)'
      BY <2>1, <3>1, <3>2, GuardAssumption DEF LockedKey
    <3> QED
      BY <3>3, <3>4
  <2> QED
    BY <2>2, <2>3
<1> QED
  BY <1>1, <1>2

-----------------------------------------------------------------------------
\* It holds at the start ...
LEMMA GuardInit == AuthInit => GuardInv
<1> SUFFICES ASSUME AuthInit PROVE GuardInv
  OBVIOUS
<1>1. AuthTypeOK
  BY GuardAssumption DEF AuthInit, AuthTypeOK, Forgiven
<1>2. \A k \in Keys : FreeKey(k) /\ LockedKey(k)
  BY GuardAssumption DEF AuthInit, FreeKey, LockedKey
<1> QED
  BY <1>1, <1>2 DEF GuardInv

\* ... and every step keeps it.
LEMMA GuardNext == GuardInv /\ [AuthNext]_authVars => GuardInv'
<1> SUFFICES ASSUME GuardInv, [AuthNext]_authVars PROVE GuardInv'
  OBVIOUS
<1> DEFINE Calls == /\ pc' \in [Logins -> {"start", "checkIP", "password", "failUser", "failIP",
                                           "successUser", "successIP"}]
                    /\ user' \in [Logins -> Users]
                    /\ ip' \in [Logins -> IPs]
           Entries == /\ entries' \in SUBSET Keys /\ fails' \in [Keys -> Nat]
                      /\ lock' \in [Keys -> 0..Lockout] /\ idle' \in [Keys -> 0..Forgiven]
                      /\ burst' \in [Keys -> Nat]
                      /\ \A j \in Keys \ entries' : fails'[j] = 0 /\ lock'[j] = 0 /\ idle'[j] = 0
           Good == \A k \in Keys : FreeKey(k)' /\ LockedKey(k)'
<1>0. ASSUME Calls, Entries, Good PROVE GuardInv'
  BY <1>0 DEF GuardInv, AuthTypeOK
<1>a. ASSUME NoGuard PROVE Entries
  BY <1>a DEF NoGuard, guardVars, GuardInv, AuthTypeOK
<1>b. \A l \in Logins : user[l] \in Users /\ ip[l] \in IPs /\ user[l] \in Keys /\ ip[l] \in Keys
                        /\ user[l] # ip[l]
  BY GuardAssumption DEF GuardInv, AuthTypeOK, Keys
<1>1. ASSUME NEW l \in Logins, NEW u \in Users, NEW i \in IPs, CheckUser(l, u, i)
      PROVE  GuardInv'
  <2>1. NoGuard /\ Calls
    BY <1>1 DEF CheckUser, Goto, GuardInv, AuthTypeOK
  <2>2. ASSUME NEW k \in Keys, lock[k] > 0 PROVE InFlight(k)' \subseteq InFlight(k)
    <3>1. k \in entries
      BY <2>2 DEF GuardInv, AuthTypeOK
    <3>2. k # u
      BY <2>2, <1>1, <3>1 DEF CheckUser, Blocked
    <3> QED
      BY <3>2, <1>1 DEF CheckUser, InFlight, Goto, GuardInv, AuthTypeOK
  <2>3. Good
    BY <2>1, <2>2, CallKeeps
  <2> QED
    BY <1>0, <1>a, <2>1, <2>3
<1>2. ASSUME NEW l \in Logins, CheckIP(l)
      PROVE  GuardInv'
  <2>1. NoGuard /\ Calls
    BY <1>2 DEF CheckIP, Goto, GuardInv, AuthTypeOK
  <2>2. ASSUME NEW k \in Keys, lock[k] > 0 PROVE InFlight(k)' \subseteq InFlight(k)
    <3>1. k \in entries
      BY <2>2 DEF GuardInv, AuthTypeOK
    <3>2. k = ip[l] => pc'[l] = "start"
      BY <2>2, <1>2, <3>1 DEF CheckIP, Blocked, Goto, GuardInv, AuthTypeOK
    <3> QED
      BY <3>2, <1>2 DEF CheckIP, InFlight, Goto, GuardInv, AuthTypeOK
  <2>3. Good
    BY <2>1, <2>2, CallKeeps
  <2> QED
    BY <1>0, <1>a, <2>1, <2>3
<1>3. ASSUME NEW l \in Logins, NEW ok \in BOOLEAN, CheckPassword(l, ok)
      PROVE  GuardInv'
  <2>1. NoGuard /\ Calls
    BY <1>3 DEF CheckPassword, Goto, GuardInv, AuthTypeOK
  <2>2. ASSUME NEW k \in Keys, lock[k] > 0 PROVE InFlight(k)' \subseteq InFlight(k)
    BY <1>3 DEF CheckPassword, InFlight, Goto, GuardInv, AuthTypeOK
  <2>3. Good
    BY <2>1, <2>2, CallKeeps
  <2> QED
    BY <1>0, <1>a, <2>1, <2>3
<1>4. ASSUME NEW l \in Logins, FailUser(l)
      PROVE  GuardInv'
  <2>1. Calls
    BY <1>4 DEF FailUser, Goto, GuardInv, AuthTypeOK
  <2>2. /\ l \in InFlight(user[l])
        /\ InFlight(user[l])' \subseteq InFlight(user[l]) \ {l}
        /\ \A k \in Keys : InFlight(k)' \subseteq InFlight(k)
    <3>1. /\ pc[l] = "failUser" /\ user' = user /\ ip' = ip
          /\ pc' = [pc EXCEPT ![l] = "failIP"] /\ pc'[l] = "failIP"
      BY <1>4 DEF FailUser, Goto, GuardInv, AuthTypeOK
    <3>2. l \in InFlight(user[l])
      BY <3>1 DEF InFlight
    <3>3. \A k \in Keys : InFlight(k)' \subseteq InFlight(k)
      BY <3>1 DEF InFlight, GuardInv, AuthTypeOK
    <3>4. l \notin InFlight(user[l])'
      BY <3>1, <1>b DEF InFlight
    <3> QED
      BY <3>1, <3>2, <3>3, <3>4, <1>b DEF InFlight
  <2>3. Entries /\ Good
    BY <1>4, <2>2, <1>b, FailKeeps DEF FailUser
  <2> QED
    BY <1>0, <2>1, <2>3
<1>5. ASSUME NEW l \in Logins, FailIP(l)
      PROVE  GuardInv'
  <2>1. Calls
    BY <1>5 DEF FailIP, Goto, GuardInv, AuthTypeOK
  <2>2. /\ l \in InFlight(ip[l])
        /\ InFlight(ip[l])' \subseteq InFlight(ip[l]) \ {l}
        /\ \A k \in Keys : InFlight(k)' \subseteq InFlight(k)
    <3>1. /\ pc[l] = "failIP" /\ user' = user /\ ip' = ip
          /\ pc' = [pc EXCEPT ![l] = "start"] /\ pc'[l] = "start"
      BY <1>5 DEF FailIP, Goto, GuardInv, AuthTypeOK
    <3>2. l \in InFlight(ip[l])
      BY <3>1 DEF InFlight
    <3>3. \A k \in Keys : InFlight(k)' \subseteq InFlight(k)
      BY <3>1 DEF InFlight, GuardInv, AuthTypeOK
    <3>4. l \notin InFlight(ip[l])'
      BY <3>1 DEF InFlight
    <3> QED
      BY <3>1, <3>2, <3>3, <3>4, <1>b DEF InFlight
  <2>3. Entries /\ Good
    BY <1>5, <2>2, <1>b, FailKeeps DEF FailIP
  <2> QED
    BY <1>0, <2>1, <2>3
<1>6. ASSUME NEW l \in Logins, SuccessUser(l)
      PROVE  GuardInv'
  <2>1. Calls
    BY <1>6 DEF SuccessUser, Goto, GuardInv, AuthTypeOK
  <2>2. \A k \in Keys : InFlight(k)' \subseteq InFlight(k)
    BY <1>6 DEF SuccessUser, Goto, InFlight, GuardInv, AuthTypeOK
  <2>3. Entries /\ Good
    BY <1>6, <2>2, <1>b, SuccessKeeps DEF SuccessUser
  <2> QED
    BY <1>0, <2>1, <2>3
<1>7. ASSUME NEW l \in Logins, SuccessIP(l)
      PROVE  GuardInv'
  <2>1. Calls
    BY <1>7 DEF SuccessIP, Goto, GuardInv, AuthTypeOK
  <2>2. \A k \in Keys : InFlight(k)' \subseteq InFlight(k)
    BY <1>7 DEF SuccessIP, Goto, InFlight, GuardInv, AuthTypeOK
  <2>3. Entries /\ Good
    BY <1>7, <2>2, <1>b, SuccessKeeps DEF SuccessIP
  <2> QED
    BY <1>0, <2>1, <2>3
<1>8. CASE Tick
  <2>1. Calls
    BY <1>8 DEF Tick, callVars, GuardInv, AuthTypeOK
  <2>2. Entries
    BY <1>8, GuardAssumption DEF Tick, GuardInv, AuthTypeOK, Forgiven
  <2>3. ASSUME NEW k \in Keys PROVE FreeKey(k)' /\ LockedKey(k)'
    <3>1. /\ entries' = entries /\ fails' = fails
          /\ lock'[k] = IF lock[k] > 0 THEN lock[k] - 1 ELSE 0
          /\ idle'[k] <= idle[k] + 1
          /\ burst'[k] = IF lock[k] = 1 THEN 0 ELSE burst[k]
          /\ lock[k] \in 0..Lockout /\ idle[k] \in 0..Forgiven /\ idle'[k] \in 0..Forgiven
          /\ burst[k] \in Nat /\ fails[k] \in Nat
      BY <1>8, <2>2, GuardAssumption DEF Tick, GuardInv, AuthTypeOK, Forgiven
    <3>2. InFlight(k)' = InFlight(k)
      BY <1>8 DEF Tick, callVars, InFlight
    <3>3. FreeKey(k) /\ LockedKey(k)
      BY DEF GuardInv
    <3>4. FreeKey(k)'
      BY <3>1, <3>3, GuardAssumption DEF FreeKey, LockedKey
    <3>5. LockedKey(k)'
      BY <3>1, <3>2, <3>3, GuardAssumption DEF LockedKey, Forgiven
    <3> QED
      BY <3>4, <3>5
  <2> QED
    BY <1>0, <2>1, <2>2, <2>3
<1>9. CASE UNCHANGED authVars
  BY <1>9 DEF authVars, guardVars, callVars, obsVars, GuardInv, AuthTypeOK, FreeKey, LockedKey, InFlight
<1> QED
  BY <1>1, <1>2, <1>3, <1>4, <1>5, <1>6, <1>7, <1>8, <1>9 DEF AuthNext

-----------------------------------------------------------------------------
\* Every state of the Guard and of the calls of Verify has its type, and a key
\* without an entry in Guard.entries carries no failures, lock or age.
THEOREM GuardTypeCorrect == AuthSpec => []AuthTypeOK
<1>1. GuardInv => AuthTypeOK
  BY DEF GuardInv
<1> QED
  BY <1>1, GuardInit, GuardNext, PTL DEF AuthSpec

\* Guard.Fail and Guard.Blocked are separate calls of Verify with a slow hash
\* between them; all the same a key collects at most max_failures failures
\* and one for each other call before it is locked out, however many calls
\* run at once and however they interleave with expiry, forgiveness, prune
\* and Success.
THEOREM FailuresBoundedAlways == AuthSpec => []FailuresBounded
<1>1. GuardInv => FailuresBounded
  <2> SUFFICES ASSUME GuardInv, NEW k \in Keys
               PROVE  burst[k] < MaxFailures + Cardinality(Logins)
    BY DEF FailuresBounded
  <2>1. /\ FreeKey(k) /\ LockedKey(k)
        /\ lock[k] \in 0..Lockout /\ burst[k] \in Nat
    BY DEF GuardInv, AuthTypeOK
  <2>2. Cardinality(InFlight(k)) \in Nat /\ Cardinality(Logins) \in Nat
    BY InFlightFinite
  <2> QED
    BY <2>1, <2>2, GuardAssumption DEF FreeKey, LockedKey
<1> QED
  BY <1>1, GuardInit, GuardNext, PTL DEF AuthSpec

\* prune and a failure that is recorded late leave every lock in place: one
\* that has more than its last minute left only goes when Success clears it.
THEOREM LocksHoldAlways == AuthSpec => LocksHold
<1> DEFINE LockKept == \A k \in Keys : lock[k] > 1 /\ lock'[k] = 0 => k \in cleared'
<1>1. GuardInv /\ [AuthNext]_authVars => [LockKept]_authVars
  <2> SUFFICES ASSUME GuardInv, AuthNext, NEW k \in Keys, lock[k] > 1, lock'[k] = 0
               PROVE  k \in cleared'
    OBVIOUS
  <2>0. /\ k \in entries /\ lock[k] \in 0..Lockout
        /\ \A l \in Logins : user[l] \in Keys /\ ip[l] \in Keys
    BY DEF GuardInv, AuthTypeOK, Keys
  <2>1. ASSUME NEW j \in Keys, Fail(j) PROVE FALSE
    <3> DEFINE dead == IF j \notin entries /\ Cardinality(entries) >= Capacity
                       THEN Pruned ELSE {}
    <3>1. k \notin dead
      BY <2>0 DEF Pruned
    <3>2. \/ lock'[k] = Lockout
          \/ lock'[k] = lock[k]
      BY <2>1, <3>1 DEF Fail, LockoutOf
    <3> QED
      BY <3>2, <2>0, GuardAssumption
  <2>2. ASSUME NEW j \in Keys, Success(j) PROVE k \in cleared'
    BY <2>2, <2>0 DEF Success, GuardInv, AuthTypeOK
  <2>3. ~NoGuard
    BY <2>0 DEF NoGuard, guardVars
  <2>4. ~Tick
    BY <2>0, GuardAssumption DEF Tick
  <2> QED
    BY <2>0, <2>1, <2>2, <2>3, <2>4
       DEF AuthNext, CheckUser, CheckIP, CheckPassword, FailUser, FailIP, SuccessUser, SuccessIP
<1>2. [][LockKept]_authVars => LocksHold
  BY DEF LocksHold
<1> QED
  BY <1>1, <1>2, GuardInit, GuardNext, PTL DEF AuthSpec

-----------------------------------------------------------------------------
(***************************************************************************)
(* ImapSession: any number of sessions, messages and commands.             *)
(*                                                                         *)
(* Keeping, HeardExpunges and their like are recursive functions, and what *)
(* they compute is proved by induction.  The library's induction theorems  *)
(* take the property as an operator, which the provers cannot instantiate; *)
(* the existence of minima under a well-founded order (WFMin) is first     *)
(* order, and gives induction over a set of numbers or of sequences.       *)
(*                                                                         *)
(* NumberingAgrees needs to know where a client's numbers come from: the   *)
(* view shows files that are there, and the UID list of the folder, less   *)
(* what is gone, starts with them, and so does the list a Refresh of the   *)
(* session has read and not yet written (InStep).  A list written over the *)
(* one that was read, or over one that only adds to it (Agrees), starts    *)
(* with it again (Steady), so a poll can only add to the end; any other    *)
(* writer is a clash, and its folder's clients are Lost.                   *)
(* RemovalsAskedFor needs DoomedOK and SourcesOK: a name that says Deleted *)
(* is one a client flagged or MOVE copied, because MOVE copies everything  *)
(* before it flags anything.                                               *)
(***************************************************************************)
\* Every nonempty set of naturals has a least element.
LEMMA LeastNat ==
    ASSUME NEW T, T \subseteq Nat, T # {}
    PROVE  \E x \in T : \A y \in T : ~(y < x)
<1>1. \E x \in T : \A y \in T : ~(<<y, x>> \in OpToRel(<, Nat))
  BY NatLessThanWellFounded, WFMin
<1> QED
  BY <1>1 DEF OpToRel

\* Induction, for the set of the numbers that have a property.
LEMMA SetInduction ==
    ASSUME NEW S, 0 \in S, \A n \in Nat : n \in S => n + 1 \in S
    PROVE  Nat \subseteq S
<1> SUFFICES ASSUME Nat \ S # {} PROVE FALSE
  OBVIOUS
<1>1. PICK x \in Nat \ S : \A y \in Nat \ S : ~(y < x)
  BY LeastNat
<1>2. x # 0 /\ x - 1 \in Nat
  BY <1>1
<1>3. x - 1 \in S
  BY <1>1, <1>2
<1> QED
  BY <1>1, <1>2, <1>3

\* Induction over sequences: the empty one, and one with an element more.
LEMMA SeqInduction ==
    ASSUME NEW T, NEW P, <<>> \in P,
           \A q \in Seq(T), x \in T : q \in P => Append(q, x) \in P
    PROVE  Seq(T) \subseteq P
<1> DEFINE N == {n \in Nat : \A q \in Seq(T) : Len(q) = n => q \in P}
<1>1. 0 \in N
  <2>1. \A q \in Seq(T) : Len(q) = 0 => q = <<>>
    OBVIOUS
  <2> QED
    BY <2>1
<1>2. ASSUME NEW n \in Nat, n \in N PROVE n + 1 \in N
  <2> SUFFICES ASSUME NEW q \in Seq(T), Len(q) = n + 1 PROVE q \in P
    OBVIOUS
  <2> DEFINE h == SubSeq(q, 1, n)
  <2>1. h \in Seq(T) /\ Len(h) = n
    OBVIOUS
  <2>2. q[n + 1] \in T
    OBVIOUS
  <2>3. q = Append(h, q[n + 1])
    OBVIOUS
  <2>4. h \in P
    BY <1>2, <2>1
  <2> HIDE DEF h
  <2> QED
    BY <2>1, <2>2, <2>3, <2>4
<1>3. Nat \subseteq N
  <2> HIDE DEF N
  <2> QED
    BY <1>1, <1>2, SetInduction
<1> QED
  BY <1>3

\* f takes the elements of S from q, up to the m-th.
KeepsUpTo(f, q, S, m) ==
    f = [n \in 0..m |->
        IF n = 0 THEN <<>>
        ELSE IF q[n] \in S THEN Append(f[n - 1], q[n]) ELSE f[n - 1]]

\* There is such a function, so that Keeping means what it says.
LEMMA KeepFcn ==
    ASSUME NEW T, NEW q \in Seq(T), NEW S
    PROVE  \E f : KeepsUpTo(f, q, S, Len(q))
<1> DEFINE N == {m \in Nat : m <= Len(q) => \E f : KeepsUpTo(f, q, S, m)}
<1>1. 0 \in N
  <2>1. KeepsUpTo([n \in 0..0 |-> <<>>], q, S, 0)
    BY DEF KeepsUpTo
  <2> QED
    BY <2>1
<1>2. ASSUME NEW m \in Nat, m \in N PROVE m + 1 \in N
  <2> SUFFICES ASSUME m + 1 <= Len(q) PROVE \E f : KeepsUpTo(f, q, S, m + 1)
    OBVIOUS
  <2>1. m <= Len(q)
    OBVIOUS
  <2>2. PICK f : KeepsUpTo(f, q, S, m)
    BY <1>2, <2>1
  <2> DEFINE g == [n \in 0..(m + 1) |->
                IF n = m + 1 THEN (IF q[m + 1] \in S THEN Append(f[m], q[m + 1]) ELSE f[m])
                ELSE f[n]]
  <2> DEFINE Value(n) == IF n = 0 THEN <<>>
                         ELSE IF q[n] \in S THEN Append(g[n - 1], q[n]) ELSE g[n - 1]
  <2>3. \A n \in 0..m : g[n] = f[n]
    OBVIOUS
  <2>4. \A n \in 0..m : f[n] = IF n = 0 THEN <<>> ELSE IF q[n] \in S THEN Append(f[n - 1], q[n]) ELSE f[n - 1]
    BY <2>2 DEF KeepsUpTo
  <2>5. \A n \in 0..m : g[n] = Value(n)
    BY <2>3, <2>4
  <2>6. g[m + 1] = Value(m + 1)
    BY <2>3
  <2>7. \A n \in 0..(m + 1) : n \in 0..m \/ n = m + 1
    OBVIOUS
  <2>8. g = [n \in 0..(m + 1) |-> g[n]]
    OBVIOUS
  <2>9. \A n \in 0..(m + 1) : g[n] = Value(n)
    <3> HIDE DEF g, Value
    <3> QED
      BY <2>5, <2>6, <2>7
  <2>10. KeepsUpTo(g, q, S, m + 1)
    <3> HIDE DEF g
    <3> QED
      BY <2>8, <2>9 DEF KeepsUpTo
  <2> QED
    BY <2>10
<1>3. Nat \subseteq N
  <2> HIDE DEF N
  <2> QED
    BY <1>1, <1>2, SetInduction
<1>4. Len(q) \in N
  BY <1>3
<1> QED
  BY <1>4

\* The value of Keeping.
LEMMA KeepDef ==
    ASSUME NEW T, NEW q \in Seq(T), NEW S
    PROVE  \E f : KeepsUpTo(f, q, S, Len(q)) /\ Keeping(q, S) = f[Len(q)]
<1> DEFINE K == CHOOSE f : KeepsUpTo(f, q, S, Len(q))
<1>1. KeepsUpTo(K, q, S, Len(q))
  BY KeepFcn
<1>2. Keeping(q, S) = K[Len(q)]
  BY DEF Keeping, KeepsUpTo
<1> QED
  BY <1>1, <1>2

\* One element more, in terms of the function Keeping is defined by.
LEMMA KeepNext ==
    ASSUME NEW f, NEW q, NEW S, NEW M \in Nat, KeepsUpTo(f, q, S, M), NEW m \in Nat, m + 1 <= M
    PROVE  f[m + 1] = IF q[m + 1] \in S THEN Append(f[m], q[m + 1]) ELSE f[m]
<1>1. \A n \in 0..M : f[n] = IF n = 0 THEN <<>>
                             ELSE IF q[n] \in S THEN Append(f[n - 1], q[n]) ELSE f[n - 1]
  BY DEF KeepsUpTo
<1>2. m + 1 \in 0..M /\ m + 1 # 0 /\ (m + 1) - 1 = m
  OBVIOUS
<1> QED
  BY <1>1, <1>2

\* Two such functions agree as far as the sequences they read do.
LEMMA KeepSame ==
    ASSUME NEW T, NEW q \in Seq(T), NEW x \in T, NEW S, NEW f, NEW g,
           KeepsUpTo(f, q, S, Len(q)), KeepsUpTo(g, Append(q, x), S, Len(q) + 1)
    PROVE  f[Len(q)] = g[Len(q)]
<1> DEFINE N == {m \in Nat : m <= Len(q) => f[m] = g[m]}
<1>1. 0 \in N
  BY DEF KeepsUpTo
<1>2. ASSUME NEW m \in Nat, m \in N PROVE m + 1 \in N
  <2> SUFFICES ASSUME m + 1 <= Len(q) PROVE f[m + 1] = g[m + 1]
    OBVIOUS
  <2>1. Append(q, x)[m + 1] = q[m + 1]
    OBVIOUS
  <2>2. f[m] = g[m]
    BY <1>2
  <2>3. f[m + 1] = IF q[m + 1] \in S THEN Append(f[m], q[m + 1]) ELSE f[m]
    BY KeepNext
  <2>4. g[m + 1] = IF Append(q, x)[m + 1] \in S THEN Append(g[m], Append(q, x)[m + 1]) ELSE g[m]
    <3> DEFINE p == Append(q, x)
               M == Len(q) + 1
    <3>1. m + 1 <= M /\ M \in Nat /\ KeepsUpTo(g, p, S, M)
      OBVIOUS
    <3> HIDE DEF p, M
    <3>2. g[m + 1] = IF p[m + 1] \in S THEN Append(g[m], p[m + 1]) ELSE g[m]
      BY <3>1, KeepNext
    <3> QED
      BY <3>2 DEF p
  <2> QED
    BY <2>1, <2>2, <2>3, <2>4
<1>3. Nat \subseteq N
  <2> HIDE DEF N
  <2> QED
    BY <1>1, <1>2, SetInduction
<1> QED
  BY <1>3

\* Keeping, an element at a time.
LEMMA KeepEmpty ==
    ASSUME NEW S
    PROVE  Keeping(<<>>, S) = <<>>
<1>1. PICK f : KeepsUpTo(f, <<>>, S, Len(<<>>)) /\ Keeping(<<>>, S) = f[Len(<<>>)]
  <2>1. <<>> \in Seq({})
    OBVIOUS
  <2> QED
    BY <2>1, KeepDef
<1> QED
  BY <1>1 DEF KeepsUpTo

\* Keeping an element more.
LEMMA KeepAppend ==
    ASSUME NEW T, NEW q \in Seq(T), NEW x \in T, NEW S
    PROVE  Keeping(Append(q, x), S) = IF x \in S THEN Append(Keeping(q, S), x) ELSE Keeping(q, S)
<1>1. PICK f : KeepsUpTo(f, q, S, Len(q)) /\ Keeping(q, S) = f[Len(q)]
  BY KeepDef
<1>2. Append(q, x) \in Seq(T) /\ Len(Append(q, x)) = Len(q) + 1 /\ Append(q, x)[Len(q) + 1] = x
  OBVIOUS
<1>3. PICK g : KeepsUpTo(g, Append(q, x), S, Len(q) + 1)
               /\ Keeping(Append(q, x), S) = g[Len(q) + 1]
  BY <1>2, KeepDef
<1>4. f[Len(q)] = g[Len(q)]
  BY <1>1, <1>3, KeepSame
<1>5. g[Len(q) + 1] = IF Append(q, x)[Len(q) + 1] \in S
                      THEN Append(g[Len(q)], Append(q, x)[Len(q) + 1]) ELSE g[Len(q)]
  <2> DEFINE p == Append(q, x)
             m == Len(q)
  <2>1. m \in Nat /\ m + 1 \in Nat /\ m + 1 <= m + 1 /\ KeepsUpTo(g, p, S, m + 1)
    BY <1>3
  <2> HIDE DEF p, m
  <2>2. g[m + 1] = IF p[m + 1] \in S THEN Append(g[m], p[m + 1]) ELSE g[m]
    BY <2>1, KeepNext
  <2> QED
    BY <2>2 DEF p, m
<1> QED
  BY <1>1, <1>2, <1>3, <1>4, <1>5

\* What is kept is in both sets.
LEMMA KeepType ==
    ASSUME NEW T, NEW q \in Seq(T), NEW S
    PROVE  Keeping(q, S) \in Seq(T \cap S)
<1> DEFINE P == {p \in Seq(T) : Keeping(p, S) \in Seq(T \cap S)}
<1>1. <<>> \in P
  <2>1. Keeping(<<>>, S) = <<>>
    BY KeepEmpty
  <2>2. <<>> \in Seq(T) /\ <<>> \in Seq(T \cap S)
    OBVIOUS
  <2> QED
    BY <2>1, <2>2
<1>2. ASSUME NEW p \in Seq(T), NEW x \in T, p \in P PROVE Append(p, x) \in P
  <2>1. Append(p, x) \in Seq(T)
    OBVIOUS
  <2>2. Keeping(Append(p, x), S) = IF x \in S THEN Append(Keeping(p, S), x) ELSE Keeping(p, S)
    BY KeepAppend
  <2>3. CASE x \in S
    <3>1. x \in T \cap S /\ Keeping(p, S) \in Seq(T \cap S)
      BY <1>2, <2>3
    <3>2. Append(Keeping(p, S), x) \in Seq(T \cap S)
      BY <3>1
    <3> QED
      BY <2>1, <2>2, <2>3, <3>2
  <2>4. CASE x \notin S
    BY <1>2, <2>1, <2>2, <2>4
  <2> QED
    BY <2>3, <2>4
<1>3. Seq(T) \subseteq P
  <2> HIDE DEF P
  <2> QED
    BY <1>1, <1>2, SeqInduction
<1> QED
  BY <1>3

\* Keeping, one part after the other.
LEMMA KeepConcat ==
    ASSUME NEW T, NEW a \in Seq(T), NEW b \in Seq(T), NEW S
    PROVE  Keeping(a \o b, S) = Keeping(a, S) \o Keeping(b, S)
<1> DEFINE P == {p \in Seq(T) : Keeping(a \o p, S) = Keeping(a, S) \o Keeping(p, S)}
<1>k. Keeping(a, S) \in Seq(T \cap S)
  BY KeepType
<1>1. <<>> \in P
  <2>1. a \o <<>> = a /\ Keeping(a, S) \o <<>> = Keeping(a, S)
    BY <1>k
  <2>2. Keeping(<<>>, S) = <<>>
    BY KeepEmpty
  <2>3. <<>> \in Seq(T)
    OBVIOUS
  <2> QED
    BY <2>1, <2>2, <2>3
<1>2. ASSUME NEW p \in Seq(T), NEW x \in T, p \in P PROVE Append(p, x) \in P
  <2>1. a \o p \in Seq(T) /\ Append(p, x) \in Seq(T)
    OBVIOUS
  <2>2. a \o Append(p, x) = Append(a \o p, x)
    OBVIOUS
  <2>3. Keeping(Append(p, x), S) = IF x \in S THEN Append(Keeping(p, S), x) ELSE Keeping(p, S)
    BY KeepAppend
  <2>4. Keeping(Append(a \o p, x), S) =
            IF x \in S THEN Append(Keeping(a \o p, S), x) ELSE Keeping(a \o p, S)
    BY <2>1, KeepAppend
  <2>5. Keeping(a \o p, S) = Keeping(a, S) \o Keeping(p, S)
    BY <1>2
  <2>6. Keeping(p, S) \in Seq(T \cap S)
    BY KeepType
  <2>7. CASE x \in S
    <3>1. x \in T \cap S
      BY <2>7
    <3>2. Keeping(a, S) \o Append(Keeping(p, S), x) = Append(Keeping(a, S) \o Keeping(p, S), x)
      BY <1>k, <2>6, <3>1
    <3> QED
      BY <2>1, <2>2, <2>3, <2>4, <2>5, <2>7, <3>2
  <2>8. CASE x \notin S
    BY <2>1, <2>2, <2>3, <2>4, <2>5, <2>8
  <2> QED
    BY <2>7, <2>8
<1>3. Seq(T) \subseteq P
  <2> HIDE DEF P
  <2> QED
    BY <1>1, <1>2, SeqInduction
<1> QED
  BY <1>3

\* Nothing to leave out.
LEMMA KeepAll ==
    ASSUME NEW T, NEW q \in Seq(T), NEW S, T \subseteq S
    PROVE  Keeping(q, S) = q
<1> DEFINE P == {p \in Seq(T) : Keeping(p, S) = p}
<1>1. <<>> \in P
  BY KeepEmpty
<1>2. ASSUME NEW p \in Seq(T), NEW x \in T, p \in P PROVE Append(p, x) \in P
  <2>1. Append(p, x) \in Seq(T)
    OBVIOUS
  <2>2. Keeping(Append(p, x), S) = Append(Keeping(p, S), x)
    BY KeepAppend
  <2> QED
    BY <1>2, <2>1, <2>2
<1>3. Seq(T) \subseteq P
  <2> HIDE DEF P
  <2> QED
    BY <1>1, <1>2, SeqInduction
<1> QED
  BY <1>3

\* Two sets that agree on the elements keep the same.
LEMMA KeepAgree ==
    ASSUME NEW T, NEW q \in Seq(T), NEW S, NEW R, \A x \in T : x \in S <=> x \in R
    PROVE  Keeping(q, S) = Keeping(q, R)
<1> DEFINE P == {p \in Seq(T) : Keeping(p, S) = Keeping(p, R)}
<1>1. <<>> \in P
  BY KeepEmpty
<1>2. ASSUME NEW p \in Seq(T), NEW x \in T, p \in P PROVE Append(p, x) \in P
  <2>1. Append(p, x) \in Seq(T)
    OBVIOUS
  <2>2. Keeping(Append(p, x), S) = IF x \in S THEN Append(Keeping(p, S), x) ELSE Keeping(p, S)
    BY KeepAppend
  <2>3. Keeping(Append(p, x), R) = IF x \in R THEN Append(Keeping(p, R), x) ELSE Keeping(p, R)
    BY KeepAppend
  <2>4. Keeping(p, S) = Keeping(p, R)
    BY <1>2
  <2>5. Keeping(Append(p, x), S) = Keeping(Append(p, x), R)
    <3> HIDE DEF P
    <3>1. CASE x \in S
      BY <2>2, <2>3, <2>4, <3>1
    <3>2. CASE x \notin S
      BY <2>2, <2>3, <2>4, <3>2
    <3> QED
      BY <3>1, <3>2
  <2> QED
    BY <2>1, <2>5
<1>3. Seq(T) \subseteq P
  <2> HIDE DEF P
  <2> QED
    BY <1>1, <1>2, SeqInduction
<1> QED
  BY <1>3

\* Keeping what is in S and of that what is in R, a part of S.
LEMMA KeepTwice ==
    ASSUME NEW T, NEW q \in Seq(T), NEW S, NEW R, R \subseteq S
    PROVE  Keeping(Keeping(q, S), R) = Keeping(q, R)
<1> DEFINE P == {p \in Seq(T) : Keeping(Keeping(p, S), R) = Keeping(p, R)}
<1>1. <<>> \in P
  BY KeepEmpty
<1>2. ASSUME NEW p \in Seq(T), NEW x \in T, p \in P PROVE Append(p, x) \in P
  <2>1. Append(p, x) \in Seq(T)
    OBVIOUS
  <2>2. Keeping(Append(p, x), S) = IF x \in S THEN Append(Keeping(p, S), x) ELSE Keeping(p, S)
    BY KeepAppend
  <2>3. Keeping(Append(p, x), R) = IF x \in R THEN Append(Keeping(p, R), x) ELSE Keeping(p, R)
    BY KeepAppend
  <2>4. Keeping(p, S) \in Seq(T)
    <3>1. Keeping(p, S) \in Seq(T \cap S)
      BY KeepType
    <3> QED
      BY <3>1, SeqMonotonic
  <2>5. CASE x \in S
    <3>1. Keeping(Append(Keeping(p, S), x), R) =
              IF x \in R THEN Append(Keeping(Keeping(p, S), R), x) ELSE Keeping(Keeping(p, S), R)
      BY <2>4, KeepAppend
    <3> QED
      BY <1>2, <2>1, <2>2, <2>3, <2>5, <3>1
  <2>6. CASE x \notin S
    BY <1>2, <2>1, <2>2, <2>3, <2>6
  <2> QED
    BY <2>5, <2>6
<1>3. Seq(T) \subseteq P
  <2> HIDE DEF P
  <2> QED
    BY <1>1, <1>2, SeqInduction
<1> QED
  BY <1>3

\* Every message of a view has a number.
LEMMA NumbersType ==
    ASSUME NEW v \in Seq(Files)
    PROVE  Numbers(v) \in Seq(Bases) /\ Len(Numbers(v)) = Len(v)
<1>1. \A i \in DOMAIN v : v[i] \in Files
  OBVIOUS
<1>2. \A i \in DOMAIN v : v[i].base \in Bases
  BY <1>1 DEF Files
<1> QED
  BY <1>2 DEF Numbers

\* Numbers of a view with a message more.
LEMMA NumbersAppend ==
    ASSUME NEW v \in Seq(Files), NEW e \in Files
    PROVE  Numbers(Append(v, e)) = Append(Numbers(v), e.base)
<1>1. Numbers(v) \in Seq(Bases) /\ Len(Numbers(v)) = Len(v)
  BY NumbersType
<1>2. DOMAIN Append(v, e) = 1..(Len(v) + 1)
  OBVIOUS
<1>3. \A i \in 1..(Len(v) + 1) : Append(v, e)[i] = IF i <= Len(v) THEN v[i] ELSE e
  OBVIOUS
<1>4. Append(Numbers(v), e.base) = [i \in 1..(Len(v) + 1) |-> IF i <= Len(v) THEN v[i].base ELSE e.base]
  BY <1>1 DEF Numbers
<1> QED
  BY <1>2, <1>3, <1>4 DEF Numbers

\* Keeping the messages, or their numbers.
LEMMA KeepNumbers ==
    ASSUME NEW E, NEW S, NEW F \in SUBSET Files, NEW v \in Seq(F),
           \A e \in F : e \in E <=> e.base \in S
    PROVE  Numbers(Keeping(v, E)) = Keeping(Numbers(v), S)
<1> DEFINE P == {p \in Seq(F) : Numbers(Keeping(p, E)) = Keeping(Numbers(p), S)}
<1>1. <<>> \in P
  <2>1. Numbers(<<>>) = <<>>
    BY DEF Numbers
  <2> QED
    BY <2>1, KeepEmpty
<1>2. ASSUME NEW p \in Seq(F), NEW x \in F, p \in P PROVE Append(p, x) \in P
  <2>1. Append(p, x) \in Seq(F) /\ p \in Seq(Files)
    BY SeqMonotonic
  <2>2. Keeping(Append(p, x), E) = IF x \in E THEN Append(Keeping(p, E), x) ELSE Keeping(p, E)
    BY KeepAppend
  <2>3. Numbers(Append(p, x)) = Append(Numbers(p), x.base) /\ Numbers(p) \in Seq(Bases)
    BY <2>1, NumbersAppend, NumbersType
  <2>4. x.base \in Bases
    BY DEF Files
  <2>5. Keeping(Append(Numbers(p), x.base), S) =
            IF x.base \in S THEN Append(Keeping(Numbers(p), S), x.base) ELSE Keeping(Numbers(p), S)
    <3> DEFINE b == x.base
               n == Numbers(p)
    <3>1. b \in Bases /\ n \in Seq(Bases)
      BY <2>3, <2>4
    <3> HIDE DEF b, n
    <3>2. Keeping(Append(n, b), S) = IF b \in S THEN Append(Keeping(n, S), b) ELSE Keeping(n, S)
      BY <3>1, KeepAppend
    <3> QED
      BY <3>2 DEF b, n
  <2>6. Keeping(p, E) \in Seq(Files)
    <3>1. Keeping(p, E) \in Seq(F \cap E)
      BY KeepType
    <3> QED
      BY <3>1, SeqMonotonic
  <2>7. Numbers(Append(Keeping(p, E), x)) = Append(Numbers(Keeping(p, E)), x.base)
    BY <2>6, NumbersAppend
  <2> QED
    BY <1>2, <2>1, <2>2, <2>3, <2>5, <2>7
<1>3. Seq(F) \subseteq P
  <2> HIDE DEF P
  <2> QED
    BY <1>1, <1>2, SeqInduction
<1> QED
  BY <1>3

\* The numbers of the messages that stay, from the k-th on.
StayFrom(view, E, k) == Numbers(Keeping(SubSeq(view, k, Len(view)), E))

\* A sequence is the function of its elements.
LEMMA SeqEta ==
    ASSUME NEW T, NEW q \in Seq(T)
    PROVE  q = [i \in DOMAIN q |-> q[i]]
OBVIOUS

\* Numbers of two views, one after the other.
LEMMA NumbersConcat ==
    ASSUME NEW a \in Seq(Files), NEW b \in Seq(Files)
    PROVE  Numbers(a \o b) = Numbers(a) \o Numbers(b)
<1>1. Numbers(a) \in Seq(Bases) /\ Len(Numbers(a)) = Len(a)
      /\ Numbers(b) \in Seq(Bases) /\ Len(Numbers(b)) = Len(b)
  BY NumbersType
<1>2. a \o b \in Seq(Files) /\ DOMAIN (a \o b) = 1..(Len(a) + Len(b))
  OBVIOUS
<1>3. DOMAIN (Numbers(a) \o Numbers(b)) = 1..(Len(a) + Len(b))
      /\ Numbers(a) \o Numbers(b) \in Seq(Bases)
  BY <1>1
<1>4. \A i \in 1..(Len(a) + Len(b)) :
        (a \o b)[i] = IF i <= Len(a) THEN a[i] ELSE b[i - Len(a)]
  OBVIOUS
<1>5. \A i \in 1..(Len(a) + Len(b)) :
        (Numbers(a) \o Numbers(b))[i] = IF i <= Len(a) THEN a[i].base ELSE b[i - Len(a)].base
  <2> DEFINE na == Numbers(a)
             nb == Numbers(b)
  <2>1. \A i \in 1..Len(a) : na[i] = a[i].base
    BY DEF Numbers
  <2>2. \A i \in 1..Len(b) : nb[i] = b[i].base
    BY DEF Numbers
  <2> HIDE DEF na, nb
  <2>3. \A i \in 1..(Len(a) + Len(b)) :
          (na \o nb)[i] = IF i <= Len(a) THEN na[i] ELSE nb[i - Len(a)]
    BY <1>1 DEF na, nb
  <2>4. \A i \in 1..(Len(a) + Len(b)) :
          IF i <= Len(a) THEN i \in 1..Len(a) ELSE i - Len(a) \in 1..Len(b)
    OBVIOUS
  <2>5. \A i \in 1..(Len(a) + Len(b)) :
          (na \o nb)[i] = IF i <= Len(a) THEN a[i].base ELSE b[i - Len(a)].base
    BY <2>1, <2>2, <2>3, <2>4
  <2> QED
    BY <2>5 DEF na, nb
<1>6. Numbers(a \o b) = [i \in 1..(Len(a) + Len(b)) |-> (a \o b)[i].base]
  BY <1>2 DEF Numbers
<1>7. Numbers(a) \o Numbers(b) = [i \in 1..(Len(a) + Len(b)) |-> (Numbers(a) \o Numbers(b))[i]]
  BY <1>3, SeqEta
<1> QED
  BY <1>4, <1>5, <1>6, <1>7

\* They are numbers.
LEMMA StayType ==
    ASSUME NEW view \in Seq(Files), NEW E, NEW k \in 1..(Len(view) + 1)
    PROVE  /\ SubSeq(view, k, Len(view)) \in Seq(Files)
           /\ Keeping(SubSeq(view, k, Len(view)), E) \in Seq(Files)
           /\ StayFrom(view, E, k) \in Seq(Bases)
<1>1. SubSeq(view, k, Len(view)) \in Seq(Files)
  OBVIOUS
<1>2. Keeping(SubSeq(view, k, Len(view)), E) \in Seq(Files \cap E)
  BY <1>1, KeepType
<1>3. Keeping(SubSeq(view, k, Len(view)), E) \in Seq(Files)
  BY <1>2, SeqMonotonic
<1> QED
  BY <1>1, <1>3, NumbersType DEF StayFrom

\* Past the end nothing stays.
LEMMA StayEnd ==
    ASSUME NEW view \in Seq(Files), NEW E
    PROVE  StayFrom(view, E, Len(view) + 1) = <<>>
<1>1. SubSeq(view, Len(view) + 1, Len(view)) = <<>>
  OBVIOUS
<1>2. Keeping(<<>>, E) = <<>>
  BY KeepEmpty
<1>3. Numbers(<<>>) = <<>>
  BY DEF Numbers
<1> QED
  BY <1>1, <1>2, <1>3 DEF StayFrom

\* The k-th stays in front of those after it, or goes.
LEMMA StayStep ==
    ASSUME NEW view \in Seq(Files), NEW E, NEW k \in 1..Len(view)
    PROVE  StayFrom(view, E, k) =
             (IF view[k] \in E THEN <<view[k].base>> ELSE <<>>) \o StayFrom(view, E, k + 1)
<1> DEFINE one == <<view[k]>>
           rest == SubSeq(view, k + 1, Len(view))
<1>1. SubSeq(view, k, Len(view)) = one \o rest
  OBVIOUS
<1>2. one \in Seq(Files) /\ rest \in Seq(Files) /\ one = Append(<<>>, view[k]) /\ view[k] \in Files
  OBVIOUS
<1>3. Keeping(one, E) = IF view[k] \in E THEN one ELSE <<>>
  <2>1. <<>> \in Seq(Files)
    OBVIOUS
  <2>2. Keeping(Append(<<>>, view[k]), E) =
          IF view[k] \in E THEN Append(Keeping(<<>>, E), view[k]) ELSE Keeping(<<>>, E)
    BY <1>2, <2>1, KeepAppend
  <2> QED
    BY <1>2, <2>2, KeepEmpty
<1>4. Keeping(rest, E) \in Seq(Files) /\ StayFrom(view, E, k + 1) = Numbers(Keeping(rest, E))
  BY StayType DEF StayFrom
<1>5. Keeping(one, E) \in Seq(Files)
  <2>1. <<>> \in Seq(Files)
    OBVIOUS
  <2> HIDE DEF one
  <2> QED
    BY <1>2, <1>3, <2>1
<1>6. StayFrom(view, E, k) = Numbers(Keeping(one, E) \o Keeping(rest, E))
  <2> HIDE DEF one, rest
  <2>0. one \in Seq(Files) /\ rest \in Seq(Files)
    BY <1>2
  <2>1. Keeping(one \o rest, E) = Keeping(one, E) \o Keeping(rest, E)
    BY <2>0, KeepConcat
  <2> QED
    BY <1>1, <2>1 DEF StayFrom
<1>7. StayFrom(view, E, k) = Numbers(Keeping(one, E)) \o Numbers(Keeping(rest, E))
  <2> HIDE DEF one, rest
  <2> QED
    BY <1>4, <1>5, <1>6, NumbersConcat
<1>8. Numbers(one) = <<view[k].base>> /\ Numbers(<<>>) = <<>>
  BY DEF Numbers
<1> QED
  BY <1>3, <1>4, <1>7, <1>8

\* RemoveAt takes out the one element.
LEMMA RemoveMiddle ==
    ASSUME NEW T, NEW a \in Seq(T), NEW r \in Seq(T), NEW x \in T,
           NEW q, q = Append(a, x) \o r, NEW k, k = Len(a) + 1
    PROVE  k <= Len(q) /\ RemoveAt(q, k) = a \o r
<1>1. q \in Seq(T) /\ Len(q) = Len(a) + 1 + Len(r)
  OBVIOUS
<1>2. SubSeq(q, 1, k - 1) = a
  OBVIOUS
<1>3. SubSeq(q, k + 1, Len(q)) = r
  OBVIOUS
<1>5. RemoveAt(q, k) = a \o r
  BY <1>2, <1>3 DEF RemoveAt
<1>6. k <= Len(q)
  BY <1>1
<1> QED
  BY <1>5, <1>6

\* What the client still knows after n of the numbers have been looked at.
Heard(view, E, n) == SubSeq(Numbers(view), 1, Len(view) - n) \o StayFrom(view, E, (Len(view) - n) + 1)

\* What the client makes of the next number: EXPUNGE, or silence.
LEMMA HeardStep ==
    ASSUME NEW view \in Seq(Files), NEW E, NEW n \in 1..Len(view)
    PROVE  LET k == ExpungeOrder(n, Len(view))
               h == Heard(view, E, n - 1)
           IN /\ k \in 1..Len(view)
              /\ Heard(view, E, n) = IF view[k] \notin E /\ k <= Len(h) THEN RemoveAt(h, k) ELSE h
<1> DEFINE L == Len(view)
           k == ExpungeOrder(n, Len(view))
           h == Heard(view, E, n - 1)
           t == Numbers(view)
           a == SubSeq(t, 1, k - 1)
           r == StayFrom(view, E, k + 1)
           x == t[k]
<1>1. /\ k \in 1..L /\ L \in Nat /\ L - n = k - 1 /\ L - (n - 1) = k
      /\ (L - n) + 1 = k /\ (L - (n - 1)) + 1 = k + 1
  BY DEF ExpungeOrder
<1>2. t \in Seq(Bases) /\ Len(t) = L
  BY NumbersType
<1>3. x = view[k].base /\ x \in Bases
  <2>1. DOMAIN view = 1..L
    OBVIOUS
  <2>2. x = view[k].base
    BY <1>1, <2>1 DEF Numbers
  <2> HIDE DEF k, t
  <2> QED
    BY <1>1, <1>2, <2>2
<1>4. r \in Seq(Bases)
  <2>1. k + 1 \in 1..(Len(view) + 1)
    BY <1>1
  <2> QED
    BY <2>1, StayType
<1> HIDE DEF k, t, L
<1>5. a \in Seq(Bases) /\ Len(a) = k - 1 /\ SubSeq(t, 1, k) = Append(a, x)
  BY <1>1, <1>2
<1>6. h = Append(a, x) \o r
  BY <1>1, <1>5 DEF Heard, L, t
<1>7. StayFrom(view, E, k) = (IF view[k] \in E THEN <<x>> ELSE <<>>) \o r
  BY <1>1, <1>3, StayStep DEF L
<1>8. Heard(view, E, n) = a \o StayFrom(view, E, k)
  BY <1>1 DEF Heard, L, t
<1> HIDE DEF a, r, x, h
<1>9. k <= Len(h) /\ RemoveAt(h, k) = a \o r /\ h = a \o (<<x>> \o r)
  <2>1. k = Len(a) + 1
    BY <1>1, <1>5
  <2>2. a \in Seq(Bases) /\ r \in Seq(Bases) /\ x \in Bases /\ h = Append(a, x) \o r
    BY <1>3, <1>4, <1>5, <1>6
  <2>3. k <= Len(h) /\ RemoveAt(h, k) = a \o r
    BY <2>1, <2>2, RemoveMiddle
  <2>4. h = a \o (<<x>> \o r)
    BY <2>2
  <2> QED
    BY <2>3, <2>4
<1>10. CASE view[k] \in E
  BY <1>1, <1>7, <1>8, <1>9, <1>10 DEF k, h, L
<1>11. CASE view[k] \notin E
  <2>1. <<>> \o r = r
    BY <1>4
  <2> QED
    BY <1>1, <1>7, <1>8, <1>9, <1>11, <2>1 DEF k, h, L
<1> QED
  BY <1>10, <1>11

\* H is the function HeardExpunges is defined by.
Hears(H, t, gone) ==
    H = [n \in 0..Len(t) |->
        IF n = 0 THEN t
        ELSE LET k == ExpungeOrder(n, Len(t))
             IN IF k \in gone /\ k <= Len(H[n - 1]) THEN RemoveAt(H[n - 1], k) ELSE H[n - 1]]

\* Before the first answer it knows all.
LEMMA HeardStart ==
    ASSUME NEW view \in Seq(Files), NEW E
    PROVE  Heard(view, E, 0) = Numbers(view)
<1> DEFINE t == Numbers(view)
<1>1. t \in Seq(Bases) /\ Len(t) = Len(view)
  BY NumbersType
<1>2. SubSeq(t, 1, Len(view) - 0) = t
  BY <1>1
<1>3. StayFrom(view, E, (Len(view) - 0) + 1) = <<>>
  BY StayEnd
<1>4. t \o <<>> = t
  BY <1>1
<1> QED
  BY <1>2, <1>3, <1>4 DEF Heard

\* After the last it knows those that stay.
LEMMA HeardEnd ==
    ASSUME NEW view \in Seq(Files), NEW E
    PROVE  Heard(view, E, Len(view)) = Numbers(Keeping(view, E))
<1> DEFINE t == Numbers(view)
<1>1. t \in Seq(Bases) /\ Len(t) = Len(view)
  BY NumbersType
<1>2. SubSeq(t, 1, Len(view) - Len(view)) = <<>>
  BY <1>1
<1>3. SubSeq(view, (Len(view) - Len(view)) + 1, Len(view)) = view
  OBVIOUS
<1>4. StayFrom(view, E, (Len(view) - Len(view)) + 1) = Numbers(Keeping(view, E))
  BY <1>3 DEF StayFrom
<1>5. Keeping(view, E) \in Seq(Files \cap E)
  BY KeepType
<1>6. Numbers(Keeping(view, E)) \in Seq(Bases)
  BY <1>5, SeqMonotonic, NumbersType
<1>7. <<>> \o Numbers(Keeping(view, E)) = Numbers(Keeping(view, E))
  BY <1>6
<1> QED
  BY <1>2, <1>4, <1>7 DEF Heard

\* The client takes away what Expunge has taken away, and nothing else.
LEMMA HeardExpungesLemma ==
    ASSUME NEW view \in Seq(Files), NEW E, NEW gone, Numbers(view) # Lost,
           \A k \in 1..Len(view) : k \in gone <=> view[k] \notin E
    PROVE  HeardExpunges(Numbers(view), gone) = Numbers(Keeping(view, E))
<1> DEFINE t == Numbers(view)
           L == Len(view)
           C == [n \in 0..L |-> Heard(view, E, n)]
<1>1. t \in Seq(Bases) /\ Len(t) = L /\ L \in Nat
  BY NumbersType
<1>2. \A n \in 1..L : LET k == ExpungeOrder(n, L)
                          h == Heard(view, E, n - 1)
                      IN Heard(view, E, n) = IF k \in gone /\ k <= Len(h) THEN RemoveAt(h, k) ELSE h
  BY HeardStep
<1> HIDE DEF t, L
<1>3. Hears(C, t, gone)
  <2>1. \A n \in 1..L : C[n] = Heard(view, E, n) /\ C[n - 1] = Heard(view, E, n - 1)
    BY <1>1
  <2>2. C[0] = t
    BY <1>1, HeardStart DEF t
  <2>3. \A n \in 0..L : C[n] = IF n = 0 THEN t
          ELSE LET k == ExpungeOrder(n, L)
               IN IF k \in gone /\ k <= Len(C[n - 1]) THEN RemoveAt(C[n - 1], k) ELSE C[n - 1]
    <3> TAKE n \in 0..L
    <3>1. CASE n = 0
      BY <2>2, <3>1
    <3>2. CASE n # 0
      <4>1. n \in 1..L
        BY <1>1, <3>2
      <4> HIDE DEF C
      <4> QED
        BY <1>2, <2>1, <3>2, <4>1
    <3> QED
      BY <3>1, <3>2
  <2>4. C = [n \in 0..L |-> C[n]]
    OBVIOUS
  <2> HIDE DEF C
  <2> QED
    BY <1>1, <2>3, <2>4 DEF Hears
<1>4. ASSUME NEW H, Hears(H, t, gone) PROVE H[L] = C[L]
  <2> DEFINE N == {n \in Nat : n <= L => H[n] = C[n]}
  <2> HIDE DEF C
  <2>1. 0 \in N
    BY <1>1, <1>3, <1>4 DEF Hears
  <2>2. ASSUME NEW n \in Nat, n \in N PROVE n + 1 \in N
    <3> SUFFICES ASSUME n + 1 <= L PROVE H[n + 1] = C[n + 1]
      OBVIOUS
    <3>1. n + 1 \in 0..L /\ n + 1 # 0 /\ (n + 1) - 1 = n /\ n <= L
      BY <1>1
    <3>2. H[n] = C[n]
      BY <2>2, <3>1
    <3>3. \A G : Hears(G, t, gone) => G[n + 1] =
              LET k == ExpungeOrder(n + 1, L)
              IN IF k \in gone /\ k <= Len(G[n]) THEN RemoveAt(G[n], k) ELSE G[n]
      BY <1>1, <3>1 DEF Hears
    <3> QED
      BY <1>3, <1>4, <3>2, <3>3
  <2>3. Nat \subseteq N
    <3> HIDE DEF N
    <3> QED
      BY <2>1, <2>2, SetInduction
  <2> QED
    BY <1>1, <2>3
<1>5. C[L] = Numbers(Keeping(view, E))
  BY <1>1, HeardEnd DEF L
<1> HIDE DEF C
<1> DEFINE H == CHOOSE G : Hears(G, t, gone)
<1>6. Hears(H, t, gone)
  BY <1>3
<1>7. HeardExpunges(t, gone) = H[Len(t)]
  BY DEF HeardExpunges, Hears, t
<1> HIDE DEF H
<1> QED
  BY <1>1, <1>4, <1>5, <1>6, <1>7 DEF t

Ops == [k : {"append", "report", "list", "copy", "flag"}, todo : Seq(Bases), all : Seq(Bases), dst : Folders]
ReadRecords == [f : Folders \cup {""}, l : Seq(Bases), fs : SUBSET Files]

SessionRecords ==
    [st : {"off", "notauth", "auth", "selected"}, tls : BOOLEAN, sel : Folders \cup {""},
     ro : BOOLEAN, view : Seq(Files), read : ReadRecords, op : {NoOp} \cup Ops]

\* The folders: every base name is that of one file of one folder, and was
\* given out.
DiskOK ==
    /\ there \in SUBSET Folders /\ Inbox \in there
    /\ files \in [Folders -> SUBSET Files]
    /\ order \in [Folders -> Seq(Bases)]
    /\ born \in Nat /\ born <= MaxFiles
    /\ \A f \in Folders \ there : files[f] = {}
    /\ \A f \in Folders : BasesOf(files[f]) \subseteq 1..born /\ RangeOf(order[f]) \subseteq 1..born
    /\ \A f, g \in Folders : \A x \in files[f], y \in files[g] : x.base = y.base => f = g /\ x = y

\* What a Refresh works on when n files were stored.
ReadOK(b, n) == b \in ReadRecords /\ BasesOf(b.fs) \subseteq 1..n /\ RangeOf(b.l) \subseteq 1..n

\* A session object when n files were stored: what MOVE has still to do is in
\* its view, and it is not one of EXAMINE.
SessionOK(w, n) ==
    /\ w \in SessionRecords
    /\ BasesOf(RangeOf(w.view)) \subseteq 1..n
    /\ ReadOK(w.read, n)
    /\ w.st = "selected" <=> w.sel \in Folders
    /\ w.op # NoOp => /\ w.op.k \in {"copy", "flag"} \/ w.op.all # <<>> => w.st = "selected" /\ ~w.ro
                      /\ w.op.k \in {"copy", "flag"} => w.read = NoRead
                      /\ w.op.k \in {"append", "report"} => w.op.todo = <<>> /\ w.op.all = <<>>
                      /\ w.op.k = "report" => w.st = "selected"
                      /\ RangeOf(w.op.todo) \subseteq RangeOf(w.op.all)
                      /\ RangeOf(w.op.all) \subseteq BasesOf(RangeOf(w.view))
                      /\ w.op.k = "copy" => w.op.todo # <<>>

SessionsOK ==
    /\ sess \in [Sessions -> SessionRecords]
    /\ told = [c \in Sessions |-> told[c]]
    /\ \A s \in Sessions : SessionOK(sess[s], born)

\* A file whose name says Deleted was flagged by a client or copied by a MOVE.
DoomedOK ==
    \A f \in Folders : \A x \in files[f] : Deleted \in x.fl => x.base \in doomed \cup copied

\* What MOVE has still to copy: a message whose copy is not listed yet is done.
ToCopy(op) ==
    IF op.k = "copy" THEN RangeOf(op.todo)
    ELSE IF op.k = "list" /\ op.todo # <<>> THEN RangeOf(Tail(op.todo)) ELSE {}

\* The sources of a MOVE are copied (C), gone (Fs), or still to be copied.
SourcesOK(w, C, Fs) ==
    w.op # NoOp => \A b \in RangeOf(w.op.all) :
        b \in C \/ b \notin BasesOf(Fs[w.sel]) \/ b \in ToCopy(w.op)

MovesOK == \A s \in Sessions : SourcesOK(sess[s], copied, files)

\* The messages with a UID among the files Fs, when the list is l.
Listed(l, Fs) == Keeping(l, BasesOf(Fs))

\* A client that can still follow: its session shows files that are there, in
\* the order the list has them, and had them when a Refresh of it began.
InStep(w, t, Fs, l) ==
    /\ t = Numbers(w.view)
    /\ RangeOf(w.view) \subseteq Fs[w.sel]
    /\ StartsWith(Listed(l[w.sel], Fs[w.sel]), t)
    /\ w.read.f = w.sel => StartsWith(Listed(w.read.l, w.read.fs), t)

ClientsOK ==
    \A s \in Sessions :
        sess[s].st = "selected" /\ told[s] # Lost => InStep(sess[s], told[s], files, order)

SessionInv == DiskOK /\ SessionsOK /\ DoomedOK /\ MovesOK /\ ClientsOK

-----------------------------------------------------------------------------
\* A sequence starts with itself ...
LEMMA StartsWithSelf ==
    ASSUME NEW T, NEW q \in Seq(T)
    PROVE  StartsWith(q, q)
BY DEF StartsWith

\* ... a longer one with what it was ...
LEMMA StartsWithConcat ==
    ASSUME NEW T, NEW p \in Seq(T), NEW r \in Seq(T)
    PROVE  StartsWith(p \o r, p)
<1>1. Len(p) <= Len(p \o r)
  OBVIOUS
<1>2. SubSeq(p \o r, 1, Len(p)) = p
  OBVIOUS
<1> QED
  BY <1>1, <1>2 DEF StartsWith

\* ... and a beginning of a beginning is one.
LEMMA StartsWithTransitive ==
    ASSUME NEW T, NEW p \in Seq(T), NEW q \in Seq(T), NEW r \in Seq(T),
           StartsWith(q, p), StartsWith(r, q)
    PROVE  StartsWith(r, p)
<1>1. Len(p) <= Len(q) /\ Len(q) <= Len(r) /\ Len(p) <= Len(r)
  BY DEF StartsWith
<1>2. \A i \in 1..Len(p) : SubSeq(q, 1, Len(p))[i] = q[i]
  BY <1>1
<1>3. \A i \in 1..Len(q) : SubSeq(r, 1, Len(q))[i] = r[i]
  BY <1>1
<1>4. \A i \in 1..Len(p) : p[i] = r[i]
  BY <1>1, <1>2, <1>3 DEF StartsWith
<1>5. SubSeq(r, 1, Len(p)) = p
  BY <1>1, <1>4
<1> QED
  BY <1>1, <1>5 DEF StartsWith

\* What follows the beginning.
LEMMA StartsWithRest ==
    ASSUME NEW T, NEW p \in Seq(T), NEW q \in Seq(T), StartsWith(q, p)
    PROVE  q = p \o SubSeq(q, Len(p) + 1, Len(q)) /\ SubSeq(q, Len(p) + 1, Len(q)) \in Seq(T)
<1> DEFINE r == SubSeq(q, Len(p) + 1, Len(q))
<1>1. Len(p) <= Len(q) /\ p = SubSeq(q, 1, Len(p))
  BY DEF StartsWith
<1>2. r \in Seq(T) /\ Len(r) = Len(q) - Len(p)
  BY <1>1
<1>3. \A i \in 1..Len(p) : p[i] = q[i]
  <2>1. \A i \in 1..Len(p) : SubSeq(q, 1, Len(p))[i] = q[i]
    BY <1>1
  <2> QED
    BY <1>1, <2>1
<1>4. \A i \in 1..Len(q) : (p \o r)[i] = q[i]
  <2> TAKE i \in 1..Len(q)
  <2>1. CASE i <= Len(p)
    <3> HIDE DEF r
    <3> QED
      BY <1>2, <1>3, <2>1
  <2>2. CASE i > Len(p)
    <3>1. r[i - Len(p)] = q[i]
      BY <1>1, <2>2
    <3> HIDE DEF r
    <3> QED
      BY <1>1, <1>2, <2>2, <3>1
  <2> QED
    BY <2>1, <2>2
<1>5. p \o r \in Seq(T) /\ Len(p \o r) = Len(q)
  <2> HIDE DEF r
  <2> QED
    BY <1>1, <1>2
<1>6. p \o r = q
  <2> DEFINE z == p \o r
  <2>1. z \in Seq(T) /\ Len(z) = Len(q) /\ \A i \in 1..Len(q) : z[i] = q[i]
    BY <1>4, <1>5
  <2> HIDE DEF z
  <2>2. z = q
    BY <2>1
  <2> QED
    BY <2>2 DEF z
<1> QED
  BY <1>2, <1>6

\* An order of some base names is a sequence of them.
LEMMA OrdersLemma ==
    ASSUME NEW S \in SUBSET Bases, NEW q \in Orders(S)
    PROVE  q \in Seq(S)
<1>1. CASE S = {}
  BY <1>1 DEF Orders
<1>2. CASE S # {}
  <2>1. IsFiniteSet(Bases)
    BY ImapSessionAssumption, FS_Interval DEF Bases
  <2>2. IsFiniteSet(S)
    BY <2>1, FS_Subset
  <2>3. Cardinality(S) \in Nat
    BY <2>2, FS_CardinalityType
  <2>4. q \in [1..Cardinality(S) -> S]
    BY <1>2 DEF Orders
  <2> QED
    BY <2>3, <2>4
<1> QED
  BY <1>1, <1>2

\* A list Refresh ends with: the messages that are there, those listed before in front.
LEMMA ListingFacts ==
    ASSUME NEW b \in ReadRecords, NEW l \in Listings(b)
    PROVE  /\ l \in Seq(BasesOf(b.fs)) /\ l \in Seq(Bases)
           /\ BasesOf(b.fs) \subseteq Bases /\ RangeOf(l) \subseteq BasesOf(b.fs)
           /\ StartsWith(l, Listed(b.l, b.fs))
           /\ ~Dirty(b) => l = Listed(b.l, b.fs)
<1> DEFINE B == BasesOf(b.fs)
           k == Keeping(b.l, B)
<1>1. B \in SUBSET Bases
  BY DEF BasesOf, Files, ReadRecords
<1>2. PICK q \in Orders(B \ RangeOf(b.l)) : l = k \o q
  BY DEF Listings
<1>3. b.l \in Seq(Bases)
  BY DEF ReadRecords
<1>4. k \in Seq(Bases \cap B)
  BY <1>3, KeepType
<1>5. q \in Seq(B \ RangeOf(b.l))
  BY <1>1, OrdersLemma
<1>6. k \in Seq(B) /\ q \in Seq(B)
  BY <1>4, <1>5, SeqMonotonic
<1>11. ~Dirty(b) => q = <<>>
  <2>1. ~Dirty(b) => B \ RangeOf(b.l) = {}
    BY DEF Dirty
  <2> QED
    BY <1>2, <2>1 DEF Orders
<1> HIDE DEF k, B
<1>7. l \in Seq(B) /\ (q = <<>> => l = k)
  BY <1>2, <1>6
<1>8. l \in Seq(Bases)
  BY <1>1, <1>7, SeqMonotonic
<1>9. StartsWith(l, k)
  BY <1>2, <1>6, StartsWithConcat
<1>10. RangeOf(l) \subseteq B
  BY <1>7 DEF RangeOf
<1> QED
  BY <1>1, <1>7, <1>8, <1>9, <1>10, <1>11 DEF Listed, k, B

\* The view of a list shows files that are there, by the numbers of the list.
LEMMA ViewFacts ==
    ASSUME NEW Fs \in SUBSET Files, NEW l \in Seq(BasesOf(Fs))
    PROVE  /\ ViewOf(l, Fs) \in Seq(Files)
           /\ Len(ViewOf(l, Fs)) = Len(l)
           /\ RangeOf(ViewOf(l, Fs)) \subseteq Fs
           /\ Numbers(ViewOf(l, Fs)) = l
<1> DEFINE v == ViewOf(l, Fs)
<1>1. DOMAIN l = 1..Len(l) /\ Len(l) \in Nat /\ \A i \in 1..Len(l) : l[i] \in BasesOf(Fs)
  OBVIOUS
<1>2. v = [i \in 1..Len(l) |-> v[i]]
  BY <1>1 DEF ViewOf
<1>3. \A i \in 1..Len(l) : v[i] \in Fs /\ v[i].base = l[i]
  <2> TAKE i \in 1..Len(l)
  <2>1. \E x \in Fs : x.base = l[i]
    BY <1>1 DEF BasesOf
  <2>2. v[i] = CHOOSE x \in Fs : x.base = l[i]
    BY <1>1 DEF ViewOf
  <2> QED
    BY <2>1, <2>2
<1> HIDE DEF v
<1>4. v \in Seq(Files) /\ Len(v) = Len(l)
  BY <1>1, <1>2, <1>3
<1>5. RangeOf(v) \subseteq Fs
  BY <1>2, <1>3 DEF RangeOf
<1>6. Numbers(v) = l
  <2>1. Numbers(v) = [i \in 1..Len(l) |-> l[i]]
    BY <1>2, <1>3 DEF Numbers
  <2>2. l = [i \in 1..Len(l) |-> l[i]]
    BY <1>1, SeqEta
  <2> QED
    BY <2>1, <2>2
<1> QED
  BY <1>4, <1>5, <1>6 DEF v

\* What a step may do to the folders under a session that does not take it:
\* names that were given out do not come back, a copied message is forgotten
\* only when it is gone, and a folder that loses no file keeps its order.
DiskCore ==
    /\ DiskOK'
    /\ born <= born'
    /\ \A g \in Folders : \A b \in 1..born :
        /\ b \notin BasesOf(files[g]) => b \notin BasesOf(files'[g])
        /\ b \in copied => b \in copied' \/ b \notin BasesOf(files'[g])

\* Folder g loses nothing, and its list goes on from what it was.
Steady(g) ==
    /\ files[g] \subseteq files'[g]
    /\ StartsWith(Listed(order'[g], files'[g]), Listed(order[g], files[g]))

\* A step that writes no list over one it has not read.
DiskStep ==
    /\ DiskCore
    /\ \A g \in Folders : files[g] \subseteq files'[g] => Steady(g)

\* Listed messages are base names.
LEMMA ListedType ==
    ASSUME NEW l \in Seq(Bases), NEW Fs
    PROVE  Listed(l, Fs) \in Seq(Bases)
<1>1. Keeping(l, BasesOf(Fs)) \in Seq(Bases \cap BasesOf(Fs))
  BY KeepType
<1> QED
  BY <1>1, SeqMonotonic DEF Listed

\* Nothing changes, nothing is lost.
LEMMA ListedSelf ==
    ASSUME NEW l \in Seq(Bases), NEW Fs
    PROVE  StartsWith(Listed(l, Fs), Listed(l, Fs))
BY ListedType, StartsWithSelf

\* The folders are only looked at, or one is made.
LEMMA DiskLooked ==
    ASSUME DiskOK, files' = files, order' = order, born' = born,
           there \subseteq there', there' \subseteq Folders, copied \subseteq copied'
    PROVE  DiskStep
<1>1. DiskOK'
  BY DEF DiskOK
<1>2. \A g \in Folders : StartsWith(Listed(order'[g], files'[g]), Listed(order[g], files[g]))
  BY ListedSelf DEF DiskOK
<1>3. born <= born'
  BY DEF DiskOK
<1> QED
  BY <1>1, <1>2, <1>3 DEF DiskStep, DiskCore, Steady

\* What the sessions and the folders say of a Refresh.
LEMMA BasisFacts ==
    ASSUME DiskOK, NEW s \in Sessions, NEW f \in Folders, SessionOK(sess[s], born)
    PROVE  ReadOK(Basis(s, f), born) /\ Basis(s, f).f = f
<1>1. files[f] \in SUBSET Files /\ order[f] \in Seq(Bases)
      /\ BasesOf(files[f]) \subseteq 1..born /\ RangeOf(order[f]) \subseteq 1..born
  BY DEF DiskOK
<1>2. CASE sess[s].read.f = f
  BY <1>2 DEF Basis, SessionOK
<1>3. CASE sess[s].read.f # f
  <2>1. Basis(s, f) = [f |-> f, l |-> order[f], fs |-> files[f]]
    BY <1>3 DEF Basis
  <2> DEFINE o == order[f]
             F == files[f]
             b == [f |-> f, l |-> o, fs |-> F]
  <2>2. o \in Seq(Bases) /\ F \in SUBSET Files
    BY <1>1
  <2> HIDE DEF o, F
  <2>3. b \in ReadRecords /\ b.f = f /\ b.l = o /\ b.fs = F
    BY <2>2 DEF ReadRecords
  <2> HIDE DEF b
  <2>4. Basis(s, f) = b
    BY <2>1 DEF b, o, F
  <2> QED
    BY <1>1, <2>3, <2>4 DEF ReadOK, o, F
<1> QED
  BY <1>2, <1>3

\* A Refresh that agrees with what is there leaves a list that goes on from the
\* list before, and from its own.
LEMMA AgreesFacts ==
    ASSUME DiskOK, NEW b, ReadOK(b, born), b.f \in Folders, NEW l \in Listings(b), Agrees(b, l)
    PROVE  /\ StartsWith(Listed(Relisted(b, l)[b.f], files[b.f]), Listed(order[b.f], files[b.f]))
           /\ StartsWith(Listed(Relisted(b, l)[b.f], files[b.f]), l)
           /\ b.fs \subseteq files[b.f]
<1> DEFINE f == b.f
           now == Listed(order[f], files[f])
<1>1. order \in [Folders -> Seq(Bases)] /\ b \in ReadRecords
  BY DEF DiskOK, ReadOK
<1>2. b.fs \subseteq files[f] /\ (Dirty(b) => StartsWith(l, now)) /\ (~Dirty(b) => StartsWith(now, l))
  BY DEF Agrees, Listed
<1>3. l \in Seq(BasesOf(b.fs)) /\ l \in Seq(Bases)
  BY <1>1, ListingFacts
<1>4. BasesOf(b.fs) \subseteq BasesOf(files[f])
  BY <1>2 DEF BasesOf
<1>5. Listed(l, files[f]) = l
  BY <1>3, <1>4, KeepAll DEF Listed
<1>6. StartsWith(l, l) /\ StartsWith(now, now)
  BY <1>1, <1>3, StartsWithSelf, ListedSelf
<1>7. Relisted(b, l)[f] = IF Dirty(b) THEN l ELSE order[f]
  BY <1>1 DEF Relisted
<1> QED
  BY <1>2, <1>5, <1>6, <1>7

\* One is read, and its list written when there is something new.
LEMMA DiskRead ==
    ASSUME DiskOK, NEW b, ReadOK(b, born), b.f \in Folders, NEW l \in Listings(b),
           files' = files, order' = Relisted(b, l), born' = born,
           there \subseteq there', there' \subseteq Folders, copied \subseteq copied'
    PROVE  /\ DiskCore
           /\ \A g \in Folders : g # b.f \/ Agrees(b, l) => Steady(g)
<1> DEFINE f == b.f
<1>1. files \in [Folders -> SUBSET Files] /\ order \in [Folders -> Seq(Bases)] /\ b \in ReadRecords
  BY DEF DiskOK, ReadOK
<1>2. l \in Seq(Bases) /\ RangeOf(l) \subseteq 1..born
  BY <1>1, ListingFacts DEF ReadOK
<1>3. order' \in [Folders -> Seq(Bases)] /\ (\A g \in Folders : g # f => order'[g] = order[g])
      /\ (order'[f] = l \/ order'[f] = order[f])
  BY <1>1, <1>2 DEF Relisted
<1>5. \A g \in Folders : RangeOf(order'[g]) \subseteq 1..born
  BY <1>1, <1>2, <1>3 DEF DiskOK
<1>6. DiskOK'
  BY <1>3, <1>5 DEF DiskOK
<1>7. ASSUME NEW g \in Folders, g # f PROVE Steady(g)
  BY <1>1, <1>3, <1>7, ListedSelf DEF Steady
<1>8. ASSUME Agrees(b, l) PROVE Steady(f)
  BY <1>8, AgreesFacts DEF Steady
<1>9. born <= born'
  BY DEF DiskOK
<1>10. DiskCore
  BY <1>6, <1>9 DEF DiskCore
<1> QED
  BY <1>7, <1>8, <1>10

\* A message that has no UID yet does not show in the list.
LEMMA ListedStored ==
    ASSUME born \in Nat, NEW q \in Seq(Bases), RangeOf(q) \subseteq 1..born,
           NEW F, NEW x, x.base = born + 1
    PROVE  Listed(q, F \cup {x}) = Listed(q, F)
<1> DEFINE R == RangeOf(q)
           Fs == F \cup {x}
<1>1. q \in Seq(R)
  BY DEF RangeOf
<1>2. BasesOf(Fs) = BasesOf(F) \cup {born + 1}
  BY DEF BasesOf
<1>3. born + 1 \notin 1..born
  OBVIOUS
<1> HIDE DEF Fs
<1>4. \A b \in R : b \in BasesOf(Fs) <=> b \in BasesOf(F)
  BY <1>2, <1>3
<1> HIDE DEF R
<1>5. Keeping(q, BasesOf(Fs)) = Keeping(q, BasesOf(F))
  BY <1>1, <1>4, KeepAgree
<1> QED
  BY <1>5 DEF Listed, Fs

\* A new message is stored in f.
LEMMA DiskStored ==
    ASSUME DiskOK, NEW f \in Folders, NEW fl \in SUBSET {Seen, Deleted}, born < MaxFiles,
           files' = [files EXCEPT ![f] = files[f] \cup {Stored(fl)}], born' = born + 1,
           order' = order,
           there \subseteq there', there' \subseteq Folders, f \in there', copied \subseteq copied'
    PROVE  DiskStep
<1> DEFINE x == Stored(fl)
           Fs == files[f] \cup {x}
<1>0. born \in Nat /\ MaxFiles \in Nat /\ files \in [Folders -> SUBSET Files]
      /\ order \in [Folders -> Seq(Bases)]
  BY ImapSessionAssumption DEF DiskOK
<1>a. \A g \in Folders : BasesOf(files[g]) \subseteq 1..born /\ RangeOf(order[g]) \subseteq 1..born
  BY DEF DiskOK
<1>b. 1..(born + 1) = (1..born) \cup {born + 1} /\ born + 1 \notin 1..born
  BY <1>0
<1>1. x \in Files /\ x.base = born + 1
  <2>1. born + 1 \in Bases
    BY <1>0 DEF Bases
  <2> QED
    BY <2>1 DEF Stored, Files
<1> HIDE DEF x
<1>2. Fs \in SUBSET Files /\ files'[f] = Fs /\ \A g \in Folders \ {f} : files'[g] = files[g]
  BY <1>0, <1>1 DEF x
<1>3. files' \in [Folders -> SUBSET Files]
  BY <1>0, <1>2
<1>4. BasesOf(Fs) = BasesOf(files[f]) \cup {born + 1}
  BY <1>1 DEF BasesOf
<1>5. /\ order' \in [Folders -> Seq(Bases)]
      /\ \A g \in Folders : RangeOf(order'[g]) \subseteq 1..(born + 1)
      /\ \A g \in Folders \ {f} : order'[g] = order[g]
      /\ StartsWith(Listed(order'[f], Fs), Listed(order[f], Fs))
  <2>1. \A g \in Folders : RangeOf(order'[g]) \subseteq 1..(born + 1)
    BY <1>a, <1>b
  <2>2. StartsWith(Listed(order'[f], Fs), Listed(order[f], Fs))
    BY <1>0, ListedSelf
  <2> QED
    BY <1>0, <2>1, <2>2
<1>6. Listed(order[f], Fs) = Listed(order[f], files[f])
  BY <1>0, <1>1, <1>a, ListedStored
<1> HIDE DEF Fs
<1>7. \A g \in Folders : StartsWith(Listed(order'[g], files'[g]), Listed(order[g], files[g]))
  BY <1>0, <1>2, <1>5, <1>6, ListedSelf
<1>8. \A g \in Folders : BasesOf(files'[g]) \subseteq BasesOf(files[g]) \cup {born + 1}
  BY <1>2, <1>4
<1>9. \A g \in Folders : BasesOf(files'[g]) \subseteq 1..born'
  <2>1. \A g \in Folders : BasesOf(files'[g]) \subseteq 1..(born + 1)
    BY <1>a, <1>b, <1>8
  <2> QED
    BY <2>1
<1>10. \A g, h \in Folders : \A y \in files'[g], z \in files'[h] : y.base = z.base => g = h /\ y = z
  <2> TAKE g, h \in Folders
  <2> TAKE y \in files'[g], z \in files'[h]
  <2>1. \A k \in Folders : \A u \in files[k] : u.base # born + 1
    <3>1. \A k \in Folders : \A u \in files[k] : u.base \in 1..born
      BY DEF DiskOK, BasesOf
    <3> QED
      BY <1>0, <3>1
  <2>2. \A k \in Folders : \A u \in files'[k] : u \in files[k] \/ (u = x /\ k = f)
    BY <1>2 DEF Fs
  <2> QED
    BY <1>1, <2>1, <2>2 DEF DiskOK
<1>11. \A g \in Folders \ there' : files'[g] = {}
  BY <1>2 DEF DiskOK
<1>12. DiskOK'
  <2>1. there' \in SUBSET Folders /\ Inbox \in there'
    BY DEF DiskOK
  <2>2. born' \in Nat /\ born' <= MaxFiles
    BY <1>0
  <2>3. \A g \in Folders : RangeOf(order'[g]) \subseteq 1..born'
    BY <1>5
  <2> QED
    BY <1>3, <1>5, <1>9, <1>10, <1>11, <2>1, <2>2, <2>3 DEF DiskOK
<1>13. \A g \in Folders : \A b \in 1..born : b \notin BasesOf(files[g]) => b \notin BasesOf(files'[g])
  BY <1>b, <1>8
<1>14. born <= born'
  BY <1>0
<1> QED
  BY <1>7, <1>12, <1>13, <1>14 DEF DiskStep, DiskCore, Steady

\* A file gets another name, or stays what it is: what Renamed makes of a folder.
LEMMA RenamedLemma ==
    ASSUME NEW Fs \in SUBSET Files, NEW e \in Files, NEW fl \in SUBSET {Seen, Deleted},
           \A x, y \in Fs : x.base = y.base => x = y
    PROVE  /\ FileOf(e) = e /\ NameOf(e, fl) \in Files /\ NameOf(e, fl).base = e.base
           /\ NameOf(e, fl).fl = fl
           /\ e \notin Fs => Renamed(Fs, e, fl) = Fs
           /\ e \in Fs => Renamed(Fs, e, fl) = (Fs \ {e}) \cup {NameOf(e, fl)}
           /\ Renamed(Fs, e, fl) \in SUBSET Files
           /\ BasesOf(Renamed(Fs, e, fl)) = BasesOf(Fs)
           /\ \A x \in Renamed(Fs, e, fl) : x \in Fs \/ (x = NameOf(e, fl) /\ e \in Fs)
<1>1. FileOf(e) = e
  BY DEF FileOf, Files
<1>2. NameOf(e, fl) \in Files /\ NameOf(e, fl).base = e.base /\ NameOf(e, fl).fl = fl
  BY DEF NameOf, Files
<1>3. Finds(Fs, e) = Fs \cap {e}
  BY <1>1 DEF Finds
<1>4. e \notin Fs => Renamed(Fs, e, fl) = Fs
  <2>1. e \notin Fs => Finds(Fs, e) = {}
    BY <1>3
  <2> QED
    BY <2>1 DEF Renamed
<1>5. e \in Fs => Renamed(Fs, e, fl) = (Fs \ {e}) \cup {NameOf(e, fl)}
  <2>1. e \in Fs => Finds(Fs, e) = {e}
    BY <1>3
  <2> QED
    BY <2>1 DEF Renamed
<1>6. Renamed(Fs, e, fl) \in SUBSET Files
  BY <1>2, <1>4, <1>5
<1>7. BasesOf(Renamed(Fs, e, fl)) = BasesOf(Fs)
  <2>1. CASE e \notin Fs
    BY <1>4, <2>1
  <2>2. CASE e \in Fs
    <3> DEFINE n == NameOf(e, fl)
    <3>1. n.base = e.base
      BY <1>2
    <3> HIDE DEF n
    <3>2. BasesOf((Fs \ {e}) \cup {n}) = BasesOf(Fs)
      BY <2>2, <3>1 DEF BasesOf
    <3> QED
      BY <1>5, <2>2, <3>2 DEF n
  <2> QED
    BY <2>1, <2>2
<1> QED
  BY <1>1, <1>2, <1>4, <1>5, <1>6, <1>7

\* A file of f gets another name (SetFlags).
LEMMA DiskRenamed ==
    ASSUME DiskOK, NEW f \in Folders, NEW e \in Files, NEW fl \in SUBSET {Seen, Deleted},
           files' = [files EXCEPT ![f] = Renamed(files[f], e, fl)],
           UNCHANGED <<there, order, born>>, copied' = copied
    PROVE  DiskStep
<1> DEFINE R == Renamed(files[f], e, fl)
           n == NameOf(e, fl)
<1>0. files \in [Folders -> SUBSET Files] /\ order \in [Folders -> Seq(Bases)] /\ born \in Nat
  BY DEF DiskOK
<1>1. files[f] \in SUBSET Files /\ \A x, y \in files[f] : x.base = y.base => x = y
  BY DEF DiskOK
<1>2. /\ R \in SUBSET Files /\ BasesOf(R) = BasesOf(files[f]) /\ n.base = e.base
      /\ \A x \in R : x \in files[f] \/ (x = n /\ e \in files[f])
      /\ e \in files[f] => R = (files[f] \ {e}) \cup {n}
      /\ e \notin files[f] => R = files[f]
  <2> DEFINE F == files[f]
  <2> SUFFICES /\ Renamed(F, e, fl) \in SUBSET Files /\ BasesOf(Renamed(F, e, fl)) = BasesOf(F)
               /\ NameOf(e, fl).base = e.base
               /\ \A x \in Renamed(F, e, fl) : x \in F \/ (x = NameOf(e, fl) /\ e \in F)
               /\ e \in F => Renamed(F, e, fl) = (F \ {e}) \cup {NameOf(e, fl)}
               /\ e \notin F => Renamed(F, e, fl) = F
    OBVIOUS
  <2>1. F \in SUBSET Files /\ \A x, y \in F : x.base = y.base => x = y
    BY <1>1
  <2> HIDE DEF F
  <2> QED
    BY <2>1, RenamedLemma
<1> HIDE DEF R, n
<1>3. files'[f] = R /\ (\A g \in Folders \ {f} : files'[g] = files[g])
  BY <1>0 DEF R
<1>4. files' \in [Folders -> SUBSET Files]
  BY <1>0, <1>2 DEF R
<1>5. \A g \in Folders : BasesOf(files'[g]) = BasesOf(files[g])
  BY <1>2, <1>3
<1>6. \A g, h \in Folders : \A y \in files'[g], z \in files'[h] : y.base = z.base => g = h /\ y = z
  <2> TAKE g, h \in Folders
  <2> TAKE y \in files'[g], z \in files'[h]
  <2>1. \A u, v \in files[f] : u.base = v.base => u = v
    BY <1>1
  <2>2. \A u \in R : u # n => u \in files[f]
    BY <1>2
  <2>3. \A u \in R : u.base = n.base /\ e \in files[f] => u = n
    BY <1>2, <2>1
  <2>4. \A u, v \in R : u.base = v.base => u = v
    BY <1>2, <2>1, <2>3
  <2>5. \A k \in Folders : \A u \in files'[k] : \E v \in files[k] : v.base = u.base
    BY <1>5 DEF BasesOf
  <2>6. y.base = z.base => g = h
    BY <2>5 DEF DiskOK
  <2> QED
    BY <1>3, <2>4, <2>6 DEF DiskOK
<1>7. \A g \in Folders \ there' : files'[g] = {}
  <2>1. \A g \in Folders \ there : files[g] = {}
    BY DEF DiskOK
  <2>2. f \notin there => R = {}
    BY <1>2, <2>1
  <2> QED
    BY <1>3, <2>1, <2>2
<1>8. DiskOK'
  BY <1>4, <1>5, <1>6, <1>7 DEF DiskOK
<1>9. \A g \in Folders : Listed(order'[g], files'[g]) = Listed(order[g], files[g])
  BY <1>5 DEF Listed
<1>10. \A g \in Folders : StartsWith(Listed(order'[g], files'[g]), Listed(order[g], files[g]))
  BY <1>0, <1>9, ListedSelf
<1> QED
  BY <1>0, <1>5, <1>8, <1>10 DEF DiskStep, DiskCore, Steady

\* Files of f are removed, or the folder is, and what was observed of them
\* is forgotten.
LEMMA DiskRemoved ==
    ASSUME DiskOK, NEW f \in Folders, NEW R \in SUBSET files[f],
           files' = [files EXCEPT ![f] = R], born' = born,
           copied' = copied \ (BasesOf(files[f]) \ BasesOf(R)),
           \/ there' = there /\ order' = order
           \/ f # Inbox /\ R = {} /\ there' = there \ {f} /\ order' = [order EXCEPT ![f] = <<>>]
    PROVE  DiskStep
<1>0. files \in [Folders -> SUBSET Files] /\ order \in [Folders -> Seq(Bases)] /\ born \in Nat
  BY DEF DiskOK
<1>1. files'[f] = R /\ (\A g \in Folders \ {f} : files'[g] = files[g])
  BY <1>0
<1>2. files' \in [Folders -> SUBSET Files]
  BY <1>0
<1>3. \A g \in Folders : files'[g] \subseteq files[g] /\ BasesOf(files'[g]) \subseteq BasesOf(files[g])
  BY <1>1 DEF BasesOf
<1>4. /\ order' \in [Folders -> Seq(Bases)]
      /\ \A g \in Folders : RangeOf(order'[g]) \subseteq 1..born
      /\ \A g \in Folders \ {f} : order'[g] = order[g]
  <2>1. <<>> \in Seq(Bases) /\ RangeOf(<<>>) = {}
    BY DEF RangeOf
  <2>2. \A g \in Folders : RangeOf(order[g]) \subseteq 1..born
    BY DEF DiskOK
  <2>3. CASE order' = order
    BY <1>0, <2>2, <2>3
  <2>4. CASE order' = [order EXCEPT ![f] = <<>>]
    <3>1. order'[f] = <<>> /\ (\A g \in Folders \ {f} : order'[g] = order[g])
      BY <1>0, <2>4
    <3>2. order' \in [Folders -> Seq(Bases)]
      BY <1>0, <2>1, <2>4
    <3>3. \A g \in Folders : RangeOf(order'[g]) \subseteq 1..born
      BY <2>1, <2>2, <3>1
    <3> QED
      BY <3>1, <3>2, <3>3
  <2> QED
    BY <2>3, <2>4
<1>5. there' \in SUBSET Folders /\ Inbox \in there' /\ \A g \in Folders \ there' : files'[g] = {}
  BY <1>1 DEF DiskOK
<1>6. \A g, h \in Folders : \A y \in files'[g], z \in files'[h] : y.base = z.base => g = h /\ y = z
  BY <1>3 DEF DiskOK
<1>7. \A g \in Folders : BasesOf(files'[g]) \subseteq 1..born
  BY <1>3 DEF DiskOK
<1>8. DiskOK'
  BY <1>0, <1>2, <1>4, <1>5, <1>6, <1>7 DEF DiskOK
<1>9. \A g \in Folders : \A b \in copied : b \in copied' \/ b \notin BasesOf(files'[g])
  <2> TAKE g \in Folders
  <2> TAKE b \in copied
  <2>1. SUFFICES ASSUME b \in BasesOf(files[f]), b \notin BasesOf(R), b \in BasesOf(files'[g]) PROVE FALSE
    OBVIOUS
  <2>2. g # f
    BY <1>1, <2>1
  <2>3. PICK x \in files[f] : x.base = b
    BY <2>1 DEF BasesOf
  <2>4. PICK y \in files[g] : y.base = b
    BY <1>3, <2>1 DEF BasesOf
  <2> QED
    BY <2>2, <2>3, <2>4 DEF DiskOK
<1>10. ASSUME NEW g \in Folders, files[g] \subseteq files'[g]
       PROVE StartsWith(Listed(order'[g], files'[g]), Listed(order[g], files[g]))
  <2>1. files'[g] = files[g]
    BY <1>3, <1>10
  <2>2. CASE order'[g] = order[g]
    BY <1>0, <2>1, <2>2, ListedSelf
  <2>3. CASE order'[g] # order[g]
    <3>1. g = f /\ R = {} /\ order'[g] = <<>>
      BY <1>0, <1>4, <2>3
    <3>2. files[g] = {} /\ files'[g] = {}
      BY <1>1, <2>1, <3>1
    <3>3. \A l \in Seq(Bases) : Listed(l, {}) = <<>>
      <4> TAKE l \in Seq(Bases)
      <4>1. BasesOf({}) = {}
        BY DEF BasesOf
      <4>2. Keeping(l, {}) \in Seq(Bases \cap {})
        BY KeepType
      <4>3. \A q \in Seq(Bases \cap {}) : q = <<>>
        OBVIOUS
      <4> QED
        BY <4>1, <4>2, <4>3 DEF Listed
    <3>4. <<>> \in Seq(Bases) /\ order[g] \in Seq(Bases)
      BY <1>0
    <3>5. Listed(order'[g], files'[g]) = <<>> /\ Listed(order[g], files[g]) = <<>>
      BY <3>1, <3>2, <3>3, <3>4
    <3> QED
      BY <3>4, <3>5, StartsWithSelf
  <2> QED
    BY <2>2, <2>3
<1> QED
  BY <1>0, <1>3, <1>8, <1>9, <1>10 DEF DiskStep, DiskCore, Steady

\* A session that does not take the step.
LEMMA BystanderKept ==
    ASSUME SessionInv, DiskCore, NEW c \in Sessions
    PROVE  /\ SessionOK(sess[c], born')
           /\ SourcesOK(sess[c], copied', files')
           /\ sess[c].st = "selected" /\ told[c] # Lost /\ Steady(sess[c].sel)
              => InStep(sess[c], told[c], files', order')
<1> DEFINE w == sess[c]
           t == told[c]
<1>1. SessionOK(w, born) /\ SourcesOK(w, copied, files) /\ born \in Nat /\ born' \in Nat /\ born <= born'
  BY DEF SessionInv, SessionsOK, MovesOK, DiskCore, DiskOK
<1>2. w.st = "selected" /\ t # Lost => InStep(w, t, files, order)
  BY DEF SessionInv, ClientsOK
<1> HIDE DEF w, t
<1>3. 1..born \subseteq 1..born'
  BY <1>1
<1>4. SessionOK(w, born')
  BY <1>1, <1>3 DEF SessionOK, ReadOK
<1>5. SourcesOK(w, copied', files')
  <2> SUFFICES ASSUME w.op # NoOp, NEW b \in RangeOf(w.op.all)
               PROVE  b \in copied' \/ b \notin BasesOf(files'[w.sel]) \/ b \in ToCopy(w.op)
    BY DEF SourcesOK
  <2>0. w.op.all # <<>>
    BY DEF RangeOf
  <2>1. b \in 1..born /\ w.sel \in Folders
    BY <1>1, <2>0 DEF SessionOK
  <2>2. b \in copied \/ b \notin BasesOf(files[w.sel]) \/ b \in ToCopy(w.op)
    BY <1>1 DEF SourcesOK
  <2> QED
    BY <2>1, <2>2 DEF DiskCore
<1>6. ASSUME w.st = "selected", t # Lost, Steady(w.sel)
      PROVE  InStep(w, t, files', order')
  <2>1. w.sel \in Folders /\ w.view \in Seq(Files)
    BY <1>1, <1>6 DEF SessionOK, SessionRecords
  <2>2. /\ t = Numbers(w.view) /\ t \in Seq(Bases) /\ RangeOf(w.view) \subseteq files[w.sel]
        /\ StartsWith(Listed(order[w.sel], files[w.sel]), t)
        /\ w.read.f = w.sel => StartsWith(Listed(w.read.l, w.read.fs), t)
    BY <1>2, <1>6, <2>1, NumbersType DEF InStep
  <2>3. order[w.sel] \in Seq(Bases) /\ order'[w.sel] \in Seq(Bases)
    BY <2>1 DEF SessionInv, DiskCore, DiskOK
  <2>4. Listed(order[w.sel], files[w.sel]) \in Seq(Bases)
        /\ Listed(order'[w.sel], files'[w.sel]) \in Seq(Bases)
    BY <2>3, ListedType
  <2>5. /\ StartsWith(Listed(order'[w.sel], files'[w.sel]), Listed(order[w.sel], files[w.sel]))
        /\ files[w.sel] \subseteq files'[w.sel]
    BY <1>6 DEF Steady
  <2>6. StartsWith(Listed(order'[w.sel], files'[w.sel]), t)
    BY <2>2, <2>4, <2>5, StartsWithTransitive
  <2> QED
    BY <2>2, <2>5, <2>6 DEF InStep
<1> QED
  BY <1>4, <1>5, <1>6 DEF w, t

\* A step of session s that leaves it as w, its client with t, and the clients
\* in D without a clue.
LEMMA SteadyStep ==
    ASSUME SessionInv, DiskCore, DoomedOK', NEW s \in Sessions, NEW w, NEW t, NEW D,
           Set(s, w), Tell(s, t, D), SessionOK(w, born'), SourcesOK(w, copied', files'),
           \A c \in Sessions \ {s} : c \in D \/ sess[c].st # "selected" \/ Steady(sess[c].sel),
           w.st = "selected" /\ t # Lost /\ s \notin D => InStep(w, t, files', order')
    PROVE  SessionInv'
<1>0. /\ sess' = [sess EXCEPT ![s] = w]
      /\ told' = [c \in Sessions |-> IF c \in D THEN Lost ELSE IF c = s THEN t ELSE told[c]]
  BY DEF Set, Tell
<1>1. sess \in [Sessions -> SessionRecords]
  BY DEF SessionInv, SessionsOK
<1>2. w \in SessionRecords
  BY DEF SessionOK
<1>3. sess' \in [Sessions -> SessionRecords] /\ sess'[s] = w
      /\ \A c \in Sessions \ {s} : sess'[c] = sess[c]
  BY <1>0, <1>1, <1>2
<1>4. told' = [c \in Sessions |-> told'[c]]
  BY <1>0
<1>5. \A c \in Sessions : SessionOK(sess'[c], born') /\ SourcesOK(sess'[c], copied', files')
  BY <1>3, BystanderKept
<1>6. ASSUME NEW c \in Sessions, sess'[c].st = "selected", told'[c] # Lost
      PROVE  InStep(sess'[c], told'[c], files', order')
  <2>0. c \notin D
    BY <1>0, <1>6
  <2>1. CASE c = s
    BY <1>0, <1>3, <1>6, <2>0, <2>1
  <2>2. CASE c # s
    <3>1. sess'[c] = sess[c] /\ told'[c] = told[c]
      BY <1>0, <1>3, <2>0, <2>2
    <3>2. Steady(sess[c].sel)
      BY <1>6, <2>0, <2>2, <3>1
    <3> QED
      BY <1>6, <3>1, <3>2, BystanderKept
  <2> QED
    BY <2>1, <2>2
<1>7. DiskOK'
  BY DEF DiskCore
<1> QED
  BY <1>3, <1>4, <1>5, <1>6, <1>7 DEF SessionInv, SessionsOK, MovesOK, ClientsOK

\* The same, when no list is written over another.
LEMMA SessionStep ==
    ASSUME SessionInv, DiskStep, DoomedOK', NEW s \in Sessions, NEW w, NEW t, NEW D,
           Set(s, w), Tell(s, t, D), SessionOK(w, born'), SourcesOK(w, copied', files'),
           \A c \in Sessions \ {s} : \/ c \in D \/ sess[c].st # "selected"
                                     \/ files[sess[c].sel] \subseteq files'[sess[c].sel],
           w.st = "selected" /\ t # Lost /\ s \notin D => InStep(w, t, files', order')
    PROVE  SessionInv'
<1>1. \A c \in Sessions : sess[c].st = "selected" => sess[c].sel \in Folders
  BY DEF SessionInv, SessionsOK, SessionOK
<1>2. \A c \in Sessions \ {s} : c \in D \/ sess[c].st # "selected" \/ Steady(sess[c].sel)
  BY <1>1 DEF DiskStep
<1>3. DiskCore
  BY DEF DiskStep
<1> QED
  BY <1>2, <1>3, SteadyStep

\* A step that leaves the sessions alone and takes no file away.
LEMMA QuietStep ==
    ASSUME SessionInv, DiskStep, DoomedOK', sess' = sess, told' = told,
           \A f \in Folders : files[f] \subseteq files'[f]
    PROVE  SessionInv'
<1>0. DiskCore
  BY DEF DiskStep
<1>1. \A c \in Sessions : SessionOK(sess'[c], born') /\ SourcesOK(sess'[c], copied', files')
  BY <1>0, BystanderKept
<1>2. ASSUME NEW c \in Sessions, sess'[c].st = "selected", told'[c] # Lost
      PROVE  InStep(sess'[c], told'[c], files', order')
  <2>1. sess[c].sel \in Folders
    BY <1>2 DEF SessionInv, SessionsOK, SessionOK
  <2>2. Steady(sess[c].sel)
    BY <2>1 DEF DiskStep
  <2> QED
    BY <1>0, <1>2, <2>2, BystanderKept
<1>3. DiskOK'
  BY <1>0 DEF DiskCore
<1> QED
  BY <1>1, <1>2, <1>3 DEF SessionInv, SessionsOK, MovesOK, ClientsOK

\* What the invariant says of one session.
LEMMA SessionFacts ==
    ASSUME SessionInv, NEW s \in Sessions
    PROVE  /\ sess[s] \in SessionRecords /\ SessionOK(sess[s], born)
           /\ SourcesOK(sess[s], copied, files)
           /\ sess[s].st = "selected" /\ told[s] # Lost => InStep(sess[s], told[s], files, order)
           /\ told' = told => Tell(s, told[s], {})
BY DEF Tell, SessionInv, SessionsOK, SessionOK, MovesOK, ClientsOK

\* No Refresh has begun.
LEMMA NothingRead ==
    (\A n : ReadOK(NoRead, n)) /\ NoRead \in ReadRecords /\ NoRead.f \notin Folders
<1>1. NoRead \in ReadRecords /\ NoRead.l = <<>> /\ NoRead.fs = {} /\ NoRead.f \notin Folders
  BY DEF NoRead, ReadRecords, Folders, Inbox
<1>2. BasesOf({}) = {} /\ RangeOf(<<>>) = {}
  BY DEF BasesOf, RangeOf
<1> QED
  BY <1>1, <1>2 DEF ReadOK

\* A session in no command owes nothing to its sources.
LEMMA NotMoving ==
    ASSUME NEW w \in SessionRecords, w.op = NoOp, w.read = NoRead,
           BasesOf(RangeOf(w.view)) \subseteq 1..born, w.st = "selected" <=> w.sel \in Folders
    PROVE  SessionOK(w, born) /\ \A C, Fs : SourcesOK(w, C, Fs)
BY NothingRead DEF SessionOK, SourcesOK

\* Nothing is selected.
LEMMA EmptyView ==
    /\ <<>> \in Seq(Files) /\ BasesOf(RangeOf(<<>>)) = {} /\ RangeOf(<<>>) = {}
    /\ Numbers(<<>>) = <<>> /\ Off \in SessionRecords
<1>1. <<>> \in Seq(Files) /\ RangeOf(<<>>) = {} /\ Numbers(<<>>) = <<>>
  BY DEF RangeOf, Numbers
<1>2. BasesOf({}) = {}
  BY DEF BasesOf
<1> QED
  BY <1>1, <1>2, NothingRead DEF Off, SessionRecords

\* The folders are left alone.
LEMMA DiskSame ==
    ASSUME SessionInv, UNCHANGED <<diskVars, doomed, copied>>
    PROVE  DiskStep /\ DoomedOK'
<1>1. DoomedOK'
  BY DEF SessionInv, DoomedOK, diskVars
<1>2. DiskStep
  BY DiskLooked DEF SessionInv, diskVars, DiskOK
<1> QED
  BY <1>1, <1>2

\* A step of s that touches no file.
LEMMA SessionOnly ==
    ASSUME SessionInv, UNCHANGED <<diskVars, doomed, copied>>, NEW s \in Sessions, NEW w, NEW t,
           Set(s, w), Tell(s, t, {}), SessionOK(w, born), SourcesOK(w, copied, files),
           w.st = "selected" /\ t # Lost => InStep(w, t, files, order)
    PROVE  SessionInv'
<1>1. DiskStep /\ DoomedOK'
  BY DiskSame
<1>2. files' = files /\ order' = order /\ born' = born /\ copied' = copied
  BY DEF diskVars
<1>3. \A c \in Sessions \ {s} : files[sess[c].sel] \subseteq files'[sess[c].sel]
  BY <1>2
<1>4. SessionOK(w, born') /\ SourcesOK(w, copied', files')
  BY <1>2
<1>5. w.st = "selected" /\ t # Lost => InStep(w, t, files', order')
  BY <1>2
<1> QED
  BY <1>1, <1>3, <1>4, <1>5, SessionStep

\* A session begins.
LEMMA ConnectStep ==
    ASSUME SessionInv, NEW s \in Sessions, NEW tls \in BOOLEAN, Connect(s, tls)
    PROVE  SessionInv'
<1> DEFINE w == [Off EXCEPT !.st = "notauth", !.tls = tls]
<1>1. w \in SessionRecords /\ w.op = NoOp /\ w.read = NoRead /\ w.view = <<>> /\ w.st = "notauth"
      /\ w.sel \notin Folders
  BY EmptyView DEF SessionRecords, Off, Folders, Inbox
<1>2. Set(s, w) /\ UNCHANGED <<diskVars, doomed, copied>> /\ told' = told
  BY DEF Connect
<1> HIDE DEF w
<1>3. SessionOK(w, born) /\ SourcesOK(w, copied, files)
  BY <1>1, EmptyView, NotMoving
<1> QED
  BY <1>1, <1>2, <1>3, SessionFacts, SessionOnly

\* STARTTLS.
LEMMA StartTLSStep ==
    ASSUME SessionInv, NEW s \in Sessions, StartTLS(s)
    PROVE  SessionInv'
<1> DEFINE v == sess[s]
           w == [v EXCEPT !.tls = TRUE]
<1>1. v \in SessionRecords /\ SessionOK(v, born) /\ v.op = NoOp /\ v.read = NoRead
      /\ (v.st = "selected" /\ told[s] # Lost => InStep(v, told[s], files, order))
  BY SessionFacts DEF StartTLS, Ready
<1>2. Set(s, w) /\ UNCHANGED <<diskVars, doomed, copied>> /\ told' = told
  BY DEF StartTLS
<1> HIDE DEF v
<1>3. w \in SessionRecords /\ w.op = NoOp /\ w.read = NoRead /\ w.view = v.view /\ w.st = v.st /\ w.sel = v.sel
  BY <1>1 DEF SessionRecords
<1> HIDE DEF w
<1>4. SessionOK(w, born) /\ SourcesOK(w, copied, files)
  BY <1>1, <1>3, NotMoving DEF SessionOK
<1>5. w.st = "selected" /\ told[s] # Lost => InStep(w, told[s], files, order)
  BY <1>1, <1>3 DEF InStep
<1> QED
  BY <1>2, <1>4, <1>5, SessionFacts, SessionOnly

\* LOGIN and AUTHENTICATE.
LEMMA LoginStep ==
    ASSUME SessionInv, NEW s \in Sessions, Login(s)
    PROVE  SessionInv'
<1> DEFINE v == sess[s]
           w == [v EXCEPT !.st = "auth"]
<1>1. v \in SessionRecords /\ SessionOK(v, born) /\ v.op = NoOp /\ v.read = NoRead
      /\ v.sel \notin Folders
  BY SessionFacts DEF Login, Ready, SessionOK
<1>2. Set(s, w) /\ UNCHANGED <<diskVars, doomed, copied>> /\ told' = told
  BY DEF Login
<1> HIDE DEF v
<1>3. w \in SessionRecords /\ w.op = NoOp /\ w.read = NoRead /\ w.view = v.view /\ w.st = "auth"
      /\ w.sel = v.sel
  BY <1>1 DEF SessionRecords
<1> HIDE DEF w
<1>4. SessionOK(w, born) /\ SourcesOK(w, copied, files)
  BY <1>1, <1>3, NotMoving DEF SessionOK
<1> QED
  BY <1>2, <1>3, <1>4, SessionFacts, SessionOnly

\* LOGOUT, and a lost connection.
LEMMA LogoutStep ==
    ASSUME SessionInv, NEW s \in Sessions, Logout(s)
    PROVE  SessionInv'
<1>1. Off.op = NoOp /\ Off.read = NoRead /\ Off.view = <<>> /\ Off.st = "off" /\ Off.sel \notin Folders
  BY DEF Off, Folders, Inbox
<1>2. SessionOK(Off, born) /\ SourcesOK(Off, copied, files)
  BY <1>1, EmptyView, NotMoving
<1>3. /\ Set(s, Off) /\ UNCHANGED <<diskVars, doomed, copied>>
      /\ Tell(s, <<>>, {})
  BY DEF Logout
<1> QED
  BY <1>1, <1>2, <1>3, SessionOnly

\* The session CLOSE and UNSELECT leave behind.
LEMMA UnselectedFacts ==
    ASSUME NEW v \in SessionRecords, v.op = NoOp, v.read = NoRead
    PROVE  /\ SessionOK(Unselected(v), born) /\ \A C, Fs : SourcesOK(Unselected(v), C, Fs)
           /\ Unselected(v).st = "auth"
<1> DEFINE w == Unselected(v)
<1>1. w \in SessionRecords /\ w.op = NoOp /\ w.read = NoRead /\ w.view = <<>> /\ w.st = "auth"
      /\ w.sel \notin Folders
  BY EmptyView DEF Unselected, SessionRecords, Folders, Inbox
<1> HIDE DEF w
<1>2. SessionOK(w, born) /\ \A C, Fs : SourcesOK(w, C, Fs)
  BY <1>1, EmptyView, NotMoving
<1> QED
  BY <1>1, <1>2 DEF w

\* UNSELECT.
LEMMA UnselectStep ==
    ASSUME SessionInv, NEW s \in Sessions, Unselect(s)
    PROVE  SessionInv'
<1>1. sess[s] \in SessionRecords /\ sess[s].op = NoOp /\ sess[s].read = NoRead
  BY SessionFacts DEF Unselect, Selected, Ready
<1>2. /\ Set(s, Unselected(sess[s])) /\ UNCHANGED <<diskVars, doomed, copied>>
      /\ Tell(s, <<>>, {})
  BY DEF Unselect
<1> QED
  BY <1>1, <1>2, UnselectedFacts, SessionOnly

\* The process dies: no session, no client, the files as they were.
LEMMA CrashStep ==
    ASSUME SessionInv, Crash
    PROVE  SessionInv'
<1>1. UNCHANGED <<diskVars, doomed, copied>>
  BY DEF Crash
<1>2. DiskStep /\ DoomedOK'
  BY <1>1, DiskSame
<1>3. sess' = [c \in Sessions |-> Off] /\ told' = [c \in Sessions |-> <<>>]
  BY DEF Crash
<1>4. born' = born /\ Off.op = NoOp /\ Off.read = NoRead /\ Off.view = <<>> /\ Off.st = "off"
      /\ Off.sel \notin Folders
  BY <1>1 DEF diskVars, Off, Folders, Inbox
<1>5. SessionOK(Off, born) /\ \A C, Fs : SourcesOK(Off, C, Fs)
  BY <1>4, EmptyView, NotMoving
<1>6. SessionsOK'
  <2>1. sess' \in [Sessions -> SessionRecords]
    BY <1>3, EmptyView
  <2>2. \A c \in Sessions : SessionOK(sess'[c], born')
    BY <1>3, <1>4, <1>5
  <2>3. told' = [c \in Sessions |-> told'[c]]
    BY <1>3
  <2> QED
    BY <2>1, <2>2, <2>3 DEF SessionsOK
<1>7. MovesOK' /\ ClientsOK'
  BY <1>3, <1>4, <1>5 DEF MovesOK, ClientsOK
<1> QED
  BY <1>2, <1>6, <1>7 DEF SessionInv, DiskStep, DiskCore, Steady

\* A session that shows what Refresh found is a session, in no command.
LEMMA FreshView ==
    ASSUME NEW b, NEW n, ReadOK(b, n), NEW l \in Listings(b)
    PROVE  /\ ViewOf(l, b.fs) \in Seq(Files) /\ RangeOf(ViewOf(l, b.fs)) \subseteq b.fs
           /\ Numbers(ViewOf(l, b.fs)) = l /\ Len(ViewOf(l, b.fs)) = Len(l) /\ l \in Seq(Bases)
           /\ BasesOf(RangeOf(ViewOf(l, b.fs))) \subseteq 1..n
<1> DEFINE Fs == b.fs
<1>1. b \in ReadRecords /\ Fs \in SUBSET Files /\ BasesOf(Fs) \subseteq 1..n
  BY DEF ReadOK, ReadRecords
<1>2. l \in Seq(BasesOf(Fs)) /\ l \in Seq(Bases)
  BY <1>1, ListingFacts
<1> HIDE DEF Fs
<1>3. /\ ViewOf(l, Fs) \in Seq(Files) /\ RangeOf(ViewOf(l, Fs)) \subseteq Fs
      /\ Numbers(ViewOf(l, Fs)) = l /\ Len(ViewOf(l, Fs)) = Len(l)
  BY <1>1, <1>2, ViewFacts
<1>4. BasesOf(RangeOf(ViewOf(l, Fs))) \subseteq 1..n
  BY <1>1, <1>3 DEF BasesOf
<1> QED
  BY <1>2, <1>3, <1>4 DEF Fs

\* What the invariant says of one folder.
LEMMA FolderFacts ==
    ASSUME SessionInv, NEW f \in Folders
    PROVE  /\ files[f] \in SUBSET Files /\ order \in [Folders -> Seq(Bases)] /\ DiskOK
           /\ BasesOf(files[f]) \subseteq 1..born /\ born \in Nat
           /\ there \cup {f} \subseteq Folders
BY DEF SessionInv, DiskOK

\* No file and no observation changes.
LEMMA DoomedKept ==
    ASSUME SessionInv, UNCHANGED <<files, doomed, copied>>
    PROVE  DoomedOK'
BY DEF SessionInv, DoomedOK

\* A session whose Refresh is over, its view as it was.
LEMMA ReadDone ==
    ASSUME NEW v \in SessionRecords, NEW n, SessionOK(v, n), NEW C, NEW Fs, SourcesOK(v, C, Fs)
    PROVE  LET w == [v EXCEPT !.read = NoRead]
           IN /\ SessionOK(w, n) /\ SourcesOK(w, C, Fs) /\ w \in SessionRecords /\ w.read = NoRead
              /\ w.st = v.st /\ w.sel = v.sel /\ w.view = v.view /\ w.ro = v.ro /\ w.op = v.op
<1> DEFINE w == [v EXCEPT !.read = NoRead]
<1>1. /\ w \in SessionRecords /\ w.read = NoRead /\ w.st = v.st /\ w.sel = v.sel
      /\ w.view = v.view /\ w.ro = v.ro /\ w.op = v.op
  BY NothingRead DEF SessionRecords
<1> HIDE DEF w
<1>2. SessionOK(w, n)
  BY <1>1, NothingRead DEF SessionOK
<1>3. SourcesOK(w, C, Fs)
  BY <1>1 DEF SourcesOK
<1> QED
  BY <1>1, <1>2, <1>3 DEF w

\* What OpenMailbox does to the folders.
LEMMA OpensFacts ==
    ASSUME SessionInv, NEW s \in Sessions, NEW f \in Folders, NEW l, Opens(s, f, l)
    PROVE  order' = Relisted(Basis(s, f), l) /\ there \subseteq there' /\ there' \subseteq Folders
BY DEF Opens, SessionInv, DiskOK

\* A Refresh ends: the session shows what it showed, or what was found.  Who is
\* not lost in a clash is on another folder, or its list only went on.
LEMMA RefreshStep ==
    ASSUME SessionInv, NEW s \in Sessions, NEW f \in Folders, NEW l \in Listings(Basis(s, f)),
           UNCHANGED <<files, born, doomed, copied>>, order' = Relisted(Basis(s, f), l),
           there \subseteq there', there' \subseteq Folders,
           NEW w, NEW t, Set(s, w), Tell(s, t, Clash(Basis(s, f), l)),
           SessionOK(w, born), SourcesOK(w, copied, files), w.read = NoRead,
           w.st = "selected" /\ t # Lost =>
              \/ /\ w.view = sess[s].view /\ w.sel = sess[s].sel /\ sess[s].st = "selected"
                 /\ t = told[s]
              \/ w.view = ViewOf(l, Basis(s, f).fs) /\ w.sel = f /\ t = l
    PROVE  SessionInv'
<1> DEFINE b == Basis(s, f)
           v == sess[s]
           D == Clash(b, l)
<1>0. DiskOK /\ SessionOK(v, born) /\ sess \in [Sessions -> SessionRecords]
  BY SessionFacts DEF SessionInv, SessionsOK
<1>1. ReadOK(b, born) /\ b.f = f
  BY <1>0, BasisFacts
<1>2. sess' = [sess EXCEPT ![s] = w]
  BY DEF Set
<1>3. sess'[s] = w /\ \A c \in Sessions \ {s} : sess'[c] = sess[c]
  BY <1>0, <1>2
<1>4. \A c \in Sessions : c \notin D => sess'[c].sel # f \/ Agrees(b, l)
  BY <1>1 DEF Clash
<1> HIDE DEF b, v
<1>5. DiskCore /\ \A g \in Folders : g # f \/ Agrees(b, l) => Steady(g)
  BY <1>0, <1>1, DiskRead DEF b
<1>6. DoomedOK'
  BY DoomedKept
<1>7. \A c \in Sessions \ {s} : c \in D \/ sess[c].st # "selected" \/ Steady(sess[c].sel)
  <2> TAKE c \in Sessions \ {s}
  <2> SUFFICES ASSUME c \notin D, sess[c].st = "selected" PROVE Steady(sess[c].sel)
    OBVIOUS
  <2>1. sess[c].sel \in Folders
    BY DEF SessionInv, SessionsOK, SessionOK
  <2> HIDE DEF D
  <2> QED
    BY <1>3, <1>4, <1>5, <2>1
<1>8. ASSUME w.st = "selected", t # Lost, s \notin D PROVE InStep(w, t, files', order')
  <2>0. w.sel \in Folders /\ w.read.f # w.sel
    BY <1>8, NothingRead DEF SessionOK
  <2>1. w.sel # f \/ Agrees(b, l)
    BY <1>3, <1>4, <1>8
  <2>2. Steady(w.sel)
    BY <1>5, <2>0, <2>1
  <2>3. CASE w.view = v.view /\ w.sel = v.sel /\ v.st = "selected" /\ t = told[s]
    <3>1. InStep(v, told[s], files', order')
      BY <1>5, <1>8, <2>2, <2>3, BystanderKept DEF v
    <3> QED
      BY <2>0, <2>3, <3>1 DEF InStep
  <2>4. CASE w.view = ViewOf(l, b.fs) /\ w.sel = f /\ t = l
    <3>1. RangeOf(w.view) \subseteq b.fs /\ Numbers(w.view) = l
      BY <1>1, <2>4, FreshView DEF b
    <3>2. Agrees(b, l) /\ l \in Listings(b)
      BY <2>1, <2>4 DEF b
    <3>3. StartsWith(Listed(Relisted(b, l)[f], files[f]), l) /\ b.fs \subseteq files[f]
      BY <1>0, <1>1, <3>2, AgreesFacts
    <3>4. order' = Relisted(b, l)
      BY DEF b
    <3> QED
      BY <2>0, <2>4, <3>1, <3>3, <3>4 DEF InStep
  <2> QED
    BY <1>8, <2>3, <2>4 DEF b, v
<1>9. Tell(s, t, D)
  BY DEF b
<1>10. SessionOK(w, born') /\ SourcesOK(w, copied', files')
  OBVIOUS
<1> HIDE DEF D
<1> QED
  BY <1>5, <1>6, <1>7, <1>8, <1>9, <1>10, SteadyStep

\* STATUS and SUBSCRIBE.
LEMMA ProbeStep ==
    ASSUME SessionInv, NEW s \in Sessions, NEW f \in Folders, Probe(s, f)
    PROVE  SessionInv'
<1> DEFINE v == sess[s]
           b == Basis(s, f)
           w == [v EXCEPT !.read = NoRead]
<1>1. PICK l \in Listings(b) : Opens(s, f, l) /\ Set(s, w) /\ Tell(s, told[s], Clash(b, l))
  BY DEF Probe
<1>2. UNCHANGED <<files, born, doomed, copied>> /\ v.op = NoOp
  BY <1>1 DEF Probe, Opens
<1>3. v \in SessionRecords /\ SessionOK(v, born) /\ SourcesOK(v, copied, files)
  BY SessionFacts
<1>4. /\ SessionOK(w, born) /\ SourcesOK(w, copied, files) /\ w.read = NoRead
      /\ w.st = v.st /\ w.sel = v.sel /\ w.view = v.view
  <2> HIDE DEF v
  <2> QED
    BY <1>3, ReadDone
<1>5. order' = Relisted(b, l) /\ there \subseteq there' /\ there' \subseteq Folders
  BY <1>1, OpensFacts
<1> HIDE DEF w, b
<1> QED
  BY <1>1, <1>2, <1>4, <1>5, RefreshStep DEF b

\* CREATE.
LEMMA CreateFolderStep ==
    ASSUME SessionInv, NEW s \in Sessions, NEW f \in Folders, CreateFolder(s, f)
    PROVE  SessionInv'
<1>1. UNCHANGED <<files, order, born, sess, events, told, doomed, copied>> /\ there' = there \cup {f}
  BY DEF CreateFolder
<1>2. DiskOK /\ there \cup {f} \subseteq Folders
  BY FolderFacts
<1>3. DiskStep
  BY <1>1, <1>2, DiskLooked
<1>4. DoomedOK'
  BY <1>1, DoomedKept
<1> QED
  BY <1>1, <1>3, <1>4, QuietStep

\* A client in step hears EXISTS of a view that continues its numbers: it has
\* the numbers of that view.
LEMMA HeardExistsLemma ==
    ASSUME NEW v \in Seq(Files), NEW t \in Seq(Bases), t # Lost, StartsWith(Numbers(v), t)
    PROVE  HeardExists(t, v) = Numbers(v) /\ (Len(v) = Len(t) => Numbers(v) = t)
<1> DEFINE q == Numbers(v)
<1>1. q \in Seq(Bases) /\ Len(q) = Len(v)
  BY NumbersType DEF Numbers
<1>2. Len(t) <= Len(v)
  BY <1>1 DEF StartsWith
<1>3. HeardExists(t, v) = t \o SubSeq(q, Len(t) + 1, Len(v))
  BY <1>1, <1>2 DEF HeardExists
<1> HIDE DEF q
<1>4. StartsWith(q, t)
  BY DEF q
<1>5. q = t \o SubSeq(q, Len(t) + 1, Len(q))
  BY <1>1, <1>4, StartsWithRest
<1>6. Len(v) = Len(t) => q = t
  BY <1>1, <1>4 DEF StartsWith
<1> QED
  BY <1>1, <1>3, <1>5, <1>6 DEF q

\* A session in step reads its mailbox again.
LEMMA FollowsOn ==
    ASSUME NEW b, NEW n, ReadOK(b, n), NEW l \in Listings(b),
           NEW u \in Seq(Files), NEW t, t # Lost, t = Numbers(u),
           StartsWith(Listed(b.l, b.fs), t)
    PROVE  /\ HeardExists(t, ViewOf(l, b.fs)) = l
           /\ Len(ViewOf(l, b.fs)) = Len(u) => t = l
<1>0. b \in ReadRecords /\ b.l \in Seq(Bases)
  BY DEF ReadOK, ReadRecords
<1>1. t \in Seq(Bases) /\ Len(t) = Len(u)
  BY NumbersType DEF Numbers
<1>2. l \in Seq(Bases) /\ StartsWith(l, Listed(b.l, b.fs))
  BY <1>0, ListingFacts
<1>3. Listed(b.l, b.fs) \in Seq(Bases)
  BY <1>0, ListedType
<1>4. StartsWith(l, t)
  BY <1>1, <1>2, <1>3, StartsWithTransitive
<1> DEFINE v == ViewOf(l, b.fs)
<1>5. v \in Seq(Files) /\ Numbers(v) = l
  BY FreshView
<1> HIDE DEF v
<1>6. HeardExists(t, v) = Numbers(v) /\ (Len(v) = Len(t) => Numbers(v) = t)
  BY <1>1, <1>4, <1>5, HeardExistsLemma
<1> QED
  BY <1>1, <1>5, <1>6 DEF v

\* What a session reads of its own mailbox goes on from what its client knows.
LEMMA BasisFollows ==
    ASSUME SessionInv, NEW s \in Sessions, sess[s].st = "selected", told[s] # Lost
    PROVE  LET b == Basis(s, sess[s].sel)
           IN told[s] = Numbers(sess[s].view) /\ StartsWith(Listed(b.l, b.fs), told[s])
<1> DEFINE v == sess[s]
           f == v.sel
<1>1. InStep(v, told[s], files, order)
  BY SessionFacts
<1>2. CASE v.read.f = f
  BY <1>1, <1>2 DEF InStep, Basis
<1>3. CASE v.read.f # f
  <2>1. Basis(s, f).l = order[f] /\ Basis(s, f).fs = files[f]
    BY <1>3 DEF Basis
  <2> QED
    BY <1>1, <2>1 DEF InStep
<1> QED
  BY <1>2, <1>3

\* SELECT and EXAMINE.
LEMMA SelectStep ==
    ASSUME SessionInv, NEW s \in Sessions, NEW f \in Folders, NEW examine \in BOOLEAN,
           Select(s, f, examine)
    PROVE  SessionInv'
<1> DEFINE v == sess[s]
           b == Basis(s, f)
<1>1. PICK l \in Listings(b) :
        /\ Opens(s, f, l)
        /\ Set(s, [v EXCEPT !.st = "selected", !.sel = f, !.ro = examine,
                            !.view = ViewOf(l, b.fs), !.read = NoRead])
        /\ Tell(s, l, Clash(b, l))
  BY DEF Select
<1>2. UNCHANGED <<files, born, doomed, copied>> /\ v.op = NoOp
  BY <1>1 DEF Select, Opens
<1>3. v \in SessionRecords /\ SessionOK(v, born) /\ DiskOK
  BY SessionFacts DEF SessionInv
<1>4. ReadOK(b, born)
  BY <1>3, BasisFacts
<1>5. order' = Relisted(b, l) /\ there \subseteq there' /\ there' \subseteq Folders
  BY <1>1, OpensFacts
<1> DEFINE w == [v EXCEPT !.st = "selected", !.sel = f, !.ro = examine,
                          !.view = ViewOf(l, b.fs), !.read = NoRead]
<1>6. Set(s, w)
  BY <1>1
<1> HIDE DEF v, b
<1>7. ViewOf(l, b.fs) \in Seq(Files) /\ BasesOf(RangeOf(ViewOf(l, b.fs))) \subseteq 1..born
  BY <1>4, FreshView
<1>8. /\ w \in SessionRecords /\ w.view = ViewOf(l, b.fs) /\ w.sel = f /\ w.op = NoOp
      /\ w.read = NoRead /\ w.st = "selected"
  BY <1>2, <1>3, <1>7, NothingRead DEF SessionRecords
<1> HIDE DEF w
<1>9. SessionOK(w, born) /\ SourcesOK(w, copied, files)
  BY <1>7, <1>8, NotMoving
<1> QED
  BY <1>1, <1>2, <1>5, <1>6, <1>8, <1>9, RefreshStep DEF b

\* NOOP, IDLE and the end of APPEND: the view goes on where it was, or the
\* client is lost.
LEMMA RereadsStep ==
    ASSUME SessionInv, NEW s \in Sessions, Poll(s) \/ AppendReports(s)
    PROVE  SessionInv'
<1> DEFINE v == sess[s]
           f == v.sel
           b == Basis(s, f)
           o == told[s]
<1>1. PICK l \in Listings(b) :
        /\ Set(s, [v EXCEPT !.view = ViewOf(l, b.fs), !.op = NoOp, !.read = NoRead])
        /\ \/ /\ order' = Relisted(b, l)
              /\ Tell(s, IF v.op = NoOp /\ Len(ViewOf(l, b.fs)) = Len(v.view) THEN o
                         ELSE HeardExists(o, ViewOf(l, b.fs)), Clash(b, l))
           \/ /\ Tell(s, Lost, {})
              /\ UNCHANGED order
  BY DEF Poll, AppendReports, Rereads
<1>2. UNCHANGED <<there, files, born, doomed, copied>>
  BY DEF Poll, AppendReports, Rereads
<1>3. v \in SessionRecords /\ SessionOK(v, born) /\ DiskOK
  BY SessionFacts DEF SessionInv
<1>4. v.st = "selected" /\ f \in Folders /\ v.view \in Seq(Files)
  <2>1. v.op.k = "report" => v.op # NoOp
    BY DEF NoOp
  <2>2. v.st = "selected"
    BY <1>3, <2>1 DEF Poll, AppendReports, SessionOK
  <2> QED
    BY <1>3, <2>2 DEF SessionOK, SessionRecords
<1>5. ReadOK(b, born)
  BY <1>3, <1>4, BasisFacts
<1>6. o # Lost => o = Numbers(v.view) /\ StartsWith(Listed(b.l, b.fs), o)
  BY <1>4, BasisFollows
<1>7. there \subseteq there' /\ there' \subseteq Folders
  BY <1>2, <1>3 DEF DiskOK
<1> DEFINE w == [v EXCEPT !.view = ViewOf(l, b.fs), !.op = NoOp, !.read = NoRead]
<1>8. Set(s, w)
  BY <1>1
<1> HIDE DEF v, f, b, o
<1>9. ViewOf(l, b.fs) \in Seq(Files) /\ BasesOf(RangeOf(ViewOf(l, b.fs))) \subseteq 1..born
  BY <1>5, FreshView
<1>10. /\ w \in SessionRecords /\ w.view = ViewOf(l, b.fs) /\ w.sel = v.sel /\ w.op = NoOp
       /\ w.read = NoRead /\ w.st = v.st
  BY <1>3, <1>9, NothingRead DEF SessionRecords
<1> HIDE DEF w
<1>11. SessionOK(w, born) /\ SourcesOK(w, copied, files)
  BY <1>4, <1>9, <1>10, NotMoving DEF f
<1>12. CASE Tell(s, Lost, {}) /\ UNCHANGED order
  <2>1. UNCHANGED <<diskVars, doomed, copied>>
    BY <1>2, <1>12 DEF diskVars
  <2> QED
    BY <1>8, <1>11, <1>12, <2>1, SessionOnly
<1>13. CASE /\ order' = Relisted(b, l)
            /\ Tell(s, IF v.op = NoOp /\ Len(ViewOf(l, b.fs)) = Len(v.view) THEN o
                         ELSE HeardExists(o, ViewOf(l, b.fs)), Clash(b, l))
  <2> DEFINE t == IF v.op = NoOp /\ Len(ViewOf(l, b.fs)) = Len(v.view) THEN o
                  ELSE HeardExists(o, ViewOf(l, b.fs))
  <2>1. Tell(s, t, Clash(b, l))
    BY <1>13
  <2>2. t # Lost => t = l
    <3>1. CASE o = Lost
      BY <3>1 DEF HeardExists
    <3>2. CASE o # Lost
      <4>1. o = Numbers(v.view) /\ StartsWith(Listed(b.l, b.fs), o)
        BY <1>6, <3>2
      <4>2. HeardExists(o, ViewOf(l, b.fs)) = l
        BY <1>4, <1>5, <3>2, <4>1, FollowsOn
      <4>3. Len(ViewOf(l, b.fs)) = Len(v.view) => o = l
        BY <1>4, <1>5, <3>2, <4>1, FollowsOn
      <4> QED
        BY <4>2, <4>3
    <3> QED
      BY <3>1, <3>2
  <2> HIDE DEF t
  <2> QED
    BY <1>2, <1>4, <1>7, <1>8, <1>10, <1>11, <1>13, <2>1, <2>2, RefreshStep DEF b, f
<1> QED
  BY <1>1, <1>12, <1>13 DEF v, f, b, o

\* A Refresh begins.
LEMMA StartRefreshStep ==
    ASSUME SessionInv, NEW s \in Sessions, NEW f \in Folders, StartRefresh(s, f)
    PROVE  SessionInv'
<1> DEFINE v == sess[s]
           b == Basis(s, f)
           w == [v EXCEPT !.read = b]
           t == told[s]
<1>1. Set(s, w) /\ UNCHANGED <<diskVars, told, doomed, copied>> /\ v.read = NoRead
      /\ (v.op = NoOp \/ v.op.k \in {"append", "report", "list"})
  BY DEF StartRefresh
<1>2. /\ v \in SessionRecords /\ SessionOK(v, born) /\ SourcesOK(v, copied, files) /\ DiskOK
      /\ v.st = "selected" /\ t # Lost => InStep(v, t, files, order)
      /\ Tell(s, t, {})
  BY <1>1, SessionFacts DEF SessionInv
<1>3. ReadOK(b, born) /\ b \in ReadRecords
  BY <1>2, BasisFacts DEF ReadOK
<1>4. f = v.sel /\ v.st = "selected" /\ t # Lost => StartsWith(Listed(b.l, b.fs), t)
  BY BasisFollows
<1>5. b.f = f
  BY <1>2, BasisFacts
<1> HIDE DEF v, b, t
<1>6. /\ w \in SessionRecords /\ w.st = v.st /\ w.sel = v.sel /\ w.view = v.view /\ w.ro = v.ro
      /\ w.op = v.op /\ w.read = b
  BY <1>2, <1>3 DEF SessionRecords
<1> HIDE DEF w
<1>7. SessionOK(w, born)
  <2>1. w.op # NoOp => w.op.k \in {"append", "report", "list"}
    BY <1>1, <1>6
  <2>2. w.op # NoOp => ~(w.op.k \in {"copy", "flag"})
    BY <2>1
  <2> QED
    BY <1>2, <1>3, <1>6, <2>2 DEF SessionOK
<1>8. SourcesOK(w, copied, files)
  BY <1>2, <1>6 DEF SourcesOK
<1>9. w.st = "selected" /\ t # Lost => InStep(w, t, files, order)
  BY <1>2, <1>4, <1>5, <1>6 DEF InStep
<1>10. UNCHANGED <<diskVars, doomed, copied>>
  BY <1>1
<1> QED
  BY <1>1, <1>2, <1>7, <1>8, <1>9, <1>10, SessionOnly

\* The command MOVE begins: it has all its sources to copy.
LEMMA RunsType ==
    ASSUME NEW v \in Seq(Files), NEW run \in Runs(v)
    PROVE  run \in Seq(Bases) /\ RangeOf(run) \subseteq BasesOf(RangeOf(v))
<1>1. CASE run = <<>>
  BY <1>1 DEF RangeOf
<1>2. CASE run # <<>>
  <2>1. PICK i \in DOMAIN v, j \in DOMAIN v : run = Numbers(SubSeq(v, i, j)) /\ i <= j
    BY <1>2 DEF Runs
  <2> DEFINE u == SubSeq(v, i, j)
  <2>2. u \in Seq(Files) /\ Len(u) = (j - i) + 1 /\ DOMAIN u = 1..Len(u)
    BY <2>1
  <2>3. \A k \in 1..Len(u) : u[k] = v[(i + k) - 1] /\ (i + k) - 1 \in DOMAIN v
    BY <2>1, <2>2
  <2>4. \A k \in 1..Len(u) : u[k] \in RangeOf(v)
    BY <2>3 DEF RangeOf
  <2> HIDE DEF u
  <2>5. run \in Seq(Bases)
    BY <2>1, <2>2, NumbersType DEF u
  <2>6. run = Numbers(u)
    BY <2>1 DEF u
  <2>7. RangeOf(run) \subseteq BasesOf(RangeOf(v))
    BY <2>2, <2>4, <2>6 DEF RangeOf, BasesOf, Numbers
  <2> QED
    BY <2>5, <2>7
<1> QED
  BY <1>1, <1>2

\* MOVE opens its destination and notes its sources.
LEMMA MoveStep ==
    ASSUME SessionInv, NEW s \in Sessions, NEW run \in Runs(sess[s].view), NEW dst \in Folders,
           Move(s, run, dst)
    PROVE  SessionInv'
<1> DEFINE v == sess[s]
           b == Basis(s, dst)
           r == [v EXCEPT !.read = NoRead]
           op == [k |-> IF run = <<>> THEN "flag" ELSE "copy", todo |-> run, all |-> run, dst |-> dst]
           w == [r EXCEPT !.op = op]
<1>1. PICK l \in Listings(b) :
        /\ Opens(s, dst, l)
        /\ IF v.ro THEN Set(s, r) ELSE Set(s, w)
        /\ Tell(s, told[s], Clash(b, l))
  BY DEF Move
<1>2. UNCHANGED <<files, born, doomed, copied>> /\ v.op = NoOp /\ v.st = "selected"
  BY <1>1 DEF Move, Opens
<1>3. order' = Relisted(b, l) /\ there \subseteq there' /\ there' \subseteq Folders
  BY <1>1, OpensFacts
<1>4. v \in SessionRecords /\ SessionOK(v, born) /\ SourcesOK(v, copied, files)
  BY SessionFacts
<1>5. /\ SessionOK(r, born) /\ SourcesOK(r, copied, files) /\ r \in SessionRecords /\ r.read = NoRead
      /\ r.st = v.st /\ r.sel = v.sel /\ r.view = v.view /\ r.ro = v.ro /\ r.op = NoOp
  <2> HIDE DEF v
  <2> QED
    BY <1>2, <1>4, ReadDone
<1>6. run \in Seq(Bases) /\ RangeOf(run) \subseteq BasesOf(RangeOf(v.view))
  BY <1>4, RunsType DEF SessionRecords
<1> HIDE DEF r, b
<1>7. CASE v.ro
  BY <1>1, <1>2, <1>3, <1>5, <1>7, RefreshStep DEF b
<1>8. CASE ~v.ro
  <2> HIDE DEF v
  <2>1. op \in Ops /\ op.todo = run /\ op.all = run /\ (op.k = "copy" <=> run # <<>>)
        /\ op.k \in {"copy", "flag"}
    BY <1>6 DEF Ops
  <2> HIDE DEF op
  <2>2. /\ w \in SessionRecords /\ w.st = v.st /\ w.ro = v.ro /\ w.view = v.view
        /\ w.sel = v.sel /\ w.op = op /\ w.read = NoRead
    BY <1>5, <2>1 DEF SessionRecords
  <2>3. Set(s, w)
    BY <1>1, <1>8 DEF v
  <2> HIDE DEF w
  <2>4. SessionOK(w, born)
    <3>1. op.k # "append" /\ op.k # "report"
      BY <2>1
    <3> QED
      BY <1>2, <1>4, <1>6, <1>8, <2>1, <2>2, <3>1, NothingRead DEF SessionOK, v
  <2>5. SourcesOK(w, copied, files)
    <3>1. op.k # "copy" => RangeOf(op.all) = {}
      BY <2>1 DEF RangeOf
    <3>2. op.k = "copy" => ToCopy(op) = RangeOf(op.all)
      BY <2>1 DEF ToCopy
    <3> QED
      BY <2>2, <3>1, <3>2 DEF SourcesOK
  <2> QED
    BY <1>1, <1>2, <1>3, <2>2, <2>3, <2>4, <2>5, RefreshStep DEF b, v
<1> QED
  BY <1>7, <1>8

\* A stored message with the Deleted flag is noted.
LEMMA DoomedStored ==
    ASSUME SessionInv, NEW f \in Folders, NEW fl,
           files' = [files EXCEPT ![f] = files[f] \cup {Stored(fl)}],
           doomed \subseteq doomed', copied \subseteq copied', Deleted \in fl => born + 1 \in doomed'
    PROVE  DoomedOK'
<1>1. files \in [Folders -> SUBSET Files]
  BY DEF SessionInv, DiskOK
<1>2. Stored(fl).base = born + 1 /\ Stored(fl).fl = fl
  BY DEF Stored
<1>3. \A g \in Folders : \A x \in files'[g] : x \in files[g] \/ x = Stored(fl)
  BY <1>1
<1> QED
  BY <1>2, <1>3 DEF DoomedOK, SessionInv

\* A folder gets a file more.
LEMMA StoredGrows ==
    ASSUME files \in [Folders -> SUBSET Files], NEW f \in Folders, NEW F,
           files[f] \subseteq F, files' = [files EXCEPT ![f] = F]
    PROVE  (\A g \in Folders : files[g] \subseteq files'[g]) /\ files'[f] = F
OBVIOUS

\* SMTP delivers into INBOX.
LEMMA DeliverStep ==
    ASSUME SessionInv, Deliver
    PROVE  SessionInv'
<1>0. PICK fl : fl = {}
  OBVIOUS
<1> DEFINE F == files[Inbox] \cup {Stored(fl)}
<1>1. /\ born < MaxFiles /\ born' = born + 1 /\ files' = [files EXCEPT ![Inbox] = F]
      /\ UNCHANGED <<there, order, sess, events, told, doomed, copied>>
  BY <1>0 DEF Deliver
<1>2. Inbox \in Folders /\ fl \in SUBSET {Seen, Deleted} /\ Deleted \notin fl
  BY <1>0 DEF Folders
<1>3. DiskOK /\ Inbox \in there /\ there \subseteq Folders /\ files \in [Folders -> SUBSET Files]
  BY DEF SessionInv, DiskOK
<1>4. DiskStep
  BY <1>1, <1>2, <1>3, DiskStored
<1>5. DoomedOK'
  BY <1>1, <1>2, DoomedStored
<1>6. \A g \in Folders : files[g] \subseteq files'[g]
  BY <1>1, <1>2, <1>3, StoredGrows
<1> QED
  BY <1>1, <1>4, <1>5, <1>6, QuietStep

\* A session that stores a copy of a message, and goes on at op.
LEMMA StoredStep ==
    ASSUME SessionInv, DiskStep, DoomedOK', NEW s \in Sessions, NEW w,
           Set(s, w), told' = told, w.st = sess[s].st, w.sel = sess[s].sel, w.view = sess[s].view,
           w.read = sess[s].read \/ w.read = NoRead, SessionOK(w, born'), SourcesOK(w, copied', files'),
           \A g \in Folders : files[g] \subseteq files'[g]
    PROVE  SessionInv'
<1> DEFINE v == sess[s]
           t == told[s]
<1>1. Tell(s, t, {}) /\ v \in SessionRecords
  BY SessionFacts
<1>2. v.st = "selected" => v.sel \in Folders
  BY SessionFacts DEF SessionOK
<1>3. v.st = "selected" /\ t # Lost => InStep(v, t, files', order')
  <2>1. v.st = "selected" => Steady(v.sel)
    BY <1>2 DEF DiskStep
  <2> QED
    BY <2>1, BystanderKept DEF DiskStep
<1> HIDE DEF t
<1>4. w.st = "selected" /\ t # Lost => InStep(w, t, files', order')
  BY <1>2, <1>3, NothingRead DEF InStep
<1>5. \A c \in Sessions \ {s} : \/ sess[c].st # "selected"
                                \/ files[sess[c].sel] \subseteq files'[sess[c].sel]
  BY DEF SessionInv, SessionsOK, SessionOK
<1> QED
  BY <1>1, <1>4, <1>5, SessionStep

\* What storing a message does to the folders.
LEMMA StoresFacts ==
    ASSUME SessionInv, NEW s \in Sessions, NEW fl \in SUBSET {Seen, Deleted}, NEW dst \in Folders,
           NEW op, Stores(s, dst, fl, op), copied \subseteq copied', doomed \subseteq doomed',
           Deleted \in fl => born + 1 \in doomed'
    PROVE  /\ DiskStep /\ DoomedOK' /\ told' = told /\ born <= born' /\ born \in Nat /\ born' \in Nat
           /\ \A g \in Folders : files[g] \subseteq files'[g]
           /\ Set(s, [sess[s] EXCEPT !.op = op])
<1> DEFINE Fs == files[dst] \cup {Stored(fl)}
<1>1. /\ born < MaxFiles /\ born' = born + 1 /\ files' = [files EXCEPT ![dst] = Fs]
      /\ there' = there \cup {dst} /\ told' = told /\ order' = order
      /\ Set(s, [sess[s] EXCEPT !.op = op])
  BY DEF Stores
<1>2. DiskOK /\ there \cup {dst} \subseteq Folders /\ files \in [Folders -> SUBSET Files] /\ born \in Nat
  BY DEF SessionInv, DiskOK
<1>3. DiskStep
  BY <1>1, <1>2, DiskStored
<1>4. DoomedOK'
  BY <1>1, DoomedStored
<1>5. \A g \in Folders : files[g] \subseteq files'[g]
  BY <1>1, <1>2, StoredGrows
<1>6. born' \in Nat /\ born <= born'
  BY <1>1, <1>2
<1> QED
  BY <1>1, <1>2, <1>3, <1>4, <1>5, <1>6

\* A session that is done with its command.
LEMMA OpDone ==
    ASSUME NEW v \in SessionRecords, NEW n \in Nat, SessionOK(v, n), NEW m \in Nat, n <= m
    PROVE  LET w == [v EXCEPT !.op = NoOp]
           IN /\ SessionOK(w, m) /\ (\A C, X : SourcesOK(w, C, X))
              /\ w.st = v.st /\ w.sel = v.sel /\ w.view = v.view /\ w.read = v.read
<1> DEFINE w == [v EXCEPT !.op = NoOp]
<1>1. /\ w \in SessionRecords /\ w.st = v.st /\ w.sel = v.sel /\ w.view = v.view /\ w.op = NoOp
      /\ w.read = v.read
  BY DEF SessionRecords
<1> HIDE DEF w
<1>2. 1..n \subseteq 1..m
  OBVIOUS
<1>3. SessionOK(w, m) /\ \A C, X : SourcesOK(w, C, X)
  BY <1>1, <1>2 DEF SessionOK, SourcesOK, ReadOK
<1> QED
  BY <1>1, <1>3 DEF w

\* A session that stored a message by itself has it to list.
LEMMA OpList ==
    ASSUME NEW v \in SessionRecords, NEW n \in Nat, SessionOK(v, n), NEW m \in Nat, n <= m,
           NEW k \in {"append", "list"}, NEW dst \in Folders
    PROVE  LET w == [v EXCEPT !.op = [k |-> k, todo |-> <<>>, all |-> <<>>, dst |-> dst]]
           IN /\ SessionOK(w, m) /\ (\A C, X : SourcesOK(w, C, X))
              /\ w.st = v.st /\ w.sel = v.sel /\ w.view = v.view /\ w.read = v.read
<1> DEFINE op == [k |-> k, todo |-> <<>>, all |-> <<>>, dst |-> dst]
           w == [v EXCEPT !.op = op]
<1>0. op \in Ops /\ op.todo = <<>> /\ op.all = <<>> /\ op.k \notin {"copy", "flag", "report"}
  BY DEF Ops
<1> HIDE DEF op
<1>1. /\ w \in SessionRecords /\ w.st = v.st /\ w.sel = v.sel /\ w.view = v.view /\ w.op = op
      /\ w.read = v.read
  BY <1>0 DEF SessionRecords
<1> HIDE DEF w
<1>2. 1..n \subseteq 1..m
  OBVIOUS
<1>3. RangeOf(<<>>) = {}
  BY DEF RangeOf
<1>4. SessionOK(w, m)
  BY <1>0, <1>1, <1>2, <1>3 DEF SessionOK, ReadOK
<1>5. \A C, X : SourcesOK(w, C, X)
  BY <1>0, <1>1, <1>3 DEF SourcesOK
<1> QED
  BY <1>1, <1>4, <1>5 DEF w, op

\* APPEND.
LEMMA AppendMessageStep ==
    ASSUME SessionInv, NEW s \in Sessions, NEW f \in Folders, AppendMessage(s, f, {Seen})
    PROVE  SessionInv'
<1> DEFINE v == sess[s]
           fl == {Seen}
           op == [k |-> "append", todo |-> <<>>, all |-> <<>>, dst |-> f]
           w == [v EXCEPT !.op = op]
<1>1. Stores(s, f, fl, op) /\ copied' = copied /\ doomed' = doomed
  BY DEF AppendMessage
<1>2. fl \in SUBSET {Seen, Deleted} /\ Deleted \notin fl
  BY DEF Seen, Deleted
<1>3. v \in SessionRecords /\ SessionOK(v, born)
  BY SessionFacts
<1>4. /\ DiskStep /\ DoomedOK' /\ told' = told /\ born <= born' /\ born \in Nat /\ born' \in Nat
      /\ \A g \in Folders : files[g] \subseteq files'[g]
      /\ Set(s, w)
  BY <1>1, <1>2, StoresFacts
<1>5. /\ SessionOK(w, born') /\ SourcesOK(w, copied', files')
      /\ w.st = v.st /\ w.sel = v.sel /\ w.view = v.view /\ w.read = v.read
  <2> HIDE DEF v
  <2> QED
    BY <1>3, <1>4, OpList
<1> HIDE DEF w
<1> QED
  BY <1>4, <1>5, StoredStep

\* APPEND has the folder read again.
LEMMA AppendListsStep ==
    ASSUME SessionInv, NEW s \in Sessions, AppendLists(s)
    PROVE  SessionInv'
<1> DEFINE v == sess[s]
           f == v.op.dst
           b == Basis(s, f)
           op == IF v.sel = f THEN [v.op EXCEPT !.k = "report"] ELSE NoOp
           w == [v EXCEPT !.op = op, !.read = NoRead]
<1>1. PICK l \in Listings(b) : order' = Relisted(b, l) /\ Set(s, w) /\ Tell(s, told[s], Clash(b, l))
  BY DEF AppendLists
<1>2. UNCHANGED <<there, files, born, doomed, copied>> /\ v.op.k = "append"
  BY DEF AppendLists
<1>3. v \in SessionRecords /\ SessionOK(v, born) /\ DiskOK
  BY SessionFacts DEF SessionInv
<1>4. v.op # NoOp
  BY <1>2 DEF NoOp
<1>5. v.op \in Ops /\ f \in Folders /\ v.op.all = <<>> /\ v.op.todo = <<>>
  BY <1>2, <1>3, <1>4 DEF SessionRecords, SessionOK, Ops
<1>6. there \subseteq there' /\ there' \subseteq Folders
  BY <1>2, <1>3 DEF DiskOK
<1> HIDE DEF v, b
<1>7. op = NoOp \/ /\ op \in Ops /\ op.todo = <<>> /\ op.all = <<>> /\ op.k = "report" /\ v.sel = f
  BY <1>5 DEF Ops
<1>8. op # NoOp => v.sel \in Folders
  BY <1>5, <1>7
<1> HIDE DEF op, f
<1>9. /\ w \in SessionRecords /\ w.st = v.st /\ w.sel = v.sel /\ w.view = v.view /\ w.ro = v.ro
      /\ w.op = op /\ w.read = NoRead
  BY <1>3, <1>7, NothingRead DEF SessionRecords
<1> HIDE DEF w
<1>10. RangeOf(<<>>) = {}
  BY DEF RangeOf
<1>11. v.sel \in Folders => v.st = "selected"
  BY <1>3 DEF SessionOK
<1>12. SessionOK(w, born)
  BY <1>3, <1>7, <1>8, <1>9, <1>10, <1>11, NothingRead DEF SessionOK
<1>13. SourcesOK(w, copied, files)
  BY <1>7, <1>9, <1>10 DEF SourcesOK
<1> QED
  BY <1>1, <1>2, <1>5, <1>6, <1>9, <1>12, <1>13, RefreshStep DEF b, v

\* A message of a COPY.
LEMMA CopyStep ==
    ASSUME SessionInv, NEW s \in Sessions, NEW e \in RangeOf(sess[s].view), NEW dst \in Folders,
           Copy(s, e, dst)
    PROVE  SessionInv'
<1> DEFINE v == sess[s]
           op == [k |-> "list", todo |-> <<>>, all |-> <<>>, dst |-> dst]
           w == [v EXCEPT !.op = op]
<1>1. v \in SessionRecords /\ SessionOK(v, born)
  BY SessionFacts
<1>2. e.fl \in SUBSET {Seen, Deleted}
  <2>1. v.view \in Seq(Files)
    BY <1>1 DEF SessionRecords
  <2>2. e \in Files
    BY <2>1 DEF RangeOf
  <2> QED
    BY <2>2 DEF Files
<1>3. Stores(s, dst, e.fl, op) /\ copied' = copied /\ doomed' = doomed \cup CopyDooms(e)
  BY DEF Copy, CopyTo
<1>4. doomed \subseteq doomed' /\ (Deleted \in e.fl => born + 1 \in doomed')
  BY <1>3 DEF CopyDooms
<1>5. /\ DiskStep /\ DoomedOK' /\ told' = told /\ born <= born' /\ born \in Nat /\ born' \in Nat
      /\ \A g \in Folders : files[g] \subseteq files'[g]
      /\ Set(s, w)
  BY <1>2, <1>3, <1>4, StoresFacts
<1>6. /\ SessionOK(w, born') /\ SourcesOK(w, copied', files')
      /\ w.st = v.st /\ w.sel = v.sel /\ w.view = v.view /\ w.read = v.read
  <2> HIDE DEF v
  <2> QED
    BY <1>1, <1>5, OpList
<1> HIDE DEF w
<1> QED
  BY <1>5, <1>6, StoredStep

\* The message a MOVE is at is one of the session's view.
LEMMA CurrentFacts ==
    ASSUME SessionInv, NEW s \in Sessions, sess[s].op # NoOp, sess[s].op.todo # <<>>
    PROVE  /\ Current(s) \in RangeOf(sess[s].view) /\ Current(s) \in Files
           /\ Current(s).base = Head(sess[s].op.todo)
           /\ Head(sess[s].op.todo) \in RangeOf(sess[s].op.all)
<1> DEFINE v == sess[s]
           h == Head(v.op.todo)
<1>1. /\ v \in SessionRecords /\ RangeOf(v.op.todo) \subseteq RangeOf(v.op.all)
      /\ RangeOf(v.op.all) \subseteq BasesOf(RangeOf(v.view))
  BY SessionFacts DEF SessionOK
<1>2. v.op.todo \in Seq(Bases) /\ v.view \in Seq(Files)
  BY <1>1 DEF SessionRecords, Ops
<1>3. h \in RangeOf(v.op.todo)
  BY <1>2 DEF RangeOf
<1>4. h \in RangeOf(v.op.all) /\ \E e \in RangeOf(v.view) : e.base = h
  BY <1>1, <1>3 DEF BasesOf
<1>5. Current(s) \in RangeOf(v.view) /\ Current(s).base = h
  BY <1>4 DEF Current
<1>6. RangeOf(v.view) \subseteq Files
  BY <1>2 DEF RangeOf
<1> QED
  BY <1>4, <1>5, <1>6

\* After a copy: one source less to copy, or all to flag.
LEMMA AfterCopyFacts ==
    ASSUME NEW op \in Ops, op.todo # <<>>
    PROVE  /\ AfterCopy(op) \in Ops /\ AfterCopy(op).k \in {"copy", "flag"}
           /\ AfterCopy(op).all = op.all
           /\ RangeOf(AfterCopy(op).todo) \subseteq RangeOf(op.todo) \cup RangeOf(op.all)
           /\ AfterCopy(op).k = "copy" => AfterCopy(op).todo # <<>>
           /\ RangeOf(Tail(op.todo)) \subseteq ToCopy(AfterCopy(op))
<1> DEFINE q == op.todo
<1>1. q \in Seq(Bases) /\ q # <<>>
  BY DEF Ops
<1>2. CASE Len(q) > 1
  <2>1. AfterCopy(op) = [op EXCEPT !.k = "copy", !.todo = Tail(q)]
    BY <1>2 DEF AfterCopy
  <2> HIDE DEF q
  <2>2. Tail(q) \in Seq(Bases) /\ Tail(q) # <<>> /\ Len(Tail(q)) = Len(q) - 1
    <3>1. Tail(q) \in Seq(Bases) /\ Len(Tail(q)) = Len(q) - 1 /\ Len(q) \in Nat
      BY <1>1
    <3>2. \A n \in Nat : n > 1 => n - 1 # 0
      OBVIOUS
    <3>3. Len(Tail(q)) # 0 /\ Len(<<>>) = 0
      BY <1>2, <3>1, <3>2
    <3> QED
      BY <3>1, <3>3
  <2>3. RangeOf(Tail(q)) \subseteq RangeOf(q)
    BY <1>1, <2>2 DEF RangeOf
  <2>5. AfterCopy(op).todo = Tail(q) /\ AfterCopy(op).k = "copy" /\ AfterCopy(op).all = op.all
        /\ AfterCopy(op) \in Ops
    BY <2>1, <2>2 DEF Ops
  <2> QED
    BY <2>2, <2>3, <2>5 DEF q, ToCopy
<1>3. CASE ~(Len(q) > 1)
  <2>1. AfterCopy(op) = [op EXCEPT !.k = "flag", !.todo = op.all]
    BY <1>3 DEF AfterCopy
  <2>2. AfterCopy(op).todo = op.all /\ AfterCopy(op).k = "flag" /\ AfterCopy(op).all = op.all
        /\ AfterCopy(op) \in Ops
    BY <2>1 DEF Ops
  <2>3. Len(q) = 1
    <3>1. Len(q) \in Nat /\ Len(q) # 0
      BY <1>1, EmptySeq
    <3> HIDE DEF q
    <3>2. \A n \in Nat : n # 0 /\ ~(n > 1) => n = 1
      OBVIOUS
    <3> QED
      BY <1>3, <3>1, <3>2
  <2>4. RangeOf(Tail(q)) = {}
    <3> HIDE DEF q
    <3>1. Tail(q) \in Seq(Bases) /\ Len(Tail(q)) = 0
      BY <1>1, <2>3
    <3>2. \A t \in Seq(Bases) : Len(t) = 0 => RangeOf(t) = {}
      BY DEF RangeOf
    <3> QED
      BY <3>1, <3>2
  <2> QED
    BY <2>2, <2>4
<1> QED
  BY <1>2, <1>3

\* A session that MOVE takes to its next message.
LEMMA MoveCopyStep ==
    ASSUME SessionInv, NEW s \in Sessions, MoveCopy(s)
    PROVE  SessionInv'
<1> DEFINE v == sess[s]
           op == v.op
           e == Current(s)
           n == [op EXCEPT !.k = "list"]
           w == [v EXCEPT !.op = n]
<1>1. v \in SessionRecords /\ SessionOK(v, born) /\ SourcesOK(v, copied, files) /\ op.k = "copy"
  BY SessionFacts DEF MoveCopy
<1>2. op # NoOp
  BY <1>1 DEF NoOp
<1>3. op \in Ops /\ op.todo # <<>> /\ op.dst \in Folders /\ op.todo \in Seq(Bases)
  BY <1>1, <1>2 DEF SessionOK, SessionRecords, Ops
<1>4. e \in RangeOf(v.view) /\ e \in Files /\ e.base = Head(op.todo)
  BY <1>2, <1>3, CurrentFacts
<1>5. Stores(s, op.dst, e.fl, n)
  BY DEF MoveCopy, CopyTo
<1>6. copied' = copied \cup {e.base} /\ doomed' = doomed \cup CopyDooms(e)
  BY DEF MoveCopy
<1> HIDE DEF e
<1>7. /\ DiskStep /\ DoomedOK' /\ told' = told /\ born <= born' /\ born \in Nat /\ born' \in Nat
      /\ \A g \in Folders : files[g] \subseteq files'[g]
      /\ Set(s, w)
  <2>1. e.fl \in SUBSET {Seen, Deleted}
    BY <1>4 DEF Files
  <2>2. doomed \subseteq doomed' /\ (Deleted \in e.fl => born + 1 \in doomed')
    BY <1>6 DEF CopyDooms
  <2>3. copied \subseteq copied'
    BY <1>6
  <2> HIDE DEF n
  <2> QED
    BY <1>3, <1>5, <2>1, <2>2, <2>3, StoresFacts
<1>8. n \in Ops /\ n.todo = op.todo /\ n.all = op.all /\ n.k = "list"
  BY <1>3 DEF Ops
<1> HIDE DEF n, v
<1>9. /\ w \in SessionRecords /\ w.st = v.st /\ w.sel = v.sel /\ w.view = v.view /\ w.ro = v.ro
      /\ w.op = n /\ w.read = v.read
  BY <1>1, <1>8 DEF SessionRecords
<1> HIDE DEF w
<1>10. SessionOK(w, born')
  <2>1. 1..born \subseteq 1..born'
    BY <1>7
  <2>2. /\ BasesOf(RangeOf(v.view)) \subseteq 1..born /\ v.st = "selected" /\ v.sel \in Folders /\ ~v.ro
        /\ RangeOf(op.todo) \subseteq RangeOf(op.all)
        /\ RangeOf(op.all) \subseteq BasesOf(RangeOf(v.view)) /\ ReadOK(v.read, born)
    BY <1>1, <1>2 DEF SessionOK
  <2>3. ReadOK(v.read, born')
    BY <2>1, <2>2 DEF ReadOK
  <2>4. n.k \notin {"copy", "flag", "append", "report"}
    BY <1>8
  <2> QED
    BY <1>8, <1>9, <2>1, <2>2, <2>3, <2>4 DEF SessionOK
<1>11. SourcesOK(w, copied', files')
  <2> SUFFICES ASSUME NEW b \in RangeOf(op.all)
               PROVE  b \in copied' \/ b \notin BasesOf(files'[v.sel]) \/ b \in RangeOf(Tail(op.todo))
    BY <1>3, <1>8, <1>9 DEF SourcesOK, ToCopy
  <2>1. b \in 1..born /\ v.sel \in Folders
    BY <1>1, <1>2 DEF SessionOK
  <2>2. b \in copied \/ b \notin BasesOf(files[v.sel]) \/ b \in RangeOf(op.todo)
    BY <1>1, <1>2 DEF SourcesOK, ToCopy
  <2>3. b \notin BasesOf(files[v.sel]) => b \notin BasesOf(files'[v.sel])
    BY <1>7, <2>1 DEF DiskStep, DiskCore
  <2>4. Head(op.todo) \in copied' /\ (b \in copied => b \in copied')
    BY <1>4, <1>6
  <2>5. b \in RangeOf(op.todo) => b = Head(op.todo) \/ b \in RangeOf(Tail(op.todo))
    <3> DEFINE q == op.todo
    <3>0. q \in Seq(Bases) /\ q # <<>>
      BY <1>3
    <3> HIDE DEF q
    <3> SUFFICES ASSUME NEW i \in 1..Len(q) PROVE q[i] = Head(q) \/ q[i] \in RangeOf(Tail(q))
      BY <3>0 DEF RangeOf, q
    <3>1. CASE i = 1
      BY <3>0, <3>1
    <3>2. CASE i > 1
      <4>1. i - 1 \in DOMAIN Tail(q) /\ Tail(q)[i - 1] = q[i]
        BY <3>0, <3>2
      <4> QED
        BY <4>1 DEF RangeOf
    <3> QED
      BY <3>1, <3>2
  <2> QED
    BY <2>2, <2>3, <2>4, <2>5
<1> QED
  BY <1>7, <1>9, <1>10, <1>11, StoredStep DEF v

\* The destination of a copy is read again.
LEMMA CopyListsStep ==
    ASSUME SessionInv, NEW s \in Sessions, CopyLists(s)
    PROVE  SessionInv'
<1> DEFINE v == sess[s]
           op == v.op
           b == Basis(s, op.dst)
           n == IF op.todo = <<>> THEN NoOp ELSE AfterCopy(op)
           w == [v EXCEPT !.op = n, !.read = NoRead]
<1>1. PICK l \in Listings(b) : order' = Relisted(b, l) /\ Set(s, w) /\ Tell(s, told[s], Clash(b, l))
  BY DEF CopyLists
<1>2. UNCHANGED <<there, files, born, doomed, copied>> /\ op.k = "list"
  BY DEF CopyLists
<1>3. v \in SessionRecords /\ SessionOK(v, born) /\ SourcesOK(v, copied, files) /\ DiskOK
  BY SessionFacts DEF SessionInv
<1>4. op # NoOp
  BY <1>2 DEF NoOp
<1>5. op \in Ops /\ op.dst \in Folders
  BY <1>3, <1>4 DEF SessionRecords, Ops
<1>6. there \subseteq there' /\ there' \subseteq Folders
  BY <1>2, <1>3 DEF DiskOK
<1>7. n # NoOp =>
        /\ n \in Ops /\ n.k \in {"copy", "flag"} /\ n.all = op.all /\ op.todo # <<>>
        /\ RangeOf(n.todo) \subseteq RangeOf(op.todo) \cup RangeOf(op.all)
        /\ n.k = "copy" => n.todo # <<>>
        /\ RangeOf(Tail(op.todo)) \subseteq ToCopy(n)
  <2> HIDE DEF op
  <2> QED
    BY <1>5, AfterCopyFacts
<1> HIDE DEF n, b, v
<1>8. /\ w \in SessionRecords /\ w.st = v.st /\ w.sel = v.sel /\ w.view = v.view /\ w.ro = v.ro
      /\ w.op = n /\ w.read = NoRead
  BY <1>3, <1>7, NothingRead DEF SessionRecords
<1> HIDE DEF w
<1>9. SessionOK(w, born)
  <2>1. /\ BasesOf(RangeOf(v.view)) \subseteq 1..born /\ (v.st = "selected" <=> v.sel \in Folders)
        /\ RangeOf(op.todo) \subseteq RangeOf(op.all)
        /\ RangeOf(op.all) \subseteq BasesOf(RangeOf(v.view))
    BY <1>3, <1>4 DEF SessionOK
  <2>2. op.todo # <<>> => v.st = "selected" /\ ~v.ro
    <3>1. op.todo # <<>> => RangeOf(op.todo) # {}
      <4> DEFINE q == op.todo
      <4>1. q \in Seq(Bases)
        BY <1>5 DEF Ops
      <4> HIDE DEF q
      <4>2. q # <<>> => q[1] \in RangeOf(q)
        BY <4>1 DEF RangeOf
      <4> QED
        BY <4>2 DEF q
    <3>2. RangeOf(<<>>) = {}
      BY DEF RangeOf
    <3>3. op.todo # <<>> => op.all # <<>>
      BY <2>1, <3>1, <3>2
    <3> QED
      BY <1>3, <1>4, <3>3 DEF SessionOK
  <2>3. n # NoOp => n.k \notin {"append", "report"}
    BY <1>7
  <2> QED
    BY <1>7, <1>8, <2>1, <2>2, <2>3, NothingRead DEF SessionOK
<1>10. SourcesOK(w, copied, files)
  <2> SUFFICES ASSUME n # NoOp, NEW c \in RangeOf(op.all)
               PROVE  c \in copied \/ c \notin BasesOf(files[v.sel]) \/ c \in ToCopy(n)
    BY <1>7, <1>8 DEF SourcesOK
  <2>1. c \in copied \/ c \notin BasesOf(files[v.sel]) \/ c \in RangeOf(Tail(op.todo))
    BY <1>2, <1>3, <1>4, <1>7 DEF SourcesOK, ToCopy
  <2> QED
    BY <1>7, <2>1
<1> QED
  BY <1>1, <1>2, <1>5, <1>6, <1>8, <1>9, <1>10, RefreshStep DEF b, v

\* MOVE gives up.
LEMMA GiveUpStep ==
    ASSUME SessionInv, NEW s \in Sessions, NEW w, Set(s, w),
           w = [sess[s] EXCEPT !.op = NoOp] \/ w = [sess[s] EXCEPT !.op = NoOp, !.read = NoRead],
           UNCHANGED <<diskVars, told, doomed, copied>>
    PROVE  SessionInv'
<1> DEFINE v == sess[s]
           u == [v EXCEPT !.op = NoOp]
<1>1. DiskStep /\ DoomedOK'
  BY DiskSame
<1>2. v \in SessionRecords /\ SessionOK(v, born) /\ born \in Nat /\ born' = born /\ born <= born
  BY SessionFacts DEF SessionInv, DiskOK, diskVars
<1>a. w = u \/ w = [u EXCEPT !.read = NoRead]
  OBVIOUS
<1> HIDE DEF v
<1>b. /\ SessionOK(u, born) /\ SourcesOK(u, copied', files')
      /\ u.st = v.st /\ u.sel = v.sel /\ u.view = v.view /\ u.read = v.read
  BY <1>2, OpDone
<1> HIDE DEF u
<1>c. u \in SessionRecords
  BY <1>b DEF SessionOK
<1>d. LET r == [u EXCEPT !.read = NoRead]
      IN /\ SessionOK(r, born) /\ SourcesOK(r, copied', files') /\ r.read = NoRead
         /\ r.st = u.st /\ r.sel = u.sel /\ r.view = u.view
  BY <1>b, <1>c, ReadDone
<1>3. /\ SessionOK(w, born) /\ SourcesOK(w, copied', files')
      /\ w.st = v.st /\ w.sel = v.sel /\ w.view = v.view
      /\ w.read = v.read \/ w.read = NoRead
  BY <1>a, <1>b, <1>d
<1>4. \A g \in Folders : files[g] \subseteq files'[g]
  BY DEF diskVars
<1>5. SessionOK(w, born')
  BY <1>2, <1>3
<1> QED
  BY <1>1, <1>3, <1>4, <1>5, StoredStep DEF v

\* MOVE fails, at a copy or at a flag; a list cannot be written.
LEMMA MoveFailsStep ==
    ASSUME SessionInv, NEW s \in Sessions, MoveCopyFails(s) \/ MoveFlagFails(s) \/ ListFails(s)
    PROVE  SessionInv'
<1>1. PICK w : /\ Set(s, w)
               /\ w = [sess[s] EXCEPT !.op = NoOp] \/ w = [sess[s] EXCEPT !.op = NoOp, !.read = NoRead]
  BY DEF MoveCopyFails, MoveFlagFails, ListFails, AfterFailure
<1>2. UNCHANGED <<diskVars, told, doomed, copied>>
  BY DEF MoveCopyFails, MoveFlagFails, ListFails
<1> QED
  BY <1>1, <1>2, GiveUpStep

\* SetFlags changes one entry of the view, and no number.
LEMMA FlaggedFacts ==
    ASSUME NEW v \in Seq(Files), NEW e \in Files, NEW fl \in SUBSET {Seen, Deleted}
    PROVE  /\ Flagged(v, e, fl) \in Seq(Files)
           /\ Numbers(Flagged(v, e, fl)) = Numbers(v)
           /\ BasesOf(RangeOf(Flagged(v, e, fl))) = BasesOf(RangeOf(v))
           /\ \A x \in RangeOf(Flagged(v, e, fl)) :
                x = NameOf(e, fl) \/ (x \in RangeOf(v) /\ x.base # e.base)
<1> DEFINE n == NameOf(e, fl)
           u == Flagged(v, e, fl)
<1>1. n \in Files /\ n.base = e.base
  BY DEF NameOf, Files
<1>2. u = [i \in DOMAIN v |-> IF v[i].base = e.base THEN n ELSE v[i]]
  BY DEF Flagged
<1> HIDE DEF n, u
<1>3. DOMAIN u = DOMAIN v /\ \A i \in DOMAIN v : u[i].base = v[i].base /\ u[i] \in Files
  BY <1>1, <1>2
<1>4. u \in Seq(Files)
  BY <1>1, <1>2
<1>5. Numbers(u) = Numbers(v)
  BY <1>3 DEF Numbers
<1>6. BasesOf(RangeOf(u)) = BasesOf(RangeOf(v))
  <2>1. \A b : b \in BasesOf(RangeOf(u)) <=> \E i \in DOMAIN u : b = u[i].base
    BY DEF BasesOf, RangeOf
  <2>2. \A b : b \in BasesOf(RangeOf(v)) <=> \E i \in DOMAIN v : b = v[i].base
    BY DEF BasesOf, RangeOf
  <2>3. \A b : b \in BasesOf(RangeOf(u)) <=> b \in BasesOf(RangeOf(v))
    BY <1>3, <2>1, <2>2
  <2> QED
    BY <2>3
<1>7. \A x \in RangeOf(u) : x = n \/ (x \in RangeOf(v) /\ x.base # e.base)
  BY <1>2, <1>3 DEF RangeOf
<1> QED
  BY <1>4, <1>5, <1>6, <1>7 DEF n, u

\* A renamed file with the Deleted flag is noted.
LEMMA DoomedRenamed ==
    ASSUME DiskOK, NEW f \in Folders, NEW e \in Files, NEW fl \in SUBSET {Seen, Deleted},
           files' = [files EXCEPT ![f] = Renamed(files[f], e, fl)],
           e \in files[f] /\ Deleted \in fl => e.base \in doomed' \cup copied',
           \A g \in Folders : \A x \in files[g] \cap files'[g] :
                Deleted \in x.fl => x.base \in doomed' \cup copied'
    PROVE  DoomedOK'
<1> DEFINE F == files[f]
<1>1. F \in SUBSET Files /\ \A x, y \in F : x.base = y.base => x = y
  BY DEF DiskOK
<1>2. files'[f] = Renamed(F, e, fl) /\ \A g \in Folders \ {f} : files'[g] = files[g]
  BY DEF DiskOK
<1> HIDE DEF F
<1>3. /\ \A x \in Renamed(F, e, fl) : x \in F \/ (x = NameOf(e, fl) /\ e \in F)
      /\ NameOf(e, fl).fl = fl /\ NameOf(e, fl).base = e.base
  BY <1>1, RenamedLemma
<1>4. ASSUME NEW g \in Folders, NEW x \in files'[g], Deleted \in x.fl
      PROVE  x.base \in doomed' \cup copied'
  <2>1. CASE x \in files[g]
    BY <1>4, <2>1
  <2>2. CASE x \notin files[g]
    <3>1. g = f /\ x = NameOf(e, fl) /\ e \in F
      BY <1>2, <1>3, <1>4, <2>2 DEF F
    <3> QED
      BY <1>3, <1>4, <3>1 DEF F
  <2> QED
    BY <2>1, <2>2
<1> QED
  BY <1>4 DEF DoomedOK

\* SetFlags by session s, which then goes on at op.
LEMMA SetFlagsStep ==
    ASSUME SessionInv, NEW s \in Sessions, NEW e \in RangeOf(sess[s].view), NEW fl \in SUBSET {Seen, Deleted},
           sess[s].st = "selected", NEW op, SetFlags(s, e, fl, op), copied' = copied, DoomedOK',
           \/ op = NoOp
           \/ /\ sess[s].op # NoOp /\ sess[s].op.k = "flag" /\ op # NoOp
              /\ op \in Ops
              /\ op.k = "flag" /\ op.all = sess[s].op.all /\ RangeOf(op.todo) \subseteq RangeOf(op.all)
    PROVE  SessionInv'
<1> DEFINE v == sess[s]
           f == v.sel
           F == files[f]
           t == told[s]
           w == [v EXCEPT !.view = Flagged(v.view, e, fl), !.op = op]
           n == NameOf(e, fl)
           D == Disturbed(s, f)
<1>1. /\ v \in SessionRecords /\ SessionOK(v, born) /\ SourcesOK(v, copied, files) /\ f \in Folders
      /\ (t # Lost => InStep(v, t, files, order))
  BY SessionFacts DEF SessionOK
<1>2. /\ files' = [files EXCEPT ![f] = Renamed(F, e, fl)] /\ Set(s, w) /\ Tell(s, t, D)
      /\ UNCHANGED <<there, order, born>>
  BY DEF SetFlags
<1>3. D = {c \in Sessions \ {s} : sess[c].sel = f /\ ~(F \subseteq files'[f])}
  BY DEF Disturbed
<1>4. v.view \in Seq(Files)
  BY <1>1 DEF SessionRecords
<1>5. e \in Files
  BY <1>4 DEF RangeOf
<1>6. DiskOK /\ files \in [Folders -> SUBSET Files] /\ born \in Nat
  BY DEF SessionInv, DiskOK
<1>7. F \in SUBSET Files /\ \A x, y \in F : x.base = y.base => x = y
  BY <1>1, <1>6 DEF DiskOK
<1>8. DiskStep
  BY <1>1, <1>2, <1>5, <1>6, DiskRenamed
<1> HIDE DEF F, n, D, t
<1>9. /\ BasesOf(Renamed(F, e, fl)) = BasesOf(F)
      /\ (e \in F => Renamed(F, e, fl) = (F \ {e}) \cup {n})
  BY <1>5, <1>7, RenamedLemma DEF n
<1>10. files'[f] = Renamed(F, e, fl) /\ \A g \in Folders \ {f} : files'[g] = files[g]
  BY <1>1, <1>2, <1>6
<1>11. e \in RangeOf(v.view)
  OBVIOUS
<1> DEFINE u == v.view
           x == Flagged(u, e, fl)
<1> HIDE DEF v
<1>12. /\ x \in Seq(Files) /\ Numbers(x) = Numbers(u) /\ BasesOf(RangeOf(x)) = BasesOf(RangeOf(u))
       /\ \A y \in RangeOf(x) : y = n \/ (y \in RangeOf(u) /\ y.base # e.base)
  <2> HIDE DEF u
  <2>1. u \in Seq(Files)
    BY <1>4 DEF u
  <2> QED
    BY <1>5, <2>1, FlaggedFacts DEF n
<1>13. w \in SessionRecords /\ w.st = v.st /\ w.sel = f /\ w.ro = v.ro /\ w.view = x /\ w.op = op
       /\ w.read = v.read
  <2> HIDE DEF x
  <2>1. op \in {NoOp} \cup Ops
    OBVIOUS
  <2>2. w = [v EXCEPT !.view = x, !.op = op]
    BY DEF x
  <2> HIDE DEF w
  <2> QED
    BY <1>1, <1>12, <2>1, <2>2 DEF SessionRecords
<1>14. v.st = "selected" /\ (op # NoOp => v.op # NoOp /\ v.op.k = "flag" /\ op.k = "flag" /\ op.all = v.op.all
                                          /\ RangeOf(op.todo) \subseteq RangeOf(op.all))
  BY DEF v
<1> HIDE DEF w, x, f
<1>15. SessionOK(w, born)
  <2>1. BasesOf(RangeOf(w.view)) = BasesOf(RangeOf(v.view)) /\ BasesOf(RangeOf(w.view)) \subseteq 1..born
    BY <1>1, <1>12, <1>13 DEF SessionOK
  <2> QED
    BY <1>1, <1>13, <1>14, <2>1 DEF SessionOK
<1>16. SourcesOK(w, copied, files')
  <2> SUFFICES ASSUME op # NoOp, NEW b \in RangeOf(op.all)
               PROVE  b \in copied \/ b \notin BasesOf(files'[f])
    BY <1>13 DEF SourcesOK
  <2>1. b \in copied \/ b \notin BasesOf(F)
    BY <1>1, <1>14 DEF SourcesOK, ToCopy, F, f
  <2> QED
    BY <1>9, <1>10, <2>1
<1>17. t # Lost => InStep(w, t, files', order)
  <2> SUFFICES ASSUME t # Lost PROVE InStep(w, t, files', order)
    OBVIOUS
  <2>1. /\ t = Numbers(u) /\ RangeOf(u) \subseteq F /\ StartsWith(Listed(order[f], F), t)
        /\ v.read.f = f => StartsWith(Listed(v.read.l, v.read.fs), t)
    BY <1>1 DEF InStep, F, f
  <2>2. e \in F
    BY <1>11, <2>1
  <2>3. RangeOf(x) \subseteq files'[f]
    BY <1>9, <1>10, <1>12, <2>1, <2>2
  <2>4. Listed(order[f], files'[f]) = Listed(order[f], F)
    BY <1>9, <1>10 DEF Listed
  <2> QED
    BY <1>12, <1>13, <2>1, <2>3, <2>4 DEF InStep
<1>18. /\ SessionOK(w, born') /\ SourcesOK(w, copied', files')
       /\ (w.st = "selected" /\ t # Lost /\ s \notin D => InStep(w, t, files', order'))
  BY <1>2, <1>15, <1>16, <1>17
<1>19. \A c \in Sessions \ {s} : \/ c \in D \/ sess[c].st # "selected"
                                 \/ files[sess[c].sel] \subseteq files'[sess[c].sel]
  <2>1. \A c \in Sessions : sess[c].st = "selected" => sess[c].sel \in Folders
    BY DEF SessionInv, SessionsOK, SessionOK
  <2> QED
    BY <1>3, <1>10, <2>1 DEF F
<1> QED
  BY <1>2, <1>8, <1>18, <1>19, SessionStep

\* What SetFlags does to the folder, for the observations.
LEMMA SetFlagsFacts ==
    ASSUME SessionInv, NEW s \in Sessions, NEW e \in RangeOf(sess[s].view), sess[s].st = "selected",
           NEW fl, NEW op, SetFlags(s, e, fl, op)
    PROVE  /\ sess[s].sel \in Folders /\ e \in Files /\ DiskOK
           /\ files' = [files EXCEPT ![sess[s].sel] = Renamed(files[sess[s].sel], e, fl)]
<1>1. sess[s].view \in Seq(Files) /\ sess[s].sel \in Folders
  BY SessionFacts DEF SessionOK, SessionRecords
<1>2. e \in Files
  BY <1>1 DEF RangeOf
<1> QED
  BY <1>1, <1>2 DEF SessionInv, SetFlags

\* A message of a FETCH is marked read.
LEMMA FetchStep ==
    ASSUME SessionInv, NEW s \in Sessions, NEW e \in RangeOf(sess[s].view), NEW items, Fetch(s, e, items)
    PROVE  SessionInv'
<1> DEFINE fl == e.fl \cup {Seen}
           f == sess[s].sel
<1>1. SetFlags(s, e, fl, NoOp) /\ sess[s].st = "selected" /\ doomed' = doomed /\ copied' = copied
  BY DEF Fetch, Selected
<1>2. f \in Folders /\ e \in Files /\ DiskOK /\ files' = [files EXCEPT ![f] = Renamed(files[f], e, fl)]
  BY <1>1, SetFlagsFacts
<1>3. fl \in SUBSET {Seen, Deleted} /\ (Deleted \in fl => Deleted \in e.fl)
  BY <1>2 DEF Files, Seen, Deleted
<1>4. \A g \in Folders : \A x \in files[g] : Deleted \in x.fl => x.base \in doomed' \cup copied'
  BY <1>1 DEF SessionInv, DoomedOK
<1>5. e \in files[f] /\ Deleted \in fl => e.base \in doomed' \cup copied'
  BY <1>2, <1>3, <1>4
<1> HIDE DEF fl, f
<1>6. DoomedOK'
  BY <1>2, <1>3, <1>4, <1>5, DoomedRenamed
<1> QED
  BY <1>1, <1>3, <1>6, SetFlagsStep

\* A message of a STORE: when the flag goes, so does the note of it, of this file only.
LEMMA StoreStep ==
    ASSUME SessionInv, NEW s \in Sessions, NEW e \in RangeOf(sess[s].view), NEW mode \in {"FLAGS", "+FLAGS", "-FLAGS"},
           NEW g0 \in SUBSET {Seen, Deleted}, Store(s, e, mode, g0)
    PROVE  SessionInv'
<1> DEFINE fl == Wanted(e, mode, g0)
           f == sess[s].sel
           F == files[f]
<1>1. /\ SetFlags(s, e, fl, NoOp) /\ sess[s].st = "selected" /\ copied' = copied
      /\ doomed' = IF files' = files THEN doomed
                   ELSE IF Deleted \in fl THEN doomed \cup {e.base} ELSE doomed \ {e.base}
  BY DEF Store, Selected
<1>2. f \in Folders /\ e \in Files /\ DiskOK /\ files' = [files EXCEPT ![f] = Renamed(F, e, fl)]
  BY <1>1, SetFlagsFacts
<1>3. fl \in SUBSET {Seen, Deleted}
  <2>1. e.fl \in SUBSET {Seen, Deleted}
    BY <1>2 DEF Files
  <2>2. mode = "FLAGS" => fl = g0
    BY DEF Wanted
  <2>3. mode = "+FLAGS" => fl = e.fl \cup g0
    BY DEF Wanted
  <2>4. mode = "-FLAGS" => fl = e.fl \ g0
    BY DEF Wanted
  <2> QED
    BY <2>1, <2>2, <2>3, <2>4
<1>4. \A g \in Folders : \A x \in files[g] : Deleted \in x.fl => x.base \in doomed \cup copied
  BY DEF SessionInv, DoomedOK
<1>5. F \in SUBSET Files /\ (\A x, y \in F : x.base = y.base => x = y) /\ files \in [Folders -> SUBSET Files]
  BY <1>2 DEF DiskOK
<1> HIDE DEF fl, f, F
<1>6. /\ NameOf(e, fl).fl = fl
      /\ (e \notin F => Renamed(F, e, fl) = F) /\ (e \in F => Renamed(F, e, fl) = (F \ {e}) \cup {NameOf(e, fl)})
  <2>1. e \in Files /\ F \in SUBSET Files /\ (\A x, y \in F : x.base = y.base => x = y)
    BY <1>2, <1>5
  <2> QED
    BY <1>3, <2>1, RenamedLemma
<1>7. files'[f] = Renamed(F, e, fl)
  BY <1>2, <1>5
<1>8. e \notin F => files' = files
  BY <1>2, <1>5, <1>6 DEF F
<1>9. e \in F /\ Deleted \in fl => e.base \in doomed' \cup copied'
  <2> SUFFICES ASSUME e \in F, Deleted \in fl PROVE e.base \in doomed' \cup copied'
    OBVIOUS
  <2>1. CASE files' = files
    <3>1. NameOf(e, fl) \in F /\ NameOf(e, fl).base = e.base
      BY <1>6, <1>7, <2>1 DEF F, NameOf
    <3>2. e.fl = fl
      BY <1>5, <1>6, <3>1
    <3> QED
      BY <1>1, <1>2, <1>4, <2>1, <3>2 DEF F
  <2>2. CASE files' # files
    BY <1>1, <2>2
  <2> QED
    BY <2>1, <2>2
<1>10. ASSUME NEW g \in Folders, NEW x \in files[g] \cap files'[g], Deleted \in x.fl
       PROVE  x.base \in doomed' \cup copied'
  <2>0. x.base \in doomed \cup copied
    BY <1>4, <1>10
  <2>1. CASE files' = files
    BY <1>1, <2>0, <2>1
  <2>2. CASE files' # files /\ Deleted \in fl
    BY <1>1, <2>0, <2>2
  <2>3. CASE files' # files /\ Deleted \notin fl /\ x.base # e.base
    BY <1>1, <2>0, <2>3
  <2>4. CASE files' # files /\ Deleted \notin fl /\ x.base = e.base
    <3>1. e \in F
      BY <1>8, <2>4
    <3>2. g = f /\ x = e
      BY <1>2, <1>10, <2>4, <3>1 DEF DiskOK, F
    <3>3. e = NameOf(e, fl)
      BY <1>6, <1>7, <1>10, <3>1, <3>2
    <3> QED
      BY <1>6, <1>10, <2>4, <3>2, <3>3
  <2> QED
    BY <2>1, <2>2, <2>3, <2>4
<1>11. DoomedOK'
  BY <1>2, <1>3, <1>9, <1>10, DoomedRenamed DEF F
<1> QED
  BY <1>1, <1>3, <1>11, SetFlagsStep

\* MOVE flags a source, of which there is a copy.
LEMMA MoveFlagStep ==
    ASSUME SessionInv, NEW s \in Sessions, MoveFlag(s)
    PROVE  SessionInv'
<1> DEFINE v == sess[s]
           o == v.op
           e == Current(s)
           fl == e.fl \cup {Deleted}
           op == [o EXCEPT !.todo = Tail(o.todo)]
           f == v.sel
<1>1. o.k = "flag" /\ o.todo # <<>> /\ SetFlags(s, e, fl, op) /\ doomed' = doomed /\ copied' = copied
  BY DEF MoveFlag
<1>2. o # NoOp
  BY <1>1 DEF NoOp
<1>3. /\ v \in SessionRecords /\ v.st = "selected" /\ f \in Folders
      /\ RangeOf(o.todo) \subseteq RangeOf(o.all) /\ SourcesOK(v, copied, files)
  BY <1>1, <1>2, SessionFacts DEF SessionOK
<1>4. o \in Ops
  BY <1>2, <1>3 DEF SessionRecords
<1>5. e \in RangeOf(v.view) /\ e \in Files /\ e.base \in RangeOf(o.all)
  BY <1>1, <1>2, CurrentFacts
<1> HIDE DEF e
<1>6. DiskOK /\ files' = [files EXCEPT ![f] = Renamed(files[f], e, fl)]
  BY <1>1, <1>3, <1>5, SetFlagsFacts
<1>7. fl \in SUBSET {Seen, Deleted}
  BY <1>5 DEF Files
<1>8. \A g \in Folders : \A x \in files[g] : Deleted \in x.fl => x.base \in doomed' \cup copied'
  BY <1>1 DEF SessionInv, DoomedOK
<1>9. e \in files[f] => e.base \in copied'
  <2> SUFFICES ASSUME e \in files[f] PROVE e.base \in copied
    BY <1>1
  <2>1. e.base \in BasesOf(files[f])
    BY DEF BasesOf
  <2> QED
    BY <1>1, <1>2, <1>3, <1>5, <2>1 DEF SourcesOK, ToCopy
<1> HIDE DEF fl
<1>10. DoomedOK'
  <2> HIDE DEF f
  <2> QED
    BY <1>3, <1>5, <1>6, <1>7, <1>8, <1>9, DoomedRenamed
<1>11. /\ op \in Ops
       /\ op.k = "flag" /\ op.all = o.all /\ RangeOf(op.todo) \subseteq RangeOf(op.all) /\ op # NoOp
  <2> HIDE DEF o
  <2> DEFINE q == o.todo
             r == Tail(q)
  <2>1. q \in Seq(Bases) /\ q # <<>>
    BY <1>1, <1>4 DEF Ops
  <2> HIDE DEF q
  <2>2. r \in Seq(Bases) /\ RangeOf(r) \subseteq RangeOf(q)
    BY <2>1 DEF RangeOf
  <2>3. op = [o EXCEPT !.todo = r]
    BY DEF q
  <2> HIDE DEF op, r
  <2>4. /\ op \in Ops
        /\ op.k = "flag" /\ op.all = o.all /\ op.todo = r
    BY <1>1, <1>4, <2>2, <2>3 DEF Ops
  <2>5. op # NoOp
    BY <2>4 DEF NoOp
  <2> QED
    BY <1>3, <2>2, <2>4, <2>5 DEF q
<1> HIDE DEF op
<1> QED
  BY <1>1, <1>2, <1>3, <1>5, <1>7, <1>10, <1>11, SetFlagsStep

\* Expunge removes the files it finds under their names.
LEMMA RemovedFacts ==
    ASSUME NEW F, NEW D \in SUBSET Files
    PROVE  Removed(F, D) = F \ D
<1>1. \A e \in D : Finds(F, e) = F \cap {e}
  BY DEF Finds, FileOf, Files
<1>2. \A x : x \in UNION {Finds(F, e) : e \in D} <=> x \in F /\ x \in D
  BY <1>1
<1> QED
  BY <1>2 DEF Removed

\* What is forgotten is of files that are gone.
LEMMA DoomedRemoved ==
    ASSUME SessionInv, NEW f \in Folders, NEW R \in SUBSET files[f], files' = [files EXCEPT ![f] = R],
           doomed' = doomed \ (BasesOf(files[f]) \ BasesOf(R)),
           copied' = copied \ (BasesOf(files[f]) \ BasesOf(R))
    PROVE  DoomedOK'
<1>1. files'[f] = R /\ \A g \in Folders \ {f} : files'[g] = files[g]
  BY DEF SessionInv, DiskOK
<1>2. ASSUME NEW g \in Folders, NEW x \in files'[g], Deleted \in x.fl
      PROVE  x.base \in doomed' \cup copied'
  <2>1. x \in files[g]
    BY <1>1
  <2>2. x.base \in doomed \cup copied
    BY <1>2, <2>1 DEF SessionInv, DoomedOK
  <2>3. x.base \notin BasesOf(files[f]) \ BasesOf(R)
    <3>1. CASE g = f
      BY <1>1, <3>1 DEF BasesOf
    <3>2. CASE g # f
      <4>1. \A y \in files[f] : y.base # x.base
        BY <2>1, <3>2 DEF SessionInv, DiskOK
      <4> QED
        BY <4>1 DEF BasesOf
    <3> QED
      BY <3>1, <3>2
  <2> QED
    BY <2>2, <2>3
<1> QED
  BY <1>2 DEF DoomedOK

\* Session s removes files of its mailbox.
LEMMA RemoveStep ==
    ASSUME SessionInv, NEW s \in Sessions, sess[s].st = "selected", NEW R \in SUBSET files[sess[s].sel],
           files' = [files EXCEPT ![sess[s].sel] = R], Forget(sess[s].sel), UNCHANGED <<there, order, born>>,
           NEW w, NEW t, Set(s, w), Tell(s, t, Disturbed(s, sess[s].sel)),
           SessionOK(w, born), w.op = NoOp,
           w.st = "selected" /\ t # Lost => InStep(w, t, files', order)
    PROVE  SessionInv'
<1> DEFINE f == sess[s].sel
           D == Disturbed(s, f)
<1>1. f \in Folders /\ DiskOK /\ files \in [Folders -> SUBSET Files]
  BY SessionFacts DEF SessionOK, SessionInv, DiskOK
<1>2. files'[f] = R /\ (\A g \in Folders \ {f} : files'[g] = files[g])
  BY <1>1
<1>3. /\ doomed' = doomed \ (BasesOf(files[f]) \ BasesOf(R))
      /\ copied' = copied \ (BasesOf(files[f]) \ BasesOf(R))
  BY <1>2 DEF Forget
<1>4. D = {c \in Sessions \ {s} : sess[c].sel = f /\ ~(files[f] \subseteq files'[f])}
  BY DEF Disturbed
<1>5. R \in SUBSET files[f] /\ files' = [files EXCEPT ![f] = R] /\ Tell(s, t, D)
  OBVIOUS
<1> HIDE DEF f, D
<1>6. DiskStep
  BY <1>1, <1>3, <1>5, DiskRemoved
<1>7. DoomedOK'
  BY <1>1, <1>3, <1>5, DoomedRemoved
<1>8. \A c \in Sessions \ {s} : \/ c \in D \/ sess[c].st # "selected"
                                 \/ files[sess[c].sel] \subseteq files'[sess[c].sel]
  <2>1. \A c \in Sessions : sess[c].st = "selected" => sess[c].sel \in Folders
    BY DEF SessionInv, SessionsOK, SessionOK
  <2> QED
    BY <1>2, <1>4, <2>1
<1>9. SourcesOK(w, copied', files') /\ SessionOK(w, born')
  BY DEF SourcesOK
<1>10. w.st = "selected" /\ t # Lost /\ s \notin D => InStep(w, t, files', order')
  OBVIOUS
<1> QED
  BY <1>5, <1>6, <1>7, <1>8, <1>9, <1>10, SessionStep

\* The files a failing Expunge has removed.
LEMMA ExpungeStopsFacts ==
    ASSUME SessionInv, NEW s \in Sessions, sess[s].st = "selected", NEW r, NEW t, ExpungeStops(s, r, t)
    PROVE  /\ \E R \in SUBSET files[sess[s].sel] : files' = [files EXCEPT ![sess[s].sel] = R]
           /\ Forget(sess[s].sel) /\ UNCHANGED <<there, order, born>> /\ Set(s, r)
           /\ Tell(s, t, Disturbed(s, sess[s].sel))
<1> DEFINE f == sess[s].sel
           v == sess[s].view
<1>1. PICK i \in 0..(Len(v) - 1) : files' = [files EXCEPT ![f] = Removed(files[f], Condemned(SubSeq(v, 1, i)))]
  BY DEF ExpungeStops
<1>2. Removed(files[f], Condemned(SubSeq(v, 1, i))) \in SUBSET files[f]
  BY DEF Removed
<1>3. /\ Forget(f) /\ UNCHANGED <<there, order, born>> /\ Set(s, r) /\ Tell(s, t, Disturbed(s, f))
  BY DEF ExpungeStops
<1> QED
  BY <1>1, <1>2, <1>3

\* The files an Expunge has removed.
LEMMA ExpungesFacts ==
    ASSUME SessionInv, NEW s \in Sessions, sess[s].st = "selected", NEW r, NEW t, Expunges(s, r, t)
    PROVE  /\ files' = [files EXCEPT ![sess[s].sel] = files[sess[s].sel] \ Condemned(sess[s].view)]
           /\ Forget(sess[s].sel) /\ UNCHANGED <<there, order, born>> /\ Set(s, r)
           /\ Tell(s, t, Disturbed(s, sess[s].sel))
<1> DEFINE f == sess[s].sel
           v == sess[s].view
           F == files[f]
           C == Condemned(v)
<1>1. v \in Seq(Files)
  BY SessionFacts DEF SessionRecords
<1>2. C \in SUBSET Files
  BY <1>1 DEF Condemned, RangeOf
<1>3. /\ files' = [files EXCEPT ![f] = Removed(F, C)]
      /\ Forget(f) /\ UNCHANGED <<there, order, born>> /\ Set(s, r) /\ Tell(s, t, Disturbed(s, f))
  BY DEF Expunges
<1> HIDE DEF C, F, f
<1>4. Removed(F, C) = F \ C
  BY <1>2, RemovedFacts
<1> QED
  BY <1>3, <1>4 DEF C, F, f

\* CLOSE, with an Expunge that may fail.
LEMMA CloseStep ==
    ASSUME SessionInv, NEW s \in Sessions, Close(s)
    PROVE  SessionInv'
<1> DEFINE w == Unselected(sess[s])
           f == sess[s].sel
<1>1. /\ sess[s] \in SessionRecords /\ sess[s].op = NoOp /\ sess[s].read = NoRead
      /\ sess[s].st = "selected"
  BY SessionFacts DEF Close, Selected, Ready
<1>2. SessionOK(w, born) /\ w.st = "auth" /\ w.op = NoOp /\ SourcesOK(w, copied, files)
  BY <1>1, UnselectedFacts DEF Unselected, SessionRecords
<1> HIDE DEF w
<1>3. CASE Expunges(s, w, <<>>)
  <2>1. /\ files' = [files EXCEPT ![f] = files[f] \ Condemned(sess[s].view)]
        /\ Forget(f) /\ UNCHANGED <<there, order, born>> /\ Set(s, w) /\ Tell(s, <<>>, Disturbed(s, f))
    BY <1>1, <1>3, ExpungesFacts
  <2>2. PICK R \in SUBSET files[f] : files' = [files EXCEPT ![f] = R]
    BY <2>1
  <2> QED
    BY <1>1, <1>2, <2>1, <2>2, RemoveStep
<1>4. CASE ExpungeStops(s, w, <<>>)
  <2>1. /\ \E R \in SUBSET files[f] : files' = [files EXCEPT ![f] = R]
        /\ Forget(f) /\ UNCHANGED <<there, order, born>> /\ Set(s, w) /\ Tell(s, <<>>, Disturbed(s, f))
    BY <1>1, <1>4, ExpungeStopsFacts
  <2>2. PICK R \in SUBSET files[f] : files' = [files EXCEPT ![f] = R]
    BY <2>1
  <2> QED
    BY <1>1, <1>2, <2>1, <2>2, RemoveStep
<1>5. CASE Set(s, w) /\ Tell(s, <<>>, {}) /\ UNCHANGED <<diskVars, events, doomed, copied>>
  BY <1>2, <1>5, SessionOnly
<1> QED
  BY <1>3, <1>4, <1>5 DEF Close, w

\* The client that hears EXPUNGE for the messages the session removes stays in
\* step: the numbers it has left are those of the session's view, and the list
\* begins with them.
LEMMA ExpungedInStep ==
    ASSUME NEW view \in Seq(Files), NEW F \in SUBSET Files, \A x, y \in F : x.base = y.base => x = y,
           RangeOf(view) \subseteq F, NEW l \in Seq(Bases), NEW gone,
           gone = {i \in DOMAIN view : Deleted \in view[i].fl},
           Numbers(view) # Lost, StartsWith(Listed(l, F), Numbers(view))
    PROVE  /\ HeardExpunges(Numbers(view), gone) = Numbers(Remaining(view))
           /\ RangeOf(Remaining(view)) \subseteq F \ Condemned(view)
           /\ StartsWith(Listed(l, F \ Condemned(view)), Numbers(Remaining(view)))
<1> DEFINE C == Condemned(view)
           V == RangeOf(view)
           E == V \ C
           G == F \ C
           B == BasesOf(F)
           A == BasesOf(G)
           n == Numbers(view)
           m == Listed(l, F)
           r == Remaining(view)
<1>1. \A k \in DOMAIN view : view[k] \in V /\ (view[k] \in C <=> Deleted \in view[k].fl)
  BY DEF Condemned, RangeOf
<1>2. \A k \in 1..Len(view) : k \in gone <=> view[k] \notin E
  BY <1>1
<1>3. r = Keeping(view, E)
  BY DEF Remaining
<1>4. view \in Seq(V)
  BY DEF RangeOf
<1>5. n \in Seq(Bases) /\ m \in Seq(Bases) /\ StartsWith(m, n)
  BY NumbersType, ListedType
<1>6. m = Keeping(l, B) /\ Listed(l, G) = Keeping(l, A)
  BY DEF Listed
<1>7. A \subseteq B
  BY DEF BasesOf
<1>8. \A e \in V : e \in E <=> e.base \in A
  <2> SUFFICES ASSUME NEW e \in V, e.base \in A PROVE e \notin C
    BY DEF BasesOf
  <2>1. PICK x \in G : x.base = e.base
    BY DEF BasesOf
  <2>2. x = e
    BY <2>1
  <2> QED
    BY <2>1, <2>2
<1>9. V \in SUBSET Files
  OBVIOUS
<1> HIDE DEF E, A, B, m, V, r, G, C
<1>10. HeardExpunges(n, gone) = Numbers(r)
  BY <1>2, <1>3, HeardExpungesLemma
<1>11. r \in Seq(V \cap E)
  BY <1>3, <1>4, KeepType
<1>12. RangeOf(r) \subseteq F \ C
  <2>1. RangeOf(r) \subseteq V \cap E
    BY <1>11 DEF RangeOf
  <2> QED
    BY <2>1 DEF E, V
<1>13. Numbers(r) = Keeping(n, A)
  BY <1>3, <1>4, <1>8, <1>9, KeepNumbers
<1> HIDE DEF n
<1> DEFINE z == SubSeq(m, Len(n) + 1, Len(m))
<1>14. m = n \o z /\ z \in Seq(Bases)
  BY <1>5, StartsWithRest
<1> HIDE DEF z
<1>15. Keeping(m, A) = Keeping(n, A) \o Keeping(z, A)
  BY <1>5, <1>14, KeepConcat
<1>16. Keeping(l, A) = Keeping(m, A)
  BY <1>6, <1>7, KeepTwice
<1> DEFINE a == Keeping(n, A)
           b == Keeping(z, A)
<1>17. a \in Seq(Bases \cap A) /\ b \in Seq(Bases \cap A)
  BY <1>5, <1>14, KeepType
<1> HIDE DEF a, b
<1>18. StartsWith(a \o b, a)
  BY <1>17, StartsWithConcat
<1>19. StartsWith(Listed(l, G), Numbers(r))
  BY <1>6, <1>13, <1>15, <1>16, <1>18 DEF a, b
<1> QED
  BY <1>10, <1>12, <1>19 DEF n, r, G, C

\* The view after Expunge is part of the view before.
LEMMA RemainingFacts ==
    ASSUME NEW v \in Seq(Files)
    PROVE  Remaining(v) \in Seq(Files) /\ RangeOf(Remaining(v)) \subseteq RangeOf(v)
<1> DEFINE V == RangeOf(v)
           E == V \ Condemned(v)
           r == Keeping(v, E)
<1>1. v \in Seq(V)
  BY DEF RangeOf
<1>2. V \subseteq Files
  BY DEF RangeOf
<1> HIDE DEF V, E
<1>3. r \in Seq(V \cap E)
  BY <1>1, KeepType
<1> HIDE DEF r
<1>4. r \in Seq(Files) /\ RangeOf(r) \subseteq V
  BY <1>2, <1>3 DEF RangeOf
<1> QED
  BY <1>4 DEF r, E, V, Remaining

\* Expunge with its responses.
LEMMA ExpungeAndReportStep ==
    ASSUME SessionInv, NEW s \in Sessions, sess[s].st = "selected", sess[s].read = NoRead,
           ExpungeAndReport(s)
    PROVE  SessionInv'
<1> DEFINE v == sess[s]
           f == v.sel
           r == [v EXCEPT !.op = NoOp]
           gone == {i \in DOMAIN r.view : Deleted \in r.view[i].fl}
           w == [r EXCEPT !.view = Remaining(r.view)]
<1>1. Expunges(s, w, HeardExpunges(told[s], gone)) \/ ExpungeStops(s, r, Lost)
  BY DEF ExpungeAndReport
<1>2. /\ v \in SessionRecords /\ SessionOK(v, born) /\ f \in Folders
      /\ (told[s] # Lost => InStep(v, told[s], files, order))
  BY SessionFacts DEF SessionOK
<1>3. born \in Nat /\ order[f] \in Seq(Bases)
  BY <1>2 DEF SessionInv, DiskOK
<1>4. files[f] \in SUBSET Files /\ (\A x, y \in files[f] : x.base = y.base => x = y)
  BY <1>2 DEF SessionInv, DiskOK
<1>5. v.view \in Seq(Files)
  BY <1>2 DEF SessionRecords
<1>6. CASE ExpungeStops(s, r, Lost)
  <2>1. SessionOK(r, born)
    <3> HIDE DEF v
    <3> QED
      BY <1>2, <1>3, OpDone
  <2>2. r.op = NoOp
    BY <1>2 DEF SessionRecords
  <2> HIDE DEF r
  <2>3. /\ \E R \in SUBSET files[f] : files' = [files EXCEPT ![f] = R]
        /\ Forget(f) /\ UNCHANGED <<there, order, born>> /\ Set(s, r) /\ Tell(s, Lost, Disturbed(s, f))
    BY <1>6, ExpungeStopsFacts
  <2>4. PICK R \in SUBSET files[f] : files' = [files EXCEPT ![f] = R]
    BY <2>3
  <2> QED
    BY <2>1, <2>2, <2>3, <2>4, RemoveStep
<1>7. CASE Expunges(s, w, HeardExpunges(told[s], gone))
  <2> DEFINE o == told[s]
             t == HeardExpunges(o, gone)
             u == v.view
             F == files[f]
             G == F \ Condemned(u)
  <2>1. r.view = u
    BY <1>2 DEF SessionRecords
  <2>2. Remaining(u) \in Seq(Files) /\ RangeOf(Remaining(u)) \subseteq RangeOf(u)
    <3> HIDE DEF u
    <3>1. u \in Seq(Files)
      BY <1>5 DEF u
    <3> QED
      BY <3>1, RemainingFacts
  <2>3. /\ w \in SessionRecords /\ w.view = Remaining(u) /\ w.sel = f /\ w.op = NoOp /\ w.st = v.st
        /\ w.read = NoRead
    <3>0. v.read = NoRead
      OBVIOUS
    <3> HIDE DEF v
    <3>1. w = [v EXCEPT !.op = NoOp, !.view = Remaining(u)]
      BY <1>2, <2>1 DEF SessionRecords
    <3> HIDE DEF w
    <3> QED
      BY <1>2, <2>2, <3>0, <3>1 DEF SessionRecords
  <2>4. SessionOK(w, born)
    <3>1. BasesOf(RangeOf(w.view)) \subseteq 1..born
      BY <1>2, <2>2, <2>3 DEF SessionOK, BasesOf
    <3> HIDE DEF w
    <3> QED
      BY <1>2, <2>3, <3>1, NothingRead DEF SessionOK
  <2>5. /\ files' = [files EXCEPT ![f] = G]
        /\ Forget(f) /\ UNCHANGED <<there, order, born>> /\ Set(s, w) /\ Tell(s, t, Disturbed(s, f))
    <3> HIDE DEF w, gone
    <3> QED
      BY <1>7, ExpungesFacts
  <2>6. G \in SUBSET files[f]
    OBVIOUS
  <2>7. files'[f] = G
    BY <1>2, <2>5 DEF SessionInv, DiskOK
  <2>8. t # Lost => InStep(w, t, files', order)
    <3> SUFFICES ASSUME t # Lost PROVE InStep(w, t, files', order)
      OBVIOUS
    <3>1. o # Lost
      BY DEF HeardExpunges
    <3>2. o = Numbers(u) /\ RangeOf(u) \subseteq F /\ StartsWith(Listed(order[f], F), o)
      BY <1>2, <3>1 DEF InStep
    <3>3. gone = {i \in DOMAIN u : Deleted \in u[i].fl}
      BY <2>1
    <3>4. u \in Seq(Files) /\ F \in SUBSET Files /\ (\A x, y \in F : x.base = y.base => x = y)
      BY <1>4, <1>5
    <3> DEFINE l == order[f]
    <3>5. l \in Seq(Bases) /\ StartsWith(Listed(l, F), Numbers(u)) /\ Numbers(u) # Lost
      BY <1>3, <3>1, <3>2
    <3>6. t = HeardExpunges(Numbers(u), gone)
      BY <3>2
    <3> HIDE DEF l, u, F, gone, t, w, o
    <3>7. /\ HeardExpunges(Numbers(u), gone) = Numbers(Remaining(u))
          /\ RangeOf(Remaining(u)) \subseteq F \ Condemned(u)
          /\ StartsWith(Listed(l, F \ Condemned(u)), Numbers(Remaining(u)))
      BY <3>2, <3>3, <3>4, <3>5, ExpungedInStep
    <3>8. t = Numbers(w.view) /\ RangeOf(w.view) \subseteq files'[w.sel]
          /\ StartsWith(Listed(order[w.sel], files'[w.sel]), t)
      BY <2>3, <2>7, <3>6, <3>7 DEF l
    <3>9. w.read.f # w.sel
      BY <1>2, <2>3, NothingRead
    <3> QED
      BY <3>8, <3>9 DEF InStep
  <2> HIDE DEF w, t, G
  <2> QED
    BY <2>3, <2>4, <2>5, <2>6, <2>8, RemoveStep
<1> QED
  BY <1>1, <1>6, <1>7

\* EXPUNGE, UID EXPUNGE and the end of a MOVE.
LEMMA ExpungeStep ==
    ASSUME SessionInv, NEW s \in Sessions, Expunge(s) \/ MoveExpunge(s)
    PROVE  SessionInv'
<1>1. sess[s].st = "selected" /\ sess[s].read = NoRead
  <2>1. CASE Expunge(s)
    BY <2>1 DEF Expunge, Selected, Ready
  <2>2. CASE MoveExpunge(s)
    <3>1. sess[s].op # NoOp /\ sess[s].op.k = "flag"
      BY <2>2 DEF MoveExpunge, NoOp
    <3> QED
      BY <3>1, SessionFacts DEF SessionOK
  <2> QED
    BY <2>1, <2>2
<1>2. ExpungeAndReport(s)
  BY DEF Expunge, MoveExpunge
<1> QED
  BY <1>1, <1>2, ExpungeAndReportStep

\* DELETE, under whoever has the folder selected.
LEMMA DeleteFolderStep ==
    ASSUME SessionInv, NEW s \in Sessions, NEW f \in Folders, DeleteFolder(s, f)
    PROVE  SessionInv'
<1> DEFINE w == sess[s]
           t == told[s]
           D == {c \in Sessions : sess[c].sel = f}
<1>1. /\ f # Inbox /\ there' = there \ {f} /\ files' = [files EXCEPT ![f] = {}]
      /\ order' = [order EXCEPT ![f] = <<>>] /\ Forget(f) /\ Tell(s, t, D)
      /\ UNCHANGED <<born, sess, events>>
  BY DEF DeleteFolder
<1>2. DiskOK /\ files \in [Folders -> SUBSET Files] /\ sess \in [Sessions -> SessionRecords]
  BY DEF SessionInv, DiskOK, SessionsOK
<1>3. PICK R : R = {}
  OBVIOUS
<1>4. R \in SUBSET files[f] /\ files' = [files EXCEPT ![f] = R] /\ files'[f] = R
  BY <1>1, <1>2, <1>3
<1>5. /\ doomed' = doomed \ (BasesOf(files[f]) \ BasesOf(R))
      /\ copied' = copied \ (BasesOf(files[f]) \ BasesOf(R))
  BY <1>1, <1>4 DEF Forget
<1>6. DiskStep
  BY <1>1, <1>2, <1>3, <1>4, <1>5, DiskRemoved
<1>7. DoomedOK'
  BY <1>4, <1>5, DoomedRemoved
<1>8. \A c \in Sessions : \/ c \in D \/ sess[c].st # "selected"
                          \/ files[sess[c].sel] \subseteq files'[sess[c].sel]
  <2>1. \A c \in Sessions : sess[c].st = "selected" => sess[c].sel \in Folders
    BY DEF SessionInv, SessionsOK, SessionOK
  <2>2. \A g \in Folders \ {f} : files'[g] = files[g]
    BY <1>1, <1>2
  <2> QED
    BY <2>1, <2>2
<1>9. Set(s, w)
  BY <1>1, <1>2 DEF Set
<1>10. SessionOK(w, born') /\ SourcesOK(w, copied', files')
  BY <1>6, BystanderKept DEF DiskStep
<1>11. w.st = "selected" /\ t # Lost /\ s \notin D => InStep(w, t, files', order')
  <2>1. w.st = "selected" => w.sel \in Folders
    BY SessionFacts DEF SessionOK
  <2>2. w.st = "selected" /\ s \notin D => Steady(w.sel)
    BY <1>6, <1>8, <2>1 DEF DiskStep
  <2> QED
    BY <1>6, <2>2, BystanderKept DEF DiskStep
<1> HIDE DEF w, t, D
<1> QED
  BY <1>1, <1>6, <1>7, <1>8, <1>9, <1>10, <1>11, SessionStep

\* No session yet, and INBOX as it was found.
LEMMA SessionInit == Init => SessionInv
<1> SUFFICES ASSUME Init PROVE SessionInv
  OBVIOUS
<1> DEFINE F == {[base |-> b, sub |-> "cur", fl |-> {}] : b \in 1..Preloaded}
           q == [b \in 1..Preloaded |-> b]
<1>1. Preloaded \in Nat /\ MaxFiles \in Nat /\ Preloaded <= MaxFiles /\ 1..Preloaded \subseteq Bases
  BY ImapSessionAssumption DEF Bases
<1>2. files = [f \in Folders |-> IF f = Inbox THEN F ELSE {}]
      /\ order = [f \in Folders |-> IF f = Inbox THEN q ELSE <<>>] /\ born = Preloaded /\ there = {Inbox}
  BY DEF Init
<1>3. F \in SUBSET Files /\ BasesOf(F) = 1..Preloaded
  <2>1. \A x : x \in F <=> \E b \in 1..Preloaded : x = [base |-> b, sub |-> "cur", fl |-> {}]
    OBVIOUS
  <2>2. \A b \in 1..Preloaded : [base |-> b, sub |-> "cur", fl |-> {}] \in Files
    BY <1>1 DEF Files
  <2>3. \A x \in F : x \in Files /\ x.base \in 1..Preloaded
    BY <2>1, <2>2
  <2>4. ASSUME NEW b \in 1..Preloaded PROVE \E x \in F : x.base = b
    <3> DEFINE x == [base |-> b, sub |-> "cur", fl |-> {}]
    <3>1. x \in F /\ x.base = b
      OBVIOUS
    <3> QED
      BY <3>1
  <2> HIDE DEF F
  <2>5. BasesOf(F) = 1..Preloaded
    BY <2>3, <2>4 DEF BasesOf
  <2> QED
    BY <2>3, <2>5
<1>4. q \in Seq(Bases) /\ RangeOf(q) = 1..Preloaded /\ <<>> \in Seq(Bases) /\ RangeOf(<<>>) = {}
  BY <1>1 DEF RangeOf
<1>5. (\A x, y \in F : x.base = y.base => x = y) /\ (\A x \in F : x.fl = {}) /\ BasesOf({}) = {}
  BY DEF BasesOf
<1> HIDE DEF F, q
<1>6. Inbox \in Folders
  BY DEF Folders
<1>7. DiskOK
  <2>1. files \in [Folders -> SUBSET Files] /\ order \in [Folders -> Seq(Bases)]
    BY <1>2, <1>3, <1>4
  <2>2. \A f \in Folders : BasesOf(files[f]) \subseteq 1..born /\ RangeOf(order[f]) \subseteq 1..born
    BY <1>2, <1>3, <1>4, <1>5
  <2>3. \A f, g \in Folders : \A x \in files[f], y \in files[g] : x.base = y.base => f = g /\ x = y
    BY <1>2, <1>5
  <2> QED
    BY <1>1, <1>2, <1>6, <2>1, <2>2, <2>3 DEF DiskOK
<1>8. DoomedOK
  BY <1>2, <1>5 DEF DoomedOK
<1>9. sess = [c \in Sessions |-> Off] /\ told = [c \in Sessions |-> <<>>]
  BY DEF Init
<1>10. Off.op = NoOp /\ Off.view = <<>> /\ Off.st = "off" /\ Off.read = NoRead /\ Off.sel \notin Folders
  BY DEF Off, Folders, Inbox
<1>11. SessionOK(Off, born) /\ \A C, X : SourcesOK(Off, C, X)
  BY <1>10, EmptyView, NotMoving
<1>12. SessionsOK
  BY <1>9, <1>11, EmptyView DEF SessionsOK
<1>13. MovesOK /\ ClientsOK
  BY <1>9, <1>10, <1>11 DEF MovesOK, ClientsOK
<1> QED
  BY <1>7, <1>8, <1>12, <1>13 DEF SessionInv

\* Every step of every session keeps the invariant.
LEMMA SessionNext == SessionInv /\ [Next]_vars => SessionInv'
<1> SUFFICES ASSUME SessionInv, [Next]_vars PROVE SessionInv'
  OBVIOUS
<1>1. CASE UNCHANGED vars
  BY <1>1 DEF vars, diskVars, SessionInv, DiskOK, SessionsOK, DoomedOK, MovesOK, ClientsOK
<1>2. CASE Deliver
  BY <1>2, DeliverStep
<1>3. CASE Crash
  BY <1>3, CrashStep
<1>4. ASSUME NEW s \in Sessions, NEW tls \in BOOLEAN, Connect(s, tls) PROVE SessionInv'
  BY <1>4, ConnectStep
<1>5. ASSUME NEW s \in Sessions,
             \/ StartTLS(s) \/ Login(s) \/ Logout(s)
             \/ Close(s) \/ Unselect(s) \/ Expunge(s) \/ Poll(s)
             \/ AppendLists(s) \/ AppendReports(s) \/ CopyLists(s) \/ ListFails(s)
             \/ MoveCopy(s) \/ MoveCopyFails(s) \/ MoveFlag(s) \/ MoveFlagFails(s) \/ MoveExpunge(s)
      PROVE  SessionInv'
  <2>1. CASE StartTLS(s) \/ Login(s) \/ Logout(s)
    BY <2>1, StartTLSStep, LoginStep, LogoutStep
  <2>2. CASE Close(s) \/ Unselect(s) \/ Expunge(s) \/ Poll(s)
    BY <2>2, CloseStep, UnselectStep, ExpungeStep, RereadsStep
  <2>3. CASE MoveCopy(s) \/ MoveCopyFails(s) \/ MoveFlag(s) \/ MoveFlagFails(s) \/ MoveExpunge(s)
    BY <2>3, MoveCopyStep, MoveFailsStep, MoveFlagStep, ExpungeStep
  <2>4. CASE AppendLists(s) \/ AppendReports(s) \/ CopyLists(s) \/ ListFails(s)
    BY <2>4, AppendListsStep, RereadsStep, CopyListsStep, MoveFailsStep
  <2> QED
    BY <1>5, <2>1, <2>2, <2>3, <2>4
<1>6. ASSUME NEW s \in Sessions, NEW f \in Folders, NEW examine \in BOOLEAN, Select(s, f, examine)
      PROVE  SessionInv'
  BY <1>6, SelectStep
<1>7. ASSUME NEW s \in Sessions, NEW f \in Folders,
             \/ StartRefresh(s, f) \/ Probe(s, f) \/ CreateFolder(s, f) \/ DeleteFolder(s, f)
             \/ AppendMessage(s, f, {Seen})
      PROVE  SessionInv'
  BY <1>7, StartRefreshStep, ProbeStep, CreateFolderStep, DeleteFolderStep, AppendMessageStep
<1>8. ASSUME NEW s \in Sessions, NEW e \in RangeOf(sess[s].view), NEW i, Fetch(s, e, {i})
      PROVE  SessionInv'
  BY <1>8, FetchStep
<1>9. ASSUME NEW s \in Sessions, NEW e \in RangeOf(sess[s].view), NEW mode \in {"+FLAGS", "-FLAGS"},
             Store(s, e, mode, {Deleted})
      PROVE  SessionInv'
  BY <1>9, StoreStep
<1>10. ASSUME NEW s \in Sessions, NEW e \in RangeOf(sess[s].view), Store(s, e, "FLAGS", {})
       PROVE  SessionInv'
  BY <1>10, StoreStep
<1>11. ASSUME NEW s \in Sessions, NEW e \in RangeOf(sess[s].view), NEW dst \in Folders, Copy(s, e, dst)
       PROVE  SessionInv'
  BY <1>11, CopyStep
<1>12. ASSUME NEW s \in Sessions, NEW run \in Runs(sess[s].view), NEW dst \in Folders, Move(s, run, dst)
       PROVE  SessionInv'
  BY <1>12, MoveStep
<1>13. Inbox \in Folders
  BY DEF Folders
<1>14. CASE Next
  BY <1>2, <1>3, <1>4, <1>5, <1>6, <1>7, <1>8, <1>9, <1>10, <1>11, <1>12, <1>13, <1>14 DEF Next
<1> QED
  BY <1>1, <1>14

\* What a step may do to the files: add some, give one another name, remove
\* some that the session flags Deleted, or remove a folder.
Adds == \A g \in Folders : files[g] \subseteq files'[g]
Renames(s, e, fl) == sess[s].st = "selected" /\ e \in RangeOf(sess[s].view) /\ \E op : SetFlags(s, e, fl, op)
Removes(s, C) ==
    /\ sess[s].st = "selected" /\ ~sess[s].ro /\ C \subseteq Condemned(sess[s].view)
    /\ files' = [files EXCEPT ![sess[s].sel] = files[sess[s].sel] \ C]
    /\ \E r : Set(s, r)
Drops(f) == files' = [files EXCEPT ![f] = {}] /\ f \notin there'

FileStep ==
    \/ Adds
    \/ \E s \in Sessions, e \in Files, fl \in SUBSET {Seen, Deleted} : Renames(s, e, fl)
    \/ \E s \in Sessions, C \in SUBSET Files : Removes(s, C)
    \/ \E f \in Folders : Drops(f)

\* Views hold file names.
LEMMA ViewInFiles ==
    ASSUME SessionInv, NEW s \in Sessions
    PROVE  RangeOf(sess[s].view) \subseteq Files /\ sess[s].view \in Seq(Files)
<1>1. sess[s].view \in Seq(Files)
  BY SessionFacts DEF SessionRecords
<1> QED
  BY <1>1 DEF RangeOf

\* The beginning of a view condemns no more than the view.
LEMMA CondemnedFacts ==
    ASSUME NEW v \in Seq(Files), NEW i \in 0..(Len(v) - 1)
    PROVE  Condemned(SubSeq(v, 1, i)) \subseteq Condemned(v) /\ Condemned(v) \subseteq Files
<1>1. RangeOf(SubSeq(v, 1, i)) \subseteq RangeOf(v)
  <2>1. \A k \in DOMAIN SubSeq(v, 1, i) : SubSeq(v, 1, i)[k] = v[k] /\ k \in DOMAIN v
    OBVIOUS
  <2> QED
    BY <2>1 DEF RangeOf
<1>2. RangeOf(v) \subseteq Files
  BY DEF RangeOf
<1> QED
  BY <1>1, <1>2 DEF Condemned

\* Expunge removes Deleted files only, whether it comes to its end or not.
LEMMA ExpungeRemoves ==
    ASSUME SessionInv, NEW s \in Sessions, sess[s].st = "selected", ~sess[s].ro, NEW r, NEW t,
           Expunges(s, r, t) \/ ExpungeStops(s, r, t)
    PROVE  FileStep
<1> DEFINE f == sess[s].sel
           v == sess[s].view
           F == files[f]
<1>1. v \in Seq(Files)
  BY ViewInFiles
<1>2. CASE Expunges(s, r, t)
  <2>1. files' = [files EXCEPT ![f] = F \ Condemned(v)] /\ Set(s, r)
    BY <1>2, ExpungesFacts
  <2>2. Condemned(v) \in SUBSET Files
    BY <1>1 DEF Condemned, RangeOf
  <2>3. Removes(s, Condemned(v))
    BY <2>1 DEF Removes
  <2> QED
    BY <2>2, <2>3 DEF FileStep
<1>3. CASE ExpungeStops(s, r, t)
  <2>1. PICK i \in 0..(Len(v) - 1) : files' = [files EXCEPT ![f] = Removed(F, Condemned(SubSeq(v, 1, i)))]
    BY <1>3 DEF ExpungeStops
  <2> DEFINE C == Condemned(SubSeq(v, 1, i))
  <2>2. C \subseteq Condemned(v) /\ C \in SUBSET Files
    <3> HIDE DEF v
    <3> QED
      BY <1>1, <2>1, CondemnedFacts
  <2>3. Set(s, r)
    BY <1>3 DEF ExpungeStops
  <2> HIDE DEF C
  <2>4. files' = [files EXCEPT ![f] = Removed(F, C)]
    BY <2>1 DEF C
  <2>5. Removed(F, C) = F \ C
    <3> HIDE DEF F
    <3> QED
      BY <2>2, RemovedFacts
  <2>6. Removes(s, C)
    BY <2>2, <2>3, <2>4, <2>5 DEF Removes
  <2> QED
    BY <2>2, <2>6 DEF FileStep
<1> QED
  BY <1>2, <1>3

\* A message that is stored takes nothing away.
LEMMA StoresAdds ==
    ASSUME SessionInv, NEW s \in Sessions, NEW dst \in Folders, NEW fl, NEW op, Stores(s, dst, fl, op)
    PROVE  Adds
<1>1. files \in [Folders -> SUBSET Files]
  BY DEF SessionInv, DiskOK
<1>2. files' = [files EXCEPT ![dst] = files[dst] \cup {Stored(fl)}]
  BY DEF Stores
<1> QED
  BY <1>1, <1>2 DEF Adds

\* Every step is of one of these kinds.
LEMMA NextFileStep == SessionInv /\ [Next]_vars => FileStep
<1> SUFFICES ASSUME SessionInv, [Next]_vars PROVE FileStep
  OBVIOUS
<1>0. files \in [Folders -> SUBSET Files] /\ Inbox \in Folders
  BY DEF SessionInv, DiskOK, Folders
<1>a. files' = files => FileStep
  BY DEF FileStep, Adds
<1>1. CASE UNCHANGED vars
  BY <1>1, <1>a DEF vars, diskVars
<1>2. CASE Deliver
  BY <1>0, <1>2 DEF Deliver, FileStep, Adds
<1>3. CASE Crash
  BY <1>3, <1>a DEF Crash, diskVars
<1>4. ASSUME NEW s \in Sessions, NEW tls \in BOOLEAN, Connect(s, tls) PROVE FileStep
  BY <1>4, <1>a DEF Connect, diskVars
<1>5. ASSUME NEW s \in Sessions, StartTLS(s) \/ Login(s) \/ Logout(s) \/ Unselect(s) PROVE FileStep
  BY <1>5, <1>a DEF StartTLS, Login, Logout, Unselect, diskVars
<1>6. ASSUME NEW s \in Sessions,
             \/ MoveCopyFails(s) \/ MoveFlagFails(s) \/ ListFails(s)
             \/ Poll(s) \/ AppendReports(s) \/ AppendLists(s) \/ CopyLists(s)
      PROVE  FileStep
  <2>1. CASE MoveCopyFails(s) \/ MoveFlagFails(s) \/ ListFails(s)
    BY <1>a, <2>1 DEF MoveCopyFails, MoveFlagFails, ListFails, diskVars
  <2>2. CASE Poll(s) \/ AppendReports(s)
    BY <1>a, <2>2 DEF Poll, AppendReports, Rereads
  <2>3. CASE AppendLists(s) \/ CopyLists(s)
    BY <1>a, <2>3 DEF AppendLists, CopyLists
  <2> QED
    BY <1>6, <2>1, <2>2, <2>3
<1>7. ASSUME NEW s \in Sessions, Close(s) PROVE FileStep
  <2>1. sess[s].st = "selected"
    BY <1>7 DEF Close, Selected
  <2>2. CASE sess[s].ro
    BY <1>7, <1>a, <2>2 DEF Close, ClosesWithExpunge, diskVars
  <2>3. CASE ~sess[s].ro
    <3>1. Expunges(s, Unselected(sess[s]), <<>>) \/ ExpungeStops(s, Unselected(sess[s]), <<>>)
      BY <1>7, <2>3 DEF Close, ClosesWithExpunge
    <3> QED
      BY <2>1, <2>3, <3>1, ExpungeRemoves
  <2> QED
    BY <2>2, <2>3
<1>8. ASSUME NEW s \in Sessions, Expunge(s) \/ MoveExpunge(s) PROVE FileStep
  <2>1. sess[s].st = "selected" /\ ~sess[s].ro
    <3>1. CASE Expunge(s)
      BY <3>1 DEF Expunge, Selected
    <3>2. CASE MoveExpunge(s)
      <4>1. sess[s].op # NoOp /\ sess[s].op.k = "flag"
        BY <3>2 DEF MoveExpunge, NoOp
      <4> QED
        BY <4>1, SessionFacts DEF SessionOK
    <3> QED
      BY <1>8, <3>1, <3>2
  <2>2. ExpungeAndReport(s)
    BY <1>8 DEF Expunge, MoveExpunge
  <2>3. \E r, t : Expunges(s, r, t) \/ ExpungeStops(s, r, t)
    BY <2>2 DEF ExpungeAndReport
  <2> QED
    BY <2>1, <2>3, ExpungeRemoves
<1>9. ASSUME NEW s \in Sessions, MoveCopy(s) PROVE FileStep
  <2>1. sess[s].op # NoOp
    BY <1>9 DEF MoveCopy, NoOp
  <2>2. sess[s].op.dst \in Folders
    BY <2>1, SessionFacts DEF SessionRecords, Ops
  <2>3. \E fl, op : Stores(s, sess[s].op.dst, fl, op)
    BY <1>9 DEF MoveCopy, CopyTo
  <2> QED
    BY <2>2, <2>3, StoresAdds DEF FileStep
<1>10. ASSUME NEW s \in Sessions, MoveFlag(s) PROVE FileStep
  <2> DEFINE e == Current(s)
             fl == e.fl \cup {Deleted}
  <2>1. sess[s].op # NoOp /\ sess[s].op.todo # <<>> /\ sess[s].op.k = "flag"
    BY <1>10 DEF MoveFlag, NoOp
  <2>2. e \in RangeOf(sess[s].view) /\ e \in Files
    BY <2>1, CurrentFacts
  <2>3. sess[s].st = "selected"
    BY <2>1, SessionFacts DEF SessionOK
  <2>4. \E op : SetFlags(s, e, fl, op)
    BY <1>10 DEF MoveFlag
  <2>5. fl \in SUBSET {Seen, Deleted}
    BY <2>2 DEF Files
  <2> HIDE DEF e, fl
  <2>6. Renames(s, e, fl)
    BY <2>2, <2>3, <2>4 DEF Renames
  <2> QED
    BY <2>2, <2>5, <2>6 DEF FileStep
<1>11. ASSUME NEW s \in Sessions, NEW f \in Folders, NEW examine \in BOOLEAN, Select(s, f, examine)
      PROVE  FileStep
  BY <1>11, <1>a DEF Select
<1>12. ASSUME NEW s \in Sessions, NEW f \in Folders, StartRefresh(s, f) \/ Probe(s, f) \/ CreateFolder(s, f)
      PROVE  FileStep
  BY <1>12, <1>a DEF StartRefresh, Probe, CreateFolder, diskVars
<1>13. ASSUME NEW s \in Sessions, NEW f \in Folders, DeleteFolder(s, f) PROVE  FileStep
  BY <1>13 DEF DeleteFolder, FileStep, Drops
<1>14. ASSUME NEW s \in Sessions, NEW f \in Folders, AppendMessage(s, f, {Seen}) PROVE  FileStep
  BY <1>14, StoresAdds DEF AppendMessage, FileStep
<1>15. ASSUME NEW s \in Sessions, NEW e \in RangeOf(sess[s].view), NEW fl, sess[s].st = "selected",
              SetFlags(s, e, fl, NoOp), fl \in SUBSET {Seen, Deleted}
       PROVE  FileStep
  <2>1. e \in Files
    BY ViewInFiles
  <2>2. Renames(s, e, fl)
    BY <1>15 DEF Renames
  <2> QED
    BY <1>15, <2>1, <2>2 DEF FileStep
<1>16. ASSUME NEW s \in Sessions, NEW e \in RangeOf(sess[s].view), NEW i, Fetch(s, e, {i})
      PROVE  FileStep
  <2>1. e \in Files
    BY ViewInFiles
  <2>2. e.fl \cup {Seen} \in SUBSET {Seen, Deleted}
    BY <2>1 DEF Files
  <2>3. sess[s].st = "selected" /\ SetFlags(s, e, e.fl \cup {Seen}, NoOp)
    BY <1>16 DEF Fetch, Selected
  <2> QED
    BY <1>15, <2>2, <2>3
<1>17. ASSUME NEW s \in Sessions, NEW e \in RangeOf(sess[s].view), NEW mode \in {"FLAGS", "+FLAGS", "-FLAGS"},
             NEW g \in SUBSET {Seen, Deleted}, Store(s, e, mode, g)
      PROVE  FileStep
  <2>1. e \in Files
    BY ViewInFiles
  <2>2. Wanted(e, mode, g) \in SUBSET {Seen, Deleted}
    <3>1. e.fl \in SUBSET {Seen, Deleted}
      BY <2>1 DEF Files
    <3>2. mode = "FLAGS" => Wanted(e, mode, g) = g
      BY DEF Wanted
    <3>3. mode = "+FLAGS" => Wanted(e, mode, g) = e.fl \cup g
      BY DEF Wanted
    <3>4. mode = "-FLAGS" => Wanted(e, mode, g) = e.fl \ g
      BY DEF Wanted
    <3> QED
      BY <3>1, <3>2, <3>3, <3>4
  <2>3. sess[s].st = "selected" /\ SetFlags(s, e, Wanted(e, mode, g), NoOp)
    BY <1>17 DEF Store, Selected
  <2> QED
    BY <1>15, <2>2, <2>3
<1>18. ASSUME NEW s \in Sessions, NEW e \in RangeOf(sess[s].view), NEW mode \in {"+FLAGS", "-FLAGS"},
             Store(s, e, mode, {Deleted})
      PROVE  FileStep
  BY <1>17, <1>18
<1>19. ASSUME NEW s \in Sessions, NEW e \in RangeOf(sess[s].view), Store(s, e, "FLAGS", {})
       PROVE  FileStep
  BY <1>17, <1>19
<1>20. ASSUME NEW s \in Sessions, NEW e \in RangeOf(sess[s].view), NEW dst \in Folders, Copy(s, e, dst)
       PROVE  FileStep
  BY <1>20, StoresAdds DEF Copy, CopyTo, FileStep
<1>21. ASSUME NEW s \in Sessions, NEW run \in Runs(sess[s].view), NEW dst \in Folders, Move(s, run, dst)
       PROVE  FileStep
  BY <1>21, <1>a DEF Move
<1>22. CASE Next
  BY <1>0, <1>2, <1>3, <1>4, <1>5, <1>6, <1>7, <1>8, <1>9, <1>10, <1>11, <1>12, <1>13, <1>14,
     <1>16, <1>18, <1>19, <1>20, <1>21, <1>22 DEF Next
<1> QED
  BY <1>1, <1>22

\* What SetFlags leaves of a folder.
LEMMA RenamesFacts ==
    ASSUME SessionInv, NEW s \in Sessions, NEW e \in Files, NEW fl \in SUBSET {Seen, Deleted}, Renames(s, e, fl)
    PROVE  /\ \A f \in Folders : BasesOf(files'[f]) = BasesOf(files[f])
           /\ \A f \in Folders : \A x \in files[f] \ files'[f] :
                x = e /\ x \in RangeOf(sess[s].view) /\ sess'[s] # sess[s]
<1> DEFINE h == sess[s].sel
           F == files[h]
           v == sess[s].view
           n == NameOf(e, fl)
<1>1. PICK op : SetFlags(s, e, fl, op)
  BY DEF Renames
<1>2. e \in RangeOf(v) /\ sess[s].st = "selected"
  BY DEF Renames
<1>3. h \in Folders /\ DiskOK /\ files' = [files EXCEPT ![h] = Renamed(F, e, fl)]
  BY <1>1, <1>2, SetFlagsFacts
<1>4. /\ files \in [Folders -> SUBSET Files] /\ F \in SUBSET Files
      /\ \A x, y \in F : x.base = y.base => x = y
  BY <1>3 DEF DiskOK
<1> HIDE DEF F, h
<1>5. /\ (e \notin F => Renamed(F, e, fl) = F) /\ (e \in F => Renamed(F, e, fl) = (F \ {e}) \cup {n})
      /\ BasesOf(Renamed(F, e, fl)) = BasesOf(F)
  BY <1>4, RenamedLemma
<1>6. files'[h] = Renamed(F, e, fl) /\ files[h] = F /\ \A f \in Folders \ {h} : files'[f] = files[f]
  BY <1>3, <1>4 DEF F
<1>7. \A f \in Folders : BasesOf(files'[f]) = BasesOf(files[f])
  BY <1>5, <1>6
<1>8. ASSUME NEW f \in Folders, NEW x \in files[f] \ files'[f]
      PROVE  x = e /\ x \in RangeOf(v) /\ sess'[s] # sess[s]
  <2>1. f = h
    BY <1>6
  <2>2. e \in F /\ x = e /\ n # e
    BY <1>5, <1>6, <2>1
  <2>3. PICK i \in DOMAIN v : v[i] = e
    BY <1>2 DEF RangeOf
  <2>4. Flagged(v, e, fl)[i] = n
    BY <2>3 DEF Flagged
  <2>5. sess'[s].view = Flagged(v, e, fl)
    <3>1. sess \in [Sessions -> SessionRecords]
      BY DEF SessionInv, SessionsOK
    <3>2. sess' = [sess EXCEPT ![s] = [sess[s] EXCEPT !.view = Flagged(v, e, fl), !.op = op]]
      BY <1>1 DEF SetFlags, Set
    <3>3. sess'[s] = [sess[s] EXCEPT !.view = Flagged(v, e, fl), !.op = op]
      BY <3>1, <3>2
    <3>4. sess[s] \in SessionRecords
      BY <3>1
    <3> HIDE DEF v
    <3> QED
      BY <3>3, <3>4 DEF SessionRecords
  <2>6. sess'[s].view # v
    BY <2>2, <2>3, <2>4, <2>5
  <2> QED
    BY <1>2, <2>2, <2>6
<1> QED
  BY <1>7, <1>8

\* What Expunge leaves, and whose session it was.
LEMMA RemovesFacts ==
    ASSUME SessionInv, NEW s \in Sessions, NEW C \in SUBSET Files, Removes(s, C)
    PROVE  /\ \A f \in Folders : files'[f] \subseteq files[f]
           /\ \A f \in Folders : \A x \in files[f] \ files'[f] : Deleted \in x.fl
           /\ \A c \in Sessions : sess'[c] # sess[c] => ~sess[c].ro
<1> DEFINE h == sess[s].sel
<1>1. files \in [Folders -> SUBSET Files] /\ h \in Folders
  BY SessionFacts DEF SessionInv, DiskOK, Removes, SessionOK
<1>2. files'[h] = files[h] \ C /\ \A f \in Folders \ {h} : files'[f] = files[f]
  BY <1>1 DEF Removes
<1>3. \A x \in C : Deleted \in x.fl
  BY DEF Removes, Condemned
<1>4. \A c \in Sessions : sess'[c] # sess[c] => c = s
  BY DEF Removes, Set, SessionInv, SessionsOK
<1>5. ~sess[s].ro
  BY DEF Removes
<1> QED
  BY <1>2, <1>3, <1>4, <1>5

\* A file that goes for good was flagged, and the flag was asked for.
LEMMA RemovalStep ==
    ASSUME SessionInv, FileStep, NEW f \in Folders \cap there', NEW x \in files[f] \ files'[f]
    PROVE  \/ x.base \in BasesOf(files'[f])
           \/ /\ Deleted \in x.fl /\ x.base \in doomed \cup copied
              /\ \A s \in Sessions : sess'[s] # sess[s] /\ sess[s].sel = f => ~sess[s].ro
<1>1. CASE Adds
  BY <1>1 DEF Adds
<1>2. ASSUME NEW s \in Sessions, NEW e \in Files, NEW fl \in SUBSET {Seen, Deleted}, Renames(s, e, fl)
      PROVE  x.base \in BasesOf(files'[f])
  BY <1>2, RenamesFacts DEF BasesOf
<1>3. ASSUME NEW s \in Sessions, NEW C \in SUBSET Files, Removes(s, C)
      PROVE  /\ Deleted \in x.fl /\ x.base \in doomed \cup copied
             /\ \A c \in Sessions : sess'[c] # sess[c] => ~sess[c].ro
  <2>1. Deleted \in x.fl /\ \A c \in Sessions : sess'[c] # sess[c] => ~sess[c].ro
    BY <1>3, RemovesFacts
  <2>2. x.base \in doomed \cup copied
    BY <2>1 DEF SessionInv, DoomedOK
  <2> QED
    BY <2>1, <2>2
<1>4. ASSUME NEW g \in Folders, Drops(g) PROVE FALSE
  BY <1>4 DEF Drops, SessionInv, DiskOK
<1> QED
  BY <1>1, <1>2, <1>3, <1>4 DEF FileStep

\* A name that changes was the name the session had.
LEMMA FlagStep ==
    ASSUME SessionInv, FileStep, NEW f \in Folders, NEW x \in files[f] \ files'[f],
           NEW y \in files'[f], x.base = y.base
    PROVE  \E s \in Sessions : sess'[s] # sess[s] /\ x \in RangeOf(sess[s].view)
<1>1. CASE Adds
  BY <1>1 DEF Adds
<1>2. ASSUME NEW s \in Sessions, NEW e \in Files, NEW fl \in SUBSET {Seen, Deleted}, Renames(s, e, fl)
      PROVE  sess'[s] # sess[s] /\ x \in RangeOf(sess[s].view)
  BY <1>2, RenamesFacts
<1>3. ASSUME NEW s \in Sessions, NEW C \in SUBSET Files, Removes(s, C)
      PROVE  FALSE
  <2>1. y \in files[f]
    BY <1>3, RemovesFacts
  <2>2. x = y
    BY <2>1 DEF SessionInv, DiskOK
  <2> QED
    BY <2>2
<1>4. ASSUME NEW g \in Folders, Drops(g) PROVE FALSE
  BY <1>4 DEF Drops, SessionInv, DiskOK
<1> QED
  BY <1>1, <1>2, <1>3, <1>4 DEF FileStep

-----------------------------------------------------------------------------
\* The invariant of the IMAP sessions: files, views, MOVEs under way and what the
\* clients know fit together after every step, whatever the sessions interleave.
THEOREM SessionsStayWell == Spec => []SessionInv
BY SessionInit, SessionNext, PTL DEF Spec

\* TypeOK: files keep their shape, a folder that is not there has none, views hold
\* file names, and only a session with a mailbox selected is in a MOVE or reports to one.
THEOREM SessionTypes == Spec => []TypeOK
<1>1. ASSUME SessionInv, NEW s \in Sessions, sess[s].op.k \in {"report", "copy", "flag"}
      PROVE  sess[s].st = "selected"
  <2>1. sess[s].op # NoOp
    BY <1>1 DEF NoOp
  <2> QED
    BY <1>1, <2>1, SessionFacts DEF SessionOK
<1>2. SessionInv => TypeOK
  BY <1>1, ViewInFiles DEF SessionInv, DiskOK, TypeOK
<1> QED
  BY <1>2, SessionsStayWell, PTL

\* NumberingAgrees, for any number of sessions and messages: as long as a client can
\* follow, its numbers mean the messages of the session's view, through EXISTS, EXPUNGE,
\* APPEND and MOVE, and through Refreshes of other sessions that come between what its
\* own has read and what it writes, unless they clash (pollAndReport, cmdExpunge).
THEOREM NumbersAgree == Spec => []NumberingAgrees
<1>1. SessionInv => NumberingAgrees
  BY DEF SessionInv, ClientsOK, InStep, NumberingAgrees
<1> QED
  BY <1>1, SessionsStayWell, PTL

\* RemovalsAskedFor: Expunge, CLOSE and MOVE remove a file only under a Deleted flag
\* that a client set or that a MOVE set after it stored a copy, never for EXAMINE.
THEOREM RemovalsAreAskedFor == Spec => RemovalsAskedFor
<1>1. SessionInv /\ [Next]_vars =>
        [\A f \in Folders \cap there' : \A x \in files[f] \ files'[f] :
            \/ x.base \in BasesOf(files'[f])
            \/ /\ Deleted \in x.fl /\ x.base \in doomed \cup copied
               /\ \A s \in Sessions :
                    sess'[s] # sess[s] /\ sess[s].sel = f => ~sess[s].ro]_vars
  BY NextFileStep, RemovalStep
<1> QED
  BY <1>1, SessionsStayWell, PTL DEF Spec, RemovalsAskedFor

\* FlagsNotLost: SetFlags renames the name the snapshot holds or fails, so a flag that
\* another session has set in the meantime is not undone.
THEOREM FlagsAreNotLost == Spec => FlagsNotLost
<1>1. SessionInv /\ [Next]_vars =>
        [\A f \in Folders : \A x \in files[f] \ files'[f] :
            (\E y \in files'[f] : x.base = y.base /\ ~(x.fl \subseteq y.fl)) =>
                \E s \in Sessions : sess'[s] # sess[s] /\ x \in RangeOf(sess[s].view)]_vars
  BY NextFileStep, FlagStep
<1> QED
  BY <1>1, SessionsStayWell, PTL DEF Spec, FlagsNotLost

-----------------------------------------------------------------------------
(***************************************************************************)
(* ImapText: texts of any length.                                          *)
(*                                                                         *)
(* The invariant is only that a text is over the alphabet of its kind      *)
(* (TextInv); each property is then a fact about what a recursive function *)
(* computes.  A recursive function is a CHOOSE: before anything can be     *)
(* said of its values it has to be shown that a function with the          *)
(* equations exists.  Recursion shows it for every definition that looks   *)
(* at points of a lower measure only, and CountRecursion for those that    *)
(* look at the point before.  The lemmas named ...Means say what is then   *)
(* known of an operator of ImapText, and the properties follow by          *)
(* induction along the text (Upwards, Downwards).                          *)
(***************************************************************************)
\* G says what the value at n is when f is what is known: it reads f only at
\* points of a lower measure, and the measure is bounded.
Local(D, V, mu, B, G) ==
    /\ mu \in [D -> Nat] /\ B \in Nat /\ \A n \in D : mu[n] < B
    /\ G \in [D -> [[D -> V] -> V]]
    /\ \A n \in D : \A f, g \in [D -> V] :
            (\A m \in D : mu[m] < mu[n] => f[m] = g[m]) => G[n][f] = G[n][g]

Solves(f, D, V, G) == f \in [D -> V] /\ \A n \in D : f[n] = G[n][f]

\* Recursion: such a definition has a solution.
LEMMA Recursion ==
    ASSUME NEW D, NEW V, NEW v0 \in V, NEW mu, NEW B, NEW G, Local(D, V, mu, B, G)
    PROVE  \E f : Solves(f, D, V, G)
<1> USE DEF Local, Solves
<1> DEFINE N == {b \in Nat : \E f \in [D -> V] : \A n \in D : mu[n] < b => f[n] = G[n][f]}
<1>1. 0 \in N
  <2>1. [n \in D |-> v0] \in [D -> V]
    OBVIOUS
  <2>2. \A n \in D : ~(mu[n] < 0)
    OBVIOUS
  <2> QED
    BY <2>1, <2>2
<1>2. ASSUME NEW b \in Nat, b \in N PROVE b + 1 \in N
  <2>1. PICK f \in [D -> V] : \A n \in D : mu[n] < b => f[n] = G[n][f]
    BY <1>2
  <2> DEFINE g == [n \in D |-> IF mu[n] = b THEN G[n][f] ELSE f[n]]
  <2>2. \A n \in D : G[n][f] \in V
    OBVIOUS
  <2>3. g \in [D -> V]
    BY <2>2
  <2>4. \A n \in D : g[n] = IF mu[n] = b THEN G[n][f] ELSE f[n]
    OBVIOUS
  <2> HIDE DEF g
  <2>5. ASSUME NEW n \in D, mu[n] < b + 1 PROVE g[n] = G[n][g]
    <3>1. \A m \in D : mu[m] < mu[n] => f[m] = g[m]
      BY <2>4, <2>5
    <3>2. G[n][f] = G[n][g]
      BY <2>3, <3>1
    <3>3. mu[n] = b \/ mu[n] < b
      <4>1. mu[n] \in Nat
        OBVIOUS
      <4>2. \A x \in Nat : x < b + 1 => x = b \/ x < b
        OBVIOUS
      <4> QED
        BY <2>5, <4>1, <4>2
    <3>4. g[n] = G[n][f]
      BY <2>1, <2>4, <3>3
    <3> QED
      BY <3>2, <3>4
  <2> QED
    BY <2>3, <2>5
<1>3. B \in N
  <2>1. Nat \subseteq N
    <3> HIDE DEF N
    <3> QED
      BY <1>1, <1>2, SetInduction
  <2> QED
    BY <2>1
<1> QED
  BY <1>3

\* Induction up to a bound.
LEMMA Upwards ==
    ASSUME NEW L \in Nat, NEW S, 0 \in S, \A n \in 1..L : n - 1 \in S => n \in S
    PROVE  \A n \in 0..L : n \in S
<1> DEFINE N == {n \in Nat : n <= L => n \in S}
<1>1. 0 \in N
  OBVIOUS
<1>2. ASSUME NEW n \in Nat, n \in N PROVE n + 1 \in N
  <2>1. CASE n + 1 <= L
    <3>1. n + 1 \in 1..L /\ (n + 1) - 1 = n /\ n \in S
      BY <1>2, <2>1
    <3>2. n + 1 \in S
      BY <3>1
    <3> QED
      BY <3>2
  <2>2. CASE ~(n + 1 <= L)
    BY <2>2
  <2> QED
    BY <2>1, <2>2
<1>3. Nat \subseteq N
  <2> HIDE DEF N
  <2> QED
    BY <1>1, <1>2, SetInduction
<1> QED
  BY <1>3

\* Induction down from a bound.
LEMMA Downwards ==
    ASSUME NEW L \in Nat, NEW S, L \in S, \A n \in 1..L : n \in S => n - 1 \in S
    PROVE  \A n \in 0..L : n \in S
<1> DEFINE T == {m \in Nat : L - m \in S}
<1>1. 0 \in T
  OBVIOUS
<1>2. \A m \in 1..L : m - 1 \in T => m \in T
  <2> SUFFICES ASSUME NEW m \in 1..L, m - 1 \in T PROVE L - m \in S
    OBVIOUS
  <2> DEFINE n == L - (m - 1)
  <2>1. n \in 1..L /\ n - 1 = L - m /\ n \in S
    OBVIOUS
  <2> QED
    BY <2>1
<1>3. \A m \in 0..L : m \in T
  <2> HIDE DEF T
  <2> QED
    BY <1>1, <1>2, Upwards
<1>4. ASSUME NEW n \in 0..L PROVE n \in S
  <2>1. L - n \in 0..L /\ L - (L - n) = n
    OBVIOUS
  <2>2. L - n \in T
    BY <1>3, <2>1
  <2> QED
    BY <2>1, <2>2
<1> QED
  BY <1>4

Kinds == {"set", "list", "search", "section", "fields", "items", "quoted", "file"}

\* What a client types is text of the alphabet its kind has.
TextInv ==
    /\ kind \in Kinds
    /\ text \in Seq(Alphabet(kind))
    /\ name \in Seq(NameChars)

\* Typing keeps to the alphabet.
LEMMA TextStays == TextSpec => []TextInv
<1>1. TextInit => TextInv
  <2> SUFFICES ASSUME TextInit PROVE TextInv
    OBVIOUS
  <2>1. kind \in Kinds
    BY DEF TextInit, Kinds
  <2>2. text \in Seq(Alphabet(kind)) /\ name \in Seq(NameChars)
    BY DEF TextInit
  <2> QED
    BY <2>1, <2>2 DEF TextInv
<1>2. TextInv /\ [TextNext]_textVars => TextInv'
  <2> SUFFICES ASSUME TextInv, [TextNext]_textVars PROVE TextInv'
    OBVIOUS
  <2>1. ASSUME NEW c \in Alphabet(kind), Type(c) PROVE TextInv'
    <3>1. kind' = kind /\ name' = name /\ text' = Append(text, c)
      BY <2>1 DEF Type
    <3>2. text' \in Seq(Alphabet(kind))
      BY <3>1 DEF TextInv
    <3>3. Alphabet(kind)' = Alphabet(kind)
      BY <3>1 DEF Alphabet
    <3> QED
      BY <3>1, <3>2, <3>3 DEF TextInv
  <2>2. ASSUME NEW c \in NameChars, NameFolder(c) PROVE TextInv'
    <3>1. kind' = kind /\ text' = text /\ name' = Append(name, c)
      BY <2>2 DEF NameFolder
    <3>2. name' \in Seq(NameChars)
      BY <3>1 DEF TextInv
    <3>3. Alphabet(kind)' = Alphabet(kind)
      BY <3>1 DEF Alphabet
    <3> QED
      BY <3>1, <3>2, <3>3 DEF TextInv
  <2>3. CASE UNCHANGED textVars
    <3>1. kind' = kind /\ text' = text /\ name' = name
      BY <2>3 DEF textVars
    <3>3. Alphabet(kind)' = Alphabet(kind)
      BY <3>1 DEF Alphabet
    <3> QED
      BY <3>1, <3>3 DEF TextInv
  <2> QED
    BY <2>1, <2>2, <2>3 DEF TextNext
<1> QED
  BY <1>1, <1>2, PTL DEF TextSpec

\* What is in a sequence is of the set it is over.
LEMMA ElementIn ==
    ASSUME NEW T, NEW q \in Seq(T)
    PROVE  \A i \in 1..Len(q) : q[i] \in T
OBVIOUS

\* Between two ends, whichever is the larger.
LEMMA Between ==
    ASSUME NEW x \in Int, NEW y \in Int, NEW n \in Int
    PROVE  ((\E z \in {x, y} : z <= n) /\ (\E z \in {x, y} : n <= z))
           <=> IF x > y THEN y <= n /\ n <= x ELSE x <= n /\ n <= y
OBVIOUS

\* A range is what is between its ends.
LEMMA SetsRight == TextInv => SetsMeanRanges
<1> SUFFICES ASSUME TextInv, kind = "set", Len(text) = 2,
                    NEW max \in 0..(MaxNum - 1), NEW n \in 1..max
             PROVE  LET ends == {IF text[i] \in {Star, MaxNum} THEN max ELSE text[i] : i \in 1..2}
                    IN Contains({ParseRange(text[1], text[2])}, n, max)
                        <=> (\E x \in ends : x <= n) /\ (\E y \in ends : n <= y)
  BY DEF SetsMeanRanges
<1> DEFINE a == text[1]
           b == text[2]
           x == IF a \in {Star, MaxNum} THEN max ELSE a
           y == IF b \in {Star, MaxNum} THEN max ELSE b
<1>0. MaxNum \in Nat /\ MaxNum > 2
  BY ImapTextAssumption
<1>1. a \in 0..MaxNum /\ b \in 0..MaxNum
  <2>1. text \in Seq(0..MaxNum)
    BY DEF TextInv, Alphabet
  <2>2. \A i \in 1..Len(text) : text[i] \in 0..MaxNum
    <3> DEFINE A == 0..MaxNum
    <3>1. text \in Seq(A)
      BY <2>1
    <3> HIDE DEF A
    <3>2. \A i \in 1..Len(text) : text[i] \in A
      BY <3>1, ElementIn
    <3> QED
      BY <3>2 DEF A
  <2>3. 1 \in 1..Len(text) /\ 2 \in 1..Len(text)
    OBVIOUS
  <2> QED
    BY <2>2, <2>3
<1>2. {IF text[i] \in {Star, MaxNum} THEN max ELSE text[i] : i \in 1..2} = {x, y}
  <2>1. 1..2 = {1, 2}
    BY <1>0
  <2> QED
    BY <2>1
<1> DEFINE px == IF a = Star THEN MaxNum ELSE a
           py == IF b = Star THEN MaxNum ELSE b
           r == IF px > py THEN <<py, px>> ELSE <<px, py>>
           lo == IF r[1] = MaxNum THEN max ELSE r[1]
           hi == IF r[2] = MaxNum THEN max ELSE r[2]
<1>3. ParseRange(text[1], text[2]) = r
  BY DEF ParseRange, ParseSeqNum
<1>4. Contains({ParseRange(text[1], text[2])}, n, max)
        <=> IF lo > hi THEN hi <= n /\ n <= lo ELSE lo <= n /\ n <= hi
  <2> HIDE DEF r
  <2>1. Contains({r}, n, max) <=> InRange(r, n, max)
    BY DEF Contains
  <2>2. InRange(r, n, max) <=> IF lo > hi THEN hi <= n /\ n <= lo ELSE lo <= n /\ n <= hi
    BY DEF InRange
  <2> QED
    BY <1>3, <2>1, <2>2
<1>5. x \in Int /\ y \in Int /\ n \in Int /\ max \in Int
  BY <1>0, <1>1
<1>6. (lo = x /\ hi = y) \/ (lo = y /\ hi = x)
  <2>1. px # MaxNum <=> a \notin {Star, MaxNum}
    BY <1>0, <1>1
  <2>2. py # MaxNum <=> b \notin {Star, MaxNum}
    BY <1>0, <1>1
  <2>3. CASE px > py
    <3>1. r[1] = py /\ r[2] = px
      BY <2>3
    <3> QED
      BY <2>1, <2>2, <3>1
  <2>4. CASE ~(px > py)
    <3>1. r[1] = px /\ r[2] = py
      BY <2>4
    <3> QED
      BY <2>1, <2>2, <3>1
  <2> QED
    BY <2>3, <2>4
<1> HIDE DEF x, y, lo, hi
<1>7. (IF lo > hi THEN hi <= n /\ n <= lo ELSE lo <= n /\ n <= hi)
        <=> IF x > y THEN y <= n /\ n <= x ELSE x <= n /\ n <= y
  BY <1>5, <1>6
<1>8. ((\E z \in {x, y} : z <= n) /\ (\E z \in {x, y} : n <= z))
           <=> IF x > y THEN y <= n /\ n <= x ELSE x <= n /\ n <= y
  BY <1>5, Between
<1> QED
  BY <1>2, <1>4, <1>7, <1>8

\* A piece of a sequence.
LEMMA Piece ==
    ASSUME NEW T, NEW q \in Seq(T), NEW a \in Nat, NEW b \in Nat, 1 <= a, a <= b + 1, b <= Len(q)
    PROVE  /\ SubSeq(q, a, b) \in Seq(T)
           /\ Len(SubSeq(q, a, b)) = (b + 1) - a
           /\ \A k \in 1..((b + 1) - a) : SubSeq(q, a, b)[k] = q[(a + k) - 1]
<1>1. \A i \in a..b : q[i] \in T
  OBVIOUS
<1>2. Len(SubSeq(q, a, b)) = (b + 1) - a
  OBVIOUS
<1>3. \A k \in 1..((b + 1) - a) : SubSeq(q, a, b)[k] = q[(a + k) - 1]
  OBVIOUS
<1>4. SubSeq(q, a, b) \in Seq(T)
  OBVIOUS
<1> QED
  BY <1>2, <1>3, <1>4

\* Sequences with the same elements are the same.
LEMMA SameSeq ==
    ASSUME NEW T, NEW p \in Seq(T), NEW q \in Seq(T), Len(p) = Len(q), \A k \in 1..Len(p) : p[k] = q[k]
    PROVE  p = q
OBVIOUS

\* Two sequences, one after the other.
LEMMA Joined ==
    ASSUME NEW T, NEW p \in Seq(T), NEW q \in Seq(T)
    PROVE  /\ p \o q \in Seq(T)
           /\ Len(p \o q) = Len(p) + Len(q)
           /\ \A k \in 1..Len(p) : (p \o q)[k] = p[k]
           /\ \A k \in 1..Len(q) : (p \o q)[Len(p) + k] = q[k]
OBVIOUS

\* One element.
LEMMA Single ==
    ASSUME NEW T, NEW x \in T
    PROVE <<x>> \in Seq(T) /\ Len(<<x>>) = 1 /\ <<x>>[1] = x
OBVIOUS

\* The two parts of a sequence make it up.
LEMMA Parts ==
    ASSUME NEW T, NEW q \in Seq(T), NEW p \in 0..Len(q)
    PROVE  SubSeq(q, 1, p) \o SubSeq(q, p + 1, Len(q)) = q
<1>1. 1 \in 1..(Len(q) + 1) /\ p \in (1 - 1)..Len(q) /\ Len(q) \in p..Len(q)
  OBVIOUS
<1>2. SubSeq(q, 1, p) \o SubSeq(q, p + 1, Len(q)) = SubSeq(q, 1, Len(q))
  BY <1>1, ConcatAdjacentSubSeq
<1> QED
  BY <1>2, SubSeqFull

\* The places a mark is at.
Places(data, mark) == {i \in 1..(Len(data) - Len(mark) + 1) : SubSeq(data, i, i + Len(mark) - 1) = mark}

\* What IndexOf finds is the first of them.
LEMMA IndexMeans ==
    ASSUME NEW T, NEW data \in Seq(T), NEW mark \in Seq(T)
    PROVE  /\ IndexOf(data, mark) = 0 => Places(data, mark) = {}
           /\ IndexOf(data, mark) # 0 =>
                /\ IndexOf(data, mark) \in Places(data, mark)
                /\ \A j \in Places(data, mark) : IndexOf(data, mark) <= j
<1> DEFINE at == Places(data, mark)
<1>1. at \subseteq Nat /\ at \subseteq Int /\ \A j \in at : j # 0
  BY DEF Places
<1>2. IndexOf(data, mark) = IF at = {} THEN 0 ELSE CHOOSE i \in at : \A j \in at : i <= j
  BY DEF IndexOf, Places
<1> HIDE DEF at
<1>3. ASSUME at # {} PROVE \E i \in at : \A j \in at : i <= j
  <2>1. PICK i \in at : \A j \in at : ~(j < i)
    BY <1>1, <1>3, LeastNat
  <2>2. \A j \in at : i <= j
    BY <1>1, <2>1
  <2> QED
    BY <2>2
<1>4. CASE at = {}
  BY <1>2, <1>4 DEF at
<1>5. CASE at # {}
  <2>1. IndexOf(data, mark) \in at /\ \A j \in at : IndexOf(data, mark) <= j
    BY <1>2, <1>3, <1>5
  <2> QED
    BY <1>1, <2>1 DEF at
<1> QED
  BY <1>4, <1>5

\* The first place is what IndexOf finds.
LEMMA IndexIs ==
    ASSUME NEW T, NEW data \in Seq(T), NEW mark \in Seq(T), NEW i \in Places(data, mark),
           \A j \in Places(data, mark) : i <= j
    PROVE  IndexOf(data, mark) = i
<1>1. IndexOf(data, mark) # 0
  BY IndexMeans
<1>2. IndexOf(data, mark) \in Places(data, mark) /\ \A j \in Places(data, mark) : IndexOf(data, mark) <= j
  BY <1>1, IndexMeans
<1>3. \A a, b \in Places(data, mark) : a \in Int /\ (a <= b /\ b <= a => a = b)
  BY DEF Places
<1> QED
  BY <1>2, <1>3

\* Cut off right after the mark, the text has the mark at its end only.
LEMMA IndexOfPrefix ==
    ASSUME NEW T, NEW data \in Seq(T), NEW mark \in Seq(T),
           NEW i \in Nat, i # 0, IndexOf(data, mark) = i,
           NEW m \in Nat, Len(mark) = m, NEW e \in Nat, e = (i + m) - 1
    PROVE  /\ Len(SubSeq(data, 1, e)) = e
           /\ IndexOf(SubSeq(data, 1, e), mark) = i
<1>1. i \in Places(data, mark) /\ \A j \in Places(data, mark) : i <= j
  BY IndexMeans
<1>2. i \in 1..(Len(data) - m + 1) /\ SubSeq(data, i, i + m - 1) = mark
  BY <1>1 DEF Places
<1>3. Len(data) \in Nat /\ e <= Len(data) /\ i + m - 1 = e
  BY <1>2
<1> DEFINE h == SubSeq(data, 1, e)
<1>4. 1 <= e + 1 /\ (e + 1) - 1 = e /\ 1 \in Nat /\ 1 <= 1
  OBVIOUS
<1>5. h \in Seq(T) /\ Len(h) = (e + 1) - 1 /\ \A k \in 1..((e + 1) - 1) : h[k] = data[(1 + k) - 1]
  BY <1>3, <1>4, Piece
<1> HIDE DEF h
<1>6. h \in Seq(T) /\ Len(h) = e /\ \A k \in 1..e : h[k] = data[k]
  <2>1. \A k \in 1..e : (1 + k) - 1 = k
    OBVIOUS
  <2> QED
    BY <1>4, <1>5, <2>1
<1>7. \A j \in 1..i : SubSeq(h, j, j + m - 1) = SubSeq(data, j, j + m - 1)
  <2> SUFFICES ASSUME NEW j \in 1..i PROVE SubSeq(h, j, j + m - 1) = SubSeq(data, j, j + m - 1)
    OBVIOUS
  <2>1. PICK d : d = j + m - 1
    OBVIOUS
  <2>2. j \in Nat /\ 1 <= j /\ d \in Nat /\ d <= e /\ d <= Len(h) /\ d <= Len(data) /\ j <= d + 1
    BY <1>3, <1>6, <2>1
  <2>3. \A k \in 1..((d + 1) - j) : (j + k) - 1 \in 1..e
    BY <2>2
  <2>4. /\ SubSeq(h, j, d) \in Seq(T)
        /\ Len(SubSeq(h, j, d)) = (d + 1) - j
        /\ \A k \in 1..((d + 1) - j) : SubSeq(h, j, d)[k] = h[(j + k) - 1]
    BY <1>6, <2>2, Piece
  <2>5. /\ SubSeq(data, j, d) \in Seq(T)
        /\ Len(SubSeq(data, j, d)) = (d + 1) - j
        /\ \A k \in 1..((d + 1) - j) : SubSeq(data, j, d)[k] = data[(j + k) - 1]
    BY <2>2, Piece
  <2> DEFINE u == SubSeq(h, j, d)
             v == SubSeq(data, j, d)
  <2>6. u \in Seq(T) /\ v \in Seq(T) /\ Len(u) = Len(v)
    BY <2>4, <2>5
  <2>7. \A k \in 1..Len(u) : u[k] = v[k]
    BY <1>6, <2>3, <2>4, <2>5
  <2> HIDE DEF u, v
  <2>8. u = v
    BY <2>6, <2>7, SameSeq
  <2> QED
    BY <2>1, <2>8 DEF u, v
<1>8. Len(h) - m + 1 = i
  BY <1>6
<1>9. i \in Places(h, mark)
  <2>1. i \in 1..(Len(h) - m + 1)
    BY <1>8
  <2> QED
    BY <1>2, <1>7, <1>8, <2>1 DEF Places
<1>10. \A j \in Places(h, mark) : i <= j
  <2> SUFFICES ASSUME NEW j \in Places(h, mark) PROVE i <= j
    OBVIOUS
  <2>1. j \in 1..i /\ SubSeq(h, j, j + m - 1) = mark
    BY <1>8 DEF Places
  <2>2. j \in 1..(Len(data) - m + 1)
    BY <1>2, <2>1
  <2>3. SubSeq(data, j, j + m - 1) = mark
    BY <1>7, <2>1
  <2>4. j \in Places(data, mark)
    BY <2>2, <2>3 DEF Places
  <2> QED
    BY <1>1, <2>4
<1>11. IndexOf(h, mark) = i
  BY <1>6, <1>9, <1>10, IndexIs
<1> QED
  BY <1>6, <1>11 DEF h

\* The header ends with the first blank line, and the body is what follows.
LEMMA SectionsRight == TextInv => HeaderEndsAtBlankLine
<1> SUFFICES ASSUME TextInv, kind = "section"
             PROVE  /\ HeaderOf(text) \o BodyOf(text) = text
                    /\ \A mark \in {CRLF2, LF2} :
                        IndexOf(text, mark) > 0 /\ (mark = LF2 => IndexOf(text, CRLF2) = 0)
                            => IndexOf(HeaderOf(text), mark) + Len(mark) - 1 = Len(HeaderOf(text))
  BY DEF HeaderEndsAtBlankLine
<1> DEFINE T == {"r", "n", "x"}
<1>1. text \in Seq(T)
  BY DEF TextInv, Alphabet
<1>2. CRLF2 \in Seq(T) /\ Len(CRLF2) = 4
  BY DEF CRLF2
<1>3. LF2 \in Seq(T) /\ Len(LF2) = 2
  BY DEF LF2
<1>4. CRLF2 # LF2
  BY <1>2, <1>3
<1> HIDE DEF T
<1>5. PICK i : i = IndexOf(text, CRLF2)
  OBVIOUS
<1>6. PICK j : j = IndexOf(text, LF2)
  OBVIOUS
<1>7. i # 0 => i \in 1..(Len(text) - 3)
  <2> SUFFICES ASSUME i # 0 PROVE i \in 1..(Len(text) - 3)
    OBVIOUS
  <2>1. i \in Places(text, CRLF2)
    BY <1>1, <1>2, <1>5, IndexMeans
  <2> QED
    BY <1>1, <1>2, <2>1 DEF Places
<1>8. j # 0 => j \in 1..(Len(text) - 1)
  <2> SUFFICES ASSUME j # 0 PROVE j \in 1..(Len(text) - 1)
    OBVIOUS
  <2>1. j \in Places(text, LF2)
    BY <1>1, <1>3, <1>6, IndexMeans
  <2> QED
    BY <1>1, <1>3, <2>1 DEF Places
<1>9. PICK p : p = SplitAt(text)
  OBVIOUS
<1>10. p = IF i > 0 THEN i + 3 ELSE IF j > 0 THEN j + 1 ELSE Len(text)
  BY <1>5, <1>6, <1>9 DEF SplitAt
<1>11. p \in 0..Len(text)
  <2>1. Len(text) \in Nat
    BY <1>1
  <2> QED
    BY <1>7, <1>8, <1>10, <2>1
<1>12. HeaderOf(text) \o BodyOf(text) = text
  <2>1. SubSeq(text, 1, p) \o SubSeq(text, p + 1, Len(text)) = text
    BY <1>1, <1>11, Parts
  <2> QED
    BY <1>9, <2>1 DEF HeaderOf, BodyOf
<1>13. ASSUME IndexOf(text, CRLF2) > 0
       PROVE  IndexOf(HeaderOf(text), CRLF2) + Len(CRLF2) - 1 = Len(HeaderOf(text))
  <2>1. i # 0 /\ p = i + 3
    BY <1>5, <1>7, <1>10, <1>13
  <2>2. i \in Nat /\ 4 \in Nat /\ p \in Nat /\ p = (i + 4) - 1
    BY <1>7, <1>11, <2>1
  <2>3. Len(SubSeq(text, 1, p)) = p /\ IndexOf(SubSeq(text, 1, p), CRLF2) = i
    <3>1. PICK m : m = 4
      OBVIOUS
    <3>2. m \in Nat /\ Len(CRLF2) = m /\ p = (i + m) - 1 /\ IndexOf(text, CRLF2) = i /\ i # 0
      BY <1>2, <1>5, <2>1, <2>2, <3>1
    <3> QED
      BY <1>1, <1>2, <2>2, <3>2, IndexOfPrefix
  <2>4. i + 4 - 1 = p
    BY <2>2
  <2> QED
    BY <1>2, <1>9, <2>3, <2>4 DEF HeaderOf
<1>14. ASSUME IndexOf(text, LF2) > 0, IndexOf(text, CRLF2) = 0
       PROVE  IndexOf(HeaderOf(text), LF2) + Len(LF2) - 1 = Len(HeaderOf(text))
  <2>1. j # 0 /\ p = j + 1
    BY <1>5, <1>6, <1>8, <1>10, <1>14
  <2>2. j \in Nat /\ 2 \in Nat /\ p \in Nat /\ p = (j + 2) - 1
    BY <1>8, <1>11, <2>1
  <2>3. Len(SubSeq(text, 1, p)) = p /\ IndexOf(SubSeq(text, 1, p), LF2) = j
    <3>1. PICK m : m = 2
      OBVIOUS
    <3>2. m \in Nat /\ Len(LF2) = m /\ p = (j + m) - 1 /\ IndexOf(text, LF2) = j /\ j # 0
      BY <1>3, <1>6, <2>1, <2>2, <3>1
    <3> QED
      BY <1>1, <1>3, <2>2, <3>2, IndexOfPrefix
  <2>4. j + 2 - 1 = p
    BY <2>2
  <2> QED
    BY <1>3, <1>9, <2>3, <2>4 DEF HeaderOf
<1> QED
  BY <1>12, <1>13, <1>14

\* The characters of a file's name.
FileChars == {"b", ":", "S", "T", "x"}

\* Where a separator is.
LEMMA ColonPlaces ==
    ASSUME NEW data \in Seq(FileChars)
    PROVE  /\ <<":">> \in Seq(FileChars)
           /\ \A i : i \in Places(data, <<":">>) <=> i \in 1..Len(data) /\ data[i] = ":"
<1>1. ":" \in FileChars
  BY DEF FileChars
<1>2. <<":">> \in Seq(FileChars) /\ Len(<<":">>) = 1
  BY <1>1, Single
<1>3. Len(data) - Len(<<":">>) + 1 = Len(data)
  BY <1>2
<1>4. ASSUME NEW i \in 1..Len(data)
      PROVE  SubSeq(data, i, i + Len(<<":">>) - 1) = <<":">> <=> data[i] = ":"
  <2>1. i + Len(<<":">>) - 1 = i
    BY <1>2
  <2>2. SubSeq(data, i, i) = <<data[i]>>
    <3>1. /\ SubSeq(data, i, i) \in Seq(FileChars)
          /\ Len(SubSeq(data, i, i)) = (i + 1) - i
          /\ \A k \in 1..((i + 1) - i) : SubSeq(data, i, i)[k] = data[(i + k) - 1]
      <4>1. i \in Nat /\ 1 <= i /\ i <= i + 1 /\ i <= Len(data)
        OBVIOUS
      <4> QED
        BY <4>1, Piece
    <3>2. (i + 1) - i = 1 /\ 1 \in 1..1 /\ (i + 1) - 1 = i
      OBVIOUS
    <3>3. SubSeq(data, i, i)[1] = data[i] /\ Len(SubSeq(data, i, i)) = 1
      BY <3>1, <3>2
    <3>4. \A q \in Seq(FileChars) : Len(q) = 1 => q = <<q[1]>>
      OBVIOUS
    <3> QED
      BY <3>1, <3>3, <3>4
  <2>3. <<data[i]>> = <<":">> <=> data[i] = ":"
    OBVIOUS
  <2> QED
    BY <2>1, <2>2, <2>3
<1>5. Places(data, <<":">>) = {i \in 1..Len(data) : SubSeq(data, i, i + Len(<<":">>) - 1) = <<":">>}
  BY <1>3 DEF Places
<1> QED
  BY <1>2, <1>4, <1>5

\* InfoAt is where the first separator is.
LEMMA InfoIs ==
    ASSUME NEW data \in Seq(FileChars), NEW i \in 1..Len(data), data[i] = ":",
           \A k \in 1..Len(data) : k < i => data[k] # ":"
    PROVE  InfoAt(data) = i
<1>1. i \in Places(data, <<":">>) /\ <<":">> \in Seq(FileChars)
  BY ColonPlaces
<1>2. \A j \in Places(data, <<":">>) : i <= j
  <2>1. \A j \in Places(data, <<":">>) : j \in 1..Len(data) /\ data[j] = ":"
    BY ColonPlaces
  <2>2. \A j \in 1..Len(data) : j < i \/ i <= j
    OBVIOUS
  <2> QED
    BY <2>1, <2>2
<1>3. IndexOf(data, <<":">>) = i
  BY <1>1, <1>2, IndexIs
<1> QED
  BY <1>3 DEF InfoAt

\* A base name has no separator in it.
LEMMA BaseNamePlain ==
    ASSUME NEW file \in Seq(FileChars)
    PROVE  BaseName(file) \in Seq(FileChars \ {":"})
<1>1. PICK i : i = IndexOf(file, <<":">>)
  OBVIOUS
<1>2. PICK e : e = InfoAt(file) - 1
  OBVIOUS
<1>3. <<":">> \in Seq(FileChars)
  BY ColonPlaces
<1>4. e \in 0..Len(file) /\ \A k \in 1..e : file[k] # ":"
  <2>1. CASE i = 0
    <3>1. Places(file, <<":">>) = {}
      BY <1>1, <1>3, <2>1, IndexMeans
    <3>2. \A k \in 1..Len(file) : file[k] # ":"
      BY <3>1, ColonPlaces
    <3>3. InfoAt(file) = Len(file) + 1
      BY <1>1, <2>1 DEF InfoAt
    <3>4. e = Len(file)
      BY <1>2, <3>3
    <3> QED
      BY <3>2, <3>4
  <2>2. CASE i # 0
    <3>1. i \in Places(file, <<":">>) /\ \A j \in Places(file, <<":">>) : i <= j
      BY <1>1, <1>3, <2>2, IndexMeans
    <3>2. i \in 1..Len(file)
      BY <3>1, ColonPlaces
    <3>3. e = i - 1
      BY <1>1, <1>2, <2>2 DEF InfoAt
    <3>4. \A k \in 1..e : k \in 1..Len(file) /\ ~(i <= k)
      BY <3>2, <3>3
    <3>5. \A k \in 1..e : file[k] # ":"
      BY <3>1, <3>4, ColonPlaces
    <3> QED
      BY <3>2, <3>3, <3>5
  <2> QED
    BY <2>1, <2>2
<1>5. \A k \in 1..e : file[k] \in FileChars \ {":"}
  <2>1. \A k \in 1..e : k \in 1..Len(file)
    BY <1>4
  <2>2. \A k \in 1..e : file[k] \in FileChars
    BY <2>1, ElementIn
  <2> QED
    BY <1>4, <2>2
<1>6. SubSeq(file, 1, e) \in Seq(FileChars \ {":"})
  <2> DEFINE D == FileChars \ {":"}
  <2>1. 1 \in Int /\ e \in Int /\ \A k \in 1..e : file[k] \in D
    BY <1>4, <1>5
  <2> HIDE DEF D
  <2>2. SubSeq(file, 1, e) \in Seq(D)
    BY <2>1, SubSeqProperties
  <2> QED
    BY <2>2 DEF D
<1> QED
  BY <1>2, <1>6 DEF BaseName

\* The letters FileName puts after the separator are those of the flags.
LEMMA LettersOf ==
    ASSUME NEW fl \in SUBSET {"S", "T"}
    PROVE  \E F \in Seq({"S", "T"}) : /\ F = Letter(fl, "S") \o Letter(fl, "T")
                                     /\ {F[k] : k \in 1..Len(F)} = fl
<1>1. CASE "S" \in fl /\ "T" \in fl
  <2>1. Letter(fl, "S") = <<"S">> /\ Letter(fl, "T") = <<"T">> /\ fl = {"S", "T"}
    BY <1>1 DEF Letter
  <2> DEFINE u == <<"S">>
             v == <<"T">>
             F == u \o v
  <2>2. u \in Seq({"S", "T"}) /\ v \in Seq({"S", "T"}) /\ Len(u) = 1 /\ Len(v) = 1 /\ u[1] = "S" /\ v[1] = "T"
    OBVIOUS
  <2> HIDE DEF u, v
  <2>3. /\ F \in Seq({"S", "T"})
        /\ Len(F) = Len(u) + Len(v)
        /\ \A k \in 1..Len(u) : F[k] = u[k]
        /\ \A k \in 1..Len(v) : F[Len(u) + k] = v[k]
    BY <2>2, Joined
  <2> HIDE DEF F
  <2>4. Len(F) = 2 /\ F[1] = "S" /\ F[2] = "T"
    BY <2>2, <2>3
  <2>5. 1..2 = {1, 2}
    OBVIOUS
  <2>6. {F[k] : k \in 1..Len(F)} = {"S", "T"}
    BY <2>4, <2>5
  <2>7. F = Letter(fl, "S") \o Letter(fl, "T")
    BY <2>1 DEF F, u, v
  <2> QED
    BY <2>1, <2>3, <2>6, <2>7
<1>2. CASE "S" \in fl /\ "T" \notin fl
  <2>1. Letter(fl, "S") = <<"S">> /\ Letter(fl, "T") = <<>> /\ fl = {"S"}
    BY <1>2 DEF Letter
  <2>2. <<"S">> \o <<>> = <<"S">>
    OBVIOUS
  <2>3. Len(<<"S">>) = 1 /\ <<"S">> \in Seq({"S", "T"})
    OBVIOUS
  <2>4. 1..1 = {1}
    OBVIOUS
  <2>5. {<<"S">>[k] : k \in {1}} = {"S"}
    OBVIOUS
  <2> QED
    BY <2>1, <2>2, <2>3, <2>4, <2>5
<1>3. CASE "S" \notin fl /\ "T" \in fl
  <2>1. Letter(fl, "S") = <<>> /\ Letter(fl, "T") = <<"T">> /\ fl = {"T"}
    BY <1>3 DEF Letter
  <2>2. <<>> \o <<"T">> = <<"T">>
    OBVIOUS
  <2>3. Len(<<"T">>) = 1 /\ <<"T">> \in Seq({"S", "T"})
    OBVIOUS
  <2>4. 1..1 = {1}
    OBVIOUS
  <2>5. {<<"T">>[k] : k \in {1}} = {"T"}
    OBVIOUS
  <2> QED
    BY <2>1, <2>2, <2>3, <2>4, <2>5
<1>4. CASE "S" \notin fl /\ "T" \notin fl
  <2>1. Letter(fl, "S") = <<>> /\ Letter(fl, "T") = <<>> /\ fl = {}
    BY <1>4 DEF Letter
  <2>2. <<>> \o <<>> = <<>>
    OBVIOUS
  <2>3. Len(<<>>) = 0 /\ <<>> \in Seq({"S", "T"})
    OBVIOUS
  <2>4. 1..0 = {}
    OBVIOUS
  <2> QED
    BY <2>1, <2>2, <2>3, <2>4
<1> QED
  BY <1>1, <1>2, <1>3, <1>4

\* A base name, the separator and letters are taken apart where they were put
\* together.
LEMMA NameSplits ==
    ASSUME NEW base \in Seq(FileChars \ {":"}), NEW F \in Seq({"S", "T"})
    PROVE  /\ BaseName((base \o <<":">>) \o F) = base
           /\ ParseFlags((base \o <<":">>) \o F) = {F[k] : k \in 1..Len(F)}
<1> DEFINE r == (base \o <<":">>) \o F
<1> HIDE DEF r
<1>1. PICK n : n = Len(base)
  OBVIOUS
<1>2. PICK m : m = Len(F)
  OBVIOUS
<1>3. n \in Nat /\ m \in Nat
  BY <1>1, <1>2
<1>4. base \in Seq(FileChars) /\ F \in Seq(FileChars)
  BY SeqMonotonic DEF FileChars
<1>5. \A k \in 1..n : base[k] \in FileChars /\ base[k] # ":"
  <2>1. \A k \in 1..Len(base) : base[k] \in FileChars \ {":"}
    BY ElementIn
  <2> QED
    BY <1>1, <2>1
<1> DEFINE p == base \o <<":">>
<1>6. p \in Seq(FileChars) /\ Len(p) = n + 1 /\ p[n + 1] = ":" /\ \A k \in 1..n : p[k] = base[k]
  <2>1. <<":">> \in Seq(FileChars) /\ Len(<<":">>) = 1 /\ <<":">>[1] = ":"
    BY Single DEF FileChars
  <2>2. /\ p \in Seq(FileChars)
        /\ Len(p) = Len(base) + Len(<<":">>)
        /\ \A k \in 1..Len(base) : p[k] = base[k]
        /\ \A k \in 1..Len(<<":">>) : p[Len(base) + k] = <<":">>[k]
    BY <1>4, <2>1, Joined
  <2> QED
    BY <1>1, <2>1, <2>2
<1> HIDE DEF p
<1>7. r = p \o F
  BY DEF p, r
<1>8. /\ r \in Seq(FileChars) /\ Len(r) = (n + 1) + m
      /\ \A k \in 1..(n + 1) : r[k] = p[k]
      /\ \A k \in 1..m : r[(n + 1) + k] = F[k]
  <2>1. /\ p \o F \in Seq(FileChars)
        /\ Len(p \o F) = Len(p) + Len(F)
        /\ \A k \in 1..Len(p) : (p \o F)[k] = p[k]
        /\ \A k \in 1..Len(F) : (p \o F)[Len(p) + k] = F[k]
    <3>1. p \in Seq(FileChars) /\ F \in Seq(FileChars)
      BY <1>4, <1>6
    <3> QED
      BY ONLY <3>1, Joined
  <2> QED
    BY <1>2, <1>6, <1>7, <2>1
<1>9. InfoAt(r) = n + 1
  <2>1. n + 1 \in 1..Len(r) /\ n + 1 \in 1..(n + 1)
    BY <1>3, <1>8
  <2>2. r[n + 1] = ":"
    BY <1>6, <1>8, <2>1
  <2>3. \A k \in 1..Len(r) : k < n + 1 => k \in 1..n /\ k \in 1..(n + 1)
    BY <1>3, <1>8
  <2>4. \A k \in 1..Len(r) : k < n + 1 => r[k] # ":"
    BY <1>5, <1>6, <1>8, <2>3
  <2> QED
    BY <1>8, <2>1, <2>2, <2>4, InfoIs
<1>10. BaseName(r) = base
  <2> DEFINE u == SubSeq(r, 1, n)
  <2>1. n <= Len(r) /\ 1 <= n + 1 /\ (n + 1) - 1 = n /\ 1 \in Nat /\ 1 <= 1
    BY <1>3, <1>8
  <2>2. u \in Seq(FileChars) /\ Len(u) = (n + 1) - 1 /\ \A k \in 1..((n + 1) - 1) : u[k] = r[(1 + k) - 1]
    BY <1>3, <1>8, <2>1, Piece
  <2> HIDE DEF u
  <2>3. \A k \in 1..n : (1 + k) - 1 = k /\ k \in 1..(n + 1)
    BY <1>3
  <2>4. Len(u) = Len(base) /\ \A k \in 1..Len(u) : u[k] = base[k]
    BY <1>1, <1>6, <1>8, <2>1, <2>2, <2>3
  <2>5. u = base
    BY <1>4, <2>2, <2>4, SameSeq
  <2>6. BaseName(r) = u
    BY <1>9, <2>1 DEF BaseName, u
  <2> QED
    BY <2>5, <2>6
<1>11. {r[i] : i \in (InfoAt(r) + 1)..Len(r)} = {F[k] : k \in 1..m}
  <2>1. ASSUME NEW i \in (InfoAt(r) + 1)..Len(r) PROVE r[i] \in {F[k] : k \in 1..m}
    <3>1. PICK k : k = i - (n + 1)
      OBVIOUS
    <3>2. k \in 1..m /\ i = (n + 1) + k
      BY <1>3, <1>8, <1>9, <3>1
    <3> QED
      BY <1>8, <3>2
  <2>2. ASSUME NEW k \in 1..m PROVE F[k] \in {r[i] : i \in (InfoAt(r) + 1)..Len(r)}
    <3>1. (n + 1) + k \in (InfoAt(r) + 1)..Len(r)
      BY <1>3, <1>8, <1>9
    <3> QED
      BY <1>8, <3>1
  <2> QED
    BY <2>1, <2>2
<1>12. {F[k] : k \in 1..m} \subseteq {"S", "T"}
  BY <1>2, ElementIn
<1>13. ParseFlags(r) = {r[i] : i \in (InfoAt(r) + 1)..Len(r)} \cap {"S", "T"}
  BY DEF ParseFlags
<1> QED
  BY <1>2, <1>10, <1>11, <1>12, <1>13 DEF r

\* A file name gives back what it was made of.
LEMMA NamesRight == TextInv => NamesCarryFlags
<1> SUFFICES ASSUME TextInv, kind = "file", NEW fl \in SUBSET {"S", "T"}
             PROVE  LET renamed == FileName(BaseName(text), fl)
                    IN BaseName(renamed) = BaseName(text) /\ ParseFlags(renamed) = fl
  BY DEF NamesCarryFlags
<1>1. text \in Seq(FileChars)
  BY DEF TextInv, Alphabet, FileChars
<1>2. PICK base : base = BaseName(text)
  OBVIOUS
<1>3. base \in Seq(FileChars \ {":"})
  BY <1>1, <1>2, BaseNamePlain
<1>4. PICK F \in Seq({"S", "T"}) : /\ F = Letter(fl, "S") \o Letter(fl, "T")
                                  /\ {F[k] : k \in 1..Len(F)} = fl
  BY LettersOf
<1>6. PICK r : r = FileName(base, fl)
  OBVIOUS
<1>7. r = (base \o <<":">>) \o F
  <2> DEFINE a == Letter(fl, "S")
             b == Letter(fl, "T")
             p == base \o <<":">>
  <2>1. a \in Seq(FileChars) /\ b \in Seq(FileChars)
    <3>1. <<"S">> \in Seq(FileChars) /\ <<"T">> \in Seq(FileChars) /\ <<>> \in Seq(FileChars)
      BY Single DEF FileChars
    <3> QED
      BY <3>1 DEF Letter
  <2>2. p \in Seq(FileChars)
    <3>1. base \in Seq(FileChars) /\ <<":">> \in Seq(FileChars)
      BY <1>3, SeqMonotonic, Single DEF FileChars
    <3> QED
      BY <3>1, Joined
  <2>3. r = (p \o a) \o b
    BY <1>6 DEF FileName
  <2> HIDE DEF a, b, p
  <2>4. (p \o a) \o b = p \o (a \o b)
    BY <2>1, <2>2, ConcatAssociative
  <2> QED
    BY <1>4, <2>3, <2>4 DEF a, b, p
<1>8. BaseName(r) = base /\ ParseFlags(r) = {F[k] : k \in 1..Len(F)}
  BY <1>3, <1>7, NameSplits
<1> QED
  BY <1>2, <1>4, <1>6, <1>8

\* H says how each value follows from the one before it, up to a bound.
Steps(L, V, H) == H \in [1..L -> [V -> V]]

\* f is the values, from v0 on.
Follows(f, L, V, v0, H) ==
    f \in [0..L -> V] /\ f[0] = v0 /\ \A n \in 1..L : f[n] = H[n][f[n - 1]]

\* There is a function of the values.
LEMMA CountRecursion ==
    ASSUME NEW L \in Nat, NEW V, NEW v0 \in V, NEW H, Steps(L, V, H)
    PROVE  \E f : Follows(f, L, V, v0, H)
<1> USE DEF Steps
<1> DEFINE D == 0..L
           mu == [n \in D |-> n]
           E == [D -> V]
           G == [n \in D |-> [f \in E |-> IF n = 0 THEN v0 ELSE H[n][f[n - 1]]]]
<1>1. \A n \in D : mu[n] \in Nat /\ mu[n] < L + 1 /\ mu[n] = n
  OBVIOUS
<1>2. mu \in [D -> Nat] /\ L + 1 \in Nat
  OBVIOUS
<1>3. \A n \in D : n # 0 => n \in 1..L /\ n - 1 \in D /\ n - 1 < n
  OBVIOUS
<1>4. \A n \in D : \A f \in E : (IF n = 0 THEN v0 ELSE H[n][f[n - 1]]) \in V
  <2> SUFFICES ASSUME NEW n \in D, NEW f \in E PROVE (IF n = 0 THEN v0 ELSE H[n][f[n - 1]]) \in V
    OBVIOUS
  <2>1. CASE n = 0
    BY <2>1
  <2>2. CASE n # 0
    <3>1. n \in 1..L /\ n - 1 \in D
      BY <1>3, <2>2
    <3> HIDE DEF D
    <3>2. f[n - 1] \in V
      BY <3>1
    <3>3. H[n] \in [V -> V]
      BY <3>1
    <3>4. H[n][f[n - 1]] \in V
      BY <3>2, <3>3
    <3> QED
      BY <2>2, <3>4
  <2> QED
    BY <2>1, <2>2
<1>5. \A n \in D : \A f \in E : G[n][f] = IF n = 0 THEN v0 ELSE H[n][f[n - 1]]
  <2> HIDE DEF E, D
  <2> QED
    OBVIOUS
<1>6. G \in [D -> [E -> V]]
  <2> HIDE DEF E, D
  <2> QED
    BY <1>4
<1> HIDE DEF D, mu, G
<1>7. \A n \in D : \A f, g \in E : (\A m \in D : mu[m] < mu[n] => f[m] = g[m]) => G[n][f] = G[n][g]
  <2> SUFFICES ASSUME NEW n \in D, NEW f \in E, NEW g \in E, \A m \in D : mu[m] < mu[n] => f[m] = g[m]
               PROVE  G[n][f] = G[n][g]
    OBVIOUS
  <2>1. CASE n = 0
    BY <1>5, <2>1
  <2>2. CASE n # 0
    <3>1. n - 1 \in D /\ mu[n - 1] < mu[n]
      BY <1>1, <1>3, <2>2
    <3>2. f[n - 1] = g[n - 1]
      BY <3>1
    <3> QED
      BY <1>5, <2>2, <3>2
  <2> QED
    BY <2>1, <2>2
<1>8. \A n \in D : mu[n] < L + 1
  BY <1>1
<1>9. \E f \in [D -> V] : \A n \in D : f[n] = G[n][f]
  <2>1. PICK B : B = L + 1
    OBVIOUS
  <2>2. B \in Nat /\ \A n \in D : mu[n] < B
    BY <1>2, <1>8, <2>1
  <2>3. Local(D, V, mu, B, G)
    BY <1>2, <1>6, <1>7, <2>2 DEF Local
  <2> HIDE DEF E
  <2>4. \E f : Solves(f, D, V, G)
    BY <2>3, Recursion
  <2> QED
    BY <2>4 DEF Solves, E
<1>10. PICK f \in [D -> V] : \A n \in D : f[n] = G[n][f]
  BY <1>9
<1>11. f[0] = v0
  <2>1. 0 \in D
    BY DEF D
  <2> QED
    BY <1>5, <1>10, <2>1
<1>12. \A n \in 1..L : n \in D /\ n # 0
  BY DEF D
<1>13. \A n \in 1..L : f[n] = H[n][f[n - 1]]
  BY <1>5, <1>10, <1>12
<1> QED
  BY <1>10, <1>11, <1>13 DEF D, Follows

\* What Kept computes, line after line.
KeepsLines(f, lines, fields, exclude) ==
    f = [k \in 0..Len(lines) |->
            IF k = 0 THEN FALSE
            ELSE IF lines[k] = Continued THEN f[k - 1]
            ELSE (lines[k] \in fields) # exclude]

\* f says which lines are kept.
Sorts(f, lines, fields, exclude) ==
    /\ f \in [0..Len(lines) -> BOOLEAN]
    /\ \A k \in 1..Len(lines) :
            /\ lines[k] = Continued => f[k] = f[k - 1]
            /\ lines[k] # Continued => (f[k] <=> (lines[k] \in fields <=> ~exclude))
    /\ Kept(lines, fields, exclude) = {k \in DOMAIN lines : f[k]}

\* Kept says of every line what the function of KeepsLines says of it.
LEMMA KeptMeans ==
    ASSUME NEW T, NEW lines \in Seq(T), NEW fields, NEW exclude \in BOOLEAN
    PROVE  \E f : Sorts(f, lines, fields, exclude)
<1> DEFINE L == Len(lines)
           H == [n \in 1..L |-> [v \in BOOLEAN |->
                    IF lines[n] = Continued THEN v ELSE (lines[n] \in fields) # exclude]]
           Ch == CHOOSE f : KeepsLines(f, lines, fields, exclude)
<1>1. L \in Nat
  OBVIOUS
<1>2. H \in [1..L -> [BOOLEAN -> BOOLEAN]]
  BY Zenon
<1>3. \A n \in 1..L : \A v \in BOOLEAN :
        H[n][v] = IF lines[n] = Continued THEN v ELSE (lines[n] \in fields) # exclude
  BY Zenon
<1> HIDE DEF L, H
<1>4. FALSE \in BOOLEAN
  BY Zenon
<1>5. PICK f \in [0..L -> BOOLEAN] : f[0] = FALSE /\ \A n \in 1..L : f[n] = H[n][f[n - 1]]
  <2>1. PICK V : V = BOOLEAN
    OBVIOUS
  <2>2. PICK v0 : v0 = FALSE
    OBVIOUS
  <2>3. v0 \in V /\ Steps(L, V, H)
    BY <1>2, <2>1, <2>2, Zenon DEF Steps
  <2>4. \E f : Follows(f, L, V, v0, H)
    BY <1>1, <2>3, CountRecursion
  <2> QED
    BY <2>1, <2>2, <2>4, Zenon DEF Follows
<1>6. \A n \in 0..L : n # 0 => n \in 1..L
  BY <1>1
<1>7. \A n \in 1..L : n - 1 \in 0..L /\ n \in 0..L /\ n # 0
  BY <1>1
<1>8. \A n \in 1..L : f[n] = IF lines[n] = Continued THEN f[n - 1] ELSE (lines[n] \in fields) # exclude
  <2>1. \A n \in 1..L : f[n - 1] \in BOOLEAN
    BY <1>7, Zenon
  <2> QED
    BY <1>3, <1>5, <2>1, Zenon
<1>9. KeepsLines(f, lines, fields, exclude)
  <2>1. f = [k \in 0..L |-> f[k]]
    BY Zenon
  <2>2. \A k \in 0..L : f[k] = IF k = 0 THEN FALSE ELSE IF lines[k] = Continued THEN f[k - 1]
                                ELSE (lines[k] \in fields) # exclude
    BY <1>5, <1>6, <1>8, Zenon
  <2>3. f = [k \in 0..L |-> IF k = 0 THEN FALSE ELSE IF lines[k] = Continued THEN f[k - 1]
                                ELSE (lines[k] \in fields) # exclude]
    BY <2>1, <2>2, Zenon
  <2> QED
    BY <2>3, Zenon DEF KeepsLines, L
<1>10. KeepsLines(Ch, lines, fields, exclude)
  BY <1>9, Zenon
<1>11. Kept(lines, fields, exclude) = {k \in DOMAIN lines : Ch[k]}
  BY DEF Kept, KeepsLines
<1> HIDE DEF Ch
<1>12. Ch = [k \in 0..L |-> IF k = 0 THEN FALSE ELSE IF lines[k] = Continued THEN Ch[k - 1]
                                ELSE (lines[k] \in fields) # exclude]
  BY <1>10, Zenon DEF KeepsLines, L
<1>13. \A k \in 0..L : Ch[k] = IF k = 0 THEN FALSE ELSE IF lines[k] = Continued THEN Ch[k - 1]
                                ELSE (lines[k] \in fields) # exclude
  BY <1>12, Zenon
<1>14. Ch[0] = FALSE
  <2>1. 0 \in 0..L
    BY <1>1
  <2> QED
    BY <1>13, <2>1, Zenon
<1>15. \A k \in 1..L : Ch[k] = IF lines[k] = Continued THEN Ch[k - 1] ELSE (lines[k] \in fields) # exclude
  BY <1>7, <1>13, Zenon
<1>16. \A k \in 0..L : k \in {n \in 0..L : Ch[n] \in BOOLEAN}
  <2> DEFINE S == {n \in 0..L : Ch[n] \in BOOLEAN}
  <2>1. 0 \in S
    <3>1. 0 \in 0..L
      BY <1>1
    <3> QED
      BY <1>14, <3>1, Zenon
  <2>2. ASSUME NEW n \in 1..L, n - 1 \in S PROVE n \in S
    <3>1. Ch[n - 1] \in BOOLEAN
      BY <2>2, Zenon
    <3>2. Ch[n] \in BOOLEAN
      BY <1>15, <3>1, Zenon
    <3> QED
      BY <1>7, <3>2, Zenon
  <2> HIDE DEF S
  <2>3. \A k \in 0..L : k \in S
    BY <1>1, <2>1, <2>2, Upwards
  <2> QED
    BY <2>3 DEF S
<1>17. Ch \in [0..L -> BOOLEAN]
  <2>1. \A k \in 0..L : Ch[k] \in BOOLEAN
    BY <1>16, Zenon
  <2>2. Ch = [k \in 0..L |-> Ch[k]]
    BY <1>12, <1>13, Zenon
  <2> QED
    BY <2>1, <2>2, Zenon
<1> QED
  <2>1. \A k \in 1..L : lines[k] = Continued => Ch[k] = Ch[k - 1]
    BY <1>15, Zenon
  <2>2. ASSUME NEW k \in 1..L, lines[k] # Continued PROVE Ch[k] <=> (lines[k] \in fields <=> ~exclude)
    <3>1. Ch[k] = ((lines[k] \in fields) # exclude)
      BY <1>15, <2>2, Zenon
    <3>2. CASE exclude
      <4>1. exclude = TRUE
        BY <3>2, Zenon
      <4>2. CASE lines[k] \in fields
        BY <3>1, <4>1, <4>2
      <4>3. CASE lines[k] \notin fields
        BY <3>1, <4>1, <4>3
      <4> QED
        BY <4>2, <4>3
    <3>3. CASE ~exclude
      <4>1. exclude = FALSE
        BY <3>3, Zenon
      <4>2. CASE lines[k] \in fields
        BY <3>1, <4>1, <4>2
      <4>3. CASE lines[k] \notin fields
        BY <3>1, <4>1, <4>3
      <4> QED
        BY <4>2, <4>3
    <3> QED
      BY <3>2, <3>3
  <2> QED
    BY <1>11, <1>17, <2>1, <2>2, Zenon DEF L, Sorts

\* A line is kept by the one list or by the other, and goes with the line it continues.
LEMMA FieldsRight == TextInv => FieldsShareHeader
<1> SUFFICES ASSUME TextInv, kind = "fields", text # <<>>, text[1] # Continued, NEW fields \in SUBSET {"a", "b"}
             PROVE  LET in == Kept(text, fields, FALSE)
                        out == Kept(text, fields, TRUE)
                    IN /\ in \cap out = {}
                       /\ in \cup out = DOMAIN text
                       /\ \A k \in DOMAIN text : text[k] = Continued => ((k \in in) <=> (k - 1 \in in))
  BY Zenon DEF FieldsShareHeader
<1>1. text \in Seq(HeaderLines)
  BY DEF TextInv, Alphabet
<1> DEFINE L == Len(text)
<1>2. L \in Nat /\ DOMAIN text = 1..L
  BY <1>1
<1>3. FALSE \in BOOLEAN /\ TRUE \in BOOLEAN
  BY Zenon
<1>4. PICK f : Sorts(f, text, fields, FALSE)
  BY <1>1, <1>3, KeptMeans, Zenon
<1>5. PICK g : Sorts(g, text, fields, TRUE)
  BY <1>1, <1>3, KeptMeans, Zenon
<1>6. /\ f \in [0..L -> BOOLEAN]
      /\ \A k \in 1..L : text[k] = Continued => f[k] = f[k - 1]
      /\ \A k \in 1..L : text[k] # Continued => (f[k] <=> text[k] \in fields)
      /\ Kept(text, fields, FALSE) = {k \in DOMAIN text : f[k]}
  BY <1>4, Zenon DEF Sorts
<1>7. /\ g \in [0..L -> BOOLEAN]
      /\ \A k \in 1..L : text[k] = Continued => g[k] = g[k - 1]
      /\ \A k \in 1..L : text[k] # Continued => (g[k] <=> text[k] \notin fields)
      /\ Kept(text, fields, TRUE) = {k \in DOMAIN text : g[k]}
  BY <1>5, Zenon DEF Sorts
<1> HIDE DEF L
<1>8. \A k \in 0..L : k # 0 => (f[k] <=> ~g[k])
  <2> DEFINE S == {k \in 0..L : k # 0 => (f[k] <=> ~g[k])}
  <2>1. 0 \in S
    <3>1. 0 \in 0..L
      BY <1>2
    <3> QED
      BY <3>1, Zenon
  <2>2. ASSUME NEW k \in 1..L, k - 1 \in S PROVE k \in S
    <3>1. k \in 0..L /\ (k = 1 \/ k - 1 # 0)
      BY <1>2
    <3>2. CASE text[k] = Continued
      <4>1. k # 1
        BY <3>2
      <4>2. f[k - 1] <=> ~g[k - 1]
        BY <2>2, <3>1, <4>1, Zenon
      <4>3. f[k] = f[k - 1] /\ g[k] = g[k - 1]
        BY <1>6, <1>7, <3>2, Zenon
      <4> QED
        BY <3>1, <4>2, <4>3, Zenon
    <3>3. CASE text[k] # Continued
      <4>1. (f[k] <=> text[k] \in fields) /\ (g[k] <=> text[k] \notin fields)
        BY <1>6, <1>7, <3>3, Zenon
      <4> QED
        BY <3>1, <4>1, Zenon
    <3> QED
      BY <3>2, <3>3, Zenon
  <2> HIDE DEF S
  <2>3. \A k \in 0..L : k \in S
    BY <1>2, <2>1, <2>2, Upwards
  <2> QED
    BY <2>3, Zenon DEF S
<1>9. \A k \in 1..L : f[k] <=> ~g[k]
  <2>1. \A k \in 1..L : k \in 0..L /\ k # 0
    BY <1>2
  <2> QED
    BY <1>8, <2>1, Zenon
<1>10. ASSUME NEW k \in 1..L, text[k] = Continued PROVE k - 1 \in 1..L /\ f[k] = f[k - 1]
  <2>1. k # 1
    BY <1>10
  <2>2. k - 1 \in 1..L
    BY <1>2, <2>1
  <2> QED
    BY <1>6, <1>10, <2>2, Zenon
<1> DEFINE in == Kept(text, fields, FALSE)
           out == Kept(text, fields, TRUE)
<1>11. \A k : k \in in <=> k \in 1..L /\ f[k]
  BY <1>2, <1>6, Zenon
<1>12. \A k : k \in out <=> k \in 1..L /\ g[k]
  BY <1>2, <1>7, Zenon
<1> HIDE DEF in, out
<1>13. in \cap out = {}
  BY <1>9, <1>11, <1>12, Zenon
<1>14. in \cup out = DOMAIN text
  BY <1>2, <1>9, <1>11, <1>12, Zenon
<1>15. \A k \in DOMAIN text : text[k] = Continued => ((k \in in) <=> (k - 1 \in in))
  BY <1>2, <1>10, <1>11, Zenon
<1> QED
  BY <1>13, <1>14, <1>15, Zenon DEF in, out

\* The characters of a string, and of a line that has one.
QuoteChars == {"a", " ", "q", "e"}

Answers == [ok : BOOLEAN, str : Seq(QuoteChars), rest : Seq(QuoteChars)]
NoAnswer == [ok |-> FALSE, str |-> <<>>, rest |-> <<>>]
Answer(s, z) == [ok |-> TRUE, str |-> s, rest |-> z]
Before(c, r) == [r EXCEPT !.str = <<c>> \o @]

\* What parseQuoted makes of the last k characters, when f is what it makes of
\* fewer.
Reads(line, k, f) ==
    IF k = 0 THEN NoAnswer
    ELSE CASE line[Len(line) - k + 1] = "q" -> Answer(<<>>, SubSeq(line, Len(line) - k + 2, Len(line)))
           [] line[Len(line) - k + 1] = "e" ->
                IF k = 1 THEN f[0] ELSE Before(line[Len(line) - k + 2], f[k - 2])
           [] OTHER -> Before(line[Len(line) - k + 1], f[k - 1])

ReadsBack(f, line) == f = [k \in 0..Len(line) |-> Reads(line, k, f)]

\* An answer with a character more is an answer.
LEMMA BeforeType ==
    ASSUME NEW c \in QuoteChars, NEW r \in Answers
    PROVE  Before(c, r) \in Answers
<1>1. <<c>> \in Seq(QuoteChars) /\ r.str \in Seq(QuoteChars)
  BY Single DEF Answers
<1>2. <<c>> \o r.str \in Seq(QuoteChars)
  BY <1>1, Joined
<1> QED
  BY <1>2 DEF Before, Answers

\* The character is in front of the string.
LEMMA BeforeAnswer ==
    ASSUME NEW c, NEW s, NEW z
    PROVE  Before(c, Answer(s, z)) = Answer(<<c>> \o s, z)
<1>1. PICK t : t = <<c>> \o s
  OBVIOUS
<1>2. PICK w : w = TRUE
  OBVIOUS
<1> DEFINE r == [ok |-> w, str |-> s, rest |-> z]
<1>3. [r EXCEPT !.str = t] = [ok |-> w, str |-> t, rest |-> z]
  OBVIOUS
<1>4. r.str = s
  OBVIOUS
<1>5. r = Answer(s, z) /\ [ok |-> w, str |-> t, rest |-> z] = Answer(t, z)
  BY <1>2 DEF Answer
<1> HIDE DEF r
<1>6. Before(c, r) = [r EXCEPT !.str = <<c>> \o r.str]
  BY DEF Before
<1> QED
  BY <1>1, <1>3, <1>4, <1>5, <1>6

\* Where the last k characters start.
LEMMA FromTheEnd ==
    ASSUME NEW line \in Seq(QuoteChars), NEW k \in 1..Len(line)
    PROVE  /\ line[Len(line) - k + 1] \in QuoteChars
           /\ k # 1 => line[Len(line) - k + 2] \in QuoteChars
           /\ SubSeq(line, Len(line) - k + 2, Len(line)) \in Seq(QuoteChars)
<1>1. PICK n : n = Len(line)
  OBVIOUS
<1>2. n \in Nat /\ k \in 1..n
  BY <1>1
<1>3. n - k + 1 \in 1..n /\ n - k + 2 \in Nat /\ (k # 1 => n - k + 2 \in 1..n)
  BY <1>2
<1>4. \A i \in 1..n : line[i] \in QuoteChars
  BY <1>1, ElementIn
<1>5. \A i \in (n - k + 2)..n : line[i] \in QuoteChars
  BY <1>2, <1>4
<1>6. SubSeq(line, n - k + 2, n) \in Seq(QuoteChars)
  <2>1. PICK m : m = n - k + 2
    OBVIOUS
  <2>2. m \in Int /\ n \in Int /\ \A i \in m..n : line[i] \in QuoteChars
    BY <1>2, <1>3, <1>5, <2>1
  <2>3. SubSeq(line, m, n) \in Seq(QuoteChars)
    BY <2>2, SubSeqProperties
  <2> QED
    BY <2>1, <2>3
<1> QED
  BY <1>1, <1>3, <1>4, <1>6

\* What is read is an answer.
LEMMA ReadsType ==
    ASSUME NEW line \in Seq(QuoteChars), NEW k \in 0..Len(line), NEW f \in [0..Len(line) -> Answers]
    PROVE  Reads(line, k, f) \in Answers
<1>0. NoAnswer \in Answers
  <2>1. <<>> \in Seq(QuoteChars) /\ FALSE \in BOOLEAN
    OBVIOUS
  <2> QED
    BY <2>1 DEF NoAnswer, Answers
<1>1. CASE k = 0
  BY <1>0, <1>1 DEF Reads
<1>2. CASE k # 0
  <2>1. k \in 1..Len(line)
    BY <1>2
  <2> DEFINE c == line[Len(line) - k + 1]
             d == line[Len(line) - k + 2]
             z == SubSeq(line, Len(line) - k + 2, Len(line))
  <2>2. c \in QuoteChars /\ (k # 1 => d \in QuoteChars) /\ z \in Seq(QuoteChars)
    BY <2>1, FromTheEnd
  <2>3. Reads(line, k, f) = CASE c = "q" -> Answer(<<>>, z)
                              [] c = "e" -> IF k = 1 THEN f[0] ELSE Before(d, f[k - 2])
                              [] OTHER -> Before(c, f[k - 1])
    BY <1>2 DEF Reads
  <2> HIDE DEF c, d, z
  <2>4. CASE c = "q"
    <3>1. <<>> \in Seq(QuoteChars) /\ TRUE \in BOOLEAN
      OBVIOUS
    <3>2. Answer(<<>>, z) \in Answers
      BY <2>2, <3>1 DEF Answer, Answers
    <3> QED
      BY <2>3, <2>4, <3>2
  <2>5. CASE c = "e"
    <3>1. c # "q"
      BY <2>5
    <3>2. CASE k = 1
      <4>1. f[0] \in Answers
        BY <2>1, <3>2
      <4> QED
        BY <2>3, <2>5, <3>1, <3>2, <4>1
    <3>3. CASE k # 1
      <4>1. k - 2 \in 0..Len(line)
        BY <2>1, <3>3
      <4>2. f[k - 2] \in Answers
        BY <4>1
      <4>3. Before(d, f[k - 2]) \in Answers
        BY <2>2, <3>3, <4>2, BeforeType
      <4> QED
        BY <2>3, <2>5, <3>1, <3>3, <4>3
    <3> QED
      BY <3>2, <3>3
  <2>6. CASE c # "q" /\ c # "e"
    <3>1. k - 1 \in 0..Len(line)
      BY <2>1
    <3>2. f[k - 1] \in Answers
      BY <3>1
    <3>3. Before(c, f[k - 1]) \in Answers
      BY <2>2, <3>2, BeforeType
    <3> QED
      BY <2>3, <2>6, <3>3
  <2> QED
    BY <2>4, <2>5, <2>6
<1> QED
  BY <1>1, <1>2

\* What is read from a place depends on the places after it only.
LEMMA ReadsLocal ==
    ASSUME NEW line, Len(line) \in Nat, NEW k \in 0..Len(line), NEW f, NEW g,
           \A m \in 0..Len(line) : m < k => f[m] = g[m]
    PROVE  Reads(line, k, f) = Reads(line, k, g)
<1>1. k # 0 => f[0] = g[0] /\ f[k - 1] = g[k - 1]
  OBVIOUS
<1>2. k # 0 /\ k # 1 => f[k - 2] = g[k - 2]
  OBVIOUS
<1> QED
  BY <1>1, <1>2 DEF Reads

\* ParseQuoted is that function's value for the whole line but its first
\* character.
LEMMA ParseMeans ==
    ASSUME NEW line \in Seq(QuoteChars)
    PROVE  \E f : ReadsBack(f, line) /\ ParseQuoted(line) = f[Len(line) - 1]
<1> DEFINE n == Len(line)
           D == 0..n
           V == Answers
           mu == [k \in D |-> k]
           G == [k \in D |-> [f \in [D -> V] |-> Reads(line, k, f)]]
           P == CHOOSE f : ReadsBack(f, line)
<1>1. n \in Nat
  OBVIOUS
<1>2. \A k \in D : mu[k] = k /\ k \in Nat /\ k < n + 1
  BY <1>1
<1>3. mu \in [D -> Nat] /\ n + 1 \in Nat
  BY <1>1
<1>4. \A k \in D : \A f \in [D -> V] : Reads(line, k, f) \in V
  BY ReadsType
<1>5. \A k \in D : \A f, g \in [D -> V] : (\A m \in D : m < k => f[m] = g[m]) => Reads(line, k, f) = Reads(line, k, g)
  <2> SUFFICES ASSUME NEW k \in D, NEW f \in [D -> V], NEW g \in [D -> V], \A m \in D : m < k => f[m] = g[m]
               PROVE  Reads(line, k, f) = Reads(line, k, g)
    OBVIOUS
  <2> QED
    BY <1>1, ReadsLocal
<1>6. PICK B : B = n + 1
  OBVIOUS
<1> HIDE DEF D, n, V
<1>7. \A k \in D : \A f \in [D -> V] : G[k][f] = Reads(line, k, f)
  OBVIOUS
<1>8. G \in [D -> [[D -> V] -> V]]
  BY <1>4
<1> HIDE DEF mu, G
<1>9. Local(D, V, mu, B, G)
  <2>1. \A k \in D : \A f, g \in [D -> V] :
            (\A m \in D : mu[m] < mu[k] => f[m] = g[m]) => G[k][f] = G[k][g]
    <3> SUFFICES ASSUME NEW k \in D, NEW f \in [D -> V], NEW g \in [D -> V],
                        \A m \in D : mu[m] < mu[k] => f[m] = g[m]
                 PROVE  G[k][f] = G[k][g]
      OBVIOUS
    <3>1. \A m \in D : m < k => f[m] = g[m]
      BY <1>2
    <3> QED
      BY <1>5, <1>7, <3>1
  <2>2. \A k \in D : mu[k] < B
    BY <1>2, <1>6
  <2> QED
    BY <1>3, <1>6, <1>8, <2>1, <2>2 DEF Local
<1>10. NoAnswer \in V
  <2>1. <<>> \in Seq(QuoteChars) /\ FALSE \in BOOLEAN
    OBVIOUS
  <2> QED
    BY <2>1 DEF NoAnswer, Answers, V
<1>11. PICK f \in [D -> V] : \A k \in D : f[k] = G[k][f]
  <2>1. \E f : Solves(f, D, V, G)
    BY <1>9, <1>10, Recursion
  <2> QED
    BY <2>1 DEF Solves
<1>12. ReadsBack(f, line)
  <2>1. \A k \in D : f[k] = Reads(line, k, f)
    BY <1>7, <1>11
  <2>2. f = [k \in D |-> f[k]]
    BY <1>11
  <2>3. f = [k \in D |-> Reads(line, k, f)]
    BY <2>1, <2>2
  <2> QED
    BY <2>3 DEF ReadsBack, D, n
<1>13. ReadsBack(P, line)
  BY <1>12
<1>14. ParseQuoted(line) = P[n - 1]
  BY DEF ParseQuoted, ReadsBack, Reads, Before, Answer, NoAnswer, n
<1> QED
  BY <1>13, <1>14 DEF n

\* What is read of a line's last characters: the end of the string ...
LEMMA ReadQuote ==
    ASSUME NEW A \in Seq(QuoteChars), NEW Z \in Seq(QuoteChars), NEW f,
           ReadsBack(f, A \o (<<"q">> \o Z))
    PROVE  f[Len(Z) + 1] = Answer(<<>>, Z)
<1> DEFINE x == <<"q">> \o Z
           line == A \o x
<1>1. <<"q">> \in Seq(QuoteChars) /\ Len(<<"q">>) = 1 /\ <<"q">>[1] = "q"
  BY Single DEF QuoteChars
<1>2. /\ x \in Seq(QuoteChars) /\ Len(x) = 1 + Len(Z) /\ x[1] = "q"
      /\ \A i \in 1..Len(Z) : x[1 + i] = Z[i]
  <2>1. /\ x \in Seq(QuoteChars)
        /\ Len(x) = Len(<<"q">>) + Len(Z)
        /\ \A i \in 1..Len(<<"q">>) : x[i] = <<"q">>[i]
        /\ \A i \in 1..Len(Z) : x[Len(<<"q">>) + i] = Z[i]
    BY <1>1, Joined
  <2> QED
    BY <1>1, <2>1
<1> HIDE DEF x
<1>3. /\ line \in Seq(QuoteChars) /\ Len(line) = Len(A) + Len(x)
      /\ \A i \in 1..Len(x) : line[Len(A) + i] = x[i]
  <2>1. A \in Seq(QuoteChars) /\ x \in Seq(QuoteChars)
    BY <1>2
  <2> QED
    BY ONLY <2>1, Joined
<1>4. f = [k \in 0..Len(line) |-> Reads(line, k, f)]
  BY DEF ReadsBack, x
<1> HIDE DEF line
<1>5. PICK n : n = Len(line)
  OBVIOUS
<1>6. PICK a : a = Len(A)
  OBVIOUS
<1>7. PICK z : z = Len(Z)
  OBVIOUS
<1>8. a \in Nat /\ z \in Nat /\ n = a + (1 + z)
  BY <1>2, <1>3, <1>5, <1>6, <1>7
<1>9. z + 1 \in 0..n /\ z + 1 # 0 /\ n - (z + 1) + 1 = a + 1 /\ n - (z + 1) + 2 = a + 2
  BY <1>8
<1>10. f[z + 1] = Reads(line, z + 1, f)
  BY <1>4, <1>5, <1>9
<1>11. line[a + 1] = "q" /\ \A i \in 1..z : line[a + (1 + i)] = Z[i]
  <2>1. 1 \in 1..Len(x) /\ \A i \in 1..z : 1 + i \in 1..Len(x)
    BY <1>2, <1>7, <1>8
  <2>2. line[a + 1] = x[1] /\ \A i \in 1..z : line[a + (1 + i)] = x[1 + i]
    BY <1>3, <1>6, <2>1
  <2> QED
    BY <1>2, <1>7, <2>2
<1>12. SubSeq(line, a + 2, n) = Z
  <2>1. PICK b : b = a + 2
    OBVIOUS
  <2> DEFINE u == SubSeq(line, b, n)
  <2>2. b \in Nat /\ n \in Nat /\ 1 <= b /\ b <= n + 1 /\ n <= Len(line) /\ (n + 1) - b = z
    BY <1>5, <1>8, <2>1
  <2>3. u \in Seq(QuoteChars) /\ Len(u) = (n + 1) - b /\ \A i \in 1..((n + 1) - b) : u[i] = line[(b + i) - 1]
    BY <1>3, <2>2, Piece
  <2> HIDE DEF u
  <2>4. \A i \in 1..z : (b + i) - 1 = a + (1 + i)
    BY <1>8, <2>1
  <2>5. Len(u) = Len(Z) /\ \A i \in 1..Len(u) : u[i] = Z[i]
    BY <1>7, <1>11, <2>2, <2>3, <2>4
  <2>6. u = Z
    BY <2>3, <2>5, SameSeq
  <2> QED
    BY <2>1, <2>6 DEF u
<1>13. Reads(line, z + 1, f) = Answer(<<>>, SubSeq(line, a + 2, n))
  BY <1>5, <1>9, <1>11 DEF Reads
<1> QED
  BY <1>7, <1>10, <1>12, <1>13

\* ... an escaped character ...
LEMMA ReadEscaped ==
    ASSUME NEW A \in Seq(QuoteChars), NEW Z \in Seq(QuoteChars), NEW c \in QuoteChars, NEW f,
           ReadsBack(f, A \o (<<"e", c>> \o Z))
    PROVE  f[Len(Z) + 2] = Before(c, f[Len(Z)])
<1> DEFINE w == <<"e", c>>
           x == w \o Z
           line == A \o x
<1>1. w \in Seq(QuoteChars) /\ Len(w) = 2 /\ w[1] = "e" /\ w[2] = c
  <2>1. "e" \in QuoteChars
    BY DEF QuoteChars
  <2> QED
    BY <2>1
<1> HIDE DEF w
<1>2. x \in Seq(QuoteChars) /\ Len(x) = 2 + Len(Z) /\ x[1] = "e" /\ x[2] = c
  <2>1. /\ x \in Seq(QuoteChars)
        /\ Len(x) = Len(w) + Len(Z)
        /\ \A i \in 1..Len(w) : x[i] = w[i]
    BY <1>1, Joined
  <2> QED
    BY <1>1, <2>1
<1> HIDE DEF x
<1>3. /\ line \in Seq(QuoteChars) /\ Len(line) = Len(A) + Len(x)
      /\ \A i \in 1..Len(x) : line[Len(A) + i] = x[i]
  <2>1. A \in Seq(QuoteChars) /\ x \in Seq(QuoteChars)
    BY <1>2
  <2> QED
    BY ONLY <2>1, Joined
<1>4. f = [k \in 0..Len(line) |-> Reads(line, k, f)]
  BY DEF ReadsBack, x, w
<1> HIDE DEF line
<1>5. PICK n : n = Len(line)
  OBVIOUS
<1>6. PICK a : a = Len(A)
  OBVIOUS
<1>7. PICK z : z = Len(Z)
  OBVIOUS
<1>8. a \in Nat /\ z \in Nat /\ n = a + (2 + z)
  BY <1>2, <1>3, <1>5, <1>6, <1>7
<1>9. /\ z + 2 \in 0..n /\ z + 2 # 0 /\ z + 2 # 1 /\ (z + 2) - 2 = z
      /\ n - (z + 2) + 1 = a + 1 /\ n - (z + 2) + 2 = a + 2
  BY <1>8
<1>10. f[z + 2] = Reads(line, z + 2, f)
  BY <1>4, <1>5, <1>9
<1>11. line[a + 1] = "e" /\ line[a + 2] = c
  <2>1. 1 \in 1..Len(x) /\ 2 \in 1..Len(x)
    BY <1>2, <1>7, <1>8
  <2> QED
    BY <1>2, <1>3, <1>6, <2>1
<1>12. Reads(line, z + 2, f) = Before(c, f[z])
  <2>1. "e" # "q"
    OBVIOUS
  <2> QED
    BY <1>5, <1>9, <1>11, <2>1 DEF Reads
<1> QED
  BY <1>7, <1>10, <1>12

\* ... and any other.
LEMMA ReadPlain ==
    ASSUME NEW A \in Seq(QuoteChars), NEW Z \in Seq(QuoteChars), NEW c \in QuoteChars, ~Escapes(c), NEW f,
           ReadsBack(f, A \o (<<c>> \o Z))
    PROVE  f[Len(Z) + 1] = Before(c, f[Len(Z)])
<1> DEFINE w == <<c>>
           x == w \o Z
           line == A \o x
<1>1. w \in Seq(QuoteChars) /\ Len(w) = 1 /\ w[1] = c
  OBVIOUS
<1> HIDE DEF w
<1>2. x \in Seq(QuoteChars) /\ Len(x) = 1 + Len(Z) /\ x[1] = c
  <2>1. /\ x \in Seq(QuoteChars)
        /\ Len(x) = Len(w) + Len(Z)
        /\ \A i \in 1..Len(w) : x[i] = w[i]
    BY <1>1, Joined
  <2> QED
    BY <1>1, <2>1
<1> HIDE DEF x
<1>3. /\ line \in Seq(QuoteChars) /\ Len(line) = Len(A) + Len(x)
      /\ \A i \in 1..Len(x) : line[Len(A) + i] = x[i]
  <2>1. A \in Seq(QuoteChars) /\ x \in Seq(QuoteChars)
    BY <1>2
  <2> QED
    BY ONLY <2>1, Joined
<1>4. f = [k \in 0..Len(line) |-> Reads(line, k, f)]
  BY DEF ReadsBack, x, w
<1> HIDE DEF line
<1>5. PICK n : n = Len(line)
  OBVIOUS
<1>6. PICK a : a = Len(A)
  OBVIOUS
<1>7. PICK z : z = Len(Z)
  OBVIOUS
<1>8. a \in Nat /\ z \in Nat /\ n = a + (1 + z)
  BY <1>2, <1>3, <1>5, <1>6, <1>7
<1>9. z + 1 \in 0..n /\ z + 1 # 0 /\ (z + 1) - 1 = z /\ n - (z + 1) + 1 = a + 1
  BY <1>8
<1>10. f[z + 1] = Reads(line, z + 1, f)
  BY <1>4, <1>5, <1>9
<1>11. line[a + 1] = c
  <2>1. 1 \in 1..Len(x)
    BY <1>2, <1>7, <1>8
  <2> QED
    BY <1>2, <1>3, <1>6, <2>1
<1>12. c # "q" /\ c # "e"
  BY DEF Escapes
<1>13. Reads(line, z + 1, f) = Before(c, f[z])
  BY <1>5, <1>9, <1>11, <1>12 DEF Reads
<1> QED
  BY <1>7, <1>10, <1>13

\* What quote writes for one character.
Quoted(c) == IF Escapes(c) THEN <<"e", c>> ELSE <<c>>

QuotesUpTo(f, s) ==
    f = [i \in 0..Len(s) |-> IF i = 0 THEN <<"q">> ELSE f[i - 1] \o Quoted(s[i])]

\* What quote has written after i characters.
Written(Q, s) ==
    /\ Q \in [0..Len(s) -> Seq(QuoteChars)] /\ Q[0] = <<"q">>
    /\ \A i \in 1..Len(s) : Q[i] = Q[i - 1] \o Quoted(s[i])

\* Quote writes the string character after character, and closes it.
LEMMA QuoteMeans ==
    ASSUME NEW s \in Seq(QuoteChars)
    PROVE  \E Q : Written(Q, s) /\ Quote(s) = Append(Q[Len(s)], "q")
<1> DEFINE L == Len(s)
           V == Seq(QuoteChars)
           H == [i \in 1..L |-> [v \in V |-> v \o Quoted(s[i])]]
           Ch == CHOOSE f : QuotesUpTo(f, s)
<1>1. L \in Nat
  OBVIOUS
<1>2. \A i \in 1..L : Quoted(s[i]) \in V
  <2> SUFFICES ASSUME NEW i \in 1..L PROVE Quoted(s[i]) \in V
    OBVIOUS
  <2>1. PICK c : c = s[i]
    OBVIOUS
  <2>2. c \in QuoteChars /\ "e" \in QuoteChars
    BY <2>1, ElementIn DEF QuoteChars
  <2>3. <<c>> \in V /\ <<"e", c>> \in V
    BY <2>2
  <2> QED
    BY <2>1, <2>3 DEF Quoted
<1>3. <<"q">> \in V
  BY Single DEF QuoteChars
<1>4. \A u, v \in V : u \o v \in V
  BY Joined
<1> HIDE DEF V, L
<1>5. Steps(L, V, H)
  BY <1>2, <1>4 DEF Steps
<1>6. \A i \in 1..L : \A v \in V : H[i][v] = v \o Quoted(s[i])
  OBVIOUS
<1> HIDE DEF H
<1>7. PICK f : Follows(f, L, V, <<"q">>, H)
  BY <1>1, <1>3, <1>5, CountRecursion
<1>8. /\ f \in [0..L -> V] /\ f[0] = <<"q">>
      /\ \A i \in 1..L : f[i] = f[i - 1] \o Quoted(s[i])
  <2>1. \A i \in 1..L : i - 1 \in 0..L
    BY <1>1
  <2> QED
    BY <1>6, <1>7, <2>1 DEF Follows
<1>9. QuotesUpTo(f, s)
  <2>1. \A i \in 0..L : i # 0 => i \in 1..L
    BY <1>1
  <2>2. f = [i \in 0..L |-> f[i]]
    BY <1>8
  <2>3. f = [i \in 0..L |-> IF i = 0 THEN <<"q">> ELSE f[i - 1] \o Quoted(s[i])]
    BY <1>8, <2>1, <2>2
  <2> QED
    BY <2>3 DEF QuotesUpTo, L
<1>10. QuotesUpTo(Ch, s)
  BY <1>9
<1>11. Quote(s) = Append(Ch[L], "q")
  BY DEF Quote, QuotesUpTo, Quoted, L
<1> HIDE DEF Ch
<1>12. Ch = [i \in 0..L |-> IF i = 0 THEN <<"q">> ELSE Ch[i - 1] \o Quoted(s[i])]
  BY <1>10 DEF QuotesUpTo, L
<1>13. Ch[0] = <<"q">> /\ \A i \in 1..L : Ch[i] = Ch[i - 1] \o Quoted(s[i])
  <2>1. 0 \in 0..L /\ \A i \in 1..L : i \in 0..L /\ i # 0
    BY <1>1
  <2> QED
    BY <1>12, <2>1
<1>14. \A k \in 0..L : k \in {i \in 0..L : Ch[i] \in V}
  <2> DEFINE S == {i \in 0..L : Ch[i] \in V}
  <2>1. 0 \in S
    BY <1>1, <1>3, <1>13
  <2>2. ASSUME NEW n \in 1..L, n - 1 \in S PROVE n \in S
    <3>1. n \in 0..L /\ Ch[n - 1] \in V
      BY <1>1, <2>2
    <3>2. Ch[n] \in V
      BY <1>2, <1>4, <1>13, <3>1
    <3> QED
      BY <3>1, <3>2
  <2> HIDE DEF S
  <2>3. \A k \in 0..L : k \in S
    BY <1>1, <2>1, <2>2, Upwards
  <2> QED
    BY <2>3 DEF S
<1>15. Ch \in [0..L -> V]
  BY <1>12, <1>14
<1>16. Written(Ch, s)
  BY <1>13, <1>15 DEF Written, L, V
<1> QED
  BY <1>11, <1>16 DEF L

\* Concatenation is associative.
LEMMA QuoteAssoc == \A p, q, r \in Seq(QuoteChars) : (p \o q) \o r = p \o (q \o r)
BY ConcatAssociative

\* What is quoted reads back, and what is after it is left.
LEMMA QuoteBack ==
    ASSUME NEW s \in Seq(QuoteChars), NEW after \in Seq(QuoteChars)
    PROVE  ParseQuoted(Quote(s) \o after) = Answer(s, after)
<1>2. s \in Seq(QuoteChars)
  OBVIOUS
<1>3. after \in Seq(QuoteChars)
  OBVIOUS
<1>4. PICK Q : Written(Q, s) /\ Quote(s) = Append(Q[Len(s)], "q")
  BY <1>2, QuoteMeans
<1>5. PICK L : L = Len(s)
  OBVIOUS
<1>6. L \in Nat
  BY <1>2, <1>5
<1>7. /\ Q \in [0..L -> Seq(QuoteChars)] /\ Q[0] = <<"q">>
      /\ \A i \in 1..L : Q[i] = Q[i - 1] \o Quoted(s[i])
  BY <1>4, <1>5 DEF Written
<1>8. <<"q">> \in Seq(QuoteChars) /\ Len(<<"q">>) = 1 /\ "q" \in QuoteChars
  BY Single DEF QuoteChars
<1>9. PICK line : line = Quote(s) \o after
  OBVIOUS
<1>10. line = Q[L] \o (<<"q">> \o after)
  <2>1. Q[L] \in Seq(QuoteChars)
    BY <1>6, <1>7
  <2>2. Append(Q[L], "q") = Q[L] \o <<"q">>
    BY <1>8, <2>1, AppendIsConcat
  <2>3. (Q[L] \o <<"q">>) \o after = Q[L] \o (<<"q">> \o after)
    <3>1. Q[L] \in Seq(QuoteChars) /\ <<"q">> \in Seq(QuoteChars) /\ after \in Seq(QuoteChars)
      BY <1>3, <1>8, <2>1
    <3>2. PICK x : x = Q[L]
      OBVIOUS
    <3>3. PICK y : y = <<"q">>
      OBVIOUS
    <3>4. x \in Seq(QuoteChars) /\ y \in Seq(QuoteChars) /\ after \in Seq(QuoteChars)
      BY <3>1, <3>2, <3>3
    <3>5. (x \o y) \o after = x \o (y \o after)
      BY ONLY <3>4, ConcatAssociative
    <3> QED
      BY <3>2, <3>3, <3>5
  <2> QED
    BY <1>4, <1>5, <1>9, <2>2, <2>3
<1>11. line \in Seq(QuoteChars)
  <2>1. Q[L] \in Seq(QuoteChars)
    BY <1>6, <1>7
  <2>2. <<"q">> \o after \in Seq(QuoteChars)
    BY <1>3, <1>8, Joined
  <2> QED
    BY <1>10, <2>1, <2>2, Joined
<1>12. PICK f : ReadsBack(f, line) /\ ParseQuoted(line) = f[Len(line) - 1]
  BY <1>11, ParseMeans
<1> DEFINE Left(i, Z) == line = Q[i] \o Z /\ f[Len(Z)] = Answer(SubSeq(s, i + 1, L), after)
           S == {i \in 0..L : \E Z \in Seq(QuoteChars) : Left(i, Z)}
<1>13. L \in S
  <2>1. PICK Z : Z = <<"q">> \o after
    OBVIOUS
  <2>2. Z \in Seq(QuoteChars) /\ Len(Z) = 1 + Len(after)
    BY <1>3, <1>8, <2>1, Joined
  <2>3. Q[L] \in Seq(QuoteChars)
    BY <1>6, <1>7
  <2>4. f[Len(after) + 1] = Answer(<<>>, after)
    BY <1>3, <1>10, <1>12, <2>3, ReadQuote
  <2>5. Len(after) + 1 = Len(Z)
    BY <1>3, <2>2
  <2>6. SubSeq(s, L + 1, L) = <<>>
    BY <1>6, SubSeqEmpty
  <2>7. Left(L, Z)
    BY <1>10, <2>1, <2>4, <2>5, <2>6
  <2>8. L \in 0..L
    BY <1>6
  <2> HIDE DEF Left
  <2> QED
    BY <2>2, <2>7, <2>8
<1>14. ASSUME NEW i \in 1..L, i \in S PROVE i - 1 \in S
  <2>1. PICK Z \in Seq(QuoteChars) : Left(i, Z)
    BY <1>14
  <2>2. PICK c : c = s[i]
    OBVIOUS
  <2>3. c \in QuoteChars
    BY <1>2, <1>5, <2>2, ElementIn
  <2>4. PICK A : A = Q[i - 1]
    OBVIOUS
  <2>5. A \in Seq(QuoteChars) /\ i - 1 \in 0..L
    BY <1>6, <1>7, <2>4
  <2>6. Q[i] = A \o Quoted(c)
    BY <1>7, <2>2, <2>4
  <2>7. SubSeq(s, (i - 1) + 1, L) = <<c>> \o SubSeq(s, i + 1, L)
    <3>1. i \in 1..Len(s) /\ Len(s) \in i..Len(s)
      BY <1>2, <1>5
    <3>2. SubSeq(s, i, Len(s)) = <<s[i]>> \o SubSeq(s, i + 1, Len(s))
      BY <1>2, <3>1, SubSeqRecursiveFirst
    <3>3. (i - 1) + 1 = i
      OBVIOUS
    <3> QED
      BY <1>5, <2>2, <3>2, <3>3
  <2>8. PICK u : u = SubSeq(s, i + 1, L)
    OBVIOUS
  <2>9. line = Q[i] \o Z /\ f[Len(Z)] = Answer(u, after)
    BY <2>1, <2>8
  <2>10. Before(c, f[Len(Z)]) = Answer(<<c>> \o u, after)
    BY <2>9, BeforeAnswer
  <2>11. CASE Escapes(c)
    <3>1. Quoted(c) = <<"e", c>>
      BY <2>11 DEF Quoted
    <3> DEFINE w == <<"e", c>>
               Y == w \o Z
    <3>2. w \in Seq(QuoteChars) /\ Len(w) = 2
      <4>1. "e" \in QuoteChars
        BY DEF QuoteChars
      <4> QED
        BY <2>3, <4>1
    <3>3. line = A \o (w \o Z)
      <4> HIDE DEF w
      <4>1. (A \o w) \o Z = A \o (w \o Z)
        <5>1. A \in Seq(QuoteChars) /\ w \in Seq(QuoteChars) /\ Z \in Seq(QuoteChars)
          BY <2>5, <3>2
        <5>2. PICK y : y = w
          OBVIOUS
        <5>3. A \in Seq(QuoteChars) /\ y \in Seq(QuoteChars) /\ Z \in Seq(QuoteChars)
          BY <5>1, <5>2
        <5>4. (A \o y) \o Z = A \o (y \o Z)
          BY <5>3, QuoteAssoc
        <5> QED
          BY <5>2, <5>4
      <4> QED
        BY <2>6, <2>9, <3>1, <4>1 DEF w
    <3>4. f[Len(Z) + 2] = Before(c, f[Len(Z)])
      BY <1>12, <2>3, <2>5, <3>3, ReadEscaped
    <3>5. Y \in Seq(QuoteChars) /\ Len(Y) = Len(Z) + 2
      <4> HIDE DEF w
      <4>1. Y \in Seq(QuoteChars) /\ Len(Y) = Len(w) + Len(Z)
        BY <3>2, Joined
      <4> QED
        BY <3>2, <4>1
    <3>6. line = A \o Y
      BY <3>3
    <3> HIDE DEF w, Y
    <3>7. Left(i - 1, Y)
      BY <2>4, <2>7, <2>8, <2>10, <3>4, <3>5, <3>6
    <3> QED
      BY <2>5, <3>5, <3>7
  <2>12. CASE ~Escapes(c)
    <3>1. Quoted(c) = <<c>>
      BY <2>12 DEF Quoted
    <3> DEFINE w == <<c>>
               Y == w \o Z
    <3>2. w \in Seq(QuoteChars) /\ Len(w) = 1
      BY <2>3, Single
    <3>3. line = A \o (w \o Z)
      <4> HIDE DEF w
      <4>1. (A \o w) \o Z = A \o (w \o Z)
        <5>1. A \in Seq(QuoteChars) /\ w \in Seq(QuoteChars) /\ Z \in Seq(QuoteChars)
          BY <2>5, <3>2
        <5>2. PICK y : y = w
          OBVIOUS
        <5>3. A \in Seq(QuoteChars) /\ y \in Seq(QuoteChars) /\ Z \in Seq(QuoteChars)
          BY <5>1, <5>2
        <5>4. (A \o y) \o Z = A \o (y \o Z)
          BY <5>3, QuoteAssoc
        <5> QED
          BY <5>2, <5>4
      <4> QED
        BY <2>6, <2>9, <3>1, <4>1 DEF w
    <3>4. f[Len(Z) + 1] = Before(c, f[Len(Z)])
      BY <1>12, <2>3, <2>5, <2>12, <3>3, ReadPlain
    <3>5. Y \in Seq(QuoteChars) /\ Len(Y) = Len(Z) + 1
      <4> HIDE DEF w
      <4>1. Y \in Seq(QuoteChars) /\ Len(Y) = Len(w) + Len(Z)
        BY <3>2, Joined
      <4> QED
        BY <3>2, <4>1
    <3>6. line = A \o Y
      BY <3>3
    <3> HIDE DEF w, Y
    <3>7. Left(i - 1, Y)
      BY <2>4, <2>7, <2>8, <2>10, <3>4, <3>5, <3>6
    <3> QED
      BY <2>5, <3>5, <3>7
  <2> QED
    BY <2>11, <2>12
<1>15. 0 \in S
  <2> HIDE DEF S
  <2>1. \A i \in 0..L : i \in S
    BY <1>6, <1>13, <1>14, Downwards
  <2> QED
    BY <1>6, <2>1
<1>16. PICK Z \in Seq(QuoteChars) : Left(0, Z)
  BY <1>15
<1>17. Len(line) - 1 = Len(Z)
  <2>1. line = <<"q">> \o Z
    BY <1>7, <1>16
  <2>2. Len(<<"q">> \o Z) = Len(<<"q">>) + Len(Z)
    BY <1>8, Joined
  <2> QED
    BY <1>8, <2>1, <2>2
<1>18. SubSeq(s, 0 + 1, L) = s
  <2>1. 0 + 1 = 1
    OBVIOUS
  <2> QED
    BY <1>2, <1>5, <2>1, SubSeqFull
<1>19. ParseQuoted(line) = Answer(s, after)
  BY <1>12, <1>16, <1>17, <1>18
<1> QED
  BY <1>9, <1>19


\* A quoted string reads back.
LEMMA QuotingRight == TextInv => QuotingReadsBack
<1> SUFFICES ASSUME TextInv, kind = "quoted"
             PROVE  \A after \in {<<>>, <<" ", "q">>} :
                        ParseQuoted(Quote(text) \o after) = [ok |-> TRUE, str |-> text, rest |-> after]
  BY DEF QuotingReadsBack
<1>1. text \in Seq(QuoteChars)
  BY DEF TextInv, Alphabet, QuoteChars
<1>2. <<>> \in Seq(QuoteChars)
  OBVIOUS
<1>3. <<" ", "q">> \in Seq(QuoteChars)
  BY DEF QuoteChars
<1>4. \A after \in Seq(QuoteChars) : ParseQuoted(Quote(text) \o after) = Answer(text, after)
  BY <1>1, QuoteBack
<1>5. ParseQuoted(Quote(text) \o <<>>) = Answer(text, <<>>)
  BY <1>2, <1>4
<1>6. ParseQuoted(Quote(text) \o <<" ", "q">>) = Answer(text, <<" ", "q">>)
  BY <1>3, <1>4
<1> QED
  BY <1>5, <1>6, Zenon DEF Answer

Space == " "
ItemChars == {"w", "[", "]", "(", ")", Space}
PlainItem == <<"w">>
ListItem == <<"w", "[", "w", Space, "(", "w", Space, "w", ")", "]">>
ItemKinds == {PlainItem, ListItem}

\* What splitItems remembers: the items so far, where the next one starts, and
\* how deep in brackets it is.
Cuts == [items : Seq(Seq(ItemChars)), start : Nat \ {0}, depth : Int]
Cut(a, s, d) == [items |-> a, start |-> s, depth |-> d]

\* What the character at i makes of it.
CutAt(spec, i, r) ==
    IF spec[i] = Space /\ r.depth = 0
    THEN [r EXCEPT !.start = i + 1,
                   !.items = IF i > r.start THEN Append(@, SubSeq(spec, r.start, i - 1)) ELSE @]
    ELSE [r EXCEPT !.depth = @ + Deeper(spec[i])]

CutsUpTo(f, spec) ==
    f = [i \in 0..Len(spec) |->
            IF i = 0 THEN [items |-> <<>>, start |-> 1, depth |-> 0] ELSE CutAt(spec, i, f[i - 1])]

\* The last item, when there is one.
Closed(end, spec) ==
    IF end.start <= Len(spec) THEN Append(end.items, SubSeq(spec, end.start, Len(spec))) ELSE end.items

\* A character leads from a cut to a cut.
LEMMA CutAtType ==
    ASSUME NEW spec \in Seq(ItemChars), NEW i \in 1..Len(spec), NEW r \in Cuts
    PROVE  CutAt(spec, i, r) \in Cuts
<1>1. r.items \in Seq(Seq(ItemChars)) /\ r.start \in Nat \ {0} /\ r.depth \in Int
  BY DEF Cuts
<1>2. PICK c : c = SubSeq(spec, r.start, i - 1)
  OBVIOUS
<1>3. c \in Seq(ItemChars)
  <2>1. \A k \in (r.start)..(i - 1) : k \in 1..Len(spec)
    BY <1>1
  <2>2. \A k \in (r.start)..(i - 1) : spec[k] \in ItemChars
    BY <2>1, ElementIn
  <2>3. PICK b : b = r.start
    OBVIOUS
  <2>4. PICK e : e = i - 1
    OBVIOUS
  <2>5. b \in Int /\ e \in Int /\ \A k \in b..e : spec[k] \in ItemChars
    BY <1>1, <2>2, <2>3, <2>4
  <2>6. SubSeq(spec, b, e) \in Seq(ItemChars)
    BY <2>5, SubSeqProperties
  <2> QED
    BY <1>2, <2>3, <2>4, <2>6
<1>4. Append(r.items, c) \in Seq(Seq(ItemChars))
  BY <1>1, <1>3
<1>5. PICK its : its = IF i > r.start THEN Append(r.items, c) ELSE r.items
  OBVIOUS
<1>6. its \in Seq(Seq(ItemChars))
  BY <1>1, <1>4, <1>5
<1>7. [r EXCEPT !.start = i + 1, !.items = its] \in Cuts
  <2>1. i + 1 \in Nat \ {0}
    OBVIOUS
  <2> QED
    BY <1>6, <2>1 DEF Cuts
<1>8. [r EXCEPT !.depth = @ + Deeper(spec[i])] \in Cuts
  <2>1. Deeper(spec[i]) \in Int
    BY DEF Deeper
  <2>2. r.depth + Deeper(spec[i]) \in Int
    BY <1>1, <2>1
  <2> QED
    BY <2>2 DEF Cuts
<1>9. CASE spec[i] = Space /\ r.depth = 0
  <2>1. CutAt(spec, i, r) = [r EXCEPT !.start = i + 1, !.items = its]
    BY <1>2, <1>5, <1>9 DEF CutAt
  <2> QED
    BY <1>7, <2>1
<1>10. CASE ~(spec[i] = Space /\ r.depth = 0)
  <2>1. CutAt(spec, i, r) = [r EXCEPT !.depth = @ + Deeper(spec[i])]
    BY <1>10 DEF CutAt
  <2> QED
    BY <1>8, <2>1
<1> QED
  BY <1>9, <1>10

\* R is what splitItems remembers, character after character.
Remembers(R, spec) ==
    /\ R[0] = Cut(<<>>, 1, 0)
    /\ \A i \in 1..Len(spec) : R[i] = CutAt(spec, i, R[i - 1])

\* SplitItems goes through the list character after character.
LEMMA SplitMeans ==
    ASSUME NEW given, NEW spec \in Seq(ItemChars), Trimmed(given) = spec
    PROVE  \E R : Remembers(R, spec) /\ SplitItems(given) = Closed(R[Len(spec)], spec)
<1> DEFINE L == Len(spec)
           V == Cuts
           v0 == Cut(<<>>, 1, 0)
           H == [i \in 1..L |-> [r \in V |-> CutAt(spec, i, r)]]
           Ch == CHOOSE f : CutsUpTo(f, spec)
<1>1. L \in Nat
  OBVIOUS
<1>2. \A i \in 1..L : \A r \in V : CutAt(spec, i, r) \in V
  BY CutAtType
<1>3. v0 \in V
  <2>1. <<>> \in Seq(Seq(ItemChars)) /\ 1 \in Nat \ {0} /\ 0 \in Int
    OBVIOUS
  <2> QED
    BY <2>1 DEF Cut, Cuts
<1> HIDE DEF V, L, v0
<1>5. Steps(L, V, H)
  BY <1>2 DEF Steps
<1>6. \A i \in 1..L : \A r \in V : H[i][r] = CutAt(spec, i, r)
  OBVIOUS
<1> HIDE DEF H
<1>7. PICK f : Follows(f, L, V, v0, H)
  BY <1>1, <1>3, <1>5, CountRecursion
<1>8. f \in [0..L -> V] /\ f[0] = v0 /\ \A i \in 1..L : f[i] = CutAt(spec, i, f[i - 1])
  <2>1. \A i \in 1..L : i - 1 \in 0..L
    BY <1>1
  <2> QED
    BY <1>6, <1>7, <2>1 DEF Follows
<1>9. CutsUpTo(f, spec)
  <2>1. \A i \in 0..L : i # 0 => i \in 1..L
    BY <1>1
  <2>2. f = [i \in 0..L |-> f[i]]
    BY <1>8
  <2>3. f = [i \in 0..L |-> IF i = 0 THEN v0 ELSE CutAt(spec, i, f[i - 1])]
    BY <1>8, <2>1, <2>2
  <2> QED
    BY <2>3 DEF CutsUpTo, L, v0, Cut
<1>10. CutsUpTo(Ch, spec)
  BY <1>9
<1>11. SplitItems(given) = Closed(Ch[L], spec)
  BY DEF SplitItems, CutsUpTo, CutAt, Closed, L, Space
<1> HIDE DEF Ch
<1>12. Ch = [i \in 0..L |-> IF i = 0 THEN v0 ELSE CutAt(spec, i, Ch[i - 1])]
  BY <1>10 DEF CutsUpTo, L, v0, Cut
<1>13. Ch[0] = v0 /\ \A i \in 1..L : Ch[i] = CutAt(spec, i, Ch[i - 1])
  <2>1. 0 \in 0..L /\ \A i \in 1..L : i \in 0..L /\ i # 0
    BY <1>1
  <2> QED
    BY <1>12, <2>1
<1>14. Remembers(Ch, spec)
  BY <1>13 DEF Remembers, L, v0
<1> QED
  BY <1>11, <1>14 DEF L

\* A character of an item only changes the depth, and a space between two
\* items starts the next.
LEMMA InItem ==
    ASSUME NEW R, NEW spec \in Seq(ItemChars), Remembers(R, spec), NEW p \in Nat, p + 1 \in 1..Len(spec),
           NEW a, NEW s, NEW d \in Int, R[p] = Cut(a, s, d),
           NEW c, spec[p + 1] = c, c # Space \/ d # 0
    PROVE  R[p + 1] = Cut(a, s, d + Deeper(c))
<1>1. R[p + 1] = CutAt(spec, p + 1, R[p])
  <2>1. (p + 1) - 1 = p
    OBVIOUS
  <2> QED
    BY <2>1 DEF Remembers
<1>2. PICK e : e = Deeper(c)
  OBVIOUS
<1> DEFINE r == Cut(a, s, d)
<1>3. r.depth = d
  BY DEF Cut
<1>4. [r EXCEPT !.depth = d + e] = Cut(a, s, d + e)
  BY DEF Cut
<1> HIDE DEF r
<1>5. CutAt(spec, p + 1, r) = [r EXCEPT !.depth = r.depth + Deeper(c)]
  BY <1>3 DEF CutAt
<1> QED
  BY <1>1, <1>2, <1>3, <1>4, <1>5 DEF r

Restart(r, t, b) == [r EXCEPT !.start = t, !.items = b]

\* The next item, with the depth as it was.
LEMMA Restarted ==
    ASSUME NEW a, NEW s, NEW d, NEW b, NEW t
    PROVE  Restart(Cut(a, s, d), t, b) = Cut(b, t, d)
<1> USE DEF Restart
<1> DEFINE r == Cut(a, s, d)
<1>1. [r EXCEPT !.start = t] = Cut(a, t, d)
  BY DEF Cut
<1>2. [Cut(a, t, d) EXCEPT !.items = b] = Cut(b, t, d)
  BY DEF Cut
<1> HIDE DEF r
<1>3. [r EXCEPT !.start = t, !.items = b] = [[r EXCEPT !.start = t] EXCEPT !.items = b]
  OBVIOUS
<1> QED
  BY <1>1, <1>2, <1>3 DEF r

\* Between two items, the one before is cut off.
LEMMA BetweenItems ==
    ASSUME NEW R, NEW spec \in Seq(ItemChars), Remembers(R, spec), NEW p \in Nat, p + 1 \in 1..Len(spec),
           NEW a, NEW s \in Nat, R[p] = Cut(a, s, 0), spec[p + 1] = Space, s <= p
    PROVE  R[p + 1] = Cut(Append(a, SubSeq(spec, s, p)), p + 2, 0)
<1>1. R[p + 1] = CutAt(spec, p + 1, R[p])
  <2>1. (p + 1) - 1 = p
    OBVIOUS
  <2> QED
    BY <2>1 DEF Remembers
<1>2. PICK its : its = Append(a, SubSeq(spec, s, p))
  OBVIOUS
<1> DEFINE r == Cut(a, s, 0)
<1> HIDE DEF r
<1>3. r.depth = 0 /\ r.start = s /\ r.items = a
  BY DEF Cut, r
<1>4. [r EXCEPT !.start = p + 2, !.items = its] = Cut(its, p + 2, 0)
  <2>1. Restart(r, p + 2, its) = Cut(its, p + 2, 0)
    BY Restarted DEF r
  <2> QED
    BY <2>1 DEF Restart
<1>5. CutAt(spec, p + 1, r) = [r EXCEPT !.start = (p + 1) + 1, !.items =
            IF p + 1 > r.start THEN Append(r.items, SubSeq(spec, r.start, (p + 1) - 1)) ELSE r.items]
  BY <1>3 DEF CutAt
<1>6. (p + 1) + 1 = p + 2 /\ (p + 1) - 1 = p /\ p + 1 > s
  OBVIOUS
<1>7. CutAt(spec, p + 1, r) = [r EXCEPT !.start = p + 2, !.items = its]
  BY <1>2, <1>3, <1>5, <1>6
<1> QED
  BY <1>1, <1>2, <1>4, <1>7 DEF r

\* The separator is none of the other characters.
LEMMA SpaceApart == Space # "w" /\ Space # "[" /\ Space # "]" /\ Space # "(" /\ Space # ")"
BY DEF Space

\* What each character does to the depth.
LEMMA Depths ==
    /\ Deeper("w") = 0 /\ Deeper(Space) = 0
    /\ Deeper("(") = 1 /\ Deeper("[") = 1
    /\ Deeper(")") = -1 /\ Deeper("]") = -1
<1>1. Deeper(Space) = 0
  BY Zenon DEF Space, Deeper
<1> QED
  BY <1>1 DEF Deeper

\* An item with a list in it, character after character.
LEMMA ListItemMeans ==
    /\ ListItem \in Seq(ItemChars) /\ Len(ListItem) = 10
    /\ ListItem[1] = "w" /\ ListItem[2] = "[" /\ ListItem[3] = "w" /\ ListItem[4] = Space
    /\ ListItem[5] = "(" /\ ListItem[6] = "w" /\ ListItem[7] = Space /\ ListItem[8] = "w"
    /\ ListItem[9] = ")" /\ ListItem[10] = "]"
<1>1. Len(ListItem) = 10
  BY DEF ListItem
<1>2. /\ ListItem[1] = "w" /\ ListItem[2] = "[" /\ ListItem[3] = "w" /\ ListItem[4] = Space
      /\ ListItem[5] = "(" /\ ListItem[6] = "w" /\ ListItem[7] = Space /\ ListItem[8] = "w"
      /\ ListItem[9] = ")" /\ ListItem[10] = "]"
  BY DEF ListItem
<1>3. ListItem \in Seq(ItemChars)
  <2>1. /\ "w" \in ItemChars /\ "[" \in ItemChars /\ "]" \in ItemChars
        /\ "(" \in ItemChars /\ ")" \in ItemChars /\ Space \in ItemChars
    BY DEF ItemChars
  <2> QED
    BY <2>1 DEF ListItem
<1> QED
  BY <1>1, <1>2, <1>3

\* An item begins with a word and does not end with a parenthesis.
LEMMA ItemMeans ==
    ASSUME NEW t \in ItemKinds
    PROVE  /\ t \in Seq(ItemChars) /\ Len(t) \in Nat /\ Len(t) >= 1
           /\ t[1] = "w" /\ t[Len(t)] # ")"
<1>1. CASE t = PlainItem
  <2>1. t = <<"w">>
    BY <1>1 DEF PlainItem
  <2>2. "w" \in ItemChars
    BY DEF ItemChars
  <2>3. t \in Seq(ItemChars) /\ Len(t) = 1 /\ t[1] = "w"
    BY <2>1, <2>2, Single
  <2> QED
    BY <2>3
<1>2. CASE t = ListItem
  <2>1. "]" # ")"
    OBVIOUS
  <2> QED
    BY <1>2, <2>1, ListItemMeans
<1> QED
  BY <1>1, <1>2 DEF ItemKinds

\* The item t comes after p characters of the whole.
HasAt(spec, p, t) == p + Len(t) <= Len(spec) /\ \A k \in 1..Len(t) : spec[p + k] = t[k]

\* An item is passed in one piece: its brackets close, and the spaces in them
\* do not separate.
LEMMA Through ==
    ASSUME NEW R, NEW spec \in Seq(ItemChars), Remembers(R, spec), NEW p \in Nat, NEW t \in ItemKinds,
           HasAt(spec, p, t),
           NEW a, NEW s, R[p] = Cut(a, s, 0)
    PROVE  R[p + Len(t)] = Cut(a, s, 0)
<1> USE DEF HasAt
<1>1. PICK n : n = Len(spec)
  OBVIOUS
<1>2. n \in Nat
  BY <1>1
<1>3. ASSUME NEW i \in Nat, i + 1 \in 1..n, NEW d \in Int, R[i] = Cut(a, s, d), spec[i + 1] # Space \/ d # 0
      PROVE  R[i + 1] = Cut(a, s, d + Deeper(spec[i + 1]))
  BY <1>1, <1>3, InItem
<1>4. CASE t = PlainItem
  <2>1. Len(t) = 1 /\ t[1] = "w"
    BY <1>4 DEF PlainItem
  <2>2. spec[p + 1] = "w" /\ p + 1 \in 1..n
    BY <1>1, <1>2, <2>1
  <2>3. R[p + 1] = Cut(a, s, 0 + 0)
    BY <1>3, <2>2, SpaceApart, Depths
  <2> QED
    BY <2>1, <2>3
<1>5. CASE t = ListItem
  <2>1. Len(t) = 10 /\ p + 10 <= n
    BY <1>1, <1>5, ListItemMeans
  <2>2. \A k \in 1..10 : spec[p + k] = ListItem[k]
    BY <1>5, <2>1
  <2>3. /\ spec[p + 1] = "w" /\ spec[p + 2] = "[" /\ spec[p + 3] = "w" /\ spec[p + 4] = Space
        /\ spec[p + 5] = "(" /\ spec[p + 6] = "w" /\ spec[p + 7] = Space /\ spec[p + 8] = "w"
        /\ spec[p + 9] = ")" /\ spec[p + 10] = "]"
    BY <2>2, ListItemMeans
  <2>4. R[p + 1] = Cut(a, s, 0)
    <3>1. p + 1 \in 1..n /\ 0 + 0 = 0
      BY <1>2, <2>1
    <3> QED
      BY <1>3, <2>3, <3>1, SpaceApart, Depths
  <2>5. R[p + 2] = Cut(a, s, 1)
    <3>1. p + 1 \in Nat /\ (p + 1) + 1 = p + 2 /\ p + 2 \in 1..n
      BY <1>2, <2>1
    <3>2. 0 + 1 = 1 /\ 0 \in Int
      OBVIOUS
    <3>3. PICK i : i = p + 1
      OBVIOUS
    <3>4. i \in Nat /\ i + 1 \in 1..n /\ R[i] = Cut(a, s, 0)
      BY <2>4, <3>1, <3>3
    <3>5. spec[i + 1] # Space \/ 0 # 0
      BY <2>3, <3>1, <3>3, SpaceApart
    <3>6. R[i + 1] = Cut(a, s, 0 + Deeper(spec[i + 1]))
      BY <1>3, <3>2, <3>4, <3>5
    <3> QED
      BY <2>3, <3>1, <3>2, <3>3, <3>6, Depths
  <2>6. R[p + 3] = Cut(a, s, 1)
    <3>1. p + 2 \in Nat /\ (p + 2) + 1 = p + 3 /\ p + 3 \in 1..n
      BY <1>2, <2>1
    <3>2. 1 + 0 = 1 /\ 1 \in Int
      OBVIOUS
    <3>3. PICK i : i = p + 2
      OBVIOUS
    <3>4. i \in Nat /\ i + 1 \in 1..n /\ R[i] = Cut(a, s, 1)
      BY <2>5, <3>1, <3>3
    <3>5. spec[i + 1] # Space \/ 1 # 0
      BY <2>3, <3>1, <3>3, SpaceApart
    <3>6. R[i + 1] = Cut(a, s, 1 + Deeper(spec[i + 1]))
      BY <1>3, <3>2, <3>4, <3>5
    <3> QED
      BY <2>3, <3>1, <3>2, <3>3, <3>6, Depths
  <2>7. R[p + 4] = Cut(a, s, 1)
    <3>1. p + 3 \in Nat /\ (p + 3) + 1 = p + 4 /\ p + 4 \in 1..n
      BY <1>2, <2>1
    <3>2. 1 + 0 = 1 /\ 1 \in Int
      OBVIOUS
    <3>3. PICK i : i = p + 3
      OBVIOUS
    <3>4. i \in Nat /\ i + 1 \in 1..n /\ R[i] = Cut(a, s, 1)
      BY <2>6, <3>1, <3>3
    <3>5. spec[i + 1] # Space \/ 1 # 0
      BY <2>3, <3>1, <3>3, SpaceApart
    <3>6. R[i + 1] = Cut(a, s, 1 + Deeper(spec[i + 1]))
      BY <1>3, <3>2, <3>4, <3>5
    <3> QED
      BY <2>3, <3>1, <3>2, <3>3, <3>6, Depths
  <2>8. R[p + 5] = Cut(a, s, 2)
    <3>1. p + 4 \in Nat /\ (p + 4) + 1 = p + 5 /\ p + 5 \in 1..n
      BY <1>2, <2>1
    <3>2. 1 + 1 = 2 /\ 1 \in Int
      OBVIOUS
    <3>3. PICK i : i = p + 4
      OBVIOUS
    <3>4. i \in Nat /\ i + 1 \in 1..n /\ R[i] = Cut(a, s, 1)
      BY <2>7, <3>1, <3>3
    <3>5. spec[i + 1] # Space \/ 1 # 0
      BY <2>3, <3>1, <3>3, SpaceApart
    <3>6. R[i + 1] = Cut(a, s, 1 + Deeper(spec[i + 1]))
      BY <1>3, <3>2, <3>4, <3>5
    <3> QED
      BY <2>3, <3>1, <3>2, <3>3, <3>6, Depths
  <2>9. R[p + 6] = Cut(a, s, 2)
    <3>1. p + 5 \in Nat /\ (p + 5) + 1 = p + 6 /\ p + 6 \in 1..n
      BY <1>2, <2>1
    <3>2. 2 + 0 = 2 /\ 2 \in Int
      OBVIOUS
    <3>3. PICK i : i = p + 5
      OBVIOUS
    <3>4. i \in Nat /\ i + 1 \in 1..n /\ R[i] = Cut(a, s, 2)
      BY <2>8, <3>1, <3>3
    <3>5. spec[i + 1] # Space \/ 2 # 0
      BY <2>3, <3>1, <3>3, SpaceApart
    <3>6. R[i + 1] = Cut(a, s, 2 + Deeper(spec[i + 1]))
      BY <1>3, <3>2, <3>4, <3>5
    <3> QED
      BY <2>3, <3>1, <3>2, <3>3, <3>6, Depths
  <2>10. R[p + 7] = Cut(a, s, 2)
    <3>1. p + 6 \in Nat /\ (p + 6) + 1 = p + 7 /\ p + 7 \in 1..n
      BY <1>2, <2>1
    <3>2. 2 + 0 = 2 /\ 2 \in Int
      OBVIOUS
    <3>3. PICK i : i = p + 6
      OBVIOUS
    <3>4. i \in Nat /\ i + 1 \in 1..n /\ R[i] = Cut(a, s, 2)
      BY <2>9, <3>1, <3>3
    <3>5. spec[i + 1] # Space \/ 2 # 0
      BY <2>3, <3>1, <3>3, SpaceApart
    <3>6. R[i + 1] = Cut(a, s, 2 + Deeper(spec[i + 1]))
      BY <1>3, <3>2, <3>4, <3>5
    <3> QED
      BY <2>3, <3>1, <3>2, <3>3, <3>6, Depths
  <2>11. R[p + 8] = Cut(a, s, 2)
    <3>1. p + 7 \in Nat /\ (p + 7) + 1 = p + 8 /\ p + 8 \in 1..n
      BY <1>2, <2>1
    <3>2. 2 + 0 = 2 /\ 2 \in Int
      OBVIOUS
    <3>3. PICK i : i = p + 7
      OBVIOUS
    <3>4. i \in Nat /\ i + 1 \in 1..n /\ R[i] = Cut(a, s, 2)
      BY <2>10, <3>1, <3>3
    <3>5. spec[i + 1] # Space \/ 2 # 0
      BY <2>3, <3>1, <3>3, SpaceApart
    <3>6. R[i + 1] = Cut(a, s, 2 + Deeper(spec[i + 1]))
      BY <1>3, <3>2, <3>4, <3>5
    <3> QED
      BY <2>3, <3>1, <3>2, <3>3, <3>6, Depths
  <2>12. R[p + 9] = Cut(a, s, 1)
    <3>1. p + 8 \in Nat /\ (p + 8) + 1 = p + 9 /\ p + 9 \in 1..n
      BY <1>2, <2>1
    <3>2. 2 + (-1) = 1 /\ 2 \in Int
      OBVIOUS
    <3>3. PICK i : i = p + 8
      OBVIOUS
    <3>4. i \in Nat /\ i + 1 \in 1..n /\ R[i] = Cut(a, s, 2)
      BY <2>11, <3>1, <3>3
    <3>5. spec[i + 1] # Space \/ 2 # 0
      BY <2>3, <3>1, <3>3, SpaceApart
    <3>6. R[i + 1] = Cut(a, s, 2 + Deeper(spec[i + 1]))
      BY <1>3, <3>2, <3>4, <3>5
    <3> QED
      BY <2>3, <3>1, <3>2, <3>3, <3>6, Depths
  <2>13. R[p + 10] = Cut(a, s, 0)
    <3>1. p + 9 \in Nat /\ (p + 9) + 1 = p + 10 /\ p + 10 \in 1..n
      BY <1>2, <2>1
    <3>2. 1 + (-1) = 0 /\ 1 \in Int
      OBVIOUS
    <3>3. PICK i : i = p + 9
      OBVIOUS
    <3>4. i \in Nat /\ i + 1 \in 1..n /\ R[i] = Cut(a, s, 1)
      BY <2>12, <3>1, <3>3
    <3>5. spec[i + 1] # Space \/ 1 # 0
      BY <2>3, <3>1, <3>3, SpaceApart
    <3>6. R[i + 1] = Cut(a, s, 1 + Deeper(spec[i + 1]))
      BY <1>3, <3>2, <3>4, <3>5
    <3> QED
      BY <2>3, <3>1, <3>2, <3>3, <3>6, Depths
  <2> QED
    BY <2>1, <2>13
<1> QED
  BY <1>4, <1>5 DEF ItemKinds

\* The items of a FETCH as the client writes them, a space between two.
JoinsUpTo(f, t) ==
    f = [n \in 0..Len(t) |->
            IF n = 0 THEN <<>> ELSE IF n = 1 THEN t[1] ELSE f[n - 1] \o <<Space>> \o t[n]]

JoinedItems(J, t) ==
    /\ J \in [0..Len(t) -> Seq(ItemChars)] /\ J[0] = <<>>
    /\ \A n \in 1..Len(t) : J[n] = IF n = 1 THEN t[1] ELSE J[n - 1] \o <<Space>> \o t[n]

\* The function that joins the items exists.
LEMMA JoinMeans ==
    ASSUME NEW t \in Seq(ItemKinds), NEW Ch, Ch = CHOOSE f : JoinsUpTo(f, t)
    PROVE  JoinedItems(Ch, t)
<1> DEFINE L == Len(t)
           V == Seq(ItemChars)
           sp == <<Space>>
           H == [n \in 1..L |-> [v \in V |-> IF n = 1 THEN t[1] ELSE v \o sp \o t[n]]]
<1>1. L \in Nat
  OBVIOUS
<1>2. \A n \in 1..L : t[n] \in V
  BY ElementIn, ItemMeans
<1>3. <<>> \in V /\ sp \in V
  BY Single DEF ItemChars
<1>4. \A u, v \in V : u \o v \in V
  BY Joined
<1> HIDE DEF V, L, sp
<1>5. \A n \in 1..L : \A v \in V : (IF n = 1 THEN t[1] ELSE v \o sp \o t[n]) \in V
  BY <1>2, <1>3, <1>4
<1>6. Steps(L, V, H)
  BY <1>5 DEF Steps
<1>7. \A n \in 1..L : \A v \in V : H[n][v] = IF n = 1 THEN t[1] ELSE v \o sp \o t[n]
  OBVIOUS
<1> HIDE DEF H
<1>8. PICK f : Follows(f, L, V, <<>>, H)
  BY <1>1, <1>3, <1>6, CountRecursion
<1>9. /\ f \in [0..L -> V] /\ f[0] = <<>>
      /\ \A n \in 1..L : f[n] = IF n = 1 THEN t[1] ELSE f[n - 1] \o sp \o t[n]
  <2>1. \A n \in 1..L : n - 1 \in 0..L
    BY <1>1
  <2> QED
    BY <1>7, <1>8, <2>1 DEF Follows
<1>10. JoinsUpTo(f, t)
  <2>1. \A n \in 0..L : n # 0 => n \in 1..L
    BY <1>1
  <2>2. f = [n \in 0..L |-> f[n]]
    BY <1>9
  <2>3. f = [n \in 0..L |-> IF n = 0 THEN <<>> ELSE IF n = 1 THEN t[1] ELSE f[n - 1] \o sp \o t[n]]
    BY <1>9, <2>1, <2>2
  <2> QED
    BY <2>3 DEF JoinsUpTo, L, sp
<1>11. JoinsUpTo(Ch, t)
  BY <1>10
<1>12. Ch = [n \in 0..L |-> IF n = 0 THEN <<>> ELSE IF n = 1 THEN t[1] ELSE Ch[n - 1] \o sp \o t[n]]
  BY <1>11 DEF JoinsUpTo, L, sp
<1>13. Ch[0] = <<>> /\ \A n \in 1..L : Ch[n] = IF n = 1 THEN t[1] ELSE Ch[n - 1] \o sp \o t[n]
  <2>1. 0 \in 0..L /\ \A n \in 1..L : n \in 0..L /\ n # 0
    BY <1>1
  <2> QED
    BY <1>12, <2>1
<1>14. \A k \in 0..L : k \in {n \in 0..L : Ch[n] \in V}
  <2> DEFINE S == {n \in 0..L : Ch[n] \in V}
  <2>1. 0 \in S
    BY <1>1, <1>3, <1>13
  <2>2. ASSUME NEW n \in 1..L, n - 1 \in S PROVE n \in S
    <3>1. n \in 0..L /\ Ch[n - 1] \in V
      BY <1>1, <2>2
    <3>2. Ch[n] \in V
      BY <1>5, <1>13, <3>1
    <3> QED
      BY <3>1, <3>2
  <2> HIDE DEF S
  <2>3. \A k \in 0..L : k \in S
    BY <1>1, <2>1, <2>2, Upwards
  <2> QED
    BY <2>3 DEF S
<1>15. Ch \in [0..L -> V]
  BY <1>12, <1>14
<1> QED
  BY <1>13, <1>15 DEF JoinedItems, L, V, sp

\* Two texts of items, one after the other.
LEMMA ItemJoin ==
    \A p, q \in Seq(ItemChars) :
        /\ p \o q \in Seq(ItemChars)
        /\ Len(p \o q) = Len(p) + Len(q)
        /\ \A k \in 1..Len(p) : (p \o q)[k] = p[k]
        /\ \A k \in 1..Len(q) : (p \o q)[Len(p) + k] = q[k]
BY Joined

\* Where an item is: b says how many characters are before it.
Placed(b, J, t, n) ==
    /\ b \in Nat /\ b = IF n = 1 THEN 0 ELSE Len(J[n - 1]) + 1
    /\ Len(J[n]) = b + Len(t[n])
    /\ \A k \in 1..Len(t[n]) : J[n][b + k] = t[n][k]
    /\ n # 1 => J[n][b] = Space /\ \A k \in 1..Len(J[n - 1]) : J[n][k] = J[n - 1][k]

\* Each item is somewhere in what was joined.
LEMMA ItemPlace ==
    ASSUME NEW t \in Seq(ItemKinds), NEW J, JoinedItems(J, t), NEW n \in 1..Len(t)
    PROVE  \E b : Placed(b, J, t, n)
<1>1. PICK x : x = t[n]
  OBVIOUS
<1>2. x \in Seq(ItemChars) /\ Len(x) \in Nat
  <2>1. x \in ItemKinds
    BY <1>1, ElementIn
  <2> QED
    BY <2>1, ItemMeans
<1>3. CASE n = 1
  <2>1. J[n] = x
    BY <1>1, <1>3 DEF JoinedItems
  <2>2. Len(J[n]) = 0 + Len(x) /\ \A k \in 1..Len(x) : J[n][0 + k] = x[k]
    BY <1>2, <2>1
  <2>3. Placed(0, J, t, n)
    BY <1>1, <1>3, <2>2 DEF Placed
  <2> QED
    BY <2>3
<1>4. CASE n # 1
  <2>1. PICK a : a = J[n - 1]
    OBVIOUS
  <2>2. PICK sp : sp = <<Space>>
    OBVIOUS
  <2>3. a \in Seq(ItemChars)
    <3>1. n - 1 \in 0..Len(t)
      OBVIOUS
    <3> QED
      BY <2>1, <3>1 DEF JoinedItems
  <2>4. sp \in Seq(ItemChars) /\ Len(sp) = 1 /\ sp[1] = Space
    BY <2>2, Single DEF ItemChars
  <2>5. J[n] = (a \o sp) \o x
    BY <1>1, <1>4, <2>1, <2>2 DEF JoinedItems
  <2>6. PICK u : u = a \o sp
    OBVIOUS
  <2>7. /\ u \in Seq(ItemChars) /\ Len(u) = Len(a) + 1
        /\ \A k \in 1..Len(a) : u[k] = a[k]
        /\ u[Len(a) + 1] = Space
    <3>1. /\ a \o sp \in Seq(ItemChars)
          /\ Len(a \o sp) = Len(a) + Len(sp)
          /\ \A k \in 1..Len(a) : (a \o sp)[k] = a[k]
          /\ \A k \in 1..Len(sp) : (a \o sp)[Len(a) + k] = sp[k]
      BY <2>3, <2>4, ItemJoin
    <3> QED
      BY <2>4, <2>6, <3>1
  <2>8. /\ Len(u \o x) = Len(u) + Len(x)
        /\ \A k \in 1..Len(u) : (u \o x)[k] = u[k]
        /\ \A k \in 1..Len(x) : (u \o x)[Len(u) + k] = x[k]
    BY <1>2, <2>7, ItemJoin
  <2>9. PICK j : j = J[n]
    OBVIOUS
  <2>10. j = u \o x
    BY <2>5, <2>6, <2>9
  <2>11. PICK b : b = Len(a) + 1
    OBVIOUS
  <2>12. b \in Nat /\ Len(u) = b /\ b \in 1..Len(u) /\ \A k \in 1..Len(a) : k \in 1..Len(u)
    BY <2>3, <2>7, <2>11
  <2>13. Len(j) = b + Len(x) /\ \A k \in 1..Len(x) : j[b + k] = x[k]
    BY <2>8, <2>10, <2>12
  <2>14. j[b] = Space /\ \A k \in 1..Len(a) : j[k] = a[k]
    BY <2>7, <2>8, <2>10, <2>11, <2>12
  <2>15. b = IF n = 1 THEN 0 ELSE Len(J[n - 1]) + 1
    BY <1>4, <2>1, <2>11
  <2>16. Placed(b, J, t, n)
    BY <1>1, <1>4, <2>1, <2>9, <2>12, <2>13, <2>14, <2>15 DEF Placed
  <2> QED
    BY <2>16
<1> QED
  BY <1>3, <1>4

\* The whole starts with what was written after n items.
LEMMA WholeStarts ==
    ASSUME NEW t \in Seq(ItemKinds), NEW J, JoinedItems(J, t), NEW spec, spec = J[Len(t)]
    PROVE  \A n \in 0..Len(t) : Len(J[n]) <= Len(spec) /\ \A k \in 1..Len(J[n]) : spec[k] = J[n][k]
<1>1. PICK L : L = Len(t)
  OBVIOUS
<1>2. L \in Nat
  BY <1>1
<1>3. J \in [0..L -> Seq(ItemChars)] /\ J[0] = <<>>
  BY <1>1 DEF JoinedItems
<1>4. spec \in Seq(ItemChars) /\ spec = J[L]
  BY <1>1, <1>2, <1>3
<1> DEFINE S == {n \in 0..L : Len(J[n]) <= Len(spec) /\ \A k \in 1..Len(J[n]) : spec[k] = J[n][k]}
<1>5. L \in S
  <2>1. L \in 0..L /\ Len(spec) <= Len(spec)
    BY <1>2, <1>4
  <2> QED
    BY <1>4, <2>1
<1>6. ASSUME NEW n \in 1..L, n \in S PROVE n - 1 \in S
  <2>1. n - 1 \in 0..L
    BY <1>2
  <2>2. CASE n = 1
    <3>1. J[n - 1] = <<>>
      BY <1>3, <2>2
    <3>2. Len(J[n - 1]) = 0 /\ Len(spec) >= 0
      BY <1>4, <3>1
    <3> QED
      BY <2>1, <3>2
  <2>3. CASE n # 1
    <3>1. n \in 1..Len(t)
      BY <1>1
    <3>0. PICK b : Placed(b, J, t, n)
      BY <3>1, ItemPlace
    <3>2. /\ b = Len(J[n - 1]) + 1
          /\ Len(J[n]) = b + Len(t[n])
          /\ \A k \in 1..Len(J[n - 1]) : J[n][k] = J[n - 1][k]
      BY <2>3, <3>0 DEF Placed
    <3>3. Len(t[n]) \in Nat
      <4>1. t[n] \in ItemKinds
        BY <3>1, ElementIn
      <4> QED
        BY <4>1, ItemMeans
    <3>4. PICK m : m = Len(J[n - 1])
      OBVIOUS
    <3>5. m \in Nat
      BY <1>3, <2>1, <3>4
    <3>6. m <= Len(J[n]) /\ \A k \in 1..m : k \in 1..Len(J[n])
      <4>1. PICK w : w = Len(J[n])
        OBVIOUS
      <4>2. PICK v : v = Len(t[n])
        OBVIOUS
      <4>3. v \in Nat /\ w = (m + 1) + v
        BY <3>2, <3>3, <3>4, <4>1, <4>2
      <4>4. m <= w /\ \A k \in 1..m : k \in 1..w
        BY <3>5, <4>3
      <4> QED
        BY <4>1, <4>4
    <3>7. Len(J[n]) <= Len(spec) /\ \A k \in 1..Len(J[n]) : spec[k] = J[n][k]
      BY <1>6
    <3>8. m <= Len(spec)
      <4>1. Len(J[n]) \in Nat /\ Len(spec) \in Nat
        <5>1. J[n] \in Seq(ItemChars)
          BY <1>2, <1>3
        <5> QED
          BY <1>4, <5>1
      <4> QED
        BY <3>5, <3>6, <3>7, <4>1
    <3>9. \A k \in 1..m : spec[k] = J[n - 1][k]
      BY <3>2, <3>4, <3>6, <3>7
    <3> QED
      BY <2>1, <3>4, <3>8, <3>9
  <2> QED
    BY <2>2, <2>3
<1> HIDE DEF S
<1>7. \A n \in 0..L : n \in S
  BY <1>2, <1>5, <1>6, Downwards
<1> QED
  BY <1>1, <1>7 DEF S

Found(b, spec, J, t, n) ==
    /\ b \in Nat /\ b = IF n = 1 THEN 0 ELSE Len(J[n - 1]) + 1
    /\ Len(J[n]) = b + Len(t[n]) /\ b + Len(t[n]) <= Len(spec)
    /\ \A k \in 1..Len(t[n]) : spec[b + k] = t[n][k]
    /\ n # 1 => spec[b] = Space
    /\ SubSeq(spec, b + 1, b + Len(t[n])) = t[n]

\* The item is in the whole where it was written.
LEMMA ItemInWhole ==
    ASSUME NEW t \in Seq(ItemKinds), NEW J, JoinedItems(J, t), NEW spec, spec = J[Len(t)], NEW n \in 1..Len(t)
    PROVE  \E b : Found(b, spec, J, t, n)
<1>0. PICK b : Placed(b, J, t, n)
  BY ItemPlace
<1>1. /\ b \in Nat /\ b = IF n = 1 THEN 0 ELSE Len(J[n - 1]) + 1
      /\ Len(J[n]) = b + Len(t[n])
      /\ \A k \in 1..Len(t[n]) : J[n][b + k] = t[n][k]
      /\ n # 1 => J[n][b] = Space
  BY <1>0 DEF Placed
<1>2. PICK x : x = t[n]
  OBVIOUS
<1>3. x \in Seq(ItemChars) /\ Len(x) \in Nat /\ Len(x) >= 1
  <2>1. x \in ItemKinds
    BY <1>2, ElementIn
  <2> QED
    BY <2>1, ItemMeans
<1>4. PICK j : j = J[n]
  OBVIOUS
<1>5. Len(j) <= Len(spec) /\ \A k \in 1..Len(j) : spec[k] = j[k]
  <2>1. n \in 0..Len(t)
    OBVIOUS
  <2> QED
    BY <1>4, <2>1, WholeStarts
<1>6. PICK m : m = Len(x)
  OBVIOUS
<1>7. b \in Nat /\ m \in Nat /\ m >= 1 /\ Len(j) = b + m /\ b + m <= Len(spec)
  BY <1>1, <1>2, <1>3, <1>4, <1>5, <1>6
<1>8. \A k \in 1..m : b + k \in 1..Len(j)
  BY <1>7
<1>9. \A k \in 1..m : spec[b + k] = x[k]
  BY <1>1, <1>2, <1>4, <1>5, <1>6, <1>8
<1>10. n # 1 => spec[b] = Space
  <2> SUFFICES ASSUME n # 1 PROVE spec[b] = Space
    OBVIOUS
  <2>1. b \in 1..Len(j)
    <3>1. Len(J[n - 1]) \in Nat
      <4>1. n - 1 \in 0..Len(t)
        OBVIOUS
      <4>2. J[n - 1] \in Seq(ItemChars)
        BY <4>1 DEF JoinedItems
      <4> QED
        BY <4>2
    <3>2. b = Len(J[n - 1]) + 1
      BY <1>1
    <3> QED
      BY <1>7, <3>1, <3>2
  <2> QED
    BY <1>1, <1>4, <1>5, <2>1
<1>11. spec \in Seq(ItemChars)
  <2>1. Len(t) \in 0..Len(t)
    OBVIOUS
  <2> QED
    BY <2>1 DEF JoinedItems
<1>12. SubSeq(spec, b + 1, b + m) = x
  <2>1. PICK c : c = b + 1
    OBVIOUS
  <2>2. PICK e : e = b + m
    OBVIOUS
  <2>3. c \in Nat /\ e \in Nat /\ 1 <= c /\ c <= e + 1 /\ e <= Len(spec) /\ (e + 1) - c = m
    BY <1>7, <2>1, <2>2
  <2> DEFINE u == SubSeq(spec, c, e)
  <2>4. u \in Seq(ItemChars) /\ Len(u) = (e + 1) - c /\ \A k \in 1..((e + 1) - c) : u[k] = spec[(c + k) - 1]
    BY <1>11, <2>3, Piece
  <2> HIDE DEF u
  <2>5. \A k \in 1..m : (c + k) - 1 = b + k
    BY <1>7, <2>1
  <2>6. Len(u) = Len(x) /\ \A k \in 1..Len(u) : u[k] = x[k]
    BY <1>6, <1>9, <2>3, <2>4, <2>5
  <2>7. u = x
    BY <1>3, <2>4, <2>6, SameSeq
  <2> QED
    BY <2>1, <2>2, <2>7 DEF u
<1> QED
  BY <1>1, <1>2, <1>4, <1>6, <1>7, <1>9, <1>10, <1>12 DEF Found

\* What was joined is split again.
LEMMA SplitJoined ==
    ASSUME NEW t \in Seq(ItemKinds), NEW J, JoinedItems(J, t), NEW spec, spec = J[Len(t)],
           NEW given, Trimmed(given) = spec
    PROVE  SplitItems(given) = t
<1>1. PICK L : L = Len(t)
  OBVIOUS
<1>2. L \in Nat
  BY <1>1
<1>3. spec \in Seq(ItemChars) /\ spec = J[L] /\ J[0] = <<>>
  <2>1. Len(t) \in 0..Len(t)
    BY <1>1, <1>2
  <2> QED
    BY <1>1, <2>1 DEF JoinedItems
<1>4. PICK R : Remembers(R, spec) /\ SplitItems(given) = Closed(R[Len(spec)], spec)
  BY <1>3, SplitMeans
<1>5. R[0] = Cut(<<>>, 1, 0)
  BY <1>4 DEF Remembers
<1> DEFINE State(n, b) == /\ Found(b, spec, J, t, n)
                          /\ R[Len(J[n])] = Cut(SubSeq(t, 1, n - 1), b + 1, 0)
           S == {n \in 0..L : n # 0 => \E b : State(n, b)}
<1>6. 0 \in S
  BY <1>2
<1>7. ASSUME NEW n \in 1..L, n - 1 \in S PROVE n \in S
  <2>1. n \in 1..Len(t) /\ n \in 0..L /\ n \in Nat
    BY <1>1, <1>2
  <2>2. PICK b : Found(b, spec, J, t, n)
    BY <2>1, ItemInWhole
  <2>3. PICK x : x = t[n]
    OBVIOUS
  <2>4. x \in ItemKinds /\ Len(x) \in Nat
    BY <2>1, <2>3, ElementIn, ItemMeans
  <2>5. /\ b \in Nat /\ b = IF n = 1 THEN 0 ELSE Len(J[n - 1]) + 1
        /\ Len(J[n]) = b + Len(x) /\ b + Len(x) <= Len(spec)
        /\ \A k \in 1..Len(x) : spec[b + k] = x[k]
        /\ n # 1 => spec[b] = Space
    BY <2>2, <2>3 DEF Found
  <2>6. R[b] = Cut(SubSeq(t, 1, n - 1), b + 1, 0)
    <3>1. CASE n = 1
      <4>1. b = 0 /\ b + 1 = 1 /\ n - 1 = 0
        BY <2>5, <3>1
      <4>2. SubSeq(t, 1, 0) = <<>>
        BY SubSeqEmpty
      <4> QED
        BY <1>5, <4>1, <4>2
    <3>2. CASE n # 1
      <4>1. PICK m : m = n - 1
        OBVIOUS
      <4>2. m \in S /\ m # 0 /\ m \in 1..Len(t) /\ m \in Nat
        BY <1>1, <1>2, <1>7, <2>1, <3>2, <4>1
      <4>3. PICK c : State(m, c)
        BY <4>2
      <4>4. PICK p : p = Len(J[m])
        OBVIOUS
      <4>5. PICK y : y = t[m]
        OBVIOUS
      <4>6. y \in ItemKinds /\ Len(y) \in Nat /\ Len(y) >= 1
        BY <4>2, <4>5, ElementIn, ItemMeans
      <4>7. c \in Nat /\ p = c + Len(y) /\ SubSeq(spec, c + 1, p) = y
        BY <4>3, <4>4, <4>5 DEF Found
      <4>8. b = p + 1
        BY <2>5, <3>2, <4>1, <4>4
      <4>9. PICK a : a = SubSeq(t, 1, m - 1)
        OBVIOUS
      <4>10. PICK s : s = c + 1
        OBVIOUS
      <4>11. R[p] = Cut(a, s, 0)
        BY <4>3, <4>4, <4>9, <4>10
      <4>12. p \in Nat /\ s \in Nat /\ s <= p
        BY <4>6, <4>7, <4>10
      <4>13. p + 1 \in 1..Len(spec) /\ spec[p + 1] = Space
        BY <1>3, <2>4, <2>5, <3>2, <4>8, <4>12
      <4>14. R[p + 1] = Cut(Append(a, SubSeq(spec, s, p)), p + 2, 0)
        BY <1>3, <1>4, <4>11, <4>12, <4>13, BetweenItems
      <4>15. Append(a, y) = SubSeq(t, 1, m)
        <5>1. 1 \in 1..Len(t) /\ m \in 1..Len(t) /\ m \in 1..Len(t) /\ m \in 1..m
          BY <4>2
        <5>2. SubSeq(t, 1, m) = SubSeq(t, 1, m - 1) \o <<t[m]>>
          <6>1. 1 \in 1..Len(t) /\ m \in 1..Len(t)
            BY <5>1
          <6> QED
            BY <6>1, SubSeqRecursiveSecond
        <5>3. a \in Seq(ItemKinds)
          <6>1. \A k \in 1..(m - 1) : k \in 1..Len(t)
            BY <4>2
          <6>2. \A k \in 1..(m - 1) : t[k] \in ItemKinds
            BY <6>1, ElementIn
          <6>3. PICK e : e = m - 1
            OBVIOUS
          <6>4. 1 \in Int /\ e \in Int /\ \A k \in 1..e : t[k] \in ItemKinds
            BY <4>2, <6>2, <6>3
          <6>5. SubSeq(t, 1, e) \in Seq(ItemKinds)
            BY <6>4, SubSeqProperties
          <6> QED
            BY <4>9, <6>3, <6>5
        <5>4. Append(a, y) = a \o <<y>>
          BY <4>6, <5>3, AppendIsConcat
        <5> QED
          BY <4>5, <4>9, <5>2, <5>4
      <4>16. p + 2 = b + 1 /\ p + 1 = b
        BY <4>8, <4>12
      <4> QED
        BY <4>1, <4>7, <4>10, <4>14, <4>15, <4>16
    <3> QED
      BY <3>1, <3>2
  <2>7. PICK a : a = SubSeq(t, 1, n - 1)
    OBVIOUS
  <2>8. PICK s : s = b + 1
    OBVIOUS
  <2>9. R[b] = Cut(a, s, 0)
    BY <2>6, <2>7, <2>8
  <2>10. R[b + Len(x)] = Cut(a, s, 0)
    <3>1. HasAt(spec, b, x)
      BY <2>5 DEF HasAt
    <3> QED
      BY <1>3, <1>4, <2>4, <2>5, <2>9, <3>1, Through
  <2>11. State(n, b)
    BY <2>2, <2>5, <2>7, <2>8, <2>10
  <2> QED
    BY <2>1, <2>11
<1>8. \A n \in 0..L : n \in S
  <2> HIDE DEF S
  <2> QED
    BY <1>2, <1>6, <1>7, Upwards
<1>9. CASE L = 0
  <2>1. t = <<>> /\ spec = <<>> /\ Len(spec) = 0
    <3>1. t = <<>>
      BY <1>1, <1>9, EmptySeq
    <3>2. spec = <<>>
      BY <1>3, <1>9
    <3> QED
      BY <3>1, <3>2
  <2>2. R[Len(spec)] = Cut(<<>>, 1, 0)
    BY <1>5, <2>1
  <2>3. Cut(<<>>, 1, 0).start = 1 /\ Cut(<<>>, 1, 0).items = <<>>
    BY DEF Cut
  <2>4. Closed(Cut(<<>>, 1, 0), spec) = <<>>
    BY <2>1, <2>3 DEF Closed
  <2> QED
    BY <1>4, <2>1, <2>2, <2>4
<1>10. CASE L # 0
  <2>1. L \in S /\ L \in 1..Len(t)
    BY <1>1, <1>2, <1>8, <1>10
  <2>2. PICK b : State(L, b)
    BY <1>10, <2>1
  <2>3. PICK x : x = t[L]
    OBVIOUS
  <2>4. x \in ItemKinds /\ Len(x) \in Nat /\ Len(x) >= 1
    BY <2>1, <2>3, ElementIn, ItemMeans
  <2>5. PICK m : m = Len(spec)
    OBVIOUS
  <2>6. b \in Nat /\ m = b + Len(x) /\ SubSeq(spec, b + 1, m) = x
    BY <1>3, <2>2, <2>3, <2>5 DEF Found
  <2>7. PICK a : a = SubSeq(t, 1, L - 1)
    OBVIOUS
  <2>8. PICK s : s = b + 1
    OBVIOUS
  <2>9. R[m] = Cut(a, s, 0)
    BY <1>3, <2>2, <2>5, <2>7, <2>8
  <2>10. Cut(a, s, 0).start = s /\ Cut(a, s, 0).items = a
    BY DEF Cut
  <2>11. s <= m
    BY <2>4, <2>6, <2>8
  <2>12. Closed(Cut(a, s, 0), spec) = Append(a, SubSeq(spec, s, m))
    BY <2>5, <2>10, <2>11 DEF Closed
  <2>13. Append(a, x) = t
    <3>1. 1 \in 1..Len(t) /\ L \in 1..Len(t)
      BY <2>1
    <3>2. SubSeq(t, 1, L) = SubSeq(t, 1, L - 1) \o <<t[L]>>
      BY <3>1, SubSeqRecursiveSecond
    <3>3. a \in Seq(ItemKinds)
      <4>1. \A k \in 1..(L - 1) : k \in 1..Len(t)
        BY <2>1
      <4>2. \A k \in 1..(L - 1) : t[k] \in ItemKinds
        BY <4>1, ElementIn
      <4>3. PICK e : e = L - 1
        OBVIOUS
      <4>4. 1 \in Int /\ e \in Int /\ \A k \in 1..e : t[k] \in ItemKinds
        BY <1>2, <4>2, <4>3
      <4>5. SubSeq(t, 1, e) \in Seq(ItemKinds)
        BY <4>4, SubSeqProperties
      <4> QED
        BY <2>7, <4>3, <4>5
    <3>4. Append(a, x) = a \o <<x>>
      BY <2>4, <3>3, AppendIsConcat
    <3>5. SubSeq(t, 1, L) = t
      BY <1>1, SubSeqFull
    <3> QED
      BY <2>3, <2>7, <3>2, <3>4, <3>5
  <2> QED
    BY <1>4, <2>5, <2>6, <2>8, <2>9, <2>12, <2>13
<1> QED
  BY <1>9, <1>10

\* A list without parentheses around it is left alone.
LEMMA TrimPlain ==
    ASSUME NEW spec, spec # <<>> => spec[1] # "(" /\ spec[Len(spec)] # ")"
    PROVE  Trimmed(spec) = spec
BY DEF Trimmed

\* The parentheses around it are taken off.
LEMMA TrimOuter ==
    ASSUME NEW spec \in Seq(ItemChars)
    PROVE  Trimmed(<<"(">> \o spec \o <<")">>) = spec
<1> DEFINE o == <<"(">>
           c == <<")">>
           u == o \o spec
           g == u \o c
<1>1. /\ o \in Seq(ItemChars) /\ Len(o) = 1 /\ o[1] = "("
      /\ c \in Seq(ItemChars) /\ Len(c) = 1 /\ c[1] = ")"
  BY Single DEF ItemChars
<1> HIDE DEF o, c
<1>2. PICK n : n = Len(spec)
  OBVIOUS
<1>3. n \in Nat
  BY <1>2
<1>4. /\ u \in Seq(ItemChars) /\ Len(u) = 1 + n /\ u[1] = "("
      /\ \A k \in 1..n : u[1 + k] = spec[k]
  <2>1. /\ u \in Seq(ItemChars) /\ Len(u) = Len(o) + Len(spec)
        /\ \A k \in 1..Len(o) : u[k] = o[k]
        /\ \A k \in 1..Len(spec) : u[Len(o) + k] = spec[k]
    BY <1>1, ItemJoin
  <2> QED
    BY <1>1, <1>2, <2>1
<1> HIDE DEF u
<1>5. /\ g \in Seq(ItemChars) /\ Len(g) = (1 + n) + 1
      /\ \A k \in 1..(1 + n) : g[k] = u[k]
      /\ g[(1 + n) + 1] = ")"
  <2>1. /\ g \in Seq(ItemChars) /\ Len(g) = Len(u) + Len(c)
        /\ \A k \in 1..Len(u) : g[k] = u[k]
        /\ \A k \in 1..Len(c) : g[Len(u) + k] = c[k]
    BY <1>1, <1>4, ItemJoin
  <2> QED
    BY <1>1, <1>4, <2>1
<1> HIDE DEF g
<1>6. g # <<>> /\ g[1] = "("
  <2>1. Len(g) # 0 /\ 1 \in 1..(1 + n)
    BY <1>3, <1>5
  <2>2. g # <<>>
    BY <2>1
  <2> QED
    BY <1>4, <1>5, <2>1, <2>2
<1>7. PICK a : a = Tail(g)
  OBVIOUS
<1>8. a \in Seq(ItemChars) /\ Len(a) = n + 1 /\ \A k \in 1..(n + 1) : a[k] = g[k + 1]
  <2>1. /\ Tail(g) \in Seq(ItemChars) /\ Len(Tail(g)) = Len(g) - 1
        /\ \A k \in 1..Len(Tail(g)) : Tail(g)[k] = g[k + 1]
    BY <1>5, <1>6, HeadTailProperties
  <2>2. Len(g) - 1 = n + 1
    BY <1>3, <1>5
  <2> QED
    BY <1>7, <2>1, <2>2
<1>9. a # <<>> /\ a[Len(a)] = ")" /\ Len(a) - 1 = n
  <2>1. n + 1 \in 1..(n + 1) /\ (n + 1) + 1 = (1 + n) + 1 /\ (n + 1) - 1 = n /\ n + 1 # 0
    BY <1>3
  <2>2. a[n + 1] = ")"
    BY <1>5, <1>8, <2>1
  <2>3. a # <<>>
    BY <1>8, <2>1
  <2> QED
    BY <1>8, <2>1, <2>2, <2>3
<1>10. SubSeq(a, 1, n) = spec
  <2> DEFINE v == SubSeq(a, 1, n)
  <2>1. n <= Len(a) /\ 1 <= n + 1 /\ (n + 1) - 1 = n /\ 1 \in Nat /\ 1 <= 1
    BY <1>3, <1>8
  <2>2. v \in Seq(ItemChars) /\ Len(v) = (n + 1) - 1 /\ \A k \in 1..((n + 1) - 1) : v[k] = a[(1 + k) - 1]
    BY <1>3, <1>8, <2>1, Piece
  <2> HIDE DEF v
  <2>3. \A k \in 1..n : (1 + k) - 1 = k /\ k \in 1..(n + 1) /\ k + 1 = 1 + k /\ 1 + k \in 1..(1 + n)
    BY <1>3
  <2>4. \A k \in 1..n : v[k] = spec[k]
    BY <1>4, <1>5, <1>8, <2>1, <2>2, <2>3
  <2>5. Len(v) = Len(spec) /\ \A k \in 1..Len(v) : v[k] = spec[k]
    BY <1>2, <2>1, <2>2, <2>4
  <2>6. v = spec
    BY <2>2, <2>5, SameSeq
  <2> QED
    BY <2>6 DEF v
<1>11. Trimmed(g) = SubSeq(a, 1, Len(a) - 1)
  BY <1>6, <1>7, <1>9 DEF Trimmed
<1> QED
  BY <1>9, <1>10, <1>11 DEF g, u, o, c

\* The items of a list are split where they were joined, with or without parentheses.
LEMMA ItemsRight == TextInv => ItemsKeepTheirFields
<1> SUFFICES ASSUME TextInv, kind = "items" PROVE ItemsKeepTheirFields
  BY DEF ItemsKeepTheirFields
<1>1. text \in Seq(ItemKinds)
  BY Zenon DEF TextInv, Alphabet, ItemKinds, PlainItem, ListItem, Space
<1>2. PICK J : J = CHOOSE f : JoinsUpTo(f, text)
  OBVIOUS
<1>3. JoinedItems(J, text)
  BY <1>1, <1>2, JoinMeans
<1>4. PICK L : L = Len(text)
  OBVIOUS
<1>5. L \in Nat
  BY <1>1, <1>4
<1>6. PICK spec : spec = J[L]
  OBVIOUS
<1>7. spec \in Seq(ItemChars)
  <2>1. L \in 0..Len(text)
    BY <1>4, <1>5
  <2> QED
    BY <1>3, <1>6, <2>1 DEF JoinedItems
<1>8. spec # <<>> => spec[1] # "(" /\ spec[Len(spec)] # ")"
  <2>1. CASE L = 0
    <3>1. spec = <<>>
      BY <1>3, <1>6, <2>1 DEF JoinedItems
    <3> QED
      BY <3>1
  <2>2. CASE L # 0
    <3>1. 1 \in 1..Len(text) /\ L \in 1..Len(text)
      BY <1>4, <1>5, <2>2
    <3>2. spec = J[Len(text)]
      BY <1>4, <1>6
    <3>3. PICK b : Found(b, spec, J, text, 1)
      BY <1>1, <1>3, <3>1, <3>2, ItemInWhole
    <3>4. PICK c : Found(c, spec, J, text, L)
      BY <1>1, <1>3, <3>1, <3>2, ItemInWhole
    <3>5. PICK x : x = text[1]
      OBVIOUS
    <3>6. PICK y : y = text[L]
      OBVIOUS
    <3>7. /\ Len(x) \in Nat /\ Len(x) >= 1 /\ x[1] = "w"
      BY <1>1, <3>1, <3>5, ElementIn, ItemMeans
    <3>8. Len(y) \in Nat /\ Len(y) >= 1 /\ y[Len(y)] # ")"
      BY <1>1, <3>1, <3>6, ElementIn, ItemMeans
    <3>9. b = 0 /\ \A k \in 1..Len(x) : spec[b + k] = x[k]
      BY <3>3, <3>5 DEF Found
    <3>10. c \in Nat /\ Len(spec) = c + Len(y) /\ \A k \in 1..Len(y) : spec[c + k] = y[k]
      BY <1>6, <3>4, <3>6 DEF Found
    <3>11. spec[1] = "w"
      <4>1. 1 \in 1..Len(x) /\ 0 + 1 = 1
        BY <3>7
      <4> QED
        BY <3>7, <3>9, <4>1
    <3>12. spec[Len(spec)] = y[Len(y)]
      <4>1. Len(y) \in 1..Len(y)
        BY <3>8
      <4> QED
        BY <3>10, <4>1
    <3>13. "w" # "("
      OBVIOUS
    <3> QED
      BY <3>8, <3>11, <3>12, <3>13
  <2> QED
    BY <2>1, <2>2
<1>9. Trimmed(spec) = spec
  BY <1>8, TrimPlain
<1>10. Trimmed(<<"(">> \o spec \o <<")">>) = spec
  BY <1>7, TrimOuter
<1>11. spec = J[Len(text)]
  BY <1>4, <1>6
<1>12. SplitItems(spec) = text
  BY <1>1, <1>3, <1>9, <1>11, SplitJoined
<1>13. SplitItems(<<"(">> \o spec \o <<")">>) = text
  <2>1. PICK g : g = <<"(">> \o spec \o <<")">>
    OBVIOUS
  <2>2. SplitItems(g) = text
    BY <1>1, <1>3, <1>10, <1>11, <2>1, SplitJoined
  <2> QED
    BY <2>1, <2>2
<1> QED
  BY <1>2, <1>11, <1>12, <1>13, Zenon DEF ItemsKeepTheirFields, JoinsUpTo, Space

\* The words of a SEARCH command.
Tokens == FlagKeys \cup Words \cup {"NOT", "OR", "FROM", "UID", "HEADER"}

TokAt(crit, i) == IF i <= Len(crit) THEN crit[i] ELSE ""

\* What the criterion that starts at i asks of a message.
AsksAt(m, crit, i) ==
    CASE crit[i] \in {"FROM", "UID"} -> HoldsArg(m, crit[i], TokAt(crit, i + 1))
      [] crit[i] = "HEADER" -> HoldsHeader(m, TokAt(crit, i + 1), TokAt(crit, i + 2))
      [] crit[i] = "NOT" -> i < Len(crit) => ~HoldsAlone(m, crit[i + 1])
      [] OTHER -> HoldsFlag(m, crit[i])

MatchesFrom(f, m, crit) ==
    f = [i \in 1..(Len(crit) + 3) |->
            \/ i > Len(crit)
            \/ /\ AsksAt(m, crit, i)
               /\ f[i + Width(crit[i])]]

\* A key takes itself and at most two arguments.
LEMMA WidthMeans ==
    ASSUME NEW tok
    PROVE  Width(tok) \in 1..3
BY DEF Width

\* Matches goes through the words, a criterion at a time.
LEMMA MatchMeans ==
    ASSUME NEW m, NEW crit \in Seq(Tokens)
    PROVE  \E f : MatchesFrom(f, m, crit) /\ Matches(m, crit) = f[1]
<1> DEFINE n == Len(crit)
           D == 1..(n + 3)
           V == BOOLEAN
           mu == [i \in D |-> (n + 3) - i]
           Value(i, f) == i > n \/ (AsksAt(m, crit, i) /\ f[i + Width(crit[i])])
           G == [i \in D |-> [f \in [D -> V] |-> Value(i, f)]]
           M == CHOOSE f : MatchesFrom(f, m, crit)
<1>1. n \in Nat
  OBVIOUS
<1>2. \A i \in D : mu[i] = (n + 3) - i /\ mu[i] \in Nat /\ mu[i] < n + 3
  BY <1>1
<1>3. mu \in [D -> Nat] /\ n + 3 \in Nat
  BY <1>1
<1>4. \A i \in D : ~(i > n) => i + Width(crit[i]) \in D /\ (n + 3) - (i + Width(crit[i])) < (n + 3) - i
  <2> SUFFICES ASSUME NEW i \in D, ~(i > n)
               PROVE  i + Width(crit[i]) \in D /\ (n + 3) - (i + Width(crit[i])) < (n + 3) - i
    OBVIOUS
  <2>1. PICK w : w = Width(crit[i])
    OBVIOUS
  <2>2. w \in 1..3
    BY <2>1, WidthMeans
  <2>3. i + w \in D /\ (n + 3) - (i + w) < (n + 3) - i
    BY <1>1, <2>2
  <2> QED
    BY <2>1, <2>3
<1> HIDE DEF D, n, mu
<1>5. \A i \in D : \A f \in [D -> V] : Value(i, f) \in BOOLEAN
  BY Zenon
<1>6. ASSUME NEW i \in D, NEW f, NEW g, \A k \in D : mu[k] < mu[i] => f[k] = g[k]
      PROVE  Value(i, f) = Value(i, g)
  <2>1. CASE i > n
    BY <2>1
  <2>2. CASE ~(i > n)
    <3>1. PICK k : k = i + Width(crit[i])
      OBVIOUS
    <3>2. k \in D /\ mu[k] < mu[i]
      BY <1>2, <1>4, <2>2, <3>1
    <3>3. f[k] = g[k]
      BY <1>6, <3>2
    <3> QED
      BY <3>1, <3>3
  <2> QED
    BY <2>1, <2>2
<1> HIDE DEF Value
<1>7. \A i \in D : \A f \in [D -> V] : G[i][f] = Value(i, f)
  BY Zenon
<1>8. G \in [D -> [[D -> V] -> V]]
  BY <1>5, Zenon
<1> HIDE DEF G
<1>9. PICK B : B = n + 3
  OBVIOUS
<1>10. Local(D, V, mu, B, G)
  <2>1. \A i \in D : \A f, g \in [D -> V] :
            (\A k \in D : mu[k] < mu[i] => f[k] = g[k]) => G[i][f] = G[i][g]
    <3> SUFFICES ASSUME NEW i \in D, NEW f \in [D -> V], NEW g \in [D -> V],
                        \A k \in D : mu[k] < mu[i] => f[k] = g[k]
                 PROVE  G[i][f] = G[i][g]
      BY Zenon
    <3>1. Value(i, f) = Value(i, g)
      BY <1>6
    <3>2. G[i][f] = Value(i, f) /\ G[i][g] = Value(i, g)
      BY <1>7, Zenon
    <3> QED
      BY <3>1, <3>2, Zenon
  <2>2. B \in Nat /\ \A i \in D : mu[i] < B
    BY <1>2, <1>3, <1>9
  <2> QED
    BY <1>3, <1>8, <2>1, <2>2, Zenon DEF Local
<1>11. PICK f : Solves(f, D, V, G)
  <2>1. PICK U : U = BOOLEAN
    OBVIOUS
  <2>2. PICK v0 : v0 = FALSE
    OBVIOUS
  <2>3. v0 \in U /\ Local(D, U, mu, B, G)
    BY <1>10, <2>1, <2>2, Zenon
  <2>4. \E f : Solves(f, D, U, G)
    BY <2>3, Recursion
  <2> QED
    BY <2>1, <2>4, Zenon
<1>12. MatchesFrom(f, m, crit)
  <2>1. f \in [D -> V] /\ \A i \in D : f[i] = Value(i, f)
    BY <1>7, <1>11, Zenon DEF Solves
  <2>2. f = [i \in D |-> Value(i, f)]
    BY <2>1, Zenon
  <2> QED
    BY <2>2, Zenon DEF MatchesFrom, Value, D, n
<1>13. MatchesFrom(M, m, crit)
  BY <1>12, Zenon
<1>14. Matches(m, crit) = M[1]
  BY Zenon DEF Matches, MatchesFrom, AsksAt, TokAt
<1> QED
  BY <1>13, <1>14, Zenon

FlattensUpTo(f, t) == f = [n \in 0..Len(t) |-> IF n = 0 THEN <<>> ELSE f[n - 1] \o t[n]]

Flattened(F, t) ==
    /\ F \in [0..Len(t) -> Seq(Tokens)] /\ F[0] = <<>>
    /\ \A n \in 1..Len(t) : F[n] = F[n - 1] \o t[n]

\* The function that joins the criteria exists.
LEMMA FlatMeans ==
    ASSUME NEW t \in Seq(Seq(Tokens)), NEW Ch, Ch = CHOOSE f : FlattensUpTo(f, t)
    PROVE  Flattened(Ch, t)
<1> DEFINE L == Len(t)
           V == Seq(Tokens)
           H == [n \in 1..L |-> [v \in V |-> v \o t[n]]]
<1>1. L \in Nat
  OBVIOUS
<1>2. \A n \in 1..L : t[n] \in V
  BY ElementIn
<1>3. <<>> \in V
  OBVIOUS
<1>4. \A u, v \in V : u \o v \in V
  BY Joined
<1> HIDE DEF V, L
<1>5. \A n \in 1..L : \A v \in V : v \o t[n] \in V
  BY <1>2, <1>4
<1>6. Steps(L, V, H)
  BY <1>5 DEF Steps
<1>7. \A n \in 1..L : \A v \in V : H[n][v] = v \o t[n]
  OBVIOUS
<1> HIDE DEF H
<1>8. PICK f : Follows(f, L, V, <<>>, H)
  BY <1>1, <1>3, <1>6, CountRecursion
<1>9. f \in [0..L -> V] /\ f[0] = <<>> /\ \A n \in 1..L : f[n] = f[n - 1] \o t[n]
  <2>1. \A n \in 1..L : n - 1 \in 0..L
    BY <1>1
  <2> QED
    BY <1>7, <1>8, <2>1 DEF Follows
<1>10. FlattensUpTo(f, t)
  <2>1. \A n \in 0..L : n # 0 => n \in 1..L
    BY <1>1
  <2>2. f = [n \in 0..L |-> f[n]]
    BY <1>9
  <2>3. f = [n \in 0..L |-> IF n = 0 THEN <<>> ELSE f[n - 1] \o t[n]]
    BY <1>9, <2>1, <2>2
  <2> QED
    BY <2>3 DEF FlattensUpTo, L
<1>11. FlattensUpTo(Ch, t)
  BY <1>10
<1>12. Ch = [n \in 0..L |-> IF n = 0 THEN <<>> ELSE Ch[n - 1] \o t[n]]
  BY <1>11 DEF FlattensUpTo, L
<1>13. Ch[0] = <<>> /\ \A n \in 1..L : Ch[n] = Ch[n - 1] \o t[n]
  <2>1. 0 \in 0..L /\ \A n \in 1..L : n \in 0..L /\ n # 0
    BY <1>1
  <2> QED
    BY <1>12, <2>1
<1>14. \A k \in 0..L : k \in {n \in 0..L : Ch[n] \in V}
  <2> DEFINE S == {n \in 0..L : Ch[n] \in V}
  <2>1. 0 \in S
    BY <1>1, <1>3, <1>13
  <2>2. ASSUME NEW n \in 1..L, n - 1 \in S PROVE n \in S
    <3>1. n \in 0..L /\ Ch[n - 1] \in V
      BY <1>1, <2>2
    <3>2. Ch[n] \in V
      BY <1>5, <1>13, <3>1
    <3> QED
      BY <3>1, <3>2
  <2> HIDE DEF S
  <2>3. \A k \in 0..L : k \in S
    BY <1>1, <2>1, <2>2, Upwards
  <2> QED
    BY <2>3 DEF S
<1>15. Ch \in [0..L -> V]
  BY <1>12, <1>14
<1> QED
  BY <1>13, <1>15 DEF Flattened, L, V

\* A key without arguments is none of those that have some.
LEMMA FlagKeyApart ==
    ASSUME NEW k \in FlagKeys
    PROVE  k # "FROM" /\ k # "UID" /\ k # "HEADER" /\ k # "NOT"
BY DEF FlagKeys

\* Alone, a key without arguments asks what it asks of a flag.
LEMMA AloneIsFlag ==
    ASSUME NEW m, NEW k \in FlagKeys
    PROVE  HoldsAlone(m, k) = HoldsFlag(m, k)
BY FlagKeyApart DEF HoldsAlone

\* A plain criterion stands for itself wherever it is in the command: all of
\* its words are taken, and they ask what it asks.
LEMMA PlainAt ==
    ASSUME NEW m, NEW crit, Len(crit) \in Nat, NEW c \in PlainCriteria, NEW p \in Nat,
           HasAt(crit, p, c)
    PROVE  /\ c \in Seq(Tokens) /\ Len(c) \in Nat /\ Len(c) >= 1
           /\ Width(crit[p + 1]) = Len(c)
           /\ AsksAt(m, crit, p + 1) <=> Meant(m, c)
<1>1. PICK n : n = Len(crit)
  OBVIOUS
<1>2. p + Len(c) <= n /\ \A k \in 1..Len(c) : crit[p + k] = c[k]
  BY <1>1 DEF HasAt
<1>3. n \in Nat
  BY <1>1
<1>4. CASE \E k \in FlagKeys : c = <<k>>
  <2>1. PICK k \in FlagKeys : c = <<k>>
    BY <1>4
  <2>2. k \in Tokens
    BY DEF Tokens
  <2>3. c \in Seq(Tokens) /\ Len(c) = 1 /\ c[1] = k
    BY <2>1, <2>2, Single
  <2>4. crit[p + 1] = k
    BY <1>2, <2>3
  <2>5. k # "FROM" /\ k # "UID" /\ k # "HEADER" /\ k # "NOT"
    BY FlagKeyApart
  <2>6. Width(k) = 1
    BY <2>5 DEF Width
  <2>7. AsksAt(m, crit, p + 1) = HoldsFlag(m, k)
    BY <2>4, <2>5 DEF AsksAt
  <2>8. Meant(m, c) = HoldsFlag(m, k)
    BY <2>3, <2>5 DEF Meant
  <2> QED
    BY <2>3, <2>4, <2>6, <2>7, <2>8
<1>5. CASE \E k \in FlagKeys : c = <<"NOT", k>>
  <2>1. PICK k \in FlagKeys : c = <<"NOT", k>>
    BY <1>5
  <2>2. k \in Tokens /\ "NOT" \in Tokens
    BY DEF Tokens
  <2>3. c \in Seq(Tokens) /\ Len(c) = 2 /\ c[1] = "NOT" /\ c[2] = k
    BY <2>1, <2>2
  <2>4. crit[p + 1] = "NOT" /\ crit[p + 2] = k
    BY <1>2, <2>3
  <2>5. p + 1 < n /\ (p + 1) + 1 = p + 2
    BY <1>2, <1>3, <2>3
  <2>6. Width("NOT") = 2
    BY DEF Width
  <2>7. AsksAt(m, crit, p + 1) <=> ~HoldsAlone(m, k)
    <3>1. crit[p + 1] \notin {"FROM", "UID"} /\ crit[p + 1] # "HEADER"
      BY <2>4
    <3>2. AsksAt(m, crit, p + 1) = (p + 1 < Len(crit) => ~HoldsAlone(m, crit[(p + 1) + 1]))
      BY <2>4, <3>1 DEF AsksAt
    <3> QED
      BY <1>1, <2>4, <2>5, <3>2
  <2>8. HoldsAlone(m, k) = HoldsFlag(m, k)
    BY AloneIsFlag
  <2>9. Meant(m, c) = ~HoldsFlag(m, k)
    BY <2>3 DEF Meant
  <2>10. AsksAt(m, crit, p + 1) <=> Meant(m, c)
    BY <2>7, <2>8, <2>9, Zenon
  <2> QED
    BY <2>3, <2>4, <2>6, <2>10
<1>6. CASE \E w \in Words : c = <<"FROM", w>>
  <2>1. PICK w \in Words : c = <<"FROM", w>>
    BY <1>6
  <2>2. w \in Tokens /\ "FROM" \in Tokens
    BY DEF Tokens
  <2>3. c \in Seq(Tokens) /\ Len(c) = 2 /\ c[1] = "FROM" /\ c[2] = w
    BY <2>1, <2>2
  <2>4. crit[p + 1] = "FROM" /\ crit[p + 2] = w
    BY <1>2, <2>3
  <2>5. p + 2 <= n /\ (p + 1) + 1 = p + 2
    BY <1>2, <1>3, <2>3
  <2>6. Width("FROM") = 2
    BY DEF Width
  <2>7. TokAt(crit, (p + 1) + 1) = w
    BY <1>1, <2>4, <2>5 DEF TokAt
  <2>8. AsksAt(m, crit, p + 1) = HoldsArg(m, "FROM", w)
    BY <2>4, <2>7 DEF AsksAt
  <2>9. Meant(m, c) = HoldsArg(m, "FROM", w)
    BY <2>3 DEF Meant
  <2> QED
    BY <2>3, <2>4, <2>6, <2>8, <2>9
<1>7. CASE c = <<"UID", "1">>
  <2>2. "1" \in Tokens /\ "UID" \in Tokens
    BY DEF Tokens, Words
  <2>3. c \in Seq(Tokens) /\ Len(c) = 2 /\ c[1] = "UID" /\ c[2] = "1"
    BY <1>7, <2>2
  <2>4. crit[p + 1] = "UID" /\ crit[p + 2] = "1"
    BY <1>2, <2>3
  <2>5. p + 2 <= n /\ (p + 1) + 1 = p + 2
    BY <1>2, <1>3, <2>3
  <2>6. Width("UID") = 2
    BY DEF Width
  <2>7. TokAt(crit, (p + 1) + 1) = "1"
    BY <1>1, <2>4, <2>5 DEF TokAt
  <2>8. AsksAt(m, crit, p + 1) = HoldsArg(m, "UID", "1")
    BY <2>4, <2>7 DEF AsksAt
  <2>9. Meant(m, c) = HoldsArg(m, "UID", "1")
    BY <2>3 DEF Meant
  <2> QED
    BY <2>3, <2>4, <2>6, <2>8, <2>9
<1>8. CASE \E w \in Words : c = <<"HEADER", "x", w>>
  <2>1. PICK w \in Words : c = <<"HEADER", "x", w>>
    BY <1>8
  <2>2. w \in Tokens /\ "HEADER" \in Tokens /\ "x" \in Tokens
    BY DEF Tokens, Words
  <2>3. c \in Seq(Tokens) /\ Len(c) = 3 /\ c[1] = "HEADER" /\ c[2] = "x" /\ c[3] = w
    BY <2>1, <2>2
  <2>4. crit[p + 1] = "HEADER" /\ crit[p + 2] = "x" /\ crit[p + 3] = w
    BY <1>2, <2>3
  <2>5. p + 2 <= n /\ (p + 1) + 1 = p + 2 /\ p + 3 <= n /\ (p + 1) + 2 = p + 3
    BY <1>2, <1>3, <2>3
  <2>6. Width("HEADER") = 3
    BY DEF Width
  <2>7. TokAt(crit, (p + 1) + 1) = "x" /\ TokAt(crit, (p + 1) + 2) = w
    BY <1>1, <2>4, <2>5 DEF TokAt
  <2>8. AsksAt(m, crit, p + 1) = HoldsHeader(m, "x", w)
    <3>1. crit[p + 1] \notin {"FROM", "UID"}
      BY <2>4
    <3> QED
      BY <2>4, <2>7, <3>1 DEF AsksAt
  <2>9. Meant(m, c) = HoldsHeader(m, "x", w)
    <3>1. c[1] # "NOT" /\ c[1] \notin {"FROM", "UID"}
      BY <2>3
    <3> QED
      BY <2>3, <3>1 DEF Meant
  <2> QED
    BY <2>3, <2>4, <2>6, <2>8, <2>9
<1> QED
  BY <1>4, <1>5, <1>6, <1>7, <1>8 DEF PlainCriteria

\* Every word but these five is a key, or nothing.
Loose == FlagKeys \cup Words

\* A word on its own, and a word after NOT.
LEMMA TokenAt ==
    ASSUME NEW m, NEW crit, Len(crit) \in Nat, NEW i \in 1..Len(crit)
    PROVE  /\ crit[i] \in Loose \cup {"OR"} =>
                Width(crit[i]) = 1 /\ AsksAt(m, crit, i) = HoldsFlag(m, crit[i])
           /\ crit[i] = "NOT" /\ i < Len(crit) =>
                Width(crit[i]) = 2 /\ (AsksAt(m, crit, i) <=> ~HoldsAlone(m, crit[i + 1]))
<1>1. ASSUME crit[i] \in Loose \cup {"OR"}
      PROVE  Width(crit[i]) = 1 /\ AsksAt(m, crit, i) = HoldsFlag(m, crit[i])
  <2>1. crit[i] \notin {"FROM", "UID", "NOT"} /\ crit[i] # "HEADER"
    BY <1>1 DEF Loose, FlagKeys, Words
  <2> QED
    BY <2>1 DEF Width, AsksAt
<1>2. ASSUME crit[i] = "NOT", i < Len(crit)
      PROVE  Width(crit[i]) = 2 /\ (AsksAt(m, crit, i) <=> ~HoldsAlone(m, crit[i + 1]))
  <2>1. crit[i] \notin {"FROM", "UID"} /\ crit[i] # "HEADER"
    BY <1>2
  <2>2. AsksAt(m, crit, i) = (i < Len(crit) => ~HoldsAlone(m, crit[i + 1]))
    BY <1>2, <2>1 DEF AsksAt
  <2> QED
    BY <1>2, <2>2 DEF Width
<1> QED
  BY <1>1, <1>2

\* How f goes through the words of crit.
Goes(f, m, crit) ==
    \A i \in 1..Len(crit) : f[i] <=> (AsksAt(m, crit, i) /\ f[i + Width(crit[i])])

\* The shapes of a nested criterion.
NestedShape(c) ==
    \/ \E j, k \in Loose : c = <<"OR", j, k>>
    \/ \E t \in {"FROM", "UID", "NOT"}, k \in Loose : c = <<"NOT", t, k>>
    \/ \E w \in Loose : c = <<"NOT", "HEADER", "x", w>>

LEMMA NestedShapes ==
    ASSUME NEW c \in NestedCriteria
    PROVE  NestedShape(c)
<1>1. FlagKeys \subseteq Loose /\ Words \subseteq Loose /\ "1" \in Loose
  BY DEF Loose, Words
<1>2. CASE \E w \in Words : c = <<"NOT", "FROM", w>> \/ c = <<"NOT", "HEADER", "x", w>>
  BY <1>1, <1>2 DEF NestedShape
<1>3. CASE c = <<"NOT", "UID", "1">>
  BY <1>1, <1>3 DEF NestedShape
<1>4. CASE \E k \in FlagKeys : c = <<"NOT", "NOT", k>>
  BY <1>1, <1>4 DEF NestedShape
<1>5. CASE \E j, k \in FlagKeys : c = <<"OR", j, k>>
  BY <1>1, <1>5 DEF NestedShape
<1> QED
  BY <1>2, <1>3, <1>4, <1>5 DEF NestedCriteria

\* A nested criterion is read a word, or NOT and a word, at a time, and no
\* further than it goes.
LEMMA NestedAt ==
    ASSUME NEW m, NEW crit, Len(crit) \in Nat, NEW c \in NestedCriteria, NEW p \in Nat,
           HasAt(crit, p, c), NEW f, Goes(f, m, crit)
    PROVE  /\ c \in Seq(Tokens) /\ Len(c) \in Nat /\ Len(c) >= 1
           /\ f[p + 1] <=> (Taken(m, c) /\ f[p + Len(c) + 1])
<1>1. PICK n : n = Len(crit)
  OBVIOUS
<1>2. p + Len(c) <= n /\ \A k \in 1..Len(c) : crit[p + k] = c[k]
  BY <1>1 DEF HasAt
<1>3. n \in Nat
  BY <1>1
<1>4. Loose \subseteq Tokens /\ {"NOT", "OR", "FROM", "UID", "HEADER", "x"} \subseteq Tokens /\ "x" \in Loose
  BY DEF Loose, Tokens, Words
<1>5. \A i \in 1..n : crit[i] \in Loose \cup {"OR"} => (f[i] <=> (HoldsFlag(m, crit[i]) /\ f[i + 1]))
  <2> SUFFICES ASSUME NEW i \in 1..n, crit[i] \in Loose \cup {"OR"}
               PROVE  f[i] <=> (HoldsFlag(m, crit[i]) /\ f[i + 1])
    OBVIOUS
  <2>1. Width(crit[i]) = 1 /\ AsksAt(m, crit, i) = HoldsFlag(m, crit[i])
    BY <1>1, TokenAt
  <2>2. f[i] <=> (AsksAt(m, crit, i) /\ f[i + Width(crit[i])])
    BY <1>1 DEF Goes
  <2> QED
    BY <2>1, <2>2
<1>6. \A i \in 1..n : crit[i] = "NOT" /\ i < n => (f[i] <=> (~HoldsAlone(m, crit[i + 1]) /\ f[i + 2]))
  <2> SUFFICES ASSUME NEW i \in 1..n, crit[i] = "NOT", i < n
               PROVE  f[i] <=> (~HoldsAlone(m, crit[i + 1]) /\ f[i + 2])
    OBVIOUS
  <2>1. Width(crit[i]) = 2 /\ (AsksAt(m, crit, i) <=> ~HoldsAlone(m, crit[i + 1]))
    BY <1>1, TokenAt
  <2>2. f[i] <=> (AsksAt(m, crit, i) /\ f[i + Width(crit[i])])
    BY <1>1 DEF Goes
  <2> QED
    BY <2>1, <2>2
<1>7. CASE \E j, k \in Loose : c = <<"OR", j, k>>
  <2>1. PICK j \in Loose, k \in Loose : c = <<"OR", j, k>>
    BY <1>7
  <2>2. c \in Seq(Tokens) /\ Len(c) = 3 /\ c[1] = "OR" /\ c[2] = j /\ c[3] = k
    BY <1>4, <2>1
  <2>3. crit[p + 1] = "OR" /\ crit[p + 2] = j /\ crit[p + 3] = k
    BY <1>2, <2>2
  <2>4. /\ p + 1 \in 1..n /\ p + 2 \in 1..n /\ p + 3 \in 1..n
        /\ (p + 1) + 1 = p + 2 /\ (p + 2) + 1 = p + 3 /\ (p + 3) + 1 = p + 4 /\ p + Len(c) + 1 = p + 4
    BY <1>2, <1>3, <2>2
  <2>5. f[p + 1] <=> (HoldsFlag(m, "OR") /\ f[p + 2])
    BY <1>5, <2>3, <2>4
  <2>6. f[p + 2] <=> (HoldsFlag(m, j) /\ f[p + 3])
    BY <1>5, <2>3, <2>4
  <2>7. f[p + 3] <=> (HoldsFlag(m, k) /\ f[p + 4])
    BY <1>5, <2>3, <2>4
  <2>8. HoldsFlag(m, "OR")
    BY DEF HoldsFlag
  <2>9. Taken(m, c) <=> HoldsFlag(m, j) /\ HoldsFlag(m, k)
    <3>1. 2..Len(c) = {2, 3}
      BY <2>2
    <3>2. Taken(m, c) <=> \A i \in {2, 3} : HoldsFlag(m, c[i])
      BY <2>2, <3>1 DEF Taken
    <3> QED
      BY <2>2, <3>2
  <2> QED
    BY <2>2, <2>4, <2>5, <2>6, <2>7, <2>8, <2>9
<1>8. CASE \E t \in {"FROM", "UID", "NOT"}, k \in Loose : c = <<"NOT", t, k>>
  <2>1. PICK t \in {"FROM", "UID", "NOT"}, k \in Loose : c = <<"NOT", t, k>>
    BY <1>8
  <2>2. c \in Seq(Tokens) /\ Len(c) = 3 /\ c[1] = "NOT" /\ c[2] = t /\ c[3] = k
    BY <1>4, <2>1
  <2>3. crit[p + 1] = "NOT" /\ crit[p + 2] = t /\ crit[p + 3] = k
    BY <1>2, <2>2
  <2>4. /\ p + 1 \in 1..n /\ p + 3 \in 1..n /\ p + 1 < n
        /\ (p + 1) + 1 = p + 2 /\ (p + 1) + 2 = p + 3 /\ (p + 3) + 1 = p + 4 /\ p + Len(c) + 1 = p + 4
    BY <1>2, <1>3, <2>2
  <2>5. f[p + 1] <=> (~HoldsAlone(m, t) /\ f[p + 3])
    BY <1>6, <2>3, <2>4
  <2>6. f[p + 3] <=> (HoldsFlag(m, k) /\ f[p + 4])
    BY <1>5, <2>3, <2>4
  <2>7. Taken(m, c) <=> ~HoldsAlone(m, t) /\ HoldsFlag(m, k)
    <3>1. 3..Len(c) = {3}
      BY <2>2
    <3>2. Taken(m, c) <=> (~HoldsAlone(m, c[2]) /\ \A i \in {3} : HoldsFlag(m, c[i]))
      BY <2>2, <3>1 DEF Taken
    <3> QED
      BY <2>2, <3>2
  <2> QED
    BY <2>2, <2>4, <2>5, <2>6, <2>7
<1>9. CASE \E w \in Loose : c = <<"NOT", "HEADER", "x", w>>
  <2>1. PICK w \in Loose : c = <<"NOT", "HEADER", "x", w>>
    BY <1>9
  <2>2. c \in Seq(Tokens) /\ Len(c) = 4 /\ c[1] = "NOT" /\ c[2] = "HEADER" /\ c[3] = "x" /\ c[4] = w
    BY <1>4, <2>1
  <2>3. crit[p + 1] = "NOT" /\ crit[p + 2] = "HEADER" /\ crit[p + 3] = "x" /\ crit[p + 4] = w
    BY <1>2, <2>2
  <2>4. /\ p + 1 \in 1..n /\ p + 3 \in 1..n /\ p + 4 \in 1..n /\ p + 1 < n
        /\ (p + 1) + 1 = p + 2 /\ (p + 1) + 2 = p + 3 /\ (p + 3) + 1 = p + 4 /\ (p + 4) + 1 = p + 5
        /\ p + Len(c) + 1 = p + 5
    BY <1>2, <1>3, <2>2
  <2>5. f[p + 1] <=> (~HoldsAlone(m, "HEADER") /\ f[p + 3])
    BY <1>6, <2>3, <2>4
  <2>6. f[p + 3] <=> (HoldsFlag(m, "x") /\ f[p + 4])
    BY <1>4, <1>5, <2>3, <2>4
  <2>7. f[p + 4] <=> (HoldsFlag(m, w) /\ f[p + 5])
    BY <1>5, <2>3, <2>4
  <2>8. Taken(m, c) <=> ~HoldsAlone(m, "HEADER") /\ HoldsFlag(m, "x") /\ HoldsFlag(m, w)
    <3>1. 3..Len(c) = {3, 4}
      BY <2>2
    <3>2. Taken(m, c) <=> (~HoldsAlone(m, c[2]) /\ \A i \in {3, 4} : HoldsFlag(m, c[i]))
      BY <2>2, <3>1 DEF Taken
    <3> QED
      BY <2>2, <3>2
  <2> QED
    BY <2>2, <2>4, <2>5, <2>6, <2>7, <2>8
<1> QED
  BY <1>7, <1>8, <1>9, NestedShapes DEF NestedShape

\* Wherever a criterion is in the command, it is read to its end and no
\* further, and asks what it asks.
LEMMA CriterionAt ==
    ASSUME NEW m, NEW crit, Len(crit) \in Nat, NEW c \in Criteria, NEW p \in Nat,
           HasAt(crit, p, c), NEW f, Goes(f, m, crit)
    PROVE  /\ c \in Seq(Tokens) /\ Len(c) \in Nat /\ Len(c) >= 1
           /\ f[p + 1] <=> (Holds(m, c) /\ f[p + Len(c) + 1])
<1>1. CASE c \in NestedCriteria
  BY <1>1, NestedAt DEF Holds
<1>2. CASE c \notin NestedCriteria
  <2>1. c \in PlainCriteria
    BY <1>2 DEF Criteria
  <2>2. /\ c \in Seq(Tokens) /\ Len(c) \in Nat /\ Len(c) >= 1
        /\ Width(crit[p + 1]) = Len(c)
        /\ AsksAt(m, crit, p + 1) <=> Meant(m, c)
    BY <2>1, PlainAt
  <2>3. p + 1 \in 1..Len(crit) /\ (p + 1) + Len(c) = p + Len(c) + 1
    BY <2>2 DEF HasAt
  <2>4. f[p + 1] <=> (AsksAt(m, crit, p + 1) /\ f[(p + 1) + Width(crit[p + 1])])
    BY <2>3 DEF Goes
  <2>5. Holds(m, c) = Meant(m, c)
    BY <1>2 DEF Holds
  <2> QED
    BY <2>2, <2>3, <2>4, <2>5
<1> QED
  BY <1>1, <1>2

\* A criterion is a sequence of words.
LEMMA CriterionType ==
    ASSUME NEW c \in Criteria
    PROVE  c \in Seq(Tokens) /\ Len(c) \in Nat
<1>1. /\ Words \subseteq Tokens /\ FlagKeys \subseteq Tokens /\ Loose \subseteq Tokens
      /\ {"NOT", "OR", "FROM", "UID", "HEADER", "1", "x"} \subseteq Tokens
  BY DEF Tokens, Words, Loose
<1>2. CASE c \in PlainCriteria
  <2>1. ASSUME NEW k \in FlagKeys PROVE <<k>> \in Seq(Tokens) /\ <<"NOT", k>> \in Seq(Tokens)
    BY <1>1
  <2>2. ASSUME NEW w \in Words PROVE <<"FROM", w>> \in Seq(Tokens) /\ <<"HEADER", "x", w>> \in Seq(Tokens)
    BY <1>1
  <2>3. <<"UID", "1">> \in Seq(Tokens)
    BY <1>1
  <2>4. c \in Seq(Tokens)
    BY <1>2, <2>1, <2>2, <2>3, Zenon DEF PlainCriteria
  <2> QED
    BY <2>4
<1>3. CASE c \in NestedCriteria
  <2>1. ASSUME NEW j \in Loose, NEW k \in Loose PROVE <<"OR", j, k>> \in Seq(Tokens)
    BY <1>1
  <2>2. ASSUME NEW t \in {"FROM", "UID", "NOT"}, NEW k \in Loose PROVE <<"NOT", t, k>> \in Seq(Tokens)
    BY <1>1
  <2>3. ASSUME NEW w \in Loose PROVE <<"NOT", "HEADER", "x", w>> \in Seq(Tokens)
    BY <1>1
  <2>4. c \in Seq(Tokens)
    BY <1>3, <2>1, <2>2, <2>3, NestedShapes, Zenon DEF NestedShape
  <2> QED
    BY <2>4
<1> QED
  BY <1>2, <1>3 DEF Criteria

\* Two commands, one after the other.
LEMMA TokenJoin ==
    \A p, q \in Seq(Tokens) :
        /\ Len(p \o q) = Len(p) + Len(q)
        /\ \A k \in 1..Len(p) : (p \o q)[k] = p[k]
        /\ \A k \in 1..Len(q) : (p \o q)[Len(p) + k] = q[k]
BY Joined

\* The words of each criterion are in the command where it was written.
LEMMA WordsPlaced ==
    ASSUME NEW t \in Seq(Seq(Tokens)), NEW F, Flattened(F, t), NEW crit, crit = F[Len(t)], NEW n \in 1..Len(t)
    PROVE  HasAt(crit, Len(F[n - 1]), t[n]) /\ Len(F[n]) = Len(F[n - 1]) + Len(t[n])
<1>1. PICK L : L = Len(t)
  OBVIOUS
<1>2. L \in Nat
  BY <1>1
<1>3. /\ F \in [0..L -> Seq(Tokens)]
      /\ \A k \in 1..L : F[k] = F[k - 1] \o t[k]
  BY <1>1 DEF Flattened
<1>4. crit \in Seq(Tokens) /\ crit = F[L]
  BY <1>1, <1>2, <1>3
<1>5. ASSUME NEW k \in 1..L
      PROVE  /\ F[k - 1] \in Seq(Tokens) /\ F[k] \in Seq(Tokens) /\ t[k] \in Seq(Tokens)
             /\ Len(F[k]) = Len(F[k - 1]) + Len(t[k])
             /\ \A i \in 1..Len(F[k - 1]) : F[k][i] = F[k - 1][i]
             /\ \A i \in 1..Len(t[k]) : F[k][Len(F[k - 1]) + i] = t[k][i]
  <2>1. k - 1 \in 0..L /\ k \in 0..L /\ k \in 1..Len(t)
    BY <1>1, <1>2
  <2>2. F[k - 1] \in Seq(Tokens) /\ F[k] \in Seq(Tokens)
    BY <1>3, <2>1
  <2>3. t[k] \in Seq(Tokens)
    BY <2>1, ElementIn
  <2>4. PICK a : a = F[k - 1]
    OBVIOUS
  <2>5. PICK x : x = t[k]
    OBVIOUS
  <2>6. a \in Seq(Tokens) /\ x \in Seq(Tokens) /\ F[k] = a \o x
    BY <1>3, <2>2, <2>3, <2>4, <2>5
  <2>7. /\ Len(a \o x) = Len(a) + Len(x)
        /\ \A i \in 1..Len(a) : (a \o x)[i] = a[i]
        /\ \A i \in 1..Len(x) : (a \o x)[Len(a) + i] = x[i]
    BY <2>6, TokenJoin
  <2> QED
    BY <2>2, <2>3, <2>4, <2>5, <2>6, <2>7
<1> DEFINE S == {k \in 0..L : Len(F[k]) <= Len(crit) /\ \A i \in 1..Len(F[k]) : crit[i] = F[k][i]}
<1>6. L \in S
  <2>1. L \in 0..L /\ Len(crit) <= Len(crit)
    BY <1>2, <1>4
  <2> QED
    BY <1>4, <2>1
<1>7. ASSUME NEW k \in 1..L, k \in S PROVE k - 1 \in S
  <2>1. k - 1 \in 0..L
    BY <1>2
  <2>2. PICK a : a = F[k - 1]
    OBVIOUS
  <2>3. PICK b : b = F[k]
    OBVIOUS
  <2>4. PICK x : x = t[k]
    OBVIOUS
  <2>5. /\ a \in Seq(Tokens) /\ b \in Seq(Tokens) /\ x \in Seq(Tokens)
        /\ Len(b) = Len(a) + Len(x)
        /\ \A i \in 1..Len(a) : b[i] = a[i]
    BY <1>5, <2>2, <2>3, <2>4
  <2>6. Len(b) <= Len(crit) /\ \A i \in 1..Len(b) : crit[i] = b[i]
    BY <1>7, <2>3
  <2>7. Len(a) <= Len(b) /\ Len(a) <= Len(crit) /\ \A i \in 1..Len(a) : i \in 1..Len(b)
    BY <1>4, <2>5, <2>6
  <2>8. \A i \in 1..Len(a) : crit[i] = a[i]
    BY <2>5, <2>6, <2>7
  <2> QED
    BY <2>1, <2>2, <2>7, <2>8
<1>8. \A k \in 0..L : k \in S
  <2> HIDE DEF S
  <2> QED
    BY <1>2, <1>6, <1>7, Downwards
<1>9. n \in 1..L /\ n \in 0..L
  BY <1>1, <1>2
<1>10. PICK a : a = F[n - 1]
  OBVIOUS
<1>11. PICK b : b = F[n]
  OBVIOUS
<1>12. PICK x : x = t[n]
  OBVIOUS
<1>13. /\ a \in Seq(Tokens) /\ b \in Seq(Tokens) /\ x \in Seq(Tokens)
       /\ Len(b) = Len(a) + Len(x)
       /\ \A i \in 1..Len(x) : b[Len(a) + i] = x[i]
  BY <1>5, <1>9, <1>10, <1>11, <1>12
<1>14. Len(b) <= Len(crit) /\ \A i \in 1..Len(b) : crit[i] = b[i]
  BY <1>8, <1>9, <1>11
<1>15. \A i \in 1..Len(x) : Len(a) + i \in 1..Len(b)
  BY <1>13
<1>16. HasAt(crit, Len(a), x)
  BY <1>13, <1>14, <1>15 DEF HasAt
<1> QED
  BY <1>10, <1>11, <1>12, <1>13, <1>16

\* A search is the conjunction of its criteria.
LEMMA SearchRight == TextInv => SearchIsConjunction
<1> SUFFICES ASSUME TextInv, kind = "search" PROVE SearchIsConjunction
  BY DEF SearchIsConjunction
<1>1. text \in Seq(Criteria)
  BY DEF TextInv, Alphabet
<1>2. text \in Seq(Seq(Tokens))
  <2>1. Criteria \subseteq Seq(Tokens)
    BY CriterionType
  <2> QED
    BY <1>1, <2>1, SeqMonotonic
<1>3. PICK F : F = CHOOSE f : FlattensUpTo(f, text)
  OBVIOUS
<1>4. Flattened(F, text)
  BY <1>2, <1>3, FlatMeans
<1>5. PICK L : L = Len(text)
  OBVIOUS
<1>6. L \in Nat /\ DOMAIN text = 1..L
  BY <1>1, <1>5
<1>7. PICK crit : crit = F[L]
  OBVIOUS
<1>8. crit \in Seq(Tokens) /\ crit = F[Len(text)]
  <2>1. L \in 0..Len(text)
    BY <1>5, <1>6
  <2> QED
    BY <1>4, <1>5, <1>7, <2>1 DEF Flattened
<1>9. ASSUME NEW m \in Messages
      PROVE  Matches(m, crit) <=> \A k \in 1..L : Holds(m, text[k])
  <2>1. PICK f : MatchesFrom(f, m, crit) /\ Matches(m, crit) = f[1]
    BY <1>8, MatchMeans
  <2>2. PICK n : n = Len(crit)
    OBVIOUS
  <2>3. n \in Nat
    BY <1>8, <2>2
  <2>3a. \A i \in 1..(n + 3) : f[i] = (i > n \/ (AsksAt(m, crit, i) /\ f[i + Width(crit[i])]))
    BY <2>1, <2>2, Zenon DEF MatchesFrom
  <2>4. Goes(f, m, crit)
    <3>1. \A i \in 1..n : i \in 1..(n + 3) /\ ~(i > n)
      BY <2>3
    <3> QED
      BY <2>2, <2>3a, <3>1, Zenon DEF Goes
  <2> DEFINE S == {k \in 0..L : f[Len(F[k]) + 1] <=> \A j \in 1..L : j > k => Holds(m, text[j])}
  <2>5. L \in S
    <3>1. L \in 0..L /\ \A j \in 1..L : ~(j > L)
      BY <1>6
    <3>2. n + 1 \in 1..(n + 3) /\ n + 1 > n
      BY <2>3
    <3>3. f[n + 1]
      BY <2>3a, <3>2, Zenon
    <3>4. Len(F[L]) = n
      BY <1>7, <2>2
    <3> QED
      BY <3>1, <3>3, <3>4, Zenon
  <2>6. ASSUME NEW k \in 1..L, k \in S PROVE k - 1 \in S
    <3>1. k - 1 \in 0..L /\ k \in 1..Len(text) /\ \A j \in 1..L : j > k - 1 <=> (j = k \/ j > k)
      BY <1>5, <1>6
    <3>2. PICK c : c = text[k]
      OBVIOUS
    <3>3. c \in Criteria
      BY <1>1, <3>1, <3>2, ElementIn
    <3>4. PICK p : p = Len(F[k - 1])
      OBVIOUS
    <3>5. p \in Nat
      <4>1. F[k - 1] \in Seq(Tokens)
        BY <1>4, <1>5, <3>1 DEF Flattened
      <4> QED
        BY <3>4, <4>1
    <3>6. HasAt(crit, p, c) /\ Len(F[k]) = p + Len(c)
      BY <1>2, <1>4, <1>8, <3>1, <3>2, <3>4, WordsPlaced
    <3>7. f[p + 1] <=> (Holds(m, c) /\ f[p + Len(c) + 1])
      <4>1. Len(crit) \in Nat
        BY <1>8
      <4> QED
        BY <2>4, <3>3, <3>5, <3>6, <4>1, CriterionAt
    <3>12. f[Len(F[k]) + 1] <=> \A j \in 1..L : j > k => Holds(m, text[j])
      BY <2>6, Zenon
    <3>13. f[p + 1] <=> (Holds(m, c) /\ \A j \in 1..L : j > k => Holds(m, text[j]))
      BY <3>6, <3>7, <3>12, Zenon
    <3>14. (Holds(m, c) /\ \A j \in 1..L : j > k => Holds(m, text[j]))
                <=> \A j \in 1..L : j > k - 1 => Holds(m, text[j])
      BY <3>1, <3>2, Zenon
    <3> QED
      BY <3>1, <3>4, <3>13, <3>14, Zenon
  <2>7. \A k \in 0..L : k \in S
    <3> HIDE DEF S
    <3> QED
      BY <1>6, <2>5, <2>6, Downwards
  <2>8. f[Len(F[0]) + 1] <=> \A j \in 1..L : j > 0 => Holds(m, text[j])
    <3>1. 0 \in 0..L
      BY <1>6
    <3> QED
      BY <2>7, <3>1, Zenon
  <2>9. Len(F[0]) + 1 = 1
    BY <1>4 DEF Flattened
  <2>10. \A j \in 1..L : j > 0
    BY <1>6
  <2> QED
    BY <2>1, <2>8, <2>9, <2>10, Zenon
<1> QED
  BY <1>3, <1>6, <1>8, <1>9, Zenon DEF SearchIsConjunction, FlattensUpTo

\* What one character of a pattern may stand for: the characters of s after
\* the a-th, up to the b-th.
Fits(c, s, a, b) ==
    /\ a <= b
    /\ c = "%" => \A k \in (a + 1)..b : s[k] # "."
    /\ c \notin {"*", "%"} => b = a + 1 /\ s[b] = c

PlacesFor(pat, s, n, Q) ==
    {j \in 1..(Len(s) + 1) :
        CASE pat[Len(pat) - n + 1] = "*" -> n = 1 \/ \E k \in j..(Len(s) + 1) : k \in Q
          [] pat[Len(pat) - n + 1] = "%" -> \E k \in j..(Len(s) + 1) : PercentSpans(s, j, k) /\ k \in Q
          [] OTHER -> j <= Len(s) /\ s[j] = pat[Len(pat) - n + 1] /\ j + 1 \in Q}

WildUpTo(f, pat, s) ==
    f = [n \in 0..Len(pat) |-> IF n = 0 THEN {Len(s) + 1} ELSE PlacesFor(pat, s, n, f[n - 1])]

\* W[n] are the places from which the last n characters match.
Wild(W, pat, s) ==
    /\ W[0] = {Len(s) + 1}
    /\ \A n \in 1..Len(pat) : W[n] = PlacesFor(pat, s, n, W[n - 1])

\* Wildcard is the question whether the whole pattern matches from the first place.
LEMMA WildMeans ==
    ASSUME NEW T, NEW pat \in Seq(T), NEW s \in Seq(T)
    PROVE  \E W : Wild(W, pat, s) /\ (Wildcard(pat, s) <=> 1 \in W[Len(pat)])
<1> DEFINE L == Len(pat)
           N == Len(s)
           V == SUBSET (1..(N + 1))
           v0 == {N + 1}
           H == [n \in 1..L |-> [Q \in V |-> PlacesFor(pat, s, n, Q)]]
           Ch == CHOOSE f : WildUpTo(f, pat, s)
<1>1. L \in Nat /\ N \in Nat
  OBVIOUS
<1>2. \A n \in 1..L : \A Q \in V : PlacesFor(pat, s, n, Q) \in V
  BY DEF PlacesFor
<1>3. v0 \in V
  BY <1>1
<1> HIDE DEF V, L, v0, N
<1>5. Steps(L, V, H)
  BY <1>2 DEF Steps
<1>6. \A n \in 1..L : \A Q \in V : H[n][Q] = PlacesFor(pat, s, n, Q)
  OBVIOUS
<1> HIDE DEF H
<1>7. PICK f : Follows(f, L, V, v0, H)
  BY <1>1, <1>3, <1>5, CountRecursion
<1>8. f \in [0..L -> V] /\ f[0] = v0 /\ \A n \in 1..L : f[n] = PlacesFor(pat, s, n, f[n - 1])
  <2>1. \A n \in 1..L : n - 1 \in 0..L
    BY <1>1
  <2> QED
    BY <1>6, <1>7, <2>1 DEF Follows
<1>9. WildUpTo(f, pat, s)
  <2>1. \A n \in 0..L : n # 0 => n \in 1..L
    BY <1>1
  <2>2. f = [n \in 0..L |-> f[n]]
    BY <1>8
  <2>3. f = [n \in 0..L |-> IF n = 0 THEN v0 ELSE PlacesFor(pat, s, n, f[n - 1])]
    BY <1>8, <2>1, <2>2
  <2> QED
    BY <2>3 DEF WildUpTo, L, v0, N
<1>10. WildUpTo(Ch, pat, s)
  BY <1>9
<1>11. Wildcard(pat, s) <=> 1 \in Ch[L]
  BY DEF Wildcard, WildUpTo, PlacesFor, L
<1> HIDE DEF Ch
<1>12. Ch = [n \in 0..L |-> IF n = 0 THEN v0 ELSE PlacesFor(pat, s, n, Ch[n - 1])]
  BY <1>10 DEF WildUpTo, L, v0, N
<1>13. Ch[0] = v0 /\ \A n \in 1..L : Ch[n] = PlacesFor(pat, s, n, Ch[n - 1])
  <2>1. 0 \in 0..L /\ \A n \in 1..L : n \in 0..L /\ n # 0
    BY <1>1
  <2> QED
    BY <1>12, <2>1
<1>14. Wild(Ch, pat, s)
  BY <1>13 DEF Wild, L, v0, N
<1> QED
  BY <1>11, <1>14 DEF L

\* A place is one of them when the character may stand for what is between it
\* and a place of the characters after it.
LEMMA PlaceStep ==
    ASSUME NEW T, NEW pat \in Seq(T), NEW s \in Seq(T), NEW W, Wild(W, pat, s), NEW n \in 1..Len(pat),
           \A k \in W[n - 1] : k \in 1..(Len(s) + 1), NEW j \in 1..(Len(s) + 1)
    PROVE  j \in W[n] <=> \E k \in W[n - 1] : Fits(pat[Len(pat) - n + 1], s, j - 1, k - 1)
<1>1. PICK c : c = pat[Len(pat) - n + 1]
  OBVIOUS
<1>2. PICK Q : Q = W[n - 1]
  OBVIOUS
<1>3. PICK N : N = Len(s)
  OBVIOUS
<1>4. N \in Nat /\ j \in 1..(N + 1) /\ \A k \in Q : k \in 1..(N + 1)
  BY <1>2, <1>3
<1>5. j \in W[n] <=> CASE c = "*" -> n = 1 \/ \E k \in j..(N + 1) : k \in Q
                      [] c = "%" -> \E k \in j..(N + 1) : PercentSpans(s, j, k) /\ k \in Q
                      [] OTHER -> j <= N /\ s[j] = c /\ j + 1 \in Q
  BY <1>1, <1>2, <1>3 DEF Wild, PlacesFor
<1>6. \A k \in Q : k \in j..(N + 1) <=> j - 1 <= k - 1
  BY <1>4
<1>7. CASE c = "*"
  <2>1. j \in W[n] <=> (n = 1 \/ \E k \in j..(N + 1) : k \in Q)
    BY <1>5, <1>7
  <2>2. n = 1 => N + 1 \in Q /\ N + 1 \in j..(N + 1)
    BY <1>2, <1>3, <1>4 DEF Wild
  <2>3. j \in W[n] <=> \E k \in j..(N + 1) : k \in Q
    BY <2>1, <2>2
  <2>4. \A k \in Q : Fits(c, s, j - 1, k - 1) <=> j - 1 <= k - 1
    BY <1>7 DEF Fits
  <2> QED
    BY <1>1, <1>2, <1>6, <2>3, <2>4
<1>8. CASE c = "%"
  <2>1. c # "*"
    BY <1>8
  <2>2. j \in W[n] <=> \E k \in j..(N + 1) : PercentSpans(s, j, k) /\ k \in Q
    BY <1>5, <1>8, <2>1
  <2>3. \A k \in Q : Fits(c, s, j - 1, k - 1) <=> j - 1 <= k - 1 /\ PercentSpans(s, j, k)
    <3>1. (j - 1) + 1 = j
      BY <1>4
    <3> QED
      BY <1>8, <3>1 DEF Fits, PercentSpans
  <2> QED
    BY <1>1, <1>2, <1>6, <2>2, <2>3
<1>9. CASE c # "*" /\ c # "%"
  <2>1. j \in W[n] <=> j <= N /\ s[j] = c /\ j + 1 \in Q
    BY <1>5, <1>9
  <2>2. \A k \in Q : Fits(c, s, j - 1, k - 1) <=> k = j + 1 /\ s[j] = c
    <3> SUFFICES ASSUME NEW k \in Q PROVE Fits(c, s, j - 1, k - 1) <=> k = j + 1 /\ s[j] = c
      OBVIOUS
    <3>1. Fits(c, s, j - 1, k - 1) <=> j - 1 <= k - 1 /\ k - 1 = (j - 1) + 1 /\ s[k - 1] = c
      BY <1>9 DEF Fits
    <3>2. k \in Int /\ j \in Int /\ (k - 1 = (j - 1) + 1 <=> k = j + 1) /\ (k = j + 1 => k - 1 = j /\ j - 1 <= k - 1)
      BY <1>4
    <3> QED
      BY <3>1, <3>2
  <2>3. j + 1 \in Q => j <= N
    BY <1>4
  <2> QED
    BY <1>1, <1>2, <2>1, <2>2, <2>3
<1> QED
  BY <1>7, <1>8, <1>9

\* The places of W are places of s.
LEMMA WildPlaces ==
    ASSUME NEW T, NEW pat \in Seq(T), NEW s \in Seq(T), NEW W, Wild(W, pat, s), NEW n \in 0..Len(pat)
    PROVE  \A k \in W[n] : k \in 1..(Len(s) + 1)
<1>1. CASE n = 0
  <2>1. W[n] = {Len(s) + 1}
    BY <1>1 DEF Wild
  <2> QED
    BY <2>1
<1>2. CASE n # 0
  <2>1. n \in 1..Len(pat)
    BY <1>2
  <2> QED
    BY <2>1 DEF Wild, PlacesFor
<1> QED
  BY <1>1, <1>2

\* The last n characters of pat match s from j on: cut says which of them
\* stands for what.
Cutting(cut, pat, s, n, j) ==
    /\ cut \in [0..Len(pat) -> 0..Len(s)]
    /\ cut[Len(pat) - n] = j - 1 /\ cut[Len(pat)] = Len(s)
    /\ \A i \in 1..Len(pat) : i > Len(pat) - n => Fits(pat[i], s, cut[i - 1], cut[i])

\* With no character left, there is nothing left to match.
LEMMA CutNothing ==
    ASSUME NEW T, NEW pat \in Seq(T), NEW s \in Seq(T), NEW j \in 1..(Len(s) + 1)
    PROVE  j = Len(s) + 1 <=> \E cut : Cutting(cut, pat, s, 0, j)
<1>1. PICK P : P = Len(pat)
  OBVIOUS
<1>2. PICK N : N = Len(s)
  OBVIOUS
<1>3. P \in Nat /\ N \in Nat /\ P - 0 = P
  BY <1>1, <1>2
<1>4. ASSUME j = N + 1 PROVE \E cut : Cutting(cut, pat, s, 0, j)
  <2>1. PICK c : c = [i \in 0..P |-> N]
    OBVIOUS
  <2>2. c \in [0..P -> 0..N]
    BY <1>3, <2>1
  <2>3. c[P] = N /\ N = j - 1
    BY <1>3, <1>4, <2>1
  <2>4. \A i \in 1..P : ~(i > P - 0)
    BY <1>3
  <2>5. Cutting(c, pat, s, 0, j)
    BY <1>1, <1>2, <1>3, <2>2, <2>3, <2>4 DEF Cutting
  <2> QED
    BY <2>5
<1>5. ASSUME NEW cut, Cutting(cut, pat, s, 0, j) PROVE j = N + 1
  <2>1. cut[P - 0] = j - 1 /\ cut[P] = N
    BY <1>1, <1>2, <1>5 DEF Cutting
  <2>2. j - 1 = N
    BY <1>3, <2>1
  <2>3. j \in Int
    OBVIOUS
  <2> QED
    BY <1>3, <2>2, <2>3
<1> QED
  BY <1>2, <1>4, <1>5

\* A character more in front of a cutting ...
LEMMA CutMore ==
    ASSUME NEW T, NEW pat \in Seq(T), NEW s \in Seq(T), NEW n \in 1..Len(pat),
           NEW j \in 1..(Len(s) + 1), NEW k \in 1..(Len(s) + 1),
           NEW cut, Cutting(cut, pat, s, n - 1, k),
           Fits(pat[Len(pat) - n + 1], s, j - 1, k - 1)
    PROVE  \E d : Cutting(d, pat, s, n, j)
<1>1. PICK P : P = Len(pat)
  OBVIOUS
<1>2. PICK N : N = Len(s)
  OBVIOUS
<1>3. P \in Nat /\ N \in Nat /\ n \in 1..P /\ j \in 1..(N + 1) /\ k \in 1..(N + 1)
  BY <1>1, <1>2
<1>4. PICK d : d = [cut EXCEPT ![P - n] = j - 1]
  OBVIOUS
<1>5. /\ cut \in [0..P -> 0..N]
      /\ cut[P - (n - 1)] = k - 1 /\ cut[P] = N
      /\ \A i \in 1..P : i > P - (n - 1) => Fits(pat[i], s, cut[i - 1], cut[i])
  BY <1>1, <1>2 DEF Cutting
<1>6. P - n \in 0..P /\ j - 1 \in 0..N
  BY <1>3
<1>7. d \in [0..P -> 0..N] /\ d[P - n] = j - 1 /\ \A i \in 0..P : i # P - n => d[i] = cut[i]
  BY <1>4, <1>5, <1>6
<1>8. d[P] = N
  <2>1. P \in 0..P /\ P # P - n
    BY <1>3
  <2> QED
    BY <1>5, <1>7, <2>1
<1>9. ASSUME NEW i \in 1..P, i > P - n PROVE Fits(pat[i], s, d[i - 1], d[i])
  <2>1. i \in 0..P /\ i # P - n
    BY <1>3, <1>9
  <2>2. d[i] = cut[i]
    BY <1>7, <2>1
  <2>3. CASE i = P - n + 1
    <3>1. i - 1 = P - n /\ P - (n - 1) = i
      BY <1>3, <2>3
    <3>2. d[i - 1] = j - 1 /\ d[i] = k - 1
      BY <1>5, <1>7, <2>2, <3>1
    <3> QED
      BY <1>1, <2>3, <3>2
  <2>4. CASE i # P - n + 1
    <3>1. i > P - (n - 1) /\ i - 1 \in 0..P /\ i - 1 # P - n
      BY <1>3, <1>9, <2>4
    <3>2. d[i - 1] = cut[i - 1]
      BY <1>7, <3>1
    <3> QED
      BY <1>5, <2>2, <3>1, <3>2
  <2> QED
    BY <2>3, <2>4
<1>10. Cutting(d, pat, s, n, j)
  BY <1>1, <1>2, <1>7, <1>8, <1>9 DEF Cutting
<1> QED
  BY <1>10

\* ... and one less.
LEMMA CutLess ==
    ASSUME NEW T, NEW pat \in Seq(T), NEW s \in Seq(T), NEW n \in 1..Len(pat),
           NEW j \in 1..(Len(s) + 1), NEW cut, Cutting(cut, pat, s, n, j)
    PROVE  \E k \in 1..(Len(s) + 1) :
              /\ Cutting(cut, pat, s, n - 1, k)
              /\ Fits(pat[Len(pat) - n + 1], s, j - 1, k - 1)
<1>1. PICK P : P = Len(pat)
  OBVIOUS
<1>2. PICK N : N = Len(s)
  OBVIOUS
<1>3. P \in Nat /\ N \in Nat /\ n \in 1..P /\ j \in 1..(N + 1)
  BY <1>1, <1>2
<1>4. /\ cut \in [0..P -> 0..N]
      /\ cut[P - n] = j - 1 /\ cut[P] = N
      /\ \A i \in 1..P : i > P - n => Fits(pat[i], s, cut[i - 1], cut[i])
  BY <1>1, <1>2 DEF Cutting
<1>5. PICK i : i = P - n + 1
  OBVIOUS
<1>6. i \in 1..P /\ i \in 0..P /\ i > P - n /\ i - 1 = P - n /\ P - (n - 1) = i
  BY <1>3, <1>5
<1>7. cut[i] \in 0..N
  BY <1>4, <1>6
<1>8. PICK k : k = cut[i] + 1
  OBVIOUS
<1>9. k \in 1..(N + 1) /\ k - 1 = cut[i]
  BY <1>3, <1>7, <1>8
<1>10. Fits(pat[i], s, cut[i - 1], cut[i])
  BY <1>4, <1>6
<1>11. Fits(pat[i], s, j - 1, k - 1)
  BY <1>4, <1>6, <1>9, <1>10
<1>12. \A m \in 1..P : m > P - (n - 1) => m > P - n
  BY <1>3
<1>13. Cutting(cut, pat, s, n - 1, k)
  BY <1>1, <1>2, <1>4, <1>6, <1>9, <1>12 DEF Cutting
<1> QED
  BY <1>1, <1>2, <1>5, <1>9, <1>11, <1>13

\* The places of W are those from which there is a cutting.
LEMMA WildCuts ==
    ASSUME NEW T, NEW pat \in Seq(T), NEW s \in Seq(T), NEW W, Wild(W, pat, s)
    PROVE  \A n \in 0..Len(pat) : \A j \in 1..(Len(s) + 1) :
              j \in W[n] <=> \E cut : Cutting(cut, pat, s, n, j)
<1> DEFINE P == Len(pat)
           R == 1..(Len(s) + 1)
           S == {n \in 0..P : \A j \in R : j \in W[n] <=> \E cut : Cutting(cut, pat, s, n, j)}
<1>1. P \in Nat
  OBVIOUS
<1>2. 0 \in S
  <2>1. \A j \in R : j \in W[0] <=> j = Len(s) + 1
    BY DEF Wild
  <2>2. \A j \in R : j = Len(s) + 1 <=> \E cut : Cutting(cut, pat, s, 0, j)
    BY CutNothing
  <2>3. 0 \in 0..P
    BY <1>1
  <2> QED
    BY <2>1, <2>2, <2>3
<1>3. ASSUME NEW n \in 1..P, n - 1 \in S PROVE n \in S
  <2>1. n \in 0..P /\ n - 1 \in 0..P
    BY <1>1
  <2>2. \A k \in R : k \in W[n - 1] <=> \E cut : Cutting(cut, pat, s, n - 1, k)
    BY <1>3
  <2>3. \A k \in W[n - 1] : k \in R
    BY <2>1, WildPlaces
  <2>4. ASSUME NEW j \in R PROVE j \in W[n] <=> \E cut : Cutting(cut, pat, s, n, j)
    <3>1. j \in W[n] <=> \E k \in W[n - 1] : Fits(pat[Len(pat) - n + 1], s, j - 1, k - 1)
      BY <2>3, PlaceStep
    <3>2. ASSUME j \in W[n] PROVE \E cut : Cutting(cut, pat, s, n, j)
      <4>1. PICK k \in W[n - 1] : Fits(pat[Len(pat) - n + 1], s, j - 1, k - 1)
        BY <3>1, <3>2
      <4>2. k \in R
        BY <2>3
      <4>3. PICK cut : Cutting(cut, pat, s, n - 1, k)
        BY <2>2, <4>2
      <4> QED
        BY <4>1, <4>2, <4>3, CutMore
    <3>3. ASSUME NEW cut, Cutting(cut, pat, s, n, j) PROVE j \in W[n]
      <4>1. PICK k \in R : /\ Cutting(cut, pat, s, n - 1, k)
                           /\ Fits(pat[Len(pat) - n + 1], s, j - 1, k - 1)
        BY <3>3, CutLess
      <4>2. k \in W[n - 1]
        BY <2>2, <4>1
      <4> QED
        BY <3>1, <4>1, <4>2
    <3> QED
      BY <3>2, <3>3
  <2> QED
    BY <2>1, <2>4
<1>4. \A n \in 0..P : n \in S
  <2> HIDE DEF S, P
  <2> QED
    BY <1>1, <1>2, <1>3, Upwards
<1> QED
  BY <1>4

\* What stands between a and b, as the sequence it is.
StandsFor(c, piece) ==
    /\ c = "%" => \A k \in DOMAIN piece : piece[k] # "."
    /\ c \notin {"*", "%"} => piece = <<c>>

\* A character may stand for a piece of the name.
LEMMA FitsMeans ==
    ASSUME NEW T, NEW s \in Seq(T), NEW c \in T, NEW a \in 0..Len(s), NEW b \in 0..Len(s)
    PROVE  Fits(c, s, a, b) <=> a <= b /\ StandsFor(c, SubSeq(s, a + 1, b))
<1>1. CASE ~(a <= b)
  BY <1>1 DEF Fits
<1>2. CASE a <= b
  <2>1. PICK N : N = Len(s)
    OBVIOUS
  <2>2. N \in Nat /\ a \in Nat /\ b \in Nat /\ a + 1 \in Nat /\ 1 <= a + 1 /\ a + 1 <= b + 1 /\ b <= N
        /\ (b + 1) - (a + 1) = b - a /\ b - a \in Nat
    BY <1>2, <2>1
  <2>3. PICK p : p = SubSeq(s, a + 1, b)
    OBVIOUS
  <2>4. p \in Seq(T) /\ Len(p) = b - a /\ \A k \in 1..(b - a) : p[k] = s[((a + 1) + k) - 1]
    BY <2>1, <2>2, <2>3, Piece
  <2>5. DOMAIN p = 1..(b - a)
    BY <2>4
  <2>6. \A k \in 1..(b - a) : p[k] = s[a + k]
    <3>1. \A k \in 1..(b - a) : ((a + 1) + k) - 1 = a + k
      BY <2>2
    <3> QED
      BY <2>4, <3>1
  <2>7. (\A k \in (a + 1)..b : s[k] # ".") <=> \A k \in DOMAIN p : p[k] # "."
    <3>1. ASSUME \A k \in (a + 1)..b : s[k] # ".", NEW k \in 1..(b - a) PROVE p[k] # "."
      <4>1. a + k \in (a + 1)..b
        BY <2>2
      <4> QED
        BY <2>6, <3>1, <4>1
    <3>2. ASSUME \A k \in 1..(b - a) : p[k] # ".", NEW k \in (a + 1)..b PROVE s[k] # "."
      <4>1. k - a \in 1..(b - a) /\ a + (k - a) = k
        BY <2>2
      <4>2. p[k - a] = s[k]
        BY <2>6, <4>1
      <4> QED
        BY <3>2, <4>1, <4>2
    <3> QED
      BY <2>5, <3>1, <3>2
  <2>8. (b = a + 1 /\ s[b] = c) <=> p = <<c>>
    <3>1. <<c>> \in Seq(T) /\ Len(<<c>>) = 1 /\ <<c>>[1] = c
      BY Single
    <3>2. ASSUME b = a + 1, s[b] = c PROVE p = <<c>>
      <4>1. b - a = 1 /\ 1 \in 1..(b - a) /\ a + 1 = b
        BY <2>2, <3>2
      <4>2. p[1] = c
        BY <2>6, <3>2, <4>1
      <4>3. Len(p) = 1
        BY <2>4, <4>1
      <4>4. \A k \in 1..Len(p) : p[k] = <<c>>[k]
        BY <3>1, <4>2, <4>3
      <4> QED
        BY <2>4, <3>1, <4>3, <4>4, SameSeq
    <3>3. ASSUME p = <<c>> PROVE b = a + 1 /\ s[b] = c
      <4>1. b - a = 1
        BY <2>4, <3>1, <3>3
      <4>2. b = a + 1 /\ 1 \in 1..(b - a)
        BY <2>2, <4>1
      <4> QED
        BY <2>6, <3>1, <3>3, <4>2
    <3> QED
      BY <3>2, <3>3
  <2>9. Fits(c, s, a, b) <=> StandsFor(c, p)
    BY <1>2, <2>7, <2>8 DEF Fits, StandsFor
  <2> QED
    BY <1>2, <2>3, <2>9
<1> QED
  BY <1>1, <1>2

\* MatchPattern is one recursion: the tests before it are cases of it.
LEMMA MatchIsCutting ==
    ASSUME NEW T, NEW pat \in Seq(T), NEW s \in Seq(T),
           \A i \in 1..Len(s) : s[i] \notin {"*", "%"}
    PROVE  MatchPattern(pat, s) <=> \E cut : Cutting(cut, pat, s, Len(pat), 1)
<1>1. PICK W : Wild(W, pat, s) /\ (Wildcard(pat, s) <=> 1 \in W[Len(pat)])
  BY WildMeans
<1>2. PICK P : P = Len(pat)
  OBVIOUS
<1>3. PICK N : N = Len(s)
  OBVIOUS
<1>4. P \in Nat /\ N \in Nat /\ P \in 0..P /\ 1 \in 1..(N + 1)
  BY <1>2, <1>3
<1>5. \A n \in 0..P : \A j \in 1..(N + 1) : j \in W[n] <=> \E cut : Cutting(cut, pat, s, n, j)
  BY <1>1, <1>2, <1>3, WildCuts
<1>6. 1 \in W[P] <=> \E cut : Cutting(cut, pat, s, P, 1)
  BY <1>4, <1>5
<1>7. CASE pat = <<>>
  <2>1. P = 0
    BY <1>2, <1>7
  <2>2. W[0] = {N + 1}
    BY <1>1, <1>3 DEF Wild
  <2>3. 1 \in W[P] <=> N = 0
    BY <1>4, <2>1, <2>2
  <2>4. N = 0 <=> s = <<>>
    BY <1>3
  <2> QED
    BY <1>2, <1>6, <1>7, <2>3, <2>4 DEF MatchPattern
<1>8. CASE pat # <<>>
  <2>1. ASSUME pat = s PROVE \E cut : Cutting(cut, pat, s, P, 1)
    <3>1. PICK c : c = [i \in 0..P |-> i]
      OBVIOUS
    <3>2. P = N
      BY <1>2, <1>3, <2>1
    <3>3. c \in [0..P -> 0..N] /\ c[P - P] = 1 - 1 /\ c[P] = N
      <4>1. P - P = 0 /\ 1 - 1 = 0 /\ 0 \in 0..P
        BY <1>4
      <4> QED
        BY <1>4, <3>1, <3>2, <4>1
    <3>4. ASSUME NEW i \in 1..P PROVE Fits(pat[i], s, c[i - 1], c[i])
      <4>1. i - 1 \in 0..P /\ i \in 0..P /\ i - 1 <= i /\ i = (i - 1) + 1 /\ i \in 1..N
        BY <1>4, <3>2
      <4>2. c[i - 1] = i - 1 /\ c[i] = i
        BY <3>1, <4>1
      <4>3. s[i] = pat[i] /\ s[i] \notin {"*", "%"}
        BY <1>3, <2>1, <4>1
      <4>4. Fits(pat[i], s, i - 1, i)
        BY <4>1, <4>3 DEF Fits
      <4> QED
        BY <4>2, <4>4
    <3>5. Cutting(c, pat, s, P, 1)
      BY <1>2, <1>3, <3>3, <3>4 DEF Cutting
    <3> QED
      BY <3>5
  <2>2. MatchPattern(pat, s) <=> pat = s \/ Wildcard(pat, s)
    BY <1>8 DEF MatchPattern
  <2> QED
    BY <1>1, <1>2, <1>6, <2>1, <2>2
<1> QED
  BY <1>7, <1>8

\* A name matches when it can be divided among the characters of the pattern.
LEMMA PatternsRight == TextInv => PatternsMatchByParts
<1> SUFFICES ASSUME TextInv, kind = "list" PROVE PatternsMatchByParts
  BY DEF PatternsMatchByParts
<1>1. PICK T : T = PatternChars
  OBVIOUS
<1>2. PICK P : P = Len(text)
  OBVIOUS
<1>3. PICK N : N = Len(name)
  OBVIOUS
<1>4. text \in Seq(T)
  BY <1>1 DEF TextInv, Alphabet
<1>5. name \in Seq(NameChars)
  BY DEF TextInv
<1>6. name \in Seq(T)
  <2>1. NameChars \subseteq T
    BY <1>1 DEF NameChars, PatternChars
  <2> QED
    BY <1>5, <2>1, SeqMonotonic
<1>7. \A i \in 1..Len(name) : name[i] \notin {"*", "%"}
  <2>1. \A i \in 1..Len(name) : name[i] \in NameChars
    BY <1>5, ElementIn
  <2>2. \A x \in NameChars : x \notin {"*", "%"}
    BY DEF NameChars
  <2> QED
    BY <2>1, <2>2
<1>8. P \in Nat /\ N \in Nat
  BY <1>2, <1>3, <1>4, <1>6
<1>9. MatchPattern(text, name) <=> \E cut : Cutting(cut, text, name, P, 1)
  BY <1>2, <1>4, <1>6, <1>7, MatchIsCutting
<1>10. ASSUME NEW cut
       PROVE Cutting(cut, text, name, P, 1) <=>
                /\ cut \in [0..P -> 0..N]
                /\ cut[0] = 0 /\ cut[P] = N
                /\ \A i \in 1..P :
                      /\ cut[i - 1] <= cut[i]
                      /\ StandsFor(text[i], SubSeq(name, cut[i - 1] + 1, cut[i]))
  <2>1. P - P = 0 /\ 1 - 1 = 0 /\ \A i \in 1..P : i > 0 /\ i \in 0..P /\ i - 1 \in 0..P
    BY <1>8
  <2>2. Cutting(cut, text, name, P, 1) <=>
                /\ cut \in [0..P -> 0..N]
                /\ cut[0] = 0 /\ cut[P] = N
                /\ \A i \in 1..P : Fits(text[i], name, cut[i - 1], cut[i])
    BY <1>2, <1>3, <2>1 DEF Cutting
  <2>3. ASSUME cut \in [0..P -> 0..N], NEW i \in 1..P
        PROVE Fits(text[i], name, cut[i - 1], cut[i]) <=>
                      /\ cut[i - 1] <= cut[i]
                      /\ StandsFor(text[i], SubSeq(name, cut[i - 1] + 1, cut[i]))
    <3>1. cut[i - 1] \in 0..Len(name) /\ cut[i] \in 0..Len(name)
      BY <1>3, <2>1, <2>3
    <3>2. text[i] \in T
      BY <1>2, <1>4, ElementIn
    <3> QED
      BY <1>6, <3>1, <3>2, FitsMeans
  <2> QED
    BY <2>2, <2>3
<1>11. MatchPattern(text, name) <=>
            \E cut \in [0..Len(text) -> 0..Len(name)] :
                /\ cut[0] = 0 /\ cut[Len(text)] = Len(name)
                /\ \A i \in 1..Len(text) :
                      /\ cut[i - 1] <= cut[i]
                      /\ StandsFor(text[i], SubSeq(name, cut[i - 1] + 1, cut[i]))
  BY <1>2, <1>3, <1>9, <1>10
<1> QED
  BY <1>11 DEF PatternsMatchByParts, StandsFor

\* A sequence set means, whatever way round it is written, the numbers from
\* one end to the other, "*" being the last message there is (parseSeqSet,
\* contains), whatever the largest number a client can write is; that number
\* itself is read as "*".
THEOREM SetsSelectRanges == TextSpec => []SetsMeanRanges
BY TextStays, SetsRight, PTL

\* matchPattern divides every folder name among the characters of every
\* pattern, however long both are, and "%" never gets a delimiter.
THEOREM PatternsMatch == TextSpec => []PatternsMatchByParts
BY TextStays, PatternsRight, PTL

\* search finds the messages that meet every criterion, for any number of
\* criteria.  A plain one (a key with its words, or NOT before a key without)
\* means what RFC 3501 says, and none of its words is taken for a key.  NOT
\* before a key with words or before NOT, and OR, mean what matches makes of
\* them (Taken), which is not what RFC 3501 says.
THEOREM SearchFindsAll == TextSpec => []SearchIsConjunction
BY TextStays, SearchRight, PTL

\* What FETCH sends of a message is all of it, once: HEADER and TEXT part
\* where the first blank line is, a header field is in HEADER.FIELDS or in
\* HEADER.FIELDS.NOT with its continuation lines, and the items of the list
\* are split where the client separated them.
THEOREM FetchSendsAll == TextSpec => []FetchLosesNothing
<1>1. TextInv => FetchLosesNothing
  BY SectionsRight, FieldsRight, ItemsRight DEF FetchLosesNothing
<1> QED
  BY <1>1, TextStays, PTL

\* A string quote wrote is read back by parseQuoted with what follows it
\* left over, and a file name gives back the base name and the flags it was
\* made of, for texts and names of any length.
THEOREM TextIsReadBack == TextSpec => []TextReadsBack
<1>1. TextInv => TextReadsBack
  BY QuotingRight, NamesRight DEF TextReadsBack
<1> QED
  BY <1>1, TextStays, PTL
=============================================================================
