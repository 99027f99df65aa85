----------------------------- MODULE Pop3Proofs -----------------------------
(***************************************************************************)
(* A POP3 session for any accounts, any number of messages, logins, faults *)
(* and changes by other sessions.                                          *)
(*                                                                         *)
(* The two properties are about what QUIT has done when it is over.        *)
(* SessionInv follows it there: the marks and what the client asked for    *)
(* are the same messages (MarksInv), the loop that flags has dealt with    *)
(* the marks below "next", and the loop that removes with the entries      *)
(* below it (QuitInv); and a file name, or an entry of the view, says      *)
(* Deleted only for a reason (FlagsInv).                                   *)
(***************************************************************************)
EXTENDS Pop3, FiniteSetTheorems, TLAPS

Entries == [msg : Msgs, name : Names \ {Gone}]

Shape ==
    /\ born \in 0..MaxMsg
    /\ acct \in [Msgs -> Accounts \cup {None}]
    /\ file \in [Msgs -> Names]
    /\ pc \in {"closed", "command", "mark", "expunge"}
    /\ authd \/ user # None => tls
    /\ logins \in Nat /\ next \in Nat
    /\ pc \in {"mark", "expunge"} => next >= 1

ViewInv ==
    /\ msgs \in Seq(Entries) /\ Len(msgs) <= MaxMsg
    /\ \A n \in 1..Len(msgs) : msgs[n].msg \in 1..born
    /\ del \subseteq Msgs
    /\ asked \subseteq 1..born

LoginInv ==
    /\ authd \in BOOLEAN /\ quitOK \in BOOLEAN
    /\ quitOK => pc = "closed"
    /\ pc # "closed" => (authd <=> logins >= 1)
    /\ pc \in {"mark", "expunge"} => authd
    /\ logins = 0 => del = {} /\ asked = {}

Deleted(name) == "T" \in name.fl

\* Before QUIT only others flag files Deleted, or did.
FlagsInv ==
    /\ pc = "command" =>
          /\ removed = {}
          /\ \A m \in Msgs : Deleted(file[m]) => m \in flagged
          /\ \A n \in 1..Len(msgs) : Deleted(msgs[n].name) => msgs[n].msg \in flagged
    /\ pc \in {"mark", "expunge"} /\ logins <= 1 =>
          \A n \in 1..Len(msgs) : Deleted(msgs[n].name) => msgs[n].msg \in asked \cup flagged
    /\ logins <= 1 => removed \subseteq asked \cup flagged

MarksInv ==
    pc # "closed" /\ logins <= 1 =>
        /\ \A n \in del : n \in 1..Len(msgs) /\ msgs[n].msg \in asked
        /\ \A m \in asked : \E n \in del : msgs[n].msg = m

\* What the session may leave behind.
Left == missed \cup unflagged

\* How far QUIT has come.
QuitInv ==
    /\ pc = "mark" /\ logins <= 1 =>
          \A n \in del : n < next => Deleted(msgs[n].name) \/ msgs[n].msg \in Left
    /\ pc = "expunge" /\ logins <= 1 =>
          /\ \A n \in del : Deleted(msgs[n].name) \/ msgs[n].msg \in Left
          /\ \A n \in 1..Len(msgs) : n < next /\ Deleted(msgs[n].name) =>
                file[msgs[n].msg] = Gone \/ msgs[n].msg \in Left
    /\ QuitHonoursDele

SessionInv == Shape /\ ViewInv /\ LoginInv /\ FlagsInv /\ MarksInv /\ QuitInv

-----------------------------------------------------------------------------
\* The names a message can have.
LEMMA NamesLemma ==
    /\ \A x \in Names : x.fl \in SUBSET {"S", "T"}
    /\ \A f \in SUBSET {"S", "T"} : Cur(f) \in Names /\ Cur(f) # Gone /\ Cur(f).fl = f
    /\ New \in Names /\ Gone \in Names /\ ~Deleted(New) /\ ~Deleted(Gone)
<1>1. \A f : Cur(f).sub = "cur" /\ Cur(f).fl = f
  BY DEF Cur
<1>2. Gone.sub = "gone" /\ Gone.fl = {} /\ New.fl = {}
  BY DEF Gone, New
<1> QED
  BY <1>1, <1>2 DEF Names, Deleted

\* A session has renamed the file of one entry, and its view says so.
LEMMA EntryRenamed ==
    ASSUME msgs \in Seq(Entries), NEW n \in 1..Len(msgs), NEW name \in Names \ {Gone},
           msgs' = [msgs EXCEPT ![n].name = name]
    PROVE  /\ msgs' \in Seq(Entries) /\ Len(msgs') = Len(msgs)
           /\ \A i \in 1..Len(msgs) : msgs'[i].msg = msgs[i].msg
           /\ msgs'[n].name = name
           /\ \A i \in 1..Len(msgs) : i # n => msgs'[i] = msgs[i]
<1>1. msgs[n] \in Entries
  OBVIOUS
<1>2. [msgs[n] EXCEPT !.name = name] = [msg |-> msgs[n].msg, name |-> name]
  BY <1>1 DEF Entries
<1>3. [msgs[n] EXCEPT !.name = name] \in Entries
  BY <1>1, <1>2 DEF Entries
<1>4. msgs' = [msgs EXCEPT ![n] = [msgs[n] EXCEPT !.name = name]]
  OBVIOUS
<1>5. DOMAIN msgs' = 1..Len(msgs) /\ \A i \in 1..Len(msgs) : msgs'[i] =
         IF i = n THEN [msgs[n] EXCEPT !.name = name] ELSE msgs[i]
  BY <1>4
<1>6. msgs' \in Seq(Entries) /\ Len(msgs') = Len(msgs)
  BY <1>3, <1>4
<1> QED
  BY <1>2, <1>5, <1>6

\* An entry of the view is of a message that was delivered.
LEMMA EntryTyped ==
    ASSUME ViewInv, NEW n \in 1..Len(msgs)
    PROVE  msgs[n].msg \in Msgs /\ msgs[n].name \in Names /\ msgs[n].msg \in 1..born
<1>1. msgs[n] \in Entries
  BY DEF ViewInv
<1> QED
  BY <1>1 DEF ViewInv, Entries

\* The invariant holds at the start.
LEMMA PopInit == Init => SessionInv
<1> SUFFICES ASSUME Init PROVE SessionInv
  OBVIOUS
<1>1. Shape
  BY Pop3Assumption DEF Init, Shape, Names
<1>2. ViewInv /\ LoginInv /\ MarksInv /\ QuitInv
  <2>1. /\ msgs = <<>> /\ del = {} /\ asked = {} /\ pc = "closed" /\ authd = FALSE
        /\ quitOK = FALSE /\ logins = 0
    BY DEF Init
  <2>2. ViewInv
    BY <2>1, Pop3Assumption DEF ViewInv
  <2> QED
    BY <2>1, <2>2 DEF LoginInv, MarksInv, QuitInv, QuitHonoursDele, Left
<1>3. FlagsInv
  BY DEF Init, FlagsInv
<1> QED
  BY <1>1, <1>2, <1>3 DEF SessionInv

-----------------------------------------------------------------------------
(***************************************************************************)
(* The others                                                              *)
(***************************************************************************)
\* The files of 1..born that were gone stay so, and a name that says Deleted
\* from now on is recorded.
LEMMA OthersKeep ==
    ASSUME SessionInv, Shape', UNCHANGED <<sessionVars, logins, asked, removed, missed, unflagged, quitOK>>,
           born' \in {born, born + 1}, flagged \subseteq flagged',
           \A m \in 1..born : file[m] = Gone => file'[m] = Gone,
           \A m \in Msgs : Deleted(file'[m]) => Deleted(file[m]) \/ m \in flagged'
    PROVE  SessionInv'
<1>1. UNCHANGED <<pc, tls, user, authd, msgs, del, next, logins, asked, removed, missed, unflagged, quitOK>>
  BY DEF sessionVars
<1>2. born \in Nat
  BY Pop3Assumption DEF SessionInv, Shape
<1>3. ViewInv'
  BY <1>1, <1>2 DEF SessionInv, ViewInv
<1>4. LoginInv' /\ MarksInv'
  BY <1>1 DEF SessionInv, LoginInv, MarksInv
<1>5. FlagsInv'
  BY <1>1 DEF SessionInv, FlagsInv
<1>6. QuitInv'
  BY <1>1 DEF SessionInv, QuitInv, ViewInv, QuitHonoursDele, Left
<1> QED
  BY <1>3, <1>4, <1>5, <1>6 DEF SessionInv

\* A delivery.
LEMMA DeliverStep ==
    ASSUME SessionInv, NEW a \in Accounts, Deliver(a)
    PROVE  SessionInv'
<1>1. /\ born < MaxMsg /\ born' = born + 1 /\ acct' = [acct EXCEPT ![born + 1] = a]
      /\ file' = [file EXCEPT ![born + 1] = New]
      /\ UNCHANGED <<sessionVars, logins, asked, flagged, removed, missed, unflagged, quitOK>>
  BY DEF Deliver, obsVars
<1>2. UNCHANGED <<pc, tls, user, authd, next, logins>>
  BY <1>1 DEF sessionVars
<1>3. born \in Nat /\ MaxMsg \in Nat /\ Shape /\ file \in [Msgs -> Names]
  BY Pop3Assumption DEF SessionInv, Shape
<1>4. Shape'
  <2>1. New \in Names
    BY NamesLemma
  <2>2. file' \in [Msgs -> Names]
    BY <1>1, <1>3, <2>1
  <2>3. acct' \in [Msgs -> Accounts \cup {None}]
    BY <1>1, <1>3 DEF Shape
  <2>4. born' \in 0..MaxMsg
    BY <1>1, <1>3
  <2> QED
    BY <1>2, <1>3, <2>2, <2>3, <2>4 DEF Shape
<1>5. \A m \in Msgs : file'[m] = file[m] \/ (m = born + 1 /\ file'[m] = New)
  BY <1>1, <1>3
<1>6. 1..born \subseteq Msgs
  BY <1>1, <1>3 DEF Msgs
<1>7. \A m \in 1..born : file[m] = Gone => file'[m] = Gone
  BY <1>3, <1>5, <1>6
<1>8. \A m \in Msgs : Deleted(file'[m]) => Deleted(file[m]) \/ m \in flagged'
  BY <1>5, NamesLemma
<1> QED
  BY <1>1, <1>4, <1>7, <1>8, OthersKeep

\* Another session changes a name.
LEMMA OtherStep ==
    ASSUME SessionInv, NEW m \in 1..born, NEW name \in {Gone, Cur({}), Cur({"T"})},
           OtherChanges(m, name)
    PROVE  SessionInv'
<1>1. /\ born' = born /\ acct' = acct /\ file[m] # Gone /\ file' = [file EXCEPT ![m] = name]
      /\ flagged' = IF "T" \in name.fl THEN flagged \cup {m} ELSE flagged
      /\ UNCHANGED <<sessionVars, logins, asked, removed, missed, unflagged, quitOK>>
  BY DEF OtherChanges
<1>2. UNCHANGED <<pc, tls, user, authd, next, logins>>
  BY <1>1 DEF sessionVars
<1>3. file \in [Msgs -> Names] /\ 1..born \subseteq Msgs /\ name \in Names
  BY Pop3Assumption, NamesLemma DEF SessionInv, Shape, Msgs
<1>4. Shape'
  BY <1>1, <1>2, <1>3 DEF SessionInv, Shape
<1>5. \A k \in Msgs : file'[k] = file[k] \/ (k = m /\ file'[k] = name)
  BY <1>1, <1>3
<1>6. \A k \in 1..born : file[k] = Gone => file'[k] = Gone
  BY <1>1, <1>3, <1>5
<1>7. \A k \in Msgs : Deleted(file'[k]) => Deleted(file[k]) \/ k \in flagged'
  BY <1>1, <1>5 DEF Deleted
<1> QED
  BY <1>1, <1>4, <1>6, <1>7, OthersKeep

-----------------------------------------------------------------------------
(***************************************************************************)
(* The commands                                                            *)
(***************************************************************************)
\* A client connects, and what it finds.
LEMMA ConnectStep ==
    ASSUME SessionInv, NEW b \in BOOLEAN, Connect(b)
    PROVE  SessionInv'
<1>1. /\ pc' = "command" /\ user' = None /\ authd' = FALSE /\ msgs' = <<>> /\ del' = {}
      /\ next' = 0 /\ logins' = 0 /\ asked' = {} /\ removed' = {} /\ quitOK' = FALSE
      /\ flagged' = flagged \cup {m \in Msgs : "T" \in file[m].fl}
      /\ UNCHANGED <<born, acct, file>>
  BY DEF Connect, folderVars
<1>2. Shape'
  BY <1>1 DEF SessionInv, Shape
<1>3. ViewInv'
  BY <1>1, Pop3Assumption DEF ViewInv
<1>4. LoginInv' /\ MarksInv' /\ QuitInv'
  <2>1. LoginInv'
    <3>1. authd' \in BOOLEAN /\ quitOK' \in BOOLEAN /\ ~authd' /\ ~quitOK'
      BY <1>1, Zenon
    <3>2. ~(logins' >= 1) /\ del' = {} /\ asked' = {} /\ pc' = "command"
      BY <1>1
    <3> QED
      BY <3>1, <3>2 DEF LoginInv
  <2>2. MarksInv'
    BY <1>1 DEF MarksInv
  <2> QED
    BY <1>1, <2>1, <2>2 DEF QuitInv, QuitHonoursDele, Left
<1>5. FlagsInv'
  BY <1>1 DEF FlagsInv, Deleted
<1> QED
  BY <1>2, <1>3, <1>4, <1>5 DEF SessionInv

\* The connection, the name and the channel change, or the session ends.
LEMMA LineStep ==
    ASSUME SessionInv,
           Drop \/ Stls \/ PassFails \/ (\E a \in Accounts : User(a)) \/ QuitIdle \/ QuitBegin
           \/ EndMark \/ ExpungeFails \/ QuitEnd \/ Crash \/ UNCHANGED vars
    PROVE  SessionInv'
<1>0. Shape /\ ViewInv /\ LoginInv /\ FlagsInv /\ MarksInv /\ QuitInv
  BY DEF SessionInv
<1>1. UNCHANGED <<born, acct, file, msgs, del, logins, asked, flagged, removed, missed, unflagged>>
  BY DEF Drop, Stls, PassFails, User, QuitIdle, QuitBegin, EndMark, ExpungeFails, QuitEnd, Crash,
         folderVars, obsVars, vars, sessionVars
<1>2. ViewInv'
  BY <1>0, <1>1 DEF ViewInv
<1>3. CASE Drop \/ ExpungeFails \/ Crash
  <2>1. pc # "closed" /\ pc' = "closed" /\ UNCHANGED <<tls, user, authd, next, quitOK>>
    BY <1>3 DEF Drop, ExpungeFails, Crash, obsVars
  <2>2. Shape' /\ LoginInv' /\ FlagsInv' /\ MarksInv' /\ QuitInv'
    BY <1>0, <1>1, <2>1 DEF Shape, LoginInv, FlagsInv, MarksInv, QuitInv, QuitHonoursDele, Left
  <2> QED
    BY <1>2, <2>2 DEF SessionInv
<1>4. CASE Stls \/ PassFails \/ (\E a \in Accounts : User(a)) \/ UNCHANGED vars
  <2>1. /\ UNCHANGED <<pc, next, quitOK>> /\ authd' = authd
        /\ authd' \/ user' # None => tls'
    <3>1. CASE Stls
      <4>1. authd = FALSE
        BY <1>0, <3>1 DEF Stls, Shape, LoginInv
      <4> QED
        BY <3>1, <4>1 DEF Stls, obsVars
    <3>2. CASE PassFails \/ (\E a \in Accounts : User(a)) \/ UNCHANGED vars
      BY <1>0, <3>2 DEF PassFails, User, obsVars, vars, sessionVars, Shape
    <3> QED
      BY <1>4, <3>1, <3>2
  <2>2. Shape' /\ LoginInv' /\ FlagsInv' /\ MarksInv' /\ QuitInv'
    BY <1>0, <1>1, <2>1 DEF Shape, LoginInv, FlagsInv, MarksInv, QuitInv, QuitHonoursDele, Left
  <2> QED
    BY <1>2, <2>2 DEF SessionInv
<1>5. CASE QuitIdle
  <2>1. /\ pc = "command" /\ (~authd \/ del = {}) /\ pc' = "closed" /\ quitOK' = TRUE
        /\ UNCHANGED <<tls, user, authd, next>>
    BY <1>5 DEF QuitIdle
  <2>2. logins <= 1 => asked = {}
    BY <1>0, <2>1 DEF LoginInv, MarksInv, Shape
  <2>3. Shape' /\ LoginInv' /\ FlagsInv' /\ MarksInv' /\ QuitInv'
    BY <1>0, <1>1, <2>1, <2>2 DEF Shape, LoginInv, FlagsInv, MarksInv, QuitInv, QuitHonoursDele, Left
  <2> QED
    BY <1>2, <2>3 DEF SessionInv
<1>6. CASE QuitBegin
  <2>1. /\ pc = "command" /\ authd /\ pc' = "mark" /\ next' = 1
        /\ UNCHANGED <<tls, user, authd, quitOK>>
    BY <1>6 DEF QuitBegin, obsVars
  <2>2. Shape' /\ LoginInv' /\ FlagsInv' /\ MarksInv'
    BY <1>0, <1>1, <2>1 DEF Shape, LoginInv, FlagsInv, MarksInv
  <2>3. QuitInv'
    <3>1. \A n \in del : ~(n < 1)
      BY <1>0, Pop3Assumption DEF ViewInv, Msgs
    <3>2. \A n \in del' : ~(n < next')
      BY <1>1, <2>1, <3>1
    <3>3. QuitHonoursDele'
      BY <1>0, <1>1, <2>1 DEF QuitInv, QuitHonoursDele, Left
    <3> QED
      BY <2>1, <3>2, <3>3 DEF QuitInv
  <2> QED
    BY <1>2, <2>2, <2>3 DEF SessionInv
<1>7. CASE EndMark
  <2>1. /\ pc = "mark" /\ next > Len(msgs) /\ pc' = "expunge" /\ next' = 1
        /\ UNCHANGED <<tls, user, authd, quitOK>>
    BY <1>7 DEF EndMark, obsVars
  <2>2. Shape' /\ LoginInv' /\ FlagsInv' /\ MarksInv'
    BY <1>0, <1>1, <2>1 DEF Shape, LoginInv, FlagsInv, MarksInv
  <2>3. QuitInv'
    <3>1. logins <= 1 => \A n \in del : n \in 1..Len(msgs) /\ n < next
      BY <1>0, <2>1 DEF MarksInv, Shape, ViewInv
    <3>2. logins <= 1 => \A n \in del : Deleted(msgs[n].name) \/ msgs[n].msg \in Left
      BY <1>0, <2>1, <3>1 DEF QuitInv
    <3>3. \A n \in 1..Len(msgs) : ~(n < 1)
      BY <1>0 DEF ViewInv
    <3>4. QuitHonoursDele'
      BY <1>0, <1>1, <2>1 DEF QuitInv, QuitHonoursDele, Left
    <3> QED
      BY <1>1, <2>1, <3>2, <3>3, <3>4 DEF QuitInv, Left
  <2> QED
    BY <1>2, <2>2, <2>3 DEF SessionInv
<1>8. CASE QuitEnd
  <2>1. /\ pc = "expunge" /\ next > Len(msgs) /\ pc' = "closed" /\ quitOK' = TRUE
        /\ UNCHANGED <<tls, user, authd, next>>
    BY <1>8 DEF QuitEnd
  <2>2. ASSUME logins <= 1, NEW m \in asked PROVE file[m] = Gone \/ m \in Left
    <3>1. PICK n \in del : n \in 1..Len(msgs) /\ msgs[n].msg = m
      BY <1>0, <2>1, <2>2 DEF MarksInv
    <3>2. n < next
      BY <1>0, <2>1, <3>1 DEF Shape, ViewInv
    <3> QED
      BY <1>0, <2>1, <2>2, <3>1, <3>2 DEF QuitInv
  <2>3. Shape' /\ LoginInv' /\ FlagsInv' /\ MarksInv' /\ QuitInv'
    BY <1>0, <1>1, <2>1, <2>2 DEF Shape, LoginInv, FlagsInv, MarksInv, QuitInv, QuitHonoursDele, Left
  <2> QED
    BY <1>2, <2>3 DEF SessionInv
<1> QED
  BY <1>3, <1>4, <1>5, <1>6, <1>7, <1>8

\* DELE and RSET.
LEMMA MarkingStep ==
    ASSUME SessionInv, Rset \/ \E n \in 1..Len(msgs) : Dele(n)
    PROVE  SessionInv'
<1>0. Shape /\ ViewInv /\ LoginInv /\ FlagsInv /\ MarksInv /\ QuitInv
  BY DEF SessionInv
<1>1. CASE Rset
  <2>1. /\ pc = "command" /\ del' = {} /\ asked' = {}
        /\ UNCHANGED <<born, acct, file, pc, tls, user, authd, msgs, next, logins, flagged,
                       removed, missed, unflagged, quitOK>>
    BY <1>1 DEF Rset, folderVars
  <2> QED
    BY <1>0, <2>1 DEF SessionInv, Shape, ViewInv, LoginInv, FlagsInv, MarksInv, QuitInv,
                      QuitHonoursDele, Left
<1>2. ASSUME NEW n \in 1..Len(msgs), Dele(n) PROVE SessionInv'
  <2>1. /\ pc = "command" /\ authd /\ del' = del \cup {n} /\ asked' = asked \cup {msgs[n].msg}
        /\ UNCHANGED <<born, acct, file, pc, tls, user, authd, msgs, next, logins, flagged,
                       removed, missed, unflagged, quitOK>>
    BY <1>2 DEF Dele, Valid, folderVars
  <2>2. n \in Msgs /\ msgs[n].msg \in 1..born
    BY <1>0, Pop3Assumption DEF ViewInv, Msgs
  <2>3. ViewInv'
    BY <1>0, <2>1, <2>2 DEF ViewInv
  <2>4. Shape' /\ FlagsInv'
    BY <1>0, <2>1 DEF Shape, FlagsInv
  <2>5. LoginInv'
    BY <1>0, <2>1 DEF LoginInv, Shape
  <2>6. MarksInv'
    BY <1>0, <2>1 DEF MarksInv
  <2>7. QuitInv'
    BY <1>0, <2>1 DEF QuitInv, QuitHonoursDele, Left, LoginInv
  <2> QED
    BY <2>3, <2>4, <2>5, <2>6, <2>7 DEF SessionInv
<1> QED
  BY <1>1, <1>2

\* PASS: every entry of the new view is a file as it is named now.
LEMMA PassStep ==
    ASSUME SessionInv, PassOk
    PROVE  SessionInv'
<1>0. Shape /\ ViewInv /\ LoginInv /\ FlagsInv /\ MarksInv /\ QuitInv
  BY DEF SessionInv
<1>1. /\ pc = "command" /\ tls /\ logins' = logins + 1 /\ authd' = TRUE
      /\ msgs' \in Snapshot(user)
      /\ UNCHANGED <<born, acct, file, pc, tls, user, del, next, asked, flagged, removed, missed,
                     unflagged, quitOK>>
  BY DEF PassOk, folderVars
<1>2. Cardinality(Here(user)) \in Nat /\ Cardinality(Here(user)) <= MaxMsg
  <2>1. IsFiniteSet(1..born) /\ Cardinality(1..born) = born /\ born \in Nat /\ born <= MaxMsg
    BY <1>0, FS_Interval, Pop3Assumption DEF Shape
  <2>2. Here(user) \subseteq 1..born
    BY DEF Here
  <2>3. Cardinality(Here(user)) <= Cardinality(1..born) /\ IsFiniteSet(Here(user))
    BY <2>1, <2>2, FS_Subset
  <2>4. Cardinality(Here(user)) \in Nat
    BY <2>3, FS_CardinalityType
  <2> QED
    BY <2>1, <2>3, <2>4, Pop3Assumption
<1>3. msgs' \in [1..Cardinality(Here(user)) -> {[msg |-> m, name |-> file[m]] : m \in Here(user)}]
  BY <1>1 DEF Snapshot
<1>4. \A m \in Here(user) : m \in 1..born /\ m \in Msgs /\ file[m] \in Names \ {Gone}
  BY <1>0, Pop3Assumption DEF Here, Shape, Msgs
<1>5. {[msg |-> m, name |-> file[m]] : m \in Here(user)} \subseteq Entries
  BY <1>4 DEF Entries
<1>6. msgs' \in Seq(Entries) /\ Len(msgs') = Cardinality(Here(user))
  BY <1>2, <1>3, <1>5
<1>7. ASSUME NEW n \in 1..Len(msgs')
      PROVE  msgs'[n].msg \in 1..born /\ msgs'[n].msg \in Msgs /\ msgs'[n].name = file[msgs'[n].msg]
  <2>1. PICK m \in Here(user) : msgs'[n] = [msg |-> m, name |-> file[m]]
    BY <1>3, <1>6, <1>7
  <2> QED
    BY <1>4, <2>1
<1>8. Shape'
  BY <1>0, <1>1 DEF Shape
<1>9. ViewInv'
  BY <1>0, <1>1, <1>2, <1>6, <1>7 DEF ViewInv
<1>10. LoginInv'
  BY <1>0, <1>1 DEF LoginInv, Shape
<1>11. FlagsInv'
  BY <1>0, <1>1, <1>7 DEF FlagsInv, Shape
<1>12. MarksInv' /\ QuitInv'
  BY <1>0, <1>1 DEF MarksInv, LoginInv, Shape, QuitInv, QuitHonoursDele, Left
<1> QED
  BY <1>8, <1>9, <1>10, <1>11, <1>12 DEF SessionInv

\* RETR.
LEMMA RetrStep ==
    ASSUME SessionInv, NEW n \in 1..Len(msgs), Retr(n)
    PROVE  SessionInv'
<1>0. Shape /\ ViewInv /\ LoginInv /\ FlagsInv /\ MarksInv /\ QuitInv
  BY DEF SessionInv
<1> DEFINE m == msgs[n].msg
           old == msgs[n].name
           name == Cur(old.fl \cup {"S"})
<1>1. /\ pc = "command" /\ file[m] = old
      /\ file' = [file EXCEPT ![m] = name] /\ msgs' = [msgs EXCEPT ![n].name = name]
      /\ UNCHANGED <<born, acct, pc, tls, user, authd, del, next, logins, asked, flagged, removed,
                     missed, unflagged, quitOK>>
  BY DEF Retr, Valid, obsVars
<1>2. m \in Msgs /\ m \in 1..born /\ old \in Names
  BY <1>0, EntryTyped
<1>3. name \in Names \ {Gone} /\ name.fl = old.fl \cup {"S"}
  BY <1>2, NamesLemma
<1> HIDE DEF name, old, m
<1>4. /\ msgs' \in Seq(Entries) /\ Len(msgs') = Len(msgs)
      /\ \A i \in 1..Len(msgs) : msgs'[i].msg = msgs[i].msg
      /\ msgs'[n].name = name
      /\ \A i \in 1..Len(msgs) : i # n => msgs'[i] = msgs[i]
  BY <1>0, <1>1, <1>3, EntryRenamed DEF ViewInv
<1>5. /\ file' \in [Msgs -> Names]
      /\ \A k \in Msgs : file'[k] = IF k = m THEN name ELSE file[k]
  BY <1>0, <1>1, <1>2, <1>3 DEF Shape
<1>6. Deleted(name) <=> Deleted(old)
  BY <1>3 DEF Deleted
<1>7. Shape' /\ ViewInv'
  BY <1>0, <1>1, <1>4, <1>5 DEF Shape, ViewInv
<1>8. LoginInv' /\ MarksInv'
  BY <1>0, <1>1, <1>4 DEF LoginInv, MarksInv
<1>9. FlagsInv'
  <2>1. \A k \in Msgs : Deleted(file'[k]) => k \in flagged
    BY <1>0, <1>1, <1>2, <1>5, <1>6 DEF FlagsInv
  <2>2. \A i \in 1..Len(msgs) : Deleted(msgs'[i].name) => msgs[i].msg \in flagged
    BY <1>0, <1>1, <1>4, <1>6 DEF FlagsInv, old
  <2> QED
    BY <1>0, <1>1, <1>4, <2>1, <2>2 DEF FlagsInv
<1>10. QuitInv'
  BY <1>0, <1>1 DEF QuitInv, QuitHonoursDele, Left, LoginInv
<1> QED
  BY <1>7, <1>8, <1>9, <1>10 DEF SessionInv

-----------------------------------------------------------------------------
(***************************************************************************)
(* The two loops of QUIT                                                   *)
(***************************************************************************)
\* QUIT marks a message.
LEMMA MarkStep ==
    ASSUME SessionInv, Mark
    PROVE  SessionInv'
<1>0. Shape /\ ViewInv /\ LoginInv /\ FlagsInv /\ MarksInv /\ QuitInv
  BY DEF SessionInv
<1> DEFINE m == msgs[next].msg
           old == msgs[next].name
           name == Cur(old.fl \cup {"T"})
<1>1. /\ pc = "mark" /\ next <= Len(msgs) /\ next' = next + 1
      /\ UNCHANGED <<born, acct, pc, tls, user, authd, del, logins, asked, flagged, removed,
                     quitOK>>
  BY DEF Mark
<1>2. quitOK = FALSE
  BY <1>0, <1>1 DEF LoginInv
<1>3. LoginInv'
  BY <1>0, <1>1 DEF LoginInv
<1>4. CASE next \in del /\ file[m] = old /\ file' = [file EXCEPT ![m] = name]
           /\ msgs' = [msgs EXCEPT ![next].name = name] /\ UNCHANGED <<missed, unflagged>>
  <2>1. next \in 1..Len(msgs)
    BY <1>0, <1>1, <1>4, Pop3Assumption DEF ViewInv, Shape, Msgs
  <2>2. m \in Msgs /\ old \in Names
    BY <1>0, <2>1, EntryTyped
  <2>3. name \in Names \ {Gone} /\ Deleted(name)
    BY <2>2, NamesLemma DEF Deleted
  <2> HIDE DEF name, old, m
  <2>4. /\ msgs' \in Seq(Entries) /\ Len(msgs') = Len(msgs)
        /\ \A i \in 1..Len(msgs) : msgs'[i].msg = msgs[i].msg
        /\ msgs'[next].name = name
        /\ \A i \in 1..Len(msgs) : i # next => msgs'[i] = msgs[i]
    BY <1>0, <1>4, <2>1, <2>3, EntryRenamed DEF ViewInv
  <2>5. file' \in [Msgs -> Names]
    BY <1>0, <1>4, <2>3 DEF Shape
  <2>6. Shape' /\ ViewInv'
    BY <1>0, <1>1, <2>4, <2>5 DEF Shape, ViewInv
  <2>7. MarksInv'
    BY <1>0, <1>1, <2>4 DEF MarksInv
  <2>8. FlagsInv'
    <3>1. logins <= 1 => msgs[next].msg \in asked
      BY <1>0, <1>1, <1>4 DEF MarksInv
    <3>2. logins <= 1 => \A i \in 1..Len(msgs) :
                Deleted(msgs'[i].name) => msgs[i].msg \in asked \cup flagged
      BY <1>0, <1>1, <2>4, <3>1 DEF FlagsInv
    <3> QED
      BY <1>0, <1>1, <2>4, <3>2 DEF FlagsInv
  <2>9. QuitInv'
    <3>1. logins <= 1 => \A i \in del : i \in 1..Len(msgs)
      BY <1>0, <1>1 DEF MarksInv
    <3>2. logins <= 1 => \A i \in del : i < next + 1 => Deleted(msgs'[i].name) \/ msgs'[i].msg \in Left
      BY <1>0, <1>1, <2>3, <2>4, <3>1 DEF QuitInv, Shape, ViewInv
    <3> QED
      BY <1>1, <1>2, <1>4, <3>2 DEF QuitInv, QuitHonoursDele, Left
  <2> QED
    BY <1>3, <2>6, <2>7, <2>8, <2>9 DEF SessionInv
<1>5. CASE UNCHANGED <<file, msgs>> /\ Left \subseteq Left'
           /\ (next \in del => Deleted(old) \/ m \in Left')
  <2>1. Shape' /\ ViewInv'
    BY <1>0, <1>1, <1>5 DEF Shape, ViewInv
  <2>2. MarksInv' /\ FlagsInv'
    BY <1>0, <1>1, <1>5 DEF MarksInv, FlagsInv
  <2>3. QuitInv'
    <3>1. logins <= 1 => \A i \in del : i \in 1..Len(msgs)
      BY <1>0, <1>1 DEF MarksInv
    <3>2. logins <= 1 => \A i \in del : i < next + 1 => Deleted(msgs[i].name) \/ msgs[i].msg \in Left'
      BY <1>0, <1>1, <1>5, <3>1 DEF QuitInv, Shape, ViewInv
    <3> QED
      BY <1>1, <1>2, <1>5, <3>2 DEF QuitInv, QuitHonoursDele, Left
  <2> QED
    BY <1>3, <2>1, <2>2, <2>3 DEF SessionInv
<1>6. \/ /\ next \in del /\ file[m] = old /\ file' = [file EXCEPT ![m] = name]
         /\ msgs' = [msgs EXCEPT ![next].name = name] /\ UNCHANGED <<missed, unflagged>>
      \/ /\ UNCHANGED <<file, msgs>> /\ Left \subseteq Left'
         /\ (next \in del => old = name \/ m \in Left')
  BY DEF Mark, Left
<1>7. ASSUME next \in del, old = name
      PROVE  Deleted(old)
  <2>1. next \in 1..Len(msgs)
    BY <1>0, <1>1, <1>7, Pop3Assumption DEF ViewInv, Shape, Msgs
  <2>2. old \in Names
    BY <1>0, <2>1, EntryTyped
  <2> QED
    BY <1>7, <2>2, NamesLemma DEF Deleted
<1> QED
  BY <1>4, <1>5, <1>6, <1>7

\* QUIT expunges.
LEMMA ExpungeStep ==
    ASSUME SessionInv, Expunge
    PROVE  SessionInv'
<1>0. Shape /\ ViewInv /\ LoginInv /\ FlagsInv /\ MarksInv /\ QuitInv
  BY DEF SessionInv
<1> DEFINE m == msgs[next].msg
           name == msgs[next].name
<1>1. /\ pc = "expunge" /\ next <= Len(msgs) /\ next' = next + 1
      /\ UNCHANGED <<born, acct, pc, tls, user, authd, msgs, del, logins, asked, flagged,
                     unflagged, quitOK>>
  BY DEF Expunge
<1>2. \/ Deleted(name) /\ file[m] = name /\ file' = [file EXCEPT ![m] = Gone]
         /\ removed' = removed \cup {m} /\ missed' = missed
      \/ Deleted(name) /\ file' = file /\ removed' = removed /\ missed' = missed \cup {m}
      \/ ~Deleted(name) /\ UNCHANGED <<file, removed, missed, unflagged>>
  BY DEF Expunge, Deleted
<1>3. quitOK = FALSE
  BY <1>0, <1>1 DEF LoginInv
<1>4. LoginInv' /\ ViewInv' /\ MarksInv'
  BY <1>0, <1>1 DEF LoginInv, ViewInv, MarksInv
<1>5. Shape' /\ \A k \in Msgs : file[k] = Gone => file'[k] = Gone
  <2>1. Gone \in Names
    BY NamesLemma
  <2>2. file' \in [Msgs -> Names] /\ \A k \in Msgs : file[k] = Gone => file'[k] = Gone
    BY <1>0, <1>2, <2>1 DEF Shape
  <2> QED
    BY <1>0, <1>1, <2>2 DEF Shape
<1>6. \A i \in 1..Len(msgs) : msgs[i].msg \in Msgs
  BY <1>0, EntryTyped
<1>7. next \in 1..Len(msgs)
  BY <1>0, <1>1 DEF Shape, ViewInv
<1>8. Deleted(name) => file'[m] = Gone \/ m \in Left'
  BY <1>0, <1>2, <1>6, <1>7 DEF Shape, Left
<1>9. FlagsInv'
  <2>1. logins <= 1 => removed' \subseteq asked \cup flagged
    BY <1>0, <1>1, <1>2, <1>7 DEF FlagsInv
  <2> QED
    BY <1>0, <1>1, <2>1 DEF FlagsInv
<1>10. Left \subseteq Left'
  BY <1>1, <1>2 DEF Left
<1>11. logins <= 1 => \A i \in 1..Len(msgs) : i < next + 1 /\ Deleted(msgs[i].name) =>
            file'[msgs[i].msg] = Gone \/ msgs[i].msg \in Left'
  <2> SUFFICES ASSUME logins <= 1, NEW i \in 1..Len(msgs), i < next + 1, Deleted(msgs[i].name)
               PROVE  file'[msgs[i].msg] = Gone \/ msgs[i].msg \in Left'
    OBVIOUS
  <2>1. i < next \/ i = next
    BY <1>7
  <2>2. CASE i < next
    BY <1>0, <1>1, <1>5, <1>6, <1>10, <2>2 DEF QuitInv
  <2>3. CASE i = next
    BY <1>8, <2>3
  <2> QED
    BY <2>1, <2>2, <2>3
<1>12. QuitInv'
  <2>1. pc = "expunge" /\ logins <= 1 => \A n \in del : Deleted(msgs[n].name) \/ msgs[n].msg \in Left'
    BY <1>0, <1>10 DEF QuitInv
  <2> QED
    BY <1>1, <1>3, <1>11, <2>1 DEF QuitInv, QuitHonoursDele
<1> QED
  BY <1>4, <1>5, <1>9, <1>12 DEF SessionInv

\* Every step keeps the invariant.
LEMMA PopStep == SessionInv /\ [Next]_vars => SessionInv'
<1> SUFFICES ASSUME SessionInv, [Next]_vars PROVE SessionInv'
  OBVIOUS
<1> QED
  BY DeliverStep, OtherStep, ConnectStep, LineStep, MarkingStep, PassStep, RetrStep, MarkStep,
     ExpungeStep DEF Next, Quit

\* The state keeps its shape; no session is logged in, or names a user, over a
\* plaintext channel.
THEOREM TypeCorrect == Spec => []TypeOK
<1>1. SessionInv => TypeOK
  BY DEF SessionInv, Shape, ViewInv, TypeOK, Entries
<1> QED
  BY <1>1, PopInit, PopStep, PTL DEF Spec

\* A QUIT answered +OK in a session that logged in once removed every message
\* the client asked to delete, however deliveries, flags and removals by other
\* sessions fall between its renames and removals, unless one of them took the
\* file's name away or the session's own rename failed, which the code logs
\* and answers +OK to.
THEOREM QuitHonoursDeleAlways == Spec => []QuitHonoursDele
<1>1. SessionInv => QuitHonoursDele
  BY DEF SessionInv, QuitInv
<1> QED
  BY <1>1, PopInit, PopStep, PTL DEF Spec

\* In such a session QUIT removes a message only if the client asked for it
\* after its last RSET, or another session had flagged it Deleted.
THEOREM OnlyAskedOrFlaggedAlways == Spec => []OnlyAskedOrFlagged
<1>1. SessionInv => OnlyAskedOrFlagged
  BY DEF SessionInv, FlagsInv, OnlyAskedOrFlagged
<1> QED
  BY <1>1, PopInit, PopStep, PTL DEF Spec
=============================================================================
