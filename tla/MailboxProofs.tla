--------------------------- MODULE MailboxProofs ---------------------------
(***************************************************************************)
(* The Maildir folder for any number of messages, flags, UIDVALIDITYs,     *)
(* crashes and losses of the UID list.                                     *)
(*                                                                         *)
(* Two results.  However many sessions share the folder, Expunge removes   *)
(* only files whose names say Deleted at that moment.  And a folder that   *)
(* one session at a time has open, whose UID list can be written, keeps    *)
(* the promises about UIDs through deliveries, crashes and losses of the   *)
(* list; that two sessions break them is shown by the run mailbox_reuse.   *)
(***************************************************************************)
EXTENDS Mailbox, FiniteSetTheorems, TLAPS

(***************************************************************************)
(* Any number of sessions                                                  *)
(***************************************************************************)

ScanFields == {"uids", "n", "listed", "found"}

Shape ==
    /\ DOMAIN pc = Sessions /\ DOMAIN view = Sessions
    /\ DOMAIN scan = Sessions /\ DOMAIN app = Sessions

\* The files: a message that is yet to come has no flags, and flags come
\* with the move to cur/.
FolderOK ==
    /\ born \in 0..MaxMsg
    /\ loc \in [Msgs -> {"new", "cur", "gone"}]
    /\ flags \in [Msgs -> SUBSET Flags]
    /\ \A m \in Msgs : loc[m] = "new" \/ m > born => flags[m] = {}

\* A session between calls holds no scan, and what Expunge has listed carries
\* the flag in the name that it will remove.
SessionOK(s) ==
    /\ DOMAIN scan[s] = ScanFields
    /\ app[s] \in 0..born
    /\ pc[s] = "closed" => view[s] = {}
    /\ pc[s] \in {"closed", "open", "appended", "flagged"} => scan[s] = NoScan
    /\ pc[s] = "expunge" => \A e \in scan[s].listed : "T" \in e.fl

FolderInv ==
    /\ Shape
    /\ FolderOK
    /\ \A s \in Sessions : SessionOK(s)

\* The four ways a Refresh or an Expunge changes its scan.
ScanKept(s) ==
    /\ DOMAIN scan' = Sessions /\ DOMAIN scan'[s] = ScanFields
    /\ \A t \in Sessions \ {s} : scan'[t] = scan[t]

\* What a step changes of a scan: the names listed,
LEMMA ScanListed ==
    ASSUME NEW s \in Sessions, DOMAIN scan = Sessions, DOMAIN scan[s] = ScanFields,
           NEW X, scan' = [scan EXCEPT ![s].listed = X]
    PROVE  /\ ScanKept(s) /\ scan'[s].listed = X /\ scan'[s].found = scan[s].found
           /\ scan'[s].uids = scan[s].uids /\ scan'[s].n = scan[s].n
  BY DEF ScanFields, ScanKept

\* the messages found,
LEMMA ScanFound ==
    ASSUME NEW s \in Sessions, DOMAIN scan = Sessions, DOMAIN scan[s] = ScanFields,
           NEW X, scan' = [scan EXCEPT ![s].found = X, ![s].listed = {}]
    PROVE  /\ ScanKept(s) /\ scan'[s].listed = {} /\ scan'[s].found = X
           /\ scan'[s].uids = scan[s].uids /\ scan'[s].n = scan[s].n
  BY DEF ScanFields, ScanKept

\* the list that was read,
LEMMA ScanRead ==
    ASSUME NEW s \in Sessions, DOMAIN scan = Sessions,
           NEW X, NEW Y, scan' = [scan EXCEPT ![s] = [NoScan EXCEPT !.uids = X, !.n = Y]]
    PROVE  /\ ScanKept(s) /\ scan'[s].listed = {} /\ scan'[s].found = {}
           /\ scan'[s].uids = X /\ scan'[s].n = Y
  BY DEF ScanFields, ScanKept, NoScan

\* or all of it.
LEMMA ScanReset ==
    ASSUME NEW s \in Sessions, DOMAIN scan = Sessions, scan' = [scan EXCEPT ![s] = NoScan]
    PROVE  ScanKept(s) /\ scan'[s] = NoScan
  BY DEF ScanFields, ScanKept, NoScan

\* What a step of session s leaves of the others.
OthersKept(s) ==
    \A t \in Sessions \ {s} :
        pc'[t] = pc[t] /\ view'[t] = view[t] /\ scan'[t] = scan[t] /\ app'[t] = app[t]

\* Everything a session does, as one step of it.
SessionStep(s) ==
    \/ OpenMailbox(s) \/ Refresh(s) \/ Close(s)
    \/ \E sub \in {"new", "cur"} : ListDir(s, sub)
    \/ StatNew(s) \/ StatCur(s)
    \/ WriteTmp(s) \/ WriteFails(s) \/ RenameList(s)
    \/ RenameFails(s) \/ RemoveTmp(s)
    \/ \E e \in view[s], f \in SUBSET Flags : SetFlags(s, e, f)
    \/ BeginExpunge(s) \/ EndExpunge(s) \/ ExpungeFails(s)
    \/ \E e \in scan[s].listed : ExpungeOne(s, e)
    \/ \E t \in Dates : AppendStore(s, t)
    \/ AppendRefresh(s) \/ AppendFlagged(s) \/ AppendFlagFails(s)
    \/ \E f \in SUBSET Flags \ {{}} : AppendFlag(s, f)

\* A session keeps the shape of the state and the state of the others.
LEMMA SessionsKept ==
    ASSUME FolderInv, NEW s \in Sessions, SessionStep(s)
    PROVE  Shape' /\ OthersKept(s) /\ SessionOK(s)'
<1> DEFINE Kept == Shape' /\ OthersKept(s) /\ SessionOK(s)'
<1> SUFFICES Kept
  OBVIOUS
<1>0. /\ Shape /\ SessionOK(s) /\ born \in Nat /\ DOMAIN scan = Sessions
      /\ DOMAIN scan[s] = ScanFields
  BY MailboxAssumption DEF FolderInv, FolderOK, Shape, SessionOK
<1> HIDE DEF Kept
<1>1. ASSUME ReadUIDList(s), UNCHANGED <<app, view, born>>, pc[s] # "closed" \/ view[s] = {}
      PROVE  Kept
  <2>1. ScanKept(s)
    BY <1>0, <1>1, ScanRead DEF ReadUIDList
  <2> QED
    BY <1>0, <1>1, <2>1 DEF Kept, ReadUIDList, Goto, Shape, OthersKept, SessionOK, ScanKept
<1>2. CASE OpenMailbox(s) \/ Refresh(s) \/ AppendRefresh(s) \/ AppendFlagged(s)
  BY <1>0, <1>1, <1>2 DEF OpenMailbox, Refresh, AppendRefresh, AppendFlagged, folderVars, SessionOK
<1>3. CASE Close(s)
  BY <1>0, <1>3 DEF Kept, Close, Goto, folderVars, Shape, OthersKept, SessionOK
<1>4. ASSUME NEW sub \in {"new", "cur"}, ListDir(s, sub) PROVE Kept
  <2>1. ScanKept(s)
    BY <1>0, <1>4, ScanListed DEF ListDir
  <2> QED
    BY <1>0, <1>4, <2>1
       DEF Kept, ListDir, Goto, folderVars, Shape, OthersKept, SessionOK, ScanKept
<1>5. CASE StatNew(s)
  <2>1. ScanKept(s)
    BY <1>0, <1>5, ScanFound DEF StatNew
  <2> QED
    BY <1>0, <1>5, <2>1
       DEF Kept, StatNew, Goto, folderVars, Shape, OthersKept, SessionOK, ScanKept
<1>6. ASSUME NEW v, view' = [view EXCEPT ![s] = v] \/ view' = view, born' = born, Done(s, v),
             scan' = [scan EXCEPT ![s] = NoScan]
      PROVE  Kept
  <2>1. ScanKept(s) /\ scan'[s] = NoScan
    BY <1>0, <1>6, ScanReset
  <2>2. pc' = [pc EXCEPT ![s] = "open"] /\ app' = [app EXCEPT ![s] = 0]
    BY <1>6 DEF Done, Goto
  <2> QED
    BY <1>0, <1>6, <2>1, <2>2 DEF Kept, Shape, OthersKept, SessionOK, ScanKept
<1>7. CASE StatCur(s)
  <2>1. PICK v : /\ view' = [view EXCEPT ![s] = v]
                 /\ \/ Done(s, v) /\ scan' = [scan EXCEPT ![s] = NoScan]
                    \/ /\ Goto(s, "write") /\ app' = app
                       /\ \E U, n : scan' = [scan EXCEPT ![s] = [NoScan EXCEPT !.uids = U, !.n = n]]
                 /\ born' = born
    BY <1>7 DEF StatCur, folderVars
  <2>2. CASE Done(s, v) /\ scan' = [scan EXCEPT ![s] = NoScan]
    BY <1>6, <2>1, <2>2
  <2>3. ASSUME Goto(s, "write"), app' = app, NEW U, NEW n,
               scan' = [scan EXCEPT ![s] = [NoScan EXCEPT !.uids = U, !.n = n]]
        PROVE  Kept
    <3>1. ScanKept(s)
      BY <1>0, <2>3, ScanRead
    <3> QED
      BY <1>0, <2>1, <2>3, <3>1 DEF Kept, Goto, Shape, OthersKept, SessionOK, ScanKept
  <2> QED
    BY <2>1, <2>2, <2>3
<1>8. CASE RenameList(s)
  BY <1>6, <1>8 DEF RenameList
<1>9. CASE WriteTmp(s) \/ RenameFails(s)
  BY <1>0, <1>9 DEF Kept, WriteTmp, RenameFails, Goto, folderVars, Shape, OthersKept, SessionOK
<1>10. CASE WriteFails(s) \/ RemoveTmp(s)
  <2>1. Failed(s) /\ born' = born
    BY <1>10 DEF WriteFails, RemoveTmp, folderVars
  <2>2. /\ pc' = [pc EXCEPT ![s] = IF opening[s] THEN "closed" ELSE "open"]
        /\ app' = [app EXCEPT ![s] = 0]
        /\ view' = [view EXCEPT ![s] = IF opening[s] THEN {} ELSE view[s]]
    BY <2>1 DEF Failed, Goto
  <2>3. ScanKept(s) /\ scan'[s] = NoScan
    BY <1>0, <2>1, ScanReset DEF Failed
  <2>4. app'[s] = 0 /\ (pc'[s] = "closed" => view'[s] = {}) /\ pc'[s] # "expunge"
    BY <1>0, <2>2 DEF Shape
  <2>5. SessionOK(s)'
    BY <1>0, <2>1, <2>3, <2>4 DEF SessionOK, ScanKept
  <2> QED
    BY <1>0, <2>2, <2>3, <2>5 DEF Kept, Shape, OthersKept, ScanKept
<1>11. ASSUME NEW e \in view[s], NEW f \in SUBSET Flags, SetFlags(s, e, f) PROVE Kept
  <2>1. /\ pc[s] = "open" /\ UNCHANGED <<pc, app, scan, born>>
        /\ \E v : view' = [view EXCEPT ![s] = v]
    BY <1>11 DEF SetFlags, Rename
  <2> QED
    BY <1>0, <2>1 DEF Kept, Shape, OthersKept, SessionOK
<1>12. CASE BeginExpunge(s)
  <2>1. ScanKept(s) /\ scan'[s].listed = {e \in view[s] : "T" \in e.fl}
    BY <1>0, <1>12, ScanListed DEF BeginExpunge
  <2>2. /\ pc' = [pc EXCEPT ![s] = "expunge"] /\ UNCHANGED <<app, view, born>>
    BY <1>12 DEF BeginExpunge, Goto, folderVars
  <2> QED
    BY <1>0, <2>1, <2>2 DEF Kept, Shape, OthersKept, SessionOK, ScanKept
<1>13. CASE EndExpunge(s)
  <2>1. ScanKept(s) /\ scan'[s] = NoScan
    BY <1>0, <1>13, ScanReset DEF EndExpunge
  <2> QED
    BY <1>0, <1>13, <2>1
       DEF Kept, EndExpunge, Goto, folderVars, Shape, OthersKept, SessionOK, ScanKept
<1>14. CASE ExpungeFails(s)
  <2>1. ScanKept(s) /\ scan'[s] = NoScan
    BY <1>0, <1>14, ScanReset DEF ExpungeFails
  <2> QED
    BY <1>0, <1>14, <2>1
       DEF Kept, ExpungeFails, Goto, folderVars, Shape, OthersKept, SessionOK, ScanKept
<1>15. ASSUME NEW e \in scan[s].listed, ExpungeOne(s, e) PROVE Kept
  <2>1. /\ pc[s] = "expunge" /\ UNCHANGED <<pc, app, view, born>>
        /\ scan' = [scan EXCEPT ![s].listed = scan[s].listed \ {e}]
    BY <1>15 DEF ExpungeOne
  <2>2. ScanKept(s) /\ scan'[s].listed = scan[s].listed \ {e}
    BY <1>0, <2>1, ScanListed
  <2> QED
    BY <1>0, <2>1, <2>2 DEF Kept, Shape, OthersKept, SessionOK, ScanKept
<1>16. ASSUME NEW t \in Dates, AppendStore(s, t) PROVE Kept
  BY <1>0, <1>16 DEF Kept, AppendStore, Store, Goto, Shape, OthersKept, SessionOK
<1>17. CASE AppendFlagFails(s)
  BY <1>0, <1>17 DEF Kept, AppendFlagFails, Goto, folderVars, Shape, OthersKept, SessionOK
<1>18. ASSUME NEW f \in SUBSET Flags \ {{}}, AppendFlag(s, f) PROVE Kept
  BY <1>0, <1>18 DEF Kept, AppendFlag, Rename, Goto, Shape, OthersKept, SessionOK
<1> QED
  BY <1>2, <1>3, <1>4, <1>5, <1>7, <1>8, <1>9, <1>10, <1>11, <1>12, <1>13, <1>14, <1>15,
     <1>16, <1>17, <1>18 DEF SessionStep

\* What a step may do to the files, and what it may never do.
OnlyDeleted == \A m \in Msgs : loc[m] # "gone" /\ loc'[m] = "gone" => "T" \in flags[m]

\* A stored message is new, and removes nothing.
LEMMA StoreKeeps ==
    ASSUME FolderOK, NEW t, Store(t)
    PROVE  FolderOK' /\ OnlyDeleted /\ born' = born + 1
<1>1. born \in Nat /\ born + 1 \in Msgs
  BY MailboxAssumption DEF FolderOK, Store, Msgs
<1> QED
  BY <1>1, MailboxAssumption DEF FolderOK, Store, OnlyDeleted, Msgs

\* A new name for a message removes nothing.
LEMMA RenameKeeps ==
    ASSUME FolderOK, NEW m \in 0..born, NEW f \in SUBSET Flags, Rename(m, f)
    PROVE  FolderOK' /\ OnlyDeleted
<1>1. /\ born' = born /\ born \in 0..MaxMsg /\ MaxMsg \in Nat
      /\ loc \in [Msgs -> {"new", "cur", "gone"}] /\ flags \in [Msgs -> SUBSET Flags]
      /\ loc' = [loc EXCEPT ![m] = "cur"] /\ flags' = [flags EXCEPT ![m] = f]
  BY MailboxAssumption DEF FolderOK, Rename
<1>2. loc' \in [Msgs -> {"new", "cur", "gone"}] /\ flags' \in [Msgs -> SUBSET Flags]
  BY <1>1
<1>3. \A k \in Msgs : k # m => loc'[k] = loc[k] /\ flags'[k] = flags[k]
  BY <1>1
<1>4. m \in Msgs => loc'[m] = "cur" /\ ~(m > born)
  BY <1>1 DEF Msgs
<1>5. \A k \in Msgs : loc'[k] = "new" \/ k > born => flags'[k] = {}
  BY <1>3, <1>4 DEF FolderOK
<1> QED
  BY <1>1, <1>2, <1>3, <1>4, <1>5 DEF FolderOK, OnlyDeleted

\* No step of a session removes a message that is not marked deleted.
LEMMA FolderKept ==
    ASSUME FolderInv, NEW s \in Sessions, SessionStep(s)
    PROVE  FolderOK' /\ OnlyDeleted /\ born' \in {born, born + 1}
<1> DEFINE Kept == FolderOK' /\ OnlyDeleted /\ born' \in {born, born + 1}
<1> SUFFICES Kept
  OBVIOUS
<1>0. FolderOK /\ SessionOK(s)
  BY DEF FolderInv
<1>1. ASSUME UNCHANGED <<born, loc, flags>> PROVE Kept
  BY <1>0, <1>1 DEF FolderOK, OnlyDeleted
<1> HIDE DEF Kept
<1>2. CASE \/ OpenMailbox(s) \/ Refresh(s) \/ Close(s)
           \/ \E sub \in {"new", "cur"} : ListDir(s, sub)
           \/ StatNew(s) \/ StatCur(s)
           \/ WriteTmp(s) \/ WriteFails(s) \/ RenameList(s)
           \/ RenameFails(s) \/ RemoveTmp(s)
           \/ BeginExpunge(s) \/ EndExpunge(s) \/ ExpungeFails(s)
           \/ AppendRefresh(s) \/ AppendFlagged(s) \/ AppendFlagFails(s)
  <2>1. UNCHANGED <<born, loc, flags>>
    BY <1>2 DEF OpenMailbox, Refresh, Close, ListDir, StatNew, StatCur, WriteTmp, WriteFails,
                RenameList, RenameFails, RemoveTmp, BeginExpunge, EndExpunge, ExpungeFails,
                AppendRefresh, AppendFlagged, AppendFlagFails, folderVars
  <2> QED
    BY <1>1, <2>1
<1>3. ASSUME NEW e \in view[s], NEW f \in SUBSET Flags, SetFlags(s, e, f) PROVE Kept
  <2>1. Rename(e.msg, f) /\ e.msg \in 1..born
    BY <1>3 DEF SetFlags, Exists, EntryFile
  <2>2. e.msg \in 0..born
    BY <1>0, <2>1 DEF FolderOK
  <2> QED
    BY <1>0, <2>1, <2>2, RenameKeeps DEF Kept, Rename
<1>4. ASSUME NEW f \in SUBSET Flags \ {{}}, AppendFlag(s, f) PROVE Kept
  BY <1>0, <1>4, RenameKeeps DEF AppendFlag, SessionOK, Kept, Rename
<1>5. ASSUME NEW t \in Dates, AppendStore(s, t) PROVE Kept
  BY <1>0, <1>5, StoreKeeps DEF AppendStore, Kept
<1>6. ASSUME NEW e \in scan[s].listed, ExpungeOne(s, e) PROVE Kept
  <2>1. /\ "T" \in e.fl /\ UNCHANGED <<born, flags>>
        /\ loc' = IF Exists(EntryFile(e)) THEN [loc EXCEPT ![e.msg] = "gone"] ELSE loc
    BY <1>0, <1>6 DEF ExpungeOne, SessionOK
  <2>2. CASE Exists(EntryFile(e))
    <3>1. e.msg \in 1..born /\ e.fl = flags[e.msg]
      BY <2>2 DEF Exists, EntryFile, FileOf
    <3>2. FolderOK'
      BY <1>0, <2>1, <2>2, <3>1 DEF FolderOK
    <3>3. OnlyDeleted
      BY <1>0, <2>1, <2>2, <3>1 DEF FolderOK, OnlyDeleted
    <3> QED
      BY <2>1, <3>2, <3>3 DEF Kept
  <2>3. CASE ~Exists(EntryFile(e))
    BY <1>1, <2>1, <2>3
  <2> QED
    BY <2>2, <2>3
<1> QED
  BY <1>2, <1>3, <1>4, <1>5, <1>6 DEF SessionStep

\* The folder at the start ...
LEMMA FolderInit == Init => FolderInv
<1> SUFFICES ASSUME Init PROVE FolderInv
  OBVIOUS
<1>1. Shape
  BY DEF Init, Shape
<1>2. FolderOK
  BY MailboxAssumption DEF Init, FolderOK, Msgs
<1>3. DOMAIN NoScan = ScanFields
  BY DEF NoScan, ScanFields
<1>4. \A s \in Sessions : SessionOK(s)
  BY <1>3, MailboxAssumption DEF Init, SessionOK
<1> QED
  BY <1>1, <1>2, <1>4 DEF FolderInv

\* ... and after every step.
LEMMA FolderStep == FolderInv /\ [Next]_vars => FolderInv' /\ [OnlyDeleted]_vars
<1> SUFFICES ASSUME FolderInv, [Next]_vars PROVE FolderInv' /\ (OnlyDeleted \/ UNCHANGED vars)
  OBVIOUS
<1>0. born \in Nat /\ FolderOK /\ Shape /\ \A s \in Sessions : SessionOK(s)
  BY MailboxAssumption DEF FolderInv, FolderOK
<1>1. ASSUME NEW s \in Sessions, SessionStep(s) PROVE FolderInv' /\ OnlyDeleted
  <2>1. FolderOK' /\ OnlyDeleted /\ born' \in {born, born + 1}
    BY <1>1, FolderKept
  <2>2. Shape' /\ OthersKept(s) /\ SessionOK(s)'
    BY <1>1, SessionsKept
  <2>3. ASSUME NEW t \in Sessions, t # s PROVE SessionOK(t)'
    BY <1>0, <2>1, <2>2, <2>3 DEF OthersKept, SessionOK
  <2> QED
    BY <2>1, <2>2, <2>3 DEF FolderInv
<1>2. CASE Deliver
  <2>1. FolderOK' /\ OnlyDeleted /\ born' = born + 1 /\ UNCHANGED sessionVars
    BY <1>0, <1>2, StoreKeeps DEF Deliver
  <2>2. Shape' /\ \A s \in Sessions : SessionOK(s)'
    BY <1>0, <2>1 DEF Shape, SessionOK, sessionVars
  <2> QED
    BY <2>1, <2>2 DEF FolderInv
<1>3. CASE Crash
  <2>1. /\ pc' = [s \in Sessions |-> "closed"] /\ app' = [s \in Sessions |-> 0]
        /\ view' = [s \in Sessions |-> {}] /\ scan' = [s \in Sessions |-> NoScan]
        /\ UNCHANGED <<born, loc, flags>>
    BY <1>3 DEF Crash, folderVars
  <2>2. DOMAIN NoScan = ScanFields
    BY DEF NoScan, ScanFields
  <2>3. Shape' /\ \A s \in Sessions : SessionOK(s)'
    BY <1>0, <2>1, <2>2 DEF Shape, SessionOK
  <2> QED
    BY <1>0, <2>1, <2>3 DEF FolderInv, FolderOK, OnlyDeleted
<1>4. CASE LoseList
  <2>1. UNCHANGED <<born, loc, flags, pc, app, view, scan>>
    BY <1>4 DEF LoseList, sessionVars
  <2>2. Shape' /\ (\A s \in Sessions : SessionOK(s)') /\ FolderOK'
    BY <1>0, <2>1 DEF Shape, SessionOK, FolderOK
  <2> QED
    BY <2>1, <2>2 DEF FolderInv, OnlyDeleted
<1>5. CASE UNCHANGED vars
  <2>1. UNCHANGED <<born, loc, flags, pc, app, view, scan>>
    BY <1>5 DEF vars, folderVars, sessionVars
  <2>2. Shape' /\ (\A s \in Sessions : SessionOK(s)') /\ FolderOK'
    BY <1>0, <2>1 DEF Shape, SessionOK, FolderOK
  <2> QED
    BY <1>5, <2>2 DEF FolderInv
<1> QED
  BY <1>1, <1>2, <1>3, <1>4, <1>5 DEF Next, SessionStep

\* The folder and the Mailbox objects keep their shape: a file in new/ has no
\* flags, and a closed object holds neither messages nor half a Refresh.
THEOREM TypeCorrect == Spec => []TypeOK
<1>1. FolderInv => TypeOK
  BY DEF FolderInv, FolderOK, SessionOK, TypeOK
<1> QED
  BY <1>1, FolderInit, FolderStep, PTL DEF Spec

\* Expunge removes a message only while its file name says Deleted, however
\* many sessions rename, expunge, append and refresh the folder meanwhile:
\* the name a stale view knows no longer exists once the flags have changed.
THEOREM OnlyDeletedRemovedAlways == Spec => OnlyDeletedRemoved
<1>1. [][OnlyDeleted]_vars => OnlyDeletedRemoved
  BY DEF OnlyDeleted, OnlyDeletedRemoved
<1> QED
  BY <1>1, FolderInit, FolderStep, PTL DEF Spec

-----------------------------------------------------------------------------
(***************************************************************************)
(* One session                                                             *)
(***************************************************************************)
FileRecs == [msg : Msgs, sub : {"new", "cur"}, fl : SUBSET Flags]
Entries  == [msg : Msgs, sub : {"new", "cur"}, fl : SUBSET Flags, uid : Nat]

\* A UID list for messages 1..b: no UID is given twice, and all are below the
\* next one.
GoodUIDs(U, n, b) ==
    /\ n \in Nat
    /\ U \in [DOMAIN U -> Nat]
    /\ DOMAIN U \subseteq 1..b
    /\ \A m \in DOMAIN U : U[m] < n
    /\ \A k, m \in DOMAIN U : U[k] = U[m] => k = m

\* The list agrees with all that clients saw (S) under v, and has forgotten
\* only messages that are gone (L).
Agrees(v, U, n, S, L) ==
    \A a \in S : a[1] = v =>
        /\ a[2] < n
        /\ \A m \in DOMAIN U : U[m] = a[2] <=> m = a[3]
        /\ a[3] \in DOMAIN U \/ L[a[3]] = "gone"

ListInv ==
    /\ list.v \in 0..clock
    /\ list.v = 0 => list = NoList
    /\ GoodUIDs(list.uids, list.n, born)
    /\ Agrees(list.v, list.uids, list.n, seen, loc)

SeenInv ==
    /\ clock \in Nat /\ mtime \in [Msgs -> Nat] /\ writeFaults = 0
    /\ \A a \in seen : a[1] \in 1..clock /\ a[2] \in Nat /\ a[3] \in 1..born
    /\ UIDsNeverReused
    /\ UIDsStable
    /\ stale = {}

\* The message of a running Append is in the folder, unseen and unlisted.
AppendInv(s) ==
    /\ app[s] # 0 =>
          /\ pc[s] \notin {"closed", "open", "expunge"}
          /\ app[s] \in 1..born /\ loc[app[s]] # "gone"
          /\ app[s] \notin DOMAIN list.uids
          /\ \A a \in seen : a[3] # app[s]
    /\ pc[s] \in {"appended", "flagged"} => app[s] # 0

\* The messages a scan must not miss.
Wanted(s, m) == m \in 1..born /\ (m = app[s] \/ \E a \in seen : a[3] = m)

Scanning == {"listNew", "statNew", "listCur", "statCur"}

ScanInv(s) ==
    pc[s] \in Scanning =>
        /\ validity[s] \in 1..clock
        /\ \/ list.v = 0
           \/ list.v = validity[s] /\ list.uids = scan[s].uids /\ list.n = scan[s].n
        /\ GoodUIDs(scan[s].uids, scan[s].n, born)
        /\ Agrees(validity[s], scan[s].uids, scan[s].n, seen, loc)
        /\ app[s] # 0 => app[s] \notin DOMAIN scan[s].uids
        /\ scan[s].listed \subseteq FileRecs
        /\ \A f \in scan[s].found : f \in FileRecs /\ f.msg \in 1..born /\ loc[f.msg] # "gone"
        /\ \A m \in Msgs : Wanted(s, m) =>
              /\ pc[s] = "statNew" /\ loc[m] = "new" => FileOf(m) \in scan[s].listed
              /\ pc[s] \in {"listCur", "statCur"} /\ loc[m] = "new" => FileOf(m) \in scan[s].found
              /\ pc[s] = "statCur" /\ loc[m] = "cur" => FileOf(m) \in scan[s].listed

\* Between the scan and the new list nothing is seen that it does not have.
WriteInv(s) ==
    pc[s] \in {"write", "rename"} =>
        /\ validity[s] \in 1..clock
        /\ GoodUIDs(scan[s].uids, scan[s].n, born)
        /\ Agrees(validity[s], scan[s].uids, scan[s].n, seen, loc)
        /\ \A e \in view[s] : e.msg \in DOMAIN scan[s].uids /\ e.uid = scan[s].uids[e.msg]
        /\ app[s] # 0 =>
              \E e \in view[s] : /\ e.msg = app[s]
                                 /\ \A a \in seen : a[1] = validity[s] => a[2] < e.uid
        /\ pc[s] = "rename" =>
              tmp = [v |-> validity[s], n |-> scan[s].n, uids |-> scan[s].uids]

\* The shape of the session; with no other about, its rename never fails.
OneInv(s) ==
    /\ pc[s] # "unlink"
    /\ view[s] \subseteq Entries
    /\ DOMAIN validity = Sessions
    /\ AppendInv(s) /\ ScanInv(s) /\ WriteInv(s)

OneSessionInv ==
    /\ FolderInv
    /\ ListInv
    /\ SeenInv
    /\ \A s \in Sessions : OneInv(s)

-----------------------------------------------------------------------------
(***************************************************************************)
(* UID lists                                                               *)
(***************************************************************************)
\* A list stays good when a message is stored,
LEMMA GoodGrows ==
    ASSUME NEW U, NEW n, NEW b \in Nat, NEW c \in {b, b + 1}, GoodUIDs(U, n, b)
    PROVE  GoodUIDs(U, n, c)
  BY DEF GoodUIDs

\* and agrees with what clients saw when one is removed.
LEMMA AgreesGrows ==
    ASSUME NEW v, NEW U, NEW n, NEW S, NEW L, NEW M, Agrees(v, U, n, S, L),
           \A a \in S : L[a[3]] = "gone" => M[a[3]] = "gone"
    PROVE  Agrees(v, U, n, S, M)
  BY DEF Agrees

\* Clients that see messages under UIDs of the list see nothing it does not
\* agree with.
LEMMA AgreesSeen ==
    ASSUME NEW v, NEW U, NEW n, NEW S, NEW L, NEW b, NEW T,
           GoodUIDs(U, n, b), Agrees(v, U, n, S, L),
           \A a \in T : a[1] = v /\ a[3] \in DOMAIN U /\ a[2] = U[a[3]]
    PROVE  /\ Agrees(v, U, n, S \cup T, L)
           /\ \A w : w # v => \A V, q : Agrees(w, V, q, S, L) => Agrees(w, V, q, S \cup T, L)
  BY DEF Agrees, GoodUIDs

\* The order of modification times, ties by name, gives every new message a
\* rank of its own.
LEMMA Ranks ==
    ASSUME mtime \in [Msgs -> Nat], NEW K, K \subseteq Msgs, MaxMsg \in Nat
    PROVE  /\ Cardinality(K) \in Nat
           /\ \A m \in K : /\ Cardinality({k \in K : Before(k, m)}) \in Nat
                           /\ Cardinality({k \in K : Before(k, m)}) < Cardinality(K)
           /\ \A j, m \in K : Cardinality({k \in K : Before(k, j)})
                                = Cardinality({k \in K : Before(k, m)}) => j = m
<1> DEFINE Rank(m) == {k \in K : Before(k, m)}
<1>1. IsFiniteSet(K) /\ Cardinality(K) \in Nat
  <2>1. IsFiniteSet(Msgs)
    BY FS_Interval DEF Msgs
  <2> QED
    BY <2>1, FS_Subset, FS_CardinalityType
<1>2. ASSUME NEW m \in K
      PROVE  /\ IsFiniteSet(Rank(m)) /\ Cardinality(Rank(m)) \in Nat
             /\ Cardinality(Rank(m)) < Cardinality(K)
  <2>1. Rank(m) \subseteq K /\ Rank(m) # K
    <3>1. m \notin Rank(m)
      BY <1>2 DEF Before, Msgs
    <3> QED
      BY <3>1
  <2> QED
    BY <1>1, <2>1, FS_Subset, FS_CardinalityType
<1>3. ASSUME NEW j \in K, NEW m \in K, Before(j, m)
      PROVE  Cardinality(Rank(j)) # Cardinality(Rank(m))
  <2>1. \A k \in Msgs : mtime[k] \in Nat /\ k \in Nat
    BY DEF Msgs
  <2>2. Rank(j) \subseteq Rank(m)
    BY <1>3, <2>1 DEF Before
  <2>3. j \in Rank(m) /\ j \notin Rank(j)
    BY <1>3, <2>1 DEF Before
  <2>4. IsFiniteSet(Rank(m)) /\ Cardinality(Rank(m)) \in Nat /\ Cardinality(Rank(j)) \in Nat
    BY <1>2
  <2>5. Cardinality(Rank(j)) < Cardinality(Rank(m))
    BY <2>2, <2>3, <2>4, FS_Subset
  <2> QED
    BY <2>4, <2>5
<1>4. \A j, m \in K : j # m => Before(j, m) \/ Before(m, j)
  BY DEF Before, Msgs
<1> QED
  BY <1>1, <1>2, <1>3, <1>4

\* The list Refresh builds from the messages found (D): those it knew keep
\* their UIDs, the others come after all that were ever given.
NewUIDs(U, n, D) ==
    [m \in D |-> IF m \in DOMAIN U THEN U[m]
                 ELSE n + Cardinality({k \in D \ DOMAIN U : Before(k, m)})]

\* Refresh gives every new message a UID of its own, above those it gave.
LEMMA NewUIDsGood ==
    ASSUME mtime \in [Msgs -> Nat], MaxMsg \in Nat, born \in 0..MaxMsg,
           NEW U, NEW n, GoodUIDs(U, n, born), NEW D, D \subseteq 1..born
    PROVE  /\ GoodUIDs(NewUIDs(U, n, D), n + Cardinality(D \ DOMAIN U), born)
           /\ n + Cardinality(D \ DOMAIN U) \in Nat
           /\ n <= n + Cardinality(D \ DOMAIN U)
           /\ \A m \in D \ DOMAIN U : NewUIDs(U, n, D)[m] >= n
<1> DEFINE K == D \ DOMAIN U
           R(m) == Cardinality({k \in K : Before(k, m)})
           N == NewUIDs(U, n, D)
<1>1. /\ Cardinality(K) \in Nat
      /\ \A m \in K : R(m) \in Nat /\ R(m) < Cardinality(K)
      /\ \A j, m \in K : R(j) = R(m) => j = m
  <2>1. \A m \in 1..born : m \in 1..MaxMsg
    OBVIOUS
  <2>2. K \subseteq Msgs
    BY <2>1 DEF Msgs
  <2> QED
    BY <2>2, Ranks
<1>2. DOMAIN N = D /\ \A m \in D : N[m] = IF m \in DOMAIN U THEN U[m] ELSE n + R(m)
  BY DEF NewUIDs
<1>3. /\ n \in Nat /\ \A m \in D : m \in DOMAIN U => U[m] \in Nat /\ U[m] < n
      /\ \A k, m \in DOMAIN U : U[k] = U[m] => k = m
  BY DEF GoodUIDs
<1> HIDE DEF K, R, N
<1>4. \A m \in D : \/ m \in DOMAIN U /\ N[m] = U[m] /\ N[m] < n /\ N[m] \in Nat
                   \/ m \in K /\ N[m] = n + R(m) /\ N[m] >= n /\ N[m] \in Nat
                              /\ N[m] < n + Cardinality(K)
  <2>1. ASSUME NEW m \in D, m \in DOMAIN U
        PROVE  N[m] = U[m] /\ N[m] < n /\ N[m] \in Nat
    BY <1>2, <1>3, <2>1
  <2>2. ASSUME NEW m \in D, m \notin DOMAIN U
        PROVE  m \in K /\ N[m] = n + R(m) /\ N[m] >= n /\ N[m] \in Nat
                 /\ N[m] < n + Cardinality(K)
    <3>1. m \in K
      BY <2>2 DEF K
    <3>2. R(m) \in Nat /\ R(m) < Cardinality(K) /\ Cardinality(K) \in Nat /\ n \in Nat
      BY <1>1, <1>3, <3>1
    <3>3. N[m] = n + R(m)
      BY <1>2, <2>2
    <3> QED
      BY <3>1, <3>2, <3>3
  <2> QED
    BY <2>1, <2>2
<1>5. \A m \in D : N[m] \in Nat /\ N[m] < n + Cardinality(K)
  BY <1>1, <1>3, <1>4
<1>6. \A k, m \in D : N[k] = N[m] => k = m
  BY <1>1, <1>3, <1>4
<1>7. N \in [D -> Nat]
  <2>1. N = [m \in D |-> N[m]]
    BY DEF N, NewUIDs
  <2> QED
    BY <1>5, <2>1
<1>8. GoodUIDs(N, n + Cardinality(K), born)
  BY <1>1, <1>2, <1>3, <1>5, <1>6, <1>7 DEF GoodUIDs
<1>9. \A m \in D \ DOMAIN U : N[m] >= n
  BY <1>4 DEF K
<1> QED
  BY <1>1, <1>3, <1>8, <1>9 DEF K, N

\* It agrees with what was seen when no message that was seen, and is still
\* there, was missed.
LEMMA NewUIDsAgree ==
    ASSUME mtime \in [Msgs -> Nat], MaxMsg \in Nat, born \in 0..MaxMsg,
           NEW U, NEW n, GoodUIDs(U, n, born), NEW D, D \subseteq 1..born,
           NEW v, NEW S, NEW L, Agrees(v, U, n, S, L), \A a \in S : a[2] \in Nat,
           \A m \in D : L[m] # "gone", \A a \in S : a[3] \in D \/ L[a[3]] = "gone"
    PROVE  Agrees(v, NewUIDs(U, n, D), n + Cardinality(D \ DOMAIN U), S, L)
<1> DEFINE N == NewUIDs(U, n, D)
           q == n + Cardinality(D \ DOMAIN U)
<1>1. /\ q \in Nat /\ n \in Nat /\ n <= q
      /\ \A m \in D \ DOMAIN U : N[m] >= n /\ N[m] \in Nat
      /\ DOMAIN N = D
      /\ \A m \in D : m \in DOMAIN U => N[m] = U[m]
  <2>1. GoodUIDs(N, q, born) /\ q \in Nat /\ n <= q /\ \A m \in D \ DOMAIN U : N[m] >= n
    BY NewUIDsGood
  <2>2. DOMAIN N = D /\ \A m \in D : m \in DOMAIN U => N[m] = U[m]
    BY DEF NewUIDs
  <2> QED
    BY <2>1, <2>2 DEF GoodUIDs
<1> HIDE DEF N, q
<1>2. ASSUME NEW a \in S, a[1] = v
      PROVE  /\ a[2] < q
             /\ \A m \in D : N[m] = a[2] <=> m = a[3]
             /\ a[3] \in D \/ L[a[3]] = "gone"
  <2>1. /\ a[2] \in Nat /\ a[2] < n /\ (\A m \in DOMAIN U : U[m] = a[2] <=> m = a[3])
        /\ a[3] \in DOMAIN U \/ L[a[3]] = "gone"
    BY <1>2 DEF Agrees
  <2>2. \A m \in D \ DOMAIN U : N[m] # a[2] /\ m # a[3]
    BY <1>1, <2>1
  <2> QED
    BY <1>1, <2>1, <2>2
<1> QED
  BY <1>1, <1>2 DEF Agrees, N, q

-----------------------------------------------------------------------------
(***************************************************************************)
(* The steps of the only session                                           *)
(***************************************************************************)
\* The list on the disk stays good while nobody writes it.
LEMMA ListKept ==
    ASSUME ListInv, SeenInv, born \in Nat, born' \in {born, born + 1},
           clock' \in {clock, clock + 1}, list' = list, seen' = seen,
           \A m \in 1..born : loc[m] = "gone" => loc'[m] = "gone"
    PROVE  ListInv'
<1>1. GoodUIDs(list.uids, list.n, born')
  BY GoodGrows DEF ListInv
<1>2. \A a \in seen : loc[a[3]] = "gone" => loc'[a[3]] = "gone"
  BY DEF SeenInv
<1>3. Agrees(list.v, list.uids, list.n, seen, loc')
  BY <1>2, AgreesGrows DEF ListInv
<1>4. list.v \in 0..clock'
  BY DEF ListInv, SeenInv
<1> QED
  BY <1>1, <1>3, <1>4 DEF ListInv

\* What clients saw stays true while nobody looks.
LEMMA SeenKept ==
    ASSUME SeenInv, born \in Nat, born' \in {born, born + 1}, clock' \in {clock, clock + 1},
           mtime' \in [Msgs -> Nat], UNCHANGED <<seen, stale, writeFaults>>
    PROVE  SeenInv'
<1>1. clock' \in Nat /\ \A a \in seen : a[1] \in 1..clock' /\ a[2] \in Nat /\ a[3] \in 1..born'
  BY DEF SeenInv
<1> QED
  BY <1>1 DEF SeenInv, UIDsNeverReused, UIDsStable

Quiet == {"closed", "open", "expunge", "appended", "flagged"}

\* A step that ends outside Refresh and shows nobody anything.
LEMMA QuietStep ==
    ASSUME NEW s, Sessions = {s}, OneSessionInv, FolderInv', pc'[s] \in Quiet,
           born' \in {born, born + 1}, clock' = clock, mtime' \in [Msgs -> Nat],
           list' = list, UNCHANGED <<seen, stale, writeFaults>>,
           \A m \in 1..born : loc[m] = "gone" => loc'[m] = "gone",
           view'[s] \subseteq Entries, DOMAIN validity' = Sessions, AppendInv(s)'
    PROVE  OneSessionInv'
<1>1. born \in Nat /\ ListInv /\ SeenInv /\ clock' \in {clock, clock + 1}
  BY MailboxAssumption DEF OneSessionInv, FolderInv, FolderOK
<1>2. ListInv'
  BY <1>1, ListKept
<1>3. SeenInv'
  BY <1>1, SeenKept
<1>4. ScanInv(s)' /\ WriteInv(s)' /\ pc'[s] # "unlink"
  BY DEF Quiet, ScanInv, WriteInv, Scanning
<1> QED
  BY <1>2, <1>3, <1>4 DEF OneSessionInv, OneInv

\* Steps that touch neither the list nor what is read of it.
LEMMA QuietSteps ==
    ASSUME NEW s, Sessions = {s}, OneSessionInv, FolderInv',
           \/ Close(s)
           \/ \E e \in view[s], f \in SUBSET Flags : SetFlags(s, e, f)
           \/ BeginExpunge(s) \/ EndExpunge(s)
           \/ \E e \in scan[s].listed : ExpungeOne(s, e)
           \/ \E t \in Dates : AppendStore(s, t)
           \/ AppendFlagFails(s)
           \/ \E f \in SUBSET Flags \ {{}} : AppendFlag(s, f)
    PROVE  OneSessionInv'
<1>0. /\ born \in Nat /\ mtime \in [Msgs -> Nat] /\ view[s] \subseteq Entries
      /\ DOMAIN validity = Sessions /\ DOMAIN pc = Sessions /\ DOMAIN view = Sessions
      /\ DOMAIN app = Sessions /\ s \in Sessions /\ AppendInv(s)
      /\ loc \in [Msgs -> {"new", "cur", "gone"}] /\ flags \in [Msgs -> SUBSET Flags]
  BY MailboxAssumption DEF OneSessionInv, FolderInv, FolderOK, SeenInv, OneInv, Shape
<1>1. ASSUME pc[s] \in {"open", "expunge"}, pc'[s] \in {"closed", "open", "expunge"}, app' = app
      PROVE  AppendInv(s)'
  BY <1>0, <1>1 DEF AppendInv
<1>2. CASE Close(s)
  <2>1. /\ pc[s] = "open" /\ pc'[s] = "closed" /\ view'[s] = {} /\ DOMAIN validity' = Sessions
        /\ UNCHANGED <<born, loc, mtime, list, app, clock, writeFaults, seen, stale>>
    BY <1>0, <1>2 DEF Close, Goto, folderVars, obsVars
  <2> QED
    BY <1>0, <1>1, <2>1, QuietStep DEF Quiet
<1>3. ASSUME NEW e \in view[s], NEW f \in SUBSET Flags, SetFlags(s, e, f) PROVE OneSessionInv'
  <2>1. /\ pc[s] = "open" /\ loc[e.msg] # "gone"
    BY <1>0, <1>3 DEF SetFlags, Exists, EntryFile, FileOf, Entries
  <2>2. /\ pc'[s] = "open" /\ DOMAIN validity' = Sessions /\ loc' = [loc EXCEPT ![e.msg] = "cur"]
        /\ UNCHANGED <<born, mtime, list, app, clock, writeFaults, seen, stale>>
    BY <1>0, <1>3, <2>1 DEF SetFlags, Rename, obsVars
  <2>3. \A m \in 1..born : loc[m] = "gone" => loc'[m] = "gone"
    BY <1>0, <2>1, <2>2
  <2>4. [e EXCEPT !.sub = "cur", !.fl = f] \in Entries
    BY <1>0 DEF Entries
  <2>5. view'[s] \subseteq Entries
    BY <1>0, <1>3, <2>4 DEF SetFlags
  <2> QED
    BY <1>0, <1>1, <2>1, <2>2, <2>3, <2>5, QuietStep DEF Quiet
<1>4. CASE BeginExpunge(s) \/ EndExpunge(s)
  <2>1. /\ pc[s] \in {"open", "expunge"} /\ pc'[s] \in {"open", "expunge"}
        /\ view'[s] \subseteq Entries /\ DOMAIN validity' = Sessions
        /\ UNCHANGED <<born, loc, mtime, list, app, clock, writeFaults, seen, stale>>
    BY <1>0, <1>4 DEF BeginExpunge, EndExpunge, Goto, folderVars, obsVars
  <2> QED
    BY <1>0, <1>1, <2>1, QuietStep DEF Quiet
<1>5. ASSUME NEW e \in scan[s].listed, ExpungeOne(s, e) PROVE OneSessionInv'
  <2>1. /\ pc[s] = "expunge" /\ pc'[s] = "expunge" /\ view'[s] = view[s]
        /\ DOMAIN validity' = Sessions
        /\ UNCHANGED <<born, mtime, list, app, clock, writeFaults, seen, stale>>
        /\ loc' = loc \/ loc' = [loc EXCEPT ![e.msg] = "gone"]
    BY <1>0, <1>5 DEF ExpungeOne, obsVars
  <2>2. 1..born \subseteq Msgs
    BY MailboxAssumption DEF OneSessionInv, FolderInv, FolderOK, Msgs
  <2>3. \A m \in Msgs : loc[m] = "gone" => loc'[m] = "gone"
    BY <1>0, <2>1
  <2> QED
    BY <1>0, <1>1, <2>1, <2>2, <2>3, QuietStep DEF Quiet
<1>6. ASSUME NEW t \in Dates, AppendStore(s, t) PROVE OneSessionInv'
  <2>1. /\ pc'[s] = "appended" /\ view'[s] = view[s] /\ DOMAIN validity' = Sessions
        /\ app'[s] = born + 1 /\ born' = born + 1 /\ born < MaxMsg
        /\ mtime' = [mtime EXCEPT ![born + 1] = t]
        /\ loc' = [loc EXCEPT ![born + 1] = "new"]
        /\ UNCHANGED <<list, clock, writeFaults, seen, stale>>
    BY <1>0, <1>6 DEF AppendStore, Store, Goto, obsVars
  <2>2. mtime' \in [Msgs -> Nat]
    <3>1. t \in Nat
      BY <1>0 DEF Dates
    <3> QED
      BY <1>0, <2>1, <3>1
  <2>3. \A m \in 1..born : loc'[m] = loc[m]
    BY <1>0, <2>1, MailboxAssumption DEF Msgs
  <2>4. loc'[born + 1] = "new"
    BY <1>0, <2>1, MailboxAssumption DEF Msgs
  <2>5. DOMAIN list.uids \subseteq 1..born /\ \A a \in seen : a[3] \in 1..born
    BY DEF OneSessionInv, ListInv, GoodUIDs, SeenInv
  <2>6. AppendInv(s)'
    BY <1>0, <2>1, <2>4, <2>5 DEF AppendInv
  <2> QED
    BY <1>0, <2>1, <2>2, <2>3, <2>6, QuietStep DEF Quiet
<1>7. CASE AppendFlagFails(s)
  <2>1. /\ pc'[s] = "open" /\ view'[s] = view[s] /\ DOMAIN validity' = Sessions /\ app'[s] = 0
        /\ UNCHANGED <<born, loc, mtime, list, clock, writeFaults, seen, stale>>
    BY <1>0, <1>7 DEF AppendFlagFails, Goto, folderVars, obsVars
  <2>2. AppendInv(s)'
    BY <2>1 DEF AppendInv
  <2> QED
    BY <1>0, <2>1, <2>2, QuietStep DEF Quiet
<1>8. ASSUME NEW f \in SUBSET Flags \ {{}}, AppendFlag(s, f) PROVE OneSessionInv'
  <2>1. /\ pc[s] = "appended" /\ pc'[s] = "flagged" /\ view'[s] = view[s]
        /\ DOMAIN validity' = Sessions /\ loc' = [loc EXCEPT ![app[s]] = "cur"]
        /\ loc[app[s]] = "new"
        /\ UNCHANGED <<born, mtime, list, app, clock, writeFaults, seen, stale>>
    BY <1>0, <1>8 DEF AppendFlag, Rename, Goto, obsVars
  <2>2. \A m \in Msgs : loc[m] = "gone" <=> loc'[m] = "gone"
    BY <1>0, <2>1
  <2>3. 1..born \subseteq Msgs
    BY MailboxAssumption DEF OneSessionInv, FolderInv, FolderOK, Msgs
  <2>4. AppendInv(s)'
    BY <1>0, <2>1, <2>2, <2>3 DEF AppendInv
  <2> QED
    BY <1>0, <2>1, <2>2, <2>3, <2>4, QuietStep DEF Quiet
<1> QED
  BY <1>2, <1>3, <1>4, <1>5, <1>6, <1>7, <1>8

\* A delivery.
LEMMA DeliverStep ==
    ASSUME NEW s, Sessions = {s}, OneSessionInv, FolderInv', Deliver
    PROVE  OneSessionInv'
<1>0. /\ born \in Nat /\ mtime \in [Msgs -> Nat] /\ ListInv /\ SeenInv /\ OneInv(s)
      /\ loc \in [Msgs -> {"new", "cur", "gone"}] /\ flags \in [Msgs -> SUBSET Flags]
  BY MailboxAssumption DEF OneSessionInv, FolderInv, FolderOK, SeenInv
<1>1. /\ born' = born + 1 /\ born < MaxMsg
      /\ mtime' = [mtime EXCEPT ![born + 1] = born + 1]
      /\ loc' = [loc EXCEPT ![born + 1] = "new"]
      /\ UNCHANGED <<flags, list, tmp, pc, opening, app, view, validity, scan, clock,
                     writeFaults, seen, stale>>
  BY DEF Deliver, Store, sessionVars, obsVars
<1>2. mtime' \in [Msgs -> Nat] /\ 1..born \subseteq Msgs
  BY <1>0, <1>1, MailboxAssumption DEF Msgs
<1>3. \A m \in 1..born : loc'[m] = loc[m]
  BY <1>0, <1>1, <1>2
<1>4. ListInv' /\ SeenInv'
  BY <1>0, <1>1, <1>2, <1>3, ListKept, SeenKept
<1>5. AppendInv(s)'
  BY <1>0, <1>1, <1>3 DEF OneInv, AppendInv
<1>6. ASSUME GoodUIDs(scan[s].uids, scan[s].n, born),
             Agrees(validity[s], scan[s].uids, scan[s].n, seen, loc)
      PROVE  /\ GoodUIDs(scan[s].uids, scan[s].n, born')
             /\ Agrees(validity[s], scan[s].uids, scan[s].n, seen, loc')
  <2>1. \A a \in seen : loc[a[3]] = "gone" => loc'[a[3]] = "gone"
    BY <1>0, <1>3 DEF SeenInv
  <2> QED
    BY <1>0, <1>1, <1>6, <2>1, GoodGrows, AgreesGrows
<1>7. WriteInv(s)'
  BY <1>0, <1>1, <1>6 DEF OneInv, WriteInv
<1>8. ASSUME pc[s] \in Scanning PROVE ScanInv(s)'
  <2>1. \A m \in Msgs : Wanted(s, m)' => m \in 1..born /\ Wanted(s, m) /\ FileOf(m)' = FileOf(m)
    BY <1>0, <1>1, <1>3 DEF Wanted, FileOf, SeenInv, OneInv, AppendInv
  <2>2. \A f \in scan[s].found : f \in FileRecs /\ f.msg \in 1..born' /\ loc'[f.msg] # "gone"
    BY <1>0, <1>1, <1>3, <1>8 DEF OneInv, ScanInv
  <2>3. \A m \in Msgs : Wanted(s, m)' =>
              /\ pc[s] = "statNew" /\ loc'[m] = "new" => FileOf(m)' \in scan[s].listed
              /\ pc[s] \in {"listCur", "statCur"} /\ loc'[m] = "new" => FileOf(m)' \in scan[s].found
              /\ pc[s] = "statCur" /\ loc'[m] = "cur" => FileOf(m)' \in scan[s].listed
    BY <1>0, <1>3, <1>8, <2>1 DEF OneInv, ScanInv
  <2>4. /\ validity[s] \in 1..clock
        /\ \/ list.v = 0
           \/ list.v = validity[s] /\ list.uids = scan[s].uids /\ list.n = scan[s].n
        /\ GoodUIDs(scan[s].uids, scan[s].n, born')
        /\ Agrees(validity[s], scan[s].uids, scan[s].n, seen, loc')
        /\ app[s] # 0 => app[s] \notin DOMAIN scan[s].uids
        /\ scan[s].listed \subseteq FileRecs
    BY <1>0, <1>6, <1>8 DEF OneInv, ScanInv
  <2> QED
    BY <1>1, <2>2, <2>3, <2>4 DEF ScanInv
<1>9. ScanInv(s)'
  BY <1>1, <1>8 DEF ScanInv
<1> QED
  BY <1>0, <1>1, <1>4, <1>5, <1>7, <1>9 DEF OneSessionInv, OneInv

\* A crash, or the loss of the list.
LEMMA FaultStep ==
    ASSUME NEW s, Sessions = {s}, OneSessionInv, FolderInv', Crash \/ LoseList
    PROVE  OneSessionInv'
<1>0. /\ born \in Nat /\ mtime \in [Msgs -> Nat] /\ ListInv /\ SeenInv /\ OneInv(s)
      /\ clock \in Nat
  BY MailboxAssumption DEF OneSessionInv, FolderInv, FolderOK, SeenInv
<1>1. CASE Crash
  <2>1. /\ pc'[s] = "closed" /\ app'[s] = 0 /\ view'[s] = {} /\ DOMAIN validity' = Sessions
        /\ UNCHANGED <<born, loc, mtime, list, clock, writeFaults, seen, stale>>
    BY <1>1 DEF Crash, folderVars, obsVars
  <2>2. AppendInv(s)'
    BY <2>1 DEF AppendInv
  <2> QED
    BY <1>0, <2>1, <2>2, QuietStep DEF Quiet
<1>2. CASE LoseList
  <2>1. /\ list' = NoList
        /\ UNCHANGED <<born, loc, flags, mtime, tmp, pc, opening, app, view, validity, scan, clock,
                       writeFaults, seen, stale>>
    BY <1>2 DEF LoseList, sessionVars, obsVars
  <2>2. /\ list'.v = 0 /\ list'.n = 1 /\ list'.uids = NoUIDs /\ DOMAIN NoUIDs = {}
        /\ NoUIDs \in [{} -> Nat]
    BY <2>1 DEF NoList, NoUIDs
  <2>3. ListInv'
    BY <1>0, <2>1, <2>2 DEF ListInv, GoodUIDs, Agrees, SeenInv
  <2>4. SeenInv'
    BY <1>0, <2>1, SeenKept
  <2>5. AppendInv(s)'
    BY <1>0, <2>1, <2>2 DEF OneInv, AppendInv
  <2>6. WriteInv(s)'
    BY <1>0, <2>1 DEF OneInv, WriteInv
  <2>7. \A m : Wanted(s, m)' = Wanted(s, m) /\ FileOf(m)' = FileOf(m)
    BY <2>1 DEF Wanted, FileOf
  <2>8. ScanInv(s)'
    BY <1>0, <2>1, <2>2, <2>7 DEF OneInv, ScanInv
  <2> QED
    BY <1>0, <2>1, <2>3, <2>4, <2>5, <2>6, <2>8 DEF OneSessionInv, OneInv
<1> QED
  BY <1>1, <1>2

\* The list is read.
LEMMA ReadStep ==
    ASSUME NEW s, Sessions = {s}, OneSessionInv, FolderInv',
           OpenMailbox(s) \/ Refresh(s) \/ AppendRefresh(s) \/ AppendFlagged(s)
    PROVE  OneSessionInv'
<1>0. /\ born \in Nat /\ mtime \in [Msgs -> Nat] /\ ListInv /\ SeenInv /\ OneInv(s)
      /\ clock \in Nat /\ Shape /\ s \in Sessions /\ DOMAIN validity = Sessions
  BY MailboxAssumption DEF OneSessionInv, FolderInv, FolderOK, SeenInv, OneInv
<1>1. /\ pc[s] \in {"closed", "open", "appended", "flagged"}
      /\ ReadUIDList(s) /\ UNCHANGED <<born, loc, flags, mtime, list, tmp, app, view, writeFaults,
                                       seen, stale>>
  BY DEF OpenMailbox, Refresh, AppendRefresh, AppendFlagged, folderVars, obsVars
<1>2. /\ pc'[s] = "listNew" /\ DOMAIN validity' = Sessions
      /\ \/ list.v = 0 /\ clock' = clock + 1 /\ validity'[s] = clock + 1
         \/ list.v # 0 /\ clock' = clock /\ validity'[s] = list.v
  BY <1>0, <1>1 DEF ReadUIDList, Mint, Goto, Shape
<1>3. /\ scan'[s].listed = {} /\ scan'[s].found = {} /\ scan'[s].uids = list.uids
      /\ scan'[s].n = list.n
  <2>1. DOMAIN scan = Sessions
    BY <1>0 DEF Shape
  <2>2. scan' = [scan EXCEPT ![s] = [NoScan EXCEPT !.uids = list.uids, !.n = list.n]]
    BY <1>1 DEF ReadUIDList
  <2>3. scan'[s] = [NoScan EXCEPT !.uids = list.uids, !.n = list.n]
    BY <1>0, <2>1, <2>2
  <2> QED
    BY <2>3 DEF NoScan
<1>4. ListInv' /\ SeenInv'
  BY <1>0, <1>1, <1>2, ListKept, SeenKept
<1>5. AppendInv(s)'
  BY <1>0, <1>1, <1>2 DEF OneInv, AppendInv
<1>6. Agrees(validity'[s], list.uids, list.n, seen, loc)
  BY <1>0, <1>2 DEF ListInv, Agrees, SeenInv
<1>7. validity'[s] \in 1..clock'
  BY <1>0, <1>2 DEF ListInv
<1>8. app[s] # 0 => app[s] \notin DOMAIN list.uids
  BY <1>0 DEF OneInv, AppendInv
<1>9. ScanInv(s)'
  BY <1>0, <1>1, <1>2, <1>3, <1>6, <1>7, <1>8 DEF ScanInv, ListInv
<1>10. WriteInv(s)' /\ pc'[s] # "unlink"
  BY <1>2 DEF WriteInv
<1> QED
  BY <1>0, <1>1, <1>2, <1>4, <1>5, <1>9, <1>10 DEF OneSessionInv, OneInv

\* Between the calls of a scan nothing changes but what it has read: the
\* facts about the list it started from stay.
LEMMA ScanStep ==
    ASSUME NEW s, Sessions = {s}, OneSessionInv, FolderInv',
           pc[s] \in Scanning, pc'[s] \in Scanning,
           scan'[s].uids = scan[s].uids, scan'[s].n = scan[s].n,
           UNCHANGED <<born, loc, flags, mtime, list, tmp, app, view, validity, clock,
                       writeFaults, seen, stale>>,
           scan'[s].listed \subseteq FileRecs,
           \A f \in scan'[s].found : f \in FileRecs /\ f.msg \in 1..born /\ loc[f.msg] # "gone",
           \A m \in Msgs : Wanted(s, m) =>
              /\ pc'[s] = "statNew" /\ loc[m] = "new" => FileOf(m) \in scan'[s].listed
              /\ pc'[s] \in {"listCur", "statCur"} /\ loc[m] = "new" => FileOf(m) \in scan'[s].found
              /\ pc'[s] = "statCur" /\ loc[m] = "cur" => FileOf(m) \in scan'[s].listed
    PROVE  OneSessionInv'
<1>0. /\ born \in Nat /\ mtime \in [Msgs -> Nat] /\ ListInv /\ SeenInv /\ OneInv(s)
  BY MailboxAssumption DEF OneSessionInv, FolderInv, FolderOK, SeenInv
<1>1. ListInv' /\ SeenInv'
  BY <1>0, ListKept, SeenKept
<1>2. AppendInv(s)'
  BY <1>0 DEF OneInv, AppendInv, Scanning
<1>3. \A m : Wanted(s, m)' = Wanted(s, m) /\ FileOf(m)' = FileOf(m)
  BY DEF Wanted, FileOf
<1>4. ScanInv(s)'
  BY <1>0, <1>3 DEF OneInv, ScanInv
<1>5. WriteInv(s)' /\ pc'[s] # "unlink"
  BY DEF WriteInv, Scanning
<1> QED
  BY <1>0, <1>1, <1>2, <1>4, <1>5 DEF OneSessionInv, OneInv

\* What a listing of a directory returns is there.
LEMMA FilesLemma ==
    ASSUME FolderOK, NEW sub \in {"new", "cur"}
    PROVE  /\ Files(sub) \subseteq FileRecs
           /\ \A m \in 1..born : loc[m] = sub => FileOf(m) \in Files(sub)
           /\ \A f \in Files(sub) : Exists(f)
<1>1. 1..born \subseteq Msgs
  BY MailboxAssumption DEF FolderOK, Msgs
<1>2. \A m \in 1..born : loc[m] = sub => FileOf(m) \in FileRecs
  BY <1>1 DEF FolderOK, FileOf, FileRecs
<1> QED
  BY <1>2 DEF Files, Exists, FileOf

\* The directories are listed.
LEMMA ListSteps ==
    ASSUME NEW s, Sessions = {s}, OneSessionInv, FolderInv',
           (\E sub \in {"new", "cur"} : ListDir(s, sub)) \/ StatNew(s)
    PROVE  OneSessionInv'
<1>0. /\ FolderOK /\ OneInv(s) /\ s \in Sessions /\ DOMAIN scan = Sessions /\ DOMAIN pc = Sessions
      /\ DOMAIN scan[s] = ScanFields
  BY DEF OneSessionInv, FolderInv, Shape, SessionOK
<1>1. ASSUME NEW sub \in {"new", "cur"}, ListDir(s, sub) PROVE OneSessionInv'
  <2>1. /\ pc[s] = IF sub = "new" THEN "listNew" ELSE "listCur"
        /\ pc'[s] = IF sub = "new" THEN "statNew" ELSE "statCur"
        /\ scan' = [scan EXCEPT ![s].listed = Files(sub)]
        /\ UNCHANGED <<born, loc, flags, mtime, list, tmp, app, view, validity, clock,
                       writeFaults, seen, stale>>
    BY <1>0, <1>1 DEF ListDir, Goto, folderVars, obsVars
  <2>2. /\ scan'[s].listed = Files(sub) /\ scan'[s].found = scan[s].found
        /\ scan'[s].uids = scan[s].uids /\ scan'[s].n = scan[s].n
    BY <1>0, <2>1, ScanListed
  <2>3. Files(sub) \subseteq FileRecs /\ \A m \in 1..born : loc[m] = sub => FileOf(m) \in Files(sub)
    BY <1>0, FilesLemma
  <2>4. pc[s] \in Scanning /\ pc'[s] \in Scanning
    BY <2>1 DEF Scanning
  <2>5. \A f \in scan[s].found : f \in FileRecs /\ f.msg \in 1..born /\ loc[f.msg] # "gone"
    BY <1>0, <2>4 DEF OneInv, ScanInv
  <2>6. \A m \in Msgs : Wanted(s, m) =>
           /\ pc'[s] = "statNew" /\ loc[m] = "new" => FileOf(m) \in scan'[s].listed
           /\ pc'[s] \in {"listCur", "statCur"} /\ loc[m] = "new" => FileOf(m) \in scan'[s].found
           /\ pc'[s] = "statCur" /\ loc[m] = "cur" => FileOf(m) \in scan'[s].listed
    <3> SUFFICES ASSUME NEW m \in Msgs, Wanted(s, m)
                 PROVE  /\ pc'[s] = "statNew" /\ loc[m] = "new" => FileOf(m) \in scan'[s].listed
                        /\ pc'[s] \in {"listCur", "statCur"} /\ loc[m] = "new"
                              => FileOf(m) \in scan'[s].found
                        /\ pc'[s] = "statCur" /\ loc[m] = "cur" => FileOf(m) \in scan'[s].listed
      OBVIOUS
    <3>1. m \in 1..born
      BY DEF Wanted
    <3>2. pc[s] = "listCur" /\ loc[m] = "new" => FileOf(m) \in scan[s].found
      BY <1>0, <2>4 DEF OneInv, ScanInv
    <3> QED
      BY <2>1, <2>2, <2>3, <3>1, <3>2
  <2> QED
    BY <2>1, <2>2, <2>3, <2>4, <2>5, <2>6, ScanStep
<1>2. CASE StatNew(s)
  <2>1. /\ pc[s] = "statNew" /\ pc'[s] = "listCur"
        /\ scan' = [scan EXCEPT ![s].found = Found(s), ![s].listed = {}]
        /\ UNCHANGED <<born, loc, flags, mtime, list, tmp, app, view, validity, clock,
                       writeFaults, seen, stale>>
    BY <1>0, <1>2 DEF StatNew, Goto, folderVars, obsVars
  <2>2. /\ scan'[s].listed = {} /\ scan'[s].found = Found(s)
        /\ scan'[s].uids = scan[s].uids /\ scan'[s].n = scan[s].n
    BY <1>0, <2>1, ScanFound
  <2>3. pc[s] \in Scanning /\ pc'[s] \in Scanning
    BY <2>1 DEF Scanning
  <2>4. \A f \in Found(s) : f \in FileRecs /\ f.msg \in 1..born /\ loc[f.msg] # "gone"
    BY <1>0, <2>3 DEF OneInv, ScanInv, Found, Exists, FileOf, FileRecs
  <2>5. \A m \in Msgs : Wanted(s, m) /\ loc[m] = "new" => FileOf(m) \in Found(s)
    BY <1>0, <2>1, <2>3 DEF OneInv, ScanInv, Found, Exists, FileOf, Wanted
  <2> QED
    BY <2>1, <2>2, <2>3, <2>4, <2>5, ScanStep
<1> QED
  BY <1>1, <1>2

\* Clients come to see messages under the UIDs of a list that agrees with all
\* they saw before.
LEMMA SeenGrows ==
    ASSUME SeenInv, NEW v \in 1..clock, NEW U, NEW n, GoodUIDs(U, n, born),
           Agrees(v, U, n, seen, loc), NEW T,
           \A a \in T : a[1] = v /\ a[3] \in DOMAIN U /\ a[2] = U[a[3]],
           seen' = seen \cup T, UNCHANGED <<born, clock, mtime, stale, writeFaults>>
    PROVE  SeenInv'
<1>1. \A a \in T : a[1] \in 1..clock /\ a[2] \in Nat /\ a[3] \in 1..born
  BY DEF GoodUIDs
<1>2. ASSUME NEW a \in seen, NEW b \in T, a[1] = b[1] PROVE a[2] = b[2] <=> a[3] = b[3]
  <2>1. b[3] \in DOMAIN U /\ b[2] = U[b[3]] /\ a[1] = v
    BY <1>2
  <2>2. U[b[3]] = a[2] <=> b[3] = a[3]
    BY <2>1 DEF Agrees
  <2> QED
    BY <2>1, <2>2
<1>3. \A a, b \in T : a[2] = b[2] <=> a[3] = b[3]
  BY DEF GoodUIDs
<1>4. \A a, b \in seen : a[1] = b[1] => (a[2] = b[2] <=> a[3] = b[3])
  BY DEF SeenInv, UIDsNeverReused, UIDsStable
<1>5. \A a, b \in seen \cup T : a[1] = b[1] => (a[2] = b[2] <=> a[3] = b[3])
  BY <1>2, <1>3, <1>4
<1>6. \A a \in seen' : a[1] \in 1..clock' /\ a[2] \in Nat /\ a[3] \in 1..born'
  BY <1>1 DEF SeenInv
<1>7. UIDsNeverReused' /\ UIDsStable'
  BY <1>5 DEF UIDsNeverReused, UIDsStable
<1> QED
  BY <1>6, <1>7 DEF SeenInv

\* What the scan of a Refresh has found when it comes to give out UIDs.
LEMMA FoundLemma ==
    ASSUME NEW s, Sessions = {s}, OneSessionInv, pc[s] = "statCur",
           NEW D, D = {f.msg : f \in Found(s)}
    PROVE  /\ D \subseteq 1..born
           /\ \A f \in Found(s) : f \in FileRecs
           /\ \A m \in D : loc[m] # "gone"
           /\ \A a \in seen : a[3] \in D \/ loc[a[3]] = "gone"
           /\ app[s] # 0 => app[s] \in D \ DOMAIN scan[s].uids
           /\ Unknown(s) = D \ DOMAIN scan[s].uids
<1>0. ScanInv(s) /\ pc[s] \in Scanning /\ SeenInv /\ AppendInv(s) /\ s \in Sessions
      /\ loc \in [Msgs -> {"new", "cur", "gone"}] /\ 1..born \subseteq Msgs
  BY MailboxAssumption
     DEF OneSessionInv, OneInv, Scanning, FolderInv, FolderOK, Msgs
<1>1. \A f \in Found(s) : f \in FileRecs /\ f.msg \in 1..born /\ loc[f.msg] # "gone"
  BY <1>0 DEF ScanInv, Found, Exists, FileOf, FileRecs
<1>2. ASSUME NEW m \in Msgs, Wanted(s, m), loc[m] # "gone" PROVE m \in D
  <2>1. loc[m] \in {"new", "cur"} /\ m \in 1..born
    BY <1>0, <1>2 DEF Wanted
  <2>2. FileOf(m) \in scan[s].found \/ FileOf(m) \in scan[s].listed
    BY <1>0, <1>2, <2>1 DEF ScanInv
  <2>3. Exists(FileOf(m)) /\ FileOf(m).msg = m
    BY <2>1 DEF Exists, FileOf
  <2>4. FileOf(m) \in Found(s)
    BY <2>2, <2>3 DEF Found
  <2> QED
    BY <2>3, <2>4
<1>3. \A a \in seen : a[3] \in Msgs /\ Wanted(s, a[3])
  BY <1>0 DEF SeenInv, Wanted
<1>4. app[s] # 0 => /\ app[s] \in Msgs /\ Wanted(s, app[s]) /\ loc[app[s]] # "gone"
                    /\ app[s] \notin DOMAIN scan[s].uids
  BY <1>0 DEF AppendInv, Wanted, ScanInv
<1> QED
  BY <1>1, <1>2, <1>3, <1>4 DEF Unknown

\* The list is written, and renamed into place.
LEMMA WriteSteps ==
    ASSUME NEW s, Sessions = {s}, OneSessionInv, FolderInv', WriteTmp(s) \/ RenameList(s)
    PROVE  OneSessionInv'
<1>0. /\ born \in Nat /\ clock \in Nat /\ mtime \in [Msgs -> Nat] /\ ListInv /\ SeenInv /\ OneInv(s)
      /\ WriteInv(s) /\ AppendInv(s) /\ s \in Sessions /\ DOMAIN pc = Sessions
      /\ DOMAIN app = Sessions /\ DOMAIN validity = Sessions /\ view[s] \subseteq Entries
  BY MailboxAssumption DEF OneSessionInv, FolderInv, FolderOK, SeenInv, OneInv, Shape
<1>1. CASE WriteTmp(s)
  <2>1. /\ pc[s] = "write" /\ pc'[s] = "rename"
        /\ tmp' = [v |-> validity[s], n |-> scan[s].n, uids |-> scan[s].uids]
        /\ UNCHANGED <<born, loc, flags, mtime, list, opening, app, view, validity,
                       scan, clock, writeFaults, seen, stale>>
    BY <1>0, <1>1 DEF WriteTmp, Goto, obsVars
  <2>2. ListInv' /\ SeenInv'
    BY <1>0, <2>1, ListKept, SeenKept
  <2>3. AppendInv(s)'
    BY <1>0, <2>1 DEF AppendInv
  <2>4. ScanInv(s)'
    BY <2>1 DEF ScanInv, Scanning
  <2>5. WriteInv(s)'
    BY <1>0, <2>1 DEF WriteInv
  <2> QED
    BY <1>0, <2>1, <2>2, <2>3, <2>4, <2>5 DEF OneSessionInv, OneInv
<1>2. CASE RenameList(s)
  <2> DEFINE T == {<<validity[s], e.uid, e.msg>> : e \in view[s]}
             U == scan[s].uids
             n == scan[s].n
             v == validity[s]
  <2>1. /\ pc[s] = "rename" /\ pc'[s] = "open" /\ app'[s] = 0 /\ list' = tmp
        /\ seen' = seen \cup T
        /\ UNCHANGED <<born, loc, flags, mtime, view, validity, clock, writeFaults>>
    BY <1>0, <1>2 DEF RenameList, Done, Goto
  <2>2. /\ v \in 1..clock /\ GoodUIDs(U, n, born) /\ Agrees(v, U, n, seen, loc)
        /\ \A e \in view[s] : e.msg \in DOMAIN U /\ e.uid = U[e.msg]
        /\ tmp = [v |-> v, n |-> n, uids |-> U]
    BY <1>0, <2>1 DEF WriteInv
  <2>3. stale' = stale
    <3>1. ASSUME app[s] # 0, NEW d \in Highest(view[s]), NEW a \in seen, a[1] = validity[s]
          PROVE  a[2] # d.uid
      <4>1. PICK e \in view[s] : a[2] < e.uid
        BY <1>0, <2>1, <3>1 DEF WriteInv
      <4>2. e.uid <= d.uid /\ e.uid \in Nat /\ d.uid \in Nat /\ a[2] \in Nat
        BY <1>0, <3>1 DEF Highest, Entries, SeenInv
      <4> QED
        BY <4>1, <4>2
    <3>2. {d \in Highest(view[s]) : /\ app[s] # 0
                                    /\ \E a \in seen : a[1] = validity[s] /\ a[2] = d.uid} = {}
      BY <3>1
    <3> QED
      BY <1>2, <3>2 DEF RenameList, Done
  <2>4. \A a \in T : a[1] = v /\ a[3] \in DOMAIN U /\ a[2] = U[a[3]]
    BY <2>2
  <2> HIDE DEF T, U, n, v
  <2>5. SeenInv'
    BY <1>0, <2>1, <2>2, <2>3, <2>4, SeenGrows
  <2>6. Agrees(v, U, n, seen \cup T, loc)
    BY <2>2, <2>4, AgreesSeen
  <2>7. /\ list'.v = v /\ list'.uids = U /\ list'.n = n
    BY <2>1, <2>2
  <2>8. ListInv'
    BY <1>0, <2>1, <2>2, <2>6, <2>7 DEF ListInv
  <2>9. AppendInv(s)' /\ ScanInv(s)' /\ WriteInv(s)'
    BY <2>1 DEF AppendInv, ScanInv, WriteInv, Scanning
  <2> QED
    BY <1>0, <2>1, <2>5, <2>8, <2>9 DEF OneSessionInv, OneInv
<1> QED
  BY <1>1, <1>2

\* The view and the list a Refresh builds are the ones of NewUIDs.
LEMMA EntriesLemma ==
    ASSUME NEW s, Sessions = {s}, OneSessionInv, pc[s] = "statCur",
           NEW D, D = {f.msg : f \in Found(s)}, NEW N, N = NewUIDs(scan[s].uids, scan[s].n, D)
    PROVE  /\ [m \in {f.msg : f \in Found(s)} |-> UIDOf(s, m)] = N
           /\ DOMAIN N = D
           /\ GoodUIDs(N, NextUID(s), born)
           /\ Agrees(validity[s], N, NextUID(s), seen, loc)
           /\ \A e \in {Entry(s, f) : f \in Found(s)} : e \in Entries /\ e.msg \in D /\ e.uid = N[e.msg]
           /\ \A m \in D : m \in DOMAIN scan[s].uids => N[m] = scan[s].uids[m]
           /\ \A m \in D \ DOMAIN scan[s].uids : N[m] >= scan[s].n
<1> DEFINE U == scan[s].uids
           n == scan[s].n
<1>0. /\ GoodUIDs(U, n, born) /\ Agrees(validity[s], U, n, seen, loc)
      /\ mtime \in [Msgs -> Nat] /\ MaxMsg \in Nat /\ born \in 0..MaxMsg
      /\ \A a \in seen : a[2] \in Nat
  <2>1. ScanInv(s) /\ SeenInv /\ FolderOK /\ pc[s] \in Scanning
    BY DEF OneSessionInv, OneInv, FolderInv, Scanning
  <2> QED
    BY <2>1, MailboxAssumption DEF ScanInv, SeenInv, FolderOK
<1>1. /\ D \subseteq 1..born /\ (\A f \in Found(s) : f \in FileRecs)
      /\ (\A m \in D : loc[m] # "gone") /\ (\A a \in seen : a[3] \in D \/ loc[a[3]] = "gone")
      /\ Unknown(s) = D \ DOMAIN U
  BY FoundLemma
<1>2. NextUID(s) = n + Cardinality(D \ DOMAIN U)
  BY <1>1 DEF NextUID
<1>3. \A m \in D : UIDOf(s, m) = N[m]
  BY <1>1 DEF UIDOf, NewUIDs
<1>4. DOMAIN N = D /\ N = [m \in D |-> N[m]] /\ \A m \in D : m \in DOMAIN U => N[m] = U[m]
  BY DEF NewUIDs
<1>5. [m \in D |-> UIDOf(s, m)] = N
  BY <1>3, <1>4
<1> HIDE DEF U, n
<1>6. GoodUIDs(N, NextUID(s), born) /\ \A m \in D \ DOMAIN U : N[m] >= n
  BY <1>0, <1>1, <1>2, NewUIDsGood DEF U, n
<1>7. Agrees(validity[s], N, NextUID(s), seen, loc)
  BY <1>0, <1>1, <1>2, NewUIDsAgree DEF U, n
<1>8. ASSUME NEW f \in Found(s)
      PROVE  Entry(s, f) \in Entries /\ Entry(s, f).msg \in D /\ Entry(s, f).uid = N[Entry(s, f).msg]
  <2>1. f.msg \in D /\ UIDOf(s, f.msg) = N[f.msg] /\ N[f.msg] \in Nat
    BY <1>3, <1>4, <1>6, <1>8 DEF GoodUIDs
  <2>2. f \in FileRecs
    BY <1>1
  <2> QED
    BY <2>1, <2>2 DEF Entry, Entries, FileRecs
<1> QED
  BY <1>4, <1>5, <1>6, <1>7, <1>8 DEF U, n

\* The scan ends: new UIDs are given.
LEMMA StatCurStep ==
    ASSUME NEW s, Sessions = {s}, OneSessionInv, FolderInv', StatCur(s)
    PROVE  OneSessionInv'
<1> DEFINE D == {f.msg : f \in Found(s)}
           N == NewUIDs(scan[s].uids, scan[s].n, D)
           w == {Entry(s, f) : f \in Found(s)}
<1>0. /\ born \in Nat /\ clock \in Nat /\ mtime \in [Msgs -> Nat] /\ ListInv /\ SeenInv /\ OneInv(s)
      /\ AppendInv(s) /\ ScanInv(s) /\ s \in Sessions /\ DOMAIN pc = Sessions
      /\ DOMAIN view = Sessions /\ DOMAIN scan = Sessions
      /\ DOMAIN app = Sessions /\ DOMAIN validity = Sessions
  BY MailboxAssumption DEF OneSessionInv, FolderInv, FolderOK, SeenInv, OneInv, Shape
<1>1. /\ pc[s] = "statCur" /\ view'[s] = w
      /\ UNCHANGED <<born, loc, flags, mtime, list, tmp, validity, clock, writeFaults>>
  BY <1>0 DEF StatCur, folderVars
<1>2. /\ validity[s] \in 1..clock
      /\ \/ list.v = 0
         \/ list.v = validity[s] /\ list.uids = scan[s].uids /\ list.n = scan[s].n
      /\ GoodUIDs(scan[s].uids, scan[s].n, born)
      /\ Agrees(validity[s], scan[s].uids, scan[s].n, seen, loc)
  BY <1>0, <1>1 DEF ScanInv, Scanning
<1>3. /\ [m \in D |-> UIDOf(s, m)] = N
      /\ DOMAIN N = D
      /\ GoodUIDs(N, NextUID(s), born)
      /\ Agrees(validity[s], N, NextUID(s), seen, loc)
      /\ \A e \in w : e \in Entries /\ e.msg \in D /\ e.uid = N[e.msg]
      /\ \A m \in D : m \in DOMAIN scan[s].uids => N[m] = scan[s].uids[m]
      /\ \A m \in D \ DOMAIN scan[s].uids : N[m] >= scan[s].n
  BY <1>1, EntriesLemma
<1>4. /\ app[s] # 0 => app[s] \in D \ DOMAIN scan[s].uids
      /\ Unknown(s) = D \ DOMAIN scan[s].uids
  BY <1>1, FoundLemma
<1>5. view'[s] \subseteq Entries
  BY <1>1, <1>3
<1>6. CASE Unknown(s) = {}
  <2> DEFINE T == {<<validity[s], e.uid, e.msg>> : e \in w}
  <2>1. app[s] = 0 /\ Done(s, w)
    BY <1>4, <1>6 DEF StatCur
  <2>2. pc'[s] = "open" /\ app'[s] = 0 /\ seen' = seen \cup T /\ stale' = stale
    BY <1>0, <2>1 DEF Done, Goto
  <2>3. \A a \in T : a[1] = validity[s] /\ a[3] \in DOMAIN scan[s].uids
                       /\ a[2] = scan[s].uids[a[3]]
    BY <1>3, <1>4, <1>6
  <2> HIDE DEF T
  <2>4. SeenInv'
    BY <1>0, <1>1, <1>2, <2>2, <2>3, SeenGrows
  <2>5. Agrees(list.v, list.uids, list.n, seen \cup T, loc)
    <3>1. CASE list.v = 0
      BY <1>0, <1>2, <2>3, <3>1 DEF Agrees, ListInv, SeenInv
    <3>2. CASE list.v = validity[s] /\ list.uids = scan[s].uids /\ list.n = scan[s].n
      <4>1. Agrees(validity[s], scan[s].uids, scan[s].n, seen \cup T, loc)
        BY <1>2, <2>3, AgreesSeen
      <4> QED
        BY <3>2, <4>1
    <3> QED
      BY <1>2, <3>1, <3>2
  <2>6. ListInv'
    BY <1>0, <1>1, <2>2, <2>5 DEF ListInv
  <2>7. AppendInv(s)' /\ ScanInv(s)' /\ WriteInv(s)'
    BY <2>2 DEF AppendInv, ScanInv, WriteInv, Scanning
  <2> QED
    BY <1>0, <1>1, <1>5, <2>2, <2>4, <2>6, <2>7 DEF OneSessionInv, OneInv
<1>7. CASE Unknown(s) # {}
  <2>1. /\ pc'[s] = "write" /\ UNCHANGED <<app, seen, stale>>
        /\ scan' = [scan EXCEPT ![s] = [NoScan EXCEPT
                      !.uids = [m \in D |-> UIDOf(s, m)], !.n = NextUID(s)]]
    BY <1>0, <1>7 DEF StatCur, Goto, obsVars
  <2>2. scan'[s] = [NoScan EXCEPT !.uids = [m \in D |-> UIDOf(s, m)], !.n = NextUID(s)]
    BY <1>0, <2>1
  <2>3. scan'[s].uids = N /\ scan'[s].n = NextUID(s)
    BY <1>3, <2>2 DEF NoScan
  <2>4. ListInv' /\ SeenInv'
    BY <1>0, <1>1, <2>1, ListKept, SeenKept
  <2>5. AppendInv(s)'
    BY <1>0, <1>1, <2>1 DEF AppendInv
  <2>6. ASSUME app[s] # 0
        PROVE  \E e \in w : e.msg = app[s] /\ \A a \in seen : a[1] = validity[s] => a[2] < e.uid
    <3>1. PICK f \in Found(s) : f.msg = app[s]
      BY <1>4, <2>6
    <3>2. Entry(s, f) \in w /\ Entry(s, f).msg = app[s]
      BY <3>1 DEF Entry
    <3>3. Entry(s, f).uid = N[app[s]] /\ Entry(s, f).uid \in Nat
      BY <1>3, <3>2 DEF Entries
    <3>4. N[app[s]] >= scan[s].n /\ scan[s].n \in Nat
      BY <1>2, <1>3, <1>4, <2>6 DEF GoodUIDs
    <3>5. \A a \in seen : a[1] = validity[s] => a[2] < scan[s].n /\ a[2] \in Nat
      BY <1>0, <1>2 DEF Agrees, SeenInv
    <3> QED
      BY <3>2, <3>3, <3>4, <3>5
  <2> HIDE DEF D, N, w
  <2>7. WriteInv(s)'
    BY <1>1, <1>2, <1>3, <2>1, <2>3, <2>6 DEF WriteInv
  <2>8. ScanInv(s)' /\ pc'[s] # "unlink"
    BY <2>1 DEF ScanInv, Scanning
  <2> QED
    BY <1>0, <1>1, <1>5, <2>4, <2>5, <2>7, <2>8 DEF OneSessionInv, OneInv
<1> QED
  BY <1>6, <1>7

-----------------------------------------------------------------------------
\* The invariant of one session holds at the start ...
LEMMA OneSessionInit ==
    ASSUME NEW s, Sessions = {s}, MaxWriteFaults = 0
    PROVE  Init => OneSessionInv
<1> SUFFICES ASSUME Init PROVE OneSessionInv
  OBVIOUS
<1>1. FolderInv
  BY FolderInit
<1>2. SeenInv
  <2>1. clock \in Nat /\ mtime \in [Msgs -> Nat] /\ writeFaults = 0 /\ seen = {} /\ stale = {}
    BY MailboxAssumption DEF Init, Msgs
  <2> QED
    BY <2>1 DEF SeenInv, UIDsNeverReused, UIDsStable
<1>3. ListInv
  <2>1. seen = {} /\ born = Preloaded /\ Preloaded \in Nat
    BY MailboxAssumption DEF Init
  <2>2. CASE Preloaded = 0
    <3>1. list = NoList /\ clock = 0
      BY <2>2 DEF Init
    <3>2. list.v = 0 /\ list.n = 1 /\ list.uids = NoUIDs /\ DOMAIN NoUIDs = {} /\ NoUIDs \in [{} -> Nat]
      BY <3>1 DEF NoList, NoUIDs
    <3> QED
      BY <2>1, <3>1, <3>2 DEF ListInv, GoodUIDs, Agrees
  <2>3. CASE Preloaded # 0
    <3>1. /\ list = [v |-> 1, n |-> Preloaded + 1, uids |-> [m \in 1..Preloaded |-> m]]
          /\ clock = 1
      BY <2>3 DEF Init
    <3>2. list.v = 1 /\ list.n = Preloaded + 1 /\ list.uids = [m \in 1..Preloaded |-> m]
      BY <3>1
    <3>3. GoodUIDs([m \in 1..Preloaded |-> m], Preloaded + 1, Preloaded)
      BY <2>1 DEF GoodUIDs
    <3> QED
      BY <2>1, <3>1, <3>2, <3>3 DEF ListInv, Agrees
  <2> QED
    BY <2>2, <2>3
<1>4. OneInv(s)
  <2>1. pc[s] = "closed" /\ app[s] = 0 /\ view[s] = {} /\ DOMAIN validity = Sessions
    BY DEF Init
  <2> QED
    BY <2>1 DEF OneInv, AppendInv, ScanInv, WriteInv, Scanning
<1> QED
  BY <1>1, <1>2, <1>3, <1>4 DEF OneSessionInv

\* ... and after every step.
LEMMA OneSessionStep ==
    ASSUME NEW s, Sessions = {s}
    PROVE  OneSessionInv /\ [Next]_vars => OneSessionInv'
<1> SUFFICES ASSUME OneSessionInv, [Next]_vars PROVE OneSessionInv'
  OBVIOUS
<1>0. FolderInv'
  BY FolderStep DEF OneSessionInv
<1>1. CASE Deliver \/ Crash \/ LoseList
  BY <1>0, <1>1, DeliverStep, FaultStep
<1>2. CASE SessionStep(s)
  <2>1. ~WriteFails(s) /\ ~ExpungeFails(s)
    BY DEF OneSessionInv, SeenInv, WriteFails, ExpungeFails, WriteFault
  <2>2. ~RenameFails(s) /\ ~RemoveTmp(s)
    <3>1. WriteInv(s) /\ pc[s] # "unlink"
      BY DEF OneSessionInv, OneInv
    <3>2. pc[s] = "rename" => tmp.v \in 1..clock
      BY <3>1 DEF WriteInv
    <3>3. NoTmp.v = 0
      BY DEF NoTmp
    <3> QED
      BY <3>1, <3>2, <3>3 DEF RenameFails, RemoveTmp, OneSessionInv, SeenInv
  <2> QED
    BY <1>0, <1>2, <2>1, <2>2, QuietSteps, ReadStep, ListSteps, StatCurStep, WriteSteps
       DEF SessionStep
<1>3. CASE UNCHANGED vars
  <2>1. UNCHANGED <<born, loc, flags, mtime, list, tmp, pc, app, view, validity, scan, clock,
                    writeFaults, seen, stale>>
    BY <1>3 DEF vars, folderVars, sessionVars, obsVars
  <2>2. ListInv' /\ SeenInv'
    BY <2>1 DEF OneSessionInv, ListInv, SeenInv, UIDsNeverReused, UIDsStable
  <2>3. \A m : Wanted(s, m)' = Wanted(s, m) /\ FileOf(m)' = FileOf(m)
    BY <2>1 DEF Wanted, FileOf
  <2>4. OneInv(s)'
    BY <2>1, <2>3 DEF OneSessionInv, OneInv, AppendInv, ScanInv, WriteInv
  <2> QED
    BY <1>0, <2>2, <2>4 DEF OneSessionInv
<1> QED
  BY <1>1, <1>2, <1>3 DEF Next, SessionStep

\* "UIDs are stable across sessions and never reused" (README), for a folder
\* that one session at a time has open and whose list can be written: through
\* any deliveries, crashes and losses of the list, no UID that a client saw
\* under one UIDVALIDITY ever names another message.
THEOREM UIDsNeverReusedAlone ==
    ASSUME NEW s, Sessions = {s}, MaxWriteFaults = 0
    PROVE  Spec => []UIDsNeverReused
<1>1. OneSessionInv => UIDsNeverReused
  BY DEF OneSessionInv, SeenInv
<1>2. Init => OneSessionInv
  BY OneSessionInit
<1>3. OneSessionInv /\ [Next]_vars => OneSessionInv'
  BY OneSessionStep
<1> QED
  BY <1>1, <1>2, <1>3, PTL DEF Spec

\* ... and no message a client saw is ever seen under another UID of the same
\* UIDVALIDITY.
THEOREM UIDsStableAlone ==
    ASSUME NEW s, Sessions = {s}, MaxWriteFaults = 0
    PROVE  Spec => []UIDsStable
<1>1. OneSessionInv => UIDsStable
  BY DEF OneSessionInv, SeenInv
<1>2. Init => OneSessionInv
  BY OneSessionInit
<1>3. OneSessionInv /\ [Next]_vars => OneSessionInv'
  BY OneSessionStep
<1> QED
  BY <1>1, <1>2, <1>3, PTL DEF Spec

\* The UID with which Append answers, the highest of the view it has just
\* built, is one no client has seen: the appended message is in that view,
\* and its UID is above all that were given before.
THEOREM AppendAnswersUnseenAlone ==
    ASSUME NEW s, Sessions = {s}, MaxWriteFaults = 0
    PROVE  Spec => []AppendAnswersUnseen
<1>1. OneSessionInv => AppendAnswersUnseen
  BY DEF OneSessionInv, SeenInv, AppendAnswersUnseen
<1>2. Init => OneSessionInv
  BY OneSessionInit
<1>3. OneSessionInv /\ [Next]_vars => OneSessionInv'
  BY OneSessionStep
<1> QED
  BY <1>1, <1>2, <1>3, PTL DEF Spec
=============================================================================
