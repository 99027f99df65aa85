------------------------------ MODULE Mailbox ------------------------------
(***************************************************************************)
(* One folder (INBOX) of a Maildir account, internal/maildir: message      *)
(* files whose names carry the flags, the kavira-uidlist file that maps    *)
(* base names to UIDs, and Mailbox objects, the snapshots that IMAP and    *)
(* POP3 sessions hold.  No lock protects the folder: every session opens   *)
(* it on its own and mail is delivered meanwhile, so a step is one call    *)
(* that touches the directory.                                             *)
(*                                                                         *)
(* A base name is a message number, T is the Deleted flag; the             *)
(* modification time orders deliveries, and APPEND may set it to any       *)
(* earlier time (its INTERNALDATE argument).                               *)
(***************************************************************************)
EXTENDS Integers, FiniteSets

CONSTANTS
    Sessions,        \* Mailbox objects
    Flags,           \* flags a file name may carry
    Preloaded,       \* messages that are in the mailbox, and listed, at the start
    MaxMsg,          \* bound: messages delivered or appended
    MaxValidity,     \* bound: UIDVALIDITY values minted
    MaxFaults,       \* bound: crashes and losses of the UID list
    MaxWriteFaults   \* bound: failed writes and removals

ASSUME MailboxAssumption ==
    /\ "T" \in Flags
    /\ Preloaded \in 0..MaxMsg
    /\ MaxMsg \in Nat
    /\ MaxValidity \in Nat \ {0}
    /\ MaxFaults \in Nat
    /\ MaxWriteFaults \in Nat

VARIABLES
    \* the folder
    born,      \* messages stored so far: 1..born
    loc,       \* where the file is: "new", "cur" or "gone"
    flags,     \* the flags in its name
    mtime,     \* its modification time
    list,      \* kavira-uidlist: UIDVALIDITY, next UID, UIDs by base name
    tmp,       \* kavira-uidlist.tmp, one name for every writer
    \* the Mailbox objects
    pc,        \* what the session does next
    opening,   \* the running Refresh is OpenMailbox's
    app,       \* the message Append has just stored (0: no Append runs)
    view,      \* Mailbox.messages
    validity,  \* Mailbox.uidValidity
    scan,      \* Refresh: the UID list read, the files found so far
    \* the rest of the world
    clock,     \* the last UIDVALIDITY minted
    faults, writeFaults,
    \* observations
    seen,      \* every <<UIDVALIDITY, UID, message>> a client could see
    stale      \* messages Append answered with after a client had seen their UID

folderVars  == <<born, loc, flags, mtime, list, tmp>>
sessionVars == <<pc, opening, app, view, validity, scan>>
obsVars == <<seen, stale>>
vars == <<folderVars, sessionVars, clock, faults, writeFaults, obsVars>>

Msgs == 1..MaxMsg

NoUIDs == [m \in {} |-> 0]
\* A missing, empty or unparsable list.
NoList == [v |-> 0, n |-> 1, uids |-> NoUIDs]
NoTmp  == [v |-> 0, n |-> 0, uids |-> NoUIDs]

NoScan == [uids |-> NoUIDs, n |-> 1, listed |-> {}, found |-> {}]

\* A file as a directory listing shows it: base name, directory, flags.
FileOf(m) == [msg |-> m, sub |-> loc[m], fl |-> flags[m]]
Files(sub) == {FileOf(m) : m \in {k \in 1..born : loc[k] = sub}}
Exists(f) == f.msg \in 1..born /\ f = FileOf(f.msg)

EntryFile(e) == [msg |-> e.msg, sub |-> e.sub, fl |-> e.fl]

Init ==
    /\ born = Preloaded
    /\ loc = [m \in Msgs |-> IF m <= Preloaded THEN "cur" ELSE "gone"]
    /\ flags = [m \in Msgs |-> {}]
    /\ mtime = [m \in Msgs |-> IF m <= Preloaded THEN m ELSE 0]
    /\ list = IF Preloaded = 0 THEN NoList
              ELSE [v |-> 1, n |-> Preloaded + 1, uids |-> [m \in 1..Preloaded |-> m]]
    /\ tmp = NoTmp
    /\ pc = [s \in Sessions |-> "closed"]
    /\ opening = [s \in Sessions |-> FALSE]
    /\ app = [s \in Sessions |-> 0]
    /\ view = [s \in Sessions |-> {}]
    /\ validity = [s \in Sessions |-> 0]
    /\ scan = [s \in Sessions |-> NoScan]
    /\ clock = IF Preloaded = 0 THEN 0 ELSE 1
    /\ faults = MaxFaults
    /\ writeFaults = MaxWriteFaults
    /\ seen = {}
    /\ stale = {}

Goto(s, label) == pc' = [pc EXCEPT ![s] = label]

WriteFault == writeFaults > 0 /\ writeFaults' = writeFaults - 1

-----------------------------------------------------------------------------
(***************************************************************************)
(* maildir.go Deliver                                                      *)
(***************************************************************************)

\* A message is written under tmp/, renamed into new/, and stamped t.
Store(t) ==
    /\ born < MaxMsg
    /\ born' = born + 1
    /\ loc' = [loc EXCEPT ![born + 1] = "new"]
    /\ mtime' = [mtime EXCEPT ![born + 1] = t]
    /\ UNCHANGED <<flags, list, tmp>>

\* Deliver for an SMTP session or a bounce.
Deliver == Store(born + 1) /\ UNCHANGED <<sessionVars, clock, faults, writeFaults, obsVars>>

-----------------------------------------------------------------------------
(***************************************************************************)
(* mailbox.go Refresh, for OpenMailbox, for a polling session and at the   *)
(* end of Append                                                           *)
(***************************************************************************)

\* Seeded fault: a lost list starts over under the old UIDVALIDITY.
MintSame(s) == /\ clock' = IF clock = 0 THEN 1 ELSE clock
               /\ validity' = [validity EXCEPT ![s] = clock']

\* newUIDValidity: the nanosecond clock's low 32 bits, taken to be fresh.
Mint(s) ==
    /\ clock < MaxValidity
    /\ clock' = clock + 1
    /\ validity' = [validity EXCEPT ![s] = clock + 1]

\* readUIDList: a missing or corrupt list gets a fresh UIDVALIDITY and
\* starts over at UID 1.  It is not written back here.
ReadUIDList(s) ==
    /\ IF list.v = 0
       THEN Mint(s)
       ELSE validity' = [validity EXCEPT ![s] = list.v] /\ UNCHANGED clock
    /\ scan' = [scan EXCEPT ![s] = [NoScan EXCEPT !.uids = list.uids, !.n = list.n]]
    /\ Goto(s, "listNew")

OpenMailbox(s) ==
    /\ pc[s] = "closed"
    /\ opening' = [opening EXCEPT ![s] = TRUE]
    /\ ReadUIDList(s)
    /\ UNCHANGED <<folderVars, app, view, faults, writeFaults, obsVars>>

Refresh(s) ==
    /\ pc[s] = "open"
    /\ ReadUIDList(s)
    /\ UNCHANGED <<folderVars, opening, app, view, faults, writeFaults, obsVars>>

\* os.ReadDir of new/, then of cur/.
ListDir(s, sub) ==
    /\ pc[s] = IF sub = "new" THEN "listNew" ELSE "listCur"
    /\ scan' = [scan EXCEPT ![s].listed = Files(sub)]
    /\ Goto(s, IF sub = "new" THEN "statNew" ELSE "statCur")
    /\ UNCHANGED <<folderVars, opening, app, view, validity, clock, faults,
                   writeFaults, obsVars>>

\* The listed files that are still there under that name.
Found(s) == scan[s].found \cup {f \in scan[s].listed : Exists(f)}

StatNew(s) ==
    /\ pc[s] = "statNew"
    /\ scan' = [scan EXCEPT ![s].found = Found(s), ![s].listed = {}]
    /\ Goto(s, "listCur")
    /\ UNCHANGED <<folderVars, opening, app, view, validity, clock, faults,
                   writeFaults, obsVars>>

\* The messages found that the list does not know.
Unknown(s) == {f.msg : f \in Found(s)} \ DOMAIN scan[s].uids

Before(k, m) == mtime[k] < mtime[m] \/ (mtime[k] = mtime[m] /\ k < m)

\* Seeded fault: UIDs follow the directory order, whatever is assigned.
UIDFromOne(s, m) == 1 + Cardinality({f \in Found(s) : f.msg < m})

\* Unknown messages get the next UIDs in order of modification time.
UIDOf(s, m) ==
    IF m \in DOMAIN scan[s].uids
    THEN scan[s].uids[m]
    ELSE scan[s].n + Cardinality({k \in Unknown(s) : Before(k, m)})

Entry(s, f) == [msg |-> f.msg, sub |-> f.sub, fl |-> f.fl, uid |-> UIDOf(s, f.msg)]

\* Seeded fault: the list is read from the wrong end.
Lowest(v) == {e \in v : \A d \in v : d.uid >= e.uid}

Highest(v) == {e \in v : \A d \in v : d.uid <= e.uid}

\* Refresh returns: the session serves the view.  Append answers with the
\* message that has the highest UID.
Done(s, v) ==
    /\ Goto(s, "open")
    /\ opening' = [opening EXCEPT ![s] = FALSE]
    /\ app' = [app EXCEPT ![s] = 0]
    /\ seen' = seen \cup {<<validity[s], e.uid, e.msg>> : e \in v}
    /\ stale' = stale \cup
         {e.msg : e \in {d \in Highest(v) : /\ app[s] # 0
                                           /\ \E a \in seen : /\ a[1] = validity[s]
                                                              /\ a[2] = d.uid}}

NextUID(s) == scan[s].n + Cardinality(Unknown(s))

\* The rest of Refresh: the new view, and, when a UID was assigned, a list
\* pruned to the messages found.
StatCur(s) ==
    LET v == {Entry(s, f) : f \in Found(s)}
        live == [m \in {f.msg : f \in Found(s)} |-> UIDOf(s, m)]
    IN /\ pc[s] = "statCur"
       /\ view' = [view EXCEPT ![s] = v]
       /\ IF Unknown(s) = {}
          THEN /\ Done(s, v)
               /\ scan' = [scan EXCEPT ![s] = NoScan]
          ELSE /\ Goto(s, "write")
               /\ scan' = [scan EXCEPT ![s] = [NoScan EXCEPT !.uids = live, !.n = NextUID(s)]]
               /\ UNCHANGED <<opening, app, obsVars>>
       /\ UNCHANGED <<folderVars, validity, clock, faults, writeFaults>>

\* Refresh fails: OpenMailbox drops the object, Append reports the error, a
\* poll ignores it.  The messages are in the object already.
Failed(s) ==
    /\ Goto(s, IF opening[s] THEN "closed" ELSE "open")
    /\ opening' = [opening EXCEPT ![s] = FALSE]
    /\ app' = [app EXCEPT ![s] = 0]
    /\ scan' = [scan EXCEPT ![s] = NoScan]
    /\ view' = [view EXCEPT ![s] = IF opening[s] THEN {} ELSE @]
    /\ validity' = [validity EXCEPT ![s] = IF opening[s] THEN 0 ELSE @]
    /\ seen' = IF opening[s] THEN seen
               ELSE seen \cup {<<validity[s], e.uid, e.msg>> : e \in view[s]}
    /\ UNCHANGED stale

\* writeUIDList: the temporary file, under a name all writers share ...
WriteTmp(s) ==
    /\ pc[s] = "write"
    /\ tmp' = [v |-> validity[s], n |-> scan[s].n, uids |-> scan[s].uids]
    /\ Goto(s, "rename")
    /\ UNCHANGED <<born, loc, flags, mtime, list, opening, app, view, validity,
                   scan, clock, faults, writeFaults, obsVars>>

WriteFails(s) ==
    /\ pc[s] = "write"
    /\ WriteFault
    /\ Failed(s)
    /\ UNCHANGED <<folderVars, clock, faults>>

\* ... and its rename, of whatever the file holds by then.
RenameList(s) ==
    /\ pc[s] = "rename"
    /\ tmp # NoTmp
    /\ list' = tmp
    /\ tmp' = NoTmp
    /\ Done(s, view[s])
    /\ scan' = [scan EXCEPT ![s] = NoScan]
    /\ UNCHANGED <<born, loc, flags, mtime, view, validity, clock, faults, writeFaults>>

\* Another session renamed the file away: ENOENT ...
RenameFails(s) ==
    /\ pc[s] = "rename"
    /\ tmp = NoTmp
    /\ Goto(s, "unlink")
    /\ UNCHANGED <<folderVars, opening, app, view, validity, scan, clock,
                   faults, writeFaults, obsVars>>

\* ... and the clean-up removes the temporary file, whoever's it is by now.
RemoveTmp(s) ==
    /\ pc[s] = "unlink"
    /\ tmp' = NoTmp
    /\ Failed(s)
    /\ UNCHANGED <<born, loc, flags, mtime, list, clock, faults, writeFaults>>

-----------------------------------------------------------------------------
(***************************************************************************)
(* mailbox.go SetFlags, Expunge, Append                                    *)
(***************************************************************************)

Rename(m, f) ==
    /\ loc' = [loc EXCEPT ![m] = "cur"]
    /\ flags' = [flags EXCEPT ![m] = f]
    /\ UNCHANGED <<born, mtime, list, tmp>>

\* SetFlags renames the file from the name the view knows; when another
\* session changed that name the rename fails and nothing changes.  A name
\* that would not change is not touched on disk at all.
SetFlags(s, e, f) ==
    LET e2 == [e EXCEPT !.sub = "cur", !.fl = f]
    IN /\ pc[s] = "open"
       /\ e \in view[s]
       /\ e2 # e
       /\ Exists(EntryFile(e))
       /\ Rename(e.msg, f)
       /\ view' = [view EXCEPT ![s] = (@ \ {e}) \cup {e2}]
       /\ UNCHANGED <<pc, opening, app, validity, scan, clock, faults, writeFaults, obsVars>>

\* Expunge, for every message the VIEW flags Deleted: remove the file under
\* the name the view knows; a file that is not there is as good as removed.
BeginExpunge(s) ==
    /\ pc[s] = "open"
    /\ \E e \in view[s] : "T" \in e.fl
    /\ scan' = [scan EXCEPT ![s].listed = {e \in view[s] : "T" \in e.fl}]
    /\ Goto(s, "expunge")
    /\ UNCHANGED <<folderVars, opening, app, view, validity, clock, faults,
                   writeFaults, obsVars>>

\* Seeded fault: the file is removed whatever its flags are by now.
ExpungeByBase(s, e) ==
    /\ pc[s] = "expunge"
    /\ e \in scan[s].listed
    /\ \A d \in scan[s].listed : e.uid <= d.uid
    /\ scan' = [scan EXCEPT ![s].listed = @ \ {e}]
    /\ loc' = [loc EXCEPT ![e.msg] = "gone"]
    /\ UNCHANGED <<born, flags, mtime, list, tmp, pc, opening, app, view,
                   validity, clock, faults, writeFaults, obsVars>>

ExpungeOne(s, e) ==
    /\ pc[s] = "expunge"
    /\ e \in scan[s].listed
    /\ \A d \in scan[s].listed : e.uid <= d.uid
    /\ scan' = [scan EXCEPT ![s].listed = @ \ {e}]
    /\ loc' = IF Exists(EntryFile(e)) THEN [loc EXCEPT ![e.msg] = "gone"] ELSE loc
    /\ UNCHANGED <<born, flags, mtime, list, tmp, pc, opening, app, view,
                   validity, clock, faults, writeFaults, obsVars>>

EndExpunge(s) ==
    /\ pc[s] = "expunge"
    /\ scan[s].listed = {}
    /\ view' = [view EXCEPT ![s] = {e \in @ : "T" \notin e.fl}]
    /\ scan' = [scan EXCEPT ![s] = NoScan]
    /\ Goto(s, "open")
    /\ UNCHANGED <<folderVars, opening, app, validity, clock, faults,
                   writeFaults, obsVars>>

\* A removal fails: Expunge returns at once and the view keeps every entry,
\* those already removed included.
ExpungeFails(s) ==
    /\ pc[s] = "expunge"
    /\ scan[s].listed # {}
    /\ WriteFault
    /\ scan' = [scan EXCEPT ![s] = NoScan]
    /\ Goto(s, "open")
    /\ UNCHANGED <<folderVars, opening, app, view, validity, clock, faults, obsVars>>

\* Append stores the message, stamped with the client's date t; with flags,
\* it is then renamed into cur/, and the folder is read again.
AppendStore(s, t) ==
    /\ pc[s] = "open"
    /\ Store(t)
    /\ app' = [app EXCEPT ![s] = born + 1]
    /\ Goto(s, "appended")
    /\ UNCHANGED <<opening, view, validity, scan, clock, faults, writeFaults, obsVars>>

AppendRefresh(s) ==
    /\ pc[s] = "appended"
    /\ ReadUIDList(s)
    /\ UNCHANGED <<folderVars, opening, app, view, faults, writeFaults, obsVars>>

AppendFlag(s, f) ==
    /\ pc[s] = "appended"
    /\ loc[app[s]] = "new"
    /\ Rename(app[s], f)
    /\ Goto(s, "flagged")
    /\ UNCHANGED <<opening, app, view, validity, scan, clock, faults, writeFaults, obsVars>>

AppendFlagged(s) ==
    /\ pc[s] = "flagged"
    /\ ReadUIDList(s)
    /\ UNCHANGED <<folderVars, opening, app, view, faults, writeFaults, obsVars>>

\* Another session moved or removed the file first: Append fails.
AppendFlagFails(s) ==
    /\ pc[s] = "appended"
    /\ loc[app[s]] # "new"
    /\ Goto(s, "open")
    /\ app' = [app EXCEPT ![s] = 0]
    /\ UNCHANGED <<folderVars, opening, view, validity, scan, clock, faults,
                   writeFaults, obsVars>>

-----------------------------------------------------------------------------
\* The session drops its Mailbox object.
Close(s) ==
    /\ pc[s] = "open"
    /\ Goto(s, "closed")
    /\ view' = [view EXCEPT ![s] = {}]
    /\ validity' = [validity EXCEPT ![s] = 0]
    /\ UNCHANGED <<folderVars, opening, app, scan, clock, faults, writeFaults, obsVars>>

\* The process dies; kavira-uidlist.tmp may stay behind.
Crash ==
    /\ faults > 0
    /\ \E s \in Sessions : pc[s] # "closed"
    /\ faults' = faults - 1
    /\ pc' = [s \in Sessions |-> "closed"]
    /\ opening' = [s \in Sessions |-> FALSE]
    /\ app' = [s \in Sessions |-> 0]
    /\ view' = [s \in Sessions |-> {}]
    /\ validity' = [s \in Sessions |-> 0]
    /\ scan' = [s \in Sessions |-> NoScan]
    /\ UNCHANGED <<folderVars, clock, writeFaults, obsVars>>

\* The UID list is damaged or deleted behind the server's back.
LoseList ==
    /\ faults > 0
    /\ list # NoList
    /\ faults' = faults - 1
    /\ list' = NoList
    /\ UNCHANGED <<born, loc, flags, mtime, tmp, sessionVars, clock,
                   writeFaults, obsVars>>

Dates == {0, born + 1}

Next ==
    \/ Deliver \/ Crash \/ LoseList
    \/ \E s \in Sessions :
        \/ OpenMailbox(s) \/ Refresh(s) \/ Close(s)
        \/ \E sub \in {"new", "cur"} : ListDir(s, sub)
        \/ StatNew(s) \/ StatCur(s)
        \/ WriteTmp(s) \/ WriteFails(s) \/ RenameList(s)
        \/ RenameFails(s) \/ RemoveTmp(s)
        \/ \E e \in view[s], f \in SUBSET Flags : SetFlags(s, e, f)
        \/ BeginExpunge(s) \/ EndExpunge(s) \/ ExpungeFails(s)
        \/ \E e \in scan[s].listed : ExpungeOne(s, e)
        \/ \E t \in Dates : AppendStore(s, t)
        \/ AppendRefresh(s) \/ AppendFlagged(s) \/ AppendFlagFails(s)
        \/ \E f \in SUBSET Flags \ {{}} : AppendFlag(s, f)

Spec == Init /\ [][Next]_vars

-----------------------------------------------------------------------------
(***************************************************************************)
(* Properties                                                              *)
(***************************************************************************)
UIDLists == [v : Nat, n : Nat, uids : UNION {[D -> Nat] : D \in SUBSET Msgs}]

\* The shape of the folder and of the objects.
TypeOK ==
    /\ born \in 0..MaxMsg
    /\ loc \in [Msgs -> {"new", "cur", "gone"}]
    /\ flags \in [Msgs -> SUBSET Flags]
    /\ \A m \in Msgs : loc[m] = "new" => flags[m] = {}
    /\ \A s \in Sessions : pc[s] = "closed" => view[s] = {} /\ scan[s] = NoScan

\* "UIDs are stable across sessions and never reused, persisted per
\* mailbox" (README): under one UIDVALIDITY no UID ever names two messages ...
UIDsNeverReused ==
    \A a, b \in seen : a[1] = b[1] /\ a[2] = b[2] => a[3] = b[3]

\* ... and no message has two UIDs.
UIDsStable ==
    \A a, b \in seen : a[1] = b[1] /\ a[3] = b[3] => a[2] = b[2]

\* A message disappears only while its file name says Deleted, whatever the
\* expunging session believed when it built its view.
OnlyDeletedRemoved ==
    [][\A m \in Msgs : loc[m] # "gone" /\ loc'[m] = "gone" => "T" \in flags[m]]_vars

\* The UID that Append hands to APPENDUID has not been shown to any client:
\* mail delivered meanwhile may take the place of the appended message in
\* the answer, but never a message that was there before.
AppendAnswersUnseen == stale = {}

=============================================================================
