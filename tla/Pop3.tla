-------------------------------- MODULE Pop3 --------------------------------
(***************************************************************************)
(* A POP3 session, internal/pop3, over the INBOX files of the accounts it  *)
(* logs in to, while mail is delivered and other sessions (IMAP, or POP3   *)
(* again) set flags and remove files.  QUIT is cut into the renames and    *)
(* removals it makes, between which others act and the process may die.    *)
(*                                                                         *)
(* A message is numbered by its delivery, which is also the order of its   *)
(* UID.  Its file is named by its directory and its flags: S is Seen, T is *)
(* Deleted.  A command that is refused and changes nothing is no step.     *)
(***************************************************************************)
EXTENDS Integers, Sequences, FiniteSets

CONSTANTS
    Accounts,
    MaxMsg,     \* bound: messages delivered
    MaxLogins,  \* bound: successful PASS commands in a session
    MaxOthers,  \* bound: renames and removals by other sessions
    MaxFaults   \* bound: failed renames and removals of QUIT, and crashes

ASSUME Pop3Assumption ==
    /\ MaxMsg \in Nat
    /\ MaxLogins \in Nat
    /\ MaxOthers \in Nat
    /\ MaxFaults \in Nat

None == "none"
ASSUME AccountsAssumption == None \notin Accounts

VARIABLES
    \* the folders
    born,     \* messages delivered: 1..born
    acct,     \* whose INBOX
    file,     \* directory and flags; directory "gone": no file
    \* the session
    pc,       \* closed, command, mark and expunge (the two loops of QUIT)
    tls, user, authd,
    msgs,     \* the frozen view: messages with the file names it knows
    del,      \* numbers marked for deletion
    next,     \* the number the loop of QUIT has come to
    \* the rest of the world
    others, faults,
    \* observations
    logins,   \* successful PASS commands of this session
    asked,    \* messages DELE marked since the session began or its last RSET
    flagged,  \* messages another, or an interrupted, session flagged Deleted
    removed,  \* messages this session removed
    missed,   \* messages QUIT did not find under the name its view knows
    unflagged, \* messages QUIT found and could not rename
    quitOK    \* QUIT was answered +OK

folderVars  == <<born, acct, file>>
sessionVars == <<pc, tls, user, authd, msgs, del, next>>
obsVars     == <<logins, asked, flagged, removed, missed, unflagged, quitOK>>
vars == <<folderVars, sessionVars, others, faults, obsVars>>

Msgs == 1..MaxMsg
Gone == [sub |-> "gone", fl |-> {}]
New  == [sub |-> "new", fl |-> {}]
Cur(f) == [sub |-> "cur", fl |-> f]

Init ==
    /\ born = 0
    /\ acct = [m \in Msgs |-> None]
    /\ file = [m \in Msgs |-> Gone]
    /\ pc = "closed"
    /\ tls = FALSE
    /\ user = None
    /\ authd = FALSE
    /\ msgs = <<>>
    /\ del = {}
    /\ next = 0
    /\ others = MaxOthers
    /\ faults = MaxFaults
    /\ logins = 0
    /\ asked = {}
    /\ flagged = {}
    /\ removed = {}
    /\ missed = {}
    /\ unflagged = {}
    /\ quitOK = FALSE

-----------------------------------------------------------------------------
(***************************************************************************)
(* The others                                                              *)
(***************************************************************************)
Deliver(a) ==
    /\ born < MaxMsg
    /\ born' = born + 1
    /\ acct' = [acct EXCEPT ![born + 1] = a]
    /\ file' = [file EXCEPT ![born + 1] = New]
    /\ UNCHANGED <<sessionVars, others, faults, obsVars>>

\* Another session stores flags (Mailbox.SetFlags) or expunges.
OtherChanges(m, name) ==
    /\ others > 0
    /\ others' = others - 1
    /\ file[m] # Gone
    /\ file' = [file EXCEPT ![m] = name]
    /\ flagged' = IF "T" \in name.fl THEN flagged \cup {m} ELSE flagged
    /\ UNCHANGED <<born, acct, sessionVars, faults, logins, asked, removed,
                   missed, unflagged, quitOK>>

-----------------------------------------------------------------------------
(***************************************************************************)
(* pop3.go, one action per command                                         *)
(***************************************************************************)

\* newSession, on port 110 or, with TLS from byte one, on port 995.
Connect(implicitTLS) ==
    /\ pc = "closed"
    /\ pc' = "command"
    /\ tls' = implicitTLS
    /\ user' = None
    /\ authd' = FALSE
    /\ msgs' = <<>>
    /\ del' = {}
    /\ next' = 0
    /\ logins' = 0
    /\ asked' = {}
    /\ removed' = {}
    /\ missed' = {}
    /\ unflagged' = {}
    /\ quitOK' = FALSE
    /\ flagged' = flagged \cup {m \in Msgs : "T" \in file[m].fl}
    /\ UNCHANGED <<folderVars, others, faults>>

\* The client is gone, idle for ten minutes, or sent an overlong line:
\* nothing is deleted.
Drop ==
    /\ pc = "command"
    /\ pc' = "closed"
    /\ UNCHANGED <<folderVars, tls, user, authd, msgs, del, next, others, faults, obsVars>>

Stls ==
    /\ pc = "command"
    /\ ~tls
    /\ tls' = TRUE
    /\ user' = None
    /\ authd' = FALSE
    /\ UNCHANGED <<folderVars, pc, msgs, del, next, others, faults, obsVars>>

User(u) ==
    /\ pc = "command"
    /\ tls
    /\ user' = u
    /\ UNCHANGED <<folderVars, pc, tls, authd, msgs, del, next, others, faults, obsVars>>

PassFails ==
    /\ pc = "command"
    /\ tls
    /\ user # None
    /\ user' = None
    /\ UNCHANGED <<folderVars, pc, tls, authd, msgs, del, next, others, faults, obsVars>>

Here(u) == {m \in 1..born : acct[m] = u /\ file[m] # Gone}

\* The view v OpenMailbox returns: every message there is, by UID.
Snapshot(u) ==
    {v \in [1..Cardinality(Here(u)) -> {[msg |-> m, name |-> file[m]] : m \in Here(u)}] :
        \A i, j \in DOMAIN v : i < j => v[i].msg < v[j].msg}

\* PASS, in a session that may be logged in already: the view is replaced,
\* the marks of the earlier one are not.
PassOk ==
    /\ pc = "command"
    /\ tls
    /\ user # None
    /\ logins < MaxLogins
    /\ logins' = logins + 1
    /\ authd' = TRUE
    /\ msgs' \in Snapshot(user)
    /\ UNCHANGED <<folderVars, pc, tls, user, del, next, others, faults, asked,
                   flagged, removed, missed, unflagged, quitOK>>

\* message(arg): a number of the view that is not marked.
Valid(n) == pc = "command" /\ authd /\ n \in 1..Len(msgs) /\ n \notin del

\* RETR: the message is read and marked Seen; a failing rename is ignored.
Retr(n) ==
    LET e == msgs[n]
        name == Cur(e.name.fl \cup {"S"})
    IN /\ Valid(n)
       /\ "S" \notin e.name.fl
       /\ file[e.msg] = e.name
       /\ file' = [file EXCEPT ![e.msg] = name]
       /\ msgs' = [msgs EXCEPT ![n].name = name]
       /\ UNCHANGED <<born, acct, pc, tls, user, authd, del, next, others, faults, obsVars>>

Dele(n) ==
    /\ Valid(n)
    /\ del' = del \cup {n}
    /\ asked' = asked \cup {msgs[n].msg}
    /\ UNCHANGED <<folderVars, pc, tls, user, authd, msgs, next, others, faults,
                   logins, flagged, removed, missed, unflagged, quitOK>>

\* Seeded fault: RSET answers +OK and forgets nothing.
RsetNothing ==
    /\ pc = "command"
    /\ authd
    /\ asked' = {}
    /\ UNCHANGED <<folderVars, sessionVars, others, faults, logins, flagged,
                   removed, missed, unflagged, quitOK>>

Rset ==
    /\ pc = "command"
    /\ authd
    /\ del' = {}
    /\ asked' = {}
    /\ UNCHANGED <<folderVars, pc, tls, user, authd, msgs, next, others, faults,
                   logins, flagged, removed, missed, unflagged, quitOK>>

-----------------------------------------------------------------------------
(***************************************************************************)
(* cmdQuit                                                                 *)
(***************************************************************************)

\* Nothing to delete: +OK.
QuitIdle ==
    /\ pc = "command"
    /\ ~authd \/ del = {}
    /\ pc' = "closed"
    /\ quitOK' = TRUE
    /\ UNCHANGED <<folderVars, tls, user, authd, msgs, del, next, others, faults,
                   logins, asked, flagged, removed, missed, unflagged>>

QuitBegin ==
    /\ pc = "command"
    /\ authd
    /\ del # {}
    /\ pc' = "mark"
    /\ next' = 1
    /\ UNCHANGED <<folderVars, tls, user, authd, msgs, del, others, faults, obsVars>>

\* Seeded fault: the first message that cannot be flagged ends the loop.
MarkStops ==
    LET e == msgs[next]
        name == Cur(e.name.fl \cup {"T"})
    IN /\ pc = "mark"
       /\ next <= Len(msgs)
       /\ IF next \notin del
          THEN next' = next + 1 /\ UNCHANGED <<file, msgs, missed>>
          ELSE IF file[e.msg] = e.name
          THEN /\ file' = [file EXCEPT ![e.msg] = name]
               /\ msgs' = [msgs EXCEPT ![next].name = name]
               /\ next' = next + 1
               /\ UNCHANGED missed
          ELSE missed' = missed \cup {e.msg} /\ next' = Len(msgs) + 1 /\ UNCHANGED <<file, msgs>>
       /\ UNCHANGED <<born, acct, pc, tls, user, authd, del, others, faults,
                      logins, asked, flagged, removed, unflagged, quitOK>>

\* SetFlags(+Deleted) on the next message, if it is marked and its name does
\* not say so yet.  The rename fails when the file has another name by now,
\* and it may fail with the file there (a read-only disk, no permission):
\* logged, and the loop goes on.
Mark ==
    LET e == msgs[next]
        name == Cur(e.name.fl \cup {"T"})
        renames == next \in del /\ name # e.name
    IN /\ pc = "mark"
       /\ next <= Len(msgs)
       /\ next' = next + 1
       /\ \/ /\ renames
             /\ file[e.msg] = e.name
             /\ file' = [file EXCEPT ![e.msg] = name]
             /\ msgs' = [msgs EXCEPT ![next].name = name]
             /\ UNCHANGED <<missed, unflagged, faults>>
          \/ /\ renames
             /\ file[e.msg] # e.name
             /\ missed' = missed \cup {e.msg}
             /\ UNCHANGED <<file, msgs, unflagged, faults>>
          \/ /\ renames
             /\ file[e.msg] = e.name
             /\ faults > 0
             /\ faults' = faults - 1
             /\ unflagged' = unflagged \cup {e.msg}
             /\ UNCHANGED <<file, msgs, missed>>
          \/ /\ ~renames
             /\ UNCHANGED <<file, msgs, missed, unflagged, faults>>
       /\ UNCHANGED <<born, acct, pc, tls, user, authd, del, others,
                      logins, asked, flagged, removed, quitOK>>

EndMark ==
    /\ pc = "mark"
    /\ next > Len(msgs)
    /\ pc' = "expunge"
    /\ next' = 1
    /\ UNCHANGED <<folderVars, tls, user, authd, msgs, del, others, faults, obsVars>>

\* Expunge: every message the VIEW flags Deleted, marked by this session or
\* not, is removed under the name the view knows; a file that is not there
\* is as good as removed.
Expunge ==
    LET e == msgs[next]
        hit == "T" \in e.name.fl /\ file[e.msg] = e.name
        miss == "T" \in e.name.fl /\ file[e.msg] # e.name
    IN /\ pc = "expunge"
       /\ next <= Len(msgs)
       /\ next' = next + 1
       /\ file' = IF hit THEN [file EXCEPT ![e.msg] = Gone] ELSE file
       /\ removed' = IF hit THEN removed \cup {e.msg} ELSE removed
       /\ missed' = IF miss THEN missed \cup {e.msg} ELSE missed
       /\ UNCHANGED <<born, acct, pc, tls, user, authd, msgs, del, others, faults,
                      logins, asked, flagged, unflagged, quitOK>>

\* A removal fails: -ERR, the rest is not tried.
ExpungeFails ==
    /\ pc = "expunge"
    /\ next <= Len(msgs)
    /\ "T" \in msgs[next].name.fl
    /\ faults > 0
    /\ faults' = faults - 1
    /\ pc' = "closed"
    /\ UNCHANGED <<folderVars, tls, user, authd, msgs, del, next, others, obsVars>>

QuitEnd ==
    /\ pc = "expunge"
    /\ next > Len(msgs)
    /\ pc' = "closed"
    /\ quitOK' = TRUE
    /\ UNCHANGED <<folderVars, tls, user, authd, msgs, del, next, others, faults,
                   logins, asked, flagged, removed, missed, unflagged>>

\* The process dies in the middle of QUIT.
Crash ==
    /\ pc \in {"mark", "expunge"}
    /\ faults > 0
    /\ faults' = faults - 1
    /\ pc' = "closed"
    /\ UNCHANGED <<folderVars, tls, user, authd, msgs, del, next, others, obsVars>>

Quit == QuitIdle \/ QuitBegin \/ Mark \/ EndMark \/ Expunge \/ ExpungeFails \/ QuitEnd

Next ==
    \/ \E a \in Accounts : Deliver(a) \/ User(a)
    \/ \E m \in 1..born, name \in {Gone, Cur({}), Cur({"T"})} : OtherChanges(m, name)
    \/ \E b \in BOOLEAN : Connect(b)
    \/ Drop \/ Stls \/ PassFails \/ PassOk
    \/ \E n \in 1..Len(msgs) : Retr(n) \/ Dele(n)
    \/ Rset \/ Quit \/ Crash

Spec == Init /\ [][Next]_vars

-----------------------------------------------------------------------------
(***************************************************************************)
(* Properties                                                              *)
(***************************************************************************)
Names == {Gone, New} \cup {Cur(f) : f \in SUBSET {"S", "T"}}

\* The shape of the state; nobody is logged in over a plaintext channel, and
\* the marks are message numbers.
TypeOK ==
    /\ born \in 0..MaxMsg
    /\ acct \in [Msgs -> Accounts \cup {None}]
    /\ file \in [Msgs -> Names]
    /\ pc \in {"closed", "command", "mark", "expunge"}
    /\ msgs \in Seq([msg : Msgs, name : Names \ {Gone}])
    /\ del \subseteq Msgs
    /\ authd \/ user # None => tls

\* In a session that logs in once, a QUIT answered +OK removed every message
\* the client asked to delete, but for two kinds cmdQuit logs as "delete
\* failed" before it answers +OK all the same: those another session renamed
\* meanwhile, and those whose own rename failed.
QuitHonoursDele ==
    quitOK /\ logins <= 1 => \A m \in asked \ (missed \cup unflagged) : file[m] = Gone

\* In a session that logs in once, QUIT removes a message only if the client
\* asked for it, or another session (an earlier one that died in QUIT too)
\* had flagged it Deleted.  DELE taken back
\* by RSET, or a session that ends without QUIT, removes nothing.
OnlyAskedOrFlagged ==
    logins <= 1 => removed \subseteq asked \cup flagged
=============================================================================
