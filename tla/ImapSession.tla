---------------------------- MODULE ImapSession ----------------------------
(***************************************************************************)
(* IMAP sessions of one account, internal/imap, over the calls of          *)
(* internal/maildir they make.  Every session keeps a snapshot of its      *)
(* selected mailbox (s.mbox.messages) and a client that counts along with  *)
(* the EXISTS and EXPUNGE responses; no lock ties the sessions together,   *)
(* so a step is one maildir call.  STORE, FETCH and COPY over a set of     *)
(* messages keep nothing from one message to the next: they are a step     *)
(* per message.  MOVE, which copies all, flags all and then expunges,      *)
(* keeps its place in "op".  Refresh reads the UID list and the            *)
(* directories, and installs and writes what it made of them: it does so   *)
(* in one step, or, when other sessions come in between, in two            *)
(* (StartRefresh and the command's own step).  Mailbox.tla takes the calls *)
(* apart further; here the question is which message a number means and    *)
(* which file a snapshot's name still finds.                               *)
(*                                                                         *)
(* A base name is a number, and a UID list the sequence of the base names  *)
(* in UID order, those of removed files left out.  What a sequence set     *)
(* selects, by number or by UID, is a run of consecutive entries           *)
(* (ImapText.SetsMeanRanges).                                              *)
(***************************************************************************)
EXTENDS Integers, Sequences, FiniteSets, TLC

CONSTANTS
    Sessions,    \* connections of the account
    Preloaded,   \* messages in INBOX, listed, at the start
    MaxFiles,    \* bound: files ever stored
    MaxEvents    \* bound: commands that store, copy, move or flag messages,
                 \*        file operations that fail, and Refreshes that others
                 \*        may overtake

ASSUME ImapSessionAssumption == Preloaded \in 0..MaxFiles /\ MaxFiles \in Nat /\ MaxEvents \in Nat

VARIABLES
    there,      \* the folders that exist
    files,      \* files of each folder: base name, directory, flags
    order,      \* kavira-uidlist of each folder
    born,       \* files stored so far: 1..born
    sess,       \* the session objects
    events,     \* how many are left
    \* observations
    told,       \* what the client takes its numbers for, a sequence of base names
    doomed,     \* messages on disk whose Deleted flag a client has set
    copied      \* messages on disk that a MOVE has stored a copy of

diskVars == <<there, files, order, born>>
vars == <<diskVars, sess, events, told, doomed, copied>>

Inbox == "INBOX"
Folders == {Inbox, "Other"}
Bases == 1..MaxFiles
Deleted == "T"
Seen == "S"

NoOp == [k |-> "none", todo |-> <<>>]
NoRead == [f |-> "", l |-> <<>>, fs |-> {}]
Off == [st |-> "off", tls |-> FALSE, sel |-> "", ro |-> FALSE,
        view |-> <<>>, read |-> NoRead, op |-> NoOp]

\* The client can no longer follow: another session renamed or removed files
\* of its mailbox, a file operation failed, or two Refreshes clashed.
Lost == <<0>>

Init ==
    /\ there = {Inbox}
    /\ files = [f \in Folders |->
        IF f = Inbox THEN {[base |-> b, sub |-> "cur", fl |-> {}] : b \in 1..Preloaded} ELSE {}]
    /\ order = [f \in Folders |-> IF f = Inbox THEN [b \in 1..Preloaded |-> b] ELSE <<>>]
    /\ born = Preloaded
    /\ sess = [s \in Sessions |-> Off]
    /\ told = [s \in Sessions |-> <<>>]
    /\ doomed = {}
    /\ copied = {}
    /\ events = MaxEvents

Set(s, r) == sess' = [sess EXCEPT ![s] = r]
Event == events > 0 /\ events' = events - 1

Ready(s) == sess[s].st # "off" /\ sess[s].op = NoOp /\ sess[s].read = NoRead
Authed(s) == Ready(s) /\ sess[s].st \in {"auth", "selected"}
Selected(s) == Ready(s) /\ sess[s].st = "selected"

-----------------------------------------------------------------------------
(***************************************************************************)
(* The maildir calls.  Fs is a folder's set of files.                      *)
(***************************************************************************)
FileOf(e) == [base |-> e.base, sub |-> e.sub, fl |-> e.fl]
RangeOf(q) == {q[i] : i \in DOMAIN q}
BasesOf(Fs) == {x.base : x \in Fs}
Orders(S) == IF S = {} THEN {<<>>} ELSE {q \in [1..Cardinality(S) -> S] : RangeOf(q) = S}

\* The elements of q that are in S, in their order: SelectSeq, as a function
\* that proofs can take apart.
Keeping(q, S) ==
    LET K[n \in 0..Len(q)] ==
        IF n = 0 THEN <<>>
        ELSE IF q[n] \in S THEN Append(K[n - 1], q[n]) ELSE K[n - 1]
    IN K[Len(q)]

StartsWith(q, p) == Len(p) <= Len(q) /\ SubSeq(q, 1, Len(p)) = p

\* What a Refresh of f by s works on: the list and the files as they are, or
\* as they were when it read them.
Basis(s, f) ==
    IF sess[s].read.f = f THEN sess[s].read ELSE [f |-> f, l |-> order[f], fs |-> files[f]]

\* The UID lists it can make of that: unknown messages follow in order of
\* modification time, which is any order.
Listings(b) ==
    {Keeping(b.l, BasesOf(b.fs)) \o q : q \in Orders(BasesOf(b.fs) \ RangeOf(b.l))}

\* It writes its list when it has given out a UID, over whatever is there.
Dirty(b) == ~(BasesOf(b.fs) \subseteq RangeOf(b.l))
Relisted(b, l) == [order EXCEPT ![b.f] = IF Dirty(b) THEN l ELSE @]

\* Refresh of f can run, or end if it has begun: a list is not written into a
\* folder that is gone.
CanRefresh(s, f) ==
    sess[s].read \in {NoRead, Basis(s, f)} /\ (Dirty(Basis(s, f)) => f \in there)

\* Nobody came in between, or nothing that matters: the files are still
\* there, and the list that is there, or is written over it, only adds to the
\* end of the other.
Agrees(b, l) ==
    LET now == Keeping(order[b.f], BasesOf(files[b.f]))
    IN /\ b.fs \subseteq files[b.f]
       /\ IF Dirty(b) THEN StartsWith(l, now) ELSE StartsWith(now, l)

\* The messages Refresh installs: the files found, by UID.
ViewOf(l, Fs) == [i \in DOMAIN l |-> CHOOSE x \in Fs : x.base = l[i]]

Numbers(view) == [i \in DOMAIN view |-> view[i].base]

\* Deliver and, for APPEND and COPY with flags, the rename into cur/.
Stored(fl) == [base |-> born + 1, sub |-> IF fl = {} THEN "new" ELSE "cur", fl |-> fl]

\* SetFlags renames from the name the snapshot holds, to one in cur/.  When
\* the name stays the same nothing is touched and nothing can fail.
NameOf(e, fl) == [base |-> e.base, sub |-> "cur", fl |-> fl]

\* Seeded fault: the file is found by its base name, whatever flags it has.
FindsBase(Fs, e) == {x \in Fs : x.base = e.base}

\* The file an entry of a snapshot leads to: the one of that very name.
Finds(Fs, e) == Fs \cap {FileOf(e)}

CanRename(Fs, e, fl) == NameOf(e, fl) = FileOf(e) \/ Finds(Fs, e) # {}
Renamed(Fs, e, fl) ==
    IF Finds(Fs, e) = {} THEN Fs ELSE (Fs \ Finds(Fs, e)) \cup {NameOf(e, fl)}
Flagged(view, e, fl) ==
    [i \in DOMAIN view |-> IF view[i].base = e.base THEN NameOf(e, fl) ELSE view[i]]

\* Expunge: the entries the snapshot flags Deleted; a file that is not there
\* under its name is as good as removed.
Condemned(view) == {e \in RangeOf(view) : Deleted \in e.fl}
Removed(Fs, D) == Fs \ UNION {Finds(Fs, e) : e \in D}
Remaining(view) == Keeping(view, RangeOf(view) \ Condemned(view))

-----------------------------------------------------------------------------
(***************************************************************************)
(* What the clients make of the responses                                  *)
(***************************************************************************)
RemoveAt(q, i) == SubSeq(q, 1, i - 1) \o SubSeq(q, i + 1, Len(q))

\* Seeded fault: the responses go out lowest first.
ExpungeOrderUp(n, len) == n

\* The n-th number Expunge looks at when it answers: the highest first.
ExpungeOrder(n, len) == len + 1 - n

\* The client hears "* k EXPUNGE" for every k that is gone.
HeardExpunges(t, gone) ==
    LET H[n \in 0..Len(t)] ==
        IF n = 0 THEN t
        ELSE LET k == ExpungeOrder(n, Len(t))
             IN IF k \in gone /\ k <= Len(H[n - 1]) THEN RemoveAt(H[n - 1], k) ELSE H[n - 1]
    IN IF t = Lost THEN Lost ELSE H[Len(t)]

\* "* n EXISTS": what is past the numbers it knows is new.
HeardExists(t, view) ==
    IF t = Lost THEN Lost
    ELSE IF Len(view) < Len(t) THEN SubSeq(t, 1, Len(view))
    ELSE t \o SubSeq(Numbers(view), Len(t) + 1, Len(view))

\* The client of s knows t from now on; the clients in D lose track.
Tell(s, t, D) == told' = [c \in Sessions |-> IF c \in D THEN Lost ELSE IF c = s THEN t ELSE told[c]]

\* The other sessions on folder f, when a file of it is not what it was.
Disturbed(s, f) ==
    {t \in Sessions \ {s} : sess[t].sel = f /\ ~(files[f] \subseteq files'[f])}

\* The sessions on its folder, when a Refresh was overtaken by another.
Clash(b, l) == IF Agrees(b, l) THEN {} ELSE {t \in Sessions : sess'[t].sel = b.f}

-----------------------------------------------------------------------------
(***************************************************************************)
(* Connections (session.go run, cmdStartTLS, cmdLogin, cmdAuthenticate)    *)
(***************************************************************************)
\* On 143 in the clear, on 993 under TLS from the start.
Connect(s, tls) ==
    /\ sess[s].st = "off"
    /\ Set(s, [Off EXCEPT !.st = "notauth", !.tls = tls])
    /\ UNCHANGED <<diskVars, events, told, doomed, copied>>

StartTLS(s) ==
    /\ Ready(s) /\ ~sess[s].tls
    /\ Set(s, [sess[s] EXCEPT !.tls = TRUE])
    /\ UNCHANGED <<diskVars, events, told, doomed, copied>>

\* LOGIN and AUTHENTICATE, with the right password.
Login(s) ==
    /\ Ready(s) /\ sess[s].tls /\ sess[s].st = "notauth"
    /\ Set(s, [sess[s] EXCEPT !.st = "auth"])
    /\ UNCHANGED <<diskVars, events, told, doomed, copied>>

\* LOGOUT, or the connection is lost between two commands.
Logout(s) ==
    /\ Ready(s)
    /\ Set(s, Off)
    /\ Tell(s, <<>>, {})
    /\ UNCHANGED <<diskVars, events, doomed, copied>>

-----------------------------------------------------------------------------
(***************************************************************************)
(* Mailboxes (session.go cmdSelect, cmdStatus, cmdSubscribe, cmdCreate,    *)
(* cmdDelete, cmdClose, cmdExpunge, cmdAppend, pollAndReport)              *)
(***************************************************************************)
\* Refresh has read the list and the directories, and other sessions act
\* before it goes on.
StartRefresh(s, f) ==
    /\ f \in there
    /\ sess[s].st \in {"auth", "selected"} /\ sess[s].read = NoRead
    /\ sess[s].op = NoOp \/ (sess[s].op.k \in {"append", "report", "list"} /\ sess[s].op.dst = f)
    /\ Event
    /\ Set(s, [sess[s] EXCEPT !.read = Basis(s, f)])
    /\ UNCHANGED <<diskVars, told, doomed, copied>>

\* OpenMailbox creates the folder when it is missing, and reads it.
Opens(s, f, l) ==
    /\ sess[s].st \in {"auth", "selected"} /\ sess[s].op = NoOp /\ CanRefresh(s, f)
    /\ there' = there \cup (IF sess[s].read = NoRead THEN {f} ELSE {})
    /\ order' = Relisted(Basis(s, f), l)

Select(s, f, examine) ==
    LET b == Basis(s, f)
    IN /\ \E l \in Listings(b) :
            /\ Opens(s, f, l)
            /\ Set(s, [sess[s] EXCEPT !.st = "selected", !.sel = f, !.ro = examine,
                                      !.view = ViewOf(l, b.fs), !.read = NoRead])
            /\ Tell(s, l, Clash(b, l))
       /\ UNCHANGED <<files, born, events, doomed, copied>>

\* STATUS and SUBSCRIBE open the folder, when that changes anything, and drop
\* the object.
Probe(s, f) ==
    LET b == Basis(s, f)
    IN /\ f \notin there \/ Dirty(b) \/ sess[s].read # NoRead
       /\ \E l \in Listings(b) :
            /\ Opens(s, f, l)
            /\ Set(s, [sess[s] EXCEPT !.read = NoRead])
            /\ Tell(s, told[s], Clash(b, l))
       /\ UNCHANGED <<files, born, events, doomed, copied>>

CreateFolder(s, f) ==
    /\ Authed(s)
    /\ f # Inbox /\ f \notin there
    /\ there' = there \cup {f}
    /\ UNCHANGED <<files, order, born, sess, events, told, doomed, copied>>

\* The observations are of files that are still there.
Forget(f) ==
    LET gone == BasesOf(files[f]) \ BasesOf(files'[f])
    IN doomed' = doomed \ gone /\ copied' = copied \ gone

\* RemoveAll: messages, UID list and all, under whoever has it selected.
DeleteFolder(s, f) ==
    /\ Authed(s)
    /\ f # Inbox /\ f \in there
    /\ there' = there \ {f}
    /\ files' = [files EXCEPT ![f] = {}]
    /\ order' = [order EXCEPT ![f] = <<>>]
    /\ Forget(f)
    /\ Tell(s, told[s], {t \in Sessions : sess[t].sel = f})
    /\ UNCHANGED <<born, sess, events>>

\* Expunge of the selected mailbox: the session is left as r, its client with t.
Expunges(s, r, t) ==
    LET f == sess[s].sel
    IN /\ files' = [files EXCEPT ![f] = Removed(@, Condemned(sess[s].view))]
       /\ Forget(f)
       /\ Set(s, r)
       /\ Tell(s, t, Disturbed(s, f))
       /\ UNCHANGED <<there, order, born, events>>

\* Expunge gives up at a removal that fails: the files before it are gone,
\* and the view still lists them.
ExpungeStops(s, r, t) ==
    LET v == sess[s].view
        f == sess[s].sel
    IN /\ Condemned(v) # {}
       /\ Event
       /\ \E i \in 0..(Len(v) - 1) :
            files' = [files EXCEPT ![f] = Removed(@, Condemned(SubSeq(v, 1, i)))]
       /\ Forget(f)
       /\ Set(s, r)
       /\ Tell(s, t, Disturbed(s, f))
       /\ UNCHANGED <<there, order, born>>

Unselected(r) == [r EXCEPT !.st = "auth", !.sel = "", !.ro = FALSE, !.view = <<>>]

ClosesWithExpunge(s) == ~sess[s].ro

\* CLOSE expunges without a response, and closes whether that worked or not.
Close(s) ==
    /\ Selected(s)
    /\ IF ClosesWithExpunge(s)
       THEN \/ Expunges(s, Unselected(sess[s]), <<>>)
            \/ ExpungeStops(s, Unselected(sess[s]), <<>>)
       ELSE /\ Set(s, Unselected(sess[s]))
            /\ Tell(s, <<>>, {})
            /\ UNCHANGED <<diskVars, events, doomed, copied>>

Unselect(s) ==
    /\ Selected(s)
    /\ Set(s, Unselected(sess[s]))
    /\ Tell(s, <<>>, {})
    /\ UNCHANGED <<diskVars, events, doomed, copied>>

\* The EXPUNGE command, UID EXPUNGE (which ignores its set), and the end of a
\* MOVE.
ExpungeAndReport(s) ==
    LET r == [sess[s] EXCEPT !.op = NoOp]
        gone == {i \in DOMAIN r.view : Deleted \in r.view[i].fl}
    IN \/ Expunges(s, [r EXCEPT !.view = Remaining(@)], HeardExpunges(told[s], gone))
       \/ ExpungeStops(s, r, Lost)

Expunge(s) == Selected(s) /\ ~sess[s].ro /\ ExpungeAndReport(s)

\* A message is stored in dst; the session goes on at op.
Stores(s, dst, fl, op) ==
    /\ born < MaxFiles
    /\ born' = born + 1
    /\ files' = [files EXCEPT ![dst] = @ \cup {Stored(fl)}]
    /\ there' = there \cup {dst}
    /\ Set(s, [sess[s] EXCEPT !.op = op])
    /\ UNCHANGED <<order, told>>

\* APPEND opens the folder, which is a Probe when it has anything to list, and
\* stores the message ...
AppendMessage(s, f, fl) ==
    /\ Authed(s)
    /\ Event
    /\ Stores(s, f, fl, [k |-> "append", todo |-> <<>>, all |-> <<>>, dst |-> f])
    /\ UNCHANGED <<doomed, copied>>

\* ... reads the folder again, and goes on when it is the selected one.
AppendLists(s) ==
    LET f == sess[s].op.dst
        b == Basis(s, f)
    IN /\ sess[s].op.k = "append" /\ CanRefresh(s, f)
       /\ \E l \in Listings(b) :
            /\ order' = Relisted(b, l)
            /\ Set(s, [sess[s] EXCEPT !.op = IF sess[s].sel = f THEN [@ EXCEPT !.k = "report"] ELSE NoOp,
                                      !.read = NoRead])
            /\ Tell(s, told[s], Clash(b, l))
       /\ UNCHANGED <<there, files, born, events, doomed, copied>>

\* The UID list cannot be written: the command ends there with NO, and a
\* message it has stored stays.
ListFails(s) ==
    LET op == sess[s].op
    IN /\ op.k # "report"
       /\ IF sess[s].read # NoRead THEN Dirty(sess[s].read) /\ UNCHANGED events
          ELSE op.k \in {"append", "list"} /\ Dirty(Basis(s, op.dst)) /\ Event
       /\ Set(s, [sess[s] EXCEPT !.op = NoOp, !.read = NoRead])
       /\ UNCHANGED <<diskVars, told, doomed, copied>>

\* The session's own view is read again: EXISTS when the count changed, and at
\* the end of APPEND whether it did or not.
Rereads(s) ==
    LET f == sess[s].sel
        b == Basis(s, f)
    IN /\ sess[s].read \in {NoRead, b}
       /\ \E l \in Listings(b) :
            LET v == ViewOf(l, b.fs)
            IN /\ Set(s, [sess[s] EXCEPT !.view = v, !.op = NoOp, !.read = NoRead])
               /\ \/ /\ CanRefresh(s, f)
                     /\ order' = Relisted(b, l)
                     /\ Tell(s, IF sess[s].op = NoOp /\ Len(v) = Len(sess[s].view) THEN told[s]
                                ELSE HeardExists(told[s], v), Clash(b, l))
                     /\ UNCHANGED events
                  \* The list cannot be written.  The view is in place already;
                  \* pollAndReport keeps quiet about it, APPEND does not notice.
                  \/ /\ Dirty(b)
                     /\ IF f \in there THEN Event ELSE UNCHANGED events
                     /\ Tell(s, Lost, {})
                     /\ UNCHANGED order
       /\ UNCHANGED <<there, files, born, doomed, copied>>

\* NOOP, and each tick of IDLE.
Poll(s) == sess[s].st = "selected" /\ sess[s].op = NoOp /\ Rereads(s)

AppendReports(s) == sess[s].op.k = "report" /\ Rereads(s)

-----------------------------------------------------------------------------
(***************************************************************************)
(* Messages (fetch.go cmdFetch, cmdStore, cmdCopyMove)                     *)
(***************************************************************************)
\* The items that fetch a body without peeking set \Seen (fetchItems).
MarksSeen(items) == items \cap {"RFC822", "RFC822.TEXT", "BODY[]"} # {}

Wanted(e, mode, fl) ==
    CASE mode = "FLAGS"  -> fl
      [] mode = "+FLAGS" -> e.fl \cup fl
      [] mode = "-FLAGS" -> e.fl \ fl

\* SetFlags of the entry e, after which the session is at op.  A rename that
\* fails leaves everything as it was.
SetFlags(s, e, fl, op) ==
    LET f == sess[s].sel
    IN /\ CanRename(files[f], e, fl)
       /\ files' = [files EXCEPT ![f] = Renamed(@, e, fl)]
       /\ Set(s, [sess[s] EXCEPT !.view = Flagged(@, e, fl), !.op = op])
       /\ Tell(s, told[s], Disturbed(s, f))
       /\ UNCHANGED <<there, order, born>>

\* A message of a FETCH that does not peek is marked read.
Fetch(s, e, items) ==
    /\ Selected(s) /\ ~sess[s].ro
    /\ MarksSeen(items) /\ Seen \notin e.fl
    /\ SetFlags(s, e, e.fl \cup {Seen}, NoOp)
    /\ Event
    /\ UNCHANGED <<doomed, copied>>

\* A message of a STORE.  One that fails is logged and skipped, and the
\* command answers OK all the same.
Store(s, e, mode, fl) ==
    LET next == Wanted(e, mode, fl)
    IN /\ Selected(s) /\ ~sess[s].ro
       /\ SetFlags(s, e, next, NoOp)
       /\ Event
       /\ doomed' = IF files' = files THEN doomed
                    ELSE IF Deleted \in next THEN doomed \cup {e.base} ELSE doomed \ {e.base}
       /\ UNCHANGED copied

\* CopyTo: read the file under the name the view has, store it with its flags
\* in the destination ...
CopyTo(s, e, dst, op) ==
    Finds(files[sess[s].sel], e) # {} /\ Stores(s, dst, e.fl, op)

CopyDooms(e) == IF Deleted \in e.fl THEN {born + 1} ELSE {}

\* A message of a COPY, of the destination cmdCopyMove has just opened.
Copy(s, e, dst) ==
    /\ Selected(s)
    /\ CopyTo(s, e, dst, [k |-> "list", todo |-> <<>>, all |-> <<>>, dst |-> dst])
    /\ Event
    /\ doomed' = doomed \cup CopyDooms(e)
    /\ UNCHANGED copied

\* What s.selected can return: a run of consecutive entries.
Runs(view) == {<<>>} \cup {Numbers(SubSeq(view, p[1], p[2])) :
                             p \in {q \in (DOMAIN view) \X (DOMAIN view) : q[1] <= q[2]}}

\* MOVE opens the destination first, even for a mailbox it then refuses.
Move(s, run, dst) ==
    LET b == Basis(s, dst)
        r == [sess[s] EXCEPT !.read = NoRead]
    IN /\ sess[s].st = "selected"
       /\ \E l \in Listings(b) :
            /\ Opens(s, dst, l)
            /\ IF sess[s].ro THEN Set(s, r)
               ELSE Set(s, [r EXCEPT !.op = [k |-> IF run = <<>> THEN "flag" ELSE "copy",
                                             todo |-> run, all |-> run, dst |-> dst]])
            /\ Tell(s, told[s], Clash(b, l))
       /\ Event
       /\ UNCHANGED <<files, born, doomed, copied>>

Current(s) == CHOOSE e \in RangeOf(sess[s].view) : e.base = Head(sess[s].op.todo)

MoveCopy(s) ==
    LET op == sess[s].op
    IN /\ op.k = "copy"
       /\ CopyTo(s, Current(s), op.dst, [op EXCEPT !.k = "list"])
       /\ doomed' = doomed \cup CopyDooms(Current(s))
       /\ copied' = copied \cup {Current(s).base}
       /\ UNCHANGED events

\* After a message is copied: the next one, or the flags.
AfterCopy(op) ==
    IF Len(op.todo) > 1 THEN [op EXCEPT !.k = "copy", !.todo = Tail(@)]
    ELSE [op EXCEPT !.k = "flag", !.todo = op.all]

\* ... and read the destination again; then COPY is done with the message, and
\* MOVE goes on.
CopyLists(s) ==
    LET op == sess[s].op
        b == Basis(s, op.dst)
    IN /\ op.k = "list" /\ CanRefresh(s, op.dst)
       /\ \E l \in Listings(b) :
            /\ order' = Relisted(b, l)
            /\ Set(s, [sess[s] EXCEPT !.op = IF op.todo = <<>> THEN NoOp ELSE AfterCopy(op),
                                      !.read = NoRead])
            /\ Tell(s, told[s], Clash(b, l))
       /\ UNCHANGED <<there, files, born, events, doomed, copied>>

\* Seeded fault: a copy that fails is logged, and the command goes on.
AfterFailureGoesOn(op) == AfterCopy(op)

\* "NO MOVE failed": the command ends, and no source is flagged.
AfterFailure(op) == NoOp

\* The file has another name by now, or the disk is full.
MoveCopyFails(s) ==
    /\ sess[s].op.k = "copy"
    /\ Finds(files[sess[s].sel], Current(s)) = {} \/ born = MaxFiles
    /\ Set(s, [sess[s] EXCEPT !.op = AfterFailure(@)])
    /\ UNCHANGED <<diskVars, events, told, doomed, copied>>

\* MOVE flags its sources Deleted ...
MoveFlag(s) ==
    LET op == sess[s].op
    IN /\ op.k = "flag" /\ op.todo # <<>>
       /\ SetFlags(s, Current(s), Current(s).fl \cup {Deleted}, [op EXCEPT !.todo = Tail(@)])
       /\ UNCHANGED <<events, doomed, copied>>

MoveFlagFails(s) ==
    /\ sess[s].op.k = "flag" /\ sess[s].op.todo # <<>>
    /\ ~CanRename(files[sess[s].sel], Current(s), Current(s).fl \cup {Deleted})
    /\ Set(s, [sess[s] EXCEPT !.op = NoOp])
    /\ UNCHANGED <<diskVars, events, told, doomed, copied>>

\* ... and expunges whatever the view flags Deleted, the sources among it.
MoveExpunge(s) ==
    /\ sess[s].op.k = "flag" /\ sess[s].op.todo = <<>>
    /\ ExpungeAndReport(s)

-----------------------------------------------------------------------------
\* The SMTP server delivers into INBOX meanwhile.
Deliver ==
    /\ born < MaxFiles
    /\ born' = born + 1
    /\ files' = [files EXCEPT ![Inbox] = @ \cup {Stored({})}]
    /\ UNCHANGED <<there, order, sess, events, told, doomed, copied>>

\* The process dies in the middle of a command; elsewhere it is a Logout of all.
Crash ==
    /\ \E s \in Sessions : sess[s].op # NoOp \/ sess[s].read # NoRead
    /\ Event
    /\ sess' = [s \in Sessions |-> Off]
    /\ told' = [s \in Sessions |-> <<>>]
    /\ UNCHANGED <<diskVars, doomed, copied>>

Next ==
    \/ Deliver \/ Crash
    \/ \E s \in Sessions :
        \/ \E tls \in BOOLEAN : Connect(s, tls)
        \/ Select(s, Inbox, TRUE)
        \/ StartTLS(s) \/ Login(s) \/ Logout(s)
        \/ Close(s) \/ Unselect(s) \/ Expunge(s) \/ Poll(s)
        \/ AppendLists(s) \/ AppendReports(s) \/ CopyLists(s) \/ ListFails(s)
        \/ MoveCopy(s) \/ MoveCopyFails(s) \/ MoveFlag(s) \/ MoveFlagFails(s) \/ MoveExpunge(s)
        \/ \E f \in Folders :
            \/ Select(s, f, FALSE) \/ StartRefresh(s, f)
            \/ Probe(s, f) \/ CreateFolder(s, f) \/ DeleteFolder(s, f)
            \/ AppendMessage(s, f, {Seen})
        \/ \E e \in RangeOf(sess[s].view) :
            \/ \E i \in {"BODY[]", "BODY.PEEK[]"} : Fetch(s, e, {i})
            \/ \E mode \in {"+FLAGS", "-FLAGS"} : Store(s, e, mode, {Deleted})
            \/ Store(s, e, "FLAGS", {})
            \/ \E dst \in Folders : Copy(s, e, dst)
        \/ \E run \in Runs(sess[s].view), dst \in Folders : Move(s, run, dst)

Spec == Init /\ [][Next]_vars

\* No session is special.
Interchangeable == Permutations(Sessions)

-----------------------------------------------------------------------------
(***************************************************************************)
(* Properties                                                              *)
(***************************************************************************)
Files == [base : Bases, sub : {"new", "cur"}, fl : SUBSET {Seen, Deleted}]

\* The shape of the folders and of the sessions.
TypeOK ==
    /\ files \in [Folders -> SUBSET Files]
    /\ \A f \in Folders \ there : files[f] = {}
    /\ \A s \in Sessions :
        /\ RangeOf(sess[s].view) \subseteq Files
        /\ sess[s].op.k \in {"report", "copy", "flag"} => sess[s].st = "selected"

\* As long as other sessions only add mail, no file operation fails and no two
\* Refreshes clash (a Refresh, which takes no lock, ends on a list or on files
\* that another session has changed since it read them), the client's numbers
\* mean the messages the session's numbers mean, whatever it expunges, moves,
\* appends and polls in between (cmdExpunge, cmdAppend, pollAndReport; Expunge:
\* "the order IMAP clients expect").
NumberingAgrees ==
    \A s \in Sessions :
        sess[s].st = "selected" /\ told[s] # Lost => told[s] = Numbers(sess[s].view)

\* A message file disappears only while its name says Deleted, because a
\* client set that flag and nobody took it back, or because a MOVE stored a
\* copy first, and never by the hand of a session that opened the mailbox with
\* EXAMINE; otherwise its folder is deleted (Expunge, cmdCopyMove, cmdClose).
RemovalsAskedFor ==
    [][\A f \in Folders \cap there' : \A x \in files[f] \ files'[f] :
        \/ x.base \in BasesOf(files'[f])
        \/ /\ Deleted \in x.fl /\ x.base \in doomed \cup copied
           /\ \A s \in Sessions :
                sess'[s] # sess[s] /\ sess[s].sel = f => ~sess[s].ro]_vars

\* No lost update: a flag goes from a file only by the hand of a session whose
\* snapshot shows the file as it is, that flag included (SetFlags).
FlagsNotLost ==
    [][\A f \in Folders : \A x \in files[f] \ files'[f] :
        (\E y \in files'[f] : x.base = y.base /\ ~(x.fl \subseteq y.fl)) =>
            \E s \in Sessions : sess'[s] # sess[s] /\ x \in RangeOf(sess[s].view)]_vars
=============================================================================
