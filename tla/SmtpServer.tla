----------------------------- MODULE SmtpServer -----------------------------
(***************************************************************************)
(* The SMTP server, internal/smtp: connections on the inbound port (25)    *)
(* and on the submission ports (587, and 465 with TLS from byte one), each *)
(* a session goroutine, over the Backend the daemon supplies               *)
(* (cmd/kavira/main.go).  SIGHUP swaps the hosted domains and the settings *)
(* under running sessions.                                                 *)
(*                                                                         *)
(* An address stands for a user at a domain of its own; hosted says whose  *)
(* domains are local.  A command that is refused and changes nothing is no *)
(* step.  A transaction is numbered by its accepted MAIL command.          *)
(***************************************************************************)
EXTENDS Integers, Sequences, FiniteSets, SequencesExt

CONSTANTS
    Conns,      \* connections
    Workers,    \* size of the session semaphore
    Addrs,      \* addresses clients name
    Limits,     \* values of max_recipients across reloads
    MaxTx,      \* bound: transactions begun
    MaxReloads, \* bound: configuration reloads
    MaxFaults   \* bound: crashes and failed backend calls

ASSUME SmtpAssumption ==
    /\ Workers \in Nat \ {0}
    /\ Limits # {} /\ Limits \subseteq Nat \ {0}
    /\ MaxTx \in Nat
    /\ MaxReloads \in Nat
    /\ MaxFaults \in Nat

None   == "none"   \* no user, no MAIL command yet
NullPath == "null" \* the null reverse-path of bounces

ASSUME AddrAssumption == None \notin Addrs /\ NullPath \notin Addrs

VARIABLES
    \* sessions
    pc,       \* closed, command, body (354 was sent), deliver
    mode, tls, helo, authed, from,
    rcpts,    \* accepted recipients: address, remote or local
    tx,       \* the transaction (0: none)
    spam,     \* the running message goes to the Spam folder
    todo,     \* recipients cmdData has still to serve
    got,      \* accepted, the counter of cmdData
    \* configuration
    hosted,   \* addresses whose domain is hosted here
    limit,    \* Settings.MaxRecipients
    \* the rest of the world
    txs, reloads, faults,
    \* observations, by transaction
    allowed,  \* recipients answered 250
    copies,   \* recipients that have the message: <<address, place>>
    failed,   \* recipients whose store or enqueue failed
    verdict,  \* what Screen said
    reply,    \* the answer to DATA
    relayed   \* how messages came to the outbound queue

sessionVars == <<pc, mode, tls, helo, authed, from, rcpts, tx, spam, todo, got>>
configVars  == <<hosted, limit>>
boundVars   == <<txs, reloads, faults>>
obsVars     == <<allowed, copies, failed, verdict, reply, relayed>>
vars == <<sessionVars, configVars, boundVars, obsVars>>

Txs == 1..MaxTx

Init ==
    /\ pc = [c \in Conns |-> "closed"]
    /\ mode = [c \in Conns |-> "inbound"]
    /\ tls = [c \in Conns |-> FALSE]
    /\ helo = [c \in Conns |-> FALSE]
    /\ authed = [c \in Conns |-> None]
    /\ from = [c \in Conns |-> None]
    /\ rcpts = [c \in Conns |-> <<>>]
    /\ tx = [c \in Conns |-> 0]
    /\ spam = [c \in Conns |-> FALSE]
    /\ todo = [c \in Conns |-> <<>>]
    /\ got = [c \in Conns |-> 0]
    /\ hosted \in SUBSET Addrs
    /\ limit \in Limits
    /\ txs = 0
    /\ reloads = MaxReloads
    /\ faults = MaxFaults
    /\ allowed = [t \in Txs |-> {}]
    /\ copies = [t \in Txs |-> {}]
    /\ failed = [t \in Txs |-> {}]
    /\ verdict = [t \in Txs |-> "none"]
    /\ reply = [t \in Txs |-> 0]
    /\ relayed = {}

Fault == faults > 0 /\ faults' = faults - 1

-----------------------------------------------------------------------------
(***************************************************************************)
(* server.go Serve and newSession                                          *)
(***************************************************************************)
Running == {c \in Conns : pc[c] # "closed"}

\* The connection takes a slot of the semaphore; when none is free, or the
\* address is over its connection rate, it is turned away with 421.
Accept(c, m, implicitTLS) ==
    /\ pc[c] = "closed"
    /\ Cardinality(Running) < Workers
    /\ implicitTLS => m = "submission"
    /\ pc' = [pc EXCEPT ![c] = "command"]
    /\ mode' = [mode EXCEPT ![c] = m]
    /\ tls' = [tls EXCEPT ![c] = implicitTLS]
    /\ UNCHANGED <<helo, authed, from, rcpts, tx, spam, todo, got,
                   configVars, boundVars, obsVars>>

\* The session ends: QUIT, a client that is gone, a read past its deadline,
\* a failed handshake, the message rate limit (421).
Close(c) ==
    /\ pc[c] \in {"command", "body"}
    /\ pc' = [pc EXCEPT ![c] = "closed"]
    /\ mode' = [mode EXCEPT ![c] = "inbound"]
    /\ tls' = [tls EXCEPT ![c] = FALSE]
    /\ helo' = [helo EXCEPT ![c] = FALSE]
    /\ authed' = [authed EXCEPT ![c] = None]
    /\ from' = [from EXCEPT ![c] = None]
    /\ rcpts' = [rcpts EXCEPT ![c] = <<>>]
    /\ tx' = [tx EXCEPT ![c] = 0]
    /\ UNCHANGED <<spam, todo, got, configVars, boundVars, obsVars>>

-----------------------------------------------------------------------------
(***************************************************************************)
(* session.go, one action per command                                      *)
(***************************************************************************)

\* Seeded fault: the recipients outlive the transaction.
ResetKeepsRcpts(c) ==
    /\ from' = [from EXCEPT ![c] = None]
    /\ tx' = [tx EXCEPT ![c] = 0]
    /\ UNCHANGED rcpts

ResetTransaction(c) ==
    /\ from' = [from EXCEPT ![c] = None]
    /\ rcpts' = [rcpts EXCEPT ![c] = <<>>]
    /\ tx' = [tx EXCEPT ![c] = 0]

Helo(c) ==
    /\ pc[c] = "command"
    /\ helo' = [helo EXCEPT ![c] = TRUE]
    /\ ResetTransaction(c)
    /\ UNCHANGED <<pc, mode, tls, authed, spam, todo, got,
                   configVars, boundVars, obsVars>>

Rset(c) ==
    /\ pc[c] = "command"
    /\ ResetTransaction(c)
    /\ UNCHANGED <<pc, mode, tls, helo, authed, spam, todo, got,
                   configVars, boundVars, obsVars>>

\* The protocol state starts over after the handshake.
StartTLS(c) ==
    /\ pc[c] = "command"
    /\ ~tls[c]
    /\ tls' = [tls EXCEPT ![c] = TRUE]
    /\ helo' = [helo EXCEPT ![c] = FALSE]
    /\ ResetTransaction(c)
    /\ UNCHANGED <<pc, mode, authed, spam, todo, got,
                   configVars, boundVars, obsVars>>

\* Seeded fault: AUTH in the clear.
AuthInClear(c, u) ==
    /\ pc[c] = "command"
    /\ mode[c] = "submission"
    /\ authed[c] = None
    /\ u \in hosted
    /\ authed' = [authed EXCEPT ![c] = u]
    /\ UNCHANGED <<pc, mode, tls, helo, from, rcpts, tx, spam, todo,
                   got, configVars, boundVars, obsVars>>

\* AUTH PLAIN or LOGIN with credentials Verify accepts, for an account of
\* the configuration.
Auth(c, u) ==
    /\ pc[c] = "command"
    /\ mode[c] = "submission"
    /\ tls[c]
    /\ authed[c] = None
    /\ u \in hosted
    /\ authed' = [authed EXCEPT ![c] = u]
    /\ UNCHANGED <<pc, mode, tls, helo, from, rcpts, tx, spam, todo,
                   got, configVars, boundVars, obsVars>>

\* MAIL: on submission the reverse-path is the authenticated user's.
Mail(c, f) ==
    /\ pc[c] = "command"
    /\ helo[c]
    /\ from[c] = None
    /\ mode[c] = "submission" => authed[c] # None /\ f = authed[c]
    /\ txs < MaxTx
    /\ txs' = txs + 1
    /\ from' = [from EXCEPT ![c] = f]
    /\ tx' = [tx EXCEPT ![c] = txs + 1]
    /\ UNCHANGED <<pc, mode, tls, helo, authed, rcpts, spam, todo, got,
                   configVars, reloads, faults, obsVars>>

\* Seeded fault: the local check is forgotten on port 25.
RcptAnywhere(c, a) ==
    /\ pc[c] = "command"
    /\ from[c] # None
    /\ Len(rcpts[c]) < limit
    /\ rcpts' = [rcpts EXCEPT ![c] = Append(@, [addr |-> a, remote |-> a \notin hosted])]
    /\ allowed' = [allowed EXCEPT ![tx[c]] = @ \cup {a}]
    /\ UNCHANGED <<pc, mode, tls, helo, authed, from, tx, spam, todo,
                   got, configVars, boundVars, copies, failed, verdict, reply, relayed>>

\* RCPT: a hosted domain's mailbox, which is resolved now, or on submission
\* any other domain.  Lookup's 550 and the rate limits' 452 change nothing.
Rcpt(c, a) ==
    /\ pc[c] = "command"
    /\ from[c] # None
    /\ Len(rcpts[c]) < limit
    /\ mode[c] = "inbound" => a \in hosted
    /\ rcpts' = [rcpts EXCEPT ![c] = Append(@, [addr |-> a, remote |-> a \notin hosted])]
    /\ allowed' = [allowed EXCEPT ![tx[c]] = @ \cup {a}]
    /\ UNCHANGED <<pc, mode, tls, helo, authed, from, tx, spam, todo,
                   got, configVars, boundVars, copies, failed, verdict, reply, relayed>>

\* DATA, past the rate limits and MaySend: 354.
Data(c) ==
    /\ pc[c] = "command"
    /\ rcpts[c] # <<>>
    /\ pc' = [pc EXCEPT ![c] = "body"]
    /\ UNCHANGED <<mode, tls, helo, authed, from, rcpts, tx, spam, todo,
                   got, configVars, boundVars, obsVars>>

\* The answer to DATA, after which the session is back at commands.
Answer(c, code) ==
    /\ pc' = [pc EXCEPT ![c] = "command"]
    /\ reply' = [reply EXCEPT ![tx[c]] = code]
    /\ ResetTransaction(c)

\* The message is longer than max_size: drained and refused.
BodyTooBig(c) ==
    /\ pc[c] = "body"
    /\ Answer(c, 552)
    /\ UNCHANGED <<mode, tls, helo, authed, spam, todo, got, configVars,
                   boundVars, allowed, copies, failed, verdict, relayed>>

\* Screen rejects the message (DMARC, blacklist, virus, attachment, score).
ScreenReject(c) ==
    /\ pc[c] = "body"
    /\ mode[c] = "inbound"
    /\ Answer(c, 550)
    /\ verdict' = [verdict EXCEPT ![tx[c]] = "reject"]
    /\ UNCHANGED <<mode, tls, helo, authed, spam, todo, got, configVars,
                   boundVars, allowed, copies, failed, relayed>>

\* The message passes, on port 25 with Screen's verdict; submission is not
\* screened.  Received is added, and on submission a DKIM signature.
Pass(c, v) ==
    /\ pc[c] = "body"
    /\ v = "quarantine" => mode[c] = "inbound"
    /\ verdict' = [verdict EXCEPT ![tx[c]] = IF mode[c] = "inbound" THEN v ELSE "none"]
    /\ spam' = [spam EXCEPT ![c] = v = "quarantine"]
    /\ pc' = [pc EXCEPT ![c] = "deliver"]
    /\ todo' = [todo EXCEPT ![c] = rcpts[c]]
    /\ UNCHANGED <<mode, tls, helo, authed, from, rcpts, tx, got,
                   configVars, boundVars, allowed, copies, failed, reply, relayed>>

Place(c, r) ==
    IF r.remote THEN "queue" ELSE IF spam[c] THEN "spam" ELSE "inbox"

\* Enqueue for a remote recipient, Deliver for a mailbox.
Serve(c) ==
    LET r == Head(todo[c])
    IN /\ pc[c] = "deliver"
       /\ todo[c] # <<>>
       /\ todo' = [todo EXCEPT ![c] = Tail(@)]
       /\ got' = [got EXCEPT ![c] = @ + 1]
       /\ copies' = [copies EXCEPT ![tx[c]] = @ \cup {<<r.addr, Place(c, r)>>}]
       /\ relayed' = IF r.remote
                     THEN relayed \cup {[mode |-> mode[c], tls |-> tls[c],
                                         authed |-> authed[c], from |-> from[c]]}
                     ELSE relayed
       /\ UNCHANGED <<pc, mode, tls, helo, authed, from, rcpts, tx, spam,
                      configVars, boundVars, allowed, failed, verdict, reply>>

\* The backend fails for this recipient: logged, the loop goes on.
ServeFails(c) ==
    /\ pc[c] = "deliver"
    /\ todo[c] # <<>>
    /\ Fault
    /\ todo' = [todo EXCEPT ![c] = Tail(@)]
    /\ failed' = [failed EXCEPT ![tx[c]] = @ \cup {Head(todo[c]).addr}]
    /\ UNCHANGED <<pc, mode, tls, helo, authed, from, rcpts, tx, spam,
                   got, configVars, txs, reloads, allowed, copies, verdict,
                   reply, relayed>>

\* Seeded fault: the answer does not depend on the deliveries.
EndDataAlways250(c) ==
    /\ pc[c] = "deliver"
    /\ todo[c] = <<>>
    /\ Answer(c, 250)
    /\ spam' = [spam EXCEPT ![c] = FALSE]
    /\ got' = [got EXCEPT ![c] = 0]
    /\ UNCHANGED <<mode, tls, helo, authed, todo, configVars, boundVars,
                   allowed, copies, failed, verdict, relayed>>

\* 250 when at least one recipient was served, else 451.
EndData(c) ==
    /\ pc[c] = "deliver"
    /\ todo[c] = <<>>
    /\ Answer(c, IF got[c] = 0 THEN 451 ELSE 250)
    /\ spam' = [spam EXCEPT ![c] = FALSE]
    /\ got' = [got EXCEPT ![c] = 0]
    /\ UNCHANGED <<mode, tls, helo, authed, todo, configVars, boundVars,
                   allowed, copies, failed, verdict, relayed>>

-----------------------------------------------------------------------------
(***************************************************************************)
(* SIGHUP and the death of the process                                     *)
(***************************************************************************)

\* mgr.Reload: the backend sees the new domains at its next call ...
ReloadDomains(H) ==
    /\ reloads > 0
    /\ H # hosted
    /\ reloads' = reloads - 1
    /\ hosted' = H
    /\ UNCHANGED <<sessionVars, limit, txs, faults, obsVars>>

\* ... and Update gives the server new settings.
Update(n) ==
    /\ reloads > 0
    /\ n # limit
    /\ reloads' = reloads - 1
    /\ limit' = n
    /\ UNCHANGED <<sessionVars, hosted, txs, faults, obsVars>>

Crash ==
    /\ Running # {}
    /\ Fault
    /\ pc' = [c \in Conns |-> "closed"]
    /\ mode' = [c \in Conns |-> "inbound"]
    /\ tls' = [c \in Conns |-> FALSE]
    /\ helo' = [c \in Conns |-> FALSE]
    /\ authed' = [c \in Conns |-> None]
    /\ from' = [c \in Conns |-> None]
    /\ rcpts' = [c \in Conns |-> <<>>]
    /\ tx' = [c \in Conns |-> 0]
    /\ spam' = [c \in Conns |-> FALSE]
    /\ todo' = [c \in Conns |-> <<>>]
    /\ got' = [c \in Conns |-> 0]
    /\ UNCHANGED <<configVars, txs, reloads, obsVars>>

Command(c) ==
    \/ \E m \in {"inbound", "submission"}, b \in BOOLEAN : Accept(c, m, b)
    \/ Close(c)
    \/ Helo(c) \/ Rset(c) \/ StartTLS(c)
    \/ \E u \in Addrs : Auth(c, u)
    \/ \E f \in Addrs \cup {NullPath} : Mail(c, f)
    \/ \E a \in Addrs : Rcpt(c, a)
    \/ Data(c)

Message(c) ==
    \/ BodyTooBig(c) \/ ScreenReject(c)
    \/ \E v \in {"accept", "quarantine"} : Pass(c, v)
    \/ Serve(c) \/ ServeFails(c) \/ EndData(c)

Next ==
    \/ \E c \in Conns : Command(c) \/ Message(c)
    \/ \E H \in SUBSET Addrs : ReloadDomains(H)
    \/ \E n \in Limits : Update(n)
    \/ Crash

Spec == Init /\ [][Next]_vars

-----------------------------------------------------------------------------
(***************************************************************************)
(* Properties                                                              *)
(***************************************************************************)
Modes == {"inbound", "submission"}
RcptRecords == [addr : Addrs, remote : BOOLEAN]

\* The shape of the state: a transaction is open exactly while a reverse-path
\* is set, and there are recipients only inside one.
TypeOK ==
    /\ pc \in [Conns -> {"closed", "command", "body", "deliver"}]
    /\ mode \in [Conns -> Modes]
    /\ tls \in [Conns -> BOOLEAN]
    /\ helo \in [Conns -> BOOLEAN]
    /\ authed \in [Conns -> Addrs \cup {None}]
    /\ from \in [Conns -> Addrs \cup {None, NullPath}]
    /\ rcpts \in [Conns -> Seq(RcptRecords)]
    /\ tx \in [Conns -> 0..txs]
    /\ spam \in [Conns -> BOOLEAN]
    /\ todo \in [Conns -> Seq(RcptRecords)]
    /\ got \in [Conns -> Nat]
    /\ hosted \in SUBSET Addrs
    /\ limit \in Limits
    /\ txs \in 0..MaxTx
    /\ allowed \in [Txs -> SUBSET Addrs]
    /\ copies \in [Txs -> SUBSET (Addrs \X {"queue", "spam", "inbox"})]
    /\ failed \in [Txs -> SUBSET Addrs]
    /\ verdict \in [Txs -> {"none", "accept", "quarantine", "reject"}]
    /\ reply \in [Txs -> {0, 250, 451, 550, 552}]
    /\ \A c \in Conns : from[c] # None <=> tx[c] # 0
    /\ \A c \in Conns : rcpts[c] # <<>> => tx[c] # 0

\* "Kavira cannot be configured into an open relay" (README): whatever
\* reloads happen between RCPT and DATA, a message reaches the outbound
\* queue only from a submission session, over TLS, whose reverse-path is
\* the authenticated user.
NoOpenRelay ==
    \A r \in relayed :
        /\ r.mode = "submission"
        /\ r.tls
        /\ r.authed # None
        /\ r.from = r.authed

\* A message reaches only recipients whose RCPT was answered 250 in its own
\* transaction, never one left over from a transaction that RSET, EHLO,
\* STARTTLS, 550, 552 or an earlier DATA ended; and what Screen quarantines
\* reaches their Spam folders only.
OnlyItsRecipients ==
    \A t \in Txs : \A k \in copies[t] :
        /\ k[1] \in allowed[t]
        /\ verdict[t] = "quarantine" => k[2] = "spam"

\* The answer to DATA is about what was stored: 250 says that every accepted
\* recipient was served or its failure logged, and one at least was served;
\* any other answer that no copy exists, so that a retry duplicates nothing.
AnswerIsTruthful ==
    \A t \in Txs :
        /\ reply[t] = 250 => /\ copies[t] # {}
                             /\ allowed[t] = {k[1] : k \in copies[t]} \cup failed[t]
        /\ reply[t] \in {451, 550, 552} => copies[t] = {}
=============================================================================
