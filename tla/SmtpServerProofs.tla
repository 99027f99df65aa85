-------------------------- MODULE SmtpServerProofs --------------------------
(***************************************************************************)
(* The SMTP server for any number of connections, addresses, transactions, *)
(* reloads and faults.                                                     *)
(*                                                                         *)
(* None of the three properties is inductive: what a message did is the    *)
(* end of a transaction whose commands came one by one, while reloads went *)
(* on and other sessions ran.  ServerInv says what a session may hold      *)
(* (SessionOK), how far its transaction is accounted for (TransactionOK),  *)
(* that transactions are not shared, and that those to come are blank.     *)
(***************************************************************************)
EXTENDS SmtpServer, TLAPS

Addresses(q) == {q[i].addr : i \in DOMAIN q}
HasRemote(q) == \E i \in DOMAIN q : q[i].remote = TRUE

\* Who may hold what: a session becomes authenticated on submission over TLS
\* only, its reverse-path is then the user's, and only then it has remote
\* recipients.  Between messages nothing is left of the last one.
SessionOK(c) ==
    /\ pc[c] = "closed" => authed[c] = None /\ from[c] = None
    /\ pc[c] \in {"body", "deliver"} => rcpts[c] # <<>>
    /\ pc[c] # "deliver" => todo[c] = <<>> /\ got[c] = 0 /\ spam[c] = FALSE
    /\ authed[c] # None => mode[c] = "submission" /\ tls[c] = TRUE
    /\ mode[c] = "submission" /\ from[c] # None => authed[c] # None /\ from[c] = authed[c]
    /\ HasRemote(rcpts[c]) \/ HasRemote(todo[c]) => mode[c] = "submission"
    /\ spam[c] = TRUE => mode[c] = "inbound"

\* The open transaction of a session: unanswered; its recipients are the
\* ones allowed; while it is delivered every one of them is still to do, has
\* its copy or failed.
TransactionOK(c) ==
    tx[c] # 0 =>
        /\ reply[tx[c]] = 0
        /\ allowed[tx[c]] = Addresses(rcpts[c])
        /\ pc[c] # "deliver" => /\ copies[tx[c]] = {} /\ failed[tx[c]] = {}
                                /\ verdict[tx[c]] = "none"
        /\ pc[c] = "deliver" =>
              /\ allowed[tx[c]] = Addresses(todo[c]) \cup {k[1] : k \in copies[tx[c]]}
                                                     \cup failed[tx[c]]
              /\ got[c] = 0 <=> copies[tx[c]] = {}
              /\ spam[c] = TRUE <=> verdict[tx[c]] = "quarantine"

\* What the properties say of one transaction.
Faithful(t) ==
    /\ \A k \in copies[t] : /\ k[1] \in allowed[t]
                            /\ verdict[t] = "quarantine" => k[2] = "spam"
    /\ reply[t] = 250 => /\ copies[t] # {}
                         /\ allowed[t] = {k[1] : k \in copies[t]} \cup failed[t]
    /\ reply[t] \in {451, 550, 552} => copies[t] = {}

Blank(t) ==
    /\ allowed[t] = {} /\ copies[t] = {} /\ failed[t] = {}
    /\ verdict[t] = "none" /\ reply[t] = 0

ServerInv ==
    /\ TypeOK
    /\ \A c \in Conns : SessionOK(c) /\ TransactionOK(c)
    /\ \A c, d \in Conns : tx[c] = tx[d] /\ tx[c] # 0 => c = d
    /\ \A t \in Txs : Faithful(t)
    /\ \A t \in Txs : t > txs => Blank(t)
    /\ NoOpenRelay

-----------------------------------------------------------------------------
(***************************************************************************)
(* Recipient lists                                                         *)
(***************************************************************************)
\* No recipients.
LEMMA EmptyList == Addresses(<<>>) = {} /\ ~HasRemote(<<>>)
  BY DEF Addresses, HasRemote

\* A recipient more.
LEMMA AppendList ==
    ASSUME NEW q \in Seq(RcptRecords), NEW r \in RcptRecords
    PROVE  /\ Append(q, r) \in Seq(RcptRecords) /\ Append(q, r) # <<>>
           /\ Addresses(Append(q, r)) = Addresses(q) \cup {r.addr}
           /\ HasRemote(Append(q, r)) => HasRemote(q) \/ r.remote = TRUE
<1>1. /\ Append(q, r) \in Seq(RcptRecords) /\ Len(q) \in Nat /\ DOMAIN q = 1..Len(q)
      /\ DOMAIN Append(q, r) = 1..(Len(q) + 1)
      /\ \A i \in 1..Len(q) : Append(q, r)[i] = q[i]
      /\ Append(q, r)[Len(q) + 1] = r
      /\ Len(Append(q, r)) = Len(q) + 1
  OBVIOUS
<1>2. Append(q, r) # <<>>
  BY <1>1
<1>3. ASSUME NEW a \in Addresses(Append(q, r)) PROVE a \in Addresses(q) \cup {r.addr}
  <2>1. PICK i \in 1..(Len(q) + 1) : a = Append(q, r)[i].addr
    BY <1>1 DEF Addresses
  <2>2. CASE i \in 1..Len(q)
    BY <1>1, <2>1, <2>2 DEF Addresses
  <2>3. CASE i = Len(q) + 1
    BY <1>1, <2>1, <2>3
  <2> QED
    BY <1>1, <2>2, <2>3
<1>4. ASSUME NEW a \in Addresses(q) \cup {r.addr} PROVE a \in Addresses(Append(q, r))
  <2>1. CASE a \in Addresses(q)
    <3>1. PICK i \in 1..Len(q) : a = q[i].addr
      BY <1>1, <2>1 DEF Addresses
    <3> QED
      BY <1>1, <3>1 DEF Addresses
  <2>2. CASE a = r.addr
    BY <1>1, <2>2 DEF Addresses
  <2> QED
    BY <2>1, <2>2
<1>5. HasRemote(Append(q, r)) => HasRemote(q) \/ r.remote = TRUE
  BY <1>1 DEF HasRemote
<1> QED
  BY <1>1, <1>2, <1>3, <1>4, <1>5

\* The first recipient, and the others.
LEMMA HeadTail ==
    ASSUME NEW q \in Seq(RcptRecords), q # <<>>
    PROVE  /\ Head(q) \in RcptRecords /\ Tail(q) \in Seq(RcptRecords)
           /\ Addresses(q) = {Head(q).addr} \cup Addresses(Tail(q))
           /\ HasRemote(Tail(q)) => HasRemote(q)
           /\ Head(q).remote = TRUE => HasRemote(q)
<1>1. /\ Head(q) \in RcptRecords /\ Tail(q) \in Seq(RcptRecords)
      /\ Len(q) \in Nat /\ Len(q) > 0 /\ DOMAIN q = 1..Len(q) /\ Head(q) = q[1]
      /\ DOMAIN Tail(q) = 1..(Len(q) - 1)
      /\ \A i \in 1..(Len(q) - 1) : Tail(q)[i] = q[i + 1]
  OBVIOUS
<1>2. ASSUME NEW a \in Addresses(q) PROVE a \in {Head(q).addr} \cup Addresses(Tail(q))
  <2>1. PICK i \in 1..Len(q) : a = q[i].addr
    BY <1>1 DEF Addresses
  <2>2. CASE i = 1
    BY <1>1, <2>1, <2>2
  <2>3. CASE i # 1
    <3>1. i - 1 \in 1..(Len(q) - 1) /\ q[i] = Tail(q)[i - 1]
      BY <1>1, <2>3
    <3> QED
      BY <1>1, <2>1, <3>1 DEF Addresses
  <2> QED
    BY <2>2, <2>3
<1>3. ASSUME NEW a \in {Head(q).addr} \cup Addresses(Tail(q)) PROVE a \in Addresses(q)
  <2>1. CASE a = Head(q).addr
    BY <1>1, <2>1 DEF Addresses
  <2>2. CASE a \in Addresses(Tail(q))
    <3>1. PICK i \in 1..(Len(q) - 1) : a = Tail(q)[i].addr
      BY <1>1, <2>2 DEF Addresses
    <3>2. i + 1 \in 1..Len(q) /\ a = q[i + 1].addr
      BY <1>1, <3>1
    <3> QED
      BY <1>1, <3>2 DEF Addresses
  <2> QED
    BY <2>1, <2>2
<1>4. HasRemote(Tail(q)) => HasRemote(q)
  <2> SUFFICES ASSUME HasRemote(Tail(q)) PROVE HasRemote(q)
    OBVIOUS
  <2>1. PICK i \in 1..(Len(q) - 1) : Tail(q)[i].remote = TRUE
    BY <1>1 DEF HasRemote
  <2>2. i + 1 \in 1..Len(q) /\ q[i + 1].remote = TRUE
    BY <1>1, <2>1
  <2> QED
    BY <1>1, <2>2 DEF HasRemote
<1>5. Head(q).remote = TRUE => HasRemote(q)
  BY <1>1 DEF HasRemote
<1> QED
  BY <1>1, <1>2, <1>3, <1>4, <1>5

-----------------------------------------------------------------------------
(***************************************************************************)
(* A step of one session                                                   *)
(***************************************************************************)

\* The other sessions keep their state, and the other transactions theirs.
OthersKept(c) ==
    /\ \A d \in Conns \ {c} :
          /\ pc'[d] = pc[d] /\ mode'[d] = mode[d] /\ tls'[d] = tls[d]
          /\ authed'[d] = authed[d] /\ from'[d] = from[d] /\ rcpts'[d] = rcpts[d]
          /\ tx'[d] = tx[d] /\ spam'[d] = spam[d] /\ todo'[d] = todo[d] /\ got'[d] = got[d]
    /\ \A t \in Txs \ {tx[c]} :
          /\ allowed'[t] = allowed[t] /\ copies'[t] = copies[t] /\ failed'[t] = failed[t]
          /\ verdict'[t] = verdict[t] /\ reply'[t] = reply[t]

\* The session stays in its transaction, leaves it, or begins the next one.
TxStep(c) ==
    \/ txs' = txs /\ tx'[c] \in {0, tx[c]}
    \/ txs' = txs + 1 /\ tx'[c] = txs + 1 /\ tx[c] = 0

\* Sessions do not interfere: what a step of one has to establish is about
\* that session, its transaction and the outbound queue.
LEMMA LocalStep ==
    ASSUME ServerInv, NEW c \in Conns, TypeOK', OthersKept(c), TxStep(c),
           SessionOK(c)', TransactionOK(c)', NoOpenRelay',
           NEW o, o = tx[c], o # 0 => Faithful(o)'
    PROVE  ServerInv'
<1>0. /\ tx \in [Conns -> 0..txs] /\ txs \in 0..MaxTx /\ tx' \in [Conns -> 0..txs']
      /\ txs' \in 0..MaxTx /\ MaxTx \in Nat
  BY SmtpAssumption DEF ServerInv, TypeOK
<1>1. ASSUME NEW d \in Conns, d # c PROVE SessionOK(d)' /\ TransactionOK(d)'
  <2>1. SessionOK(d)'
    BY <1>1 DEF ServerInv, OthersKept, SessionOK
  <2>2. tx[d] # 0 => tx[d] \in Txs \ {tx[c]}
    BY <1>0, <1>1 DEF ServerInv, Txs
  <2>3. TransactionOK(d)'
    <3> SUFFICES ASSUME tx[d] # 0 PROVE TransactionOK(d)'
      BY <1>1 DEF OthersKept, TransactionOK
    <3>1. /\ tx'[d] = tx[d] /\ pc'[d] = pc[d] /\ rcpts'[d] = rcpts[d] /\ todo'[d] = todo[d]
          /\ got'[d] = got[d] /\ spam'[d] = spam[d]
      BY <1>1 DEF OthersKept
    <3>2. PICK t \in Txs \ {tx[c]} : t = tx[d]
      BY <2>2
    <3>3. /\ allowed'[t] = allowed[t] /\ copies'[t] = copies[t] /\ failed'[t] = failed[t]
          /\ verdict'[t] = verdict[t] /\ reply'[t] = reply[t]
      BY DEF OthersKept
    <3>4. TransactionOK(d)
      BY DEF ServerInv
    <3> QED
      BY <3>1, <3>2, <3>3, <3>4 DEF TransactionOK
  <2> QED
    BY <2>1, <2>3
<1>2. \A d, e \in Conns : tx'[d] = tx'[e] /\ tx'[d] # 0 => d = e
  <2> SUFFICES ASSUME NEW d \in Conns, NEW e \in Conns, tx'[d] = tx'[e], tx'[d] # 0, d # e
               PROVE  FALSE
    OBVIOUS
  <2>1. d # c => tx'[d] = tx[d] /\ tx[d] \in 0..txs
    BY <1>0 DEF OthersKept
  <2>2. e # c => tx'[e] = tx[e] /\ tx[e] \in 0..txs
    BY <1>0 DEF OthersKept
  <2>3. tx'[c] \in {0, tx[c]} \/ tx'[c] = txs + 1
    BY DEF TxStep
  <2> QED
    BY <1>0, <2>1, <2>2, <2>3 DEF ServerInv
<1>3. ASSUME NEW t \in Txs PROVE Faithful(t)'
  <2>1. CASE t = o
    BY <1>3, <2>1, <1>0 DEF Txs
  <2>2. CASE t # o
    BY <1>3, <2>2 DEF ServerInv, OthersKept, Faithful
  <2> QED
    BY <2>1, <2>2
<1>4. ASSUME NEW t \in Txs, t > txs' PROVE Blank(t)'
  <2>1. t > txs /\ t # tx[c]
    BY <1>0, <1>4 DEF TxStep, Txs
  <2> QED
    BY <1>4, <2>1 DEF ServerInv, OthersKept, Blank
<1> QED
  BY <1>1, <1>2, <1>3, <1>4 DEF ServerInv

\* Every step of a session touches that session and its transaction only.
LEMMA StepsAreLocal ==
    ASSUME ServerInv, NEW c \in Conns, Command(c) \/ Message(c)
    PROVE  OthersKept(c)
<1>0. /\ pc \in [Conns -> {"closed", "command", "body", "deliver"}]
      /\ mode \in [Conns -> Modes] /\ tls \in [Conns -> BOOLEAN]
      /\ authed \in [Conns -> Addrs \cup {None}]
      /\ from \in [Conns -> Addrs \cup {None, NullPath}]
      /\ rcpts \in [Conns -> Seq(RcptRecords)] /\ tx \in [Conns -> 0..txs]
      /\ spam \in [Conns -> BOOLEAN] /\ todo \in [Conns -> Seq(RcptRecords)]
      /\ got \in [Conns -> Nat]
      /\ allowed \in [Txs -> SUBSET Addrs]
      /\ copies \in [Txs -> SUBSET (Addrs \X {"queue", "spam", "inbox"})]
      /\ failed \in [Txs -> SUBSET Addrs]
      /\ verdict \in [Txs -> {"none", "accept", "quarantine", "reject"}]
      /\ reply \in [Txs -> {0, 250, 451, 550, 552}]
  BY DEF ServerInv, TypeOK
<1>1. ASSUME NEW m, NEW b, Accept(c, m, b) PROVE OthersKept(c)
  BY <1>0, <1>1 DEF Accept, OthersKept, obsVars
<1>2. ASSUME Close(c) PROVE OthersKept(c)
  BY <1>0, <1>2 DEF Close, OthersKept, obsVars
<1>3. ASSUME Helo(c) \/ Rset(c) \/ StartTLS(c) PROVE OthersKept(c)
  BY <1>0, <1>3 DEF Helo, Rset, StartTLS, ResetTransaction, OthersKept, obsVars
<1>4. ASSUME NEW u, Auth(c, u) PROVE OthersKept(c)
  BY <1>0, <1>4 DEF Auth, OthersKept, obsVars
<1>5. ASSUME NEW f, Mail(c, f) PROVE OthersKept(c)
  BY <1>0, <1>5 DEF Mail, OthersKept, obsVars
<1>6. ASSUME NEW a, Rcpt(c, a) PROVE OthersKept(c)
  BY <1>0, <1>6 DEF Rcpt, OthersKept
<1>7. ASSUME Data(c) PROVE OthersKept(c)
  BY <1>0, <1>7 DEF Data, OthersKept, obsVars
<1>8. ASSUME BodyTooBig(c) \/ ScreenReject(c) \/ EndData(c) PROVE OthersKept(c)
  BY <1>0, <1>8 DEF BodyTooBig, ScreenReject, EndData, Answer, ResetTransaction, OthersKept
<1>9. ASSUME NEW v, Pass(c, v) PROVE OthersKept(c)
  BY <1>0, <1>9 DEF Pass, OthersKept
<1>10. ASSUME Serve(c) PROVE OthersKept(c)
  BY <1>0, <1>10 DEF Serve, OthersKept
<1>11. ASSUME ServeFails(c) PROVE OthersKept(c)
  BY <1>0, <1>11 DEF ServeFails, OthersKept
<1> QED
  BY <1>1, <1>2, <1>3, <1>4, <1>5, <1>6, <1>7, <1>8, <1>9, <1>10, <1>11 DEF Command, Message

-----------------------------------------------------------------------------
(***************************************************************************)
(* The commands                                                            *)
(***************************************************************************)

\* A step that leaves the observations alone keeps what they say.
LEMMA QuietStep ==
    ASSUME ServerInv, UNCHANGED obsVars
    PROVE  NoOpenRelay' /\ \A t \in Txs : Faithful(t)'
  BY DEF ServerInv, obsVars, Faithful, NoOpenRelay

\* A command keeps the invariant,
LEMMA CommandInv ==
    ASSUME ServerInv, NEW c \in Conns, Command(c)
    PROVE  ServerInv'
<1>0. OthersKept(c)
  BY StepsAreLocal
<1>a. SessionOK(c) /\ TransactionOK(c) /\ TypeOK
  BY DEF ServerInv
<1>b. PICK o \in 0..txs : o = tx[c]
  BY DEF ServerInv, TypeOK
<1>c. o # 0 => o \in Txs
  BY SmtpAssumption DEF ServerInv, TypeOK, Txs
<1>d. MaxTx \in Nat /\ None \notin Addrs /\ NullPath \notin Addrs /\ NullPath # None
  BY SmtpAssumption, AddrAssumption DEF None, NullPath
<1>e. Addresses(<<>>) = {} /\ ~HasRemote(<<>>)
  BY EmptyList
<1>1. ASSUME NEW m \in Modes, NEW b \in BOOLEAN, Accept(c, m, b) PROVE ServerInv'
  <2>1. /\ pc[c] = "closed" /\ UNCHANGED obsVars
        /\ pc' = [pc EXCEPT ![c] = "command"]
        /\ mode' = [mode EXCEPT ![c] = m] /\ tls' = [tls EXCEPT ![c] = b]
        /\ UNCHANGED <<helo, authed, from, rcpts, tx, spam, todo, got, txs, hosted, limit>>
    BY <1>1 DEF Accept, configVars, boundVars
  <2>2. TypeOK'
    BY <1>a, <2>1 DEF TypeOK, obsVars
  <2>3. SessionOK(c)'
    BY <1>a, <1>e, <2>1 DEF SessionOK, TypeOK
  <2>4. TransactionOK(c)' /\ TxStep(c)
    BY <1>a, <2>1 DEF TransactionOK, SessionOK, TypeOK, TxStep
  <2>5. NoOpenRelay' /\ (o # 0 => Faithful(o)')
    BY <1>c, <2>1, QuietStep
  <2> QED
    BY <1>0, <1>b, <2>2, <2>3, <2>4, <2>5, LocalStep
<1>2. ASSUME Close(c) PROVE ServerInv'
  <2>1. /\ pc[c] \in {"command", "body"} /\ UNCHANGED obsVars
        /\ pc' = [pc EXCEPT ![c] = "closed"]
        /\ mode' = [mode EXCEPT ![c] = "inbound"] /\ tls' = [tls EXCEPT ![c] = FALSE]
        /\ helo' = [helo EXCEPT ![c] = FALSE] /\ authed' = [authed EXCEPT ![c] = None]
        /\ from' = [from EXCEPT ![c] = None] /\ rcpts' = [rcpts EXCEPT ![c] = <<>>]
        /\ tx' = [tx EXCEPT ![c] = 0]
        /\ UNCHANGED <<spam, todo, got, txs, hosted, limit>>
    BY <1>2 DEF Close, configVars, boundVars
  <2>2. TypeOK'
    BY <1>a, <2>1 DEF TypeOK, obsVars, Modes
  <2>3. SessionOK(c)'
    BY <1>a, <1>e, <2>1 DEF SessionOK, TypeOK
  <2>4. TransactionOK(c)' /\ TxStep(c)
    BY <1>a, <2>1 DEF TransactionOK, TypeOK, TxStep
  <2>5. NoOpenRelay' /\ (o # 0 => Faithful(o)')
    BY <1>c, <2>1, QuietStep
  <2> QED
    BY <1>0, <1>b, <2>2, <2>3, <2>4, <2>5, LocalStep
<1>3. ASSUME Helo(c) \/ Rset(c) \/ StartTLS(c) PROVE ServerInv'
  <2>1. /\ pc[c] = "command" /\ UNCHANGED obsVars
        /\ tls' = tls \/ tls' = [tls EXCEPT ![c] = TRUE]
        /\ \/ helo' = helo \/ helo' = [helo EXCEPT ![c] = TRUE]
           \/ helo' = [helo EXCEPT ![c] = FALSE]
        /\ from' = [from EXCEPT ![c] = None] /\ rcpts' = [rcpts EXCEPT ![c] = <<>>]
        /\ tx' = [tx EXCEPT ![c] = 0]
        /\ UNCHANGED <<pc, mode, authed, spam, todo, got, txs, hosted, limit>>
    BY <1>3 DEF Helo, Rset, StartTLS, ResetTransaction, configVars, boundVars
  <2>2. TypeOK'
    <3>0. tls \in [Conns -> BOOLEAN] /\ helo \in [Conns -> BOOLEAN]
      BY <1>a DEF TypeOK
    <3>1. tls' \in [Conns -> BOOLEAN]
      <4>1. tls' = tls \/ tls' = [tls EXCEPT ![c] = TRUE]
        BY <2>1
      <4> QED
        BY <3>0, <4>1, Zenon
    <3>2. helo' \in [Conns -> BOOLEAN]
      <4>1. helo' = helo \/ helo' = [helo EXCEPT ![c] = TRUE] \/ helo' = [helo EXCEPT ![c] = FALSE]
        BY <2>1
      <4> QED
        BY <3>0, <4>1, Zenon
    <3>3. /\ from' \in [Conns -> Addrs \cup {None, NullPath}]
          /\ rcpts' \in [Conns -> Seq(RcptRecords)] /\ tx' \in [Conns -> 0..txs']
          /\ \A d \in Conns : from'[d] # None <=> tx'[d] # 0
          /\ \A d \in Conns : rcpts'[d] # <<>> => tx'[d] # 0
      BY <1>a, <2>1 DEF TypeOK
    <3> QED
      BY <1>a, <2>1, <3>1, <3>2, <3>3 DEF TypeOK, obsVars
  <2>3. SessionOK(c)'
    BY <1>a, <1>e, <2>1 DEF SessionOK, TypeOK
  <2>4. TransactionOK(c)' /\ TxStep(c)
    BY <1>a, <2>1 DEF TransactionOK, TypeOK, TxStep
  <2>5. NoOpenRelay' /\ (o # 0 => Faithful(o)')
    BY <1>c, <2>1, QuietStep
  <2> QED
    BY <1>0, <1>b, <2>2, <2>3, <2>4, <2>5, LocalStep
<1>4. ASSUME NEW u \in Addrs, Auth(c, u) PROVE ServerInv'
  <2>1. /\ pc[c] = "command" /\ mode[c] = "submission" /\ tls[c] = TRUE /\ authed[c] = None
        /\ authed' = [authed EXCEPT ![c] = u] /\ UNCHANGED obsVars
        /\ UNCHANGED <<pc, mode, tls, helo, from, rcpts, tx, spam, todo, got, txs,
                       hosted, limit>>
    BY <1>4, <1>a DEF Auth, configVars, boundVars, TypeOK
  <2>2. TypeOK'
    BY <1>a, <2>1 DEF TypeOK, obsVars
  <2>3. SessionOK(c)'
    BY <1>a, <1>d, <2>1 DEF SessionOK, TypeOK
  <2>4. TransactionOK(c)' /\ TxStep(c)
    BY <1>a, <2>1 DEF TransactionOK, TypeOK, TxStep, obsVars
  <2>5. NoOpenRelay' /\ (o # 0 => Faithful(o)')
    BY <1>c, <2>1, QuietStep
  <2> QED
    BY <1>0, <1>b, <2>2, <2>3, <2>4, <2>5, LocalStep
<1>5. ASSUME NEW f \in Addrs \cup {NullPath}, Mail(c, f) PROVE ServerInv'
  <2>1. /\ pc[c] = "command" /\ from[c] = None /\ txs < MaxTx /\ UNCHANGED obsVars
        /\ mode[c] = "submission" => authed[c] # None /\ f = authed[c]
        /\ txs' = txs + 1
        /\ from' = [from EXCEPT ![c] = f] /\ tx' = [tx EXCEPT ![c] = txs + 1]
        /\ UNCHANGED <<pc, mode, tls, helo, authed, rcpts, spam, todo, got, hosted, limit>>
    BY <1>5 DEF Mail, configVars
  <2>2. /\ tx[c] = 0 /\ rcpts[c] = <<>> /\ txs + 1 \in Txs /\ txs \in Nat /\ tx'[c] = txs + 1
        /\ f # None
    BY <1>a, <1>d, <2>1 DEF TypeOK, Txs
  <2>3. TypeOK'
    <3>1. tx' \in [Conns -> 0..txs'] /\ txs' \in 0..MaxTx
      BY <1>a, <1>d, <2>1, <2>2 DEF TypeOK
    <3>2. from' \in [Conns -> Addrs \cup {None, NullPath}]
      BY <1>a, <2>1 DEF TypeOK
    <3>3. /\ \A d \in Conns : from'[d] # None <=> tx'[d] # 0
          /\ \A d \in Conns : rcpts'[d] # <<>> => tx'[d] # 0
      BY <1>a, <2>1, <2>2 DEF TypeOK
    <3> QED
      BY <1>a, <2>1, <3>1, <3>2, <3>3 DEF TypeOK, obsVars
  <2>4. SessionOK(c)'
    BY <1>a, <1>d, <2>1, <2>2 DEF SessionOK, TypeOK
  <2>5. TxStep(c)
    BY <2>1, <2>2 DEF TxStep
  <2>6. TransactionOK(c)'
    <3>1. Blank(txs + 1)
      BY <2>2 DEF ServerInv
    <3> QED
      BY <1>e, <2>1, <2>2, <3>1 DEF TransactionOK, Blank, obsVars
  <2>7. NoOpenRelay'
    BY <2>1 DEF ServerInv, NoOpenRelay, obsVars
  <2> QED
    BY <1>0, <2>2, <2>3, <2>4, <2>5, <2>6, <2>7, LocalStep
<1>6. ASSUME NEW a \in Addrs, Rcpt(c, a) PROVE ServerInv'
  <2>0. PICK b \in BOOLEAN : b = (a \notin hosted)
    OBVIOUS
  <2>1. PICK r \in RcptRecords : r = [addr |-> a, remote |-> b]
    BY DEF RcptRecords
  <2>2. /\ pc[c] = "command" /\ from[c] # None
        /\ mode[c] = "inbound" => a \in hosted
        /\ rcpts' = [rcpts EXCEPT ![c] = Append(rcpts[c], r)]
        /\ allowed' = [allowed EXCEPT ![o] = allowed[o] \cup {a}]
        /\ UNCHANGED <<pc, mode, tls, helo, authed, from, tx, spam, todo, got, hosted, limit,
                       txs, copies, failed, verdict, reply, relayed>>
    BY <1>6, <1>b, <2>0, <2>1 DEF Rcpt, configVars, boundVars
  <2>3. o # 0 /\ o \in Txs /\ r.addr = a /\ (r.remote = TRUE => mode[c] = "submission")
    <3>1. o # 0 /\ o \in Txs
      BY <1>a, <1>b, <1>c, <2>2 DEF TypeOK
    <3>2. r.addr = a /\ r.remote = b
      BY <2>1
    <3>3. mode[c] # "submission" => mode[c] = "inbound"
      BY <1>a DEF TypeOK, Modes
    <3>4. b = TRUE => mode[c] = "submission"
      BY <2>0, <2>2, <3>3
    <3> QED
      BY <3>1, <3>2, <3>4
  <2>4. rcpts[c] \in Seq(RcptRecords)
    BY <1>a DEF TypeOK
  <2>5. /\ Append(rcpts[c], r) \in Seq(RcptRecords) /\ Append(rcpts[c], r) # <<>>
        /\ Addresses(Append(rcpts[c], r)) = Addresses(rcpts[c]) \cup {a}
        /\ HasRemote(Append(rcpts[c], r)) => HasRemote(rcpts[c]) \/ r.remote = TRUE
    BY <2>3, <2>4, AppendList
  <2>6. rcpts'[c] = Append(rcpts[c], r) /\ allowed'[o] = allowed[o] \cup {a}
    BY <1>a, <2>2, <2>3 DEF TypeOK
  <2>7. TypeOK'
    <3>1. rcpts' \in [Conns -> Seq(RcptRecords)] /\ allowed' \in [Txs -> SUBSET Addrs]
      BY <1>a, <2>2, <2>3, <2>5 DEF TypeOK
    <3>2. \A d \in Conns : rcpts'[d] # <<>> => tx'[d] # 0
      BY <1>a, <1>b, <2>2, <2>3 DEF TypeOK
    <3> QED
      BY <1>a, <2>2, <3>1, <3>2 DEF TypeOK
  <2>8. SessionOK(c)'
    BY <1>a, <2>2, <2>3, <2>5, <2>6 DEF SessionOK
  <2>9. TransactionOK(c)' /\ TxStep(c)
    BY <1>a, <1>b, <2>2, <2>3, <2>5, <2>6 DEF TransactionOK, TxStep
  <2>10. Faithful(o)'
    BY <1>a, <1>b, <2>2, <2>3 DEF TransactionOK, Faithful
  <2>11. NoOpenRelay'
    BY <2>2 DEF ServerInv, NoOpenRelay
  <2> QED
    BY <1>0, <1>b, <2>7, <2>8, <2>9, <2>10, <2>11, LocalStep
<1>7. ASSUME Data(c) PROVE ServerInv'
  <2>1. /\ pc[c] = "command" /\ rcpts[c] # <<>> /\ UNCHANGED obsVars
        /\ pc' = [pc EXCEPT ![c] = "body"]
        /\ UNCHANGED <<mode, tls, helo, authed, from, rcpts, tx, spam, todo, got, txs,
                       hosted, limit>>
    BY <1>7 DEF Data, configVars, boundVars
  <2>2. TypeOK'
    BY <1>a, <2>1 DEF TypeOK, obsVars
  <2>3. SessionOK(c)'
    BY <1>a, <2>1 DEF SessionOK, TypeOK
  <2>4. TransactionOK(c)' /\ TxStep(c)
    BY <1>a, <2>1 DEF TransactionOK, TypeOK, TxStep, obsVars
  <2>5. NoOpenRelay' /\ (o # 0 => Faithful(o)')
    BY <1>c, <2>1, QuietStep
  <2> QED
    BY <1>0, <1>b, <2>2, <2>3, <2>4, <2>5, LocalStep
<1> QED
  BY <1>1, <1>2, <1>3, <1>4, <1>5, <1>6, <1>7 DEF Command, Modes

-----------------------------------------------------------------------------
(***************************************************************************)
(* The message                                                             *)
(***************************************************************************)

\* An answer to DATA that is true of the copies made, from a session that
\* has nothing left to do for the message.
TrueAnswer(c, code) ==
    /\ pc[c] \in {"body", "deliver"}
    /\ Answer(c, code)
    /\ UNCHANGED <<mode, tls, helo, authed, todo, txs, hosted, limit, allowed, copies,
                   failed, relayed>>
    /\ spam' \in [Conns -> BOOLEAN] /\ spam'[c] = FALSE
    /\ got' \in [Conns -> Nat] /\ got'[c] = 0
    /\ todo[c] = <<>>
    /\ verdict' \in [Txs -> {"none", "accept", "quarantine", "reject"}]
    /\ copies[tx[c]] # {} => verdict' = verdict
    /\ code = 250 => /\ copies[tx[c]] # {}
                     /\ allowed[tx[c]] = {k[1] : k \in copies[tx[c]]} \cup failed[tx[c]]
    /\ code # 250 => copies[tx[c]] = {}

\* Such an answer ends the transaction and keeps the invariant.
LEMMA AnswerKeeps ==
    ASSUME ServerInv, NEW c \in Conns, NEW code \in {250, 451, 550, 552},
           TrueAnswer(c, code), OthersKept(c)
    PROVE  ServerInv'
<1>a. SessionOK(c) /\ TransactionOK(c) /\ TypeOK
  BY DEF ServerInv
<1>b. PICK o \in 0..txs : o = tx[c]
  BY DEF ServerInv, TypeOK
<1>c. o # 0 /\ o \in Txs
  <2>1. rcpts[c] # <<>>
    BY <1>a DEF TrueAnswer, SessionOK
  <2>2. o # 0
    BY <1>a, <1>b, <2>1 DEF TypeOK
  <2> QED
    BY <1>a, <2>2, SmtpAssumption DEF TypeOK, Txs
<1>1. /\ pc' = [pc EXCEPT ![c] = "command"] /\ reply' = [reply EXCEPT ![o] = code]
      /\ from' = [from EXCEPT ![c] = None] /\ rcpts' = [rcpts EXCEPT ![c] = <<>>]
      /\ tx' = [tx EXCEPT ![c] = 0]
  BY <1>b DEF TrueAnswer, Answer, ResetTransaction
<1>2. TypeOK'
  <2>1. pc' \in [Conns -> {"closed", "command", "body", "deliver"}]
    BY <1>a, <1>1 DEF TypeOK
  <2>7. reply' \in [Txs -> {0, 250, 451, 550, 552}]
    <3>1. reply \in [Txs -> {0, 250, 451, 550, 552}]
      BY <1>a DEF TypeOK
    <3>2. reply' = [reply EXCEPT ![o] = code]
      BY <1>1
    <3>3. code \in {0, 250, 451, 550, 552}
      OBVIOUS
    <3> DEFINE Codes == {0, 250, 451, 550, 552}
    <3>4. reply \in [Txs -> Codes] /\ code \in Codes
      BY <3>1, <3>3
    <3> HIDE DEF Codes
    <3>5. [reply EXCEPT ![o] = code] \in [Txs -> Codes]
      BY <3>4
    <3> QED
      BY <3>2, <3>5 DEF Codes
  <2>5. from' \in [Conns -> Addrs \cup {None, NullPath}]
    BY <1>a, <1>1 DEF TypeOK
  <2>6. rcpts' \in [Conns -> Seq(RcptRecords)]
    BY <1>a, <1>1 DEF TypeOK
  <2>2. tx' \in [Conns -> 0..txs']
    BY <1>a, <1>1 DEF TypeOK, TrueAnswer
  <2>3. \A d \in Conns : from'[d] # None <=> tx'[d] # 0
    BY <1>a, <1>1 DEF TypeOK
  <2>4. \A d \in Conns : rcpts'[d] # <<>> => tx'[d] # 0
    BY <1>a, <1>1 DEF TypeOK
  <2> QED
    BY <1>a, <2>1, <2>2, <2>3, <2>4, <2>5, <2>6, <2>7 DEF TypeOK, TrueAnswer
<1>3. /\ pc'[c] = "command" /\ from'[c] = None /\ rcpts'[c] = <<>> /\ tx'[c] = 0
      /\ reply'[o] = code
  BY <1>a, <1>1, <1>c DEF TypeOK
<1>4. SessionOK(c)'
  BY <1>a, <1>3, EmptyList DEF SessionOK, TrueAnswer
<1>5. TransactionOK(c)' /\ TxStep(c)
  BY <1>3 DEF TransactionOK, TxStep, TrueAnswer
<1>6. Faithful(o)'
  <2>1. Faithful(o)
    BY <1>c DEF ServerInv
  <2> QED
    BY <1>b, <1>3, <2>1 DEF Faithful, TrueAnswer
<1>7. NoOpenRelay'
  BY DEF ServerInv, NoOpenRelay, TrueAnswer
<1> QED
  BY <1>b, <1>2, <1>4, <1>5, <1>6, <1>7, LocalStep

\* and so does the handling of a message.
LEMMA MessageInv ==
    ASSUME ServerInv, NEW c \in Conns, Message(c)
    PROVE  ServerInv'
<1>0. OthersKept(c)
  BY StepsAreLocal
<1>a. SessionOK(c) /\ TransactionOK(c) /\ TypeOK
  BY DEF ServerInv
<1>b. PICK o \in 0..txs : o = tx[c]
  BY DEF ServerInv, TypeOK
<1>c. pc[c] \in {"body", "deliver"}
  BY DEF Message, BodyTooBig, ScreenReject, Pass, Serve, ServeFails, EndData
<1>d. o # 0 /\ o \in Txs /\ from[c] # None
  BY <1>a, <1>b, <1>c, SmtpAssumption DEF SessionOK, TypeOK, Txs
<1>1. ASSUME BodyTooBig(c) PROVE ServerInv'
  <2>1. /\ pc[c] = "body" /\ Answer(c, 552)
        /\ UNCHANGED <<mode, tls, helo, authed, spam, todo, got, hosted, limit, txs,
                       allowed, copies, failed, verdict, relayed>>
    BY <1>1 DEF BodyTooBig, configVars, boundVars
  <2>2. copies[tx[c]] = {} /\ todo[c] = <<>> /\ got[c] = 0 /\ spam[c] = FALSE
    BY <1>a, <1>b, <1>d, <2>1 DEF TransactionOK, SessionOK
  <2>3. /\ spam' \in [Conns -> BOOLEAN] /\ got' \in [Conns -> Nat]
        /\ verdict' \in [Txs -> {"none", "accept", "quarantine", "reject"}]
    BY <1>a, <2>1 DEF TypeOK
  <2>4. TrueAnswer(c, 552)
    BY <2>1, <2>2, <2>3 DEF TrueAnswer
  <2> QED
    BY <1>0, <2>4, AnswerKeeps
<1>2. ASSUME ScreenReject(c) PROVE ServerInv'
  <2>1. /\ pc[c] = "body" /\ Answer(c, 550)
        /\ verdict' = [verdict EXCEPT ![o] = "reject"]
        /\ UNCHANGED <<mode, tls, helo, authed, spam, todo, got, hosted, limit, txs,
                       allowed, copies, failed, relayed>>
    BY <1>2, <1>b DEF ScreenReject, configVars, boundVars
  <2>2. copies[tx[c]] = {} /\ todo[c] = <<>> /\ got[c] = 0 /\ spam[c] = FALSE
    BY <1>a, <1>b, <1>d, <2>1 DEF TransactionOK, SessionOK
  <2>3. /\ spam' \in [Conns -> BOOLEAN] /\ got' \in [Conns -> Nat]
        /\ verdict' \in [Txs -> {"none", "accept", "quarantine", "reject"}]
    BY <1>a, <2>1 DEF TypeOK
  <2>4. TrueAnswer(c, 550)
    BY <2>1, <2>2, <2>3 DEF TrueAnswer
  <2> QED
    BY <1>0, <2>4, AnswerKeeps
<1>3. ASSUME EndData(c) PROVE ServerInv'
  <2>1. /\ pc[c] = "deliver" /\ todo[c] = <<>>
        /\ spam' = [spam EXCEPT ![c] = FALSE] /\ got' = [got EXCEPT ![c] = 0]
        /\ UNCHANGED <<mode, tls, helo, authed, todo, hosted, limit, txs,
                       allowed, copies, failed, verdict, relayed>>
    BY <1>3 DEF EndData, configVars, boundVars
  <2>2. PICK code \in {250, 451} : Answer(c, code) /\ (code = 451 <=> got[c] = 0)
    BY <1>3 DEF EndData
  <2>3. /\ spam' \in [Conns -> BOOLEAN] /\ got' \in [Conns -> Nat]
        /\ verdict' \in [Txs -> {"none", "accept", "quarantine", "reject"}]
        /\ spam'[c] = FALSE /\ got'[c] = 0
    BY <1>a, <2>1 DEF TypeOK
  <2>4. got[c] = 0 <=> copies[tx[c]] = {}
    BY <1>a, <1>b, <1>d, <2>1 DEF TransactionOK
  <2>5. allowed[tx[c]] = {k[1] : k \in copies[tx[c]]} \cup failed[tx[c]]
    <3>1. allowed[tx[c]] = Addresses(todo[c]) \cup {k[1] : k \in copies[tx[c]]}
                                              \cup failed[tx[c]]
      BY <1>a, <1>b, <1>d, <2>1 DEF TransactionOK
    <3> QED
      BY <2>1, <3>1, EmptyList
  <2>6. TrueAnswer(c, code)
    BY <2>1, <2>2, <2>3, <2>4, <2>5 DEF TrueAnswer
  <2> QED
    BY <1>0, <2>6, AnswerKeeps
<1>4. ASSUME NEW v \in {"accept", "quarantine"}, Pass(c, v) PROVE ServerInv'
  <2>0. PICK b \in BOOLEAN : b = (v = "quarantine")
    OBVIOUS
  <2>1. /\ pc[c] = "body" /\ (b = TRUE => mode[c] = "inbound")
        /\ verdict' = [verdict EXCEPT ![o] = IF mode[c] = "inbound" THEN v ELSE "none"]
        /\ spam' = [spam EXCEPT ![c] = b] /\ pc' = [pc EXCEPT ![c] = "deliver"]
        /\ todo' = [todo EXCEPT ![c] = rcpts[c]]
        /\ UNCHANGED <<mode, tls, helo, authed, from, rcpts, tx, got, hosted, limit, txs,
                       allowed, copies, failed, reply, relayed>>
    BY <1>4, <1>b, <2>0 DEF Pass, configVars, boundVars
  <2>2. /\ pc'[c] = "deliver" /\ todo'[c] = rcpts[c] /\ spam'[c] = b
        /\ verdict'[o] = IF mode[c] = "inbound" THEN v ELSE "none"
    BY <1>a, <1>d, <2>1 DEF TypeOK
  <2>3. TypeOK'
    <3>1. /\ pc' \in [Conns -> {"closed", "command", "body", "deliver"}]
          /\ todo' \in [Conns -> Seq(RcptRecords)]
      BY <1>a, <2>1 DEF TypeOK
    <3>3. verdict' \in [Txs -> {"none", "accept", "quarantine", "reject"}]
      BY <1>a, <2>1 DEF TypeOK
    <3>2. spam' \in [Conns -> BOOLEAN]
      BY <1>a, <2>1 DEF TypeOK
    <3> QED
      BY <1>a, <2>1, <3>1, <3>2, <3>3 DEF TypeOK
  <2>4. SessionOK(c)'
    BY <1>a, <2>1, <2>2 DEF SessionOK
  <2>5. copies[o] = {} /\ failed[o] = {} /\ reply[o] = 0 /\ got[c] = 0
    BY <1>a, <1>b, <1>d, <2>1 DEF TransactionOK, SessionOK
  <2>6. b = TRUE <=> verdict'[o] = "quarantine"
    <3>1. CASE v = "quarantine"
      BY <2>0, <2>1, <2>2, <3>1
    <3>2. CASE v = "accept"
      BY <2>0, <2>2, <3>2
    <3> QED
      BY <3>1, <3>2
  <2>7. TransactionOK(c)' /\ TxStep(c)
    BY <1>a, <1>b, <2>1, <2>2, <2>5, <2>6 DEF TransactionOK, TxStep
  <2>8. Faithful(o)' /\ NoOpenRelay'
    BY <2>1, <2>5 DEF Faithful, NoOpenRelay, ServerInv
  <2> QED
    BY <1>0, <1>b, <2>3, <2>4, <2>7, <2>8, LocalStep
<1>5. ASSUME Serve(c) PROVE ServerInv'
  <2>0. PICK r \in RcptRecords : r = Head(todo[c])
    BY <1>5, <1>a, HeadTail DEF Serve, TypeOK
  <2>1. PICK p \in {"queue", "spam", "inbox"} : p = Place(c, r)
    BY DEF Place
  <2>2. /\ pc[c] = "deliver" /\ todo[c] # <<>>
        /\ todo' = [todo EXCEPT ![c] = Tail(todo[c])]
        /\ got' = [got EXCEPT ![c] = got[c] + 1]
        /\ copies' = [copies EXCEPT ![o] = copies[o] \cup {<<r.addr, p>>}]
        /\ relayed' = IF r.remote
                      THEN relayed \cup {[mode |-> mode[c], tls |-> tls[c],
                                          authed |-> authed[c], from |-> from[c]]}
                      ELSE relayed
        /\ UNCHANGED <<pc, mode, tls, helo, authed, from, rcpts, tx, spam, hosted, limit,
                       txs, allowed, failed, verdict, reply>>
    BY <1>5, <1>b, <2>0, <2>1 DEF Serve, configVars, boundVars
  <2>3. /\ todo[c] \in Seq(RcptRecords) /\ Tail(todo[c]) \in Seq(RcptRecords)
        /\ Addresses(todo[c]) = {r.addr} \cup Addresses(Tail(todo[c]))
        /\ HasRemote(Tail(todo[c])) => HasRemote(todo[c])
        /\ r.remote = TRUE => HasRemote(todo[c])
    BY <1>a, <2>0, <2>2, HeadTail DEF TypeOK
  <2>4. /\ todo'[c] = Tail(todo[c]) /\ got'[c] = got[c] + 1 /\ got[c] \in Nat
        /\ copies'[o] = copies[o] \cup {<<r.addr, p>>} /\ r.addr \in Addrs
    BY <1>a, <1>d, <2>2 DEF TypeOK, RcptRecords
  <2>5. TypeOK'
    <3>1. todo' \in [Conns -> Seq(RcptRecords)] /\ got' \in [Conns -> Nat]
      BY <1>a, <2>2, <2>3, <2>4 DEF TypeOK
    <3>2. copies' \in [Txs -> SUBSET (Addrs \X {"queue", "spam", "inbox"})]
      <4>1. <<r.addr, p>> \in Addrs \X {"queue", "spam", "inbox"}
        BY <2>4
      <4>2. copies \in [Txs -> SUBSET (Addrs \X {"queue", "spam", "inbox"})]
        BY <1>a DEF TypeOK
      <4> QED
        BY <1>d, <2>2, <4>1, <4>2
    <3> QED
      BY <1>a, <2>2, <3>1, <3>2 DEF TypeOK
  <2>6. SessionOK(c)'
    BY <1>a, <2>2, <2>3, <2>4 DEF SessionOK
  <2>7. TransactionOK(c)' /\ TxStep(c)
    <3>1. /\ reply[o] = 0 /\ allowed[o] = Addresses(rcpts[c])
          /\ allowed[o] = Addresses(todo[c]) \cup {k[1] : k \in copies[o]} \cup failed[o]
          /\ spam[c] = TRUE <=> verdict[o] = "quarantine"
      BY <1>a, <1>b, <1>d, <2>2 DEF TransactionOK
    <3>2. {k[1] : k \in copies'[o]} = {k[1] : k \in copies[o]} \cup {r.addr}
      <4>1. copies'[o] = copies[o] \cup {<<r.addr, p>>} /\ <<r.addr, p>>[1] = r.addr
        BY <2>4
      <4> QED
        BY <4>1, Zenon
    <3>3. allowed[o] = Addresses(Tail(todo[c])) \cup {k[1] : k \in copies'[o]} \cup failed[o]
      BY <2>3, <3>1, <3>2
    <3>4. got'[c] # 0 /\ copies'[o] # {}
      <4>1. <<r.addr, p>> \in copies'[o]
        BY <2>4
      <4>2. got'[c] # 0
        BY <2>4
      <4> QED
        BY ONLY <4>1, <4>2
    <3> QED
      BY <1>b, <1>d, <2>2, <2>4, <3>1, <3>3, <3>4 DEF TransactionOK, TxStep
  <2>8. Faithful(o)'
    <3>1. /\ reply[o] = 0 /\ r.addr \in allowed[o]
          /\ spam[c] = TRUE <=> verdict[o] = "quarantine"
      BY <1>a, <1>b, <1>d, <2>2, <2>3 DEF TransactionOK
    <3>2. verdict[o] = "quarantine" => p = "spam"
      <4> SUFFICES ASSUME spam[c] = TRUE PROVE p = "spam"
        BY <3>1
      <4>1. mode[c] = "inbound"
        BY <1>a DEF SessionOK
      <4>2. r.remote # TRUE
        BY <1>a, <2>3, <4>1 DEF SessionOK
      <4>3. r.remote \in BOOLEAN
        BY DEF RcptRecords
      <4> QED
        BY <2>1, <4>2, <4>3 DEF Place
    <3>3. Faithful(o)
      BY <1>d DEF ServerInv
    <3>4. \A k \in copies'[o] : k[1] \in allowed[o] /\ (verdict[o] = "quarantine" => k[2] = "spam")
      BY <2>4, <3>1, <3>2, <3>3 DEF Faithful
    <3> QED
      BY <2>2, <3>1, <3>4 DEF Faithful
  <2>9. NoOpenRelay'
    <3>1. CASE r.remote = TRUE
      <4>1. mode[c] = "submission"
        BY <1>a, <2>3, <3>1 DEF SessionOK
      <4>2. authed[c] # None /\ from[c] = authed[c] /\ tls[c] = TRUE
        BY <1>a, <1>d, <4>1 DEF SessionOK
      <4>3. relayed' = relayed \cup {[mode |-> mode[c], tls |-> tls[c],
                                      authed |-> authed[c], from |-> from[c]]}
        BY <2>2, <3>1
      <4> QED
        BY <4>1, <4>2, <4>3 DEF NoOpenRelay, ServerInv
    <3>2. CASE r.remote = FALSE
      BY <2>2, <3>2 DEF NoOpenRelay, ServerInv
    <3> QED
      BY <3>1, <3>2 DEF RcptRecords
  <2> QED
    BY <1>0, <1>b, <2>5, <2>6, <2>7, <2>8, <2>9, LocalStep
<1>6. ASSUME ServeFails(c) PROVE ServerInv'
  <2>0. PICK r \in RcptRecords : r = Head(todo[c])
    BY <1>6, <1>a, HeadTail DEF ServeFails, TypeOK
  <2>2. /\ pc[c] = "deliver" /\ todo[c] # <<>>
        /\ todo' = [todo EXCEPT ![c] = Tail(todo[c])]
        /\ failed' = [failed EXCEPT ![o] = failed[o] \cup {r.addr}]
        /\ UNCHANGED <<pc, mode, tls, helo, authed, from, rcpts, tx, spam, got, hosted, limit,
                       txs, allowed, copies, verdict, reply, relayed>>
    BY <1>6, <1>b, <2>0 DEF ServeFails, configVars
  <2>1. todo[c] \in Seq(RcptRecords)
    BY <1>a DEF TypeOK
  <2>3. /\ Tail(todo[c]) \in Seq(RcptRecords)
        /\ Addresses(todo[c]) = {r.addr} \cup Addresses(Tail(todo[c]))
        /\ HasRemote(Tail(todo[c])) => HasRemote(todo[c])
    BY <2>0, <2>1, <2>2, HeadTail
  <2>4. /\ todo'[c] = Tail(todo[c]) /\ failed'[o] = failed[o] \cup {r.addr} /\ r.addr \in Addrs
    BY <1>a, <1>d, <2>2 DEF TypeOK, RcptRecords
  <2>5. TypeOK'
    <3>1. todo' \in [Conns -> Seq(RcptRecords)] /\ failed' \in [Txs -> SUBSET Addrs]
      BY <1>a, <1>d, <2>2, <2>3, <2>4 DEF TypeOK
    <3> QED
      BY <1>a, <2>2, <3>1 DEF TypeOK
  <2>6. SessionOK(c)'
    BY <1>a, <2>2, <2>3, <2>4 DEF SessionOK
  <2>7. TransactionOK(c)' /\ TxStep(c)
    <3>1. /\ reply[o] = 0 /\ allowed[o] = Addresses(rcpts[c])
          /\ allowed[o] = Addresses(todo[c]) \cup {k[1] : k \in copies[o]} \cup failed[o]
          /\ spam[c] = TRUE <=> verdict[o] = "quarantine"
          /\ got[c] = 0 <=> copies[o] = {}
      BY <1>a, <1>b, <1>d, <2>2 DEF TransactionOK
    <3>2. allowed[o] = Addresses(Tail(todo[c])) \cup {k[1] : k \in copies[o]} \cup failed'[o]
      BY <2>3, <2>4, <3>1
    <3> QED
      BY <1>b, <1>d, <2>2, <2>4, <3>1, <3>2 DEF TransactionOK, TxStep
  <2>8. Faithful(o)'
    <3>1. reply[o] = 0 /\ Faithful(o)
      BY <1>a, <1>b, <1>d DEF TransactionOK, ServerInv
    <3> QED
      BY <2>2, <3>1 DEF Faithful
  <2>9. NoOpenRelay'
    BY <2>2 DEF ServerInv, NoOpenRelay
  <2> QED
    BY <1>0, <1>b, <2>5, <2>6, <2>7, <2>8, <2>9, LocalStep
<1> QED
  BY <1>1, <1>2, <1>3, <1>4, <1>5, <1>6 DEF Message

-----------------------------------------------------------------------------
(***************************************************************************)
(* The whole server                                                        *)
(***************************************************************************)
\* The invariant holds at the start ...
LEMMA InitInv == Init => ServerInv
<1> SUFFICES ASSUME Init PROVE ServerInv
  OBVIOUS
<1>1. TypeOK
  BY SmtpAssumption DEF Init, TypeOK, Modes
<1>2. \A c \in Conns : SessionOK(c) /\ TransactionOK(c)
  BY EmptyList DEF Init, SessionOK, TransactionOK
<1>3. \A t \in Txs : Blank(t)
  BY DEF Init, Blank
<1>4. \A t \in Txs : Faithful(t)
  BY <1>3 DEF Blank, Faithful
<1>5. NoOpenRelay
  BY DEF Init, NoOpenRelay
<1>6. \A c, d \in Conns : tx[c] = tx[d] /\ tx[c] # 0 => c = d
  BY DEF Init
<1> QED
  BY <1>1, <1>2, <1>3, <1>4, <1>5, <1>6 DEF ServerInv

\* A reload changes what RCPT will say, not what sessions hold.
LEMMA ReloadInv ==
    ASSUME ServerInv, hosted' \in SUBSET Addrs, limit' \in Limits,
           UNCHANGED <<sessionVars, txs, obsVars>>
    PROVE  ServerInv'
<1>1. TypeOK'
  BY DEF ServerInv, TypeOK, sessionVars, obsVars
<1>2. \A c \in Conns : SessionOK(c)' /\ TransactionOK(c)'
  BY DEF ServerInv, SessionOK, TransactionOK, sessionVars, obsVars
<1>3. \A t \in Txs : Faithful(t)' /\ (t > txs' => Blank(t)')
  BY DEF ServerInv, Faithful, Blank, sessionVars, obsVars
<1>4. NoOpenRelay'
  BY DEF ServerInv, NoOpenRelay, obsVars
<1>5. \A c, d \in Conns : tx'[c] = tx'[d] /\ tx'[c] # 0 => c = d
  BY DEF ServerInv, sessionVars
<1> QED
  BY <1>1, <1>2, <1>3, <1>4, <1>5 DEF ServerInv

\* A crash leaves transactions unanswered, and what they stored in place.
LEMMA CrashInv == ASSUME ServerInv, Crash PROVE ServerInv'
<1>0. /\ pc' = [c \in Conns |-> "closed"] /\ mode' = [c \in Conns |-> "inbound"]
      /\ tls' = [c \in Conns |-> FALSE] /\ helo' = [c \in Conns |-> FALSE]
      /\ authed' = [c \in Conns |-> None] /\ from' = [c \in Conns |-> None]
      /\ rcpts' = [c \in Conns |-> <<>>] /\ tx' = [c \in Conns |-> 0]
      /\ spam' = [c \in Conns |-> FALSE] /\ todo' = [c \in Conns |-> <<>>]
      /\ got' = [c \in Conns |-> 0] /\ hosted' = hosted /\ limit' = limit /\ txs' = txs
      /\ UNCHANGED obsVars
  BY DEF Crash, configVars
<1>1. TypeOK'
  <2>1. txs \in Nat
    BY SmtpAssumption DEF ServerInv, TypeOK
  <2>2. /\ mode' \in [Conns -> Modes] /\ tls' \in [Conns -> BOOLEAN]
        /\ helo' \in [Conns -> BOOLEAN] /\ spam' \in [Conns -> BOOLEAN]
        /\ tx' \in [Conns -> 0..txs'] /\ got' \in [Conns -> Nat]
    BY <1>0, <2>1 DEF Modes
  <2> QED
    BY <1>0, <2>2 DEF ServerInv, TypeOK, obsVars
<1>2. \A c \in Conns : SessionOK(c)' /\ TransactionOK(c)'
  BY <1>0, EmptyList DEF SessionOK, TransactionOK
<1>3. \A t \in Txs : Faithful(t)' /\ (t > txs' => Blank(t)')
  BY <1>0 DEF ServerInv, Faithful, Blank, obsVars
<1>4. NoOpenRelay'
  BY <1>0 DEF ServerInv, NoOpenRelay, obsVars
<1>5. \A c, d \in Conns : tx'[c] = tx'[d] /\ tx'[c] # 0 => c = d
  BY <1>0
<1> QED
  BY <1>1, <1>2, <1>3, <1>4, <1>5 DEF ServerInv

\* ... and every step keeps it.
LEMMA StepInv == ServerInv /\ [Next]_vars => ServerInv'
<1> SUFFICES ASSUME ServerInv, [Next]_vars PROVE ServerInv'
  OBVIOUS
<1>1. ASSUME NEW c \in Conns, Command(c) PROVE ServerInv'
  BY <1>1, CommandInv
<1>2. ASSUME NEW c \in Conns, Message(c) PROVE ServerInv'
  BY <1>2, MessageInv
<1>3. ASSUME NEW H \in SUBSET Addrs, ReloadDomains(H) PROVE ServerInv'
  BY <1>3, ReloadInv DEF ReloadDomains, ServerInv, TypeOK
<1>4. ASSUME NEW n \in Limits, Update(n) PROVE ServerInv'
  BY <1>4, ReloadInv DEF Update, ServerInv, TypeOK
<1>5. CASE Crash
  BY <1>5, CrashInv
<1>6. CASE UNCHANGED vars
  BY <1>6, ReloadInv DEF vars, configVars, boundVars, ServerInv, TypeOK
<1> QED
  BY <1>1, <1>2, <1>3, <1>4, <1>5, <1>6 DEF Next

-----------------------------------------------------------------------------
\* The state of sessions, configuration and transactions keeps its shape: a
\* transaction is open exactly while MAIL's reverse-path is set, and RCPT's
\* recipients are held only inside one.
THEOREM TypeCorrect == Spec => []TypeOK
<1>1. ServerInv => TypeOK
  BY DEF ServerInv
<1> QED
  BY <1>1, InitInv, StepInv, PTL DEF Spec

\* "Kavira cannot be configured into an open relay": no sequence of commands
\* on any number of sessions, of SIGHUPs that move domains between RCPT and
\* DATA, and of failures makes cmdData enqueue for a remote recipient unless
\* the session is an authenticated submission over TLS that sends as itself.
THEOREM NoOpenRelayAlways == Spec => []NoOpenRelay
<1>1. ServerInv => NoOpenRelay
  BY DEF ServerInv
<1> QED
  BY <1>1, InitInv, StepInv, PTL DEF Spec

\* resetTransaction and cmdData keep transactions apart: a message reaches
\* only recipients accepted by RCPT in its own transaction, and a quarantined
\* one only their Spam folders.
THEOREM OnlyItsRecipientsAlways == Spec => []OnlyItsRecipients
<1>1. ServerInv => OnlyItsRecipients
  BY DEF ServerInv, Faithful, OnlyItsRecipients
<1> QED
  BY <1>1, InitInv, StepInv, PTL DEF Spec

\* cmdData answers 250 only when every accepted recipient was served or its
\* failure noted and one at least was served, and refuses only what left no
\* copy behind.
THEOREM AnswerIsTruthfulAlways == Spec => []AnswerIsTruthful
<1>1. ServerInv => AnswerIsTruthful
  BY DEF ServerInv, Faithful, AnswerIsTruthful
<1> QED
  BY <1>1, InitInv, StepInv, PTL DEF Spec
=============================================================================
