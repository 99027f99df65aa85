---------------------------- MODULE DaemonProofs ----------------------------
(***************************************************************************)
(* The daemon for any listeners, any number of sessions and of signals,    *)
(* edits, refreshes and API calls.                                         *)
(*                                                                         *)
(* The three properties speak of a daemon that is idle or down; DaemonInv  *)
(* says what holds on the way there.  A SIGHUP that was not read is still  *)
(* in the channel, and what was read is in the hands of the loop or in     *)
(* every part of the process (ReloadInv); what is offered matches the certificates except between    *)
(* the two halves of a refresh (OfferInv); and a session of a server whose *)
(* Shutdown is over was given up on or came late (ServerInv).              *)
(***************************************************************************)
EXTENDS Daemon, TLAPS

Config == [rev : Nat, served : SUBSET Domains]
Disk   == [rev : Nat, valid : BOOLEAN, good : SUBSET Domains, pem : SUBSET Domains]

Stages == {"boot", "idle", "loaded", "apply", "refresh", "drain", "wait", "down"}

\* Revisions only grow, and every configuration that was loaded is one of them.
Shape ==
    /\ disk \in Disk
    /\ pc \in Stages /\ sig \in {"none", "HUP", "TERM"}
    /\ cur \in Config /\ cur.rev \in 1..disk.rev
    /\ mine \in Config /\ theirs \in Config
    /\ pc = "loaded" => mine.rev \in 1..disk.rev
    /\ api = "holding" => theirs.rev \in 1..disk.rev
    /\ asked \in 1..disk.rev /\ took \in 1..disk.rev

CertsInv == certs.domains \subseteq Domains /\ certs.loaded \subseteq certs.domains

\* A SIGHUP that was not read is in the channel.  The configuration that was read
\* is in the hands of the loop, then looked up, then everywhere.
Unread == asked = took \/ sig # "none" \/ pc \in {"drain", "wait", "down"}

ReadInv == IF pc = "loaded" THEN mine.rev >= took ELSE rolled \/ cur.rev >= took

AppliedInv ==
    /\ \A s \in Listeners \cap Smtp : set[s].lim = limits
    /\ pc \notin {"loaded", "apply"} /\ ~rolled =>
          certs.rev >= took /\ limits >= took /\ \A s \in Listeners : set[s].rev >= took

ReloadInv == Unread /\ ReadInv /\ AppliedInv

OfferInv ==
    pc # "refresh" =>
        \A s \in Listeners : set[s].starttls = (s \notin Implicit /\ certs.loaded # {})

\* A listener is closed before the wait for its sessions begins.
ServerInv ==
    /\ sessions \in [Listeners -> 0..Workers]
    /\ running \subseteq Listeners /\ up \subseteq running
    /\ pc \in {"boot", "down"} => running = {}
    /\ pc = "wait" => \A s \in running : IsNext(s) => s \notin up
    /\ \A s \in Listeners \ running : sessions[s] > 0 => s \in timedOut \cup late

DaemonInv == Shape /\ CertsInv /\ ReloadInv /\ OfferInv /\ ServerInv

-----------------------------------------------------------------------------
\* A configuration that loads is the one on the disk.
LEMMA LoadLemma ==
    ASSUME disk \in Disk
    PROVE  Load(disk) \in Config /\ Load(disk).rev = disk.rev
  BY DEF Load, Config, Disk

\* A state of the disk.
LEMMA DiskLemma ==
    ASSUME NEW r \in Nat, NEW v \in BOOLEAN, NEW g \in SUBSET Domains, NEW p \in SUBSET Domains
    PROVE  [rev |-> r, valid |-> v, good |-> g, pem |-> p] \in Disk
  BY DEF Disk

\* Before the first load.
LEMMA NoConfigLemma == NoConfig \in Config
  BY DEF NoConfig, Config

\* A store of certificates has what the configuration names.
LEMMA StoreLemma ==
    ASSUME NEW c \in Config
    PROVE  /\ CertStore(c).rev = c.rev
           /\ CertStore(c).domains \subseteq Domains
           /\ CertStore(c).loaded \subseteq CertStore(c).domains
  BY DEF CertStore, Config

\* STARTTLS is offered where a certificate was loaded; the rest is what was given.
LEMMA SettingsLemma ==
    ASSUME NEW c, NEW store, NEW lim, NEW s \in Listeners
    PROVE  /\ Settings(c, store, lim)[s].starttls = (s \notin Implicit /\ store.loaded # {})
           /\ Settings(c, store, lim)[s].rev = c.rev
           /\ s \in Smtp => Settings(c, store, lim)[s].lim = lim
  BY DEF Settings

\* The invariant holds at the start.
LEMMA DaemonInit == Init => DaemonInv
<1> SUFFICES ASSUME Init PROVE DaemonInv
  OBVIOUS
<1>1. /\ disk \in Disk
      /\ disk.rev = 1
  <2>1. PICK p \in SUBSET Domains :
          disk = [rev |-> 1, valid |-> TRUE, good |-> Domains, pem |-> p]
    BY DEF Init
  <2> QED
    BY <2>1, DiskLemma
<1>2. /\ cur = Load(disk) /\ mine = NoConfig /\ theirs = NoConfig /\ certs = CertStore(cur)
      /\ set = Settings(cur, certs, limits) /\ pc = "boot" /\ sig = "none" /\ api = "off"
      /\ running = {} /\ up = {} /\ sessions = [s \in Listeners |-> 0]
      /\ limits = cur.rev /\ asked = cur.rev /\ took = cur.rev
  BY DEF Init
<1>3. cur \in Config /\ cur.rev = 1
  BY <1>1, <1>2, LoadLemma
<1>4. Shape
  BY <1>1, <1>2, <1>3, NoConfigLemma DEF Shape, Stages
<1>5. CertsInv
  BY <1>2, <1>3, StoreLemma DEF CertsInv
<1>8. ReloadInv
  BY <1>2, <1>3, StoreLemma, SettingsLemma DEF ReloadInv, Unread, ReadInv, AppliedInv
<1>6. OfferInv
  BY <1>2, SettingsLemma DEF OfferInv
<1>7. ServerInv
  BY <1>2, DaemonAssumption DEF ServerInv
<1> QED
  BY <1>4, <1>5, <1>6, <1>7, <1>8 DEF DaemonInv

-----------------------------------------------------------------------------
\* The steps that leave the loop, the configurations and the signals alone.
Serves == \E s \in Listeners : Accept(s) \/ AcceptFails(s) \/ Begin(s) \/ TurnAway(s) \/ End(s)

\* Its parts are kept one by one: the shape of the state,
LEMMA ShapeStep == DaemonInv /\ [Next]_vars => Shape'
<1> SUFFICES ASSUME Shape, [Next]_vars PROVE Shape'
  BY DEF DaemonInv
<1>0. disk.rev \in Nat
  BY DEF Shape, Disk
<1>1. CASE Serves \/ UNCHANGED vars
  <2>1. UNCHANGED <<disk, pc, sig, cur, mine, theirs, api, asked, took>>
    BY <1>1 DEF Serves, vars, procVars, obsVars, Accept, AcceptFails, Begin, TurnAway, End
  <2> QED
    BY <1>0, <2>1 DEF Shape
<1>2. CASE Boot \/ BootFails \/ Refresh \/ RefreshApplies \/ Term \/ CloseListener \/ Drained
           \/ TimesOut \/ Exit
  <2>1. /\ UNCHANGED <<disk, cur, mine, theirs, asked, took>>
        /\ pc' \in Stages \ {"loaded"} /\ sig' \in {sig, "none"}
        /\ api' = "holding" => api = "holding"
    BY <1>2 DEF Boot, BootFails, Refresh, RefreshApplies, Term, CloseListener, Drained, TimesOut,
                NextServer, Exit, procVars, obsVars, Stages
  <2> QED
    BY <1>0, <2>1 DEF Shape
<1>3. CASE Edit
  <2>1. UNCHANGED <<pc, sig, cur, mine, theirs, api, asked, took>>
    BY <1>3 DEF Edit, procVars, obsVars
  <2>2. /\ disk.rev \in Nat /\ disk.valid \in BOOLEAN /\ disk.good \in SUBSET Domains
        /\ disk.pem \in SUBSET Domains
        /\ disk = [rev |-> disk.rev, valid |-> disk.valid, good |-> disk.good, pem |-> disk.pem]
    BY DEF Shape, Disk
  <2>3. disk' \in Disk
    <3>1. \A n \in Domains : \A X \in SUBSET Domains : Toggle(X, n) \in SUBSET Domains
      BY DEF Toggle
    <3>2. ASSUME NEW n \in Domains, disk' = [disk EXCEPT !.rev = @ + 1, !.good = Toggle(@, n)]
          PROVE  disk' \in Disk
      <4>1. disk' = [rev |-> disk.rev + 1, valid |-> disk.valid, good |-> Toggle(disk.good, n),
                     pem |-> disk.pem]
        BY <2>2, <3>2
      <4> QED
        BY <2>2, <3>1, <4>1, DiskLemma
    <3>3. ASSUME NEW n \in Domains, disk' = [disk EXCEPT !.pem = Toggle(@, n)]
          PROVE  disk' \in Disk
      <4>1. disk' = [rev |-> disk.rev, valid |-> disk.valid, good |-> disk.good,
                     pem |-> Toggle(disk.pem, n)]
        BY <2>2, <3>3
      <4> QED
        BY <2>2, <3>1, <4>1, DiskLemma
    <3>4. CASE disk' = [disk EXCEPT !.rev = @ + 1, !.valid = ~@]
      <4>1. disk' = [rev |-> disk.rev + 1, valid |-> ~disk.valid, good |-> disk.good,
                     pem |-> disk.pem]
        BY <2>2, <3>4
      <4>2. (~disk.valid) \in BOOLEAN /\ disk.rev + 1 \in Nat
        BY <2>2
      <4> QED
        BY <2>2, <4>1, <4>2, DiskLemma
    <3> QED
      BY <1>3, <3>2, <3>3, <3>4 DEF Edit
  <2>4. disk'.rev \in {disk.rev, disk.rev + 1}
    BY <1>3, <2>2 DEF Edit
  <2> QED
    BY <2>1, <2>2, <2>3, <2>4 DEF Shape
<1>4. CASE \E x \in {"HUP", "TERM"} : Signal(x)
  <2>1. /\ UNCHANGED <<disk, pc, cur, mine, theirs, api, took>>
        /\ sig' \in {sig, "HUP", "TERM"} /\ asked' \in {asked, disk.rev}
    BY <1>4 DEF Signal
  <2> QED
    BY <1>0, <2>1 DEF Shape
<1>5. CASE HupLoads
  <2>1. /\ UNCHANGED <<disk, cur, theirs, api>> /\ pc' = "loaded" /\ sig' = "none"
        /\ mine' = Load(disk) /\ asked' = disk.rev /\ took' = disk.rev
    BY <1>5 DEF HupLoads
  <2>2. mine' \in Config /\ mine'.rev = disk.rev
    BY <2>1, LoadLemma DEF Shape
  <2> QED
    BY <1>0, <2>1, <2>2 DEF Shape, Stages
<1>6. CASE HupFails
  <2>1. UNCHANGED <<disk, pc, cur, mine, theirs, api, took>> /\ sig' = "none" /\ asked' = took
    BY <1>6 DEF HupFails
  <2> QED
    BY <1>0, <2>1 DEF Shape
<1>7. CASE HupStores
  <2>1. /\ pc = "loaded" /\ pc' = "apply" /\ cur' = mine /\ mine' = NoConfig
        /\ UNCHANGED <<disk, sig, theirs, api, asked, took>>
    BY <1>7 DEF HupStores
  <2> QED
    BY <1>0, <2>1, NoConfigLemma DEF Shape, Stages
<1>8. CASE HupApplies
  <2>1. /\ pc' = "idle" /\ UNCHANGED <<disk, sig, mine, cur, api, theirs, asked, took>>
    BY <1>8 DEF HupApplies, obsVars
  <2> QED
    BY <1>0, <2>1 DEF Shape, Stages
<1>9. CASE ApiLoads
  <2>1. /\ theirs' = Load(disk) /\ UNCHANGED <<disk, pc, sig, mine, cur, asked, took>>
    BY <1>9 DEF ApiLoads, obsVars
  <2>2. theirs' \in Config /\ theirs'.rev = disk.rev
    BY <2>1, LoadLemma DEF Shape
  <2> QED
    BY <1>0, <2>1, <2>2 DEF Shape
<1>10. CASE ApiStores
  <2>1. /\ api = "holding" /\ cur' = theirs /\ theirs' = NoConfig /\ api' # "holding"
        /\ UNCHANGED <<disk, pc, sig, mine, asked, took>>
    BY <1>10 DEF ApiStores
  <2> QED
    BY <1>0, <2>1, NoConfigLemma DEF Shape
<1> QED
  BY <1>1, <1>2, <1>3, <1>4, <1>5, <1>6, <1>7, <1>8, <1>9, <1>10 DEF Next, Loop, Serves

\* the certificates,
LEMMA CertsStep == DaemonInv /\ [Next]_vars => CertsInv'
<1> SUFFICES ASSUME Shape, CertsInv, [Next]_vars PROVE CertsInv'
  BY DEF DaemonInv
<1>1. certs' \in {certs, CertStore(cur)}
  BY DEF Next, Loop, Boot, BootFails, Edit, Refresh, ApiLoads, ApiStores, Signal, Accept,
         AcceptFails, Begin, TurnAway, End, HupLoads, HupFails, HupStores, HupApplies, ConfigNow,
         RefreshApplies, Term, CloseListener, Drained, TimesOut, NextServer, Exit, vars, procVars
<1>2. cur \in Config
  BY DEF Shape
<1> QED
  BY <1>1, <1>2, StoreLemma DEF CertsInv

\* the reload,
LEMMA ReloadStep == DaemonInv /\ [Next]_vars => ReloadInv'
<1> SUFFICES ASSUME Shape, ReloadInv, [Next]_vars PROVE ReloadInv'
  BY DEF DaemonInv
<1> USE DEF ReloadInv, Unread, ReadInv, AppliedInv
<1>0. cur \in Config /\ cur.rev \in Nat /\ took \in Nat /\ disk \in Disk /\ disk.rev \in Nat
  BY DEF Shape, Disk
<1>1. CASE Serves \/ Edit \/ ApiLoads \/ UNCHANGED vars
  <2>1. UNCHANGED <<pc, sig, cur, mine, certs, limits, set, asked, took, rolled>>
    BY <1>1 DEF Serves, vars, procVars, serverVars, obsVars, Accept, AcceptFails, Begin,
                TurnAway, End, Edit, ApiLoads
  <2> QED
    BY <2>1
<1>2. CASE Boot \/ BootFails \/ Term \/ CloseListener \/ Drained \/ TimesOut \/ Exit
  <2>1. /\ UNCHANGED <<cur, mine, certs, limits, set, asked, took, rolled>>
        /\ pc \notin {"loaded", "apply"} /\ pc' \notin {"loaded", "apply"}
        /\ sig' = sig \/ pc' = "drain"
        /\ pc \in {"drain", "wait"} => pc' \in {"drain", "wait", "down"}
    BY <1>2 DEF Boot, BootFails, Term, CloseListener, Drained, TimesOut, NextServer, Exit,
                procVars, serverVars, obsVars
  <2>2. pc # "down"
    BY <1>2 DEF Boot, BootFails, Term, CloseListener, Drained, TimesOut, Exit
  <2> QED
    BY <2>1, <2>2
<1>3. CASE Refresh
  <2>1. /\ pc = "idle" /\ pc' = "refresh" /\ certs' = CertStore(cur)
        /\ UNCHANGED <<sig, cur, mine, limits, set, asked, took, rolled>>
    BY <1>3 DEF Refresh, serverVars, obsVars
  <2>2. certs'.rev = cur.rev
    BY <1>0, <2>1, StoreLemma
  <2> QED
    BY <2>1, <2>2
<1>4. CASE RefreshApplies
  <2>1. /\ pc = "refresh" /\ pc' = "idle" /\ set' = Settings(cur, certs, limits)
        /\ UNCHANGED <<sig, cur, mine, certs, limits, asked, took, rolled>>
    BY <1>4 DEF RefreshApplies, Refreshed, obsVars
  <2>2. \A s \in Listeners : set'[s].rev = cur.rev /\ (s \in Smtp => set'[s].lim = limits)
    BY <2>1, SettingsLemma
  <2> QED
    BY <2>1, <2>2
<1>5. CASE \E x \in {"HUP", "TERM"} : Signal(x)
  <2>1. sig' # "none" /\ UNCHANGED <<pc, cur, mine, certs, limits, set, took, rolled>>
    BY <1>5 DEF Signal, serverVars
  <2> QED
    BY <2>1
<1>6. CASE HupLoads
  <2>1. /\ pc' = "loaded" /\ mine' = Load(disk) /\ asked' = disk.rev /\ took' = disk.rev
        /\ UNCHANGED <<limits, set>>
    BY <1>6 DEF HupLoads, serverVars
  <2>2. mine'.rev = took' /\ took' \in Nat
    BY <1>0, <2>1, LoadLemma DEF Shape
  <2> QED
    BY <2>1, <2>2
<1>7. CASE HupFails
  <2>1. asked' = took /\ UNCHANGED <<pc, cur, mine, certs, limits, set, took, rolled>>
    BY <1>7 DEF HupFails, serverVars
  <2> QED
    BY <2>1
<1>8. CASE HupStores
  <2>1. /\ pc = "loaded" /\ pc' = "apply" /\ cur' = mine
        /\ UNCHANGED <<sig, limits, set, asked, took>>
    BY <1>8 DEF HupStores, serverVars
  <2> QED
    BY <2>1
<1>9. CASE HupApplies
  <2>1. /\ pc = "apply" /\ pc' = "idle" /\ UNCHANGED <<sig, cur, asked, took, rolled>>
        /\ certs' = CertStore(cur) /\ limits' = cur.rev
        /\ set' = Settings(cur, certs', limits')
    BY <1>9 DEF HupApplies, ConfigNow, obsVars
  <2>2. /\ certs'.rev = cur.rev
        /\ \A s \in Listeners : set'[s].rev = cur.rev /\ (s \in Smtp => set'[s].lim = limits')
    BY <1>0, <2>1, StoreLemma, SettingsLemma
  <2> QED
    BY <2>1, <2>2
<1>10. CASE ApiStores
  <2>1. /\ api = "holding" /\ cur' = theirs
        /\ UNCHANGED <<pc, sig, mine, certs, limits, set, asked, took>>
        /\ rolled' = (rolled \/ theirs.rev < cur.rev)
    BY <1>10 DEF ApiStores, serverVars
  <2>2. theirs.rev \in Nat
    BY <2>1 DEF Shape
  <2>3. CASE rolled \/ theirs.rev < cur.rev
    BY <2>1, <2>3
  <2>4. CASE ~rolled /\ theirs.rev >= cur.rev
    BY <1>0, <2>1, <2>2, <2>4
  <2> QED
    BY <1>0, <2>2, <2>3, <2>4
<1> QED
  BY <1>1, <1>2, <1>3, <1>4, <1>5, <1>6, <1>7, <1>8, <1>9, <1>10 DEF Next, Loop, Serves

\* what the listeners offer,
LEMMA OfferStep == DaemonInv /\ [Next]_vars => OfferInv'
<1> SUFFICES ASSUME OfferInv, [Next]_vars PROVE OfferInv'
  BY DEF DaemonInv
<1>1. CASE HupApplies \/ RefreshApplies
  <2>1. \E c, lim : set' = Settings(c, certs', lim)
    BY <1>1 DEF HupApplies, RefreshApplies, Refreshed
  <2> QED
    BY <2>1, SettingsLemma DEF OfferInv
<1>2. CASE Refresh
  BY <1>2 DEF Refresh, OfferInv
<1>3. CASE \/ Boot \/ BootFails \/ Edit \/ ApiLoads \/ ApiStores \/ Serves \/ UNCHANGED vars
           \/ \E x \in {"HUP", "TERM"} : Signal(x)
           \/ HupLoads \/ HupFails \/ HupStores \/ Term \/ CloseListener \/ Drained \/ TimesOut
           \/ Exit
  <2>1. UNCHANGED <<set, certs>> /\ (pc # "refresh" \/ pc' = pc)
    BY <1>3 DEF Boot, BootFails, Edit, ApiLoads, ApiStores, Signal, Serves, Accept,
         AcceptFails, Begin, TurnAway, End, HupLoads, HupFails, HupStores,
         Term, CloseListener, Drained, TimesOut, NextServer, Exit, vars, procVars, serverVars
  <2> QED
    BY <2>1 DEF OfferInv
<1> QED
  BY <1>1, <1>2, <1>3 DEF Next, Loop, Serves

\* The names of the listeners.
LEMMA OrderLemma ==
    Range(Order) \subseteq {"smtp", "submission", "smtps", "imap", "imaps", "pop3", "pop3s"}
<1>1. DOMAIN Order = 1..7
  BY DEF Order
<1>2. \A i \in 1..7 : i \in {1, 2, 3, 4, 5, 6, 7}
  OBVIOUS
<1> QED
  BY <1>1, <1>2 DEF Order, Range

\* No two servers have the same place in the order.
LEMMA NextUnique ==
    ASSUME running \subseteq Listeners, NEW s, IsNext(s), NEW t, IsNext(t)
    PROVE  s = t
<1>1. s \in Range(Order) /\ t \in Range(Order)
  BY DaemonAssumption DEF IsNext
<1>2. \A x \in Range(Order) : Rank(x) \in DOMAIN Order /\ Order[Rank(x)] = x
  BY DEF Range, Rank
<1>3. DOMAIN Order = 1..7
  BY DEF Order
<1>4. Rank(s) <= Rank(t) /\ Rank(t) <= Rank(s)
  BY DEF IsNext
<1>5. Rank(s) = Rank(t)
  BY <1>1, <1>2, <1>3, <1>4
<1> QED
  BY <1>1, <1>2, <1>5

\* and the servers.
LEMMA ServerStep == DaemonInv /\ [Next]_vars => ServerInv'
<1> SUFFICES ASSUME Shape, ServerInv, [Next]_vars PROVE ServerInv'
  BY DEF DaemonInv
<1> USE DaemonAssumption
<1>1. CASE \/ Edit \/ ApiLoads \/ ApiStores \/ UNCHANGED vars
           \/ \E x \in {"HUP", "TERM"} : Signal(x)
           \/ HupLoads \/ HupFails \/ HupStores \/ HupApplies \/ Refresh \/ RefreshApplies
           \/ Term \/ Exit \/ BootFails
  <2>1. /\ UNCHANGED <<running, up, sessions, timedOut, late>>
        /\ pc' = "wait" => pc = "wait"
        /\ pc' \in {"boot", "down"} => pc \in {"boot", "down"} \/ running = {}
    BY <1>1 DEF Edit, ApiLoads, ApiStores, Signal, HupLoads, HupFails, HupStores, HupApplies,
         Refresh, RefreshApplies, Term, Exit, BootFails, vars, procVars, serverVars, obsVars
  <2>2. \A s : IsNext(s)' = IsNext(s)
    BY <2>1 DEF IsNext
  <2> QED
    BY <2>1, <2>2 DEF ServerInv
<1>2. CASE Boot
  <2>1. /\ pc = "boot" /\ pc' = "idle" /\ running' \subseteq Listeners /\ up' = running'
        /\ UNCHANGED <<sessions, timedOut, late>>
    BY <1>2 DEF Boot, obsVars
  <2> QED
    BY <2>1 DEF ServerInv
<1>3. ASSUME NEW s \in Listeners, Accept(s) \/ AcceptFails(s) \/ TurnAway(s) PROVE ServerInv'
  <2>1. UNCHANGED <<pc, running, sessions, timedOut, late>> /\ up' \subseteq up
    BY <1>3 DEF Accept, AcceptFails, TurnAway, procVars, obsVars
  <2>2. \A t : IsNext(t)' = IsNext(t)
    BY <2>1 DEF IsNext
  <2> QED
    BY <2>1, <2>2 DEF ServerInv
<1>4. ASSUME NEW s \in Listeners, Begin(s) \/ End(s) PROVE ServerInv'
  <2>1. /\ UNCHANGED <<pc, running, up, timedOut>>
        /\ \/ sessions[s] < Workers /\ sessions' = [sessions EXCEPT ![s] = @ + 1]
              /\ late' = IF s \notin up THEN late \cup {s} ELSE late
           \/ sessions[s] > 0 /\ sessions' = [sessions EXCEPT ![s] = @ - 1] /\ late' = late
    BY <1>4 DEF Begin, End, HasSlot, procVars, obsVars
  <2>2. sessions \in [Listeners -> 0..Workers]
    BY DEF ServerInv
  <2>3. sessions' \in [Listeners -> 0..Workers]
    BY <2>1, <2>2
  <2>4. \A t : IsNext(t)' = IsNext(t)
    BY <2>1 DEF IsNext
  <2>5. \A t \in Listeners \ running : sessions'[t] > 0 => t \in timedOut \cup late'
    BY <2>1, <2>2 DEF ServerInv
  <2> QED
    BY <2>1, <2>3, <2>4, <2>5 DEF ServerInv
<1>5. CASE CloseListener
  <2>1. PICK s \in running : IsNext(s) /\ up' = up \ {s}
    BY <1>5 DEF CloseListener
  <2>2. pc' = "wait" /\ UNCHANGED <<running, sessions, timedOut, late>>
    BY <1>5 DEF CloseListener, obsVars
  <2>3. \A t : IsNext(t)' = IsNext(t)
    BY <2>2 DEF IsNext
  <2>4. \A t \in running : IsNext(t) => t \notin up'
    BY <2>1, NextUnique DEF ServerInv
  <2> QED
    BY <2>1, <2>2, <2>3, <2>4 DEF ServerInv
<1>6. CASE Drained \/ TimesOut
  <2>1. PICK s \in running : /\ IsNext(s) /\ NextServer(s)
                             /\ \/ NoSessions(s) /\ timedOut' = timedOut
                                \/ timedOut' = timedOut \cup {s}
    BY <1>6 DEF Drained, TimesOut
  <2>2. /\ running' = running \ {s} /\ pc' = "drain" /\ UNCHANGED <<up, sessions, late>>
        /\ pc = "wait"
    BY <1>6, <2>1 DEF Drained, TimesOut, NextServer
  <2>3. s \notin up
    BY <2>1, <2>2 DEF ServerInv
  <2>4. sessions[s] > 0 => s \in timedOut' \cup late'
    BY <2>1, <2>2 DEF NoSessions
  <2> QED
    BY <2>1, <2>2, <2>3, <2>4 DEF ServerInv
<1> QED
  BY <1>1, <1>2, <1>3, <1>4, <1>5, <1>6 DEF Next, Loop

-----------------------------------------------------------------------------
\* The domains that cover a name differ in length, and Match takes the longest.
LEMMA MatchLemma ==
    ASSUME NEW store, store.domains \subseteq Domains, NEW name,
           NEW own, own = {d \in store.domains : IsPrefix(d, name)}
    PROVE  /\ own = {} => Match(store, name) = <<>>
           /\ own # {} => /\ Match(store, name) \in own
                          /\ Match(store, name) # <<>>
                          /\ \A e \in own : Len(Match(store, name)) >= Len(e)
<1>1. \A d \in Domains : Len(d) \in {1, 2} /\ d # <<>>
  BY DEF Domains
<1>2. ASSUME own # {} PROVE \E d \in own : \A e \in own : Len(d) >= Len(e)
  <2>1. CASE \E d \in own : Len(d) = 2
    BY <1>1, <2>1
  <2>2. CASE \A d \in own : Len(d) = 1
    BY <1>2, <2>2
  <2> QED
    BY <1>1, <2>1, <2>2
<1>3. ASSUME own # {}
      PROVE  /\ Match(store, name) \in own
             /\ \A e \in own : Len(Match(store, name)) >= Len(e)
  <2>1. Match(store, name) = CHOOSE d \in own : \A e \in own : Len(d) >= Len(e)
    BY <1>3 DEF Match
  <2> QED
    BY <1>2, <1>3, <2>1
<1>4. own = {} => Match(store, name) = <<>>
  BY DEF Match
<1> QED
  BY <1>1, <1>3, <1>4

\* A certificate is served to its own name.
LEMMA SniLemma == CertsInv => SniServed
<1> SUFFICES ASSUME CertsInv, NEW name
             PROVE  LET got == GetCertificate(certs, name)
                        own == {d \in certs.domains : IsPrefix(d, name)}
                    IN /\ got # <<>> => got \in certs.loaded
                       /\ own # {} /\ got # <<>> => got \in own
                       /\ \A d \in own : (\A e \in own : IsPrefix(e, d)) /\ d \in certs.loaded
                                            => got = d
  BY DEF SniServed
<1> DEFINE got == GetCertificate(certs, name)
           own == {d \in certs.domains : IsPrefix(d, name)}
<1>1. own # {} => /\ Match(certs, name) \in own /\ Match(certs, name) # <<>>
                  /\ \A e \in own : Len(Match(certs, name)) >= Len(e)
  BY MatchLemma DEF CertsInv
<1>2. got # <<>> => got \in certs.loaded
  BY DEF GetCertificate
<1>3. own # {} => got = IF Match(certs, name) \in certs.loaded THEN Match(certs, name) ELSE <<>>
  BY <1>1 DEF GetCertificate
<1>4. ASSUME NEW d \in own, \A e \in own : IsPrefix(e, d), d \in certs.loaded PROVE got = d
  <2>1. /\ Match(certs, name) \in own /\ IsPrefix(Match(certs, name), d)
        /\ Len(Match(certs, name)) >= Len(d)
    BY <1>1, <1>4
  <2>2. Len(Match(certs, name)) <= Len(d)
    BY <2>1 DEF IsPrefix
  <2>3. \A x, y \in Domains : Len(x) >= Len(y) /\ Len(x) <= Len(y) => x = y
    BY DEF Domains
  <2>4. Match(certs, name) = d
    BY <2>1, <2>2, <2>3 DEF CertsInv
  <2> QED
    BY <1>3, <1>4, <2>4
<1> HIDE DEF got, own
<1>5. own # {} /\ got # <<>> => got \in own
  BY <1>1, <1>3
<1> QED
  BY <1>2, <1>4, <1>5 DEF got, own

\* Every step keeps the invariant.
LEMMA DaemonStep == DaemonInv /\ [Next]_vars => DaemonInv'
  BY ShapeStep, CertsStep, ReloadStep, OfferStep, ServerStep DEF DaemonInv

\* The state keeps its shape: no server runs more sessions than it has slots,
\* and none accepts a connection that was not started or is shut down.
THEOREM TypeCorrect == Spec => []TypeOK
<1>1. DaemonInv => TypeOK
  BY DEF DaemonInv, Shape, Config, Stages, CertsInv, ServerInv, TypeOK
<1> QED
  BY <1>1, DaemonInit, DaemonStep, PTL DEF Spec

\* Signals that find the channel full are lost, and no reload is: in an idle
\* daemon with no signal waiting, the lookups, the certificates, the limiters
\* and the settings of every server are at least as new as the last SIGHUP that
\* did not fail, unless the API has put an older configuration back; what was
\* built at the start is not among them.
THEOREM ReloadsTakeEffectAlways == Spec => []ReloadsTakeEffect
<1>1. DaemonInv => ReloadsTakeEffect
  <2> SUFFICES ASSUME DaemonInv, pc = "idle", sig = "none", ~rolled
               PROVE  /\ \A part \in Parts \ {"built"} : InEffect(part) >= asked
                      /\ \A s \in running \cap Smtp : set[s].lim = limits
    BY DEF ReloadsTakeEffect
  <2>1. asked = took /\ running \subseteq Listeners
    BY DEF DaemonInv, ReloadInv, Unread, ServerInv
  <2>2. \A part \in {"lookups", "tls", "limiters"} : InEffect(part) >= took
    BY DEF DaemonInv, ReloadInv, ReadInv, AppliedInv, InEffect
  <2>3. \A s \in running : InEffect(s) >= took
    <3>1. \A s \in running : s \notin {"lookups", "tls", "limiters", "built"}
      <4>1. Listeners \subseteq {"smtp", "submission", "smtps", "imap", "imaps", "pop3", "pop3s"}
        BY DaemonAssumption, OrderLemma
      <4> QED
        BY <2>1, <4>1
    <3> QED
      BY <2>1, <3>1 DEF DaemonInv, ReloadInv, AppliedInv, InEffect
  <2> QED
    BY <2>1, <2>2, <2>3 DEF DaemonInv, ReloadInv, AppliedInv, Parts
<1> QED
  BY <1>1, DaemonInit, DaemonStep, PTL DEF Spec

\* An idle daemon offers STARTTLS exactly when it has a certificate, and every
\* name is served the certificate of the most specific domain that covers it,
\* whatever reloads, refreshes and edits came before.
THEOREM CertificatesServedAlways == Spec => []CertificatesServed
<1>1. DaemonInv => OffersMatchCertificates
  BY DEF DaemonInv, OfferInv, ServerInv, OffersMatchCertificates
<1>2. DaemonInv => CertificatesServed
  BY <1>1, SniLemma DEF DaemonInv, CertificatesServed
<1> QED
  BY <1>2, DaemonInit, DaemonStep, PTL DEF Spec

\* When the daemon is down, a session was cut short only if the Shutdown of
\* its server timed out or its connection was accepted before the listener
\* closed and counted after: Shutdown closes a listener before it waits.
THEOREM NoSessionCutShortAlways == Spec => []NoSessionCutShort
<1>1. DaemonInv => NoSessionCutShort
  BY DEF DaemonInv, ServerInv, NoSessionCutShort
<1> QED
  BY <1>1, DaemonInit, DaemonStep, PTL DEF Spec
=============================================================================
