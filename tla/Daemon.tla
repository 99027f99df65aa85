------------------------------- MODULE Daemon -------------------------------
(***************************************************************************)
(* The daemon, runDaemon of cmd/kavira/main.go: it starts the listeners,   *)
(* then its loop serves signals and the timer that refreshes certificates, *)
(* while the servers accept connections and the administrative API reloads *)
(* the configuration from a goroutine of its own.  With internal/config    *)
(* (Load, Manager), internal/tls (Store), internal/proc and the Serve and  *)
(* Shutdown of the SMTP, IMAP and POP3 servers, which are the same.        *)
(*                                                                         *)
(* A revision numbers what the operator has written to disk.  Each part of *)
(* the process has the revision it was made from: what callbacks look up   *)
(* (Manager.current), the settings of each server, the limiters, the TLS   *)
(* store, and what runDaemon builds once and never again.                  *)
(***************************************************************************)
EXTENDS Integers, Sequences, FiniteSets, SequencesExt

CONSTANTS
    Listeners,   \* the listeners that have an address
    Workers,     \* sessions a server runs at a time
    MaxEvents    \* bound: edits, signals, refreshes, API calls, connections

Order == <<"smtp", "submission", "smtps", "imap", "imaps", "pop3", "pop3s">>

ASSUME DaemonAssumption ==
    /\ Listeners \subseteq Range(Order)
    /\ Workers \in Nat \ {0}
    /\ MaxEvents \in Nat

Smtp     == {"smtp", "submission", "smtps"}
Implicit == {"smtps", "imaps", "pop3s"}   \* TLS from the first byte
Public   == {"smtp"}                      \* runs without a certificate

\* Domain names are sequences of labels from the right: "studenti.ente.it" is
\* <<"ente.it", "studenti">>.
Domains == {<<"ente.it">>, <<"ente.it", "studenti">>}

VARIABLES
    \* on disk
    disk,     \* [rev, valid, good, pem]
    \* the process
    pc,       \* boot, idle, loaded, apply, refresh, drain, wait, down
    sig,      \* the channel of signals, of capacity one
    mine,     \* the configuration the loop has loaded
    cur,      \* Manager.current
    built,    \* what is made at the start only: the revision it was made from
    certs,    \* Store: its revision, the domains it knows, those whose certificate loaded
    limits,   \* the limiters: the revision their rates come from
    api,      \* the API: off, idle, or holding the configuration it has loaded
    theirs,   \* that configuration
    \* the servers
    set,      \* their settings
    running,  \* the servers started and not yet shut down
    up,       \* servers that accept connections
    accepted, \* servers with a connection between Accept and wg.Add
    sessions, \* sessions by server: the WaitGroup
    events,   \* what has come from outside so far
    \* observations
    asked,    \* the revision of the newest SIGHUP, unless its load failed
    took,     \* the revision of the newest SIGHUP that loaded
    rolled,   \* an API reload has put an older configuration back since then
    timedOut, \* servers whose Shutdown gave up waiting
    late      \* servers that began a session after their Shutdown

procVars   == <<pc, sig, mine, cur, built, certs, limits, api, theirs>>
serverVars == <<set, running, up, accepted, sessions>>
obsVars    == <<asked, took, rolled, timedOut, late>>
vars == <<disk, procVars, serverVars, events, obsVars>>

-----------------------------------------------------------------------------
(***************************************************************************)
(* config.Load, and the certificate store                                  *)
(***************************************************************************)
\* A domain file that does not parse is skipped with a warning, like one that
\* is absent; good are the others.  One of those that validate refuses, and a
\* main file that is refused, refuse the whole configuration: it is not valid.
Loads(d) == d.valid

Load(d) == [rev |-> d.rev, served |-> d.good]

NoConfig == [rev |-> 0, served |-> {}]

\* Store.Reload
CertStore(cfg) ==
    [rev |-> cfg.rev, domains |-> cfg.served, loaded |-> cfg.served \cap disk.pem]

\* Match: the domain that serves a name, or none.
Match(store, name) ==
    LET fit == {d \in store.domains : IsPrefix(d, name)}
    IN IF fit = {} THEN <<>> ELSE CHOOSE d \in fit : \A e \in fit : Len(d) >= Len(e)

Hostname == <<"ente.it", "mail">>

\* GetCertificate: the domain whose certificate a handshake gets, or none.
GetCertificate(store, name) ==
    LET d == Match(store, name)
        e == IF d = <<>> THEN Match(store, Hostname) ELSE d
    IN IF e \in store.loaded THEN e ELSE <<>>

\* smtpSettings, imapSettings and pop3Settings: the revision of the host name,
\* the sizes and the container's identity, whether STARTTLS is offered, and in
\* an SMTP server the limiters.
Settings(cfg, store, lim) ==
    [s \in Listeners |->
        [rev |-> cfg.rev, starttls |-> s \notin Implicit /\ store.loaded # {},
         lim |-> IF s \in Smtp THEN lim ELSE 0]]

-----------------------------------------------------------------------------
Init ==
    /\ disk \in [rev : {1}, valid : {TRUE}, good : {Domains}, pem : {{}, Domains}]
    /\ pc = "boot"
    /\ sig = "none"
    /\ mine = NoConfig /\ theirs = NoConfig /\ cur = Load(disk)
    /\ built = cur.rev
    /\ certs = CertStore(cur)
    /\ limits = cur.rev
    /\ api = "off"
    /\ set = Settings(cur, certs, limits)
    /\ running = {} /\ up = {} /\ accepted = {}
    /\ sessions = [s \in Listeners |-> 0]
    /\ events = 0
    /\ asked = cur.rev /\ took = cur.rev /\ rolled = FALSE /\ timedOut = {} /\ late = {}

\* runDaemon up to its loop.  The blacklists, the scanner, the spam filter, the
\* reputation, the lockout, the queue, the addresses and the number of workers
\* are built here.  The listeners that take credentials start only when a
\* certificate has loaded, and so does the API if it is enabled.
Boot ==
    /\ pc = "boot"
    /\ pc' = "idle"
    /\ running' = {s \in Listeners : s \in Public \/ certs.loaded # {}}
    /\ up' = running'
    /\ api' \in IF certs.loaded # {} THEN {"idle", "off"} ELSE {"off"}
    /\ UNCHANGED <<disk, sig, mine, cur, built, certs, limits, theirs, set, accepted, sessions,
                   events, obsVars>>

\* A listener that cannot be opened ends the daemon.
BootFails ==
    /\ pc = "boot"
    /\ pc' = "down"
    /\ UNCHANGED <<disk, sig, mine, cur, built, certs, limits, api, theirs, serverVars,
                   events, obsVars>>

-----------------------------------------------------------------------------
(***************************************************************************)
(* The operator                                                            *)
(***************************************************************************)
Event == events < MaxEvents /\ events' = events + 1

Toggle(S, n) == (S \ {n}) \cup ({n} \ S)

Edit ==
    /\ Event
    /\ \/ \E n \in Domains :
             \/ disk' = [disk EXCEPT !.rev = @ + 1, !.good = Toggle(@, n)]
             \/ disk' = [disk EXCEPT !.pem = Toggle(@, n)]
       \/ disk' = [disk EXCEPT !.rev = @ + 1, !.valid = ~@]
    /\ UNCHANGED <<procVars, serverVars, obsVars>>

\* kavira reload and kavira stop.  A signal that finds the channel full is lost.
Signal(x) ==
    /\ pc \notin {"boot", "down"} /\ Event
    /\ sig' = IF sig = "none" THEN x ELSE sig
    /\ asked' = IF x = "HUP" THEN disk.rev ELSE asked
    /\ UNCHANGED <<disk, pc, mine, cur, built, certs, limits, api, theirs, serverVars,
                   took, rolled, timedOut, late>>

-----------------------------------------------------------------------------
(***************************************************************************)
(* SIGHUP: Manager.Reload, then the certificates, the limiters and every   *)
(* server                                                                  *)
(***************************************************************************)
HupLoads ==
    /\ pc = "idle" /\ sig = "HUP"
    /\ sig' = "none"
    /\ Loads(disk)
    /\ mine' = Load(disk)
    /\ asked' = disk.rev /\ took' = disk.rev
    /\ pc' = "loaded"
    /\ UNCHANGED <<disk, cur, built, certs, limits, api, theirs, serverVars, events,
                   rolled, timedOut, late>>

\* The previous configuration stays, and the error is logged and kept.
HupFails ==
    /\ pc = "idle" /\ sig = "HUP"
    /\ sig' = "none"
    /\ ~Loads(disk)
    /\ asked' = took
    /\ UNCHANGED <<disk, pc, mine, cur, built, certs, limits, api, theirs, serverVars, events,
                   took, rolled, timedOut, late>>

HupStores ==
    /\ pc = "loaded"
    /\ cur' = mine
    /\ mine' = NoConfig
    /\ rolled' = FALSE
    /\ pc' = "apply"
    /\ UNCHANGED <<disk, sig, built, certs, limits, api, theirs, serverVars, events,
                   asked, took, timedOut, late>>

\* Seeded fault: the servers get the settings they already had.
ConfigHeld == [cur EXCEPT !.rev = set[CHOOSE s \in Listeners : TRUE].rev]

\* What the loop passes on is what mgr.Get returns by then.
ConfigNow == cur

HupApplies ==
    /\ pc = "apply"
    /\ certs' = CertStore(ConfigNow)
    /\ limits' = ConfigNow.rev
    /\ set' = Settings(ConfigNow, certs', limits')
    /\ pc' = "idle"
    /\ UNCHANGED <<disk, sig, mine, cur, built, api, theirs, running, up, accepted, sessions,
                   events, obsVars>>

\* The timer: the certificates first, then the servers, with the same limiters.
Refresh ==
    /\ pc = "idle" /\ Event
    /\ certs' = CertStore(cur)
    /\ pc' = "refresh"
    /\ UNCHANGED <<disk, sig, mine, cur, built, limits, api, theirs, serverVars, obsVars>>

\* Seeded fault: the refresh leaves the servers alone.
RefreshedNothing == set

Refreshed == Settings(cur, certs, limits)

RefreshApplies ==
    /\ pc = "refresh"
    /\ set' = Refreshed
    /\ pc' = "idle"
    /\ UNCHANGED <<disk, sig, mine, cur, built, certs, limits, api, theirs, running, up,
                   accepted, sessions, events, obsVars>>

-----------------------------------------------------------------------------
(***************************************************************************)
(* POST /api/v1/reload: Manager.Reload and nothing else                    *)
(***************************************************************************)
ApiLoads ==
    /\ api = "idle" /\ pc # "down" /\ Event
    /\ Loads(disk)
    /\ theirs' = Load(disk)
    /\ api' = "holding"
    /\ UNCHANGED <<disk, pc, sig, mine, cur, built, certs, limits, serverVars, obsVars>>

ApiStores ==
    /\ api = "holding" /\ pc # "down"
    /\ cur' = theirs
    /\ theirs' = NoConfig
    /\ rolled' = (rolled \/ theirs.rev < cur.rev)
    /\ api' = IF pc \in {"drain", "wait"} THEN "off" ELSE "idle"
    /\ UNCHANGED <<disk, pc, sig, mine, built, certs, limits, serverVars, events,
                   asked, took, timedOut, late>>

-----------------------------------------------------------------------------
(***************************************************************************)
(* Serve                                                                   *)
(***************************************************************************)
\* Accept returns a connection.
Accept(s) ==
    /\ s \in up \ accepted /\ pc # "down" /\ Event
    /\ accepted' = accepted \cup {s}
    /\ UNCHANGED <<disk, procVars, set, running, up, sessions, obsVars>>

\* Accept fails, and Serve returns: the server stays down while the daemon runs.
AcceptFails(s) ==
    /\ s \in up \ accepted /\ pc # "down" /\ Event
    /\ up' = up \ {s}
    /\ UNCHANGED <<disk, procVars, set, running, accepted, sessions, obsVars>>

HasSlot(s) == sessions[s] < Workers

\* The connection takes a slot and becomes a session.
Begin(s) ==
    /\ s \in accepted /\ pc # "down"
    /\ HasSlot(s)
    /\ accepted' = accepted \ {s}
    /\ sessions' = [sessions EXCEPT ![s] = @ + 1]
    /\ late' = IF s \notin up THEN late \cup {s} ELSE late
    /\ UNCHANGED <<disk, procVars, set, running, up, events, asked, took, rolled, timedOut>>

\* No slot is free, or an SMTP server's limiter refuses the address.
TurnAway(s) ==
    /\ s \in accepted /\ pc # "down"
    /\ HasSlot(s) => s \in Smtp
    /\ accepted' = accepted \ {s}
    /\ UNCHANGED <<disk, procVars, set, running, up, sessions, events, obsVars>>

End(s) ==
    /\ sessions[s] > 0 /\ pc # "down"
    /\ sessions' = [sessions EXCEPT ![s] = @ - 1]
    /\ UNCHANGED <<disk, procVars, set, running, up, accepted, events, obsVars>>

-----------------------------------------------------------------------------
(***************************************************************************)
(* SIGTERM: the API is closed, then Shutdown of one server after another   *)
(***************************************************************************)
Term ==
    /\ pc = "idle" /\ sig = "TERM"
    /\ sig' = "none"
    /\ api' = IF api = "idle" THEN "off" ELSE api
    /\ pc' = "drain"
    /\ UNCHANGED <<disk, mine, cur, built, certs, limits, theirs, serverVars, events, obsVars>>

\* The server whose turn it is: they are shut down in the order they started.
Rank(s) == CHOOSE i \in DOMAIN Order : Order[i] = s

IsNext(s) == s \in running /\ \A t \in running : Rank(s) <= Rank(t)

CloseListener ==
    /\ pc = "drain"
    /\ \E s \in running : IsNext(s) /\ up' = up \ {s}
    /\ pc' = "wait"
    /\ UNCHANGED <<disk, sig, mine, cur, built, certs, limits, api, theirs, set, running, accepted,
                   sessions, events, obsVars>>

\* Seeded fault: Shutdown does not wait for the sessions.
NoSessionsAlways(s) == TRUE

NoSessions(s) == sessions[s] = 0

NextServer(s) ==
    /\ running' = running \ {s}
    /\ pc' = "drain"
    /\ UNCHANGED <<disk, sig, mine, cur, built, certs, limits, api, theirs, set, up, accepted,
                   sessions, events, asked, took, rolled, late>>

Drained ==
    /\ pc = "wait"
    /\ \E s \in running : IsNext(s) /\ NoSessions(s) /\ NextServer(s)
    /\ UNCHANGED timedOut

\* Seeded fault: Shutdown waits for ever.
TimesOutNever == \E s \in {} : NextServer(s) /\ UNCHANGED timedOut

\* Thirty seconds have passed.
TimesOut ==
    /\ pc = "wait"
    /\ \E s \in running : /\ IsNext(s) /\ ~NoSessions(s) /\ NextServer(s)
                          /\ timedOut' = timedOut \cup {s}

Exit ==
    /\ pc = "drain" /\ running = {}
    /\ pc' = "down"
    /\ UNCHANGED <<disk, sig, mine, cur, built, certs, limits, api, theirs, serverVars,
                   events, obsVars>>

Loop ==
    \/ HupLoads \/ HupFails \/ HupStores \/ HupApplies \/ RefreshApplies
    \/ Term \/ CloseListener \/ Drained \/ TimesOut \/ Exit

Next ==
    \/ Boot \/ BootFails \/ Edit \/ Loop \/ Refresh \/ ApiLoads \/ ApiStores
    \/ \E x \in {"HUP", "TERM"} : Signal(x)
    \/ \E s \in Listeners : Accept(s) \/ AcceptFails(s) \/ Begin(s) \/ TurnAway(s) \/ End(s)

\* The loop is a goroutine that is never blocked for good: a signal in the
\* channel is taken, and the wait of Shutdown ends by its timer.  Nothing is
\* asked of clients, who may keep a session open for ever.
Spec == Init /\ [][Next]_vars /\ WF_vars(Loop)

-----------------------------------------------------------------------------
(***************************************************************************)
(* Properties                                                              *)
(***************************************************************************)
\* The shape of the state: a server never runs more sessions than it has slots
\* (Serve), and only servers that were started accept connections.
TypeOK ==
    /\ pc \in {"boot", "idle", "loaded", "apply", "refresh", "drain", "wait", "down"}
    /\ sig \in {"none", "HUP", "TERM"}
    /\ cur.rev \in 1..disk.rev /\ cur.served \subseteq Domains
    /\ certs.loaded \subseteq certs.domains
    /\ sessions \in [Listeners -> 0..Workers]
    /\ up \subseteq running

\* The parts of the process that follow the configuration, and the revision each
\* was made from.
Parts == {"lookups", "tls", "limiters", "built"} \cup running

InEffect(part) ==
    CASE part = "lookups"  -> cur.rev     \* domains, users, thresholds: mgr.Get at each use
      [] part = "tls"      -> certs.rev
      [] part = "limiters" -> limits
      [] part = "built"    -> built
      [] OTHER             -> set[part].rev

\* A SIGHUP the channel dropped is not forgotten, and a failed one takes nothing
\* back: once the loop is idle and no signal waits, what is looked up, the
\* certificates, the limiters (which every SMTP server shares) and the settings
\* of every server are those of the last SIGHUP that did not fail, or newer.
\* There are two exceptions.  A reload by the API may read the files before and
\* store them after (Manager.Reload is not serialized).  And what is built at
\* the start stays as it was: blacklists, scanner, spam filter, reputation,
\* lockout, queue, addresses and workers do not follow a reload, although the
\* repository's README says at line 142 to apply any change with one.
ReloadsTakeEffect ==
    pc = "idle" /\ sig = "none" /\ ~rolled =>
        /\ \A part \in Parts \ {"built"} : InEffect(part) >= asked
        /\ \A s \in running \cap Smtp : set[s].lim = limits

\* Whatever the order of reloads and refreshes, an idle daemon offers STARTTLS
\* exactly when it has a certificate to answer with (updateAll).
OffersMatchCertificates ==
    pc = "idle" => \A s \in running \ Implicit :
                      set[s].starttls = (certs.loaded # {})

\* Across reloads, every name is served the certificate of the most specific
\* domain configured for it, and never that of another one; the host name's
\* stands in only for names no domain covers (Match, GetCertificate).
SniServed ==
    \A name \in {<<"ente.it">>, <<"ente.it", "mail">>, <<"ente.it", "studenti">>,
                  <<"ente.it", "studenti", "mail">>, <<"other.org">>} :
        LET got == GetCertificate(certs, name)
            own == {d \in certs.domains : IsPrefix(d, name)}
        IN /\ got # <<>> => got \in certs.loaded
           /\ own # {} /\ got # <<>> => got \in own
           /\ \A d \in own : (\A e \in own : IsPrefix(e, d)) /\ d \in certs.loaded => got = d

\* What the servers offer and what the store serves agree, at rest, with the
\* certificates the store has in memory, whatever reloads and refreshes came in
\* between: those on disk are read only by the next of these.
CertificatesServed == OffersMatchCertificates /\ SniServed

\* Shutdown "waits up to timeout for the running sessions to finish": when the
\* daemon is down, a session is cut short only if its server's wait timed out,
\* or if its connection had been accepted but not yet counted when the wait
\* ended (wg.Add follows Accept in another goroutine than wg.Wait).
NoSessionCutShort ==
    pc = "down" => \A s \in Listeners : sessions[s] > 0 => s \in timedOut \cup late

\* A SIGTERM that entered the channel ends the daemon, whatever reload is under
\* way and however long clients stay.
StopObeyed == sig = "TERM" ~> pc = "down"
=============================================================================
