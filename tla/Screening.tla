----------------------------- MODULE Screening -----------------------------
(***************************************************************************)
(* The screening of an incoming message: the Screen callback of            *)
(* cmd/kavira/main.go, which SMTP sessions call concurrently at DATA.  It  *)
(* runs DMARC, the DNS blacklist on the client's address, then the spam    *)
(* engine (heuristics, URI blacklist, classifier, antivirus).  The         *)
(* sessions share the cache of internal/blacklist and the message limiter  *)
(* that lets a message come this far.                                      *)
(*                                                                         *)
(* A blacklist query takes up to LookupTime ticks, Timeout for every zone; *)
(* nothing is locked meanwhile.                                            *)
(***************************************************************************)
EXTENDS RateLimit, MailChecks

CONSTANTS
    Sessions,    \* sessions at DATA
    TTL,         \* ticks an answer of a blacklist is cached
    LookupTime,  \* ticks a blacklist query may take
    CacheLimit,  \* entries before the cache is dropped (65536)
    TagScore, QuarantineScore, RejectScore,
    MaxTime      \* bound: ticks of the clock

\* config.go validate orders the thresholds.
ASSUME ScreenAssumption ==
    /\ TTL \in Nat /\ LookupTime \in Nat /\ CacheLimit \in Nat /\ MaxTime \in Nat
    /\ 0 < TagScore /\ TagScore <= QuarantineScore /\ QuarantineScore <= RejectScore

VARIABLES
    cfg,       \* the switches of the configuration
    corpus,    \* what the classifier was loaded with
    traffic,   \* who sends: one message of any kind, or plain or forged ones at any time
    cache,     \* blacklist.Checker.cache: name -> [listed, expires, asof]
    sess       \* the sessions

vars == <<now, rateVars, cfg, corpus, traffic, cache, sess>>

Nothing == [malformed |-> FALSE]

\* stage: idle, auth, dnsbl, analyze, uribl, decide, done.  asking: a query is
\* under way, since the given time.  age: how old the last answer was.
Free == [stage |-> "idle", mail |-> Nothing, action |-> Accept, tagged |-> FALSE,
         asking |-> FALSE, since |-> 0, age |-> 0, todo |-> <<>>, score |-> 0,
         dmarc |-> Accept, listed |-> FALSE, uribl |-> FALSE, bayes |-> 50,
         scanned |-> FALSE]

-----------------------------------------------------------------------------
(***************************************************************************)
(* The messages clients send                                               *)
(***************************************************************************)
PublicIPs == Keys
Literal == "127.9.9.9"   \* a URL with an address for a host

NoRecords == [d \in {"org", "sub", "other"} |-> NoRecord]

Plain(ip) ==
    [ip |-> ip, from |-> "org", spf |-> [domain |-> "org", pass |-> TRUE],
     dkim |-> {}, dns |-> NoRecords, unresolved |-> {}, malformed |-> FALSE, missing |-> {},
     fromRules |-> {}, subjectRules |-> {}, bodyRules |-> {}, short |-> FALSE,
     files |-> <<>>, uris |-> <<>>, words |-> {}, infected |-> FALSE]

\* A plain message, with the result of its SPF check and the policy of its domain.
Forged(ip, pass, p) ==
    [Plain(ip) EXCEPT !.spf.pass = pass,
                      !.dns["org"] = [p |-> p, sp |-> "", aspf |-> "relaxed",
                                      adkim |-> "relaxed", partial |-> FALSE]]

Records ==
    [p : {"none", "quarantine", "reject"}, sp : {"", "none", "quarantine", "reject"},
     aspf : {"strict", "relaxed"}, adkim : {"strict", "relaxed"}, partial : BOOLEAN]

Identifiers == [domain : {"org", "sub", "other"}, pass : BOOLEAN]

FromDomains == {"", "org", "sub"}
RecordDomains == {"org", "sub"}

Signatures ==
    {{}, {[domain |-> "org", pass |-> TRUE]},
     {[domain |-> "sub", pass |-> TRUE], [domain |-> "org", pass |-> FALSE]}}

AuthMail(ip, f, d, r, s, k) ==
    [Plain(ip) EXCEPT !.from = f, !.dns = [NoRecords EXCEPT ![d] = r], !.spf = s, !.dkim = k]

\* Every From domain, record, SPF result and pair of signatures.
AuthMails(ip) ==
    {AuthMail(ip, f, d, r, s, k) : f \in FromDomains, d \in RecordDomains,
                                   r \in Records, s \in Identifiers, k \in Signatures}

\* The record of a domain that has none, or asks for something, for its
\* subdomains too or not.
FewRecords ==
    {NoRecord} \cup {r \in Records : /\ r.p \in {"none", "reject"} /\ r.sp \in {"", "quarantine"}
                                    /\ r.aspf = "relaxed" /\ r.adkim = "relaxed" /\ ~r.partial}

UnresolvedMail(ip, f, sub, org, pass, u) ==
    [Plain(ip) EXCEPT !.from = f, !.dns = [NoRecords EXCEPT !["sub"] = sub, !["org"] = org],
                      !.spf = [domain |-> "org", pass |-> pass], !.unresolved = u]

\* The resolver does not answer about one domain or both.
UnresolvedMails(ip) ==
    {UnresolvedMail(ip, f, sub, org, pass, u) :
        f \in RecordDomains, sub \in FewRecords, org \in FewRecords, pass \in BOOLEAN,
        u \in {{"org"}, {"sub"}, {"org", "sub"}}}

\* The features of a content: does it parse, what it lacks and pretends, its
\* attachments, links and words, and whether the antivirus knows it.
Contents ==
    [malformed : BOOLEAN, missing : {{}, {"Date"}, {"Subject", "Message-ID", "To"}},
     fromRules : {{}, {"FROM_DISPLAY_NAME_SPOOF"}},
     files : {<<>>, <<"exe">>, <<"pdf", "pdf.exe">>},
     uris : {<<>>, <<"d1", "d1", "d2">>, <<Literal>>},
     words : {{}, {"new", "rare"}, {"new", "buy", "rare"}, {"buy", "meet", "new"}},
     infected : BOOLEAN]

\* The record of the domain of a forged message: none, or quarantine.
ForgedRecords(ip) == {NoRecord, Forged(ip, FALSE, "quarantine").dns["org"]}

ContentMail(ip, c, r) ==
    [Plain(ip) EXCEPT !.malformed = c.malformed, !.missing = c.missing,
                      !.subjectRules = {"SUBJECT_ALL_CAPS"}, !.fromRules = c.fromRules,
                      !.files = c.files, !.uris = c.uris, !.words = c.words,
                      !.infected = c.infected, !.spf.pass = FALSE, !.dns["org"] = r]

\* Contents that keep or break the rules, alone and together, from a domain
\* that has no DMARC record or whose forgery is to be quarantined.
ContentMails(ip) == {ContentMail(ip, c, r) : c \in Contents, r \in ForgedRecords(ip)}

Corpora ==
    LET Counts(h, s) == [ham |-> h, spam |-> s]
        Tokens == [new |-> Counts(0, 0), buy |-> Counts(0, 20),
                   meet |-> Counts(20, 0), rare |-> Counts(0, 2)]
    IN {[nHam |-> 20, nSpam |-> 20, tokens |-> Tokens],
        [nHam |-> 20, nSpam |-> 19, tokens |-> Tokens]}

AllOn == [ratelimit |-> TRUE, mailauth |-> TRUE, enforce |-> TRUE, blacklist |-> TRUE,
          rejectListed |-> TRUE, antispam |-> TRUE, rejectExecutables |-> TRUE]

Unlimited == [AllOn EXCEPT !.ratelimit = FALSE]

Switched == {AllOn} \cup {[AllOn EXCEPT ![s] = FALSE] : s \in DOMAIN AllOn}

Init ==
    /\ now = 0
    /\ RateInit
    /\ traffic \in {"any", "plain", "forged"}
    /\ cfg \in CASE traffic = "any" -> Switched
               [] traffic = "plain" -> {Unlimited}
               [] traffic = "forged" -> {AllOn}
    /\ corpus \in IF traffic = "any" THEN Corpora ELSE {CHOOSE c \in Corpora : TRUE}
    /\ cache = [n \in {} |-> 0]
    /\ sess = [s \in Sessions |-> Free]

Mails(ip) ==
    IF traffic = "plain" THEN {[Plain(ip) EXCEPT !.uris = u] : u \in {<<>>, <<"d1">>}}
    ELSE IF traffic = "forged" THEN {Forged(ip, FALSE, "reject")}
    ELSE IF cfg = AllOn THEN AuthMails(ip) \cup UnresolvedMails(ip) \cup ContentMails(ip)
    ELSE ContentMails(ip)

-----------------------------------------------------------------------------
(***************************************************************************)
(* cmdData asks the limiter; Screen begins                                 *)
(***************************************************************************)
\* A message over the limit is answered 421, and its session ends.  Without a
\* limiter every message is let through.
Admit(s, k, ok) ==
    /\ sess[s] = Free
    /\ traffic # "over" /\ traffic' = IF traffic = "any" THEN "over" ELSE traffic
    /\ IF cfg.ratelimit THEN Allow(k, ok) ELSE ok /\ UNCHANGED rateVars
    /\ IF ok THEN \E m \in Mails(k) :
                  sess' = [sess EXCEPT ![s].stage = "auth", ![s].mail = m]
       ELSE UNCHANGED sess
    /\ UNCHANGED <<now, cfg, corpus, cache>>

\* SPF, DKIM and DMARC; a reject settles it.
Authenticate(s, sampled) ==
    LET a == IF cfg.mailauth THEN CheckAuth(sess[s].mail, cfg.enforce, sampled) ELSE Accept
    IN /\ sess[s].stage = "auth"
       /\ sess' = [sess EXCEPT ![s].action = a, ![s].dmarc = a,
                               ![s].stage = IF a = Reject THEN "done" ELSE "dnsbl"]
       /\ UNCHANGED <<now, rateVars, cfg, corpus, traffic, cache>>

-----------------------------------------------------------------------------
(***************************************************************************)
(* The blacklists: blacklist.go, from Screen and from Engine.Check         *)
(***************************************************************************)
\* The name a session asks about, or none: the lists are off, the loop over
\* the links is over, or the link holds an address.
NoName == "none"

NameOf(w) ==
    CASE w.stage = "dnsbl" /\ cfg.blacklist /\ cfg.rejectListed -> w.mail.ip
      [] w.stage = "uribl" /\ cfg.blacklist /\ w.todo # <<>> /\ Head(w.todo) # Literal ->
            Head(w.todo)
      [] OTHER -> NoName

\* Seeded fault: an entry lives one tick past its time.
LiveOneMore(n) == n \in DOMAIN cache /\ now <= cache[n].expires + 1

\* cached
Live(n) == n \in DOMAIN cache /\ now <= cache[n].expires

\* store drops everything once there are more than CacheLimit entries.
Room(C) == IF Cardinality(DOMAIN C) > CacheLimit THEN [n \in {} |-> 0] ELSE C

\* What follows the answer.  A listed address is rejected; a listed link ends
\* the loop over the links, and a link named twice is asked about once.
Answered(w, listed, age) ==
    IF w.stage = "dnsbl"
    THEN [w EXCEPT !.asking = FALSE, !.age = age, !.listed = listed,
                   !.action = IF listed THEN Reject ELSE @,
                   !.stage = IF listed THEN "done" ELSE "analyze"]
    ELSE [w EXCEPT !.asking = FALSE, !.age = age, !.uribl = listed,
                   !.score = @ + IF listed THEN 25 ELSE 0,
                   !.todo = IF listed THEN <<>>
                            ELSE SelectSeq(@, LAMBDA d : d # Head(w.todo))]

\* The check needs no query: nothing to ask, or a live entry.
AnswerAtOnce(s) ==
    LET w == sess[s]
        n == NameOf(w)
    IN /\ w.stage \in {"dnsbl", "uribl"} /\ ~w.asking
       /\ \/ /\ n = NoName
             /\ sess' = [sess EXCEPT ![s] =
                   IF w.stage = "uribl" /\ (w.todo = <<>> \/ ~cfg.blacklist)
                   THEN [w EXCEPT !.stage = "decide", !.todo = <<>>]
                   ELSE Answered(w, FALSE, 0)]
          \/ /\ n # NoName /\ Live(n)
             /\ sess' = [sess EXCEPT ![s] =
                   Answered(w, cache[n].listed, now - cache[n].asof)]
       /\ UNCHANGED <<now, rateVars, cfg, corpus, traffic, cache>>

Ask(s) ==
    LET w == sess[s]
    IN /\ ~w.asking /\ NameOf(w) # NoName /\ ~Live(NameOf(w))
       /\ sess' = [sess EXCEPT ![s].asking = TRUE, ![s].since = now]
       /\ UNCHANGED <<now, rateVars, cfg, corpus, traffic, cache>>

\* The zones have answered.  No such name, a failure of the resolver and an
\* answer outside 127/8 all mean not listed, and are stored as that.
Store(s, listed) ==
    LET w == sess[s]
        e == [listed |-> listed, expires |-> now + TTL, asof |-> w.since]
    IN /\ w.asking
       /\ cache' = Put(Room(cache), NameOf(w), e)
       /\ sess' = [sess EXCEPT ![s] = Answered(w, listed, now - w.since)]
       /\ UNCHANGED <<now, rateVars, cfg, corpus, traffic>>

-----------------------------------------------------------------------------
(***************************************************************************)
(* Engine.Check and the verdict                                            *)
(***************************************************************************)
\* The heuristics, when the engine is on.
Analyze(s) ==
    LET w == sess[s]
    IN /\ w.stage = "analyze"
       /\ sess' = [sess EXCEPT ![s] =
             IF ~cfg.antispam THEN [w EXCEPT !.stage = "done"]
             ELSE [w EXCEPT !.stage = "uribl", !.score = Total(w.mail),
                            !.todo = UrisOf(w.mail)]]
       /\ UNCHANGED <<now, rateVars, cfg, corpus, traffic, cache>>

Clamp(x) == Min({100, Max({0, x})})

\* Seeded fault: a low score clears what DMARC asked for.
VerdictByScore(w, score, virus) ==
    IF \/ virus
       \/ BadAttachment(w.mail) /\ cfg.rejectExecutables
       \/ score >= RejectScore
    THEN Reject
    ELSE IF score >= QuarantineScore THEN Quarantine
    ELSE Accept

\* The disposition of a scored message.  A message already quarantined stays so.
Verdict(w, score, virus) ==
    IF \/ virus
       \/ BadAttachment(w.mail) /\ cfg.rejectExecutables
       \/ score >= RejectScore
    THEN Reject
    ELSE IF score >= QuarantineScore THEN Quarantine
    ELSE w.action

\* The classifier, the antivirus and the verdict.  A scan that fails is no
\* finding: reject_on_error is read from the file and never looked at.
Decide(s, scanned) ==
    LET w == sess[s]
        virus == scanned /\ w.mail.infected
        Score(p) == IF virus THEN 100 ELSE Clamp(w.score + BayesPoints(p))
        probs == BayesScores(corpus, w.mail.words)
    IN /\ w.stage = "decide"
       /\ \E p \in IF probs = {} THEN {50} ELSE probs :
             sess' = [sess EXCEPT ![s].stage = "done", ![s].bayes = p, ![s].scanned = scanned,
                                  ![s].tagged = Score(p) >= TagScore,
                                  ![s].action = Verdict(w, Score(p), virus)]
       /\ UNCHANGED <<now, rateVars, cfg, corpus, traffic, cache>>

\* DATA is answered.
Leave(s) ==
    /\ sess[s].stage = "done"
    /\ sess' = [sess EXCEPT ![s] = Free]
    /\ UNCHANGED <<now, rateVars, cfg, corpus, traffic, cache>>

\* Time passes; a query does not outlast its timeout.
Tick ==
    /\ traffic \in {"plain", "forged"} /\ now < MaxTime
    /\ \A s \in Sessions : sess[s].asking => now < sess[s].since + LookupTime
    /\ now' = now + 1
    /\ RateTick
    /\ UNCHANGED <<cfg, corpus, traffic, cache, sess>>

Next ==
    \/ \E s \in Sessions :
        \/ \E k \in Keys, ok \in BOOLEAN : Admit(s, k, ok)
        \/ \E sampled \in BOOLEAN : Authenticate(s, sampled)
        \/ AnswerAtOnce(s) \/ Ask(s) \/ Analyze(s) \/ Leave(s)
        \/ \E listed \in BOOLEAN : Store(s, listed)
        \/ \E scanned \in BOOLEAN : Decide(s, scanned)
    \/ Tick

Spec == Init /\ [][Next]_vars

Symmetry == Permutations(Keys) \cup Permutations(Sessions)

-----------------------------------------------------------------------------
(***************************************************************************)
(* Properties                                                              *)
(***************************************************************************)
\* The shape of the state: tokens never go below zero, the cache is at most one
\* entry over its limit and nothing in it is from the future, and a query under
\* way has a name to ask about.
TypeOK ==
    /\ now \in 0..MaxTime
    /\ RateTypeOK
    /\ Cardinality(DOMAIN cache) <= CacheLimit + 1
    /\ \A n \in DOMAIN cache : cache[n].asof \in 0..now
                               /\ cache[n].expires \in 0..(MaxTime + TTL)
    /\ \A s \in Sessions : sess[s].action \in {Accept, Quarantine, Reject}
                           /\ sess[s].asking => NameOf(sess[s]) # NoName

\* An answer a session acts on was true of the lists at most TTL plus the time
\* of a query ago, also when a slow query of another session overwrote a newer
\* entry, and also when it was a failed query that was stored as "not listed".
AnswersFresh == \A s \in Sessions : sess[s].age <= TTL + LookupTime

\* The action a policy stands for.
ActionOf(p) == CASE p = "reject" -> Reject [] p = "quarantine" -> Quarantine [] OTHER -> Accept

\* What the owner of the From domain asks for, as RFC 7489 has it: its own
\* record, or else that of its organization with the policy for subdomains.
Published(m) ==
    LET own == m.dns[m.from]
        top == m.dns[OrgDomain(m.from)]
    IN ActionOf(CASE own # NoRecord -> own.p
                  [] own = NoRecord /\ top # NoRecord -> IF top.sp = "" THEN top.p ELSE top.sp
                  [] OTHER -> "none")

Sender(m) == IF m.dns[m.from] # NoRecord THEN m.dns[m.from] ELSE m.dns[OrgDomain(m.from)]

\* No query that decides which record is in force failed.
Resolved(m) ==
    /\ m.from \notin m.unresolved
    /\ m.dns[m.from] = NoRecord => OrgDomain(m.from) \notin m.unresolved

\* The domains that vouch for a message under a record.
Vouched(m, rec) ==
    LET by(mode, ids) == {d \in {"org", "sub"} :
            /\ mode = "strict" => d = m.from
            /\ \E i \in ids : i.pass /\ i.domain = d}
    IN by(rec.aspf, {m.spf}) \cup by(rec.adkim, m.dkim)

\* What an organization asks for a message from a subdomain no domain vouches for.
OrgAsks(m) ==
    LET top == m.dns[OrgDomain(m.from)]
    IN IF Vouched(m, top) # {} THEN Accept ELSE ActionOf(IF top.sp = "" THEN top.p ELSE top.sp)

\* DMARC does what the owner of the From domain published: a message a domain
\* vouches for in the published mode is never held back, a forged one gets the
\* policy for that very name, and sampling softens it by one level at most.
\* When a query fails the message is accepted ("A DNS temporary failure during
\* DMARC evaluation degrades to Accept", mailauth.go), but for one case in
\* which the code does otherwise: the query about a subdomain fails and the
\* one about its organization does not; then the message gets no worse than
\* what the organization asks for its subdomains, whatever the subdomain itself
\* published.
PolicyAsPublished ==
    \A s \in Sessions :
        LET w == sess[s]
            m == w.mail
        IN w.stage \notin {"idle", "auth"} /\ m.from # "" /\ cfg.mailauth /\ cfg.enforce =>
            IF ~Resolved(m)
            THEN w.dmarc > Accept => /\ m.from # OrgDomain(m.from)
                                     /\ Answers(m, OrgDomain(m.from))
                                     /\ w.dmarc <= OrgAsks(m)
            ELSE IF Sender(m) = NoRecord \/ Vouched(m, Sender(m)) # {} THEN w.dmarc = Accept
            ELSE \/ w.dmarc = Published(m)
                 \/ Sender(m).partial /\ w.dmarc = Max({Accept, Published(m) - 1})

\* The outcome is the strictest that any finding calls for, and no stricter:
\* no later check undoes a quarantine, no classifier talks a listed address,
\* malware or a refused attachment through (Screen, Engine.Check), and "novel
\* vocabulary alone cannot condemn a message" (bayes.go): words the corpus has
\* hardly seen count for nothing at most.  Two findings the documents promise
\* are none: the attachments of a message whose header does not parse are not
\* looked at (AnalyzeHeaders returns first), and a scan that fails neither
\* refuses nor defers the message, whatever reject_on_error says.
VerdictIsWorst ==
    \A s \in Sessions :
        LET w == sess[s]
            m == w.mail
            novel == \A t \in m.words : corpus.tokens[t].ham + corpus.tokens[t].spam < 3
            bayes == IF novel THEN Min({50, w.bayes}) ELSE w.bayes
            score == Clamp(Total(m) + (IF w.uribl THEN 25 ELSE 0) + BayesPoints(bayes))
            scored == IF score >= RejectScore THEN Reject
                      ELSE IF score >= QuarantineScore THEN Quarantine ELSE Accept
            engine == IF ~cfg.antispam \/ w.listed \/ w.dmarc = Reject THEN Accept
                      ELSE IF w.scanned /\ m.infected THEN Reject
                      ELSE IF ~m.malformed /\ cfg.rejectExecutables
                              /\ \E i \in DOMAIN m.files : m.files[i] # "pdf" THEN Reject
                      ELSE scored
        IN w.stage = "done" =>
            w.action = Max({w.dmarc, IF w.listed THEN Reject ELSE Accept, engine})
=============================================================================
