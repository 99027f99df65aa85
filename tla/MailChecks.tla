----------------------------- MODULE MailChecks -----------------------------
(***************************************************************************)
(* What the checks of an incoming message compute from its content:        *)
(* internal/mailauth (DMARC over the results of SPF and DKIM) and          *)
(* internal/antispam (heuristics, Bayesian classifier, score).  A message  *)
(* is a record of the features these checks tell apart; SPF and DKIM       *)
(* themselves are libraries, and their results are such features.          *)
(***************************************************************************)
EXTENDS Integers, Sequences, FiniteSets, FiniteSetsExt

CONSTANTS
    Significant,     \* tokens the classifier combines (15)
    MinTrained,      \* messages of each class before it has an opinion (20)
    BayesWeight      \* points of a certain verdict (60)

ASSUME ChecksAssumption ==
    Significant \in Nat \ {0} /\ MinTrained \in Nat /\ BayesWeight \in Nat

-----------------------------------------------------------------------------
(***************************************************************************)
(* DMARC.  "sub" is a subdomain of "org"; the empty name is a From header  *)
(* that is missing, unparsable or of several addresses.                    *)
(***************************************************************************)
Accept     == 0
Quarantine == 1
Reject     == 2

\* publicsuffix.EffectiveTLDPlusOne, as orgDomain uses it.
OrgDomain(d) == IF d = "sub" THEN "org" ELSE d

\* No record is published.
NoRecord == [p |-> "absent"]

\* Seeded fault: the alignment mode is not looked at.
AlignedLoosely(d, from, mode) == OrgDomain(d) = OrgDomain(from)

Aligned(d, from, mode) ==
    d = from \/ (mode = "relaxed" /\ OrgDomain(d) = OrgDomain(from))

\* dmarc.LookupWithOptions returned no error.  m.dns is what the domains
\* publish; the queries about the domains in m.unresolved fail.
Answers(m, d) == d \notin m.unresolved /\ m.dns[d] # NoRecord

\* lookupDMARC: the record in force, and whether it is the organization's.  A
\* query that failed is taken for a record that is not there.
LookupDMARC(m, domain) ==
    IF Answers(m, domain) THEN [rec |-> m.dns[domain], org |-> FALSE]
    ELSE IF OrgDomain(domain) # domain /\ Answers(m, OrgDomain(domain))
    THEN [rec |-> m.dns[OrgDomain(domain)], org |-> TRUE]
    ELSE [rec |-> NoRecord, org |-> FALSE]

\* evaluateDMARC finds a passing identifier that is aligned with From.
Passes(m, rec) ==
    \/ m.spf.pass /\ Aligned(m.spf.domain, m.from, rec.aspf)
    \/ \E d \in m.dkim : d.pass /\ Aligned(d.domain, m.from, rec.adkim)

\* The policy of a failing message; sampled is the draw of pct=.
PolicyOf(found, sampled) ==
    LET p == IF found.org /\ found.rec.sp # "" THEN found.rec.sp ELSE found.rec.p
    IN IF sampled \/ ~found.rec.partial THEN p
       ELSE IF p = "reject" THEN "quarantine" ELSE "none"

\* Checker.Check: the action on the message.
CheckAuth(m, enforce, sampled) ==
    LET found == LookupDMARC(m, m.from)
    IN IF \/ m.from = "" \/ ~enforce
          \/ found.rec = NoRecord \/ Passes(m, found.rec)
       THEN Accept
       ELSE CASE PolicyOf(found, sampled) = "reject" -> Reject
              [] PolicyOf(found, sampled) = "quarantine" -> Quarantine
              [] OTHER -> Accept

-----------------------------------------------------------------------------
(***************************************************************************)
(* The heuristics (rules.go)                                               *)
(***************************************************************************)
Points ==
    [MALFORMED_HEADERS |-> 15, NO_MESSAGE_ID |-> 8, NO_DATE |-> 5,
     NO_FROM |-> 12, NO_RECIPIENT_HEADER |-> 6,
     MULTIPLE_FROM_ADDRESSES |-> 10, FROM_DISPLAY_NAME_SPOOF |-> 20,
     NO_SUBJECT |-> 4, SUBJECT_ALL_CAPS |-> 6, SUBJECT_EXCESS_EXCLAMATION |-> 5,
     EXCESSIVE_LINKS |-> 6, URL_IS_RAW_IP |-> 12, SPACED_OUT_TEXT |-> 8,
     BODY_ALL_CAPS |-> 5, SHORT_BODY_WITH_LINK |-> 5]

Executable     == 50
DoubleExtension == 30

\* AnalyzeHeaders.  The features of a message are its missing headers, the
\* rules its From, its Subject and its body give rise to, and its attached
\* files: "exe", "pdf.exe" or harmless.  What a missing header cannot break is
\* not held against it, and a message that does not parse breaks one rule.
RulesOf(m) ==
    IF m.malformed THEN {"MALFORMED_HEADERS"}
    ELSE {"NO_MESSAGE_ID" : x \in m.missing \cap {"Message-ID"}}
         \cup {"NO_DATE" : x \in m.missing \cap {"Date"}}
         \cup {"NO_RECIPIENT_HEADER" : x \in m.missing \cap {"To"}}
         \cup (IF "From" \in m.missing THEN {"NO_FROM"} ELSE m.fromRules)
         \cup (IF "Subject" \in m.missing THEN {"NO_SUBJECT"} ELSE m.subjectRules)
         \cup m.bodyRules
         \cup (IF m.uris # <<>> /\ m.short THEN {"SHORT_BODY_WITH_LINK"} ELSE {})

FilesOf(m) == IF m.malformed THEN <<>> ELSE m.files

UrisOf(m) == IF m.malformed THEN <<>> ELSE m.uris

BadAttachment(m) == \E i \in DOMAIN FilesOf(m) : FilesOf(m)[i] \in {"exe", "pdf.exe"}

Total(m) ==
    MapThenSumSet(LAMBDA r : Points[r], RulesOf(m))
    + MapThenSumSet(LAMBDA i : CASE FilesOf(m)[i] = "exe" -> Executable
                                 [] FilesOf(m)[i] = "pdf.exe" -> Executable + DoubleExtension
                                 [] OTHER -> 0,
                    DOMAIN FilesOf(m))

-----------------------------------------------------------------------------
(***************************************************************************)
(* The classifier (bayes.go).  A corpus counts, for every token, the ham   *)
(* and the spam that held it.  Probabilities are whole percents.           *)
(***************************************************************************)
MinOccurrences == 3
UnknownProb    == 40
ProbFloor      == 1
ProbCeil       == 99

Ready(corpus) == corpus.nHam >= MinTrained /\ corpus.nSpam >= MinTrained

Known(c) == c.ham + c.spam >= MinOccurrences

\* Ham counts double; both shares are at most one.
TokenProb(corpus, t) ==
    LET c == corpus.tokens[t]
        g == Min({100, (c.ham * 200) \div Max({corpus.nHam, 1})})
        s == Min({100, (c.spam * 100) \div Max({corpus.nSpam, 1})})
        p == IF g + s > 0 THEN (s * 100) \div (g + s) ELSE UnknownProb
    IN IF Known(c) THEN Max({ProbFloor, Min({ProbCeil, p})}) ELSE UnknownProb

Distance(p) == IF p > 50 THEN p - 50 ELSE 50 - p

\* The tokens Score may keep: the most decisive ones.  Their order is that of a
\* Go map sorted by distance alone, so that equal distances are kept or dropped
\* at random.
Decisive(corpus, toks) ==
    {S \in SUBSET toks :
        /\ Cardinality(S) = Min({Significant, Cardinality(toks)})
        /\ \A t \in S, u \in toks \ S :
              Distance(TokenProb(corpus, t)) >= Distance(TokenProb(corpus, u))}

\* prod / (prod + prod of the complements), which the code computes from logs.
Combine(corpus, S) ==
    LET Product(F(_)) == FoldSet(LAMBDA t, acc : acc * F(t), 1, S)
        spam == Product(LAMBDA t : TokenProb(corpus, t))
        ham  == Product(LAMBDA t : 100 - TokenProb(corpus, t))
    IN (spam * 100) \div (spam + ham)

\* Bayes.Score: the probabilities it may return; none when it has no opinion.
BayesScores(corpus, toks) ==
    IF ~Ready(corpus) \/ toks = {} THEN {}
    ELSE {Combine(corpus, S) : S \in Decisive(corpus, toks)}

\* What an opinion adds to the score: nothing at fifty percent.
BayesPoints(p) == ((p - 50) * 2 * BayesWeight) \div 100
=============================================================================
