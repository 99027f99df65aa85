# Kavira in TLA+

Kavira is a mail server in one Go process: SMTP in and out, IMAP, POP3, Maildir
storage, an outbound queue, and the checks around them (authentication, rate
limits, reputation, spam and virus filtering, DKIM/SPF/DMARC). This project
models the parts that carry its own state, checks them with TLC on small
instances (40 properties in eleven passing runs), and proves with TLAPS, for every instance, every safety property
among them: 37 of the 40, with the type invariants of nine modules (section 5). The three that are left are liveness
properties.

Paths below are relative to the repository (`internal/...`, `cmd/...`); `PROJECT.json` maps
every definition to its lines.

## 1. Inventory

| Component | State it keeps | Operations | Why it is hard |
|---|---|---|---|
| Outbound queue (`internal/queue`) | one JSON file per recipient; nothing in memory survives a pass | `Enqueue`, `Due`, `Update`, `Remove`; `Scheduler.Process/attempt`; `SMTPTransport.Deliver/trySend`; `bounceFn` | crash between any two disk or network steps; errors that are only logged; a pass works on a snapshot |
| Maildir (`internal/maildir`) | files in `new/` and `cur/` whose names are the flags, `kavira-uidlist`, and a `Mailbox` view per session | `Deliver`, `OpenMailbox`, `Refresh`, `SetFlags`, `Expunge`, `Append`, `CopyTo`, folders | no lock at all between sessions of an account |
| SMTP server (`internal/smtp`) | per session: mode, TLS, HELO, user, reverse-path, recipients | the command set, `Serve`, `Update`, `Shutdown` | long command sequences; reload under a running transaction; partial delivery |
| Authentication (`internal/auth`) | `Guard.entries`: failures and locks by user and by address | `Verify`; `Blocked`, `Fail`, `Success`, `prune` | check, slow password hash, count: three critical sections, many callers |
| Reputation and warm-up (`internal/reputation`) | a record per user and domain, a JSON file | `Record`, `Blocked`, `AllowSend`, `DailyLimit`, `Save`, `Open` | gate at the start of DATA, count at its end; decay; saved at intervals and at SIGTERM |
| POP3 server (`internal/pop3`) | per session: user, frozen view, marks | `USER`, `PASS`, `STLS`, `RETR`, `DELE`, `RSET`, `QUIT` | the view is hours old when QUIT acts on it |
| IMAP server (`internal/imap`) | per session: state, selected `Mailbox`, read-only mode | the IMAP command set, IDLE, MOVE; parsers of sets, patterns, criteria, sections | other sessions rename and remove files under a view; a MOVE is many steps; a number means a message only if both ends count alike |
| Daemon (`cmd/kavira/main.go`) | configuration pointer, listeners, signal channel of capacity one, tickers | start, SIGHUP, certificate refresh, SIGTERM, the backend callbacks | order of stopping and saving; settings swapped under sessions; signals that are dropped |
| Rate limiting (`internal/ratelimit`) | token buckets by address or user | `Allow`, `prune` | limits, refill of fractions, pruning at capacity |
| DNS blacklist (`internal/blacklist`) | cache of answers | `ListedIP`, `ListedDomain` | slow concurrent queries, expiry, a resolver that fails |
| Screening (`Screen` in `main.go`, `internal/mailauth`, `internal/antispam`, `internal/antivirus`) | corpus of the classifier | DMARC, blacklist, heuristics, classifier, scan, verdict | several checks write one verdict; policy and alignment rules |
| Configuration, TLS store (`internal/config`, `internal/tls`) | atomic pointer; certificates by domain | `Load`, `Reload`; `Match`, `GetCertificate` | reloads from two goroutines; readers during the swap |
| API, status, processes | none of their own | reload, reports, signals | the reload |
| DKIM signing, checks, bootstrap, container, logging, paths | none | text, cryptography, one-shot tools | input and output |

Interactions. SMTP sessions call the backend closures of `main.go`: `Deliver` (Maildir),
`Enqueue` (queue), `MaySend`/`Sent` (reputation), `Authenticate`. The
scheduler calls `bounceFn`, which records a bounce in the reputation store and
delivers a notification into the sender's Maildir. IMAP and POP3 sessions
share nothing but the files of the account and the `Guard`. SIGHUP swaps the configuration
pointer and every server's settings; SIGTERM stops the scheduler's ticker, saves the state, then drains
the servers. `Screen` runs at DATA in every inbound session at once; the sessions share its blacklist
cache and the limiters.

What makes each part correct, in short: the queue loses nothing and repeats only what a
fault explains; UIDs never name two messages and expunge removes only what is
flagged; nothing is relayed without authentication and a message reaches only
its own recipients; the lockout bounds guessing under concurrency; the warm-up
cap is exceeded only by what is in flight and what a dying process forgot, and a burned sender recovers; POP3 deletes
only what was asked; an IMAP client's numbers mean the server's messages and a MOVE loses none; Screen's
verdict is the strictest one any check that could be made calls for; the last SIGHUP takes effect in everything that is not built once, and
a stop is obeyed. `PROJECT.json` lists the hazards line by line.

## 2. Plan

1. (done) `Queue`, its abstract specification `QueueContract`, and `QueueProofs`.
2. (done) `Mailbox`, `SmtpServer`, `AuthGuard`, `Reputation`, `Pop3`, with their runs.
3. (done) `ImapSession` over the files of an account, and `ImapText`, the parsers of `internal/imap`
   and the maildir names against reference definitions.
4. (done) `RateLimit`, `MailChecks`, and `Screening`, which composes them with the blacklist cache and the
   order of the checks.
5. (done) `Daemon`: start, SIGHUP, refresh, API reload and SIGTERM over listeners, TLS store and configuration.
6. (done) Proofs about `Reputation`, `SmtpServer`, `Mailbox`, `Pop3`, `Daemon` and `Screening`, each in a
   module of its own.
7. (done) `AccessProofs`: the lockout, the IMAP sessions and the text of their commands.
8. Not begun: durable storage, that is, power loss instead of process death for `queue.write`,
   `writeUIDList`, `Store.Save` and `maildir.Deliver`.

The map covers about two fifths of the implementation's lines; section 6 says what the rest is.

## 3. Modules

Definitions named in a comment as a *seeded fault* are never part of `Next`: each is
a plausible wrong version of the definition after it, kept to show that a
property would notice it (`mutants` in `PROJECT.json`). `TypeOK` of each module says what shape its
state has; for the queue it is checked and proved, elsewhere it is proved, and adding
it to a configuration checks it. `AuthGuard` calls it `AuthTypeOK`, and its specification `AuthSpec`; that of `ImapText` is `TextSpec`, and what its
state looks like is `TextInv` of `AccessProofs`.

### Queue and QueueContract

`files`, `from`, `att` and `wait` are the queue directory: the envelopes that have a JSON
file, with `From`, `Attempts` and `NextAttempt`. The identifier of an envelope is the order of its creation, so the
"oldest first" sort of `load` is the order of numbers. `NextAttempt` is kept as
the minutes still to wait, and `elapsed` is how long ago the running pass read its own `now`, from which
`attempt` computes the next delay; no clock needs a bound. `due`, `memAtt`,
`cur`, `hosts` and `pc` are the scheduler goroutine: the copies a pass works
on, and the place in `attempt`, `Deliver` and `trySend`.

Every step is one disk or network operation, so `Crash` can come between any
two. `Crash` is also SIGTERM: the daemon closes `schedStop` and does not wait
for a pass. `RemoveFails`, `UpdateFails`, `ProcessSkips`, `SendUnanswered` (the host took the message, and its
answer to the final dot or to QUIT never came) and the
failing branch of `Bounce` are the error paths the code logs or drops. `Reload` lets the
senders' domain leave the configuration, so that `bounceFn` finds no
mailbox. Remote hosts answer anything at any time. `copies`, `dsn`,
`dropped`, `penalties`, `refused`, `tries`, `redo` and `unanswered` only observe.

`QueueContract` is what the queue promises: a message is held from its acceptance until
it is let go of, it is let go of only when settled (taken by a host, sender
notified, or nobody to notify), and it never comes back. `ContractHolds`
instantiates it with the directory as the held messages.

### Mailbox

The INBOX of an account: `loc`, `flags` and `mtime` of every message file, `list` and
`tmp` (`kavira-uidlist` and its temporary file, one name for all writers), and
for each session a `Mailbox` object (`view`, `validity`, and `scan` while a
`Refresh` runs). A step is one system call: reading the list, listing each directory, writing and renaming the list, one rename, one
removal. Only the stats of a directory's entries are taken together,
as one step after its listing: a file that went in between is missed either way. A failed rename of the list is followed
by the removal of the temporary file. `LoseList` is damage to the list from outside, the case
`readUIDList` is written for.
A `Refresh` keeps the control of the code: unknown names get UIDs in order of
modification time, entries are pruned only when something was assigned, the view is
installed before the list is written. `seen` collects every UIDVALIDITY, UID and
message a client could have been told.

### SmtpServer

Sessions on the inbound and the two submission ports with everything `session` keeps; one action
per command. DATA is cut at the calls it makes: gate, body, `Screen`, one `Deliver` or
`Enqueue` per recipient, the answer. A transaction gets a number at its
accepted MAIL, and the observations (recipients answered 250, copies, failures,
verdict, answer) go by that number. Rate limits, `Screen` and `MaySend` may answer
either way at any time. Reload swaps the hosted domains and `max_recipients` at any point.

### AuthGuard

`Verify` as its separate critical sections: `Blocked(user)`, `Blocked(ip)`, the password check, `Fail`
or `Success` for user and for address. `lock` is what is left of a lock and `idle`
what has passed since the last failure, up to the quiet period. A call that ends is free to start
again with any user and address. Whether a password is right is a free choice.

### Reputation

The record of one domain in memory and on disk, sessions between `MaySend` and `Sent`,
bounces, `Save`, which may fail and then leaves the record marked, and the daemon's phases: up, draining after SIGTERM, down.
`today` observes what was really sent since the day began, and how much of it was counted in memory only when the
process died. Time in half
days, scores in half points. `get` is applied by every reader, as in the code, and decay and rollover act
only there. The warm-up ramp is computed in integers with the floor that
`uint64(f*float64(d))` takes.

### Pop3

One session against the files of the accounts it logs in to, while mail arrives and other sessions
rename and remove. `msgs` is the frozen view with the file names it knows; QUIT is cut into
its renames and removals. A rename fails because another session renamed the file (`missed`) or with the file in place (`unflagged`); the code
logs both and goes on. A view is in order of UID, which for one folder is order of delivery.

### ImapText

The text of an IMAP command, one kind of argument per state: a sequence set, a LIST pattern and a folder, the criteria of a
SEARCH, a message cut into header and body, header lines, FETCH items, a quoted string, a maildir name. The
client types it piece by piece, so every input up to the bounds is a state. The operators keep the control
flow of the parsers (the order in which `headerOf` looks for the two kinds of blank line, the depth count of
`splitItems`, the index that `search` moves from inside a closure); characters and keywords are abstract. Criteria are plain ones (a key
with its words, NOT before a key without) and nested ones (NOT before a key with words or before NOT, OR with two keys); the reference takes the
plain ones as RFC 3501 means them (`Meant`) and the nested ones as the code does (`Taken`).

### ImapSession

Sessions of one account over two folders: `files` and `order` (names with flags, and the UID list), and for each
session its state, the selected folder with its snapshot `view`, and the place `op` in a running APPEND, COPY or MOVE. A step is one
maildir call, except `Refresh`, which takes no lock: it runs in one step when nobody comes in between, and otherwise `StartRefresh` keeps in
`read` the list and the files it has seen, others act, and the rest of the command (SELECT, STATUS, a poll, the end of APPEND or of a copy)
makes its view and its list of that and writes the list over whatever is there by then. List and directories are read in one step; what a
file seen half way, or a list read just before, can do is
the same clash, or a file renamed by another session. `Mailbox` takes the calls further apart; here the question is which message a number
means and which file a
snapshot's name still finds. STORE, FETCH and COPY keep nothing between two messages and are taken message by
message; MOVE copies all, flags all and expunges, and can fail or be cut short at each step. IDLE is its
poll. `told` is what a client that counts along takes its numbers for, and becomes `Lost` once another
session renamed or removed files of the mailbox, a file operation failed, or two Refreshes clashed: one ended on a list that does not
continue the other's (`Agrees`, `Clash`).
Two Refreshes that overlap and agree are no clash, and the client has to be right then; `doomed` and
`copied` collect what a removal may be justified by.

### RateLimit, MailChecks, Screening

`RateLimit` is one `Limiter` in whole units (a token is `Window` units, so the refill is exact), with two observations:
`ideal`, the buckets had none been pruned, and `granted`, what each key was allowed in the last 0, 1, ... `Window` ticks. `MailChecks` has
the pure parts: alignment, record lookup (no record and no answer are different things) and policy of DMARC, the heuristic rules
as features with the points of the code, the classifier in whole percents with every choice among tied tokens.
`Screening` is `Screen` of `main.go`, cut where it calls: limiter, DMARC, blacklist on
the address, heuristics, blacklist on the links, classifier and antivirus, verdict. A scan may fail. A blacklist query starts and ends in separate
steps with time between them, and nothing is locked meanwhile. Cache entries carry the time at which they were true.
The initial state chooses the switches of the configuration, the corpus and the kind of traffic: one
message of any kind, or plain or forged ones at any time.

### Daemon

`runDaemon`: the files on disk as a revision with its validity, domains and certificates, and the parts of the process with the revision each was made
from: `cur` (`Manager.current`, which the callbacks look up at every use), the TLS store, the limiters, the settings of each server, and
`built`, what is made at
the start only (blacklists, scanner, spam filter, reputation, lockout, queue, addresses, workers). Then the
signal channel of capacity one and the servers' connections. A SIGHUP is loading, storing and applying, each a
step; a refresh replaces the certificates, then the offers; the API reloads from a goroutine of its own and does nothing
else. `Serve` accepts, then counts, so that `Shutdown` can fall in between; `Shutdown` closes one listener after the other and
waits for its sessions or its timer. SMTP, IMAP and POP3 servers have the same code here.

## 4. Runs

Passing runs:

| Run | Instance | Shows |
|---|---|---|
| `queue` | 2 envelopes, 3 attempts, 2 hosts, 1 fault, fairness | `NoSilentLoss`, `DuplicatesBounded`, `AttemptsBounded`, `PenaltiesEarned`, `SnapshotFresh`, that `Queue` implements `QueueContract`, and that every queued envelope leaves the queue |
| `mailbox_one` | 1 session, 3 messages, 1 crash or lost list | UIDs stable and never reused; APPENDUID never names a message a client has seen before |
| `mailbox_two` | 2 sessions, 1 message, 1 failed write or removal | an expunge from a stale view removes only what is flagged Deleted on disk |
| `smtp_session` | 1 connection, 2 addresses, 2 transactions, 1 reload, 1 fault | no open relay; only a message's own recipients, in Spam when quarantined; the answer to DATA is true |
| `auth_lockout` | 2 concurrent logins, 1 user, 2 addresses, capacity 1 | failures before a lock are bounded; only time or success ends a lock |
| `reputation_domain` | 2 sessions, 1 bounce, 1 stop or crash, fairness | what is sent in a day exceeds the cap by less than the number of sessions and what was lost unsaved; the daily limit never shrinks and stays between Day1 and Full; nothing unsaved passes for saved; a burned sender recovers |
| `pop3_session` | 2 accounts, 2 messages, 2 logins, 2 changes by others, 1 fault | QUIT removes what DELE asked for, where no rename failed, and nothing RSET took back |
| `imap` | 2 sessions, 1 message and room for two more, 2 events | `NumberingAgrees`, `RemovalsAskedFor`, `FlagsNotLost` |
| `imap_text` | every input up to the bounds | sets, patterns and criteria mean what their references say; FETCH loses nothing of a message; quoted strings and names read back |
| `screen` | 2 sessions, 2 addresses, 3 ticks, limits of 1 | `RateBound`, `PruningInvisible`, `AnswersFresh`, `PolicyAsPublished`, `VerdictIsWorst` |
| `daemon` | an SMTP and an implicit TLS listener, 1 worker, 6 events, fairness | `ReloadsTakeEffect`, `CertificatesServed`, `NoSessionCutShort`, `StopObeyed` |

One run ends in a counterexample to what the repository says of the program:

| Run | What the code does | What the repository says |
|---|---|---|
| `mailbox_reuse` | two refreshing sessions give one UID to two messages | README "never reused" |

Other disagreements met while modelling. They are behaviours of the modules as they stand, and
no run of their own is kept for them:

* with two sessions, a slower session's list replaces a newer one and a message gets another UID (`mailbox.go:249`), and
  a file renamed from `new/` to `cur/` between the two listings is in the view twice with one UID (`mailbox.go:184`);
* after a failed write of the list a poll serves UIDs that are assigned again later, because the
  view is installed first and the poll drops the error (`mailbox.go:239`, `imap/session.go:715`);
* an empty mailbox has a new UIDVALIDITY at every poll, although `mailbox.go:268` says the list is created on first use;
* mail that arrives meanwhile is returned as the appended message and its UID goes into APPENDUID, although `mailbox.go:417` says "The
  appended message
  is the highest UID"; `AppendAnswersUnseen` is what is left;
* a lost answer to the final dot or to QUIT, after the host took the message, makes `Deliver` try the next host (`transport.go:129`,
  `:132`), although `transport.go:71` says it stops "at the first success"; `DuplicatesBounded` counts it;
* retries that run out cost reputation like a refusal, although `main.go:410` speaks of a hard bounce: `PenaltiesEarned` has both cases;
* what is sent while draining is not saved (`main.go:869`), although `main.go:440` says the state is flushed on shutdown, and a `Save` that
  fails is only logged (`main.go:451`), so that
  a crash may lose more than the "one interval" of the same comment. The domain then starts its day over with the count on disk:
  `OvershootBounded` adds what was lost to its bound, and `CleanMeansSaved` says that
  the store knows what it has not saved;
* a running SMTP session follows a reload, although `server.go:146` says it keeps its settings;
* a login in flight when its user is locked succeeds and clears the lock: `LocksHold` excepts `Success`;
* sessions between gate and count exceed the warm-up cap, which the README calls impossible by construction: `OvershootBounded` says by how much;
* POP3 QUIT removes also what another client flagged Deleted: `OnlyAskedOrFlagged` has both cases. After a second login of a session the
  marks of the first mean messages of the second mailbox (`pop3.go:294`, against `pop3.go:499` "deletions requested during the session");
  both properties are limited to one login. A message whose flagging fails is
  kept, and QUIT answers +OK all the same (`pop3.go:511`): the exceptions of `QuitHonoursDele`;
* IMAP: UID EXPUNGE ignores its set, and MOVE expunges whatever the view flags Deleted, not only what it moved (`fetch.go:473`);
  a poll reports only a changed count, so that one message gone and one arrived go unreported, and reports nothing after a failed `Refresh`
  or a changed UIDVALIDITY (`session.go:715`), and two sessions that refresh at a time may list new mail in different orders, after which a
  number means another message with no more than
  an EXISTS (`mailbox.go:173`): the exceptions of `NumberingAgrees`; FETCH gives an empty body, and STORE answers OK, when the file was
  renamed meanwhile;
  SUBSCRIBE creates the mailbox; in SEARCH, NOT negates the one token after it (`fetch.go:664`), so that NOT FROM x negates a FROM without
  its word and then asks for x as a key of its own, and OR is no key, so that
  both its criteria must hold, although `fetch.go:518` says RFC 3501: the exceptions of `SearchIsConjunction`, which says what holds
  instead; the number 4294967295 is read as "*", and `SetsMeanRanges` says so;
  the timeout of IDLE leaves a reader behind and keeps the connection;
* screening: the antivirus runs only when antispam is enabled, although `main.go:535` says malware is never delivered; executables in
  a malformed message are not looked at, although `rules.go:18` and the repository's README (line 435) refuse them whatever the score; a
  scan that fails is no finding, and `reject_on_error` (`config.go:184`), which would reject then, is read by nobody, although `main.go:353`
  and the README (line 449) rely on it: both are exceptions of `VerdictIsWorst`; a DNS failure for a
  subdomain's DMARC record falls back to the organization's record and may reject, although `mailauth.go:10` and the README (line 377)
  promise to accept: the exception of `PolicyAsPublished`, which then allows
  no more than the organization asks for; `Bayes.Train` is called by no daemon code, and
  which of the equally decisive words count follows the order of a map;
* limits: the map of buckets grows past 65536 when none is idle, and all quotas start over at SIGHUP;
* daemon: a reload does not reach what is built at the start, that is blacklists, scanner, spam filter, reputation, lockout, queue,
  addresses and workers (`main.go:330` to `434`, `590` to `760`), although the repository's README says at
  line 142 to apply any change with `kavira reload`: `ReloadsTakeEffect` is about the other parts; `domains.go:36` says one broken domain
  must not stop the others, and `validate` refuses them all; an API reload changes
  neither servers nor certificates nor limits, and may put an older configuration back after a SIGHUP (`manager.go:52`, the exception of
  `ReloadsTakeEffect`); a SIGTERM that
  finds a SIGHUP in the channel is lost (`main.go:825`); a connection accepted but not counted is missed by `Shutdown` (the exception of
  `NoSessionCutShort`); an error of `Accept` leaves the port dead while the daemon runs (`server.go:160`);
* durability: an envelope is renamed without fsync (`queue.go:150`), and a failed write of a message is assigned to a shadowed `err`
  (`maildir.go:78`).

### Bounds, and why they are enough

* Queue: two envelopes give a pass with a rest; two hosts give a host after a failed
  one; three attempts give two deferrals with different delays and the exhaustion; one fault hits every step once.
  Faults must be finite for the liveness property, because a daemon that crashes for ever delivers nothing. The theorems
  remove all these bounds for the safety properties.
* Mailbox: three messages with one preloaded give a list that is extended twice and an
  order of modification times against UIDs; two UIDVALIDITY values give a loss and its recovery. `MaxValidity` also stops a
  session that would mint again, so deadlock is not checked in the runs where the list may be missing; a folder at rest may stop anyway.
  Two sessions with one message already give every race of expunge against rename, as these actions touch one file at a time.
* SMTP: sessions share only the configuration, so one connection meets every reload; two
  transactions show what one leaves for the next; two addresses give a local and a remote recipient.
* AuthGuard: two calls give the race between check and count; two addresses of one
  user make keys that fill at different speeds, and capacity 1 forces `prune` at every new key (the code's limit is 65536).
* Reputation: the scores are scaled (8, 6, 2 for 200, 100, 20 half points; the
  cost of a bounce is the code's 4) so that one bounce burns and two days
  heal; ages go to day three, where the cap has risen once, and `RampGrows` looks
  thirty days further from each age.
* Pop3: two messages give a wrong number, two logins the second account, one crash a QUIT that was cut short.
* ImapSession: two sessions (interchangeable, hence the symmetry set) give every race of one view with another's change; one message and two
  that arrive or are copied give lists that grow in two orders and numbers
  that shift; two events (commands that store, copy, move or flag, a Refresh that others interrupt, and failures) give a flag and its
  removal by two hands, a MOVE that fails or dies, and a Refresh open to another session's
  command. The theorems remove the bounds.
* ImapText: numbers to 6, which is also the largest number there is, have both ends of a range below, at and above the last message; three
  characters give two wildcards with a delimiter between them; two criteria give an argument before a key.
* Screening: limits of 1 make every second event meet the limit, a window of 2 ticks has a fraction of a token, capacities of 1 force
  pruning and the dropping of the cache; three ticks outlast a cached answer and a query.
  Points, occurrence thresholds and the classifier's weight are the code's; the score thresholds 5, 10 and 20 stand for the configured ones,
  in their order. Two significant tokens
  (for 15) give ties. Time is bounded, so deadlock is not checked.
* Daemon: one listener that offers STARTTLS and one under TLS; one worker makes the second connection meet the limit; six events hold
  two edits with a SIGHUP each and an API reload across them, or connections around a stop. A daemon that is down stays down, and deadlock
  is not checked.

### Fairness

`queue` assumes weak fairness of the scheduler's own steps (one goroutine that always runs), of the
answer of a network step (`trySend` sets a deadline on the connection), of time, and of `Restart`
(the unit file has `Restart=on-failure`, `internal/bootstrap/kavira.service`). It
assumes nothing about what remote hosts answer, and nothing about the steps that fail.
`reputation_domain` assumes that time passes, that a draining daemon exits (every
`Shutdown` has a timeout) and is started again; sessions may do anything or
nothing, in particular ask `MaySend` for ever.
`daemon` assumes weak fairness of the steps of its loop only: a goroutine that is never blocked for good, since every
`Shutdown` has a timer. Nothing is assumed of clients, who may keep their sessions open, or of the API.

## 5. Proofs

`AccessProofs` is about `AuthGuard`, `ImapSession` and `ImapText`, which share no state; the others are about one specification each. A
theorem holds for all values of the constants that satisfy the
assumptions of its module, which name what the code guarantees: `max_attempts` is not zero and `mxHosts` falls back to
the domain itself (`QueueAssumption`), users and addresses are different keys and there are finitely many logins at a time
(`GuardAssumption`), the ramp grows (`ReputationAssumption`, from `config.validate`), the limit and the window are not zero
(`RateAssumption`), the score thresholds are ordered (`ScreenAssumption`), the number that stands for "*" is above the small ones
(`ImapTextAssumption`, in the code it is 4294967295). The bounds of the runs (messages, events,
faults, ticks) are constants too, so the theorems hold for every one of them. The theorems are
about `Spec`; where a run checks `FairSpec`, that implies it, and fairness plays no part in the proofs.

| Module | Proved, apart from the type invariant | Inductive invariant |
|---|---|---|
| `QueueProofs` | `NoSilentLoss`, `DuplicatesBounded`, `AttemptsBounded`, `PenaltiesEarned`, `SnapshotFresh`, `ContractHolds` | `QueueInv`, `PenaltyInv` |
| `MailboxProofs` | `OnlyDeletedRemoved` for any number of sessions; `UIDsNeverReused`, `UIDsStable`, `AppendAnswersUnseen` for one | `FolderInv`, `OneSessionInv` |
| `SmtpServerProofs` | `NoOpenRelay`, `OnlyItsRecipients`, `AnswerIsTruthful` | `ServerInv` |
| `AccessProofs` | `FailuresBounded`, `LocksHold`; `NumberingAgrees`, `RemovalsAskedFor`, `FlagsNotLost`; `SetsMeanRanges`, `PatternsMatchByParts`, `SearchIsConjunction`, `FetchLosesNothing`, `TextReadsBack` | `GuardInv`; `SessionInv`; `TextInv` |
| `ReputationProofs` | `OvershootBounded`, `RampGrows`, `CleanMeansSaved` | `DomainInv` |
| `Pop3Proofs` | `QuitHonoursDele`, `OnlyAskedOrFlagged` | `SessionInv` |
| `ScreeningProofs` | `RateBound`, `PruningInvisible`, `AnswersFresh`, `PolicyAsPublished`, `VerdictIsWorst` | `ScreenInv`, `FairInv` |
| `DaemonProofs` | `ReloadsTakeEffect`, `CertificatesServed`, `NoSessionCutShort` | `DaemonInv` |

TLC checked every inductive invariant on the instance of its run (some with one event less) before it was proved.

### The queue

None of these invariants is inductive alone. `QueueInv` adds what the code relies on without saying it:

* `Fresh`: an identifier not handed out yet has no file, no copies and no attempts;
* `Snapshot`: what is left of a pass is on disk with the same count and below the
  limit, the running envelope is not among it, and its file exists;
* `Removal`: an envelope that is about to be removed is settled;
* `Duplicates`: for each envelope, where it stands (still to be decided, or decided and not yet
  removed) against the copies and notifications so far;
* `Attempts`: the calls of `Deliver` against the count on disk, the count in memory and the outcomes lost.

`PenaltyInv`, proved on top of it, counts penalties as `Duplicates` counts copies and says that no attempt is counted,
on disk or in memory, that `Deliver` was not called for; that is what makes an exhausted count mean `max_attempts` real attempts.

The step lemma has one case per action and one step per part the action disturbs.
The refinement proof shows that every action maps to `Accept`, `Settle`, `LetGo` or a
stutter: a send or a bounce settles an envelope that is held (or one settled before), `RemoveOk`
lets go of one that `Removal` says is settled, and `UpdateOk` changes nothing, because the
file it writes back still exists.

### The folder

`OnlyDeletedRemoved` holds however many sessions share a folder, because `Expunge` removes by name and the name is the
flags: `FolderInv` says that what an expunge has listed carries the flag in the very name it will remove.

The promises about UIDs hold for one session at a time and a list that can be written (`Sessions = {s}`,
`MaxWriteFaults = 0`), through deliveries, crashes between any two system calls and losses of the list. Neither hypothesis
can be dropped: `mailbox_reuse` is the counterexample for two sessions, section 4 has the one for a failed write. `OneSessionInv` says
that the list on disk, the temporary file and the list in memory all agree with what clients have seen under its UIDVALIDITY, that the
next UID is above every UID seen, and that a message seen and not removed is found again by the scan in progress
(`FoundLemma`: a file goes from `new/` to `cur/` and never back, and `cur/` is listed last). The new UIDs of a refresh are fresh and
distinct because they are ranks in the order of modification times (`Ranks`, `NewUIDsGood`).

### SMTP

What a message did is the end of a transaction whose commands came one by one, while reloads and other sessions went
on. `ServerInv` says what a session may hold (`SessionOK`: authenticated only on submission and over TLS, with the user's own
reverse-path, remote recipients only then), how far its transaction is accounted for (`TransactionOK`: every accepted recipient
is still to do, has a copy, or failed), that no transaction is shared, and that transactions to come are blank. The null
address and the absence of one are no addresses (`AddrAssumption`).

### The lockout

Check, hash and count are three critical sections, so what bounds the failures of a locked key is the number of logins that passed the check before
the lock and have not counted yet (`InFlight`). `GuardInv` puts every key in one of two states: free, with fewer
failures than the threshold and no more than its entry says; or locked, with room below the bound for every call in
flight and an entry that neither pruning nor forgiveness can take (`lock + idle <= Lockout`).

### IMAP sessions

`NumberingAgrees` compares what a client counted with the server's view, and neither says where the numbers come from. `SessionInv` does:

* `DiskOK`: a base name is that of one file of one folder, and was given out before;
* `ClientsOK`: the view of a session whose client follows shows files that are there, and the UID list of its folder, less
  what is gone, starts with them (`InStep`), and so did the list that a Refresh of the session has read and not come back to. Every step of
  the others that takes no file
  away leaves the list going on from what it was (`Steady`), unless it is a Refresh that ends over a list it has not read; what it wrote
  then continues the other, or its folder's clients are no longer
  asked about (`Clash`);
* `DoomedOK`: a name that says Deleted was flagged by a client or copied by a MOVE, and `MovesOK`: what a MOVE may still flag is copied,
  gone, or waiting to be copied. A MOVE that fails or dies in the middle has then flagged nothing it has not copied.

What the EXPUNGE responses do to a client's numbers is a recursive function of the responses; `HeardExpungesLemma` shows that, sent from the
highest number
down as `Expunge` does, they leave the client with the messages that remain, in order. The two action properties look at one step:
`NextFileStep` says how each action can change a folder (a file stored, one renamed from the name a view holds, the condemned of a view
removed), and the properties follow from that.

### The text of IMAP commands

`TextInv` only says that a text is over the alphabet of its kind; the properties are about what functions that walk the text compute, for
texts of any length.
A recursive function is a CHOOSE, so nothing is known of its values until a function with its equations is shown to exist:
`Recursion` shows it for every definition that looks at points of a lower measure, `CountRecursion` for those that look at the point before.
Then the lemmas named `...Means` give the equations of one operator, and the properties follow by induction along the text. The library's
induction theorems take
the property as an operator, which the provers cannot instantiate; that every nonempty set has a minimum under a well-founded order
(`WFMin`) is first order, and
`Upwards`, `Downwards`, `SetInduction` and `SeqInduction` are proved from it with the property as a set.

* LIST: the matcher backtracks; `WildCuts` shows by induction on the pattern that it answers yes exactly when the rest of the name can be
  cut into what
  the rest of the pattern stands for (`CutNothing`, `CutMore` and `CutLess` take a wildcard apart).
* SEARCH: the loop's index is at the start of a criterion whenever a criterion is read, because `Width` is what the words of a plain criterion number
  (`PlainAt`, `WordsPlaced`) and what is left of a nested one reads as keys without words (`NestedAt`, `TokenAt`).
* FETCH: the first blank line found is the first there is (`IndexMeans`); a line is kept with its field (`KeptMeans`); inside an item no space is
  at depth zero, and between two items one is (`InItem`, `BetweenItems`, `SplitJoined`).
* Quoting and names: reading back character by character undoes the escapes (`QuoteBack`); the flags start at the last colon, and a base name holds
  none (`NameSplits`).

### Reputation and warm-up

`RampLemma` proves from the integer formula that the limit of one age is at most that of the next, over both legs and their
breaks, for every ramp. `DomainInv` needs it for time passing under sessions in flight, and adds that the file obeys the
bound of the counter (a restart reads it back) and that a stopped daemon has nothing unsaved. The counter is not what was sent: `TodayInv`
says that the
record in memory has counted all of today but what was lost, and the one on disk all but that and what is unsaved, or that its day is over.
A `Save` that fails moves nothing
between them.

### POP3

`SessionInv` follows QUIT through its two loops: marks and requests are the same messages (`MarksInv`); the flagging loop has dealt with the
marks below
`next`, flagged or left behind by a failed rename, the removing loop with the entries below it (`QuitInv`); a name on disk or in the view
says Deleted only because the client
asked or another session did it (`FlagsInv`). All of it for sessions that log in once, as the properties are; section 4 says why.

### Limiter, blacklist cache and DMARC

`RateBound` counts events and says nothing of tokens. `GrantInv` trades one for the other: what a key was granted in the
last `t` ticks plus what it is worth now is at most a full bucket and `t` refills. A grant moves one token across, a
tick allows one more refill; at `t = Window` this is twice the limit. For `PruningInvisible` being worth the same now is not
enough, it has to stay so: `BucketInv` says that a bucket that is kept *is* the ideal one, and that the ideal bucket of a key without one is full.
`AnswersFresh` goes back from the answer to the start of its query: an entry expires `TTL` after the end of a query that took at most `LookupTime`
(`CacheInv`), and a query under way has not outlasted its timeout (`Asking`). A slow query that overwrites a newer entry
is covered, since nothing relates the ages of two entries. `PolicyAsPublished` is the lemma that `CheckAuth` does what
RFC 7489 asks for, over every record and identifier (`PassesLemma`, `FoundRecord`, `PublishedLemma`), carried through the later stages;
where the lookup of a subdomain failed and
the organization's answered, the lemma only bounds the action by what the organization asks for.

`VerdictIsWorst` is about the last stage, and needs what each stage hands to the next: `FairInv` says that nothing but DMARC has set the
action before the engine decides,
and that the score is the points of the triggered rules and, when a link was listed, 25 more. The points are a sum and the classifier's
probability a product over a set; both are folds, shown to exist and to have their equations by induction over finite sets (`FoldExists`,
`SumLemma`). That novel words count for nothing at most is `NovelLemma`: with every word at its prior the products for spam and ham
compare the way that keeps the probability at half or below (`ProductsCompare`). The messages and the two corpora are those of the module; the
thresholds, the classifier's weight and the number of significant words are arbitrary.

### The daemon

The properties speak of a daemon that is idle or down; `DaemonInv` says what holds on the way there. A SIGHUP that was not read is
in the channel (`Unread`); what was read is in the hands of the loop, then looked up (`ReadInv`), then in the certificates, the limiters and
every server (`AppliedInv`), unless an API reload put an older
configuration back. Offers match certificates except
between the two halves of a refresh (`OfferInv`). A listener is closed before the wait for its sessions, and a session of a
server whose `Shutdown` is over was given up on or came late (`ServerInv`).

### What stays with TLC, and why

* Liveness (`EventuallyLeaves`, `Recovers`, `StopObeyed`): fairness and ENABLED are beyond the prover.
* UIDs with several sessions: false, as the code stands.

No module declares a recursive operator.

## 6. Abstractions and what is not modelled

* A crash is the death of the process: what was written stays. Power loss, which
  files written without fsync (`queue.write`, `writeUIDList`) may not survive, is not modelled.
* `os.WriteFile` on a temporary file is one step, although it truncates and then writes; `Chtimes`
  in `Append` is taken together with the store; equal modification times are ordered by number.
* `MaySend` takes the store's lock three times; the model takes it once. The record of a user
  is the same code under another key and is left out, as are a change of
  the warm-up settings by reload and the events no code records.
* Commands that are refused, or that only read, change nothing and are no step. Message text, headers, logging, counters and the progressive
  delay of `Guard.Fail` are left out.
* `SmtpServer` takes the answers of the limiter and of `Screen` as a free choice, which covers whatever `RateLimit` and `Screening` compute;
  the sessions of
  `Daemon` are counts, which covers whatever the protocol modules do.
* Not modelled, and why: DKIM signing, password hashing, SPF and DKIM verification (cryptography and libraries, taken by their
  outcomes); the text of ENVELOPE, BODYSTRUCTURE, headers, Authentication-Results and bounces; the protocol with clamd (one request, one answer);
  tokenizing, training and saving the corpus (no code of the daemon calls them); which values `validate` refuses (one bit here); IMAP
  literals and the timeout of IDLE;
  the status report, checks, bootstrap, container identity, logging and paths (input, output and formatting without state of their own).
