# Verification of v2link

TLA+ models, TLC runs and TLAPS proofs for the v2link control plane: a Node
process that issues temporary VLESS links, keeps them in a SQLite ledger and
mirrors them as dynamic users of an xray process it drives with command-line
calls. Sources are named relative to the repository, `server/src` and
`frontend/src` being the server and the web client.

    tlasany M.tla                           parse
    tlc -workers 2 -config X.cfg MC<M>.tla  model-check
    tlapm <M>Proofs.tla                     check the proofs

## 1. The system

| component | state | operations | with whom |
|---|---|---|---|
| link service (`services/linkService.ts`, `routes/links.ts`, `lib/expiry.ts`, `lib/id.ts`) | none of its own | create, extend, revoke, remove, list | ledger (synchronous), xray (await) |
| ledger (`db/*.ts`) | tables `links`, `audit_log`, `traffic_samples` (foreign key to `links`), `connections`, `clash_subs`, `users`, `sessions` | opening with repairs of older versions, prepared statements, transactions | everybody in the process |
| xray client (`services/xrayClient.ts`, `lib/xrayStats.ts`) | none; xray itself holds users and counters in memory | adu, rmu, statsquery (-reset), each with a timeout and retries | child process |
| reconcile (`services/reconcile.ts`) | status shown by `/api/healthz` | one round: snapshot of the ledger, adu or rmu per row | ledger, xray |
| scheduler (`services/scheduler.ts`) | timers, `firstLedger` | start, stop; expire scan (15 s), traffic pull (30 s), reconcile (60 s), clean-ups, region probes (5 min) | all the above |
| access log tailer (`lib/accessLogTailer.ts`, `lib/accessLogParse.ts`) | stat, offset, half line, batch, fingerprints | poll (2 s), flush | xray's log file, logrotate, `connections` |
| accounts (`services/accountService.ts`, `routes/auth.ts`, `middleware/auth.ts`) | `users`, `sessions`, `loginFailures` in memory | login, logout, check, start-up clean-up and first administrator | browser cookie |
| Clash subscriptions (`services/clashService.ts`, `db/clashSubRepo.ts`, `lib/clash.ts`) | `clash_subs` | create, get by token, hourly clean-up, naming of the proxies | ledger |
| region probes (`services/regionProbe.ts`, `routes/regions.ts`) | last rounds, round in flight | run a round, read the history | network |
| traffic curves (`lib/trafficAgg.ts`) | none | samples to hourly or daily buckets | `traffic_samples` |
| connection and audit pages (`db/monitoringRepo.ts`, `routes/links.ts`, `routes/audit.ts`) | none | a page and a count, by search, newest first | `connections`, `audit_log` |
| process (`index.ts`, `app.ts`, `config.ts`) | | start, graceful shutdown | |
| web console (`frontend/src`: `App`, `Login`, `Dashboard`, `CreateModal`, `ActModal`, `api`) | phase, list on screen, ticks, busy row, open dialog | requests to `/api`, their answers, 401 | server, gateway (SSO) |
| monitoring dialogs (`LinkDetailModal`, `AuditModal`) | search, offset, page, chart | pages, ranges | server |
| other dialogs (`CopyModal`, `ClashSubModal`, `RegionProbeBar`, `TrafficChart`) | what they show | | server |

How they interact. SQLite calls are synchronous and JavaScript runs one callback
at a time, so what lies between two `await`s is atomic; every `await xray...` is
a gap in which any other handler, scan, round, pull or restart may come.
`setInterval` does not wait for the asynchronous function it starts, so two
scans, rounds or pulls may overlap as soon as one takes longer than its
interval: an xray call may take up to 3 attempts of 3 s, and a pass makes one
call per row.

### What is hard, and what makes each part correct

* **Link service against scan, round and another request.** A handler writes the
  ledger, awaits xray and on failure undoes its write, with the world changed
  meanwhile. Correct when: a rollback undoes its own write and nothing else,
  links leave *active* for good, the audit explains the ledger.
* **Ledger against xray.** xray forgets all users when it restarts, a timed-out
  call may have worked, rounds act on a stale snapshot. Correct when: the mirror
  is right again once the disturbances end, a row that keeps failing holds up no
  other, and no pass cuts off a valid link unless an extension of that link
  overtook it.
* **Traffic.** `statsquery -reset` reads *and* clears; pulls overlap, are
  retried, answered too late, or straddle a restart. Correct when: no byte is
  booked twice or for another link, and none is lost without a fault.
* **Access log.** logrotate truncates or replaces the file between any two
  system calls, reads end in half lines, batches fail. Correct when: stored rows
  are whole lines, in order and once, and a line missing from the table has a
  reason.
* **Accounts.** Renewal, lazy deletion, clean-up, logout and restart move a
  session. Correct when: it lives exactly TTL from its last use, and never comes
  back. Fixed login windows may meet. Correct when: nobody is blocked without
  cause and the guesses are bounded all the same.
* **Clash subscriptions.** A row names links that go on moving, two places judge
  the same end, users choose the names. Correct when: the clean-up cannot be
  observed, a fetch gives exactly the links that serve then, and no two proxies
  share a name.
* **Process.** A start may be killed between any two statements of the repair of
  an old database, `start()` awaits before it sets its timers, signals come at
  any moment, probe rounds overlap. Correct when: no link is lost and a server
  that listens has its schema, one round runs at a time and the next one can
  always start, nothing fires after `stop()`.
* **Traffic curves.** Correct when: every sample of the range is in the curve.
* **Web console.** Answers come in any order or never, to a page or dialog that
  may have gone. Correct when: what the operator did and saw answered stays on
  screen, nothing waits for an answer that will not come (one page does, section
  5), the login page is shown to those who can log in.
* **Pages.** Offsets count from the newest row of a table that others write to.
  Correct when: a page shown is the page asked for and nobody who turns pages
  misses a row that was there all along.

## 2. Modules

| module | models | theorems in |
|---|---|---|
| `LinkLifecycle` | abstract specification of the ledger: what happens to a link, with no word of xray, retries or rollbacks | |
| `LinkControl` | link service, `links`, `audit_log`, `traffic_samples` as a foreign key, expire scan, reconcile round, xray's users | `LinkControlProofs` |
| `TrafficLedger` | traffic pull, xray's counters, `up_bytes`/`down_bytes`, `traffic_samples` | `TrafficLedgerProofs` |
| `AccessLogTailer` | tailer, log file, rotation, `connections` | `AccessLogTailerProofs` |
| `Accounts` | sessions, cookie, login limit, start of the process | `AccountsProofs` |
| `TimedSubs` | abstract specification of a Clash subscription: a list that ends by itself | |
| `ClashSubs`, with `ClashConfig` for the selection and the names | `clash_subs`, create, fetch, clean-up, over links that move | `ClashSubsProofs` |
| `Server`, composed of `Schema` (opening the database) and `RegionProbe` (rounds and history) | the process: start, listening, timers, signals, exit, kill | `ServerProofs` |
| `TrafficCurve`, with `TrafficBuckets` for the buckets | hours and local days over the samples | `TrafficLedgerProofs` |
| `Console` | the web console and the routes it calls | `ConsoleProofs` |
| `Pages` | the dialogs that page through connections and audit log, and the queries behind them | `PagesProofs` |
| `MC...` | what TLC needs to instantiate the module of that name: symmetry sets | |

`PROJECT.json` maps every definition to the lines it stands for.

### LinkControl

A *task* is a running async function suspended at its xray call; the slots
`Requests`, `Scans` and `Rounds` say how many may be in flight. A handler is two
steps: everything up to the await (`Create`, `Revoke`, `Remove`, `ExpireStart`,
`ReconcileStart`) and everything after it (`CreateDone`, `CreateRollback`, ...,
`ExpireStep`, `ReconcileStep`), the xray call between them being `AttemptOk`,
`AttemptFail`, `AttemptLost` (it worked, the answer did not arrive),
`AttemptRefused` or `AttemptHopeless`, repeated `Retries` times. The last is the
attempt for a link of `Failing`, a user for which xray has failed every call
since it took it in; it is no fault that could be used up. `Extend` never awaits
and is one step. The history variable `overtaken` holds the pairs of a pass
under way and a link that was extended while the pass still had it to take out
of xray (a scan any of its rows, a round those its snapshot judged inactive).
`xray` is the set of users in the xray process, `stamped` the links with a
`revoked_at`, `audit` the number of audit rows per link and action.
`ServerRestart` drops all tasks and keeps the ledger, `XrayRestart` drops all
users.

Simplifications. Identifier, email and xray user are one (the code sets email =
id). A pass visits its rows in any order. `CollectTraffic` and `SweepSamples`
only say when a link has samples, because the foreign key makes `create`'s
rollback throw then; how traffic moves is `TrafficLedger`. An attempt acts on
xray when it is answered or given up, not later. With the reconcile interval set
to 0 only the safety properties apply.

### TrafficLedger

Traffic is a set of chunks with an identity, which is what lets the model say
*twice* and *lost*; the two directions are one. `Query` is xray's side of a
pull: with `-reset` the counters are read and cleared, the first pull of a
process only reads (`Resets`). `Credit` is the transaction over the answer. The
row of a link moves as in `LinkControl` (`RowStep`), in the coarser states the
pull can tell apart. What a user carries after its row has settled as expired or
revoked is never booked and left out.

### AccessLogTailer

The log is a stream of half lines, so a read can end in the middle of a line;
`Split` is `split('\n')` over them, one unit after the other (`Fed`). `poll` is
one synchronous function, but logrotate is another process, so its `stat`
(`PollStat`) and its read (`PollRead`) are separate steps and a rotation may
fall between them; the loop over the lines is one step per line (`SkipLine`,
`TakeLine`) with the batch flushed in it or at the end (`PollEnd`).
`Cut("truncate")` is copytruncate, `Cut("rename")` a new file. The history
variable `excuse` notes why a line can no longer be read, `lapsed` which lines
were taken but have no fingerprint any more: those that waited in `pending` when
`resolveLinkId` threw, and those the cap of the fingerprints pushed out.

Named bound on the environment: a file that was cut stays shorter than what had
been consumed of it until the next poll. If it outgrows that, the code takes it
for the old file and cannot do otherwise. Lines have distinct fingerprints. A
part of the file that is read twice is stored twice as far as its lines have
lapsed, and `StoredInOrder` excepts those and no others (a read of 1 MiB may
well hold more than 1024 lines, section 5).

Named bound `Noticeable`: no truncation falls between a poll that ended in an
exception after its read and the next poll. `accessLogTailer.ts:138` keeps the
moved offset of such a poll but not its stat, so the truncation goes unnoticed
and lines are lost (section 5). Everything else may happen around a failed poll,
a rename included.

### Accounts

All handlers are synchronous: one step each. `used` (when a token last let
somebody in) and `guesses` (wrong passwords of the last window) are history
variables that the properties compare with `sessions` and `loginFailures`. A
browser sends its cookie until the Max-Age of the login has passed. `Logout`
ends the session of the token that is `Presented`, which a Bearer header may
name instead of the cookie; the cookie is cleared either way. A 429 answer
changes nothing and is no action. A password is right or wrong; in sso mode the
component has no state.

### ClashSubs, ClashConfig, TimedSubs

A row of `clash_subs` names links and an end. `Create` selects the known links
among those asked for (`Selected`), `Get` judges row and links at the moment of
the fetch, `CleanUp` is the hourly `deleteExpired`. What `LinkControl` does to a
link are three actions, at any moment of a subscription's life: `LinkIssued`
(create), `LinkExtended` (extend: to a later or an earlier end, to permanent and
back from it, while the link is active) and `LinkMoves` (expiry, revocation, its
rollback, deletion), in one status `down` for *expired* and *revoked*.
`OnlyThose` is the loop that keeps the links that are there (`Get`). A name is a
sequence of a word of `Words` and the numbers of the `#n` behind it, because the
question is whether a made-up name meets a typed one. An answer 404 is an empty
list. `TimedSubs` has no table and no clean-up; in the refinement mapping a row
that has ended is no row.

### Server, Schema, RegionProbe

`Schema` is `initSchema` statement by statement, over no database and over each
version its comments name. Every statement commits by itself except those of
`dropSpeedColumn`, whose `BEGIN` keeps the old database in `undo`; `Killed`
restores it. `modern` says whether SQLite knows `DROP COLUMN`. `RegionProbe`
keeps the rounds whose `doTick` is suspended in `flight` and lets each endpoint
answer or fail by itself. `Server` is the process around both: `Opening`,
`Listening`, the awaited first pull (`warm`), `WarmUp` (the pull answers or
throws, the `catch`, and the rest of `start()`, which `GoesOn` after either),
`Shutdown`, `Exit`, `Crash`, `Boot`. `early`
is a history variable. What the timers other than the probe's do is in the other
modules.

### TrafficCurve, TrafficBuckets

`TrafficBuckets` is the arithmetic, `TrafficCurve` the samples and the request.
`Offset[t]` is local time minus UTC at the instant t. `DayStart` is what `new
Date(y, m, d)` gives, `BucketSeries` the steps of the loop, `Curve` what the
route answers. Up and down are one volume, and the day's start is among the
instants.

### Console

Every call of `api.ts` is a record in `wire`: sent with the cookie of the
moment, served at some moment (`Serve`, the routes and the middleware, as far as
they answer differently), and landed at some other (`Land`) with that reply or
as `lost`. Hence requests are served and answered in any order, and an answer
may be lost before or after the effect. A record carries the number of the
mounted Dashboard and of the dialog it was sent from: React drops a `setState`
of a component that has gone, while the module-level handlers (401, the request
that follows) go on. `acked` and `unseen` are history variables: the own
revocations and deletions that were answered, and those which an older answer
may still hide. The list that follows a deletion knows of it (`SendKnowing`), so
once it has landed the deleted link counts as shown. Any answer of `me()` that
is not ok, a 500 as well as a 401, leads to the login page; that its request was
lost is remembered in `meLost`, because the page then says "loading" for ever.
Only a request the operator clicks counts against `MaxClicks`;
what follows from answers does not.

Simplifications. The dialogs that change nothing (detail, copy, audit, Clash)
are left out, the first two being in `Pages` or section 6. Rows have a status
and no other field. Creating puts some fresh link into the list. A session may
end at any moment (`SessionEnds`).

### Pages

One table, read by one dialog (`view` says which): rows are inserted with any
timestamp, connections are also swept from the old end. `Serve` is the query
with its clamps, `Land` the effect's `then`, `catch` and `finally`. A `current`
run is one whose `alive` flag is still true. `walk` is a history variable: what
was seen and what was there all along since page 1, as long as the operator only
presses *next*. ORDER BY with LIMIT and OFFSET is stated by positions: `Place` is
the number of rows not behind a row, `RowAt` the row at a place. An offset is
clamped to `MAX_SAFE_INTEGER`, a constant no offset of the dialogs reaches
(`PagesAssumption`).

## 3. Runs

All runs finish with every reachable state of their instance explored.

| run | checks | instance |
|---|---|---|
| `link_faults` | `TypeOK`, `RevokeExclusive`, `StampedIffRevoked`, `AuditCoversLedger`, `EvictionJustified`, refinement `ImplementsLifecycle` | one link, two overlapping requests, one scan, one round, one retry, two faults, one extension, three revocations, clock to 3 |
| `link_converge` | `Converges` | one link, one request, one scan, **two** overlapping rounds, one extension, two faults |
| `link_converge_pair` | `Converges`, `DueLinksLeave` | two links in one scan and one round, **one of them failing for good**, one request, a fault besides |
| `link_permanent` | a violation, section 5 | |
| `traffic_books` | `TypeOK`, `NeverTwice`, `CreditedToOwner`, `SamplesWithinBooks`, `LossesAreFaults`, `BooksSettle` | two links, two chunks, two overlapping pulls with a retry, two faults |
| `tailer_rotate` | `TypeOK`, `RowsGenuine`, `StoredInOrder`, `NothingForgotten`, `Drains` | four lines, reads of two lines, batches of two, **one** fingerprint kept, two rotations of either kind, two failures of any kind |
| `accounts_limits` | `TypeOK`, `ValidIffRecentlyUsed`, `EndedStaysEnded`, `BlockedForCause`, `GuessesBounded` | two browsers, addresses, tokens; TTL 2, window 3, two failures allowed, clock to 6, any number of restarts |
| `clash_pointers` | `TypeOK`, `NamesDiffer`, refinement `ImplementsTimedSubs` | three links whose names clash (the second is called what the code makes of another one), lists of up to four, one token, TTL 2, ends at 2, 3 and never, clock to 3 |
| `server_life` | `TypeOK`, `NewestFirst`, `SchemaReady`, `RowsKept`, `QuietAfterStop`, `SnapshotCatchesUp` | two starts, every earlier database with and without `DROP COLUMN`, two endpoints, two rounds kept |
| `console_answers` | `TypeOK`, `OwnRevocationsShown`, `NoOrphanWait` | two links, both authentication modes, two clicks and a login, with all requests that follow |
| `pages_browse` | `TypeOK`, `ShownIsAsked`, `WalkMissesNothing` | pages of one row, three rows with two timestamps, a search that matches one of two hosts, four requests |
| `curve_days` | a violation, section 5 | four days around a change of the clock, two samples |

Why the bounds suffice. The hazards of `LinkControl` concern one row and at most
two functions suspended on it, or a pass and the row behind a failing one; one
link with two requests, a scan and a round has every such pair and triple, and
two faults let a call fail *and* its retry fail, or a process restart around a
failure. A pass that gave up at the first row that failed would do no harm if
failures ended some day, for the next pass would get further; hence one of the
two links of `link_converge_pair` fails for good, and the other one must be
added, removed and expired in passes that always meet the failing one as well.
Neither extensions nor revocations take part there: they are in
`link_converge`. `MaxTime` 3 lets a link expire while a pass that saw it alive is
suspended. In `TrafficLedger` two pulls and two chunks give what one pull reads
and what comes after it; two links let an answer contain somebody else. In
`AccessLogTailer` a read ends in a half line wherever xray is in the middle of
one, the four lines take at least two reads and two batches, one fingerprint is
less than a read or a batch leaves behind, so that lines do lapse and are read
again, two rotations can meet in one poll, and two failures can follow each
other. In `Accounts` the clock spans two login windows and three TTLs. In
`ClashSubs` a clean-up can fall before, in and after the moment of an end, a
link that a subscription names can be given an earlier end, a later one, none,
or an end again within the subscription's life, and tokens do not touch each
other. In `Server` the first start can die in each
statement and the second finish what it left, and two rounds are the fewest that
have an order. In `Console` two requests are the fewest that can overtake each
other, and each brings the list requests of mount, deletion, creation and login
with it, so several are on the wire; requests for one row and for different rows
both occur. In `Pages` two requests are sent by opening the dialog, and the two
more make a walk over three pages, or a search and a step overtaking it, while
rows come in front of it and go behind it.

### Fairness

* Timers fire again and again: weak fairness of `ExpireStart`, `ReconcileStart`,
  `PullStart` and the tailer's `Poll`.
* An xray attempt ends, because it has a timeout, and once the bounded faults
  are used up it ends well, unless its link fails for good: weak fairness of
  `AttemptOk \/ AttemptHopeless`, `AnswerOk`. A settled
  promise resumes its function: weak fairness of `Resume`, `PullDone`,
  `PullFailed`.
* Time passes: weak fairness of `Tick`.
* In `Server` the first pull ends, because its attempts do, the probe timer
  fires again and again, and a probe settles at the latest by its timeout: weak
  fairness of `WarmUp`, `ProbeTimer`, `Probing`.
* Requests, traffic, rotations, log lines, signals, starts and faults owe nobody
  anything and are not fair. `ClashSubs`, `TrafficCurve`, `Console` and `Pages`
  assume no fairness and have safety properties only.

`Converges` and `DueLinksLeave` hence say what happens when disturbances stop, a
user that fails for good being none that stops, and `SnapshotCatchesUp` what a
process does that stays up; the code promises no more.

## 4. Proofs

TLAPS proves, for every value of the constants:

| theorem | of |
|---|---|
| `TypeCorrect`, `RevocationsExclusive`, `StampsAgree`, `AuditComplete` | `LinkControl` |
| `EvictionsJustified` | `LinkControl`: a pass cuts off a valid link only if an extension of that link overtook it |
| `Implementation`: `Spec => ImplementsLifecycle` | `LinkControl` implements `LinkLifecycle` |
| `TypeCorrect`, `CountedOnce`, `OwnTraffic`, `SamplesAgree`, `LossesJustified` | `TrafficLedger` |
| `TypeCorrect`, `RowsAreGenuine`, `NothingIsForgotten`, `StoredOnce` | `AccessLogTailer` |
| `TypeCorrect`, `SessionsSlide`, `SessionsEndForGood`, `BlocksJustified`, `GuessesLimited` | `Accounts` |
| `TypeCorrect`, `NamesAreDifferent` | `ClashSubs` |
| `Pointers`: `Spec => ImplementsTimedSubs` | `ClashSubs` implements `TimedSubs` |
| `Typed`, `NoRowLost`, `ListensWithSchema`, `HistoryNewestFirst`, `StopIsQuiet` | `Server` |
| `EverySampleHasItsBucket` | `TrafficBuckets`, where the clock does not change |
| `TypeCorrect`, `OwnRevocations`, `NothingSpins` | `Console` |
| `TypeCorrect`, `ShownAsAsked`, `WalksMissNothing` | `Pages` |

These are all the invariants the runs check. The assumptions are those of the
modules: slots of different kinds are disjoint, the "none" values are outside
their sets, bounds are natural numbers.

What a loop computes (the lines of a text, the fingerprints after a batch, the
names of a list) is a recursive function in the models, and what it computes for
every input is proved by its least counterexample: a non-empty set of numbers
has a least element (`Least`, from the library's well-founded orderings).

**LinkControl.** `RevokeExclusive` is the heart: revoke's rollback is an UPDATE
without a guard on the status, and is right only because nothing else can have
moved the row while rmu was awaited: the scan's UPDATE *is* guarded, `activeRow`
refuses a second revocation, a deleted row is not updated. On its own it is not
inductive: a step of a task in the wrong kind of slot, or of a pass over a link
never issued, breaks it. `SlotsInOrder` says who may be in a slot, and
`GoneIsEmpty` that a deleted row leaves no lifetime, which the refinement needs.
`IInv` is their conjunction with the invariants of the run. The refinement maps
a link whose revocation can still be rolled back to *active*; so a rollback and
a retry are stutters, and `ServerRestart`, which makes all pending revocations
final, is the reason `LinkLifecycle!Revoke` takes a set.

`EvictionsJustified` needs more than `IInv`, because a pass acts on a judgement
that is several awaits old. `PassesSound` says that, faults aside, what the rest
of a pass takes out of xray is still lapsed, unless this link was extended since
this pass had it (`overtaken`); a link extended before, or by somebody else's
pass, is not excused. It is inductive because only a rollback puts a row back to
active, and a rollback needs a failed call. The rmu of a revocation cannot hit a
valid link by `RevokeExclusive`.

**TrafficLedger.** `NeverTwice` says that the counters, what each pull has taken
out and the books are pairwise disjoint. To keep a newly carried chunk apart
from all of these, `Origins` adds that everything counted or read was carried by
that link, and that only an answered pull holds an answer. `LossesAreFaults` is
an action property and follows step by step.

**AccessLogTailer.** The invariant `IInv` of the first three theorems is about
where the offset points. Either into the file that is there now, and then the
half line in hand is the unit just before it (`InStep`); or beyond the end of a
file that has been cut, and then what the poll remembers of the file is such
that the next stat notices (`CutOff`). So a read always gets consecutive units
that begin where the half line left off, `SplitCutsUp` shows that `split` cuts
these into whole lines and one half line, and no row is glued. `Covered` says
where a line is that is not stored and has no excuse: in the hands of the poll,
or behind the offset (`Awaited`). `Remembers` closes the one way out of the poll
that leaves no row, the skipping of a duplicate: a fingerprint belongs to a row
that is stored or to one a fault took.

That nothing is stored twice needs a second invariant, `OInv`. A line is
*settled* if it is newer than all rows taken so far, or if its fingerprint is
kept, or if it has lapsed; the order of the rows survives when only settled
lines are taken. `Fresh` says that what lies ahead of the offset is settled,
`Todo` the same of what has been read, and `Twice` what holds when the next poll
will begin the file again although the offset points into it: only a cut between
the stat and the read of a poll that began at offset 0 brings that about
(`Noticed`), and then every line that poll read is settled already or still in
its hands, to be marked before it ends. The batch is in order by itself and
behind the rows, so `Flush` keeps both.

**Accounts.** The invariant names the three states of a session: no row and
never used or logged out, a row that ends TTL after its last use, or a row that
lapsed and went. That the lazy deletion and the clean-up compare with the clock
in the same way is what `StartStep` and `RequestStep` rest on.

For the login limit the invariant counts (`Limit`). The entry of an address
holds as many failures as the address made since its window began (`Counting`),
so a block is never without its failures. When a window closes its first failure
is a `Window` old and out of the count, so what earlier windows leave behind
(`Earlier`) is fewer than `MaxFailures` guesses. Two windows that meet hence
stay below twice the limit.

**ClashSubs.** For the refinement the invariant only says that rows end at a
moment of the clock and that statuses are statuses. The work is in the mapping:
`CleanUp` is a stutter because it takes what `openList` does not show, and
`Tick` ends the abstract list in the very moment in which `get` begins to
refuse. `NamesDiffer` holds in every answer because one turn of
`dedupeNodeNames` puts a new name behind names that differ (`NamedFacts`). What
that takes is that the loop for a free number ends: of `Len(used) + 1` numbers
in a row they cannot all be used, since different numbers make different names
(`FreeExists`).

**Server.** `SchemaInv` says, per statement passed, what the database has
(`Passed`), and of an open transaction that rolling it back gives a database of
which the same is true (`InTransaction`). It is needed because a kill may come
between dropping `links` and renaming `links_new`, when neither `SchemaReady`
nor the rows hold on their own. `LifeInv` carries it over to the phases of the
process. `ProbeInv` says that at most one round is in flight and that no round
of the history is newer than it, which `NewestFirst` alone does not give.
`QuietInv` says what a `stop()` leaves behind that came after `start()` had
ended; the case in which it came before is excepted, since the code does not
handle it (section 5).

**TrafficCurve.** With a constant offset, the midnights and whole hours are
multiples of the step away from the midnight of day 0 (`BucketAligned`), so the
bucket of a sample is a step of the loop that starts at the bucket of `from`.
`curve_days` shows that the assumption on the offset cannot be dropped.

**Console.** A link that is down stays down, and every request carries what had
been acknowledged when it left (`OfRequest`): so the answer to a list shows none
of that active, and `OwnRevocationsShown` survives whichever list lands last.
`NoOrphanWait` is nearly inductive. What it lacks is that a request carries a
dialog's number only if that dialog submitted it, and names a row only if it is
about one (`DialogInv`: otherwise an unrelated answer could take the witness
away), and that nobody is signing in when the browser leaves for the gateway
(`ModeInv`). Its first conjunct is about the page that App shows before it knows
who is there, and excepts the one wait that has no end: the loading page after a
lost `me()` (`meLost`, section 5). `TypeOK` says more than types there, that
ticks are of rows in the table and that the login page appears only with local
accounts; the latter again rests on `ModeInv`, for a 401 can only come to a page
that knows its mode.

**Pages.** A request remembers the setting it asked for, and the two runs that
are alive asked for the present one (`OfRun`). This is what the alive flags are
for: an answer that is taken is the answer to what the dialog is set to.
`WalksMissNothing` follows a row that is missing so far, though it was there all
along: its place is behind the pages seen, and behind the offset of the request
on its way (`WalkInv`). Places only grow while the row is there, for rows are
inserted anywhere but are swept from the old end (`PlaceGrows`,
`SweepKeepsPlaces`), and places are filled without gaps (`PlacesFilled`), so a
last page leaves nothing behind it.

Only model-checked: the liveness properties `Converges`, `DueLinksLeave`,
`BooksSettle`, `Drains` and `SnapshotCatchesUp`, because the prover does not
reason about fairness and ENABLED, and the two violations of section 5, which
are counterexamples.

## 5. Where the code and its documents disagree

Two have a run in which TLC finds the counterexample.

* **`link_permanent`** A scan selects a due link and awaits rmu; meanwhile
  `POST /api/links/:id/extend` makes the link permanent (or extends it). The scan
  then writes *expired*, guarded by the status but not by `expires_at`
  (`services/scheduler.ts:180`).
  `lib/expiry.ts:1` says such a link never expires automatically.
* **`curve_days`** `bucketSeries` goes on in steps of 24 h from a local midnight
  (`lib/trafficAgg.ts:30`), `bucketStart` looks for the midnight of each sample.
  After a change of the clock they do not meet any more and the days behind it
  show 0, though `trafficAgg.ts:6` and `:25` promise local midnights and
  complete buckets.

Met while modelling. The model does what the code does, and the properties are
stated so that they say what remains true:

* Links. A round adds back a link that was deleted after its snapshot
  (`services/reconcile.ts:93`); later rounds only look at ledger rows, so the
  user is served until xray restarts, whereas `reconcile.ts:10` promises the
  removal. It also adds back a link *revoked* after its snapshot, until the next
  round. When adu worked, its answer was lost and the link carried traffic
  before the retries failed, the rollback's DELETE violates the foreign key of
  `traffic_samples` and throws, and row and audit stay
  (`services/linkService.ts:197`). Two overlapping DELETEs both answer ok and
  write two audit rows (`linkService.ts:336`); the audit row of a revocation
  that was rolled back stays (`linkService.ts:226`).
* Traffic. What was carried between the last pull and the end of a link is
  cleared in xray and booked nowhere (`services/scheduler.ts:205`), though the
  head of the file says nothing slips through.
* Log. A copytruncate takes the lines written since the last poll, though
  `accessLogTailer.ts:10` says nothing is lost. If `resolveLinkId` throws, the
  poll keeps the offset it moved but not its stat, and a truncation that follows
  is not noticed (`accessLogTailer.ts:138`); the bound `Noticeable` leaves that
  out. A part of the file that is read twice is stored twice as far as its lines
  were waiting in `pending` at such an exception, or are older than the last
  1024 fingerprints, though `accessLogTailer.ts:56` means the fingerprints to
  prevent it and `:10` promises neither loss nor duplicate.
* Session. README.md:92 and `.env.example:63` call it sliding; the row slides,
  the cookie's Max-Age does not (`routes/auth.ts:96`): whoever uses the console
  every day is asked to log in when the TTL of the login is over. A logout with
  a Bearer header ends that token's session and clears the cookie, whose own
  session lives on until it expires (`routes/auth.ts:102`).
* Process. `stop()` while `start()` awaits its first pull finds no timers;
  `start()` then sets them all, and they fire until the exit
  (`services/scheduler.ts:111`).
* Console. A late 401 to a request of an earlier login throws the new one out
  (`api.ts:136`). A late answer of a dialog closes whichever dialog is open by
  then (`ActModal.tsx:76`). An older list that lands after the answer of a
  revocation shows the link active again (`Dashboard.tsx:46`). `busy` names one
  row, so another row's answer enables its buttons while its request is out
  (`Dashboard.tsx:36`). Enter in the date field submits again while submitting
  (`ActModal.tsx:121`). If the answer to the first `me()` is lost, the page says
  "loading" for ever (`App.tsx:24`). A click on the overlay of a dialog does not
  close it, though `Modal.tsx:3` says so (`Modal.tsx:25`).
* Monitoring dialogs. A click on the chip of the range that is on clears the
  chart and asks for nothing: it says "loading" until another range is picked
  (`LinkDetailModal.tsx:94`). After a failed page the pager is gone, and the
  same search again asks for nothing. A page emptied by a sweep says that there
  are no connections at all (`LinkDetailModal.tsx:161`). `ClashSubModal.tsx:29`
  has no alive flag, so two answers may cross.

## 6. Not modelled

The counters of `/api/healthz`, which overlapping rounds write; reading the
configuration; the YAML of a Clash configuration and the VLESS URL around the
names; the fields of a log line and of xray's statistics; indexes and the
statements by email, which no route uses; the checks of dates and numbers a user
types, reduced to what they let through; rendering in the frontend: `CopyModal`,
`RegionProbeBar`, `TrafficChart`, and `ClashSubModal`, which make one request
each. nginx, logrotate and xray appear as actions of the environment, their
configuration files do not.

## 7. Plan

Done: the modules, runs and proofs above. Left, most important first:

1. The invariants behind the liveness properties that need no fairness, such as
   what a completed reconcile round leaves of a link nothing else touched, as
   action properties with theorems of their own.
2. `EverySampleHasItsBucket` for the hourly curve when the clock changes by whole
   hours, where the code is right.
3. `ClashSubModal` beside the selection it is opened with, and the status
   `/api/healthz` shows.
