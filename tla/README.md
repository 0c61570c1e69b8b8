# Gas Town Control Plane: TLA+ models and proofs

TLA+ modules of the control plane, the TLC runs that check them, and theorems
about them checked by TLAPS. Paths are relative to the root of the repository
(`src/` here).

Run a check with `tlc -workers 2 -config spool_safety.cfg MCSpoolDelivery`, and
the proofs with `tlapm SpoolDeliveryProofs.tla` (and so for each module whose
name ends in `Proofs`). `PROJECT.json` maps each definition to the lines it
models, each property to a mutant that breaks it, and lists the findings and
the hazards.

## 1. The system

The API server (`cmd/api`, `internal/server`, `internal/store`, `internal/db`)
takes events and snapshots over HTTP, keeps them in Postgres, and serves lists,
alerts and a dashboard. The agent (`cmd/agent`, `internal/agent`) runs in a
workspace and ships heartbeats, snapshots of the workspace, and the event files
that other programs drop in its spool directory. The admin tool (`cmd/admin`)
creates organizations, workspaces and keys and runs the migrations.

| Component | Code | State | Operations |
|---|---|---|---|
| Spool upload | `internal/agent/spool.go`, `sendSpool` in `cmd/agent/main.go`, `client.go` | files `x.json(l)` and `x.sent`; the batch in memory | list, read, parse, post, rename |
| Agent loop | `run`, `sendHeartbeat`, `sendSnapshot`, `emit` in `cmd/agent/main.go` | two tickers, a context | heartbeat, spool poll, snapshot, shutdown |
| Workspace scanner | `internal/agent/scan.go` | none (reads directories) | scan |
| Event ingestion | `handleEvents`, `InsertEvent` | tables events, rigs, agents, convoys, hooks | store one event, upsert what it names |
| Snapshot ingestion | `handleSnapshots`, `InsertSnapshot` | table snapshots and the four above | store, then upsert each entity |
| Projection and lists | `Upsert*`, `List*`, `001_init.sql` | rigs, agents, convoys, hooks, unique constraints | upsert, list, alerts |
| Rate limiter | `rateLimiter` in `server.go` | a bucket for each workspace, one mutex | allow |
| Authentication, keys | `withAuth`, `WorkspaceIDFromAPIKey`, `cmd/admin` | organizations, workspaces, api_keys, audit_logs | create, look up, revoke |
| Migrations | `internal/db/migrate.go` | schema_migrations, the schema | find, apply, record |
| Retention | `runPruneLoop` in `cmd/api/main.go`, `Prune*` | events, snapshots | prune |
| Dashboard | `internal/server/web/app.js` | key, rendered lists | refresh, change key |
| API process | `cmd/api/main.go` | listener, pool | start, drain, stop |

How they interact. The agent is one goroutine: heartbeat and spool poll run one
after the other in a ticker branch, the snapshot in another branch of the same
select. Its requests have a timeout of 10 seconds and nothing tells the server
whether an attempt is a retry. The server runs a goroutine for each request; all
share the rate limiter (under its mutex) and the pool. No handler opens a
transaction, so every SQL statement is committed on its own, and the only
atomicity is that of one statement. The rows have no key that a client chooses,
so an event sent twice is stored twice.

What is hard about it:

- the file system, the agent, the handlers and the database are four parties
  without a common transaction; delivery rests on the order read, post, answer,
  rename, each of which can fail or be interrupted, while programs go on
  writing;
- a batch is stored event by event, so a refusal, a timeout or a crash in the
  middle leaves a part, and a retry runs beside the handler it replaces;
- many handlers upsert the same row, in the order of processing and not that of
  occurrence;
- NULL is distinct from NULL in a unique constraint, and optional fields are
  written as NULL;
- the rate limiter reads the clock outside of the mutex that orders requests;
- the admin tool runs up to four statements without a transaction, and the key
  that a request was let in with can be revoked while it runs;
- with `GTCP_AUTO_MIGRATE` every API process migrates as it starts, without a
  lock, and a statement outlives the process that sent it; without it, which is
  the default, a process serves with whatever schema there is;
- a snapshot counts as a report of every agent whose directory it finds;
- retention is arithmetic on a 64-bit duration, in a loop that ignores errors
  and races with inserts whose rows are as old as the beginning of their
  statement;
- a stop has to end four things that wait for each other: the listener, the
  handlers, the prune loop and the pool.

## 2. Plan

Order of work, most important behaviour first. All of the models are done, and
every safety property of the passing runs is proved; what is left are refinements
of the models.

1. **Delivery** (done): `AtLeastOnce` (the promise), `SpoolDelivery` (programs,
   agent, handlers, failures), refinement, proofs.
2. **Rate limiter** (done): `RateLimiter`, all of its properties proved.
3. **Projection** (done): `Scan` (what the agent finds in its workspace),
   `Projection`, and the proof of its safety. To do: an abstract specification of
   what the lists promise.
4. **Migrate** (done): `SerialUpgrade` (the promise), `Migrate`, proof of its safety
   and of the refinement.
5. **Access** (done): the admin commands and `withAuth` around `RateLimiter`;
   model, refinement of the limiter, proof of all safety properties.
6. **AgentLoop** (done): the process of the agent around `SpoolDelivery`; model,
   refinement, and the liveness of delivery.
7. **ApiProcess** (done): start, retention, drain and stop; model, and proof of
   its safety.
8. **Dashboard** (in part): the refresh up to its first failure. To do, once
   empty lists are rendered: overlapping refreshes.
9. An abstract specification of what `ApiProcess` promises about rows (inserted,
   kept for their time, pruned) and the proof that it implements it. To do.

Which module uses which: `AgentLoop` extends `SpoolDelivery`, which instantiates
`AtLeastOnce`; `Access` extends `RateLimiter`; `Migrate` instantiates
`SerialUpgrade`; `MCProjection` takes the workspace of `Projection` from what
`ScanWorkspace` of `Scan` returns. The others stand alone: they share
the database with these, but no step of one depends on the rows of another.

## 3. The modules

### AtLeastOnce

The abstract promise: `Submit` a set of new events, `Deliver` one, `Retire` some
that were delivered. Two variables, `pending` and `delivered`.

### SpoolDelivery

The whole path of an event. Actions, and the code each stands for:

| Actions | Code |
|---|---|
| `BeginDrop`, `EndDrop`, `AppendLine` | the programs that use the spool (external; README "Spool directory") |
| `ReadDir`, `ReadFile`, `SkipEmptyFile`, `ParseError` | `ReadSpoolEvents`: os.ReadDir, then each file in name order |
| `NothingToSend`, `Post` | `sendSpool`, `SendEvents`: one batch of all files |
| `ReceiveAccepted`, `ReceiveRefused`, `Timeout` | `postJSON` and its error path |
| `MarkProcessed`, `RenameFault` | the rename loop; errors of os.Rename are dropped |
| `RefuseRequest`, `RefuseOversize`, `BeginStore` | `withAuth`, `http.MaxBytesReader`, JSON decoding |
| `InsertEvent`, `RejectEvent`, `StoreFault`, `Accept` | the loop over the events of `handleEvents` |
| `Cancelled` | the request context of a client that went away |
| `AgentCrash`, `ServerCrash` | the processes die and are started again |

The state is the directory (`spool`, `sent`, and `writing` for files a program
has not completed), the locals of `sendSpool` (`todo`, `batch`, `processed`,
`call`), the requests in progress (`req`) and the rows of table events
(`copies`, counted up to `MaxCopies`). `emitted`, `raced` and `retried` are
history that only the properties read. `calm` says that failures have ceased.

Abstractions. An event is one occurrence, and size is counted in events
(`MaxBatch` for `GTCP_MAX_EVENT_BYTES`). The lines of a file come as one
sequence. A file that is being written is either still empty or a prefix that
does not parse; a `.jsonl` file written line by line, of which a prefix does
parse, is a file completed early and then appended to (`AppendLine`). A
request whose client has gone is either cancelled at any point or runs to its
end. A file with no events is skipped as in the code. A refusal by
authentication or by the rate limiter is `RefuseRequest`, whatever its reason.
One agent uses a spool directory. An event stands for one occurrence, so that no
file holds the same one twice (`OccurrenceAssumption`); two equal lines are two
events. `Appended` are the events that programs append
to a file that is there; the others come in files that are dropped whole.

### AgentLoop

`run` of `cmd/agent/main.go`: `loop` is the place of its only goroutine, in the
first snapshot, in the select, or in one of the branches. `OnHeartbeatTick`,
`OnSnapshotTick` and `OnDone` are the cases of the select, `Heartbeat`,
`SendSpool` and `Snapshot` the calls of the branches; `SendSpool` takes the steps
of `SpoolDelivery`, so that `pc` moves only while `loop` is in its branch.
`Signal` cancels the context: from then on a request fails at once
(`Interrupted`), and the select may take its `Done` case, or a tick that is ready.
`AgentDies` and `Run` are death and restart. What heartbeats and snapshots do to
the server is in `Projection`; here they take their time and may fail.
`DrivesTheSpool` is the refinement: the process, seen from the spool, behaves as
`SpoolDelivery` says.

### RateLimiter

`rateLimiter.allow` for any number of requests at a time. `ReadClock` is
`time.Now()`, outside of the mutex; `Admit` and `Deny` are the section under the
mutex. Tokens are scaled by `Minute` so that they are integers: a token is
`Minute` units and a tick refills `Rate` units. The rounding of float64 is
not modelled. `log` is history: the bucket time of each admission.

### Access

`cmd/admin` and `withAuth`, with the limiter of `RateLimiter`. A command has a
list `todo` of statements (`CreateKey`, `CreateAll`, ...), executes one in each
step, and can end before any of them (`EndCommand`: an error, a signal); only the
error of the audit entry is passed over (`AuditFails`). What a command is given
(an organization, a workspace, a key to revoke) need not exist: the foreign keys
refuse it, except in `audit_logs`, which has none. A request goes from `sent`
over `found` (`WorkspaceIDFromAPIKey` has answered) to `asking` (the limiter's
clock is read) and is let in or denied. `late` is history: the key was revoked
before the request arrived. The key of an audit entry is history as well, for the
code writes only the workspace and the action. `last_used_at` is left out, since
it is only listed. `CreationsAreTrue` says that an entry of a creation names a workspace
that has the key. Of the entries of revocations it is not so: `BeginRevoke` may be given
an identifier that is no key's, or another workspace than that of the key, `RevokeKey`
then changes nothing, or a key elsewhere, and `AddAudit` follows all the same.

### SerialUpgrade

The abstract promise of a migration: one file after the other is applied and then
recorded (`Apply`, `Record`), and a process passes (`Pass`, or with the last record)
when all of them are recorded. It knows no processes that migrate, no rivals and no
failures.

### Migrate

`db.Migrate`, run by any number of processes. `done` holds the statements that
are committed: the table of migrations, the application of each file, its
record. Each statement has a beginning, at which it sees what is in place (`saw`), and
an end: it succeeds (`Commit`) or finds that another was faster (`Conflict`),
which ends the process with an error as in the code. A process that dies leaves
its statement to the database (`orphans`), which commits it later or not.
`StartUnmigrated` is the start of an API process (`Apis`) without
`GTCP_AUTO_MIGRATE`, which is the default: it serves with whatever schema there is,
and what the properties say of a process that is `up` is said of those that came
through `Migrate`. Each file is one
transaction, since pgx sends a query without arguments as a simple query. The
text of the files is left out, but that each of their statements says
`if not exists` is what allows `Commit` of a file that was applied before.
`ImplementsSerialUpgrade` maps the files applied, the files recorded and the
processes that are up to `SerialUpgrade`.

### ApiProcess

`cmd/api/main.go`. `life[p]` goes from `serving` over `draining` (in
`srv.Shutdown`) to `closing` (in `pool.Close`) and `down`; `Drained` and
`Deadline` are the two ways out of Shutdown, and `Kill` ends the process anywhere. A handler
holds a connection during a statement (`BeginInsert`, `EndInsert`); closing the
pool waits for those and refuses new ones (`PoolClosed`). The prune loop
(`PruneTick`, `PruneTable`, `PruneFails`) reads the clock once for both tables.
A row carries the time at which its statement began, as `default now()` does.
`failing` says what can fail: a process or an insert (`Calm` when no more), and the
prune of either table, which may go on failing for good when all else is calm.
`Cutoff` computes with the width of an `int64` of nanoseconds, counted in days:
`MaxDays` stands for 106751, and `Wrap` is the wrap-around.

### Dashboard

`refresh` of `app.js`: six requests with one key (`Send`), their answers
(`Answer`, `Fail`), and rendering when all are there (`Render`), which throws when
a list that is counted came as `null` (`RenderThrows`). Of the data only the
question whether a list is empty is modelled.

### Scan

`ScanWorkspace` of `internal/agent/scan.go` as a function of a directory: which
entries are rigs (`LooksLikeRig`: a directory crew or hooks is in it), which agents
and hooks are in them (`Inside`), and the order in which they are found. Directories
are sequences of entries in the order of os.ReadDir, and files are passed over. The
agents and hooks of one rig follow those of the rigs before it. Paths are left out:
that a rig has one is `path` in `Projection`.

### Projection

The tables rigs, agents, convoys and hooks. A request is a list of statements
(`EventStatements`, `SnapshotStatements`) in the order of the code: an event
upserts what it names (`EventUpserts`), a snapshot the four lists of `Workspace`
(`RigUpserts`, `AgentUpserts`, `ConvoyUpserts`, `HookUpserts`). The scanner of the
agent finds no convoys; the endpoint takes them, and the README proposes in its notes
to extend the scanner, so that one run has a snapshot with a convoy (`OneConvoy`). A
handler executes them one at a time: `ExecuteStore`, `ExecuteUpsert`, `Answer`.
A statement that fails ends the request (`StatementFault`) or, for the upserts
of an event, whose errors `InsertEvent` ignores, is passed over
(`IgnoredFault`). `rows[k]` is a sequence because a key with a NULL column does
not conflict with itself, so that one key can have several rows. `Listed` and
`Alerts` are what the endpoints answer. Role, status and metadata are left out:
each is written together with the columns kept. `reported` is history: which message
counted as a report of which agent, and as of which time. One workspace is modelled: every
statement carries the workspace of the caller's key.

## 4. The runs

Passing runs:

| Run | Instance | What it shows |
|---|---|---|
| `spool_safety` | 2 names, 4 events of which one is malformed and one is refused by the server, files of 1 or 2 lines, dropped or appended to, 2 requests at a time, at most 2 events in a request | `SentIsStoredOrRaced`, `NothingLost`, `NoNeedlessDuplicate`, and that the spool implements `AtLeastOnce`, under every failure at every step |
| `agent_loop` | the process of the agent; 2 names, a file of one line, a file of two, a malformed one, an appended line; signals, restarts, failures that cease at some time | `EventuallyStored`, `EventuallyRetired`, `StopsWhenTold`, `GoesOnReporting`, and the refinement `DrivesTheSpool` |
| `access` | 2 admin commands and 2 requests at a time, one organization, workspace and key, a rate of 2, 1.5 minutes | `RevokedIsShutOut`, `PrintedIsGood`, `CreationsAreTrue`; `WithinBudget` in every window, `WithinRealTime`, `DeniedOnlyWhenSpent` |
| `projection_safety` | 2 requests at a time, an event that names an entity of each table, snapshots of a workspace with one rig among what is none, an agent, a convoy and a hook, time 0 and 1 | `RowIsBacked`, `AcceptedIsListed`, `NoMissedAlert` |
| `projection_liveness` | heartbeats and events of a rig that never cease, snapshots, failures that cease | `EventuallyListed`, `PathIsRestored` |
| `api_process` | 1 process, a request with two events and one with a snapshot, retention of a day for both tables, or of more days than a duration holds for one, a prune of either table that may fail for good, 2 days | `AcceptedIsKept`, `DrainIsGraceful`, `RetentionKept`, `EventuallyPruned`, `StopsWhenTold` |
| `migrate` | 3 processes, two of them API processes that may start without migrating, 2 files | `RecordedInOrder`, `UpHasSchema`, and that the schema changes as in `SerialUpgrade`; `SomeoneFinishes`, `LoneMigratorFinishes` |

Each of them checks a type invariant as well, but for `projection_liveness`.

Runs in which the code does otherwise than the repository says (the findings of
`PROJECT.json` quote the lines):

| Run | Property | Shows |
|---|---|---|
| `spool_append` | `SentIsStored` | a line appended to a `.jsonl` file after it was read is renamed to `.sent` without having been sent |
| `projection_rows` | `OneRowPerAgent` | each heartbeat adds a row for the same agent |
| `projection_alerts` | `AlertsAnswered` | a stale agent without a rig makes `/v1/alerts` end with 500 |
| `projection_false_alert` | `AlertIsTrue` | a report processed late sets `last_seen_at` back and raises a false alert |
| `dashboard_populates` | `Populates` | a list without rows comes as `null`, on which rendering throws: the page never shows the rigs and agents there are |

Some limits of the code are in the statement of a property that holds. What
`EventuallyStored` and `EventuallyRetired` promise is void while the spool is
`Stuck`: one file that does not parse or has an event the server refuses, or
files that exceed the size limit together, keep all the others from being
uploaded for ever; so these two say nothing of those three hazards, and no other
property does but that the files are kept (`NothingLost`). `RetentionKept` and
`EventuallyPruned` except retentions that overflow: from 106752 days on the duration
wraps around, the cutoff can lie in the future, and a prune then deletes every row,
those just stored among them. `CreationsAreTrue` leaves out the entries of
revocations, for the reason given in section 3. `AcceptedIsListed` excepts events of which an upsert failed, whose errors
`InsertEvent` ignores; `EventuallyListed` says that snapshots make up for it.
`NoMissedAlert` counts a snapshot that lists an agent as a report of it, as the code
does: an agent that is silent raises no alert as long as snapshots find its directory.
`LoneMigratorFinishes` says nothing while the statement of a dead process is still
running (`Rivals`).

Bounds, and why they are enough. Two names give a batch from several files, a
rename loop that can be interrupted in the middle, and a file name that is used
again after its rename. Two requests give an abandoned handler that runs beside
the one of its retry; `agent_loop` has one, because a second adds duplicates,
which liveness does not count. Two copies tell one from many. Three events
with batches limited to two give an oversize batch. Failures are not bounded in
number. In `access` two requests in flight at a rate of two give windows that hold
several admissions by readings of the clock in either order, 1.5 minutes let the
bucket run empty and fill again, and two commands give a revocation beside a
creation and two creations that compete for their parts; the limiter knows only the workspace
of a request, and that there is one key in the instance (with two it
takes more than five minutes) makes no difference to it. In `Projection` two
requests give each interleaving of the statements of two handlers; `MaxRows`
stops the growth of the table where heartbeats would add rows for ever, by
posting no more of them. In `migrate` the third process makes a difference:
two can be rivals while the third has gone ahead, and a dead one can leave a
statement that outruns both. In `api_process` one process is enough, since two
share only the database, where a second one's prune is another prune; `MaxDays` is
3 so that a retention of 5 overflows, and with a retention of a day for both
tables one prune can fail while the other must succeed. `Dashboard` has one slot for refreshes: it
is enough for the counterexample. The theorems of section 6 hold without any of
these bounds.

Deadlock is checked in every run.

## 5. Fairness

`AgentLoop`: the branches of the loop end, since their requests have a timeout
(weak fairness of each step); a program completes the file it has begun; each
handler, a goroutine of its own, takes its next step. The three cases of the
select have strong fairness: the tickers tick for ever, a tick that is not taken
stays in the channel, and Go's select picks at random among the cases that are
ready, so that none is passed over for ever. Nobody has to start the agent, to
stop it, or to fail; liveness is claimed from the time the failures have ceased
with an agent that runs (`calm`), since a server that refuses for ever delivers
nothing. `StopsWhenTold` is claimed at all times.

`Projection`: weak fairness of each handler, and strong fairness of the snapshot
ticker. The server takes any number of requests, whereas the model has the slots
of `Requests`, which events can occupy again and again: strong fairness undoes
that bound and nothing else.

`ApiProcess`: weak fairness of the handlers, the prune ticker and its statements,
the end of Shutdown (by its own deadline, if not before) and of `pool.Close`. None
for the start, the signal, the clock and the failures.

`Migrate`: weak fairness of each process that migrates. None for the start, for
failures, and for the end of a statement whose process died.

`Dashboard`: weak fairness of the timer and of the answers.

## 6. What is proved

Every theorem is for all values of the constants that satisfy the module's
assumption, and none needs the sets to be finite. Every safety property of a
passing run is a theorem, and so are the refinements; two violation runs
(`spool_append`, `projection_false_alert`) have a theorem that says what alone makes
the difference.

`SpoolDeliveryProofs` (assumptions: integers for names, since the code reads them
in order; non-empty contents, none with the same occurrence twice; `MaxCopies` at
least 1):

- `TypeCorrect`: `Spec => []TypeOK`.
- `NothingIsLost`: `Spec => []NothingLost`.
- `SentFilesAreStored`: `Spec => []SentIsStoredOrRaced`.
- `WholeFilesAreStored`: `Spec => []SentIsStored` when programs drop whole files
  (`Appended = {}`). The assumption is needed: `spool_append` refutes it otherwise.
- `NothingIsDuplicatedNeedlessly`: `Spec => []NoNeedlessDuplicate`.
- `SpoolKeepsPromise`: `Spec => ImplementsAtLeastOnce`. `EndDrop` and `AppendLine`
  are `Submit`, `InsertEvent` of an event not yet stored is `Deliver`,
  `MarkProcessed` is `Retire`, and the other steps stutter. A line appended between
  a read and a rename counts as pending for ever: that is the mapping's, and the
  only, concession.

The argument. `NothingLost` is not inductive: `MarkProcessed` removes a file, and
that is harmless only because its events are stored, which was established in
another process several steps earlier. `IInv` carries that fact along the path:
`HandlerInv` (a handler has stored what is before its position, and all when it
accepts), `CallInv` (the agent waits for the request with its own batch, and in
state marking the batch is stored), `ReadInv` (a file to be renamed holds what
is in the batch, and lines appended since), `WritingInv` and `FreshInv` (a name is
not written to while a file has it, and what is being written is new),
`EmittedInv` (whatever is in the spool, in a request or in the database was
completely written) and `RacedInv`. The proof that a step keeps
`IInv` has one lemma for each part of `Next`; steps that end a poll, and steps
that answer a request, are the lemmas `PollEndKeeps` and `ReplyKeeps`.

`NoNeedlessDuplicate` needs the opposite direction, that something is *not* stored,
and a second invariant, `OnceInv`, proved with `IInv` at hand. A line is in one file
at one position (`LinesDistinct`), and a poll reads it at most once (`ReadOnce`).
`NotSent` says that what is in the spool and in no attempt has no row, `NotStored`
that this is so of what the handler of the agent's own request has not come to,
`OldAttempts` that every other request is one that was given up, so that what it
stores is in `retried`. `ToRename` closes the circle: what was acknowledged leaves the
spool with the rename of its file; a rename that fails, or a crash before it, puts it
in `retried`. `OccurrenceAssumption` is needed here and nowhere else.

`AgentLoopProofs`:

- `LoopTypeCorrect`: `LoopSpec => []LoopTypeOK`.
- `LoopDrivesTheSpool`: `LoopSpec => DrivesTheSpool`. Every step of the process is
  a step of `SpoolDelivery` or leaves it alone. `Interrupted` takes steps that are
  failures there, which it may only before the system is calm: `CalmInv` says
  that a calm system has no cancelled context.
- `LoopLosesNothing`, `LoopDuplicatesNothingNeedlessly`, `LoopKeepsPromise`:
  `LoopSpec` implies `[]NothingLost`, `[]NoNeedlessDuplicate` and
  `ImplementsAtLeastOnce`, by `LoopDrivesTheSpool` and the theorems above.

`RateLimiterProofs`, for any rate, any resolution of the clock and any number of
workspaces and requests:

- `TypeCorrect`: `Spec => []TypeOK`.
- `AdmissionsWithinBudget`: `Spec => []WithinBudget`.
- `AdmissionsWithinRealTime`: `Spec => []WithinRealTime`.
- `RefusalsAreDue`: `Spec => DeniedOnlyWhenSpent`, an action property.

The argument. `WithinBudget` speaks of past admissions, the code only of tokens.
`Accounted` connects the two: since any admission, what was admitted and the
tokens left are together at most a full bucket and what was refilled since; and
unless the bucket is full, there is an admission for which they are exactly that.
The first half gives the two budgets, the second gives `DeniedOnlyWhenSpent`.
`Accounted` is a predicate of one bucket and one log, so that `RefillAccounted`
and `AdmitAccounted` are lemmas about the arithmetic and know nothing of the
steps. That refilling with an older reading of the clock changes nothing is in
`RefillFacts`; that the bucket is never ahead of the clock is in `BucketInv`.

`AccessProofs`:

- `AccessIsLimited`: `AccessSpec => Spec`, so that the theorems of the limiter
  hold of the requests that `withAuth` lets in: `LetInWithinBudget`,
  `RefusedOnlyWhenSpent`.
- `AccessTypeCorrect`, `RevokedStaysOut`, `PrintedKeysAreGood`, `CreationEntriesAreTrue`:
  `AccessSpec => []P` for `AccessTypeOK`, `RevokedIsShutOut`, `PrintedIsGood` and
  `CreationsAreTrue`.

The argument. `AccessInv` says of each command which of its statements lie behind
it, by the shape of what is left of its list, and hence which rows are there
(`CommandInv`); rows refer to rows (`RowInv`) and are never deleted, so that what
a command has seen stays true while others run. Of a request it says that past
the lookup its key exists, and was not revoked when it arrived (`RequestInv`).

`MigrateProofs`: `TypeCorrect`, `RecordsAreInOrder`, `WhoIsUpHasSchema` and
`MigratesSerially` (`Spec => ImplementsSerialUpgrade`), for any number of files and
processes. `RecordedInOrder` is not inductive, because a
statement that is recorded was decided on long before, perhaps by a process that
is dead. `ProcsInTurn` says that a process works on a file only when all those
before it are recorded, and records it only when it is applied; `OrphansInTurn`
says so of the statements of the dead, and `DoneInTurn` of what is committed. The
refinement rests on the same facts: a commit that is in its turn (`CommitInTurn`) is
`Apply` or `Record` of the next version the first time, and a stutter when a rival
or an orphan comes late. Whoever goes up finds all files recorded, or
records the last one.

`ApiProcessProofs`, for any number of processes, of requests and of their events,
any retention and any `MaxDays`: `ApiTypeCorrect`, `AcceptedStays`
(`AcceptedIsKept`), `DrainsGracefully` (`DrainIsGraceful`) and `RetentionIsKept`
(the action property `RetentionKept`). `HandlersOk` says that a handler has stored
every item before its position, and counts one that a prune has deleted as
stored, so that no prune can disturb it. `ClosingHurts` is what makes the drain
graceful inductive: a handler that finds the pool closed was there when the
deadline struck. `PrunesOk` says that the time a prune goes by is not in the
future and that it has only tables with a retention to do; from that and
`WrapFits` (a retention of at most `MaxDays` does not wrap) it follows that what it
deletes is too old by the present clock as well.

`ProjectionProofs`, for any events, any workspace, any number of requests, and any
bounds: `TypeCorrect`, `RowsAreBacked` (`RowIsBacked`), `AcceptedAreListed`
(`AcceptedIsListed`) and `AlertsAreNotMissed` (`NoMissedAlert`).

The argument. `ProjectionInv` adds two parts to the properties. `HandlersOk` says
of each handler that its message is stored unless its first statement is still to
come, and that each entity the message names is listed, is one of which a statement
is left (`Awaited`), or is of an event with an upsert that failed unseen: when
nothing is left and the answer is 202, that is `AcceptedIsListed`. `ReportsShown`
says that an agent that has reported has a row, and that `last_seen_at` of every row
is the time of one of its reports; so if all of these are old, so is the row. That
reports go into the row in any order does no harm to it. The lemmas before (`EventFacts`,
`SnapshotFacts`, `NamedFacts`) say what is in the lists of statements.

Two more theorems say what keeps the alerts from being right, the first of them in
answer to the run `projection_false_alert`:

- `AlertsAreTrueInOrder`: `AlertIsTrue` holds of the behaviours in which no step
  makes the `last_seen_at` of a row earlier (`SeenNeverFalls`). `UpsertAgent` does not
  see to that: the theorem says that no more is missing. The invariant is
  `ReportsCovered`: the row is as new as each report.
- `UnlistedSilenceIsAlerted`: an agent that the snapshots do not list is selected by the
  alert query once its own reports are old (`WhenSilentAlerted`). Being listed is thus all that keeps a silent agent from the
  alerts. It rests on `AlertsAreNotMissed` and on `ReportsAreNamed`: a report of an agent
  comes from a message that names it.

TLC checked each inductive invariant on instances like those of section 4 before
it was proved.

## 7. What is only model-checked

Liveness: temporal reasoning under fairness is beyond the provers used. Every safety
property of a passing run is proved as well. `Scan` has no theorem: TLC evaluates it on
the workspace of the `projection` runs, and the theorems about `Projection` hold for
whatever it returns. The properties of the violation runs do not hold; that of
`Dashboard`, which has only such a run, is a liveness property.

## 8. What is not modelled

- Two agents on one spool directory.
- Rounding of float64 in the rate limiter, the memory of its map, which never
  shrinks, and a rate of 0, for which the server creates no limiter.
- A workspace that changes while it is scanned; entities that have disappeared
  from a workspace, which no statement ever deletes.
- The overflow of `stale_minutes` (a number from a query, multiplied without a
  bound); the filters of the activity query.
- Configuration: its values are constants. Two of its faults are among the
  hazards: the agent panics when an interval is not positive, and it never reads
  `GTCP_SPOOL_DIR`, which the README documents.
- `list-api-keys`, the update hint, `/healthz`, `/v1/info`, static assets, token
  and JSON helpers: no state, or read-only.
- Overlapping refreshes of the dashboard: they are in the module, but while one
  empty list keeps every refresh from rendering there is no order to check.
