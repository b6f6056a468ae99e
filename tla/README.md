# A verification of the Xcos server

Xcos is a small video-surveillance server: a Rust process with one SQLite
database, beside one MediaMTX process that receives, records and serves the
streams. Cameras are never contacted by the server: a *client* (the `xcoc`
agent, another repository) pairs with an authorization code, reports the one
camera it owns in periodic snapshots, publishes its streams to MediaMTX and
polls for device commands. Administrators use a web console.

This directory holds TLA+ models of that server, the TLC runs that check them
on small instances and theorems that TLAPS proves for all of them. Paths below
are relative to the repository.

## 1. Inventory

| Part | State it keeps | Operations | Hard because |
|---|---|---|---|
| Client registration and snapshots (`src/routes/clients.rs`) | `xcocs`, `cameras` | create, pair, rotate, revoke, purge, snapshot | five handlers write both the camera and the desired row; a removed camera may come back; handlers take `now` before they wait for the write lock |
| Media reconciliation (`src/reconciliation.rs`) | `media_desired_states`, `media_actual_paths`, `media_reconciler_leases`, `_common_operations` | queue a change; acquire, renew, release the lease; recover, claim, apply, finish, fail, abandon an operation; observe and repair drift | calls to MediaMTX happen outside any transaction; outcomes may be unknown; crashes, expired leases, rows read before and used after other commits |
| Operation store (external crate `xcss`) | `_common_operations`, its audit outbox | enqueue, claim, transition, recover, resolve | one active operation per target; retries; a store shared by handlers and the worker |
| Device commands (`src/routes/cameras.rs`, `clients.rs`) | `device_commands` | queue a move or stop, deliver, expire, accept results, query a receipt | at-least-once delivery, deadlines, stale `now`, check-then-insert, capacity |
| Status observation (`src/background.rs`, `src/models.rs`) | status and observation columns of `cameras`, `events` | refresh, invalidate, emit an event | read-then-write against handlers and the worker; freshness; capacity |
| History budget and audit (`src/history.rs`, `flush_operation_audit`) | `audit_logs`, `events`, operations, outbox | admit a write, project the outbox | reserved rows must suffice for everything already accepted |
| History pages (`src/routes/history.rs`, `list_operations`) | none (cursors) | list a page, follow events | key-set pages against concurrent inserts and equal timestamps |
| Media authorization, playback (`src/auth.rs`, `routes/media.rs`, `recordings.rs`) | none (signed tokens) | issue a token, answer MediaMTX | tokens outlive what they were issued for |
| MediaMTX client (`src/mediamtx.rs`) | none | update, delete, list paths; list recordings | pages of a list that changes; ambiguous outcomes |
| Web console (`web/src`) | view state | refresh, PTZ controls, WHEP player | overlapping promises, aborts, ordering of move and stop |
| Startup, lock, shutdown (`src/app.rs`, `runtime_lock.rs`, `lifecycle.rs`) | lock and pid files | acquire, recover, serve, drain | one process at a time is what the loop relies on |
| Database opening, `init`, `doctor`, restore, deploy scripts (`src/sqlite`, `cli.rs`, `doctor.rs`) | the database file, its directory and locks | validate, initialise, probe, replace | several processes on the same files, each killed anywhere; a check and the use of what was checked are apart |
| Configuration, secrets, release tooling | none at run time | parse, encrypt, package | functions of their input, run by nobody else at the same time |

The parts interact through the database (every handler and loop uses its own
transactions), through `reconcile_notify` (a handler wakes the worker) and
through MediaMTX, which calls back `media_auth`.

What makes each correct: *reconciliation*: the desired row says what the camera
row says; one active operation per camera; no call while an outcome is unknown;
a publish URL only for applied paths; deletion only when the media is gone;
every claim ends; MediaMTX converges to what is desired or a human is asked.
*Commands*: nothing expired is run, a final receipt stays, a stop is never
crowded out by moves, everything delivered settles. *Status*: what is shown as
fresh was observed after the last change; every transition has its event.
*History*: accepted work always fits. *Pages*: everything once. *Web*: a
refresh sees what happened before it was asked for; a stop follows every move.

## 2. Modules

| Module | Models | Composition and proofs |
|---|---|---|
| `MediaReconciler` | handlers, operation queue, worker, MediaMTX, failures | `MediaReconcilerProofs`, `MediaLifecycleProofs`; TLC instances in `MCMediaReconciler` |
| `MediaLifecycle` | what a client is promised of its media until it is deleted | implemented by `MediaReconciler` (`Lifecycle == INSTANCE ...`), proved in `MediaLifecycleProofs` |
| `DeviceCommands` | PTZ commands from admission to receipt | `DeviceCommandsProofs` |
| `StatusObservation` | the status loop over a paginated inventory, freshness, events | `StatusObservationProofs` |
| `HistoryBudget` | admission of rows, reserves, the audit outbox | `HistoryBudgetProofs` |
| `StateDirectory` | processes that share data and runtime directories | `StateDirectoryProofs`; TLC instance in `MCStateDirectory` |
| `MediaAuthorization` | tokens and what `media_auth` answers for them | `MediaAuthorizationProofs` |
| `EventFeed` | how a console page follows the server | `EventFeedProofs` |

The order they were written in is the order of what would hurt most: media that
is wrong for ever, commands, then what users are shown, then what is kept. The
modules meet in the tables: each has the handlers that write the rows it is
about, as whole transactions, and leaves the other columns out. Slips (operators
commented `Slip:`) are plausible bugs; no action uses them, and each shows that
one property notices it.

## 3. MediaReconciler

One action is one SQLite transaction, one autocommit statement or one call to
MediaMTX. Handlers (`PairClient`, `RotateAuthorization`, `RevokeClient`,
`ReportCamera`, `ReportNothing`, `PurgeClient`, `ResolveOperation`) are single
transactions and interleave anywhere. The worker is a program counter over
`reconcile_available` and what it calls:

    idle -RecoverExpired-> acquire -AcquireLease-> renew -RenewLease-> claim
    claim -> reread -> renewClaimed -> load -> camera -> main -> sub
          -> finish | fail | superseded -> release          (an operation)
    claim -> fetch -> list -> observeCamera/Main/Sub -> driftCheck
          -> driftEnqueue -> renew -> claim                  (an observation)

| Model | Code |
|---|---|
| `client`, `camera`, `desired`, `actual`, `ops`, `lease` | `xcocs`, `cameras`, `media_desired_states`, `media_actual_paths`, `_common_operations`, `media_reconciler_leases` |
| `media` | the path configurations MediaMTX holds |
| `late` | requests the HTTP client gave up on and MediaMTX may still execute |
| `worker` | locals of `reconcile_once`, `apply_claimed_operation`, `observe_and_schedule_drift` |
| `faults` | how many failures have happened (bound) |

Abstractions. A camera's id is its client's id and a client has at most one
camera, so one index serves both tables; generation 0 stands for an absent
desired row. A path configuration is `none`, `plain` or `record`. Times are
kept only as the order that decides something: an operation's creation
(`HandlerStamp`, `DriftStamp`: a drift operation carries the time taken before
the worker looked), a lease that has or has not expired, a back-off that has or
has not elapsed. A call to MediaMTX is one step (lookup and update, or delete)
with the outcomes the client distinguishes: success, an error status, no
answer; without an answer it was executed, lost, or will be executed later. The
two inventory requests of an observation are one read. One process runs (the
instance lock), so the re-read of a claim always matches, the `observed_at`
guard always lets the write through and the "succeeded since the observation
started" clause of `blocks_new` never holds; the cap of 64 rounds per cycle is
left out. `apply_desired` can only fail with the two upstream errors, so
`failed` is reached by no path. The row budget is `MaxOperations` here and
`HistoryBudget` in its own right.

Failures, each enabled by a member of `Faults` and bounded by `MaxFaults`:
`crash` (restart, startup recovery), `stall` (a lease expires while it is in
use), `reject` and `timeout` (MediaMTX), `late` (a lost request executes
later), `database` (a statement of the worker fails), `drift` (MediaMTX
restarts or is changed by somebody else).

`Truthful` says whether an administrator confirms as succeeded only an
operation whose effect MediaMTX really has. The program cannot check it: with
`Truthful = FALSE` one wrong confirmation lets a permanent deletion through,
which is why the deletion run assumes it.

### Runs

| Run | Question | Instance |
|---|---|---|
| `deletion` | tables agree, one active operation, no call beside an unknown one, publish URLs only for applied paths, and the loop implements `MediaLifecycle` | 1 camera, 3 reports, 3 generations, 4 operations, 2 attempts, one failure that is not `drift` or `late`, truthful; about 2.5 million states |
| `convergence` | every claim ends (`RunningEnds`), MediaMTX converges (`Converges`) | 1 camera, 1 report, 2 generations, 5 operations, 2 attempts, any one failure, fairness |
| `isolation` | types and attempts; an unknown outcome of one camera does not stop another's | 2 cameras, 1 generation each, 4 operations, 2 attempts, two of time-out, drift and rejection, fairness |
| `removal_stuck` | finding: a removed camera that can never be deleted | 1 camera, 2 generations, 4 operations, any one failure, not truthful, no fairness |

The bounds are the smallest where the interesting cases happen: three
generations let a revocation follow a change that is still queued, four
operations leave room for two changes, a removal and a drift repair, and two
attempts show a retry. One failure at a time is what the code claims to
survive; a second camera matters only where operations of different cameras
meet, in the claim. `drift` and `late` are left out of `deletion` because they
change MediaMTX behind the server's back, which no transaction can prevent;
what the server does about them is `Converges`.

Fairness (`FairSpec`): the worker's next step always comes (the loop ticks, and
every call ends because the HTTP client has a time-out), leases expire and
back-offs elapse. No handler is ever obliged to run, so liveness holds without
any help of a client or an administrator, and `Converges` says so: MediaMTX
serves what is desired for ever from some point on, or an administrator is
needed (`NeedsHuman`).

### Findings

* `removal_stuck`. The drift check compares with a desired row listed earlier
  and inserts in a later transaction. If a revocation commits in between, the
  drift operation carries the old generation and a later creation time. It is
  superseded quickly, but it stays the newest operation of the camera, and
  `purge_revoked_client_in` looks only at the newest: the client can never be
  deleted, although its removal succeeded.

The idempotency key of an operation includes the time of its insertion
(`src/reconciliation.rs` 662-673), so a generation may be carried by several
operations, against what the feature inventory says of the key (SEN-O-004).
Nothing the runs check relies on the deduplication, and no run is spent on it.

### Proofs

For any number of cameras, any set of reports, any bounds and, unless a row says
otherwise, any failures:

| Theorem | Strengthening and why it is needed |
|---|---|
| `TypeCorrect` | The finish paths index `ops` by the worker's job and count attempts: `ClaimIsRunning` (from the claim to its end the job is a running operation; nobody else touches it unless the worker has lost it too) and `PendingHasAttempts`. |
| `DesiredIsRight`, `PairedIsWanted` | `RowsTogether`: without a camera row there is no desired row, which is what makes a first report start from generation 0. |
| `ClaimsAreExclusive`, `OneIsActive` | Only the claim makes an operation active, and only when its camera has none; every other step activates nothing. |
| `PublishedIsServed` (`MediaLifecycleProofs`, part 1), without `drift` and `late` | What the worker holds in each step: the row it read is the current one or was desired before (`WasDesired`), what it applied so far is there (`AppliedRight`), what it has seen is still so or will not be written (`LoadedRight`, `SeenRight`), no request is on its way (`NothingLate`), nothing is left of a purged camera (`PurgedIsGone`). |
| `ImplementsLifecycle` (`MediaLifecycleProofs`, part 2), without `drift` and `late`, truthful | A deletion is judged by an operation, so: no operation is newer than its desired row, and a settled one of the current generation means that MediaMTX serves what is desired (`RowsRight`). Calls of an older row do not undo that, because while one is applied every operation of the current generation is still pending (`HeldFor`); a skipped operation really is old (`SupersededIsOld`); without a desired row there is no media (`NothingWithoutRow`). Each step then is a step of `MediaLifecycle` or leaves its variables alone. |

The proofs use the assumptions the modules declare on their constants and those
named in the theorems. `RunningEnds` and `Converges` are liveness and stay with
TLC, as does the finding.

## 4. DeviceCommands

One client, its one camera, and the PTZ commands queued for it. A transaction
is one action; `ptz` and `client_snapshot` read the clock (and `ptz` its
checks) before they wait for the write lock, so each is two actions with the
age of that reading, `lag`, in between:

    PtzChecks -> PtzInserts | PtzFails
    SnapshotStarts -> SnapshotCommits | SnapshotFails

| Model | Code |
|---|---|
| `client` | `xcocs`: token and revocation, and a count of pairings that stands for the credential |
| `camera` | `cameras`: not shown, shown, or shown, enabled, online and seen lately |
| `rows` | `device_commands` |
| `ptz`, `snapshot` | locals of the two handlers between the clock and the transaction |
| `device` | what the client has made of each command (external) |

`SnapshotCommits` does what the handler does, in its order: authenticate,
expire, record results, forget day-old receipts, hide a camera the snapshot
does not name (ending its commands), hand out the oldest commands due. After
the commit the answer may be lost. `Receipt` is `device_command_status`: it
decides by the present clock, so a pending row may already answer `expired` or
`unconfirmed`; nothing but the row determines it, so asking is not an action.

Abstractions. Times are relative to the present: `ttl` is what is left of
`expires_at` (and orders by `created_at`, a constant earlier), `sent` the age of
`delivered_at`; both stop where nothing compares further. A finished row keeps
of them only whether it was handed out. `DayPasses` is a day without requests,
after which finished rows may be forgotten. The first two reads of `ptz` are
one step. One `ptz` request and one snapshot are under way at a time: the
console chains its requests (`tail` in `web/src/main.tsx`), and the client waits
for an answer before the next snapshot. The limits all clients share are not
counted; a refusal by them is a `PtzFails`, which may happen at any time.

The client is modelled by what the server relies on (guide 04, section 4.6): it
knows a command by its id, checks the deadline before it acts, takes commands
in the order they were requested and reports any results it has.

### Runs

| Run | Question | Instance |
|---|---|---|
| `commands_safety` | types, limits, true answers, final receipts; every command settles | 2 commands, 1 pairing, `MaxWait` 1, limits of 2, capacities 0 to 2, fairness |
| `stop_crowded_out` | finding | 3 commands, 3 rows, 2 pending |

The times keep the order of the code's 5 s < 10 s < 60 s (`RetryAfter` 1,
`Lifetime` 2, `Grace` 3) and of the busy timeout below the lifetime (`MaxWait`
1). Two commands are enough for one to be handed out
beside another, and for a stop to be held up by a move; rows never influence
each other's expiry. The limit of two rows is reached, the one of three in
`stop_crowded_out`. The safety properties are proved below for any wait and any
number of pairings.

Fairness (`FairSpec`): time goes on as long as some row still ages, a handler
that waits ends (the busy timeout), a paired client sends snapshots and, sent
again and again, one commits. The first three are written as `[]<>` of the state
the step leads to, which for these steps is what weak fairness of them says, and
the last as `[]<>Acceptable`, which is when `Commits` is enabled: TLC then need
not compute `ENABLED` in every state. Nothing is assumed of the administrator, the
device or the answers. `EverySettles` ends with the pairing: a command inserted
after its client lost its credential is never touched again until the client is
paired anew or deleted.

### Findings and observations

* `stop_crowded_out`. Only the pending limit keeps a place for a stop. Rows
  stay for a day, and 512 moves (17 minutes of held button) later every stop is
  refused, possibly the one for the last move.

Three things the model makes visible, and on which no run is spent:

* A command may be handed out after its receipt said it expired before
  delivery, and a result accepted after it said the outcome is unconfirmed,
  because the snapshot's clock is up to the busy timeout old. The client's own
  deadline check keeps the device from acting on the command. `ReceiptIsFinal`
  excepts just that: the step that ends a snapshot need not keep a receipt that
  became final after the snapshot read its clock (`Before` is the row as that
  clock showed it), and every other step keeps every final receipt.
* `ptz` checks the credential outside its transaction: a command checked before
  a rotation is inserted after it and waits for nobody, or for the next pairing,
  which then gets it. No property says it should not: the answers about it are
  true either way, and the code claims nothing of the pairing a command came from.
* A move whose answer was lost is handed out again after a later stop was
  carried out.

### Proofs (`DeviceCommandsProofs`)

For any number of commands and pairings, any limits, and any times with
`RetryAfter < Lifetime < Grace` and `MaxWait < Lifetime`:

* `CommandsTyped`: types, with `ResultsAreDone` (a snapshot in flight reports
  only results the device has) as the strengthening that types a recorded
  status.
* `AnswersTrue`, however long handlers wait: `AnswersAreTrue` speaks of the computed receipt; `RowsAgree`
  relates the row itself to the device (never handed out: unknown to it;
  succeeded or failed: its own result) and is inductive.
* `LimitsHold`: every step but an insertion shrinks each set of rows
  (`Shrinks`), and an insertion adds one row to what its own transaction
  counted.
* `ReceiptsAreFinal`, however long handlers wait: each thing that happens to a
  row keeps a final receipt (`Keeps`). A pending row whose receipt was final by
  the snapshot's clock is one the snapshot expires first (`FinalIsOverdue`),
  before it accepts results or hands anything out.

`EverySettles` is model-checked only.

## 5. StatusObservation

The status loop writes what it saw a while ago into rows that handlers and the
worker keep changing:

    idle -StartObservation-> listing -FetchPage*-> selecting -SelectCameras->
         writing -(Confirm | Transit | RejectTransit)*-> idle
    listing -InventoryFails-> failed -Invalidate-> idle

| Model | Code |
|---|---|
| `cameras` | of `cameras`: `deleted_at`, `enabled`, `status`, and the observation columns |
| `loop` | locals of `refresh_statuses` and of `paginated`; `down` without a process |
| `alert` | the row of `events` that the last step inserted, or `NoAlert` |
| `paths` | what MediaMTX reports of each path (external) |
| `lastReady`, `lastUnready` | history: when a camera's path last was so |
| `loop.hidden`, `overtaken` | history: rows a late writer changed since the loop read them; rows that were then written |

Every time is relative. `left` is what remains of `observation_expires_at`, and
`loop.age` how long ago `observation_started_at` was read. `loop.changed` has the
cameras with `updated_at` behind that time, which is what the guard of the
`UPDATE` compares. A writer reads the clock before it waits for the write lock,
so a change made during an observation may carry an older time, and takes away
the newer time of a change before it. Every writer may do so (`Change`): the
camera is then either in `loop.changed` (`Changed`) or not (`Hidden`).

`OnlineIsRecent` holds whatever is hidden. Of a camera with a hidden change the
loop may write a status over a row that it did not read, because the row was
changed and changed back, or got another status with the same `enabled`; the
columns agree again when a later observation is written. The other properties
say what holds nonetheless. `FreshIsDerived` excepts a camera whose latest
observation was written over such a change (`overtaken`), and no other.
`EventsTellTheTruth` asks of every event that it names a known status that the
loop read and the new one, online or offline, that its row has after the step and
shows as fresh (unless the observation is a lifetime old by then); only that the
row still had the old status, and that no event is missing, it asks of cameras
without a hidden change.

| Run | Question | Instance |
|---|---|---|
| `observation` | nothing old is shown as fresh; what is fresh was derived; events; a camera becomes fresh again | paths 1 and 2, one camera on 2, pages of 1, lifetime 2, history that may be full, fairness |
| `inventory_gap` | finding | 3 paths, camera on 2, pages of 1, lifetime 2 |

A page of one makes every inventory of two paths span two pages, so paths come
and go between pages; the camera is on the second, so a path before it can move
it. A lifetime of 2 lets an observation be young, half used, and over. Cameras
do not influence each other except by their order, so one is enough for the
safety properties; the theorems hold for any number.

Fairness (`FairSpec`): the supervisor starts the server again, the loop ticks,
and no step of a cycle fails for ever (strong fairness of each, because a crash
or a failure may disable it in between). It is what `BecomesFresh` needs and no
more: MediaMTX or a database that never answers keeps a camera stale, as it
should.

*Finding* `inventory_gap`. `paginated` accepts a list whose items moved between
two pages, as long as the counts stay the same. A path of an earlier page goes,
another comes, and a camera's path, ready all the time, is on neither page. The
camera is recorded as offline, with an event, and shown as such with a fresh
observation, although the runtime reference says that fresh means a complete
list (`docs/runtime-reference.md:25`). It takes more than 100 paths.

*Proofs* (`StatusObservationProofs`), for any paths, cameras, page size and
lifetime:

* `TypeCorrect`.
* `OnlineStaysRecent`: the loop's own knowledge is the strengthening. A path in
  `loop.ready` was ready no longer ago than the observation began
  (`ReadyIsRecent`), and a row still to be confirmed as online was read as such
  (`OnlineWasRead`).
* `FreshStaysDerived`, however writers wait: a camera that is neither in
  `loop.changed` nor in `loop.hidden` still has the status the loop read
  (`UnchangedIsRead`), so a confirmation writes the status that was derived.
* `EventsAreTrue`, however writers wait: only `Transit` announces. What it says
  of the new status follows from the step itself, that the old one is the row's
  from `UnchangedIsRead`, and that it is known from `ReadExists` (the loop reads
  listed rows, and those exist).

`BecomesFresh` is liveness and stays with TLC.

## 6. HistoryBudget

| Model | Code |
|---|---|
| `kept` | rows of `events` and of `audit_logs` other than projections, by owner |
| `ops` | `_common_operations` with their outbox: state, attempts, `facts` written, `projected` of them |
| `flushing` | `operation_audit_loop` has not ended with an error |
| `Admitted` | `reserve_with` |

Only `Record` and `Enqueue` ask for room. `Claim`, `Finish`, `Resolve`,
`Project` and `Restart` do not: that what they write always fits is the promise
of the reserve, and `HistoryFits` and `OwnersFit` check it. Rows are counted and
not kept. The two limits on bytes and free space are left out: they follow the
same scheme, but what they measure belongs to the file system. The state
`failed` is not reached by any path of this program (section 3).

The comment at the reserve claims that all rows of eight attempts fit in 64
(`src/history.rs:58`). The constants must satisfy `4 * MaxAttempts + 6 <= Reserve`:
an attempt has a claim and an end, each with a projection, and the rest are the
manual resolutions. With the code's constants that is 38 of 64.

| Run | Question | Instance |
|---|---|---|
| `history_budget` | everything accepted fits; facts are projected | one camera and rows of none, 2 operations, 2 attempts, a reserve of 14 (exactly what the assumption asks for), limits of 34 and 36 |

The limits leave room for two operations only if each gets exactly its reserve,
and the owner's limit binds before the total one does. Fairness is that of the
audit loop while it runs. It is not restarted by anything but the process, so
`FactsAreProjected` ends with its failure.

*Proofs* (`HistoryBudgetProofs`), for any cameras and operations, any limits and
every reserve that satisfies the assumption: `TypeCorrect`, `HistoryStaysWithin`
and `OwnersStayWithin`. That the rows fit is not inductive, because most steps add
rows and ask nobody. The invariant (`IInv`) counts the rows there are at what
they may still become: an operation costs its row, its facts, their projections,
and all the rows its state leaves to come (`Cost`), for instance
`4 * (MaxAttempts - attempt) + 6` while it is pending. Those costs fit in both
limits, the total one (`FitsInAll`) and every owner's (`FitsOwner`). A transition
or projection only moves a cost from the future to the present (`PaidBefore`), a
resolution pays the audit row of its own (`PaidByOne`), a purge moves rows from
one owner to nobody (`PurgeFits`), and what is admitted was held against the
reserve, which is at least the cost (`PutAsideIsEnough`, `AdmittedFits`). An
operation costs `9 + 4 * MaxAttempts` when it is accepted, and `reserve_with`
asked for `Reserve + 3`: that is where the assumption comes from, and with less
the step `Enqueue` would not keep the invariant.

A sum is the number of pairs `<<i, k>>` with `k` in `1..n[i]` (`Total`), as the
code's `count(*)` counts rows, and not a recursive function: what the proofs need of sums
(`TotalSplits`, `TotalGrows`, `TotalWith`, `TotalAdds`) then follows from the
theorems about cardinality, where a recursive sum would need an induction that
the provers cannot use. `FactsAreProjected` is liveness and stays with TLC.

## 7. StateDirectory

Several processes of the same program, and an external restore tool, on the
same directories. Each is a program counter; `Killed` may take it at any point,
which frees its locks and leaves its files.

    run     Run, LockData, Identify, WritePid, Validate, OpenPool, VerifyOpen, Serve
            ... Quiesce, ClosePool, RemovePid, Release
    init    CreateDirectory, LockMaintenance, Stage, Bootstrap, Publish, Release
    doctor  DoctorAsks, DoctorLocks, DoctorInspects, ProbeConnects, ProbeCloses, Release
    restore RestoreLocks, RestoreEmpties, RestoreFills, RestoreEnds

| Model | Code |
|---|---|
| `dir` | a directory: the database under its name, `app.pid`, `.state-maintenance-pending.json`, whether it is empty |
| `file` | a database file, by the checks it would not pass (`Defects`) |
| `held` | the advisory locks, by directory and mode |
| `proc` | a process: its step, directories, recorded file identity, open pool, staging file |
| `scripts` | runtime directories where `xcosctl start` or `stop` has found no running server and has not yet removed `app.pid` |
| `touched` | whether an administrator has put a file in place by hand |

Abstractions. A file is what `stat` identifies; what is in it matters only to
the checks, so a database is the set of checks that fail on it. The restore tool
is not in this repository; it does what `docs/runtime-reference.md` section 6
asks of it. An administrator may once move a copy over a database
in use or hard-link it into another directory; what is then promised is that
the server does not serve a file it has not checked. The doctor's other probes
(recordings, companion, live services) and `config validate` change nothing
here.

The start script reads `app.pid` (`.start-action.sh:64`), waits up to several
seconds for MediaMTX and removes the file by its name (162-166); the stop script
looks and removes in the same two steps (23-27), or after the process it stopped
is gone. `FindNoServer` and `ClearPid` are these steps. The scripts hold the
operations lock against each other, which one entry in `scripts` per directory
stands for, but a server that systemd or a hand starts does not take that lock,
so it may write its `app.pid` in between and have it removed. The documents
offer `xcosctl` and systemd as alternatives (`docs/operations.md:37`,
`docs/feature-inventory-and-tradeoffs.md:56`), but nothing enforces it, and the
model lets both work on `Scripted` directories. `PidIsMine` is therefore said of
steps: whoever has written `app.pid` keeps it, or loses it to such a script, and
never finds another's in its place.

| Run | Question | Instance |
|---|---|---|
| `state_directory` | exclusive use, `app.pid`, only checked databases served, complete publication, return after failures | 2 processes, 2 directories, 3 layouts (data and runtime together, apart, and crossing), 2 files, sound or damaged copies, one action by hand, scripts on one of the directories, fairness |

Two processes meet in every pair of commands; the layouts let servers share a
data directory, a runtime directory, or one as data and the other as runtime.
Two files are one in place and one on its way. One kind of defect is enough:
which check finds it does not change what is done.

Fairness: a process that has begun goes on until it ends or serves, and
`xcos.service` starts the server again whenever it ended (`Restart=on-failure`,
`RestartSec=5`). `FairSpec` says so of the states these steps lead to, which TLC
checks much faster than the same of the steps: every process is idle or serving
again and again, and the service begins again and again if it could. It differs
from fairness of the steps only where a restore waits for a file and `MaxFiles`
has none left, which is a bound and not the code. `ServiceReturns` says that
nothing a killed process leaves behind keeps the server from coming back once
nobody else is at work and the databases are sound.

*Proofs* (`StateDirectoryProofs`), for any processes, directories, layouts,
files and defects:

* `TypeCorrect`, `UsersAreExclusive`, `PidStaysMine`. The inductive invariant adds
  the locks themselves: no two conflicting ones are held (`Exclusion`), and each
  step of a process holds exactly the locks its place in the program implies, with
  what it has opened and written (`Placement`). The properties follow, because
  whoever uses a directory holds a lock that excludes the others.
  `UsersAreExclusive` says of servers that no restore is at work or left unfinished
  where they have their pool open; of doctor only that none is at work beside its
  connection, since doctor asks for the pending file before it has its lock and a
  restore may begin and be killed in between. `PidStaysMine` is proved of every
  step: an `app.pid` changes only where its owner writes or removes it or a script
  clears it (`PidChanges`), and only the owner of the lock writes.
* `InitIsWhole` and `ServedFilesAreChecked`, for any number of actions by hand.
  `FInv` says what each process knows of files: while a server works in a
  directory there is a database in it (`Found`); one that has passed the checks
  and whose path still names the recorded file opened that file, and the file
  passes them (`Sound`); a staging file is complete exactly when its owner's step
  says so, is in no directory and in nobody else's hands (`Staged`, `Apart`).
* `ServedFilesAreSound`, for at most one action by hand: nobody else has the
  served file open, under whatever name. `AInv` adds where files are: until
  something is done by hand every file has one place (`Distinct`), the file a
  server opened is still in its place or has none (`AtHome`), and no two servers
  have one open (`Alone`). With two actions it is false: if a database in use is
  linked into a second directory and its first name is then given another file,
  it has one name again, and a server of the second directory opens it beside
  the first. Every lock is one of a directory, so none stands against that.

The invariants were checked with TLC before they were proved. `ServiceReturns`
is liveness and stays with TLC.

## 8. MediaAuthorization

| Model | Code |
|---|---|
| `client`, `camera` | `xcocs` (state, the credential by the number of its pairing) and `cameras` (present, enabled, sub stream, storage) |
| `tokens` | every token signed, with its claims; `rotations` in it is history |
| `request` | a viewer's request: asked, signed, presented to MediaMTX, streaming |
| `now`, `ttl` | the clock and the configured `media_token_ttl` |
| `rotations`, `reported` | history: how often a client was rotated, what it reported since |

`media_auth` changes nothing, so it is an operator, `Admits`, and the properties
say what it would answer now for any token ever signed. `Decodes` is
`decode_media_token` with the expiry rule of the external JWT library (a token is
good up to and including `exp`, no leeway), `Permitted` is
`media_request_permitted`.

Abstractions. A client's camera has its client's identity. The signing key is
kept across restarts and signatures are never forged. The clock does not step
back. Viewers are signed in (sessions belong to the external crate). Whether a
camera's media is ready when a grant is asked for, and whether it is gone when a
client is deleted, is decided in `MediaReconciler` and left open here.

| Run | Question | Instance |
|---|---|---|
| `media_authorization` | rotation ends grants; only reported cameras are shown; grants stay usable; only server recordings are streamed | 1 client, 2 pairings, 1 rotation, 2 tokens, a clock of 0 to 2, lifetimes 1 and 2 |

One rotation between two pairings is the case the binding exists for; two tokens
let one from before meet one from after. With lifetimes 1 and 2 a restart can
change the configured one under tokens that are still good (they are refused:
`exp - iat` must equal it) and back again.

*Proofs* (`MediaAuthorizationProofs`), for any clients and any bounds: all five
properties (`TypeCorrect`, `RotationIsFinal`, `OnlyShownIsAdmitted`,
`GrantsAreKept`, `StreamsAreServerRecordings`). The strengthening: a grant
names a credential that was given out, and it is the one its client has now
exactly if the client has not been rotated since (`GrantsNameCredentials`); the
row of a camera in use is what its client reported since the last rotation
(`RowIsReport`); tokens are not from the future, and MediaMTX is asked with the
one that was signed for the request (`TokensAreSound`). Nothing here has to happen eventually: tokens are asked for
and presented at will, so no liveness is stated.

## 9. EventFeed

How a page of the console learns of a change: the status loop commits an event
and announces it; `event_stream` forwards it or, having lagged, asks for a
resync; the page refreshes its lists and open logs on each message, on each
(re)opening of the stream and every 15 s.

| Model | Code |
|---|---|
| `recorded` | number of events committed |
| `server`, `receiver` | the process and its broadcast channel; the subscription of one stream |
| `wire`, `refused` | the message under way in the stream; an `EventSource` that has given up |
| `batch`, `own`, `newest` | `createSnapshotRefresh`'s running and queued batch; a call of `loadClients` by a change of the user; whose call is the last |
| `page`, `logs` | what each list and the log view show, as the number of events recorded when the server read it |
| `asked` | history: what was recorded when a refresh was last asked for |

Callbacks of the page are atomic, because JavaScript runs them to their end;
requests are sent, read and settled in steps of their own, so answers overtake
each other.

| Run | Question | Instance |
|---|---|---|
| `event_feed` | a refresh keeps its promise, nothing is missed, logs follow, lists never go back | lists of cameras and clients, a channel of 1, 2 events |

A channel of one is full with one message, so the second one lags; two events
are enough to be lost between commit and announcement, in a broken stream, and
in the channel.

*Proofs* (`EventFeedProofs`), for any loaders, capacity and number of events:
all five properties. The strengthening has two halves: `StreamInv` (an idle open
stream means a refresh was asked for after all that was announced) and
`TakenInv` (what was asked for is on its way, has arrived, or its bearer
failed), together with what cannot go backwards (`FreshInv`) and the logs' own
`LogsInv`. `NothingIsMissed` joins the halves.

Observations, none of them against a statement that a property repeats:

* A reopened stream refreshes the lists and not the open logs. The comment at
  `src/routes/history.rs:422-424` and the feature inventory (SEN-Q-007, SEN-E-005)
  rely on a refresh for what a stream misses; for the logs it comes with the next
  event or the user.
* After a load of the logs failed they stop following until the user asks again.
* An `EventSource` that is answered with anything but 200 never connects again;
  then only the timer refreshes, and not while the page is hidden.
* A refresh whose call of `loadClients` was superseded by one that failed is
  resolved as if it had succeeded, with the clients as they were.

## 10. What is proved and what is only checked

| | TLC, small instance | TLAPS, every instance |
|---|---|---|
| `MediaReconciler` | all | type, rows, exclusiveness, publish URLs and the refinement of `MediaLifecycle` (both without `drift` and `late`) |
| `DeviceCommands` | all | all but `EverySettles`; `ReceiptIsFinal` for any `MaxWait` |
| `StatusObservation` | all | all but `BecomesFresh` |
| `HistoryBudget` | all | all but `FactsAreProjected` |
| `StateDirectory` | all | all but `ServiceReturns`; `ServedIsSound` with `Touches <= 1` |
| `MediaAuthorization` | all | all |
| `EventFeed` | all | all |

Every safety and action property a run checks is proved, under the conditions
named here, which are those under which it is true. What is left is liveness
(`RunningEnds`, `Converges`, `EverySettles`, `BecomesFresh`, `FactsAreProjected`,
`ServiceReturns`), about which the proof system, without fairness and `ENABLED`,
cannot reason. The findings are counterexamples and stay with TLC too.

All theorems rest on the assumptions named in the modules (`ASSUME`) and on those
in their own statements. They say what the models say: that a model is the code
is an argument of the tables above and of the mapping from definitions to source
lines in `PROJECT.json`, not a proof. `ClaimIsRunning`, `WasDesired` and the
other strengthenings are the part of that argument to read first when the code
changes: they are what the next step of each handler relies on.

## 11. Not modelled

* *Configuration, secrets, protocol formats* (`config.rs`, `crypto.rs`,
  `protocol.rs`): functions of their input, with no
  state between two calls.
* *Release tooling* (`release.rs`, packaging scripts): packs and verifies an
  archive offline, one step after the other, with nothing running beside it.
* *History pages*: key-set pages and the admission slots of their responses are
  reads; a page neither changes anything nor holds a lock between requests.
* *PTZ buttons, the WHEP player, rendering* of the console: the order of their
  requests is guaranteed by one promise chain (`tail`), which `DeviceCommands`
  uses; the rest is the browser's.
* *Recording lists*: parsing and clipping of what MediaMTX reports.
* *The doctor's probes* of recordings, companion files and live services: each
  writes and removes files of its own under random names.
* *Installation and service files* (`deploy/`, `scripts/`): sequential shell, run
  by one administrator; of it, only what touches the state directory is here.
* *Retention in the operation store*, sessions, and the draining of connections:
  in external crates, whose sources are not here.
