# A verification development of tadx

tadx is a command-line client for Tableau. Most of its code is sequential:
a command reads its configuration, signs in, sends a few requests and prints a
result. What is hard in it lies where several actors share durable state: a
publication runs in a detached worker that outlives the command that started
it, cancellation and inspection come from other processes, several commands
share one signed-in session, one configuration, one set of workspaces and one
cache, files are replaced under crashes while their user edits them, and the
Tableau site changes between the plan of a command and its request. The modules
here model that part.

## 1. Inventory

Where each part keeps its state, what changes it, and what makes it correct.
Directories are relative to `src/internal` unless they begin with `actions`.

| Part | State | Operations | Hard because | Correct when |
|---|---|---|---|---|
| Operation record and worker lock (`operationrun/store.go`) | one JSON record per operation, a record lock, a worker lock held for the life of a worker | Create, Read, Update, Alive, Lease, Release | several processes, crashes, half-durable writes, a probe that takes the lock it tests | one worker owns the items; starts, receipts and outcomes are never taken back |
| Cancellation control (`operationrun/cancel.go`) | one control file per operation | Prepare, Request, Read, Acknowledge, BeginCommit | a request races the commit | nothing is submitted after an accepted request; an acknowledgement is true |
| Commit guard (`commitguard`) | a function in the context | Admit | admission and context | an admitted request no longer follows the context |
| Publication worker and foreground wait (`app/publication_worker.go`) | local state of two processes, the worker's polling goroutine | launch, wait, interrupt, detach; lease, poll, run items, save the result, close | timeouts, signals, lost workers, stale copies | the command returns and reports facts; a cancelled worker ends |
| Batch execution (`contentbatch`) | per-item results | Run | parallel items, cancellation between them | success only if every item succeeded |
| Publication inspection (`app/publication_status.go`) | none of its own; merges receipts into the record | inspect, reconcile | reads record, lock, receipts and Tableau at different moments | reports and merges only what is true |
| Publication receipts and job monitor (`jobmonitor`) | one receipt file per write or job, an index, a round lock | Save, Load, Resolve, Wait | concurrent observers, delayed observations, read failures | a terminal observation stays; waiting is bounded |
| Command sessions (`auth/command_sessions.go`) | per-process sessions, per-credential epoch file, use lock, saved session | Authenticate, renew, Suspend, Close | a second sign-in with the same token invalidates the first | no process ends a session another relies on alone |
| Authentication (`auth`, `app/auth_credentials.go`) | session, PAT store, reference in the configuration | sign-in, renewal, login, logout | coalesced renewals; two stores that must agree | one renewal for concurrent 401s; a reference names a stored PAT |
| Configuration (`config`), file replacement (`fsreplace`), locks (`lock`) | configuration file, lock files | update with rollback, atomic replace | failed directory sync after the rename, lock files removed while others wait | a reported failure is rolled back or said to be uncertain; one holder |
| Artifact bundles (`artifact`) | directories of files, journals | staged bundle transactions, recovery, move, delete | crash between two renames, edits meanwhile | a bundle is old or new, never a mixture; edits survive |
| Workspace (`workspace`) | registry, manifests, directories, leases | create, clone, register, unregister, delete, use | concurrent lifecycle and use | a workspace in use, or registered, is not removed |
| Cache (`cache`, `tableau/cache`) | generations of cached reads, inventories | refresh, promote, list, page | readers during a refresh, partial refreshes, pools of goroutines | a reader sees one complete collection |
| Agent installation (`agent`) | installed guidance packages, a receipt, backups | install, uninstall, roll back | failures in the middle, user edits | the user's versions survive |
| Transport (`tableau/transport.go`) | session generation, one deadline | send, renew and resend, watch | a 401 during concurrent requests, slow bodies | one resend, never of a write whose effect is unknown |
| Commands that change a site (`actions/*`, `tableau/*`) | none between calls | plan, look again, request, report | the site changes meanwhile, answers get lost | the request does what the plan said; the report is true |
| Managed policy (`managedpolicy`) | the policy file | load, install | an unreadable policy | reading fails closed |
| Reading clients, command line, output, capability tables | none between calls | request, decode, render | data formats | outside this development |

How the parts interact. A publish command builds a request, releases its own
hold on the credential (`CommandSessions.Suspend`), writes a record, prepares
the control file and launches a worker process with the operation's ID. The
worker takes the worker lock, records its start, and runs the same command
again inside itself: a batch of items in parallel, each of which passes the
commit guard before its one publish request and saves a receipt afterwards.
Command and worker share nothing but files: the record and the control file
under the record lock, and the worker lock. `job cancel` and `job inspect` are
further processes on the same files. Every request of any command goes through
the transport, whose 401s lead to one renewal, and a renewal signs in through
`CommandSessions`. Login, logout and every change of a workspace go through the
configuration's update transaction. A pull installs its artifacts as a bundle in
a workspace it holds a lease on; lists, inspections and refreshes fill the cache
that later commands read.

## 2. Modules

| Module | What it is |
|---|---|
| `PublishOnce` | what an operation promises, without files, locks or processes |
| `OperationRun`, `MCOperationRun`, `OperationRunProofs` | the record, control file and locks, the foreground command, any number of workers with their polling goroutine and parallel items, `job cancel` and `job inspect`; the symmetry of its runs; its theorems |
| `PublicationStatus`, `MCPublicationStatus`, `PublicationStatusProofs` | the receipt files, the record's saved result, and any number of processes that inspect and reconcile an operation whose worker is gone; symmetry; theorems |
| `CommandSessions` | commands that share a PAT through epoch, use-key and use-lock files |
| `SessionRenewal` | requests of one command whose rejected token is renewed once for all |
| `StallWatchdog` | the timer that ends a request without progress |
| `JobMonitor` | `job wait`: observation rounds of several processes over receipts and index |
| `ConfigurationUpdate` | the configuration's update transaction, extended by the next two |
| `Credentials` | login, logout and removal of an environment against configuration and credential store |
| `WorkspaceRegistry` | create, clone, register, unregister, delete and use of workspaces |
| `AgentInstallation` | installing and removing agent packages |
| `RootLock` | a lock file that its holder removes |
| `BundleTransaction` | the journaled replacement of a workbook with its datasources, single replacements, recovery |
| `ArtifactMove` | moving and deleting an artifact |
| `CacheRefresh` | the goroutines of one refresh: pool, limiter, writer, cancellation |
| `CacheGenerations` | the cache of a site as several processes fill and page through it |
| `RemoteChange` | every command that changes a site, from plan to report |
| `ContentPublication` | the publication of workbooks, datasources and flows: the plans of the foreground and the worker, the two looks before the request, the report and the receipt |
| `FileProofs` | theorems about `CacheRefresh`, `RootLock` and `ArtifactMove` |
| `RequestProofs` | theorems about `StallWatchdog`, `SessionRenewal` and `JobMonitor` |
| `ChangeProofs` | theorems about `RemoteChange` and `ContentPublication` |
| `LocalStateProofs` | theorems about `Credentials` and `AgentInstallation` |
| `WorkspaceProofs` | theorems about `WorkspaceRegistry` and `BundleTransaction` |
| `SharedStateProofs` | theorems about `CommandSessions` and `CacheGenerations` |
| `MCShared`, `MCProcesses`, `MCLocal`, `MCProgress` | composites for model checking |

A composite runs one component in each behaviour, the one that its initial state
selects; the others keep one value. It is a way to check several protocols in
one run, not a claim about their interaction: where components do interact they
are one module (`OperationRun`; `Credentials` and `WorkspaceRegistry` over
`ConfigurationUpdate`). Names are prefixed so that the modules can be extended
together.

### OperationRun

| Variable | Code |
|---|---|
| `rec` | `operationrun.Record`: phase, who started it (`StartedAt`, `WorkerPID`), `FinishedAt`, exit code, `ReceiptPaths`, the control failure kept in `Activity`, `Detached` |
| `ctl` | `CancelControl`: the file's existence, `Supported`, `RequestedAt`, `AcknowledgedAt` |
| `lease` | the holder of `<id>.json.worker.lock` |
| `parent`, `seen`, `noWait`, `expired` | `beginPublicationWorker`: where it is, its last copy of the record, `--no-wait`, the 20-minute limit |
| `pc`, `cancelled`, `poller` | `runPublicationWorker`: where it is, its command context, its polling goroutine |
| `item`, `admissions`, `applied`, `saved` | progress of each item; a count of admissions (history only); what Tableau has applied; what the receipt store holds |
| `look`, `view` | `inspectPublicationOperation`: between its reads; the status it last reported |

Every call of the store takes the record lock for its whole length, so it is
one action; the worker lock is taken and released in actions of its own, also
by `Store.Alive`, which tests the lock by holding it for a moment. A write has
three results (`WriteResults`): done; failed with the old contents; or failed
after the rename because the directory could not be synced, so that the caller
sees an error and everybody else sees the new contents. A read may fail. Which
of these faults happen is the constant `Faults`. A crash is possible at every
location and releases the worker lock, as the operating system does.

Left out: version numbers, live results and activity labels (they decide
nothing); records of older releases that have no control file (every operation
of this release prepares one before the launch); the foreground marker lock
(nothing reads it). Pull and download commands run on the same record; the
items here are publications, the ones that pass the commit guard. A publish
response is synchronous, so `remote_pending` arises only when the final result
could not be stored next to saved receipts.

### PublicationStatus

`OperationRun` ends where the worker is gone and its record, results and
receipts lie on disk; `PublicationStatus` begins there. `Init` holds what the
worker can leave (`LeftReceipts`, `LeftRecords`): receipts of jobs that
releases 1.0.x waited for, or of results known at once; a result that is kept,
did not fit the record, or was never written.

| Variable | Code |
|---|---|
| `job`, `where` | Tableau: the state of each accepted publication, and whether its content is not visible, at its exact name and project, or elsewhere (external) |
| `receipt` | `jobmonitor.Receipt`: has a job ID, `Observation.Status`, `CheckedAt`, has a `ResourceID`, `Verification` |
| `record` | the phase of `operationrun.Record` and its result: its own status and, for each linked receipt, the status of the batch entry and of the publication inside it |
| `now` | the clock that stamps `CheckedAt`; one tick for each job read |
| `look` | one call of `inspectPublicationOperation`: its copy of the record, the receipt at hand, its copy of that receipt, the statuses seen so far |
| `count`, `answer` | inspections begun, and the status last reported |

An inspection walks the receipts in order. Reading a receipt, reading a job,
looking up a destination, saving the receipt (`Store.Save`, under the lock of
that file) and updating the record (`Store.Update`, under the record lock) are
one action each, and anything may happen between them; the verdict rests on the
copies, the update applies to the files as they are then. Failing to read, to
sign in or to save is possible every time.

Left out: the compact result, which has the shape of the full one and takes the
same merges; the limit of 100 receipts, beyond which nothing is reconciled;
receipts of older releases that name no project; flow publications, whose
destination is never looked up. A receipt whose target does not match the
configuration is a job that cannot be read (`CheckFails`). Items that failed
before they had a receipt have no state of their own: `Bare` counts them.
`job wait` saves receipts through the same `Store.Save` and is in `JobMonitor`.

### CommandSessions

| Variable | Code |
|---|---|
| `bound`, `saved` | the credential store: PAT and latest session behind each reference |
| `epoch`, `useKey`, `signing` | the coordination files of a PAT: epoch, use key, sign-in lock |
| `issued`, `live` | Tableau: sign-ins with a PAT, the one token it accepts |
| `open`, `gate`, `known`, `use`, `session` | one `CommandSessions`: its mutex, resolved credentials, handles on the use lock, sessions |
| `task` | a call of `Authenticate`, `SignIn` or of the renewal, by target |

A PAT has one live session, so a sign-in ends the others. A command shares a PAT
with commands that came by the same reference (`useKey`), or uses it alone.
`SoleUserKeepsSession` is what sole use is for; `EpochsOrderSessions` is why an
adopted session is never one that the file calls newer than it is. A crash
releases the locks and leaves the files; `Run` starts the next command.

### SessionRenewal and StallWatchdog

`call` is a request in `Transport.Do`: sent, rejected, waiting for the flight
(`session.Renew`), resent once. `flight` is the detached attempt with its
waiters, abandoned when the last one leaves. `ResendIsSafe`: a request is
carried out at most once, and a renewal never replaces a session that is live.
Tableau is assumed to check the token before it does anything.

`StallWatchdog` has the watchdog's phase and deadline, the timer that is re-armed
lazily for what is left, and the request it watches, in ticks.

### JobMonitor

| Variable | Code |
|---|---|
| `remote`, `answers` | Tableau's jobs, and the ordinal that stamps an observation |
| `receipt`, `index`, `roundLock` | the files of the coordination key |
| `waiter` | one `job wait`: where it is, its copies of receipts, the reads of a round, its result |
| `clock`, `quietUntil` | time, and the check time a saved observation promised |

A round reads all due jobs and saves them one by one; a wait whose limit passes
saves one read of its own. `OutcomesHold`: a saved outcome is the job's, and no
observation goes back, whoever is late. The index file of another format is left
out.

### ConfigurationUpdate, Credentials, WorkspaceRegistry

`update` is `updateTransaction` of one process: lock, read, decide, stage, save,
restore. A save fails in three ways: not replaced, replaced but not durable and
taken back, or not to be taken back. The modules that extend it say what the
change is and what is staged or done outside the file. `Credentials` has the
`store` of the operating system, the lock of a reference, and `task`, the command
of each process; `remains` names references that a command told its user about,
or died with. `WorkspaceRegistry` has what stands at each path (`place`), the
tombstones (`staged`), the command of each process and the lease it holds.
`undone` lists the workspaces whose manifest the undo of a failed creation
removed: the code removes by path, and somebody may have registered the new root
meanwhile. The two halves of `WorkspacesAreSafe` leave these workspaces out.

### AgentInstallation

`skill` is what agents find of each package, `keptSkills` the backup and removal
directories, `skillReceipt` the ownership receipt, `install` the running
commands. Content is the number of a release or a larger number, the user's own.
`mine` is the edit that has to survive; it is reset for a package that a running
installation has just committed, whose rollback does not look at what it
withdraws.

### BundleTransaction, ArtifactMove, RootLock

`dirs` holds, for each target, what is installed, staged and set aside;
`prepared` and `committed` are the journals; `command` is the process that holds
the workspace lock. Recovery runs at the beginning of every command: undo or
redo by the journals, then a sweep of single replacements, which a pull of a
workbook alone makes in the workbook root only. `pulls`, `bundles` and
`reported` are history. Any file operation may fail and the process may die at
any step (`BundleFaults`). The removal of a tree is not atomic.

An edit is an edit of the canonical payload. That is what the code compares with
its baseline before it replaces an artifact (`workbook.go:214-219`,
`bundle.go:236`, `bundle.go:355`) and what
`docs/architecture/resources-and-state.md:106` counts as dirty: a change of
another file of the directory, or a file put next to the payload, is replaced by
the next pull without notice, and no property speaks of it. The rollback
compares whole trees. Backups that are torn or cannot be read are left out; the
sweep passes over them with a warning.

`ArtifactMove` has the four directories of a move, the user's versions and the
command. What it sets aside it compares with what it planned on. The user may
write at any moment, at the source and at the destination, also where nothing is
(`UserWrites`): a directory of another origin that appears at the destination
after the command found it free, or at the source after it was seized, makes the
rename fail, and `MoveKeepsArtifact` says that it is not replaced. `released`
are the versions that may be lost (`Owned` are the others): those written over,
those a deletion was planned on, and those written to a destination that is
still being verified. `incidents` are the crashes and the failed clean-ups after
which a version may be left at a recovery name, or in both workspaces. Between
the two renames a version is at its tombstone only; the property asks for it in
the workspaces again when the command has ended.

`RootLock`: a lock belongs to an open file, not to its name. `lockName` is the
file the name refers to, `lockedBy` who has locked each file ever created.

### CacheRefresh and CacheGenerations

`CacheRefresh` has the goroutine of `Run`, the channels of a phase, the workers,
the limiter with its cooldown, the pump and the contexts that are done. A task
stands for a page; decoding is a final error of a page.

`CacheGenerations` has the tables of the database (`generation`, `entries`,
`snapshot`), what each published ID collected (`observed`, history), the
operation of each writer and the reads of each user. A transaction is one step.

### RemoteChange

A command is a record: how it finds its target the second time, what must not
have changed, which requests it sends, when it leaves one out, and how it reports
one that failed. Each record names the lines of its action in the map, each
client function (`ContentReceipt`, `UserReceipt`, ...) the code that turns an
answer into a receipt. Assumed of Tableau: an answer of 2xx means that the
request took effect, one of 4xx that it did not; 5xx or no answer mean neither.
Between the second look and the request an object may still change, since the
code has no guard there: `PlansAreKept` speaks of the identities that are
addressed. A subscription to unfollow is looked up twice by its metric and
follower, or named by its LUID and not looked up at all (`Unfollow`). An answer
that names another asset of the catalog counts as one that cannot be used, and
the tags that an error of a catalog update lists as already added are left out.
Collisions, ambiguous names and clients
that are not set up end a command before its first request and are one action
(`Stop`). Left out: creating and publishing pulse definitions, following and
forking metrics, and the license that Tableau takes from a user it refuses to
delete.

### ContentPublication

| Variable | Code |
|---|---|
| `cloud` | Tableau and the configuration: the content at each place of two servers, the project a path names, the server of the alias |
| `files` | the version of each row's file |
| `publishing` | the command: kind and mode, rows, the server it talks to, the scope accepted for the batch (`publicationScopes`), and which process runs |
| `row` | a row: selector and name, the destination accepted in the foreground, the plan, the path read, the version that was uploaded, the effect of the request, the report and the receipt |

A row of a batch is planned in the foreground (`PreparePublish`), in the worker
(`Revalidate`, which compares) and once more when it runs (`PlanRow`); then come
the first look, the upload, the second look and the request. A single
publication has only the last part. Meanwhile `OthersStep` changes the site, the
configuration or the files. The creation of a workbook takes no second look, and
between the last look and the request nothing holds the place: `raced` marks the
rows that were overtaken there, and the properties say nothing about what those
replace. `OperationRun` has the worker, the admission and the order of the rows.

## 3. Runs

Deadlock is not checked in any run: a command that has returned, a worker that
has exited and an inspection nobody makes are a legitimate end. That nobody
waits for ever is checked as a liveness property instead.

| Run | Instance | Shows |
|---|---|---|
| `operation_workers` | 2 workers, 1 inspector, 1 item, no storage fault | who owns the items, what an inspector and the foreground command conclude from the worker lock, that outcomes are final |
| `operation_batch` | 1 worker, 2 items, every fault | that completed records, acknowledgements and reports are true, and that `PublishOnce` is implemented |
| `operation_liveness` | 1 worker, 1 item, lost writes, failing reads | a cancelled worker ends; the foreground command returns |
| `status_single` | 2 processes, 2 inspections each, 1 receipt, every way the worker ended | what is recorded and answered is true, stays, and is reached once every job was seen to end |
| `status_batch` | 2 processes, 1 inspection each, 2 receipts and an item that failed before it had one | the same for entries, counts and status of a batch, which does not forget that failure |
| `status_unsteady` | 2 processes, 2 inspections each, Tableau takes back ends it reported | the receipt store keeps outcomes, times and identities |
| `status_lost_result` | 1 process, 1 receipt and 1 failed item, result too large | violation, finding 1 |
| `shared` | 2 commands of one PAT (stored and environment), every fault, sessions that expire without crashes; 2 cache writers and 1 reader | sole users keep their session, epochs order sessions; complete inventories and pages are one collection |
| `processes` | renewal: 3 requests, 3 tokens; watchdog: timeout 3; jobs: 2 waits, 2 jobs; 2 processes on configuration, credentials and workspaces, 2 faults; 2 installations of 2 packages, 2 faults; every command beside another administrator with 2 steps; publications of 5 kinds and modes, one row with 2 disturbances or two with 1 | resends, stalls, outcomes, references, workspaces, packages, plans and reports, destinations of publications |
| `local` | 2 pulls of a workbook and a datasource with 2 crashes or failures; 3 removals, 3 edits; 2 lockers; a refresh of 3 tasks by 2 workers, 1 failure | bundles, edits, moves, locks, refresh; what is begun is ended |
| `progress` | 2 commands and 2 PATs; 2 requests; 2 waits | nobody waits for ever |
| `bundle_stuck_backup` | 3 pulls, 3 faults, sweeps that fail to remove | violation, finding 2 |

For every property of a passing run, `PROJECT.json` (`mutants`) names a faulty
variant of a definition, written just before it in the module, under which the
property fails: no property holds by the shape of the model alone.

Why the bounds are enough to see what matters. Ownership of an operation is
decided by one lock and one record, so two workers and one prober show every
order of two contenders with a disturber; a third worker adds another loser.
Items meet only in the record (receipts, exit code), so two items show every
order; worker and item sets are not bounded in the proofs. There is no counter
to bound in `OperationRun`: `admissions` stays at most 1, which is part of what
is proved. In `PublicationStatus` only `MaxInspections` bounds the state. Two
overlapping inspections show every stale copy, a second round shows what a stale
result does to the next reader, two receipts every order of two items.
`status_batch` assumes `Steady`: that Tableau keeps an end it reported, without
which no record of it can stay true. `status_unsteady` drops that.

Elsewhere the same reasoning holds. Every lock has two contenders, and its files
are written by at most two processes, of which one may be stale; where a third
matters it is there (three rejected requests: one renews, one joins, one comes
late). `MaxSignIns = 2` lets one session replace another; `MaxTokens = 3` lets
a renewed session be rejected again. Two faults let a rollback or a recovery
fail after the step it was for, and the next command recover from both. The
bundle has two entries, so that one can be installed when the other is not.
Three tasks in two phases, queues of length 1 and two workers make every queue
full and every worker wait. Two rows of which one may appear or disappear at
Tableau, and two published generations or inventories, let a reader meet each
change between two pages.

Fairness. `Fairness` of `OperationRun`: each process that can take a step takes
one (`ParentRuns`, `WorkerRuns`, the poller once there is a request to see), and
the clock reaches the 20-minute limit (`Expire`), because the code polls with
timers. Preparing an item is not fair: an upload may last as long as it makes
progress. It is fair once the worker's context is cancelled, since every request
carries that context. `Close` is strongly fair: it waits for the poller, whose
`select` sees the stop signal each time it is between two rounds. Interrupts,
cancellations, inspections, crashes and storage faults are never forced.
`MCProgress` and `MCLocal` assume the same of each process and goroutine that
can take a step (weak fairness), of timers and back-offs, and that a command
that fails is followed by another (`BeginCommand`), without which no journal is
ever recovered. A process that waits for an advisory lock polls it, so it gets
the lock if it is free again and again (`TryAgain`, strong). `CommandSessions`
ends in finitely many new calls (`NewCalls`): endless new work would keep a use
lock for ever and is the user's choice. `PublicationStatus` has no liveness
property: nobody is obliged to inspect, and `EndedJobsSettle` says as an action
property what an inspection must achieve when it is made.

### Findings

Two disagreements between code and documentation have a run:

1. When the expanded result does not fit the record, the record keeps only the
   receipts. Items that failed before they had one are not among them, and an
   inspection that finds every linked publication succeeded records the whole
   operation as completed (`status_lost_result`).
2. The sweep restores the backup that comes first by name, which is the oldest.
   A backup that an earlier sweep could not remove is restored after a later
   crash, and the version of the last successful pull is deleted
   (`bundle_stuck_backup`).

The models contain further ones, which the constants or a property's wording
leave out of the passing runs:

- `Store.Alive` takes the worker lock to test it. A worker that starts at that
  moment gets `ErrWorkerBusy`, which is documented to mean another worker, and
  exits silently; nobody starts it again and the record stays `requested`.
- `job inspect` reads the record before it tests the lock and does not read it
  again. A worker that finishes in between is reported as interrupted. The
  foreground command reads again for this reason.
- A job cancelled in Tableau makes its batch entry `cancelled`, which the recount
  takes for pending; the operation stays remote-pending with every job ended.
- `Store.Save` merges the observation and the verification of a receipt
  separately: an inspection that confirmed the destination but read the job
  earlier than another one loses its resource ID and keeps its `confirmed`.
- An inspection that ends late writes `pending` into the result of an operation
  another inspection has completed; the result heals with the next inspection.
- The undo of a failed create or clone removes a root that somebody registered
  meanwhile.
- A refresh that began earlier and ends later replaces the newer generation.
- Updating, moving and deleting a project drop the status "unknown" that their
  client reports, although `docs/architecture/runtime.md` asks for unknown
  outcomes to be classified: these commands fail without an outcome, which
  `RemoteChange` writes as the style `"silent"`.

## 4. Proofs

`OperationRunProofs` proves, for all sets of workers, inspectors and items and
all choices of faults, from `ConstantsAssumption` alone:

| Theorem | States |
|---|---|
| `TypeCorrect` | `[]TypeOK` |
| `OneOwner` | `[]ItemsOnlyOfStarter` |
| `CompletionIsHonest` | `[]CompletedIsTrue` |
| `AcknowledgementIsHonest` | `[]AcknowledgedMeansStopping` |
| `ForegroundReportsFacts` | `[]ParentReportsFacts` |
| `ForegroundIsHonest` | `[]WorkerLostIsFinal` |
| `InspectionIsSafe` | `[]InterruptedMeansWorkerGone` |
| `OutcomeStays` | `OutcomeIsFinal` |
| `Refinement` | `ImplementsPublishOnce` |

One inductive invariant, `Inv`, carries them. None of the properties is
inductive alone. `LockHeld` says that control locations agree about the holder
of the worker lock, so a probe that succeeds excludes a running worker;
`Prepared` that no worker precedes the control file; `StartKnown` that the
recorded start names the one worker that runs or once ran, and that the record
says `running` until that worker closes; `Stopping` that a poller which
acknowledges has a request and a cancelled context; `Booked` relates each
item's progress to admissions, effects and receipts; `Followed` and
`Inspected` carry what an observer has read and what is still true of it. The
proof of a step has one case for each action and under it the parts that the
action can disturb; `Frame` gives the rest. For the steps that write the
record, an effect lemma first says what the write does to the fields that
matter, whichever way it ends. The refinement then needs only that each action
is a step of `PublishOnce` or leaves its five variables alone.

`PublicationStatusProofs` proves, for any number of processes, inspections,
receipts and items that failed before, from `StatusAssumption`:

| Theorem | States | Besides |
|---|---|---|
| `StatusTypeCorrect` | `[]TypeOK` | |
| `ReceiptOutcomeIsFinal` | `SavedOutcomeStays` | |
| `ReceiptEvidenceGrows` | `EvidenceOnlyGrows` | |
| `CompletionIsTrue` | `[]CompletedIsTrue` | `Steady`, and no result of a batch with failed items was lost (finding 1) |
| `RecordedOutcomeIsFinal` | `RecordedOutcomeStays` | `Steady` |
| `SavedResultIsTrue` | `[]SuccessfulResultIsTrue` | `Steady` |

The first three rest on `Shaped` (types, and a walk that stays within the
receipts) and on the lemma `MergeKeeps` about the merge rule of the store. The
last three rest on `Inv`. Its idea is that everything an inspection holds was true
when it was read and, with `Steady`, what matters of it cannot become false:
receipts, copies and statuses only name ends Tableau gave (`ReceiptsTrue`,
`CopiesTrue`, `StatusTrue`). What a stale copy of the record may say is
`SeenTrue`: merges never disagree on which results were lost and on which
entries are marked failed although Tableau did not fail them (`SameMarks`), so
two inspections that judge from copies of different age reach the same verdict
(`VerdictTrue`), and an outcome once recorded is the only one there is
(`RecordTrue`).

`Steady` is about Tableau: a publication that ended, and whose end was reported,
does not end otherwise later. The conclusion of `SavedResultIsTrue` is about the
operation record: its saved result claims success only when every selected item
was published.

`FileProofs`, `RequestProofs`, `ChangeProofs`, `LocalStateProofs`,
`WorkspaceProofs` and `SharedStateProofs` prove, for every value of the
constants that satisfies the named assumptions:

| Theorem | States | From |
|---|---|---|
| `LockExcludes` | `RootLockSpec => []LockIsExclusive` | who the open files belong to |
| `MoveIsSafe` | `MoveSpec => []MoveKeepsArtifact` | `MoveInv` |
| `RefreshesAreTrue` | `RefreshSpec => []RefreshIsTrue` | `RefreshInv` |
| `WatchdogIsExact` | `StallSpec => StallIsReal` | `WatchInv` |
| `ResendsAreSafe` | `RenewalSpec => ResendIsSafe` | `RenewInv` |
| `OutcomesStayTrue` | `JobSpec => OutcomesHold` | `JobInv` |
| `PublicationsGoWhereShown` | `PublicationSpec => []PublishesWhereShown` | `PublicationInv` |
| `PublicationsReportTruly` | `PublicationSpec => []PublicationIsReported` | `PublicationInv` |
| `CommandsReportTruly` | `ChangeSpec => []ReportsAreTrue` | `ChangeInv` |
| `CommandsKeepToPlans` | `ChangeSpec => []PlansAreKept` | `ChangeInv` |
| `CredentialsStayInStep` | `CredentialSpec => []CredentialsAgree` | `CredentialInv` |
| `WorkspacesStaySafe` | `RegistrySpec => []WorkspacesAreSafe` | `RegistryInv` |
| `BundlesAreSafe` | `BundleSpec => []BundleIsSafe`, without `StuckBackups` | `BundleInv` |
| `EditsSurvive` | `BundleSpec => QuietEditsSurvive` (edits of payloads), without `StuckBackups` | `BundleInv` |
| `SkillsStayKept` | `InstallSpec => []SkillsAreKept` | `InstallInv` |
| `SessionsAreOrdered` | `SessionSpec => []EpochsOrderSessions` | `SessionInv` |
| `SoleUseIsRespected` | `SessionSpec => SoleUserKeepsSession` | `SessionInv` |
| `InventoriesAreCollected` | `CacheSpec => []CompleteMeansCollected` | `CacheInv` |
| `PagesAreConsistent` | `CacheSpec => []PagesAreOneSnapshot` | `CacheInv` |

Each of these specifications is the one component alone, without the composite
that checks it. None of the properties is inductive.

`RefreshInv` follows a task from the queue of jobs through a worker to the writer.
Jobs are received in the order of the phase (`JobsInOrder`), so how many were
received is known (`Taken`), and the results counted, those on their way and the
busy workers never exceed it (`Answered`). What the writer has or will have are
tasks that were received, each once; a task received is either there, with a
worker, or denied (`TasksKept`), unless a result was dropped or names an error
(`Trouble`), in which case the count shows that the phase does not complete.
Whoever is cancelled or reports an error has a reason (`CausesKnown`,
`ErrorsKnown`): this is what the verdict of `Run` is judged by. The assumption
that no two tasks are one (`RefreshConstants`) is what `Run` builds: a page of a
scope, and the permissions of a workbook, whose identities are the keys of a map
(`permissionWorkbookIDs`).

`MoveInv` says which version stands where: the stage and the tombstone hold what
was planned before they replace anything (`StageKnows`), what appears at the
source meanwhile is another version (`OneHome`), an installed copy and the
tombstone stand for each other, except for what the user wrote to the copy
(`CopyReplaces`), and a tombstone outlives its command only after an incident
(`LeftByIncidents`).

`WatchInv` relates the armed timer, the deadline and the ticks since the last
progress. `RenewInv` has a part for the tokens (`TokenInv`: what was issued, and
that the session is the live one unless a renewal is under way or the session
ended), for the flight (`FlightInv`), for each request (`CallInv`: no effect
before the answer, one resend, and that under another token) and for the waiters
of the flight (`WaitersInv`).

`JobInv` says that all a process holds, its receipt, the copies of a round and
what it has read, names an outcome of a job only if the job has that outcome.
That survives everything, because an outcome at Tableau is final; and the merge
rule of the store (`SaveHolds`) then never has to choose between two outcomes.

`PublicationInv` says of a row (`KeptRow`) that its plan is the destination
accepted for it, that after the second look its place is as planned or was
overtaken, and that its effect is the plan's; `StageOf` relates a row to the
process that runs it, and `AcceptedApart` keeps two rows of a batch apart. An
action changes one row, or what others hold, so each proof shows `KeptRow` of
the new row and `OneRowMoves` does the rest.

`ChangeInv` rests on facts about the table of commands (`SoundCommand`): that no
command which leaves a request out trusts a value it does not compare again,
and that only the clients of users and groups accept an answer with other
values, which the command then verifies or which creates the object. A new
command has to satisfy them for the proof to go on. `VerdictsAreTrue` says that
with such a request no answer of Tableau leads to a false report.

The next two are about processes that meet in the configuration. In both, a step
of a process changes its own command and transaction, and the files; one lemma
(`StepKeeps`) says which changes to the files leave the others' command and
transaction as they have to be, and each action is shown to be such a change.

`CredentialInv` has, for each process (`Kept`), what is staged at each place of
its transaction: the new PAT is stored before the configuration that names it is
written, the old one is deleted after; and the lock of a reference is held while
its entry is read and written. Only the holder of the configuration's lock
changes the configuration and takes PATs away, and a session is written only
under the lock of its reference, after another look at the PAT.

`RegistryInv` rests on two locks. `Staging`: the holder of the configuration's
lock has an old and a new configuration of which every registration is `There`,
and which name no identity twice; a deletion has its workspace at the tombstone,
which the new configuration does not name. `DeletedIsGone`: between the end of
that transaction and the removal of the tombstone nobody's configuration, old or
new, names the workspace, and nobody else deletes it. `LeasesApart` says that an
exclusive lease has no other beside it, so the only directory that leaves its
place under somebody's lease is one that the undo of a failed creation removed.
`PlacesApart` (no workspace at two places) is needed for a rollback: the path
free again takes back the one workspace that the configuration still names.

`BundleInv` says where each target stands (`Standing`). At rest it has a
complete artifact, or a backup that the next sweep returns. While a transaction
is prepared, its directories are in one of five states that the journal's
original and new version describe (`Pending`), each of them as described or torn
or edited since (`Like`); once it is committed, the new version is in place
(`Replaced`). `HeldAt` is the version that recovery is going to leave. Only two
steps change it: the commit record, for all targets at once, and the second
rename of a single pull, to a version that no bundle made; that is why bundles
are all or nothing and why no reported version goes back. The rest says what is
true of the targets before and after `command.i` at each stage, among it that a
rollback begins only when no target holds a quiet edit, because the journal was
compared with everything it removes. Two targets of a bundle are never one
(`BundleConstants`; the code refuses such a plan). `~StuckBackups` is needed:
without it finding 2 refutes `SuccessIsKept`.

`InstallInv` is about one command at a time: only the holder of the lock has
packages set aside or committed. `Standing` says what that command has made of
each package in its order (untouched, gone, replaced or taken back), on the way
forward and on the way back. An edit has a content that no release ships, so a
package that holds one is none of the command's own; the edit that has to
survive is in a backup, or in place, and then nobody's command counts its
package among those it may still withdraw.

`SessionInv` has a part for each request (`CallsGuarded`: it has the gate of its
command, and the sign-in lock of the PAT while it signs in), and two for each
PAT. `UsesApart`: a sole user holds the use lock alone, or the key file invites
nobody, so no other command can be inside a sign-in that ends its session.
`InOrder`: a sign-in under way that is not recorded yet is newer than every
session in memory or saved, and one that is recorded has a later epoch than all
of them as well.

`CacheInv` says that a complete inventory, the catalog and every user who is
between two pages refer to a collection that was published and is kept as it
was (`EntriesTrue`, `CatalogTrue`, `Follows`), and that such a user has read
the first rows of it. Nothing needs to be said of the writers: what they hold
becomes visible only as a collection of its own.

Four attempts failed for a reason in the model, which was then put right: the
type of `site` in `RemoteChange` was too small for more than two objects,
`ContentPublication` admitted modes that the command line has for data sources
only, `Torn` of `BundleTransaction` let the removal of a directory that is not
there leave half a tree, and `AfterAnswer` of `CacheRefresh` had a CASE whose guards overlap, so
that a page, or an answer that came after the run was cancelled, did not have
the one outcome that the order of the code gives it.

Model-checked only: the liveness properties (`CancelEndsWorker`,
`ParentReturns`, `NobodyWaitsForEver`, `BegunIsEnded`), because the prover does
not handle fairness and ENABLED; `EndedJobsSettle`, which holds only for
instances without the gaps of the findings; and the properties of the modules
that section 5 lists.

## 5. Plan

Done: the operation, its inspection, publications and the commands that change
a site, requests, locks and moves (modelled, checked, proved), and the other
components of section 2 (modelled and checked).

Every invariant and action property that a passing run checks is stated by a
theorem, except `EndedJobsSettle`.

### Not modelled

- Managed policy: reading fails closed in one sequential function; its
  installation is a single atomic replacement.
- Application wiring, command line, output, capability tables, updates and
  notices: no state that two actors share.
- The reading clients, lists and inspections keep nothing between calls; what
  they leave in the cache is in `CacheGenerations`. Filters, cursors and the
  loops over pages are data.
- Workspace downloads, cleaning, defaults and nested roots; the upload of a
  file in blocks; pulse publishing and forking.
- `SavePartialInventory` of the cache has no caller in the repository.
