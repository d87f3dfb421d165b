# TLA+ models of the OpenAI Free Credit Tracker

These modules model the parts of `src/src/quota_monitor` whose correctness
depends on interleavings, crashes, failures and the order of checks.  TLC checks
each on small instances; TLAPS proves the main invariants for every value of the
constants.  Paths below are relative to the repository root; `*.py` names files
of `src/quota_monitor`.

## 1. The system

One process holds everything: a loopback HTTP server whose handler threads call
`RuntimeServices` (`runtime.py`), a tray thread, a scheduler loop, and a thread
per update operation.  State lives in a SQLite database, a configuration file,
the credential store of the operating system, an update cache directory, a lock
file and an activation file.

| Component | State | Operations | What must hold | Module |
|---|---|---|---|---|
| Usage synchronisation (`sync_service.py`, `upstream_adapter.py`, run, slice and bucket tables of `database.py`; callers `runtime.py`, `desktop_integration.py`) | `collection_runs`, `collection_slices`, `usage_buckets` | sync a range by UTC days, page by page; resume; fail; complete | completed runs are covered, rows of an interval are the pages of one whole fetch, nothing is counted twice, a failure costs one slice | `UsageSync`, `UsageHistory` |
| Retention (`runtime.py`, `sync_service.py`) | previews in memory, rows | preview, apply | a token deletes once, and only what was reviewed (which fails: finding 2) | `HistoryRetention` |
| Updater (`update_runtime.py`, `update_engine.py`, `platform_adapters/update_install.py`) | journal, cached manifest, partial, staged, backup and target files, operation in progress | check, two consents, download, install, roll back, resume | a working version stays, states tell the truth, only the version consented to is installed | `UpdateRuntime` |
| Monitoring (`scheduler.py`, `desktop_runtime.py`) | one scheduler per profile, paused flag, blocked profiles, round robin, execution lock | tick, sync now, pause, resume, exit | collections never overlap, pause is quiet, nobody starves | `ProfileScheduler` |
| Instance lock and activation (`platform_adapters/instance_lock.py`, `platform_adapters/desktop.py`) | two files | acquire with recovery of stale locks, release, request, consume | one owner, a second start opens the dashboard | `InstanceLock` |
| Profiles and credentials (`runtime.py`, `profiles/`, `platform_adapters/credentials.py`) | profile rows, credential store, active profile and its generation | create, rename, enable, replace and clear the credential, activate, delete, sync | one credential per profile, none left behind, answers belong to the profile that was asked | `Profiles` |
| Alert delivery and notifications (`alert_storage.py`, `PersistentAlertDispatcher`, the adapter in `platform_adapters/desktop.py`) | rules, deduplication rows, history, permission | edit rules, evaluate, send, record, test | at most one alert a rule, project and day, no crossing disappears, the history is true | `AlertDelivery` |
| Database files (`database.py`, `operations_cli.py`) | database, write-ahead log, backups | open and migrate, back up, restore | nothing committed is lost, migrated databases have a backup | `DatabaseFiles` |
| Configuration (`config_service.py`, `runtime.py`, `platform_adapters/startup.py`) | file, its backup, the running value, the startup entry | load, recover, save, apply and undo | the saved configuration is the one loaded, file and entry agree | `ConfigStore` |
| Loopback HTTP API (`server.py`) | none between requests; the connection | check, read or discard the body, call a service, answer | no unread body is taken for a request, every request is answered | `HttpApi` |
| Live data (`usage_service.py`, `cost_service.py`, `openai_client.py`) | none | fetch page by page, sum, price | pages count once, errors are told apart | `HttpApi`, `UsageReports` |
| Stored reports, catalog and export (`upstream_adapter.py`, `database.py`, `export_service.py`, `classification.py`, `model_catalog.py`, `catalog_schema.py`) | rows | classify, store, sum a day, observe for alerts, export | all reports tell the same story | `UsageReports` |
| Update manifest (`update_manifest.py`, `semver.py`, `update_crypto.py`) | keyring, policy | parse, authenticate, compare | only newer, trusted and valid updates are offered | `UpdateManifest` |
| Platform paths, deep links, localisation, logging, web dashboard, scripts | none of their own | | not modelled: section 6 | |

Interactions.  The monitoring loop and HTTP handlers run the same
synchronisation over the same tables, only the handlers under `_data_lock`.
Handlers edit the profiles, credentials and rules that the loop and the
dispatcher read.  Retention deletes the rows that synchronisation writes.  The
dispatcher and test notifications share one notification adapter.  A restore,
by a handler or by the command line, replaces the database that a starting
program may be migrating.  The updater replaces the program that holds the lock.

What is hard here: threads that share rows without sharing a lock, checks whose
result is used after a lock was given up, transactions that are split by calls
to the outside (credential store, notification, file replacement), and a process
that may die between any two of them.  `PROJECT.json` lists each hazard at the
line where it bites, with the properties that would catch it going wrong.

## 2. Modules

| Module | What it is |
|---|---|
| `UsageSync` | `UsageSyncService.sync` over the tables, one action per transaction |
| `UsageHistory` | abstract specification: what readers of the history are promised |
| `HistoryRetention` | `UsageSync` composed with preview and apply |
| `UpdateRuntime` | the updater on a package that can install |
| `ProfileScheduler` | coordinator, schedulers and the threads that drive them |
| `InstanceLock` | lock and activation files, one action per system call |
| `Profiles` | requests about profiles, one action per transaction, store call or locked section |
| `AlertDelivery` | `Profiles` composed with rules, dispatcher and notification adapter |
| `DatabaseFiles` | the database as files, over starts, restores and deaths of processes |
| `ConfigStore` | `DatabaseFiles` composed with the configuration file and the startup entry |
| `UsageReports` | what is computed from results of the Usage API, as operators |
| `UpdateManifest` | parsing, policy and version order of signed manifests, as operators |
| `HttpApi` | a handler from the request to the answer; extends the two modules above |
| `MC*` | instances for TLC: model values, small ranges, symmetry |
| `*_proofs` | theorems and their proofs, one module for each specification that is checked by runs |

Definitions named `X_Something` with a comment "Mutant" are wrong variants of
`X`.  No specification uses them; replacing `X` by one must break a property,
which shows that the property depends on that piece of the code.

Some variables are history variables, written and never read by the actions
that change the program's state: `deletions` (HistoryRetention), `consent`,
`overtaken` and `trusted` (UpdateRuntime), `raced` (InstanceLock), `excused`
(Profiles), `shown`, `lost` and `unseen` (AlertDelivery), `truth`, `migrated`,
`torn` (DatabaseFiles), `acked`, `tried`, `estranged` (ConfigStore).  Several of
them say which of the code's known windows was entered, and the properties
except exactly those; section 4 lists what happens in them.

### UsageSync

`runs`, `slices` and `buckets` are the tables; `job[w]` is the call thread `w`
is in, with the local variables of `sync()` (range, run, completed slices, the
pages received).  `Begin` reads the newest resumable run, `StartRun` and
`ResumeRun` open it, `Snapshot` is the one read of completed slices,
`StartSlice`, `FetchPage` and `Reconcile` are a slice, `FailSlice` and
`FinishFailed` the error path, `Finish` the end.  HTTP handlers exclude each
other by `_data_lock` (`DataLockFree`); the collector does not take it.  `Crash`
empties every job and leaves the tables.

Each page is a request of its own, as in `fetch_usage_slice`: `StartSlice` settles
nothing of the answer, and every `FetchPage` receives any page at all, its usage
(one of `Usages`, or `NoUsage` for a page without rows) and its next cursor.  So
the upstream may correct its data between two pages of one fetch, drop a page or
add one, and the code cannot tell; a repeated cursor fails the slice, which is
why a fetch ends where cursors are finitely many.  A row carries the pages that
were fetched with it.  `WholeAnswers` therefore speaks of one whole fetch, its
pages from the first to the last and no others, and not of one moment of the
upstream.

### UsageHistory

Two variables: the rows and the set of complete days.  `Install` replaces what
was known of an interval inside one day by the pages of one whole fetch, and may
complete the day; a fetch of a whole day must complete it.  A day becomes
complete only when no moment of it is unknown, which shows in its rows as long as
the upstream reports usage on every page (a page without usage leaves no row, and
the clause then says nothing).  `Reopen` lets a day become incomplete, without touching its rows, since a call that shares a run may
mark a slice failed or in progress that another call completed (section 4).
`UsageSync` implements it with `rows <- buckets` and `complete` computed from the
slices, for all ranges and however many calls share a run.

### HistoryRetention

Adds the previews in memory, the preview a handler has popped, and a history
variable with each applied preview and the rows it deleted.  `seen` remembers
which rows the preview counted; the code keeps only their number, and only the
number is compared in `ApplyRetention`.

### UpdateRuntime

`journal`, `cached`, `target`, `backup`, `partial`, `staged` are files; each is
replaced by one action, and `Relaunch` may come between any two.  `handler[h]`
is an HTTP handler: `check` fetches outside the lock, the consents compare the
confirmed version outside the lock.  `consent` remembers the version of each of
the user's two confirmations and whether a check replaced the journal between
the comparison and the lock (`overtaken`, `late`).  `op` is the operation thread.  Bytes are
`good` (as signed) or `bad`.  `StepFails` is a disk or network failure of any
step, which `AfterFailure` routes as the code's `except` clauses do.

### ProfileScheduler

`th[t]` is the call thread `t` is in (`main` starts and shuts down, `loop`
polls, `tray` runs menu callbacks).  Deadlines are kept as the time that
remains; a scheduler keeps the raw delay of its last failure instead of the
number of failures; a reference to a scheduler object is a profile and a
generation, since `refresh_profiles` drops and recreates objects that other
threads still refer to.  The check in `tick()` and its repetition in `_run()`
are one step: both are under the execution lock and nothing between them can
change the answer but a pause, which waits for that lock.  Menu clicks are
modelled from the end of `start()` on.

### InstanceLock

A process runs once and creates the lock file at most once, so that a file is
identified by its creator and by whether its contents are written; that is also
the signature `_remove_if_unchanged` compares.  `Lstat`, `Read`, `Decide`,
`Compare`, `Unlink` are the recovery of a stale lock.  `raced`: two processes
were between comparison and unlink at the same time.  Assumed: a creator writes
the contents within the grace period of ten seconds, and process identifiers
are not reused.

### Profiles

`rows` is the table of profiles, `store` the credential store by account,
`history` the profiles with usage or runs (whose foreign keys restrict their
deletion), `active` and `generation` the published configuration's.  `req[h]`
is the request of handler `h`: `pc` names the next transaction, store call or
locked section, `todo` what is still to be written over the row (`"keep"` a
rename or a validation time, `"on"` and `"off"` the enabled flag), `enabled`
what the last read of the row said, since each update reads the row and writes
all of it back.  `Begin*` are the requests, with what is checked before the
first step; `Unique` is `_assert_unique_credential`, `Put` and `DropKey` the
store, `Add`, `ReadRow`, `SaveRow`, `RemoveRow` the table, `CleanUp` what
`create_profile` and `delete_profile` take back, `Publish` the configuration,
`Client`, `SyncUsage`, `AnswerSync` and `DiscardSync` a sync with the snapshot
it is compared with.  `LockFree` is `_lock`, held by `replace_config`.
`excused` collects profiles and keys that two overlapping requests touched, a
crash cut off, a store could not be read for or cleaned of; the code has no
protection there.

### AlertDelivery

`rules`, `dedup` and `notes` are the tables; `disp` is the dispatcher's call of
`process` (rules read once, the observations left, the events of the current
one); `sending[t]` is how far thread `t` is in the adapter's `send`, with
`permission`, `attempted` and `backendUp` its fields.  `Evaluate` is one
transaction for one observation and keeps the order of the code: a rule
remembers every percentage it matches, and sends if this one crosses.
`SaveRule`, `DeleteRule` and `Restart` come between any two steps.  A rule is
`born` with the request that created it, so that one deleted and created again
is another rule, and an event names the project of the observation that crossed.

`Deliver` is the backend's `send`.  It may fail by a time-out of `future.result`,
which does not cancel the coroutine: such an alert is `late`, and `Appear` may
show it at any later moment, or never.  `shown` is what the user has seen.
`lost` collects the alerts of a call of `process` that was cut off (by a crash, or an
exception of `record_notification`) after the row was committed and before the
alert was shown or recorded; `unseen` marks rules and days whose threshold a
stale or partial observation reached, or that were edited that day or later.

### DatabaseFiles and ConfigStore

A database is its schema version and the number of changes it holds; `main` is
the file, `wal` what was committed and not checkpointed yet, `View` what a
connection sees.  `proc[p]` is a start of the program or a restore command, with
the version it read outside the transaction that migrates, and the verified copy
it restores.  `BeginMigration`, `MigrationBackup` and `Migrate` are the
migration; `Stage`, `EmptyLog`, `Unlink`, `Replace`, and opening and checking
again, a restore.  `elsewhere` marks a process whose open file was replaced.
The instance lock is one atomic variable here (`InstanceLock` is its detail): a
program takes it after it has opened the database, a restore command before.

`ConfigStore` adds `file`, `backup`, the startup entry `registered`, what each
program has `loaded`, and the one call of `replace_config` that holds the lock
(`saving`), whose steps each may fail.  A configuration is whether the program
starts at login and one other setting.

### UsageReports, UpdateManifest and HttpApi

`UsageReports` translates each computation on its own: `Summarize` (live),
`StoredRows` (what a sync stores), `DailyUsage`, `ObservedTokens`, `Export`
(what is read from the rows), over names with a date suffix, aliases and
blanks, tiers in several spellings and malformed token counts.
`UpdateManifest` translates the checks of a manifest in their order
(`CheckDocument`) and the order of versions; a signature is the key that made it
and the content it was made over.

`HttpApi` is one request on one connection.  The checks of each handler are a
sequence of `<<what fails, status, code>>` in the order of the code, of which
the first failure is the answer.  `conn` counts what was read of the body:
`Drain` is `_drain_unread_body`, which reads at most one byte more than the
limit and forgets how much it has read.  `Serve` stands for the services, which
have modules of their own.  `UsagePage` and `CostsPage` fetch one page each; the
upstream answers a cursor always with the same page, chosen when it is asked
first.

## 3. Runs

| Run | Shows | Bounds, and why they are enough |
|---|---|---|
| `UsageSync_shared` | `CompletedRunCovered`, `WholeAnswers`, `ImplementsHistory`, `LongSlicesStay`, `SyncReturns` | two days of two ticks, collector and handler, ranges [0,1) and [1,4), two runs, one cursor (fetches of up to two pages, and the repeated cursor), a clock that goes back: the two threads share the run of [0,1), resume each other's, fail and complete it; the run of [1,4) has two slices, so that one fails after the other is completed |
| `UsageSync_midnight` | violation of `NoDoubleCount` | two days, collector and handler |
| `HistoryRetention` | `TokenUsedOnce`, `NoDoubleCount`, `WholeAnswers` | the collector and two handlers, two days of three ticks, pages with one of two contents or none, one cursor, two runs, two tokens, one preview kept (32 in the code): the collector's range grows twice within a day and crosses midnight.  Handlers only preview and apply here (`Lookback` leaves them no whole day to sync), because their syncs break `NoDoubleCount` as the run above shows |
| `HistoryRetention_stale` | violation of `DeletesOnlyReviewedRows` | the same with days of two ticks, one token, and a default sync of handlers |
| `UpdateRuntime` | `OldVersionKept`, `CachedMatchesJournal`, `TerminalIsTrue`, `InstallsAsConsented`, `OperationEnds` | two handlers, versions 1 to 3, one expiring, two prepared updates: a second update follows a finished, failed or interrupted first one |
| `ProfileScheduler` | `OneCollection`, `BlockedStaysStopped`, `DeadlineUnlessPaused`, `PausedIsQuiet`, `ExitQuiesces`, `EveryoneServed`, `MenuReturns` | two enabled profiles with valid credentials, one edit (of a profile or of a credential, which is how missing and refused ones arise), two clicks (pause and resume, or a sync between), one fault, interval 2 and a back-off of 1: a failing profile is due twice as often as the other.  The doubling of the back-off does not happen at these bounds; the five invariants are proved for any values |
| `ProfileScheduler_enabled` | violation of `EnabledIsCollected` | one profile enabled at first, one edit |
| `InstanceLock` | `OneOwner`, `OwnersFileStays`, `ActivationServed` | two starts, one restore, any two of them die |
| `InstanceLock_recover` | violation of `RecoveredOnlyWhenGone` | one dies, the others recover |
| `ProfileAlerts` | `KeysUnique`, `ActiveExists`, `NoOrphanKeys`, `EnabledOnRequest`, `SyncAnswersForActive`, `OneAlertPerRuleDay`, `CrossingsAlerted`, `HistoryTellsTruth` | two handlers and the dispatcher, a profile that exists and one that may be created, two keys, one rule, one level, two UTC days, three requests or collections, restarts at any point: two overlapping requests and a third one after them, a rule deleted and created while its alert is sent, two collections of one day or of two, an alert that appears after its send was given up |
| `LocalFiles` | `DatabaseWhole`, `MigrationBackedUp`, `SavedConfigSurvives`, `StartupAgrees` | two starts and a restore command over a database of version 1 (the current one is 2), a backup of a newer version 3, two changes, two requests, one damaged file, one death: a start migrates while another one restores, a restore fails at each of its steps, a save fails after its file is in place |
| `HttpApi` | `FramingKept`, `TotalsAgree`, `OnlyTrustedUpdates`, `RequestsAnswered` | a good request of every route and all that differ from one in at most two fields, a body limit of one byte with bodies of up to five, three pages (visits counted up to two), six kinds of results, seven versions signed by a trusted or another key, altered or not |

Type invariants are in every module (`TypeOK` and the like); the proofs use
them, and no run spends its time on them.  A deadlock is not checked where the
program may stop (shut down, end, reach a bound); the liveness properties say
what must go on.

Symmetry is used where no liveness property is checked: handlers and keys in
`ProfileAlerts`, the two starts in `LocalFiles`.

### Fairness

- `UsageSync`: each thread in a call is scheduled, and every request ends with
  a page or an error because the client sets a timeout.  Nothing obliges anyone
  to begin a sync.
- `UpdateRuntime`: the operation thread is scheduled; its steps succeed or fail.
- `ProfileScheduler`: weak fairness for the steps of the threads and for time;
  strong fairness for `pause` getting the execution lock, which the loop leaves
  free for `poll_seconds` between two ticks.
- `InstanceLock`: a living process goes on.  Nobody has to start, exit or die.
- `HttpApi`: a handler runs until it has answered; its steps are computation,
  or network calls with a timeout.  The client is not obliged to give up.

`Profiles`, `AlertDelivery`, `DatabaseFiles` and `ConfigStore` have safety
properties only.

### Findings

Four runs end in a counterexample that contradicts a document of the
repository; `PROJECT.json` quotes the sentence for each.

1. *Midnight* (`UsageSync_midnight`).  The collector takes [midnight, t) and is
   slow; meanwhile a handler syncs the whole of that day; then the collector
   commits.  `reconcile_slice` removes rows inside its own slice only, the
   whole-day row stays, and daily totals count [midnight, t) twice.
2. *Retention* (`HistoryRetention_stale`).  A preview counts the old rows; a sync
   replaces them by as many others; the apply recounts, finds the same number,
   and deletes rows that nobody reviewed.  `docs/contracts/api-v1.md:114-115`
   promises that any change of the history is noticed.
3. *Enabled profile* (`ProfileScheduler_enabled`).  A profile enabled while
   monitoring is on gets a paused scheduler, which only pause and resume start.
4. *Recovery of a stale lock* (`InstanceLock_recover`).  Two starts find the
   lock of a dead process; the slower one unlinks what the faster one created,
   and both own the lock.  `OneOwner` shows that this overlap is the only way,
   and `LockHasOneOwner` proves it for any number of processes.

## 4. What the model shows beyond the runs

Steps of the modules that deserve a decision of the maintainers.  Each is a
behaviour of the model; no run is spent on it because the properties except it
by name, or because no document says what should happen.

Usage and retention
- Retention deletes rows but not the slices that make a day complete: the day
  is then reported complete with no usage.
- The pages of one fetch may report different moments: the upstream may correct
  its data between two requests, and the rows stored for an interval are then a
  mix that no answer of the upstream ever was.
- The double count of finding 1 also follows from a wall clock that is set back.
- When two calls share a run shorter than a day, the failure of one may mark a
  slice failed, or its start mark one in progress, that the other one has
  completed; it is fetched again.  `docs/en/troubleshooting.md:15` says that
  "completed slices stay intact": that is so of their rows, and of the slices of
  runs of a day or more (`LongSlicesStay`, `LongRunsStayCompleted`), but a day
  that slices of shared runs completed is reported incomplete until the fetch
  has ended.
- With one collector and handlers that sync the default range, a collection
  under way at midnight is the only way to finding 1 (`DefaultUseCountsOnce`).
  With explicit ranges of whole days there is one more: a day synced by request
  before it is over, to which the collector then adds its part of the day
  (`sync_service.py` does not compare the end of a range with the clock).
  `WholeDaysCountOnce` shows that there is no third one.

Updater
- The version of a confirmation is compared before the lock is taken: a handler
  confirms version 2, a check prepares version 3, and the consent is journaled
  for version 3, although each consent "is bound to the exact prepared version"
  (`api-v1.md:36`, `102-103`).  `InstallsAsConsented` excepts this race, and the
  theorem `InstallsAreConsented` shows that there is no other way to install a
  version that was not confirmed.
- An install that dies after the replacement and is launched as the new version
  cannot be resumed, because the version is not newer than the running one any
  more.  One that dies before the backup goes to `manual-recovery` although the
  target is untouched.  Neither journal is ever left by the program itself, and
  `check` will not prepare another update over it.

Monitoring and instance lock
- A thread that resumes in the tray while the main thread shuts down (Ctrl-C)
  undoes the pause of the shutdown: `PausedIsQuiet`, `BlockedStaysStopped` and
  `ExitQuiesces` then fail, each in a few hundred thousand states
  (`Exits = {"main", "tray"}` in `ProfileScheduler.cfg`).
- An exception of the profile query, or a profile that a concurrent refresh
  drops while `tick` walks its list, ends the loop thread.
- Any failure to read a credential blocks the profile; replacing the credential
  does not unblock it, and `resume_profile` is called by nobody.
- A start within ten seconds of a crash between creation and writing of the
  lock file is refused, although nobody owns the lock.
- A start with `--background` clears a request made while it was starting and
  opens no dashboard: `ActivationServed` needs `OpensOnStart`.

Profiles and alerts (`excused` and `unseen`)
- A deletion and an activation of the same profile that overlap leave an active
  profile that does not exist.
- An update reads the row and writes all of it back: a rename that overlaps a
  clear of the credential enables the profile again (`api-v1.md:27`).
- Two handlers that store the same key at once both pass the uniqueness check; a
  key that cannot be read is passed over by it.
- A credential store that answers "nothing deleted" (the Linux adapter returns
  `False`) is not noticed by `delete_profile_credential`: the profile is
  disabled and keeps its key.
- A stale or partial observation is remembered like a good one and uses the
  crossing up: no alert follows when the next good one is over the threshold
  (`docs/desktop-runtime.md:57`).
- One row per profile, rule and UTC day serves all projects, whereas
  `docs/en/troubleshooting.md:25` names group and project as part of the key.  A
  rule for all of them judges each project by the previous percentage of another
  one, and the alert of the project that crosses first uses up the alerts of the
  others that day.  `OneAlertPerRuleDay` is stated for the documented key, at
  which at most one alert is shown; that each project has its own alert is not
  claimed, because it is false.
- A crash between the commit of the row and the notification loses the alert, and
  so does a call that ends with an exception (`lost`).
- A send that times out is recorded as failed, and its notification may appear
  afterwards.  The test notification counts as failed in the same way.
- Two threads may both find that permission was never asked, and ask twice.

Database and configuration (`torn` and `estranged`)
- A checkpoint that fails before a restore is ignored and the log is removed
  all the same; changes that the collector commits in the middle of a restore
  over HTTP are lost; a second start may migrate between the removal of the log
  and the replacement, and leaves its log to a database it does not belong to.
- Two starts over a database of version 1: the slower one backs up the migrated
  database under the name of version 1, and fails.
- A backup of a newer schema passes the verification, replaces the database,
  and only then fails to open; and the restore command cannot be used on a
  database of a newer schema, since it opens that first.
- A missing configuration file with a good backup loads the defaults; a
  corrupt one loads the backup.
- A save that fails after `os.replace` leaves the new file in place.
- The tray toggles the startup entry without the configuration; disabling on
  macOS that fails at its last command has removed the entry; the configuration
  is loaded before the instance lock is taken, so a start may run on an older one.

HTTP and reports
- A body that is discarded unread (`DELETE`, the update check) and is longer
  than one drain but shorter than two is drained again when the service refuses:
  the second drain waits for bytes the client does not have, and the handler
  hangs until the client gives up.  `RequestsAnswered` excepts such bodies.
- A body that was drained whole leaves an HTTP/1.0 connection open.
- An `Origin` whose port is no number ends in a 500; an artifact host that
  cannot be encoded raises outside the manifest errors and ends in a 502.
- The daily history counts models that the catalog disables, the live summary
  and the alerts do not.  Names with blanks around them count in the stored
  reports and not in the live ones.
- `normalize_api_buckets` is used by tests only.

## 5. Proofs

All theorems hold for every value of the constants that satisfies the module's
named assumptions; each proof is by an inductive invariant that TLC checked
first on small instances.

- `UsageSync_proofs`.  `TypeOK` is not inductive as it stands for what a job
  may hold, and `CompletedRunCovered` depends on what a thread believes about
  its run.  The invariant adds, for each job, that its run exists and has the
  job's range, that the day it works on lies in the range, and that only the
  last of its pages ends the fetch.  `WholeAnswers` follows because `Reconcile`
  is reached after a last page only, and removes what its rows overlap in the
  same interval; nothing is assumed of how the pages fit together.  Theorems:
  `TypeCorrect`, `RunsCovered`, `AnswersStayWhole`.

  For what a failure may do to a completed slice, `SharingInv` says which calls
  can share a run: a handler that syncs a day or more never resumes the
  collector's, and handlers exclude each other, so the list of completed slices
  such a call holds is true of the table (`DoneOK`).  `LongRunsStayCompleted` is
  what that gives for any constants; with shorter shared runs it is false
  (section 4).  For the refinement each transaction is shown to be a step of
  `UsageHistory` or a stutter (`HistoryImplemented`), for any ranges: a slice
  that is reconciled installs its pages and may complete its day, a slice that is
  begun again or fails may reopen it.  That a day is complete only when all of it
was fetched needs one more invariant, `RowsCover`: whatever replaces the rows of a
completed slice covers it too.
- `HistoryRetention_proofs` (on top of the module above, whose invariants
  retention is shown to keep).  Previews on offer have distinct tokens, all of
  them issued, and a handler that popped one holds a token that nobody else has
  and no deletion used (`RetentionInv`: `RetentionTypes`, `TokensIssued`,
  `OffersUnique`, `TokenUsedOnce`).  Theorems: `RetentionInvariant`,
  `RetentionTypeCorrect`, `TokensDeleteOnce`, `SyncsUndisturbed`,
  `LongRunsStayBesideRetention`.
  `DefaultUseCountsOnce` is about the property that finding 1 violates: all
  rows of a day end at the same moment (`RowsInv`), and a call under way knows
  of at least as much of its day as the rows do (`CallsInv`).  Its hypotheses,
  `DefaultUse` (one collector, no explicit range, a clock that is not set back)
  and `NoCollectionOverMidnight`, exclude exactly what finding 1 and section 4
  name.  `WholeDaysCountOnce` admits explicit ranges of whole days
  (`WholeDayUse`), as long as they are over when they are synced
  (`HandlersSyncPastDays`).  The run `HistoryRetention` checks the property without the second one
  where handlers do not sync.
- `UpdateRuntime_proofs`.  The invariant relates the place of the operation
  thread to the journal (`OpInv`), the files to both (`FileInv`) and the
  handlers to the cached manifest (`HandlerInv`).  Theorems:
  `UpdateTypeCorrect`, `OldVersionIsKept`, `CacheAgreesWithJournal`,
  `FinishedUpdatesAreTrue`.  `ConsentInv` says which confirmations, of the
  journaled version or overtaken by a check, each state of the journal stands
  for, however the state was reached; `InstallsAreConsented` follows for every
  step that changes the target.
- `ProfileScheduler_proofs`.  The invariant says which thread holds the
  execution lock by where it is (`LockInv`), what each call refers to
  (`CallInv`) and that only the scheduler being collected is running
  (`TableInv`).  Theorems: `SchedulerInvariant`, `SchedulerTypeCorrect`,
  `CollectionsNeverOverlap`, `DeadlinesFollowPause`.

  A second invariant, `MonitorInv`, is about pausing and shutting down.  The
  flag is set, the lock awaited and each scheduler paused in separate steps, so
  it says at which stages of which operation a thread may be (`StageInv`), which
  operations exclude each other (`TurnsInv`), what the flag is at each stage
  (`PausedInv`), which schedulers a pause has still to reach (`HaltedInv`) or a
  resume still to start (`RefsInv`), and that a collection runs for a scheduler
  of the table, while monitoring is on (`RunsInv`), not for a blocked profile
  (`BlockedInv`).  Theorems: `MonitorInvariant`, `BlockedProfilesStayStopped`,
  `PauseQuiesces`, `ShutdownQuiesces`, for the behaviours in which no resume in
  the tray meets a shutdown by the main thread (`[]QuietShutdown`).  Without it
  all three properties are false (section 4).  It holds by itself where the tray
  is what shuts the program down, as in the runs, or no menu is clicked
  (`ShutdownIsQuiet`); `TrayShutdownIsSafe` states the three properties there
  without a hypothesis on behaviours.
- `InstanceLock_proofs`.  `OneOwner` says nothing of the processes that are
  about to unlink, so the invariant adds what they rely on: a lock file is
  created once in the life of its process and a file that is gone never comes
  back (`FilesOnce`); it does not lose its contents (`Contents`); a file judged
  stale and still there belongs to a process that is gone (`Judgement`); and,
  unless `raced`, the holder's file is at the path and the one process about to
  unlink a stale file still finds that file (`Exclusion`).  Theorems:
  `LockInvariant`, `LockTypeCorrect`, `LockFileStays`, `LockHasOneOwner`.
- `LocalFiles_proofs` (over `ConfigStore`, hence `DatabaseFiles`).  Who restores
  or runs owns the instance lock (`OwnerInv`); who migrates is SQLite's writer
  unless its file was replaced (`MigratorWrites`); a database of version 1 has
  its backup before it is migrated and while a log says that it was
  (`BackedUpFirst`, `OldIsBackedUp`); the log is empty when a restore removes
  it, unless `torn` (`LogInv`).  For the configuration: a good file holds the
  last saved configuration or one whose save failed late, only the owner of the
  lock saves, and at each step of a save the entry follows the configuration
  being saved or the one running.  Theorems: `LocalInvariant`,
  `DatabaseStaysWhole`, `MigrationsAreBackedUp`, `SavedConfigIsLoaded`,
  `StartupEntryAgrees`.
- `ProfileAlerts_proofs` (the profile properties, in the composition with
  alerts).  Uniqueness is checked before it is made true, so the invariant says
  what lies in between: two editing requests that share a profile or a key are
  noted (`OverlapsNoted`); a profile being created is nobody else's and its
  credential its own (`CreatorsDiffer`, `CreateOK`); a key about to be stored is
  no living profile's (`ClaimOK`); a credential without a profile belongs to a
  creation or a clean-up (`OrphanInv`); every switch of the active profile
  raises the generation a sync compares (`SnapshotOK`).  Theorems:
  `ProfileInvariant`, `KeysStayUnique`, `ActiveProfileExists`, `NoKeyIsOrphaned`,
  `SyncsAnswerForActive`, `EnabledByRequestOnly`.
- The alerts, in `ProfileAlerts_proofs` too.  Events outlive the transaction that made them, and
  rules may be edited, deleted and created again meanwhile.  The invariant says
  that an event, shown, recorded or still to be sent, whose rule still exists
  has its deduplication row marked (`EventsNoted`); that rules and events were
  born by a request already made, so that a rule created again is told apart
  (`BornBefore`); that the events of a call differ from each other and from all
  that were told, by whatever project they crossed, the one being sent being seen
  when it is delivered or once it appears (`EventsFresh`), and one that may still
  appear being like none that was seen (`LateFresh`); that there is no row
  without a rule (`CascadeInv`); that the dispatcher's list of rules is current or
  the difference noted (`RulesCurrent`); that a passed threshold has
  used up its crossing (`CrossingsUsed`), and that the alert of a used crossing was
  shown, recorded, is in the hands of the dispatcher or was lost (`UsesKnown`).  Theorems:
  `AlertInvariant`, `AlertsNeverRepeat`, `PassedThresholdsAlert`, `HistoryIsTrue`.
- `HttpApi_proofs`.  A list of checks answers with the first one that fails
  (`FailureIs`, with a lemma for each list).  The connection reads at most one drain before
  the answer, and what leaves it open was read whole (`ConnInv`).  For updates,
  each accepting check is unfolded once, and the comparison of `semver.py`
  is shown to be the lexicographic order of keys by which semver.org
  defines precedence (`VersionOrder`), for core numbers of any size and lists
  of identifiers of any length; in a key the end of a list is below
  every identifier and a release above all of them.  For the pages, a call that goes on has a
  cursor it has not visited (`FetchInv`).  Theorems: `VersionOrder`,
  `VersionsAreOrdered`, `ConnectionInvariant`, `NoUnreadBodyIsARequest`,
  `OffersAreTrusted`, `PagesAreCountedOnce`.

  `OneStory` proves `TotalsAgree`: live summary, observations of the alert rules,
  stored history, stored days and export add up to the same tokens, for any
  catalog, any number of pages and any results.  The reports are sums over
  functions (`SumFunction`) of concatenated pages (`FlattenSeq`).  The library's
  induction theorems cannot be used, so `SetInduction` and `UptoInduction` state
  induction for a set of cases in place of a predicate, each proved by a minimal
  counterexample.  From them: a sum over
  a union of disjoint sets splits (`SumParts`), a report depends on what it
  counts only through the tokens at each key (`TokensAt`), the rows that
  a sync stores have as many tokens at each key as the results of the pages (`StoredSum`), and
  `ResultsAgree` puts the reports together.  `FetchInvariant` says that the
  results counted are those of the pages fetched: `SummaryIsOfTheFetchedPages`
  and `CostsAreOfTheFetchedPages` state it for the two sums the dashboard
  shows.  The upstream's answers are typed (`ApiAssumption`: counts
  and amounts are integers; a count that is no integer is refused like a
  negative one).  `TotalsAgree` excepts names with
  blanks around them, for which it is false (section 4).

Only model-checked:

- `SyncReturns`, `OperationEnds`, `EveryoneServed`, `MenuReturns`,
  `ActivationServed`, `RequestsAnswered`: liveness under fairness and ENABLED
  are beyond the provers.
- `NoDoubleCount` outside the default use: it is false in general.

## 6. Not modelled

- Content of rows, texts of notifications, rendering of answers, CSV and JSON,
  static files: no property depends on them.
- The error record and progress file of the updater, the Windows helper plan,
  and packages that cannot install: every operation of theirs is refused at once.
- Artifact selection by platform, cryptography, JSON, base64 and URL parsing of
  manifests: pure functions of one input, tested where they are.
- Validation of single configuration and catalog fields: long lists of
  independent checks.
- Transport of HTTPS, the native notification queues and the operating system's
  credential stores: external, modelled by what their callers see.
- Platform paths, deep links, localisation, logging, the quality harness, the
  web dashboard, release scripts: presentation, tooling, or thin wrappers.

## 7. Plan

Done, in this order: `UsageSync` with `UsageHistory` and `HistoryRetention` (the
data the user sees); `UpdateRuntime` (what can leave the user without a
program); `ProfileScheduler` (the concurrency of the program); `InstanceLock`
(what keeps two programs apart); `Profiles` and `AlertDelivery`;
`DatabaseFiles` and `ConfigStore`; `UsageReports`, `UpdateManifest`, `HttpApi`.

Every safety invariant, action property and refinement that a passing run
checks is a theorem; section 5 says which have hypotheses, and why.

Left: what `PROJECT.json` calls partly modelled, and runs for the behaviours of
section 4 as soon as a document says which of them is meant.

## 8. Running

    tlc -workers 2 -config UsageSync_shared.cfg MCUsageSync
    tlapm UsageSync_proofs.tla

The runs take from seconds (`InstanceLock`) to three minutes
(`ProfileAlerts`) with two workers.
