# Verification of discohack-daemon

discohack-daemon mounts a Yandex Disk as a FUSE file system. Programs read and
write local files; a sync layer records what they did in an SQLite database and
a background worker brings it to the server and the server's changes back. This
directory holds TLA+ modules that model that program, TLC configurations that
check them, and TLAPS proofs. Line numbers refer to the sources under `src/src/`.

Contents: [the system](#the-system), [the modules](#the-modules),
[abstractions](#abstractions), [runs](#runs), [findings](#findings),
[proofs](#proofs), [not modelled](#not-modelled), [plan](#plan).

## The system

| Component | Source | State it keeps | Operations |
|---|---|---|---|
| Metadata store | `sync.rs` 1487-1880 | tables `files`, `operations_queue`, `conflicts` of metadata.db, behind one `Mutex<Connection>` | query_*, upsert_operation, ensure_remote_row, apply_conflict_locked, rename_subtree, ... |
| Local API | `sync.rs` 365-905 | the cache directory (`cache_path` of each file), local variables of each call | create_file, apply_local_file_from_staging, mkdir, unlink, rename, read_range / load_local_bytes (ensure_hydrated), request_refresh |
| Sync worker | `sync.rs` 907-1272 | the leased job and what the running function has read | worker_loop, lease_next_operation, recover_expired_leases, process_upload / delete / mkdir / rename / download, retry_or_fail, handle_conflict |
| Remote refresh | `sync.rs` 1167-1395 | the walked tree, a snapshot of the rows, an open transaction | collect_remote_tree, reconcile_remote_tree |
| Cloud disk client | `yadisk.rs` | none of its own; the remote tree is on the server | metadata, listing, upload, download, mkdir, delete, move |
| FUSE file system | `fs.rs` | inode table, open handles, staging files | lookup, open, read, write, flush, release, create, mkdir, unlink, rename |
| Status projections | `sync.rs` 634-820, 1885-1960 | `status_version` | sync_summary, sync_items, sync_status, list_directory_statuses |
| OAuth login and tokens | `auth.rs`, `secrets.rs` | credentials in memory and in the Secret Service, one pending login | begin_login, complete_login, access_token, refresh_access_token |
| OAuth callback | `callback.rs` | an event channel | one HTTP handler: complete_login, then LoginCompleted |
| D-Bus service | `dbus_service.rs` | the status version last announced | methods forwarded to the two services, a 500 ms polling task |
| Lifecycle | `main.rs`, `mount.rs` | mount state, worker handles, stop flag | mount after login, signals, unmount, shutdown |

How they interact. FUSE threads call the local API; each call looks rows up,
works on the cache directory without the lock, then takes the database lock for
its statements. It leaves operations in `operations_queue`, which the one worker
thread leases in the order of their ids. The worker reads the row, makes network
calls without the lock, and takes the lock again to record the outcome. A refresh
(at startup, every 30 s, on a stale read, from D-Bus) is an operation of the same
queue. Other clients of the same account change the remote tree at any time. The
daemon may be killed anywhere; the database and the cache stay.

What is hard about it:

* *Check, then act.* Rows read before a file or network operation are used after
  it: in unlink, ensure_hydrated, every process_ function and reconcile_remote_tree.
* *State by id.* The worker sets `Uploading`, `Synced`, `Error` on a file id and
  ends a job by its id, whatever became of the row meanwhile.
* *Statements without transactions.* Only reconcile_remote_tree and
  handle_conflict open one; elsewhere a kill leaves half of a change.
* *Uncertain calls.* A PUT may take effect and its answer be lost; versions are
  fetched by calls apart from the upload and from the check before it.
* *Coalescing.* upsert_operation rewrites an operation that has not started, and
  replace_all deletes one that has.

What makes each component correct:

* store: a state that announces work is backed by an operation that does it; ids of
  operations are never reused;
* local API: bytes a program committed are not lost before they are uploaded; an
  unlinked file does not come back;
* worker: every operation comes to an end, retries included, and ends no other one;
* refresh: cached bytes never carry the version of other bytes, unsynced files step
  aside instead of being overwritten, and what nobody disturbs ends as a mirror of the
  remote tree;
* login: the tokens in memory and in the Secret Service are ones the server still
  takes, no refresh token is used twice, one login flow at a time;
* handles: what is written to a handle is what a close leaves in that file and in no
  other, and every path leads to the entry that has it;
* status: what the desktop is shown is never out of date once a round of announcements
  has ended, and in the end it says that all is synchronized;
* lifecycle: a completed login is announced, a daemon that is asked to stop does stop, and
  when it has no token refresh of a thread it waited for is half done.

## The modules

| Module | Models | Its state and actions |
|---|---|---|
| `SyncStore` | the metadata store | a database value (`files`, `queue`, `copies`, `nextOp`) and one operator per function or statement |
| `RemoteDisk` | the trait RemoteSyncClient (external) and list_directory of `yadisk.rs` | a tree of resources and what each call does to it; a listing is read in pages (`Page`, `LastPage`) by offsets into an order (`Rank`) |
| `SyncState` | the shared state of the sync layer | `db`, `cache`, `remote`, `th` (the call of each FUSE thread), `w` (the worker), `born` and `clock` (ids, versions and contents in use), `edit` (history), `spent` (events so far, held below one of `Limits`); `Init` is open_at |
| `LocalApi` | the local API | a call is a step that begins it (`CreateFile`, `WriteFile`, `Unlink`, `Rename`, `ReadFile`, `MakeDir`) and steps that carry it on (`...Commit`, `WriteCopy`, `ReadDownload`, `ReadStore`) |
| `SyncWorker` | the worker | `Lease`, `RecoverLease`, `Start`, then one step per critical section or network call: `Upload...`, `Delete...`, `Mkdir...`, `Rename...`, `Download...`, `Fail`, `NetworkFails` |
| `RemoteRefresh` | process_refresh_tree | `RefreshList` (one page of one directory per step), `RefreshSnapshot`, `RefreshBegin`, `RefreshMerge` and `RefreshDrop` (one resource or row per step, on the transaction `w.tx`), `RefreshCommit`, `RefreshDone` |
| `SyncService` | the composition | `OtherClient`, `CrashRestart`, `Next`, `Spec`, `LiveSpec` |
| `LocalFirst` | nothing of the code: the abstract specification | `bytes`, `owed`, `inHand`, `clean`, `server`; a program takes a file in hand, stages and commits bytes or removes it, the layer gives owed bytes to the server, loads or reviews files that owe nothing |
| `SyncProperties` | what is promised | invariants, action and liveness properties, and `Promise`, the refinement mapping to `LocalFirst` |
| `StatusFeed` | sync_summary, sync_items, status_version and the polling task of `dbus_service.rs`, around `SyncService` | `news` (a version the task has not taken note of), `feed` (what it announces next), `shown` (what is on the bus), `missed` (history: rows changed with no version); every action of `SyncService` with the bump it makes or does not make, and `Notice`, `AnnounceSummary`, `AnnounceItems`, `Restarted` |
| `MCSync`, `MCStatus` | instances for TLC | paths, trees and budgets |
| `AuthManager` | the logins and tokens of `auth.rs`, the Secret Service, the OAuth server | `mem`, `pending`, `store`, `holder` (who keeps the mutex over a network call), `call` (of each callback request and token user), `codes` and `honoured` (what the server takes); `BeginLogin`, the steps of complete_login (`TakeLogin`, `Exchange`, `RestoreLogin`, `SaveLogin`, `InstallLogin`), the steps of a token refresh (`NeedToken`, `RefreshCall`, `SaveRefreshed`) and their failures |
| `DaemonLifecycle` | run() of `main.rs`, `MountManager`, `callback.rs`, around `AuthManager` | `main` (where run() is), `events` (the channel), `thread` (of worker_loop), `stop` (its flag), `session`, `stale` (a mount left behind), `code`; `Start`, `MountAtBoot`, `ReceiveEvent`, `MountAfterLogin` (with `StartBackground`, `EnsureMounted`), `EmitLoginCompleted`, `SendEvent`, `Signal`, the steps of the shutdown (`Unmount`, `JoinSession`, `StopWorker`, `JoinWorker`), `WorkerLoop`, `UnmountedOutside`, `Killed`, `Restart` |
| `FuseHandles` | the inode table and the write handles of `fs.rs` | `table` (entries, path_to_ino, dir_children, next_ino), `handles` with their staging bytes, `disk` (the sync layer's rows), `th` (the request of each FUSE thread); a request is a step that begins it (`NameCall`, `InodeCall`, `WriteCall`, `CommitCall`) and one step per critical section or call of the sync layer |
| `MCDaemon`, `MCFuse` | instances for TLC | names and budgets |
| `SyncServiceProofs`, `SyncDeleteProofs`, `SyncQueueProofs`, `RefreshProofs`, `LocalFirstProofs`, `StatusProofs`, `DaemonProofs`, `FuseProofs` | theorems | see [proofs](#proofs) |

A step of the specification is one critical section, one network call or one file
operation. Statements outside a transaction commit by themselves, but nothing
else gets at the connection between two of them, except a kill:
`CrashRestart` therefore restarts from every prefix of the statements
(`HalfCall`, `HalfJob`): some of the rows of a rename moved, or all statements of an unlink
done and the cached file still there. While reconcile_remote_tree holds its transaction
(`Locked`), no other thread takes the lock.

Definitions marked "Faulty" are plausible mistakes in the code, at least one
per checked property. Each is used in place of the
definition after it to confirm that the property notices.

## Abstractions

* Paths are sequences of names; a name is a stem and the number of its
  `" (n)"` suffix, which is all next_conflict_name looks at. That `LIKE` in
  rename_subtree ignores case and takes `_` for a wildcard is the relation `Alike` between
  stems; a pattern that matches across a `/` is left out. Rows of one length are
  renamed in any order by the code, here those that clash come first.
* Versions and contents are numbers from one clock; a version is new whenever a
  resource changes. mtime, size, md5, last_error, timestamps are left out.
* Rows of `operations_queue` that are Done, PermanentError or Conflict are
  dropped: no statement reads them again. Of `conflicts` the pair (file, path)
  remains, which is what is_conflict_copy asks for. DirtyMetadata is never stored.
* sync_items is not cut at MAX_SYNC_ITEMS, and of a summary the five counts remain, which
  its other fields follow from.
* Consecutive lookups of one call, each under its own lock, are one step.
  `fs::copy` and `fs::write` are one step: torn files are left out.
* Backoff and lease expiry are untimed: what is in backoff may or may not be due
  (`Leasable`), and a lease that nobody holds expires sometime (`RecoverLease`).
  The worker runs one job at a time and recovers leases before it leases, so a
  lease it finds is one left by an error or a crash.  A job that runs longer than
  its lease does not matter, since no second worker exists.
* The rows of the local snapshot and the remote resources are merged in any order: the code
  goes through a HashMap. The pages of one directory are listed one after the other as in
  the code; which directory comes next is open here and depth first there.
* The kernel's directory locks are assumed (`DirsHeld`): two namespace operations
  do not meet in one directory. Reads and writes are not restrained.
* The server does what `FakeRemoteClient` of the tests does, which is also what
  `yadisk.rs` relies on: a PUT replaces, mkdir of what exists is a conflict the
  caller takes for success, deletion of nothing too, a move takes the subtree along.
* A network call may fail with a retryable error, with a final one, or take
  effect and lose its answer. Which of them a run allows is `Fault`.
* `AuthManager`: authorization codes and logins share a number, since the server ties
  a code to the challenge it was asked for; the access token of a set and its expiry
  are left out, so a thread may need a refresh whenever it asks. The server replaces a
  refresh token when it is used, takes a code once, and keeps the tokens of earlier
  logins in force. Failures that leave no trace (a callback without a code) have no step.
* `DaemonLifecycle`: starting without an error up to the D-Bus service; the
  exit codes before that change nothing. `Signal` and the handlers after it are one
  `select!` branch. The users of `AuthManager` are the thread of worker_loop and the FUSE
  threads; the thread that asks for a refresh every 30 s needs no token, it queues an operation.
* `FuseHandles`: a path is a sequence of letters with `/` between names, because
  rename_entry_subtree compares paths as strings. The bytes of a file are the set of
  writes in it, each at an offset of its own, and truncation is to nothing. Each call
  of the sync layer is one step here, `LocalApi` has its details, but `LIKE` is here too
  (`LikeUnder`; letters alike, `CaseOfD`); critical sections that
  follow one another with nothing but reads between them are one step. A fault (`Fail`) may be one of the
  sync layer or of the staging file, on a write before or after the bytes are in it. The kernel's
  locks are assumed: `Locks`, `DirLockFree` (lookups and listings run beside each other,
  changes of a directory alone; a rename or rmdir locks the directory that goes, too), `InodeLockFree` (writes, truncations and fsyncs of a file),
  a release comes last on its handle, while flushes of duplicated descriptors, opens
  and getattrs run freely. A request ends when its inode is answered: reads, which refresh the
  entry and change nothing else, are the getattr. The functions kept for the older remote
  client (apply_committed_resource), which nothing calls, are left out.

## Runs

The runs of the sync layer instantiate `MCSync`, the others `MCDaemon` and `MCFuse`.
The budgets bound only what the environment does: calls of programs, changes by
other clients, network faults, refreshes after the first, logins, signals, kills.
What the daemon does in answer is never cut off: the worker may lease, retry and
refresh without limit. `Limits` is a set of budgets and a behaviour stays within one of
them, so that a run has several mixtures of events without their product.
In the sync layer `FileId` has twelve ids so that the budget,
never the supply of ids, ends a behaviour (a run that used them up would deadlock and be
reported: deadlock is checked there, and `Poll`, the worker's sleep, is the step of
a system at rest). `DaemonLifecycle` is checked for deadlock too, with `Wait` as the
`select!` that has nothing to take. Only the runs of `FuseHandles` say
`CHECK_DEADLOCK FALSE`: threads serve requests, and when the budget of requests is
used up there is nothing left to do.

| Run | Bounds | Shows |
|---|---|---|
| `Calls` | 2 threads; 2 calls of any kind with 1 change by another client and 1 fault of any kind, or with 1 kill, or with 1 kill inside a critical section; a directory with a cached file, a file beside it, pages of one entry | `TypeOK`, `JobKeepsItsId`; `QueueBacked`: a state that announces work has its operation; `DeleteSupersedes`: a row that is QueuedDelete has no upload left (a write to the unlinked file takes the row out of that state again); `RefreshMirrors`: a refresh that nothing disturbs leaves the rows of the remote tree |
| `Edits` | 2 threads; 3 creations or writes of one path, 1 fault of any kind, the first refresh, 1 kill; or 3 changes by other clients of the path, of its conflict copy or of one listed before it, 1 fault and 2 refreshes; or 2 such changes, 1 fault, 2 refreshes and 1 kill | `ImplementsLocalFirst`: every step is one of the abstract specification; `EditSurvives`: committed bytes are replaced only by a program's write until they are uploaded; `QuietMeansStored`: at rest and without a kill, each Synced file is on the server with its bytes; `VersionPinsContent`: at rest, whatever other clients did, the cached bytes of a file at the server's version are the server's |
| `LiveSync` | 2 calls with 1 other client's write and 2 refreshes, or with 1 retryable fault or lost answer, or with a kill; 1 call with 1 write and 1 fault; the polling task | `EventuallySynced`: all rows Synced, queue empty, for good; `FeedCurrent`: between two rounds of the task the bus shows the rows as they are; `EventuallyShown`: in the end it shows that nothing is left to do |
| `Daemon` | 2 callback requests, the worker and a FUSE thread, a channel of one event; 1 login, 1 refresh and 3 troubles (failures, losses, signals, kills, outside unmounts), or 1 login, 2 refreshes and 2 troubles, or 2 logins and 1 refresh | `TokensUsable`, `NoTokenReuse`, `StaysLoggedIn`: logins and refreshes in any order leave usable tokens, and no step loses them; `CleanExit`: an orderly exit leaves nothing of the worker half done, and with exit code 0 nothing of a FUSE thread; `LoginAnnounced` and `ShutdownEnds` under fairness |
| `Handles` | 2 FUSE threads, 3 names, two of them alike for `LIKE`, a directory with a file at the start; four budgets: a lookup, an open, a change of a name and a write; an open, a change, 2 writes and a flush; 2 opens, 2 writes, a flush and a fault; a lookup, 2 changes and a fault | `PathsResolve`: path_to_ino and the entries agree; `CloseKeeps`: a close leaves the bytes of the handle in its file, wherever that was moved |

`FeedCurrent` has one exception, `missed`: a directory rename whose first rows have moved when a
later one clashes returns with the `?` of sync.rs 599, before `bump_status_version` (609), and
the bus shows the old paths until the next bump. `CallFailed` of `StatusFeed` models that
return, and `missed` remembers it until that bump. The instance of `LiveSync` has no renames;
`ShownIsCurrent` covers them.

The refinement. `ImplementsLocalFirst` maps the sync layer to `LocalFirst`: `bytes` are the
cached bytes, a file is `owed` while its last committed edit (the history variable `edit`) has
not been uploaded, `inHand` while a thread is between looking its row up and changing it,
`clean` when its row is Synced with no Upload queued, and `server` holds the contents of the
remote tree. A step of a thread, of the worker, of a refresh, of another client, or a restart
has to be a step of `LocalFirst` or change none of these; so nothing may load other bytes
into a file that is owed, and nothing may call it clean before its bytes were given.

Why these bounds are enough to be worth something. The hazards need at most two
overlapping calls against one job of the worker, or one call against a refresh that is
itself overtaken by another client, and one fault or kill at the worst moment;
all of these combinations are inside the bounds of some run, and every faulty
variant is caught within them. `Calls` was also run with
larger budgets (three calls, two faults; up to 13 million states) with the same outcome.
The races of tokens need two users and a login, those of handles two requests and a
write between them. The passing runs between them take every action and every disjunct of
the next-state relations.

What a run leaves out is left out because the property is then known to fail:

* `Edits` has other clients or programs, not both (see `DownloadOverEdit`; and an upload whose
  version is fetched after another client's write records that version for our bytes,
  line 1044), no rename (`RefreshOverRename`) and no unlink (a write
  to an unlinked file is removed with it by the Delete that is still queued, line 1080),
  and `QuietMeansStored` no kill;
* `VersionPinsContent` speaks of behaviours without calls, and excepts files that were set aside
  as conflict copies: they are uploads too, for a failed download leaves `Error`, which
  has_unsynced_local_changes takes for local work, so the next refresh makes a copy of what it would have
  replaced, and another client's write to the copy's path can meet that upload. It
  excepts kills inside a critical section: between the two statements of retry_or_fail, such a kill
  leaves a row `Downloading` without its operation, and the next refresh, which finds the version
  it expects, marks the old bytes Synced. It lets the bytes be missing: a listing in pages misses a file
  when another one is removed between two pages, reconcile_remote_tree then removes the cached
  file of the row (line 1387) before it commits, and a kill brings back the row without its file,
  which ensure_hydrated downloads when it is next read (line 851);
* `QueueBacked` and `DeleteSupersedes` except kills inside a critical section (`Torn`):
  create_file inserts the row and then queues the upload (line 408), each
  statement committing by itself, and a daemon killed in between leaves a file in
  QueuedUpload that nothing uploads;
* `RefreshMirrors` is about refreshes that found nothing queued and no directory waiting to
  step aside, and during which neither tree changed (`Undisturbed`); it excepts conflict
  copies, which the refresh keeps;
* the liveness run has no directory (see `DirConflict`);
* `CloseKeeps` speaks of handles that are `steady` (`Unsteady` and its uses): the only one of
  its file, which nobody unlinks; none of whose writes fails once its bytes are staged (they are in the staging
  file and `dirty` is not set, lines 373-376); none of whose commits fails, meets a write of the same handle
  (line 1124 of `fs.rs` clears `dirty` after such a write) or meets a rename of the file (line
  429 goes by the old path: it fails, or finds a file created there in the meantime). The write
  that meets a commit needs two descriptors of one open file or an fsync from elsewhere. Nor is a
  handle steady that a rename takes along which does not move its file (see `PrefixRename`), whose file
  is moved by a rename that a clash then ends, or
  whose file a second rename moves before the first has told the handle: when `d/x/a` becomes
  `d/x/b` while `d` becomes `e`, the handle may end with `d/x/b` and the file is `e/x/b`;
* `TokensUsable` excepts what is lost with an answer (`dropped`): a refresh whose answer never
  comes, or whose tokens cannot be saved, takes the old token with it and
  the code has no remedy but a new login.

Fairness. `LiveSpec` of `SyncService` and `LiveStatusSpec` of `StatusFeed`: a FUSE thread that
is in a call goes on with it, the task that polls every 500 ms goes on, and
the worker thread goes on with its loop: these are threads of a process whose
scheduler is fair, and none waits for anything but the lock, which is released
after every step. Recovering a lease is a step of the worker loop. `LiveSpec` of
`DaemonLifecycle`: run() is a task of a multi-threaded runtime that goes on with the branch it is
in and with the shutdown, the worker's thread goes on with its loop, a callback request and a token
refresh go on too, and the network calls in them end, by answer or by error. Calls, other clients, faults, refreshes, logins,
signals and kills are not fair: they may cease at any time.

## Findings

Seven runs end in a counterexample: what a document of the repository says and the code does not do.

* `DirConflict` (sync.rs:1808): a directory created before a refresh is taken for a
  conflict and gets an Upload operation. process_upload fails on it before any
  retry accounting, its lease expires, and it is leased again for ever.
* `DownloadOverEdit` (sync.rs:1200): a write between the refresh that queued a download
  and that download is overwritten.
* `RenameTwice` (sync.rs:1684): the second of two pending renames replaces the payload
  of the first, so the worker moves a path the server does not have, takes
  NotFound for success, and the file keeps its first name there.
* `RefreshOverRename` (sync.rs:1382): a file that a program has renamed while a refresh is
  queued or running is not on the server under its new path yet. The refresh takes
  it for one another client removed: its row, its queued Rename and its cached
  bytes go, and the file is back under its old name. A write committed to the renamed file
  between the refresh's snapshot and its transaction goes with it.
* `ConflictRecorded` (sync.rs:1032): the documents have a conflicting file enter the state
  `Conflict`, which the summary counts and the item list shows. handle_conflict
  deletes the file's operations first, the job among them, so finish_job finds no job
  to tell it the file: no row ever enters that state, `conflict_count` and
  `is_conflicted` always say that there is no conflict, and `ConflictNeverStored` proves
  it for every behaviour. (Were the order the other way round, the copy's row would stay `Conflict`
  beside an Upload of it.)
* `LoginOverLogin` (auth.rs:162): complete_login takes the pending login before it
  exchanges the code, so a second login may begin meanwhile; when the first exchange
  fails it puts its own login back over the second one.
* `PrefixRename` (fs.rs:1185): renaming `a` to `b` while `ax` is open for writing
  changes the path of that handle to `bx`; its bytes go to `bx` if there is one,
  and nowhere if not.

Met while modelling, without a run of their own: the kill inside create_file above; `LIKE`
ignores the case of letters (sync.rs:1847), so renaming `d` while there is a `D/a` moves the row of
`d` and then gives `D/a` the new path of `d` too, the UNIQUE constraint stops it with an error outside
of a transaction, and `d` keeps the new path with no Rename queued; a file
created while a refresh is queued is renamed to a conflict copy, since the server
does not have it yet (sync.rs:1378); a signal between the mount at startup and the
installation of the handlers (main.rs:158-165) leaves the mountpoint held; the inodes of the files
in a directory whose listing was dropped (by a creation or a commit in it) keep their paths
when the directory is renamed (fs.rs:1194), so the kernel, which still knows them, is
answered ENOENT until it looks the names up again.

## Proofs

`SyncServiceProofs` proves what the statements of the store keep, and four theorems about `Spec`, for every set of paths, threads, trees,
faults and budgets that satisfies `RootAssumption` (the root's id is an id, `Alike` relates
stems), `DiskAssumption` (the page size is positive, `Rank` ranks stems) and
`StateAssumption` (the constants have their types, and the tree at the start is finite, has one
entry per path and per id, and none at the root), crashes and restarts included:

* `Invariance`: `Spec => []Inv`, the inductive invariant;
* `TypeCorrectness`: `Spec => []TypeOK`;
* `ConflictNeverStored`: `Spec => []NeverConflicted`, which is not what the documents promise but
  what makes the finding `ConflictRecorded` a rule;
* `JobIdentity`: `Spec => []JobKeepsItsId`.

The argument. `NeverConflicted` is not inductive. finish_job (the only writer of
`Conflict`) looks the job up by its id, so one must know that handle_conflict has
deleted it, that is, that an operation with the job's id belongs to the job's
file; and that no later operation takes that id while the worker is on its way to
finish_job. So `Inv` says of the database that ids are below the AUTOINCREMENT
counter and stand for one file and type (`Sound`), of the worker that its job is
below the counter and not impersonated (`JobHeld`), at finish_job that it is gone
(`FinishedJobGone`), the same of the refresh's transaction (`TxSound`), and of
a creating call that its row is QueuedUpload (`NewRowsQueued`).

Every statement of the store yields a database that *follows* the one before
(`Follows`: it is sound, and each of its operations was there or has a new id), and
following is transitive (`FollowsOn`). So every function of the program is
handled by its statements, a crash between them needs nothing new, and three lemmas
(`CallKeeps`, `EndKeeps`, `StepKeeps`) turn "the database follows" into "the
invariant is kept" for calls, for steps that end a job and for steps that carry it on.
TLC found no violation of `Inv` on the instances of `Calls` before it was proved.

`SyncDeleteProofs` proves `UnlinkSupersedes`, `Spec => []DeleteSupersedes`, and `RowsStayTidy`,
that no two rows of the database or of the refresh's transaction have one id or one path,
from the same assumptions. `DeleteSupersedes` speaks of rows that are QueuedDelete: a write that follows an
unlink sets the row to QueuedUpload and queues an Upload beside the Delete (lines 462-489 look at no state),
and of such a row nothing is said here.

The argument. A QueuedDelete row dooms its file. `Superseded` says of a database that no doomed
file has an upload; a statement that adds neither a row nor an upload beside a doomed row keeps
it (`Tame`), and all statements on existing rows are such. A call that creates a file is the
exception: it adds row and upload under an id it took two steps earlier. So `Safe` says of the
database and of the refresh's transaction that every row's id has been given out (`born`)
and is none of the *reserved* ones, those of calls that have yet to insert
their row, and that no two such calls have the same id (`Apart`). A kill inside a critical section
breaks `Superseded`, and `Torn` records it for ever, so `StoresOK` asks for it only
without `Torn`; that rows have ids and paths of their own (`Tidy`) survives kills, since no
prefix of the statements of a function stores a second row at a path. The invariant that is
proved is `Inv /\ Safe`.

`SyncQueueProofs` proves `StatesHaveWork`, `Spec => []QueueBacked`, from the same assumptions
and on top of `Safe`.

The argument. `Good(d, X)` says that each busy row of a store has an operation of a type its
state asks for, but for the files in X; that no operation is without a row; and that no path
is in the store twice. A function of the program sets a state first and queues the operation after,
so each is handled by its statements with its file in X, and `Backs` takes the file out of X
at the end. Paths must be unique since ensure_remote_row writes `Downloading` by path and the
refresh queues the download by id; that rename_subtree keeps them so is
where its order of updates counts (`RenameSubtreeGood`). The worker sets `Uploading` and
`Downloading` some steps after it read the queue. So `Queued` adds that until
then its operation is there or a deletion has taken its place (`JobQueued`; a file that is gone
does not come back, for its id is not reserved); and what ends a job by its id must not take the last operation
of a busy row: uploads and downloads have set the row to another state by then, a rename or a
refresh backs no state, so each process_function must run on a job of its own type (`JobTyped`).
Dropping the queued upload from apply_local_file_from_staging makes exactly the proof of that
function fail.

`RefreshProofs` proves `RefreshesMirror`, `Spec => RefreshMirrors`, from the same assumptions: for
every tree, page size, order of listing and order of treatment.

The argument. `RefreshInv` says of the server that its tree is finite with one resource per path
(`Tree`), and of the worker how far its refresh is, as long as no other client has changed anything
since (`Still`). `WalkedTo`: what the walk has seen hangs from the root by directories
(`Rooted`); a directory it has seen and does not list any more was listed to the end, and the one
it is in up to its offset. When no directory is left this gives `Whole`, that the walk saw all of
`Rooted`; it is shown by a least counterexample, as the prover has no induction over paths, and that
the pages of a listing leave nothing out rests on `Rank` being an order (`Position`). Then,
from the snapshot to the commit, as long as no row has changed either, `Merged`: each resource
that was treated has a row with its version, each row has a resource or is still to be dropped or is
a conflict copy, and the rows still to be treated are where they were. Rows that step aside must
hit none of these, so the proof cites that ids and paths are used once (`Tidy`), and that
nothing lies below what is not uploaded (`Basis`). That hypothesis of `Undisturbed`
is needed: with a directory stepping aside, the order of the HashMap decides what is left.

`LocalFirstProofs` proves four theorems, from the same assumptions and the hypothesis `EditsApart`,
and a fifth under another. `EditsApart`: programs create and write files and make no other calls, no budget has both their calls and changes
by other clients, and what is above an entry of the tree at the start is a directory of it that has a
row. The paths, threads, trees, faults, kills and refreshes are any.

* `WorldsInvariance`: `Spec => [](Inv /\ Safe /\ RefreshInv /\ Worlds)`, the inductive invariant;
* `LayerIsLocalFirst`: `Spec => ImplementsLocalFirst`;
* `EditsSurvive`: `Spec => EditSurvives`;
* `QuietFilesStored`: `Spec => []QuietMeansStored`.

`Edits` is an instance of the hypothesis. It cannot be dropped: with another client at work,
`DownloadOverEdit` shows a download that writes over an edit; and see under *What a run leaves out* for
renames and unlinks.

The argument. `Worlds` tells the two worlds apart. Where no program has called, there is no
edit. Where no other client has been (`Solo`), nothing gives the worker or a refresh cause to replace bytes.
`Agrees` says why: each row lies below directories of the server, a directory has its resource and each
directory of the server its row, and what is Synced has the version that is there (`RowFits`). So a refresh
finds nothing changed and queues no download; what it drops or moves aside is a row that was
never Synced; and uploads go where their parents exist. The worker, the calls and a
refresh carry rows and metadata from one critical section to the next, and what they carry must still fit when they
use it (`JobFits`, `CallFits`, `SnapFits`); `Carries` is what each statement keeps of
that, and it is transitive like `Follows`. `Owing` says that an edit is `Due`: there is an Upload of
its file other than the one the worker has sent and is about to mark as done, or its row is not
Synced and the upload at that point is not of this file. That is the race of a write with the upload
before it: the upload in flight gave other bytes, its commit says Synced over the newer edit (line 1050),
and the operation it ends must not be the one that the write has queued. Each step then maps to an action of `LocalFirst`, most of them by
four shapes (`ReviewStep`, `LoadStep`, `CommitStep`, `GiveStep`).
TLC found no violation of `Worlds` on three instances of up to 1.3 million states before it was proved.

`QuietMeansStored` needs one thing more, that the bytes of a Synced row are those of its version
(`Contents`). Without another client and a kill, every row that is Synced and cached is `Pinned` to the bytes at its
path, and so is the upload that the worker has sent (line 1044 and on), as long as the file is `Settled`:
no edit of it waits, and no write has replaced the bytes that it has yet to commit. Only two steps create such
a row or such an upload: UploadPut, which puts the cached bytes there, and UploadCommit, whose row is at
the path of what was put. No other statement does (`NoMore`), in the transaction or
outside, because a refresh finds every row at the server's version.

The fifth theorem, `VersionsPinContent`: `Spec => []VersionPinsContent`, is about the other world, in which
other clients put files and remove files and directories as they like (they make no directories in the model) and any number of faults, refreshes and kills happen. It does
not need `EditsApart`. Its hypothesis is `CopiesApart`, about the tree at the start alone. It excludes two things.

* A directory whose row has a cache_path. The calls check the kind (lines 448, 847) and a refresh queues downloads of files only
  (line 1341); a directory gets a cache_path when another client has put it where a cached file was and the refresh
  turns the row (ensure_remote_row, line 1716). Other clients make no directories in this model, so the start has none
  of theirs either.
* A cached file `x` beside a directory with a name that a conflict copy of `x` may get (`x` with a greater number
  behind it), when that directory holds cached files itself. Such a directory with anything else
  in it, known or unknown, is allowed, and so is any other tree.

The code does not rule the second layout out; there the theorem says
nothing. The proof needs the exclusion: when a paged listing misses the directory, its row is dropped, the copy of `x`
may be given its name, other copies can then come to lie below a copy and move along with it, and a row
that moves meets at its new path the resource of another file. TLC found no violation of the property
on a tree with such a directory.

The argument. `Unattended` says that without calls and torn critical sections `Versions` holds. `Ground`: all threads
are idle, and no version is above the clock, so that what another client puts has a version no row has. `RowsFit`: only
files at the paths of those cached at the start (`OwnPath`), and copies beside them (`CachePath`), have bytes or work to do, and only
copies are uploaded. And the heart, `BytesKnown`: a row that is no copy, has not failed and
has no download queued has the bytes of every resource with its path and its version that is `Known`. These are
not only what the server has now, but also what the walk has seen, which reconcile_remote_tree merges
after other clients have replaced it. A download carries the bytes it got from the server to a commit several
steps later, and `Employed` says that they still are those of the version that the commit records. During the merge,
`Refreshing` says of each cached row that is no copy that it is where it was listed, at the version it had or with
a download to come (`InPlace`), and that those still to be treated are there (`Waiting`). What ends a
job by its id must leave its row settled: in retry_or_fail it is `Error`, or the download waits again, and between the two
statements neither is so, which is why `Torn` is excepted.
TLC found no violation of `Unattended` on the instance of `Edits`. It did find violations of
two earlier forms of the property, by larger bounds than those had been checked with: the uploads of copies and the
bytes removed before the commit, which are described under *What a run leaves out*.

`StatusProofs` proves two theorems about `StatusSpec`, from the same assumptions:

* `FeedInvariance`: the inductive invariant `FeedInv`;
* `ShownIsCurrent`: `StatusSpec => []FeedCurrent`.

The argument. `RoundKept`: with no new version, what the round under way has announced is what
there is. So each step of the sync layer either bumps, or changes no row: a call that returns with an
error has changed nothing, a rename excepted (`FailedCallQuiet`), nor has a step of the worker between
two critical sections.

`DaemonProofs` proves six theorems about the `Spec` of `DaemonLifecycle`, for any numbers of
callback requests, token users, logins, refreshes, failures, kills and restarts, under
`AuthAssumption` (budgets are budgets, and no thread is both a callback request and a token
user) and `LifecycleAssumption` (the channel has room for an event, the worker is a token user):

* `DaemonInvariance`: `Spec => []Inv`, the inductive invariant;
* `DaemonTypes`, `TokensStayUsable`, `TokensUsedOnce`, `OrderlyExit`: `TypeOK`, `TokensUsable`,
  `NoTokenReuse` and `CleanExit` in every reachable state;
* `LoginsLast`: `Spec => StaysLoggedIn`.

The argument. `TokensUsable` says what the server takes of memory and of the
Secret Service, and is not inductive: a login installs tokens that it saved some steps earlier,
without the mutex, and a refresh replaces what it read some steps earlier. So `Inv` adds
which set is whose. A user in a refresh holds the mutex, alone (`Roles`), and the set it presents
is the one in memory (`RefreshOfMemory`), so nobody else uses that set up; the set of a login is
honoured and nobody else has it before it is installed (`LoginsApart`), so no refresh
uses that one up; numbers of sets are below the counter (`Numbered`), so a new set
is none of the old ones; and what is in memory was saved before (`Saved`), so a restart finds
tokens. For `CleanExit`, `Quiet` says at each step of the shutdown which threads can still be in a call:
the join of the session waits until no FUSE thread is in a request, and none begins one
afterwards, since there is no session; the worker's thread ends at the top of its loop, where it is in
no operation, and the join waits for that. A session that could not be unmounted is not joined, and its threads go
on until the process ends: that is exit code 1, of which `CleanExit` speaks for the worker only. TLC found no violation of `Inv` on the instance of `Daemon` before it was proved.

`FuseProofs` proves five theorems about the `Spec` of `FuseHandles`, for any threads, letters,
names, trees and budgets that satisfy `HandlesAssumption` (the tree at the start is finite, with one
row per path, names are made of letters, of which `/` is none, and `Alike` relates letters) and
`TreeAssumption` (what is above a row of it is a directory of it):

* `HandlesInvariance`: `Spec => []Inv`, the inductive invariant of the inode table;
* `LookupsResolve`: `Spec => []PathsResolve`;
* `HandlesTyped`: `Spec => []TypeOK`;
* `HandlesSteady`: `Spec => [](TInv /\ Keep)`, the inductive invariant of the handles;
* `ClosesKeep`: `Spec => CloseKeeps`.

The argument. Each operation of the table (`Stale`, `Resized`, `Removed`, `Updated`, `Upserted`,
`Replaced`, `Moved`) has a lemma that it takes a sound table to a sound one. `PathsResolve` alone
is not enough for `Upserted`: a fresh inode must not be one that is in use, so
`Sound` says that next_ino is above all of them; and that as many fresh inodes exist as there are
new paths (`NumbersExist`) needs that a listing is finite, also while a request carries it from one
critical section to the next (`Local`). `Removed` and `Moved` keep the table sound whatever
`Subtree` computes, which is why the recursion in it needs no induction: a subtree
collected too small leaves inodes with old paths behind, and path_to_ino still agrees with them.

`CloseKeeps` is about one step, and what it needs has been prepared by many. `TInv` adds to `Inv`
the types (`Typed`: what a request carries from one critical section to the next depends on where it
is) and that a release or a truncation by path is alone on its handle (`Alone`), since it would
take the handle from under the others. `Keep` says of a steady handle that it has a row which no
other handle shares (`Owns`); that it is dirty, or its bytes are those of the row, or a write is on its
way that will make it dirty, and that a request about to close it comes after a commit with no write since
(`Current`); and that it has the path of the row, or that the one rename that has moved the row
(`Moving`) will give it that path (`Placed`). Two facts about all rows carry it: no two have one
path (`PathsOnce`: RenameRow moves what is below a path in any order that the clashes
allow), and a rename tells only handles that exist (`Historic`). Paths are strings here, so that `InPlace`, which
cuts the old path off and puts the new one before the rest, is the move of the subtree rests on the
lemmas about prefixes (`UnderPrefix` and those after it).
TLC found no violation of `TInv` and `Keep` on the instance of `Handles` before they were proved.

Only model-checked, for good: the liveness
properties (`EventuallySynced`, `EventuallyShown`, `LoginAnnounced`, `ShutdownEnds`), which are beyond the prover.
Every other property of a passing run is stated by a theorem.

## Not modelled

* In `fs.rs`: the read path beyond its refresh of the entry, truncation to another size
  than none, times and attributes, the encoding of errors.
* `dbus_service.rs`: how answers are encoded, and a session bus that fails (last_seen is
  set before the announcements, so a failed one is not repeated). sync_status and
  list_directory_statuses, which read rows and change nothing.
* `yadisk.rs`: HTTP and JSON beyond the paging of list_directory; its contract is `RemoteDisk`. Its answer to 401 is the
  refresh of `AuthManager`.
* `secrets.rs` beyond load and save of one item, and the command line: no state.
* QueueOpType RefreshDir, Move and Copy are never queued by the code.

## Plan

In the order in which it was built; the core came first since every other part only feeds it.

1. *Done*: the store, the local API, the worker, the refresh, their composition,
   their properties and the first theorems.
2. *Done*: `AuthManager` and `DaemonLifecycle`, composed.
3. *Done*: `FuseHandles`, with directories.
4. *Done*: paged listings, and what a refresh leaves (`RefreshMirrors`).
5. *Done*: `LocalFirst` and the refinement mapping from the sync layer.
6. *Done*: `StatusFeed`, composed with the sync layer.
7. *Done*: `LIKE` in rename_subtree.
8. *Done*: theorems about `DaemonLifecycle` and about the table of `FuseHandles`.
9. *Done*: proofs of `DeleteSupersedes` and `QueueBacked`, from the freshness of ids.
10. *Done*: proofs of `RefreshMirrors`, `FeedCurrent` and `CloseKeeps`.
11. *Done*: proofs of `EditSurvives` and of the refinement of `LocalFirst`, for the worlds of `Edits`.
12. *Done*: the proof of `QuietMeansStored`, for the same worlds.
13. *Done*: the proof of `VersionPinsContent`, for the world without calls.
14. *Done*: the shutdown step by step in `DaemonLifecycle`, `LIKE` and the staging file's failures in `FuseHandles`.
