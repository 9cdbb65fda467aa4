# A verification model of the code analysis server

The server (`code_analysis/`) keeps a database of the projects found under its
watch directories. Many processes and threads work on the same rows and the same
files: the commands of the clients run on a pool of threads, a file watcher, an
indexing worker and a vectorization worker run as processes of their own, and a
reaper thread clears away the sessions of clients that went silent. What keeps
them apart is a collection of locks and leases in database tables and on the
disk. This project models those: who may hold what, what survives a crash or a
late answer, and what the workers may rely on.

Paths below are relative to `code_analysis/`.

## Inventory

| Part | State | Operations | What is hard | What makes it correct |
|---|---|---|---|---|
| Client sessions, `core/client_sessions.py` | tables `client_sessions`, `session_file_locks` | create, touch, open, close, delete with and without force | each command is a series of autocommitted statements on a pool of threads | one holder per file; nothing outlives its session |
| Subordinate sessions, `core/subordinate_sessions.py` | links between a session and a server | create, delete, cascade | links made for a session that is being deleted | links belong to sessions |
| Session reaper, `core/session_lock_reaper.py` | none of its own | lists stale sessions, deletes each | its list ages while it works | live sessions are spared, dead ones go |
| Runtime lock sessions and advisory leases, `core/runtime_lock_sessions.py` | `runtime_lock_sessions`, counted leases | ensure, acquire, release, force release | read then write of the count | an open file is leased, a lease has a session |
| Sidecar file lock, `core/file_lock.py` | `<path>.lock`, flocks, a registry of persistent locks per process | lock, persistent lock, release | the name is unlinked while others wait on its inode; handles are shared and reused | mutual exclusion; an unreleased handle has its flock |
| Transfer locks, `core/transfer_lock_registry.py` | handle per running transfer | register, release from a hook | several transfers, one handle | the lock lasts as long as the transfer |
| Project activity lease, `core/worker_project_activity.py` | one row per project with owner and `lease_until` | acquire, heartbeat, release | the clock is read before the statement runs; expiry under a live owner | valid leases exclude each other |
| Project exclusive lock, `core/project_exclusive_lock.py` | one row per locked project | acquire, release, test | tested in another statement than the lease is taken in | workers leave a locked project alone |
| File watcher, `core/file_watcher_pkg/` | cached signatures, `files` | scan, build a manifest, bulk sync | the disk changes between walk, read and submit; syncs fail or are refused | no change is lost |
| Indexing worker, `core/indexing_worker_pkg/`, `commands/update_indexes_analyzer.py` | entities, `needs_chunking` | select flagged files, parse, write, clear the flag | the text is older than the flag by the time it is cleared | what is cleared was indexed |
| Vectorization worker, `core/vectorization_worker_pkg/` | `code_chunks`, `needs_chunking` | select, chunk, clear | shares the flag with the indexer but not the lease | chunks of the present text |
| Project rename and root resolution, `rename_project.py`, `core/project_root_path.py`, `core/database_driver_pkg/domain/projects.py` | `projects.root_path`, the directory | move, update, resync, relocate, emergency unlock | disk and table change separately; whoever reads a project may write its root, and looks at no lock | one rename at a time, a half-done one stays locked, the root path heals |
| Startup reconciliation and initialisation of the watch directories, `core/file_watcher_pkg/startup_reconciliation.py`, `multi_project_worker_init.py` | none of its own | discover, purge, mark missing files, relocate, insert | the listing is old when it is acted on | a project that exists comes back |
| Search sessions, `core/search_session/`, `commands/search_*.py` | a directory of files per search: manifest, index, blocks, buffer | buffer findings, assemble blocks, read, cancel, close, sweep | several writers share nothing but files; a directory that was removed comes back with the next write | each finding on one page, a finished index lists them all, no directory stays |
| PostgreSQL pool, `core/database_driver_pkg/drivers/postgres_connection_pool.py`, `postgres.py` | slots, cached connections, waiters | acquire, connect, release, close, reconnect | connecting outside the lock, close meanwhile, overlapping reconnects | a slot has one user, no waiter is forgotten, no connection leaks |
| PostgreSQL transactions, `postgres_transactions.py` | open transactions and their connections | begin, execute, commit, roll back, reap, close | the reaper ends what its owner uses; the answer of a commit is lost | a write is applied once, whole, or reported as failed |
| Worker lifecycle, `core/worker_lifecycle.py`, `worker_registry.py`, `worker_monitor.py` | pid files, registry | start, stop, restart | check and then start | one worker of a type |
| Edit sessions, `core/edit_session/`, universal file commands | working copies, checksums | open, change, write back | the file changed meanwhile | no foreign change is overwritten |
| Everything else (trees, FAISS, git, backups, analysis, configuration, client) | mostly none that is shared | sequential | | |

How the parts interact: a command touches its client session, locks a file for
it (`session_file_locks`), and takes an advisory lease in the name of a *client
lock session*; the watcher reads these leases and leaves the files alone. A
writer of the file takes the sidecar lock. The watcher and the indexer take the
project activity lease; `rename_project` takes the exclusive lock over both. The
watcher hands files to the indexer, and the indexer to the vectorizer, through
the one column `needs_chunking`. `PROJECT.json` lists every component with its
status and every hazard with its line.

## The modules

### ClientSessions

`ClientSessions.tla` has the tables as sets (`clientSessions`, `fileLocks`,
`subordinates`, `runtimeSessions`) and a function (`leases`), a program counter
and a `job` per thread. Every SQL statement is an action: the server opens no
transaction around them (`create_client_session` begins one, but its statements
are executed without its id). `DelGet` ... `DelSession` are the statements of
`delete_client_session` in their order; `job[t].seen` is what its counts found;
a reaper is a thread that runs the same statements for every session of a list it
read at its start. Foreign keys are part of the statements: `OpenInsert` does
not insert for a session that is gone, `DelSession` cascades. `RelativePath` is the lookup
of the file between the session lock and the advisory lease: without an index row the open
ends there, successfully, with a lock and no lease (`client_sessions.py:602`), so "a locked file is
leased" is not a property of the code. `raced` is a history variable: the files for which two
opens have been between their SELECT and their INSERT at the same time.

### FileLock

`FileLock.tla` is about one file. `link` is the inode the name `<path>.lock` has,
`hd` the handle objects with the inode and the flock of their open file,
`registry` is `_persistent_locks` and `entries` the transfer registry. The kernel
is modelled from its use: opening a name that is not linked makes an inode, a
flock belongs to an open file, and a dead process has none. A handle nobody
refers to any more is collected and its file closed, as CPython does. A polling
wait for the flock is one state with two ways out, `Flock` and `Timeout`.

### Lease, ProjectActivity

`Lease.tla` is the abstract specification: the project belongs to one owner or
nobody and changes hands through nobody. `ProjectActivity.tla` has the row with
its owner and expiry, and every call as two steps: read the clock (and the
exclusive lock), execute the statement. Time is relative to now, so the clock
needs no bound: `row.left` is what is left of the lease, `age` how old the
reading of a running call is. `promised` is a history variable: what the owner
believes is left of its lease. The lease refines `Lease` by
`LeaseHolder == IF the row has not run out THEN its owner ELSE None`.

### FilePipeline

`FilePipeline.tla` follows files from the disk to the tables. A write gives a file
the next stamp, which stands for its text and its mtime. The watcher is a chain of
steps: walk (`snap`), manifest (`man`, read later than the walk), lease and locked
paths (`lk`), bulk sync. The indexer reads, touches the row, writes the entities,
marks the file for chunking and clears the flag, each a statement of its own. The
vectorizer reads and writes. The lease is one variable here with its expiry as a
step; `ProjectActivity` is the detailed version of it. The flag remembers who
cleared it, which the code does not.

`missed` is a history variable: the last sync failed or was refused, left a locked
or edited file out, could not read a file, or ran while the indexer was at work;
or a file has been moved since. All of these are cases in which the code records a
signature for a tree that the table does not show, see below.

### Lending, ConnectionPool

`Lending.tla` is the abstract specification: things are lent to one borrower at
a time and come back. `ConnectionPool.tla` is one lane of
`PostgreSQLConnectionPool` and the driver that replaces the pool after a lost
connection. A section under the pool's condition variable is one action; connecting
and executing are outside it. A call is at `acquire`, `wait`, `connect` (it has a
slot and no connection), `install` (connected, not yet stored), `use`, or in the
steps of `_reconnect_main`, which hold no lock: two threads may be in them together.
`job[t].p` is the pool a call holds a reference to, which need not be the
driver's present one. `execute` keeps that pool across its retry, `select` looks it
up again. Connection and pool objects are free again when nothing refers to them.
Slots of pools that are not closed refine `Lending`.

### Transactions

`Transactions.tla` has the table `registered`, a connection with its uncommitted rows
(`work`), row locks as the server keeps them, and per thread a call: a logical write
(`execute_logical_write_operation`: begin, one batch after the other, commit, and again
after a transient error), or a command that does the same by itself and may never come
back (`Abandon`). The reaper and `close_all` take one transaction after another out of
the table, the reaper the oldest first (`older`), and roll it back on a connection its owner may be using: psycopg lets one
call at a time onto a connection, so `TearDown` waits while the owner's statement
waits for a row (`Busy`). `stored` counts what has been committed, `result` is what the
caller has been told; `Committed` and `CommitFails` are the two answers, and the
latter may come although the server has committed. A begin that is under way during a
disconnect registers in the manager that was dropped (`table = "dropped"`): nobody
finds it there, and its connection closes when it is collected.

### SearchSession

`SearchSession.tla` is one paginated search. The thread of the search runs the tasks of
its event loop (`pc["search"]`); the grep worker is a second thread (`pc["worker"]`)
that appends findings and publishes blocks by itself. What a run of the assembler has
read is in `job`; each access to a file that others can change is a step. `RemoveAll`
is both the cleaner's rename and the removal by the search's own thread, and
`MakeBuffer` and `root' = TRUE` are the directories that a later write makes again.
`phases` is what the request enables: every combination, the default one (both) among them.
`wait_for` may give up on the grep worker at any time; the worker goes on, as a thread does. A
client reads pages, cancels and closes; a page changes nothing but the time of the last
access. Sizes are counted in findings: a block is due at `Full` and takes one at least and
`Page` at most. A directory listing is read at once, with its volume. Buffer, pages and index
are sets: `list_findings` sorts by a modification time that several files may share, so which
findings a block takes, and in which order they enter the buffer, is left open.

The assembler is right for one source at a time, and the server does not keep its sources
apart. `crossed` is the history variable for that: it turns true at the step at which both
threads are inside the assembler or its appends, or a semantic answer comes after the index
was finished (`Crossing`). What the assembler promises is stated, checked and proved for as long as
it is false, for every request; that it becomes true in ordinary requests, and what that costs,
is the finding of `search_parallel`. That the search ends and its directory goes does not depend
on it.

### ProjectRename

`ProjectRename.tla` is one project: where its directory is (`disk`), where its row says
it is (`row`, None without a row), and whether the table shows all of its files (`files`). Four
parties write the row.

* A call of `rename_project` goes from the gate of `BaseMCPCommand.run` through
  `_resolve_project_root` (`Resolve` reads the row, `Check` looks at the lock, `Look` at the
  directory) to the insert of the lock row, the test of the target, `os.rename`, the update and
  the release; every return in between leaves the lock, as the code means it to.
  `StatementFails` and `ServerDies` break it off anywhere; the statement may have been executed.
* The resync of `core/project_root_path.py`: whoever resolves the root of a project and does not
  find the directory searches for its `projectid` and points the row at it, without a look at
  the lock. The search is one step and the update another. `Resync` is that of a rename itself,
  `Search` and `ResyncRow` that of the watcher, `ReaderFinds` and `ReaderResyncs` that of everybody
  else (`get_project`, `list_projects`, every other command).
* The watcher, every cycle: `initialize_watch_dirs` discovers, reads the project, *then* looks at
  the lock, and relocates or inserts; `scan_watch_dir` discovers again, looks at the lock and
  takes the lease first, then reads and relocates or inserts. `phase` says which of
  the two a step belongs to; they share the steps of the discovery and of `get_project`.
* The watcher, once after its start: `run_startup_reconciliation` deletes a project that it has
  not discovered (`PurgeOrphan`; the lock row is not in the cascade) and else marks the files
  that are missing under its root (`MarkMissing`).

After the registration `scan_watch_dir` lists the directory again, walks what is still there
(`Walk`, one step here: `FilePipeline` has its parts), and purges what was discovered and not
visited (`Supplement`, `FilesOfRow`, `Purge`). Between any two steps the directory may move, so a
walk may find a part of the tree (`Remains`). A scan that finds the project nowhere goes on,
since the watch directory has other projects. The contents of the project do not change. `forced`
and `late` are history variables: an unlock was forced; a root was written that the directory had
left.

## The runs

| Run | Instance | What it shows |
|---|---|---|
| `sessions_pool` | 2 command threads, one for create, touch and open, one for close, delete, link and unlink, and the reaper; 1 session, 1 failure or restart, fair reaper | `NothingOutlivesItsSession` with overlapping commands and a command broken off anywhere; `DeadSessionsAreReaped` |
| `filelock_two_processes` | 2 processes, 3 threads, 1 death, persistent locks and a transfer | an unreleased handle has its flock on an inode it shares with nobody; no stale sidecar remains without a death; the registry lookup stays true inside the guard, which is left again and again; a released handle gives its flock back |
| `filelock_two_holders` (violation) | 2 processes | both are inside `file_lock` |
| `project_activity` | a watcher and an indexer, statements up to 2 ticks late, 1 fault, 1 death | `ValidLeasesExclude`, `ImplementsLease`, `DeadOwnersLeaseIsTaken`, `LockedProjectDrains` |
| `pipeline` | 2 files, 2 edits, 1 of them lockable and editable, and one of: move, fault, expiry, restart | `SkippedScanIsSafe`, `IndexerClearsWhatItIndexed` |
| `pipeline_progress` | 2 files, 2 edits (the second text does not parse), 1 fault | `ChangeIsRecordedOrMissed` |
| `pool` | 2 threads, 1 slot, 3 connections and pools, 2 faults | one user per connection, no forgotten waiter, no connection leaks, the slots refine `Lending`, every call returns |
| `transactions` | a logical write and a command over 2 rows in opposite orders, no lock timeout, 2 attempts, 1 fault | writes are atomic and applied once, success means committed, no connection gets lost; none stays for ever and the write returns, unless a statement waits for a row of an orphan |
| `transactions_orphan` (violation) | the same | an abandoned transaction is never reaped |
| `search` | every combination of backends, 3 findings, up to 2 interferences, a grep timeout, the cleaner at any time | until its sources cross: pages are immutable, disjoint and readable, a finished index is complete, a completed search has one; always: the search ends, its directory goes |
| `search_parallel` (violation) | semantic and grep together, the default request, no interference | grep ends first and finishes the index over the slower source |
| `project_rename` | 2 renames over 3 names, readers, the watcher with its start, 1 of: failing statement, death, removed directory; unlocks at any time | renames exclude each other, a half-done one stays locked, the row finds the directory again, locked or not |

### Bounds

*Sessions.* Two threads are what a race takes; each is given half of the commands, because an
overlap of an insert with a delete is what the checked property can break on. The clock has two values,
so a session can go stale, be listed and be touched. `MaxRef` is 2, so a lease is counted up and
found again. `MaxFaults` is one failing statement or restart, at any point. What needs two
sessions is proved for any number (`SecondHolder`) or refuted, see below.

*FileLock.* Three inodes are an old one, the one a waiter made and the next;
`Open` needs a free one, and inodes and handles are free again when nothing refers
to them. Two processes are needed for every race over the name; the third thread
shares its process with the first, for the registry. Two handles are one held and one
waiting: a thread that finds none waits at its `open`.

*ProjectActivity.* Late statements can outlast the shorter lease, so a heartbeat can meet
a takeover. Expired leases need no distinction below `Floor`: a lease is only compared with `-age`.

*FilePipeline.* Two edits: one that is under way through the pipeline and one
that comes in between. Two files are what a signature can confuse. `Mishaps`
bounds moves, faults, expiries and restarts together, so that each is explored at
every point of a full run of all three workers. Removals are bounded by the edits.

*ConnectionPool.* One slot and two threads make a waiter; three pools are the one a
call still holds, the one it replaces and the one another thread opens. Two faults
let two reconnects overlap. `policy.attempts` is not counted: the faults bound the retries.

*Transactions.* Two rows written in opposite orders deadlock; two attempts are a
first one and a retry; a third connection is never needed by two threads. The fault is
one of: failing statement, lost connection, lost answer, abandoned command, disconnect. There is
no lock timeout: the default configuration has none (`postgres.py:265`).

*SearchSession.* One finding per backend: three together. With `Full = 2` and `Page = 1` a block
leaves something in the buffer and a flush may publish nothing, one block or two. `MaxEvents` counts
the interferences (cancel, close, page read, restart, the grep timeout, and the two timeouts of the
session while the search is at work) per kind of request: two with at most the semantic backend, so the
pairs that matter meet, such as close and expiry, or cancel and close; one with grep; none with both
threads at work, where the two sources interfere enough with each other. The sweep is not counted.

*ProjectRename.* Three names, so that a root discovered before a rename is neither the
present name nor necessarily the next one. Two renames meet at the lock, and one after the
other leave an old scan two names behind. The one fault may come together with any number of forced
unlocks, reads and cycles, none of which is counted. One reader is enough: what it writes depends on
nothing but what it has found.

### Fairness

* The reaper's loop is `while True` in a thread of its own (`asyncio.to_thread`):
  weak fairness of its steps. Nothing is assumed of clients.
* A call on a file lock that has begun goes on, because every wait in it has a
  deadline (`timeout` in the polling loop). Nothing is assumed of what a caller
  does with a lock it has.
* The clock runs (`Tick`); a worker that is alive polls. `EndWork` is strongly
  fair: a batch has a limit, and heartbeats in between do not make it longer.
* `FilePipeline`: each worker goes on with a turn it has begun (weak fairness),
  and gets the lease at some time if it is free again and again (strong fairness
  of `WatchGate` and `IndexStart`): both poll with periods of their own, and
  the lease is free between turns. Users of the disk, faults and restarts have no
  fairness.
* `ConnectionPool`: a call that has begun goes on, and a waiter's deadline passes.
* `Transactions`: the driver's own threads, the reaper's loop and `close_all` go on, a
  transaction gets old. A command (`Commands`) need not go on: it
  may keep its transaction open for ever, which is what the reaper is for. `Open`
  is strongly fair because `Conn` is finite, unlike psycopg's connections.
* `SearchSession`: the threads and a command that has begun go on; the cleaner sweeps
  again and again; the heartbeat gets stale and the session idle when nobody comes back.
* `ProjectRename`: a command that has begun goes on, and so does the watcher's loop. Nobody has
  to unlock anything or to read the project.

## The proofs

TLAPS checks these for every value of the constants:

* `ClientSessionsProofs`: `TypeCorrect` (`Spec => []TypeOK`). The inductive
  invariant `IInv` is `Tables /\ Control`; `Control` says of each thread that its
  `job` has the arguments which the statement it is at will use (`JobOK`),
  without which no table keeps its type. `ForeignKeysHold`
  (`NothingOutlivesItsSession`) follows from `IInv` with one lemma per group of
  statements. `SecondHolder` (`SecondHolderNeedsOverlap`) is what is true of
  exclusion, for any number of threads: a file has two holders only if two opens of it were
  between their SELECT and their INSERT at once. `NoHolderYet` says that otherwise what
  a thread has seen before its INSERT is still so, and a step that inserts no lock can only make
  it truer (`Harmless`): deletes, sweeps, failing statements and restarts are harmless.
* `ProjectActivityProofs`: `TypeCorrect`, `LeasesExclude`
  (`ValidLeasesExclude`) and `Implementation` (`ImplementsLease`). The
  inductive invariant is `TypeOK /\ Backed /\ PromisesAreBounded`. `Backed` ties
  the beliefs to the table: an owner that works and whose promise has not run out
  owns the row, and the row runs at least as long as promised. It is needed because
  `ValidLeasesExclude` says nothing about the row, and the row alone decides whether
  another owner's statement succeeds. `PromisesAreBounded` says that a call under
  way can only renew a lease, never shorten one it has been promised, since it
  read the clock after that lease was given. The heart is the lemma
  `TakingSparesHolders`: a statement takes the row of another owner only when its
  lease ended before the clock was read, so nobody relies on it any more. The
  refinement (`Implementation`) goes step by step; the one case to think about is
  `TakingGrants`, a take-over, which starts from an expired row or none.

* `ConnectionPoolProofs`: `TypeCorrect`, `OneUser` (`ConnectionHasOneUser`), `SlotsComeBack`
  (a claimed slot has a call that will give it back), `WaitersAreWoken` (`NoForgottenWaiter`) and `ConnectionsAreOwned`
  (`OpenConnectionsAreOwned`). The inductive invariant adds `Lent`: a claimed slot has one
  user, a connection is cached in one slot, and what a call holds is what its slot
  caches as long as the pool is not closed. Without the last part `Install` could store a
  connection over another one. `GiveBackStep`, `OpenPoolStep` and `ClosePoolStep` are the
  lemmas that the actions share.
  `SlotsAreLentProperly` (`SlotsAreLent`) is the refinement of `Lending`. A slot's borrower
  is the one call that uses it (`TheUser`, which `Lent` makes unique); claiming lends, a call
  that leaves returns, closing a pool ends what it lent and opening one renews it
  (`ClaimLends`, `LeavingReturns`, `ClosePoolCloses`, `OpenPoolRenews`), and every other step
  stutters (`UnseenStep`).
* `FileLockProofs`: `TypeCorrect`, `UnreleasedIsLocked` (`UnreleasedHandleHasItsFlock`),
  `LookupHolds` (`LookupStaysTrue`) and `SidecarGoes` (`NoSidecarLeftBehind`), one part of the
  invariant for each. `Flocks`: no two handles have incompatible flocks on one inode, a handle's state fits the step of the thread that has it (`StepsAgree`), a handle just made is
  nobody else's (`FreshIsSole`), and a thread that has an unreleased handle of its own making
  has locked it (`OwnedIsLocked`). `Guarded`: a thread between its lookup and its store is inside
  `_persistent_guard`, and since a handle never loses its flag (`FlagsStay`), what it found
  released stays released. `Tidy`: as long as no process has died, the name of the sidecar
  exists only while some thread or registry has a handle that will unlink it (`FilesAreKept`,
  `NameIsKept`). None of them needs an assumption about who wins the name,
  which is the point: mutual exclusion of *paths* fails, exclusion of *inodes* does not.
* `TransactionsProofs`: `TypeCorrect`, `Atomic` (`EffectIsAtomic`), `NoRepeat`
  (`NeverAppliedTwice`), `SuccessIsTrue` (`SuccessMeansCommitted`), `NothingLeaks`
  (`ConnectionsAreAccountedFor`) and `OneTeardown` (no connection is torn down twice). The inductive invariant is
  about ownership: `InOnePlace` says a connection is in the table, with its caller on the way
  in or out, or with one sweeper, and in only one of these (`OneOwner`); `CallOK` and
  `WorkOK` tie the uncommitted rows of a connection to how far its call has come, which is
  what makes a commit whole. The rows of a call that was torn down are gone with its
  connection, so a batch that arrives later finds no transaction and the call fails.
* `ProjectRenameProofs`: `OneInside` (`OneRenameInside`), `HalfDone` (`HalfDoneStaysLocked`) and
  `OwnMove`: a rename that updates the row writes where the directory is, not where it was before
  somebody else's rename. `OneRenameInside` is inductive with the types. The others need it, and
  `WorkDone`: between move and release a command finds the directory where it has put it, because
  the one inside is the only one that moves it, and at its release the row as well, unless a late
  root was written over it. Everybody else who writes the row, with or without the lock, does so
  through `Written`, and `SafeWrite` is the one lemma about that: what is written is where the
  directory is, or it is on record in `late`.
* `FilePipelineProofs`: `TypeCorrect`, `ClearedIsIndexed` (`IndexerClearsWhatItIndexed`) and
  `SkippingIsSafe` (`SkippedScanIsSafe`). `Typed` is `TypeOK` with two facts about the
  programs: a vectorizer at work has a row, and there is no manifest before the watcher
  builds one. `ClearedIsIndexed` speaks of times without expiries and moves (`Calm`), and
  needs that the lease is kept (`LeasesHeld`), that no stamp is newer than the last edit (`Past`)
  so that texts only grow newer (`Growing`), and what the indexer has read and written at
  each of its steps (`Reading`, `Written`): the text that a row ends up with is never older
  than its checksum. `SkippingIsSafe` rests on one fact about signatures
  (`SignatureTells`): a tree that has changed by edits and removals only, never by a move
  (`After`), is the same tree when it has the same count of files and the same newest mtime. So a
  signature on record stands for one tree, and `Rest` says that the table shows that tree
  (`Walked`) as long as no sync has missed anything. A sync that misses nothing makes
  this true (`WholeSync`), `Turn` carries it from the walk to the sync, and without `missed` the
  workers neither add nor remove rows (`WorkersMakeNoRows`).

* `SearchSessionProofs`: `FindingsArePublishedOnce` (`PublishedOnce`),
  `FinishedIndexIsComplete` (`FinishedIsComplete`), `CompletedSearchIsFinished`
  (`CompletedIsFinished`), `ListedBlocksAreReadable`, `SearchIsLostWithReason`
  (`NotLostWithoutReason`) and `PublishedPagesAreImmutable` (`PagesAreImmutable`), for any
  findings, sizes and interferences, every request and grep timeouts at any time. The inductive
  invariant is `Guarded`: the sources have crossed, or `IInv` holds; each step from a state that has not crossed either keeps `IInv` or is recorded in
  `crossed`. So the hypothesis is in the properties and not on the constants: it is lost at one
  step of a behaviour, not for a kind of request.
  `Turns` says that the two threads never assemble at the same time; `Tasks` who
  waits for what. `Fresh`: what is still to be appended has not been found before. `InHand` and
  `Unpublished`: a finding is in the buffer and on a page at once only while it is on the list of
  an agent between the block and `remove_findings`. `Contiguous`: the positions have no gap, so
  the next one is free; that there is a next one at all (`FreePosition`) is the pigeonhole
  principle, because pages are disjoint and not empty. `Purged` is the life after the cleaner:
  one stray block at most gets into the directory that a late write makes again. `Finishing` and
  `Listing` give completeness: a finished index has an empty buffer, and what has been found is in
  the buffer, on a listed page, or thrown away by a close. `Undisturbed` says which files are
  there as long as the cleaner has kept away, which is why a search that fails without a cleaner
  has met a close. Every branch that fails is an instance of `Fails` (`StageFails` and the
  lemmas after it), and `FailKeeps` deals with all of them.

The assumptions are the named `ASSUME`s of the modules: bounds are natural
numbers, there are finitely many files, a TTL is positive, `None` is not a value of the types it is added to,
programs are sequences of rows. Every run evaluates them on its instance.

Model-checked only: liveness, since TLAPS has no proof for fairness and `ENABLED`. Every
safety property and every action property of a passing run is proved, without a hypothesis on
the constants beyond these assumptions. No module declares a RECURSIVE operator.

## Where the code and its documentation disagree

With a run that shows it (`findings` in `PROJECT.json`):

1. `core/file_lock.py:291`: two processes can be inside `file_lock`.
2. `commands/search_paginated_cross.py:1036`: the index of a search is finished while a
   source is still to answer; the search is then lost when that source's findings
   come, because the buffer is gone and the thread removes the session.
3. `core/database_driver_pkg/drivers/postgres_transactions.py:249`: the reaper rolls back over
   psycopg's connection lock, the oldest transaction first. With the default configuration
   (`postgres.py:265`, no lock or statement timeout) it may wait for a statement that waits for a
   row of an orphan later in its own list, and the orphan stays, although `postgres.py:333` says
   it cannot (`OrphansAreReaped`).

Met while modelling, without a run of their own:

* `core/client_sessions.py:504`: two command threads can lock one file for two
  sessions (`SingleHolder`, refuted with two sessions).
* `core/session_lock_reaper.py:271`: a session touched after it was listed is reaped,
  although :234 says the sweep does not release a live one (`ReaperSparesLive`).
* `commands/project_file_transfer_by_id_commands.py:835`: a download can lose its lock to
  another one of the same session (`TransferKeepsItsLock`, with two transfers).
* `core/file_watcher_pkg/multi_project_worker_scan.py:856`: the signature is recorded after
  a sync that was refused or failed, although :854 says "Record only after a successful
  bulk queue" (`ChangeIsRecorded`, with two edits).
* `core/client_sessions.py:451`: a forced delete releases the leases only when
  its old count found some, so a lease can outlive its session
  (`core/session_lock_reaper.py:17` says what that leads to). `NoOrphanLease` in
  `ClientSessions` states it; TLC refutes it.
* `core/client_sessions.py:206`: the inserts of `create_client_session` are
  not one transaction, although its docstring (:191) says so
  (`CreateIsAllOrNothing`).
* `core/client_sessions.py:454`: a plain delete cascades over a lock taken after its count
  (`PlainDeleteKeepsLocks`). A close and an open of one session can leave a file locked without a
  lease (`:538`), which an open without an index row does anyway.
* `core/file_lock.py:334`: the persistent lock of a second session in the same
  process is a reused handle without a flock; it stays in the registry when the
  first is released, and the process then writes without a lock, although :185 says
  it "writes under the held lock" (`RegistryBacked`, refuted with two sessions).
* `core/file_watcher_pkg/processor_queue.py:711`: an empty manifest is synced
  without the lease; the indexer can re-insert the row of a file that has just
  been purged, and the recorded signature of the empty tree keeps it there.
* `core/file_watcher_pkg/watcher_disk_manifest.py:130`: a rename keeps count,
  newest mtime and total size, so it is not noticed until something else changes.
* `core/file_watcher_pkg/watcher_bulk_sync.py:234` and `:271`: a locked or edited
  file is left out of the sync, but the signature is recorded; nothing looks at
  the file again until the tree changes. The same goes for a file that could not be
  read (`watcher_disk_manifest.py:105`), whose row is purged.
* `core/vectorization_worker_pkg/chunking.py:202`: the vectorizer clears
  `needs_chunking` without the lease, so a file it reaches first is never selected by
  the indexer, and `get_database_status` then counts it as indexed
  (`commands/worker_status_mcp_commands/get_database_status_metadata.py:44`). It also may add
  chunks of an old text after the indexer has removed the old chunks.
* `postgres.py:874`: `commit_outcome_unknown` is never reached by a logical write: the
  manager wraps every failure of a commit in a `TransactionError`, which is not classified.
* `postgres.py:687`, `:737`: the retry of `execute` meets the closed pool it captured before the
  reconnect and always fails (`RetryFindsOpenPool`); `select` looks the pool up anew.
* `postgres.py:81`: "connection pool is closed" counts as a lost connection, so a call that
  met a closed pool starts another reconnect. `_reconnect_main` (:414) holds no lock: two may
  drop each other's pool, and a `select` under way during a disconnect may reopen one.
  A connect that fails there (:424) leaves the driver without pool and connection until
  `connect` is called anew.
* `core/file_watcher_pkg/multi_project_worker_scan.py:907`: a project that is renamed after it
  was discovered and before its turn in the second listing is not visited; the supplemental
  pass finds no directory at the old root, if the row has not been updated yet, and purges all
  its rows, without the lease (`processor_queue.py:711`) and without looking at the exclusive
  lock, although :455 says that "the watcher must not race that operation" and
  `processor_delta.py:211` that the pass runs late "so unvisited projects are not misclassified
  as deleted mid-cycle". The recorded signature has no path in it, so later scans see an
  unchanged tree and do not restore the rows until a file changes or the worker restarts
  (the signature is in `FilePipeline`, not in `ProjectRename`). `UnvisitedIsGone` in
  `ProjectRename` states the comment; TLC refutes it.
* A project whose directory is really gone is *not* purged there: `supp_root` (:907) comes
  from the projects discovered in this cycle only, while `processor_delta.py:271` logs "marking
  all DB files as deleted".
* `core/project_root_path.py:324`: a resync writes the root that a search has found, over a
  rename that has completed since, and looks at no lock; so does a relocation with the root that
  was discovered (`multi_project_worker_scan.py:528`). The row then names a directory that is not
  there, of a project that is not locked. `StaleIsLocked` states what `rename_project.py:244`
  says of a row that was not updated; TLC refutes it without any fault. The next read heals the row.
* `core/file_watcher_pkg/startup_reconciliation.py:222`: a project that is renamed while the watcher
  lists the directory is purged with everything that hangs on it as "not on disk"
  (`PurgedIsGone`, refuted). The next cycle inserts it anew.
* `core/file_watcher_pkg/multi_project_worker_init.py:376`: the lock is looked at before the
  relocation "same invariant as ... the periodic scan gate", but `get_project` at :349 has already
  written the row.
* `rename_project.py:208`: a rename to its own name, or one that resolved a root which another
  rename has left meanwhile, fails after the lock is taken and leaves the project locked.
* `core/project_exclusive_lock.py:40`: the release deletes the row of whoever has it; after a
  forced unlock this may be another rename.
* `core/search_session/raw_finding_buffer.py:89`: the assembler's lock is tested and then
  written, and belongs to a process: with a grep worker left behind by its timeout, or a
  semantic task beside it, two threads have it. Without `~crossed` TLC refutes what the assembler
  promises: a finding can be on two pages, a page is rewritten or a finished index grows
  (`block_assembler.py:35` calls blocks immutable), and after a timeout a completed search has an
  unfinished index.
* `core/search_session/session.py:78`: the guard of the final states has no caller;
  "completed" overwrites "cancelled" and "closed" (`commands/search_paginated_cross.py:1108`).
* `core/search_session/cleaner.py:104`: a session whose manifest is about to be written counts
  as one without; it is purged while it starts. The heartbeat is not refreshed during a
  cross search, so a search longer than the hard timeout is purged as well.
* `core/search_session/block_assembler.py:112`: a client that reads the first block before the
  index has its entry is told `has_more` = false. The relevance blocks (:185) are always
  empty: they are built from a buffer that is empty by then.

## Not modelled

`PROJECT.json` gives the reason per component. In the modelled parts: roles and
comments of sessions, the policy clamping of the reaper, lock mode `none`,
registration of server processes as runtime sessions, replacing a transfer
entry, the ignore purge, the queue of the
watcher for databases without bulk sync, documentation and plain text files,
`LIMIT` of the indexer, usages and cross references (they are written in the steps
of the entities), embeddings. Of the pool: several lanes, the main connection of
`insert`, `update` and `delete`, the count of attempts. Of transactions: read-only
statements, a configured lock timeout (`SET LOCAL` with a bound parameter,
`postgres_transactions.py:88`, is rejected by the server), the five seconds for which a disconnect waits for the reaper's thread, and the
order of `close_all`'s list, which is left open. Of searches:
several patterns of one grep phase, the commands with one backend, the job queue, page
reads that wait, and the relevance order. Of renames: the commands that create, remove and restore
projects, several watch directories and the pass for projects outside of them
(`multi_project_worker_init.py:108`), ambiguous matches of a search by projectid, absolute root
paths of old databases, and what a walk does beyond `files` (in `FilePipeline`).

## Plan

1. `ClientSessions`, `FileLock`, `Lease`, `ProjectActivity`, `FilePipeline`, `Lending`,
   `ConnectionPool`, `Transactions`, `SearchSession`, `ProjectRename` (done).
2. `WorkerLifecycle`, `EditSession` (checksums), and the batch limit in
   `FilePipeline` with the question of starvation.
3. Composition: `FilePipeline`'s lease replaced by `ProjectActivity`; the advisory
   leases of `ClientSessions` as its locked paths; files that change in `ProjectRename`.

Theorems to come: an abstract specification of what the client of a search sees (pages that
are added once, an index that is finished once), refined by `SearchSession`; the same for the
three ways in which a renamed project is found again.
