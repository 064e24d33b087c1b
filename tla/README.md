# Formal models of Code Hangar

Code Hangar is a local desktop application (Rust, Tauri, SQLite/SQLCipher) that
keeps an inventory of project folders and, when built with the `mutation`
feature, moves reviewed files to a private holding area, restores them and
removes them for good. This directory holds TLA+ models of the parts whose
correctness depends on order, interruption and concurrency, the TLC instances
that check them, and proofs for TLAPS.

Five groups of modules:

| group | models | modules |
|---|---|---|
| holding pipeline (section 2) | backup, move to holding, restore, recovery after a crash | `MutationJournal`, `Quarantine`, `Restore`, `Recovery`, `HoldingPipeline`, `HoldingPromise`, `HoldingPipelineProofs`, `HoldingPromiseProofs`, `MCHoldingPipeline` |
| inventory scans (section 3) | job table, scan workers, write session, the commands that race them | `JobStore`, `ScanJobs`, `ScanJobsProofs`, `ScanCoverageProofs`, `MCScanJobs` |
| edit snapshots (section 4) | in-app saves, restores, undo and the pruning of previous versions | `EditSnapshots`, `EditSnapshotsProofs`, `MCEditSnapshots` |
| permanent removal (section 5) | confirmation grants, reviews, batches with archives, the guarded disposal of objects, their recovery | `ConfirmTokens`, `FinalRemoveBatch`, `FinalDisposition`, `DispositionPromise`, `FinalRemoveBatchProofs`, `FinalDispositionProofs`, `MCFinalRemoveBatch`, `MCFinalDisposition` |
| Safe Manage (section 6) | the analysis of the portfolio, the owner's decisions, the expansion of a folder, the plan of a decision | `PortfolioAnalysis`, `SafeManage`, `SafeManageProofs`, `MCSafeManage` |

A definition whose comment says "Mutant of" is a plausible wrong version of the
one it names; the specification never uses it. Each property is violated when
its mutant is put in.

## 1. Inventory of the system

State, operations, interactions and hard behaviours of each part.
PROJECT.json `components` lists all parts, with those left out and why.

**Journal** (`hangar-mutation/journal.rs`). Tables `operation`,
`operation_item`, `quarantine_entry`, `backup`, `permanent_delete_*`. Every
executor commits statement by statement: `with_recovery_writer` is a lock, not
a transaction. Correct when the rows a crash leaves are enough to finish or
undo the operation.

**Backup, move, restore** (`backup.rs`, `quarantine.rs`, `restore.rs`,
`bound_fs.rs`). Each file goes through intent row, no-replace rename through a
bound handle, result row, entry row. Hard: a crash between any two of them, a
rename that fails, a check that fails after the rename succeeded, other
programs that create, replace or delete files meanwhile. Correct when nothing
is overwritten or lost, everything held is backed up and tracked, everything
listed can be restored.

**Recovery** (`recover.rs`). Runs at the user's request after a start that
found interrupted operations; probes the disk and the rows and settles each
item, entry and operation. Hard: it can crash too, probes can fail. Correct
when it is idempotent, never guesses, and ends.

**Mutation gate and API** (`hangar-api/lib.rs`). `ensure_no_pending_recovery`
refuses a mutation while an operation is `executing` or `verifying`; the write
side of `inventory_mutation_gate` admits one executor and keeps scans out.

**Permanent removal** (`final_remove.rs`, `object_archive.rs`, `elevated_*`,
the removal jobs of `hangar-api/lib.rs`). A review of held objects, a grant
bound to it, one job with one worker. For each selected object the worker
streams an archive through an elevated helper, proves it, promotes it to its
final name and links it in the catalog; then it claims the object in one
transaction and disposes of it by the kernel's delete-on-close, with a guardian
process per object that holds a duplicate of the handle. State: the tables
`permanent_delete_batch`, `_batch_item`, `object_archive`,
`final_disposition_guardian`, previews, the in-memory job table, the owner's
switch with its latch. Hard: a death in each phase, lost messages to the helper
and the guardians, stops and the switch at any moment, recovery of every state
that leaves. Correct when an object goes only after its archive is durable and
its grant used, the death of a process deletes nothing by itself, rows never
say more than is known, verdicts are true, and recovery ends.

**Confirmation tokens** (`confirm.rs`). A bounded table of single-use tokens
bound to an action and a review, with expiry. Correct when a token is used at
most once, only for what it was issued for, and never after its expiry.

**Edit snapshots** (`hangar-api/edit_snapshot.rs`). A save copies the file to a
directory of its own, inserts a row of `edit_snapshot`, replaces the file by a
rename, confirms the row and prunes old versions: the newest 20 of each file,
its first and the first of each AI session are kept, at most 1000 in all.
Restore and undo are saves of a recorded text. Commands run on a thread pool
and each takes a database connection of its own. Correct when what a save
replaces can be restored, first versions survive every prune, and undo of a
session returns to the text before it.

**Job store** (`hangar-jobs`). Status records under one mutex, cancellation
tokens under another. Correct when no root is owned by two running scans, a
stop reaches the worker, a closed job stays closed.

**Scan workers** (`scan_start_internal`, `hangar-db` write session,
`hangar-fs` walk). One thread per job: gate, estimate, then per root begin,
walk, batches, finish. Hard: the disk changes under the walk, stops and
failures at every step, roots disabled or unregistered meanwhile, delta
computation relative to rows an unfinished scan has already written. Correct
when a completed scan matches the disk at some moment, an incomplete one never
removes anything and stays marked as incomplete, derived data follow the rows.

**Resident refresh** (`resident.rs`, `background_refresh_resident`). A second
thread that starts background scans if no job runs. Check and start are
separate steps.

**Safe Manage** (`safe_manage.rs` of `hangar-api`, `hangar-db` and
`hangar-core`, `plan_jobs.rs`). An analysis captures the evidence of every
project and stores an assessment for each; the owner decides on a completed
one; for "clean regenerables" a folder, stored as one opaque row, is expanded
into a row per item with a receipt; a plan is built from a decision. State: a
slot in memory, the tables `safe_manage_*`, the rows and nodes of the folder,
the plan jobs, the inventory gate. Hard: each is a thread of its own that
others stop, overtake or leave behind in a death; unregistering takes no gate;
evidence such as a repository's state belongs to nobody; a second process may
open the database. Correct when a completed run holds all that was captured, a
folder that may be planned for was walked as a whole, a plan rests on the
latest decision and on evidence that still holds, and all threads end.

**Other stateful parts, planned or left out**: subtree scans and
investigations, connector advisories, duplicate jobs, the shell-open queue. Readers
(navigation, graph, preview, accounting, reports, MCP server), parsers and the
user interface keep no state of interest.

## 2. Holding pipeline

`MutationJournal` declares the shared state: `disk` (object at each path),
`ops`, `items`, `dirItem`, `entries`, `backups` (the tables), `run` (the
executor: program counter and locals, lost in a crash). An *object* is what
`FileStamp` and content hash tell apart. A path is an original, a place a
restore to a folder uses, or a holding path of an operation.

`Quarantine`, `Restore` and `Recovery` have one action per statement of
`quarantine`, `restore_entry`, `restore_entry_to` and `recover_interrupted`;
the comment of an action names its statements, and `map` its lines.
`HoldingPipeline` composes them with `Request` (the handlers behind the gate),
`Fault`, `Crash` and `UserStep` (other programs). `HoldingPromise` is the
abstract specification: each object is with the user, held and listed for
restore, or in the hands of one unfinished operation, and it reaches the
holding area and leaves it only through the last; `ImplementsPromise` is the
refinement.

Properties: `OneInterrupted` (at most one unreconciled operation, and it is
the executor's), `HeldIsTracked` (whatever is in holding has a row or is under
reconciliation), `ListedIsRestorable` (an entry listed as held has its copy),
`HeldIsBackedUp`, `NothingDestroyed` (no step of the application makes an
object vanish), `RestoredIsBack`, `CleanupRowTruthful`, `ImplementsPromise`,
and the liveness property `RecoveryConverges`.

| run | bounds | shows |
|---|---|---|
| `holding` | 2 files (1 protected), 3 objects, 2 operations, 1 crash anywhere, refused moves, failing probes, 1 file created by the user | `OneInterrupted`, `HeldIsBackedUp`, `RestoredIsBack`, `CleanupRowTruthful`, the refinement |
| `two_crashes` | 2 files, 2 objects, 2 crashes anywhere, no user changes, fairness | recovery survives its own crash (`HeldIsTracked`, `ListedIsRestorable`) and converges |
| `meddled` | 1 file, 3 objects, 2 arbitrary changes by others, also in the holding area, all faults, 1 crash | `NothingDestroyed` |
| `unverified` | 1 file, 1 failed check | finding 2, below |

Bounds: two files show one that moves and one that is skipped or fails; two
operations show a restore after a move; three objects let another program put
something in the way twice. A third crash finds recovery in a state the second
one already reaches. Two crashes and a user change together exceed what TLC
explores in five minutes, so they are split over two runs.

Fairness (`two_crashes`): weak fairness of `ProgramStep` only, that is, the
running executor is scheduled and the user answers the recovery prompt. Crashes, faults and user
changes are bounded and unfair. Deadlock is not checked because a session may
legitimately end with nothing left to do within the bounds.

### Proved (`HoldingPipelineProofs`, `HoldingPromiseProofs`)

For any number of files, objects, operations, crashes, faults and changes:
`Typing`, `OneInterruptedTheorem`, `NothingDestroyedTheorem`, and
`HeldIsBackedUpTheorem` (the last one for runs in which nobody else writes in
the holding area, `"holding" \notin Reach`).
`OneInterrupted` is not inductive by itself: that an executor closes *its*
operation must be known at every program counter. `IInv` adds `OpsInv` (rows
of unused ids are empty) and `RunInv` (which row, file and bound path each
program counter implies); `Invariance` proves it action by action.

`HoldingPromiseProofs` builds on it, with three invariants:

| invariant | theorems | assuming |
|---|---|---|
| `TrackInv` | `HeldIsTrackedTheorem` | no failed check after a rename (finding 2), nobody else writes in the holding area |
| `TrackInv` | `ImplementsPromiseTheorem`, the refinement | the same, and others only create files or links |
| `WhereInv` | `ListedIsRestorableTheorem`, `RestoredIsBackTheorem` | the same, and others only create files |
| `CleanupInv` | `CleanupRowTruthfulTheorem` | nothing |

`HeldIsTracked` is not inductive because a move lists an entry, and recovery
closes an operation, on the strength of what the executor remembers. `MoveInv`,
`RestoringInv` and `ReverseInv` say at each program counter of a move, a restore
and a recovery what is in holding and which rows are still to be written;
`RowsInv` and `RestoreRowsInv` what the tables say in every state, so also after
a crash. `ListedIsRestorable` and `RestoredIsBack` need to know where the object
of a listed entry is in the middle of every operation (`ListedInv`,
`RestoreWhere`), which identity tells only if nobody makes hard links
(`Unique`). `CleanupInv` follows the `remove_dir` row and the folder.

The hypotheses are what the properties need. With `"verify"` among the `Faults`
a held file may stay untracked (finding 2); a program that writes in the
holding area, or deletes or replaces what was just restored, makes the entry
untrue by itself; with hard links an object has several paths. They are also
what the runs allow: `holding` and `two_crashes` check nothing beyond them.

TLC checked these invariants before they were proved, on instances larger than
the runs: 1 file, 3 objects, 3 operations and 2 crashes (1,660,000 states), 2
files with 2 crashes (645,000) and 2 files, 3 objects, 1 crash (1,330,000).

### Findings

1. Without a run: a restore renames the held file to its destination
   (`restore.rs:172-176`) and then commits the identity of the result
   (`restore.rs:178-208`). After a crash between the two, recovery finds the
   file there without proof, leaves the operation `verifying` in every pass
   (`recover.rs:2361`), and no mutation is admitted any more. The comment at
   `recover.rs:2213-2216` says "A COMPLETED restore (file already at its
   destination) must be finalised in place".
2. `unverified`: an error after a successful rename is reported as if nothing
   had moved; the operation is closed as failed with its outcome unreconciled.
3. Without a run: a crash of recovery between the row it marks rolled back
   (`recover.rs:1996`) and the entry it reconciles leaves an operation no later
   pass closes, because a pass skips settled rows.

Findings 1 and 3 are the two disjuncts of `Stranded`, which `RecoveryConverges`
exempts; take either away and TLC shows it.

### Not modelled here

The copy path for another volume (disabled in the code, moves are renames),
legacy rows without identity, the directory chain (one folder stands for it),
the legacy `deleting` loop (see section 5). An SQL error inside an executor is the same as a crash at
that statement. Hard links exist only through `UserLinks`.

## 3. Inventory scans

`JobStore` is the table of `hangar-jobs`: `jobs` and `tokens`, one operator
per call, two for `request_cancel`, which takes two locks in turn. Of the reports
of a worker it has what they do when the record was pruned: they put it back,
unknown or running, without its roots (`Reports`). `ScanJobs`
adds the catalog (`rows`, `project`, `sizes`, `tracked`, `rootRow`,
`scanned`), the disk (`world`), a `worker` per job and the two calling threads
(`caller`): the desktop shell's synchronous commands run one at a time on the
main thread, the resident loop has its own. An action of a worker is one
statement or one group of statements between two looks at shared state:
`BeginRootScan`, `WalkItem`, `PersistBatch`, `StartFinish`, `Reconcile`,
`DeriveSizes`, `RecordTimeline`, `MarkRoot`, `RootFinished`. `PersistBatch`
writes what differs from the rows at the start of the scan and any items the
walk read again (`ToWrite`). A finishing step
looks at the token before and after it runs, so a step that starts with the
token set may or may not take effect before the worker stops. `Restart` drops
everything in memory. `during` is a history variable: what each item has been
since the scan of its root began.

Properties: `OneWorkerPerRoot`, `CancelReachesWorker`, `CompletedCoversDisk`
(rows of a completed root are what the items were at some moment of the scan),
`RemovedWasGone` (a row goes only in a full scan during which the item was
gone), `CancelledNeedsScan`, `CompletedIsScanned`, `EveryScanEnds`.

| run | bounds | shows |
|---|---|---|
| `scans` | 1 root, 2 items, 2 contents, 2 jobs per session, 1 change of the disk, database errors, limits, restarts, no record kept longer than the next job | the safety properties of one root under every command |
| `scan_sets` | 2 roots, one with its item and one empty, 2 jobs over any sets of roots, stops, limits, unreadable items, no record kept longer than the next job, also not that of a job still stopping, fairness | complete sets, termination |
| `stale_summaries` | 1 root, 1 item, 3 jobs, 2 changes | finding 4, below |

Two jobs are what a race over a root needs. Restarts start the job ids again,
so a session's work meets rows of any number of earlier ones. One change can
fall before, between or after the reads of a scan.

Fairness (`FairSpec`): weak fairness of each worker thread; a mutation that
holds the inventory gate is assumed to end. No fairness of callers.

Findings:

4. `stale_summaries`: rows that a resident refresh wrote leave the next
   foreground scan an empty delta, so deferred sizes are never rebuilt.
5. Without a run: the second half of `request_cancel` (`hangar-jobs`
   `lib.rs:413-432`) may fall after the worker closed its job; the closed
   record becomes `cancelling` again and its roots stay owned until a restart.
   `JobStore` has the two halves as two actions, so `scans` reaches the state;
   no property forbids it, since no thread is affected.
6. Without a run: an error of the walk only increments `inaccessible_items`
   (`hangar-fs` `lib.rs:381-394`), the walk still counts as complete and
   reconciliation deletes the rows of items that are on the disk, against
   `docs/architecture.md:108-111`. Adding `"unreadable"` to the `Faults` of
   `scans` makes TLC violate `RemovedWasGone`.

### Proved (`ScanJobsProofs`, `ScanCoverageProofs`)

For any sets of roots, items and contents and any number of jobs and edits:

- `Typing`. The types alone are not inductive: a thread indexes the catalog by
  its root, so the invariant adds `RootChosen` (a thread in the middle of a scan
  has one).
- `ExclusiveRoots`: `OneWorkerPerRoot`, assuming `LiveRecordsKept`.
  `OneWorkerPerRoot` speaks of threads, the admission check of records;
  `Ownership` ties them (the record of a live thread is running or cancelling
  and owns every root the thread has left; records of live threads are
  disjoint). Each step of a thread is a move within its own record, giving up
  roots at most, or closes the job (`WorkerMoves`); admission is the only step
  that hands roots out (`AdmittedOwned`).

- `StopsReach`: `CancelReachesWorker`, with no assumption. A stop takes two
  locks in turn; `StopInv` says that in between the job's id stays in use, so
  that nobody is handed the token that was set.

In `ScanCoverageProofs`, assuming `LiveRecordsKept`:

- `StoppedNeedsScan` and `CompletedRootsScanned`, from `MarkInv` (theorem
  `MarkInvariance`): what a thread knows of its own run at each program counter
  (`Progress`) and what the marks of its roots say of that run (`Marks`).
- `FullScanCovers` (`CompletedCoversDisk`) and `OnlyVanishedRemoved`
  (`RemovedWasGone`), from `CoverInv` (`CoverInvariance`), if no directory is
  unreadable, without which finding 6 refutes them. A scan compares the rows of
  an earlier one with what it walked, while the disk goes on changing.
  `CoverInv` relates, for each item of the root under scan, its row, what the
  walk staged and what the item has been since the begin (`during`), before the
  walk reached it, after it, and after the batch that holds it.

TLC checked `MarkInv` and `CoverInv` on the instance of `scans` (1,010,000
states).

`LiveRecordsKept` says that no step prunes the record of a job whose thread is
alive. It speaks of steps and bounds nothing: these theorems cover sessions of
any length, with stops and with pruning. `PruningSparesLive` shows that it holds
whenever the store keeps as many records as a session has jobs, or nobody stops
a job (`SparesStopping`). It cannot be dropped: `prune_terminal_jobs` keeps only
`running` records, so it may forget a job that is still stopping, and the roots
of that job are then free for another. With `MaxJobs = 3`, `MaxTerminal = 0` and
two roots TLC finds two workers on one root in nine states. The code keeps 40
records, so it takes 40 newer ones while one job is stopping.

### Not modelled here

Left out: counters, phases, timings and messages of a job; the contents of the estimate; the
relationships rebuilt with the sizes; what makes two items equal (`Contents`);
folders missing on disk that the resident skips; unregistering again after
adding a root again; intermediate states of the deletion of a project's rows;
the order of targets and of pruned records (any order is allowed).

## 4. Edit snapshots

`EditSnapshots` models `snapshot_and_write_with_conn`, the three callers that
save a text (`SaveText`, `ApplySuggestion`, `Restore` and `UndoSession`) and
`prune_snapshots`, for any number of threads (`Calls`). State: `disk`, `rows`
(the table), `vault` (the directories of copies that exist), and what each
thread holds between its statements (`call`): the text it read, its copy, its
row, the versions it has selected to remove. `oldest`, `start` and `trimmed`
are history variables: the first row a file ever had, the row of a session's
first replacement, what the global cap has taken. Row ids are as SQLite gives
them without AUTOINCREMENT: one more than the largest id there. Between any two
steps another thread may run a whole command, another program may write the
file, a statement, the rename or the removal of a copy may fail, or the
application dies. After the rename the file is read back (`ReadBack`) and only
then its row confirmed (`Confirm`). A version's rows go by two statements; if the
second fails the prune ends there (`ForgetVersion`). A restored text and the row
that is its backup are one version (`restored_at` is a label).

Properties: `FirstVersionsKept` (the version before the first in-app edit of a
file, and before the first edit of a session on it, stays restorable, and undo
restores that one), `TornIsDoomed` (a version whose copy went before its row
is one the next prune removes, unless the global cap has meanwhile taken what
stood above it), `ReplacesWhatWasSaved` (a save nobody overtook replaces the
text it was reviewed against, and holds it in its own version unless others
pruned that one).

The two exemptions are what the attempt to prove stronger forms found, both on
instances larger than the run's. A row is doomed because newer ones stand above
it and older ones keep it from being the first of its session; the global cap
of another prune may take exactly these, and the torn row is then listed for
good although it cannot be restored. And nothing keeps other threads out between
the insertion of a save's row and its rename: the prunes of their saves may
remove the version it has just recorded. The file itself is as it should be in
both cases; its history lists one version too many or lacks one.

| run | bounds | shows |
|---|---|---|
| `edits` | 1 file, 2 threads, 2 texts, 1 session, 1 version kept per file, cap 2, 4 copies, 1 interference of five kinds | all three properties |

The limits are 1 and 2 instead of 20 and 1000 so that every prune has something
to remove and the cap is reached; two threads are what a race over a row or a
prune needs; four copies let a prune select, be overtaken and meet a third
version. No fairness is assumed and no liveness stated: a command may be given
up at any statement, which a failure does. The run may therefore stop anywhere.

### Proved (`EditSnapshotsProofs`)

For any files, texts, sessions, threads, limits and interferences, if the cap
exceeds the number of files (`CapHoldsAllFiles`): `TypesKept` and
`FirstVersionsStay`, from the invariant `IInv` of `Invariance`. What is kept is
a fact about the rows at the time of the selection, while the removal happens
later, so `FirstVersionsKept` is not inductive. `TodoInv` carries it over: a
selected row that is still there is the version that was selected (its id is not
reused, because a newer row of the same file stands above it or the row itself
does), and it was neither its file's first nor, unless the cap took it, its
session's. `RecordInv` and `RowsInv` say that no two versions share a copy,
`ReplaceInv` traces the session's first version from the moment its row is
written to the rename that makes it the start. The lemmas before them give what
the library's theorems do not: least and greatest elements of finite sets of
numbers (`Least`, `Greatest`, `MinIsLeast`, `MaxIsGreatest`).

`TornStays` and `SavesReplaceWhatTheySaved` state `TornIsDoomed` and
`ReplacesWhatWasSaved`, from `KInv`, which follows a row from the prune that
removed its copy, and a save from the comparison of the text to its rename. TLC
checked `KInv` on the run's instance (1,256,000 states), with three texts
(340,000) and with two files (1,012,000).

### Findings, without runs

7. Check and rename of a save are not atomic: `with_recovery_writer` opens a
   connection of its own (`hangar-db` `lib.rs:590-605`), so a second save or
   another program may write the file after `edit_snapshot.rs` compared it. The
   overtaken save replaces a text no version holds. SECURITY_INVARIANTS.md says
   "The final write re-reads the file and refuses stale on-disk bytes".
   `ReplacesWhatWasSaved` exempts saves that were overtaken.
8. A session edit refused after its row was inserted leaves a `prepared` row.
   Pruning protects it as the session's first, and undo looks for the first
   confirmed one (`edit_snapshot.rs:431-451`), which may be pruned: undo stops
   at a later text of the session. A death between the rename and the update of
   the row has the same effect. `SessionStartKept` exempts both.
9. The cap passes over the first version of a file, not that of a session; with
   as many edited files as the cap, it takes the newest version right after its
   save, and row ids may be used again. `CapHoldsAllFiles` excludes it.

### Not modelled here

The comparison and the review of a draft, the parsing and replacing of single
values, the entry in the Recap ledger (best effort, after the save), the
temporary file a death leaves in the project.

## 5. Permanent removal

Two modules at two levels, tied by `DispositionPromise`.

`ConfirmTokens` is `ConfirmTokenStore`: `Issue`, `Consume` and the expiry that
each call applies first. `FinalRemoveBatch` is everything around one object's
removal:

- the owner: `BuildPreview`, `Confirm`, `IssueEnter`, `RestoreEntry`,
  `StartJob`, `StopJob`, `Disable` (latch and stop, then behind the gate the
  durable setting: `DisablePersisted`), `Enable`;
- the worker, one action per journaled phase: `ConsumeGrant`, `Revalidate`,
  `Preflight`, `Layout`, `Uac`, `Materialize` (stream, proof), `Commit` (cancel
  the container's delete-on-close), `Promote`, `Rename`, `Link` (the catalog
  row), `Boundary` (latch, stop, observer), `ClaimItem`, `Dispose`, `Record`,
  `NextChunk` (which asks for the reason of an interruption again), `Terminalize`,
  `Finalize`;
- `Restart` and recovery item by item (`RecoverStart` to `RecoverFinish`).

`partial` says whether an archive container under its temporary name vanishes
with its handle (`armed`) or would stay (`plain`), `final` whether the final
name exists, `archiveRow` whether the catalog knows it.

`FinalDisposition` refines the two steps `ClaimItem` and `Dispose` for a group of
objects, statement by statement and message by message: the parent's
`dispose_one_guarded` (`LaunchGuardians` to `Finalize`), each guardian's
exchange loop (`GuardianAllowsArm`, `GuardianProves`, `GuardianCancels`,
`GuardianSignsReceipt`, `GuardianCloses`, `GuardianLosesChannel`,
`GuardianRetains`), the kernel's rule that an armed object goes with its last
handle (`HandlesClose`), deaths of either side, and
`recover_permanent_delete_batches` for claimed objects. A failed statement of
recovery makes the member it is settling ambiguous; after a rollback, for a
member settled before or at the batch row it ends the recovery and leaves that row
as it was (`RecoveryAborts`).

`DispositionPromise` is the abstract specification: an object vanishes only
while it is claimed, a claim ends as a deletion only when the object is gone and
as a return only when it is there, and no verdict is taken back.
`FinalDisposition!ImplementsPromise` shows it of the group,
`FinalRemoveBatch!ImplementsPromise` of every batch and object; both are
checked and proved. The latter instantiates the promise for a batch `j` and an
object `i` (`Removal(j, i)`). An object that another batch takes counts as
there (`ThereFor`), as its loss is that batch's.

Properties of `FinalDisposition`: `DeletedIsGone`, `QuarantinedIsThere`,
`ArmIsGuarded` (the parent's death alone deletes nothing), `LossLeavesReceipt`
(an object that is gone before that is recorded left its receipt),
`OneAfterAnother`, `BatchRowTruthful`, `BatchCloses`. Of `FinalRemoveBatch`:
`ArchivedBeforeGone`, `ArchivesAccounted` (no crash orphans an archive),
`OneOpenBatch`, `GrantSpentOnce`, `OffStopsRemoval` (off on disk, nothing is
claimed any more), `VerdictTruthful`, `BatchCloses`.

| run | bounds | shows |
|---|---|---|
| `disposition` | a group of 2, any 2 of 12 kinds of failed calls, 1 death of the parent, 1 killed guardian | all safety properties, the refinement, `BatchCloses`; no deadlock |
| `final_batch` | 2 objects, one with an archive kept by an earlier batch, 2 reviews, 2 jobs, chunks of 1, any 2 of 21 kinds of interference, a clock of 2 ticks, `ClaimParses` | all safety properties, the refinement, `BatchCloses` |
| `claim_statement` | the same without interference, `ClaimParses = FALSE` | finding 10 |

Bounds: the second member of a group meets what the first leaves; a failure and
the failure of its repair need two; a killed guardian and a dead parent
together are the case the receipt exists for. Two jobs are needed for a grant,
a review or an object to be taken twice, and for a batch to meet what an
earlier one left. `ClaimParses = TRUE` is the program with finding 10 repaired,
without which nothing after the claim would be reached.

Fairness. `disposition`: weak fairness of the worker thread, of each guardian
process, of a recovery that has begun and of starting the application again;
strong fairness of quitting and of beginning a recovery, which are the user's
coming back to an application that shows a pending batch; a guardian that
retains a handle repeats its cancellation for ever (`guardian_retain_until_cancelled`),
and the kernel is assumed to grant one in the end. `final_batch`: weak fairness
of the worker, recovery and job threads, strong fairness of `RecoverStart`.

### Proved (`FinalDispositionProofs`)

For a group of any size and any number of failures, deaths and kills: types,
`DeletedIsGone`, `QuarantinedIsThere`, `OneAfterAnother`, `ArmIsGuarded`,
`LossLeavesReceipt`, `BatchRowTruthful`, and `Refinement`. The inductive
invariant `IInv` (theorem `Invariance`, one lemma per action) is needed because
the parent acts on what the guardian answered: `HandleInv` (handles keep an
object and only they keep an armed one), `RowInv` (rows agree with the disk),
`GuardInv` (what a guardian owes), `ArmingInv`, `ProvingInv`, `ClosingInv` (at
each program counter what the channel may carry and where the guardian then
is), `CurrentInv`, `AheadInv`, `BehindInv`, `CancelledInv` (members before and
after the current one), `RecoverInv`, `BatchInv`. `Refinement` shows of each
step, in one of five shapes (`Seen`), that it maps to a step of the promise or a
stutter.

### Proved (`FinalRemoveBatchProofs`)

For any number of objects, reviews, jobs, grants, chunks and interferences and
with no assumption: `TypesKept`, `GoneIsArchived` (`ArchivedBeforeGone`),
`NoArchiveOrphaned` (`ArchivesAccounted`), `BatchesOneByOne` (`OneOpenBatch`),
`GrantsSpentOnce`, `VerdictsTruthful`, `NoClaimOnceOff` (`OffStopsRemoval`) and
`Implementation`, with `EachRemoval`: the removal of one object by one batch is
a behaviour of `DispositionPromise`.

No property is inductive by itself. That an archive precedes the loss depends
on the phase the worker is in; that a batch may be opened on all earlier ones
being settled; that a verdict is true on what recovery does to batches that were
closed before. `IInv` (`Invariance`) has three groups of parts:

- `RowsInv`, about the tables and the disk: `ItemsInv` (what status, phase,
  proof, link, container, entry and object say of each other), `ArchiveInv`,
  `OwedInv`, `OrderInv` (a batch is opened when those before it are settled),
  `TakenInv` (what is gone was taken by the batch or by a later one),
  `BatchInv`, `FreshInv`;
- `OwnersInv`, about jobs, requests, grants and reviews: `JobInv`,
  `RequestInv`, `OpeningInv`, `ResultInv`, `GrantInv`;
- `WorkerInv`, about the worker and recovery at each program counter:
  `PlaceInv`, `StageInv` (how far each object of the batch is), `CurrentInv`,
  `ArmInv` (which containers still go with their handle), `RecoverInv`.

Most steps touch the rows of one object that is not settled. `RowsStep` shows
once that such a step keeps `RowsInv` if what that object's rows say of each
other holds again (`Fits`), so each action's lemma answers for one object and
for where it leaves the worker. The refinement adds `OpInv` (a claim that was
rolled back is not taken up again by its batch) and classifies the steps: no
claim begins or ends (`SameClaims`, `HeldRows`, `ClaimStays`) or one object of one
batch takes a turn (`TurnPromised`).

TLC checked `IInv` on the run's instance and on two more: 3 interferences
(1,083,000 states) and 3 objects in chunks of 2 (301,000). With 3 jobs and reviews
it explored 5,700,000 states without an end and without an error.

### Findings

10. `claim_statement`: the `INSERT` of the guardian rows
    (`final_remove.rs:3506`) lacks the parenthesis that closes its column list.
    SQLite refuses it, so every claim fails and no batch removes anything. The
    tests use another copy of the transaction.

Without runs of their own, as disjuncts of `Unrecoverable`, which `BatchCloses`
exempts: states of an item that recovery answers with "ambiguous" however often
it is asked, so that its batch, and every mutation, waits for good.

11. A: a death in phase `archive_verify_intent` (`final_remove.rs:1450`). The
    phases `recover_pending_archive_intent` knows (`recover.rs:1126-1140`) do
    not include it.
12. B: a death of recovery after it settled an archive intent and before its
    batch is closed. Its own phase, `archive_recovery_closed`, is not in the list
    either, so the second pass fails.
13. B': the same after recovery linked a promoted archive, before it blocked the
    interrupted item: item and archive row contradict each other.
14. C: `recover.rs:1613` selects closed batches as well if one of their entries
    is `deleting`, which a later batch makes it. The earlier batch is found to
    contradict itself, becomes interrupted, and stays so once the later one
    has deleted the entry; docs/PERMANENT_REMOVAL.md:238-239 says otherwise.

`Undecidable` is what `FinalDisposition!BatchCloses` exempts, by design of the
code: a lost archive drive, and an object gone without a receipt that counts.

### Not modelled here

Groups of several paths (the code blocks them), folders inside a group
(`planned_descendants`), the bytes and the capacity of archives, the
authentication and framing of the helper, its capability checks, batches whose
id is not their job's (they are the same here), reviews kept over a restart
(they expire), the gap between the journal of a scratch file and the batch row
(recovery reads that journal for a message only, so it leaves what a failure before
or after both leaves), `purge.rs` and the legacy `deleting` loop of
`recover_interrupted` (no command starts such a removal), scratch files beyond
the ambiguity they cause, the pruning of ended jobs. In `FinalRemoveBatch` a
group is one object and interference is bounded by `MaxEvents`. A group of
several members is `FinalDisposition`'s, an archive `FinalRemoveBatch`'s; the
two are tied through the promise, not checked together.

## 6. Safe Manage

`PortfolioAnalysis` has the slot (`StartAnalysis`, `CancelAnalysis`, `Frees`),
the history of runs with what SQLite accepts of it (`MayBecome`, `MayFinalize`,
`Reconciled`), and the worker `run_analysis_with_sources`, one action between
two looks at shared state: `Begins`, `ReadsCatalog`, `Captures` (under the write
side of the gate), `Probes` one repository after the other, `Captured`,
`SavesTotal`, `Appends`, `Completes`, `Stops`, `StopsCapture`, `Fails`,
`DbFails`. The revision of a project's evidence is a pair: the catalog epoch
(`epoch`), and live state no lock protects, for which `git[p]` stands.

`SafeManage` extends it with `Decide`, an expansion per folder (`AskExpansion`,
`Enters`, the begin in three statements `MarksAbsent`, `DeletesRows`,
`MarksIncomplete`, then `OpensReceipt`, `Visits`, `WalkEnds`, `HitsLimit`,
`Finishes`, `Derives`, `MarksBroken`, `Settles`), a plan job (`AskPlan`,
`PlanEnters`, `PlanChecks`, `Builds`, `Publishes`), and what comes from outside:
`Opens`, `OtherProcessOpens`, `Restart`, `RootScan`, `Unregisters` and `Forgets`,
`GitChanges`, `FolderChanges`, failing statements. `rows` and `present` are the
rows below a folder and those whose node is present, `whole` the mark of the
folder's row. `proof` (what the walk behind a receipt found) and `cut` (a begin
died after its first statement) are history variables.

Properties: `CompleteIsWhole` (a run becomes completed only over all its worker
captured, and a closed run never changes), `EligibleIsWhole` (the rows of a
folder that may enter a plan are those of one whole walk, scans of the root
included), `PlanIsAuthorised` (a
published plan carries out the latest decision, on a completed run whose
evidence still holds, for a project that may be touched, and lists what the walk
found), `EveryThreadEnds`.

| run | bounds | shows |
|---|---|---|
| `safe_manage` | 2 projects, one with a folder of 2 items and one not to be touched, 1 analysis, 3 expansions and plans, any 1 of 9 kinds of interference, fairness | all four properties |

Bounds: the whole path takes an analysis, an expansion and a plan; the third job
is the expansion that overtakes a receipt or a plan that follows a later
decision. An interference may fall between any two steps and the commands
around it (decisions, stops, new requests) are not counted. One interference is
enough for each disjunct of the next-state relation. Larger instances were
explored without the liveness property: two interferences with one item
(1,540,000 states) and two analyses (2,000,000) violate nothing. The proofs
have no bound.

Fairness: weak fairness of each thread and of the opening of the database,
strong fairness of the two steps that wait for the write side of the gate: the
lock lets a waiting writer in before later readers. Commands and interference
are unfair. The run may stop where the bounds leave nothing to do.

### Proved (`SafeManageProofs`)

For any projects, folders, items, runs, jobs and interferences: `Typing`,
`EligibleFoldersAreWhole`, `CompletedRunsAreWhole` and
`PublishedPlansAreAuthorised`. What they promise is made true by one step and
used by a later one, so the inductive invariant (`Invariance`, one lemma per
action) says at each program counter what is known: `CaptureInv` (while
assessments are appended, those stored are among the captured ones), `GateInv`
(who has the gate, so that nobody expands while a plan is built), `FolderInv`
(rows, nodes, mark, receipt and expansion of a folder: a completed receipt has
the count of its walk, and the rows are those of the walk, or gone, or the mark
is negative), `PlannerInv` (what a plan lists are the nodes present). A count
alone does not tell old rows from new ones; the order of the begin does, as it
empties the rows before it clears the mark, and the finish sets the mark before
the receipt. The theorems about steps (`CompletedRunsAreWhole`,
`PublishedPlansAreAuthorised`) follow from the invariant before the step.

### Findings, without runs

15. `analysis_start` takes the slot and leaves by `state.db()?` without
    releasing it if the database is still being opened (`safe_manage.rs:172-195`,
    `hangar-api` `lib.rs:3751`). Every later start is refused as already active
    until the application is started again; docs/safe-manage-assisted-cleanup.md:22-23
    promises a start "at any time from Safe Manage". `StartTooEarly` models it and
    `EveryThreadEnds` exempts that slot (`slot.run = None`).
16. `Db::init` reconciles on every opening (`hangar-db` `lib.rs:618`), and the
    MCP server opens the same file (`apps/mcp-server/src/main.rs:8-10`): a live
    analysis is closed as partial, a live expansion as failed, although the
    comment says "A process died before a queued/running analysis reached a
    terminal state" (`safe_manage.rs:117-119`). It errs on the safe side:
    `CompleteIsWhole` and `EligibleIsWhole` hold with it.
17. The begin of an expansion is no transaction (`begin_subtree_scan_inner`,
    `hangar-db` `lib.rs:5430-5438`). If it dies, or a statement fails, after the
    first of them, an earlier receipt, its rows and the mark of the folder stand,
    while the nodes are marked absent. The folder is still eligible and a plan
    for it lists the folder alone, since the accounting takes present nodes only
    (`hangar-accounting` `lib.rs:462-510`). `safe_manage.rs:157-160` says of an
    interrupted expansion "it can never become OperationPlan-eligible by restart
    alone". `PlanIsAuthorised` exempts it through `cut`.

### Not modelled here

The classification of projects, the discovery of sessions, the comparison of
portfolios, the first-run preference, overview and status. Two projects share
nothing. A folder has one level. A root scan is one step (its detail is
section 3) and waits for an expansion as both own the root. A scan of a subtree
that the owner starts (`scan_resume_subtree`), which may replace the same rows, is
left out: the theorems speak of scans of the root and of expansions. Observed
bytes are left out, the count stands for both. The last check of a plan and its
publication are one step (the write gate is held throughout), and so are the statements of `projects_unregister`
after the first. One plan job at a time.

## 7. What is only model-checked

Liveness (`RecoveryConverges`, `EveryScanEnds`, both `BatchCloses`,
`EveryThreadEnds`) is out of
the prover's reach. Every invariant, action property and refinement that a
passing run checks is the statement of a theorem, as are the types of every
module with a specification. One hypothesis is stronger than what a run allows:
`scans` forgets jobs while they stop, which `LiveRecordsKept` excludes, and finds
`OneWorkerPerRoot`, `CompletedCoversDisk`, `RemovedWasGone` and
`CancelledNeedsScan` to hold of one root and two jobs all the same.

## 8. Not modelled

PROJECT.json lists every component with its reason. Most of the source keeps no
state whose order matters: `hangar-discovery` (classification rules),
`hangar-api` and `hangar-db` (queries, projections and schema), the user
interface, parsers, reports and build scripts are pure functions, I/O or layout.
The map names the lines of what is modelled, a small part of 133,000; a larger
share would mean restating queries and parsers in TLA+. The Windows calls are
represented by their documented effect on handles, names and deletions.

## 9. Plan

1. Subtree scans, investigations and `projects_unregister` in `ScanJobs`, with
   the property that no project node exists without its root.
2. The archiving helper as a session between two processes.
3. Connector advisories, duplicate jobs, several plan jobs with their pruning.
4. Proofs: `RestoredIsBack` and `ListedIsRestorable` with hard links (where the
   object is by its identity, not by its path), the refinement of
   `FinalRemoveBatch`'s `ClaimItem` and `Dispose` by `FinalDisposition` itself
   instead of through the promise.

## 10. Running

    tlc -workers 2 -config MCHoldingPipeline.cfg MCHoldingPipeline
    tlc -workers 2 -config MCHoldingTwoCrashes.cfg MCHoldingPipeline
    tlc -workers 2 -config MCScanJobs.cfg MCScanJobs
    tlc -workers 2 -config MCEditSnapshots.cfg MCEditSnapshots
    tlc -workers 2 -config MCFinalDisposition.cfg MCFinalDisposition
    tlc -workers 2 -config MCFinalBatch.cfg MCFinalRemoveBatch
    tlc -workers 2 -config MCSafeManage.cfg MCSafeManage
    tlapm HoldingPipelineProofs.tla
    tlapm HoldingPromiseProofs.tla
    tlapm ScanJobsProofs.tla
    tlapm ScanCoverageProofs.tla
    tlapm EditSnapshotsProofs.tla
    tlapm FinalDispositionProofs.tla
    tlapm FinalRemoveBatchProofs.tla
    tlapm SafeManageProofs.tla

The bounds are constants of the `.cfg` files: `MaxOps`, `MaxCrashes`,
`MaxMeddling`, `MaxJobs`, `MaxTerminal`, `MaxEdits`, `MaxEvents`, `MaxCopies`,
`MaxFaults`, `MaxKills`, `MaxPreviews`, `MaxIssued`, `MaxNow`, `MaxRuns`.

The types of `ScanJobs`, `EditSnapshots`, `FinalDisposition`, `HoldingPipeline`
and `SafeManage` are theorems for every value of the constants and in no
configuration; those of `FinalRemoveBatch` are proved, and checked
by `final_batch`, as they also bound how long a grant lives.
