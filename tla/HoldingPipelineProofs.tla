------------------------ MODULE HoldingPipelineProofs ------------------------
(***************************************************************************)
(* Theorems of HoldingPipeline, for every set of files and objects, every  *)
(* bound, every choice of crash points, faults and user changes.           *)
(*                                                                         *)
(* IInv is the inductive invariant.  TypeOK alone is not inductive: an     *)
(* executor step reads the rows that run.op and run.file name, so RunInv   *)
(* says what they name at each pc, and OpsInv what a restore's row names.  *)
(* RunInv also carries the two facts the safety theorems rest on: a        *)
(* forward executor runs the one operation that is unfinished, and the     *)
(* source it keeps bound is an object a verified backup covers.            *)
(***************************************************************************)
EXTENDS HoldingPipeline, TLAPS

OpsInv ==
  \A r \in OpIds :
    ops[r].kind = "restore" =>
      ops[r].entry \in OpIds /\ ops[r].file \in Files /\ ops[r].dest \in UserPaths

ForwardPcs == QuarantinePcs \cup RestorePcs

\* Where run.file names a file, and where run.op names a restore.
FilePcs == RestorePcs \cup
  {"q_rename", "q_item_done", "q_entry", "q_item_failed",
   "v_returned", "v_exposed", "v_restore_entry", "v_restore_item"}
RestoringPcs == RestorePcs \cup
  {"v_restore_entry", "v_restore_item", "v_restore_op"}

RunInv ==
  /\ run.pc \in ForwardPcs => run.op \in Interrupted
  /\ run.pc \notin {"idle", "v_next", "v_end"} => run.op \in OpIds
  /\ run.pc \in FilePcs => run.file \in Files
  /\ run.pc \in RestoringPcs => ops[run.op].kind = "restore"
  /\ run.pc = "q_rename" => /\ run.bound = Orig(run.file)
                            /\ disk[Orig(run.file)] \in backups[run.file]

IInv == TypeOK /\ OpsInv /\ RunInv /\ OneInterrupted

-----------------------------------------------------------------------------
(* What the updates of a row, of a path and of the executor preserve.      *)

\* An update of a row's status keeps the item table well typed.
LEMMA SetItemType ==
  ASSUME NEW x \in [OpIds -> [Files -> ItemRows]],
         NEW o \in OpIds, NEW f \in Files, NEW s \in ItemStatuses
  PROVE  [x EXCEPT ![o][f].status = s] \in [OpIds -> [Files -> ItemRows]]
<1>1. x[o][f] \in ItemRows
  OBVIOUS
<1>2. [x[o][f] EXCEPT !.status = s] \in ItemRows
  BY <1>1 DEF ItemRows
<1>3. [x[o] EXCEPT ![f].status = s] \in [Files -> ItemRows]
  BY <1>2
<1> QED
  BY <1>3

\* So does recording a result, with or without a status.
LEMMA SetResultType ==
  ASSUME NEW x \in [OpIds -> [Files -> ItemRows]],
         NEW o \in OpIds, NEW f \in Files, NEW s \in ItemStatuses,
         NEW e \in Objects \cup {None}
  PROVE  /\ [x EXCEPT ![o][f].status = s, ![o][f].result = e]
              \in [OpIds -> [Files -> ItemRows]]
         /\ [x EXCEPT ![o][f].result = e] \in [OpIds -> [Files -> ItemRows]]
<1>1. x[o][f] \in ItemRows
  OBVIOUS
<1>2. /\ [x[o][f] EXCEPT !.status = s, !.result = e] \in ItemRows
      /\ [x[o][f] EXCEPT !.result = e] \in ItemRows
  BY <1>1 DEF ItemRows
<1>3. /\ [x[o] EXCEPT ![f].status = s, ![f].result = e] \in [Files -> ItemRows]
      /\ [x[o] EXCEPT ![f].result = e] \in [Files -> ItemRows]
  BY <1>2
<1> QED
  BY <1>3

\* The operation table stays well typed when one row gets a status, an error.
LEMMA SetOpType ==
  ASSUME NEW x \in [OpIds -> OpRows], NEW o \in OpIds,
         NEW s \in OpStatuses, NEW e \in OpErrors
  PROVE  /\ [x EXCEPT ![o].status = s] \in [OpIds -> OpRows]
         /\ [x EXCEPT ![o].error = e] \in [OpIds -> OpRows]
         /\ [x EXCEPT ![o].status = s, ![o].error = e] \in [OpIds -> OpRows]
  BY DEF OpRows

\* NextItem keeps the executor's record well typed.
LEMMA NextItemType ==
  ASSUME run \in RunStates, NEW failed \in BOOLEAN, NEW moved \in BOOLEAN,
         NextItem(failed, moved)
  PROVE  /\ run' \in RunStates
         /\ run'.pc = "q_item"
         /\ run'.op = run.op
<1> DEFINE a == run.failed \/ failed
           b == run.moved \/ moved
           t == run.todo \ {run.file}
<1>1. a \in BOOLEAN /\ b \in BOOLEAN
  OBVIOUS
<1>2. t \in SUBSET Files
  BY DEF RunStates
<1>3. run' = [run EXCEPT !.pc = "q_item", !.todo = t, !.file = None,
                !.bound = NoPath, !.failed = a, !.moved = b]
  BY DEF NextItem
<1> HIDE DEF a, b, t
<1> QED
  BY <1>1, <1>2, <1>3 DEF RunStates, Pcs, QuarantinePcs

\* A rename moves one object to a free path: no object is lost or copied.
LEMMA RenameKeepsObjects ==
  ASSUME disk \in [Paths -> Objects \cup {None}], rootDir \in BOOLEAN,
         NEW from \in Paths, NEW to \in Paths, from # to, Rename(from, to)
  PROVE  /\ disk' \in [Paths -> Objects \cup {None}]
         /\ rootDir' \in BOOLEAN
         /\ disk'[to] = disk[from] /\ disk'[from] = None
         /\ \A p \in Paths \ {from, to} : disk'[p] = disk[p]
         /\ OnDisk' = OnDisk
<1>1. /\ disk' = [disk EXCEPT ![to] = disk[from], ![from] = None]
      /\ disk[to] = None
      /\ rootDir' = (rootDir \/ to.at = "original")
  BY DEF Rename, PathAbsent
<1>2. /\ disk' \in [Paths -> Objects \cup {None}]
      /\ disk'[to] = disk[from] /\ disk'[from] = None
      /\ \A p \in Paths \ {from, to} : disk'[p] = disk[p]
  BY <1>1
<1>3. rootDir' \in BOOLEAN
  BY <1>1
<1>4. OnDisk' = OnDisk
  BY <1>1, <1>2 DEF OnDisk
<1> QED
  BY <1>2, <1>3, <1>4

\* The paths the executors rename between are paths, and different ones.
LEMMA PathFacts ==
  ASSUME NEW o \in OpIds, NEW f \in Files
  PROVE  /\ Orig(f) \in Paths /\ Orig(f) \in UserPaths
         /\ Folder(f) \in UserPaths
         /\ Held(o, f) \in Paths
         /\ Held(o, f) \notin UserPaths
         /\ UserPaths \subseteq Paths
  BY DEF Orig, Folder, Held, Paths, UserPaths, HeldPaths

-----------------------------------------------------------------------------
(* The steps, executor by executor.                                        *)

\* A fresh journal, an idle executor and an empty holding area satisfy IInv.
LEMMA InitInv == Init => IInv
<1> SUFFICES ASSUME Init PROVE IInv
  OBVIOUS
<1> USE JournalAssumption, PipelineAssumption DEF Init, JournalInit
<1>1. run \in RunStates
  BY DEF Idle, RunStates, Pcs, Verdicts
<1>2. ops \in [OpIds -> OpRows] /\ Interrupted = {}
  BY DEF NoOp, OpRows, OpKinds, OpStatuses, OpErrors, Interrupted, InFlight
<1>3. items \in [OpIds -> [Files -> ItemRows]]
  BY DEF NoItem, ItemRows, ItemStatuses
<1>4. TypeOK
  BY <1>1, <1>2, <1>3
     DEF TypeOK, JournalTypeOK, ItemStatuses, EntryStatuses
<1>5. OpsInv
  BY DEF OpsInv, NoOp
<1>6. RunInv
  BY DEF RunInv, Idle, ForwardPcs, QuarantinePcs, RestorePcs, FilePcs,
         RestoringPcs
<1> QED
  BY <1>2, <1>4, <1>5, <1>6 DEF IInv, OneInterrupted

\* The executor's record when a move starts.
LEMMA MoveStartType ==
  ASSUME NEW o \in OpIds, NEW S \in SUBSET Files, NEW c \in BOOLEAN,
         NEW k \in SUBSET Files
  PROVE  [Idle EXCEPT !.pc = "q_item", !.op = o, !.todo = S,
                      !.cleanup = c, !.skip = k] \in RunStates
<1>1. o \in 0..MaxOps
  BY JournalAssumption DEF OpIds
<1> QED
  BY <1>1 DEF Idle, RunStates, Pcs, QuarantinePcs, Verdicts

\* The executor's record when a restore starts.
LEMMA RestoreStartType ==
  ASSUME NEW o \in OpIds, NEW f \in Files, NEW b \in Paths
  PROVE  [Idle EXCEPT !.pc = "r_rename", !.op = o, !.file = f,
                      !.bound = b] \in RunStates
<1>1. o \in 0..MaxOps
  BY JournalAssumption DEF OpIds
<1> QED
  BY <1>1 DEF Idle, RunStates, Pcs, RestorePcs, Verdicts

\* The operation table when a move inserts its row.
LEMMA SetKindType ==
  ASSUME NEW x \in OpRows, NEW k \in OpKinds, NEW s \in OpStatuses
  PROVE  [x EXCEPT !.kind = k, !.status = s] \in OpRows
  BY DEF OpRows

\* A backup writes no operation row and leaves the executor idle.
LEMMA BackupStartInv ==
  ASSUME IInv, UNCHANGED budget, NEW S \in SUBSET Files, BackupStart(S)
  PROVE  IInv'
<1> USE JournalAssumption
    DEF IInv, TypeOK, JournalTypeOK, OpsInv, RunInv, OneInterrupted,
        Interrupted, MayMutate, diskVars, budget, BackupStart
<1>1. \A f \in S : disk[Orig(f)] \in Objects
  BY DEF Orig, Paths, UserPaths
<1>2. backups' \in [Files -> SUBSET Objects]
  BY <1>1
<1> QED
  BY <1>2

\* The INSERT of a move's operation, taken only past the gate, keeps IInv.
LEMMA MoveStartInv ==
  ASSUME IInv, UNCHANGED budget, NEW o \in OpIds, NEW S \in SUBSET Files,
         NEW p \in BOOLEAN, NEW c \in BOOLEAN, MoveStart(o, S, p, c)
  PROVE  IInv'
<1> USE JournalAssumption
    DEF IInv, TypeOK, JournalTypeOK, MayMutate, diskVars, budget, MoveStart
<1>1. ops' \in [OpIds -> OpRows]
  <2>1. [ops[o] EXCEPT !.kind = "quarantine", !.status = "executing"] \in OpRows
    BY SetKindType, ops[o] \in OpRows DEF OpKinds, OpStatuses, InFlight
  <2> QED
    BY <2>1
<1>2. run' \in RunStates
  <2> DEFINE k == IF p THEN {} ELSE S \cap Protected
  <2>1. k \in SUBSET Files
    OBVIOUS
  <2>2. run' = [Idle EXCEPT !.pc = "q_item", !.op = o, !.todo = S,
                            !.cleanup = c, !.skip = k]
    OBVIOUS
  <2> HIDE DEF k
  <2> QED
    BY ONLY <2>1, <2>2, MoveStartType, o \in OpIds, S \in SUBSET Files, c \in BOOLEAN
<1>3. /\ ops'[o].status = "executing" /\ ops'[o].kind = "quarantine"
      /\ \A r \in OpIds \ {o} : ops'[r] = ops[r]
  BY DEF OpRows
<1>4. run'.pc = "q_item" /\ run'.op = o
  BY DEF Idle
<1>5. OpsInv' /\ OneInterrupted'
  BY <1>3 DEF OpsInv, OneInterrupted, Interrupted, InFlight
<1>6. RunInv'
  BY <1>3, <1>4 DEF RunInv, Interrupted, InFlight, FilePcs, RestoringPcs,
                    RestorePcs
<1> QED
  BY <1>1, <1>2, <1>5, <1>6

\* So does the commit of a restore's intent.
LEMMA RestoreStartInv ==
  ASSUME IInv, UNCHANGED budget, NEW r \in OpIds, NEW o \in OpIds,
         NEW f \in Files, NEW dest \in {Orig(f), Folder(f)},
         RestoreStart(r, o, f, dest)
  PROVE  IInv'
<1> USE JournalAssumption
    DEF IInv, TypeOK, JournalTypeOK, MayMutate, diskVars, budget, RestoreStart
<1>1. dest \in UserPaths
  BY PathFacts
<1>2. ops' \in [OpIds -> OpRows]
  BY <1>1 DEF OpRows, OpKinds, OpStatuses, InFlight, OpErrors, OpIds
<1>3. items' \in [OpIds -> [Files -> ItemRows]]
  BY DEF ItemRows, ItemStatuses
<1>4. run' \in RunStates
  BY PathFacts, RestoreStartType
<1>5. /\ ops'[r] = [kind |-> "restore", status |-> "executing",
                    error |-> "none", entry |-> o, file |-> f, dest |-> dest]
      /\ \A m \in OpIds \ {r} : ops'[m] = ops[m]
  OBVIOUS
<1>6. run'.pc = "r_rename" /\ run'.op = r /\ run'.file = f
  BY DEF Idle
<1>7. OpsInv' /\ OneInterrupted'
  BY <1>1, <1>5 DEF OpsInv, OneInterrupted, Interrupted, InFlight
<1>8. RunInv'
  BY <1>5, <1>6 DEF RunInv, Interrupted, InFlight, QuarantinePcs
<1> QED
  BY <1>2, <1>3, <1>4, <1>7, <1>8

\* Whatever the desktop asks for, the invariant survives the request.
LEMMA RequestInv ==
  ASSUME IInv, Request, UNCHANGED budget PROVE IInv'
  BY BackupStartInv, MoveStartInv, RestoreStartInv DEF Request

\* The record of an executor that is not running is well typed.
LEMMA IdleType == Idle \in RunStates /\ Idle.pc = "idle"
  BY JournalAssumption DEF Idle, RunStates, Pcs, Verdicts

\* A jump keeps the executor's record well typed.
LEMMA GotoType ==
  ASSUME run \in RunStates, NEW pc \in Pcs, Goto(pc)
  PROVE  /\ run' \in RunStates
         /\ run'.pc = pc /\ run'.op = run.op /\ run'.file = run.file
         /\ run'.bound = run.bound
  BY DEF Goto, RunStates

\* So does a jump that closes the bound handle.
LEMMA UnbindType ==
  ASSUME run \in RunStates, NEW pc \in Pcs,
         run' = [run EXCEPT !.pc = pc, !.bound = NoPath]
  PROVE  /\ run' \in RunStates
         /\ run'.pc = pc /\ run'.op = run.op /\ run'.file = run.file
  BY DEF RunStates

\* What a restore's row names does not change once it is written.
RowsKept ==
  \A m \in OpIds : /\ ops'[m].kind = ops[m].kind
                   /\ ops'[m].entry = ops[m].entry
                   /\ ops'[m].file = ops[m].file
                   /\ ops'[m].dest = ops[m].dest

\* A status or an error, or both, set in one row.
LEMMA SetRowFacts ==
  ASSUME ops \in [OpIds -> OpRows], NEW o \in OpIds,
         NEW s \in OpStatuses, NEW e \in OpErrors,
         \/ ops' = [ops EXCEPT ![o].status = s]
         \/ ops' = [ops EXCEPT ![o].error = e] /\ s = ops[o].status
         \/ ops' = [ops EXCEPT ![o].status = s, ![o].error = e]
  PROVE  /\ ops' \in [OpIds -> OpRows]
         /\ RowsKept
         /\ ops'[o].status = s
         /\ \A m \in OpIds : m # o => ops'[m] = ops[m]
         /\ s \notin InFlight => Interrupted' = Interrupted \ {o}
         /\ s \in InFlight => Interrupted' = Interrupted \cup {o}
<1>1. ops' \in [OpIds -> OpRows]
  <2>1. /\ [ops EXCEPT ![o].status = s] \in [OpIds -> OpRows]
        /\ [ops EXCEPT ![o].error = e] \in [OpIds -> OpRows]
        /\ [ops EXCEPT ![o].status = s, ![o].error = e] \in [OpIds -> OpRows]
    BY SetOpType
  <2> QED
    BY <2>1
<1>2. \A m \in OpIds : m # o => ops'[m] = ops[m]
  OBVIOUS
<1>3. /\ ops'[o].status = s
      /\ ops'[o].kind = ops[o].kind /\ ops'[o].entry = ops[o].entry
      /\ ops'[o].file = ops[o].file /\ ops'[o].dest = ops[o].dest
  <2>1. ops[o] \in OpRows
    OBVIOUS
  <2>2. \/ ops'[o] = [ops[o] EXCEPT !.status = s]
        \/ ops'[o] = [ops[o] EXCEPT !.error = e] /\ s = ops[o].status
        \/ ops'[o] = [ops[o] EXCEPT !.status = s, !.error = e]
    OBVIOUS
  <2> QED
    BY ONLY <2>1, <2>2 DEF OpRows
<1>4. RowsKept
  BY <1>2, <1>3 DEF RowsKept
<1> QED
  BY <1>1, <1>2, <1>3, <1>4 DEF Interrupted

\* The same for the steps that set a status alone.
LEMMA SetStatusFacts ==
  ASSUME ops \in [OpIds -> OpRows], NEW o \in OpIds, NEW s \in OpStatuses,
         SetStatus(o, s)
  PROVE  /\ ops' \in [OpIds -> OpRows]
         /\ RowsKept
         /\ s \notin InFlight => Interrupted' = Interrupted \ {o}
         /\ s \in InFlight => Interrupted' = Interrupted \cup {o}
<1>1. "none" \in OpErrors
  BY DEF OpErrors
<1> QED
  BY <1>1, SetRowFacts DEF SetStatus

\* The steps of a move, refused and unverified ones included.
LEMMA QuarantineInv ==
  ASSUME IInv, UNCHANGED budget, QuarantineStep \/ MoveUnverified
  PROVE  IInv'
<1> USE JournalAssumption
    DEF IInv, TypeOK, JournalTypeOK, OpsInv, RunInv, OneInterrupted,
        Interrupted, diskVars, journalVars, budget, ForwardPcs, FilePcs,
        RestoringPcs, QuarantinePcs, RestorePcs
<1>1. ASSUME NEW f \in Files, SkipProtected(f) PROVE IInv'
  <2>1. items' \in [OpIds -> [Files -> ItemRows]]
    BY <1>1, SetItemType DEF SkipProtected, SetItem, ItemStatuses
  <2> QED
    BY <1>1, <2>1 DEF SkipProtected, RunStates
<1>2. ASSUME NEW f \in Files, RefuseSource(f) PROVE IInv'
  <2>1. items' \in [OpIds -> [Files -> ItemRows]]
    BY <1>2, SetItemType DEF RefuseSource, SetItem, ItemStatuses
  <2> QED
    BY <1>2, <2>1 DEF RefuseSource, RunStates
<1>3. ASSUME NEW f \in Files, RecordIntent(f) PROVE IInv'
  <2>1. disk[Orig(f)] \in Objects
    BY <1>3 DEF RecordIntent
  <2>2. items' \in [OpIds -> [Files -> ItemRows]]
    BY <1>3, <2>1 DEF RecordIntent, ItemRows, ItemStatuses
  <2>3. /\ run' \in RunStates
        /\ run'.pc = "q_rename" /\ run'.op = run.op
        /\ run'.file = f /\ run'.bound = Orig(f)
    BY <1>3, PathFacts DEF RecordIntent, RunStates, Pcs
  <2> QED
    BY <1>3, <2>2, <2>3 DEF RecordIntent
<1>4. ASSUME MoveToHolding \/ MoveUnverified PROVE IInv'
  <2>1. /\ run.op \in OpIds /\ run.file \in Files /\ run.op \in Interrupted
    BY <1>4 DEF MoveToHolding, MoveUnverified
  <2>2. disk' \in [Paths -> Objects \cup {None}] /\ rootDir' \in BOOLEAN
    BY <1>4, <2>1, PathFacts, RenameKeepsObjects DEF MoveToHolding, MoveUnverified
  <2>3. /\ run' \in RunStates
        /\ run'.pc \in {"q_item_done", "q_item_failed"}
        /\ run'.op = run.op /\ run'.file = run.file
    BY <1>4, UnbindType DEF MoveToHolding, MoveUnverified, Pcs
  <2> QED
    BY <1>4, <2>1, <2>2, <2>3 DEF MoveToHolding, MoveUnverified
<1>5. CASE MoveRefused
  <2>1. /\ run' \in RunStates
        /\ run'.pc = "q_item_failed"
        /\ run'.op = run.op /\ run'.file = run.file
    BY <1>5 DEF MoveRefused, RunStates, Pcs
  <2> QED
    BY <1>5, <2>1 DEF MoveRefused
<1>6. CASE MarkItemFailed
  <2>1. items' \in [OpIds -> [Files -> ItemRows]]
    BY <1>6, SetItemType DEF MarkItemFailed, SetItem, ItemStatuses
  <2>2. run' \in RunStates /\ run'.pc = "q_item" /\ run'.op = run.op
    BY <1>6, NextItemType DEF MarkItemFailed
  <2> QED
    BY <1>6, <2>1, <2>2 DEF MarkItemFailed
<1>7. CASE MarkItemDone
  <2>1. items[run.op][run.file].expected \in Objects \cup {None}
    BY <1>7 DEF MarkItemDone, ItemRows
  <2>2. items' \in [OpIds -> [Files -> ItemRows]]
    <3> DEFINE e == items[run.op][run.file].expected
    <3>1. items' = [items EXCEPT ![run.op][run.file].status = "done",
                                 ![run.op][run.file].result = e]
      BY <1>7 DEF MarkItemDone
    <3>2. run.op \in OpIds /\ run.file \in Files
      BY <1>7 DEF MarkItemDone
    <3>3. "done" \in ItemStatuses
      BY DEF ItemStatuses
    <3>4. items \in [OpIds -> [Files -> ItemRows]]
      OBVIOUS
    <3>5. e \in Objects \cup {None}
      BY <2>1
    <3> HIDE DEF e
    <3> QED
      BY ONLY <3>1, <3>2, <3>3, <3>4, <3>5, SetResultType
  <2>3. /\ run' \in RunStates
        /\ run'.pc = "q_entry"
        /\ run'.op = run.op /\ run'.file = run.file
    BY <1>7, GotoType DEF MarkItemDone, Pcs
  <2> QED
    BY <1>7, <2>2, <2>3 DEF MarkItemDone
<1>8. CASE InsertEntry
  <2>1. entries' \in [OpIds -> [Files -> EntryStatuses]]
    BY <1>8 DEF InsertEntry, EntryStatuses
  <2>2. run' \in RunStates /\ run'.pc = "q_item" /\ run'.op = run.op
    BY <1>8, NextItemType DEF InsertEntry
  <2> QED
    BY <1>8, <2>1, <2>2 DEF InsertEntry
<1>9. CASE RecordCleanup
  <2>1. run' \in RunStates /\ run'.pc = "q_rmdir" /\ run'.op = run.op
    BY <1>9, GotoType DEF RecordCleanup, Pcs
  <2> QED
    BY <1>9, <2>1 DEF RecordCleanup, ItemStatuses
<1>10. CASE RemoveFolder \/ RemoveFolderRefused
  <2>1. /\ run' \in RunStates /\ run'.op = run.op
        /\ run'.pc \in {"q_rmdir_done", "q_rmdir_failed"}
    BY <1>10, GotoType DEF RemoveFolder, RemoveFolderRefused, Pcs
  <2> QED
    BY <1>10, <2>1 DEF RemoveFolder, RemoveFolderRefused
<1>11. CASE RecordCleanupOutcome
  <2>1. run' \in RunStates /\ run'.pc = "q_item" /\ run'.op = run.op
    BY <1>11 DEF RecordCleanupOutcome, RunStates, Pcs
  <2> QED
    BY <1>11, <2>1 DEF RecordCleanupOutcome, ItemStatuses
<1>12. CASE FinishMove
  <2>1. PICK s \in {"failed", "done"} : SetStatus(run.op, s)
    BY <1>12 DEF FinishMove
  <2>2. run' \in RunStates /\ run'.pc = "idle"
    BY <1>12, IdleType DEF FinishMove
  <2>3. run.op \in OpIds /\ s \in OpStatuses /\ s \notin InFlight
    BY <1>12 DEF FinishMove, OpStatuses, InFlight
  <2>4. /\ ops' \in [OpIds -> OpRows] /\ RowsKept
        /\ Interrupted' = Interrupted \ {run.op}
    BY ONLY <2>1, <2>3, SetStatusFacts, ops \in [OpIds -> OpRows]
  <2> QED
    BY <1>12, <2>2, <2>4 DEF FinishMove, RowsKept
<1> QED
  BY <1>1, <1>2, <1>3, <1>4, <1>5, <1>6, <1>7, <1>8, <1>9, <1>10, <1>11,
     <1>12 DEF QuarantineStep

\* The paths a restore renames between.
LEMMA RestorePaths ==
  ASSUME OpsInv, NEW r \in OpIds, ops[r].kind = "restore"
  PROVE  /\ RestoreSource(r) \in Paths /\ RestoreSource(r) \notin UserPaths
         /\ ops[r].dest \in Paths /\ ops[r].dest \in UserPaths
  BY PathFacts DEF OpsInv, RestoreSource

\* The steps of a restore, refused and unverified ones included.
LEMMA RestoreInv ==
  ASSUME IInv, UNCHANGED budget, RestoreStep \/ RestoreUnverified
  PROVE  IInv'
<1> USE JournalAssumption
    DEF IInv, TypeOK, JournalTypeOK, OpsInv, RunInv, OneInterrupted,
        diskVars, journalVars, budget, ForwardPcs, FilePcs,
        RestoringPcs, QuarantinePcs, RestorePcs
<1>1. ASSUME MoveToDestination \/ RestoreUnverified PROVE IInv'
  <2>1. run.op \in OpIds /\ ops[run.op].kind = "restore"
    BY <1>1 DEF MoveToDestination, RestoreUnverified
  <2>2. Rename(RestoreSource(run.op), ops[run.op].dest)
    BY <1>1 DEF MoveToDestination, RestoreUnverified
  <2>3. disk' \in [Paths -> Objects \cup {None}] /\ rootDir' \in BOOLEAN
    BY <2>1, <2>2, RestorePaths, RenameKeepsObjects
  <2>4. /\ run' \in RunStates
        /\ run'.pc \in {"r_verifying", "r_item_failed"}
        /\ run'.op = run.op /\ run'.file = run.file
    BY <1>1, UnbindType DEF MoveToDestination, RestoreUnverified, Pcs
  <2> QED
    BY <1>1, <2>1, <2>3, <2>4
       DEF MoveToDestination, RestoreUnverified, Interrupted
<1>2. CASE RestoreRefused
  <2>1. /\ run' \in RunStates
        /\ run'.pc = "r_item_failed"
        /\ run'.op = run.op /\ run'.file = run.file
    BY <1>2, UnbindType DEF RestoreRefused, Pcs
  <2> QED
    BY <1>2, <2>1 DEF RestoreRefused, Interrupted
<1>3. CASE MarkVerifying
  <2>1. run.op \in Interrupted /\ run.op \in OpIds
    BY <1>3 DEF MarkVerifying
  <2>2. SetStatus(run.op, "verifying")
    BY <1>3 DEF MarkVerifying
  <2>3. "verifying" \in OpStatuses /\ "verifying" \in InFlight
    BY DEF OpStatuses, InFlight
  <2>4. /\ ops' \in [OpIds -> OpRows] /\ RowsKept
        /\ Interrupted' = Interrupted \cup {run.op}
    BY ONLY <2>1, <2>2, <2>3, SetStatusFacts, ops \in [OpIds -> OpRows]
  <2>5. /\ run' \in RunStates /\ run'.pc = "r_result"
        /\ run'.op = run.op /\ run'.file = run.file
    BY <1>3, GotoType DEF MarkVerifying, Pcs
  <2> QED
    BY <1>3, <2>1, <2>4, <2>5 DEF MarkVerifying, RowsKept
<1>4. CASE RecordResult
  <2>1. run.op \in OpIds /\ run.file \in Files
    BY <1>4 DEF RecordResult
  <2>2. items[run.op][run.file].expected \in Objects \cup {None}
    BY <2>1 DEF ItemRows
  <2>3. items' \in [OpIds -> [Files -> ItemRows]]
    <3> DEFINE e == items[run.op][run.file].expected
    <3>1. items' = [items EXCEPT ![run.op][run.file].result = e]
      BY <1>4 DEF RecordResult
    <3>2. "done" \in ItemStatuses
      BY DEF ItemStatuses
    <3>3. e \in Objects \cup {None}
      BY <2>2
    <3> HIDE DEF e
    <3> QED
      BY ONLY <2>1, <3>1, <3>2, <3>3, SetResultType,
              items \in [OpIds -> [Files -> ItemRows]]
  <2>4. /\ run' \in RunStates /\ run'.pc = "r_item_done"
        /\ run'.op = run.op /\ run'.file = run.file
    BY <1>4, GotoType DEF RecordResult, Pcs
  <2> QED
    BY <1>4, <2>3, <2>4 DEF RecordResult, Interrupted
<1>5. CASE MarkRestoreItemDone \/ MarkRestoreItemFailed
  <2>1. items' \in [OpIds -> [Files -> ItemRows]]
    <3>1. run.op \in OpIds /\ run.file \in Files
      BY <1>5 DEF MarkRestoreItemDone, MarkRestoreItemFailed
    <3>2. PICK s \in ItemStatuses : SetItem(run.op, run.file, s)
      BY <1>5 DEF MarkRestoreItemDone, MarkRestoreItemFailed, ItemStatuses
    <3> QED
      BY <3>1, <3>2, SetItemType DEF SetItem
  <2>2. /\ run' \in RunStates /\ run'.pc \in {"r_entry", "r_failed"}
        /\ run'.op = run.op /\ run'.file = run.file
    BY <1>5, GotoType DEF MarkRestoreItemDone, MarkRestoreItemFailed, Pcs
  <2> QED
    BY <1>5, <2>1, <2>2
       DEF MarkRestoreItemDone, MarkRestoreItemFailed, Interrupted
<1>6. CASE MarkEntryRestored
  <2>1. entries' \in [OpIds -> [Files -> EntryStatuses]]
    BY <1>6 DEF MarkEntryRestored, EntryStatuses
  <2>2. /\ run' \in RunStates /\ run'.pc = "r_done"
        /\ run'.op = run.op /\ run'.file = run.file
    BY <1>6, GotoType DEF MarkEntryRestored, Pcs
  <2> QED
    BY <1>6, <2>1, <2>2 DEF MarkEntryRestored, Interrupted
<1>7. CASE FinishRestore \/ FailRestore
  <2>1. run.op \in OpIds
    BY <1>7 DEF FinishRestore, FailRestore
  <2>2. PICK s \in {"done", "failed"} :
          \/ ops' = [ops EXCEPT ![run.op].status = s]
          \/ ops' = [ops EXCEPT ![run.op].status = s,
                                ![run.op].error = "move_failed"]
    BY <1>7 DEF FinishRestore, FailRestore, SetStatus
  <2>3. /\ s \in OpStatuses /\ s \notin InFlight
        /\ "move_failed" \in OpErrors
    BY DEF OpStatuses, InFlight, OpErrors
  <2>4. /\ ops' \in [OpIds -> OpRows] /\ RowsKept
        /\ Interrupted' = Interrupted \ {run.op}
    BY ONLY <2>1, <2>2, <2>3, SetRowFacts, ops \in [OpIds -> OpRows]
  <2>5. run' \in RunStates /\ run'.pc = "idle"
    BY <1>7, IdleType DEF FinishRestore, FailRestore
  <2> QED
    BY <1>7, <2>4, <2>5 DEF FinishRestore, FailRestore, RowsKept
<1> QED
  BY <1>1, <1>2, <1>3, <1>4, <1>5, <1>6, <1>7 DEF RestoreStep

\* ItemSettled sends recovery to the next row of the operation.
LEMMA ItemSettledType ==
  ASSUME run \in RunStates, NEW f, ItemSettled(f)
  PROVE  run' \in RunStates /\ run'.pc = "v_item" /\ run'.op = run.op
  BY DEF ItemSettled, RunStates, Pcs, RecoveryPcs

\* OperationSettled sends recovery to the next operation of its list.
LEMMA SettledType ==
  ASSUME run \in RunStates, run.op \in OpIds, OperationSettled
  PROVE  run' \in RunStates /\ run'.pc = "v_next"
  BY DEF OperationSettled, RunStates, Pcs, RecoveryPcs

\* SettleRestore takes up one interrupted restore and records a verdict.
LEMMA SettleRestoreType ==
  ASSUME run \in RunStates, ops \in [OpIds -> OpRows], NEW r \in OpIds,
         SettleRestore(r)
  PROVE  /\ run' \in RunStates /\ run'.op = r /\ run'.file = ops[r].file
         /\ run'.pc \in {"v_restore_op", "v_restore_entry"}
<1> DEFINE found == RestoreFinding(r)
           pc == IF found = "ambiguous" THEN "v_restore_op"
                                        ELSE "v_restore_entry"
           verdict == CASE found = "completed" -> "completed"
                        [] found = "held" -> "held"
                        [] found = "content_mismatch" -> "mismatch"
                        [] OTHER -> "abandoned"
           file == ops[r].file
<1>1. run' = [run EXCEPT !.op = r, !.file = file, !.pc = pc,
                         !.verdict = verdict]
  BY DEF SettleRestore
<1>2. pc \in {"v_restore_op", "v_restore_entry"} /\ verdict \in Verdicts
  BY DEF Verdicts
<1>3. file \in Files \cup {None} /\ r \in 0..MaxOps
  BY JournalAssumption DEF OpRows, OpIds
<1> HIDE DEF found, pc, verdict, file
<1>4. /\ run' \in RunStates /\ run'.op = r /\ run'.file = file
      /\ run'.pc = pc
  BY <1>1, <1>2, <1>3 DEF RunStates, Pcs, RecoveryPcs
<1> QED
  BY <1>2, <1>4 DEF file

\* What is left unresolved keeps blocking.
LEMMA UnresolvedFacts ==
  ASSUME ops \in [OpIds -> OpRows], run \in RunStates, run.op \in OpIds,
         NEW f, Unresolved(f)
  PROVE  /\ ops' \in [OpIds -> OpRows] /\ RowsKept
         /\ Interrupted' = Interrupted
         /\ run' \in RunStates /\ run'.pc = run.pc /\ run'.op = run.op
         /\ UNCHANGED <<items, dirItem, entries, backups>>
<1>1. /\ ops' = [ops EXCEPT ![run.op].error = "unproved"]
      /\ UNCHANGED <<items, dirItem, entries, backups>>
      /\ run' \in RunStates /\ run'.pc = run.pc /\ run'.op = run.op
  BY DEF Unresolved, RunStates
<1>2. ops[run.op].status \in OpStatuses /\ "unproved" \in OpErrors
  BY DEF OpRows, OpErrors
<1>3. /\ ops' \in [OpIds -> OpRows] /\ RowsKept
      /\ Interrupted' \in {Interrupted \ {run.op}, Interrupted \cup {run.op}}
      /\ ops'[run.op].status = ops[run.op].status
  BY <1>1, <1>2, SetRowFacts
<1>4. Interrupted' = Interrupted
  BY <1>1, <1>3 DEF Interrupted
<1> QED
  BY <1>1, <1>3, <1>4

\* The steps of recovery, the failing probes included.
LEMMA RecoveryInv ==
  ASSUME IInv, UNCHANGED budget,
         \/ RecoveryStep
         \/ \E f \in Files : ReturnUnverified(f) \/ ItemProbeFails(f) \/ EntryProbeFails(f)
         \/ \E o \in OpIds : RestoreProbeFails(o)
  PROVE  IInv'
<1> USE JournalAssumption
    DEF IInv, TypeOK, JournalTypeOK, OpsInv, RunInv, OneInterrupted,
        diskVars, journalVars, budget, ForwardPcs, FilePcs,
        RestoringPcs, QuarantinePcs, RestorePcs
<1>1. CASE RecoverBegin \/ RecoverReturn
  <2>1. run' \in RunStates /\ run'.pc \in {"v_next", "idle"}
    <3>1. CASE RecoverBegin
      BY <3>1, IdleType DEF RecoverBegin, RunStates, Pcs, RecoveryPcs
    <3>2. CASE RecoverReturn
      BY <3>2, IdleType DEF RecoverReturn
    <3> QED
      BY <1>1, <3>1, <3>2
  <2> QED
    BY <1>1, <2>1 DEF RecoverBegin, RecoverReturn, Interrupted
<1>2. ASSUME NEW o \in OpIds, RecoverOperation(o) PROVE IInv'
  <2>1. run' \in RunStates /\ run'.pc = "v_item" /\ run'.op = o
    <3> DEFINE rows == {f \in Files : items[o][f].status \in {"pending", "done"}}
    <3>1. run' = [run EXCEPT !.pc = "v_item", !.op = o, !.todo = rows,
                             !.proof = rows, !.resolved = TRUE]
      BY <1>2 DEF RecoverOperation
    <3>2. rows \in SUBSET Files /\ o \in 0..MaxOps
      BY DEF OpIds
    <3> HIDE DEF rows
    <3> QED
      BY <3>1, <3>2 DEF RunStates, Pcs, RecoveryPcs
  <2> QED
    BY <1>2, <2>1 DEF RecoverOperation, Interrupted
<1>3. ASSUME NEW f \in Files, ReturnHeld(f) PROVE IInv'
  <2>1. run.op \in OpIds /\ Rename(Held(run.op, f), Orig(f))
    BY <1>3 DEF ReturnHeld, AtItem
  <2>2. disk' \in [Paths -> Objects \cup {None}] /\ rootDir' \in BOOLEAN
    BY <2>1, PathFacts, RenameKeepsObjects
  <2>3. /\ run' \in RunStates /\ run'.pc = "v_returned"
        /\ run'.op = run.op /\ run'.file = f
    BY <1>3 DEF ReturnHeld, RunStates, Pcs, RecoveryPcs
  <2> QED
    BY <1>3, <2>1, <2>2, <2>3 DEF ReturnHeld, Interrupted
<1>4. CASE MarkReturned \/ MarkExposed
  <2>1. run.op \in OpIds /\ run.file \in Files
    BY <1>4 DEF MarkReturned, MarkExposed
  <2>2. PICK s \in ItemStatuses : SetItem(run.op, run.file, s)
    BY <1>4 DEF MarkReturned, MarkExposed, ItemStatuses
  <2>3. items' \in [OpIds -> [Files -> ItemRows]]
    BY <2>1, <2>2, SetItemType DEF SetItem
  <2>4. run' \in RunStates /\ run'.pc = "v_item" /\ run'.op = run.op
    BY <1>4, ItemSettledType DEF MarkReturned, MarkExposed
  <2> QED
    BY <1>4, <2>1, <2>3, <2>4 DEF MarkReturned, MarkExposed, Interrupted
<1>5. ASSUME NEW f \in Files, AlreadyReturned(f) PROVE IInv'
  <2>1. run.op \in OpIds /\ SetItem(run.op, f, "rolled_back")
    BY <1>5 DEF AlreadyReturned, AtItem
  <2>2. items' \in [OpIds -> [Files -> ItemRows]]
    BY <2>1, SetItemType DEF SetItem, ItemStatuses
  <2>3. run' \in RunStates /\ run'.pc = "v_item" /\ run'.op = run.op
    BY <1>5, ItemSettledType DEF AlreadyReturned
  <2> QED
    BY <1>5, <2>1, <2>2, <2>3 DEF AlreadyReturned, Interrupted
<1>6. ASSUME NEW f \in Files, ExposeHeldCopy(f) PROVE IInv'
  <2>1. entries' \in [OpIds -> [Files -> EntryStatuses]]
    BY <1>6 DEF ExposeHeldCopy, EntryStatuses
  <2>2. /\ run' \in RunStates /\ run'.pc = "v_exposed"
        /\ run'.op = run.op /\ run'.file = f
    BY <1>6 DEF ExposeHeldCopy, RunStates, Pcs, RecoveryPcs
  <2> QED
    BY <1>6, <2>1, <2>2 DEF ExposeHeldCopy, AtItem, Interrupted
<1>7. ASSUME NEW f \in Files,
             \/ LeaveUnresolved(f) \/ ItemProbeFails(f)
             \/ EntryWithoutProof(f) \/ EntryProbeFails(f)
      PROVE  IInv'
  <2>1. run.op \in OpIds /\ Unresolved(f) /\ UNCHANGED diskVars
    BY <1>7 DEF LeaveUnresolved, ItemProbeFails, EntryWithoutProof,
                EntryProbeFails, AtItem, AtEntry
  <2>2. run.pc \in {"v_item", "v_entry"}
    BY <1>7 DEF LeaveUnresolved, ItemProbeFails, EntryWithoutProof,
                EntryProbeFails, AtItem, AtEntry
  <2>3. /\ ops' \in [OpIds -> OpRows] /\ RowsKept
        /\ Interrupted' = Interrupted
        /\ run' \in RunStates /\ run'.pc = run.pc /\ run'.op = run.op
        /\ UNCHANGED <<items, dirItem, entries, backups>>
    BY <2>1, UnresolvedFacts
  <2> QED
    BY <2>1, <2>2, <2>3 DEF RowsKept
<1>8. ASSUME NEW f \in Files, ReturnUnverified(f) PROVE IInv'
  <2>1. /\ run.op \in OpIds /\ run.pc = "v_item"
        /\ Rename(Held(run.op, f), Orig(f)) /\ Unresolved(f)
    BY <1>8 DEF ReturnUnverified, AtItem
  <2>2. disk' \in [Paths -> Objects \cup {None}] /\ rootDir' \in BOOLEAN
    BY <2>1, PathFacts, RenameKeepsObjects
  <2>3. /\ ops' \in [OpIds -> OpRows] /\ RowsKept
        /\ Interrupted' = Interrupted
        /\ run' \in RunStates /\ run'.pc = run.pc /\ run'.op = run.op
        /\ UNCHANGED <<items, dirItem, entries, backups>>
    BY <2>1, UnresolvedFacts
  <2> QED
    BY <2>1, <2>2, <2>3 DEF RowsKept
<1>9. CASE ItemsDone
  <2>1. run' \in RunStates /\ run'.pc = "v_entry" /\ run'.op = run.op
    BY <1>9 DEF ItemsDone, RunStates, Pcs, RecoveryPcs
  <2> QED
    BY <1>9, <2>1 DEF ItemsDone, Interrupted
<1>10. ASSUME NEW f \in Files, ReconcileEntry(f) PROVE IInv'
  <2>1. entries' \in [OpIds -> [Files -> EntryStatuses]]
    BY <1>10 DEF ReconcileEntry, EntryStatuses
  <2>2. run' \in RunStates /\ run'.pc = "v_entry" /\ run'.op = run.op
    BY <1>10 DEF ReconcileEntry, AtEntry, RunStates
  <2> QED
    BY <1>10, <2>1, <2>2 DEF ReconcileEntry, AtEntry, Interrupted
<1>11. CASE KeepInterrupted
  <2>1. run' \in RunStates /\ run'.pc = "v_next"
    BY <1>11, SettledType DEF KeepInterrupted
  <2> QED
    BY <1>11, <2>1 DEF KeepInterrupted, Interrupted
<1>12. CASE RollBackCleanup
  <2>1. run' \in RunStates /\ run'.pc = "v_close" /\ run'.op = run.op
    BY <1>12, GotoType DEF RollBackCleanup, Pcs, RecoveryPcs
  <2>2. dirItem' \in [OpIds -> ItemStatuses]
    BY <1>12 DEF RollBackCleanup, ItemStatuses
  <2> QED
    BY <1>12, <2>1, <2>2 DEF RollBackCleanup, Interrupted
<1>13. CASE CloseRolledBack \/ SettleOperation
  <2>1. run.op \in OpIds /\ OperationSettled
    BY <1>13 DEF CloseRolledBack, SettleOperation
  <2>2. PICK s \in {"done", "failed", "rolled_back"} : SetStatus(run.op, s)
    BY <1>13 DEF CloseRolledBack, SettleOperation
  <2>3. s \in OpStatuses /\ s \notin InFlight
    BY DEF OpStatuses, InFlight
  <2>4. /\ ops' \in [OpIds -> OpRows] /\ RowsKept
        /\ Interrupted' = Interrupted \ {run.op}
    BY ONLY <2>1, <2>2, <2>3, SetStatusFacts, ops \in [OpIds -> OpRows]
  <2>5. run' \in RunStates /\ run'.pc = "v_next"
    BY <2>1, SettledType
  <2> QED
    BY <1>13, <2>4, <2>5 DEF CloseRolledBack, SettleOperation, RowsKept
<1>14. ASSUME NEW r \in OpIds, SurfaceRestore(r) \/ RestoreProbeFails(r)
       PROVE  IInv'
  <2>1. run.pc = "v_next" /\ r \in Interrupted
    BY <1>14 DEF SurfaceRestore, RestoreProbeFails, AtRestore, IsFirst, Pending
  <2>2. PICK s \in InFlight, e \in OpErrors :
          \/ ops' = [ops EXCEPT ![r].error = e] /\ s = ops[r].status
          \/ ops' = [ops EXCEPT ![r].status = s, ![r].error = e]
    <3>1. CASE SurfaceRestore(r)
      BY <3>1 DEF SurfaceRestore, Surfaced, InFlight, OpErrors
    <3>2. CASE RestoreProbeFails(r)
      BY <2>1, <3>2 DEF RestoreProbeFails, InFlight, OpErrors, Interrupted
    <3> QED
      BY <1>14, <3>1, <3>2
  <2>3. s \in OpStatuses
    BY DEF OpStatuses
  <2>4. /\ ops' \in [OpIds -> OpRows] /\ RowsKept
        /\ Interrupted' = Interrupted \cup {r}
    BY <2>2, <2>3, SetRowFacts
  <2>5. run' \in RunStates /\ run'.pc = "v_next"
    <3>1. run' = [run EXCEPT !.seen = @ \cup {r}]
      BY <1>14 DEF SurfaceRestore, RestoreProbeFails
    <3> QED
      BY <2>1, <3>1 DEF RunStates
  <2> QED
    BY <1>14, <2>1, <2>4, <2>5 DEF SurfaceRestore, RestoreProbeFails, RowsKept
<1>15. ASSUME NEW r \in OpIds, SettleRestore(r) PROVE IInv'
  <2>1. ops[r].kind = "restore" /\ r \in Interrupted
    BY <1>15 DEF SettleRestore, AtRestore, IsFirst, Pending
  <2>2. /\ run' \in RunStates /\ run'.op = r /\ run'.file = ops[r].file
        /\ run'.pc \in {"v_restore_op", "v_restore_entry"}
    BY <1>15, <2>1, SettleRestoreType
  <2> QED
    BY <1>15, <2>1, <2>2 DEF SettleRestore, Interrupted
<1>16. CASE SettleEntry
  <2>1. entries' \in [OpIds -> [Files -> EntryStatuses]]
    BY <1>16 DEF SettleEntry, EntryStatuses
  <2>2. /\ run' \in RunStates /\ run'.pc = "v_restore_item"
        /\ run'.op = run.op /\ run'.file = run.file
    BY <1>16, GotoType DEF SettleEntry, Pcs, RecoveryPcs
  <2> QED
    BY <1>16, <2>1, <2>2 DEF SettleEntry, Interrupted
<1>17. CASE SettleItem
  <2>1. run.op \in OpIds /\ run.file \in Files
    BY <1>17 DEF SettleItem
  <2>2. PICK s \in ItemStatuses : SetItem(run.op, run.file, s)
    BY <1>17 DEF SettleItem, ItemStatuses
  <2>3. items' \in [OpIds -> [Files -> ItemRows]]
    BY <2>1, <2>2, SetItemType DEF SetItem
  <2>4. /\ run' \in RunStates /\ run'.pc = "v_restore_op"
        /\ run'.op = run.op
    BY <1>17, GotoType DEF SettleItem, Pcs, RecoveryPcs
  <2> QED
    BY <1>17, <2>3, <2>4 DEF SettleItem, Interrupted
<1>18. CASE RecoverFinish
  <2>1. run' \in RunStates /\ run'.pc = "v_end"
    BY <1>18, GotoType DEF RecoverFinish, Pcs, RecoveryPcs
  <2> QED
    BY <1>18, <2>1 DEF RecoverFinish, Interrupted
<1> QED
  BY <1>1, <1>2, <1>3, <1>4, <1>5, <1>6, <1>7, <1>8, <1>9, <1>10, <1>11,
     <1>12, <1>13, <1>14, <1>15, <1>16, <1>17, <1>18 DEF RecoveryStep

\* A crash only stops the executor.
LEMMA CrashInv == IInv /\ Crash => IInv'
<1> SUFFICES ASSUME IInv, Crash PROVE IInv'
  OBVIOUS
<1>1. run' \in RunStates /\ run'.pc = "idle"
  BY IdleType DEF Crash
<1>2. crashes' \in 0..MaxCrashes
  BY PipelineAssumption DEF Crash, IInv, TypeOK
<1> QED
  BY <1>1, <1>2
     DEF Crash, IInv, TypeOK, JournalTypeOK, OpsInv, RunInv, OneInterrupted,
         Interrupted, diskVars, journalVars, ForwardPcs, FilePcs,
         RestoringPcs, QuarantinePcs, RestorePcs

\* A user's change touches the disk alone, and not the path kept bound.
LEMMA UserChange ==
  ASSUME IInv, UserStep
  PROVE  \E kind \in Meddles, p \in Paths :
           /\ Meddle(kind, p)
           /\ disk' \in [Paths -> Objects \cup {None}] /\ rootDir' \in BOOLEAN
           /\ \A q \in Paths : q # p => disk'[q] = disk[q]
<1> USE DEF IInv, TypeOK, JournalTypeOK
<1>1. PICK p \in Paths :
        \/ \E x \in Objects : UserCreates(p, x) \/ UserReplaces(p, x)
        \/ \E q \in Paths : UserLinks(q, p)
        \/ UserDeletes(p)
  BY DEF UserStep
<1>2. PICK kind \in Meddles : Meddle(kind, p)
  BY <1>1 DEF UserCreates, UserReplaces, UserLinks, UserDeletes, Meddle
<1>3. PICK x \in Objects \cup {None} : disk' = [disk EXCEPT ![p] = x]
  <2>1. ASSUME NEW q \in Paths, UserLinks(q, p)
        PROVE  disk' = [disk EXCEPT ![p] = disk[q]] /\ disk[q] \in Objects
    BY <2>1 DEF UserLinks
  <2> QED
    BY <1>1, <2>1 DEF UserCreates, UserReplaces, UserDeletes
<1>4. rootDir' \in BOOLEAN
  <2>1. \/ rootDir' = rootDir \/ rootDir' = (rootDir \/ p.at = "original")
    BY <1>1 DEF UserCreates, UserReplaces, UserLinks, UserDeletes, Meddle
  <2> QED
    BY <2>1
<1> QED
  BY <1>2, <1>3, <1>4

\* Whatever the user changes outside the application, IInv survives.
LEMMA UserInv == IInv /\ UserStep => IInv'
<1> SUFFICES ASSUME IInv, UserStep PROVE IInv'
  OBVIOUS
<1>1. PICK kind \in Meddles, p \in Paths :
        /\ Meddle(kind, p)
        /\ disk' \in [Paths -> Objects \cup {None}] /\ rootDir' \in BOOLEAN
        /\ \A q \in Paths : q # p => disk'[q] = disk[q]
  BY UserChange
<1>2. UNCHANGED <<ops, items, dirItem, entries, backups, run, crashes>>
  BY <1>1 DEF Meddle, journalVars
<1>3. meddling' \in 0..MaxMeddling
  BY <1>1, PipelineAssumption DEF Meddle, IInv, TypeOK
<1>4. TypeOK'
  BY <1>1, <1>2, <1>3 DEF IInv, TypeOK, JournalTypeOK
<1>5. OpsInv' /\ OneInterrupted'
  BY <1>2 DEF IInv, OpsInv, OneInterrupted, Interrupted
<1>6. RunInv'
  <2>1. ASSUME run.pc = "q_rename"
        PROVE  disk'[Orig(run.file)] = disk[Orig(run.file)]
    BY <1>1, <2>1, PathFacts DEF Meddle, IInv, RunInv, FilePcs
  <2> QED
    BY <1>2, <2>1 DEF IInv, RunInv, Interrupted
<1> QED
  BY <1>4, <1>5, <1>6 DEF IInv

\* IInv is inductive: every step, and every stutter, preserves it.
LEMMA StepInv == IInv /\ [Next]_vars => IInv'
<1> SUFFICES ASSUME IInv, [Next]_vars PROVE IInv'
  OBVIOUS
<1>1. CASE Request /\ UNCHANGED budget
  BY <1>1, RequestInv
<1>2. CASE Fault /\ UNCHANGED budget
  <2>1. \/ QuarantineStep \/ MoveUnverified
        \/ RestoreStep \/ RestoreUnverified
        \/ \E f \in Files : ReturnUnverified(f) \/ ItemProbeFails(f) \/ EntryProbeFails(f)
        \/ \E o \in OpIds : RestoreProbeFails(o)
    BY <1>2 DEF Fault, ProbeFault, QuarantineStep, RestoreStep
  <2> QED
    BY <1>2, <2>1, QuarantineInv, RestoreInv, RecoveryInv
<1>3. CASE ProgramStep
  BY <1>3, QuarantineInv, RestoreInv, RecoveryInv DEF ProgramStep
<1>4. CASE Crash
  BY <1>4, CrashInv
<1>5. CASE UserStep
  BY <1>5, UserInv
<1>6. CASE UNCHANGED vars
  BY <1>6 DEF vars, IInv, TypeOK, JournalTypeOK, OpsInv, RunInv,
              OneInterrupted, Interrupted
<1> QED
  BY <1>1, <1>2, <1>3, <1>4, <1>5, <1>6 DEF Next

\* The journal, the executor and the disk stay related as IInv says in every
\* reachable state, for all constants.
THEOREM Invariance == Spec => []IInv
  BY InitInv, StepInv, PTL DEF Spec

-----------------------------------------------------------------------------
(* The theorems.                                                           *)

\* Every journal row, every path and the executor's record keep their types,
\* whatever the crashes, faults and user changes.
THEOREM Typing == Spec => []TypeOK
  BY Invariance, PTL DEF IInv

\* ensure_no_pending_recovery and the exclusive gate keep at most one
\* operation unfinished: crashes never pile up operations.
THEOREM OneInterruptedTheorem == Spec => []OneInterrupted
  BY Invariance, PTL DEF IInv

-----------------------------------------------------------------------------
(* What a step does to the disk.                                           *)

ToHolding ==
  /\ run.pc = "q_rename" /\ run.op \in OpIds /\ run.file \in Files
  /\ Rename(Orig(run.file), Held(run.op, run.file))

FromHolding ==
  \E o \in OpIds, f \in Files : \E p \in UserPaths : Rename(Held(o, f), p)

\* An executor, crashed or not, changes the disk by a move into the holding
\* area or by one out of it, and forgets no backup.
LEMMA DiskSteps ==
  ASSUME IInv, [Next]_vars
  PROVE  \/ UserStep
         \/ /\ UNCHANGED disk \/ ToHolding \/ FromHolding
            /\ \A f \in Files : backups[f] \subseteq backups'[f]
<1> USE DEF diskVars, journalVars
<1>1. CASE Request
  BY <1>1 DEF Request, BackupStart, MoveStart, RestoreStart,
              IInv, TypeOK, JournalTypeOK
<1>2. CASE QuarantineStep \/ MoveUnverified
  <2>1. CASE MoveToHolding \/ MoveUnverified
    BY <2>1 DEF MoveToHolding, MoveUnverified, ToHolding, IInv, RunInv,
                FilePcs, QuarantinePcs
  <2> QED
    BY <1>2, <2>1
       DEF QuarantineStep, SkipProtected, RefuseSource, RecordIntent,
           MoveRefused, MarkItemFailed, MarkItemDone, InsertEntry,
           RecordCleanup, RemoveFolder, RemoveFolderRefused,
           RecordCleanupOutcome, FinishMove
<1>3. CASE RestoreStep \/ RestoreUnverified
  <2>1. CASE MoveToDestination \/ RestoreUnverified
    <3>1. /\ run.op \in OpIds /\ ops[run.op].kind = "restore"
          /\ Rename(RestoreSource(run.op), ops[run.op].dest)
      BY <2>1 DEF MoveToDestination, RestoreUnverified, IInv, RunInv,
                  RestoringPcs, RestorePcs
    <3>2. FromHolding
      BY <3>1 DEF FromHolding, RestoreSource, IInv, OpsInv
    <3> QED
      BY <2>1, <3>2 DEF MoveToDestination, RestoreUnverified
  <2> QED
    BY <1>3, <2>1
       DEF RestoreStep, RestoreRefused, MarkVerifying, RecordResult,
           MarkRestoreItemDone, MarkEntryRestored, FinishRestore,
           MarkRestoreItemFailed, FailRestore
<1>4. CASE \E f \in Files : ReturnHeld(f) \/ ReturnUnverified(f)
  <2>1. PICK f \in Files : ReturnHeld(f) \/ ReturnUnverified(f)
    BY <1>4
  <2>2. run.op \in OpIds /\ Rename(Held(run.op, f), Orig(f))
    BY <2>1 DEF ReturnHeld, ReturnUnverified, AtItem, IInv, RunInv
  <2>3. FromHolding
    BY <2>2, PathFacts DEF FromHolding
  <2> QED
    BY <2>1, <2>3 DEF ReturnHeld, ReturnUnverified, Unresolved
<1>5. CASE \/ RecoveryStep
           \/ \E f \in Files : ItemProbeFails(f) \/ EntryProbeFails(f)
           \/ \E o \in OpIds : RestoreProbeFails(o)
  BY <1>4, <1>5
     DEF RecoveryStep, RecoverBegin, RecoverOperation, AlreadyReturned,
         ExposeHeldCopy, LeaveUnresolved, ReconcileEntry, EntryWithoutProof,
         ItemProbeFails, EntryProbeFails, RestoreProbeFails, Unresolved,
         MarkReturned, MarkExposed, ItemsDone, KeepInterrupted,
         RollBackCleanup, CloseRolledBack, SurfaceRestore, SettleRestore,
         SettleEntry, SettleItem, SettleOperation, RecoverFinish,
         RecoverReturn
<1>6. CASE Crash \/ UNCHANGED vars
  BY <1>6 DEF Crash, vars
<1> QED
  BY <1>1, <1>2, <1>3, <1>4, <1>5, <1>6
     DEF Next, Fault, ProbeFault, ProgramStep, QuarantineStep, RestoreStep

\* No executor overwrites an occupant or drops a copy: only the user makes
\* an object vanish.
THEOREM NothingDestroyedTheorem == Spec => NothingDestroyed
<1>1. ASSUME IInv, [Next]_vars
      PROVE  [OnDisk \subseteq OnDisk' \/ meddling' # meddling]_vars
  <2>1. CASE UserStep
    <3>1. meddling' = meddling + 1 /\ meddling \in Nat
      BY <1>1, <2>1, UserChange, PipelineAssumption DEF Meddle, IInv, TypeOK
    <3> QED
      BY <3>1
  <2>2. CASE UNCHANGED disk
    BY <2>2 DEF OnDisk
  <2>3. CASE ToHolding
    BY <1>1, <2>3, PathFacts, RenameKeepsObjects
       DEF ToHolding, IInv, TypeOK, JournalTypeOK
  <2>4. CASE FromHolding
    BY <1>1, <2>4, PathFacts, RenameKeepsObjects
       DEF FromHolding, IInv, TypeOK, JournalTypeOK
  <2> QED
    BY <1>1, <2>1, <2>2, <2>3, <2>4, DiskSteps
<1> QED
  BY <1>1, Invariance, PTL DEF Spec, NothingDestroyed

\* What a move puts in the holding area is an object that a verified backup
\* covers, and it stays covered through crashes, rollbacks and restores: for
\* every user who does not write in the holding area.
THEOREM HeldIsBackedUpTheorem ==
  ASSUME "holding" \notin Reach
  PROVE  Spec => []HeldIsBackedUp
<1>1. Init => HeldIsBackedUp
  <2> SUFFICES ASSUME Init, NEW o \in OpIds, NEW f \in Files
               PROVE  disk[Held(o, f)] = None
    BY DEF HeldIsBackedUp
  <2> QED
    BY PathFacts DEF Init, JournalInit, Held
<1>2. IInv /\ HeldIsBackedUp /\ [Next]_vars => HeldIsBackedUp'
  <2> SUFFICES ASSUME IInv, HeldIsBackedUp, [Next]_vars,
                      NEW o \in OpIds, NEW f \in Files,
                      disk'[Held(o, f)] # None
               PROVE  disk'[Held(o, f)] \in backups'[f]
    BY DEF HeldIsBackedUp
  <2> USE DEF IInv, TypeOK, JournalTypeOK
  <2>1. CASE UserStep
    <3>1. PICK kind \in Meddles, p \in Paths :
            Meddle(kind, p) /\ \A q \in Paths : q # p => disk'[q] = disk[q]
      BY <2>1, UserChange
    <3>2. Held(o, f) # p
      BY <3>1 DEF Meddle, Held
    <3>3. UNCHANGED backups
      BY <3>1 DEF Meddle, journalVars
    <3> QED
      BY <3>1, <3>2, <3>3, PathFacts DEF HeldIsBackedUp
  <2>2. CASE UNCHANGED disk /\ \A g \in Files : backups[g] \subseteq backups'[g]
    BY <2>2 DEF HeldIsBackedUp
  <2>3. CASE ToHolding /\ \A g \in Files : backups[g] \subseteq backups'[g]
    <3>1. /\ run.op \in OpIds /\ run.file \in Files
          /\ disk[Orig(run.file)] \in backups[run.file]
      BY <2>3 DEF ToHolding, RunInv
    <3>2. /\ disk'[Held(run.op, run.file)] = disk[Orig(run.file)]
          /\ \A p \in Paths \ {Orig(run.file), Held(run.op, run.file)} :
               disk'[p] = disk[p]
      BY <2>3, <3>1, PathFacts, RenameKeepsObjects DEF ToHolding
    <3>3. CASE Held(o, f) = Held(run.op, run.file)
      <4>1. f = run.file
        BY <3>3 DEF Held
      <4> QED
        BY <2>3, <3>1, <3>2, <3>3, <4>1
    <3>4. CASE Held(o, f) # Held(run.op, run.file)
      BY <2>3, <3>1, <3>2, <3>4, PathFacts DEF HeldIsBackedUp
    <3> QED
      BY <3>3, <3>4
  <2>4. CASE FromHolding /\ \A g \in Files : backups[g] \subseteq backups'[g]
    <3>1. PICK o2 \in OpIds, f2 \in Files :
            \E p \in UserPaths : Rename(Held(o2, f2), p)
      BY <2>4 DEF FromHolding
    <3>2. PICK p \in UserPaths : Rename(Held(o2, f2), p)
      BY <3>1
    <3>3. /\ disk'[Held(o2, f2)] = None
          /\ \A q \in Paths \ {Held(o2, f2), p} : disk'[q] = disk[q]
      BY <3>2, PathFacts, RenameKeepsObjects
    <3> QED
      BY <2>4, <3>3, PathFacts DEF HeldIsBackedUp
  <2> QED
    BY <2>1, <2>2, <2>3, <2>4, DiskSteps
<1> QED
  BY <1>1, <1>2, Invariance, PTL DEF Spec

=============================================================================
