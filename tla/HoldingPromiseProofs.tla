------------------------ MODULE HoldingPromiseProofs -------------------------
(***************************************************************************)
(* What the holding area promises its user, proved of HoldingPipeline for  *)
(* all files, objects, operations, crashes and changes of the user:        *)
(*                                                                         *)
(*   TrackInv    HeldIsTracked made inductive: no held copy is forgotten,  *)
(*   WhereInv    where the object of every listed entry is, from which     *)
(*               ListedIsRestorable and RestoredIsBack follow,             *)
(*   CleanupInv  what the remove_dir rows may say, for CleanupRowTruthful, *)
(*                                                                         *)
(* and the refinement of HoldingPromise, which needs TrackInv alone.  Each *)
(* invariant is a conjunction of parts about the tables and parts about    *)
(* one executor; a part about another executor is left alone by a step.    *)
(* The lemmas named ...Effect say once what each action changes.           *)
(***************************************************************************)
EXTENDS HoldingPipelineProofs

\* Where recovery handles the rows of an interrupted move, its entries, and
\* a restore's entry, row and operation.
Returning == {"v_item", "v_returned", "v_exposed"}
ReversalPcs == Returning \cup {"v_entry", "v_close"}
SettlingPcs == {"v_restore_entry", "v_restore_item", "v_restore_op"}

\* Where a restore's object has left the holding area.
ArrivedPcs == {"r_verifying", "r_result", "r_item_done", "r_entry", "r_done"}

\* A path of the holding area in use, an entry the restore page shows, and a
\* row that recovery looks at.
Occupied(o, f) == disk[Held(o, f)] # None
Listed(o, f) == entries[o][f] = "quarantined"
Open(o, f) == items[o][f].status \in {"pending", "done"}

\* What the tables say in every state: a held copy is the object its move's
\* row expects, a recorded result is the expected object, an unused operation
\* has no rows, and only moves own entries.
RowsInv ==
  \A o \in OpIds, f \in Files :
    /\ Occupied(o, f) => /\ ops[o].kind = "quarantine"
                         /\ disk[Held(o, f)] = items[o][f].expected
    /\ items[o][f].result \in {None, items[o][f].expected}
    /\ ops[o].kind = "none" =>
         ops[o].status = "none" /\ items[o][f] = NoItem /\ dirItem[o] = "none"
    /\ ops[o].kind # "quarantine" => entries[o][f] = "none"

\* An unfinished restore expects the object of the move whose entry it serves.
RestoreRowsInv ==
  \A r \in Interrupted :
    ops[r].kind = "restore" =>
      LET o == ops[r].entry  f == ops[r].file IN
        /\ ops[o].kind = "quarantine"
        /\ items[r][f].expected = items[o][f].expected
        /\ items[r][f].expected # None

\* A running move: what it has put in the holding area is listed or is the
\* file in its hands, and the rows it has still to write are empty.
MoveInv ==
  run.pc \in QuarantinePcs =>
    /\ ops[run.op].kind = "quarantine"
    /\ \A f \in Files :
         /\ Occupied(run.op, f) =>
              \/ Listed(run.op, f)
              \/ f = run.file /\ run.pc \in {"q_item_done", "q_entry"}
         /\ f \in run.todo /\ f # run.file =>
              ~Occupied(run.op, f) /\ items[run.op][f] = NoItem
    /\ run.pc \notin FilePcs => run.file = None
    /\ run.pc \in FilePcs => run.file \in run.todo
    /\ run.pc \in {"q_rename", "q_item_failed"} => ~Occupied(run.op, run.file)
    /\ run.pc \in {"q_rename", "q_item_done", "q_item_failed"} =>
         items[run.op][run.file].status = "pending"
    /\ run.pc = "q_rename" =>
         items[run.op][run.file].expected = disk[Orig(run.file)]

\* A running restore, or recovery settling one: where its object is.
RestoringInv ==
  /\ run.pc \in RestoringPcs => run.file = ops[run.op].file
  /\ run.pc \in SettlingPcs => run.op \in Interrupted
  /\ run.pc = "r_rename" => items[run.op][run.file].status = "pending"
  /\ run.pc = "r_rename" => disk[RestoreSource(run.op)] = items[run.op][run.file].expected
  /\ run.pc \in ArrivedPcs => disk[RestoreSource(run.op)] = None
  /\ run.pc \in SettlingPcs /\ run.verdict # "held" =>
       disk[RestoreSource(run.op)] = None
  /\ run.pc = "v_restore_entry" => run.verdict # "abandoned"

\* Recovery reversing a move: as long as it has found everything resolved,
\* each held copy is listed or still to be looked at.
ReverseInv ==
  run.pc \in ReversalPcs =>
    /\ run.op \in Interrupted
    /\ ops[run.op].kind = "quarantine"
    /\ run.resolved =>
         \A f \in Files : Occupied(run.op, f) =>
           Listed(run.op, f) \/ (run.pc \in Returning /\ f \in run.todo)
    /\ run.pc = "v_close" => run.resolved
    /\ run.pc \in Returning => \A f \in run.todo : Open(run.op, f)
    /\ run.pc = "v_returned" => ~Occupied(run.op, run.file)
    /\ run.pc = "v_exposed" => Listed(run.op, run.file)

\* The inductive form of HeldIsTracked.  HeldIsTracked alone is not inductive:
\* a move inserts its entry, and recovery closes an operation, on the strength
\* of what the executor remembers (todo, file, resolved) about rows and disk.
TrackInv ==
  /\ RowsInv /\ RestoreRowsInv /\ HeldIsTracked
  /\ MoveInv /\ RestoringInv /\ ReverseInv

\* An object is at one path: no copies and no hard links.
Unique == \A p, q \in Paths : p # q /\ disk[p] # None => disk[p] # disk[q]

\* The object of an unfinished restore is at its held path or has arrived.
RestoreWhere ==
  \A r \in Interrupted :
    ops[r].kind = "restore" =>
      LET o == ops[r].entry  f == ops[r].file  x == items[r][f].expected IN
        /\ ops[r].dest \in {Orig(f), Folder(f)}
        /\ items[o][f].status = "done" /\ items[o][f].result = x
        /\ entries[o][f] \in {"quarantined", "restored"}
        /\ disk[Held(o, f)] = x \/ disk[ops[r].dest] = x
        /\ entries[o][f] = "restored" => ~Occupied(o, f)

\* What a running restore, or recovery settling one, may rely on.
RestoreAt ==
  /\ run.pc \in {"r_rename", "r_item_failed", "r_failed"} =>
       /\ disk[RestoreSource(run.op)] = items[run.op][run.file].expected
       /\ Listed(ops[run.op].entry, run.file)
  /\ run.pc = "r_done" => entries[ops[run.op].entry][run.file] = "restored"
  /\ run.pc \in SettlingPcs => run.verdict \in {"held", "completed"}
  /\ run.pc \in SettlingPcs /\ run.verdict = "held" =>
       disk[RestoreSource(run.op)] = items[run.op][run.file].expected
  /\ run.pc \in {"v_restore_item", "v_restore_op"} =>
       entries[ops[run.op].entry][run.file] =
         IF run.verdict = "held" THEN "quarantined" ELSE "restored"

\* The entry is in the hands of an unfinished restore.
Claimed(o, f) ==
  \E r \in Interrupted :
    ops[r].kind = "restore" /\ ops[r].entry = o /\ ops[r].file = f

\* Where the object of a listed entry is, also in the middle of an operation.
ListedInv ==
  \A o \in OpIds, f \in Files : Listed(o, f) =>
    /\ items[o][f].expected # None
    /\ \/ /\ items[o][f].status = "done"
          /\ items[o][f].result = items[o][f].expected
          /\ \/ disk[Held(o, f)] = items[o][f].expected
             \/ Claimed(o, f)
             \/ o \in Interrupted /\ disk[Orig(f)] = items[o][f].expected
       \/ items[o][f].status = "rolled_back" /\ o \in Interrupted /\ ~Occupied(o, f)

\* A row that recovery looks at expects an object.
OpenInv == \A o \in OpIds, f \in Files : Open(o, f) => items[o][f].expected # None

\* What a running move has listed is recorded and in the holding area.
MoveWhere ==
  run.pc \in QuarantinePcs =>
    /\ \A f \in Files : Listed(run.op, f) =>
         /\ items[run.op][f].status = "done"
         /\ items[run.op][f].result = items[run.op][f].expected
         /\ disk[Held(run.op, f)] = items[run.op][f].expected
    /\ run.pc \in {"q_item_done", "q_entry"} =>
         disk[Held(run.op, run.file)] = items[run.op][run.file].expected
    /\ run.pc = "q_entry" =>
         /\ items[run.op][run.file].status = "done"
         /\ items[run.op][run.file].result = items[run.op][run.file].expected

\* Recovery has brought the file back, or it never left.
Returned(f) ==
  /\ items[run.op][f].status = "rolled_back"
  /\ ~Occupied(run.op, f) /\ FromMatches(run.op, f)

\* Recovery reversing a move, with the rows it read at the start as proof:
\* the ones it is done with are back, and only then are entries struck off.
ReverseWhere ==
  run.pc \in ReversalPcs =>
    /\ run.pc # "v_exposed"
    /\ run.pc \in Returning =>
         /\ run.todo \subseteq run.proof
         /\ \A f \in Files \ run.proof : ~Open(run.op, f)
         /\ run.resolved => \A f \in run.proof \ run.todo : Returned(f)
    /\ run.pc = "v_returned" => FromMatches(run.op, run.file)
    /\ run.pc = "v_entry" /\ run.resolved =>
         /\ \A f \in Files : Listed(run.op, f) => f \in run.todo
         /\ \A f \in run.proof : Returned(f)
    /\ run.pc = "v_close" => \A f \in Files : ~Listed(run.op, f)

\* A file at an original path has its folder around it.
FolderInv == \A f \in Files : disk[Orig(f)] # None => rootDir

\* A remove_dir row of an unfinished move: the folder is there, or a row is
\* open whose file recovery will bring back, and the folder with it.
CleanupRows ==
  /\ \A o \in OpIds : ops[o].kind # "quarantine" => dirItem[o] = "none"
  /\ \A o \in Interrupted :
       /\ dirItem[o] \in {"pending", "done"} => rootDir \/ \E f \in Files : Open(o, f)
       /\ dirItem[o] = "rolled_back" => rootDir

\* The cleanup of the folder, from the intent to its outcome.
RmdirPcs == {"q_rmdir", "q_rmdir_done", "q_rmdir_failed"}

\* A running move cleans up last, and only when it has moved a file.
CleanupMove ==
  run.pc \in QuarantinePcs =>
    /\ ops[run.op].kind = "quarantine"
    /\ run.pc \in FilePcs => run.file \in run.todo
    /\ run.moved => \E f \in Files \ run.todo : items[run.op][f].status = "done"
    /\ run.pc = "q_entry" => items[run.op][run.file].status = "done"
    /\ run.pc \in RmdirPcs => run.moved /\ dirItem[run.op] = "pending"
    /\ run.pc \notin RmdirPcs => dirItem[run.op] \in {"none", "done", "failed"}
    /\ dirItem[run.op] # "none" => run.todo = {}

\* Recovery reversing a move: the folder is back once a file is, and the
\* remove_dir row is settled before the operation is closed.
CleanupReverse ==
  run.pc \in ReversalPcs =>
    /\ run.op \in Interrupted /\ ops[run.op].kind = "quarantine"
    /\ run.pc \in {"v_returned", "v_exposed"} => rootDir
    /\ run.pc # "v_close" /\ run.resolved /\ dirItem[run.op] \in {"pending", "done"} =>
         \/ rootDir
         \/ run.proof # {} /\ run.pc \in Returning /\ run.proof \subseteq run.todo
    /\ run.pc = "v_close" =>
         /\ dirItem[run.op] \notin {"pending", "done"}
         /\ dirItem[run.op] = "rolled_back" => rootDir

\* The inductive form of what CleanupRowTruthful needs before a step.
CleanupInv == FolderInv /\ CleanupRows /\ CleanupMove /\ CleanupReverse

-----------------------------------------------------------------------------

\* A step leaves every other row alone.
SameRows(o, f) ==
  \A m \in OpIds, g \in Files : m # o \/ g # f => items'[m][g] = items[m][g]

\* A step sets the status of one row and nothing else of the item table.
RowGets(o, f, s) ==
  /\ items'[o][f].status = s
  /\ items'[o][f].expected = items[o][f].expected
  /\ items'[o][f].result = items[o][f].result
  /\ SameRows(o, f)

\* What SetItem does to the item table.
LEMMA SetItemFacts ==
  ASSUME items \in [OpIds -> [Files -> ItemRows]],
         NEW o \in OpIds, NEW f \in Files, NEW s, SetItem(o, f, s)
  PROVE  RowGets(o, f, s)
<1>1. items[o][f] \in ItemRows
  OBVIOUS
<1>2. /\ items'[o][f] = [items[o][f] EXCEPT !.status = s]
      /\ \A m \in OpIds, g \in Files : m # o \/ g # f => items'[m][g] = items[m][g]
  BY DEF SetItem
<1> QED
  BY <1>1, <1>2 DEF RowGets, SameRows, ItemRows

\* What recording a status with its result does.
LEMMA MarkDoneFacts ==
  ASSUME items \in [OpIds -> [Files -> ItemRows]],
         NEW o \in OpIds, NEW f \in Files, NEW s, NEW e,
         items' = [items EXCEPT ![o][f].status = s, ![o][f].result = e]
  PROVE  /\ items'[o][f].status = s
         /\ items'[o][f].expected = items[o][f].expected
         /\ items'[o][f].result = e
         /\ SameRows(o, f)
<1>1. items[o][f] \in ItemRows
  OBVIOUS
<1>2. /\ items'[o][f] = [items[o][f] EXCEPT !.status = s, !.result = e]
      /\ SameRows(o, f)
  BY DEF SameRows
<1> QED
  BY <1>1, <1>2 DEF ItemRows

\* The result alone.
LEMMA ResultFacts ==
  ASSUME items \in [OpIds -> [Files -> ItemRows]],
         NEW o \in OpIds, NEW f \in Files, NEW e,
         items' = [items EXCEPT ![o][f].result = e]
  PROVE  /\ items'[o][f].status = items[o][f].status
         /\ items'[o][f].expected = items[o][f].expected
         /\ items'[o][f].result = e
         /\ SameRows(o, f)
<1>1. items[o][f] \in ItemRows
  OBVIOUS
<1>2. /\ items'[o][f] = [items[o][f] EXCEPT !.result = e]
      /\ SameRows(o, f)
  BY DEF SameRows
<1> QED
  BY <1>1, <1>2 DEF ItemRows

\* A jump changes the executor's pc and nothing else of its record.
LEMMA GotoFacts ==
  ASSUME run \in RunStates, NEW pc, Goto(pc)
  PROVE  /\ run'.pc = pc /\ run'.op = run.op /\ run'.file = run.file
         /\ run'.todo = run.todo /\ run'.proof = run.proof
         /\ run'.resolved = run.resolved /\ run'.verdict = run.verdict
         /\ run'.moved = run.moved
  BY DEF Goto, RunStates

\* A status set in one row, and what it does to the unfinished operations.
LEMMA StatusFacts ==
  ASSUME ops \in [OpIds -> OpRows], NEW o \in OpIds, NEW s \in OpStatuses,
         SetStatus(o, s)
  PROVE  /\ RowsKept
         /\ ops'[o].status = s
         /\ \A m \in OpIds : m # o => ops'[m] = ops[m]
         /\ s \notin InFlight => Interrupted' = Interrupted \ {o}
         /\ s \in InFlight => Interrupted' = Interrupted \cup {o}
<1>1. "none" \in OpErrors
  BY DEF OpErrors
<1> QED
  BY <1>1, SetRowFacts DEF SetStatus

\* Paths of different kinds, operations or files differ.
LEMMA HeldPathFacts ==
  ASSUME NEW o \in OpIds, NEW f \in Files, NEW m \in OpIds, NEW g \in Files
  PROVE  /\ Held(o, f) \in Paths /\ Orig(f) \in Paths /\ Folder(f) \in Paths
         /\ Held(o, f) = Held(m, g) <=> o = m /\ f = g
         /\ Orig(f) = Orig(g) <=> f = g
         /\ Folder(f) = Folder(g) <=> f = g
         /\ Orig(f) # Held(m, g) /\ Folder(f) # Held(m, g)
         /\ Orig(f) # Folder(g)
  BY DEF Held, Orig, Folder, Paths, UserPaths, HeldPaths

\* A rename moves one object to a free path.
LEMMA RenameFacts ==
  ASSUME disk \in [Paths -> Objects \cup {None}],
         NEW from \in Paths, NEW to \in Paths, from # to, Rename(from, to)
  PROVE  /\ disk[to] = None
         /\ disk'[to] = disk[from] /\ disk'[from] = None
         /\ \A p \in Paths : p # from /\ p # to => disk'[p] = disk[p]
  BY DEF Rename, PathAbsent

-----------------------------------------------------------------------------

\* Nothing is held at the start.
LEMMA TrackInit == Init => TrackInv
<1> SUFFICES ASSUME Init PROVE TrackInv
  OBVIOUS
<1>1. \A o \in OpIds, f \in Files : disk[Held(o, f)] = None
  BY PathFacts DEF Init, JournalInit, Held
<1>2. run.pc = "idle" /\ Interrupted = {}
  BY DEF Init, JournalInit, Idle, Interrupted, NoOp, InFlight
<1>3. RowsInv
  BY <1>1 DEF RowsInv, Occupied, Init, JournalInit, NoOp, NoItem
<1>4. RestoreRowsInv /\ MoveInv /\ RestoringInv /\ ReverseInv
  BY <1>2 DEF RestoreRowsInv, MoveInv, RestoringInv, ReverseInv, QuarantinePcs,
              RestoringPcs, RestorePcs, SettlingPcs, ArrivedPcs, ReversalPcs, Returning
<1>5. HeldIsTracked
  BY <1>1 DEF HeldIsTracked
<1> QED
  BY <1>3, <1>4, <1>5 DEF TrackInv

\* A step that puts only what a move's row expects into the holding area,
\* writes no unused row and keeps what each row expects preserves RowsInv.
LEMMA RowsFrame ==
  ASSUME RowsInv,
         \A o \in OpIds, f \in Files :
           /\ disk'[Held(o, f)] # None =>
                \/ disk'[Held(o, f)] = disk[Held(o, f)]
                \/ ops[o].kind = "quarantine" /\ disk'[Held(o, f)] = items[o][f].expected
           /\ ops'[o].kind = ops[o].kind
           /\ items'[o][f].expected = items[o][f].expected
           /\ items'[o][f].result \in {items[o][f].result, items[o][f].expected}
           /\ ops[o].kind = "none" => /\ ops'[o] = ops[o]
                                      /\ items'[o][f] = items[o][f]
                                      /\ dirItem'[o] = dirItem[o]
           /\ ops[o].kind # "quarantine" => entries'[o][f] = entries[o][f]
  PROVE  RowsInv'
<1> SUFFICES ASSUME NEW o \in OpIds, NEW f \in Files
             PROVE  /\ disk'[Held(o, f)] # None =>
                         /\ ops'[o].kind = "quarantine"
                         /\ disk'[Held(o, f)] = items'[o][f].expected
                    /\ items'[o][f].result \in {None, items'[o][f].expected}
                    /\ ops'[o].kind = "none" =>
                         /\ ops'[o].status = "none" /\ items'[o][f] = NoItem
                         /\ dirItem'[o] = "none"
                    /\ ops'[o].kind # "quarantine" => entries'[o][f] = "none"
  BY DEF RowsInv, Occupied
<1> QED
  BY DEF RowsInv, Occupied

\* A step that takes up no operation and keeps the rows preserves
\* RestoreRowsInv.
LEMMA RestoreRowsFrame ==
  ASSUME RestoreRowsInv, OpsInv, RowsKept, Interrupted' \subseteq Interrupted,
         \A o \in OpIds, f \in Files : items'[o][f].expected = items[o][f].expected
  PROVE  RestoreRowsInv'
<1> SUFFICES ASSUME NEW r \in Interrupted', ops'[r].kind = "restore"
             PROVE  /\ ops'[ops'[r].entry].kind = "quarantine"
                    /\ items'[r][ops'[r].file].expected =
                         items'[ops'[r].entry][ops'[r].file].expected
                    /\ items'[r][ops'[r].file].expected # None
  BY DEF RestoreRowsInv
<1>1. r \in Interrupted /\ r \in OpIds
  BY DEF Interrupted
<1>2. /\ ops[r].kind = "restore" /\ ops'[r].entry = ops[r].entry
      /\ ops'[r].file = ops[r].file /\ ops[r].entry \in OpIds /\ ops[r].file \in Files
  BY <1>1 DEF RowsKept, OpsInv
<1>3. ops'[ops[r].entry].kind = ops[ops[r].entry].kind
  BY <1>2 DEF RowsKept
<1>4. /\ ops[ops[r].entry].kind = "quarantine"
      /\ items[r][ops[r].file].expected = items[ops[r].entry][ops[r].file].expected
      /\ items[r][ops[r].file].expected # None
  BY <1>1, <1>2 DEF RestoreRowsInv
<1>5. /\ items'[r][ops[r].file].expected = items[r][ops[r].file].expected
      /\ items'[ops[r].entry][ops[r].file].expected = items[ops[r].entry][ops[r].file].expected
  BY <1>1, <1>2
<1> QED
  BY <1>2, <1>3, <1>4, <1>5

\* Every step of a move preserves TrackInv.
LEMMA TrackQuarantine ==
  ASSUME IInv, TrackInv, QuarantineStep
  PROVE  TrackInv'
<1> USE DEF IInv, TypeOK, JournalTypeOK
<1>t. /\ RowsInv /\ RestoreRowsInv /\ MoveInv /\ HeldIsTracked
      /\ run.pc \in QuarantinePcs /\ run.op \in Interrupted /\ run.op \in OpIds
      /\ ops[run.op].kind = "quarantine" /\ run.todo \subseteq Files
  BY DEF TrackInv, RunStates, QuarantineStep, SkipProtected, RefuseSource, RecordIntent,
         MoveToHolding, MoveRefused, MarkItemFailed, MarkItemDone, InsertEntry,
         RecordCleanup, RemoveFolder, RemoveFolderRefused, RecordCleanupOutcome, 
         FinishMove, QuarantinePcs, MoveInv, RunInv, ForwardPcs
<1>r. \A r \in Interrupted : ops[r].kind # "restore"
  BY <1>t DEF OneInterrupted
<1>1. ASSUME NEW f \in Files, SkipProtected(f) \/ RefuseSource(f) PROVE TrackInv'
  <2>1. PICK s \in {"skipped", "failed"} : SetItem(run.op, f, s)
    BY <1>1 DEF SkipProtected, RefuseSource
  <2>2. RowGets(run.op, f, s)
    BY <1>t, <2>1, SetItemFacts
  <2>3. /\ run.pc = "q_item" /\ f \in run.todo 
        /\ run'.pc = "q_item" /\ run'.op = run.op /\ run'.file = run.file
        /\ run'.todo = run.todo \ {f}
        /\ UNCHANGED <<disk, ops, dirItem, entries>>
    BY <1>1 DEF SkipProtected, RefuseSource, RunStates, diskVars
  <2>4. run.file = None
    BY <2>3, <1>t DEF MoveInv, FilePcs, RestorePcs
  <2>5. ~Occupied(run.op, f) /\ items[run.op][f] = NoItem
    BY <2>3, <2>4, <1>t, JournalAssumption DEF MoveInv
  <2>6. RowsInv'
    BY <2>2, <2>3, <1>t DEF RowsInv, RowGets, SameRows, Occupied
  <2>7. RestoreRowsInv'
    BY <2>3, <1>r DEF RestoreRowsInv, Interrupted
  <2>8. MoveInv'
    BY <2>2, <2>3, <2>4, <1>t DEF MoveInv, RowGets, SameRows, Occupied, Listed, FilePcs, RestorePcs
  <2>9. RestoringInv' /\ ReverseInv'
    BY <2>3 DEF RestoringInv, ReverseInv, RestoringPcs, RestorePcs, SettlingPcs, ArrivedPcs, ReversalPcs, Returning
  <2>10. HeldIsTracked'
    BY <2>2, <2>3, <2>5, <1>t DEF HeldIsTracked, RowGets, SameRows, Interrupted, Occupied
  <2> QED
    BY <2>6, <2>7, <2>8, <2>9, <2>10 DEF TrackInv
<1>2. ASSUME NEW f \in Files, RecordIntent(f) PROVE TrackInv'
  <2>1. /\ run.pc = "q_item" /\ f \in run.todo 
        /\ run'.pc = "q_rename" /\ run'.op = run.op /\ run'.file = f
        /\ run'.todo = run.todo
        /\ UNCHANGED <<disk, ops, dirItem, entries>>
    BY <1>2 DEF RecordIntent, RunStates, diskVars
  <2>2. /\ items'[run.op][f].status = "pending"
        /\ items'[run.op][f].expected = disk[Orig(f)]
        /\ items'[run.op][f].result = None
        /\ SameRows(run.op, f)
    BY <1>t, <1>2 DEF RecordIntent, SameRows
  <2>4. run.file = None
    BY <2>1, <1>t DEF MoveInv, FilePcs, RestorePcs
  <2>5. ~Occupied(run.op, f)
    BY <2>1, <2>4, <1>t, JournalAssumption DEF MoveInv
  <2>6. RowsInv'
    BY <2>1, <2>2, <2>5, <1>t DEF RowsInv, SameRows, Occupied
  <2>7. RestoreRowsInv'
    BY <2>1, <1>r DEF RestoreRowsInv, Interrupted
  <2>8. MoveInv'
    BY <2>1, <2>2, <2>4, <2>5, <1>t, JournalAssumption DEF MoveInv, SameRows, Occupied, Listed, FilePcs, RestorePcs
  <2>9. RestoringInv' /\ ReverseInv'
    BY <2>1 DEF RestoringInv, ReverseInv, RestoringPcs, RestorePcs, SettlingPcs, ArrivedPcs, ReversalPcs, Returning
  <2>10. HeldIsTracked'
    BY <2>1, <2>2, <2>5, <1>t DEF HeldIsTracked, SameRows, Interrupted, Occupied
  <2> QED
    BY <2>6, <2>7, <2>8, <2>9, <2>10 DEF TrackInv
<1>3. CASE MoveToHolding
  <2>1. /\ run.pc = "q_rename" /\ run.file \in Files 
        /\ run'.pc = "q_item_done" /\ run'.op = run.op /\ run'.file = run.file
        /\ run'.todo = run.todo
        /\ UNCHANGED <<ops, items, dirItem, entries>>
    BY <1>3 DEF MoveToHolding, RunStates, journalVars, RunInv, FilePcs
  <2>2. /\ disk[Held(run.op, run.file)] = None
        /\ disk'[Held(run.op, run.file)] = disk[Orig(run.file)]
        /\ \A o \in OpIds, f \in Files : o # run.op \/ f # run.file =>
             disk'[Held(o, f)] = disk[Held(o, f)]
    BY <1>3, <1>t, <2>1, HeldPathFacts, RenameFacts DEF MoveToHolding
  <2>3. /\ items[run.op][run.file].status = "pending"
        /\ items[run.op][run.file].expected = disk[Orig(run.file)]
        /\ run.file \in run.todo
    BY <1>t, <2>1 DEF MoveInv, FilePcs
  <2>6. RowsInv'
    BY <2>1, <2>2, <2>3, <1>t, RowsFrame
  <2>7. RestoreRowsInv'
    BY <2>1, <1>t DEF RestoreRowsInv, Interrupted
  <2>8. MoveInv'
    BY <2>1, <2>2, <2>3, <1>t DEF MoveInv, Occupied, Listed, FilePcs, RestorePcs
  <2>9. RestoringInv' /\ ReverseInv'
    BY <2>1 DEF RestoringInv, ReverseInv, RestoringPcs, RestorePcs, SettlingPcs, ArrivedPcs, ReversalPcs, Returning
  <2>10. HeldIsTracked'
    BY <2>1, <2>2, <2>3, <1>t, ZenonT(60) DEF HeldIsTracked, Interrupted
  <2> QED
    BY <2>6, <2>7, <2>8, <2>9, <2>10 DEF TrackInv
<1>4. CASE MoveRefused
  <2>1. /\ run.pc = "q_rename" /\ run.file \in Files 
        /\ run'.pc = "q_item_failed" /\ run'.op = run.op /\ run'.file = run.file
        /\ run'.todo = run.todo
        /\ UNCHANGED <<disk, ops, items, dirItem, entries>>
    BY <1>4 DEF MoveRefused, RunStates, journalVars, diskVars, RunInv, FilePcs
  <2>6. RowsInv' /\ RestoreRowsInv' /\ HeldIsTracked'
    BY <2>1, <1>t DEF RowsInv, RestoreRowsInv, HeldIsTracked, Interrupted, Occupied
  <2>8. MoveInv'
    BY <2>1, <1>t DEF MoveInv, Occupied, Listed, FilePcs, RestorePcs
  <2>9. RestoringInv' /\ ReverseInv'
    BY <2>1 DEF RestoringInv, ReverseInv, RestoringPcs, RestorePcs, SettlingPcs, ArrivedPcs, ReversalPcs, Returning
  <2> QED
    BY <2>6, <2>8, <2>9 DEF TrackInv
<1>5. CASE MarkItemFailed
  <2>1. /\ run.pc = "q_item_failed" /\ run.file \in Files 
        /\ run'.pc = "q_item" /\ run'.op = run.op /\ run'.file = None
        /\ run'.todo = run.todo \ {run.file}
        /\ UNCHANGED <<disk, ops, dirItem, entries>>
    BY <1>5 DEF MarkItemFailed, NextItem, RunStates, diskVars, RunInv, FilePcs
  <2>2. RowGets(run.op, run.file, "failed")
    BY <1>t, <1>5, <2>1, SetItemFacts DEF MarkItemFailed
  <2>3. ~Occupied(run.op, run.file)
    BY <1>t, <2>1 DEF MoveInv
  <2>6. RowsInv'
    BY <2>1, <2>2, <1>t DEF RowsInv, RowGets, SameRows, Occupied
  <2>7. RestoreRowsInv'
    BY <2>1, <1>r DEF RestoreRowsInv, Interrupted
  <2>8. MoveInv'
    <3>1. \A f \in Files : f # run.file => items'[run.op][f] = items[run.op][f]
      BY <2>2, <1>t DEF RowGets, SameRows
    <3>2. \A f \in Files : Occupied(run.op, f) => Listed(run.op, f)
      BY <2>1, <2>3, <1>t DEF MoveInv
    <3>3. \A f \in run.todo \ {run.file} : ~Occupied(run.op, f) /\ items[run.op][f] = NoItem
      BY <2>1, <1>t DEF MoveInv
    <3> QED
      BY <2>1, <3>1, <3>2, <3>3, <1>t DEF MoveInv, Occupied, Listed, FilePcs, RestorePcs
  <2>9. RestoringInv' /\ ReverseInv'
    BY <2>1 DEF RestoringInv, ReverseInv, RestoringPcs, RestorePcs, SettlingPcs, ArrivedPcs, ReversalPcs, Returning
  <2>10. HeldIsTracked'
    BY <2>1, <2>2, <2>3, <1>t DEF HeldIsTracked, RowGets, SameRows, Interrupted, Occupied
  <2> QED
    BY <2>6, <2>7, <2>8, <2>9, <2>10 DEF TrackInv
<1>6. CASE MarkItemDone
  <2>1. /\ run.pc = "q_item_done" /\ run.file \in Files 
        /\ run'.pc = "q_entry" /\ run'.op = run.op /\ run'.file = run.file
        /\ run'.todo = run.todo
        /\ UNCHANGED <<disk, ops, dirItem, entries>>
    BY <1>6, GotoFacts, SMTT(30) DEF MarkItemDone, diskVars, RunInv, FilePcs
  <2>2. /\ items'[run.op][run.file].status = "done"
        /\ items'[run.op][run.file].expected = items[run.op][run.file].expected
        /\ items'[run.op][run.file].result = items[run.op][run.file].expected
        /\ SameRows(run.op, run.file)
    BY <1>t, <1>6, <2>1, MarkDoneFacts DEF MarkItemDone
  <2>6. RowsInv'
    BY <2>1, <2>2, <1>t DEF RowsInv, SameRows, Occupied
  <2>7. RestoreRowsInv'
    BY <2>1, <1>r DEF RestoreRowsInv, Interrupted
  <2>8. MoveInv'
    <3>1. \A f \in Files : f # run.file => items'[run.op][f] = items[run.op][f]
      BY <2>2, <1>t DEF SameRows
    <3>2. \A f \in Files : Occupied(run.op, f) => Listed(run.op, f) \/ f = run.file
      BY <2>1, <1>t DEF MoveInv
    <3>3. \A f \in run.todo \ {run.file} : ~Occupied(run.op, f) /\ items[run.op][f] = NoItem
      BY <2>1, <1>t DEF MoveInv
    <3> QED
      BY <2>1, <3>1, <3>2, <3>3, <1>t DEF MoveInv, Occupied, Listed, FilePcs, RestorePcs
  <2>9. RestoringInv' /\ ReverseInv'
    BY <2>1 DEF RestoringInv, ReverseInv, RestoringPcs, RestorePcs, SettlingPcs, ArrivedPcs, ReversalPcs, Returning
  <2>10. HeldIsTracked'
    BY <2>1, <2>2, <1>t DEF HeldIsTracked, SameRows, Interrupted
  <2> QED
    BY <2>6, <2>7, <2>8, <2>9, <2>10 DEF TrackInv
<1>7. CASE InsertEntry
  <2>1. /\ run.pc = "q_entry" /\ run.file \in Files 
        /\ run'.pc = "q_item" /\ run'.op = run.op /\ run'.file = None
        /\ run'.todo = run.todo \ {run.file}
        /\ UNCHANGED <<disk, ops, items, dirItem>>
    BY <1>7 DEF InsertEntry, NextItem, RunStates, diskVars, RunInv, FilePcs
  <2>2. /\ entries'[run.op][run.file] = "quarantined"
        /\ \A o \in OpIds, f \in Files : o # run.op \/ f # run.file => entries'[o][f] = entries[o][f]
    BY <1>t, <1>7, <2>1 DEF InsertEntry
  <2>6. RowsInv' /\ RestoreRowsInv'
    BY <2>1, <2>2, <1>t DEF RowsInv, RestoreRowsInv, Occupied, Interrupted
  <2>8. MoveInv'
    BY <2>1, <2>2, <1>t DEF MoveInv, Occupied, Listed, FilePcs, RestorePcs
  <2>9. RestoringInv' /\ ReverseInv'
    BY <2>1 DEF RestoringInv, ReverseInv, RestoringPcs, RestorePcs, SettlingPcs, ArrivedPcs, ReversalPcs, Returning
  <2>10. HeldIsTracked'
    BY <2>1, <2>2, <1>t DEF HeldIsTracked, Interrupted
  <2> QED
    BY <2>6, <2>8, <2>9, <2>10 DEF TrackInv
<1>8. CASE RecordCleanup \/ RemoveFolder \/ RemoveFolderRefused \/ RecordCleanupOutcome
  <2>1. /\ run.pc \in {"q_item", "q_rmdir", "q_rmdir_done", "q_rmdir_failed"}
        /\ run'.pc \in {"q_item", "q_rmdir", "q_rmdir_done", "q_rmdir_failed"}
        /\ run'.op = run.op /\ run'.file = run.file
        /\ run'.todo = run.todo
        /\ UNCHANGED <<disk, ops, items, entries>>
    BY <1>8 DEF RecordCleanup, RemoveFolder, RemoveFolderRefused, RecordCleanupOutcome, RunStates, diskVars, journalVars, Goto
  <2>2. \A o \in OpIds : o # run.op => dirItem'[o] = dirItem[o]
    BY <1>8 DEF RecordCleanup, RemoveFolder, RemoveFolderRefused, RecordCleanupOutcome, journalVars
  <2>6. RowsInv' /\ RestoreRowsInv' /\ HeldIsTracked'
    BY <2>1, <2>2, <1>t DEF RowsInv, RestoreRowsInv, HeldIsTracked, Interrupted, Occupied
  <2>8. MoveInv'
    BY <2>1, <1>t DEF MoveInv, Occupied, Listed, FilePcs, RestorePcs
  <2>9. RestoringInv' /\ ReverseInv'
    BY <2>1 DEF RestoringInv, ReverseInv, RestoringPcs, RestorePcs, SettlingPcs, ArrivedPcs, ReversalPcs, Returning
  <2> QED
    BY <2>6, <2>8, <2>9 DEF TrackInv
<1>9. CASE FinishMove
  <2>1. PICK s \in {"failed", "done"} : SetStatus(run.op, s)
    BY <1>9 DEF FinishMove
  <2>2. /\ RowsKept /\ Interrupted' = Interrupted \ {run.op} /\ ops'[run.op].status = s
        /\ \A m \in OpIds : m # run.op => ops'[m] = ops[m]
    <3>1. s \in OpStatuses /\ s \notin InFlight
      BY DEF OpStatuses, InFlight
    <3>2. run.op \in OpIds
      BY <1>t
    <3> QED
      BY ONLY <2>1, <3>1, <3>2, StatusFacts, ops \in [OpIds -> OpRows]
  <2>3. /\ run.pc = "q_item" /\ run.todo = {} /\ run'.pc = "idle"
        /\ UNCHANGED <<disk, items, dirItem, entries>>
    BY <1>9, IdleType DEF FinishMove, diskVars
  <2>4. run.file = None
    BY <2>3, <1>t DEF MoveInv, FilePcs, RestorePcs
  <2>5. \A f \in Files : Occupied(run.op, f) => Listed(run.op, f)
    BY <2>3, <1>t DEF MoveInv
  <2>6. RowsInv'
    BY <2>2, <2>3, <1>t DEF RowsInv, RowsKept, Occupied
  <2>7. RestoreRowsInv'
    BY <2>2, <2>3, <1>t DEF RestoreRowsInv, RowsKept, OpsInv, Interrupted
  <2>8. MoveInv' /\ RestoringInv' /\ ReverseInv'
    BY <2>3 DEF MoveInv, QuarantinePcs, RestoringInv, ReverseInv, RestoringPcs, RestorePcs, SettlingPcs, ArrivedPcs, ReversalPcs, Returning
  <2>10. HeldIsTracked'
    BY <2>2, <2>3, <2>5, <1>t DEF HeldIsTracked, Occupied, Listed
  <2> QED
    BY <2>6, <2>7, <2>8, <2>10 DEF TrackInv
<1> QED
  BY <1>1, <1>2, <1>3, <1>4, <1>5, <1>6, <1>7, <1>8, <1>9 DEF QuarantineStep

\* Changes of a restore's row leave the journal's facts about moves alone.
LEMMA TrackRestore ==
  ASSUME IInv, TrackInv, RestoreStep
  PROVE  TrackInv'
<1> USE DEF IInv, TypeOK, JournalTypeOK
<1>t. /\ RowsInv /\ RestoreRowsInv /\ RestoringInv /\ HeldIsTracked
      /\ run.pc \in RestorePcs /\ run.op \in Interrupted /\ run.op \in OpIds
      /\ ops[run.op].kind = "restore" /\ run.file = ops[run.op].file
      /\ run.file \in Files /\ ops[run.op].entry \in OpIds
  BY DEF TrackInv, RestoreStep, MoveToDestination, RestoreRefused, MarkVerifying,
         RecordResult, MarkRestoreItemDone, MarkEntryRestored, FinishRestore,
         MarkRestoreItemFailed, FailRestore, RestorePcs, RestoringPcs, RestoringInv, RunInv, ForwardPcs,
         OpsInv, FilePcs
<1>r. \A f \in Files : disk[Held(run.op, f)] = None
  BY <1>t DEF RowsInv, Occupied
<1>1. CASE MoveToDestination
  <2>1. /\ run.pc = "r_rename"
        /\ run'.pc = "r_verifying" /\ run'.op = run.op /\ run'.file = run.file
        /\ UNCHANGED <<ops, items, dirItem, entries>>
    BY <1>1 DEF MoveToDestination, RunStates, journalVars
  <2>2. /\ disk'[RestoreSource(run.op)] = None
        /\ \A o \in OpIds, f \in Files :
             disk'[Held(o, f)] = disk[Held(o, f)] \/ disk'[Held(o, f)] = None
    <3>1. /\ RestoreSource(run.op) \in Paths /\ ops[run.op].dest \in Paths
          /\ RestoreSource(run.op) # ops[run.op].dest
          /\ ops[run.op].dest \in UserPaths
      BY <1>t, RestorePaths
    <3>2. /\ disk'[RestoreSource(run.op)] = None
          /\ \A p \in Paths : p # RestoreSource(run.op) /\ p # ops[run.op].dest => disk'[p] = disk[p]
      BY <1>1, <3>1, RenameFacts DEF MoveToDestination
    <3> QED
      BY <3>1, <3>2, PathFacts
  <2>6. RowsInv'
    <3>1. \A o \in OpIds, f \in Files :
            disk'[Held(o, f)] # None => disk'[Held(o, f)] = disk[Held(o, f)]
      BY <2>2
    <3> QED
      BY <2>1, <3>1, <1>t, RowsFrame
  <2>7. RestoreRowsInv' /\ HeldIsTracked'
    BY <2>1, <2>2, <1>t DEF RestoreRowsInv, HeldIsTracked, Interrupted
  <2>8. RestoringInv'
    BY <2>1, <2>2, <1>t DEF RestoringInv, RestoreSource, ArrivedPcs, SettlingPcs
  <2>9. MoveInv' /\ ReverseInv'
    BY <2>1 DEF MoveInv, ReverseInv, QuarantinePcs, ReversalPcs, Returning
  <2> QED
    BY <2>6, <2>7, <2>8, <2>9 DEF TrackInv
<1>2. CASE RestoreRefused
  <2>1. /\ run.pc = "r_rename"
        /\ run'.pc = "r_item_failed" /\ run'.op = run.op /\ run'.file = run.file
        /\ UNCHANGED <<disk, ops, items, dirItem, entries>>
    BY <1>2 DEF RestoreRefused, RunStates, journalVars, diskVars
  <2>6. RowsInv' /\ RestoreRowsInv' /\ HeldIsTracked'
    BY <2>1, <1>t DEF RowsInv, RestoreRowsInv, HeldIsTracked, Interrupted, Occupied
  <2>8. RestoringInv'
    BY <2>1, <1>t DEF RestoringInv, RestoreSource, ArrivedPcs, SettlingPcs
  <2>9. MoveInv' /\ ReverseInv'
    BY <2>1 DEF MoveInv, ReverseInv, QuarantinePcs, ReversalPcs, Returning
  <2> QED
    BY <2>6, <2>8, <2>9 DEF TrackInv
<1>3. CASE MarkVerifying
  <2>1. /\ RowsKept /\ Interrupted' = Interrupted
        /\ \A m \in OpIds : m # run.op => ops'[m] = ops[m]
    <3>1. SetStatus(run.op, "verifying") /\ "verifying" \in OpStatuses /\ "verifying" \in InFlight
      BY <1>3 DEF MarkVerifying, OpStatuses, InFlight
    <3>2. run.op \in OpIds
      BY <1>t
    <3>3. /\ RowsKept /\ Interrupted' = Interrupted \cup {run.op}
          /\ \A m \in OpIds : m # run.op => ops'[m] = ops[m]
      BY ONLY <3>1, <3>2, StatusFacts, ops \in [OpIds -> OpRows]
    <3> QED
      BY <3>3, <1>t
  <2>2. /\ run.pc = "r_verifying" /\ run'.pc = "r_result" /\ run'.op = run.op /\ run'.file = run.file
        /\ UNCHANGED <<disk, items, dirItem, entries>>
    BY <1>3, GotoFacts DEF MarkVerifying, diskVars
  <2>6. RowsInv'
    BY <2>1, <2>2, <1>t DEF RowsInv, RowsKept, Occupied
  <2>7. RestoreRowsInv' /\ HeldIsTracked'
    <3>1. RestoreRowsInv'
      BY <2>1, <2>2, <1>t, RestoreRowsFrame
    <3>2. HeldIsTracked'
      BY <2>1, <2>2, <1>t DEF HeldIsTracked
    <3> QED
      BY <3>1, <3>2
  <2>8. RestoringInv'
    BY <2>1, <2>2, <1>t DEF RestoringInv, RowsKept, RestoreSource, ArrivedPcs, SettlingPcs
  <2>9. MoveInv' /\ ReverseInv'
    BY <2>2 DEF MoveInv, ReverseInv, QuarantinePcs, ReversalPcs, Returning
  <2> QED
    BY <2>6, <2>7, <2>8, <2>9 DEF TrackInv
<1>4. CASE RecordResult \/ MarkRestoreItemDone \/ MarkRestoreItemFailed
  <2>1. /\ run.pc \in {"r_result", "r_item_done", "r_item_failed"}
        /\ run'.pc \in {"r_item_done", "r_entry", "r_failed"}
        /\ run.pc \in ArrivedPcs <=> run'.pc \in ArrivedPcs
        /\ run'.op = run.op /\ run'.file = run.file
        /\ UNCHANGED <<disk, ops, dirItem, entries>>
    BY <1>4, GotoFacts, SMTT(30) DEF RecordResult, MarkRestoreItemDone, MarkRestoreItemFailed, diskVars, ArrivedPcs
  <2>2. /\ items'[run.op][run.file].expected = items[run.op][run.file].expected
        /\ items'[run.op][run.file].result \in {items[run.op][run.file].result, items[run.op][run.file].expected}
        /\ SameRows(run.op, run.file)
    <3>1. CASE RecordResult
      BY <3>1, <1>t, ResultFacts, ZenonT(60) DEF RecordResult
    <3>2. CASE MarkRestoreItemDone
      BY <3>2, <1>t, SetItemFacts DEF MarkRestoreItemDone, RowGets
    <3>3. CASE MarkRestoreItemFailed
      BY <3>3, <1>t, SetItemFacts DEF MarkRestoreItemFailed, RowGets
    <3> QED
      BY <1>4, <3>1, <3>2, <3>3, ZenonT(60)
  <2>3. \A o \in OpIds, f \in Files :
          /\ items'[o][f].expected = items[o][f].expected
          /\ items'[o][f].result \in {items[o][f].result, items[o][f].expected}
          /\ o # run.op => items'[o][f] = items[o][f]
    BY <2>2 DEF SameRows
  <2>6. RowsInv'
    <3>1. ops[run.op].kind = "restore"
      BY <1>t
    <3> QED
      BY <2>1, <2>3, <3>1, <1>t, RowsFrame
  <2>7. RestoreRowsInv'
    <3>1. Interrupted' = Interrupted /\ \A r \in Interrupted : r \in OpIds
      BY <2>1 DEF Interrupted
    <3>2. \A r \in Interrupted : ops[r].kind = "restore" =>
             ops[r].entry \in OpIds /\ ops[r].file \in Files
      BY <3>1 DEF OpsInv
    <3> QED
      BY <2>1, <2>3, <3>1, <3>2, <1>t, SMTT(30) DEF RestoreRowsInv
  <2>8. RestoringInv'
    BY <2>1, <2>2, <1>t DEF RestoringInv, RestoreSource, ArrivedPcs, SettlingPcs
  <2>9. MoveInv' /\ ReverseInv'
    BY <2>1, SMTT(30) DEF MoveInv, ReverseInv, QuarantinePcs, ReversalPcs, Returning
  <2>10. HeldIsTracked'
    BY <2>1, <2>2, <1>t, <1>r DEF HeldIsTracked, SameRows, Interrupted
  <2> QED
    BY <2>6, <2>7, <2>8, <2>9, <2>10 DEF TrackInv
<1>5. CASE MarkEntryRestored
  <2> DEFINE e == ops[run.op].entry
  <2>1. /\ run.pc = "r_entry" /\ run'.pc = "r_done" /\ run'.op = run.op /\ run'.file = run.file
        /\ UNCHANGED <<disk, ops, items, dirItem>>
    BY <1>5, GotoFacts DEF MarkEntryRestored, diskVars
  <2>2. /\ entries'[e][run.file] = "restored"
        /\ \A o \in OpIds, f \in Files : o # e \/ f # run.file => entries'[o][f] = entries[o][f]
    BY <1>5, <1>t DEF MarkEntryRestored
  <2>3. disk[Held(e, run.file)] = None
    BY <2>1, <1>t DEF RestoringInv, ArrivedPcs, RestoreSource
  <2>4. ops[e].kind = "quarantine"
    BY <1>t DEF RestoreRowsInv
  <2>5. e \in OpIds
    BY <1>t
  <2> HIDE DEF e
  <2>6. RowsInv'
    BY <2>1, <2>2, <2>4, <2>5, <1>t DEF RowsInv, Occupied
  <2>7. RestoreRowsInv'
    BY <2>1, <1>t DEF RestoreRowsInv, Interrupted
  <2>8. RestoringInv'
    BY <2>1, <1>t DEF RestoringInv, RestoreSource, ArrivedPcs, SettlingPcs
  <2>9. MoveInv' /\ ReverseInv'
    BY <2>1 DEF MoveInv, ReverseInv, QuarantinePcs, ReversalPcs, Returning
  <2>10. HeldIsTracked'
    BY <2>1, <2>2, <2>3, <2>5, <1>t DEF HeldIsTracked, Interrupted
  <2> QED
    BY <2>6, <2>7, <2>8, <2>9, <2>10 DEF TrackInv
<1>6. CASE FinishRestore \/ FailRestore
  <2>1. /\ RowsKept /\ Interrupted' = Interrupted \ {run.op}
        /\ \A m \in OpIds : m # run.op => ops'[m] = ops[m]
    <3>1. PICK s \in {"done", "failed"} :
            \/ ops' = [ops EXCEPT ![run.op].status = s]
            \/ ops' = [ops EXCEPT ![run.op].status = s, ![run.op].error = "move_failed"]
      BY <1>6 DEF FinishRestore, FailRestore, SetStatus
    <3>2. s \in OpStatuses /\ s \notin InFlight /\ "move_failed" \in OpErrors
      BY DEF OpStatuses, InFlight, OpErrors
    <3> QED
      BY ONLY <1>t, <3>1, <3>2, SetRowFacts, ops \in [OpIds -> OpRows]
  <2>2. run'.pc = "idle" /\ UNCHANGED <<disk, items, dirItem, entries>>
    BY <1>6, IdleType DEF FinishRestore, FailRestore, diskVars
  <2>6. RowsInv'
    BY <2>1, <2>2, <1>t, SMTT(30) DEF RowsInv, RowsKept, Occupied
  <2>7. RestoreRowsInv'
    BY <2>1, <2>2, <1>t DEF RestoreRowsInv, RowsKept, OpsInv, Interrupted
  <2>8. MoveInv' /\ RestoringInv' /\ ReverseInv'
    BY <2>2 DEF MoveInv, QuarantinePcs, RestoringInv, ReverseInv, RestoringPcs, RestorePcs, SettlingPcs, ArrivedPcs, ReversalPcs, Returning
  <2>10. HeldIsTracked'
    BY <2>1, <2>2, <1>t, <1>r DEF HeldIsTracked
  <2> QED
    BY <2>6, <2>7, <2>8, <2>10 DEF TrackInv
<1> QED
  BY <1>1, <1>2, <1>3, <1>4, <1>5, <1>6 DEF RestoreStep

\* So does admitting a backup, a move or a restore.
LEMMA TrackRequest ==
  ASSUME IInv, TrackInv, Request
  PROVE  TrackInv'
<1> USE DEF IInv, TypeOK, JournalTypeOK
<1>t. RowsInv /\ RestoreRowsInv /\ HeldIsTracked
  BY DEF TrackInv
<1>1. ASSUME NEW S \in SUBSET Files, BackupStart(S) PROVE TrackInv'
  BY <1>1 DEF BackupStart, diskVars, TrackInv, RowsInv, RestoreRowsInv, MoveInv, RestoringInv,
     ReverseInv, HeldIsTracked, Occupied, Listed, Open, Interrupted, RestoreSource
<1>2. ASSUME NEW o \in OpIds, NEW S \in SUBSET Files, NEW p \in BOOLEAN, NEW c \in BOOLEAN,
             MoveStart(o, S, p, c)
      PROVE  TrackInv'
  <2>1. /\ ops[o].kind = "none" /\ Interrupted = {}
        /\ run'.pc = "q_item" /\ run'.op = o /\ run'.file = None /\ run'.todo = S
        /\ UNCHANGED <<disk, items, dirItem, entries>>
    BY <1>2 DEF MoveStart, MayMutate, IsNextOp, diskVars, Idle
  <2>2. /\ ops'[o].kind = "quarantine"
        /\ \A m \in OpIds : m # o => ops'[m] = ops[m]
    BY <1>2 DEF MoveStart, OpRows
  <2>3. /\ \A f \in Files : ~Occupied(o, f) /\ items[o][f] = NoItem
        /\ Interrupted' \subseteq {o}
    BY <2>1, <2>2, <1>t DEF RowsInv, Interrupted
  <2>4. \A f \in Files : entries[o][f] = "none"
    BY <2>1, <1>t DEF RowsInv
  <2>6. RowsInv'
    <3> SUFFICES ASSUME NEW m \in OpIds, NEW f \in Files
                 PROVE  /\ Occupied(m, f) => /\ ops'[m].kind = "quarantine"
                                             /\ disk[Held(m, f)] = items[m][f].expected
                        /\ items[m][f].result \in {None, items[m][f].expected}
                        /\ ops'[m].kind = "none" =>
                             ops'[m].status = "none" /\ items[m][f] = NoItem /\ dirItem[m] = "none"
                        /\ ops'[m].kind # "quarantine" => entries[m][f] = "none"
      BY <2>1 DEF RowsInv, Occupied
    <3>1. CASE m = o
      BY <3>1, <2>2, <2>3, <1>t DEF RowsInv
    <3>2. CASE m # o
      BY <3>2, <2>2, <1>t DEF RowsInv
    <3> QED
      BY <3>1, <3>2
  <2>7. RestoreRowsInv'
    BY <2>2, <2>3 DEF RestoreRowsInv
  <2>8. MoveInv'
    BY <2>1, <2>2, <2>3, JournalAssumption DEF MoveInv, Occupied, QuarantinePcs, FilePcs, RestorePcs
  <2>9. RestoringInv' /\ ReverseInv'
    BY <2>1 DEF RestoringInv, ReverseInv, RestoringPcs, RestorePcs, SettlingPcs, ArrivedPcs, ReversalPcs, Returning
  <2>10. HeldIsTracked'
    BY <2>1, <1>t DEF HeldIsTracked
  <2> QED
    BY <2>6, <2>7, <2>8, <2>9, <2>10 DEF TrackInv
<1>3. ASSUME NEW r \in OpIds, NEW o \in OpIds, NEW f \in Files, NEW dest \in {Orig(f), Folder(f)},
             RestoreStart(r, o, f, dest)
      PROVE  TrackInv'
  <2>1. /\ ops[r].kind = "none" /\ Interrupted = {}
        /\ entries[o][f] = "quarantined"
        /\ items[o][f].result # None /\ disk[Held(o, f)] = items[o][f].result
        /\ run'.pc = "r_rename" /\ run'.op = r /\ run'.file = f
        /\ UNCHANGED <<disk, dirItem, entries>>
    BY <1>3 DEF RestoreStart, MayMutate, IsNextOp, diskVars, Idle, PathMatches
  <2>2. /\ ops'[r].kind = "restore" /\ ops'[r].entry = o /\ ops'[r].file = f
        /\ \A m \in OpIds : m # r => ops'[m] = ops[m]
    BY <1>3 DEF RestoreStart
  <2>3. /\ items'[r][f].status = "pending" /\ items'[r][f].expected = items[o][f].result
        /\ items'[r][f].result = None
        /\ SameRows(r, f)
    BY <1>3 DEF RestoreStart, SameRows
  <2>4. /\ ops[o].kind = "quarantine" /\ o # r /\ items[o][f].result = items[o][f].expected
        /\ \A g \in Files : ~Occupied(r, g)
        /\ Interrupted' \subseteq {r}
    BY <2>1, <2>2, <1>t DEF RowsInv, Interrupted
  <2>5. \A g \in Files : entries[r][g] = "none"
    BY <2>1, <1>t DEF RowsInv
  <2>6. RowsInv'
    <3>1. \A m \in OpIds, g \in Files : m # r => items'[m][g] = items[m][g] /\ ops'[m] = ops[m]
      BY <2>2, <2>3 DEF SameRows
    <3>2. \A g \in Files : items'[r][g].result \in {None, items'[r][g].expected}
      BY <2>3, <1>t, ZenonT(60) DEF SameRows, RowsInv
    <3>3. /\ RowsInv /\ UNCHANGED <<disk, dirItem, entries>>
          /\ ops'[r].kind = "restore" /\ \A g \in Files : ~Occupied(r, g)
          /\ \A g \in Files : entries[r][g] = "none"
      BY <2>1, <2>2, <2>4, <2>5, <1>t
    <3> QED
      BY ONLY <3>1, <3>2, <3>3 DEF RowsInv, Occupied
  <2>7. RestoreRowsInv'
    BY <2>1, <2>2, <2>3, <2>4 DEF RestoreRowsInv, SameRows
  <2>8. RestoringInv'
    BY <2>1, <2>2, <2>3 DEF RestoringInv, RestoreSource, ArrivedPcs, SettlingPcs
  <2>9. MoveInv' /\ ReverseInv'
    BY <2>1 DEF MoveInv, ReverseInv, QuarantinePcs, ReversalPcs, Returning
  <2>10. HeldIsTracked'
    BY <2>1, <1>t DEF HeldIsTracked
  <2> QED
    BY <2>6, <2>7, <2>8, <2>9, <2>10 DEF TrackInv
<1> QED
  BY <1>1, <1>2, <1>3 DEF Request

\* A crash keeps the tables and the disk, and TrackInv speaks of them alone.
LEMMA TrackCrash ==
  ASSUME IInv, TrackInv, Crash
  PROVE  TrackInv'
<1>1. run'.pc = "idle" /\ UNCHANGED <<disk, ops, items, dirItem, entries>>
  BY IdleType DEF Crash, diskVars, journalVars
<1>2. RowsInv' /\ RestoreRowsInv' /\ HeldIsTracked'
  BY <1>1 DEF TrackInv, RowsInv, RestoreRowsInv, HeldIsTracked, Interrupted, Occupied
<1>3. MoveInv' /\ RestoringInv' /\ ReverseInv'
  BY <1>1 DEF MoveInv, QuarantinePcs, RestoringInv, ReverseInv, RestoringPcs, RestorePcs, SettlingPcs, ArrivedPcs, ReversalPcs, Returning
<1> QED
  BY <1>2, <1>3 DEF TrackInv

\* The original path of a file is a path, whatever operations there are.
LEMMA OrigPath == \A f \in Files : Orig(f) \in Paths
  BY DEF Orig, Paths, UserPaths

\* An original path is a path of the user's.
LEMMA OrigUser == \A f \in Files : Orig(f) \in Paths /\ Orig(f) \in UserPaths
  BY DEF Orig, Paths, UserPaths

\* The user, who does not reach the holding area, preserves TrackInv.
LEMMA TrackUser ==
  ASSUME IInv, TrackInv, UserStep, "holding" \notin Reach
  PROVE  TrackInv'
<1> USE DEF IInv, TypeOK, JournalTypeOK
<1>1. PICK kind \in Meddles, p \in Paths :
        Meddle(kind, p) /\ \A q \in Paths : q # p => disk'[q] = disk[q]
  BY UserChange
<1>2. /\ \A o \in OpIds, f \in Files : disk'[Held(o, f)] = disk[Held(o, f)]
      /\ run.pc = "q_rename" => disk'[Orig(run.file)] = disk[Orig(run.file)]
      /\ UNCHANGED <<ops, items, dirItem, entries, run>>
  <2>1. \A o \in OpIds, f \in Files : Held(o, f) # p
    BY <1>1 DEF Meddle, Held
  <2>2. run.pc = "q_rename" => run.bound = Orig(run.file) /\ run.file \in Files
    BY DEF RunInv, FilePcs
  <2>3. run.pc = "q_rename" => Orig(run.file) # p /\ Orig(run.file) \in Paths
    <3>1. p # run.bound
      BY <1>1 DEF Meddle
    <3> QED
      BY ONLY <3>1, <2>2, OrigPath
  <2> QED
    BY <1>1, <2>1, <2>3, PathFacts DEF Meddle, journalVars
<1>3. RowsInv' /\ RestoreRowsInv' /\ HeldIsTracked'
  <2>1. RowsInv'
    BY <1>2, RowsFrame DEF TrackInv
  <2>2. RestoreRowsInv' /\ HeldIsTracked'
    BY <1>2 DEF TrackInv, RestoreRowsInv, HeldIsTracked, Interrupted
  <2> QED
    BY <2>1, <2>2
<1>4. MoveInv'
  <2>1. run.pc \in QuarantinePcs => run.op \in OpIds
    BY DEF RunInv, QuarantinePcs
  <2>2. /\ run.pc \in FilePcs => run.file \in Files
        /\ {"q_rename", "q_item_failed"} \subseteq FilePcs
    BY DEF RunInv, FilePcs
  <2>3. MoveInv
    BY DEF TrackInv
  <2> QED
    BY <1>2, <2>1, <2>2, <2>3 DEF MoveInv, Occupied, Listed
<1>5. RestoringInv'
  <2>1. run.pc \in RestoringPcs =>
          ops[run.op].entry \in OpIds /\ ops[run.op].file \in Files
    BY DEF RunInv, RestoringPcs, RestorePcs, OpsInv
  <2>2. run.pc \in RestoringPcs =>
          disk'[RestoreSource(run.op)] = disk[RestoreSource(run.op)]
    BY <1>2, <2>1 DEF RestoreSource
  <2>3. /\ run.pc \in SettlingPcs \cup ArrivedPcs \cup {"r_rename"} => run.pc \in RestoringPcs
        /\ RestoreSource(run.op)' = RestoreSource(run.op)
    BY <1>2 DEF SettlingPcs, ArrivedPcs, RestoringPcs, RestorePcs, RestoreSource
  <2> QED
    BY <1>2, <2>2, <2>3 DEF TrackInv, RestoringInv, Interrupted
<1>6. ReverseInv'
  <2>1. run.pc \in ReversalPcs => run.op \in OpIds
    BY DEF RunInv, ReversalPcs, Returning
  <2>2. run.pc = "v_returned" => run.file \in Files
    BY DEF RunInv, FilePcs
  <2>3. /\ run.pc = "v_returned" => run.pc \in ReversalPcs
        /\ run.todo \subseteq Files
    BY DEF ReversalPcs, Returning, RunStates
  <2> QED
    BY <1>2, <2>1, <2>2, <2>3 DEF TrackInv, ReverseInv, Occupied, Listed, Open, Interrupted
<1> QED
  BY <1>3, <1>4, <1>5, <1>6 DEF TrackInv

\* What a rename out of the holding area does to it.
LEMMA ReturnFacts ==
  ASSUME disk \in [Paths -> Objects \cup {None}],
         NEW o \in OpIds, NEW f \in Files, Rename(Held(o, f), Orig(f))
  PROVE  /\ disk[Orig(f)] = None
         /\ disk'[Held(o, f)] = None /\ disk'[Orig(f)] = disk[Held(o, f)]
         /\ \A m \in OpIds, g \in Files :
              m # o \/ g # f => disk'[Held(m, g)] = disk[Held(m, g)]
         /\ \A g \in Files : g # f => disk'[Orig(g)] = disk[Orig(g)]
         /\ \A g \in Files : disk'[Folder(g)] = disk[Folder(g)]
         /\ \A m \in OpIds, g \in Files :
              disk'[Held(m, g)] # None => disk'[Held(m, g)] = disk[Held(m, g)]
  BY HeldPathFacts, RenameFacts

\* What recovery finds in a holding path is the object its row expects.
LEMMA OccupantMatches ==
  ASSUME RowsInv, NEW o \in OpIds, NEW f \in Files, Occupied(o, f)
  PROVE  ToMatches(o, f)
  BY DEF RowsInv, Occupied, ToMatches, ExpectedHeld, PathMatches

\* The executor's record where a recovery step leaves a row or an entry.
LEMMA UnresolvedRun ==
  ASSUME run \in RunStates, NEW f, Unresolved(f)
  PROVE  /\ run'.pc = run.pc /\ run'.op = run.op /\ run'.file = run.file
         /\ run'.todo = run.todo \ {f} /\ run'.proof = run.proof
         /\ run'.resolved = FALSE
  BY DEF Unresolved, RunStates

\* A settled row leaves recovery at the next one.
LEMMA ItemSettledRun ==
  ASSUME run \in RunStates, NEW f, ItemSettled(f)
  PROVE  /\ run'.pc = "v_item" /\ run'.op = run.op /\ run'.file = None
         /\ run'.todo = run.todo \ {f} /\ run'.proof = run.proof
         /\ run'.resolved = run.resolved
  BY DEF ItemSettled, RunStates

\* The reversal of an interrupted move.
LEMMA TrackReversal ==
  ASSUME IInv, TrackInv,
         \/ \E f \in Files : \/ ReturnHeld(f) \/ AlreadyReturned(f)
                             \/ ExposeHeldCopy(f) \/ LeaveUnresolved(f)
                             \/ ReconcileEntry(f) \/ EntryWithoutProof(f)
                             \/ ItemProbeFails(f) \/ EntryProbeFails(f)
         \/ MarkReturned \/ MarkExposed \/ ItemsDone
         \/ KeepInterrupted \/ RollBackCleanup \/ CloseRolledBack
  PROVE  TrackInv'
<1> USE DEF IInv, TypeOK, JournalTypeOK
<1>s. run.pc \in ReversalPcs
  BY DEF ReversalPcs, Returning, ReturnHeld, AlreadyReturned, ExposeHeldCopy, LeaveUnresolved,
         ReconcileEntry, EntryWithoutProof, ItemProbeFails, EntryProbeFails, AtItem, AtEntry,
         MarkReturned, MarkExposed, ItemsDone, KeepInterrupted, RollBackCleanup, CloseRolledBack
<1>t. /\ RowsInv /\ RestoreRowsInv /\ ReverseInv /\ HeldIsTracked
      /\ run.op \in Interrupted /\ run.op \in OpIds
      /\ ops[run.op].kind = "quarantine"
  BY <1>s DEF TrackInv, ReverseInv, Interrupted
<1>r. \A r \in Interrupted : ops[r].kind # "restore"
  BY <1>t DEF OneInterrupted
<1>v. run'.pc \in ReversalPcs \cup {"v_next"} => MoveInv' /\ RestoringInv'
  BY DEF MoveInv, RestoringInv, QuarantinePcs, RestoringPcs, RestorePcs, SettlingPcs, ArrivedPcs, ReversalPcs, Returning
<1>1. ASSUME NEW f \in Files, ReturnHeld(f) PROVE TrackInv'
  <2>1. /\ run.pc = "v_item" /\ f \in run.todo
        /\ run'.pc = "v_returned" /\ run'.op = run.op /\ run'.file = f
        /\ run'.todo = run.todo /\ run'.resolved = run.resolved
        /\ UNCHANGED <<ops, items, dirItem, entries>>
    BY <1>1 DEF ReturnHeld, AtItem, RunStates, journalVars
  <2>2. /\ disk'[Held(run.op, f)] = None
        /\ \A m \in OpIds, g \in Files :
             disk'[Held(m, g)] # None => disk'[Held(m, g)] = disk[Held(m, g)]
    BY <1>1, <1>t, ReturnFacts DEF ReturnHeld
  <2>6. RowsInv'
    BY <2>1, <2>2, <1>t, RowsFrame
  <2>7. RestoreRowsInv' /\ HeldIsTracked'
    BY <2>1, <2>2, <1>t DEF RestoreRowsInv, HeldIsTracked, Interrupted
  <2>8. ReverseInv'
    BY <2>1, <2>2, <1>t DEF ReverseInv, Occupied, Listed, Open, Interrupted, ReversalPcs, Returning
  <2> QED
    BY <2>1, <2>6, <2>7, <2>8, <1>v DEF TrackInv, ReversalPcs, Returning
<1>2. ASSUME NEW f \in Files,
             \/ MarkReturned /\ f = run.file
             \/ MarkExposed /\ f = run.file
             \/ AlreadyReturned(f)
      PROVE  TrackInv'
  <2>1. /\ run.pc \in Returning
        /\ run'.pc = "v_item" /\ run'.op = run.op
        /\ run'.todo = run.todo \ {f} /\ run'.resolved = run.resolved
        /\ UNCHANGED <<disk, ops, dirItem, entries>>
    BY <1>2, ItemSettledRun DEF MarkReturned, MarkExposed, AlreadyReturned, AtItem, diskVars, Returning
  <2>2. PICK s \in {"rolled_back", "done"} : SetItem(run.op, f, s)
    BY <1>2 DEF MarkReturned, MarkExposed, AlreadyReturned
  <2>3. RowGets(run.op, f, s)
    BY <1>t, <2>2, SetItemFacts
  <2>4. Occupied(run.op, f) => Listed(run.op, f)
    <3>1. CASE MarkReturned \/ MarkExposed
      BY <3>1, <1>2, <1>t, <1>s DEF MarkReturned, MarkExposed, ReverseInv, AlreadyReturned, AtItem
    <3>2. CASE AlreadyReturned(f)
      BY <3>2, <1>t, OccupantMatches DEF AlreadyReturned
    <3> QED
      BY <1>2, <3>1, <3>2
  <2>5. \A m \in OpIds, g \in Files :
          /\ items'[m][g].expected = items[m][g].expected
          /\ items'[m][g].result = items[m][g].result
          /\ m # run.op => items'[m][g] = items[m][g]
    BY <2>3 DEF RowGets, SameRows
  <2>6. RowsInv'
    BY <2>1, <2>5, <1>t, RowsFrame
  <2>7. RestoreRowsInv'
    BY <2>1, <1>r DEF RestoreRowsInv, Interrupted
  <2>8. ReverseInv'
    <3>1. \A g \in run.todo \ {f} : Open(run.op, g)'
      BY <2>1, <2>3, <1>t, <1>s DEF ReverseInv, Open, RowGets, SameRows, RunStates
    <3> QED
      BY <2>1, <2>4, <3>1, <1>t, <1>s DEF ReverseInv, Occupied, Listed, Interrupted, ReversalPcs, Returning
  <2>9. HeldIsTracked'
    BY <2>1, <2>3, <2>4, <1>t DEF HeldIsTracked, RowGets, SameRows, Interrupted, Occupied, Listed
  <2> QED
    BY <2>1, <2>6, <2>7, <2>8, <2>9, <1>v DEF TrackInv, ReversalPcs, Returning
<1>3. ASSUME NEW f \in Files, ExposeHeldCopy(f) PROVE TrackInv'
  <2>1. /\ run.pc = "v_item" /\ f \in run.todo
        /\ run'.pc = "v_exposed" /\ run'.op = run.op /\ run'.file = f
        /\ run'.todo = run.todo /\ run'.resolved = run.resolved
        /\ UNCHANGED <<disk, ops, items, dirItem>>
    BY <1>3 DEF ExposeHeldCopy, AtItem, RunStates, diskVars
  <2>2. /\ entries'[run.op][f] = "quarantined"
        /\ \A m \in OpIds, g \in Files : m # run.op \/ g # f => entries'[m][g] = entries[m][g]
    BY <1>3, <1>t DEF ExposeHeldCopy
  <2>6. RowsInv'
    BY <2>1, <2>2, <1>t, RowsFrame
  <2>7. RestoreRowsInv' /\ HeldIsTracked'
    BY <2>1, <2>2, <1>t DEF RestoreRowsInv, HeldIsTracked, Interrupted
  <2>8. ReverseInv'
    BY <2>1, <2>2, <1>t DEF ReverseInv, Occupied, Listed, Open, Interrupted, ReversalPcs, Returning
  <2> QED
    BY <2>1, <2>6, <2>7, <2>8, <1>v DEF TrackInv, ReversalPcs, Returning
<1>4. ASSUME NEW f \in Files,
             \/ LeaveUnresolved(f) \/ ItemProbeFails(f)
             \/ EntryWithoutProof(f) \/ EntryProbeFails(f)
      PROVE  TrackInv'
  <2>1. /\ Unresolved(f) /\ UNCHANGED disk /\ run.pc \in {"v_item", "v_entry"}
    BY <1>4 DEF LeaveUnresolved, ItemProbeFails, EntryWithoutProof, EntryProbeFails, AtItem, AtEntry, diskVars
  <2>2. /\ run'.pc = run.pc /\ run'.op = run.op
        /\ run'.todo = run.todo \ {f} /\ run'.resolved = FALSE
    BY <2>1, UnresolvedRun
  <2>3. /\ RowsKept /\ Interrupted' = Interrupted
        /\ \A m \in OpIds : m # run.op => ops'[m] = ops[m]
        /\ UNCHANGED <<items, dirItem, entries>>
    BY <2>1, <1>t, UnresolvedFacts DEF Unresolved
  <2>6. RowsInv'
    BY <2>1, <2>3, <1>t, RowsFrame DEF RowsKept
  <2>7. RestoreRowsInv' /\ HeldIsTracked'
    <3>1. \A r \in Interrupted : ops'[r].kind # "restore"
      BY <2>3, <1>r DEF RowsKept, Interrupted
    <3>2. RestoreRowsInv'
      BY <2>3, <3>1 DEF RestoreRowsInv
    <3> QED
      BY <2>1, <2>3, <3>2, <1>t DEF HeldIsTracked
  <2>8. ReverseInv'
    BY <2>1, <2>2, <2>3, <1>t DEF ReverseInv, Open, RowsKept, ReversalPcs, Returning
  <2> QED
    BY <2>1, <2>2, <2>6, <2>7, <2>8, <1>v DEF TrackInv, ReversalPcs, Returning
<1>5. CASE ItemsDone \/ RollBackCleanup
  <2>1. /\ run'.pc \in {"v_entry", "v_close"} /\ run'.op = run.op
        /\ run'.resolved = run.resolved
        /\ run'.pc = "v_close" => run.resolved
        /\ UNCHANGED <<disk, ops, items, entries>>
        /\ run.pc \in {"v_item", "v_entry"} /\ run.todo = {}
    BY <1>5 DEF ItemsDone, RollBackCleanup, Goto, RunStates, diskVars, journalVars
  <2>2. \A m \in OpIds : m # run.op => dirItem'[m] = dirItem[m]
    BY <1>5 DEF ItemsDone, RollBackCleanup, journalVars
  <2>6. RowsInv'
    BY <2>1, <2>2, <1>t, RowsFrame
  <2>7. RestoreRowsInv' /\ HeldIsTracked'
    BY <2>1, <1>t DEF RestoreRowsInv, HeldIsTracked, Interrupted
  <2>3. run.resolved => \A f \in Files : Occupied(run.op, f) => Listed(run.op, f)
    BY <2>1, <1>t, <1>s DEF ReverseInv
  <2>4. run'.pc \notin Returning
    BY <2>1 DEF Returning
  <2>5. run'.pc \notin {"v_returned", "v_exposed"}
    BY <2>1
  <2>8. ReverseInv'
    <3>1. run'.op \in Interrupted' /\ ops'[run'.op].kind = "quarantine"
      BY <2>1, <1>t DEF Interrupted
    <3>2. run'.resolved =>
            \A f \in Files : Occupied(run.op, f)' => Listed(run.op, f)'
      BY <2>1, <2>3 DEF Occupied, Listed
    <3>3. run'.pc = "v_close" => run'.resolved
      BY <2>1
    <3> QED
      BY <2>1, <2>4, <2>5, <3>1, <3>2, <3>3 DEF ReverseInv, Occupied, Listed
  <2> QED
    BY <2>1, <2>6, <2>7, <2>8, <1>v DEF TrackInv, ReversalPcs, Returning
<1>6. ASSUME NEW f \in Files, ReconcileEntry(f) PROVE TrackInv'
  <2>1. /\ run.pc = "v_entry" /\ run'.pc = "v_entry" /\ run'.op = run.op
        /\ run'.resolved = run.resolved
        /\ UNCHANGED <<disk, ops, items, dirItem>>
    BY <1>6 DEF ReconcileEntry, AtEntry, RunStates, diskVars
  <2>2. \A m \in OpIds, g \in Files :
          \/ entries'[m][g] = entries[m][g]
          \/ m = run.op /\ ~Occupied(m, g)
    BY <1>6, <1>t DEF ReconcileEntry, Occupied, PathAbsent
  <2>6. RowsInv'
    BY <2>1, <2>2, <1>t, RowsFrame
  <2>7. RestoreRowsInv' /\ HeldIsTracked'
    BY <2>1, <2>2, <1>t DEF RestoreRowsInv, HeldIsTracked, Interrupted, Occupied
  <2>8. ReverseInv'
    BY <2>1, <2>2, <1>t, <1>s DEF ReverseInv, Occupied, Listed, Open, Interrupted, ReversalPcs, Returning
  <2> QED
    BY <2>1, <2>6, <2>7, <2>8, <1>v DEF TrackInv, ReversalPcs, Returning
<1>7. CASE KeepInterrupted
  <2>1. run'.pc = "v_next" /\ UNCHANGED <<disk, ops, items, dirItem, entries>>
    BY <1>7, <1>t, SettledType DEF KeepInterrupted, diskVars, journalVars
  <2>6. RowsInv' /\ RestoreRowsInv' /\ HeldIsTracked' /\ ReverseInv'
    BY <2>1, <1>t DEF RowsInv, RestoreRowsInv, HeldIsTracked, Interrupted, Occupied, ReverseInv, ReversalPcs, Returning
  <2> QED
    BY <2>1, <2>6, <1>v DEF TrackInv
<1>8. CASE CloseRolledBack
  <2>1. /\ run.pc = "v_close" /\ run'.pc = "v_next" /\ UNCHANGED <<disk, items, dirItem, entries>>
    BY <1>8, <1>t, SettledType DEF CloseRolledBack, diskVars
  <2>2. /\ RowsKept /\ Interrupted' = Interrupted \ {run.op}
        /\ \A m \in OpIds : m # run.op => ops'[m] = ops[m]
    <3>1. SetStatus(run.op, "rolled_back") /\ "rolled_back" \in OpStatuses /\ "rolled_back" \notin InFlight
      BY <1>8 DEF CloseRolledBack, OpStatuses, InFlight
    <3>2. run.op \in OpIds
      BY <1>t
    <3>3. /\ RowsKept /\ Interrupted' = Interrupted \ {run.op}
          /\ \A m \in OpIds : m # run.op => ops'[m] = ops[m]
      BY ONLY <3>1, <3>2, StatusFacts, ops \in [OpIds -> OpRows]
    <3> QED
      BY <3>3, <1>t
  <2>3. \A f \in Files : Occupied(run.op, f) => Listed(run.op, f)
    BY <2>1, <1>t, <1>s DEF ReverseInv, Returning
  <2>6. RowsInv'
    BY <2>1, <2>2, <1>t, RowsFrame DEF RowsKept
  <2>7. RestoreRowsInv'
    <3>1. \A r \in Interrupted' : FALSE
      BY <2>2, <1>t DEF OneInterrupted
    <3> QED
      BY <3>1 DEF RestoreRowsInv
  <2>8. HeldIsTracked'
    BY <2>1, <2>2, <2>3, <1>t DEF HeldIsTracked, Occupied, Listed
  <2>9. ReverseInv'
    BY <2>1 DEF ReverseInv, ReversalPcs, Returning
  <2> QED
    BY <2>1, <2>6, <2>7, <2>8, <2>9, <1>v DEF TrackInv
<1>9. ASSUME MarkReturned \/ MarkExposed PROVE TrackInv'
  <2>1. run.file \in Files
    BY <1>9 DEF MarkReturned, MarkExposed, RunInv, FilePcs
  <2> QED
    BY <2>1, <1>9, <1>2
<1> QED
  BY <1>1, <1>2, <1>3, <1>4, <1>5, <1>6, <1>7, <1>8, <1>9, SMTT(30)

\* What a finding of recovery says of the two paths of a restore.
LEMMA FindingFacts ==
  ASSUME NEW r
  PROVE  LET found == RestoreFinding(r)
             row == items[r][ops[r].file]
         IN /\ found \in {"result_missing", "completed", "held", "content_mismatch", "ambiguous"}
            /\ found = "result_missing" <=> ~PathAbsent(ops[r].dest) /\ row.result = None
            /\ found # "result_missing" =>
                 (found = "completed" <=> /\ PathAbsent(RestoreSource(r))
                                          /\ PathMatches(ops[r].dest, row.result))
            /\ found \in {"content_mismatch", "ambiguous"} =>
                 ~PathMatches(RestoreSource(r), row.expected)
            /\ found = "held" => PathMatches(RestoreSource(r), row.expected)
            /\ found = "content_mismatch" => ~PathMatches(ops[r].dest, row.result)
            /\ found = "ambiguous" =>
                 PathAbsent(ops[r].dest) \/ PathMatches(ops[r].dest, row.result)
<1> DEFINE row == items[r][ops[r].file]
           occupied == ~PathAbsent(ops[r].dest)
           arrived == PathMatches(ops[r].dest, row.result)
           kept == PathMatches(RestoreSource(r), row.expected)
           empty == PathAbsent(RestoreSource(r))
           A == occupied /\ row.result = None
           B == arrived /\ empty
           C == IF kept THEN "held"
                ELSE IF occupied /\ ~arrived THEN "content_mismatch" ELSE "ambiguous"
<1>1. RestoreFinding(r) = CASE A -> "result_missing" [] B -> "completed" [] OTHER -> C
  BY DEF RestoreFinding, RestoreSource
<1>2. A => ~B
  BY DEF PathMatches
<1>3. RestoreFinding(r) = IF A THEN "result_missing" ELSE IF B THEN "completed" ELSE C
  <2> HIDE DEF A, B, C
  <2>1. CASE A
    BY <1>1, <1>2, <2>1
  <2>2. CASE ~A /\ B
    BY <1>1, <2>2
  <2>3. CASE ~A /\ ~B
    BY <1>1, <2>3
  <2> QED
    BY <2>1, <2>2, <2>3
<1> QED
  BY <1>2, <1>3

\* What recovery finds when it takes up an interrupted restore, whose held
\* copy, if there is one, is the object the row expects.
LEMMA SettleRestoreVerdict ==
  ASSUME run \in RunStates, RowsInv, RestoreRowsInv, OpsInv, NEW r \in Interrupted,
         ops[r].kind = "restore", SettleRestore(r)
  PROVE  /\ run'.verdict # "held" => disk[RestoreSource(r)] = None
         /\ run'.verdict = "held" => disk[RestoreSource(r)] = items[r][ops[r].file].expected
         /\ run'.verdict = "completed" =>
              PathMatches(ops[r].dest, items[r][ops[r].file].result)
         /\ run'.pc = "v_restore_entry" => run'.verdict # "abandoned"
         /\ run'.pc = "v_restore_op" => RestoreFinding(r) = "ambiguous"
         /\ run'.verdict = "mismatch" => RestoreFinding(r) = "content_mismatch"
<1> DEFINE found == RestoreFinding(r)
<1>0. found # "result_missing"
  BY DEF SettleRestore, Surfaced
<1>1. /\ found \in {"completed", "held", "content_mismatch", "ambiguous"}
      /\ found = "completed" => PathAbsent(RestoreSource(r)) /\ PathMatches(ops[r].dest, items[r][ops[r].file].result)
      /\ found \in {"content_mismatch", "ambiguous"} =>
           ~PathMatches(RestoreSource(r), items[r][ops[r].file].expected)
      /\ found = "held" => PathMatches(RestoreSource(r), items[r][ops[r].file].expected)
  BY <1>0, FindingFacts
<1>2. /\ disk[RestoreSource(r)] # None => disk[RestoreSource(r)] = items[r][ops[r].file].expected
      /\ items[r][ops[r].file].expected # None
  BY DEF RowsInv, RestoreRowsInv, OpsInv, Interrupted, RestoreSource, Occupied
<1>3. found # "completed" /\ found # "held" => disk[RestoreSource(r)] = None
  BY <1>1, <1>2 DEF PathMatches
<1>4. /\ run'.verdict = CASE found = "completed" -> "completed"
                          [] found = "held" -> "held"
                          [] found = "content_mismatch" -> "mismatch"
                          [] OTHER -> "abandoned"
      /\ run'.pc = IF found = "ambiguous" THEN "v_restore_op" ELSE "v_restore_entry"
  BY DEF SettleRestore, RunStates
<1> HIDE DEF found
<1> QED
  BY <1>1, <1>3, <1>4 DEF PathAbsent, PathMatches, found

\* The other steps of recovery: its beginning, its end and the restores.
LEMMA TrackSettling ==
  ASSUME IInv, TrackInv,
         \/ RecoverBegin \/ RecoverFinish \/ RecoverReturn
         \/ \E o \in OpIds : \/ RecoverOperation(o) \/ SurfaceRestore(o)
                             \/ SettleRestore(o) \/ RestoreProbeFails(o)
         \/ SettleEntry \/ SettleItem \/ SettleOperation
  PROVE  TrackInv'
<1> USE DEF IInv, TypeOK, JournalTypeOK
<1>t. RowsInv /\ RestoreRowsInv /\ RestoringInv /\ HeldIsTracked
  BY DEF TrackInv
<1>v. run'.pc \in {"idle", "v_next", "v_end"} => MoveInv' /\ RestoringInv' /\ ReverseInv'
  BY DEF MoveInv, RestoringInv, ReverseInv, QuarantinePcs, RestoringPcs, RestorePcs, SettlingPcs, ArrivedPcs, ReversalPcs, Returning
<1>w. run'.pc \in SettlingPcs => MoveInv' /\ ReverseInv'
  BY DEF MoveInv, ReverseInv, QuarantinePcs, SettlingPcs, ReversalPcs, Returning
<1>1. CASE RecoverBegin \/ RecoverFinish \/ RecoverReturn
  <2>1. /\ run'.pc \in {"idle", "v_next", "v_end"}
        /\ UNCHANGED <<disk, ops, items, dirItem, entries>>
    BY <1>1, IdleType DEF RecoverBegin, RecoverFinish, RecoverReturn, Goto, RunStates, Idle, diskVars, journalVars
  <2>2. RowsInv' /\ RestoreRowsInv' /\ HeldIsTracked'
    BY <2>1, <1>t DEF RowsInv, RestoreRowsInv, HeldIsTracked, Interrupted, Occupied
  <2> QED
    BY <2>1, <2>2, <1>v DEF TrackInv
<1>2. ASSUME NEW o \in OpIds, RecoverOperation(o) PROVE TrackInv'
  <2>1. /\ run'.pc = "v_item" /\ run'.op = o /\ run'.resolved
        /\ run'.todo = {f \in Files : items[o][f].status \in {"pending", "done"}}
        /\ UNCHANGED <<disk, ops, items, dirItem, entries>>
    BY <1>2, ZenonT(60) DEF RecoverOperation, RunStates, diskVars, journalVars
  <2>2. o \in Interrupted /\ ops[o].kind = "quarantine"
    BY <1>2 DEF RecoverOperation, IsFirst, Pending
  <2>3. RowsInv' /\ RestoreRowsInv' /\ HeldIsTracked'
    BY <2>1, <1>t DEF RowsInv, RestoreRowsInv, HeldIsTracked, Interrupted, Occupied
  <2>4. MoveInv' /\ RestoringInv'
    BY <2>1 DEF MoveInv, RestoringInv, QuarantinePcs, RestoringPcs, RestorePcs, SettlingPcs, ArrivedPcs
  <2>5. ReverseInv'
    BY <2>1, <2>2, <1>t DEF ReverseInv, HeldIsTracked, Occupied, Listed, Open, Interrupted, ReversalPcs, Returning
  <2> QED
    BY <2>3, <2>4, <2>5, SMTT(30) DEF TrackInv
<1>3. ASSUME NEW r \in OpIds, SurfaceRestore(r) \/ RestoreProbeFails(r) PROVE TrackInv'
  <2>1. /\ run.pc = "v_next" /\ r \in Interrupted /\ ops[r].kind = "restore"
        /\ UNCHANGED <<disk, items, dirItem, entries>>
    BY <1>3 DEF SurfaceRestore, RestoreProbeFails, AtRestore, IsFirst, Pending, diskVars
  <2>2. /\ RowsKept /\ Interrupted' = Interrupted
        /\ \A m \in OpIds : m # r => ops'[m] = ops[m]
    <3>1. PICK s \in InFlight, e \in OpErrors :
            \/ ops' = [ops EXCEPT ![r].error = e] /\ s = ops[r].status
            \/ ops' = [ops EXCEPT ![r].status = s, ![r].error = e]
      <4>1. CASE SurfaceRestore(r)
        BY <4>1 DEF SurfaceRestore, Surfaced, InFlight, OpErrors
      <4>2. CASE RestoreProbeFails(r)
        BY <2>1, <4>2 DEF RestoreProbeFails, InFlight, OpErrors, Interrupted
      <4> QED
        BY <1>3, <4>1, <4>2
    <3>2. s \in OpStatuses
      BY DEF OpStatuses
    <3>3. /\ RowsKept /\ Interrupted' = Interrupted \cup {r}
          /\ \A m \in OpIds : m # r => ops'[m] = ops[m]
      BY <3>1, <3>2, SetRowFacts
    <3> QED
      BY <3>3, <2>1
  <2>3. run'.pc = "v_next"
    BY <1>3, <2>1 DEF SurfaceRestore, RestoreProbeFails, RunStates
  <2>4. RowsInv'
    BY <2>1, <2>2, <1>t, RowsFrame DEF RowsKept
  <2>5. RestoreRowsInv'
    BY <2>1, <2>2, <1>t DEF RestoreRowsInv, RowsKept, OpsInv, Interrupted
  <2>6. HeldIsTracked'
    BY <2>1, <2>2, <1>t DEF HeldIsTracked
  <2> QED
    BY <2>3, <2>4, <2>5, <2>6, <1>v DEF TrackInv
<1>4. ASSUME NEW r \in OpIds, SettleRestore(r) PROVE TrackInv'
  <2>1. /\ r \in Interrupted /\ ops[r].kind = "restore"
        /\ UNCHANGED <<disk, ops, items, dirItem, entries>>
    BY <1>4 DEF SettleRestore, AtRestore, IsFirst, Pending, diskVars, journalVars
  <2>2. /\ run'.op = r /\ run'.file = ops[r].file
        /\ run'.pc \in {"v_restore_entry", "v_restore_op"}
    BY <1>4, SettleRestoreType
  <2>3. /\ run'.verdict # "held" => disk[RestoreSource(r)] = None
        /\ run'.pc = "v_restore_entry" => run'.verdict # "abandoned"
    BY <1>4, <2>1, <1>t, SettleRestoreVerdict
  <2>4. RowsInv' /\ RestoreRowsInv' /\ HeldIsTracked'
    BY <2>1, <1>t DEF RowsInv, RestoreRowsInv, HeldIsTracked, Interrupted, Occupied
  <2>5. RestoringInv'
    BY <2>1, <2>2, <2>3 DEF RestoringInv, RestoreSource, Interrupted, ArrivedPcs, SettlingPcs
  <2> QED
    BY <2>2, <2>4, <2>5, <1>w DEF TrackInv, SettlingPcs
<1>5. ASSUME run.pc \in SettlingPcs
      PROVE  /\ run.op \in Interrupted /\ run.op \in OpIds /\ run.file = ops[run.op].file
             /\ ops[run.op].kind = "restore"
             /\ run.file \in Files /\ ops[run.op].entry \in OpIds
             /\ \A f \in Files : ~Occupied(run.op, f)
  BY <1>5, <1>t DEF RestoringInv, SettlingPcs, RestoringPcs, Interrupted, RunInv, OpsInv, RowsInv
<1>6. CASE SettleEntry
  <2> DEFINE e == ops[run.op].entry
  <2>1. /\ run.pc = "v_restore_entry" /\ run.pc \in SettlingPcs
        /\ run'.pc = "v_restore_item" /\ run'.op = run.op /\ run'.file = run.file
        /\ run'.verdict = run.verdict
        /\ UNCHANGED <<disk, ops, items, dirItem>>
    BY <1>6, GotoFacts DEF SettleEntry, diskVars, SettlingPcs
  <2>2. /\ run.verdict = "held" => entries'[e][run.file] = "quarantined"
        /\ \A o \in OpIds, f \in Files : o # e \/ f # run.file => entries'[o][f] = entries[o][f]
    BY <1>5, <1>6, <2>1 DEF SettleEntry
  <2>3. run.verdict # "held" => disk[Held(e, run.file)] = None
    BY <1>5, <2>1, <1>t DEF RestoringInv, RestoreSource
  <2>4. ops[e].kind = "quarantine" /\ e \in OpIds
    BY <1>5, <2>1, <1>t DEF RestoreRowsInv
  <2> HIDE DEF e
  <2>5. RowsInv'
    BY <2>1, <2>2, <2>4, <1>t, RowsFrame
  <2>6. RestoreRowsInv'
    BY <2>1, <1>t DEF RestoreRowsInv, Interrupted
  <2>7. HeldIsTracked'
    BY <2>1, <2>2, <2>3, <2>4, <1>t DEF HeldIsTracked, Interrupted
  <2>8. RestoringInv'
    BY <2>1, <1>t DEF RestoringInv, RestoreSource, Interrupted, ArrivedPcs, SettlingPcs, RestoringPcs
  <2> QED
    BY <2>1, <2>5, <2>6, <2>7, <2>8, <1>w DEF TrackInv, SettlingPcs
<1>7. CASE SettleItem
  <2>1. /\ run.pc = "v_restore_item" /\ run.pc \in SettlingPcs
        /\ run'.pc = "v_restore_op" /\ run'.op = run.op /\ run'.file = run.file
        /\ run'.verdict = run.verdict
        /\ UNCHANGED <<disk, ops, dirItem, entries>>
    BY <1>7, GotoFacts DEF SettleItem, diskVars, SettlingPcs
  <2>2. PICK s : SetItem(run.op, run.file, s)
    BY <1>7 DEF SettleItem
  <2>3. RowGets(run.op, run.file, s)
    BY <1>5, <2>1, <2>2, SetItemFacts
  <2>4. \A o \in OpIds, f \in Files :
          /\ items'[o][f].expected = items[o][f].expected
          /\ items'[o][f].result = items[o][f].result
          /\ o # run.op => items'[o][f] = items[o][f]
    BY <2>3 DEF RowGets, SameRows
  <2>5. RowsInv'
    BY <2>1, <2>4, <1>5, <1>t, RowsFrame
  <2>6. RestoreRowsInv'
    <3>1. Interrupted' = Interrupted /\ \A r \in Interrupted : r \in OpIds
      BY <2>1 DEF Interrupted
    <3>2. \A r \in Interrupted : ops[r].kind = "restore" =>
             ops[r].entry \in OpIds /\ ops[r].file \in Files
      BY <3>1 DEF OpsInv
    <3> QED
      BY <2>1, <2>4, <3>1, <3>2, <1>t, ZenonT(60) DEF RestoreRowsInv
  <2>7. HeldIsTracked'
    BY <2>1, <2>4, <1>5, <1>t, ZenonT(60) DEF HeldIsTracked, Interrupted, Occupied
  <2>8. RestoringInv'
    BY <2>1, <1>t DEF RestoringInv, RestoreSource, Interrupted, ArrivedPcs, SettlingPcs, RestoringPcs
  <2> QED
    BY <2>1, <2>5, <2>6, <2>7, <2>8, <1>w DEF TrackInv, SettlingPcs
<1>8. CASE SettleOperation
  <2>1. /\ run.pc \in SettlingPcs /\ UNCHANGED <<disk, items, dirItem, entries>>
    BY <1>8 DEF SettleOperation, diskVars, SettlingPcs
  <2>2. run'.pc = "v_next"
    BY <1>5, <1>8, <2>1, SettledType DEF SettleOperation
  <2>3. /\ RowsKept /\ Interrupted' = Interrupted \ {run.op}
        /\ \A m \in OpIds : m # run.op => ops'[m] = ops[m]
    <3>1. PICK s \in {"done", "failed", "rolled_back"} : SetStatus(run.op, s)
      BY <1>8 DEF SettleOperation
    <3>2. s \in OpStatuses /\ s \notin InFlight
      BY DEF OpStatuses, InFlight
    <3>3. run.op \in OpIds
      BY <1>5, <2>1
    <3> QED
      BY ONLY <3>1, <3>2, <3>3, StatusFacts, ops \in [OpIds -> OpRows]
  <2>4. RowsInv'
    BY <2>1, <2>3, <1>5, <1>t, RowsFrame DEF RowsKept
  <2>5. RestoreRowsInv'
    <3>1. \A r \in Interrupted' : FALSE
      BY <1>5, <2>1, <2>3 DEF OneInterrupted
    <3> QED
      BY <3>1 DEF RestoreRowsInv
  <2>6. HeldIsTracked'
    BY <2>1, <2>3, <1>5, <1>t DEF HeldIsTracked, Occupied
  <2> QED
    BY <2>2, <2>4, <2>5, <2>6, <1>v DEF TrackInv
<1> QED
  BY <1>1, <1>2, <1>3, <1>4, <1>6, <1>7, <1>8

\* TrackInv is inductive when no verification of a renamed file fails and the
\* user keeps out of the holding area.
LEMMA TrackStep ==
  ASSUME "verify" \notin Faults, "holding" \notin Reach,
         IInv, TrackInv, [Next]_vars
  PROVE  TrackInv'
<1>1. CASE Request
  BY <1>1, TrackRequest
<1>2. CASE QuarantineStep
  BY <1>2, TrackQuarantine
<1>3. CASE RestoreStep
  BY <1>3, TrackRestore
<1>4. CASE \/ \E f \in Files : \/ ReturnHeld(f) \/ AlreadyReturned(f)
                               \/ ExposeHeldCopy(f) \/ LeaveUnresolved(f)
                               \/ ReconcileEntry(f) \/ EntryWithoutProof(f)
                               \/ ItemProbeFails(f) \/ EntryProbeFails(f)
           \/ MarkReturned \/ MarkExposed \/ ItemsDone
           \/ KeepInterrupted \/ RollBackCleanup \/ CloseRolledBack
  BY <1>4, TrackReversal
<1>5. CASE \/ RecoverBegin \/ RecoverFinish \/ RecoverReturn
           \/ \E o \in OpIds : \/ RecoverOperation(o) \/ SurfaceRestore(o)
                               \/ SettleRestore(o) \/ RestoreProbeFails(o)
           \/ SettleEntry \/ SettleItem \/ SettleOperation
  BY <1>5, TrackSettling
<1>6. CASE Crash
  BY <1>6, TrackCrash
<1>7. CASE UserStep
  BY <1>7, TrackUser
<1>8. CASE UNCHANGED vars
  BY <1>8 DEF vars, TrackInv, RowsInv, RestoreRowsInv, MoveInv, RestoringInv, ReverseInv,
     HeldIsTracked, Occupied, Listed, Open, Interrupted, RestoreSource
<1>9. CASE RecoveryStep
  BY <1>4, <1>5, <1>9 DEF RecoveryStep
<1>10. CASE Fault
  BY <1>2, <1>3, <1>4, <1>5, <1>10 DEF Fault, ProbeFault, QuarantineStep, RestoreStep
<1> QED
  BY <1>1, <1>2, <1>3, <1>6, <1>7, <1>8, <1>9, <1>10 DEF Next, ProgramStep

\* Whatever lies in the holding area is listed in quarantine_entry or named by
\* a row of the unfinished operation, whatever crashes, refused moves, failed
\* probes and changes of the user's own paths: no file is held and forgotten.
\* The two hypotheses leave out what the code does not survive: a rename that
\* succeeds and reports failure, and a user who writes into the holding area.
THEOREM HeldIsTrackedTheorem ==
  ASSUME "verify" \notin Faults, "holding" \notin Reach
  PROVE  Spec => []HeldIsTracked
<1>1. IInv /\ TrackInv /\ [Next]_vars => TrackInv'
  BY TrackStep
<1>2. TrackInv => HeldIsTracked
  BY DEF TrackInv
<1> QED
  BY <1>1, <1>2, TrackInit, Invariance, PTL DEF Spec

-----------------------------------------------------------------------------
(* What each step changes, row by row and path by path.                    *)

\* A step leaves every other entry alone.
SameEntries(o, f) ==
  \A m \in OpIds, g \in Files : m # o \/ g # f => entries'[m][g] = entries[m][g]

\* SkipProtected and RefuseSource settle a row of the plan without a move.
LEMMA SkipEffect ==
  ASSUME IInv, NEW f \in Files, SkipProtected(f) \/ RefuseSource(f)
  PROVE  /\ \E s \in {"skipped", "failed"} : RowGets(run.op, f, s)
         /\ run.pc = "q_item" /\ f \in run.todo
         /\ run'.pc = "q_item" /\ run'.op = run.op /\ run'.file = run.file
         /\ run'.todo = run.todo \ {f} /\ run'.moved = run.moved
         /\ UNCHANGED <<diskVars, ops, dirItem, entries>>
<1> USE DEF IInv, TypeOK, JournalTypeOK
<1>1. PICK s \in {"skipped", "failed"} : SetItem(run.op, f, s)
  BY DEF SkipProtected, RefuseSource
<1>2. run.op \in OpIds
  BY DEF SkipProtected, RefuseSource, RunInv
<1>3. RowGets(run.op, f, s)
  BY <1>1, <1>2, SetItemFacts
<1> QED
  BY <1>3 DEF SkipProtected, RefuseSource, RunStates

\* The intent of a move names the object at the original path.
LEMMA IntentEffect ==
  ASSUME IInv, NEW f \in Files, RecordIntent(f)
  PROVE  /\ items'[run.op][f].status = "pending"
         /\ items'[run.op][f].expected = disk[Orig(f)]
         /\ items'[run.op][f].result = None
         /\ disk[Orig(f)] # None
         /\ SameRows(run.op, f)
         /\ run.pc = "q_item" /\ f \in run.todo
         /\ run'.pc = "q_rename" /\ run'.op = run.op /\ run'.file = f
         /\ run'.todo = run.todo /\ run'.moved = run.moved
         /\ UNCHANGED <<diskVars, ops, dirItem, entries>>
<1> USE DEF IInv, TypeOK, JournalTypeOK
<1>1. run.op \in OpIds
  BY DEF RecordIntent, RunInv
<1>2. disk[Orig(f)] # None
  BY JournalAssumption DEF RecordIntent
<1>3. /\ items'[run.op][f].status = "pending"
      /\ items'[run.op][f].expected = disk[Orig(f)]
      /\ items'[run.op][f].result = None
      /\ SameRows(run.op, f)
  BY <1>1 DEF RecordIntent, SameRows
<1> QED
  BY <1>2, <1>3 DEF RecordIntent, RunStates

\* The move itself.
LEMMA MoveEffect ==
  ASSUME IInv, MoveToHolding
  PROVE  /\ run.pc = "q_rename" /\ run.file \in Files /\ run.op \in OpIds
         /\ run'.pc = "q_item_done" /\ run'.op = run.op /\ run'.file = run.file
         /\ run'.todo = run.todo /\ run'.moved = run.moved
         /\ disk[Held(run.op, run.file)] = None
         /\ disk'[Held(run.op, run.file)] = disk[Orig(run.file)]
         /\ disk'[Orig(run.file)] = None
         /\ \A o \in OpIds, f \in Files : o # run.op \/ f # run.file =>
              disk'[Held(o, f)] = disk[Held(o, f)]
         /\ \A f \in Files : f # run.file => disk'[Orig(f)] = disk[Orig(f)]
         /\ Rename(Orig(run.file), Held(run.op, run.file))
         /\ UNCHANGED <<ops, items, dirItem, entries>>
<1> USE DEF IInv, TypeOK, JournalTypeOK
<1>1. run.pc = "q_rename" /\ run.file \in Files /\ run.op \in OpIds
  BY DEF MoveToHolding, RunInv, FilePcs
<1>2. Rename(Orig(run.file), Held(run.op, run.file))
  BY DEF MoveToHolding
<1>3. /\ disk[Held(run.op, run.file)] = None
      /\ disk'[Held(run.op, run.file)] = disk[Orig(run.file)]
      /\ disk'[Orig(run.file)] = None
      /\ \A o \in OpIds, f \in Files : o # run.op \/ f # run.file =>
           disk'[Held(o, f)] = disk[Held(o, f)]
      /\ \A f \in Files : f # run.file => disk'[Orig(f)] = disk[Orig(f)]
  BY <1>1, <1>2, HeldPathFacts, RenameFacts
<1> QED
  BY <1>1, <1>2, <1>3 DEF MoveToHolding, RunStates, journalVars

\* A row marked failed or done after the move, and the entry.
LEMMA MarkItemEffect ==
  ASSUME IInv, MarkItemFailed \/ MarkItemDone
  PROVE  /\ run.file \in Files /\ run.op \in OpIds /\ run'.op = run.op
         /\ SameRows(run.op, run.file)
         /\ items'[run.op][run.file].expected = items[run.op][run.file].expected
         /\ MarkItemFailed => /\ run.pc = "q_item_failed" /\ run'.pc = "q_item"
                              /\ run'.file = None /\ run'.todo = run.todo \ {run.file}
                              /\ run'.moved = run.moved
                              /\ RowGets(run.op, run.file, "failed")
         /\ MarkItemDone => /\ run.pc = "q_item_done" /\ run'.pc = "q_entry"
                            /\ run'.file = run.file /\ run'.todo = run.todo
                            /\ run'.moved = run.moved
                            /\ items'[run.op][run.file].status = "done"
                            /\ items'[run.op][run.file].result =
                                 items[run.op][run.file].expected
         /\ UNCHANGED <<diskVars, ops, dirItem, entries>>
<1> USE DEF IInv, TypeOK, JournalTypeOK
<1>1. run.file \in Files /\ run.op \in OpIds
  BY DEF MarkItemFailed, MarkItemDone, RunInv, FilePcs
<1>2. ASSUME MarkItemFailed PROVE RowGets(run.op, run.file, "failed")
  BY <1>1, <1>2, SetItemFacts DEF MarkItemFailed
<1>3. ASSUME MarkItemDone
      PROVE  /\ items'[run.op][run.file].status = "done"
             /\ items'[run.op][run.file].expected = items[run.op][run.file].expected
             /\ items'[run.op][run.file].result = items[run.op][run.file].expected
             /\ SameRows(run.op, run.file)
  <2> DEFINE e == items[run.op][run.file].expected
  <2>1. items' = [items EXCEPT ![run.op][run.file].status = "done",
                               ![run.op][run.file].result = e]
    BY <1>3 DEF MarkItemDone
  <2> HIDE DEF e
  <2>2. /\ items'[run.op][run.file].status = "done"
        /\ items'[run.op][run.file].expected = items[run.op][run.file].expected
        /\ items'[run.op][run.file].result = e
        /\ SameRows(run.op, run.file)
    BY ONLY <1>1, <2>1, MarkDoneFacts, items \in [OpIds -> [Files -> ItemRows]]
  <2> QED
    BY <2>2 DEF e
<1>4. ASSUME MarkItemFailed
      PROVE  /\ run.pc = "q_item_failed" /\ run'.pc = "q_item"
             /\ run'.file = None /\ run'.todo = run.todo \ {run.file} /\ run'.op = run.op
             /\ run'.moved = run.moved
  BY <1>4 DEF MarkItemFailed, NextItem, RunStates
<1>5. ASSUME MarkItemDone
      PROVE  /\ run.pc = "q_item_done" /\ run'.pc = "q_entry"
             /\ run'.file = run.file /\ run'.todo = run.todo /\ run'.op = run.op
             /\ run'.moved = run.moved
  BY <1>5, GotoFacts DEF MarkItemDone
<1>6. UNCHANGED <<diskVars, ops, dirItem, entries>>
  BY DEF MarkItemFailed, MarkItemDone
<1> QED
  BY <1>1, <1>2, <1>3, <1>4, <1>5, <1>6 DEF RowGets

\* InsertEntry lists the file in the move's hands.
LEMMA InsertEffect ==
  ASSUME IInv, InsertEntry
  PROVE  /\ run.pc = "q_entry" /\ run.file \in Files /\ run.op \in OpIds
         /\ run'.pc = "q_item" /\ run'.op = run.op /\ run'.file = None
         /\ run'.todo = run.todo \ {run.file} /\ run'.moved
         /\ entries'[run.op][run.file] = "quarantined"
         /\ SameEntries(run.op, run.file)
         /\ UNCHANGED <<diskVars, ops, items, dirItem>>
<1> USE DEF IInv, TypeOK, JournalTypeOK
<1>1. run.file \in Files /\ run.op \in OpIds
  BY DEF InsertEntry, RunInv, FilePcs
<1>2. entries'[run.op][run.file] = "quarantined" /\ SameEntries(run.op, run.file)
  BY <1>1 DEF InsertEntry, SameEntries
<1> QED
  BY <1>1, <1>2 DEF InsertEntry, NextItem, RunStates

\* FinishMove closes the running move.
LEMMA FinishMoveEffect ==
  ASSUME IInv, FinishMove
  PROVE  /\ run.pc = "q_item" /\ run.todo = {} /\ run'.pc = "idle"
         /\ RowsKept /\ Interrupted' = Interrupted \ {run.op}
         /\ ops'[run.op].status \in {"failed", "done"}
         /\ \A m \in OpIds : m # run.op => ops'[m] = ops[m]
         /\ UNCHANGED <<diskVars, items, dirItem, entries>>
<1> USE DEF IInv, TypeOK, JournalTypeOK
<1>1. PICK s \in {"failed", "done"} : SetStatus(run.op, s)
  BY DEF FinishMove
<1>2. s \in OpStatuses /\ s \notin InFlight
  BY DEF OpStatuses, InFlight
<1>3. run.op \in OpIds
  BY DEF FinishMove, RunInv
<1>4. /\ RowsKept /\ Interrupted' = Interrupted \ {run.op}
      /\ ops'[run.op].status = s
      /\ \A m \in OpIds : m # run.op => ops'[m] = ops[m]
  BY ONLY <1>1, <1>2, <1>3, StatusFacts, ops \in [OpIds -> OpRows]
<1> QED
  BY <1>4, IdleType DEF FinishMove

\* Where a restore's source and destination are, and what the rename does.
LEMMA RestoreMoveEffect ==
  ASSUME IInv, MoveToDestination
  PROVE  /\ run.pc = "r_rename" /\ run.op \in OpIds
         /\ run'.pc = "r_verifying" /\ run'.op = run.op /\ run'.file = run.file
         /\ Rename(RestoreSource(run.op), ops[run.op].dest)
         /\ RestoreSource(run.op) \in Paths /\ ops[run.op].dest \in Paths
         /\ RestoreSource(run.op) # ops[run.op].dest
         /\ disk'[RestoreSource(run.op)] = None
         /\ disk'[ops[run.op].dest] = disk[RestoreSource(run.op)]
         /\ disk[ops[run.op].dest] = None
         /\ \A p \in Paths : p # RestoreSource(run.op) /\ p # ops[run.op].dest =>
              disk'[p] = disk[p]
         /\ \A o \in OpIds, f \in Files :
              Held(o, f) # RestoreSource(run.op) => disk'[Held(o, f)] = disk[Held(o, f)]
         /\ \A f \in Files : disk[Orig(f)] # None => disk'[Orig(f)] = disk[Orig(f)]
         /\ UNCHANGED <<ops, items, dirItem, entries>>
<1> USE DEF IInv, TypeOK, JournalTypeOK
<1>1. run.op \in OpIds /\ ops[run.op].kind = "restore" /\ run.pc = "r_rename"
  BY DEF MoveToDestination, RunInv, RestoringPcs, RestorePcs
<1>2. /\ RestoreSource(run.op) \in Paths /\ ops[run.op].dest \in Paths
      /\ RestoreSource(run.op) \notin UserPaths /\ ops[run.op].dest \in UserPaths
  BY <1>1, RestorePaths
<1>3. Rename(RestoreSource(run.op), ops[run.op].dest)
  BY DEF MoveToDestination
<1>4. /\ disk'[RestoreSource(run.op)] = None
      /\ disk'[ops[run.op].dest] = disk[RestoreSource(run.op)]
      /\ disk[ops[run.op].dest] = None
      /\ \A p \in Paths : p # RestoreSource(run.op) /\ p # ops[run.op].dest =>
           disk'[p] = disk[p]
  BY <1>2, <1>3, RenameFacts
<1>5. \A o \in OpIds, f \in Files :
        Held(o, f) # RestoreSource(run.op) => disk'[Held(o, f)] = disk[Held(o, f)]
  BY <1>2, <1>4, PathFacts
<1>6. \A f \in Files : disk[Orig(f)] # None => disk'[Orig(f)] = disk[Orig(f)]
  BY <1>2, <1>4, PathFacts, OrigUser, SMTT(30)
<1>7. run'.pc = "r_verifying" /\ run'.op = run.op /\ run'.file = run.file
  BY DEF MoveToDestination, RunStates
<1> QED
  BY <1>1, <1>2, <1>3, <1>4, <1>5, <1>6, <1>7 DEF MoveToDestination, journalVars

\* The restore's own row.
LEMMA RestoreRowEffect ==
  ASSUME IInv, RecordResult \/ MarkRestoreItemDone \/ MarkRestoreItemFailed
  PROVE  /\ run.pc \in {"r_result", "r_item_done", "r_item_failed"}
         /\ run'.pc = CASE run.pc = "r_result" -> "r_item_done"
                        [] run.pc = "r_item_done" -> "r_entry"
                        [] run.pc = "r_item_failed" -> "r_failed"
         /\ run'.op = run.op /\ run'.file = run.file
         /\ run.op \in OpIds /\ run.file \in Files
         /\ items'[run.op][run.file].status \in
              {items[run.op][run.file].status, "done", "failed"}
         /\ items'[run.op][run.file].expected = items[run.op][run.file].expected
         /\ items'[run.op][run.file].result \in
              {items[run.op][run.file].result, items[run.op][run.file].expected}
         /\ SameRows(run.op, run.file)
         /\ UNCHANGED <<diskVars, ops, dirItem, entries>>
<1> USE DEF IInv, TypeOK, JournalTypeOK
<1>1. run.op \in OpIds /\ run.file \in Files
  BY DEF RecordResult, MarkRestoreItemDone, MarkRestoreItemFailed, RunInv,
         FilePcs, RestorePcs
<1>2. CASE RecordResult
  <2>1. /\ items'[run.op][run.file].status = items[run.op][run.file].status
        /\ items'[run.op][run.file].expected = items[run.op][run.file].expected
        /\ items'[run.op][run.file].result = items[run.op][run.file].expected
        /\ SameRows(run.op, run.file)
    BY <1>1, <1>2, ResultFacts DEF RecordResult
  <2>2. run.pc = "r_result" /\ run'.pc = "r_item_done" /\ run'.op = run.op /\ run'.file = run.file
    BY <1>2, GotoFacts DEF RecordResult
  <2> QED
    BY <1>1, <1>2, <2>1, <2>2 DEF RecordResult
<1>3. CASE MarkRestoreItemDone
  <2>1. RowGets(run.op, run.file, "done")
    BY <1>1, <1>3, SetItemFacts DEF MarkRestoreItemDone
  <2>2. run.pc = "r_item_done" /\ run'.pc = "r_entry" /\ run'.op = run.op /\ run'.file = run.file
    BY <1>3, GotoFacts DEF MarkRestoreItemDone
  <2> QED
    BY <1>1, <1>3, <2>1, <2>2 DEF MarkRestoreItemDone, RowGets
<1>4. CASE MarkRestoreItemFailed
  <2>1. RowGets(run.op, run.file, "failed")
    BY <1>1, <1>4, SetItemFacts DEF MarkRestoreItemFailed
  <2>2. run.pc = "r_item_failed" /\ run'.pc = "r_failed" /\ run'.op = run.op /\ run'.file = run.file
    BY <1>4, GotoFacts DEF MarkRestoreItemFailed
  <2> QED
    BY <1>1, <1>4, <2>1, <2>2 DEF MarkRestoreItemFailed, RowGets
<1> QED
  BY <1>2, <1>3, <1>4

\* FinishRestore and FailRestore close the running restore.
LEMMA FinishRestoreEffect ==
  ASSUME IInv, FinishRestore \/ FailRestore
  PROVE  /\ run.pc \in {"r_done", "r_failed"} /\ run'.pc = "idle" /\ run.op \in OpIds
         /\ RowsKept /\ Interrupted' = Interrupted \ {run.op}
         /\ \A m \in OpIds : m # run.op => ops'[m] = ops[m]
         /\ UNCHANGED <<diskVars, items, dirItem, entries>>
<1> USE DEF IInv, TypeOK, JournalTypeOK
<1>1. PICK s \in {"done", "failed"} :
        \/ ops' = [ops EXCEPT ![run.op].status = s]
        \/ ops' = [ops EXCEPT ![run.op].status = s, ![run.op].error = "move_failed"]
  BY DEF FinishRestore, FailRestore, SetStatus
<1>2. s \in OpStatuses /\ s \notin InFlight /\ "move_failed" \in OpErrors
  BY DEF OpStatuses, InFlight, OpErrors
<1>3. run.op \in OpIds
  BY DEF FinishRestore, FailRestore, RunInv
<1>4. /\ RowsKept /\ Interrupted' = Interrupted \ {run.op}
      /\ \A m \in OpIds : m # run.op => ops'[m] = ops[m]
  BY ONLY <1>1, <1>2, <1>3, SetRowFacts, ops \in [OpIds -> OpRows]
<1> QED
  BY <1>3, <1>4, IdleType DEF FinishRestore, FailRestore

\* Recovery brings a held copy back.
LEMMA ReturnEffect ==
  ASSUME IInv, NEW f \in Files, ReturnHeld(f)
  PROVE  /\ run.pc = "v_item" /\ f \in run.todo /\ run.op \in OpIds
         /\ ToMatches(run.op, f)
         /\ Rename(Held(run.op, f), Orig(f))
         /\ run'.pc = "v_returned" /\ run'.op = run.op /\ run'.file = f
         /\ run'.todo = run.todo /\ run'.proof = run.proof
         /\ run'.resolved = run.resolved
         /\ disk[Orig(f)] = None
         /\ disk'[Held(run.op, f)] = None
         /\ disk'[Orig(f)] = disk[Held(run.op, f)]
         /\ \A m \in OpIds, g \in Files :
              m # run.op \/ g # f => disk'[Held(m, g)] = disk[Held(m, g)]
         /\ \A g \in Files : g # f => disk'[Orig(g)] = disk[Orig(g)]
         /\ rootDir'
         /\ UNCHANGED <<ops, items, dirItem, entries>>
<1> USE DEF IInv, TypeOK, JournalTypeOK
<1>1. run.op \in OpIds /\ Rename(Held(run.op, f), Orig(f))
  BY DEF ReturnHeld, AtItem, RunInv
<1>2. /\ disk[Orig(f)] = None
      /\ disk'[Held(run.op, f)] = None
      /\ disk'[Orig(f)] = disk[Held(run.op, f)]
      /\ \A m \in OpIds, g \in Files :
           m # run.op \/ g # f => disk'[Held(m, g)] = disk[Held(m, g)]
      /\ \A g \in Files : g # f => disk'[Orig(g)] = disk[Orig(g)]
  BY <1>1, ReturnFacts
<1>3. rootDir'
  BY <1>1 DEF Rename, Orig
<1>4. /\ run'.pc = "v_returned" /\ run'.op = run.op /\ run'.file = f
      /\ run'.todo = run.todo /\ run'.proof = run.proof
      /\ run'.resolved = run.resolved
  BY DEF ReturnHeld, RunStates
<1>5. /\ run.pc = "v_item" /\ f \in run.todo /\ ToMatches(run.op, f)
      /\ UNCHANGED <<ops, items, dirItem, entries>>
  BY DEF ReturnHeld, AtItem, journalVars
<1> QED
  BY <1>1, <1>2, <1>3, <1>4, <1>5

\* A row of the interrupted move is settled.
LEMMA SettledRowEffect ==
  ASSUME IInv, NEW f \in Files,
         \/ MarkReturned /\ f = run.file
         \/ MarkExposed /\ f = run.file
         \/ AlreadyReturned(f)
  PROVE  /\ run.op \in OpIds
         /\ RowGets(run.op, f, IF run.pc = "v_exposed" THEN "done" ELSE "rolled_back")
         /\ run.pc \in Returning
         /\ run.pc = "v_item" => /\ f \in run.todo /\ FromMatches(run.op, f)
                                 /\ ~ToMatches(run.op, f)
         /\ run'.pc = "v_item" /\ run'.op = run.op
         /\ run'.todo = run.todo \ {f} /\ run'.proof = run.proof
         /\ run'.resolved = run.resolved
         /\ UNCHANGED <<diskVars, ops, dirItem, entries>>
<1> USE DEF IInv, TypeOK, JournalTypeOK
<1>1. run.op \in OpIds
  BY DEF MarkReturned, MarkExposed, AlreadyReturned, AtItem, RunInv
<1>2. /\ run'.pc = "v_item" /\ run'.op = run.op
      /\ run'.todo = run.todo \ {f} /\ run'.proof = run.proof
      /\ run'.resolved = run.resolved
  BY ItemSettledRun DEF MarkReturned, MarkExposed, AlreadyReturned
<1>3. /\ run.pc \in Returning
      /\ run.pc = "v_item" => /\ f \in run.todo /\ FromMatches(run.op, f)
                              /\ ~ToMatches(run.op, f)
      /\ SetItem(run.op, f, IF run.pc = "v_exposed" THEN "done" ELSE "rolled_back")
      /\ UNCHANGED <<diskVars, ops, dirItem, entries>>
  BY DEF MarkReturned, MarkExposed, AlreadyReturned, AtItem, Returning
<1>4. RowGets(run.op, f, IF run.pc = "v_exposed" THEN "done" ELSE "rolled_back")
  BY <1>1, <1>3, SetItemFacts
<1> QED
  BY <1>1, <1>2, <1>3, <1>4

\* Both copies exist: the held one is listed.
LEMMA ExposeEffect ==
  ASSUME IInv, NEW f \in Files, ExposeHeldCopy(f)
  PROVE  /\ run.pc = "v_item" /\ f \in run.todo /\ run.op \in OpIds
         /\ FromMatches(run.op, f) /\ ToMatches(run.op, f)
         /\ run'.pc = "v_exposed" /\ run'.op = run.op /\ run'.file = f
         /\ run'.todo = run.todo /\ run'.proof = run.proof
         /\ run'.resolved = run.resolved
         /\ entries'[run.op][f] = "quarantined" /\ SameEntries(run.op, f)
         /\ UNCHANGED <<diskVars, ops, items, dirItem>>
<1> USE DEF IInv, TypeOK, JournalTypeOK
<1>1. run.op \in OpIds
  BY DEF ExposeHeldCopy, AtItem, RunInv
<1>2. entries'[run.op][f] = "quarantined" /\ SameEntries(run.op, f)
  BY <1>1 DEF ExposeHeldCopy, SameEntries
<1> QED
  BY <1>1, <1>2 DEF ExposeHeldCopy, AtItem, RunStates

\* What cannot be proved leaves the operation interrupted.
LEMMA UnresolvedEffect ==
  ASSUME IInv, NEW f \in Files,
         \/ LeaveUnresolved(f) \/ ItemProbeFails(f)
         \/ EntryWithoutProof(f) \/ EntryProbeFails(f)
  PROVE  /\ run.pc \in {"v_item", "v_entry"} /\ f \in run.todo /\ run.op \in OpIds
         /\ run'.pc = run.pc /\ run'.op = run.op /\ run'.file = run.file
         /\ run'.todo = run.todo \ {f} /\ run'.proof = run.proof
         /\ run'.resolved = FALSE
         /\ RowsKept /\ Interrupted' = Interrupted
         /\ UNCHANGED <<diskVars, items, dirItem, entries>>
<1> USE DEF IInv, TypeOK, JournalTypeOK
<1>1. /\ Unresolved(f) /\ run.pc \in {"v_item", "v_entry"} /\ f \in run.todo
      /\ UNCHANGED diskVars /\ run.op \in OpIds
  BY DEF LeaveUnresolved, ItemProbeFails, EntryWithoutProof, EntryProbeFails, AtItem, AtEntry, RunInv
<1>2. /\ run'.pc = run.pc /\ run'.op = run.op /\ run'.file = run.file
      /\ run'.todo = run.todo \ {f} /\ run'.proof = run.proof
      /\ run'.resolved = FALSE
  BY <1>1, UnresolvedRun
<1> QED
  BY <1>1, <1>2, UnresolvedFacts

\* Between the rows, the entries and the cleanup rows of a reversal.
LEMMA ReversalTurnEffect ==
  ASSUME IInv, ItemsDone \/ RollBackCleanup
  PROVE  /\ run.todo = {} /\ run.op \in OpIds /\ run'.op = run.op
         /\ run'.proof = run.proof /\ run'.resolved = run.resolved
         /\ ItemsDone => /\ run.pc = "v_item" /\ run'.pc = "v_entry"
                         /\ run'.todo = {f \in Files : entries[run.op][f] = "quarantined"}
                         /\ UNCHANGED dirItem
         /\ RollBackCleanup =>
              /\ run.pc = "v_entry" /\ run'.pc = "v_close" /\ run.resolved
              /\ run'.todo = run.todo
              /\ dirItem'[run.op] = IF dirItem[run.op] \in {"pending", "done"}
                                    THEN "rolled_back" ELSE dirItem[run.op]
              /\ \A m \in OpIds : m # run.op => dirItem'[m] = dirItem[m]
         /\ UNCHANGED <<diskVars, ops, items, entries>>
<1> USE DEF IInv, TypeOK, JournalTypeOK
<1>1. run.op \in OpIds
  BY DEF ItemsDone, RollBackCleanup, RunInv
<1>2. ASSUME RollBackCleanup
      PROVE  /\ run.pc = "v_entry" /\ run'.pc = "v_close" /\ run.resolved
             /\ run.todo = {} /\ run'.todo = run.todo /\ run'.op = run.op
             /\ run'.proof = run.proof /\ run'.resolved = run.resolved
             /\ dirItem'[run.op] = IF dirItem[run.op] \in {"pending", "done"}
                                   THEN "rolled_back" ELSE dirItem[run.op]
             /\ \A m \in OpIds : m # run.op => dirItem'[m] = dirItem[m]
  BY <1>1, <1>2, GotoFacts DEF RollBackCleanup
<1>3. ASSUME ItemsDone
      PROVE  /\ run.pc = "v_item" /\ run'.pc = "v_entry" /\ run'.op = run.op
             /\ run.todo = {} /\ run'.proof = run.proof /\ run'.resolved = run.resolved
             /\ run'.todo = {f \in Files : entries[run.op][f] = "quarantined"}
             /\ UNCHANGED dirItem
  BY <1>3 DEF ItemsDone, RunStates, journalVars
<1> QED
  BY <1>1, <1>2, <1>3 DEF ItemsDone, RollBackCleanup, journalVars

\* ReconcileEntry strikes off an entry whose file is back.
LEMMA ReconcileEffect ==
  ASSUME IInv, NEW f \in Files, ReconcileEntry(f)
  PROVE  /\ run.pc = "v_entry" /\ f \in run.todo /\ f \in run.proof /\ run.op \in OpIds
         /\ run'.pc = "v_entry" /\ run'.op = run.op
         /\ run'.todo = run.todo \ {f} /\ run'.proof = run.proof
         /\ run'.resolved = run.resolved
         /\ \/ /\ FromMatches(run.op, f) /\ PathAbsent(Held(run.op, f))
               /\ entries'[run.op][f] = "restored"
            \/ /\ ~(FromMatches(run.op, f) /\ PathAbsent(Held(run.op, f)))
               /\ entries'[run.op][f] = entries[run.op][f]
         /\ SameEntries(run.op, f)
         /\ UNCHANGED <<diskVars, ops, items, dirItem>>
<1> USE DEF IInv, TypeOK, JournalTypeOK
<1>1. run.op \in OpIds
  BY DEF ReconcileEntry, AtEntry, RunInv
<1>2. /\ \/ /\ FromMatches(run.op, f) /\ PathAbsent(Held(run.op, f))
            /\ entries'[run.op][f] = "restored"
         \/ /\ ~(FromMatches(run.op, f) /\ PathAbsent(Held(run.op, f)))
            /\ entries'[run.op][f] = entries[run.op][f]
      /\ SameEntries(run.op, f)
  BY <1>1 DEF ReconcileEntry, SameEntries
<1> QED
  BY <1>1, <1>2 DEF ReconcileEntry, AtEntry, RunStates

\* CloseRolledBack closes a reversed move.
LEMMA CloseEffect ==
  ASSUME IInv, CloseRolledBack
  PROVE  /\ run.pc = "v_close" /\ run'.pc = "v_next" /\ run.op \in OpIds
         /\ RowsKept /\ Interrupted' = Interrupted \ {run.op}
         /\ ops'[run.op].status = "rolled_back"
         /\ \A m \in OpIds : m # run.op => ops'[m] = ops[m]
         /\ UNCHANGED <<diskVars, items, dirItem, entries>>
<1> USE DEF IInv, TypeOK, JournalTypeOK
<1>1. run.op \in OpIds /\ SetStatus(run.op, "rolled_back")
  BY DEF CloseRolledBack, RunInv
<1>2. "rolled_back" \in OpStatuses /\ "rolled_back" \notin InFlight
  BY DEF OpStatuses, InFlight
<1>3. /\ RowsKept /\ Interrupted' = Interrupted \ {run.op}
      /\ ops'[run.op].status = "rolled_back"
      /\ \A m \in OpIds : m # run.op => ops'[m] = ops[m]
  BY ONLY <1>1, <1>2, StatusFacts, ops \in [OpIds -> OpRows]
<1> QED
  BY <1>1, <1>3, SettledType DEF CloseRolledBack

\* Recovery records what it cannot settle in the restore's row.
LEMMA SurfaceEffect ==
  ASSUME IInv, NEW r \in OpIds, SurfaceRestore(r) \/ RestoreProbeFails(r)
  PROVE  /\ run.pc = "v_next" /\ run'.pc = "v_next"
         /\ r \in Interrupted /\ ops[r].kind = "restore"
         /\ RowsKept /\ Interrupted' = Interrupted
         /\ \A m \in OpIds : m # r => ops'[m] = ops[m]
         /\ UNCHANGED <<diskVars, items, dirItem, entries>>
<1> USE DEF IInv, TypeOK, JournalTypeOK
<1>1. /\ run.pc = "v_next" /\ r \in Interrupted /\ ops[r].kind = "restore"
      /\ UNCHANGED <<diskVars, items, dirItem, entries>>
  BY DEF SurfaceRestore, RestoreProbeFails, AtRestore, IsFirst, Pending
<1>2. PICK s \in InFlight, e \in OpErrors :
        \/ ops' = [ops EXCEPT ![r].error = e] /\ s = ops[r].status
        \/ ops' = [ops EXCEPT ![r].status = s, ![r].error = e]
  <2>1. CASE SurfaceRestore(r)
    BY <2>1 DEF SurfaceRestore, Surfaced, InFlight, OpErrors
  <2>2. CASE RestoreProbeFails(r)
    BY <1>1, <2>2 DEF RestoreProbeFails, InFlight, OpErrors, Interrupted
  <2> QED
    BY <2>1, <2>2
<1>3. s \in OpStatuses
  BY DEF OpStatuses
<1>4. /\ RowsKept /\ Interrupted' = Interrupted \cup {r}
      /\ \A m \in OpIds : m # r => ops'[m] = ops[m]
  BY <1>2, <1>3, SetRowFacts
<1>5. run'.pc = "v_next"
  BY <1>1 DEF SurfaceRestore, RestoreProbeFails, RunStates
<1> QED
  BY <1>1, <1>4, <1>5

\* SettleEntry writes recovery's verdict of a restore into its entry,
LEMMA SettleEntryEffect ==
  ASSUME IInv, SettleEntry
  PROVE  LET e == ops[run.op].entry IN
         /\ run.pc = "v_restore_entry" /\ run.pc \in SettlingPcs
         /\ run.op \in OpIds /\ run.file \in Files /\ e \in OpIds
         /\ run'.pc = "v_restore_item" /\ run'.op = run.op /\ run'.file = run.file
         /\ run'.verdict = run.verdict
         /\ run.verdict = "held" => entries'[e][run.file] = "quarantined"
         /\ run.verdict = "completed" => entries'[e][run.file] = "restored"
         /\ run.verdict \notin {"held", "completed"} =>
              entries'[e][run.file] = "restore_content_mismatch"
         /\ SameEntries(e, run.file)
         /\ UNCHANGED <<diskVars, ops, items, dirItem>>
<1> USE DEF IInv, TypeOK, JournalTypeOK
<1> DEFINE e == ops[run.op].entry
<1>1. /\ run.pc = "v_restore_entry" /\ run.pc \in SettlingPcs
      /\ run.op \in OpIds /\ run.file \in Files /\ e \in OpIds
  BY DEF SettleEntry, RunInv, OpsInv, FilePcs, RestoringPcs, SettlingPcs
<1>2. /\ run.verdict = "held" => entries'[e][run.file] = "quarantined"
      /\ run.verdict = "completed" => entries'[e][run.file] = "restored"
      /\ run.verdict \notin {"held", "completed"} =>
           entries'[e][run.file] = "restore_content_mismatch"
      /\ SameEntries(e, run.file)
  BY <1>1 DEF SettleEntry, SameEntries
<1> QED
  BY <1>1, <1>2, GotoFacts DEF SettleEntry

\* SettleItem into its row,
LEMMA SettleItemEffect ==
  ASSUME IInv, SettleItem
  PROVE  /\ run.pc = "v_restore_item" /\ run.pc \in SettlingPcs
         /\ run.op \in OpIds /\ run.file \in Files
         /\ run'.pc = "v_restore_op" /\ run'.op = run.op /\ run'.file = run.file
         /\ run'.verdict = run.verdict
         /\ RowGets(run.op, run.file, IF run.verdict = "held" THEN "rolled_back" ELSE "done")
         /\ UNCHANGED <<diskVars, ops, dirItem, entries>>
<1> USE DEF IInv, TypeOK, JournalTypeOK
<1>1. /\ run.pc = "v_restore_item" /\ run.pc \in SettlingPcs
      /\ run.op \in OpIds /\ run.file \in Files
  BY DEF SettleItem, RunInv, FilePcs, SettlingPcs
<1>2. RowGets(run.op, run.file, IF run.verdict = "held" THEN "rolled_back" ELSE "done")
  BY <1>1, SetItemFacts DEF SettleItem
<1> QED
  BY <1>1, <1>2, GotoFacts DEF SettleItem

\* and SettleOperation into its operation.
LEMMA SettleOperationEffect ==
  ASSUME IInv, SettleOperation
  PROVE  /\ run.pc = "v_restore_op" /\ run.pc \in SettlingPcs /\ run.op \in OpIds
         /\ run'.pc = "v_next"
         /\ RowsKept /\ Interrupted' = Interrupted \ {run.op}
         /\ \A m \in OpIds : m # run.op => ops'[m] = ops[m]
         /\ UNCHANGED <<diskVars, items, dirItem, entries>>
<1> USE DEF IInv, TypeOK, JournalTypeOK
<1>1. PICK s \in {"done", "failed", "rolled_back"} : SetStatus(run.op, s)
  BY DEF SettleOperation
<1>2. s \in OpStatuses /\ s \notin InFlight
  BY DEF OpStatuses, InFlight
<1>3. run.op \in OpIds /\ run.pc = "v_restore_op" /\ run.pc \in SettlingPcs
  BY DEF SettleOperation, RunInv, SettlingPcs
<1>4. /\ RowsKept /\ Interrupted' = Interrupted \ {run.op}
      /\ \A m \in OpIds : m # run.op => ops'[m] = ops[m]
  BY ONLY <1>1, <1>2, <1>3, StatusFacts, ops \in [OpIds -> OpRows]
<1> QED
  BY <1>3, <1>4, SettledType DEF SettleOperation

\* The start of a move and of a restore.
LEMMA MoveStartEffect ==
  ASSUME IInv, NEW o \in OpIds, NEW S \in SUBSET Files, NEW p \in BOOLEAN,
         NEW c \in BOOLEAN, MoveStart(o, S, p, c)
  PROVE  /\ ops[o].kind = "none" /\ Interrupted = {} /\ run.pc = "idle"
         /\ run'.pc = "q_item" /\ run'.op = o /\ run'.file = None /\ run'.todo = S
         /\ ~run'.moved
         /\ ops'[o].kind = "quarantine" /\ Interrupted' = {o}
         /\ \A m \in OpIds : m # o => ops'[m] = ops[m]
         /\ UNCHANGED <<diskVars, items, dirItem, entries>>
<1> USE DEF IInv, TypeOK, JournalTypeOK
<1>1. /\ ops[o].kind = "none" /\ Interrupted = {} /\ run.pc = "idle"
      /\ run'.pc = "q_item" /\ run'.op = o /\ run'.file = None /\ run'.todo = S
      /\ ~run'.moved
      /\ UNCHANGED <<diskVars, items, dirItem, entries>>
  BY DEF MoveStart, MayMutate, IsNextOp, Idle
<1>2. /\ ops'[o].kind = "quarantine" /\ ops'[o].status = "executing"
      /\ \A m \in OpIds : m # o => ops'[m] = ops[m]
  BY DEF MoveStart, OpRows
<1>3. Interrupted' = {o}
  BY <1>1, <1>2 DEF Interrupted, InFlight
<1> QED
  BY <1>1, <1>2, <1>3

\* A restore starts from a listed entry whose held copy is proved.
LEMMA RestoreStartEffect ==
  ASSUME IInv, NEW r \in OpIds, NEW o \in OpIds, NEW f \in Files,
         NEW dest \in {Orig(f), Folder(f)}, RestoreStart(r, o, f, dest)
  PROVE  /\ ops[r].kind = "none" /\ Interrupted = {} /\ run.pc = "idle"
         /\ entries[o][f] = "quarantined" /\ items[o][f].status = "done"
         /\ items[o][f].result # None /\ disk[Held(o, f)] = items[o][f].result
         /\ run'.pc = "r_rename" /\ run'.op = r /\ run'.file = f
         /\ ops'[r].kind = "restore" /\ ops'[r].entry = o /\ ops'[r].file = f
         /\ ops'[r].dest = dest /\ Interrupted' = {r}
         /\ \A m \in OpIds : m # r => ops'[m] = ops[m]
         /\ items'[r][f].status = "pending"
         /\ items'[r][f].expected = items[o][f].result
         /\ items'[r][f].result = None
         /\ SameRows(r, f)
         /\ UNCHANGED <<diskVars, dirItem, entries>>
<1> USE DEF IInv, TypeOK, JournalTypeOK
<1>1. /\ ops[r].kind = "none" /\ Interrupted = {} /\ run.pc = "idle"
      /\ entries[o][f] = "quarantined" /\ items[o][f].status = "done"
      /\ items[o][f].result # None /\ disk[Held(o, f)] = items[o][f].result
      /\ run'.pc = "r_rename" /\ run'.op = r /\ run'.file = f
      /\ UNCHANGED <<diskVars, dirItem, entries>>
  BY DEF RestoreStart, MayMutate, IsNextOp, Idle, PathMatches
<1>2. /\ ops'[r].kind = "restore" /\ ops'[r].entry = o /\ ops'[r].file = f
      /\ ops'[r].dest = dest /\ ops'[r].status = "executing"
      /\ \A m \in OpIds : m # r => ops'[m] = ops[m]
  BY DEF RestoreStart
<1>3. /\ items'[r][f].status = "pending"
      /\ items'[r][f].expected = items[o][f].result
      /\ items'[r][f].result = None /\ SameRows(r, f)
  BY DEF RestoreStart, SameRows
<1>4. Interrupted' = {r}
  BY <1>1, <1>2 DEF Interrupted, InFlight
<1> QED
  BY <1>1, <1>2, <1>3, <1>4

-----------------------------------------------------------------------------
(* Where each listed object is.                                            *)

\* The inductive form of ListedIsRestorable and of RestoredIsBack: where the
\* object of every listed entry and of every open row is.
WhereInv ==
  /\ Unique /\ RestoreWhere /\ RestoreAt
  /\ ListedInv /\ OpenInv /\ MoveWhere /\ ReverseWhere

\* The local parts of WhereInv say nothing of an executor elsewhere.
LEMMA WhereElsewhere ==
  /\ run.pc \notin QuarantinePcs => MoveWhere
  /\ run.pc \notin RestoringPcs => RestoreAt
  /\ run.pc \notin ReversalPcs => ReverseWhere
  BY DEF MoveWhere, RestoreAt, ReverseWhere, RestoringPcs, RestorePcs, SettlingPcs

\* The same of the next state.
LEMMA WhereElsewhereNext ==
  /\ run'.pc \notin QuarantinePcs => MoveWhere'
  /\ run'.pc \notin RestoringPcs => RestoreAt'
  /\ run'.pc \notin ReversalPcs => ReverseWhere'
  BY DEF MoveWhere, RestoreAt, ReverseWhere, RestoringPcs, RestorePcs, SettlingPcs

\* The executors' program counters are disjoint.
LEMMA PcSets ==
  /\ QuarantinePcs \cap RestoringPcs = {} /\ QuarantinePcs \cap ReversalPcs = {}
  /\ RestoringPcs \cap ReversalPcs = {}
  /\ {"idle", "v_next", "v_end"} \cap (QuarantinePcs \cup RestoringPcs \cup ReversalPcs) = {}
  /\ SettlingPcs \subseteq RestoringPcs /\ ArrivedPcs \subseteq RestoringPcs
  /\ RestorePcs \subseteq RestoringPcs /\ Returning \subseteq ReversalPcs
  BY DEF QuarantinePcs, RestoringPcs, RestorePcs, ReversalPcs, Returning,
         SettlingPcs, ArrivedPcs

\* A rename keeps every object at one path.
LEMMA RenameUnique ==
  ASSUME disk \in [Paths -> Objects \cup {None}], Unique,
         NEW from \in Paths, NEW to \in Paths, from # to, Rename(from, to)
  PROVE  Unique'
<1>1. /\ disk[to] = None /\ disk'[to] = disk[from] /\ disk'[from] = None
      /\ \A p \in Paths : p # from /\ p # to => disk'[p] = disk[p]
  BY RenameFacts
<1> SUFFICES ASSUME NEW p \in Paths, NEW q \in Paths, p # q, disk'[p] # None
             PROVE  disk'[p] # disk'[q]
  BY DEF Unique
<1>2. CASE p = to
  BY <1>1, <1>2 DEF Unique
<1>3. CASE q = to
  BY <1>1, <1>3 DEF Unique
<1>4. CASE p # to /\ q # to
  BY <1>1, <1>4 DEF Unique
<1> QED
  BY <1>2, <1>3, <1>4

\* With no restore interrupted, RestoreWhere says nothing.
LEMMA NoRestoreWhere ==
  ASSUME \A r \in Interrupted' : ops'[r].kind # "restore"
  PROVE  RestoreWhere'
  BY DEF RestoreWhere

\* A step that touches neither the paths nor the rows of the interrupted
\* restores preserves RestoreWhere.
LEMMA RestoreWhereFrame ==
  ASSUME RestoreWhere, OpsInv, RowsKept, Interrupted' \subseteq Interrupted,
         RestoreRowsInv,
         \A o \in OpIds, f \in Files :
           /\ items'[o][f].expected = items[o][f].expected
           /\ ops[o].kind = "quarantine" => items'[o][f] = items[o][f]
           /\ disk'[Held(o, f)] = disk[Held(o, f)]
           /\ entries'[o][f] = entries[o][f],
         \A p \in UserPaths : disk[p] # None => disk'[p] = disk[p]
  PROVE  RestoreWhere'
<1> SUFFICES ASSUME NEW r \in Interrupted', ops'[r].kind = "restore"
             PROVE  LET o == ops'[r].entry  f == ops'[r].file
                        x == items'[r][f].expected IN
                    /\ ops'[r].dest \in {Orig(f), Folder(f)}
                    /\ items'[o][f].status = "done" /\ items'[o][f].result = x
                    /\ entries'[o][f] \in {"quarantined", "restored"}
                    /\ disk'[Held(o, f)] = x \/ disk'[ops'[r].dest] = x
                    /\ entries'[o][f] = "restored" => disk'[Held(o, f)] = None
  BY DEF RestoreWhere, Occupied
<1> DEFINE o == ops[r].entry
           f == ops[r].file
           d == ops[r].dest
<1>1. r \in Interrupted /\ r \in OpIds
  BY DEF Interrupted
<1>2. /\ ops[r].kind = "restore" /\ ops'[r].entry = o /\ ops'[r].file = f
      /\ ops'[r].dest = d /\ o \in OpIds /\ f \in Files /\ d \in UserPaths
  BY <1>1 DEF RowsKept, OpsInv
<1>3. /\ d \in {Orig(f), Folder(f)}
      /\ items[o][f].status = "done" /\ items[o][f].result = items[r][f].expected
      /\ entries[o][f] \in {"quarantined", "restored"}
      /\ disk[Held(o, f)] = items[r][f].expected \/ disk[d] = items[r][f].expected
      /\ entries[o][f] = "restored" => disk[Held(o, f)] = None
  BY <1>1, <1>2 DEF RestoreWhere, Occupied
<1>4. ops[o].kind = "quarantine" /\ items[r][f].expected # None
  BY <1>1, <1>2 DEF RestoreRowsInv
<1> HIDE DEF o, f, d
<1>5. /\ items'[o][f] = items[o][f] /\ items'[r][f].expected = items[r][f].expected
      /\ disk'[Held(o, f)] = disk[Held(o, f)] /\ entries'[o][f] = entries[o][f]
      /\ disk[d] = items[r][f].expected => disk'[d] = items[r][f].expected
  BY <1>1, <1>2, <1>4
<1> QED
  BY <1>2, <1>3, <1>5

\* A step that lists nothing new and leaves the listed rows, their held
\* copies and the operations alone preserves ListedInv.
LEMMA ListedFrame ==
  ASSUME ListedInv, RowsKept, Interrupted' = Interrupted,
         \A o \in OpIds, f \in Files :
           entries'[o][f] = "quarantined" =>
             /\ entries[o][f] = "quarantined"
             /\ items'[o][f] = items[o][f]
             /\ disk'[Held(o, f)] = disk[Held(o, f)]
             /\ o \in Interrupted /\ disk[Orig(f)] # None => disk'[Orig(f)] = disk[Orig(f)]
  PROVE  ListedInv'
<1>1. \A r \in Interrupted : r \in OpIds
  BY DEF Interrupted
<1>2. \A o, f : Claimed(o, f) => Claimed(o, f)'
  BY <1>1 DEF Claimed, RowsKept
<1> SUFFICES ASSUME NEW o \in OpIds, NEW f \in Files, entries'[o][f] = "quarantined"
             PROVE  /\ items'[o][f].expected # None
                    /\ \/ /\ items'[o][f].status = "done"
                          /\ items'[o][f].result = items'[o][f].expected
                          /\ \/ disk'[Held(o, f)] = items'[o][f].expected
                             \/ Claimed(o, f)'
                             \/ o \in Interrupted' /\ disk'[Orig(f)] = items'[o][f].expected
                       \/ /\ items'[o][f].status = "rolled_back" /\ o \in Interrupted'
                          /\ disk'[Held(o, f)] = None
  BY DEF ListedInv, Listed, Occupied
<1>3. /\ items[o][f].expected # None
      /\ \/ /\ items[o][f].status = "done"
            /\ items[o][f].result = items[o][f].expected
            /\ \/ disk[Held(o, f)] = items[o][f].expected
               \/ Claimed(o, f)
               \/ o \in Interrupted /\ disk[Orig(f)] = items[o][f].expected
         \/ /\ items[o][f].status = "rolled_back" /\ o \in Interrupted
            /\ disk[Held(o, f)] = None
  BY DEF ListedInv, Listed, Occupied
<1>4. /\ items'[o][f] = items[o][f] /\ disk'[Held(o, f)] = disk[Held(o, f)]
      /\ o \in Interrupted /\ disk[Orig(f)] # None => disk'[Orig(f)] = disk[Orig(f)]
  OBVIOUS
<1>5. Claimed(o, f) => Claimed(o, f)'
  BY <1>2
<1> QED
  BY <1>3, <1>4, <1>5

\* Rows that gain neither an open status nor lose their object.
LEMMA OpenFrame ==
  ASSUME OpenInv,
         \A o \in OpIds, f \in Files :
           items'[o][f].status \in {"pending", "done"} =>
             \/ items'[o][f].expected # None
             \/ /\ items[o][f].status \in {"pending", "done"}
                /\ items'[o][f].expected = items[o][f].expected
  PROVE  OpenInv'
  BY DEF OpenInv, Open

\* Nothing is listed and no object has two paths at the start.
LEMMA WhereInit == Init => WhereInv
<1> SUFFICES ASSUME Init PROVE WhereInv
  OBVIOUS
<1>1. run.pc = "idle" /\ Interrupted = {}
  BY DEF Init, JournalInit, Idle, Interrupted, NoOp, InFlight
<1>2. MoveWhere /\ RestoreAt /\ ReverseWhere
  BY <1>1, WhereElsewhere, PcSets
<1>3. Unique
  BY DEF Init, JournalInit, Unique
<1>4. RestoreWhere
  BY <1>1 DEF RestoreWhere
<1>5. ListedInv /\ OpenInv
  BY DEF Init, JournalInit, ListedInv, OpenInv, Listed, Open, NoItem
<1> QED
  BY <1>2, <1>3, <1>4, <1>5 DEF WhereInv

\* Every step of a move preserves WhereInv.
LEMMA WhereQuarantine ==
  ASSUME IInv, TrackInv, WhereInv, QuarantineStep
  PROVE  WhereInv'
<1>t. /\ RowsInv /\ MoveInv
      /\ run.pc \in QuarantinePcs /\ run.op \in Interrupted /\ run.op \in OpIds
      /\ ops[run.op].kind = "quarantine" /\ run.todo \subseteq Files
      /\ disk \in [Paths -> Objects \cup {None}]
  BY DEF TrackInv, RunStates, QuarantineStep, SkipProtected, RefuseSource, RecordIntent,
         MoveToHolding, MoveRefused, MarkItemFailed, MarkItemDone, InsertEntry,
         RecordCleanup, RemoveFolder, RemoveFolderRefused, RecordCleanupOutcome,
         FinishMove, QuarantinePcs, MoveInv, RunInv, ForwardPcs, IInv, TypeOK, JournalTypeOK
<1>w. Unique /\ ListedInv /\ OpenInv /\ MoveWhere
  BY DEF WhereInv
<1>m. /\ \A f \in Files : Listed(run.op, f) =>
           /\ items[run.op][f].status = "done"
           /\ items[run.op][f].result = items[run.op][f].expected
           /\ disk[Held(run.op, f)] = items[run.op][f].expected
      /\ run.pc \in {"q_item_done", "q_entry"} =>
           disk[Held(run.op, run.file)] = items[run.op][run.file].expected
      /\ run.pc = "q_entry" =>
           /\ items[run.op][run.file].status = "done"
           /\ items[run.op][run.file].result = items[run.op][run.file].expected
  BY <1>t, <1>w DEF MoveWhere
<1>r. \A r \in Interrupted : ops[r].kind # "restore" /\ r = run.op /\ r \in OpIds
  BY <1>t DEF IInv, OneInterrupted, Interrupted
<1>i. UNCHANGED ops => RowsKept /\ Interrupted' = Interrupted
  BY DEF RowsKept, Interrupted
<1>q. Interrupted' \subseteq Interrupted /\ RowsKept => RestoreWhere'
  BY <1>r, NoRestoreWhere DEF RowsKept
<1>u. UNCHANGED disk => Unique'
  BY <1>w DEF Unique
<1>v. run'.pc \in QuarantinePcs \cup {"idle"} => RestoreAt' /\ ReverseWhere'
  BY WhereElsewhereNext, PcSets
<1>1. ASSUME NEW f \in Files,
             \/ SkipProtected(f) \/ RefuseSource(f) \/ RecordIntent(f)
             \/ MarkItemFailed /\ f = run.file
      PROVE  WhereInv'
  <2>1. /\ SameRows(run.op, f) /\ run'.pc \in {"q_item", "q_rename"} /\ run'.op = run.op
        /\ UNCHANGED <<diskVars, ops, entries>>
        /\ items'[run.op][f].status \in {"pending", "done"} => items'[run.op][f].expected # None
    <3>1. CASE SkipProtected(f) \/ RefuseSource(f)
      BY <3>1, SkipEffect DEF RowGets
    <3>2. CASE RecordIntent(f)
      BY <3>2, IntentEffect
    <3>3. CASE MarkItemFailed /\ f = run.file
      BY <3>3, MarkItemEffect DEF RowGets
    <3> QED
      BY <1>1, <3>1, <3>2, <3>3
  <2>2. items[run.op][f] = NoItem \/ items[run.op][f].status = "pending"
    <3>1. CASE SkipProtected(f) \/ RefuseSource(f) \/ RecordIntent(f)
      <4>1. run.pc = "q_item" /\ f \in run.todo
        BY <3>1, SkipEffect, IntentEffect
      <4>2. run.file = None
        BY <4>1, <1>t DEF MoveInv, FilePcs, RestorePcs
      <4> QED
        BY <4>1, <4>2, <1>t, JournalAssumption DEF MoveInv
    <3>2. CASE MarkItemFailed /\ f = run.file
      BY <3>2, <1>t, MarkItemEffect DEF MoveInv
    <3> QED
      BY <1>1, <3>1, <3>2
  <2>3. ~Listed(run.op, f)
    BY <1>m, <2>2 DEF NoItem
  <2>4. MoveWhere'
    <3>1. \A g \in Files : Listed(run.op, g) => items'[run.op][g] = items[run.op][g]
      BY <2>1, <2>3, <1>t DEF SameRows
    <3>2. run'.pc \notin {"q_item_done", "q_entry"} /\ UNCHANGED <<disk, entries>>
      BY <2>1 DEF diskVars
    <3> QED
      BY <2>1, <3>1, <3>2, <1>m DEF MoveWhere, Listed
  <2>5. ListedInv'
    BY <2>1, <2>3, <1>i, <1>w, ListedFrame DEF SameRows, Listed, diskVars
  <2>6. OpenInv'
    <3>1. \A o \in OpIds, g \in Files : o # run.op \/ g # f => items'[o][g] = items[o][g]
      BY <2>1 DEF SameRows
    <3> QED
      BY <2>1, <3>1, <1>w, OpenFrame
  <2> QED
    BY <2>1, <2>4, <2>5, <2>6, <1>i, <1>q, <1>u, <1>v, <1>t DEF WhereInv, diskVars, QuarantinePcs
<1>2. CASE MoveToHolding
  <2>1. /\ run.file \in Files /\ run'.pc = "q_item_done" /\ run'.op = run.op
        /\ run'.file = run.file /\ run.pc = "q_rename"
        /\ disk[Held(run.op, run.file)] = None
        /\ disk'[Held(run.op, run.file)] = disk[Orig(run.file)]
        /\ \A o \in OpIds, f \in Files : o # run.op \/ f # run.file =>
             disk'[Held(o, f)] = disk[Held(o, f)]
        /\ \A f \in Files : f # run.file => disk'[Orig(f)] = disk[Orig(f)]
        /\ Rename(Orig(run.file), Held(run.op, run.file))
        /\ UNCHANGED <<ops, items, entries>>
    BY <1>2, MoveEffect
  <2>2. /\ items[run.op][run.file].expected = disk[Orig(run.file)]
        /\ items[run.op][run.file].status = "pending"
    BY <2>1, <1>t DEF MoveInv
  <2>3. Unique'
    BY <2>1, <1>t, <1>w, HeldPathFacts, RenameUnique
  <2>4. ~Listed(run.op, run.file)
    BY <2>1, <2>2, <1>m
  <2>5. MoveWhere'
    BY <2>1, <2>2, <2>4, <1>m, <1>t DEF MoveWhere, Listed
  <2>6. ListedInv'
    <3> SUFFICES ASSUME NEW o \in OpIds, NEW f \in Files, Listed(o, f)
                 PROVE  /\ items[o][f].expected # None
                        /\ \/ /\ items[o][f].status = "done"
                              /\ items[o][f].result = items[o][f].expected
                              /\ \/ disk'[Held(o, f)] = items[o][f].expected
                                 \/ Claimed(o, f)
                                 \/ o \in Interrupted /\ disk'[Orig(f)] = items[o][f].expected
                           \/ /\ items[o][f].status = "rolled_back" /\ o \in Interrupted
                              /\ disk'[Held(o, f)] = None
      BY <2>1, <1>i DEF ListedInv, Listed, Claimed, Occupied
    <3>1. CASE o = run.op
      <4>1. f # run.file
        BY <2>4, <3>1
      <4>2. /\ items[o][f].status = "done" /\ items[o][f].result = items[o][f].expected
            /\ disk[Held(o, f)] = items[o][f].expected
        BY <3>1, <1>m
      <4> QED
        BY <2>1, <3>1, <4>1, <4>2, <1>w DEF ListedInv
    <3>2. CASE o # run.op
      BY <2>1, <3>2, <1>r, <1>w DEF ListedInv, Occupied
    <3> QED
      BY <3>1, <3>2
  <2>7. OpenInv'
    BY <2>1, <1>w, OpenFrame
  <2> QED
    BY <2>1, <2>3, <2>5, <2>6, <2>7, <1>i, <1>q, <1>v, <1>t DEF WhereInv, QuarantinePcs
<1>3. CASE MarkItemDone
  <2>1. /\ run.file \in Files /\ SameRows(run.op, run.file) /\ run.pc = "q_item_done"
        /\ run'.pc = "q_entry" /\ run'.op = run.op /\ run'.file = run.file
        /\ items'[run.op][run.file].expected = items[run.op][run.file].expected
        /\ items'[run.op][run.file].status = "done"
        /\ items'[run.op][run.file].result = items[run.op][run.file].expected
        /\ UNCHANGED <<diskVars, ops, entries>>
    BY <1>3, MarkItemEffect
  <2>2. items[run.op][run.file].status = "pending"
    BY <2>1, <1>t DEF MoveInv
  <2>3. ~Listed(run.op, run.file)
    BY <1>m, <2>1, <2>2
  <2>4. MoveWhere'
    BY <2>1, <2>3, <1>m, <1>t DEF MoveWhere, SameRows, Listed, diskVars
  <2>5. ListedInv'
    BY <2>1, <2>3, <1>i, <1>w, ListedFrame DEF SameRows, Listed, diskVars
  <2>6. OpenInv'
    <3>1. \A o \in OpIds, g \in Files : o # run.op \/ g # run.file => items'[o][g] = items[o][g]
      BY <2>1 DEF SameRows
    <3> QED
      BY <2>1, <2>2, <3>1, <1>w, OpenFrame
  <2> QED
    BY <2>1, <2>4, <2>5, <2>6, <1>i, <1>q, <1>u, <1>v, <1>t DEF WhereInv, diskVars, QuarantinePcs
<1>4. CASE InsertEntry
  <2>1. /\ run.file \in Files /\ run.pc = "q_entry"
        /\ run'.pc = "q_item" /\ run'.op = run.op
        /\ entries'[run.op][run.file] = "quarantined" /\ SameEntries(run.op, run.file)
        /\ UNCHANGED <<diskVars, ops, items>>
    BY <1>4, InsertEffect
  <2>2. /\ items[run.op][run.file].status = "done"
        /\ items[run.op][run.file].result = items[run.op][run.file].expected
        /\ disk[Held(run.op, run.file)] = items[run.op][run.file].expected
        /\ items[run.op][run.file].expected # None
    BY <2>1, <1>m, <1>t, <1>w DEF OpenInv, Open
  <2>3. MoveWhere'
    BY <2>1, <2>2, <1>m, <1>t DEF MoveWhere, SameEntries, Listed, diskVars
  <2>4. ListedInv'
    <3> SUFFICES ASSUME NEW o \in OpIds, NEW f \in Files, entries'[o][f] = "quarantined"
                 PROVE  /\ items[o][f].expected # None
                        /\ \/ /\ items[o][f].status = "done"
                              /\ items[o][f].result = items[o][f].expected
                              /\ \/ disk[Held(o, f)] = items[o][f].expected
                                 \/ Claimed(o, f)
                                 \/ o \in Interrupted /\ disk[Orig(f)] = items[o][f].expected
                           \/ /\ items[o][f].status = "rolled_back" /\ o \in Interrupted
                              /\ disk[Held(o, f)] = None
      BY <2>1, <1>i DEF ListedInv, Listed, Claimed, Occupied, diskVars
    <3>1. CASE o = run.op /\ f = run.file
      BY <2>2, <3>1
    <3>2. CASE o # run.op \/ f # run.file
      BY <2>1, <3>2, <1>w DEF ListedInv, Listed, Occupied, SameEntries
    <3> QED
      BY <3>1, <3>2
  <2>5. OpenInv'
    BY <2>1, <1>w, OpenFrame
  <2> QED
    BY <2>1, <2>3, <2>4, <2>5, <1>i, <1>q, <1>u, <1>v, <1>t DEF WhereInv, diskVars, QuarantinePcs
<1>5. CASE MoveRefused \/ RecordCleanup \/ RemoveFolder \/ RemoveFolderRefused \/ RecordCleanupOutcome
  <2>1. /\ run'.pc \in {"q_item", "q_item_failed", "q_rmdir", "q_rmdir_done", "q_rmdir_failed"}
        /\ run'.op = run.op
        /\ UNCHANGED <<disk, ops, items, entries>>
    BY <1>5 DEF MoveRefused, RecordCleanup, RemoveFolder, RemoveFolderRefused, RecordCleanupOutcome,
       RunStates, diskVars, journalVars, Goto, IInv, TypeOK, JournalTypeOK
  <2>2. MoveWhere'
    BY <2>1, <1>m, <1>t DEF MoveWhere, Listed
  <2>3. ListedInv'
    BY <2>1, <1>i, <1>w, ListedFrame
  <2>4. OpenInv'
    BY <2>1, <1>w, OpenFrame
  <2> QED
    BY <2>1, <2>2, <2>3, <2>4, <1>i, <1>q, <1>u, <1>v, <1>t DEF WhereInv, QuarantinePcs
<1>6. CASE FinishMove
  <2>1. /\ run'.pc = "idle" /\ RowsKept /\ Interrupted' = Interrupted \ {run.op}
        /\ UNCHANGED <<diskVars, items, entries>>
    BY <1>6, FinishMoveEffect
  <2>2. ListedInv'
    <3> SUFFICES ASSUME NEW o \in OpIds, NEW f \in Files, Listed(o, f)
                 PROVE  /\ items[o][f].expected # None
                        /\ items[o][f].status = "done"
                        /\ items[o][f].result = items[o][f].expected
                        /\ disk[Held(o, f)] = items[o][f].expected
      BY <2>1 DEF ListedInv, Listed, diskVars
    <3>1. CASE o = run.op
      BY <3>1, <1>m, <1>w DEF ListedInv
    <3>2. CASE o # run.op
      <4>1. o \notin Interrupted /\ ~Claimed(o, f)
        BY <3>2, <1>r DEF Claimed
      <4> QED
        BY <4>1, <1>w DEF ListedInv
    <3> QED
      BY <3>1, <3>2
  <2>3. OpenInv'
    BY <2>1, <1>w, OpenFrame
  <2>4. MoveWhere'
    BY <2>1, WhereElsewhereNext, PcSets
  <2> QED
    BY <2>1, <2>2, <2>3, <2>4, <1>q, <1>u, <1>v DEF WhereInv, diskVars
<1>7. CASE MarkItemFailed
  BY <1>7, <1>1, MarkItemEffect
<1> QED
  BY <1>1, <1>2, <1>3, <1>4, <1>5, <1>6, <1>7 DEF QuarantineStep

\* The two rows of an interrupted restore, by name.
LEMMA RestoreContext ==
  ASSUME IInv, RowsInv, RestoreRowsInv, RestoreWhere,
         NEW r \in Interrupted, ops[r].kind = "restore"
  PROVE  \E e \in OpIds, f \in Files, x \in Objects :
           /\ e = ops[r].entry /\ f = ops[r].file /\ x = items[r][f].expected
           /\ r \in OpIds /\ e # r /\ ops[e].kind = "quarantine"
           /\ RestoreSource(r) = Held(e, f)
           /\ ops[r].dest \in {Orig(f), Folder(f)}
           /\ items[e][f].status = "done" /\ items[e][f].result = x
           /\ items[e][f].expected = x
           /\ entries[e][f] \in {"quarantined", "restored"}
           /\ disk[Held(e, f)] = x \/ disk[ops[r].dest] = x
           /\ entries[e][f] = "restored" => disk[Held(e, f)] = None
           /\ disk[Held(e, f)] # None => disk[Held(e, f)] = x
           /\ \A m \in Interrupted : m = r
           /\ \A g \in Files : entries[r][g] = "none"
           /\ \A o \in OpIds, g \in Files : Claimed(o, g) <=> o = e /\ g = f
<1>1. r \in OpIds /\ ops[r].entry \in OpIds /\ ops[r].file \in Files
  BY DEF Interrupted, IInv, OpsInv
<1>2. PICK e \in OpIds, f \in Files : e = ops[r].entry /\ f = ops[r].file
  BY <1>1
<1>3. PICK x : x = items[r][f].expected
  OBVIOUS
<1>4. ops[e].kind = "quarantine" /\ items[e][f].expected = x /\ x # None
  BY <1>2, <1>3 DEF RestoreRowsInv
<1>5. items[r][f] \in ItemRows
  BY <1>1 DEF IInv, TypeOK, JournalTypeOK
<1>6. x \in Objects
  BY <1>3, <1>4, <1>5 DEF ItemRows
<1>7. /\ ops[r].dest \in {Orig(f), Folder(f)}
      /\ items[e][f].status = "done" /\ items[e][f].result = x
      /\ entries[e][f] \in {"quarantined", "restored"}
      /\ disk[Held(e, f)] = x \/ disk[ops[r].dest] = x
      /\ entries[e][f] = "restored" => disk[Held(e, f)] = None
  BY <1>2, <1>3 DEF RestoreWhere, Occupied
<1>8. /\ disk[Held(e, f)] # None => disk[Held(e, f)] = x
      /\ \A g \in Files : entries[r][g] = "none"
  BY <1>1, <1>4 DEF RowsInv, Occupied
<1>9. \A m \in Interrupted : m = r
  BY DEF IInv, OneInterrupted
<1>10. \A o \in OpIds, g \in Files : Claimed(o, g) <=> o = e /\ g = f
  BY <1>2, <1>9 DEF Claimed
<1> QED
  BY <1>1, <1>2, <1>3, <1>4, <1>6, <1>7, <1>8, <1>9, <1>10 DEF RestoreSource

\* Once the one interrupted restore is closed, ListedInv holds if its own
\* entry is no longer listed or its held copy is there.
LEMMA RestoreClosed ==
  ASSUME IInv, RowsInv, RestoreRowsInv, RestoreWhere, ListedInv,
         NEW r \in Interrupted, ops[r].kind = "restore",
         Interrupted' = {}, UNCHANGED <<disk, items, entries>>,
         \/ ~Listed(ops[r].entry, ops[r].file)
         \/ disk[RestoreSource(r)] # None
  PROVE  ListedInv'
<1>1. PICK e \in OpIds, f \in Files, x \in Objects :
        /\ e = ops[r].entry /\ f = ops[r].file
        /\ RestoreSource(r) = Held(e, f)
        /\ items[e][f].expected = x
        /\ disk[Held(e, f)] # None => disk[Held(e, f)] = x
        /\ \A m \in Interrupted : m = r
        /\ \A g \in Files : entries[r][g] = "none"
        /\ \A o \in OpIds, g \in Files : Claimed(o, g) <=> o = e /\ g = f
  BY RestoreContext
<1> SUFFICES ASSUME NEW o \in OpIds, NEW g \in Files, Listed(o, g)
             PROVE  /\ items[o][g].expected # None
                    /\ items[o][g].status = "done"
                    /\ items[o][g].result = items[o][g].expected
                    /\ disk[Held(o, g)] = items[o][g].expected
  BY DEF ListedInv, Listed
<1>2. o \notin Interrupted
  BY <1>1 DEF Listed
<1>3. Claimed(o, g) => disk[Held(o, g)] = items[o][g].expected
  BY <1>1
<1> QED
  BY <1>2, <1>3 DEF ListedInv

\* What a state with the same disk, journal and executor keeps.
LEMMA WhereSame ==
  ASSUME WhereInv, UNCHANGED <<disk, ops, items, entries, run>>
  PROVE  WhereInv'
<1>1. Unique' /\ OpenInv'
  BY DEF WhereInv, Unique, OpenInv, Open
<1>2. RestoreWhere' /\ RestoreAt'
  BY DEF WhereInv, RestoreWhere, RestoreAt, RestoreSource, Listed, Occupied, Interrupted
<1>3. ListedInv'
  BY DEF WhereInv, ListedInv, Listed, Occupied, Claimed, Interrupted
<1>4. MoveWhere' /\ ReverseWhere'
  BY DEF WhereInv, MoveWhere, ReverseWhere, Returned, FromMatches, PathMatches, Listed, Open, Occupied
<1> QED
  BY <1>1, <1>2, <1>3, <1>4 DEF WhereInv

\* So does a crash,
LEMMA WhereCrash ==
  ASSUME WhereInv, Crash
  PROVE  WhereInv'
<1>1. run'.pc = "idle" /\ UNCHANGED <<disk, ops, items, entries>>
  BY IdleType DEF Crash, diskVars, journalVars
<1>2. MoveWhere' /\ RestoreAt' /\ ReverseWhere'
  BY <1>1, WhereElsewhereNext, PcSets
<1>3. Unique' /\ OpenInv'
  BY <1>1 DEF WhereInv, Unique, OpenInv, Open
<1>4. RestoreWhere' /\ ListedInv'
  BY <1>1 DEF WhereInv, RestoreWhere, ListedInv, Listed, Occupied, Claimed, Interrupted
<1> QED
  BY <1>2, <1>3, <1>4 DEF WhereInv

\* the start of an operation,
LEMMA WhereRequest ==
  ASSUME IInv, TrackInv, WhereInv, Request
  PROVE  WhereInv'
<1>w. Unique /\ ListedInv /\ OpenInv /\ RowsInv
  BY DEF WhereInv, TrackInv
<1>1. ASSUME NEW S \in SUBSET Files, BackupStart(S) PROVE WhereInv'
  BY <1>1, WhereSame DEF BackupStart, diskVars
<1>n. ASSUME Interrupted = {}, NEW o \in OpIds, NEW f \in Files, Listed(o, f)
      PROVE  /\ ops[o].kind = "quarantine" /\ items[o][f].expected # None
             /\ items[o][f].status = "done" /\ items[o][f].result = items[o][f].expected
             /\ disk[Held(o, f)] = items[o][f].expected
  BY <1>n, <1>w DEF ListedInv, RowsInv, Listed, Claimed
<1>2. ASSUME NEW o \in OpIds, NEW S \in SUBSET Files, NEW p \in BOOLEAN,
             NEW c \in BOOLEAN, MoveStart(o, S, p, c)
      PROVE  WhereInv'
  <2>1. /\ ops[o].kind = "none" /\ Interrupted = {}
        /\ run'.pc = "q_item" /\ run'.op = o /\ ops'[o].kind = "quarantine"
        /\ Interrupted' = {o} /\ UNCHANGED <<disk, items, entries>>
    BY <1>2, MoveStartEffect, ZenonT(60) DEF diskVars
  <2>2. RestoreAt' /\ ReverseWhere'
    BY <2>1, WhereElsewhereNext, PcSets DEF QuarantinePcs
  <2>3. RestoreWhere'
    BY <2>1, NoRestoreWhere
  <2>4. Unique' /\ OpenInv'
    BY <2>1, <1>w DEF Unique, OpenInv, Open
  <2>5. ListedInv'
    BY <2>1, <1>n DEF ListedInv, Listed
  <2>6. MoveWhere'
    BY <2>1, <1>n DEF MoveWhere, Listed
  <2> QED
    BY <2>2, <2>3, <2>4, <2>5, <2>6 DEF WhereInv
<1>3. ASSUME NEW r \in OpIds, NEW o \in OpIds, NEW f \in Files,
             NEW dest \in {Orig(f), Folder(f)}, RestoreStart(r, o, f, dest)
      PROVE  WhereInv'
  <2>1. /\ ops[r].kind = "none" /\ Interrupted = {}
        /\ entries[o][f] = "quarantined" /\ items[o][f].status = "done"
        /\ items[o][f].result # None /\ disk[Held(o, f)] = items[o][f].result
        /\ run'.pc = "r_rename" /\ run'.op = r /\ run'.file = f
        /\ ops'[r].kind = "restore" /\ ops'[r].entry = o /\ ops'[r].file = f
        /\ ops'[r].dest = dest /\ Interrupted' = {r}
        /\ items'[r][f].status = "pending"
        /\ items'[r][f].expected = items[o][f].result
        /\ SameRows(r, f)
        /\ UNCHANGED <<disk, entries>>
    BY <1>3, RestoreStartEffect DEF diskVars
  <2>2. MoveWhere' /\ ReverseWhere'
    BY <2>1, WhereElsewhereNext, PcSets DEF RestorePcs
  <2>3. \A m \in OpIds, g \in Files : Listed(m, g) => m # r /\ items'[m][g] = items[m][g]
    BY <2>1, <1>w DEF RowsInv, Listed, SameRows
  <2>4. items'[o][f] = items[o][f]
    BY <2>1, <2>3 DEF Listed
  <2>5. RestoreWhere'
    BY <2>1, <2>4 DEF RestoreWhere, Occupied
  <2>6. RestoreAt'
    BY <2>1, PcSets DEF RestoreAt, RestoreSource, Listed, SettlingPcs
  <2>7. Unique'
    BY <2>1, <1>w DEF Unique
  <2>8. OpenInv'
    <3>1. \A m \in OpIds, g \in Files : m # r \/ g # f => items'[m][g] = items[m][g]
      BY <2>1 DEF SameRows
    <3> QED
      BY <2>1, <3>1, <1>w, OpenFrame
  <2>9. ListedInv'
    BY <2>1, <2>3, <1>n DEF ListedInv, Listed
  <2> QED
    BY <2>2, <2>5, <2>6, <2>7, <2>8, <2>9 DEF WhereInv
<1> QED
  BY <1>1, <1>2, <1>3 DEF Request

\* RestoreWhere where only one operation, a restore, is interrupted.
LEMMA RestoreWhereOne ==
  ASSUME NEW r, NEW e, NEW f, NEW x, \A m \in Interrupted' : m = r,
         ops'[r].entry = e, ops'[r].file = f, items'[r][f].expected = x,
         ops'[r].dest \in {Orig(f), Folder(f)},
         items'[e][f].status = "done", items'[e][f].result = x,
         entries'[e][f] \in {"quarantined", "restored"},
         disk'[Held(e, f)] = x \/ disk'[ops'[r].dest] = x,
         entries'[e][f] = "restored" => disk'[Held(e, f)] = None
  PROVE  RestoreWhere'
  BY DEF RestoreWhere, Occupied

\* every step of a restore,
LEMMA WhereRestore ==
  ASSUME IInv, TrackInv, WhereInv, RestoreStep
  PROVE  WhereInv'
<1>t. /\ RowsInv /\ RestoreRowsInv /\ RestoringInv /\ OpsInv
      /\ Unique /\ RestoreWhere /\ RestoreAt /\ ListedInv /\ OpenInv
      /\ disk \in [Paths -> Objects \cup {None}]
  BY DEF TrackInv, WhereInv, IInv, TypeOK, JournalTypeOK
<1>p. run.pc \in RestorePcs /\ run.pc \in RestoringPcs
  BY DEF RestoreStep, MoveToDestination, RestoreRefused, MarkVerifying, RecordResult,
         MarkRestoreItemDone, MarkEntryRestored, FinishRestore, MarkRestoreItemFailed,
         FailRestore, RestorePcs, RestoringPcs
<1>q. /\ run.op \in Interrupted /\ run.op \in OpIds /\ ops[run.op].kind = "restore"
      /\ run.file \in Files /\ run.file = ops[run.op].file
  BY <1>p, <1>t DEF IInv, RunInv, ForwardPcs, FilePcs, Interrupted, RestoringInv
<1>e. PICK e \in OpIds, f \in Files, x \in Objects :
        /\ e = ops[run.op].entry /\ f = run.file /\ x = items[run.op][f].expected
        /\ e # run.op /\ ops[e].kind = "quarantine"
        /\ RestoreSource(run.op) = Held(e, f)
        /\ ops[run.op].dest \in {Orig(f), Folder(f)}
        /\ items[e][f].status = "done" /\ items[e][f].result = x
        /\ items[e][f].expected = x
        /\ entries[e][f] \in {"quarantined", "restored"}
        /\ disk[Held(e, f)] = x \/ disk[ops[run.op].dest] = x
        /\ entries[e][f] = "restored" => disk[Held(e, f)] = None
        /\ disk[Held(e, f)] # None => disk[Held(e, f)] = x
        /\ \A m \in Interrupted : m = run.op
        /\ \A g \in Files : entries[run.op][g] = "none"
        /\ \A o \in OpIds, g \in Files : Claimed(o, g) <=> o = e /\ g = f
  BY <1>t, <1>q, RestoreContext
<1>x. x # None
  BY JournalAssumption
<1>a. /\ run.pc \in {"r_rename", "r_item_failed", "r_failed"} =>
           disk[Held(e, f)] = x /\ Listed(e, f)
      /\ run.pc = "r_done" => entries[e][f] = "restored"
  BY <1>t, <1>e DEF RestoreAt
<1>b. run.pc \in ArrivedPcs => disk[Held(e, f)] = None /\ disk[ops[run.op].dest] = x
  BY <1>t, <1>e, <1>x DEF RestoringInv
<1>v. run'.pc \in RestoringPcs \cup {"idle"} => MoveWhere' /\ ReverseWhere'
  BY WhereElsewhereNext, PcSets
<1>u. UNCHANGED disk => Unique'
  BY <1>t DEF Unique
<1>i. UNCHANGED ops => RowsKept /\ Interrupted' = Interrupted
  BY DEF RowsKept, Interrupted
<1>1. CASE MoveToDestination
  <2>1. /\ run'.pc = "r_verifying" /\ run'.op = run.op /\ run'.file = run.file
        /\ run.pc = "r_rename"
        /\ Rename(RestoreSource(run.op), ops[run.op].dest)
        /\ RestoreSource(run.op) \in Paths /\ ops[run.op].dest \in Paths
        /\ RestoreSource(run.op) # ops[run.op].dest
        /\ disk'[Held(e, f)] = None
        /\ disk'[ops[run.op].dest] = x
        /\ \A o \in OpIds, g \in Files : o # e \/ g # f => disk'[Held(o, g)] = disk[Held(o, g)]
        /\ UNCHANGED <<ops, items, entries>>
    BY <1>1, <1>e, <1>a, RestoreMoveEffect, HeldPathFacts
  <2>2. Unique'
    BY <2>1, <1>t, RenameUnique
  <2>3. RestoreWhere'
    <3>1. /\ \A m \in Interrupted' : m = run.op
          /\ ops'[run.op].entry = e /\ ops'[run.op].file = f
          /\ items'[run.op][f].expected = x
          /\ ops'[run.op].dest \in {Orig(f), Folder(f)}
          /\ items'[e][f].status = "done" /\ items'[e][f].result = x
          /\ entries'[e][f] \in {"quarantined", "restored"}
          /\ disk'[ops'[run.op].dest] = x /\ disk'[Held(e, f)] = None
      BY <2>1, <1>i, <1>q, <1>e
    <3> QED
      BY <3>1, RestoreWhereOne, SMTT(30)
  <2>4. RestoreAt'
    BY <2>1 DEF RestoreAt, SettlingPcs
  <2>5. ListedInv'
    <3> SUFFICES ASSUME NEW o \in OpIds, NEW g \in Files, Listed(o, g)
                 PROVE  /\ items[o][g].expected # None
                        /\ items[o][g].status = "done"
                        /\ items[o][g].result = items[o][g].expected
                        /\ disk'[Held(o, g)] = items[o][g].expected \/ Claimed(o, g)
      BY <2>1 DEF ListedInv, Listed, Claimed, Interrupted
    <3>1. o \notin Interrupted
      BY <1>e DEF Listed
    <3> QED
      BY <2>1, <3>1, <1>t, <1>e DEF ListedInv
  <2>6. OpenInv'
    BY <2>1, <1>t, OpenFrame
  <2> QED
    BY <2>1, <2>2, <2>3, <2>4, <2>5, <2>6, <1>v, PcSets, SMTT(30) DEF WhereInv, RestorePcs
<1>2. CASE RestoreRefused \/ MarkVerifying
  <2>1. /\ run'.op = run.op /\ run'.file = run.file
        /\ run'.pc \in {"r_item_failed", "r_result"}
        /\ run'.pc = "r_item_failed" => run.pc = "r_rename"
        /\ UNCHANGED <<disk, items, entries>>
    BY <1>2 DEF RestoreRefused, MarkVerifying, Goto, RunStates, diskVars, journalVars,
       IInv, TypeOK, JournalTypeOK
  <2>2. RowsKept /\ Interrupted' = Interrupted
    <3>1. CASE RestoreRefused
      BY <3>1, <1>i DEF RestoreRefused, journalVars
    <3>2. CASE MarkVerifying
      <4>1. "verifying" \in OpStatuses /\ "verifying" \in InFlight /\ ops \in [OpIds -> OpRows]
        BY DEF OpStatuses, InFlight, IInv, TypeOK, JournalTypeOK
      <4>2. RowsKept /\ Interrupted' = Interrupted \cup {run.op}
        BY <3>2, <4>1, <1>q, StatusFacts DEF MarkVerifying
      <4> QED
        BY <4>2, <1>q
    <3> QED
      BY <1>2, <3>1, <3>2
  <2>3. RestoreWhere'
    BY <2>1, <2>2, <1>t, RestoreWhereFrame
  <2>4. RestoreAt'
    <3>1. ops'[run.op].entry = e /\ ops'[run.op].file = f
      BY <2>2, <1>q, <1>e DEF RowsKept
    <3>2. RestoreSource(run.op)' = Held(e, f)
      BY <2>1, <3>1 DEF RestoreSource
    <3> QED
      BY <2>1, <3>1, <3>2, <1>a, <1>e DEF RestoreAt, Listed, SettlingPcs
  <2>5. ListedInv'
    BY <2>1, <2>2, <1>t, ListedFrame
  <2>6. OpenInv'
    BY <2>1, <1>t, OpenFrame
  <2> QED
    BY <2>1, <2>3, <2>4, <2>5, <2>6, <1>u, <1>v DEF WhereInv, RestoringPcs, RestorePcs
<1>3. CASE RecordResult \/ MarkRestoreItemDone \/ MarkRestoreItemFailed
  <2>1. /\ run'.pc \in {"r_item_done", "r_entry", "r_failed"}
        /\ run'.pc = "r_failed" => run.pc = "r_item_failed"
        /\ run'.op = run.op /\ run'.file = run.file
        /\ items'[run.op][run.file].expected = items[run.op][run.file].expected
        /\ SameRows(run.op, run.file)
        /\ UNCHANGED <<disk, ops, entries>>
    BY <1>3, RestoreRowEffect, SMTT(30) DEF diskVars
  <2>2. \A o \in OpIds, g \in Files :
          /\ items'[o][g].expected = items[o][g].expected
          /\ ops[o].kind = "quarantine" => items'[o][g] = items[o][g]
          /\ o # run.op \/ g # f => items'[o][g] = items[o][g]
    BY <2>1, <1>q, <1>e DEF SameRows
  <2>3. RestoreWhere'
    BY <2>1, <2>2, <1>t, <1>i, RestoreWhereFrame
  <2>4. RestoreAt'
    <3>1. RestoreSource(run.op)' = Held(e, f)
      BY <2>1, <1>e DEF RestoreSource
    <3> QED
      BY <2>1, <2>2, <3>1, <1>a, <1>e DEF RestoreAt, Listed, SettlingPcs
  <2>5. ListedInv'
    BY <2>1, <2>2, <1>t, <1>i, <1>e, ListedFrame, SMTT(30)
  <2>6. OpenInv'
    BY <2>1, <2>2, <1>t, <1>x, <1>e, OpenFrame
  <2> QED
    BY <2>1, <2>3, <2>4, <2>5, <2>6, <1>u, <1>v DEF WhereInv, RestoringPcs, RestorePcs
<1>4. CASE MarkEntryRestored
  <2>1. /\ run.pc = "r_entry" /\ run'.pc = "r_done" /\ run'.op = run.op /\ run'.file = run.file
        /\ entries'[e][f] = "restored" /\ SameEntries(e, f)
        /\ UNCHANGED <<disk, ops, items>>
    <3>1. entries \in [OpIds -> [Files -> EntryStatuses]] /\ run \in RunStates
      BY DEF IInv, TypeOK, JournalTypeOK
    <3>2. /\ run.pc = "r_entry" /\ Goto("r_done")
          /\ entries' = [entries EXCEPT ![e][f] = "restored"]
          /\ UNCHANGED <<disk, ops, items>>
      BY <1>4, <1>e DEF MarkEntryRestored, diskVars
    <3>3. entries'[e][f] = "restored" /\ SameEntries(e, f)
      BY <3>1, <3>2 DEF SameEntries
    <3>4. run'.pc = "r_done" /\ run'.op = run.op /\ run'.file = run.file
      BY <3>1, <3>2, GotoFacts
    <3> QED
      BY <3>2, <3>3, <3>4
  <2>2. disk[Held(e, f)] = None /\ disk[ops[run.op].dest] = x
    BY <2>1, <1>b DEF ArrivedPcs
  <2>3. RestoreWhere'
    <3>1. disk' = disk /\ ops' = ops /\ items' = items /\ Interrupted' = Interrupted
      BY <2>1, <1>i
    <3>2. /\ \A m \in Interrupted' : m = run.op
          /\ ops'[run.op].entry = e /\ ops'[run.op].file = f
          /\ items'[run.op][f].expected = x
          /\ ops'[run.op].dest \in {Orig(f), Folder(f)}
          /\ items'[e][f].status = "done" /\ items'[e][f].result = x
      BY <3>1, <1>e, <1>q
    <3>3. /\ entries'[e][f] \in {"quarantined", "restored"}
          /\ disk'[ops'[run.op].dest] = x
          /\ disk'[Held(e, f)] = None
      BY <3>1, <2>1, <2>2
    <3> QED
      BY <3>2, <3>3, RestoreWhereOne
  <2>4. RestoreAt'
    BY <2>1, <1>e DEF RestoreAt, SettlingPcs
  <2>5. \A o \in OpIds, g \in Files :
          entries'[o][g] = "quarantined" => entries[o][g] = "quarantined"
    BY <2>1 DEF SameEntries
  <2>6. ListedInv'
    BY <2>1, <2>5, <1>t, <1>i, ListedFrame
  <2>7. OpenInv'
    BY <2>1, <1>t, OpenFrame
  <2> QED
    BY <2>1, <2>3, <2>4, <2>6, <2>7, <1>u, <1>v DEF WhereInv, RestoringPcs, RestorePcs
<1>5. CASE FinishRestore \/ FailRestore
  <2>1. /\ run.pc \in {"r_done", "r_failed"} /\ run'.pc = "idle"
        /\ RowsKept /\ Interrupted' = Interrupted \ {run.op}
        /\ UNCHANGED <<disk, items, entries>>
    BY <1>5, FinishRestoreEffect DEF diskVars
  <2>2. Interrupted' = {}
    BY <2>1, <1>e
  <2>3. ~Listed(e, f) \/ disk[Held(e, f)] # None
    BY <2>1, <1>a, <1>x, SMTT(30) DEF Listed
  <2>4. ListedInv'
    BY <2>1, <2>2, <2>3, <1>t, <1>q, <1>e, RestoreClosed
  <2>5. RestoreWhere'
    BY <2>2, NoRestoreWhere
  <2>6. OpenInv'
    BY <2>1, <1>t, OpenFrame
  <2>7. RestoreAt'
    BY <2>1, WhereElsewhereNext, PcSets
  <2> QED
    BY <2>1, <2>4, <2>5, <2>6, <2>7, <1>u, <1>v DEF WhereInv
<1> QED
  BY <1>1, <1>2, <1>3, <1>4, <1>5 DEF RestoreStep

\* every step of recovery reversing a move,
LEMMA WhereReversal ==
  ASSUME IInv, TrackInv, WhereInv,
         \/ \E f \in Files : \/ ReturnHeld(f) \/ AlreadyReturned(f)
                             \/ ExposeHeldCopy(f) \/ LeaveUnresolved(f)
                             \/ ReconcileEntry(f) \/ EntryWithoutProof(f)
                             \/ ItemProbeFails(f) \/ EntryProbeFails(f)
         \/ MarkReturned \/ MarkExposed \/ ItemsDone
         \/ KeepInterrupted \/ RollBackCleanup \/ CloseRolledBack
  PROVE  WhereInv'
<1>s. run.pc \in ReversalPcs
  BY DEF ReversalPcs, Returning, ReturnHeld, AlreadyReturned, ExposeHeldCopy, LeaveUnresolved,
         ReconcileEntry, EntryWithoutProof, ItemProbeFails, EntryProbeFails, AtItem, AtEntry,
         MarkReturned, MarkExposed, ItemsDone, KeepInterrupted, RollBackCleanup, CloseRolledBack
<1>t. /\ RowsInv /\ ReverseInv
      /\ Unique /\ ListedInv /\ OpenInv /\ ReverseWhere
      /\ run.op \in Interrupted /\ run.op \in OpIds
      /\ ops[run.op].kind = "quarantine"
      /\ disk \in [Paths -> Objects \cup {None}]
      /\ run.todo \subseteq Files
      /\ run.pc \in {"v_returned", "v_exposed"} => run.file \in Files
  BY <1>s DEF TrackInv, WhereInv, ReverseInv, Interrupted, RunStates, IInv, RunInv, FilePcs,
              TypeOK, JournalTypeOK
<1>n. PICK n \in OpIds : n = run.op
  BY <1>t
<1>r. \A r \in Interrupted : ops[r].kind # "restore" /\ r = n
  BY <1>t, <1>n DEF IInv, OneInterrupted
<1>c. \A o \in OpIds, g \in Files : ~Claimed(o, g)
  BY <1>r DEF Claimed
<1>i. UNCHANGED ops => RowsKept /\ Interrupted' = Interrupted
  BY DEF RowsKept, Interrupted
<1>q. RowsKept /\ Interrupted' \subseteq Interrupted => RestoreWhere'
  <2>1. \A r \in Interrupted : r \in OpIds
    BY DEF Interrupted
  <2> QED
    BY <2>1, <1>r, NoRestoreWhere DEF RowsKept
<1>u. UNCHANGED disk => Unique'
  BY <1>t DEF Unique
<1>v. run'.pc \in ReversalPcs \cup {"v_next"} => MoveWhere' /\ RestoreAt'
  BY WhereElsewhereNext, PcSets
<1>w. /\ run.pc # "v_exposed"
      /\ run.pc \in Returning =>
           /\ run.todo \subseteq run.proof
           /\ \A f \in Files \ run.proof : ~Open(n, f)
           /\ run.resolved => \A f \in run.proof \ run.todo : Returned(f)
      /\ run.pc = "v_returned" => FromMatches(n, run.file)
      /\ run.pc = "v_entry" /\ run.resolved =>
           /\ \A f \in Files : Listed(n, f) => f \in run.todo
           /\ \A f \in run.proof : Returned(f)
      /\ run.pc = "v_close" => \A f \in Files : ~Listed(n, f)
  BY <1>s, <1>t, <1>n DEF ReverseWhere
<1>o. /\ run.pc \in Returning => \A f \in run.todo : Open(n, f)
      /\ run.pc = "v_returned" => disk[Held(n, run.file)] = None
  BY <1>s, <1>t, <1>n DEF ReverseInv, Occupied
<1>1. ASSUME NEW f \in Files, ReturnHeld(f) PROVE WhereInv'
  <2>1. /\ run.pc = "v_item" /\ f \in run.todo
        /\ Rename(Held(n, f), Orig(f))
        /\ run'.pc = "v_returned" /\ run'.op = n /\ run'.file = f
        /\ run'.todo = run.todo /\ run'.proof = run.proof
        /\ run'.resolved = run.resolved
        /\ disk'[Held(n, f)] = None
        /\ disk'[Orig(f)] = disk[Held(n, f)]
        /\ \A m \in OpIds, g \in Files :
             m # n \/ g # f => disk'[Held(m, g)] = disk[Held(m, g)]
        /\ \A g \in Files : g # f => disk'[Orig(g)] = disk[Orig(g)]
        /\ ToMatches(n, f)
        /\ UNCHANGED <<ops, items, entries>>
    BY <1>1, <1>n, ReturnEffect
  <2>2. disk[Held(n, f)] = items[n][f].expected /\ items[n][f].expected # None
    BY <2>1, <1>t DEF RowsInv, Occupied, ToMatches, ExpectedHeld, PathMatches
  <2>3. Unique'
    BY <2>1, <1>t, HeldPathFacts, RenameUnique
  <2>4. ListedInv'
    <3> SUFFICES ASSUME NEW o \in OpIds, NEW g \in Files, Listed(o, g)
                 PROVE  /\ items[o][g].expected # None
                        /\ \/ /\ items[o][g].status = "done"
                              /\ items[o][g].result = items[o][g].expected
                              /\ \/ disk'[Held(o, g)] = items[o][g].expected
                                 \/ o \in Interrupted /\ disk'[Orig(g)] = items[o][g].expected
                           \/ /\ items[o][g].status = "rolled_back" /\ o \in Interrupted
                              /\ disk'[Held(o, g)] = None
      BY <2>1, <1>i DEF ListedInv, Listed, Occupied
    <3>0. /\ items[o][g].expected # None
          /\ \/ /\ items[o][g].status = "done"
                /\ items[o][g].result = items[o][g].expected
                /\ \/ disk[Held(o, g)] = items[o][g].expected
                   \/ o \in Interrupted /\ disk[Orig(g)] = items[o][g].expected
             \/ /\ items[o][g].status = "rolled_back" /\ o \in Interrupted
                /\ disk[Held(o, g)] = None
      BY <1>t, <1>c DEF ListedInv, Occupied
    <3>1. CASE o = n /\ g = f
      <4>1. items[o][g].status # "rolled_back"
        BY <2>1, <3>1, <1>o DEF Open, Returning
      <4> QED
        BY <2>1, <2>2, <3>0, <3>1, <4>1, <1>n, <1>t
    <3>2. CASE o = n /\ g # f
      BY <2>1, <3>0, <3>2
    <3>3. CASE o # n
      BY <2>1, <3>0, <3>3, <1>r
    <3> QED
      BY <3>1, <3>2, <3>3
  <2>5. OpenInv'
    BY <2>1, <1>t, OpenFrame
  <2>6. ReverseWhere'
    <3>1. \A g \in Files : g # f /\ Returned(g) => Returned(g)'
      BY <2>1, <1>n DEF Returned, Occupied, FromMatches, PathMatches
    <3>2. FromMatches(n, f)'
      BY <2>1, <2>2 DEF FromMatches, PathMatches
    <3>3. run.proof \subseteq Files
      BY DEF IInv, TypeOK, JournalTypeOK, RunStates
    <3>4. \A g \in Files \ run.proof : ~Open(n, g)'
      BY <2>1, <1>w DEF Open, Returning
    <3>5. run.resolved => \A g \in run.proof \ run.todo : Returned(g)'
      BY <2>1, <3>1, <3>3, <1>w DEF Returning
    <3> QED
      BY <2>1, <3>2, <3>4, <3>5, <1>w DEF ReverseWhere, Returning
  <2> QED
    BY <2>1, <2>3, <2>4, <2>5, <2>6, <1>i, <1>q, <1>v, PcSets DEF WhereInv, Returning
<1>2. ASSUME NEW f \in Files,
             \/ MarkReturned /\ f = run.file
             \/ MarkExposed /\ f = run.file
             \/ AlreadyReturned(f)
      PROVE  WhereInv'
  <2>1. /\ RowGets(n, f, IF run.pc = "v_exposed" THEN "done" ELSE "rolled_back")
        /\ run.pc \in Returning
        /\ run.pc = "v_item" => f \in run.todo /\ FromMatches(n, f) /\ ~ToMatches(n, f)
        /\ run'.pc = "v_item" /\ run'.op = n
        /\ run'.todo = run.todo \ {f} /\ run'.proof = run.proof
        /\ run'.resolved = run.resolved
        /\ UNCHANGED <<diskVars, ops, entries>>
    BY <1>2, <1>n, SettledRowEffect
  <2>2. run.pc \in {"v_item", "v_returned"} /\ (run.pc = "v_returned" => f = run.file)
    BY <2>1, <1>2, <1>w DEF Returning, MarkReturned, AlreadyReturned, AtItem, MarkExposed
  <2>3. /\ items'[n][f].status = "rolled_back"
        /\ items'[n][f].expected = items[n][f].expected
        /\ \A o \in OpIds, g \in Files : o # n \/ g # f => items'[o][g] = items[o][g]
    BY <2>1, <2>2 DEF RowGets, SameRows
  <2>4. FromMatches(n, f) /\ ~Occupied(n, f)
    BY <2>1, <2>2, <1>w, <1>o, <1>t, OccupantMatches DEF Occupied
  <2>5. ListedInv'
    <3> SUFFICES ASSUME NEW o \in OpIds, NEW g \in Files, Listed(o, g)
                 PROVE  /\ items'[o][g].expected # None
                        /\ \/ /\ items'[o][g].status = "done"
                              /\ items'[o][g].result = items'[o][g].expected
                              /\ \/ disk[Held(o, g)] = items'[o][g].expected
                                 \/ o \in Interrupted /\ disk[Orig(g)] = items'[o][g].expected
                           \/ /\ items'[o][g].status = "rolled_back" /\ o \in Interrupted
                              /\ disk[Held(o, g)] = None
      BY <2>1, <1>i DEF ListedInv, Listed, Occupied, diskVars
    <3>0. /\ items[o][g].expected # None
          /\ \/ /\ items[o][g].status = "done"
                /\ items[o][g].result = items[o][g].expected
                /\ \/ disk[Held(o, g)] = items[o][g].expected
                   \/ o \in Interrupted /\ disk[Orig(g)] = items[o][g].expected
             \/ /\ items[o][g].status = "rolled_back" /\ o \in Interrupted
                /\ disk[Held(o, g)] = None
      BY <1>t, <1>c DEF ListedInv, Occupied
    <3>1. CASE o = n /\ g = f
      BY <2>3, <2>4, <3>0, <3>1, <1>n, <1>t DEF Occupied
    <3>2. CASE o # n \/ g # f
      BY <2>3, <3>0, <3>2
    <3> QED
      BY <3>1, <3>2
  <2>6. OpenInv'
    <3>1. items'[n][f].status \notin {"pending", "done"}
      BY <2>3
    <3> QED
      BY <2>3, <3>1, <1>t, OpenFrame
  <2>7. ReverseWhere'
    <3>1. \A g \in Files : g # f /\ Returned(g) => Returned(g)'
      BY <2>1, <2>3, <1>n DEF Returned, Occupied, FromMatches, PathMatches, diskVars
    <3>2. Returned(f)'
      BY <2>1, <2>3, <2>4 DEF Returned, Occupied, FromMatches, PathMatches, diskVars
    <3>3. run.proof \subseteq Files
      BY DEF IInv, TypeOK, JournalTypeOK, RunStates
    <3>4. \A g \in Files \ run.proof : ~Open(n, g)'
      BY <2>1, <2>3, <1>w DEF Open
    <3>5. run.resolved => \A g \in run.proof \ (run.todo \ {f}) : Returned(g)'
      BY <2>1, <3>1, <3>2, <3>3, <1>w
    <3> QED
      BY <2>1, <3>4, <3>5, <1>w DEF ReverseWhere
  <2> QED
    BY <2>1, <2>5, <2>6, <2>7, <1>i, <1>q, <1>u, <1>v, PcSets DEF WhereInv, Returning, diskVars
<1>3. ASSUME NEW f \in Files, ExposeHeldCopy(f) PROVE FALSE
  <2>1. FromMatches(n, f) /\ ToMatches(n, f)
    BY <1>3, <1>n, ExposeEffect
  <2>2. /\ disk[Orig(f)] = items[n][f].expected /\ disk[Orig(f)] # None
        /\ disk[Held(n, f)] = items[n][f].expected
    BY <2>1, <1>t DEF FromMatches, ToMatches, ExpectedHeld, PathMatches, RowsInv, Occupied
  <2> QED
    BY <2>2, <1>t, HeldPathFacts DEF Unique
<1>4. ASSUME NEW f \in Files,
             \/ LeaveUnresolved(f) \/ ItemProbeFails(f)
             \/ EntryWithoutProof(f) \/ EntryProbeFails(f)
      PROVE  WhereInv'
  <2>1. /\ run.pc \in {"v_item", "v_entry"} /\ f \in run.todo
        /\ run'.pc = run.pc /\ run'.op = n
        /\ run'.todo = run.todo \ {f} /\ run'.proof = run.proof
        /\ run'.resolved = FALSE
        /\ RowsKept /\ Interrupted' = Interrupted
        /\ UNCHANGED <<disk, items, entries>>
    BY <1>4, <1>n, UnresolvedEffect DEF diskVars
  <2>2. ListedInv'
    BY <2>1, <1>t, ListedFrame
  <2>3. OpenInv'
    BY <2>1, <1>t, OpenFrame
  <2>4. ReverseWhere'
    BY <2>1, <1>w DEF ReverseWhere, Open
  <2> QED
    BY <2>1, <2>2, <2>3, <2>4, <1>q, <1>u, <1>v, PcSets DEF WhereInv, Returning, ReversalPcs
<1>5. CASE ItemsDone \/ RollBackCleanup
  <2>1. /\ run.todo = {} /\ run'.op = n
        /\ run'.proof = run.proof /\ run'.resolved = run.resolved
        /\ ItemsDone => /\ run.pc = "v_item" /\ run'.pc = "v_entry"
                        /\ run'.todo = {f \in Files : entries[n][f] = "quarantined"}
        /\ RollBackCleanup =>
             run.pc = "v_entry" /\ run'.pc = "v_close" /\ run.resolved
        /\ UNCHANGED <<disk, ops, items, entries>>
    BY <1>5, <1>n, ReversalTurnEffect DEF diskVars
  <2>2. ListedInv'
    BY <2>1, <1>t, <1>i, ListedFrame
  <2>3. OpenInv'
    BY <2>1, <1>t, OpenFrame
  <2>4. \A g \in Files : Returned(g) => Returned(g)'
    BY <2>1, <1>n DEF Returned, Occupied, FromMatches, PathMatches
  <2>5. run.proof \subseteq Files
    BY DEF IInv, TypeOK, JournalTypeOK, RunStates
  <2>6. ReverseWhere'
    <3>1. CASE ItemsDone
      BY <2>1, <2>4, <2>5, <3>1, <1>w DEF ReverseWhere, Listed, Returning
    <3>2. CASE RollBackCleanup
      BY <2>1, <3>2, <1>w DEF ReverseWhere, Listed, Returning
    <3> QED
      BY <1>5, <3>1, <3>2
  <2>7. run'.pc \in ReversalPcs
    BY <1>5, <2>1 DEF ReversalPcs
  <2> QED
    BY <2>1, <2>2, <2>3, <2>6, <2>7, <1>i, <1>q, <1>u, <1>v DEF WhereInv
<1>6. ASSUME NEW f \in Files, ReconcileEntry(f) PROVE WhereInv'
  <2>1. /\ run.pc = "v_entry" /\ f \in run.todo /\ f \in run.proof
        /\ run'.pc = "v_entry" /\ run'.op = n
        /\ run'.todo = run.todo \ {f} /\ run'.proof = run.proof
        /\ run'.resolved = run.resolved
        /\ \/ entries'[n][f] = "restored"
           \/ /\ ~(FromMatches(n, f) /\ PathAbsent(Held(n, f)))
              /\ entries'[n][f] = entries[n][f]
        /\ SameEntries(n, f)
        /\ UNCHANGED <<disk, ops, items>>
    BY <1>6, <1>n, ReconcileEffect DEF diskVars
  <2>2. \A o \in OpIds, g \in Files :
          entries'[o][g] = "quarantined" => entries[o][g] = "quarantined"
    BY <2>1 DEF SameEntries
  <2>3. ListedInv'
    BY <2>1, <2>2, <1>t, <1>i, ListedFrame
  <2>4. OpenInv'
    BY <2>1, <1>t, OpenFrame
  <2>5. ReverseWhere'
    <3>1. \A g \in Files : Returned(g) => Returned(g)'
      BY <2>1, <1>n DEF Returned, Occupied, FromMatches, PathMatches
    <3>2. run.proof \subseteq Files
      BY DEF IInv, TypeOK, JournalTypeOK, RunStates
    <3>3. run.resolved => entries'[n][f] = "restored"
      BY <2>1, <1>w, <1>n DEF Returned, Occupied, PathAbsent
    <3>4. run.resolved => \A g \in Files : Listed(n, g)' => g \in run.todo \ {f}
      BY <2>2, <3>3, <1>w, <2>1 DEF Listed
    <3> QED
      BY <2>1, <3>1, <3>2, <3>4, <1>w DEF ReverseWhere, Returning
  <2> QED
    BY <2>1, <2>3, <2>4, <2>5, <1>i, <1>q, <1>u, <1>v DEF WhereInv, ReversalPcs
<1>7. CASE KeepInterrupted
  <2>1. run'.pc = "v_next" /\ UNCHANGED <<disk, ops, items, entries>>
    BY <1>7, <1>t, SettledType DEF KeepInterrupted, diskVars, journalVars, IInv, TypeOK, JournalTypeOK
  <2>2. ListedInv' /\ OpenInv'
    BY <2>1, <1>t, <1>i, ListedFrame, OpenFrame
  <2>3. ReverseWhere'
    BY <2>1, WhereElsewhereNext, PcSets
  <2> QED
    BY <2>1, <2>2, <2>3, <1>i, <1>q, <1>u, <1>v DEF WhereInv
<1>8. CASE CloseRolledBack
  <2>1. /\ run.pc = "v_close" /\ run'.pc = "v_next"
        /\ RowsKept /\ Interrupted' = Interrupted \ {n}
        /\ UNCHANGED <<disk, items, entries>>
    BY <1>8, <1>n, CloseEffect DEF diskVars
  <2>2. ListedInv'
    <3> SUFFICES ASSUME NEW o \in OpIds, NEW g \in Files, Listed(o, g)
                 PROVE  /\ items[o][g].expected # None
                        /\ items[o][g].status = "done"
                        /\ items[o][g].result = items[o][g].expected
                        /\ disk[Held(o, g)] = items[o][g].expected
      BY <2>1 DEF ListedInv, Listed
    <3>1. o # n
      BY <2>1, <1>w
    <3> QED
      BY <3>1, <1>r, <1>c, <1>t DEF ListedInv
  <2>3. OpenInv'
    BY <2>1, <1>t, OpenFrame
  <2>4. ReverseWhere'
    BY <2>1, WhereElsewhereNext, PcSets
  <2> QED
    BY <2>1, <2>2, <2>3, <2>4, <1>q, <1>u, <1>v DEF WhereInv
<1>9. ASSUME MarkReturned \/ MarkExposed PROVE WhereInv'
  BY <1>9, <1>2, <1>t DEF MarkReturned, MarkExposed
<1> QED
  BY <1>1, <1>2, <1>3, <1>4, <1>5, <1>6, <1>7, <1>8, <1>9, SMTT(30)

\* every step of recovery settling a restore,
LEMMA WhereSettling ==
  ASSUME IInv, TrackInv, WhereInv,
         \/ RecoverBegin \/ RecoverFinish \/ RecoverReturn
         \/ \E o \in OpIds : \/ RecoverOperation(o) \/ SurfaceRestore(o)
                             \/ SettleRestore(o) \/ RestoreProbeFails(o)
         \/ SettleEntry \/ SettleItem \/ SettleOperation
  PROVE  WhereInv'
<1>t. /\ RowsInv /\ RestoreRowsInv /\ RestoringInv /\ OpsInv
      /\ Unique /\ RestoreWhere /\ RestoreAt /\ ListedInv /\ OpenInv
      /\ run \in RunStates /\ items \in [OpIds -> [Files -> ItemRows]]
  BY DEF TrackInv, WhereInv, IInv, TypeOK, JournalTypeOK
<1>u. UNCHANGED disk => Unique'
  BY <1>t DEF Unique
<1>i. UNCHANGED ops => RowsKept /\ Interrupted' = Interrupted
  BY DEF RowsKept, Interrupted
<1>f. ASSUME UNCHANGED <<disk, items, entries>>, RowsKept, Interrupted' = Interrupted
      PROVE  Unique' /\ RestoreWhere' /\ ListedInv' /\ OpenInv'
  BY <1>f, <1>t, <1>u, RestoreWhereFrame, ListedFrame, OpenFrame
<1>e. ASSUME NEW r \in Interrupted, ops[r].kind = "restore"
      PROVE  \E e \in OpIds, f \in Files, x \in Objects :
               /\ e = ops[r].entry /\ f = ops[r].file /\ x = items[r][f].expected
               /\ r \in OpIds /\ e # r /\ ops[e].kind = "quarantine"
               /\ RestoreSource(r) = Held(e, f)
               /\ ops[r].dest \in {Orig(f), Folder(f)}
               /\ items[e][f].status = "done" /\ items[e][f].result = x
               /\ items[e][f].expected = x
               /\ entries[e][f] \in {"quarantined", "restored"}
               /\ disk[Held(e, f)] = x \/ disk[ops[r].dest] = x
               /\ entries[e][f] = "restored" => disk[Held(e, f)] = None
               /\ disk[Held(e, f)] # None => disk[Held(e, f)] = x
               /\ \A m \in Interrupted : m = r
               /\ \A g \in Files : entries[r][g] = "none"
               /\ \A o \in OpIds, g \in Files : Claimed(o, g) <=> o = e /\ g = f
  BY <1>e, <1>t, RestoreContext
<1>s. ASSUME run.pc \in SettlingPcs
      PROVE  run.op \in Interrupted /\ ops[run.op].kind = "restore" /\ run.file = ops[run.op].file
  BY <1>s, <1>t, PcSets DEF RestoringInv, IInv, RunInv
<1>a. ASSUME run.pc \in SettlingPcs
      PROVE  /\ run.verdict \in {"held", "completed"}
             /\ run.verdict # "held" => disk[RestoreSource(run.op)] = None
             /\ run.verdict = "held" =>
                  disk[RestoreSource(run.op)] = items[run.op][run.file].expected
  BY <1>a, <1>t DEF RestoreAt, RestoringInv
<1>1. CASE RecoverBegin \/ RecoverFinish \/ RecoverReturn
  <2>1. run'.pc \in {"v_next", "v_end", "idle"} /\ UNCHANGED <<disk, ops, items, entries>>
    BY <1>1, IdleType, GotoFacts, <1>t DEF RecoverBegin, RecoverFinish, RecoverReturn,
       diskVars, journalVars, Idle
  <2>2. MoveWhere' /\ RestoreAt' /\ ReverseWhere'
    BY <2>1, WhereElsewhereNext, PcSets
  <2> QED
    BY <2>1, <2>2, <1>f, <1>i DEF WhereInv
<1>2. ASSUME NEW o \in OpIds, RecoverOperation(o) PROVE WhereInv'
  <2>1. /\ run'.pc = "v_item" /\ run'.op = o /\ run'.proof = run'.todo
        /\ run'.todo = {f \in Files : items[o][f].status \in {"pending", "done"}}
        /\ UNCHANGED <<disk, ops, items, entries>>
    BY <1>2, <1>t DEF RecoverOperation, RunStates, diskVars, journalVars
  <2>2. MoveWhere' /\ RestoreAt'
    BY <2>1, WhereElsewhereNext, PcSets DEF Returning
  <2>3. ReverseWhere'
    BY <2>1 DEF ReverseWhere, Open, Returning
  <2> QED
    BY <2>1, <2>2, <2>3, <1>f, <1>i, SMTT(30) DEF WhereInv
<1>3. ASSUME NEW r \in OpIds, SurfaceRestore(r) \/ RestoreProbeFails(r) PROVE WhereInv'
  <2>1. /\ run'.pc = "v_next" /\ RowsKept /\ Interrupted' = Interrupted
        /\ UNCHANGED <<disk, items, entries>>
    BY <1>3, SurfaceEffect DEF diskVars
  <2>2. MoveWhere' /\ RestoreAt' /\ ReverseWhere'
    BY <2>1, WhereElsewhereNext, PcSets
  <2> QED
    BY <2>1, <2>2, <1>f DEF WhereInv
<1>4. ASSUME NEW r \in OpIds, SettleRestore(r) PROVE WhereInv'
  <2>1. r \in Interrupted /\ ops[r].kind = "restore"
    BY <1>4 DEF SettleRestore, AtRestore, IsFirst, Pending
  <2>2. PICK e \in OpIds, f \in Files, x \in Objects :
          /\ e = ops[r].entry /\ f = ops[r].file /\ x = items[r][f].expected
          /\ RestoreSource(r) = Held(e, f)
          /\ disk[Held(e, f)] = x \/ disk[ops[r].dest] = x
          /\ disk[Held(e, f)] # None => disk[Held(e, f)] = x
    BY <2>1, <1>e
  <2>3. /\ run'.verdict # "held" => disk[Held(e, f)] = None
        /\ run'.verdict = "held" => disk[Held(e, f)] = x
        /\ run'.pc = "v_restore_entry" => run'.verdict # "abandoned"
        /\ run'.pc = "v_restore_op" => RestoreFinding(r) = "ambiguous"
        /\ run'.verdict = "mismatch" => RestoreFinding(r) = "content_mismatch"
    BY <1>4, <1>t, <2>1, <2>2, SettleRestoreVerdict
  <2>4. RestoreFinding(r) \notin {"ambiguous", "content_mismatch"}
    <3> SUFFICES ASSUME RestoreFinding(r) \in {"ambiguous", "content_mismatch"}
                 PROVE  FALSE
      OBVIOUS
    <3>1. ~PathMatches(Held(e, f), x) /\ x # None
      BY <2>2, FindingFacts, JournalAssumption
    <3>2. disk[Held(e, f)] = None /\ disk[ops[r].dest] = x
      BY <2>2, <3>1 DEF PathMatches
    <3>3. items[r][f].result # None
      BY <2>2, <3>1, <3>2, FindingFacts DEF PathAbsent
    <3>4. items[r][f].result = x
      BY <2>1, <2>2, <3>3, <1>t, SMTT(30) DEF RowsInv, Interrupted
    <3>5. RestoreFinding(r) = "completed"
      BY <2>2, <3>1, <3>2, <3>4, FindingFacts DEF PathAbsent, PathMatches
    <3> QED
      BY <3>5
  <2>5. /\ run'.op = r /\ run'.file = f
        /\ run'.pc = "v_restore_entry"
        /\ run'.verdict \in Verdicts
        /\ UNCHANGED <<disk, ops, items, entries>>
    <3>1. /\ run' \in RunStates /\ run'.op = r /\ run'.file = f
          /\ run'.pc \in {"v_restore_op", "v_restore_entry"}
      BY <1>4, <1>t, <2>2, SettleRestoreType DEF IInv, TypeOK, JournalTypeOK
    <3>2. UNCHANGED <<disk, ops, items, entries>>
      BY <1>4 DEF SettleRestore, diskVars, journalVars
    <3> QED
      BY <2>3, <2>4, <3>1, <3>2 DEF RunStates
  <2>6. run'.verdict \in {"held", "completed"}
    <3>1. run'.verdict \in {"held", "completed", "mismatch", "abandoned"}
      BY <1>4, <1>t DEF SettleRestore, RunStates
    <3> QED
      BY <2>3, <2>4, <2>5, <3>1
  <2>7. RestoreSource(r)' = Held(e, f)
    BY <2>2, <2>5 DEF RestoreSource
  <2>8. RestoreAt'
    BY <2>2, <2>3, <2>5, <2>6, <2>7 DEF RestoreAt, SettlingPcs
  <2>9. MoveWhere' /\ ReverseWhere'
    BY <2>5, WhereElsewhereNext, PcSets DEF SettlingPcs
  <2> QED
    BY <2>5, <2>8, <2>9, <1>f, <1>i DEF WhereInv
<1>5. CASE SettleEntry
  <2>1. run.pc \in SettlingPcs
    BY <1>5, SettleEntryEffect
  <2>2. PICK e \in OpIds, f \in Files, x \in Objects :
          /\ e = ops[run.op].entry /\ f = run.file /\ x = items[run.op][f].expected
          /\ f = ops[run.op].file
          /\ RestoreSource(run.op) = Held(e, f)
          /\ ops[run.op].dest \in {Orig(f), Folder(f)}
          /\ items[e][f].status = "done" /\ items[e][f].result = x
          /\ items[e][f].expected = x
          /\ disk[Held(e, f)] = x \/ disk[ops[run.op].dest] = x
          /\ \A m \in Interrupted : m = run.op
    BY <2>1, <1>s, <1>e, SMTT(30)
  <2>3. /\ run'.pc = "v_restore_item" /\ run'.op = run.op /\ run'.file = f
        /\ run'.verdict = run.verdict
        /\ run.verdict = "held" => entries'[e][f] = "quarantined"
        /\ run.verdict = "completed" => entries'[e][f] = "restored"
        /\ SameEntries(e, f)
        /\ UNCHANGED <<disk, ops, items>>
    BY <1>5, <2>2, SettleEntryEffect DEF diskVars
  <2>4. /\ run.verdict \in {"held", "completed"} /\ x # None
        /\ run.verdict # "held" => disk[Held(e, f)] = None
        /\ run.verdict = "held" => disk[Held(e, f)] = x
    BY <2>1, <2>2, <1>a, JournalAssumption
  <2>5. RestoreWhere'
    <3>1. /\ \A m \in Interrupted' : m = run.op
          /\ ops'[run.op].entry = e /\ ops'[run.op].file = f
          /\ items'[run.op][f].expected = x
          /\ ops'[run.op].dest \in {Orig(f), Folder(f)}
          /\ items'[e][f].status = "done" /\ items'[e][f].result = x
          /\ entries'[e][f] \in {"quarantined", "restored"}
          /\ disk'[Held(e, f)] = x \/ disk'[ops'[run.op].dest] = x
          /\ entries'[e][f] = "restored" => disk'[Held(e, f)] = None
      BY <2>2, <2>3, <2>4, <1>i
    <3> QED
      BY <3>1, RestoreWhereOne, SMTT(30)
  <2>6. RestoreSource(run.op)' = Held(e, f)
    BY <2>2, <2>3, SMTT(30) DEF RestoreSource
  <2>7. RestoreAt'
    BY <2>2, <2>3, <2>4, <2>6 DEF RestoreAt, SettlingPcs
  <2>8. ListedInv'
    <3> SUFFICES ASSUME NEW o \in OpIds, NEW g \in Files, entries'[o][g] = "quarantined"
                 PROVE  /\ items[o][g].expected # None
                        /\ \/ /\ items[o][g].status = "done"
                              /\ items[o][g].result = items[o][g].expected
                              /\ \/ disk[Held(o, g)] = items[o][g].expected
                                 \/ Claimed(o, g)
                                 \/ o \in Interrupted /\ disk[Orig(g)] = items[o][g].expected
                           \/ /\ items[o][g].status = "rolled_back" /\ o \in Interrupted
                              /\ disk[Held(o, g)] = None
      BY <2>3, <1>i, SMTT(30) DEF ListedInv, Listed, Claimed, Occupied
    <3>1. CASE o = e /\ g = f
      BY <2>2, <2>3, <2>4, <3>1
    <3>2. CASE o # e \/ g # f
      BY <2>3, <3>2, <1>t DEF ListedInv, Listed, Occupied, SameEntries
    <3> QED
      BY <3>1, <3>2
  <2>9. OpenInv'
    BY <2>3, <1>t, OpenFrame
  <2>10. MoveWhere' /\ ReverseWhere'
    BY <2>3, WhereElsewhereNext, PcSets DEF SettlingPcs
  <2> QED
    BY <2>3, <2>5, <2>7, <2>8, <2>9, <2>10, <1>u DEF WhereInv
<1>6. CASE SettleItem
  <2>1. /\ run.pc = "v_restore_item" /\ run.pc \in SettlingPcs
        /\ run'.pc = "v_restore_op" /\ run'.op = run.op /\ run'.file = run.file
        /\ run'.verdict = run.verdict
        /\ items'[run.op][run.file].expected = items[run.op][run.file].expected
        /\ SameRows(run.op, run.file)
        /\ UNCHANGED <<disk, ops, entries>>
    BY <1>6, SettleItemEffect DEF RowGets, diskVars
  <2>2. PICK e \in OpIds, f \in Files, x \in Objects :
          /\ e = ops[run.op].entry /\ f = run.file /\ x = items[run.op][f].expected
          /\ RestoreSource(run.op) = Held(e, f) /\ run.op \in OpIds
          /\ ops[run.op].kind = "restore"
          /\ \A g \in Files : entries[run.op][g] = "none"
    BY <2>1, <1>s, <1>e
  <2>3. \A o \in OpIds, g \in Files :
          /\ items'[o][g].expected = items[o][g].expected
          /\ ops[o].kind = "quarantine" => items'[o][g] = items[o][g]
          /\ o # run.op \/ g # f => items'[o][g] = items[o][g]
    BY <2>1, <2>2 DEF SameRows
  <2>4. RestoreWhere'
    BY <2>1, <2>3, <1>t, <1>i, RestoreWhereFrame
  <2>5. RestoreAt'
    <3>1. RestoreSource(run.op)' = RestoreSource(run.op)
      BY <2>1 DEF RestoreSource
    <3> QED
      BY <2>1, <3>1, <1>t DEF RestoreAt, SettlingPcs
  <2>6. ListedInv'
    BY <2>1, <2>2, <2>3, <1>t, <1>i, ListedFrame
  <2>7. OpenInv'
    <3>1. items'[run.op][f].expected # None
      BY <2>2, <2>3, JournalAssumption
    <3> QED
      BY <2>2, <2>3, <3>1, <1>t, OpenFrame
  <2>8. MoveWhere' /\ ReverseWhere'
    BY <2>1, WhereElsewhereNext, PcSets DEF SettlingPcs
  <2> QED
    BY <2>1, <2>4, <2>5, <2>6, <2>7, <2>8, <1>u DEF WhereInv
<1>7. CASE SettleOperation
  <2>1. /\ run.pc = "v_restore_op" /\ run.pc \in SettlingPcs /\ run'.pc = "v_next"
        /\ RowsKept /\ Interrupted' = Interrupted \ {run.op}
        /\ UNCHANGED <<disk, items, entries>>
    BY <1>7, SettleOperationEffect DEF diskVars
  <2>2. /\ run.op \in Interrupted /\ ops[run.op].kind = "restore"
        /\ run.file = ops[run.op].file /\ Interrupted' = {}
    BY <2>1, <1>s, <1>e
  <2>3. ~Listed(ops[run.op].entry, ops[run.op].file) \/ disk[RestoreSource(run.op)] # None
    <3>1. CASE run.verdict = "held"
      <4>1. items[run.op][run.file].expected # None
        BY <2>2, <1>t DEF RestoreRowsInv
      <4> QED
        BY <2>1, <3>1, <4>1, <1>a
    <3>2. CASE run.verdict # "held"
      BY <2>1, <2>2, <3>2, <1>t DEF RestoreAt, Listed
    <3> QED
      BY <3>1, <3>2
  <2>4. ListedInv'
    BY <2>1, <2>2, <2>3, <1>t, RestoreClosed
  <2>5. RestoreWhere'
    BY <2>2, NoRestoreWhere
  <2>6. OpenInv'
    BY <2>1, <1>t, OpenFrame
  <2>7. MoveWhere' /\ RestoreAt' /\ ReverseWhere'
    BY <2>1, WhereElsewhereNext, PcSets
  <2> QED
    BY <2>1, <2>4, <2>5, <2>6, <2>7, <1>u DEF WhereInv
<1> QED
  BY <1>1, <1>2, <1>3, <1>4, <1>5, <1>6, <1>7

\* A user who only creates files, away from the holding area.
LEMMA WhereUser ==
  ASSUME IInv, TrackInv, WhereInv, UserStep,
         Meddles \subseteq {"create"}, "holding" \notin Reach
  PROVE  WhereInv'
<1>t. /\ RowsInv /\ RestoreRowsInv /\ RestoringInv /\ OpsInv /\ MoveInv /\ ReverseInv
      /\ Unique /\ RestoreWhere /\ RestoreAt /\ ListedInv /\ OpenInv
      /\ MoveWhere /\ ReverseWhere
      /\ disk \in [Paths -> Objects \cup {None}] /\ run \in RunStates
  BY DEF TrackInv, WhereInv, IInv, TypeOK, JournalTypeOK
<1>1. PICK p \in Paths, x \in Objects : UserCreates(p, x)
  BY DEF UserStep, UserReplaces, UserLinks, UserDeletes, Meddle
<1>2. /\ disk[p] = None /\ disk' = [disk EXCEPT ![p] = x]
      /\ \A q \in Paths : disk[q] # x
      /\ p.at # "holding"
      /\ UNCHANGED <<ops, items, entries, run>>
  <2>1. x \notin OnDisk
    BY <1>1 DEF UserCreates, Fresh
  <2>2. \A q \in Paths : disk[q] # x
    BY <2>1, JournalAssumption DEF OnDisk
  <2> QED
    BY <1>1, <2>2 DEF UserCreates, Meddle, journalVars
<1>3. /\ \A o \in OpIds, f \in Files : disk'[Held(o, f)] = disk[Held(o, f)]
      /\ \A q \in Paths : disk[q] # None => disk'[q] = disk[q]
      /\ \A f \in Files : Orig(f) \in Paths
  <2>1. \A o \in OpIds, f \in Files : Held(o, f) # p /\ Held(o, f) \in Paths
    <3>1. \A o \in OpIds, f \in Files : Held(o, f) # p
      BY <1>2 DEF Held
    <3> QED
      BY <3>1, HeldPathFacts
  <2> QED
    BY <1>2, <2>1, <1>t, OrigPath
<1>i. RowsKept /\ Interrupted' = Interrupted
  BY <1>2 DEF RowsKept, Interrupted
<1>4. Unique'
  <2> SUFFICES ASSUME NEW a \in Paths, NEW b \in Paths, a # b, disk'[a] # None
               PROVE  disk'[a] # disk'[b]
    BY DEF Unique
  <2> QED
    BY <1>2, <1>t DEF Unique
<1>5. RestoreWhere' /\ ListedInv' /\ OpenInv'
  <2>1. \A q \in UserPaths : q \in Paths
    BY DEF Paths
  <2> QED
    BY <1>2, <1>3, <1>i, <1>t, <2>1, RestoreWhereFrame, ListedFrame, OpenFrame
<1>6. MoveWhere'
  <2>1. /\ run.pc \in QuarantinePcs => run.op \in OpIds
        /\ run.pc \in {"q_item_done", "q_entry"} => run.file \in Files
    BY DEF IInv, RunInv, QuarantinePcs, FilePcs
  <2> QED
    BY <1>2, <1>3, <2>1, <1>t DEF MoveWhere, Listed
<1>7. RestoreAt'
  <2>1. run.pc \in RestoringPcs =>
          ops[run.op].entry \in OpIds /\ ops[run.op].file \in Files
    BY DEF IInv, RunInv, RestoringPcs, RestorePcs, OpsInv
  <2>2. RestoreSource(run.op)' = Held(ops[run.op].entry, ops[run.op].file)
    BY <1>2 DEF RestoreSource
  <2>3. run.pc \in RestoringPcs => disk'[RestoreSource(run.op)'] = disk[RestoreSource(run.op)]
    BY <1>3, <2>1, <2>2 DEF RestoreSource
  <2>4. {"r_rename", "r_item_failed", "r_failed"} \cup SettlingPcs \subseteq RestoringPcs
    BY DEF SettlingPcs, RestoringPcs, RestorePcs
  <2> QED
    BY <1>2, <2>2, <2>3, <2>4, <1>t DEF RestoreAt, Listed
<1>8. ReverseWhere'
  <2>1. /\ run.pc \in ReversalPcs => run.op \in OpIds
        /\ run.pc = "v_returned" => run.file \in Files /\ run.pc \in ReversalPcs
        /\ run.todo \subseteq Files /\ run.proof \subseteq Files
    BY <1>t DEF IInv, RunInv, ReversalPcs, Returning, FilePcs, RunStates
  <2>2. \A f \in Files : FromMatches(run.op, f) => FromMatches(run.op, f)'
    BY <1>2, <1>3 DEF FromMatches, PathMatches
  <2>3. \A f \in Files : run.pc \in ReversalPcs /\ Returned(f) => Returned(f)'
    BY <1>2, <1>3, <2>1, <2>2 DEF Returned, Occupied
  <2> QED
    BY <1>2, <2>1, <2>2, <2>3, <1>t DEF ReverseWhere, Listed, Open
<1> QED
  BY <1>4, <1>5, <1>6, <1>7, <1>8 DEF WhereInv

\* and so every step.
LEMMA WhereStep ==
  ASSUME "verify" \notin Faults, "holding" \notin Reach, Meddles \subseteq {"create"},
         IInv, TrackInv, WhereInv, [Next]_vars
  PROVE  WhereInv'
<1>1. CASE Request
  BY <1>1, WhereRequest
<1>2. CASE QuarantineStep
  BY <1>2, WhereQuarantine
<1>3. CASE RestoreStep
  BY <1>3, WhereRestore
<1>4. CASE \/ \E f \in Files : \/ ReturnHeld(f) \/ AlreadyReturned(f)
                               \/ ExposeHeldCopy(f) \/ LeaveUnresolved(f)
                               \/ ReconcileEntry(f) \/ EntryWithoutProof(f)
                               \/ ItemProbeFails(f) \/ EntryProbeFails(f)
           \/ MarkReturned \/ MarkExposed \/ ItemsDone
           \/ KeepInterrupted \/ RollBackCleanup \/ CloseRolledBack
  BY <1>4, WhereReversal
<1>5. CASE \/ RecoverBegin \/ RecoverFinish \/ RecoverReturn
           \/ \E o \in OpIds : \/ RecoverOperation(o) \/ SurfaceRestore(o)
                               \/ SettleRestore(o) \/ RestoreProbeFails(o)
           \/ SettleEntry \/ SettleItem \/ SettleOperation
  BY <1>5, WhereSettling
<1>6. CASE Crash
  BY <1>6, WhereCrash
<1>7. CASE UserStep
  BY <1>7, WhereUser
<1>8. CASE UNCHANGED vars
  BY <1>8, WhereSame DEF vars
<1>9. CASE RecoveryStep
  BY <1>4, <1>5, <1>9 DEF RecoveryStep
<1>10. CASE Fault
  BY <1>2, <1>3, <1>4, <1>5, <1>10 DEF Fault, ProbeFault, QuarantineStep, RestoreStep
<1> QED
  BY <1>1, <1>2, <1>3, <1>6, <1>7, <1>8, <1>9, <1>10 DEF Next, ProgramStep

\* Where no rename is left unverified and the user at most creates files
\* outside the holding area, IInv, TrackInv and WhereInv hold together.
LEMMA WhereAlways ==
  ASSUME "verify" \notin Faults, "holding" \notin Reach, Meddles \subseteq {"create"}
  PROVE  Spec => [](IInv /\ TrackInv /\ WhereInv)
<1>1. IInv /\ TrackInv /\ WhereInv /\ [Next]_vars => TrackInv' /\ WhereInv'
  BY TrackStep, WhereStep
<1> QED
  BY <1>1, TrackInit, WhereInit, Invariance, PTL DEF Spec

\* With no operation unfinished, every entry the restore page lists can be
\* restored: its held copy is there and is the object its origin row proves,
\* after any number of crashes, recoveries and refused restores.  The user may
\* create files, at their own paths; a copy replaced, linked or deleted by hand
\* can make recovery see an object at two paths, which TLC shows.
THEOREM ListedIsRestorableTheorem ==
  ASSUME "verify" \notin Faults, "holding" \notin Reach, Meddles \subseteq {"create"}
  PROVE  Spec => []ListedIsRestorable
<1>1. TrackInv /\ WhereInv => ListedIsRestorable
  <2> SUFFICES ASSUME TrackInv, WhereInv, Interrupted = {},
                      NEW o \in OpIds, NEW f \in Files, Listed(o, f)
               PROVE  /\ items[o][f].status = "done"
                      /\ PathMatches(Held(o, f), items[o][f].result)
    BY DEF ListedIsRestorable, Listed
  <2> QED
    BY DEF WhereInv, ListedInv, Claimed, PathMatches
<1> QED
  BY <1>1, WhereAlways, PTL

\* The statements that write quarantine_entry.
LEMMA EntryWriters ==
  ASSUME [Next]_vars
  PROVE  \/ UNCHANGED entries
         \/ InsertEntry \/ MarkEntryRestored \/ SettleEntry
         \/ \E f \in Files : ExposeHeldCopy(f) \/ ReconcileEntry(f)
<1>1. CASE Request
  BY <1>1, ZenonT(60) DEF Request, BackupStart, MoveStart, RestoreStart
<1>2. CASE Fault
  BY <1>2 DEF Fault, ProbeFault, MoveRefused, RestoreRefused, MoveUnverified, RestoreUnverified,
     ReturnUnverified, ItemProbeFails, EntryProbeFails, RestoreProbeFails, Unresolved, journalVars
<1>3. CASE QuarantineStep
  BY <1>3 DEF QuarantineStep, SkipProtected, RefuseSource, RecordIntent, MoveToHolding,
     MoveRefused, MarkItemFailed, MarkItemDone, RecordCleanup, RemoveFolder,
     RemoveFolderRefused, RecordCleanupOutcome, FinishMove, journalVars
<1>4. CASE RestoreStep
  BY <1>4 DEF RestoreStep, MoveToDestination, RestoreRefused, MarkVerifying, RecordResult,
     MarkRestoreItemDone, FinishRestore, MarkRestoreItemFailed, FailRestore, journalVars
<1>5. CASE RecoveryStep
  BY <1>5 DEF RecoveryStep, RecoverBegin, RecoverOperation, SurfaceRestore, SettleRestore,
     ReturnHeld, AlreadyReturned, LeaveUnresolved, EntryWithoutProof, Unresolved, MarkReturned,
     MarkExposed, ItemsDone, KeepInterrupted, RollBackCleanup, CloseRolledBack, SettleItem,
     SettleOperation, RecoverFinish, RecoverReturn, journalVars
<1>6. CASE Crash \/ UNCHANGED vars
  BY <1>6 DEF Crash, vars, journalVars
<1>7. CASE UserStep
  BY <1>7 DEF UserStep, UserCreates, UserReplaces, UserLinks, UserDeletes, Meddle, journalVars
<1> QED
  BY <1>1, <1>2, <1>3, <1>4, <1>5, <1>6, <1>7 DEF Next, ProgramStep

\* An entry is marked restored by the restore whose object has arrived, or by
\* recovery where it finds the same.
LEMMA RestoredStep ==
  ASSUME IInv, TrackInv, WhereInv, [Next]_vars,
         NEW o \in OpIds, NEW f \in Files,
         entries[o][f] # "restored", entries'[o][f] = "restored"
  PROVE  /\ disk[Held(o, f)] = None
         /\ items[o][f].expected \in {disk[Orig(f)], disk[Folder(f)]}
<1>t. /\ RowsInv /\ RestoreRowsInv /\ RestoringInv /\ RestoreWhere /\ RestoreAt
      /\ entries \in [OpIds -> [Files -> EntryStatuses]]
  BY DEF TrackInv, WhereInv, IInv, TypeOK, JournalTypeOK
<1>1. ASSUME run.pc \in RestoringPcs, run.op \in Interrupted,
             o = ops[run.op].entry, f = run.file, disk[RestoreSource(run.op)] = None
      PROVE  /\ disk[Held(o, f)] = None
             /\ items[o][f].expected \in {disk[Orig(f)], disk[Folder(f)]}
  <2>1. ops[run.op].kind = "restore" /\ run.file = ops[run.op].file
    BY <1>1, <1>t DEF IInv, RunInv, RestoringInv
  <2>2. PICK e \in OpIds, g \in Files, x \in Objects :
          /\ e = ops[run.op].entry /\ g = ops[run.op].file
          /\ RestoreSource(run.op) = Held(e, g)
          /\ ops[run.op].dest \in {Orig(g), Folder(g)}
          /\ items[e][g].expected = x
          /\ disk[Held(e, g)] = x \/ disk[ops[run.op].dest] = x
    BY <1>1, <1>t, <2>1, RestoreContext
  <2> QED
    BY <1>1, <2>1, <2>2, JournalAssumption
<1>2. CASE MarkEntryRestored
  <2>1. run.pc = "r_entry" /\ entries' = [entries EXCEPT ![ops[run.op].entry][run.file] = "restored"]
    BY <1>2 DEF MarkEntryRestored
  <2>2. /\ run.pc \in ArrivedPcs /\ run.pc \in RestoringPcs /\ run.op \in Interrupted
    BY <2>1 DEF ArrivedPcs, RestoringPcs, RestorePcs, IInv, RunInv, ForwardPcs
  <2>3. o = ops[run.op].entry /\ f = run.file
    BY <2>1, <1>t
  <2> QED
    BY <1>1, <1>t, <2>2, <2>3 DEF RestoringInv
<1>3. CASE SettleEntry
  <2>1. /\ run.pc \in SettlingPcs /\ SameEntries(ops[run.op].entry, run.file)
        /\ run.verdict = "held" => entries'[ops[run.op].entry][run.file] = "quarantined"
    BY <1>3, SettleEntryEffect
  <2>2. o = ops[run.op].entry /\ f = run.file
    BY <2>1 DEF SameEntries
  <2>3. run.op \in Interrupted /\ run.pc \in RestoringPcs /\ disk[RestoreSource(run.op)] = None
    BY <2>1, <2>2, <1>t, PcSets DEF RestoringInv, RestoreAt
  <2> QED
    BY <1>1, <2>2, <2>3
<1>4. ASSUME NEW g \in Files, ReconcileEntry(g)
      PROVE  /\ disk[Held(o, f)] = None
             /\ items[o][f].expected \in {disk[Orig(f)], disk[Folder(f)]}
  <2>1. /\ SameEntries(run.op, g)
        /\ \/ FromMatches(run.op, g) /\ PathAbsent(Held(run.op, g))
           \/ entries'[run.op][g] = entries[run.op][g]
    BY <1>4, ReconcileEffect
  <2>2. o = run.op /\ f = g
    BY <2>1 DEF SameEntries
  <2> QED
    BY <2>1, <2>2 DEF FromMatches, PathMatches, PathAbsent
<1>5. CASE InsertEntry
  BY <1>5, <1>t DEF InsertEntry
<1>6. ASSUME NEW g \in Files, ExposeHeldCopy(g) PROVE FALSE
  BY <1>6, <1>t DEF ExposeHeldCopy
<1> QED
  BY <1>2, <1>3, <1>4, <1>5, <1>6, EntryWriters

\* No step of a restore or of recovery calls an entry restored before its
\* object is at a path of the user's and the held path is empty.
THEOREM RestoredIsBackTheorem ==
  ASSUME "verify" \notin Faults, "holding" \notin Reach, Meddles \subseteq {"create"}
  PROVE  Spec => RestoredIsBack
<1> DEFINE Back == \A o \in OpIds, f \in Files :
                     entries[o][f] # "restored" /\ entries'[o][f] = "restored" =>
                       /\ disk[Held(o, f)] = None
                       /\ items[o][f].expected \in {disk[Orig(f)], disk[Folder(f)]}
<1>1. IInv /\ TrackInv /\ WhereInv /\ [Next]_vars => [Back]_vars
  BY RestoredStep
<1>2. Spec => [][Back]_vars
  BY <1>1, WhereAlways, PTL DEF Spec
<1> QED
  BY <1>2 DEF RestoredIsBack

-----------------------------------------------------------------------------
(* The emptied folder of a move.                                           *)

\* Every folder is there at the start.
LEMMA CleanupInit == Init => CleanupInv
<1> SUFFICES ASSUME Init PROVE CleanupInv
  OBVIOUS
<1>1. run.pc = "idle" /\ Interrupted = {}
  BY DEF Init, JournalInit, Idle, Interrupted, NoOp, InFlight
<1>2. FolderInv
  BY DEF Init, JournalInit, FolderInv
<1>3. CleanupRows
  BY <1>1 DEF Init, JournalInit, CleanupRows
<1>4. CleanupMove /\ CleanupReverse
  BY <1>1 DEF CleanupMove, CleanupReverse, QuarantinePcs, ReversalPcs, Returning
<1> QED
  BY <1>2, <1>3, <1>4 DEF CleanupInv

\* Only RemoveFolder takes the folder away.
LEMMA RootSteps ==
  ASSUME [Next]_vars
  PROVE  RemoveFolder \/ (rootDir => rootDir')
<1>1. CASE Request
  BY <1>1, ZenonT(60) DEF Request, BackupStart, MoveStart, RestoreStart, diskVars
<1>2. CASE Fault
  BY <1>2 DEF Fault, ProbeFault, MoveRefused, RestoreRefused, MoveUnverified, RestoreUnverified,
     ReturnUnverified, ItemProbeFails, EntryProbeFails, RestoreProbeFails, Rename, diskVars
<1>3. CASE QuarantineStep
  BY <1>3 DEF QuarantineStep, SkipProtected, RefuseSource, RecordIntent, MoveToHolding, Rename,
     MoveRefused, MarkItemFailed, MarkItemDone, InsertEntry, RecordCleanup,
     RemoveFolderRefused, RecordCleanupOutcome, FinishMove, diskVars
<1>4. CASE RestoreStep
  BY <1>4 DEF RestoreStep, MoveToDestination, RestoreRefused, MarkVerifying, RecordResult, Rename,
     MarkRestoreItemDone, MarkEntryRestored, FinishRestore, MarkRestoreItemFailed, FailRestore, diskVars
<1>5. CASE RecoveryStep
  BY <1>5 DEF RecoveryStep, RecoverBegin, RecoverOperation, SurfaceRestore, SettleRestore, Rename,
     ReturnHeld, AlreadyReturned, ExposeHeldCopy, LeaveUnresolved, ReconcileEntry,
     EntryWithoutProof, Unresolved, MarkReturned, MarkExposed, ItemsDone, KeepInterrupted,
     RollBackCleanup, CloseRolledBack, SettleEntry, SettleItem, SettleOperation,
     RecoverFinish, RecoverReturn, diskVars
<1>6. CASE Crash \/ UNCHANGED vars
  BY <1>6 DEF Crash, vars, diskVars
<1>7. CASE UserStep
  BY <1>7 DEF UserStep, UserCreates, UserReplaces, UserLinks, UserDeletes
<1> QED
  BY <1>1, <1>2, <1>3, <1>4, <1>5, <1>6, <1>7 DEF Next, ProgramStep

\* No step leaves a file without its folder.
LEMMA FolderStep ==
  ASSUME IInv, FolderInv, [Next]_vars
  PROVE  FolderInv'
<1>t. disk \in [Paths -> Objects \cup {None}] /\ \A f \in Files : Orig(f) \in Paths
  BY OrigPath DEF IInv, TypeOK, JournalTypeOK
<1>1. CASE RemoveFolder
  BY <1>1, <1>t DEF RemoveFolder, FolderInv
<1>2. CASE (rootDir => rootDir') /\ UNCHANGED disk
  BY <1>2 DEF FolderInv
<1>3. ASSUME NEW from \in Paths, NEW to \in Paths, from # to, Rename(from, to),
             rootDir => rootDir'
      PROVE  FolderInv'
  <2> SUFFICES ASSUME NEW f \in Files, disk'[Orig(f)] # None PROVE rootDir'
    BY DEF FolderInv
  <2>1. CASE Orig(f) = to
    BY <1>3, <2>1 DEF Rename, Orig
  <2>2. CASE Orig(f) # to
    BY <1>3, <1>t, <2>2, RenameFacts DEF FolderInv
  <2> QED
    BY <2>1, <2>2
<1>4. CASE (rootDir => rootDir') /\ (ToHolding \/ FromHolding)
  <2>1. \E from, to \in Paths : from # to /\ Rename(from, to)
    BY <1>4, PathFacts DEF ToHolding, FromHolding
  <2> QED
    BY <1>3, <1>4, <2>1
<1>5. CASE UserStep
  <2>1. PICK p \in Paths :
          \/ \E x \in Objects : UserCreates(p, x) \/ UserReplaces(p, x)
          \/ \E q \in Paths : UserLinks(q, p)
          \/ UserDeletes(p)
    BY <1>5 DEF UserStep
  <2> SUFFICES ASSUME NEW f \in Files, disk'[Orig(f)] # None PROVE rootDir'
    BY DEF FolderInv
  <2>2. rootDir => rootDir'
    BY <2>1 DEF UserCreates, UserReplaces, UserLinks, UserDeletes
  <2>3. CASE Orig(f) = p
    <3>1. p.at = "original"
      BY <2>3 DEF Orig
    <3>2. \/ rootDir' \/ disk[p] # None
      BY <2>1, <3>1 DEF UserCreates, UserReplaces, UserLinks, UserDeletes
    <3> QED
      BY <2>2, <2>3, <3>2 DEF FolderInv
  <2>4. CASE Orig(f) # p
    <3>1. disk'[Orig(f)] = disk[Orig(f)]
      BY <2>1, <2>4, <1>t DEF UserCreates, UserReplaces, UserLinks, UserDeletes
    <3> QED
      BY <2>2, <3>1 DEF FolderInv
  <2> QED
    BY <2>3, <2>4
<1> QED
  BY <1>1, <1>2, <1>4, <1>5, RootSteps, DiskSteps

\* Steps that leave the cleanup rows, the folder's removal and the open rows
\* of an interrupted move alone.
LEMMA CleanupFrame ==
  ASSUME CleanupRows, RowsKept, Interrupted' \subseteq Interrupted, UNCHANGED dirItem,
         rootDir => rootDir',
         \A o \in Interrupted :
           \/ dirItem[o] \notin {"pending", "done"} \/ rootDir'
           \/ \A f \in Files : Open(o, f) => Open(o, f)'
  PROVE  CleanupRows'
<1>1. \A o \in OpIds : ops'[o].kind # "quarantine" => dirItem'[o] = "none"
  BY DEF CleanupRows, RowsKept
<1>2. ASSUME NEW o \in Interrupted'
      PROVE  /\ dirItem'[o] \in {"pending", "done"} => rootDir' \/ \E f \in Files : Open(o, f)'
             /\ dirItem'[o] = "rolled_back" => rootDir'
  BY <1>2 DEF CleanupRows
<1> QED
  BY <1>1, <1>2 DEF CleanupRows

\* The local parts of CleanupInv say nothing of an executor elsewhere.
LEMMA CleanupElsewhere ==
  /\ run'.pc \notin QuarantinePcs => CleanupMove'
  /\ run'.pc \notin ReversalPcs => CleanupReverse'
  BY DEF CleanupMove, CleanupReverse

\* Every step of a move preserves CleanupInv.
LEMMA CleanupQuarantine ==
  ASSUME IInv, CleanupInv, QuarantineStep \/ MoveUnverified,
         RemoveFolder \/ (rootDir => rootDir')
  PROVE  CleanupRows' /\ CleanupMove' /\ CleanupReverse'
<1>t. /\ CleanupRows /\ CleanupMove
      /\ run.pc \in QuarantinePcs /\ run.op \in OpIds /\ run.op \in Interrupted
      /\ run.todo \subseteq Files /\ run \in RunStates
  BY DEF CleanupInv, RunStates, QuarantineStep, SkipProtected, RefuseSource, RecordIntent,
         MoveToHolding, MoveRefused, MoveUnverified, MarkItemFailed, MarkItemDone, InsertEntry,
         RecordCleanup, RemoveFolder, RemoveFolderRefused, RecordCleanupOutcome,
         FinishMove, QuarantinePcs, RunInv, ForwardPcs, IInv, TypeOK, JournalTypeOK
<1>n. PICK n \in OpIds : n = run.op
  BY <1>t
<1>r. \A r \in Interrupted : r = n
  BY <1>t, <1>n DEF IInv, OneInterrupted
<1>m. /\ ops[n].kind = "quarantine"
      /\ run.pc \in FilePcs => run.file \in run.todo
      /\ run.moved => \E f \in Files \ run.todo : items[n][f].status = "done"
      /\ run.pc = "q_entry" => items[n][run.file].status = "done"
      /\ run.pc \in RmdirPcs => run.moved /\ dirItem[n] = "pending"
      /\ run.pc \notin RmdirPcs => dirItem[n] \in {"none", "done", "failed"}
      /\ dirItem[n] # "none" => run.todo = {}
  BY <1>t, <1>n DEF CleanupMove
<1>v. run'.pc \in QuarantinePcs \cup {"idle"} => CleanupReverse'
  BY CleanupElsewhere, PcSets
<1>i. UNCHANGED ops => RowsKept /\ Interrupted' = Interrupted
  BY DEF RowsKept, Interrupted
<1>k. ~RemoveFolder => (rootDir => rootDir')
  OBVIOUS
<1>1. ASSUME NEW f \in Files,
             \/ SkipProtected(f) \/ RefuseSource(f) \/ RecordIntent(f)
             \/ (MarkItemFailed \/ MarkItemDone) /\ f = run.file
      PROVE  CleanupRows' /\ CleanupMove' /\ CleanupReverse'
  <2>1. /\ SameRows(n, f) /\ run'.op = n
        /\ run'.moved = run.moved /\ run'.todo \subseteq run.todo
        /\ run'.pc \in {"q_item", "q_rename", "q_entry"}
        /\ run'.pc \in {"q_rename", "q_entry"} => run'.file = f /\ run'.todo = run.todo
        /\ run'.pc = "q_entry" => items'[n][f].status = "done"
        /\ run.pc \in {"q_item", "q_item_failed", "q_item_done"}
        /\ run.pc = "q_item" => f \in run.todo
        /\ run.pc # "q_item" => f = run.file
        /\ UNCHANGED <<diskVars, ops, dirItem>>
    <3>1. CASE SkipProtected(f) \/ RefuseSource(f)
      BY <3>1, <1>n, SkipEffect DEF RowGets
    <3>2. CASE RecordIntent(f)
      BY <3>2, <1>n, IntentEffect
    <3>3. CASE MarkItemFailed /\ f = run.file
      BY <3>3, <1>n, MarkItemEffect
    <3>4. CASE MarkItemDone /\ f = run.file
      BY <3>4, <1>n, MarkItemEffect
    <3> QED
      BY <1>1, <3>1, <3>2, <3>3, <3>4
  <2>2. f \in run.todo
    BY <2>1, <1>m DEF FilePcs
  <2>3. dirItem[n] = "none"
    BY <2>2, <1>m
  <2>4. CleanupRows'
    BY <2>1, <2>3, <1>t, <1>r, <1>i, CleanupFrame DEF diskVars
  <2>5. \A g \in Files : g # f => items'[n][g] = items[n][g]
    BY <2>1 DEF SameRows
  <2>6. run'.moved => \E g \in Files \ run'.todo : items'[n][g].status = "done"
    BY <2>1, <2>2, <2>5, <1>m
  <2>7. CleanupMove'
    BY <2>1, <2>2, <2>3, <2>6, <1>m DEF CleanupMove, RmdirPcs, FilePcs, RestorePcs
  <2>8. run'.pc \in QuarantinePcs
    BY <2>1 DEF QuarantinePcs
  <2> QED
    BY <2>4, <2>7, <2>8, <1>v
<1>2. CASE MoveToHolding \/ MoveRefused \/ MoveUnverified
  <2>1. /\ run.pc = "q_rename" /\ run'.pc \in {"q_item_done", "q_item_failed"}
        /\ run'.op = n /\ run'.file = run.file /\ run'.todo = run.todo
        /\ run'.moved = run.moved
        /\ UNCHANGED <<ops, items, dirItem>>
    BY <1>2, <1>n, <1>t DEF MoveToHolding, MoveRefused, MoveUnverified, RunStates, journalVars
  <2>2. ~RemoveFolder
    BY <2>1 DEF RemoveFolder
  <2>3. CleanupRows'
    BY <2>1, <2>2, <1>t, <1>i, <1>k, CleanupFrame DEF Open
  <2>4. CleanupMove'
    BY <2>1, <1>m DEF CleanupMove, RmdirPcs, FilePcs
  <2>5. run'.pc \in QuarantinePcs
    BY <2>1 DEF QuarantinePcs
  <2> QED
    BY <2>3, <2>4, <2>5, <1>v
<1>3. CASE InsertEntry
  <2>1. /\ run.pc = "q_entry" /\ run.file \in Files
        /\ run'.pc = "q_item" /\ run'.op = n /\ run'.file = None
        /\ run'.todo = run.todo \ {run.file}
        /\ UNCHANGED <<diskVars, ops, items, dirItem>>
    BY <1>3, <1>n, InsertEffect
  <2>2. CleanupRows'
    BY <2>1, <1>t, <1>i, CleanupFrame DEF Open, diskVars
  <2>3. CleanupMove'
    BY <2>1, <1>m DEF CleanupMove, RmdirPcs, FilePcs, RestorePcs
  <2>4. run'.pc \in QuarantinePcs
    BY <2>1 DEF QuarantinePcs
  <2> QED
    BY <2>2, <2>3, <2>4, <1>v
<1>4. CASE RecordCleanup
  <2>1. /\ run.todo = {} /\ run.moved /\ run'.todo = {} /\ run'.moved = run.moved
        /\ run'.pc = "q_rmdir" /\ run'.op = n
        /\ dirItem' = [dirItem EXCEPT ![n] = "pending"]
        /\ UNCHANGED <<rootDir, ops, items>>
    BY <1>4, <1>n, <1>t, GotoFacts DEF RecordCleanup, diskVars
  <2>2. dirItem'[n] = "pending" /\ \A o \in OpIds : o # n => dirItem'[o] = dirItem[o]
    BY <2>1 DEF IInv, TypeOK, JournalTypeOK
  <2>3. \E f \in Files : items'[n][f].status = "done"
    BY <2>1, <1>m
  <2>4. CleanupRows'
    BY <2>1, <2>2, <2>3, <1>t, <1>r, <1>m DEF CleanupRows, Interrupted, Open
  <2>5. CleanupMove'
    BY <2>1, <2>2, <2>3, <1>m DEF CleanupMove, RmdirPcs, FilePcs, RestorePcs
  <2>6. run'.pc \in QuarantinePcs
    BY <2>1 DEF QuarantinePcs
  <2> QED
    BY <2>4, <2>5, <2>6, <1>v
<1>5. CASE RemoveFolder \/ RemoveFolderRefused
  <2>1. /\ run.pc = "q_rmdir" /\ run'.pc \in {"q_rmdir_done", "q_rmdir_failed"}
        /\ run'.op = n /\ run'.todo = run.todo /\ run'.moved = run.moved
        /\ UNCHANGED <<ops, items, dirItem>>
    BY <1>5, <1>n, <1>t, GotoFacts DEF RemoveFolder, RemoveFolderRefused, journalVars
  <2>2. dirItem[n] = "pending" /\ \E f \in Files : items[n][f].status = "done"
    BY <2>1, <1>m DEF RmdirPcs
  <2>3. CleanupRows'
    BY <2>1, <2>2, <1>t, <1>r DEF CleanupRows, Interrupted, Open
  <2>4. CleanupMove'
    BY <2>1, <2>2, <1>m DEF CleanupMove, RmdirPcs, FilePcs, RestorePcs
  <2>5. run'.pc \in QuarantinePcs
    BY <2>1 DEF QuarantinePcs
  <2> QED
    BY <2>3, <2>4, <2>5, <1>v
<1>6. CASE RecordCleanupOutcome
  <2>1. /\ run.pc \in {"q_rmdir_done", "q_rmdir_failed"} /\ run'.pc = "q_item"
        /\ run'.op = n /\ run'.todo = run.todo /\ run'.moved = run.moved
        /\ UNCHANGED <<rootDir, ops, items>>
    BY <1>6, <1>n, <1>t DEF RecordCleanupOutcome, RunStates, diskVars
  <2>2. PICK s \in {"failed", "done"} : dirItem' = [dirItem EXCEPT ![n] = s]
    BY <1>6, <1>n DEF RecordCleanupOutcome
  <2>3. dirItem'[n] = s /\ \A o \in OpIds : o # n => dirItem'[o] = dirItem[o]
    BY <2>2 DEF IInv, TypeOK, JournalTypeOK
  <2>4. run.moved /\ dirItem[n] = "pending"
    BY <2>1, <1>m DEF RmdirPcs
  <2>5. \E f \in Files : items'[n][f].status = "done"
    BY <2>1, <2>4, <1>m
  <2>6. CleanupRows'
    BY <2>1, <2>3, <2>5, <1>t, <1>r, <1>m DEF CleanupRows, Interrupted, Open
  <2>7. CleanupMove'
    BY <2>1, <2>3, <2>4, <1>m DEF CleanupMove, RmdirPcs, FilePcs, RestorePcs
  <2>8. run'.pc \in QuarantinePcs
    BY <2>1 DEF QuarantinePcs
  <2> QED
    BY <2>6, <2>7, <2>8, <1>v
<1>7. CASE FinishMove
  <2>1. /\ run'.pc = "idle" /\ RowsKept /\ Interrupted' = Interrupted \ {n}
        /\ UNCHANGED <<diskVars, items, dirItem>>
    BY <1>7, <1>n, FinishMoveEffect
  <2>2. CleanupRows'
    BY <2>1, <1>t, CleanupFrame DEF Open, diskVars
  <2> QED
    BY <2>1, <2>2, CleanupElsewhere, PcSets
<1>8. CASE MarkItemFailed \/ MarkItemDone
  BY <1>1, <1>8, MarkItemEffect
<1> QED
  BY <1>1, <1>2, <1>3, <1>4, <1>5, <1>6, <1>7, <1>8 DEF QuarantineStep

\* Steps of a restore, of its recovery and of an executor at rest.
LEMMA CleanupOutside ==
  ASSUME CleanupInv, RowsKept, Interrupted' \subseteq Interrupted,
         UNCHANGED dirItem, rootDir => rootDir',
         \A o \in Interrupted : dirItem[o] = "none" \/ UNCHANGED items,
         run'.pc \notin QuarantinePcs \cup ReversalPcs
  PROVE  CleanupRows' /\ CleanupMove' /\ CleanupReverse'
<1>1. CleanupRows'
  BY CleanupFrame DEF CleanupInv, Open
<1> QED
  BY <1>1, CleanupElsewhere

\* So does every step of a restore,
LEMMA CleanupRestore ==
  ASSUME IInv, CleanupInv, RestoreStep \/ RestoreUnverified, rootDir => rootDir'
  PROVE  CleanupRows' /\ CleanupMove' /\ CleanupReverse'
<1>1. run.pc \in RestorePcs
  BY DEF RestoreStep, MoveToDestination, RestoreRefused, RestoreUnverified, MarkVerifying,
         RecordResult, MarkRestoreItemDone, MarkEntryRestored, FinishRestore,
         MarkRestoreItemFailed, FailRestore, RestorePcs
<1>2. /\ run.op \in Interrupted /\ run.op \in OpIds /\ ops[run.op].kind = "restore"
      /\ \A r \in Interrupted : r = run.op
  BY <1>1 DEF IInv, RunInv, OneInterrupted, ForwardPcs, RestoringPcs, Interrupted
<1>3. \A o \in Interrupted : dirItem[o] = "none"
  BY <1>2 DEF CleanupInv, CleanupRows
<1>4. UNCHANGED dirItem
  BY DEF RestoreStep, MoveToDestination, RestoreRefused, RestoreUnverified, MarkVerifying,
         RecordResult, MarkRestoreItemDone, MarkEntryRestored, FinishRestore,
         MarkRestoreItemFailed, FailRestore, journalVars
<1>5. run'.pc \in RestorePcs \cup {"idle"}
  <2>1. run \in RunStates
    BY DEF IInv, TypeOK, JournalTypeOK
  <2> QED
    BY <2>1, IdleType, GotoFacts, ZenonT(60)
       DEF RestoreStep, MoveToDestination, RestoreRefused, RestoreUnverified, MarkVerifying,
         RecordResult, MarkRestoreItemDone, MarkEntryRestored, FinishRestore,
         MarkRestoreItemFailed, FailRestore, RunStates, RestorePcs
<1>6. RowsKept /\ Interrupted' \subseteq Interrupted
  <2>1. CASE UNCHANGED ops
    BY <2>1 DEF RowsKept, Interrupted
  <2>2. CASE MarkVerifying
    <3>1. "verifying" \in OpStatuses /\ "verifying" \in InFlight /\ ops \in [OpIds -> OpRows]
      BY DEF OpStatuses, InFlight, IInv, TypeOK, JournalTypeOK
    <3>2. RowsKept /\ Interrupted' = Interrupted \cup {run.op}
      BY <2>2, <3>1, <1>2, StatusFacts DEF MarkVerifying
    <3> QED
      BY <3>2, <1>2
  <2>3. CASE FinishRestore \/ FailRestore
    BY <2>3, FinishRestoreEffect
  <2> QED
    BY <2>1, <2>2, <2>3
       DEF RestoreStep, MoveToDestination, RestoreRefused, RestoreUnverified,
         RecordResult, MarkRestoreItemDone, MarkEntryRestored, MarkRestoreItemFailed, journalVars
<1> QED
  BY <1>3, <1>4, <1>5, <1>6, CleanupOutside, PcSets

\* the start of an operation,
LEMMA CleanupRequest ==
  ASSUME IInv, CleanupInv, Request
  PROVE  CleanupRows' /\ CleanupMove' /\ CleanupReverse'
<1>t. CleanupRows
  BY DEF CleanupInv
<1>1. ASSUME NEW S \in SUBSET Files, BackupStart(S)
      PROVE  CleanupRows' /\ CleanupMove' /\ CleanupReverse'
  <2>1. UNCHANGED <<rootDir, ops, items, dirItem, run>> /\ run.pc = "idle"
    BY <1>1 DEF BackupStart, MayMutate, diskVars
  <2> QED
    BY <2>1, CleanupOutside, PcSets DEF RowsKept, Interrupted
<1>2. ASSUME NEW o \in OpIds, NEW S \in SUBSET Files, NEW p \in BOOLEAN,
             NEW c \in BOOLEAN, MoveStart(o, S, p, c)
      PROVE  CleanupRows' /\ CleanupMove' /\ CleanupReverse'
  <2>1. /\ ops[o].kind = "none"
        /\ run'.pc = "q_item" /\ run'.op = o /\ run'.file = None /\ run'.todo = S
        /\ ~run'.moved
        /\ ops'[o].kind = "quarantine" /\ Interrupted' = {o}
        /\ \A m \in OpIds : m # o => ops'[m] = ops[m]
        /\ UNCHANGED <<rootDir, items, dirItem>>
    <3>1. /\ ops[o].kind = "none" /\ Interrupted = {}
          /\ run'.pc = "q_item" /\ run'.op = o /\ run'.file = None /\ run'.todo = S
          /\ ~run'.moved /\ UNCHANGED <<diskVars, items, dirItem>>
      BY <1>2 DEF MoveStart, MayMutate, IsNextOp, Idle
    <3>2. ops \in [OpIds -> OpRows]
      BY DEF IInv, TypeOK, JournalTypeOK
    <3>3. /\ ops'[o].kind = "quarantine" /\ ops'[o].status = "executing"
          /\ \A m \in OpIds : m # o => ops'[m] = ops[m]
      BY <1>2, <3>2 DEF MoveStart, OpRows
    <3>4. Interrupted' = {o}
      BY <3>1, <3>3 DEF Interrupted, InFlight
    <3> QED
      BY <3>1, <3>3, <3>4 DEF diskVars
  <2>2. dirItem[o] = "none"
    BY <2>1, <1>t DEF CleanupRows
  <2>3. CleanupRows'
    BY <2>1, <2>2, <1>t DEF CleanupRows
  <2>4. CleanupMove'
    BY <2>1, <2>2 DEF CleanupMove, FilePcs, RestorePcs, RmdirPcs
  <2>5. CleanupReverse'
    BY <2>1, CleanupElsewhere, PcSets DEF QuarantinePcs
  <2> QED
    BY <2>3, <2>4, <2>5
<1>3. ASSUME NEW r \in OpIds, NEW o \in OpIds, NEW f \in Files,
             NEW dest \in {Orig(f), Folder(f)}, RestoreStart(r, o, f, dest)
      PROVE  CleanupRows' /\ CleanupMove' /\ CleanupReverse'
  <2>1. /\ ops[r].kind = "none" /\ run'.pc = "r_rename" /\ Interrupted' = {r}
        /\ \A m \in OpIds : m # r => ops'[m] = ops[m]
        /\ UNCHANGED <<rootDir, dirItem>>
    BY <1>3, RestoreStartEffect DEF diskVars
  <2>2. dirItem[r] = "none"
    BY <2>1, <1>t DEF CleanupRows
  <2>3. CleanupRows'
    BY <2>1, <2>2, <1>t DEF CleanupRows
  <2> QED
    BY <2>1, <2>3, CleanupElsewhere, PcSets DEF RestorePcs
<1> QED
  BY <1>1, <1>2, <1>3 DEF Request

\* every step of recovery reversing a move,
LEMMA CleanupReversal ==
  ASSUME IInv, CleanupInv,
         \/ \E f \in Files : \/ ReturnHeld(f) \/ AlreadyReturned(f)
                             \/ ExposeHeldCopy(f) \/ LeaveUnresolved(f)
                             \/ ReconcileEntry(f) \/ EntryWithoutProof(f)
                             \/ ItemProbeFails(f) \/ EntryProbeFails(f)
                             \/ ReturnUnverified(f)
         \/ MarkReturned \/ MarkExposed \/ ItemsDone
         \/ KeepInterrupted \/ RollBackCleanup \/ CloseRolledBack
  PROVE  CleanupRows' /\ CleanupMove' /\ CleanupReverse'
<1>s. run.pc \in ReversalPcs
  BY DEF ReversalPcs, Returning, ReturnHeld, AlreadyReturned, ExposeHeldCopy, LeaveUnresolved,
         ReconcileEntry, EntryWithoutProof, ItemProbeFails, EntryProbeFails, ReturnUnverified,
         AtItem, AtEntry, MarkReturned, MarkExposed, ItemsDone, KeepInterrupted,
         RollBackCleanup, CloseRolledBack
<1>t. /\ FolderInv /\ CleanupRows /\ CleanupReverse
      /\ run.op \in Interrupted /\ run.op \in OpIds
      /\ run \in RunStates /\ ops \in [OpIds -> OpRows]
  BY <1>s DEF CleanupInv, CleanupReverse, Interrupted, IInv, TypeOK, JournalTypeOK
<1>n. PICK n \in OpIds : n = run.op
  BY <1>t
<1>r. \A r \in Interrupted : r = n
  BY <1>t, <1>n DEF IInv, OneInterrupted
<1>w. /\ n \in Interrupted /\ ops[n].kind = "quarantine"
      /\ run.pc \in {"v_returned", "v_exposed"} => rootDir
      /\ run.pc # "v_close" /\ run.resolved /\ dirItem[n] \in {"pending", "done"} =>
           \/ rootDir
           \/ run.proof # {} /\ run.pc \in Returning /\ run.proof \subseteq run.todo
      /\ run.pc = "v_close" =>
           /\ dirItem[n] \notin {"pending", "done"}
           /\ dirItem[n] = "rolled_back" => rootDir
  BY <1>s, <1>t, <1>n DEF CleanupReverse
<1>i. UNCHANGED ops => RowsKept /\ Interrupted' = Interrupted
  BY DEF RowsKept, Interrupted
<1>k. RowsKept => ops'[n].kind = "quarantine"
  BY <1>w DEF RowsKept
<1>v. run'.pc \in ReversalPcs \cup {"v_next"} => CleanupMove'
  BY CleanupElsewhere, PcSets
<1>f. \A f \in Files : FromMatches(n, f) => rootDir
  BY <1>t DEF FromMatches, PathMatches, FolderInv
<1>1. ASSUME NEW f \in Files, ReturnHeld(f)
      PROVE  CleanupRows' /\ CleanupMove' /\ CleanupReverse'
  <2>1. /\ run'.pc = "v_returned" /\ run'.op = n /\ rootDir'
        /\ UNCHANGED <<ops, items, dirItem>>
    BY <1>1, <1>n, ReturnEffect
  <2>2. CleanupRows'
    BY <2>1, <1>t, <1>i, CleanupFrame
  <2>3. CleanupReverse'
    BY <2>1, <1>i, <1>w DEF CleanupReverse
  <2> QED
    BY <2>1, <2>2, <2>3, <1>v DEF ReversalPcs, Returning
<1>2. ASSUME NEW f \in Files,
             \/ MarkReturned /\ f = run.file
             \/ MarkExposed /\ f = run.file
             \/ AlreadyReturned(f)
      PROVE  CleanupRows' /\ CleanupMove' /\ CleanupReverse'
  <2>1. /\ run.pc \in Returning
        /\ run.pc = "v_item" => FromMatches(n, f)
        /\ run'.pc = "v_item" /\ run'.op = n
        /\ UNCHANGED <<rootDir, ops, dirItem>>
    BY <1>2, <1>n, SettledRowEffect DEF diskVars
  <2>2. rootDir
    BY <2>1, <1>w, <1>f DEF Returning
  <2>3. CleanupRows'
    BY <2>1, <2>2, <1>t, <1>i, CleanupFrame
  <2>4. CleanupReverse'
    BY <2>1, <2>2, <1>i, <1>w DEF CleanupReverse
  <2> QED
    BY <2>1, <2>3, <2>4, <1>v DEF ReversalPcs, Returning
<1>3. ASSUME NEW f \in Files, ExposeHeldCopy(f)
      PROVE  CleanupRows' /\ CleanupMove' /\ CleanupReverse'
  <2>1. /\ FromMatches(n, f)
        /\ run'.pc = "v_exposed" /\ run'.op = n
        /\ UNCHANGED <<rootDir, ops, items, dirItem>>
    BY <1>3, <1>n, ExposeEffect DEF diskVars
  <2>2. rootDir
    BY <2>1, <1>f
  <2>3. CleanupRows'
    BY <2>1, <2>2, <1>t, <1>i, CleanupFrame
  <2>4. CleanupReverse'
    BY <2>1, <2>2, <1>i, <1>w DEF CleanupReverse
  <2> QED
    BY <2>1, <2>3, <2>4, <1>v DEF ReversalPcs, Returning
<1>4. ASSUME NEW f \in Files,
             \/ LeaveUnresolved(f) \/ ItemProbeFails(f)
             \/ EntryWithoutProof(f) \/ EntryProbeFails(f) \/ ReturnUnverified(f)
      PROVE  CleanupRows' /\ CleanupMove' /\ CleanupReverse'
  <2>1. /\ Unresolved(f) /\ run.pc \in {"v_item", "v_entry"}
        /\ rootDir => rootDir'
    <3>1. /\ Unresolved(f) /\ run.pc \in {"v_item", "v_entry"}
          /\ UNCHANGED diskVars \/ Rename(Held(run.op, f), Orig(f))
      BY <1>4 DEF LeaveUnresolved, ItemProbeFails, EntryWithoutProof, EntryProbeFails,
         ReturnUnverified, AtItem, AtEntry
    <3>2. Rename(Held(run.op, f), Orig(f)) => (rootDir => rootDir')
      BY DEF Rename
    <3>3. UNCHANGED diskVars => (rootDir => rootDir')
      BY DEF diskVars
    <3> QED
      BY <3>1, <3>2, <3>3
  <2>2. /\ run'.pc = run.pc /\ run'.op = n /\ run'.resolved = FALSE
        /\ RowsKept /\ Interrupted' = Interrupted
        /\ UNCHANGED <<items, dirItem>>
    BY <2>1, <1>t, <1>n, UnresolvedRun, UnresolvedFacts
  <2>3. CleanupRows'
    BY <2>1, <2>2, <1>t, CleanupFrame DEF Open
  <2>4. CleanupReverse'
    BY <2>1, <2>2, <1>k, <1>w DEF CleanupReverse
  <2> QED
    BY <2>1, <2>2, <2>3, <2>4, <1>v DEF ReversalPcs, Returning
<1>5. CASE ItemsDone
  <2>1. /\ run.todo = {} /\ run'.op = n /\ run.pc = "v_item" /\ run'.pc = "v_entry"
        /\ run'.resolved = run.resolved
        /\ UNCHANGED <<rootDir, ops, items, dirItem>>
    BY <1>5, <1>n, ReversalTurnEffect DEF diskVars
  <2>2. CleanupRows'
    BY <2>1, <1>t, <1>i, CleanupFrame DEF Open
  <2>3. CleanupReverse'
    BY <2>1, <1>i, <1>w DEF CleanupReverse
  <2> QED
    BY <2>1, <2>2, <2>3, <1>v DEF ReversalPcs
<1>6. CASE RollBackCleanup
  <2>1. /\ run.pc = "v_entry" /\ run'.pc = "v_close" /\ run.resolved /\ run'.op = n
        /\ dirItem'[n] = IF dirItem[n] \in {"pending", "done"}
                         THEN "rolled_back" ELSE dirItem[n]
        /\ \A m \in OpIds : m # n => dirItem'[m] = dirItem[m]
        /\ UNCHANGED <<rootDir, ops, items>>
    BY <1>6, <1>n, ReversalTurnEffect DEF diskVars
  <2>2. dirItem'[n] \notin {"pending", "done"} /\ (dirItem'[n] = "rolled_back" => rootDir)
    BY <2>1, <1>t, <1>w DEF CleanupRows, Returning
  <2>3. CleanupRows'
    BY <2>1, <2>2, <1>t, <1>i, <1>r, <1>w DEF CleanupRows
  <2>4. CleanupReverse'
    BY <2>1, <2>2, <1>i, <1>w DEF CleanupReverse
  <2> QED
    BY <2>1, <2>3, <2>4, <1>v DEF ReversalPcs
<1>7. ASSUME NEW f \in Files, ReconcileEntry(f)
      PROVE  CleanupRows' /\ CleanupMove' /\ CleanupReverse'
  <2>1. /\ run.pc = "v_entry" /\ run'.pc = "v_entry" /\ run'.op = n
        /\ run'.resolved = run.resolved
        /\ UNCHANGED <<rootDir, ops, items, dirItem>>
    BY <1>7, <1>n, ReconcileEffect DEF diskVars
  <2>2. CleanupRows'
    BY <2>1, <1>t, <1>i, CleanupFrame DEF Open
  <2>3. CleanupReverse'
    BY <2>1, <1>i, <1>w DEF CleanupReverse, Returning
  <2> QED
    BY <2>1, <2>2, <2>3, <1>v DEF ReversalPcs
<1>8. CASE KeepInterrupted
  <2>1. run'.pc = "v_next" /\ UNCHANGED <<rootDir, ops, items, dirItem>>
    BY <1>8, <1>t, SettledType DEF KeepInterrupted, diskVars, journalVars
  <2> QED
    BY <2>1, <1>i, CleanupOutside, PcSets
<1>9. CASE CloseRolledBack
  <2>1. /\ run'.pc = "v_next" /\ RowsKept /\ Interrupted' \subseteq Interrupted
        /\ UNCHANGED <<rootDir, items, dirItem>>
    BY <1>9, CloseEffect DEF diskVars
  <2> QED
    BY <2>1, CleanupOutside, PcSets
<1>10. ASSUME MarkReturned \/ MarkExposed
       PROVE  CleanupRows' /\ CleanupMove' /\ CleanupReverse'
  <2>1. run.file \in Files
    BY <1>10 DEF MarkReturned, MarkExposed, IInv, RunInv, FilePcs
  <2> QED
    BY <1>10, <1>2, <2>1
<1> QED
  BY <1>1, <1>2, <1>3, <1>4, <1>5, <1>6, <1>7, <1>8, <1>9, <1>10, SMTT(30)

\* every step of recovery settling a restore,
LEMMA CleanupSettling ==
  ASSUME IInv, CleanupInv,
         \/ RecoverBegin \/ RecoverFinish \/ RecoverReturn
         \/ \E o \in OpIds : \/ RecoverOperation(o) \/ SurfaceRestore(o)
                             \/ SettleRestore(o) \/ RestoreProbeFails(o)
         \/ SettleEntry \/ SettleItem \/ SettleOperation
  PROVE  CleanupRows' /\ CleanupMove' /\ CleanupReverse'
<1>t. CleanupRows /\ run \in RunStates
  BY DEF CleanupInv, IInv, TypeOK, JournalTypeOK
<1>i. UNCHANGED ops => RowsKept /\ Interrupted' = Interrupted
  BY DEF RowsKept, Interrupted
<1>1. CASE RecoverBegin \/ RecoverFinish \/ RecoverReturn
  <2>1. run'.pc \in {"v_next", "v_end", "idle"} /\ UNCHANGED <<rootDir, ops, items, dirItem>>
    BY <1>1, IdleType, GotoFacts, <1>t DEF RecoverBegin, RecoverFinish, RecoverReturn,
       diskVars, journalVars, Idle
  <2> QED
    BY <2>1, <1>i, CleanupOutside, PcSets
<1>2. ASSUME NEW o \in OpIds, RecoverOperation(o)
      PROVE  CleanupRows' /\ CleanupMove' /\ CleanupReverse'
  <2>1. /\ run'.pc = "v_item" /\ run'.op = o /\ run'.proof = run'.todo
        /\ run'.todo = {f \in Files : items[o][f].status \in {"pending", "done"}}
        /\ o \in Interrupted /\ ops[o].kind = "quarantine"
        /\ UNCHANGED <<rootDir, ops, items, dirItem>>
    BY <1>2, <1>t DEF RecoverOperation, RunStates, diskVars, journalVars, IsFirst, Pending
  <2>2. CleanupRows'
    BY <2>1, <1>t, <1>i, CleanupFrame DEF Open
  <2>3. CleanupReverse'
    BY <2>1, <1>t, <1>i DEF CleanupReverse, CleanupRows, Open, Returning
  <2> QED
    BY <2>1, <2>2, <2>3, CleanupElsewhere, SMTT(30) DEF QuarantinePcs
<1>3. ASSUME NEW r \in OpIds, SurfaceRestore(r) \/ RestoreProbeFails(r)
      PROVE  CleanupRows' /\ CleanupMove' /\ CleanupReverse'
  <2>1. /\ run'.pc = "v_next" /\ RowsKept /\ Interrupted' = Interrupted
        /\ UNCHANGED <<rootDir, items, dirItem>>
    BY <1>3, SurfaceEffect DEF diskVars
  <2> QED
    BY <2>1, CleanupOutside, PcSets
<1>4. ASSUME NEW r \in OpIds, SettleRestore(r)
      PROVE  CleanupRows' /\ CleanupMove' /\ CleanupReverse'
  <2>1. run'.pc \in {"v_restore_op", "v_restore_entry"}
    BY <1>4, <1>t, SettleRestoreType DEF IInv, TypeOK, JournalTypeOK
  <2>2. UNCHANGED <<rootDir, ops, items, dirItem>>
    BY <1>4 DEF SettleRestore, diskVars, journalVars
  <2> QED
    BY <2>1, <2>2, <1>i, CleanupOutside, PcSets DEF SettlingPcs
<1>5. CASE SettleEntry
  <2>1. /\ run'.pc = "v_restore_item" /\ UNCHANGED <<rootDir, ops, items, dirItem>>
    BY <1>5, SettleEntryEffect DEF diskVars
  <2> QED
    BY <2>1, <1>i, CleanupOutside, PcSets DEF SettlingPcs
<1>6. CASE SettleItem
  <2>1. /\ run.pc \in RestoringPcs /\ run.op \in OpIds
        /\ run'.pc = "v_restore_op" /\ SameRows(run.op, run.file)
        /\ UNCHANGED <<rootDir, ops, dirItem>>
    BY <1>6, SettleItemEffect, PcSets DEF RowGets, diskVars
  <2>2. dirItem[run.op] = "none"
    BY <2>1, <1>t DEF IInv, RunInv, CleanupRows
  <2>3. \A o \in Interrupted : dirItem[o] # "none" => \A f \in Files : items'[o][f] = items[o][f]
    BY <2>1, <2>2 DEF SameRows, Interrupted
  <2>4. CleanupRows'
    BY <2>1, <2>3, <1>t, <1>i, CleanupFrame DEF Open
  <2> QED
    BY <2>1, <2>4, CleanupElsewhere, PcSets DEF SettlingPcs
<1>7. CASE SettleOperation
  <2>1. /\ run'.pc = "v_next" /\ RowsKept /\ Interrupted' \subseteq Interrupted
        /\ UNCHANGED <<rootDir, items, dirItem>>
    BY <1>7, SettleOperationEffect DEF diskVars
  <2> QED
    BY <2>1, CleanupOutside, PcSets
<1> QED
  BY <1>1, <1>2, <1>3, <1>4, <1>5, <1>6, <1>7

\* and so every step.
LEMMA CleanupStep ==
  ASSUME IInv, CleanupInv, [Next]_vars
  PROVE  CleanupInv'
<1>1. FolderInv'
  BY FolderStep DEF CleanupInv
<1>2. RemoveFolder \/ (rootDir => rootDir')
  BY RootSteps
<1>3. CASE Request
  BY <1>1, <1>3, CleanupRequest DEF CleanupInv
<1>4. CASE QuarantineStep \/ MoveUnverified
  BY <1>1, <1>2, <1>4, CleanupQuarantine DEF CleanupInv
<1>5. CASE RestoreStep \/ RestoreUnverified
  <2>1. run.pc \in RestorePcs
    BY <1>5 DEF RestoreStep, MoveToDestination, RestoreRefused, RestoreUnverified, MarkVerifying,
         RecordResult, MarkRestoreItemDone, MarkEntryRestored, FinishRestore,
         MarkRestoreItemFailed, FailRestore, RestorePcs
  <2>2. rootDir => rootDir'
    BY <1>2, <2>1 DEF RemoveFolder, RestorePcs
  <2> QED
    BY <1>1, <1>5, <2>2, CleanupRestore DEF CleanupInv
<1>6. CASE \/ \E f \in Files : \/ ReturnHeld(f) \/ AlreadyReturned(f)
                               \/ ExposeHeldCopy(f) \/ LeaveUnresolved(f)
                               \/ ReconcileEntry(f) \/ EntryWithoutProof(f)
                               \/ ItemProbeFails(f) \/ EntryProbeFails(f)
                               \/ ReturnUnverified(f)
           \/ MarkReturned \/ MarkExposed \/ ItemsDone
           \/ KeepInterrupted \/ RollBackCleanup \/ CloseRolledBack
  BY <1>1, <1>6, CleanupReversal DEF CleanupInv
<1>7. CASE \/ RecoverBegin \/ RecoverFinish \/ RecoverReturn
           \/ \E o \in OpIds : \/ RecoverOperation(o) \/ SurfaceRestore(o)
                               \/ SettleRestore(o) \/ RestoreProbeFails(o)
           \/ SettleEntry \/ SettleItem \/ SettleOperation
  BY <1>1, <1>7, CleanupSettling DEF CleanupInv
<1>8. CASE Crash
  <2>1. run'.pc = "idle" /\ UNCHANGED <<rootDir, ops, items, dirItem>>
    BY <1>8, IdleType DEF Crash, diskVars, journalVars
  <2>2. RowsKept /\ Interrupted' = Interrupted
    BY <2>1 DEF RowsKept, Interrupted
  <2> QED
    BY <1>1, <2>1, <2>2, CleanupOutside, PcSets DEF CleanupInv
<1>9. CASE UserStep \/ UNCHANGED vars
  <2>1. UNCHANGED <<ops, items, dirItem, run>> /\ (rootDir => rootDir')
    <3>1. UNCHANGED <<ops, items, dirItem, run>>
      BY <1>9 DEF UserStep, UserCreates, UserReplaces, UserLinks, UserDeletes, Meddle,
         journalVars, vars
    <3>2. UserStep => (rootDir => rootDir')
      BY DEF UserStep, UserCreates, UserReplaces, UserLinks, UserDeletes
    <3>3. UNCHANGED vars => (rootDir => rootDir')
      BY DEF vars
    <3> QED
      BY <1>9, <3>1, <3>2, <3>3
  <2>2. RowsKept /\ Interrupted' = Interrupted
    BY <2>1 DEF RowsKept, Interrupted
  <2>3. CleanupRows'
    BY <2>1, <2>2, CleanupFrame DEF CleanupInv, Open
  <2>4. CleanupMove' /\ CleanupReverse'
    BY <2>1, <2>2 DEF CleanupInv, CleanupMove, CleanupReverse
  <2> QED
    BY <1>1, <2>3, <2>4 DEF CleanupInv
<1>10. CASE RecoveryStep
  BY <1>6, <1>7, <1>10 DEF RecoveryStep
<1>11. CASE Fault
  BY <1>4, <1>5, <1>6, <1>7, <1>11 DEF Fault, ProbeFault, QuarantineStep, RestoreStep
<1> QED
  BY <1>3, <1>4, <1>5, <1>8, <1>9, <1>10, <1>11 DEF Next, ProgramStep

\* The statements that close an operation.
LEMMA ClosingSteps ==
  ASSUME IInv, [Next]_vars, NEW o \in OpIds,
         ops[o].status \in InFlight, ops'[o].status \notin InFlight
  PROVE  FinishMove \/ FinishRestore \/ FailRestore \/ CloseRolledBack \/ SettleOperation
<1>o. o \in Interrupted /\ o \notin Interrupted'
  BY DEF Interrupted
<1>1. CASE Request
  <2>1. Interrupted = {} \/ UNCHANGED ops
    BY <1>1, ZenonT(60) DEF Request, BackupStart, MoveStart, RestoreStart, MayMutate
  <2> QED
    BY <2>1, <1>o
<1>2. CASE UNCHANGED ops
  BY <1>2
<1>3. CASE MarkVerifying
  <2>1. "verifying" \in OpStatuses /\ "verifying" \in InFlight /\ ops \in [OpIds -> OpRows]
    BY DEF OpStatuses, InFlight, IInv, TypeOK, JournalTypeOK
  <2>2. run.op \in OpIds
    BY <1>3 DEF MarkVerifying, IInv, RunInv
  <2>3. Interrupted' = Interrupted \cup {run.op}
    BY <1>3, <2>1, <2>2, StatusFacts DEF MarkVerifying
  <2> QED
    BY <2>3, <1>o
<1>4. ASSUME NEW f \in Files, Unresolved(f), run.op \in OpIds PROVE FALSE
  <2>1. Interrupted' = Interrupted
    BY <1>4, UnresolvedFacts DEF IInv, TypeOK, JournalTypeOK
  <2> QED
    BY <2>1, <1>o
<1>5. ASSUME NEW f \in Files,
             \/ LeaveUnresolved(f) \/ ItemProbeFails(f) \/ EntryWithoutProof(f)
             \/ EntryProbeFails(f) \/ ReturnUnverified(f)
      PROVE  FALSE
  <2>1. Unresolved(f) /\ run.op \in OpIds
    BY <1>5 DEF LeaveUnresolved, ItemProbeFails, EntryWithoutProof, EntryProbeFails,
       ReturnUnverified, AtItem, AtEntry, IInv, RunInv
  <2> QED
    BY <1>4, <2>1
<1>6. ASSUME NEW r \in OpIds, SurfaceRestore(r) \/ RestoreProbeFails(r) PROVE FALSE
  BY <1>6, <1>o, SurfaceEffect
<1>7. CASE Fault
  BY <1>2, <1>5, <1>6, <1>7 DEF Fault, ProbeFault, MoveRefused, RestoreRefused,
     MoveUnverified, RestoreUnverified, journalVars
<1>8. CASE QuarantineStep
  BY <1>2, <1>8 DEF QuarantineStep, SkipProtected, RefuseSource, RecordIntent, MoveToHolding,
     MoveRefused, MarkItemFailed, MarkItemDone, InsertEntry, RecordCleanup, RemoveFolder,
     RemoveFolderRefused, RecordCleanupOutcome, journalVars
<1>9. CASE RestoreStep
  BY <1>2, <1>3, <1>9, SMTT(30) DEF RestoreStep, MoveToDestination, RestoreRefused, RecordResult,
     MarkRestoreItemDone, MarkEntryRestored, MarkRestoreItemFailed, journalVars
<1>10. CASE RecoveryStep
  BY <1>2, <1>5, <1>6, <1>10 DEF RecoveryStep, RecoverBegin, RecoverOperation, SettleRestore,
     ReturnHeld, AlreadyReturned, ExposeHeldCopy, ReconcileEntry, MarkReturned,
     MarkExposed, ItemsDone, KeepInterrupted, RollBackCleanup, SettleEntry, SettleItem,
     RecoverFinish, RecoverReturn, journalVars
<1>11. CASE Crash \/ UNCHANGED vars \/ UserStep
  BY <1>2, <1>11 DEF Crash, vars, UserStep, UserCreates, UserReplaces, UserLinks, UserDeletes,
     Meddle, journalVars
<1> QED
  BY <1>1, <1>7, <1>8, <1>9, <1>10, <1>11 DEF Next, ProgramStep

\* A step that closes an operation leaves its remove_dir row truthful.
LEMMA ClosingTruthful ==
  ASSUME IInv, CleanupInv, [Next]_vars, NEW o \in OpIds,
         ops[o].status \in InFlight, ops'[o].status \notin InFlight
  PROVE  /\ dirItem[o] # "pending"
         /\ dirItem[o] = "done" => ops'[o].status # "rolled_back"
         /\ dirItem[o] = "rolled_back" => rootDir
<1>o. o \in Interrupted /\ o \notin Interrupted'
  BY DEF Interrupted
<1>1. CASE FinishMove
  <2>1. /\ run.pc = "q_item" /\ Interrupted' = Interrupted \ {run.op}
        /\ ops'[run.op].status \in {"failed", "done"}
    BY <1>1, FinishMoveEffect
  <2>2. dirItem[run.op] \in {"none", "done", "failed"}
    BY <2>1 DEF CleanupInv, CleanupMove, QuarantinePcs, RmdirPcs
  <2> QED
    BY <2>1, <2>2, <1>o
<1>2. CASE FinishRestore \/ FailRestore \/ SettleOperation
  <2>1. /\ Interrupted' = Interrupted \ {run.op} /\ run.op \in OpIds
        /\ run.pc \in RestoringPcs
    BY <1>2, FinishRestoreEffect, SettleOperationEffect DEF RestoringPcs, RestorePcs
  <2>2. dirItem[run.op] = "none"
    BY <2>1 DEF IInv, RunInv, CleanupInv, CleanupRows
  <2> QED
    BY <2>1, <2>2, <1>o
<1>3. CASE CloseRolledBack
  <2>1. run.pc = "v_close" /\ Interrupted' = Interrupted \ {run.op}
    BY <1>3, CloseEffect
  <2>2. /\ dirItem[run.op] \notin {"pending", "done"}
        /\ dirItem[run.op] = "rolled_back" => rootDir
    BY <2>1 DEF CleanupInv, CleanupReverse, ReversalPcs
  <2> QED
    BY <2>1, <2>2, <1>o
<1> QED
  BY <1>1, <1>2, <1>3, ClosingSteps

\* The remove_dir row of a closed move is settled, and a rollback that declares
\* the folder's removal undone has brought the folder back: for all constants,
\* faults and changes of the user.
THEOREM CleanupRowTruthfulTheorem == Spec => CleanupRowTruthful
<1> DEFINE Truthful == \A o \in OpIds :
             ops[o].status \in InFlight /\ ops'[o].status \notin InFlight =>
               /\ dirItem[o] # "pending"
               /\ dirItem[o] = "done" => ops'[o].status # "rolled_back"
               /\ dirItem[o] = "rolled_back" => rootDir
<1>1. IInv /\ CleanupInv /\ [Next]_vars => CleanupInv' /\ [Truthful]_vars
  BY CleanupStep, ClosingTruthful
<1>2. Spec => [][Truthful]_vars
  BY <1>1, CleanupInit, Invariance, PTL DEF Spec
<1> QED
  BY <1>2 DEF CleanupRowTruthful

-----------------------------------------------------------------------------
(* The refinement: what the promise sees of each step.                     *)

\* The objects in the hands of the unfinished operation.
InHand ==
  {x \in Objects : \E o \in Interrupted, f \in Files :
                     Open(o, f) /\ items[o][f].expected = x}

\* The object is in the holding area.
AtHeld(x) == \E o \in OpIds, f \in Files : disk[Held(o, f)] = x

\* What the promise calls place.
places == [x \in Objects |-> PlaceOf(x)]

\* An object's place, read from disk and hands alone.
PlacesRead ==
  \A x \in Objects :
    PlaceOf(x) = IF x \notin OnDisk THEN "absent"
                 ELSE IF x \in InHand THEN "moving"
                 ELSE IF AtHeld(x) THEN "held" ELSE "user"

\* Where every held object is tracked none is lost, so that disk and hands
\* alone decide where the promise sees an object.
LEMMA PlaceReads == TrackInv => PlacesRead
<1> SUFFICES ASSUME TrackInv, NEW x \in Objects
             PROVE  PlaceOf(x) = IF x \notin OnDisk THEN "absent"
                                 ELSE IF x \in InHand THEN "moving"
                                 ELSE IF AtHeld(x) THEN "held" ELSE "user"
  BY DEF PlacesRead
<1>1. (\E o \in Interrupted, f \in Files :
         /\ items[o][f].status \in {"pending", "done"}
         /\ items[o][f].expected = x) <=> x \in InHand
  BY DEF InHand, Open
<1>2. (\E o \in OpIds, f \in Files : disk[Held(o, f)] = x) <=> AtHeld(x)
  BY DEF AtHeld
<1>3. ASSUME AtHeld(x), x \notin InHand
      PROVE  \E o \in OpIds, f \in Files : disk[Held(o, f)] = x /\ entries[o][f] = "quarantined"
  <2>1. PICK o \in OpIds, f \in Files : disk[Held(o, f)] = x
    BY <1>3 DEF AtHeld
  <2>2. x # None
    BY JournalAssumption
  <2>3. items[o][f].expected = x
    BY <2>1, <2>2 DEF TrackInv, RowsInv, Occupied
  <2>4. ~(o \in Interrupted /\ items[o][f].status \in {"pending", "done"})
    BY <1>3, <2>3 DEF InHand, Open
  <2>5. entries[o][f] = "quarantined"
    BY <2>1, <2>2, <2>4 DEF TrackInv, HeldIsTracked
  <2> QED
    BY <2>1, <2>5
<1> QED
  BY <1>1, <1>2, <1>3 DEF PlaceOf

\* And so it is after a step.
LEMMA NextPlaceReads == TrackInv' => PlacesRead'
  BY PlaceReads, PTL

\* A step that moves no object on the disk: the operation lets go of some
\* objects, or takes up at most one.
HandsOver ==
  /\ UNCHANGED disk
  /\ \/ InHand' \subseteq InHand
     \/ \E z \in Objects : InHand \subseteq InHand' /\ InHand' \subseteq InHand \cup {z}

\* A step that moves no object but those in hand, or among the user's paths.
Carries ==
  /\ InHand' = InHand /\ OnDisk' = OnDisk
  /\ \A x \in Objects \ InHand : AtHeld(x)' <=> AtHeld(x)

\* A step that brings a new object to a path of the user's.
Brings ==
  /\ InHand' = InHand
  /\ \E x \in Objects : /\ x \notin OnDisk /\ OnDisk' = OnDisk \cup {x}
                        /\ x \notin InHand /\ ~AtHeld(x)'
  /\ \A x \in Objects : x \in OnDisk => (AtHeld(x)' <=> AtHeld(x))

\* What an unchanged disk shows.
LEMMA DiskSame ==
  ASSUME UNCHANGED disk
  PROVE  OnDisk' = OnDisk /\ \A x \in Objects : AtHeld(x)' <=> AtHeld(x)
  BY DEF OnDisk, AtHeld

\* Two readings of an object's place agree when disk and hands do.
LEMMA SamePlace ==
  ASSUME PlacesRead, PlacesRead', NEW x \in Objects,
         x \in OnDisk' <=> x \in OnDisk, x \in InHand' <=> x \in InHand,
         x \in InHand \/ (AtHeld(x)' <=> AtHeld(x))
  PROVE  PlaceOf(x)' = PlaceOf(x)
  BY DEF PlacesRead

\* A step that hands objects over is a TakeUp, a Settle or a stutter.
LEMMA HandsOverStep ==
  ASSUME PlacesRead, PlacesRead', HandsOver
  PROVE  [Promise!Next]_places
<1>1. OnDisk' = OnDisk /\ \A x \in Objects : AtHeld(x)' <=> AtHeld(x)
  BY DiskSame DEF HandsOver
<1>2. CASE InHand' \subseteq InHand
  <2> DEFINE S == {x \in OnDisk \cap Objects : x \in InHand /\ x \notin InHand'}
  <2>1. \A x \in Objects : x \notin S => PlaceOf(x)' = PlaceOf(x)
    <3> SUFFICES ASSUME NEW x \in Objects, x \notin S PROVE PlaceOf(x)' = PlaceOf(x)
      OBVIOUS
    <3>1. CASE x \in OnDisk
      BY <3>1, <1>1, <1>2, SamePlace
    <3>2. CASE x \notin OnDisk
      BY <3>2, <1>1 DEF PlacesRead
    <3> QED
      BY <3>1, <3>2
  <2>2. \A x \in S : PlaceOf(x) = "moving" /\ PlaceOf(x)' \in {"user", "held"}
    BY <1>1 DEF PlacesRead
  <2>3. CASE S = {}
    <3>1. UNCHANGED places
      BY <2>1, <2>3 DEF places
    <3> QED
      BY <3>1
  <2>4. CASE S # {}
    <3>1. [x \in S |-> PlaceOf(x)'] \in [S -> {"user", "held"}]
      BY <2>2
    <3>2. places' = [x \in Objects |-> IF x \in S THEN [y \in S |-> PlaceOf(y)'][x]
                                                  ELSE places[x]]
      BY <2>1 DEF places
    <3>3. \A x \in S : places[x] = "moving"
      BY <2>2 DEF places
    <3>4. Promise!Settle(S)
      BY <2>4, <3>1, <3>2, <3>3 DEF Promise!Settle, places
    <3>5. S \in SUBSET Objects
      OBVIOUS
    <3> QED
      BY <3>4, <3>5 DEF Promise!Next
  <2> QED
    BY <2>3, <2>4
<1>3. ASSUME NEW z \in Objects, InHand \subseteq InHand', InHand' \subseteq InHand \cup {z}
      PROVE  [Promise!Next]_places
  <2>1. \A x \in Objects : x # z => PlaceOf(x)' = PlaceOf(x)
    BY <1>1, <1>3, SamePlace
  <2>2. CASE PlaceOf(z)' = PlaceOf(z)
    BY <2>1, <2>2 DEF places
  <2>3. CASE PlaceOf(z)' # PlaceOf(z)
    <3>1. z \in OnDisk /\ z \in InHand' /\ z \notin InHand
      BY <2>3, <1>1, <1>3 DEF PlacesRead
    <3>2. PlaceOf(z) \in {"user", "held"} /\ PlaceOf(z)' = "moving"
      BY <3>1, <1>1 DEF PlacesRead
    <3>3. places' = [places EXCEPT ![z] = "moving"] /\ places[z] \in {"user", "held"}
      BY <2>1, <3>2 DEF places
    <3> QED
      BY <3>3 DEF Promise!Next, Promise!TakeUp, places
  <2> QED
    BY <2>2, <2>3
<1> QED
  BY <1>2, <1>3 DEF HandsOver

\* A step that carries objects is a stutter: they stay in the same hands.
LEMMA CarriesStep ==
  ASSUME PlacesRead, PlacesRead', Carries
  PROVE  [Promise!Next]_places
<1>1. \A x \in Objects : PlaceOf(x)' = PlaceOf(x)
  BY SamePlace DEF Carries
<1> QED
  BY <1>1 DEF places

\* A step that brings an object is an Appear.
LEMMA BringsStep ==
  ASSUME PlacesRead, PlacesRead', Brings
  PROVE  [Promise!Next]_places
<1>1. PICK x \in Objects : /\ x \notin OnDisk /\ OnDisk' = OnDisk \cup {x}
                           /\ x \notin InHand /\ ~AtHeld(x)'
  BY DEF Brings
<1>2. PlaceOf(x) = "absent" /\ PlaceOf(x)' = "user"
  BY <1>1 DEF PlacesRead, Brings
<1>3. \A y \in Objects : y # x => PlaceOf(y)' = PlaceOf(y)
  <2> SUFFICES ASSUME NEW y \in Objects, y # x PROVE PlaceOf(y)' = PlaceOf(y)
    OBVIOUS
  <2>1. CASE y \in OnDisk
    BY <2>1, <1>1, SamePlace DEF Brings
  <2>2. CASE y \notin OnDisk
    BY <2>2, <1>1 DEF PlacesRead
  <2> QED
    BY <2>1, <2>2
<1>4. places' = [places EXCEPT ![x] = "user"] /\ places[x] = "absent"
  BY <1>2, <1>3 DEF places
<1> QED
  BY <1>4 DEF Promise!Next, Promise!Appear, places

\* What a step changes in one row of the item table changes hands alone.
LEMMA RowChanges ==
  ASSUME NEW o \in OpIds, NEW f \in Files, SameRows(o, f),
         Interrupted' = Interrupted, UNCHANGED disk,
         items'[o][f].expected \in Objects \cup {None},
         ~Open(o, f)' \/ ~Open(o, f) \/ items'[o][f].expected = items[o][f].expected
  PROVE  HandsOver
<1>1. \A m \in OpIds, g \in Files : m # o \/ g # f =>
        (Open(m, g)' <=> Open(m, g)) /\ items'[m][g].expected = items[m][g].expected
  BY DEF SameRows, Open
<1>2. CASE ~Open(o, f)'
  BY <1>1, <1>2 DEF HandsOver, InHand, Interrupted
<1>3. CASE Open(o, f)'
  <2>1. InHand \subseteq InHand'
    BY <1>1, <1>3 DEF InHand, Interrupted
  <2>2. InHand' \subseteq InHand \cup {items'[o][f].expected}
    BY <1>1, <1>3 DEF InHand, Interrupted
  <2>3. CASE items'[o][f].expected \in Objects
    BY <2>1, <2>2, <2>3 DEF HandsOver
  <2>4. CASE items'[o][f].expected = None
    <3>1. InHand' \subseteq InHand
      BY <2>2, <2>4, JournalAssumption DEF InHand
    <3> QED
      BY <3>1 DEF HandsOver
  <2> QED
    BY <2>3, <2>4
<1> QED
  BY <1>2, <1>3

\* A step that writes no item row and starts no operation.
LEMMA RowsStay ==
  ASSUME UNCHANGED <<disk, items>>, Interrupted' \subseteq Interrupted
  PROVE  HandsOver
<1>1. InHand' \subseteq InHand
  BY DEF InHand, Open, Interrupted
<1> QED
  BY <1>1 DEF HandsOver

\* A rename of an object in hand, whose rows it leaves alone.
LEMMA RenameCarries ==
  ASSUME IInv, NEW from \in Paths, NEW to \in Paths, from # to, Rename(from, to),
         disk[from] = None \/ disk[from] \in InHand, UNCHANGED <<ops, items>>
  PROVE  Carries
<1>1. /\ disk[to] = None /\ disk'[to] = disk[from] /\ disk'[from] = None
      /\ \A p \in Paths : p # from /\ p # to => disk'[p] = disk[p]
  BY RenameFacts DEF IInv, TypeOK, JournalTypeOK
<1>2. InHand' = InHand
  BY DEF InHand, Open, Interrupted
<1>3. OnDisk' = OnDisk
  BY <1>1 DEF OnDisk
<1>4. \A x \in Objects \ InHand : AtHeld(x)' <=> AtHeld(x)
  <2> SUFFICES ASSUME NEW x \in Objects \ InHand PROVE AtHeld(x)' <=> AtHeld(x)
    OBVIOUS
  <2>1. x # None /\ x # disk[from]
    BY JournalAssumption
  <2>2. \A p \in Paths : disk'[p] = x <=> disk[p] = x
    BY <1>1, <2>1
  <2>3. \A o \in OpIds, f \in Files : Held(o, f) \in Paths
    BY HeldPathFacts
  <2> QED
    BY <2>2, <2>3 DEF AtHeld
<1> QED
  BY <1>2, <1>3, <1>4 DEF Carries

\* A row of the unfinished operation puts its object in its hands.
LEMMA RowInHand ==
  ASSUME NEW o \in Interrupted, NEW f \in Files, Open(o, f),
         items[o][f].expected \in Objects \cup {None}
  PROVE  items[o][f].expected = None \/ items[o][f].expected \in InHand
  BY DEF InHand

\* A row expects an object or nothing.
LEMMA ExpectedType ==
  ASSUME IInv, NEW o \in OpIds, NEW f \in Files
  PROVE  items[o][f].expected \in Objects \cup {None}
<1>1. items[o][f] \in ItemRows
  BY DEF IInv, TypeOK, JournalTypeOK
<1> QED
  BY <1>1 DEF ItemRows

\* A move takes up one file with each intent, carries it with the rename and
\* lets go of everything when it ends.
LEMMA PromiseQuarantine ==
  ASSUME IInv, TrackInv, QuarantineStep
  PROVE  HandsOver \/ Carries
<1>r. MoveInv
  BY DEF TrackInv
<1>o. run.pc \in QuarantinePcs => run.op \in Interrupted /\ run.op \in OpIds
  BY DEF IInv, RunInv, ForwardPcs, Interrupted
<1>1. ASSUME NEW f \in Files, SkipProtected(f) \/ RefuseSource(f)
      PROVE  HandsOver
  <2>1. PICK s \in {"skipped", "failed"} : RowGets(run.op, f, s)
    BY <1>1, SkipEffect
  <2>2. run.pc = "q_item" /\ UNCHANGED <<disk, ops>>
    BY <1>1, SkipEffect DEF diskVars
  <2>3. run.op \in OpIds
    BY <2>2, <1>o DEF QuarantinePcs
  <2>4. Interrupted' = Interrupted
    BY <2>2 DEF Interrupted
  <2> QED
    BY <2>1, <2>2, <2>3, <2>4, ExpectedType, RowChanges DEF RowGets, Open
<1>2. ASSUME NEW f \in Files, RecordIntent(f)
      PROVE  HandsOver
  <2>1. /\ items'[run.op][f].expected = disk[Orig(f)] /\ SameRows(run.op, f)
        /\ run.pc = "q_item" /\ f \in run.todo /\ UNCHANGED <<disk, ops>>
    BY <1>2, IntentEffect DEF diskVars
  <2>2. run.op \in OpIds
    BY <2>1, <1>o DEF QuarantinePcs
  <2>3. run.file = None /\ f # None
    BY <2>1, <1>r, JournalAssumption DEF MoveInv, QuarantinePcs, FilePcs, RestorePcs
  <2>4. items[run.op][f] = NoItem
    BY <2>1, <2>3, <1>r DEF MoveInv, QuarantinePcs
  <2>5. ~Open(run.op, f)
    BY <2>4 DEF NoItem, Open
  <2>6. disk[Orig(f)] \in Objects \cup {None}
    BY OrigPath DEF IInv, TypeOK, JournalTypeOK
  <2>7. Interrupted' = Interrupted
    BY <2>1 DEF Interrupted
  <2> QED
    BY <2>1, <2>2, <2>5, <2>6, <2>7, RowChanges
<1>3. CASE MoveToHolding
  <2>1. /\ run.pc = "q_rename" /\ run.file \in Files /\ run.op \in OpIds
        /\ Rename(Orig(run.file), Held(run.op, run.file))
        /\ UNCHANGED <<ops, items>>
    BY <1>3, MoveEffect
  <2>2. /\ run.op \in Interrupted /\ Open(run.op, run.file)
        /\ items[run.op][run.file].expected = disk[Orig(run.file)]
    BY <2>1, <1>o, <1>r DEF MoveInv, QuarantinePcs, Open
  <2>3. disk[Orig(run.file)] = None \/ disk[Orig(run.file)] \in InHand
    BY <2>1, <2>2, RowInHand, ExpectedType
  <2>4. /\ Orig(run.file) \in Paths /\ Held(run.op, run.file) \in Paths
        /\ Orig(run.file) # Held(run.op, run.file)
    BY <2>1, HeldPathFacts
  <2> QED
    BY <2>1, <2>3, <2>4, RenameCarries
<1>4. CASE MarkItemFailed \/ MarkItemDone
  <2>1. /\ run.file \in Files /\ run.op \in OpIds /\ SameRows(run.op, run.file)
        /\ items'[run.op][run.file].expected = items[run.op][run.file].expected
        /\ UNCHANGED <<disk, ops>>
    BY <1>4, MarkItemEffect DEF diskVars
  <2>2. Interrupted' = Interrupted
    BY <2>1 DEF Interrupted
  <2> QED
    BY <2>1, <2>2, ExpectedType, RowChanges
<1>5. CASE FinishMove
  <2>1. UNCHANGED <<disk, items>> /\ Interrupted' = Interrupted \ {run.op}
    BY <1>5, FinishMoveEffect DEF diskVars
  <2> QED
    BY <2>1, RowsStay
<1>6. CASE \/ MoveRefused \/ InsertEntry \/ RecordCleanup \/ RemoveFolder
           \/ RemoveFolderRefused \/ RecordCleanupOutcome
  <2>1. UNCHANGED <<disk, items, ops>>
    BY <1>6 DEF MoveRefused, InsertEntry, RecordCleanup, RemoveFolder,
       RemoveFolderRefused, RecordCleanupOutcome, diskVars, journalVars
  <2>2. Interrupted' = Interrupted
    BY <2>1 DEF Interrupted
  <2> QED
    BY <2>1, <2>2, RowsStay
<1> QED
  BY <1>1, <1>2, <1>3, <1>4, <1>5, <1>6 DEF QuarantineStep

\* A restore carries its object out and lets go of it when it ends.
LEMMA PromiseRestore ==
  ASSUME IInv, TrackInv, RestoreStep
  PROVE  HandsOver \/ Carries
<1>1. CASE MoveToDestination
  <2>1. /\ run.pc = "r_rename" /\ run.op \in OpIds
        /\ Rename(RestoreSource(run.op), ops[run.op].dest)
        /\ RestoreSource(run.op) \in Paths /\ ops[run.op].dest \in Paths
        /\ RestoreSource(run.op) # ops[run.op].dest
        /\ UNCHANGED <<ops, items>>
    BY <1>1, RestoreMoveEffect
  <2>2. run.op \in Interrupted /\ run.file \in Files
    BY <2>1 DEF IInv, RunInv, ForwardPcs, RestorePcs, FilePcs
  <2>3. /\ Open(run.op, run.file)
        /\ disk[RestoreSource(run.op)] = items[run.op][run.file].expected
    BY <2>1 DEF TrackInv, RestoringInv, Open
  <2>4. disk[RestoreSource(run.op)] = None \/ disk[RestoreSource(run.op)] \in InHand
    BY <2>1, <2>2, <2>3, RowInHand, ExpectedType
  <2> QED
    BY <2>1, <2>4, RenameCarries
<1>2. CASE RecordResult \/ MarkRestoreItemDone \/ MarkRestoreItemFailed
  <2>1. /\ run.op \in OpIds /\ run.file \in Files /\ SameRows(run.op, run.file)
        /\ items'[run.op][run.file].expected = items[run.op][run.file].expected
        /\ UNCHANGED <<disk, ops>>
    BY <1>2, RestoreRowEffect DEF diskVars
  <2>2. Interrupted' = Interrupted
    BY <2>1 DEF Interrupted
  <2> QED
    BY <2>1, <2>2, ExpectedType, RowChanges
<1>3. CASE FinishRestore \/ FailRestore
  <2>1. UNCHANGED <<disk, items>> /\ Interrupted' = Interrupted \ {run.op}
    BY <1>3, FinishRestoreEffect DEF diskVars
  <2> QED
    BY <2>1, RowsStay
<1>4. CASE MarkVerifying
  <2>1. run.pc = "r_verifying" /\ SetStatus(run.op, "verifying") /\ UNCHANGED <<disk, items>>
    BY <1>4 DEF MarkVerifying, diskVars
  <2>2. run.op \in Interrupted /\ run.op \in OpIds
    BY <2>1 DEF IInv, RunInv, ForwardPcs, RestorePcs, Interrupted
  <2>3. "verifying" \in OpStatuses /\ "verifying" \in InFlight /\ ops \in [OpIds -> OpRows]
    BY DEF OpStatuses, InFlight, IInv, TypeOK, JournalTypeOK
  <2>4. Interrupted' = Interrupted \cup {run.op}
    BY <2>1, <2>2, <2>3, StatusFacts
  <2> QED
    BY <2>1, <2>2, <2>4, RowsStay
<1>5. CASE RestoreRefused \/ MarkEntryRestored
  <2>1. UNCHANGED <<disk, items, ops>>
    BY <1>5 DEF RestoreRefused, MarkEntryRestored, diskVars, journalVars
  <2>2. Interrupted' = Interrupted
    BY <2>1 DEF Interrupted
  <2> QED
    BY <2>1, <2>2, RowsStay
<1> QED
  BY <1>1, <1>2, <1>3, <1>4, <1>5 DEF RestoreStep

\* A move starts with empty hands, a restore with its object in hand.
LEMMA PromiseRequest ==
  ASSUME IInv, TrackInv, Request
  PROVE  HandsOver
<1>n. \A o \in OpIds, f \in Files : ops[o].kind = "none" => ~Open(o, f)
  BY DEF TrackInv, RowsInv, NoItem, Open
<1>1. ASSUME NEW S \in SUBSET Files, BackupStart(S)
      PROVE  HandsOver
  <2>1. UNCHANGED <<disk, items, ops>>
    BY <1>1 DEF BackupStart, diskVars
  <2>2. Interrupted' = Interrupted
    BY <2>1 DEF Interrupted
  <2> QED
    BY <2>1, <2>2, RowsStay
<1>2. ASSUME NEW o \in OpIds, NEW S \in SUBSET Files, NEW p \in BOOLEAN,
             NEW c \in BOOLEAN, MoveStart(o, S, p, c)
      PROVE  HandsOver
  <2>1. ops[o].kind = "none" /\ Interrupted' = {o} /\ UNCHANGED <<disk, items>>
    BY <1>2, MoveStartEffect DEF diskVars
  <2>2. InHand' = {}
    BY <2>1, <1>n DEF InHand, Open
  <2> QED
    BY <2>1, <2>2 DEF HandsOver
<1>3. ASSUME NEW r \in OpIds, NEW o \in OpIds, NEW f \in Files,
             NEW dest \in {Orig(f), Folder(f)}, RestoreStart(r, o, f, dest)
      PROVE  HandsOver
  <2>1. /\ ops[r].kind = "none" /\ Interrupted = {} /\ Interrupted' = {r}
        /\ items[o][f].result # None /\ disk[Held(o, f)] = items[o][f].result
        /\ items'[r][f].expected = items[o][f].result /\ SameRows(r, f)
        /\ UNCHANGED disk
    BY <1>3, RestoreStartEffect DEF diskVars
  <2>2. InHand = {}
    BY <2>1 DEF InHand
  <2>3. items[o][f].result \in Objects
    <3>1. Held(o, f) \in Paths
      BY HeldPathFacts
    <3> QED
      BY <2>1, <3>1 DEF IInv, TypeOK, JournalTypeOK
  <2>4. \A g \in Files : g # f => ~Open(r, g)'
    BY <2>1, <1>n DEF SameRows, Open
  <2>5. InHand' \subseteq {items[o][f].result}
    BY <2>1, <2>4 DEF InHand
  <2> QED
    BY <2>1, <2>2, <2>3, <2>5 DEF HandsOver
<1> QED
  BY <1>1, <1>2, <1>3 DEF Request

\* Recovery carries objects back and lets go of each row it settles.
LEMMA PromiseReversal ==
  ASSUME IInv, TrackInv,
         \/ \E f \in Files : \/ ReturnHeld(f) \/ AlreadyReturned(f)
                             \/ ExposeHeldCopy(f) \/ LeaveUnresolved(f)
                             \/ ReconcileEntry(f) \/ EntryWithoutProof(f)
                             \/ ItemProbeFails(f) \/ EntryProbeFails(f)
         \/ MarkReturned \/ MarkExposed \/ ItemsDone
         \/ KeepInterrupted \/ RollBackCleanup \/ CloseRolledBack
  PROVE  HandsOver \/ Carries
<1>1. ASSUME NEW f \in Files, ReturnHeld(f)
      PROVE  Carries
  <2>1. /\ run.pc = "v_item" /\ f \in run.todo /\ run.op \in OpIds
        /\ ToMatches(run.op, f) /\ Rename(Held(run.op, f), Orig(f))
        /\ UNCHANGED <<ops, items>>
    BY <1>1, ReturnEffect
  <2>2. run.op \in Interrupted /\ Open(run.op, f)
    BY <2>1 DEF TrackInv, ReverseInv, ReversalPcs, Returning
  <2>3. items[run.op][f].result \in {None, items[run.op][f].expected}
    BY <2>1 DEF TrackInv, RowsInv
  <2>4. disk[Held(run.op, f)] = items[run.op][f].expected
    BY <2>1, <2>3 DEF ToMatches, PathMatches, ExpectedHeld
  <2>5. disk[Held(run.op, f)] = None \/ disk[Held(run.op, f)] \in InHand
    BY <2>1, <2>2, <2>4, RowInHand, ExpectedType
  <2>6. Held(run.op, f) \in Paths /\ Orig(f) \in Paths /\ Orig(f) # Held(run.op, f)
    BY <2>1, HeldPathFacts
  <2> QED
    BY <2>1, <2>5, <2>6, RenameCarries
<1>2. ASSUME NEW f \in Files,
             \/ MarkReturned /\ f = run.file
             \/ MarkExposed /\ f = run.file
             \/ AlreadyReturned(f)
      PROVE  HandsOver
  <2>1. /\ run.op \in OpIds /\ SameRows(run.op, f)
        /\ items'[run.op][f].expected = items[run.op][f].expected
        /\ UNCHANGED <<disk, ops>>
    BY <1>2, SettledRowEffect DEF RowGets, diskVars
  <2>2. Interrupted' = Interrupted
    BY <2>1 DEF Interrupted
  <2> QED
    BY <2>1, <2>2, ExpectedType, RowChanges
<1>3. CASE MarkReturned \/ MarkExposed
  <2>1. run.file \in Files
    BY <1>3 DEF MarkReturned, MarkExposed, IInv, RunInv, FilePcs
  <2> QED
    BY <1>2, <1>3, <2>1
<1>4. ASSUME NEW f \in Files,
             \/ LeaveUnresolved(f) \/ ItemProbeFails(f)
             \/ EntryWithoutProof(f) \/ EntryProbeFails(f)
      PROVE  HandsOver
  <2>1. UNCHANGED <<disk, items>> /\ Interrupted' = Interrupted
    BY <1>4, UnresolvedEffect DEF diskVars
  <2> QED
    BY <2>1, RowsStay
<1>5. CASE CloseRolledBack
  <2>1. UNCHANGED <<disk, items>> /\ Interrupted' = Interrupted \ {run.op}
    BY <1>5, CloseEffect DEF diskVars
  <2> QED
    BY <2>1, RowsStay
<1>6. CASE \/ \E f \in Files : ExposeHeldCopy(f) \/ ReconcileEntry(f)
           \/ ItemsDone \/ KeepInterrupted \/ RollBackCleanup
  <2>1. UNCHANGED <<disk, items, ops>>
    BY <1>6 DEF ExposeHeldCopy, ReconcileEntry, ItemsDone, KeepInterrupted,
       RollBackCleanup, diskVars, journalVars
  <2>2. Interrupted' = Interrupted
    BY <2>1 DEF Interrupted
  <2> QED
    BY <2>1, <2>2, RowsStay
<1> QED
  BY <1>1, <1>2, <1>3, <1>4, <1>5, <1>6

\* Recovery of a restore moves nothing.
LEMMA PromiseSettling ==
  ASSUME IInv, TrackInv,
         \/ RecoverBegin \/ RecoverFinish \/ RecoverReturn
         \/ \E o \in OpIds : \/ RecoverOperation(o) \/ SurfaceRestore(o)
                             \/ SettleRestore(o) \/ RestoreProbeFails(o)
         \/ SettleEntry \/ SettleItem \/ SettleOperation
  PROVE  HandsOver
<1>1. CASE SettleItem
  <2>1. /\ run.op \in OpIds /\ run.file \in Files /\ SameRows(run.op, run.file)
        /\ items'[run.op][run.file].expected = items[run.op][run.file].expected
        /\ UNCHANGED <<disk, ops>>
    BY <1>1, SettleItemEffect DEF RowGets, diskVars
  <2>2. Interrupted' = Interrupted
    BY <2>1 DEF Interrupted
  <2> QED
    BY <2>1, <2>2, ExpectedType, RowChanges
<1>2. CASE SettleOperation
  <2>1. UNCHANGED <<disk, items>> /\ Interrupted' = Interrupted \ {run.op}
    BY <1>2, SettleOperationEffect DEF diskVars
  <2> QED
    BY <2>1, RowsStay
<1>3. ASSUME NEW r \in OpIds, SurfaceRestore(r) \/ RestoreProbeFails(r)
      PROVE  HandsOver
  <2>1. UNCHANGED <<disk, items>> /\ Interrupted' = Interrupted
    BY <1>3, SurfaceEffect DEF diskVars
  <2> QED
    BY <2>1, RowsStay
<1>4. CASE \/ RecoverBegin \/ RecoverFinish \/ RecoverReturn \/ SettleEntry
           \/ \E o \in OpIds : RecoverOperation(o) \/ SettleRestore(o)
  <2>1. UNCHANGED <<disk, items, ops>>
    BY <1>4 DEF RecoverBegin, RecoverFinish, RecoverReturn, SettleEntry,
       RecoverOperation, SettleRestore, diskVars, journalVars
  <2>2. Interrupted' = Interrupted
    BY <2>1 DEF Interrupted
  <2> QED
    BY <2>1, <2>2, RowsStay, SMTT(30)
<1> QED
  BY <1>1, <1>2, <1>3, <1>4

\* The user brings and links files outside the holding area.
LEMMA PromiseUser ==
  ASSUME IInv, UserStep, Meddles \subseteq {"create", "link"}, "holding" \notin Reach
  PROVE  Carries \/ Brings
<1>t. disk \in [Paths -> Objects \cup {None}]
  BY DEF IInv, TypeOK, JournalTypeOK
<1>h. InHand' = InHand
  BY DEF UserStep, UserCreates, UserReplaces, UserLinks, UserDeletes, Meddle,
     journalVars, InHand, Open, Interrupted
<1>1. ASSUME NEW p \in Paths, NEW x \in Objects, UserCreates(p, x)
      PROVE  Brings
  <2>1. /\ disk[p] = None /\ x \notin OnDisk /\ disk' = [disk EXCEPT ![p] = x]
        /\ p.at # "holding" /\ \A o \in OpIds, f \in Files : x # items[o][f].expected
    BY <1>1 DEF UserCreates, Meddle, Fresh
  <2>2. x # None
    BY JournalAssumption
  <2>3. OnDisk' = OnDisk \cup {x}
    BY <2>1, <2>2, <1>t DEF OnDisk
  <2>4. \A o \in OpIds, f \in Files : disk'[Held(o, f)] = disk[Held(o, f)]
    <3>1. \A o \in OpIds, f \in Files : Held(o, f) # p
      BY <2>1 DEF Held
    <3>2. \A o \in OpIds, f \in Files : Held(o, f) \in Paths
      BY HeldPathFacts
    <3> QED
      BY <2>1, <3>1, <3>2, <1>t
  <2>5. \A y \in Objects : AtHeld(y)' <=> AtHeld(y)
    BY <2>4 DEF AtHeld
  <2>6. ~AtHeld(x)
    BY <2>1, <2>2, HeldPathFacts DEF AtHeld, OnDisk
  <2>7. x \notin InHand
    BY <2>1 DEF InHand, Interrupted
  <2> QED
    BY <1>h, <2>1, <2>3, <2>5, <2>6, <2>7 DEF Brings
<1>2. ASSUME NEW p \in Paths, NEW q \in Paths, UserLinks(q, p)
      PROVE  Carries
  <2>1. disk[q] # None /\ disk[p] = None /\ disk' = [disk EXCEPT ![p] = disk[q]] /\ p.at # "holding"
    BY <1>2 DEF UserLinks, Meddle
  <2>2. /\ disk'[p] = disk[q] /\ disk'[q] = disk[q]
        /\ \A r \in Paths : r # p => disk'[r] = disk[r]
    BY <2>1, <1>t
  <2>3. OnDisk' = OnDisk
    BY <2>1, <2>2 DEF OnDisk
  <2>4. \A o \in OpIds, f \in Files : Held(o, f) # p
    BY <2>1 DEF Held
  <2>5. \A y \in Objects : AtHeld(y)' <=> AtHeld(y)
    BY <2>2, <2>4, HeldPathFacts DEF AtHeld
  <2> QED
    BY <1>h, <2>3, <2>5 DEF Carries
<1> QED
  BY <1>1, <1>2 DEF UserStep, UserReplaces, UserDeletes, Meddle

\* Every step hands over, carries or brings.
LEMMA PromiseStep ==
  ASSUME "verify" \notin Faults, "holding" \notin Reach,
         Meddles \subseteq {"create", "link"},
         IInv, TrackInv, [Next]_vars
  PROVE  HandsOver \/ Carries \/ Brings
<1>1. CASE Request
  BY <1>1, PromiseRequest
<1>2. CASE QuarantineStep
  BY <1>2, PromiseQuarantine
<1>3. CASE RestoreStep
  BY <1>3, PromiseRestore
<1>4. CASE \/ \E f \in Files : \/ ReturnHeld(f) \/ AlreadyReturned(f)
                               \/ ExposeHeldCopy(f) \/ LeaveUnresolved(f)
                               \/ ReconcileEntry(f) \/ EntryWithoutProof(f)
                               \/ ItemProbeFails(f) \/ EntryProbeFails(f)
           \/ MarkReturned \/ MarkExposed \/ ItemsDone
           \/ KeepInterrupted \/ RollBackCleanup \/ CloseRolledBack
  BY <1>4, PromiseReversal
<1>5. CASE \/ RecoverBegin \/ RecoverFinish \/ RecoverReturn
           \/ \E o \in OpIds : \/ RecoverOperation(o) \/ SurfaceRestore(o)
                               \/ SettleRestore(o) \/ RestoreProbeFails(o)
           \/ SettleEntry \/ SettleItem \/ SettleOperation
  BY <1>5, PromiseSettling
<1>6. CASE Crash \/ UNCHANGED vars
  <2>1. UNCHANGED <<disk, items, ops>>
    BY <1>6 DEF Crash, vars, diskVars, journalVars
  <2>2. Interrupted' = Interrupted
    BY <2>1 DEF Interrupted
  <2> QED
    BY <2>1, <2>2, RowsStay
<1>7. CASE UserStep
  BY <1>7, PromiseUser
<1>9. CASE RecoveryStep
  BY <1>4, <1>5, <1>9 DEF RecoveryStep
<1>10. CASE Fault
  BY <1>2, <1>3, <1>4, <1>5, <1>10 DEF Fault, ProbeFault, QuarantineStep, RestoreStep
<1> QED
  BY <1>1, <1>2, <1>3, <1>6, <1>7, <1>9, <1>10 DEF Next, ProgramStep

\* The journaled executors, their crashes and their recovery do to every
\* object only what the holding area promises, whatever files appear or are
\* linked outside it.
THEOREM ImplementsPromiseTheorem ==
  ASSUME "verify" \notin Faults, "holding" \notin Reach,
         Meddles \subseteq {"create", "link"}
  PROVE  Spec => ImplementsPromise
<1>1. Init => Promise!Init
  <2> SUFFICES ASSUME Init PROVE Promise!Init
    OBVIOUS
  <2>1. PlacesRead
    BY TrackInit, PlaceReads
  <2>2. \A o \in OpIds, f \in Files : disk[Held(o, f)] = None
    BY PathFacts DEF Init, JournalInit, Held
  <2>3. Interrupted = {}
    BY DEF Init, JournalInit, Interrupted, NoOp, InFlight
  <2>4. \A x \in Objects : x \notin InHand /\ ~AtHeld(x)
    BY <2>2, <2>3, JournalAssumption DEF InHand, AtHeld
  <2>5. \A x \in Objects : PlaceOf(x) \in {"absent", "user"}
    BY <2>1, <2>4 DEF PlacesRead
  <2> QED
    BY <2>5 DEF Promise!Init
<1>2. IInv /\ TrackInv /\ [Next]_vars => TrackInv'
  BY TrackStep
<1>3. IInv /\ TrackInv /\ TrackInv' /\ [Next]_vars => [Promise!Next]_places
  <2> SUFFICES ASSUME IInv, TrackInv, TrackInv', [Next]_vars
               PROVE  [Promise!Next]_places
    OBVIOUS
  <2>1. PlacesRead /\ PlacesRead'
    BY PlaceReads, NextPlaceReads
  <2> QED
    BY <2>1, PromiseStep, HandsOverStep, CarriesStep, BringsStep
<1>4. IInv /\ TrackInv /\ TrackInv' /\ [Next]_vars =>
        [Promise!Next]_[x \in Objects |-> PlaceOf(x)]
  BY <1>3 DEF places
<1> QED
  BY <1>1, <1>2, <1>4, TrackInit, Invariance, PTL DEF Spec, ImplementsPromise, Promise!Spec

====
