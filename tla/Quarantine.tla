----------------------------- MODULE Quarantine ------------------------------
(***************************************************************************)
(* Backup, and the executor that moves reviewed files into the holding     *)
(* area.  Every journal statement commits on its own, so every statement   *)
(* is a step: a crash may fall between any two.                            *)
(***************************************************************************)
EXTENDS MutationJournal

\* create_backup: a verified copy of every selected file.  Its one statement
\* is the INSERT of the backup row at the end, so a backup that fails or is
\* cut short leaves copies no row names, and no operation: the status
\* backup_running that the queries look for is not written anywhere.
BackupStart(S) ==
    /\ MayMutate
    /\ \A f \in S : disk[Orig(f)] # None
    /\ backups' = [f \in Files |->
                     IF f \in S THEN backups[f] \cup {disk[Orig(f)]}
                                ELSE backups[f]]
    /\ UNCHANGED <<diskVars, ops, items, dirItem, entries, run>>

\* mutation_move_start up to the INSERT of the operation: each file of the
\* plan is covered by a verified backup.
MoveStart(o, S, includeProtected, cleanup) ==
    /\ MayMutate
    /\ IsNextOp(o)
    /\ S # {} /\ \A f \in S : backups[f] # {}
    /\ ops' = [ops EXCEPT ![o].kind = "quarantine", ![o].status = "executing"]
    /\ run' = [Idle EXCEPT !.pc = "q_item", !.op = o, !.todo = S,
                 !.cleanup = cleanup,
                 !.skip = IF includeProtected THEN {} ELSE S \cap Protected]
    /\ UNCHANGED <<diskVars, items, dirItem, entries, backups>>

NextItem(failed, moved) ==
    run' = [run EXCEPT !.pc = "q_item", !.todo = @ \ {run.file},
              !.file = None, !.bound = NoPath,
              !.failed = @ \/ failed, !.moved = @ \/ moved]

\* A protected file the user did not opt into: a noop row, never a move.
SkipProtected(f) ==
    /\ run.pc = "q_item" /\ f \in run.todo \cap run.skip
    /\ SetItem(run.op, f, "skipped")
    /\ run' = [run EXCEPT !.todo = @ \ {f}]
    /\ UNCHANGED <<diskVars, ops, dirItem, entries, backups>>

\* open_for_move, verify_stamp or verify_hash refuses: the file is locked,
\* gone, or no longer the object that was reviewed and backed up.
RefuseSource(f) ==
    /\ run.pc = "q_item" /\ f \in run.todo \ run.skip
    /\ SetItem(run.op, f, "failed")
    /\ run' = [run EXCEPT !.todo = @ \ {f}, !.failed = TRUE]
    /\ UNCHANGED <<diskVars, ops, dirItem, entries, backups>>

\* Mutant of RecordIntent: the source is journaled and moved without being
\* compared with the object the backup covers.
RecordIntentUnverified(f) ==
    /\ run.pc = "q_item" /\ f \in run.todo \ run.skip
    /\ disk[Orig(f)] # None
    /\ items' = [items EXCEPT ![run.op][f] =
                   [status |-> "pending", expected |-> disk[Orig(f)],
                    result |-> None]]
    /\ run' = [run EXCEPT !.pc = "q_rename", !.file = f, !.bound = Orig(f)]
    /\ UNCHANGED <<diskVars, ops, dirItem, entries, backups>>

\* The exact object is bound; its identity and hash are journaled first.
RecordIntent(f) ==
    /\ run.pc = "q_item" /\ f \in run.todo \ run.skip
    /\ disk[Orig(f)] \in backups[f]
    /\ items' = [items EXCEPT ![run.op][f] =
                   [status |-> "pending", expected |-> disk[Orig(f)],
                    result |-> None]]
    /\ run' = [run EXCEPT !.pc = "q_rename", !.file = f, !.bound = Orig(f)]
    /\ UNCHANGED <<diskVars, ops, dirItem, entries, backups>>

\* prepare_move renames and verifies the object through the same handle.
MoveToHolding ==
    /\ run.pc = "q_rename"
    /\ Rename(Orig(run.file), Held(run.op, run.file))
    /\ run' = [run EXCEPT !.pc = "q_item_done", !.bound = NoPath]
    /\ UNCHANGED journalVars

\* prepare_move fails before the rename: the destination is occupied, on
\* another volume, or cannot be created.
MoveRefused ==
    /\ run.pc = "q_rename"
    /\ run' = [run EXCEPT !.pc = "q_item_failed", !.bound = NoPath]
    /\ UNCHANGED <<diskVars, journalVars>>

\* prepare_move fails after the rename: re-reading the stamp or the hash of
\* the renamed file returned an error.
MoveUnverified ==
    /\ run.pc = "q_rename"
    /\ Rename(Orig(run.file), Held(run.op, run.file))
    /\ run' = [run EXCEPT !.pc = "q_item_failed", !.bound = NoPath]
    /\ UNCHANGED journalVars

MarkItemFailed ==
    /\ run.pc = "q_item_failed"
    /\ SetItem(run.op, run.file, "failed")
    /\ NextItem(TRUE, FALSE)
    /\ UNCHANGED <<diskVars, ops, dirItem, entries, backups>>

\* set_bound_item_done: the result identity is that of the renamed handle.
MarkItemDone ==
    /\ run.pc = "q_item_done"
    /\ items' = [items EXCEPT ![run.op][run.file].status = "done",
                              ![run.op][run.file].result =
                                 items[run.op][run.file].expected]
    /\ Goto("q_entry")
    /\ UNCHANGED <<diskVars, ops, dirItem, entries, backups>>

\* Mutant of InsertEntry: the held copy is not listed.
InsertEntryForgotten ==
    /\ run.pc = "q_entry"
    /\ NextItem(FALSE, TRUE)
    /\ UNCHANGED <<diskVars, ops, items, dirItem, entries, backups>>

InsertEntry ==
    /\ run.pc = "q_entry"
    /\ entries' = [entries EXCEPT ![run.op][run.file] = "quarantined"]
    /\ NextItem(FALSE, TRUE)
    /\ UNCHANGED <<diskVars, ops, items, dirItem, backups>>

\* cleanup_empty_dirs, with the target folder standing for the chain of
\* emptied folders: intent first, then the removal, then its outcome.
RecordCleanup ==
    /\ run.pc = "q_item" /\ run.todo = {} /\ run.cleanup /\ run.moved
    /\ dirItem' = [dirItem EXCEPT ![run.op] = "pending"]
    /\ Goto("q_rmdir")
    /\ UNCHANGED <<diskVars, ops, items, entries, backups>>

RemoveFolder ==
    /\ run.pc = "q_rmdir"
    /\ \A f \in Files : disk[Orig(f)] = None
    /\ rootDir' = FALSE
    /\ Goto("q_rmdir_done")
    /\ UNCHANGED <<disk, journalVars>>

RemoveFolderRefused ==
    /\ run.pc = "q_rmdir"
    /\ Goto("q_rmdir_failed")
    /\ UNCHANGED <<diskVars, journalVars>>

RecordCleanupOutcome ==
    /\ run.pc \in {"q_rmdir_done", "q_rmdir_failed"}
    /\ LET failed == run.pc = "q_rmdir_failed"
       IN /\ dirItem' = [dirItem EXCEPT ![run.op] =
                           IF failed THEN "failed" ELSE "done"]
          /\ run' = [run EXCEPT !.pc = "q_item", !.cleanup = FALSE,
                                !.failed = @ \/ failed]
    /\ UNCHANGED <<diskVars, ops, items, entries, backups>>

FinishMove ==
    /\ run.pc = "q_item" /\ run.todo = {} /\ ~(run.cleanup /\ run.moved)
    /\ SetStatus(run.op, IF run.failed THEN "failed" ELSE "done")
    /\ run' = Idle
    /\ UNCHANGED <<diskVars, items, dirItem, entries, backups>>

QuarantineStep ==
    \/ \E f \in Files : \/ SkipProtected(f)
                        \/ RefuseSource(f)
                        \/ RecordIntent(f)
    \/ MoveToHolding \/ MoveRefused
    \/ MarkItemFailed \/ MarkItemDone \/ InsertEntry
    \/ RecordCleanup \/ RemoveFolder \/ RemoveFolderRefused
    \/ RecordCleanupOutcome
    \/ FinishMove

=============================================================================
