------------------------------- MODULE Restore -------------------------------
(***************************************************************************)
(* Restore of one held copy, to its original path or to a chosen folder.   *)
(***************************************************************************)
EXTENDS MutationJournal

\* Up to the commit of the intent.  The entry must be listed, its origin row
\* must prove the held identity, and the held copy must still be that object;
\* otherwise nothing is written.
RestoreStart(r, o, f, dest) ==
    /\ MayMutate
    /\ IsNextOp(r)
    /\ entries[o][f] = "quarantined"
    /\ items[o][f].status = "done"
    /\ PathMatches(Held(o, f), items[o][f].result)
    /\ ops' = [ops EXCEPT ![r] = [kind |-> "restore", status |-> "executing",
                                  error |-> "none", entry |-> o, file |-> f,
                                  dest |-> dest]]
    /\ items' = [items EXCEPT ![r][f] = [status |-> "pending",
                                         expected |-> items[o][f].result,
                                         result |-> None]]
    /\ run' = [Idle EXCEPT !.pc = "r_rename", !.op = r, !.file = f,
                           !.bound = Held(o, f)]
    /\ UNCHANGED <<diskVars, dirItem, entries, backups>>

RestoreSource(r) == Held(ops[r].entry, ops[r].file)

MoveToDestination ==
    /\ run.pc = "r_rename"
    /\ Rename(RestoreSource(run.op), ops[run.op].dest)
    /\ run' = [run EXCEPT !.pc = "r_verifying", !.bound = NoPath]
    /\ UNCHANGED journalVars

\* The no-replace rename met an occupant (a conflict), or another failure
\* left the held copy where it was.
RestoreRefused ==
    /\ run.pc = "r_rename"
    /\ run' = [run EXCEPT !.pc = "r_item_failed", !.bound = NoPath]
    /\ UNCHANGED <<diskVars, journalVars>>

\* The rename succeeded and re-reading the renamed file failed.
RestoreUnverified ==
    /\ run.pc = "r_rename"
    /\ Rename(RestoreSource(run.op), ops[run.op].dest)
    /\ run' = [run EXCEPT !.pc = "r_item_failed", !.bound = NoPath]
    /\ UNCHANGED journalVars

MarkVerifying ==
    /\ run.pc = "r_verifying"
    /\ SetStatus(run.op, "verifying")
    /\ Goto("r_result")
    /\ UNCHANGED <<diskVars, items, dirItem, entries, backups>>

\* The destination identity becomes durable only here.
RecordResult ==
    /\ run.pc = "r_result"
    /\ items' = [items EXCEPT ![run.op][run.file].result =
                   items[run.op][run.file].expected]
    /\ Goto("r_item_done")
    /\ UNCHANGED <<diskVars, ops, dirItem, entries, backups>>

MarkRestoreItemDone ==
    /\ run.pc = "r_item_done"
    /\ SetItem(run.op, run.file, "done")
    /\ Goto("r_entry")
    /\ UNCHANGED <<diskVars, ops, dirItem, entries, backups>>

MarkEntryRestored ==
    /\ run.pc = "r_entry"
    /\ entries' = [entries EXCEPT ![ops[run.op].entry][run.file] = "restored"]
    /\ Goto("r_done")
    /\ UNCHANGED <<diskVars, ops, items, dirItem, backups>>

FinishRestore ==
    /\ run.pc = "r_done"
    /\ SetStatus(run.op, "done")
    /\ run' = Idle
    /\ UNCHANGED <<diskVars, items, dirItem, entries, backups>>

MarkRestoreItemFailed ==
    /\ run.pc = "r_item_failed"
    /\ SetItem(run.op, run.file, "failed")
    /\ Goto("r_failed")
    /\ UNCHANGED <<diskVars, ops, dirItem, entries, backups>>

FailRestore ==
    /\ run.pc = "r_failed"
    /\ ops' = [ops EXCEPT ![run.op].status = "failed",
                          ![run.op].error = "move_failed"]
    /\ run' = Idle
    /\ UNCHANGED <<diskVars, items, dirItem, entries, backups>>

RestoreStep ==
    \/ MoveToDestination \/ RestoreRefused
    \/ MarkVerifying \/ RecordResult \/ MarkRestoreItemDone
    \/ MarkEntryRestored \/ FinishRestore
    \/ MarkRestoreItemFailed \/ FailRestore

=============================================================================
