------------------------------ MODULE Recovery -------------------------------
(***************************************************************************)
(* recover_interrupted, run when the user answers the recovery prompt with *)
(* "rollback".  It reverses interrupted quarantines file by file, then     *)
(* reconciles interrupted restores by what is on disk.  Like the           *)
(* executors, it commits every statement on its own.                       *)
(***************************************************************************)
EXTENDS MutationJournal

\* recovery_resolve takes the exclusive gate; it runs whether or not an
\* operation is pending, and with none pending it changes nothing.
RecoverBegin ==
    /\ run.pc = "idle" /\ Interrupted # {}
    /\ run' = [Idle EXCEPT !.pc = "v_next"]
    /\ UNCHANGED <<diskVars, journalVars>>

Pending(kind) == {o \in Interrupted \ run.seen : ops[o].kind = kind}
IsFirst(o, S) == o \in S /\ \A m \in S : o <= m

-----------------------------------------------------------------------------
(* Interrupted quarantines.                                                *)

\* Mutant of RecoverOperation: only pending rows are read.
RecoverOperationPendingOnly(o) ==
    /\ run.pc = "v_next" /\ IsFirst(o, Pending("quarantine"))
    /\ LET rows == {f \in Files : items[o][f].status = "pending"}
       IN run' = [run EXCEPT !.pc = "v_item", !.op = o, !.todo = rows,
                             !.proof = rows, !.resolved = TRUE]
    /\ UNCHANGED <<diskVars, journalVars>>

\* The rows recovery may act on are read once; they are also the proof the
\* entries are judged by afterwards.
RecoverOperation(o) ==
    /\ run.pc = "v_next" /\ IsFirst(o, Pending("quarantine"))
    /\ LET rows == {f \in Files : items[o][f].status \in {"pending", "done"}}
       IN run' = [run EXCEPT !.pc = "v_item", !.op = o, !.todo = rows,
                             !.proof = rows, !.resolved = TRUE]
    /\ UNCHANGED <<diskVars, journalVars>>

ExpectedHeld(o, f) == IF items[o][f].result = None THEN items[o][f].expected
                                                   ELSE items[o][f].result
FromMatches(o, f) == PathMatches(Orig(f), items[o][f].expected)
ToMatches(o, f) == PathMatches(Held(o, f), ExpectedHeld(o, f))

\* A pending move whose destination holds something else proves nothing.
UnprovedOccupant(o, f) ==
    /\ items[o][f].result = None
    /\ ~PathAbsent(Held(o, f))
    /\ ~PathMatches(Held(o, f), items[o][f].expected)

AtItem(f) == run.pc = "v_item" /\ f \in run.todo
ItemSettled(f) == run' = [run EXCEPT !.pc = "v_item", !.todo = @ \ {f},
                                     !.file = None]

ReturnHeld(f) ==
    /\ AtItem(f)
    /\ ~UnprovedOccupant(run.op, f)
    /\ ~FromMatches(run.op, f) /\ ToMatches(run.op, f)
    /\ Rename(Held(run.op, f), Orig(f))
    /\ run' = [run EXCEPT !.pc = "v_returned", !.file = f]
    /\ UNCHANGED journalVars

MarkReturned ==
    /\ run.pc = "v_returned"
    /\ SetItem(run.op, run.file, "rolled_back")
    /\ ItemSettled(run.file)
    /\ UNCHANGED <<diskVars, ops, dirItem, entries, backups>>

\* The file never left, or an earlier pass already brought it back.
AlreadyReturned(f) ==
    /\ AtItem(f)
    /\ ~UnprovedOccupant(run.op, f)
    /\ FromMatches(run.op, f) /\ ~ToMatches(run.op, f)
    /\ SetItem(run.op, f, "rolled_back")
    /\ ItemSettled(f)
    /\ UNCHANGED <<diskVars, ops, dirItem, entries, backups>>

\* Both paths hold the object: neither is touched, the held one is listed.
ExposeHeldCopy(f) ==
    /\ AtItem(f)
    /\ FromMatches(run.op, f) /\ ToMatches(run.op, f)
    /\ entries' = [entries EXCEPT ![run.op][f] = "quarantined"]
    /\ run' = [run EXCEPT !.pc = "v_exposed", !.file = f]
    /\ UNCHANGED <<diskVars, ops, items, dirItem, backups>>

MarkExposed ==
    /\ run.pc = "v_exposed"
    /\ SetItem(run.op, run.file, "done")
    /\ ItemSettled(run.file)
    /\ UNCHANGED <<diskVars, ops, dirItem, entries, backups>>

\* Mutant of Unresolved: the operation is closed all the same.
UnresolvedYetClosed(f) ==
    /\ ops' = [ops EXCEPT ![run.op].error = "unproved"]
    /\ run' = [run EXCEPT !.todo = @ \ {f}]
    /\ UNCHANGED <<items, dirItem, entries, backups>>

Unresolved(f) ==
    /\ ops' = [ops EXCEPT ![run.op].error = "unproved"]
    /\ run' = [run EXCEPT !.todo = @ \ {f}, !.resolved = FALSE]
    /\ UNCHANGED <<items, dirItem, entries, backups>>

LeaveUnresolved(f) ==
    /\ AtItem(f)
    /\ \/ UnprovedOccupant(run.op, f)
       \/ ~FromMatches(run.op, f) /\ ~ToMatches(run.op, f)
       \/ ~FromMatches(run.op, f) /\ ~PathAbsent(Orig(f))
    /\ Unresolved(f)
    /\ UNCHANGED diskVars

\* The way back was renamed and its verification failed.
ReturnUnverified(f) ==
    /\ AtItem(f)
    /\ ~UnprovedOccupant(run.op, f)
    /\ ~FromMatches(run.op, f) /\ ToMatches(run.op, f)
    /\ Rename(Held(run.op, f), Orig(f))
    /\ Unresolved(f)

\* A probe or a bind returned an I/O error.
ItemProbeFails(f) ==
    /\ AtItem(f)
    /\ Unresolved(f)
    /\ UNCHANGED diskVars

ItemsDone ==
    /\ run.pc = "v_item" /\ run.todo = {}
    /\ run' = [run EXCEPT !.pc = "v_entry",
                 !.todo = {f \in Files : entries[run.op][f] = "quarantined"}]
    /\ UNCHANGED <<diskVars, journalVars>>

AtEntry(f) == run.pc = "v_entry" /\ f \in run.todo

\* Mutant of ReconcileEntry: the disk is not looked at.
ReconcileEntryUnchecked(f) ==
    /\ AtEntry(f) /\ f \in run.proof
    /\ entries' = [entries EXCEPT ![run.op][f] = "restored"]
    /\ run' = [run EXCEPT !.todo = @ \ {f}]
    /\ UNCHANGED <<diskVars, ops, items, dirItem, backups>>

\* Mutant of ReconcileEntry: entries of returned files stay listed.
ReconcileEntryForgotten(f) ==
    /\ AtEntry(f) /\ f \in run.proof
    /\ run' = [run EXCEPT !.todo = @ \ {f}]
    /\ UNCHANGED <<diskVars, ops, items, dirItem, entries, backups>>

\* An entry is called restored only when its file is back and its held copy
\* is provably gone.
ReconcileEntry(f) ==
    /\ AtEntry(f) /\ f \in run.proof
    /\ entries' =
         IF FromMatches(run.op, f) /\ PathAbsent(Held(run.op, f))
         THEN [entries EXCEPT ![run.op][f] = "restored"] ELSE entries
    /\ run' = [run EXCEPT !.todo = @ \ {f}]
    /\ UNCHANGED <<diskVars, ops, items, dirItem, backups>>

EntryWithoutProof(f) ==
    /\ AtEntry(f) /\ f \notin run.proof
    /\ Unresolved(f)
    /\ UNCHANGED diskVars

EntryProbeFails(f) ==
    /\ AtEntry(f)
    /\ Unresolved(f)
    /\ UNCHANGED diskVars

OperationSettled == run' = [run EXCEPT !.pc = "v_next", !.seen = @ \cup {run.op}]

KeepInterrupted ==
    /\ run.pc = "v_entry" /\ run.todo = {} /\ ~run.resolved
    /\ OperationSettled
    /\ UNCHANGED <<diskVars, journalVars>>

\* Mutant of RollBackCleanup: the remove_dir row keeps its status.
RollBackCleanupForgotten ==
    /\ run.pc = "v_entry" /\ run.todo = {} /\ run.resolved
    /\ Goto("v_close")
    /\ UNCHANGED <<diskVars, ops, items, dirItem, entries, backups>>

RollBackCleanup ==
    /\ run.pc = "v_entry" /\ run.todo = {} /\ run.resolved
    /\ dirItem' = [dirItem EXCEPT ![run.op] =
                     IF @ \in {"pending", "done"} THEN "rolled_back" ELSE @]
    /\ Goto("v_close")
    /\ UNCHANGED <<diskVars, ops, items, entries, backups>>

CloseRolledBack ==
    /\ run.pc = "v_close"
    /\ SetStatus(run.op, "rolled_back")
    /\ OperationSettled
    /\ UNCHANGED <<diskVars, items, dirItem, entries, backups>>

-----------------------------------------------------------------------------
(* Interrupted restores.                                                   *)

RestoreFinding(r) ==
    LET row      == items[r][ops[r].file]
        held     == Held(ops[r].entry, ops[r].file)
        occupied == ~PathAbsent(ops[r].dest)
        arrived  == PathMatches(ops[r].dest, row.result)
        kept     == PathMatches(held, row.expected)
    IN CASE occupied /\ row.result = None -> "result_missing"
         [] arrived /\ PathAbsent(held)   -> "completed"
         [] OTHER ->
              IF kept THEN "held"
              ELSE IF occupied /\ ~arrived THEN "content_mismatch"
              ELSE "ambiguous"

\* What cannot be settled is recorded and keeps blocking; a mismatch or an
\* ambiguity is settled only by a later pass that finds it recorded.
Surfaced(r) ==
    \/ RestoreFinding(r) = "result_missing"
    \/ /\ RestoreFinding(r) \in {"content_mismatch", "ambiguous"}
       /\ ops[r].error # RestoreFinding(r)

AtRestore(r) ==
    /\ run.pc = "v_next"
    /\ Pending("quarantine") = {}
    /\ IsFirst(r, Pending("restore"))

SurfaceRestore(r) ==
    /\ AtRestore(r) /\ Surfaced(r)
    /\ ops' = [ops EXCEPT ![r].status = "verifying",
                          ![r].error = RestoreFinding(r)]
    /\ run' = [run EXCEPT !.seen = @ \cup {r}]
    /\ UNCHANGED <<diskVars, items, dirItem, entries, backups>>

SettleRestore(r) ==
    /\ AtRestore(r) /\ ~Surfaced(r)
    /\ LET found == RestoreFinding(r)
       IN run' = [run EXCEPT !.op = r, !.file = ops[r].file,
            !.pc = IF found = "ambiguous" THEN "v_restore_op"
                                          ELSE "v_restore_entry",
            !.verdict = CASE found = "completed" -> "completed"
                          [] found = "held" -> "held"
                          [] found = "content_mismatch" -> "mismatch"
                          [] OTHER -> "abandoned"]
    /\ UNCHANGED <<diskVars, journalVars>>

RestoreProbeFails(r) ==
    /\ AtRestore(r)
    /\ ops' = [ops EXCEPT ![r].error = "unproved"]
    /\ run' = [run EXCEPT !.seen = @ \cup {r}]
    /\ UNCHANGED <<diskVars, items, dirItem, entries, backups>>

SettleEntry ==
    /\ run.pc = "v_restore_entry"
    /\ entries' = [entries EXCEPT ![ops[run.op].entry][run.file] =
                     CASE run.verdict = "completed" -> "restored"
                       [] run.verdict = "held" -> "quarantined"
                       [] OTHER -> "restore_content_mismatch"]
    /\ Goto("v_restore_item")
    /\ UNCHANGED <<diskVars, ops, items, dirItem, backups>>

SettleItem ==
    /\ run.pc = "v_restore_item"
    /\ SetItem(run.op, run.file,
               IF run.verdict = "held" THEN "rolled_back" ELSE "done")
    /\ Goto("v_restore_op")
    /\ UNCHANGED <<diskVars, ops, dirItem, entries, backups>>

SettleOperation ==
    /\ run.pc = "v_restore_op"
    /\ SetStatus(run.op, CASE run.verdict = "completed" -> "done"
                           [] run.verdict = "mismatch" -> "failed"
                           [] OTHER -> "rolled_back")
    /\ OperationSettled
    /\ UNCHANGED <<diskVars, items, dirItem, entries, backups>>

RecoverFinish ==
    /\ run.pc = "v_next"
    /\ Pending("quarantine") = {} /\ Pending("restore") = {}
    /\ Goto("v_end")
    /\ UNCHANGED <<diskVars, journalVars>>

RecoverReturn ==
    /\ run.pc = "v_end"
    /\ run' = Idle
    /\ UNCHANGED <<diskVars, journalVars>>

RecoveryStep ==
    \/ RecoverBegin
    \/ \E o \in OpIds : RecoverOperation(o) \/ SurfaceRestore(o) \/ SettleRestore(o)
    \/ \E f \in Files : \/ ReturnHeld(f) \/ AlreadyReturned(f)
                        \/ ExposeHeldCopy(f) \/ LeaveUnresolved(f)
                        \/ ReconcileEntry(f) \/ EntryWithoutProof(f)
    \/ MarkReturned \/ MarkExposed \/ ItemsDone
    \/ KeepInterrupted \/ RollBackCleanup \/ CloseRolledBack
    \/ SettleEntry \/ SettleItem \/ SettleOperation
    \/ RecoverFinish \/ RecoverReturn

=============================================================================
