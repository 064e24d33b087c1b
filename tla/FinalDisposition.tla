-------------------------- MODULE FinalDisposition ---------------------------
(***************************************************************************)
(* The permanent removal of one topology group of held objects: the parent *)
(* process arms the kernel's delete-on-close of each object in turn, a     *)
(* guardian process per object holds a duplicate of the handle so that the *)
(* death of the parent deletes nothing, and a receipt flushed by the       *)
(* guardian before it lets go is what recovery later believes.             *)
(* dispose_one_guarded, the guardian's exchange loop, and the branch of    *)
(* recovery for the items of a batch.                                      *)
(***************************************************************************)
EXTENDS Naturals, Sequences

CONSTANTS NItems,      \* members of the group, disposed of in this order
          Faults,      \* the calls that may fail
          MaxFaults,   \* bound: failed calls in a behaviour
          MaxCrashes,  \* bound: deaths of the parent process in mid-removal
          MaxKills     \* bound: guardians killed

FaultKinds == {"launch", "db", "send", "arm", "validate", "timeout", "cancel",
               "receipt", "pipe", "cleanup", "probe", "archive"}

ASSUME DispositionAssumption ==
    /\ NItems \in Nat \ {0}
    /\ Faults \subseteq FaultKinds
    /\ MaxFaults \in Nat /\ MaxCrashes \in Nat /\ MaxKills \in Nat

Items == 1..NItems

VARIABLES
    batch, entry, item, opItem, reason, gstate, cleaned,      \* the database
    present, armed, archived, receipt,                        \* the disk
    gphase, gexcl,                                            \* the guardians
    pipe, cmd, reply,                                         \* their channels
    pc, cur, phold, insync, pcancelled, csafe, jfailed,       \* the parent
    gone,                                                     \* the parent died
    faults, crashes, kills

rows == <<entry, item, opItem, reason, gstate, cleaned>>
disk == <<present, armed, archived, receipt>>
guardian == <<gphase, gexcl>>
channel == <<pipe, cmd, reply>>
locals == <<insync, pcancelled, csafe, jfailed>>
bounds == <<faults, crashes, kills>>
vars == <<batch, rows, disk, guardian, channel, pc, cur, phold, locals, gone,
          bounds>>

BatchStates == {"preparing", "parent_disposition", "interrupted", "completed",
                "partial", "failed"}
GuardianStates == {"none", "handle_bound", "arm_authorized_unproved",
                   "armed_unproved", "final_profile_proved_held",
                   "close_authorized", "guardian_handle_closed",
                   "parent_handle_closed", "cancelled_safe",
                   "cancellation_pending_retained"}
CloseStates == {"close_authorized", "guardian_handle_closed",
                "parent_handle_closed"}
\* The phases in which a guardian process has its duplicate of the handle.
Serving == {"bound", "arm_authorized", "profile_proved", "cancellation_pending"}
Holding == Serving \cup {"retaining", "closing"}
Phases == Holding \cup {"none", "dead", "killed"}
Commands == {"arm", "prove", "cancel", "close", "stale"}
Replies == {"none", "ready", "proved", "cancelled", "pending", "refused",
            "closed"}
WorkerPcs == {"launch", "claim", "journal_arm", "send_arm", "await_arm", "arm",
              "journal_armed", "validate", "send_prove", "await_prove",
              "journal_proved", "journal_close", "send_close", "await_close",
              "journal_ack", "close", "mark_parent", "outcome_unknown",
              "success", "cleanup", "journal_cleanup", "cancel",
              "send_cancel", "await_cancel", "journal_cancel", "drop",
              "cancel_cleanup", "record_failure", "hang_up", "terminalize",
              "finalize"}
Pcs == WorkerPcs \cup {"off", "idle", "recover", "recover_cleanup",
                       "recover_settled", "recover_finish"}

TypeOK ==
    /\ batch \in BatchStates
    /\ entry \in [Items -> {"quarantined", "deleting", "permanently_deleted"}]
    /\ item \in [Items -> {"ready", "deleting", "interrupted", "deleted", "blocked"}]
    /\ opItem \in [Items -> {"pending", "deleting", "done", "failed",
                             "rolled_back", "skipped"}]
    /\ reason \in [Items -> {"none", "unproved", "proved"}]
    /\ gstate \in [Items -> GuardianStates]
    /\ cleaned \in [Items -> BOOLEAN]
    /\ present \in [Items -> BOOLEAN] /\ armed \in [Items -> BOOLEAN]
    /\ archived \in [Items -> BOOLEAN]
    /\ receipt \in [Items -> {"none", "empty", "flushed"}]
    /\ gphase \in [Items -> Phases] /\ gexcl \in [Items -> BOOLEAN]
    /\ pipe \in [Items -> BOOLEAN]
    /\ cmd \in [Items -> Seq(Commands)] /\ reply \in [Items -> Replies]
    /\ pc \in Pcs /\ cur \in 0..NItems + 1
    /\ phold \in [Items -> BOOLEAN]
    /\ insync \in BOOLEAN /\ pcancelled \in BOOLEAN
    /\ csafe \in BOOLEAN /\ jfailed \in BOOLEAN /\ gone \in BOOLEAN
    /\ faults \in 0..MaxFaults /\ crashes \in 0..MaxCrashes
    /\ kills \in 0..MaxKills

Init ==
    /\ batch = "preparing"
    /\ entry = [i \in Items |-> "quarantined"]
    /\ item = [i \in Items |-> "ready"]
    /\ opItem = [i \in Items |-> "pending"]
    /\ reason = [i \in Items |-> "none"]
    /\ gstate = [i \in Items |-> "none"]
    /\ cleaned = [i \in Items |-> FALSE]
    /\ present = [i \in Items |-> TRUE] /\ armed = [i \in Items |-> FALSE]
    /\ archived = [i \in Items |-> TRUE]
    /\ receipt = [i \in Items |-> "none"]
    /\ gphase = [i \in Items |-> "none"] /\ gexcl = [i \in Items |-> FALSE]
    /\ pipe = [i \in Items |-> FALSE]
    /\ cmd = [i \in Items |-> <<>>] /\ reply = [i \in Items |-> "none"]
    /\ pc = "launch" /\ cur = 0 /\ phold = [i \in Items |-> TRUE]
    /\ insync = TRUE /\ pcancelled = FALSE /\ csafe = FALSE /\ jfailed = FALSE
    /\ gone = FALSE
    /\ faults = 0 /\ crashes = 0 /\ kills = 0

-----------------------------------------------------------------------------
(* The handles of one object share one kernel file object: arming and      *)
(* cancelling through any of them is seen by all, and the object is        *)
(* deleted when the last of them closes while it is armed.                 *)

Held(i) == phold[i] \/ gphase[i] \in Holding
Gone(i) == gphase[i] \in {"none", "dead", "killed"}

HandlesClose ==
    present' = [i \in Items |->
        present[i] /\ (armed'[i] => phold'[i] \/ gphase'[i] \in Holding)]

\* A call that fails, and one that does not.
Fault(kind) ==
    /\ kind \in Faults /\ faults < MaxFaults
    /\ faults' = faults + 1
    /\ UNCHANGED <<crashes, kills>>
NoFault == UNCHANGED bounds

Goto(next) == pc' = next

\* transition_guardian_state: a compare-and-swap on the guardian row.
Journal(from, to) ==
    /\ gstate[cur] = from
    /\ gstate' = [gstate EXCEPT ![cur] = to]

\* roundtrip: the command goes out, or the write fails with nothing sent.
Send(at, command, await) ==
    /\ pc = at
    /\ UNCHANGED <<batch, rows, disk, guardian, pipe, reply, cur, phold, gone>>
    /\ UNCHANGED locals
    /\ \/ /\ NoFault
          /\ cmd' = [cmd EXCEPT ![cur] = Append(@, command)]
          /\ Goto(await)
       \/ /\ Fault("send")
          /\ Goto("cancel")
          /\ UNCHANGED cmd

\* No answer is coming: the guardian is gone, or it waits for the parent's end.
Unanswered(i) == reply[i] = "none" /\ gphase[i] \notin Serving \cup {"closing"}

Await(at, answer, next) ==
    /\ pc = at
    /\ UNCHANGED <<batch, rows, disk, guardian, pipe, cmd, cur, phold, gone,
                   pcancelled, csafe, jfailed>>
    /\ \/ /\ NoFault /\ reply[cur] # "none"
          /\ reply' = [reply EXCEPT ![cur] = "none"]
          /\ Goto(IF reply[cur] = answer THEN next ELSE "cancel")
          /\ UNCHANGED insync
       \/ /\ IF Unanswered(cur) THEN NoFault
             ELSE reply[cur] = "none" /\ Fault("timeout")
          /\ insync' = FALSE
          /\ Goto("cancel")
          /\ UNCHANGED reply


-----------------------------------------------------------------------------
(* The parent: the worker of the batch.                                    *)

LaunchGuardians ==
    /\ pc = "launch"
    /\ UNCHANGED <<batch, rows, present, armed, archived, gexcl, cmd, reply,
                   cur, gone>>
    /\ UNCHANGED locals
    /\ \/ /\ NoFault
          /\ gphase' = [i \in Items |-> "bound"]
          /\ receipt' = [i \in Items |-> "empty"]
          /\ pipe' = [i \in Items |-> TRUE]
          /\ Goto("claim")
          /\ UNCHANGED phold
       \* Those already launched lose their pipe and exit unarmed.
       \/ /\ Fault("launch")
          /\ phold' = [i \in Items |-> FALSE]
          /\ Goto("terminalize")
          /\ UNCHANGED <<gphase, receipt, pipe>>

\* One transaction binds every guardian and claims every member.  It is the
\* claim with its statement completed: SQLite refuses the source's, see
\* ClaimParses in FinalRemoveBatch and the run claim_statement.
ClaimGroup ==
    /\ pc = "claim"
    /\ UNCHANGED <<disk, guardian, channel, phold, gone>>
    /\ UNCHANGED locals
    /\ \/ /\ NoFault
          /\ batch' = "parent_disposition"
          /\ gstate' = [i \in Items |-> "handle_bound"]
          /\ item' = [i \in Items |-> "deleting"]
          /\ entry' = [i \in Items |-> "deleting"]
          /\ opItem' = [i \in Items |-> "deleting"]
          /\ reason' = [i \in Items |-> "unproved"]
          /\ cleaned' = [i \in Items |-> FALSE]
          /\ cur' = 1 /\ Goto("journal_arm")
       \/ /\ Fault("db")
          /\ Goto("hang_up")
          /\ UNCHANGED <<batch, rows, cur>>

JournalArm ==
    /\ pc = "journal_arm"
    /\ UNCHANGED <<batch, entry, item, opItem, cleaned, armed, archived,
                   receipt, guardian, channel, cur, gone>>
    /\ UNCHANGED locals
    /\ \/ /\ NoFault
          /\ Journal("handle_bound", "arm_authorized_unproved")
          /\ Goto("send_arm")
          /\ UNCHANGED <<reason, phold, present>>
       \/ /\ Fault("db")
          /\ phold' = [phold EXCEPT ![cur] = FALSE]
          /\ HandlesClose
          /\ Goto("hang_up")
          /\ UNCHANGED <<reason, gstate>>

\* A failed arm may have armed all the same.
Arm ==
    /\ pc = "arm"
    /\ UNCHANGED <<batch, rows, present, archived, receipt, guardian, channel,
                   cur, phold, gone>>
    /\ UNCHANGED locals
    /\ \/ /\ NoFault
          /\ armed' = [armed EXCEPT ![cur] = TRUE]
          /\ Goto("journal_armed")
       \/ /\ Fault("arm")
          /\ \E took \in BOOLEAN : armed' = [armed EXCEPT ![cur] = took]
          /\ Goto("cancel")

Validate ==
    /\ pc = "validate"
    /\ UNCHANGED <<batch, rows, disk, guardian, channel, cur, phold, gone>>
    /\ UNCHANGED locals
    /\ \/ /\ NoFault /\ Goto(IF armed[cur] THEN "send_prove" ELSE "cancel")
       \/ /\ Fault("validate") /\ Goto("cancel")

\* A transition of the guardian row whose failure cancels the disposition.
JournalOrCancel(at, from, to, next) ==
    /\ pc = at
    /\ UNCHANGED <<batch, entry, item, opItem, cleaned, disk, guardian,
                   channel, cur, phold, gone>>
    /\ UNCHANGED locals
    /\ \/ /\ NoFault
          /\ Journal(from, to)
          /\ reason' = IF to = "final_profile_proved_held"
                       THEN [reason EXCEPT ![cur] = "proved"] ELSE reason
          /\ Goto(next)
       \/ /\ Fault("db") /\ Goto("cancel") /\ UNCHANGED <<reason, gstate>>

\* The acknowledgement is journaled if it can be; the handle closes anyway.
JournalAck ==
    /\ pc = "journal_ack"
    /\ UNCHANGED <<batch, entry, item, opItem, reason, cleaned, disk, guardian,
                   channel, cur, phold, gone, insync, pcancelled, csafe>>
    /\ Goto("close")
    /\ \/ /\ NoFault
          /\ Journal("close_authorized", "guardian_handle_closed")
          /\ UNCHANGED jfailed
       \/ /\ Fault("db") /\ jfailed' = TRUE /\ UNCHANGED gstate

CloseHandleAs(closed) ==
    /\ pc = "close"
    /\ phold' = [phold EXCEPT ![cur] = ~closed]
    /\ UNCHANGED <<batch, rows, armed, archived, receipt, guardian, channel,
                   cur, gone>>
    /\ UNCHANGED locals
    /\ HandlesClose
    /\ NoFault
    /\ Goto(IF jfailed THEN "outcome_unknown" ELSE "mark_parent")

\* Mutant of CloseHandle: the parent forgets the handle instead of dropping it.
CloseHandleForgotten == CloseHandleAs(FALSE)
CloseHandle == CloseHandleAs(TRUE)

MarkParentClosed ==
    /\ pc = "mark_parent"
    /\ UNCHANGED <<batch, entry, item, opItem, reason, cleaned, disk, guardian,
                   channel, cur, phold, gone>>
    /\ UNCHANGED locals
    /\ \/ /\ NoFault
          /\ Journal("guardian_handle_closed", "parent_handle_closed")
          /\ Goto("success")
       \/ /\ Fault("db") /\ Goto("outcome_unknown") /\ UNCHANGED gstate

\* record_proved_close_outcome_unknown keeps the proved marker.
RecordOutcomeUnknown ==
    /\ pc = "outcome_unknown"
    /\ UNCHANGED <<batch, entry, reason, gstate, cleaned, disk, guardian,
                   channel, cur, phold, gone>>
    /\ UNCHANGED locals
    /\ Goto("hang_up")
    /\ \/ /\ NoFault
          /\ item' = [item EXCEPT ![cur] = "interrupted"]
          /\ opItem' = [opItem EXCEPT ![cur] = "failed"]
       \/ /\ Fault("db") /\ UNCHANGED <<item, opItem>>

RecordSuccess ==
    /\ pc = "success"
    /\ UNCHANGED <<batch, gstate, cleaned, disk, guardian, channel, cur, phold,
                   gone>>
    /\ UNCHANGED locals
    /\ \/ /\ NoFault
          /\ entry[cur] = "deleting" /\ item[cur] = "deleting"
          /\ opItem[cur] = "deleting"
          /\ entry' = [entry EXCEPT ![cur] = "permanently_deleted"]
          /\ item' = [item EXCEPT ![cur] = "deleted"]
          /\ opItem' = [opItem EXCEPT ![cur] = "done"]
          /\ reason' = [reason EXCEPT ![cur] = "none"]
          /\ Goto("cleanup")
       \/ /\ Fault("db") /\ Goto("hang_up")
          /\ UNCHANGED <<entry, item, opItem, reason>>

\* cleanup_receipt_after_terminal_state: hang up, wait for the guardian to
\* exit, delete the receipt; after a time-out or an error the receipt stays.
CleanupReceipt(at, next) ==
    /\ pc = at
    /\ pipe' = [pipe EXCEPT ![cur] = FALSE]
    /\ UNCHANGED <<batch, rows, present, armed, archived, guardian, cmd, reply,
                   cur, phold, gone>>
    /\ UNCHANGED locals
    /\ Goto(next)
    /\ \/ /\ NoFault /\ Gone(cur)
          /\ receipt' = [receipt EXCEPT ![cur] = "none"]
       \/ /\ Fault("cleanup") /\ UNCHANGED receipt

JournalCleanupThen(goOn) ==
    /\ pc = "journal_cleanup"
    /\ UNCHANGED <<batch, entry, item, opItem, reason, gstate, disk, guardian,
                   channel, phold, gone>>
    /\ \/ /\ NoFault
          /\ cleaned' = [cleaned EXCEPT ![cur] = receipt[cur] = "none"]
          /\ IF goOn /\ cur < NItems
             THEN /\ cur' = cur + 1 /\ Goto("journal_arm")
                  /\ insync' = TRUE
                  /\ UNCHANGED <<pcancelled, csafe, jfailed>>
             ELSE Goto("hang_up") /\ UNCHANGED cur /\ UNCHANGED locals
       \/ /\ Fault("db") /\ Goto("hang_up") /\ UNCHANGED <<cleaned, cur>>
          /\ UNCHANGED locals

\* Mutant of JournalCleanup: a cancelled member does not stop the group.
JournalCleanupGoesOn == JournalCleanupThen(TRUE)
\* The worker goes on to the next member only after a deletion it recorded.
JournalCleanup == JournalCleanupThen(item[cur] = "deleted")

-----------------------------------------------------------------------------
(* cancel_guarded_disposition: both processes try to cancel; what is       *)
(* recorded depends on the guardian's answer, what is closed on either.    *)

Cancel ==
    /\ pc = "cancel"
    /\ UNCHANGED <<batch, rows, present, archived, receipt, guardian, channel,
                   cur, phold, gone, insync, csafe, jfailed>>
    /\ Goto("send_cancel")
    /\ \/ /\ NoFault
          /\ armed' = [armed EXCEPT ![cur] = FALSE]
          /\ pcancelled' = TRUE
       \/ /\ Fault("cancel") /\ pcancelled' = FALSE /\ UNCHANGED armed

\* The sequence number did not advance past an exchange that timed out, so
\* the guardian takes the frame for an out-of-order one.
SendCancel ==
    /\ pc = "send_cancel"
    /\ UNCHANGED <<batch, rows, disk, guardian, pipe, reply, cur, phold, gone>>
    /\ UNCHANGED locals
    /\ \/ /\ NoFault
          /\ cmd' = [cmd EXCEPT ![cur] =
                        Append(@, IF insync THEN "cancel" ELSE "stale")]
          /\ Goto("await_cancel")
       \/ /\ Fault("send") /\ Goto("journal_cancel") /\ UNCHANGED cmd

AwaitCancel ==
    /\ pc = "await_cancel"
    /\ UNCHANGED <<batch, rows, disk, guardian, pipe, cmd, cur, phold, gone,
                   pcancelled, jfailed, insync>>
    /\ Goto("journal_cancel")
    /\ \/ /\ NoFault /\ insync /\ reply[cur] # "none"
          /\ csafe' = (reply[cur] = "cancelled")
          /\ reply' = [reply EXCEPT ![cur] = "none"]
       \/ /\ IF Unanswered(cur) \/ ~insync THEN NoFault
             ELSE reply[cur] = "none" /\ Fault("timeout")
          /\ csafe' = FALSE /\ UNCHANGED reply

JournalCancelAs(safe) ==
    /\ pc = "journal_cancel"
    /\ UNCHANGED <<batch, entry, item, opItem, reason, cleaned, disk, guardian,
                   channel, cur, phold, gone, insync, pcancelled, csafe>>
    /\ Goto("drop")
    /\ \/ /\ NoFault
          /\ gstate' = [gstate EXCEPT ![cur] =
                IF csafe THEN safe
                ELSE "cancellation_pending_retained"]
          /\ UNCHANGED jfailed
       \/ /\ Fault("db") /\ jfailed' = TRUE /\ UNCHANGED gstate

JournalCancel == JournalCancelAs("cancelled_safe")

\* With neither cancellation proved the handle is leaked, never closed.
DropHandle ==
    /\ pc = "drop"
    /\ phold' = [phold EXCEPT ![cur] = ~(csafe \/ pcancelled)]
    /\ UNCHANGED <<batch, rows, armed, archived, receipt, guardian, channel,
                   cur, gone>>
    /\ UNCHANGED locals
    /\ HandlesClose
    /\ NoFault
    /\ Goto(IF csafe THEN "cancel_cleanup" ELSE "record_failure")

\* record_delete_failure: the entry stays claimed, the proof marker is reset.
RecordFailure ==
    /\ pc = "record_failure"
    /\ UNCHANGED <<batch, entry, gstate, cleaned, disk, guardian, channel, cur,
                   phold, gone>>
    /\ UNCHANGED locals
    /\ \/ /\ NoFault
          /\ item' = [item EXCEPT ![cur] = "interrupted"]
          /\ opItem' = [opItem EXCEPT ![cur] = "failed"]
          /\ reason' = [reason EXCEPT ![cur] = "unproved"]
          /\ Goto(IF csafe /\ ~jfailed THEN "journal_cleanup" ELSE "hang_up")
       \/ /\ Fault("db") /\ Goto("hang_up")
          /\ UNCHANGED <<item, opItem, reason>>

\* The remaining members are dropped: unarmed handles, closed pipes.
HangUp ==
    /\ pc = "hang_up"
    /\ phold' = [i \in Items |-> i = cur /\ phold[i]]
    /\ pipe' = [i \in Items |-> FALSE]
    /\ UNCHANGED <<batch, rows, armed, archived, receipt, guardian, cmd, reply,
                   cur, gone>>
    /\ UNCHANGED locals
    /\ HandlesClose
    /\ NoFault
    /\ Goto("terminalize")

\* A journal error here ends the worker without a verdict.
Terminalize ==
    /\ pc = "terminalize"
    /\ UNCHANGED <<batch, entry, reason, gstate, cleaned, disk, guardian,
                   channel, cur, phold, gone>>
    /\ UNCHANGED locals
    /\ \/ /\ NoFault
          /\ item' = [i \in Items |->
                        IF item[i] = "ready" THEN "blocked" ELSE item[i]]
          /\ opItem' = [i \in Items |->
                          IF item[i] = "ready" THEN "skipped" ELSE opItem[i]]
          /\ Goto("finalize")
       \/ /\ Fault("db") /\ Goto("idle") /\ UNCHANGED <<item, opItem>>

VerdictWith(closed) ==
    IF \E i \in Items : item[i] \notin closed THEN "interrupted"
    ELSE IF \A i \in Items : item[i] = "deleted" THEN "completed"
    ELSE IF \E i \in Items : item[i] = "deleted" THEN "partial"
    ELSE "failed"

\* Mutant of Verdict: an interrupted member counts as closed.
VerdictOverlooking == VerdictWith({"deleted", "blocked", "interrupted"})
\* The verdict on a batch, of the worker and of recovery alike.
Verdict == VerdictWith({"deleted", "blocked"})

Finalize ==
    /\ pc = "finalize"
    /\ UNCHANGED <<rows, disk, guardian, channel, cur, phold, gone>>
    /\ UNCHANGED locals
    /\ Goto("idle")
    /\ \/ /\ NoFault /\ batch' = Verdict
       \/ /\ Fault("db") /\ UNCHANGED batch

WorkerStep ==
    \/ LaunchGuardians \/ ClaimGroup \/ JournalArm
    \/ Send("send_arm", "arm", "await_arm") \/ Await("await_arm", "ready", "arm")
    \/ Arm
    \/ JournalOrCancel("journal_armed", "arm_authorized_unproved",
                       "armed_unproved", "validate")
    \/ Validate
    \/ Send("send_prove", "prove", "await_prove")
    \/ Await("await_prove", "proved", "journal_proved")
    \/ JournalOrCancel("journal_proved", "armed_unproved",
                       "final_profile_proved_held", "journal_close")
    \/ JournalOrCancel("journal_close", "final_profile_proved_held",
                       "close_authorized", "send_close")
    \/ Send("send_close", "close", "await_close")
    \/ Await("await_close", "closed", "journal_ack")
    \/ JournalAck \/ CloseHandle \/ MarkParentClosed \/ RecordOutcomeUnknown
    \/ RecordSuccess \/ CleanupReceipt("cleanup", "journal_cleanup")
    \/ JournalCleanup
    \/ Cancel \/ SendCancel \/ AwaitCancel \/ JournalCancel \/ DropHandle
    \/ CleanupReceipt("cancel_cleanup", "record_failure") \/ RecordFailure
    \/ HangUp \/ Terminalize \/ Finalize

-----------------------------------------------------------------------------
(* A guardian.  A reply that cannot be written ends the exchange, and any  *)
(* end of the exchange after the parent was told it may arm is retention.  *)

Receive(i, command) ==
    /\ cmd[i] = <<command>>
    /\ cmd' = [cmd EXCEPT ![i] = <<>>]

Answer(i, phase, r) ==
    /\ gphase' = [gphase EXCEPT ![i] = IF pipe[i] THEN phase ELSE "retaining"]
    /\ reply' = [reply EXCEPT ![i] = IF pipe[i] THEN r ELSE @]

GuardianFrame ==
    UNCHANGED <<batch, rows, archived, pipe, pc, cur, phold, locals, gone>>

GuardianAllowsArm(i) ==
    /\ gphase[i] = "bound" /\ Receive(i, "arm")
    /\ Answer(i, "arm_authorized", "ready")
    /\ UNCHANGED <<gexcl, present, armed, receipt>> /\ NoFault /\ GuardianFrame

GuardianProves(i) ==
    /\ gphase[i] = "arm_authorized" /\ Receive(i, "prove")
    /\ gexcl' = [gexcl EXCEPT ![i] = TRUE]
    /\ UNCHANGED <<present, armed, receipt>> /\ GuardianFrame
    /\ \/ /\ NoFault
          /\ IF armed[i] THEN Answer(i, "profile_proved", "proved")
             ELSE Answer(i, "arm_authorized", "refused")
       \/ Fault("validate") /\ Answer(i, "arm_authorized", "refused")

GuardianCancels(i) ==
    /\ gphase[i] \in Serving /\ Receive(i, "cancel")
    /\ UNCHANGED receipt /\ GuardianFrame
    /\ \/ /\ NoFault
          /\ armed' = [armed EXCEPT ![i] = FALSE]
          /\ gphase' = [gphase EXCEPT ![i] = "dead"]
          /\ reply' = [reply EXCEPT ![i] = IF pipe[i] THEN "cancelled" ELSE @]
          /\ HandlesClose
          /\ UNCHANGED gexcl
       \/ /\ Fault("cancel")
          /\ gexcl' = [gexcl EXCEPT ![i] = TRUE]
          /\ Answer(i, "cancellation_pending", "pending")
          /\ UNCHANGED <<present, armed>>

\* The close receipt: flushed before the handle is let go.  A write that
\* fails may have written all of it.
GuardianSignsReceipt(i) ==
    /\ gphase[i] = "profile_proved" /\ Receive(i, "close")
    /\ UNCHANGED <<gexcl, present, armed>> /\ GuardianFrame
    /\ \/ /\ NoFault /\ armed[i]
          /\ receipt' = [receipt EXCEPT ![i] = "flushed"]
          /\ gphase' = [gphase EXCEPT ![i] = "closing"]
          /\ UNCHANGED reply
       \/ /\ IF armed[i] THEN Fault("receipt") ELSE NoFault
          /\ \E r \in {"empty", "flushed"} :
               /\ r = "flushed" => armed[i]
               /\ receipt' = [receipt EXCEPT ![i] = r]
          /\ gphase' = [gphase EXCEPT ![i] = "retaining"]
          /\ reply' = [reply EXCEPT ![i] = IF pipe[i] THEN "refused" ELSE @]

GuardianCloses(i) ==
    /\ gphase[i] = "closing"
    /\ gphase' = [gphase EXCEPT ![i] = "dead"]
    /\ reply' = [reply EXCEPT ![i] = IF pipe[i] THEN "closed" ELSE @]
    /\ UNCHANGED <<gexcl, armed, receipt, cmd>> /\ NoFault /\ GuardianFrame
    /\ HandlesClose

LosesChannel(i, phase) ==
    /\ gphase[i] \in Serving
    /\ IF ~pipe[i] \/ (cmd[i] # <<>> /\ (Len(cmd[i]) > 1 \/ cmd[i] = <<"stale">>))
       THEN NoFault ELSE Fault("pipe")
    /\ gphase' = [gphase EXCEPT ![i] = IF @ = "bound" THEN "dead" ELSE phase]
    /\ UNCHANGED <<gexcl, armed, receipt, cmd, reply>> /\ GuardianFrame
    /\ HandlesClose

\* Mutant of GuardianLosesChannel: the guardian exits with its handle.
GuardianExits(i) == LosesChannel(i, "dead")
\* A frame out of order, a second frame behind the first, or no pipe.
GuardianLosesChannel(i) == LosesChannel(i, "retaining")

RetainsUntil(i, noArm) ==
    /\ gphase[i] = "retaining"
    /\ armed' = [armed EXCEPT ![i] = FALSE]
    /\ IF noArm
       THEN gphase' = [gphase EXCEPT ![i] = "dead"]
       ELSE armed[i] /\ UNCHANGED gphase
    /\ UNCHANGED <<present, gexcl, receipt, cmd, reply>> /\ NoFault
    /\ GuardianFrame

\* Mutant of GuardianRetains: one granted cancellation ends the retention.
GuardianRetainsOnce(i) == RetainsUntil(i, TRUE)
\* Cancellation is retried until the kernel grants it.  It ends the retention
\* only when the parent cannot arm any more: it said so, or it is dead.
GuardianRetains(i) == RetainsUntil(i, gexcl[i] \/ gone)

\* The system closes the handles of a killed guardian, armed or not.
GuardianKilled(i) ==
    /\ kills < MaxKills /\ gphase[i] \in Holding
    /\ kills' = kills + 1
    /\ gphase' = [gphase EXCEPT ![i] = "killed"]
    /\ UNCHANGED <<gexcl, armed, receipt, cmd, reply, faults, crashes>>
    /\ GuardianFrame
    /\ HandlesClose

GuardianStep(i) ==
    \/ GuardianAllowsArm(i) \/ GuardianProves(i) \/ GuardianCancels(i)
    \/ GuardianSignsReceipt(i) \/ GuardianCloses(i) \/ GuardianLosesChannel(i)
    \/ GuardianRetains(i)

-----------------------------------------------------------------------------
(* The end of the parent process.  It can be told to quit at any time      *)
(* outside the removal; in the middle of one it dies (Crash).              *)

ParentEnds ==
    /\ pc' = "off" /\ cur' = 0
    /\ phold' = [i \in Items |-> FALSE]
    /\ pipe' = [i \in Items |-> FALSE]
    /\ gone' = TRUE
    /\ insync' = TRUE /\ pcancelled' = FALSE /\ csafe' = FALSE /\ jfailed' = FALSE
    /\ UNCHANGED <<batch, rows, armed, archived, receipt, guardian, cmd, reply>>
    /\ HandlesClose

Quit == pc = "idle" /\ ParentEnds /\ NoFault

Crash ==
    /\ pc \notin {"off", "idle"} /\ crashes < MaxCrashes
    /\ crashes' = crashes + 1
    /\ ParentEnds
    /\ UNCHANGED <<faults, kills>>

Start ==
    /\ pc = "off" /\ Goto("idle")
    /\ UNCHANGED <<batch, rows, disk, guardian, channel, cur, phold, locals,
                   gone>>
    /\ NoFault

-----------------------------------------------------------------------------
(* Recovery of the batch, at the user's answer to the prompt: the members  *)
(* in order, up to the first that stays ambiguous.                         *)

Pending ==
    \/ batch \notin {"completed", "partial", "failed"}
    \/ \E i \in Items : \/ item[i] \notin {"deleted", "blocked"}
                        \/ entry[i] = "deleting"
                        \/ item[i] = "deleted" /\ ~cleaned[i]

RecoverStart ==
    /\ pc = "idle" /\ Pending
    /\ cur' = 1 /\ Goto("recover")
    /\ insync' = TRUE /\ pcancelled' = FALSE /\ csafe' = FALSE /\ jfailed' = FALSE
    /\ UNCHANGED <<batch, rows, disk, guardian, channel, phold, gone>>
    /\ NoFault

\* guardian_close_was_authorized, with the proof marker: what an absent
\* object must show before recovery calls it deleted.
CloseWasAuthorized(i) ==
    /\ gstate[i] \in CloseStates
    /\ receipt[i] = "flushed" /\ ~cleaned[i]
    /\ Gone(i)
    /\ reason[i] = "proved"

RecoveryFrame == UNCHANGED <<batch, disk, guardian, channel, phold, locals, gone>>

NextItem ==
    /\ cur' = cur + 1
    /\ Goto(IF cur < NItems THEN "recover" ELSE "recover_finish")

Ambiguous == Goto("recover_finish") /\ UNCHANGED <<rows, cur>>

\* A member recovery has nothing to decide about, or only a receipt to clean.
RecoverClosed ==
    /\ pc = "recover"
    /\ RecoveryFrame /\ UNCHANGED rows /\ NoFault
    /\ \/ item[cur] = "blocked" /\ NextItem
       \/ /\ item[cur] = "deleted" /\ archived[cur]
          /\ Goto("recover_cleanup") /\ UNCHANGED cur

RecoverUnstarted ==
    /\ pc = "recover" /\ item[cur] = "ready"
    /\ RecoveryFrame
    /\ \/ /\ NoFault
          /\ item' = [item EXCEPT ![cur] = "blocked"]
          /\ opItem' = [opItem EXCEPT ![cur] = "skipped"]
          /\ UNCHANGED <<entry, reason, gstate, cleaned>>
          /\ NextItem
       \/ Fault("db") /\ Ambiguous

Claimed(i) == item[i] \in {"deleting", "interrupted"}

RollBackWhen(found) ==
    /\ pc = "recover" /\ Claimed(cur) /\ archived[cur] /\ found
    /\ RecoveryFrame
    /\ \/ /\ NoFault
          /\ entry[cur] = "deleting" /\ opItem[cur] \in {"deleting", "failed"}
          /\ entry' = [entry EXCEPT ![cur] = "quarantined"]
          /\ item' = [item EXCEPT ![cur] = "blocked"]
          /\ opItem' = [opItem EXCEPT ![cur] = "rolled_back"]
          /\ reason' = [reason EXCEPT ![cur] = "none"]
          /\ UNCHANGED <<gstate, cleaned, cur>>
          /\ Goto("recover_cleanup")
       \/ Fault("db") /\ Ambiguous

\* Mutants of RollBack: the object opens although a guardian holds it; an
\* object that cannot be found counts as there.
RollBackShared == RollBackWhen(present[cur])
RollBackUnchecked == RollBackWhen(~Held(cur))
\* ExactPresent: nobody holds it, so it opens and its bytes are those archived.
RollBack == RollBackWhen(present[cur] /\ ~Held(cur))

SettleAbsent ==
    /\ pc = "recover" /\ Claimed(cur) /\ archived[cur]
    /\ ~present[cur] /\ CloseWasAuthorized(cur)
    /\ RecoveryFrame
    /\ \/ /\ NoFault
          /\ opItem[cur] \in {"deleting", "failed", "done"}
          /\ entry' = [entry EXCEPT ![cur] = "permanently_deleted"]
          /\ item' = [item EXCEPT ![cur] = "deleted"]
          /\ opItem' = [opItem EXCEPT ![cur] = "done"]
          /\ reason' = [reason EXCEPT ![cur] = "none"]
          /\ UNCHANGED <<gstate, cleaned, cur>>
          /\ Goto("recover_settled")
       \/ Fault("db") /\ Ambiguous

\* No bound archive, an object that does not open, one that is absent
\* without the proof of its close, or a probe that fails.
RecoverAmbiguous ==
    /\ pc = "recover" /\ (Claimed(cur) \/ item[cur] = "deleted")
    /\ RecoveryFrame /\ Ambiguous
    /\ IF \/ ~archived[cur]
          \/ /\ Claimed(cur)
             /\ IF present[cur] THEN Held(cur) ELSE ~CloseWasAuthorized(cur)
       THEN NoFault ELSE Fault("probe")

\* A database error nobody handles ends the recovery; the batch row stays.
RecoveryAborts == cur' = 0 /\ Goto("idle")

RecoverCleanupWhen(found) ==
    /\ pc \in {"recover_cleanup", "recover_settled"}
    /\ UNCHANGED <<batch, entry, item, opItem, reason, gstate, present, armed,
                   archived, guardian, channel, phold, locals, gone>>
    /\ \/ /\ NoFault /\ ~cleaned[cur] /\ Gone(cur) /\ found
          /\ receipt' = [receipt EXCEPT ![cur] = "none"]
          /\ cleaned' = [cleaned EXCEPT ![cur] = TRUE]
          /\ NextItem
       \/ /\ IF cleaned[cur] \/ ~Gone(cur) \/ ~found THEN NoFault
             ELSE Fault("cleanup")
          /\ UNCHANGED <<receipt, cleaned>>
          /\ NextItem
       \/ /\ Fault("db") /\ ~cleaned[cur] /\ gstate[cur] # "none"
          /\ \/ Gone(cur) /\ receipt' = [receipt EXCEPT ![cur] = "none"]
             \/ UNCHANGED receipt
          /\ UNCHANGED cleaned
          /\ IF pc = "recover_settled" THEN Goto("recover_finish") /\ UNCHANGED cur
             ELSE RecoveryAborts

\* Mutant of RecoverCleanup: a receipt already deleted is an error each time.
RecoverCleanupFinding == RecoverCleanupWhen(receipt[cur] # "none")
\* cleanup_terminal_guardian_receipt: a receipt that is not there is cleaned,
\* one that cannot be deleted is left to the next run.  When its row cannot be
\* written the error makes a member just settled ambiguous and, after a
\* rollback or for a member settled before, ends the recovery.
RecoverCleanup == RecoverCleanupWhen(TRUE)

RecoverFinish ==
    /\ pc = "recover_finish"
    /\ UNCHANGED <<rows, disk, guardian, channel, phold, locals, gone>>
    /\ \/ /\ batch' = IF cur <= NItems THEN "interrupted" ELSE Verdict
          /\ cur' = 0 /\ Goto("idle")
          /\ NoFault
       \/ Fault("db") /\ UNCHANGED batch /\ RecoveryAborts

RecoveryStep ==
    \/ RecoverStart \/ RecoverClosed \/ RecoverUnstarted \/ RollBack
    \/ SettleAbsent \/ RecoverAmbiguous \/ RecoverCleanup \/ RecoverFinish

\* The worker keeps the archives open; outside it the drive may be taken away.
ArchiveLost(i) ==
    /\ pc \notin WorkerPcs /\ archived[i] /\ Fault("archive")
    /\ archived' = [archived EXCEPT ![i] = FALSE]
    /\ UNCHANGED <<batch, rows, present, armed, receipt, guardian, channel, pc,
                   cur, phold, locals, gone>>

-----------------------------------------------------------------------------
Next ==
    \/ WorkerStep \/ RecoveryStep
    \/ \E i \in Items : GuardianStep(i) \/ GuardianKilled(i) \/ ArchiveLost(i)
    \/ Quit \/ Crash \/ Start

Spec == Init /\ [][Next]_vars

\* Threads and processes run; the kernel grants a cancellation that is asked
\* for again and again; the user answers the prompt, quits and starts again.
FairSpec ==
    /\ Spec
    /\ WF_vars(WorkerStep)
    /\ \A i \in Items : WF_vars(GuardianStep(i))
    /\ WF_vars(RecoveryStep /\ pc # "idle") /\ SF_vars(RecoverStart)
    /\ SF_vars(Quit) /\ WF_vars(Start)

-----------------------------------------------------------------------------
(* Properties.                                                             *)

\* An entry called permanently deleted names an object that is gone, and one
\* that is quarantined - never claimed, or rolled back by recovery - names an
\* object that is there, unarmed, with nobody about to close it armed
\* (record_delete_success, settle_batch_delete_absent and
\* roll_back_batch_delete_intent against what the handles do).
DeletedIsGone == \A i \in Items : entry[i] = "permanently_deleted" => ~present[i]
QuarantinedIsThere ==
    \A i \in Items : entry[i] = "quarantined" => present[i] /\ ~armed[i]

\* The death of the parent alone deletes nothing: as long as an object is
\* armed, either its guardian holds the duplicate, or the close receipt is
\* on the disk, or the guardian was killed (the comment at
\* guardian_retain_until_cancelled names that residue).
ArmIsGuarded ==
    \A i \in Items : armed[i] /\ present[i] =>
        gphase[i] \in Holding \cup {"killed"} \/ receipt[i] = "flushed"

\* An object is gone only by an authorized close: until the deletion is
\* recorded its receipt stays on the disk, whatever was cancelled, cleaned or
\* retried in between, unless a guardian was killed with the object armed.
LossLeavesReceipt ==
    \A i \in Items : ~present[i] /\ entry[i] = "deleting" =>
        receipt[i] = "flushed" \/ gphase[i] = "killed"

\* The members are removed in their order: none is armed before the ones
\* ahead of it are recorded as deleted.
OneAfterAnother ==
    \A i, j \in Items : i < j /\ (armed[j] \/ ~present[j]) =>
        entry[i] = "permanently_deleted"

\* A batch that ended says what happened: completed when all is gone, failed
\* when all is there, and no member still claimed.
BatchRowTruthful ==
    /\ batch \in {"completed", "partial", "failed"} =>
         \A i \in Items : entry[i] # "deleting"
    /\ batch = "completed" => \A i \in Items : ~present[i]
    /\ batch = "failed" => \A i \in Items : present[i]

\* The promise: what the database claims of an object and where it is move
\* together as DispositionPromise says.
Claim(i) ==
    CASE entry[i] = "deleting" -> "deleting"
      [] entry[i] = "permanently_deleted" -> "deleted"
      [] entry[i] = "quarantined" ->
           IF gstate[i] = "none" THEN "held" ELSE "returned"

Promise == INSTANCE DispositionPromise
             WITH claim <- [i \in Items |-> Claim(i)], there <- present

ImplementsPromise == Promise!Spec

\* What recovery can never decide: an archive that is no more, for any member
\* but a blocked one; and an object lost without a receipt (its guardian was
\* killed), or with one that does not count, because both cancellations failed
\* and the row says "retained" or record_delete_failure reset the proof marker.
Undecidable(i) ==
    \/ ~archived[i] /\ item[i] \notin {"ready", "blocked"}
    \/ /\ ~present[i] /\ entry[i] = "deleting"
       /\ \/ receipt[i] # "flushed"
          \/ gstate[i] = "cancellation_pending_retained"
          \/ reason[i] = "unproved"

\* A batch does not block the application for ever: recovery closes it, each
\* claim with the verdict the disk bears out, unless a member is one that
\* recovery can never decide.
BatchCloses == Pending ~> ~Pending \/ \E i \in Items : Undecidable(i)

=============================================================================
