--------------------------- MODULE HoldingPipeline ---------------------------
(***************************************************************************)
(* Backup, move to holding, restore and recovery together, over one        *)
(* journal and one disk, with crashes, I/O faults and a user who goes on   *)
(* using the disk.                                                         *)
(***************************************************************************)
EXTENDS Quarantine, Restore, Recovery

CONSTANTS CrashPoints,  \* the pcs at which the executor may stop for good
          Faults,       \* subset of {"refuse", "verify", "probe"}
          Meddles,      \* subset of {"create", "replace", "link", "delete"}
          Reach,        \* the kinds of path the user changes
          MaxCrashes,   \* bound: crashes in a behaviour
          MaxMeddling   \* bound: user changes in a behaviour

ASSUME PipelineAssumption ==
    /\ CrashPoints \subseteq Pcs \ {"idle"}
    /\ Faults \subseteq {"refuse", "verify", "probe"}
    /\ Meddles \subseteq {"create", "replace", "link", "delete"}
    /\ Reach \subseteq {"original", "folder", "holding"}
    /\ MaxCrashes \in Nat /\ MaxMeddling \in Nat

VARIABLES crashes, meddling

budget == <<crashes, meddling>>
vars == <<disk, rootDir, ops, items, dirItem, entries, backups, run,
          crashes, meddling>>

TypeOK ==
    /\ JournalTypeOK
    /\ crashes \in 0..MaxCrashes
    /\ meddling \in 0..MaxMeddling

Init == JournalInit /\ crashes = 0 /\ meddling = 0

-----------------------------------------------------------------------------
(* The requests of the desktop: each takes the exclusive gate.             *)
Request ==
    \/ \E S \in SUBSET Files : S # {} /\ BackupStart(S)
    \/ \E o \in OpIds, S \in SUBSET Files, p, c \in BOOLEAN : MoveStart(o, S, p, c)
    \/ \E r, o \in OpIds, f \in Files :
         \E dest \in {Orig(f), Folder(f)} : RestoreStart(r, o, f, dest)

\* A probe of recovery fails: the volume is not there, a file is locked.
ProbeFault ==
    /\ "probe" \in Faults
    /\ \/ \E f \in Files : ItemProbeFails(f) \/ EntryProbeFails(f)
       \/ \E o \in OpIds : RestoreProbeFails(o)

\* Executor steps that an I/O fault causes.
Fault ==
    \/ /\ "refuse" \in Faults
       /\ MoveRefused \/ RestoreRefused
    \/ /\ "verify" \in Faults
       /\ \/ MoveUnverified \/ RestoreUnverified
          \/ \E f \in Files : ReturnUnverified(f)
    \/ ProbeFault

\* The process ends, or a journal statement fails (SQLITE_BUSY beyond the
\* timeout): the executor goes no further, its handles close, and every
\* statement it committed stays.
Crash ==
    /\ run.pc \in CrashPoints
    /\ crashes < MaxCrashes
    /\ crashes' = crashes + 1
    /\ run' = Idle
    /\ UNCHANGED <<diskVars, journalVars, meddling>>

-----------------------------------------------------------------------------
(* The user and other programs, outside the application.                   *)

\* An object never seen before: a new file has an identity of its own.
Fresh(x) ==
    /\ x \notin OnDisk
    /\ \A o \in OpIds, f \in Files : x # items[o][f].expected
    /\ \A f \in Files : x \notin backups[f]

Meddle(kind, p) ==
    /\ kind \in Meddles /\ p.at \in Reach /\ p # run.bound
    /\ meddling < MaxMeddling
    /\ meddling' = meddling + 1
    /\ UNCHANGED <<journalVars, run, crashes>>

UserCreates(p, x) ==
    /\ Meddle("create", p)
    /\ disk[p] = None /\ Fresh(x)
    /\ disk' = [disk EXCEPT ![p] = x]
    /\ rootDir' = (rootDir \/ p.at = "original")

\* An edit in place, or another file put there.
UserReplaces(p, x) ==
    /\ Meddle("replace", p)
    /\ disk[p] # None /\ Fresh(x)
    /\ disk' = [disk EXCEPT ![p] = x]
    /\ UNCHANGED rootDir

\* A hard link: one object at two paths.
UserLinks(p, q) ==
    /\ Meddle("link", q)
    /\ disk[p] # None /\ disk[q] = None
    /\ disk' = [disk EXCEPT ![q] = disk[p]]
    /\ rootDir' = (rootDir \/ q.at = "original")

UserDeletes(p) ==
    /\ Meddle("delete", p)
    /\ disk[p] # None
    /\ disk' = [disk EXCEPT ![p] = None]
    /\ UNCHANGED rootDir

UserStep ==
    \E p \in Paths : \/ \E x \in Objects : UserCreates(p, x) \/ UserReplaces(p, x)
                     \/ \E q \in Paths : UserLinks(q, p)
                     \/ UserDeletes(p)

-----------------------------------------------------------------------------
ProgramStep ==
    /\ QuarantineStep \/ RestoreStep \/ RecoveryStep
    /\ UNCHANGED budget

Next ==
    \/ Request /\ UNCHANGED budget
    \/ Fault /\ UNCHANGED budget
    \/ ProgramStep
    \/ Crash
    \/ UserStep

Spec == Init /\ [][Next]_vars

\* A running executor is never starved, and the user answers the recovery
\* prompt each time it is shown.
FairSpec == Spec /\ WF_vars(ProgramStep)

-----------------------------------------------------------------------------
(* Safety.                                                                 *)

\* At most one operation is unfinished: the pending-recovery check and the
\* exclusive gate never let a mutation stack on an unreconciled one.
OneInterrupted == \A a, b \in Interrupted : a = b

\* No step of the application makes an object vanish from the disk: moves,
\* restores and recovery never overwrite an occupant and never drop a copy.
NothingDestroyed == [][OnDisk \subseteq OnDisk' \/ meddling' # meddling]_vars

\* Whatever lies in the holding area is listed in quarantine_entry, or is
\* named by a row of the unfinished operation that recovery will look at.
HeldIsTracked ==
    \A o \in OpIds, f \in Files :
      disk[Held(o, f)] # None =>
        \/ entries[o][f] = "quarantined"
        \/ o \in Interrupted /\ items[o][f].status \in {"pending", "done"}

\* With no operation unfinished, each listed entry can be restored: its held
\* copy is there and is the object its origin row proves.
ListedIsRestorable ==
    Interrupted = {} =>
      \A o \in OpIds, f \in Files :
        entries[o][f] = "quarantined" =>
          /\ items[o][f].status = "done"
          /\ PathMatches(Held(o, f), items[o][f].result)

\* An entry becomes "restored" only when its object is back at a path of the
\* user's and the holding path is empty, whether the restore itself or the
\* recovery of an interrupted operation says so.
RestoredIsBack ==
    [][\A o \in OpIds, f \in Files :
         entries[o][f] # "restored" /\ entries'[o][f] = "restored" =>
           /\ disk[Held(o, f)] = None
           /\ items[o][f].expected \in {disk[Orig(f)], disk[Folder(f)]}]_vars

\* Every object the application put in the holding area has a verified
\* backup, also after a crash, a rollback and another move.
HeldIsBackedUp ==
    \A o \in OpIds, f \in Files :
      disk[Held(o, f)] # None => disk[Held(o, f)] \in backups[f]

\* The remove_dir row of a closed move is settled, and a rollback that
\* declares the folder's removal undone has brought the folder back.
CleanupRowTruthful ==
    [][\A o \in OpIds :
         ops[o].status \in InFlight /\ ops'[o].status \notin InFlight =>
           /\ dirItem[o] # "pending"
           /\ dirItem[o] = "done" => ops'[o].status # "rolled_back"
           /\ dirItem[o] = "rolled_back" => rootDir]_vars

(***************************************************************************)
(* Where the holding area's promise sees each object.                      *)
(***************************************************************************)
PlaceOf(x) ==
    IF x \notin OnDisk THEN "absent"
    ELSE IF \E o \in Interrupted, f \in Files :
              /\ items[o][f].status \in {"pending", "done"}
              /\ items[o][f].expected = x
    THEN "moving"
    ELSE IF \E o \in OpIds, f \in Files : disk[Held(o, f)] = x
    THEN IF \E o \in OpIds, f \in Files :
              disk[Held(o, f)] = x /\ entries[o][f] = "quarantined"
         THEN "held" ELSE "lost"
    ELSE "user"

Promise == INSTANCE HoldingPromise WITH place <- [x \in Objects |-> PlaceOf(x)]

\* The pipeline implements the promise: an object reaches or leaves the
\* holding area only through an unfinished operation, and rests there listed.
ImplementsPromise == Promise!Spec

-----------------------------------------------------------------------------
(* Liveness.                                                               *)

\* What recovery cannot close.  A restore whose object has arrived and whose
\* result was not recorded: no pass finalises it.  And a move with a row
\* marked rolled back whose entry is still listed: a crash of recovery between
\* these two statements leaves a row that the next pass does not select, so
\* that nothing proves the entry.
Stranded(o) ==
    \/ /\ ops[o].kind = "restore"
       /\ items[o][ops[o].file].result = None
       /\ PathMatches(ops[o].dest, items[o][ops[o].file].expected)
       /\ PathAbsent(RestoreSource(o))
    \/ /\ ops[o].kind = "quarantine"
       /\ \E f \in Files : /\ items[o][f].status = "rolled_back"
                           /\ entries[o][f] = "quarantined"

\* Recovery gets through: an interruption does not block mutations for good,
\* but for the two cases above or a probe that goes on failing where nothing
\* else would have left the row open.
RecoveryConverges ==
    \/ []<>(Interrupted = {})
    \/ <>[](\E o \in Interrupted : Stranded(o))
    \/ []<><<ProbeFault /\ ~ProgramStep>>_vars

-----------------------------------------------------------------------------
(* What comments and documents say, and runs refute.                       *)

(***************************************************************************)
(* hangar-api: executors call an operation failed "only after reconciling  *)
(* their physical outcome (for example, a partial quarantine keeps every   *)
(* moved copy as a visible entry, and a post-move restore warning marks    *)
(* the entry restored)".  Of the two parts, the first is about moves, the  *)
(* second about restores whose object has arrived.                         *)
(***************************************************************************)
FailedIsReconciled ==
    \A o \in OpIds : ops[o].status = "failed" =>
      /\ ops[o].kind = "quarantine" =>
           \A f \in Files :
             disk[Held(o, f)] # None => entries[o][f] = "quarantined"
      /\ /\ ops[o].kind = "restore"
         /\ PathMatches(ops[o].dest, items[o][ops[o].file].expected)
         /\ PathAbsent(RestoreSource(o))
           => entries[ops[o].entry][ops[o].file] # "quarantined"

=============================================================================
