--------------------------- MODULE MutationJournal ---------------------------
(***************************************************************************)
(* The state the mutation executors share: the local disk, the journal     *)
(* tables that survive a crash, and the volatile state of the one executor *)
(* that may be running.  The executors themselves are in Quarantine,       *)
(* Restore and Recovery; HoldingPipeline composes them.                    *)
(*                                                                         *)
(* An object is what a FileStamp (volume, file id, size) and a BLAKE3      *)
(* content hash tell apart: two files are the same object exactly when     *)
(* bound_fs::path_matches says so.  An edit in place therefore turns a     *)
(* file into another object.  A reviewed file is named by its original     *)
(* path.                                                                   *)
(***************************************************************************)
EXTENDS Naturals, FiniteSets

CONSTANTS Files,       \* the reviewed files of a plan
          Objects,     \* what identity and hash together tell apart
          None,        \* no object, no file, no path
          Protected,   \* files in a protected zone, or sensitive ones
          MaxOps       \* bound: rows the operation table may get

ASSUME JournalAssumption ==
    /\ MaxOps \in Nat
    /\ Protected \subseteq Files
    /\ None \notin Objects
    /\ None \notin Files

VARIABLES disk,      \* the object at each path
          rootDir,   \* whether the target's folder (cleanup_root) exists
          ops,       \* table operation
          items,     \* table operation_item, one row per operation and file
          dirItem,   \* the remove_dir row of each operation
          entries,   \* table quarantine_entry, one row per quarantined file
          backups,   \* the objects each file has a verified backup of
          run        \* the executor that holds the mutation gate

diskVars == <<disk, rootDir>>
journalVars == <<ops, items, dirItem, entries, backups>>

OpIds == 1..MaxOps

(***************************************************************************)
(* Paths: where a file was, where a restore to a folder puts it, and the   *)
(* holding path <root>/op-<id>/<relative> an operation gives it.           *)
(***************************************************************************)
Orig(f)    == [at |-> "original", file |-> f, op |-> 0]
Folder(f)  == [at |-> "folder", file |-> f, op |-> 0]
Held(o, f) == [at |-> "holding", file |-> f, op |-> o]

UserPaths == [at : {"original", "folder"}, file : Files, op : {0}]
HeldPaths == [at : {"holding"}, file : Files, op : OpIds]
Paths == UserPaths \cup HeldPaths

NoPath == [at |-> "nowhere", file |-> None, op |-> 0]

OnDisk == {disk[p] : p \in Paths} \ {None}

(***************************************************************************)
(* Probes.  path_matches opens the file and compares identity, size and    *)
(* hash; a missing file is FALSE.  path_provably_absent is TRUE only for   *)
(* NotFound.  A probe that fails with an I/O error is an action of its own *)
(* in Recovery.                                                            *)
(***************************************************************************)
PathMatches(p, x) == x # None /\ disk[p] = x
PathAbsent(p) == disk[p] = None

\* Mutant of Rename: the rename replaces an occupant of the destination.
RenameReplacing(from, to) ==
    /\ disk' = [disk EXCEPT ![to] = disk[from], ![from] = None]
    /\ rootDir' = (rootDir \/ to.at = "original")

(***************************************************************************)
(* A no-replace rename through the bound handle: prepare_move refuses an   *)
(* occupied destination and creates the missing parents of a free one.     *)
(***************************************************************************)
Rename(from, to) ==
    /\ PathAbsent(to)
    /\ disk' = [disk EXCEPT ![to] = disk[from], ![from] = None]
    /\ rootDir' = (rootDir \/ to.at = "original")

(***************************************************************************)
(* Table rows.                                                             *)
(***************************************************************************)
InFlight == {"executing", "verifying"}
OpKinds == {"none", "quarantine", "restore"}
OpStatuses == {"none", "done", "failed", "rolled_back"} \cup InFlight
OpErrors == {"none", "unproved", "result_missing", "content_mismatch",
             "ambiguous", "move_failed"}
OpRows == [kind : OpKinds, status : OpStatuses, error : OpErrors,
           entry : 0..MaxOps, file : Files \cup {None},
           dest : UserPaths \cup {NoPath}]

NoOp == [kind |-> "none", status |-> "none", error |-> "none",
         entry |-> 0, file |-> None, dest |-> NoPath]

ItemStatuses == {"none", "pending", "done", "failed", "skipped", "rolled_back"}
ItemRows == [status : ItemStatuses, expected : Objects \cup {None},
             result : Objects \cup {None}]

NoItem == [status |-> "none", expected |-> None, result |-> None]

EntryStatuses == {"none", "quarantined", "restored", "restore_content_mismatch"}

(***************************************************************************)
(* The executor.  pc names the statement about to run, bound the path kept *)
(* open through a handle that denies writers, renames and deletes.         *)
(***************************************************************************)
QuarantinePcs == {"q_item", "q_rename", "q_item_done", "q_entry",
                  "q_item_failed", "q_rmdir", "q_rmdir_done", "q_rmdir_failed"}
RestorePcs == {"r_rename", "r_verifying", "r_result", "r_item_done",
               "r_entry", "r_done", "r_item_failed", "r_failed"}
RecoveryPcs == {"v_next", "v_item", "v_returned", "v_exposed", "v_entry",
                "v_close", "v_restore_entry", "v_restore_item",
                "v_restore_op", "v_end"}
Pcs == {"idle"} \cup QuarantinePcs \cup RestorePcs \cup RecoveryPcs

Verdicts == {"none", "completed", "held", "mismatch", "abandoned"}

RunStates == [pc : Pcs, op : 0..MaxOps, todo : SUBSET Files,
              file : Files \cup {None}, bound : Paths \cup {NoPath},
              failed : BOOLEAN, cleanup : BOOLEAN, moved : BOOLEAN,
              skip : SUBSET Files, proof : SUBSET Files,
              resolved : BOOLEAN, seen : SUBSET OpIds, verdict : Verdicts]

Idle == [pc |-> "idle", op |-> 0, todo |-> {}, file |-> None,
         bound |-> NoPath, failed |-> FALSE, cleanup |-> FALSE,
         moved |-> FALSE, skip |-> {}, proof |-> {}, resolved |-> TRUE,
         seen |-> {}, verdict |-> "none"]

JournalTypeOK ==
    /\ disk \in [Paths -> Objects \cup {None}]
    /\ rootDir \in BOOLEAN
    /\ ops \in [OpIds -> OpRows]
    /\ items \in [OpIds -> [Files -> ItemRows]]
    /\ dirItem \in [OpIds -> ItemStatuses]
    /\ entries \in [OpIds -> [Files -> EntryStatuses]]
    /\ backups \in [Files -> SUBSET Objects]
    /\ run \in RunStates

JournalInit ==
    /\ disk \in [Paths -> Objects \cup {None}]
    /\ \A p \in Paths : (disk[p] # None) <=> (p.at = "original")
    /\ \A p, q \in Paths : p # q /\ disk[p] # None => disk[p] # disk[q]
    /\ rootDir = TRUE
    /\ ops = [o \in OpIds |-> NoOp]
    /\ items = [o \in OpIds |-> [f \in Files |-> NoItem]]
    /\ dirItem = [o \in OpIds |-> "none"]
    /\ entries = [o \in OpIds |-> [f \in Files |-> "none"]]
    /\ backups = [f \in Files |-> {}]
    /\ run = Idle

(***************************************************************************)
(* The gate of every forward mutation: the operation table must hold no    *)
(* interrupted operation (ensure_no_pending_recovery), and the exclusive   *)
(* inventory_mutation_gate admits one executor at a time.                  *)
(***************************************************************************)
Interrupted == {o \in OpIds : ops[o].status \in InFlight}

\* Mutant of MayMutate: the gate looks for operations that were verifying.
MayMutateUnlessVerifying ==
    run.pc = "idle" /\ \A o \in OpIds : ops[o].status # "verifying"

MayMutate == run.pc = "idle" /\ Interrupted = {}

\* The row id SQLite gives the next operation.
IsNextOp(o) ==
    /\ ops[o].kind = "none"
    /\ \A m \in OpIds : m < o => ops[m].kind # "none"

SetStatus(o, s) == ops' = [ops EXCEPT ![o].status = s]
SetItem(o, f, s) == items' = [items EXCEPT ![o][f].status = s]
Goto(pc) == run' = [run EXCEPT !.pc = pc]

=============================================================================
