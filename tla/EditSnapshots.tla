--------------------------- MODULE EditSnapshots ---------------------------
(***************************************************************************)
(* In-app edits of one file at a time (hangar-api edit_snapshot.rs) and    *)
(* the previous versions they keep: a save copies the file to a directory  *)
(* of its own beside the database, records the copy, replaces the file by  *)
(* a rename, confirms what it wrote and prunes old versions.  A restore    *)
(* and the undo of an AI session are saves of a recorded version.          *)
(*                                                                         *)
(* Every desktop command runs on a thread of a blocking pool, and the      *)
(* writer a save takes is a database connection of its own, not a lock     *)
(* (hangar-db lib.rs, with_recovery_writer): the calls interleave          *)
(* statement by statement, with each other and with other programs.        *)
(* A step that a failure or a refusal ends before it changed anything      *)
(* that lasts is not an action.                                            *)
(***************************************************************************)
EXTENDS Naturals, FiniteSets, FiniteSetsExt

CONSTANTS
    Files,         \* inventory nodes that resolve to an editable file
    Texts,         \* what a file can hold
    Sessions,      \* ids of AI edit sessions
    Calls,         \* threads of the blocking pool that run commands
    None,          \* no session, no expected text
    PerFile,       \* SNAPSHOTS_PER_FILE, 20 in the code
    GlobalCap,     \* GLOBAL_SNAPSHOT_CAP, 1000 in the code
    Events,        \* what may interfere, of EventKinds
    MaxEvents,     \* bound: interferences
    MaxCopies      \* bound: copies ever made

\* Another program writes the file, a call fails (the rename, a statement, the
\* removal of a copy), the application dies.
EventKinds == {"edit", "rename", "journal", "remove", "crash"}

ASSUME LimitsAssumption ==
    /\ PerFile \in Nat \ {0} /\ GlobalCap \in Nat
    /\ MaxEvents \in Nat /\ MaxCopies \in Nat
    /\ Events \subseteq EventKinds
    /\ None \notin Texts \cup Sessions

VARIABLES
    disk,      \* [Files -> Texts]
    rows,      \* table edit_snapshot: id -> version, as a function on the ids
    vault,     \* directories of copies that exist; each has a number
    made,      \* copies made so far: the last of those numbers
    call,      \* [Calls -> what the thread is doing]
    oldest,    \* history: the first row a file ever had, 0 before
    start,     \* history: the row of a session's first replacement of a file
    trimmed,   \* history: rows the global cap has chosen
    events     \* bound: interferences so far

vars == <<disk, rows, vault, made, call, oldest, start, trimmed, events>>

Version == [file : Files, text : Texts, session : Sessions \cup {None},
            status : {"prepared", "saved"}, dest : Nat]

\* What a thread that runs a command holds: the file, the text to write, the
\* text it read and the one it expected, whether anybody wrote the file since,
\* its copy, its row, and the versions it still has to prune.
Idle == [pc |-> "idle", file |-> None, text |-> None, session |-> None,
         before |-> None, expected |-> None, overtaken |-> FALSE,
         dest |-> 0, id |-> 0, todo |-> {}]

CallStates == {"idle", "load", "copy", "record", "replace", "confirm", "mark",
               "select", "prune", "forget"}

CallRecord ==
    [pc : CallStates, file : Files \cup {None}, text : Texts \cup {None},
     session : Sessions \cup {None}, before : Texts \cup {None},
     expected : Texts \cup {None}, overtaken : BOOLEAN,
     dest : Nat, id : Nat, todo : SUBSET (Nat \X Nat)]

TypeOK ==
    /\ disk \in [Files -> Texts]
    /\ IsFiniteSet(DOMAIN rows) /\ DOMAIN rows \subseteq Nat \ {0}
    /\ rows \in [DOMAIN rows -> Version]
    /\ made \in 0..MaxCopies
    /\ vault \subseteq 1..made
    /\ call \in [Calls -> CallRecord]
    /\ \A c \in Calls :
         /\ call[c].pc \in {"load", "copy", "record", "replace", "confirm"} =>
              call[c].file \in Files /\ call[c].text \in Texts
         /\ call[c].pc \in {"copy", "record"} => call[c].before \in Texts
    /\ oldest \in [Files -> Nat]
    /\ start \in [Sessions \X Files -> Nat]
    /\ trimmed \subseteq Nat
    /\ events \in 0..MaxEvents

Init ==
    /\ disk \in [Files -> Texts]
    /\ rows = [i \in {} |-> None] /\ vault = {} /\ made = 0
    /\ call = [c \in Calls |-> Idle]
    /\ oldest = [f \in Files |-> 0]
    /\ start = [p \in Sessions \X Files |-> 0]
    /\ trimmed = {}
    /\ events = 0

-----------------------------------------------------------------------------
(* Tables *)

\* A rowid table without AUTOINCREMENT: one more than the largest id there.
NextId == 1 + Max(DOMAIN rows \cup {0})

RowsOf(f) == {i \in DOMAIN rows : rows[i].file = f}
SessionRows(x, f) == {i \in RowsOf(f) : rows[i].session = x}

\* What undo looks for: the versions its confirmed edits replaced.
Undoable(x, f) == {i \in SessionRows(x, f) : rows[i].status = "saved"}

Newer(i) == {j \in RowsOf(rows[i].file) : j > i}

EarliestOfFile(i) == i = Min(RowsOf(rows[i].file))

EarliestOfSession(i) ==
    rows[i].session # None /\ i = Min(SessionRows(rows[i].session, rows[i].file))

\* Mutant of Kept: the first version of a session is a version like any other.
KeptButSessions ==
    {i \in DOMAIN rows : Cardinality(Newer(i)) < PerFile \/ EarliestOfFile(i)}

\* The newest of each file, its first, and the first of each session on it.
Kept ==
    {i \in DOMAIN rows : \/ Cardinality(Newer(i)) < PerFile
                         \/ EarliestOfFile(i)
                         \/ EarliestOfSession(i)}

\* The oldest of what is kept, as many as exceed the cap; a file's first
\* version is passed over.
OverCap ==
    LET spare == {i \in Kept : ~EarliestOfFile(i)}
        excess == IF Cardinality(Kept) > GlobalCap
                     THEN Cardinality(Kept) - GlobalCap ELSE 0
    IN  {i \in spare : Cardinality({j \in spare : j < i}) < excess}

Doomed == (DOMAIN rows \ Kept) \cup OverCap

-----------------------------------------------------------------------------
(* Saves *)

\* Mutant of Reads: the expected text is not compared.
ReadsAnything(f, t, expected) == t # disk[f]

\* The part every save has in common: read the file, compare it with the
\* text the change was reviewed against, refuse a change that changes nothing.
Reads(f, t, expected) == expected \in {None, disk[f]} /\ t # disk[f]

Save(f, t, x, expected) ==
    [Idle EXCEPT !.pc = "copy", !.file = f, !.text = t, !.session = x,
                 !.before = disk[f], !.expected = expected]

Becomes(c, state) == call' = [call EXCEPT ![c] = state]
Moves(c, pc) == Becomes(c, [call[c] EXCEPT !.pc = pc])

History == <<oldest, start, trimmed, events>>

\* A reviewed manual change, or a recognised value: the first may come without
\* the text it was reviewed against.
SaveText(c, f, t, expected) ==
    /\ call[c].pc = "idle" /\ made < MaxCopies
    /\ Reads(f, t, expected)
    /\ Becomes(c, Save(f, t, None, expected))
    /\ UNCHANGED <<disk, rows, vault, made, History>>

\* A staged suggestion of an AI session: it names the text it was made for.
ApplySuggestion(c, f, t, x) ==
    /\ call[c].pc = "idle" /\ made < MaxCopies
    /\ Reads(f, t, disk[f])
    /\ Becomes(c, Save(f, t, x, disk[f]))
    /\ UNCHANGED <<disk, rows, vault, made, History>>

\* Reads the record of a version; its copy is read in a later turn.
Restore(c, i) ==
    /\ call[c].pc = "idle" /\ made < MaxCopies
    /\ i \in DOMAIN rows
    /\ Becomes(c, [Idle EXCEPT !.pc = "load", !.file = rows[i].file,
                               !.text = rows[i].text, !.dest = rows[i].dest])
    /\ UNCHANGED <<disk, rows, vault, made, History>>

\* The undo of a session restores the version its first confirmed edit replaced.
UndoSession(c, x, f) == Undoable(x, f) # {} /\ Restore(c, Min(Undoable(x, f)))

\* The copy must still be there; then the restore is a save like any other.
LoadVersion(c) ==
    /\ call[c].pc = "load"
    /\ LET f == call[c].file
           t == call[c].text
       IN  Becomes(c, IF call[c].dest \in vault /\ Reads(f, t, None)
                         THEN Save(f, t, None, None) ELSE Idle)
    /\ UNCHANGED <<disk, rows, vault, made, History>>

\* The copy is made through a handle whose stamp and hash are checked again:
\* a file that somebody wrote since it was read is refused.
CopyBefore(c) ==
    /\ call[c].pc = "copy" /\ made < MaxCopies
    /\ ~call[c].overtaken
    /\ made' = made + 1
    /\ vault' = vault \cup {made'}
    /\ Becomes(c, [call[c] EXCEPT !.pc = "record", !.dest = made'])
    /\ UNCHANGED <<disk, rows, History>>

\* The row that makes the copy a version of the file.
RecordVersion(c) ==
    /\ call[c].pc = "record"
    /\ LET i == NextId
           f == call[c].file
       IN  /\ rows' = [j \in DOMAIN rows \cup {i} |->
                         IF j = i THEN [file |-> f, text |-> call[c].before,
                                        session |-> call[c].session,
                                        status |-> "prepared", dest |-> call[c].dest]
                                  ELSE rows[j]]
           /\ oldest' = [oldest EXCEPT ![f] = IF @ = 0 THEN i ELSE @]
           /\ Becomes(c, [call[c] EXCEPT !.pc = "replace", !.id = i])
    /\ UNCHANGED <<disk, vault, made, start, trimmed, events>>

\* f now holds t; whoever read f and has not replaced it yet is overtaken.
Overtaken(c, f) ==
    IF call[c].file = f /\ call[c].pc \in {"copy", "record", "replace"}
       THEN [call[c] EXCEPT !.overtaken = TRUE] ELSE call[c]

\* The staged text is renamed over the file; what the file holds at that
\* moment is not looked at again.
ReplaceFile(c) ==
    /\ call[c].pc = "replace"
    /\ LET f == call[c].file
           x == call[c].session
       IN  /\ disk' = [disk EXCEPT ![f] = call[c].text]
           /\ call' = [d \in Calls |-> IF d = c THEN [Idle EXCEPT !.pc = "confirm", !.file = f,
                                                                   !.text = call[c].text,
                                                                   !.id = call[c].id]
                                             ELSE Overtaken(d, f)]
           /\ start' = [p \in DOMAIN start |->
                          IF p = <<x, f>> /\ start[p] = 0 THEN call[c].id ELSE start[p]]
    /\ UNCHANGED <<rows, vault, made, oldest, trimmed, events>>

\* The file is read back; what it holds when the row is confirmed is not
\* looked at again.
ReadBack(c) ==
    /\ call[c].pc = "confirm"
    /\ disk[call[c].file] = call[c].text
    /\ Becomes(c, [Idle EXCEPT !.pc = "mark", !.id = call[c].id])
    /\ UNCHANGED <<disk, rows, vault, made, History>>

Confirm(c) ==
    /\ call[c].pc = "mark"
    /\ rows' = [i \in DOMAIN rows |-> IF i = call[c].id
                                         THEN [rows[i] EXCEPT !.status = "saved"]
                                         ELSE rows[i]]
    /\ Becomes(c, [Idle EXCEPT !.pc = "select"])
    /\ UNCHANGED <<disk, vault, made, History>>

\* What somebody changed meanwhile is refused: before the copy nothing has
\* been done, after the rename the row stays as it is.
Refused(c) ==
    /\ \/ call[c].pc = "copy" /\ call[c].overtaken
       \/ call[c].pc = "confirm" /\ disk[call[c].file] # call[c].text
    /\ Becomes(c, Idle)
    /\ UNCHANGED <<disk, rows, vault, made, History>>

Event(kind) == kind \in Events /\ events < MaxEvents /\ events' = events + 1

\* A statement, the rename or the read-back fails: the call ends, its row
\* stays as it is.
GiveUp(c) ==
    /\ \/ Event("rename") /\ call[c].pc = "replace"
       \/ Event("journal") /\ call[c].pc \in {"record", "confirm", "mark", "forget"}
    /\ Becomes(c, Idle)
    /\ UNCHANGED <<disk, rows, vault, made, oldest, start, trimmed>>

-----------------------------------------------------------------------------
(* Pruning *)

\* The next version to remove is the newest of those left.
NewestOf(todo) == CHOOSE p \in todo : \A q \in todo : q[1] <= p[1]

\* A call ends when nothing is left to prune.
Pruning(c, todo) ==
    Becomes(c, IF todo = {} THEN Idle
                            ELSE [call[c] EXCEPT !.pc = "prune", !.todo = todo])

\* Mutant of SelectDoomed: whatever is older than the newest is pruned.
SelectOlder(c) ==
    /\ call[c].pc = "select"
    /\ Pruning(c, {<<i, rows[i].dest>> : i \in {j \in DOMAIN rows :
                                                   Cardinality(Newer(j)) >= PerFile}})
    /\ UNCHANGED <<disk, rows, vault, made, History>>

SelectDoomed(c) ==
    /\ call[c].pc = "select"
    /\ Pruning(c, {<<i, rows[i].dest>> : i \in Doomed})
    /\ trimmed' = trimmed \cup OverCap
    /\ UNCHANGED <<disk, rows, vault, made, oldest, start, events>>

RemoveCopy(c) ==
    /\ call[c].pc = "prune"
    /\ vault' = vault \ {NewestOf(call[c].todo)[2]}
    /\ Moves(c, "forget")
    /\ UNCHANGED <<disk, rows, made, History>>

\* A directory that cannot be removed is passed over, with or without its copy.
SkipCopy(c) ==
    /\ call[c].pc = "prune" /\ Event("remove")
    /\ vault' \in {vault, vault \ {NewestOf(call[c].todo)[2]}}
    /\ Pruning(c, call[c].todo \ {NewestOf(call[c].todo)})
    /\ UNCHANGED <<disk, rows, made, oldest, start, trimmed>>

\* Two deletes, of the version and of the row of its backup, which only the
\* version names; when the second fails the prune ends.
ForgetVersion(c) ==
    /\ call[c].pc = "forget"
    /\ LET p == NewestOf(call[c].todo)
       IN  /\ rows' = [i \in DOMAIN rows \ {p[1]} |-> rows[i]]
           /\ \/ Pruning(c, call[c].todo \ {p}) /\ UNCHANGED events
              \/ Pruning(c, {}) /\ Event("journal")
    /\ UNCHANGED <<disk, vault, made, oldest, start, trimmed>>

-----------------------------------------------------------------------------
(* Others *)

OtherProgram(f, t) ==
    /\ Event("edit") /\ t # disk[f]
    /\ disk' = [disk EXCEPT ![f] = t]
    /\ call' = [c \in Calls |-> Overtaken(c, f)]
    /\ UNCHANGED <<rows, vault, made, oldest, start, trimmed>>

Crash ==
    /\ Event("crash")
    /\ \E c \in Calls : call[c].pc # "idle"
    /\ call' = [c \in Calls |-> Idle]
    /\ UNCHANGED <<disk, rows, vault, made, oldest, start, trimmed>>

Command(c) ==
    \/ \E f \in Files, t \in Texts :
         \/ \E expected \in Texts \cup {None} : SaveText(c, f, t, expected)
         \/ \E x \in Sessions : ApplySuggestion(c, f, t, x)
    \/ \E i \in DOMAIN rows : Restore(c, i)
    \/ \E x \in Sessions, f \in Files : UndoSession(c, x, f)

Proceed(c) ==
    \/ LoadVersion(c) \/ CopyBefore(c) \/ RecordVersion(c) \/ ReplaceFile(c)
    \/ ReadBack(c) \/ Confirm(c) \/ Refused(c) \/ GiveUp(c)
    \/ SelectDoomed(c) \/ RemoveCopy(c) \/ SkipCopy(c) \/ ForgetVersion(c)

Next ==
    \/ \E c \in Calls : Command(c) \/ Proceed(c)
    \/ \E f \in Files, t \in Texts : OtherProgram(f, t)
    \/ Crash

Spec == Init /\ [][Next]_vars

-----------------------------------------------------------------------------
(* Properties *)

Restorable(i) == i \in DOMAIN rows /\ rows[i].dest \in vault

\* The version a file had before its first in-app edit stays restorable,
\* whatever is pruned, by whom and in whatever order (prune_snapshots keeps
\* the earliest version of each file, lib.rs:785-793).
OriginalKept == \A f \in Files : oldest[f] # 0 => Restorable(oldest[f])

\* The version before the first edit of an AI session stays restorable, and is
\* the one undo restores, but for the cases in which the code gives it up: an
\* earlier edit of the session was refused after its row was written, the row
\* was never confirmed, or the global cap has taken a version as old.
SessionStartKept ==
    \A x \in Sessions, f \in Files :
        LET s == start[<<x, f>>]
        IN  (/\ s # 0
             /\ \A i \in SessionRows(x, f) : i >= s
             /\ \A j \in trimmed : j > s)
            => /\ Restorable(s)
               /\ rows[s].status = "saved" => s = Min(Undoable(x, f))

FirstVersionsKept == OriginalKept /\ SessionStartKept

\* A version listed without its copy (a prune died or failed between the two
\* steps) is one the next prune removes: it never becomes one that is kept,
\* unless the global cap has chosen it, an earlier one when it is the first
\* of its session, or a later one when it is among the newest of its file.
TornIsDoomed ==
    \A i \in DOMAIN rows :
        rows[i].dest \notin vault =>
            \/ i \in Doomed
            \/ \E j \in trimmed :
                 \/ j = i
                 \/ j < i /\ EarliestOfSession(i)
                 \/ j > i /\ Cardinality(Newer(i)) < PerFile

\* A save that nobody overtook replaces the text it was reviewed against, and
\* the version it recorded of it can be restored, unless meanwhile so many
\* newer ones of the file were recorded that pruning may pass it over, or the
\* global cap has chosen it or a newer one.
ReplacesWhatWasSaved ==
    [][\A c \in Calls :
         (call[c].pc = "replace" /\ call'[c].pc = "confirm" /\ ~call[c].overtaken)
         => LET f == call[c].file
                i == call[c].id
            IN  /\ call[c].expected \in {None, disk[f]}
                /\ \/ Restorable(i) /\ rows[i].file = f /\ rows[i].text = disk[f]
                   \/ Cardinality({j \in RowsOf(f) : j > i}) >= PerFile
                   \/ \E j \in trimmed : j >= i]_vars

=============================================================================
