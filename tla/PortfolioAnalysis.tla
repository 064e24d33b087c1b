-------------------------- MODULE PortfolioAnalysis --------------------------
(***************************************************************************)
(* The portfolio analysis of Safe Manage: the slot that admits one         *)
(* analysis at a time, the worker that captures the evidence of every      *)
(* project and stores one assessment after the other, and the history of   *)
(* runs in the catalog database.                                           *)
(*                                                                         *)
(* What the evidence revision of a project digests is either the catalog   *)
(* epoch (registered roots, their scan generations, the projects), or      *)
(* live state that nobody locks, for which git[p] stands.                  *)
(*                                                                         *)
(* The database may be opened by a second process (the MCP server), and    *)
(* each opening closes what it takes for the remains of a dead one.        *)
(***************************************************************************)
EXTENDS Naturals, FiniteSets

CONSTANTS Projects,
          None,       \* no evidence, no run, no thread
          MaxRuns,    \* bound: analysis runs
          Kinds,      \* the interferences a run allows
          MaxEvents   \* bound: interferences

AllKinds == {"early", "db", "git", "scan", "unregister", "other", "restart",
             "disk", "limit"}

ASSUME AnalysisAssumption ==
    /\ MaxRuns \in Nat /\ MaxEvents \in Nat
    /\ Kinds \subseteq AllKinds
    /\ None \notin Projects \cup {"analyst", "planner"}

VARIABLES opened,    \* AppState.db is available
          slot,      \* SafeManageJobStore.active, with the flag of its run
          analyst,   \* the worker thread
          runs,      \* table safe_manage_analysis_run: state of each run
          stored,    \* table safe_manage_project_assessment
          catalog,   \* scan_root and project node of each project
          epoch,     \* the catalog evidence epoch
          git,       \* live evidence of each project
          gate,      \* inventory_mutation_gate: who holds it
          events     \* interferences so far

analysisVars == <<opened, slot, analyst, runs, stored>>
worldVars == <<catalog, epoch, git>>

Runs == 1..MaxRuns
Open == {"queued", "running"}
Closed == {"completed", "partial", "cancelled", "failed"}
Terminal == Closed \ {"failed"}

Evidence == [epoch : Nat, git : BOOLEAN]
EvidenceNow(p) == [epoch |-> epoch, git |-> git[p]]
Listed == {p \in Projects : catalog[p] # "gone"}

Pcs == {"idle", "queued", "catalog", "sessions", "probe", "total", "assess",
        "failing", "closing"}

\* found is the evidence captured so far, todo the projects without an
\* assessment yet, done those with one.
Analysts == [pc : Pcs, run : Runs \cup {None},
             found : [Projects -> Evidence \cup {None}],
             todo : SUBSET Projects, done : SUBSET Projects]
NoFindings == [p \in Projects |-> None]
NoAnalyst == [pc |-> "idle", run |-> None, found |-> NoFindings,
              todo |-> {}, done |-> {}]
NoSlot == [run |-> None, held |-> FALSE, cancel |-> FALSE]
NobodyInGate == [writer |-> None, readers |-> {}]

AnalysisTypeOK ==
    /\ opened \in BOOLEAN
    /\ slot \in [run : Runs \cup {None}, held : BOOLEAN, cancel : BOOLEAN]
    /\ analyst \in Analysts
    /\ runs \in [Runs -> {"unused"} \cup Open \cup Closed]
    /\ stored \in [Runs -> [Projects -> Evidence \cup {None}]]
    /\ catalog \in [Projects -> {"enabled", "rootless", "gone"}]
    /\ epoch \in Nat
    /\ git \in [Projects -> BOOLEAN]
    /\ gate \in [writer : {None, "analyst", "planner"},
                 readers : SUBSET Projects]
    /\ events \in 0..MaxEvents

AnalysisInit ==
    /\ opened = FALSE
    /\ slot = NoSlot
    /\ analyst = NoAnalyst
    /\ runs = [r \in Runs |-> "unused"]
    /\ stored = [r \in Runs |-> NoFindings]
    /\ catalog = [p \in Projects |-> "enabled"]
    /\ epoch = 0
    /\ git = [p \in Projects |-> FALSE]
    /\ gate = NobodyInGate
    /\ events = 0

\* An interference of kind k happens.
Event(k) == k \in Kinds /\ events < MaxEvents /\ events' = events + 1
Quiet == UNCHANGED events

GateFree == gate.writer = None /\ gate.readers = {}
Readable == gate.writer = None
TakeGate(who) == GateFree /\ gate' = [gate EXCEPT !.writer = who]
FreeGate == gate' = [gate EXCEPT !.writer = None]

----------------------------------------------------------------------------
(***************************************************************************)
(* The history of runs: what SQLite accepts.                               *)
(***************************************************************************)
\* validate_run_transition
MayBecome(r, state) ==
    \/ runs[r] = "unused" /\ state = "queued"
    \/ runs[r] = "queued" /\ state \in {"running", "cancelled", "failed"}
    \/ runs[r] = "running" /\ state \in {"running"} \cup Closed
    \/ runs[r] = state /\ state \in Closed

Assessed(r) == {p \in Projects : stored[r][p] # None}

\* Mutant of MayFinalize: the caller is believed.
MayFinalizeUnproved(r, state, assessed) == MayBecome(r, state)

\* safe_manage_analysis_finalize: the transition is valid and the stored
\* assessments are the ones the caller has.
MayFinalize(r, state, assessed) == MayBecome(r, state) /\ Assessed(r) = assessed

\* reconcile_interrupted_safe_manage_runs, its first half.
Reconciled == [r \in Runs |-> IF runs[r] \in Open THEN "partial" ELSE runs[r]]

----------------------------------------------------------------------------
(***************************************************************************)
(* The commands.                                                           *)
(***************************************************************************)
\* analysis_start: the slot, then the queued header, then the thread.
StartAnalysis(r) ==
    /\ opened /\ ~slot.held
    /\ runs[r] = "unused" /\ \A q \in Runs : q < r => runs[q] # "unused"
    /\ slot' = [run |-> r, held |-> TRUE, cancel |-> FALSE]
    /\ runs' = [runs EXCEPT ![r] = "queued"]
    /\ analyst' = [NoAnalyst EXCEPT !.pc = "queued", !.run = r]
    /\ Quiet /\ UNCHANGED <<opened, stored, worldVars, gate>>

\* analysis_start while the database is still being opened: the error of
\* db() returns past the release of the slot.
StartTooEarly ==
    /\ ~opened /\ ~slot.held
    /\ Event("early")
    /\ slot' = [NoSlot EXCEPT !.held = TRUE]
    /\ UNCHANGED <<opened, analyst, runs, stored, worldVars, gate>>

\* analysis_cancel
CancelAnalysis ==
    /\ slot.held /\ slot.run # None /\ ~slot.cancel
    /\ slot' = [slot EXCEPT !.cancel = TRUE]
    /\ Quiet /\ UNCHANGED <<opened, analyst, runs, stored, worldVars, gate>>

----------------------------------------------------------------------------
(***************************************************************************)
(* The worker: run_analysis_with_sources.                                  *)
(***************************************************************************)
At(pc) == analyst.pc = pc
Run == analyst.run
GoTo(pc) == analyst' = [analyst EXCEPT !.pc = pc]
NotStopped == ~slot.cancel
StaysInDb == UNCHANGED <<runs, stored>>
Worker == UNCHANGED <<opened, slot, worldVars>>

\* finish_cancelled: cancelled without findings, partial with some; an error
\* is the worker's.
FinishCancelled ==
    LET state == IF analyst.done = {} THEN "cancelled" ELSE "partial"
    IN IF MayFinalize(Run, state, analyst.done)
       THEN runs' = [runs EXCEPT ![Run] = state] /\ GoTo("closing")
       ELSE UNCHANGED runs /\ GoTo("failing")

\* At each of its checks the worker sees the flag.
Stops ==
    /\ At("queued") \/ At("catalog") \/ (At("assess") /\ analyst.todo # {})
    /\ slot.cancel
    /\ FinishCancelled
    /\ Quiet /\ Worker /\ UNCHANGED <<stored, gate>>

\* save_run_header as running, unless the run was closed meanwhile.
Header(next) ==
    IF MayBecome(Run, "running")
    THEN runs' = [runs EXCEPT ![Run] = "running"] /\ GoTo(next)
    ELSE UNCHANGED runs /\ GoTo("failing")

Begins ==
    /\ At("queued") /\ NotStopped
    /\ Header("catalog")
    /\ Quiet /\ Worker /\ UNCHANGED <<stored, gate>>

\* The first list of projects, under the read side of the gate, only counts
\* them.  The sessions are read without the gate.
ReadsCatalog ==
    /\ At("catalog") /\ NotStopped /\ Readable
    /\ Header("sessions")
    /\ Quiet /\ Worker /\ UNCHANGED <<stored, gate>>

\* The projects are listed again and their inputs read under the write side.
Captures ==
    /\ At("sessions") /\ NotStopped
    /\ TakeGate("analyst")
    /\ analyst' = [analyst EXCEPT !.pc = "probe", !.todo = Listed,
                     !.found = [p \in Projects |->
                                  IF p \in Listed
                                  THEN [epoch |-> epoch, git |-> FALSE]
                                  ELSE None]]
    /\ StaysInDb /\ Quiet /\ Worker

StopsCapture ==
    /\ slot.cancel
    /\ \/ At("sessions") /\ UNCHANGED gate
       \/ At("probe") /\ FreeGate
    /\ FinishCancelled
    /\ Quiet /\ Worker /\ UNCHANGED stored

\* probe_git_state, project by project, still under the gate.
Probes(p) ==
    /\ At("probe") /\ NotStopped /\ p \in analyst.todo
    /\ analyst' = [analyst EXCEPT !.todo = @ \ {p}, !.found[p].git = git[p]]
    /\ StaysInDb /\ Quiet /\ Worker /\ UNCHANGED gate

Captured ==
    /\ At("probe") /\ analyst.todo = {}
    /\ FreeGate /\ GoTo("total")
    /\ StaysInDb /\ Quiet /\ Worker

\* The header again, now with the number of projects and the digest of all.
SavesTotal ==
    /\ At("total")
    /\ IF MayBecome(Run, "running")
       THEN /\ runs' = [runs EXCEPT ![Run] = "running"]
            /\ analyst' = [analyst EXCEPT !.pc = "assess",
                 !.todo = {p \in Projects : analyst.found[p] # None}]
       ELSE UNCHANGED runs /\ GoTo("failing")
    /\ Quiet /\ Worker /\ UNCHANGED <<stored, gate>>

\* safe_manage_analysis_assessment_append: the run must be running still, and
\* the assessment needs its project's node.
Appends(p) ==
    /\ At("assess") /\ NotStopped /\ p \in analyst.todo
    /\ IF runs[Run] = "running" /\ catalog[p] # "gone"
       THEN /\ stored' = [stored EXCEPT ![Run][p] = analyst.found[p]]
            /\ analyst' = [analyst EXCEPT !.todo = @ \ {p}, !.done = @ \cup {p}]
       ELSE UNCHANGED stored /\ GoTo("failing")
    /\ Quiet /\ Worker /\ UNCHANGED <<runs, gate>>

\* finalize_run as completed.
Completes ==
    /\ At("assess") /\ analyst.todo = {}
    /\ IF MayFinalize(Run, "completed", analyst.done)
       THEN runs' = [runs EXCEPT ![Run] = "completed"] /\ GoTo("closing")
       ELSE UNCHANGED runs /\ GoTo("failing")
    /\ Quiet /\ Worker /\ UNCHANGED <<stored, gate>>

\* fail_analysis: a run that is closed already stays as it is.
Fails ==
    /\ At("failing")
    /\ runs' = IF runs[Run] \in Terminal THEN runs
               ELSE [runs EXCEPT ![Run] = "failed"]
    /\ GoTo("closing")
    /\ Quiet /\ Worker /\ UNCHANGED <<stored, gate>>

\* Mutant of Frees: the slot is kept when the run did not complete.
FreesSuccess ==
    /\ At("closing")
    /\ slot' = (IF runs[Run] = "completed" THEN NoSlot ELSE slot)
    /\ analyst' = NoAnalyst
    /\ StaysInDb /\ Quiet /\ UNCHANGED <<opened, worldVars, gate>>

\* SafeManageJobStore.finish, after success, error and panic alike.
Frees ==
    /\ At("closing")
    /\ slot' = NoSlot /\ analyst' = NoAnalyst
    /\ StaysInDb /\ Quiet /\ UNCHANGED <<opened, worldVars, gate>>

\* A read or write of the database fails: the worker gives up, and if
\* fail_analysis cannot write either, the row stays open.
DbFails ==
    /\ Event("db")
    /\ \/ /\ analyst.pc \in {"queued", "catalog", "sessions", "total", "assess"}
          /\ GoTo("failing") /\ UNCHANGED gate
       \/ At("probe") /\ GoTo("failing") /\ FreeGate
       \/ At("failing") /\ GoTo("closing") /\ UNCHANGED gate
    /\ StaysInDb /\ Worker

AnalystStep ==
    \/ Stops \/ StopsCapture \/ Begins \/ ReadsCatalog \/ Captures
    \/ Captured \/ SavesTotal \/ Completes \/ Fails \/ Frees
    \/ \E p \in Projects : Probes(p) \/ Appends(p)

=============================================================================
