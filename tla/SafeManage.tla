----------------------------- MODULE SafeManage -----------------------------
(***************************************************************************)
(* Safe Manage after the analysis: the owner's decisions, the exact        *)
(* inventory of one regenerable folder of a project (an expansion, with    *)
(* its receipt), and the operation plan built from a decision.             *)
(*                                                                         *)
(* The folder is stored as one opaque row until an expansion replaces it   *)
(* by a row per item.  A row has a node, which may be marked absent.       *)
(***************************************************************************)
EXTENDS PortfolioAnalysis

CONSTANTS Items,        \* what a regenerable folder may hold
          Expandable,   \* projects with such a folder
          Untouchable,  \* projects the analysis recommends not to touch
          MaxJobs       \* bound: expansions and plans asked for

ASSUME SafeManageAssumption ==
    /\ Expandable \subseteq Projects /\ Untouchable \subseteq Projects
    /\ IsFiniteSet(Items) /\ MaxJobs \in Nat

VARIABLES decisions,  \* the latest safe_manage_decision of each project
          disk,       \* the items of each folder
          rows,       \* the rows below the folder's row
          present,    \* the rows among them whose node is present
          whole,      \* the folder's row is fully scanned, without error
          receipt,    \* table safe_manage_regenerable_expansion
          expander,   \* the thread of each expansion
          planner,    \* the thread and the record of a plan job
          asked,      \* jobs asked for so far
          proof,      \* history: what the walk behind a receipt found
          cut         \* history: an expansion died after its first statement,
                      \* and no statement has removed the rows since

folderVars == <<rows, present, whole, receipt, proof>>
manageVars == <<decisions, disk, folderVars, cut, expander, planner, asked>>
vars == <<analysisVars, worldVars, gate, events, manageVars>>

Choices == {"keep", "whole", "clean"}
Requests == [run : Runs, ev : Evidence]
NoRequest == [run |-> None, ev |-> None]
Request(r, p) == [run |-> r, ev |-> stored[r][p]]
Decided(req, choice) == [req |-> req, choice |-> choice]
Decisions == [req : Requests, choice : Choices]

ReceiptStates == {"running", "completed", "partial", "cancelled", "failed"}
Receipts == [req : Requests, state : ReceiptStates,
             count : 0..Cardinality(Items)]

ExpanderPcs == {"idle", "queued", "absent", "delete", "mark", "receipt",
                "walk", "finish", "derive", "incomplete", "settle"}
Expanders == [pc : ExpanderPcs, req : Requests \cup {NoRequest},
              cancel : BOOLEAN, left : SUBSET Items, found : SUBSET Items,
              end : {"walked", "partial", "cancelled", "broken", "failed"}]
NoExpander == [pc |-> "idle", req |-> NoRequest, cancel |-> FALSE,
               left |-> {}, found |-> {}, end |-> "walked"]

PlannerPcs == {"idle", "queued", "check", "build", "recheck", "publish",
               "done"}
Planners == [pc : PlannerPcs, project : Projects \cup {None},
             req : Requests \cup {NoRequest}, choice : Choices,
             cancel : BOOLEAN, built : SUBSET Items]
NoPlanner == [pc |-> "idle", project |-> None, req |-> NoRequest,
              choice |-> "keep", cancel |-> FALSE, built |-> {}]

TypeOK ==
    /\ AnalysisTypeOK
    /\ decisions \in [Projects -> Decisions \cup {None}]
    /\ disk \in [Expandable -> SUBSET Items]
    /\ rows \in [Expandable -> SUBSET Items]
    /\ present \in [Expandable -> SUBSET Items]
    /\ whole \in [Expandable -> BOOLEAN]
    /\ receipt \in [Expandable -> Receipts \cup {None}]
    /\ expander \in [Expandable -> Expanders]
    /\ planner \in Planners
    /\ asked \in 0..MaxJobs
    /\ proof \in [Expandable -> (SUBSET Items) \cup {None}]
    /\ cut \in [Expandable -> BOOLEAN]

\* Scanned projects, with their folders measured but not expanded.
Init ==
    /\ AnalysisInit
    /\ decisions = [p \in Projects |-> None]
    /\ disk = [p \in Expandable |-> Items]
    /\ rows = [p \in Expandable |-> {}]
    /\ present = rows
    /\ whole = [p \in Expandable |-> TRUE]
    /\ receipt = [p \in Expandable |-> None]
    /\ expander = [p \in Expandable |-> NoExpander]
    /\ planner = NoPlanner
    /\ asked = 0
    /\ proof = [p \in Expandable |-> None]
    /\ cut = [p \in Expandable |-> FALSE]

Ask == asked < MaxJobs /\ asked' = asked + 1

----------------------------------------------------------------------------
(***************************************************************************)
(* What the database says of a request.                                    *)
(***************************************************************************)
\* validate_analysis_project_binding
Bound(p, req) ==
    /\ req.ev # None
    /\ stored[req.run][p] = req.ev
    /\ runs[req.run] = "completed"

\* require_current_project_revision
Current(p, req) == p \in Listed /\ req.ev = EvidenceNow(p)

\* Mutant of Eligible: the rows below the folder are not counted.
EligibleUncounted(p, req) ==
    /\ p \in Expandable /\ catalog[p] = "enabled"
    /\ receipt[p] # None
    /\ receipt[p].req = req
    /\ receipt[p].state = "completed"
    /\ whole[p]

\* load_regenerable_candidates: the receipt of this request is complete and
\* the folder's row and count agree with it.
Eligible(p, req) ==
    /\ p \in Expandable /\ catalog[p] = "enabled"
    /\ receipt[p] # None
    /\ receipt[p].req = req
    /\ receipt[p].state = "completed"
    /\ receipt[p].count = Cardinality(rows[p])
    /\ whole[p]

\* safe_manage_regenerable_scan_target
MayExpand(p, req) ==
    /\ Bound(p, req) /\ p \notin Untouchable
    /\ catalog[p] = "enabled"
    /\ decisions[p] = Decided(req, "clean")

\* safe_manage_operation_plan_target
MayPlan(p, req, choice) ==
    /\ Bound(p, req) /\ p \notin Untouchable
    /\ decisions[p] = Decided(req, choice)
    /\ choice = "clean" => Eligible(p, req)

----------------------------------------------------------------------------
(***************************************************************************)
(* decisions_record_atomic: every member is checked, then all are stored.  *)
(***************************************************************************)
Decide(P, r, choice) ==
    /\ opened /\ Readable
    /\ \A p \in P : /\ Current(p, Request(r, p)) /\ Bound(p, Request(r, p))
                    /\ p \in Untouchable => choice = "keep"
    /\ decisions' = [p \in Projects |-> IF p \in P
                                        THEN Decided(Request(r, p), choice)
                                        ELSE decisions[p]]
    /\ UNCHANGED <<analysisVars, worldVars, gate, events, disk, folderVars,
                   cut, expander, planner, asked>>

----------------------------------------------------------------------------
(***************************************************************************)
(* The expansion of a folder: regenerable_scan_start and its thread.       *)
(***************************************************************************)
E(p) == expander[p]
ExpanderAt(p, pc) == E(p).pc = pc
Becomes(p, e) == expander' = [expander EXCEPT ![p] = e]
Next_(p, pc) == Becomes(p, [E(p) EXCEPT !.pc = pc])
EndsExpansion(p) ==
    /\ Becomes(p, NoExpander)
    /\ gate' = [gate EXCEPT !.readers = @ \ {p}]
Aside == UNCHANGED <<analysisVars, worldVars, decisions, disk, planner>>

AskExpansion(p, r) ==
    /\ opened /\ Readable /\ ExpanderAt(p, "idle") /\ Ask
    /\ Current(p, Request(r, p)) /\ MayExpand(p, Request(r, p))
    /\ Becomes(p, [NoExpander EXCEPT !.pc = "queued", !.req = Request(r, p)])
    /\ Aside /\ UNCHANGED <<gate, events, folderVars, cut>>

StopExpansion(p) ==
    /\ ~ExpanderAt(p, "idle") /\ ~E(p).cancel
    /\ Becomes(p, [E(p) EXCEPT !.cancel = TRUE])
    /\ Aside /\ UNCHANGED <<gate, events, folderVars, cut, asked>>

\* The thread takes the read side for the whole job and checks all again.
Enters(p) ==
    /\ ExpanderAt(p, "queued") /\ Readable
    /\ IF ~E(p).cancel /\ Current(p, E(p).req) /\ MayExpand(p, E(p).req)
       THEN /\ gate' = [gate EXCEPT !.readers = @ \cup {p}]
            /\ Next_(p, "absent")
       ELSE EndsExpansion(p)
    /\ Aside /\ UNCHANGED <<events, folderVars, cut, asked>>

\* begin_subtree_scan_inner: nodes, rows and the mark of the folder's row are
\* statements of their own.
MarksAbsent(p) ==
    /\ ExpanderAt(p, "absent")
    /\ present' = [present EXCEPT ![p] = {}]
    /\ Next_(p, "delete")
    /\ Aside /\ UNCHANGED <<gate, events, rows, whole, receipt, proof, cut,
                            asked>>

DeletesRows(p) ==
    /\ ExpanderAt(p, "delete")
    /\ rows' = [rows EXCEPT ![p] = {}]
    /\ cut' = [cut EXCEPT ![p] = FALSE]
    /\ Next_(p, "mark")
    /\ Aside /\ UNCHANGED <<gate, events, present, whole, receipt, proof, asked>>

MarksIncomplete(p) ==
    /\ ExpanderAt(p, "mark")
    /\ whole' = [whole EXCEPT ![p] = FALSE]
    /\ Next_(p, "receipt")
    /\ Aside /\ UNCHANGED <<gate, events, rows, present, receipt, proof, cut,
                            asked>>

\* safe_manage_regenerable_expansion_begin
OpensReceipt(p) ==
    /\ ExpanderAt(p, "receipt")
    /\ IF catalog[p] = "gone"
       THEN EndsExpansion(p) /\ UNCHANGED <<receipt, proof>>
       ELSE /\ receipt' = [receipt EXCEPT ![p] =
                 [req |-> E(p).req, state |-> "running", count |-> 0]]
            /\ proof' = [proof EXCEPT ![p] = None]
            /\ Becomes(p, [E(p) EXCEPT !.pc = "walk", !.left = Items])
            /\ UNCHANGED gate
    /\ Aside /\ UNCHANGED <<events, rows, present, whole, cut, asked>>

\* The walk visits an item and persists what it found, if the root is still
\* enabled.
Visits(p, i) ==
    /\ ExpanderAt(p, "walk") /\ ~E(p).cancel /\ i \in E(p).left
    /\ IF i \notin disk[p]
       THEN /\ Becomes(p, [E(p) EXCEPT !.left = @ \ {i}])
            /\ UNCHANGED <<rows, present>>
       ELSE IF catalog[p] = "enabled"
       THEN /\ Becomes(p, [E(p) EXCEPT !.left = @ \ {i}, !.found = @ \cup {i}])
            /\ rows' = [rows EXCEPT ![p] = @ \cup {i}]
            /\ present' = [present EXCEPT ![p] = @ \cup {i}]
       ELSE /\ Becomes(p, [E(p) EXCEPT !.pc = "incomplete", !.end = "failed"])
            /\ UNCHANGED <<rows, present>>
    /\ Aside /\ UNCHANGED <<gate, events, whole, receipt, proof, cut, asked>>

\* The walk ends, because it has seen all, or was stopped.
WalkEnds(p) ==
    /\ ExpanderAt(p, "walk") /\ (E(p).cancel \/ E(p).left = {})
    /\ Becomes(p, [E(p) EXCEPT !.pc = "finish",
                     !.end = IF E(p).left = {} THEN "walked" ELSE "cancelled"])
    /\ Aside /\ UNCHANGED <<gate, events, folderVars, cut, asked>>

\* It ends early at a limit, a link or an unreadable folder.
HitsLimit(p) ==
    /\ ExpanderAt(p, "walk") /\ E(p).left # {}
    /\ Event("limit")
    /\ Becomes(p, [E(p) EXCEPT !.pc = "finish", !.end = "partial"])
    /\ Aside /\ UNCHANGED <<gate, folderVars, cut, asked>>

\* finish_subtree_scan_with_cancel, its first step: the mark of the folder's
\* row.  A step under a stop may have its effect, and is an error.
Finishes(p) ==
    /\ ExpanderAt(p, "finish")
    /\ \/ /\ whole' = [whole EXCEPT ![p] = E(p).end = "walked"]
          /\ IF E(p).cancel THEN Becomes(p, [E(p) EXCEPT !.pc = "incomplete",
                                                         !.end = "broken"])
             ELSE Next_(p, "derive")
       \/ /\ E(p).cancel /\ UNCHANGED whole
          /\ Becomes(p, [E(p) EXCEPT !.pc = "incomplete", !.end = "broken"])
    /\ Aside /\ UNCHANGED <<gate, events, rows, present, receipt, proof, cut,
                            asked>>

\* Its other steps: counts, sizes and relationships.
Derives(p) ==
    /\ ExpanderAt(p, "derive")
    /\ IF E(p).cancel THEN Becomes(p, [E(p) EXCEPT !.pc = "incomplete",
                                                   !.end = "broken"])
       ELSE Next_(p, "settle")
    /\ Aside /\ UNCHANGED <<gate, events, folderVars, cut, asked>>

\* mark_subtree_scan_incomplete, or the finish of a failed walk.
MarksBroken(p) ==
    /\ ExpanderAt(p, "incomplete")
    /\ whole' = [whole EXCEPT ![p] = FALSE]
    /\ Next_(p, "settle")
    /\ Aside /\ UNCHANGED <<gate, events, rows, present, receipt, proof, cut,
                            asked>>

Outcome(p) ==
    IF E(p).end = "failed" THEN "failed"
    ELSE IF E(p).cancel \/ E(p).end = "cancelled" THEN "cancelled"
    ELSE CASE E(p).end = "walked" -> "completed"
           [] E(p).end = "partial" -> "partial"
           [] OTHER -> "failed"

\* safe_manage_regenerable_expansion_finish: only the running receipt of this
\* request is closed.
Settles(p) ==
    /\ ExpanderAt(p, "settle")
    /\ IF receipt[p] # None /\ receipt[p].state = "running"
          /\ receipt[p].req = E(p).req
       THEN /\ receipt' = [receipt EXCEPT ![p].state = Outcome(p),
                             ![p].count = Cardinality(E(p).found)]
            /\ proof' = [proof EXCEPT ![p] = IF Outcome(p) = "completed"
                                             THEN E(p).found ELSE None]
       ELSE UNCHANGED <<receipt, proof>>
    /\ EndsExpansion(p)
    /\ Aside /\ UNCHANGED <<events, rows, present, whole, cut, asked>>

\* A statement of the thread fails: its begin is left as it is, a later step
\* goes on to the mark or gives up the receipt.
ExpansionDbFails(p) ==
    /\ Event("db")
    /\ \/ /\ E(p).pc \in {"queued", "absent", "delete", "mark", "receipt",
                          "settle"}
          /\ EndsExpansion(p)
          /\ cut' = [cut EXCEPT ![p] = @ \/ ExpanderAt(p, "delete")]
       \/ /\ E(p).pc \in {"walk", "finish", "derive"}
          /\ Becomes(p, [E(p) EXCEPT !.pc = "incomplete",
                           !.end = IF ExpanderAt(p, "walk") THEN "failed"
                                                            ELSE "broken"])
          /\ UNCHANGED <<gate, cut>>
       \/ /\ ExpanderAt(p, "incomplete") /\ Next_(p, "settle")
          /\ UNCHANGED <<gate, cut>>
    /\ Aside /\ UNCHANGED <<folderVars, asked>>

ExpanderStep(p) ==
    \/ Enters(p) \/ MarksAbsent(p) \/ DeletesRows(p) \/ MarksIncomplete(p)
    \/ OpensReceipt(p) \/ WalkEnds(p) \/ Finishes(p) \/ Derives(p)
    \/ MarksBroken(p) \/ Settles(p)
    \/ \E i \in Items : Visits(p, i)

----------------------------------------------------------------------------
(***************************************************************************)
(* The plan of a decision: operation_plan_start and its thread.            *)
(***************************************************************************)
PlannerAt(pc) == planner.pc = pc
Allowed == /\ Current(planner.project, planner.req)
           /\ MayPlan(planner.project, planner.req, planner.choice)
EndsPlan == planner' = NoPlanner /\ FreeGate
Beside == UNCHANGED <<analysisVars, worldVars, decisions, disk, folderVars,
                      cut, expander>>

AskPlan(p, r, choice) ==
    /\ opened /\ Readable /\ planner.pc \in {"idle", "done"} /\ Ask
    /\ Current(p, Request(r, p)) /\ MayPlan(p, Request(r, p), choice)
    /\ choice # "keep"
    /\ planner' = [NoPlanner EXCEPT !.pc = "queued", !.project = p,
                     !.req = Request(r, p), !.choice = choice]
    /\ Beside /\ UNCHANGED <<gate, events>>

StopPlan ==
    /\ planner.pc \notin {"idle", "done"} /\ ~planner.cancel
    /\ planner' = [planner EXCEPT !.cancel = TRUE]
    /\ Beside /\ UNCHANGED <<gate, events, asked>>

\* Mutant of PlanEnters: the plan is built without the gate.
PlanEntersUnlocked ==
    /\ PlannerAt("queued")
    /\ planner' = [planner EXCEPT !.pc = "check"] /\ UNCHANGED gate
    /\ Beside /\ UNCHANGED <<events, asked>>

PlanEnters ==
    /\ PlannerAt("queued")
    /\ TakeGate("planner")
    /\ planner' = [planner EXCEPT !.pc = "check"]
    /\ Beside /\ UNCHANGED <<events, asked>>

\* The checks before and after the plan is built.
PlanChecks ==
    /\ PlannerAt("check") \/ PlannerAt("recheck")
    /\ IF ~planner.cancel /\ Allowed
       THEN /\ planner' = [planner EXCEPT !.pc = IF @ = "check" THEN "build"
                                                 ELSE "publish"]
            /\ UNCHANGED gate
       ELSE EndsPlan
    /\ Beside /\ UNCHANGED <<events, asked>>

\* operation_plan_build_interruptible: the items whose nodes are present.
Builds ==
    /\ PlannerAt("build")
    /\ IF planner.cancel THEN EndsPlan
       ELSE /\ planner' = [planner EXCEPT !.pc = "recheck",
                 !.built = IF planner.choice = "clean"
                             /\ catalog[planner.project] # "gone"
                           THEN present[planner.project] ELSE {}]
            /\ UNCHANGED gate
    /\ Beside /\ UNCHANGED <<events, asked>>

\* The risk report, the last check and PlanJobStore.complete.
Publishes ==
    /\ PlannerAt("publish")
    /\ planner' = IF ~planner.cancel /\ Allowed
                  THEN [planner EXCEPT !.pc = "done"] ELSE NoPlanner
    /\ FreeGate
    /\ Beside /\ UNCHANGED <<events, asked>>

PlanDbFails ==
    /\ Event("db")
    /\ planner.pc \in {"check", "build", "recheck", "publish"}
    /\ EndsPlan
    /\ Beside /\ UNCHANGED asked

PlannerStep == PlanEnters \/ PlanChecks \/ Builds \/ Publishes

----------------------------------------------------------------------------
(***************************************************************************)
(* Everything else that touches the catalog, the disk or the processes.    *)
(***************************************************************************)
Threads == <<slot, analyst, expander, planner, gate>>

\* The catalog is opened: what is open in it is taken for interrupted.
Reconciles ==
    /\ runs' = Reconciled
    /\ receipt' = [p \in Expandable |->
         IF receipt[p] # None /\ receipt[p].state = "running"
         THEN [receipt[p] EXCEPT !.state = "failed"] ELSE receipt[p]]
    /\ whole' = [p \in Expandable |->
         IF receipt[p] # None /\ receipt[p].state = "running"
         THEN FALSE ELSE whole[p]]

Opens ==
    /\ ~opened /\ opened' = TRUE
    /\ Reconciles
    /\ Quiet /\ UNCHANGED <<Threads, stored, worldVars, decisions, disk, rows,
                            present, proof, cut, asked>>

OtherProcessOpens ==
    /\ opened /\ Event("other")
    /\ Reconciles
    /\ UNCHANGED <<opened, Threads, stored, worldVars, decisions, disk, rows,
                   present, proof, cut, asked>>

Restart ==
    /\ opened /\ Event("restart")
    /\ opened' = FALSE
    /\ slot' = NoSlot /\ analyst' = NoAnalyst /\ gate' = NobodyInGate
    /\ cut' = [p \in Expandable |-> cut[p] \/ ExpanderAt(p, "delete")]
    /\ expander' = [p \in Expandable |-> NoExpander]
    /\ planner' = NoPlanner
    /\ UNCHANGED <<runs, stored, worldVars, decisions, disk, folderVars, asked>>

\* A scan of a project's root begins a new generation.  A complete one takes
\* the rows below a regenerable folder away and measures the folder.
RootScan(p) ==
    /\ opened /\ Event("scan")
    /\ Readable /\ catalog[p] = "enabled"
    /\ p \in Expandable => ExpanderAt(p, "idle")
    /\ epoch' = epoch + 1
    /\ \/ UNCHANGED <<rows, present, whole, cut>>
       \/ /\ p \in Expandable
          /\ rows' = [rows EXCEPT ![p] = {}]
          /\ present' = [present EXCEPT ![p] = {}]
          /\ whole' = [whole EXCEPT ![p] = TRUE]
          /\ cut' = [cut EXCEPT ![p] = FALSE]
    /\ UNCHANGED <<analysisVars, catalog, git, gate, decisions, disk, receipt,
                   proof, expander, planner, asked>>

\* projects_unregister, without gate or transaction: first the root,
Unregisters(p) ==
    /\ opened /\ Event("unregister")
    /\ catalog[p] = "enabled"
    /\ catalog' = [catalog EXCEPT ![p] = "rootless"]
    /\ epoch' = epoch + 1
    /\ UNCHANGED <<analysisVars, git, gate, manageVars>>

\* then the rows and the project's node, with all that refers to it.
Forgets(p) ==
    /\ opened /\ catalog[p] = "rootless"
    /\ catalog' = [catalog EXCEPT ![p] = "gone"]
    /\ epoch' = epoch + 1
    /\ stored' = [r \in Runs |-> [stored[r] EXCEPT ![p] = None]]
    /\ decisions' = [decisions EXCEPT ![p] = None]
    /\ IF p \in Expandable
       THEN /\ rows' = [rows EXCEPT ![p] = {}]
            /\ present' = [present EXCEPT ![p] = {}]
            /\ receipt' = [receipt EXCEPT ![p] = None]
            /\ proof' = [proof EXCEPT ![p] = None]
       ELSE UNCHANGED <<rows, present, receipt, proof>>
    /\ Quiet /\ UNCHANGED <<opened, slot, analyst, runs, git, gate, disk,
                            whole, cut, expander, planner, asked>>

\* A commit, a checkout, an edit: live evidence changes, and may change back.
GitChanges(p) ==
    /\ Event("git")
    /\ git' = [git EXCEPT ![p] = ~@]
    /\ UNCHANGED <<analysisVars, catalog, epoch, gate, manageVars>>

\* A build writes or clears an item of the folder.
FolderChanges(p, i) ==
    /\ Event("disk")
    /\ disk' = [disk EXCEPT ![p] = IF i \in @ THEN @ \ {i} ELSE @ \cup {i}]
    /\ UNCHANGED <<analysisVars, worldVars, gate, decisions, folderVars, cut,
                   expander, planner, asked>>

----------------------------------------------------------------------------
Analysis == UNCHANGED manageVars

AnalystMoves == AnalystStep /\ Analysis

Environment ==
    \/ Opens \/ OtherProcessOpens \/ Restart
    \/ \E p \in Projects : \/ RootScan(p) \/ Unregisters(p) \/ Forgets(p)
                           \/ GitChanges(p)
    \/ \E p \in Expandable, i \in Items : FolderChanges(p, i)
    \/ (DbFails \/ StartTooEarly) /\ Analysis
    \/ PlanDbFails
    \/ \E p \in Expandable : ExpansionDbFails(p) \/ HitsLimit(p)

Owner ==
    \/ (CancelAnalysis \/ \E r \in Runs : StartAnalysis(r)) /\ Analysis
    \/ \E P \in (SUBSET Projects) \ {{}}, r \in Runs, c \in Choices :
          Decide(P, r, c)
    \/ \E p \in Expandable, r \in Runs : AskExpansion(p, r)
    \/ \E p \in Expandable : StopExpansion(p)
    \/ \E p \in Projects, r \in Runs, c \in Choices : AskPlan(p, r, c)
    \/ StopPlan

Next ==
    \/ Owner \/ Environment \/ AnalystMoves \/ PlannerStep
    \/ \E p \in Expandable : ExpanderStep(p)

Spec == Init /\ [][Next]_vars

\* The threads are scheduled, the database gets opened, and a writer that
\* waits for the gate is let in before later readers.
FairSpec ==
    /\ Spec
    /\ WF_vars(Opens)
    /\ WF_vars(AnalystMoves) /\ SF_vars(Captures /\ Analysis)
    /\ WF_vars(PlannerStep) /\ SF_vars(PlanEnters)
    /\ \A p \in Expandable : WF_vars(ExpanderStep(p))

----------------------------------------------------------------------------
(***************************************************************************)
(* Properties.                                                             *)
(***************************************************************************)
\* A run becomes completed only while the table holds exactly the findings
\* its worker captured, one for each project listed at the capture, although
\* projects are unregistered meanwhile; and a closed run stays as it was
\* closed, whoever opens the catalog.
CompleteIsWhole ==
    [][\A r \in Runs :
          /\ runs[r] # "completed" /\ runs'[r] = "completed" =>
                Run = r /\ stored[r] = analyst.found
          /\ runs[r] \in Closed => runs'[r] = runs[r]]_vars

\* The rows of a folder that may enter a plan are what one whole walk found,
\* whatever stops, failures, deaths, other processes and scans of the root came
\* since.
EligibleIsWhole ==
    \A p \in Expandable, r \in Runs :
        Eligible(p, Request(r, p)) => proof[p] = rows[p]

\* A plan is published only for the latest decision of a project the owner
\* may touch, taken on a completed run whose evidence still is the present
\* one, and it lists what the walk behind the folder's receipt found, unless
\* a later expansion was cut after its first statement.
PlanIsAuthorised ==
    [][~PlannerAt("done") /\ planner'.pc = "done" =>
          LET p == planner.project
          IN /\ decisions[p] = Decided(planner.req, planner.choice)
             /\ runs[planner.req.run] = "completed"
             /\ p \notin Untouchable
             /\ planner.req.ev = EvidenceNow(p)
             /\ planner.choice = "clean" =>
                   planner.built = proof[p] \/ cut[p]]_vars

\* However much is asked for and whatever interferes, in the end every thread
\* has ended, the gate is free and so is the slot of the analysis, unless it
\* was taken before the database was open.
EveryThreadEnds ==
    <>[](/\ slot.run = None /\ planner.pc \in {"idle", "done"}
         /\ \A p \in Expandable : ExpanderAt(p, "idle")
         /\ gate = NobodyInGate)

=============================================================================
