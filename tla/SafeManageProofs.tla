-------------------------- MODULE SafeManageProofs ---------------------------
(***************************************************************************)
(* Theorems of Safe Manage, for any projects, folders and items, any       *)
(* number of runs and jobs, and any interferences.                         *)
(*                                                                         *)
(* IInv is the inductive invariant.  What a completed run, an eligible     *)
(* folder and a published plan promise is made true by one step and used   *)
(* by a later one, so the invariant says at each program counter what has  *)
(* been captured (CaptureInv), who may be at work (GateInv), how rows,     *)
(* nodes, mark and receipt of a folder stand to each other (FolderInv) and *)
(* what the plan job has read (PlannerInv).                                *)
(***************************************************************************)
EXTENDS SafeManage, FiniteSetTheorems, TLAPS

\* Before the worker stores assessments there are none; then they are its own.
CaptureInv ==
    /\ ~At("idle") => Run \in Runs
    /\ \A r \in Runs : runs[r] = "unused" => \A p \in Projects : stored[r][p] = None
    /\ analyst.pc \in {"queued", "catalog", "sessions", "probe", "total"} =>
          analyst.done = {} /\ \A p \in Projects : stored[Run][p] = None
    /\ At("probe") => \A p \in analyst.todo : analyst.found[p] \in Evidence
    /\ At("assess") =>
          /\ \A p \in Projects : analyst.found[p] # None <=>
                                     p \in analyst.todo \cup analyst.done
          /\ \A p \in Projects : stored[Run][p] \in {None, analyst.found[p]}

\* Who has the gate.
AtWork == {"absent", "delete", "mark", "receipt", "walk", "finish", "derive",
           "incomplete", "settle"}
Building == {"check", "build", "recheck", "publish"}

GateInv ==
    /\ gate.writer # None => gate.readers = {}
    /\ At("probe") => gate.writer = "analyst"
    /\ planner.pc \in Building => gate.writer = "planner"
    /\ \A p \in Expandable : E(p).pc \in AtWork => p \in gate.readers

\* Rows, nodes, mark and receipt of a folder, and its expansion.
Walking == {"walk", "finish", "derive", "incomplete", "settle"}
NothingFound == {"queued", "absent", "delete", "mark", "receipt"}

ExpanderInv(p) ==
    /\ ~ExpanderAt(p, "idle") => E(p).req \in Requests
    /\ E(p).pc \in NothingFound => E(p).found = {}
    /\ ExpanderAt(p, "delete") => present[p] = {}
    /\ E(p).pc \in {"mark", "receipt"} => rows[p] = {}
    /\ ExpanderAt(p, "receipt") => ~whole[p]
    /\ E(p).pc \in Walking =>
          \/ receipt[p] = None
          \/ receipt[p].state \in {"running", "failed"} /\ rows[p] = E(p).found

ReceiptInv(p) ==
    receipt[p] # None /\ receipt[p].state = "completed" =>
        /\ proof[p] \in SUBSET Items
        /\ receipt[p].count = Cardinality(proof[p])
        /\ rows[p] = proof[p] \/ rows[p] = {} \/ ~whole[p]

PresentInv(p) ==
    ~ExpanderAt(p, "delete") /\ ~cut[p] => present[p] = rows[p]

FolderInv ==
    \A p \in Expandable : ExpanderInv(p) /\ ReceiptInv(p) /\ PresentInv(p)

\* What a plan job has asked for and read.
PlannerInv ==
    /\ planner.pc # "idle" =>
          /\ planner.project \in Projects /\ planner.req \in Requests
          /\ planner.choice = "clean" => planner.project \in Expandable
    /\ /\ planner.pc \in {"recheck", "publish"} /\ planner.choice = "clean"
       /\ catalog[planner.project] # "gone" /\ ~cut[planner.project]
       => planner.built = present[planner.project]

\* The types, by those who change them.
RunTypes ==
    /\ opened \in BOOLEAN
    /\ slot \in [run : Runs \cup {None}, held : BOOLEAN, cancel : BOOLEAN]
    /\ analyst \in Analysts
    /\ runs \in [Runs -> {"unused"} \cup Open \cup Closed]
    /\ stored \in [Runs -> [Projects -> Evidence \cup {None}]]

WorldTypes ==
    /\ catalog \in [Projects -> {"enabled", "rootless", "gone"}]
    /\ epoch \in Nat
    /\ git \in [Projects -> BOOLEAN]

GateTypes ==
    /\ gate \in [writer : {None, "analyst", "planner"},
                 readers : SUBSET Projects]
    /\ events \in 0..MaxEvents

FolderTypes ==
    /\ disk \in [Expandable -> SUBSET Items]
    /\ rows \in [Expandable -> SUBSET Items]
    /\ present \in [Expandable -> SUBSET Items]
    /\ whole \in [Expandable -> BOOLEAN]
    /\ receipt \in [Expandable -> Receipts \cup {None}]
    /\ proof \in [Expandable -> (SUBSET Items) \cup {None}]
    /\ cut \in [Expandable -> BOOLEAN]

JobTypes ==
    /\ decisions \in [Projects -> Decisions \cup {None}]
    /\ expander \in [Expandable -> Expanders]
    /\ planner \in Planners
    /\ asked \in 0..MaxJobs

IInv == TypeOK /\ CaptureInv /\ GateInv /\ FolderInv /\ PlannerInv

----------------------------------------------------------------------------
LEMMA TypeParts ==
    TypeOK <=> RunTypes /\ WorldTypes /\ GateTypes /\ FolderTypes /\ JobTypes
  BY DEF TypeOK, AnalysisTypeOK, RunTypes, WorldTypes, GateTypes, FolderTypes,
         JobTypes

LEMMA TypePartsNext ==
    TypeOK' <=> /\ RunTypes' /\ WorldTypes' /\ GateTypes' /\ FolderTypes'
                /\ JobTypes'
  BY DEF TypeOK, AnalysisTypeOK, RunTypes, WorldTypes, GateTypes, FolderTypes,
         JobTypes

LEMMA IdleTypes ==
    /\ NoAnalyst \in Analysts /\ NoExpander \in Expanders
    /\ NoPlanner \in Planners
    /\ NoSlot \in [run : Runs \cup {None}, held : BOOLEAN, cancel : BOOLEAN]
    /\ NobodyInGate \in [writer : {None, "analyst", "planner"},
                         readers : SUBSET Projects]
  <1>1. NoFindings \in [Projects -> Evidence \cup {None}]
    BY DEF NoFindings
  <1>2. NoAnalyst \in Analysts
    BY <1>1 DEF NoAnalyst, Analysts, Pcs
  <1>. QED
    BY <1>2 DEF NoExpander, Expanders, ExpanderPcs, NoPlanner, Planners,
                PlannerPcs, Choices, NoSlot, NobodyInGate

LEMMA InitHolds == Init => IInv
  <1> SUFFICES ASSUME Init PROVE IInv
    OBVIOUS
  <1> USE AnalysisAssumption, SafeManageAssumption DEF Init, AnalysisInit
  <1>1. TypeOK
    <2>1. RunTypes
      BY IdleTypes DEF RunTypes, NoFindings
    <2>2. WorldTypes /\ GateTypes
      BY IdleTypes DEF WorldTypes, GateTypes
    <2>3. FolderTypes
      BY DEF FolderTypes
    <2>4. JobTypes
      BY IdleTypes DEF JobTypes
    <2>. QED  BY <2>1, <2>2, <2>3, <2>4, TypeParts
  <1>2. CaptureInv
    BY DEF CaptureInv, At, Run, NoAnalyst, NoFindings
  <1>3. GateInv
    BY DEF GateInv, At, NoAnalyst, NobodyInGate, NoPlanner, NoExpander,
           Building, AtWork, E
  <1>4. FolderInv
    BY DEF FolderInv, ExpanderInv, ReceiptInv, PresentInv, ExpanderAt, E,
           NoExpander, NothingFound, Walking
  <1>5. PlannerInv
    BY DEF PlannerInv, NoPlanner
  <1>. QED  BY <1>1, <1>2, <1>3, <1>4, <1>5 DEF IInv

----------------------------------------------------------------------------
(***************************************************************************)
(* What a step leaves alone keeps its part of the invariant.               *)
(***************************************************************************)
LEMMA CaptureFrame ==
    CaptureInv /\ UNCHANGED <<analyst, runs, stored>> => CaptureInv'
  BY DEF CaptureInv, At, Run

LEMMA GateFrame ==
    GateInv /\ UNCHANGED <<gate, analyst, planner, expander>> => GateInv'
  BY DEF GateInv, At, E

LEMMA FolderFrame ==
    FolderInv /\ UNCHANGED <<folderVars, cut, expander>> => FolderInv'
  BY DEF FolderInv, ExpanderInv, ReceiptInv, PresentInv, ExpanderAt, E,
         folderVars

LEMMA PlannerFrame ==
    PlannerInv /\ UNCHANGED <<planner, catalog, cut, present>> => PlannerInv'
  BY DEF PlannerInv

\* A step of the analysis touches nothing else.
LEMMA RunSide ==
  ASSUME IInv, UNCHANGED <<worldVars, manageVars>>,
         RunTypes', GateTypes', CaptureInv', GateInv'
  PROVE  IInv'
  <1>1. WorldTypes' /\ FolderTypes' /\ JobTypes'
    BY TypeParts DEF IInv, worldVars, manageVars, folderVars, WorldTypes,
                     FolderTypes, JobTypes
  <1>2. TypeOK'
    BY <1>1, TypePartsNext
  <1>3. FolderInv' /\ PlannerInv'
    BY FolderFrame, PlannerFrame DEF IInv, worldVars, manageVars, folderVars
  <1>. QED  BY <1>2, <1>3 DEF IInv

\* The worker moves on without the gate and without the tables.
LEMMA GateSide ==
  ASSUME IInv, UNCHANGED <<gate, planner, expander>>, analyst'.pc # "probe"
  PROVE  GateInv'
  BY DEF IInv, GateInv, At, E

RunStates == {"unused"} \cup Open \cup Closed

LEMMA RunFacts ==
  ASSUME IInv
  PROVE  /\ RunTypes /\ CaptureInv /\ analyst \in Analysts
         /\ runs \in [Runs -> RunStates]
         /\ stored \in [Runs -> [Projects -> Evidence \cup {None}]]
         /\ ~At("idle") => Run \in Runs
  BY TypeParts DEF IInv, RunTypes, CaptureInv, RunStates

\* Once the worker is failing or closing, nothing is said of what it captured.
LEMMA Leaving ==
  ASSUME IInv, Run \in Runs, UNCHANGED <<opened, slot, stored>>,
         NEW pc \in {"closing", "failing"}, GoTo(pc),
         runs' = runs \/ \E s \in RunStates \ {"unused"} :
                            runs' = [runs EXCEPT ![Run] = s]
  PROVE  RunTypes' /\ CaptureInv' /\ analyst'.pc # "probe"
  <1>1. /\ runs' \in [Runs -> RunStates]
        /\ \A r \in Runs : runs'[r] = "unused" => runs[r] = "unused"
    BY RunFacts
  <1>2. analyst' \in Analysts /\ analyst'.pc = pc /\ analyst'.run = Run
    BY RunFacts DEF GoTo, Analysts, Pcs, Run
  <1>3. RunTypes'
    BY RunFacts, <1>1, <1>2 DEF RunTypes, RunStates
  <1>4. CaptureInv'
    BY RunFacts, <1>1, <1>2 DEF CaptureInv, At, Run
  <1>. QED  BY <1>2, <1>3, <1>4

LEMMA FinishCancelledKeeps ==
  ASSUME IInv, FinishCancelled, ~At("idle"), UNCHANGED <<opened, slot, stored>>
  PROVE  RunTypes' /\ CaptureInv' /\ analyst'.pc # "probe"
  <1>1. Run \in Runs
    BY RunFacts
  <1>2. CASE UNCHANGED runs /\ GoTo("failing")
    BY <1>1, <1>2, Leaving
  <1>3. CASE /\ \E s \in {"cancelled", "partial"} : runs' = [runs EXCEPT ![Run] = s]
             /\ GoTo("closing")
    BY <1>1, <1>3, Leaving DEF RunStates, Closed
  <1>. QED  BY <1>2, <1>3 DEF FinishCancelled

LEMMA StopsKeeps == IInv /\ Stops /\ Analysis => IInv'
  <1> SUFFICES ASSUME IInv, Stops, Analysis PROVE IInv'
    OBVIOUS
  <1>1. RunTypes' /\ CaptureInv' /\ analyst'.pc # "probe"
    BY FinishCancelledKeeps DEF Stops, At, Worker
  <1>2. GateInv'
    BY <1>1, GateSide DEF Stops, Analysis, manageVars
  <1>3. GateTypes'
    BY TypeParts DEF IInv, GateTypes, Stops, Quiet
  <1>. QED
    BY <1>1, <1>2, <1>3, RunSide DEF Stops, Worker, Analysis

\* FreeGate by the worker that holds the gate.
LEMMA GateFreed ==
  ASSUME IInv, At("probe"), FreeGate, UNCHANGED <<planner, expander>>,
         analyst'.pc # "probe", UNCHANGED events
  PROVE  GateTypes' /\ GateInv'
  <1>1. /\ gate \in [writer : {None, "analyst", "planner"}, readers : SUBSET Projects]
        /\ gate.writer = "analyst" /\ GateTypes /\ GateInv
    BY TypeParts DEF IInv, GateTypes, GateInv
  <1>2. gate' = [gate EXCEPT !.writer = None]
    BY DEF FreeGate
  <1>3. planner.pc \notin Building
    BY <1>1 DEF GateInv
  <1>. QED  BY <1>1, <1>2, <1>3 DEF GateTypes, GateInv, At, E

LEMMA StopsCaptureKeeps == IInv /\ StopsCapture /\ Analysis => IInv'
  <1> SUFFICES ASSUME IInv, StopsCapture, Analysis PROVE IInv'
    OBVIOUS
  <1>1. RunTypes' /\ CaptureInv' /\ analyst'.pc # "probe"
    BY FinishCancelledKeeps DEF StopsCapture, At, Worker
  <1>2. GateTypes' /\ GateInv'
    <2>1. CASE At("sessions") /\ UNCHANGED gate
      BY <1>1, <2>1, GateSide, TypeParts
         DEF StopsCapture, Analysis, manageVars, IInv, GateTypes, Quiet
    <2>2. CASE At("probe") /\ FreeGate
      BY <1>1, <2>2, GateFreed DEF StopsCapture, Analysis, manageVars, Quiet
    <2>. QED  BY <2>1, <2>2 DEF StopsCapture
  <1>. QED
    BY <1>1, <1>2, RunSide DEF StopsCapture, Worker, Analysis

\* save_run_header, in each of its three places.
LEMMA HeaderKeeps ==
  ASSUME IInv, NEW next \in {"catalog", "sessions"}, Header(next),
         analyst.pc \in {"queued", "catalog"}, UNCHANGED <<opened, slot, stored>>
  PROVE  RunTypes' /\ CaptureInv' /\ analyst'.pc # "probe"
  <1>1. Run \in Runs
    BY RunFacts DEF At
  <1>2. CASE UNCHANGED runs /\ GoTo("failing")
    BY <1>1, <1>2, Leaving
  <1>3. CASE runs' = [runs EXCEPT ![Run] = "running"] /\ GoTo(next)
    <2>1. analyst' \in Analysts /\ analyst'.pc = next /\ analyst'.run = Run
          /\ analyst'.done = analyst.done
      BY <1>3, RunFacts DEF GoTo, Analysts, Pcs, Run
    <2>2. /\ runs' \in [Runs -> RunStates]
          /\ \A r \in Runs : runs'[r] = "unused" => runs[r] = "unused"
      BY <1>3, RunFacts DEF RunStates, Open
    <2>. QED
      BY <1>1, <2>1, <2>2, RunFacts DEF RunTypes, RunStates, CaptureInv, At, Run
  <1>. QED  BY <1>2, <1>3 DEF Header

LEMMA HeaderSteps == IInv /\ (Begins \/ ReadsCatalog) /\ Analysis => IInv'
  <1> SUFFICES ASSUME IInv, Begins \/ ReadsCatalog, Analysis PROVE IInv'
    OBVIOUS
  <1>1. RunTypes' /\ CaptureInv' /\ analyst'.pc # "probe"
    BY HeaderKeeps DEF Begins, ReadsCatalog, At, Worker
  <1>2. GateTypes' /\ GateInv'
    BY <1>1, GateSide, TypeParts
       DEF Begins, ReadsCatalog, Analysis, manageVars, IInv, GateTypes, Quiet
  <1>. QED
    BY <1>1, <1>2, RunSide DEF Begins, ReadsCatalog, Worker, Analysis

LEMMA CapturesKeeps == IInv /\ Captures /\ Analysis => IInv'
  <1> SUFFICES ASSUME IInv, Captures, Analysis PROVE IInv'
    OBVIOUS
  <1>0. /\ Run \in Runs /\ UNCHANGED <<opened, slot, runs, stored, worldVars, events>>
        /\ RunTypes /\ WorldTypes /\ GateTypes /\ GateInv /\ CaptureInv
    BY RunFacts, TypeParts DEF Captures, At, Worker, StaysInDb, Quiet, IInv
  <1>1. /\ analyst'.pc = "probe" /\ analyst'.run = Run
        /\ analyst'.done = analyst.done /\ analyst'.todo = Listed
        /\ analyst'.found = [p \in Projects |->
                               IF p \in Listed THEN [epoch |-> epoch, git |-> FALSE]
                               ELSE None]
    BY RunFacts DEF Captures, Analysts, Run
  <1>2. \A p \in Listed : analyst'.found[p] \in Evidence
    BY <1>0, <1>1 DEF Evidence, Listed, WorldTypes
  <1>3. analyst' \in Analysts
    <2>1. analyst'.found \in [Projects -> Evidence \cup {None}]
      BY <1>1, <1>2
    <2>. QED  BY <1>0, <1>1, <2>1, RunFacts DEF Captures, Analysts, Pcs, Listed
  <1>4. RunTypes'
    BY <1>0, <1>3 DEF RunTypes
  <1>5. CaptureInv'
    BY <1>0, <1>1, <1>2 DEF CaptureInv, At, Run, Captures
  <1>6. GateTypes' /\ GateInv'
    <2>1. /\ gate.writer = None /\ gate.readers = {}
          /\ gate' = [gate EXCEPT !.writer = "analyst"]
      BY DEF Captures, TakeGate, GateFree
    <2>2. planner.pc \notin Building
      BY <1>0, <2>1, AnalysisAssumption DEF GateInv
    <2>. QED
      BY <1>0, <2>1, <2>2 DEF GateTypes, GateInv, At, E, Analysis, manageVars
  <1>. QED
    BY <1>0, <1>4, <1>5, <1>6, RunSide DEF Analysis

LEMMA ProbesKeeps ==
  ASSUME NEW p \in Projects, IInv, Probes(p), Analysis PROVE IInv'
  <1>0. /\ Run \in Runs /\ UNCHANGED <<opened, slot, runs, stored, worldVars, events, gate>>
        /\ RunTypes /\ WorldTypes /\ GateTypes /\ GateInv /\ CaptureInv
        /\ analyst.pc = "probe" /\ p \in analyst.todo
    BY RunFacts, TypeParts DEF Probes, At, Worker, StaysInDb, Quiet, IInv
  <1>1. analyst.found[p] \in Evidence
    BY <1>0 DEF CaptureInv, At
  <1>2. [analyst.found[p] EXCEPT !.git = git[p]] \in Evidence
    BY <1>0, <1>1 DEF Evidence, WorldTypes
  <1>3. /\ analyst'.pc = "probe" /\ analyst'.run = Run
        /\ analyst'.done = analyst.done /\ analyst'.todo = analyst.todo \ {p}
        /\ analyst'.found = [analyst.found EXCEPT ![p] =
                                [analyst.found[p] EXCEPT !.git = git[p]]]
    BY <1>0, RunFacts DEF Probes, Analysts, Run
  <1>4. analyst' \in Analysts
    BY <1>0, <1>2, <1>3, RunFacts DEF Analysts, Probes
  <1>5. RunTypes'
    BY <1>0, <1>4 DEF RunTypes
  <1>6. CaptureInv'
    BY <1>0, <1>2, <1>3, RunFacts DEF CaptureInv, At, Run, Analysts
  <1>7. GateTypes' /\ GateInv'
    BY <1>0, <1>3 DEF GateTypes, GateInv, At, E, Analysis, manageVars
  <1>. QED
    BY <1>0, <1>5, <1>6, <1>7, RunSide DEF Analysis

LEMMA CapturedKeeps == IInv /\ Captured /\ Analysis => IInv'
  <1> SUFFICES ASSUME IInv, Captured, Analysis PROVE IInv'
    OBVIOUS
  <1>0. /\ Run \in Runs /\ UNCHANGED <<opened, slot, runs, stored, worldVars, events>>
        /\ RunTypes /\ CaptureInv /\ At("probe")
    BY RunFacts DEF Captured, At, Worker, StaysInDb, Quiet, IInv
  <1>1. /\ analyst' \in Analysts /\ analyst'.pc = "total" /\ analyst'.run = Run
        /\ analyst'.done = analyst.done
    BY RunFacts DEF Captured, GoTo, Analysts, Pcs, Run
  <1>2. RunTypes' /\ CaptureInv'
    BY <1>0, <1>1 DEF RunTypes, CaptureInv, At, Run
  <1>3. GateTypes' /\ GateInv'
    BY <1>0, <1>1, GateFreed DEF Captured, Analysis, manageVars
  <1>. QED  BY <1>0, <1>2, <1>3, RunSide DEF Analysis

LEMMA SavesTotalKeeps == IInv /\ SavesTotal /\ Analysis => IInv'
  <1> SUFFICES ASSUME IInv, SavesTotal, Analysis PROVE IInv'
    OBVIOUS
  <1>0. /\ Run \in Runs /\ UNCHANGED <<opened, slot, stored, worldVars, events, gate>>
        /\ RunTypes /\ CaptureInv /\ At("total")
    BY RunFacts DEF SavesTotal, At, Worker, Quiet, IInv
  <1>1. RunTypes' /\ CaptureInv' /\ analyst'.pc # "probe"
    <2>1. CASE UNCHANGED runs /\ GoTo("failing")
      BY <1>0, <2>1, Leaving
    <2>2. CASE ~(UNCHANGED runs /\ GoTo("failing"))
      <3>1. /\ runs' = [runs EXCEPT ![Run] = "running"]
            /\ analyst' = [analyst EXCEPT !.pc = "assess",
                 !.todo = {p \in Projects : analyst.found[p] # None}]
        BY <2>2 DEF SavesTotal
      <3>2. /\ analyst' \in Analysts /\ analyst'.pc = "assess"
            /\ analyst'.run = Run /\ analyst'.done = analyst.done
            /\ analyst'.found = analyst.found
            /\ analyst'.todo = {p \in Projects : analyst.found[p] # None}
        BY <3>1, RunFacts DEF Analysts, Pcs, Run
      <3>3. /\ runs' \in [Runs -> RunStates]
            /\ \A r \in Runs : runs'[r] = "unused" => runs[r] = "unused"
        BY <3>1, RunFacts DEF RunStates, Open
      <3>. QED
        BY <1>0, <3>2, <3>3 DEF RunTypes, RunStates, CaptureInv, At, Run
    <2>. QED  BY <2>1, <2>2
  <1>2. GateTypes' /\ GateInv'
    BY <1>0, <1>1, GateSide, TypeParts DEF Analysis, manageVars, IInv, GateTypes
  <1>. QED  BY <1>0, <1>1, <1>2, RunSide DEF Analysis

LEMMA AppendsKeeps ==
  ASSUME NEW p \in Projects, IInv, Appends(p), Analysis PROVE IInv'
  <1>0. /\ Run \in Runs /\ UNCHANGED <<opened, slot, runs, worldVars, events, gate>>
        /\ RunTypes /\ CaptureInv /\ At("assess") /\ p \in analyst.todo
    BY RunFacts DEF Appends, At, Worker, Quiet, IInv
  <1>1. RunTypes' /\ CaptureInv' /\ analyst'.pc # "probe"
    <2>1. CASE UNCHANGED stored /\ GoTo("failing")
      BY <1>0, <2>1, Leaving
    <2>2. CASE ~(UNCHANGED stored /\ GoTo("failing"))
      <3>1. /\ runs[Run] = "running"
            /\ stored' = [stored EXCEPT ![Run][p] = analyst.found[p]]
            /\ analyst' = [analyst EXCEPT !.todo = @ \ {p}, !.done = @ \cup {p}]
        BY <2>2 DEF Appends
      <3>2. /\ analyst' \in Analysts /\ analyst'.pc = "assess"
            /\ analyst'.run = Run /\ analyst'.done = analyst.done \cup {p}
            /\ analyst'.found = analyst.found
            /\ analyst'.todo = analyst.todo \ {p}
        BY <1>0, <3>1, RunFacts DEF Analysts, Pcs, Run, At
      <3>3. /\ stored' \in [Runs -> [Projects -> Evidence \cup {None}]]
            /\ \A r \in Runs : r # Run => stored'[r] = stored[r]
            /\ \A q \in Projects : stored'[Run][q] =
                  IF q = p THEN analyst.found[p] ELSE stored[Run][q]
        BY <1>0, <3>1, RunFacts DEF Analysts
      <3>. QED
        BY <1>0, <3>1, <3>2, <3>3 DEF RunTypes, CaptureInv, At, Run
    <2>. QED  BY <2>1, <2>2
  <1>2. GateTypes' /\ GateInv'
    BY <1>0, <1>1, GateSide, TypeParts DEF Analysis, manageVars, IInv, GateTypes
  <1>. QED  BY <1>0, <1>1, <1>2, RunSide DEF Analysis

LEMMA EndsKeep == IInv /\ (Completes \/ Fails) /\ Analysis => IInv'
  <1> SUFFICES ASSUME IInv, Completes \/ Fails, Analysis PROVE IInv'
    OBVIOUS
  <1>0. Run \in Runs /\ UNCHANGED <<opened, slot, stored, worldVars, events, gate>>
    BY RunFacts DEF Completes, Fails, At, Worker, Quiet
  <1>1. \E pc \in {"closing", "failing"} :
          /\ GoTo(pc)
          /\ runs' = runs \/ \E s \in RunStates \ {"unused"} :
                                 runs' = [runs EXCEPT ![Run] = s]
    BY DEF Completes, Fails, RunStates, Closed
  <1>2. RunTypes' /\ CaptureInv' /\ analyst'.pc # "probe"
    BY <1>0, <1>1, Leaving
  <1>3. GateTypes' /\ GateInv'
    BY <1>0, <1>2, GateSide, TypeParts DEF Analysis, manageVars, IInv, GateTypes
  <1>. QED  BY <1>0, <1>2, <1>3, RunSide DEF Analysis

LEMMA FreesKeeps == IInv /\ Frees /\ Analysis => IInv'
  <1> SUFFICES ASSUME IInv, Frees, Analysis PROVE IInv'
    OBVIOUS
  <1>0. /\ UNCHANGED <<opened, runs, stored, worldVars, events, gate>>
        /\ slot' = NoSlot /\ analyst' = NoAnalyst
    BY DEF Frees, StaysInDb, Quiet
  <1>1. RunTypes' /\ CaptureInv' /\ analyst'.pc # "probe"
    BY <1>0, RunFacts, IdleTypes DEF RunTypes, CaptureInv, At, Run, NoAnalyst
  <1>3. GateTypes' /\ GateInv'
    BY <1>0, <1>1, GateSide, TypeParts DEF Analysis, manageVars, IInv, GateTypes
  <1>. QED  BY <1>0, <1>1, <1>3, RunSide DEF Analysis

LEMMA DbFailsKeeps == IInv /\ DbFails /\ Analysis => IInv'
  <1> SUFFICES ASSUME IInv, DbFails, Analysis PROVE IInv'
    OBVIOUS
  <1>0. /\ Run \in Runs /\ UNCHANGED <<opened, slot, runs, stored, worldVars>>
        /\ \E pc \in {"closing", "failing"} : GoTo(pc)
        /\ events' \in 0..MaxEvents /\ GateTypes
    BY RunFacts, TypeParts, AnalysisAssumption
       DEF DbFails, At, Worker, StaysInDb, Event, IInv, GateTypes
  <1>2. RunTypes' /\ CaptureInv' /\ analyst'.pc # "probe"
    BY <1>0, Leaving
  <1>3. GateTypes' /\ GateInv'
    <2>1. CASE UNCHANGED gate
      BY <1>0, <1>2, <2>1, GateSide DEF Analysis, manageVars, GateTypes
    <2>2. CASE At("probe") /\ FreeGate
      <3>1. /\ gate.writer = "analyst" /\ GateInv
            /\ gate' = [gate EXCEPT !.writer = None]
        BY <2>2 DEF IInv, GateInv, FreeGate
      <3>2. planner.pc \notin Building
        BY <3>1 DEF GateInv
      <3>. QED
        BY <1>0, <1>2, <3>1, <3>2 DEF GateTypes, GateInv, At, E, Analysis, manageVars
    <2>. QED  BY <2>1, <2>2 DEF DbFails
  <1>. QED  BY <1>0, <1>2, <1>3, RunSide DEF Analysis

LEMMA StartAnalysisKeeps ==
  ASSUME NEW r \in Runs, IInv, StartAnalysis(r), Analysis PROVE IInv'
  <1>0. /\ UNCHANGED <<opened, stored, worldVars, gate, events>>
        /\ slot' = [run |-> r, held |-> TRUE, cancel |-> FALSE]
        /\ runs' = [runs EXCEPT ![r] = "queued"] /\ runs[r] = "unused"
        /\ analyst' = [NoAnalyst EXCEPT !.pc = "queued", !.run = r]
    BY DEF StartAnalysis, Quiet
  <1>1. /\ analyst' \in Analysts /\ analyst'.pc = "queued" /\ analyst'.run = r
        /\ analyst'.done = {}
    BY <1>0, IdleTypes DEF Analysts, NoAnalyst, Pcs
  <1>2. RunTypes' /\ CaptureInv' /\ analyst'.pc # "probe"
    BY <1>0, <1>1, RunFacts DEF RunTypes, CaptureInv, At, Run, Open
  <1>3. GateTypes' /\ GateInv'
    BY <1>0, <1>2, GateSide, TypeParts DEF Analysis, manageVars, IInv, GateTypes
  <1>. QED  BY <1>0, <1>2, <1>3, RunSide DEF Analysis

LEMMA SlotKeeps ==
    IInv /\ (StartTooEarly \/ CancelAnalysis) /\ Analysis => IInv'
  <1> SUFFICES ASSUME IInv, StartTooEarly \/ CancelAnalysis, Analysis PROVE IInv'
    OBVIOUS
  <1>0. UNCHANGED <<opened, analyst, runs, stored, worldVars, gate>>
    BY DEF StartTooEarly, CancelAnalysis
  <1>1. slot' \in [run : Runs \cup {None}, held : BOOLEAN, cancel : BOOLEAN]
    BY RunFacts, IdleTypes DEF StartTooEarly, CancelAnalysis, RunTypes
  <1>2. RunTypes' /\ CaptureInv'
    BY <1>0, <1>1, RunFacts, CaptureFrame DEF RunTypes
  <1>3. GateTypes' /\ GateInv'
    BY <1>0, GateFrame, TypeParts, AnalysisAssumption
       DEF Analysis, manageVars, IInv, GateTypes, StartTooEarly, CancelAnalysis,
           Quiet, Event
  <1>. QED  BY <1>0, <1>2, <1>3, RunSide DEF Analysis

LEMMA AnalystMovesKeep == IInv /\ AnalystMoves => IInv'
  BY StopsKeeps, StopsCaptureKeeps, HeaderSteps, CapturesKeeps, ProbesKeeps,
     CapturedKeeps, SavesTotalKeeps, AppendsKeeps, EndsKeep, FreesKeeps
     DEF AnalystMoves, AnalystStep

----------------------------------------------------------------------------
(***************************************************************************)
(* Steps of an expansion.                                                  *)
(***************************************************************************)
FolderFacts(p) ==
    /\ E(p) \in Expanders
    /\ rows[p] \subseteq Items /\ present[p] \subseteq Items
    /\ receipt[p] \in Receipts \cup {None}
    /\ ExpanderInv(p) /\ ReceiptInv(p) /\ PresentInv(p)
    /\ E(p).pc \in AtWork => p \in gate.readers /\ planner.pc \notin Building

LEMMA Facts ==
  ASSUME IInv, NEW p \in Expandable
  PROVE  /\ FolderFacts(p) /\ FolderTypes /\ JobTypes /\ WorldTypes /\ GateTypes
         /\ RunTypes
  BY TypeParts, AnalysisAssumption
     DEF IInv, FolderTypes, JobTypes, FolderFacts, FolderInv, GateInv, E

\* Nothing changes for the other folders.
Elsewhere(p) ==
    \A q \in Expandable \ {p} :
        /\ expander'[q] = expander[q]
        /\ rows'[q] = rows[q] /\ present'[q] = present[q]
        /\ whole'[q] = whole[q] /\ receipt'[q] = receipt[q]
        /\ proof'[q] = proof[q] /\ cut'[q] = cut[q]

LEMMA FolderOne ==
  ASSUME IInv, NEW p \in Expandable, Elsewhere(p),
         ExpanderInv(p)', ReceiptInv(p)', PresentInv(p)'
  PROVE  FolderInv'
  <1> SUFFICES ASSUME NEW q \in Expandable \ {p}
               PROVE  (ExpanderInv(q) /\ ReceiptInv(q) /\ PresentInv(q))'
    BY DEF FolderInv
  <1>1. ExpanderInv(q) /\ ReceiptInv(q) /\ PresentInv(q)
    BY DEF IInv, FolderInv
  <1>. QED  BY <1>1 DEF Elsewhere, ExpanderInv, ReceiptInv, PresentInv, ExpanderAt, E

\* The gate, when the thread stays at work, and when it ends.
LEMMA GateStays ==
  ASSUME IInv, NEW p \in Expandable, Elsewhere(p),
         E(p).pc \in AtWork \/ E(p)'.pc \notin AtWork,
         UNCHANGED <<gate, analyst, planner>>
  PROVE  GateInv'
  BY DEF IInv, GateInv, Elsewhere, At, E

LEMMA GateLeft ==
  ASSUME IInv, NEW p \in Expandable, EndsExpansion(p),
         UNCHANGED <<analyst, planner, events>>
  PROVE  /\ GateTypes' /\ GateInv' /\ expander' \in [Expandable -> Expanders]
         /\ E(p)' = NoExpander
         /\ \A q \in Expandable \ {p} : expander'[q] = expander[q]
  <1>1. /\ gate' = [gate EXCEPT !.readers = @ \ {p}]
        /\ expander' = [expander EXCEPT ![p] = NoExpander]
        /\ GateTypes /\ GateInv /\ expander \in [Expandable -> Expanders]
    BY Facts DEF EndsExpansion, Becomes, IInv, JobTypes
  <1>2. GateTypes'
    BY <1>1 DEF GateTypes
  <1>3. /\ expander' \in [Expandable -> Expanders] /\ E(p)' = NoExpander
        /\ \A q \in Expandable \ {p} : expander'[q] = expander[q]
    BY <1>1, IdleTypes DEF E
  <1>4. /\ gate'.writer = gate.writer
        /\ gate'.readers = gate.readers \ {p}
    BY <1>1 DEF GateTypes
  <1>5. GateInv'
    BY <1>1, <1>3, <1>4 DEF GateInv, At, E, NoExpander, AtWork
  <1>. QED  BY <1>2, <1>3, <1>5

\* What an expansion leaves alone.
LEMMA ExpanderSide ==
  ASSUME IInv, Aside, FolderTypes', GateTypes', GateInv', FolderInv',
         expander' \in [Expandable -> Expanders], asked' \in 0..MaxJobs,
         \/ planner.pc \notin Building
         \/ UNCHANGED <<present, cut>>
  PROVE  IInv'
  <1>1. RunTypes' /\ WorldTypes'
    BY TypeParts DEF IInv, Aside, analysisVars, worldVars, RunTypes, WorldTypes
  <1>2. JobTypes'
    BY TypeParts DEF IInv, Aside, JobTypes
  <1>3. CaptureInv'
    BY CaptureFrame DEF IInv, Aside, analysisVars
  <1>4. PlannerInv'
    BY DEF IInv, PlannerInv, Aside, worldVars, Building
  <1>. QED  BY <1>1, <1>2, <1>3, <1>4, TypePartsNext DEF IInv

LEMMA BecomesOne ==
  ASSUME IInv, NEW p \in Expandable, NEW e \in Expanders, Becomes(p, e)
  PROVE  /\ expander' \in [Expandable -> Expanders] /\ E(p)' = e
         /\ \A q \in Expandable \ {p} : expander'[q] = expander[q]
  BY Facts DEF JobTypes, Becomes, E

\* The steps that only move the thread on.
LEMMA MoveKeeps ==
  ASSUME IInv, NEW p \in Expandable, NEW e \in Expanders, Becomes(p, e),
         Aside, UNCHANGED <<gate, folderVars, cut>>,
         events' \in 0..MaxEvents, asked' \in 0..MaxJobs,
         E(p).pc \in AtWork \/ e.pc \notin AtWork,
         e.pc \notin {"delete", "mark", "receipt"} \/ e.pc = E(p).pc,
         ~ExpanderAt(p, "delete") \/ e.pc = E(p).pc,
         e.pc \in Walking => E(p).pc \in Walking /\ e.found = E(p).found,
         e.pc \in NothingFound => e.found = {},
         e.pc # "idle" => e.req \in Requests
  PROVE  IInv'
  <1>1. /\ expander' \in [Expandable -> Expanders] /\ E(p)' = e
        /\ \A q \in Expandable \ {p} : expander'[q] = expander[q]
    BY BecomesOne
  <1>2. Elsewhere(p)
    BY <1>1 DEF Elsewhere, folderVars
  <1>3. ExpanderInv(p)' /\ ReceiptInv(p)' /\ PresentInv(p)'
    BY <1>1, Facts DEF FolderFacts, folderVars, ExpanderInv, ReceiptInv,
       PresentInv, ExpanderAt, Walking, NothingFound
  <1>4. FolderInv'
    BY <1>2, <1>3, FolderOne
  <1>5. GateInv' /\ GateTypes'
    BY <1>1, <1>2, GateStays, Facts DEF Aside, analysisVars, GateTypes
  <1>6. FolderTypes'
    BY Facts DEF FolderTypes, folderVars, Aside
  <1>. QED
    BY <1>1, <1>4, <1>5, <1>6, ExpanderSide DEF folderVars

LEMMA AskKeeps ==
  ASSUME IInv, NEW p \in Expandable, NEW r \in Runs, AskExpansion(p, r)
  PROVE  IInv'
  <1>1. Request(r, p) \in Requests
    BY Facts, SafeManageAssumption
       DEF AskExpansion, MayExpand, Bound, Request, Requests, RunTypes
  <1>2. asked' \in 0..MaxJobs
    BY Facts, SafeManageAssumption DEF AskExpansion, Ask, JobTypes
  <1>3. DEFINE e == [NoExpander EXCEPT !.pc = "queued", !.req = Request(r, p)]
  <1>4. e \in Expanders /\ e.pc = "queued" /\ e.found = {} /\ e.req = Request(r, p)
    BY <1>1, IdleTypes DEF Expanders, ExpanderPcs, NoExpander
  <1>5. Becomes(p, e) /\ ExpanderAt(p, "idle") /\ Aside
        /\ UNCHANGED <<gate, events, folderVars, cut>>
    BY DEF AskExpansion
  <1>6. events' \in 0..MaxEvents
    BY <1>5, Facts DEF GateTypes
  <1> HIDE DEF e
  <1>. QED
    BY <1>1, <1>2, <1>4, <1>5, <1>6, MoveKeeps
       DEF AtWork, Walking, NothingFound, ExpanderAt

LEMMA StopExpansionKeeps ==
  ASSUME IInv, NEW p \in Expandable, StopExpansion(p) PROVE IInv'
  <1>1. DEFINE e == [E(p) EXCEPT !.cancel = TRUE]
  <1>2. e \in Expanders /\ e.pc = E(p).pc /\ e.found = E(p).found /\ e.req = E(p).req
    BY Facts DEF FolderFacts, Expanders
  <1>3. Becomes(p, e) /\ Aside /\ UNCHANGED <<gate, events, folderVars, cut, asked>>
    BY DEF StopExpansion
  <1>4. events' \in 0..MaxEvents /\ asked' \in 0..MaxJobs
    BY <1>3, Facts DEF GateTypes, JobTypes
  <1> HIDE DEF e
  <1>. QED
    BY <1>2, <1>3, <1>4, MoveKeeps, Facts
       DEF FolderFacts, ExpanderInv, ExpanderAt, NothingFound, Walking, AtWork

\* The thread ends, and the folder is as it was or as its receipt says.
LEMMA EndKeeps ==
  ASSUME IInv, NEW p \in Expandable, EndsExpansion(p), Aside, FolderTypes',
         UNCHANGED events, asked' \in 0..MaxJobs, Elsewhere(p),
         ReceiptInv(p)', PresentInv(p)',
         planner.pc \notin Building \/ UNCHANGED <<present, cut>>
  PROVE  IInv'
  <1>1. /\ GateTypes' /\ GateInv' /\ expander' \in [Expandable -> Expanders]
        /\ E(p)' = NoExpander
    BY GateLeft DEF Aside, analysisVars
  <1>2. ExpanderInv(p)'
    BY <1>1 DEF ExpanderInv, ExpanderAt, NoExpander, NothingFound, Walking
  <1>3. FolderInv'
    BY <1>2, FolderOne
  <1>. QED  BY <1>1, <1>3, ExpanderSide

LEMMA EntersKeeps ==
  ASSUME IInv, NEW p \in Expandable, Enters(p) PROVE IInv'
  <1>0. /\ E(p).pc = "queued" /\ Readable /\ Aside
        /\ UNCHANGED <<events, folderVars, cut, asked>>
        /\ FolderTypes' /\ asked' \in 0..MaxJobs
    BY Facts DEF Enters, ExpanderAt, Aside, FolderTypes, folderVars, JobTypes
  <1>1. CASE EndsExpansion(p)
    <2>1. E(p)' = NoExpander /\ \A q \in Expandable \ {p} : expander'[q] = expander[q]
      BY <1>0, <1>1, GateLeft DEF Aside, analysisVars
    <2>2. Elsewhere(p) /\ ReceiptInv(p)' /\ PresentInv(p)'
      BY <1>0, <2>1, Facts DEF Elsewhere, folderVars, FolderFacts, ReceiptInv,
         PresentInv, ExpanderAt, NoExpander
    <2>. QED  BY <1>0, <1>1, <2>2, EndKeeps DEF folderVars
  <1>2. CASE /\ gate' = [gate EXCEPT !.readers = @ \cup {p}]
             /\ Next_(p, "absent")
    <2>1. [E(p) EXCEPT !.pc = "absent"] \in Expanders
      BY Facts DEF FolderFacts, Expanders, ExpanderPcs
    <2>2. /\ expander' \in [Expandable -> Expanders]
          /\ E(p)' = [E(p) EXCEPT !.pc = "absent"]
          /\ \A q \in Expandable \ {p} : expander'[q] = expander[q]
      BY <1>2, <2>1, BecomesOne DEF Next_
    <2>3. /\ E(p)'.pc = "absent" /\ E(p)'.found = E(p).found /\ E(p)'.req = E(p).req
      BY <2>2, Facts DEF FolderFacts, Expanders
    <2>4. Elsewhere(p)
      BY <1>0, <2>2 DEF Elsewhere, folderVars
    <2>5. ExpanderInv(p)' /\ ReceiptInv(p)' /\ PresentInv(p)'
      BY <1>0, <2>3, Facts DEF FolderFacts, folderVars, ExpanderInv, ReceiptInv,
         PresentInv, ExpanderAt, Walking, NothingFound
    <2>6. FolderInv'
      BY <2>4, <2>5, FolderOne
    <2>7. /\ gate.writer = None /\ gate'.writer = gate.writer
          /\ gate'.readers = gate.readers \cup {p} /\ GateTypes'
      BY <1>0, <1>2, Facts, SafeManageAssumption DEF GateTypes, Readable
    <2>8. GateInv'
      BY <1>0, <2>2, <2>3, <2>7
         DEF IInv, GateInv, At, E, Aside, analysisVars, AtWork
    <2>. QED
      BY <1>0, <2>2, <2>6, <2>7, <2>8, ExpanderSide DEF folderVars
  <1>. QED  BY <1>1, <1>2 DEF Enters

\* A thread at work changes its folder and goes on.
LEMMA WorkKeeps ==
  ASSUME IInv, NEW p \in Expandable, E(p).pc \in AtWork, Aside,
         expander' \in [Expandable -> Expanders], FolderTypes', Elsewhere(p),
         UNCHANGED <<gate, events, asked>>,
         ExpanderInv(p)', ReceiptInv(p)', PresentInv(p)'
  PROVE  IInv'
  <1>1. FolderInv'
    BY FolderOne
  <1>2. GateInv' /\ GateTypes'
    BY GateStays, Facts DEF Aside, analysisVars, GateTypes
  <1>3. asked' \in 0..MaxJobs /\ planner.pc \notin Building
    BY Facts DEF JobTypes, FolderFacts
  <1>. QED  BY <1>1, <1>2, <1>3, ExpanderSide

\* Where a step leaves its thread.
LEMMA NextOne ==
  ASSUME IInv, NEW p \in Expandable, NEW pc \in ExpanderPcs, Next_(p, pc)
  PROVE  /\ expander' \in [Expandable -> Expanders]
         /\ E(p)'.pc = pc /\ E(p)'.req = E(p).req /\ E(p)'.found = E(p).found
         /\ \A q \in Expandable \ {p} : expander'[q] = expander[q]
  <1>1. /\ [E(p) EXCEPT !.pc = pc] \in Expanders
        /\ [E(p) EXCEPT !.pc = pc].pc = pc
        /\ [E(p) EXCEPT !.pc = pc].req = E(p).req
        /\ [E(p) EXCEPT !.pc = pc].found = E(p).found
    BY Facts DEF FolderFacts, Expanders
  <1>. QED  BY <1>1, BecomesOne DEF Next_

LEMMA MarksAbsentKeeps ==
  ASSUME IInv, NEW p \in Expandable, MarksAbsent(p) PROVE IInv'
  <1>0. /\ E(p).pc = "absent" /\ Aside
        /\ present' = [present EXCEPT ![p] = {}]
        /\ UNCHANGED <<gate, events, rows, whole, receipt, proof, cut, asked>>
    BY DEF MarksAbsent, ExpanderAt
  <1>1. /\ expander' \in [Expandable -> Expanders]
        /\ E(p)'.pc = "delete" /\ E(p)'.req = E(p).req /\ E(p)'.found = E(p).found
        /\ \A q \in Expandable \ {p} : expander'[q] = expander[q]
    BY NextOne DEF MarksAbsent, ExpanderPcs
  <1>2. FolderTypes' /\ Elsewhere(p)
    BY <1>0, <1>1, Facts DEF FolderTypes, Elsewhere, Aside
  <1>3. ExpanderInv(p)' /\ ReceiptInv(p)' /\ PresentInv(p)'
    BY <1>0, <1>1, Facts DEF FolderFacts, FolderTypes, ExpanderInv, ReceiptInv,
       PresentInv, ExpanderAt, Walking, NothingFound
  <1>. QED  BY <1>0, <1>1, <1>2, <1>3, WorkKeeps DEF AtWork

LEMMA DeletesRowsKeeps ==
  ASSUME IInv, NEW p \in Expandable, DeletesRows(p) PROVE IInv'
  <1>0. /\ E(p).pc = "delete" /\ Aside
        /\ rows' = [rows EXCEPT ![p] = {}]
        /\ cut' = [cut EXCEPT ![p] = FALSE]
        /\ UNCHANGED <<gate, events, present, whole, receipt, proof, asked>>
    BY DEF DeletesRows, ExpanderAt
  <1>1. /\ expander' \in [Expandable -> Expanders]
        /\ E(p)'.pc = "mark" /\ E(p)'.req = E(p).req /\ E(p)'.found = E(p).found
        /\ \A q \in Expandable \ {p} : expander'[q] = expander[q]
    BY NextOne DEF DeletesRows, ExpanderPcs
  <1>2. FolderTypes' /\ Elsewhere(p)
    BY <1>0, <1>1, Facts DEF FolderTypes, Elsewhere, Aside
  <1>3. ExpanderInv(p)' /\ ReceiptInv(p)' /\ PresentInv(p)'
    BY <1>0, <1>1, Facts DEF FolderFacts, FolderTypes, ExpanderInv, ReceiptInv,
       PresentInv, ExpanderAt, Walking, NothingFound
  <1>. QED  BY <1>0, <1>1, <1>2, <1>3, WorkKeeps DEF AtWork

LEMMA MarksIncompleteKeeps ==
  ASSUME IInv, NEW p \in Expandable, MarksIncomplete(p) PROVE IInv'
  <1>0. /\ E(p).pc = "mark" /\ Aside
        /\ whole' = [whole EXCEPT ![p] = FALSE]
        /\ UNCHANGED <<gate, events, rows, present, receipt, proof, cut, asked>>
    BY DEF MarksIncomplete, ExpanderAt
  <1>1. /\ expander' \in [Expandable -> Expanders]
        /\ E(p)'.pc = "receipt" /\ E(p)'.req = E(p).req /\ E(p)'.found = E(p).found
        /\ \A q \in Expandable \ {p} : expander'[q] = expander[q]
    BY NextOne DEF MarksIncomplete, ExpanderPcs
  <1>2. FolderTypes' /\ Elsewhere(p)
    BY <1>0, <1>1, Facts DEF FolderTypes, Elsewhere, Aside
  <1>3. ExpanderInv(p)' /\ ReceiptInv(p)' /\ PresentInv(p)'
    BY <1>0, <1>1, Facts DEF FolderFacts, FolderTypes, ExpanderInv, ReceiptInv,
       PresentInv, ExpanderAt, Walking, NothingFound
  <1>. QED  BY <1>0, <1>1, <1>2, <1>3, WorkKeeps DEF AtWork

LEMMA OpensReceiptKeeps ==
  ASSUME IInv, NEW p \in Expandable, OpensReceipt(p) PROVE IInv'
  <1>0. /\ E(p).pc = "receipt" /\ Aside
        /\ UNCHANGED <<events, rows, present, whole, cut, asked>>
    BY DEF OpensReceipt, ExpanderAt
  <1>1. CASE EndsExpansion(p) /\ UNCHANGED <<receipt, proof>>
    <2>1. E(p)' = NoExpander /\ \A q \in Expandable \ {p} : expander'[q] = expander[q]
      BY <1>0, <1>1, GateLeft DEF Aside, analysisVars
    <2>2. /\ Elsewhere(p) /\ ReceiptInv(p)' /\ PresentInv(p)'
          /\ FolderTypes' /\ asked' \in 0..MaxJobs
      BY <1>0, <1>1, <2>1, Facts DEF Elsewhere, FolderFacts, ReceiptInv, Aside,
         PresentInv, ExpanderAt, NoExpander, FolderTypes, JobTypes
    <2>. QED  BY <1>0, <1>1, <2>2, EndKeeps
  <1>2. CASE ~(EndsExpansion(p) /\ UNCHANGED <<receipt, proof>>)
    <2>0. DEFINE new == [req |-> E(p).req, state |-> "running", count |-> 0]
                 e == [E(p) EXCEPT !.pc = "walk", !.left = Items]
    <2>1. /\ receipt' = [receipt EXCEPT ![p] = new]
          /\ proof' = [proof EXCEPT ![p] = None]
          /\ Becomes(p, e) /\ UNCHANGED gate
      BY <1>2 DEF OpensReceipt
    <2>2. /\ e \in Expanders /\ e.pc = "walk" /\ e.req = E(p).req /\ e.found = {}
          /\ E(p).req \in Requests
      BY <1>0, Facts DEF FolderFacts, Expanders, ExpanderPcs, ExpanderInv,
         NothingFound, ExpanderAt
    <2>3. new \in Receipts /\ new.state = "running"
      <3>1. 0 \in 0..Cardinality(Items)
        BY SafeManageAssumption, FS_CardinalityType
      <3>. QED  BY <2>2, <3>1 DEF Receipts, ReceiptStates
    <2> HIDE DEF e, new
    <2>4. /\ expander' \in [Expandable -> Expanders] /\ E(p)' = e
          /\ \A q \in Expandable \ {p} : expander'[q] = expander[q]
      BY <2>1, <2>2, BecomesOne
    <2>5. FolderTypes' /\ Elsewhere(p)
      BY <1>0, <2>1, <2>3, <2>4, Facts DEF FolderTypes, Elsewhere, Aside
    <2>6. ExpanderInv(p)' /\ ReceiptInv(p)' /\ PresentInv(p)'
      <3>1. receipt'[p] = new
        BY <2>1, Facts DEF FolderTypes
      <3>. QED
        BY <1>0, <2>1, <2>2, <2>3, <2>4, <3>1, Facts
           DEF FolderFacts, ExpanderInv, ReceiptInv, PresentInv, ExpanderAt,
               Walking, NothingFound
    <2>. QED  BY <1>0, <2>1, <2>4, <2>5, <2>6, WorkKeeps DEF AtWork
  <1>. QED  BY <1>1, <1>2

LEMMA VisitsKeeps ==
  ASSUME IInv, NEW p \in Expandable, NEW i \in Items, Visits(p, i) PROVE IInv'
  <1>0. /\ E(p).pc = "walk" /\ Aside
        /\ UNCHANGED <<gate, events, whole, receipt, proof, cut, asked>>
        /\ events' \in 0..MaxEvents /\ asked' \in 0..MaxJobs
    BY Facts DEF Visits, ExpanderAt, GateTypes, JobTypes
  <1>1. CASE /\ Becomes(p, [E(p) EXCEPT !.left = @ \ {i}])
             /\ UNCHANGED <<rows, present>>
    <2>0. DEFINE e == [E(p) EXCEPT !.left = @ \ {i}]
    <2>1. e \in Expanders /\ e.pc = "walk" /\ e.found = E(p).found /\ e.req = E(p).req
      BY <1>0, Facts DEF FolderFacts, Expanders
    <2> HIDE DEF e
    <2>. QED
      BY <1>0, <1>1, <2>1, MoveKeeps, Facts
         DEF e, folderVars, AtWork, Walking, NothingFound, ExpanderAt, FolderFacts,
             ExpanderInv
  <1>2. CASE /\ Becomes(p, [E(p) EXCEPT !.left = @ \ {i}, !.found = @ \cup {i}])
             /\ rows' = [rows EXCEPT ![p] = @ \cup {i}]
             /\ present' = [present EXCEPT ![p] = @ \cup {i}]
    <2>0. DEFINE e == [E(p) EXCEPT !.left = @ \ {i}, !.found = @ \cup {i}]
    <2>1. /\ e \in Expanders /\ e.pc = "walk" /\ e.req = E(p).req
          /\ e.found = E(p).found \cup {i}
      BY <1>0, Facts DEF FolderFacts, Expanders
    <2> HIDE DEF e
    <2>2. /\ expander' \in [Expandable -> Expanders] /\ E(p)' = e
          /\ \A q \in Expandable \ {p} : expander'[q] = expander[q]
      BY <1>2, <2>1, BecomesOne DEF e
    <2>3. FolderTypes' /\ Elsewhere(p)
      BY <1>0, <1>2, <2>2, Facts DEF FolderTypes, Elsewhere, Aside
    <2>4. /\ rows'[p] = rows[p] \cup {i} /\ present'[p] = present[p] \cup {i}
      BY <1>2, Facts DEF FolderTypes
    <2>5. ExpanderInv(p)' /\ ReceiptInv(p)' /\ PresentInv(p)'
      BY <1>0, <2>1, <2>2, <2>4, Facts
         DEF FolderFacts, ExpanderInv, ReceiptInv, PresentInv, ExpanderAt,
             Walking, NothingFound
    <2>. QED  BY <1>0, <2>2, <2>3, <2>5, WorkKeeps DEF AtWork
  <1>3. CASE /\ Becomes(p, [E(p) EXCEPT !.pc = "incomplete", !.end = "failed"])
             /\ UNCHANGED <<rows, present>>
    <2>0. DEFINE e == [E(p) EXCEPT !.pc = "incomplete", !.end = "failed"]
    <2>1. /\ e \in Expanders /\ e.pc = "incomplete" /\ e.found = E(p).found
          /\ e.req = E(p).req
      BY <1>0, Facts DEF FolderFacts, Expanders, ExpanderPcs
    <2> HIDE DEF e
    <2>. QED
      BY <1>0, <1>3, <2>1, MoveKeeps, Facts
         DEF e, folderVars, AtWork, Walking, NothingFound, ExpanderAt, FolderFacts,
             ExpanderInv
  <1>. QED  BY <1>1, <1>2, <1>3 DEF Visits

\* A walking thread goes on, with an outcome.
Onward(p, e) ==
    /\ e \in Expanders /\ e.pc \in Walking
    /\ e.found = E(p).found /\ e.req = E(p).req

LEMMA WalkingOn ==
  ASSUME IInv, NEW p \in Expandable, NEW e, Onward(p, e), Becomes(p, e),
         E(p).pc \in Walking, Aside, UNCHANGED <<gate, folderVars, cut, asked>>,
         events' \in 0..MaxEvents
  PROVE  IInv'
  <1>1. asked' \in 0..MaxJobs
    BY Facts DEF JobTypes
  <1>. QED
    BY <1>1, MoveKeeps, Facts
       DEF Onward, AtWork, Walking, NothingFound, ExpanderAt, FolderFacts,
           ExpanderInv

\* It marks its folder's row meanwhile.
LEMMA WalkingMarks ==
  ASSUME IInv, NEW p \in Expandable, NEW e, Onward(p, e), Becomes(p, e),
         E(p).pc \in Walking, Aside, NEW w \in BOOLEAN,
         whole' = [whole EXCEPT ![p] = w],
         UNCHANGED <<gate, events, rows, present, receipt, proof, cut, asked>>
  PROVE  IInv'
  <1>1. /\ expander' \in [Expandable -> Expanders] /\ E(p)' = e
        /\ \A q \in Expandable \ {p} : expander'[q] = expander[q]
    BY BecomesOne DEF Onward
  <1>2. FolderTypes' /\ Elsewhere(p)
    BY <1>1, Facts DEF FolderTypes, Elsewhere, Aside
  <1>3. ExpanderInv(p)' /\ ReceiptInv(p)' /\ PresentInv(p)'
    BY <1>1, Facts
       DEF Onward, FolderFacts, ExpanderInv, ReceiptInv, PresentInv, ExpanderAt,
           Walking, NothingFound
  <1>. QED  BY <1>1, <1>2, <1>3, WorkKeeps DEF AtWork, Walking

Ends == {"walked", "partial", "cancelled", "broken", "failed"}

LEMMA OnwardEnds ==
  ASSUME IInv, NEW p \in Expandable, ~ExpanderAt(p, "idle"),
         NEW pc \in Walking, NEW end \in Ends
  PROVE  Onward(p, [E(p) EXCEPT !.pc = pc, !.end = end])
  BY Facts DEF FolderFacts, Onward, Expanders, ExpanderPcs, Walking, Ends

LEMMA OnwardNext ==
  ASSUME IInv, NEW p \in Expandable, ~ExpanderAt(p, "idle"), NEW pc \in Walking
  PROVE  Onward(p, [E(p) EXCEPT !.pc = pc])
  BY Facts DEF FolderFacts, Onward, Expanders, ExpanderPcs, Walking

LEMMA WalkStepsKeep ==
  ASSUME IInv, NEW p \in Expandable, WalkEnds(p) \/ HitsLimit(p) \/ Derives(p)
  PROVE  IInv'
  <1>0. events \in 0..MaxEvents
    BY Facts DEF GateTypes
  <1>1. CASE WalkEnds(p) \/ HitsLimit(p)
    <2>1. PICK end \in Ends : Becomes(p, [E(p) EXCEPT !.pc = "finish", !.end = end])
      BY <1>1 DEF WalkEnds, HitsLimit, Ends
    <2>2. Onward(p, [E(p) EXCEPT !.pc = "finish", !.end = end])
      BY <1>1, OnwardEnds DEF WalkEnds, HitsLimit, ExpanderAt, Walking
    <2>3. /\ events' \in 0..MaxEvents /\ Aside /\ E(p).pc \in Walking
          /\ UNCHANGED <<gate, folderVars, cut, asked>>
      BY <1>0, <1>1, AnalysisAssumption
         DEF WalkEnds, HitsLimit, ExpanderAt, Walking, Event
    <2>. QED  BY <2>1, <2>2, <2>3, WalkingOn
  <1>2. CASE Derives(p)
    <2>1. E(p).pc = "derive" /\ Aside /\ UNCHANGED <<gate, events, folderVars, cut, asked>>
      BY <1>2 DEF Derives, ExpanderAt
    <2>2. CASE Becomes(p, [E(p) EXCEPT !.pc = "incomplete", !.end = "broken"])
      <3>1. Onward(p, [E(p) EXCEPT !.pc = "incomplete", !.end = "broken"])
        BY <2>1, OnwardEnds DEF ExpanderAt, Walking, Ends
      <3>. QED  BY <1>0, <2>1, <2>2, <3>1, WalkingOn DEF Walking
    <2>3. CASE Next_(p, "settle")
      <3>1. Onward(p, [E(p) EXCEPT !.pc = "settle"])
        BY <2>1, OnwardNext DEF ExpanderAt, Walking
      <3>. QED  BY <1>0, <2>1, <2>3, <3>1, WalkingOn DEF Walking, Next_
    <2>. QED  BY <1>2, <2>2, <2>3 DEF Derives
  <1>. QED  BY <1>1, <1>2

LEMMA FinishesKeeps ==
  ASSUME IInv, NEW p \in Expandable, Finishes(p) PROVE IInv'
  <1>0. /\ E(p).pc = "finish" /\ Aside /\ events \in 0..MaxEvents
        /\ UNCHANGED <<gate, events, rows, present, receipt, proof, cut, asked>>
    BY Facts DEF Finishes, ExpanderAt, GateTypes
  <1>1. PICK e : /\ Becomes(p, e)
                 /\ e \in {[E(p) EXCEPT !.pc = "incomplete", !.end = "broken"],
                          [E(p) EXCEPT !.pc = "derive"]}
                 /\ \/ whole' = [whole EXCEPT ![p] = E(p).end = "walked"]
                    \/ UNCHANGED whole
    BY DEF Finishes, Next_
  <1>2. Onward(p, e)
    BY <1>0, <1>1, OnwardEnds, OnwardNext DEF ExpanderAt, Walking, Ends
  <1>3. CASE UNCHANGED whole
    BY <1>0, <1>1, <1>2, <1>3, WalkingOn DEF folderVars, Walking
  <1>4. CASE whole' = [whole EXCEPT ![p] = E(p).end = "walked"]
    BY <1>0, <1>1, <1>2, <1>4, WalkingMarks DEF Walking
  <1>. QED  BY <1>1, <1>3, <1>4

LEMMA MarksBrokenKeeps ==
  ASSUME IInv, NEW p \in Expandable, MarksBroken(p) PROVE IInv'
  <1>1. Onward(p, [E(p) EXCEPT !.pc = "settle"]) /\ E(p).pc \in Walking
    BY OnwardNext DEF MarksBroken, ExpanderAt, Walking
  <1>. QED  BY <1>1, WalkingMarks DEF MarksBroken, Next_

LEMMA SettlesKeeps ==
  ASSUME IInv, NEW p \in Expandable, Settles(p) PROVE IInv'
  <1>0. /\ E(p).pc = "settle" /\ EndsExpansion(p) /\ Aside
        /\ UNCHANGED <<events, rows, present, whole, cut, asked>>
        /\ planner.pc \notin Building /\ asked' \in 0..MaxJobs
    BY Facts DEF Settles, ExpanderAt, FolderFacts, AtWork, JobTypes
  <1>1. E(p)' = NoExpander /\ \A q \in Expandable \ {p} : expander'[q] = expander[q]
    BY <1>0, GateLeft DEF Aside, analysisVars
  <1>2. PresentInv(p)'
    BY <1>0, <1>1, Facts DEF PresentInv, FolderFacts, ExpanderAt, NoExpander
  <1>3. CASE UNCHANGED <<receipt, proof>>
    <2>1. Elsewhere(p) /\ ReceiptInv(p)' /\ FolderTypes'
      BY <1>0, <1>1, <1>3, Facts DEF Elsewhere, ReceiptInv, FolderFacts, Aside,
         FolderTypes
    <2>. QED  BY <1>0, <1>2, <2>1, EndKeeps
  <1>4. CASE ~UNCHANGED <<receipt, proof>>
    <2>0. DEFINE new == [receipt[p] EXCEPT !.state = Outcome(p),
                                           !.count = Cardinality(E(p).found)]
    <2>1. /\ receipt[p] # None /\ receipt[p].state = "running"
          /\ receipt' = [receipt EXCEPT ![p].state = Outcome(p),
                             ![p].count = Cardinality(E(p).found)]
          /\ proof' = [proof EXCEPT ![p] = IF Outcome(p) = "completed"
                                          THEN E(p).found ELSE None]
      BY <1>4 DEF Settles
    <2>2. Outcome(p) \in ReceiptStates
      BY DEF Outcome, ReceiptStates
    <2>3. E(p).found \subseteq Items /\ receipt[p] \in Receipts
      BY <2>1, Facts DEF FolderFacts, Expanders
    <2>4. Cardinality(E(p).found) \in 0..Cardinality(Items)
      BY <2>3, FS_Subset, FS_CardinalityType, SafeManageAssumption
    <2>5. /\ new \in Receipts /\ new.state = Outcome(p)
          /\ new.count = Cardinality(E(p).found)
      BY <2>2, <2>3, <2>4 DEF Receipts
    <2>6. receipt' = [receipt EXCEPT ![p] = new]
      BY <2>1, Facts DEF FolderTypes
    <2> HIDE DEF new
    <2>7. rows[p] = E(p).found
      BY <1>0, <2>1, Facts DEF FolderFacts, ExpanderInv, Walking
    <2>8. /\ receipt'[p] = new
          /\ proof'[p] = IF Outcome(p) = "completed" THEN E(p).found ELSE None
      BY <2>1, <2>6, Facts DEF FolderTypes
    <2>9. FolderTypes'
      BY <1>0, <2>1, <2>3, <2>5, <2>6, Facts DEF FolderTypes, Aside
    <2>10. Elsewhere(p)
      BY <1>0, <1>1, <2>1, <2>6, Facts DEF Elsewhere, FolderTypes
    <2>11. ReceiptInv(p)'
      BY <1>0, <2>3, <2>5, <2>7, <2>8 DEF ReceiptInv
    <2>. QED  BY <1>0, <1>2, <2>9, <2>10, <2>11, EndKeeps
  <1>. QED  BY <1>3, <1>4

LEMMA ExpansionDbFailsKeeps ==
  ASSUME IInv, NEW p \in Expandable, ExpansionDbFails(p) PROVE IInv'
  <1>0. /\ Aside /\ UNCHANGED <<folderVars, asked>> /\ events' \in 0..MaxEvents
        /\ asked' \in 0..MaxJobs
    BY Facts, AnalysisAssumption DEF ExpansionDbFails, Event, JobTypes, GateTypes
  <1>1. CASE /\ E(p).pc \in {"queued", "absent", "delete", "mark", "receipt", "settle"}
             /\ EndsExpansion(p)
             /\ cut' = [cut EXCEPT ![p] = @ \/ ExpanderAt(p, "delete")]
    <2>1. /\ gate' = [gate EXCEPT !.readers = @ \ {p}]
          /\ expander' = [expander EXCEPT ![p] = NoExpander]
          /\ gate \in [writer : {None, "analyst", "planner"},
                       readers : SUBSET Projects]
          /\ expander \in [Expandable -> Expanders] /\ GateInv
      BY <1>1, Facts DEF EndsExpansion, Becomes, IInv, JobTypes, GateTypes
    <2>2. GateTypes' /\ gate'.writer = gate.writer /\ gate'.readers = gate.readers \ {p}
      BY <1>0, <2>1 DEF GateTypes
    <2>3. /\ expander' \in [Expandable -> Expanders] /\ E(p)' = NoExpander
          /\ \A q \in Expandable \ {p} : expander'[q] = expander[q]
      BY <2>1, IdleTypes DEF E
    <2>4. GateInv'
      BY <1>0, <2>1, <2>2, <2>3
         DEF GateInv, At, E, NoExpander, AtWork, Aside, analysisVars
    <2>5. /\ cut'[p] \in BOOLEAN /\ (~cut'[p] => ~cut[p] /\ ~ExpanderAt(p, "delete"))
          /\ \A q \in Expandable \ {p} : cut'[q] = cut[q]
          /\ cut' \in [Expandable -> BOOLEAN]
      <3>1. cut \in [Expandable -> BOOLEAN]
        BY Facts DEF FolderTypes
      <3>. QED  BY <1>1, <3>1, Zenon DEF ExpanderAt
    <2>6. FolderTypes' /\ Elsewhere(p)
      BY <1>0, <2>3, <2>5, Facts DEF FolderTypes, Elsewhere, folderVars, Aside
    <2>7. ExpanderInv(p)' /\ ReceiptInv(p)' /\ PresentInv(p)'
      BY <1>0, <2>3, <2>5, Facts
         DEF FolderFacts, folderVars, ExpanderInv, ReceiptInv, PresentInv,
             ExpanderAt, NoExpander, Walking, NothingFound
    <2>8. FolderInv'
      BY <2>6, <2>7, FolderOne
    <2>9. planner.pc \notin Building \/ UNCHANGED <<present, cut>>
      <3>1. CASE E(p).pc = "queued"
        <4>1. cut \in [Expandable -> BOOLEAN] /\ ~ExpanderAt(p, "delete")
          BY <3>1, Facts DEF FolderTypes, ExpanderAt
        <4>2. cut' = cut
          BY <1>1, <4>1, Zenon
        <4>. QED  BY <1>0, <4>2 DEF folderVars
      <3>2. CASE E(p).pc # "queued"
        BY <1>1, <3>2, Facts DEF FolderFacts, AtWork
      <3>. QED  BY <3>1, <3>2
    <2>. QED
      BY <1>0, <2>2, <2>3, <2>4, <2>6, <2>8, <2>9, ExpanderSide
  <1>2. CASE /\ E(p).pc \in {"walk", "finish", "derive"}
             /\ UNCHANGED <<gate, cut>>
             /\ \E end \in Ends :
                  Becomes(p, [E(p) EXCEPT !.pc = "incomplete", !.end = end])
    <2>1. PICK end \in Ends : Becomes(p, [E(p) EXCEPT !.pc = "incomplete", !.end = end])
      BY <1>2
    <2>2. Onward(p, [E(p) EXCEPT !.pc = "incomplete", !.end = end])
      BY <1>2, OnwardEnds DEF ExpanderAt, Walking
    <2>. QED  BY <1>0, <1>2, <2>1, <2>2, WalkingOn DEF Walking
  <1>3. CASE ExpanderAt(p, "incomplete") /\ Next_(p, "settle") /\ UNCHANGED <<gate, cut>>
    <2>1. Onward(p, [E(p) EXCEPT !.pc = "settle"]) /\ E(p).pc \in Walking
      BY <1>3, OnwardNext DEF ExpanderAt, Walking
    <2>. QED  BY <1>0, <1>3, <2>1, WalkingOn DEF Next_
  <1>. QED  BY <1>1, <1>2, <1>3 DEF ExpansionDbFails, Ends

LEMMA ExpanderKeeps ==
  ASSUME IInv, NEW p \in Expandable, ExpanderStep(p) PROVE IInv'
  BY EntersKeeps, MarksAbsentKeeps, DeletesRowsKeeps, MarksIncompleteKeeps,
     OpensReceiptKeeps, VisitsKeeps, WalkStepsKeep, FinishesKeeps,
     MarksBrokenKeeps, SettlesKeeps DEF ExpanderStep

----------------------------------------------------------------------------
(***************************************************************************)
(* Steps of a plan job.                                                    *)
(***************************************************************************)
LEMMA PlannerSide ==
  ASSUME IInv, Beside, planner' \in Planners, asked' \in 0..MaxJobs,
         GateTypes', GateInv', PlannerInv'
  PROVE  IInv'
  <1>1. RunTypes' /\ WorldTypes' /\ FolderTypes' /\ JobTypes'
    BY TypeParts DEF IInv, Beside, analysisVars, worldVars, folderVars, RunTypes,
       WorldTypes, FolderTypes, JobTypes
  <1>2. CaptureInv' /\ FolderInv'
    BY CaptureFrame, FolderFrame DEF IInv, Beside, analysisVars
  <1>. QED  BY <1>1, <1>2, TypePartsNext DEF IInv

LEMMA PlannerFacts ==
  ASSUME IInv
  PROVE  /\ planner \in Planners /\ asked \in 0..MaxJobs /\ PlannerInv
         /\ GateTypes /\ GateInv /\ events \in 0..MaxEvents
         /\ present \in [Expandable -> SUBSET Items]
  BY TypeParts DEF IInv, JobTypes, GateTypes, FolderTypes

\* The job ends and lets go of the gate.
LEMMA PlanEndsKeep ==
  ASSUME IInv, Beside, planner.pc \in Building, FreeGate,
         planner' \in Planners, planner'.pc \in {"idle", "done"},
         planner'.project = planner.project \/ planner'.pc = "idle",
         planner'.req = planner.req \/ planner'.pc = "idle",
         planner'.choice = planner.choice \/ planner'.pc = "idle",
         events' \in 0..MaxEvents, UNCHANGED asked
  PROVE  IInv'
  <1>1. gate' = [gate EXCEPT !.writer = None] /\ gate.writer = "planner"
    BY PlannerFacts DEF FreeGate, GateInv
  <1>2. GateTypes' /\ GateInv'
    BY <1>1, PlannerFacts
       DEF GateTypes, GateInv, At, E, Beside, analysisVars, Building
  <1>3. PlannerInv'
    BY PlannerFacts DEF PlannerInv, Building
  <1>. QED  BY <1>2, <1>3, PlannerFacts, PlannerSide

\* The job goes on and keeps the gate as it is.
LEMMA PlanGoesOn ==
  ASSUME IInv, Beside, planner' \in Planners, asked' \in 0..MaxJobs,
         planner'.pc \in Building => planner.pc \in Building,
         UNCHANGED <<gate, events>>, PlannerInv'
  PROVE  IInv'
  <1>1. GateTypes' /\ GateInv'
    BY PlannerFacts DEF GateTypes, GateInv, At, E, Beside, analysisVars
  <1>. QED  BY <1>1, PlannerSide

LEMMA AskPlanKeeps ==
  ASSUME IInv, NEW p \in Projects, NEW r \in Runs, NEW c \in Choices,
         AskPlan(p, r, c)
  PROVE  IInv'
  <1>1. Request(r, p) \in Requests
    BY RunFacts, TypeParts
       DEF AskPlan, MayPlan, Bound, Request, Requests, IInv, RunTypes
  <1>2. asked' \in 0..MaxJobs
    BY PlannerFacts, SafeManageAssumption DEF AskPlan, Ask
  <1>3. c = "clean" => p \in Expandable
    BY DEF AskPlan, MayPlan, Eligible
  <1>4. planner' = [NoPlanner EXCEPT !.pc = "queued", !.project = p,
                     !.req = Request(r, p), !.choice = c]
        /\ Beside /\ UNCHANGED <<gate, events>>
    BY DEF AskPlan
  <1>5. /\ planner' \in Planners /\ planner'.pc = "queued" /\ planner'.project = p
        /\ planner'.req = Request(r, p) /\ planner'.choice = c
    BY <1>1, <1>4, IdleTypes DEF Planners, PlannerPcs, NoPlanner
  <1>6. PlannerInv'
    BY <1>1, <1>3, <1>5 DEF PlannerInv
  <1>. QED  BY <1>2, <1>4, <1>5, <1>6, PlanGoesOn DEF Building

LEMMA StopPlanKeeps == IInv /\ StopPlan => IInv'
  <1> SUFFICES ASSUME IInv, StopPlan PROVE IInv'
    OBVIOUS
  <1>1. /\ planner' = [planner EXCEPT !.cancel = TRUE]
        /\ Beside /\ UNCHANGED <<gate, events, asked>>
    BY DEF StopPlan
  <1>2. /\ planner' \in Planners /\ planner'.pc = planner.pc
        /\ planner'.project = planner.project /\ planner'.req = planner.req
        /\ planner'.choice = planner.choice /\ planner'.built = planner.built
    BY <1>1, PlannerFacts DEF Planners
  <1>3. PlannerInv'
    BY <1>1, <1>2, PlannerFacts DEF PlannerInv, Beside, folderVars, worldVars
  <1>. QED  BY <1>1, <1>2, <1>3, PlannerFacts, PlanGoesOn

LEMMA PlanEntersKeeps == IInv /\ PlanEnters => IInv'
  <1> SUFFICES ASSUME IInv, PlanEnters PROVE IInv'
    OBVIOUS
  <1>1. /\ planner.pc = "queued" /\ gate.writer = None /\ gate.readers = {}
        /\ gate' = [gate EXCEPT !.writer = "planner"]
        /\ planner' = [planner EXCEPT !.pc = "check"]
        /\ Beside /\ UNCHANGED <<events, asked>>
    BY DEF PlanEnters, PlannerAt, TakeGate, GateFree
  <1>2. /\ planner' \in Planners /\ planner'.pc = "check"
        /\ planner'.project = planner.project /\ planner'.req = planner.req
        /\ planner'.choice = planner.choice
    BY <1>1, PlannerFacts DEF Planners, PlannerPcs
  <1>3. PlannerInv'
    BY <1>1, <1>2, PlannerFacts DEF PlannerInv
  <1>4. ~At("probe")
    BY <1>1, PlannerFacts, AnalysisAssumption DEF GateInv
  <1>5. GateTypes' /\ GateInv'
    BY <1>1, <1>2, <1>4, PlannerFacts
       DEF GateTypes, GateInv, At, E, Beside, analysisVars
  <1>. QED  BY <1>1, <1>2, <1>3, <1>5, PlannerFacts, PlannerSide

LEMMA EndsPlanKeeps ==
  ASSUME IInv, Beside, planner.pc \in Building, EndsPlan,
         events' \in 0..MaxEvents, UNCHANGED asked
  PROVE  IInv'
  <1>1. planner' = NoPlanner /\ NoPlanner.pc = "idle" /\ FreeGate
    BY DEF EndsPlan, NoPlanner
  <1>. QED  BY <1>1, IdleTypes, PlanEndsKeep

LEMMA PlanChecksKeeps == IInv /\ PlanChecks => IInv'
  <1> SUFFICES ASSUME IInv, PlanChecks PROVE IInv'
    OBVIOUS
  <1>0. /\ planner.pc \in {"check", "recheck"} /\ Beside
        /\ UNCHANGED <<events, asked>> /\ events' \in 0..MaxEvents
    BY PlannerFacts DEF PlanChecks, PlannerAt
  <1>1. CASE EndsPlan
    BY <1>0, <1>1, EndsPlanKeeps DEF Building
  <1>2. CASE ~EndsPlan
    <2>1. /\ planner' = [planner EXCEPT !.pc = IF @ = "check" THEN "build"
                                               ELSE "publish"]
          /\ UNCHANGED gate
      BY <1>2 DEF PlanChecks
    <2>2. /\ planner' \in Planners
          /\ planner'.pc = IF planner.pc = "check" THEN "build" ELSE "publish"
          /\ planner'.project = planner.project /\ planner'.req = planner.req
          /\ planner'.choice = planner.choice /\ planner'.built = planner.built
      BY <2>1, PlannerFacts DEF Planners, PlannerPcs
    <2>3. PlannerInv'
      BY <1>0, <2>2, PlannerFacts DEF PlannerInv, Beside, folderVars, worldVars
    <2>. QED
      BY <1>0, <2>1, <2>2, <2>3, PlannerFacts, PlanGoesOn DEF Building
  <1>. QED  BY <1>1, <1>2

LEMMA BuildsKeeps == IInv /\ Builds => IInv'
  <1> SUFFICES ASSUME IInv, Builds PROVE IInv'
    OBVIOUS
  <1>0. /\ planner.pc = "build" /\ Beside
        /\ UNCHANGED <<events, asked>> /\ events' \in 0..MaxEvents
    BY PlannerFacts DEF Builds, PlannerAt
  <1>1. CASE EndsPlan
    BY <1>0, <1>1, EndsPlanKeeps DEF Building
  <1>2. CASE ~EndsPlan
    <2>0. DEFINE built == IF planner.choice = "clean"
                             /\ catalog[planner.project] # "gone"
                          THEN present[planner.project] ELSE {}
    <2>1. /\ planner' = [planner EXCEPT !.pc = "recheck", !.built = built]
          /\ UNCHANGED gate
      BY <1>2 DEF Builds
    <2>2. built \in SUBSET Items
      BY <1>0, PlannerFacts DEF PlannerInv
    <2>3. /\ planner' \in Planners /\ planner'.pc = "recheck"
          /\ planner'.project = planner.project /\ planner'.req = planner.req
          /\ planner'.choice = planner.choice /\ planner'.built = built
      BY <2>1, <2>2, PlannerFacts DEF Planners, PlannerPcs
    <2>4. PlannerInv'
      BY <1>0, <2>3, PlannerFacts DEF PlannerInv, Beside, folderVars, worldVars
    <2>. QED
      BY <1>0, <2>1, <2>3, <2>4, PlannerFacts, PlanGoesOn DEF Building
  <1>. QED  BY <1>1, <1>2

LEMMA PublishesKeeps == IInv /\ Publishes => IInv'
  <1> SUFFICES ASSUME IInv, Publishes PROVE IInv'
    OBVIOUS
  <1>0. /\ planner.pc = "publish" /\ Beside /\ FreeGate
        /\ UNCHANGED <<events, asked>> /\ events' \in 0..MaxEvents
    BY PlannerFacts DEF Publishes, PlannerAt
  <1>1. CASE planner' = NoPlanner
    BY <1>0, <1>1, EndsPlanKeeps DEF EndsPlan, Building
  <1>2. CASE planner' = [planner EXCEPT !.pc = "done"]
    <2>1. /\ planner' \in Planners /\ planner'.pc = "done"
          /\ planner'.project = planner.project /\ planner'.req = planner.req
          /\ planner'.choice = planner.choice
      BY <1>2, PlannerFacts DEF Planners, PlannerPcs
    <2>. QED  BY <1>0, <2>1, PlanEndsKeep DEF Building
  <1>. QED  BY <1>1, <1>2 DEF Publishes

LEMMA PlanDbFailsKeeps == IInv /\ PlanDbFails => IInv'
  <1> SUFFICES ASSUME IInv, PlanDbFails PROVE IInv'
    OBVIOUS
  <1>1. events' \in 0..MaxEvents
    BY PlannerFacts, AnalysisAssumption DEF PlanDbFails, Event
  <1>. QED  BY <1>1, EndsPlanKeeps DEF PlanDbFails, Building

LEMMA PlannerStepKeeps == IInv /\ PlannerStep => IInv'
  BY PlanEntersKeeps, PlanChecksKeeps, BuildsKeeps, PublishesKeeps DEF PlannerStep

----------------------------------------------------------------------------
(***************************************************************************)
(* Decisions, processes, scans and other programs.                         *)
(***************************************************************************)
LEMMA DecideKeeps ==
  ASSUME NEW P \in (SUBSET Projects) \ {{}}, NEW r \in Runs, NEW c \in Choices,
         IInv, Decide(P, r, c)
  PROVE  IInv'
  <1>1. /\ UNCHANGED <<analysisVars, worldVars, gate, events, disk, folderVars,
                     cut, expander, planner, asked>>
        /\ \A p \in P : Bound(p, Request(r, p))
        /\ decisions' = [p \in Projects |-> IF p \in P
                           THEN Decided(Request(r, p), c) ELSE decisions[p]]
    BY DEF Decide
  <1>2. \A p \in P : Request(r, p) \in Requests
    BY <1>1, RunFacts DEF Bound, Request, Requests
  <1>3. decisions' \in [Projects -> Decisions \cup {None}]
    BY <1>1, <1>2, TypeParts DEF IInv, JobTypes, Decided, Decisions
  <1>4. TypeOK'
    BY <1>1, <1>3, TypeParts, TypePartsNext
       DEF IInv, RunTypes, WorldTypes, GateTypes, FolderTypes, JobTypes,
           analysisVars, worldVars, folderVars
  <1>5. CaptureInv' /\ GateInv' /\ FolderInv' /\ PlannerInv'
    BY <1>1, CaptureFrame, GateFrame, FolderFrame, PlannerFrame
       DEF IInv, analysisVars, worldVars, folderVars
  <1>. QED  BY <1>4, <1>5 DEF IInv

LEMMA ReconcilesKeeps ==
  ASSUME IInv, Reconciles, opened' \in BOOLEAN, events' \in 0..MaxEvents,
         UNCHANGED <<Threads, stored, worldVars, decisions, disk, rows, present,
                     proof, cut, asked>>
  PROVE  IInv'
  <1>0. UNCHANGED <<slot, analyst, expander, planner, gate>>
    BY DEF Threads
  <1>1. /\ runs' \in [Runs -> RunStates]
        /\ \A r \in Runs : runs'[r] = "unused" => runs[r] = "unused"
    BY RunFacts DEF Reconciles, Reconciled, RunStates, Closed
  <1>2. \A p \in Expandable :
          \/ UNCHANGED <<receipt[p], whole[p]>>
          \/ /\ receipt[p] # None /\ receipt[p].state = "running"
             /\ whole'[p] = FALSE
             /\ receipt'[p] = [receipt[p] EXCEPT !.state = "failed"]
    BY DEF Reconciles
  <1>3. \A p \in Expandable :
          /\ receipt'[p] \in Receipts \cup {None} /\ whole'[p] \in BOOLEAN
          /\ receipt'[p] = receipt[p] \/ receipt'[p].state = "failed"
    <2> SUFFICES ASSUME NEW p \in Expandable
                 PROVE  /\ receipt'[p] \in Receipts \cup {None} /\ whole'[p] \in BOOLEAN
                        /\ receipt'[p] = receipt[p] \/ receipt'[p].state = "failed"
      OBVIOUS
    <2>1. receipt[p] \in Receipts \cup {None} /\ whole[p] \in BOOLEAN
      BY Facts DEF FolderTypes
    <2>2. CASE UNCHANGED <<receipt[p], whole[p]>>
      BY <2>1, <2>2
    <2>3. CASE /\ receipt[p] # None /\ whole'[p] = FALSE
               /\ receipt'[p] = [receipt[p] EXCEPT !.state = "failed"]
      <3>1. receipt[p] \in Receipts
        BY <2>1, <2>3
      <3>2. receipt'[p] \in Receipts /\ receipt'[p].state = "failed"
        BY <2>3, <3>1 DEF Receipts, ReceiptStates
      <3>. QED  BY <2>3, <3>2
    <2>. QED  BY <1>2, <2>2, <2>3
  <1>4. /\ receipt' \in [Expandable -> Receipts \cup {None}]
        /\ whole' \in [Expandable -> BOOLEAN]
    BY <1>3 DEF Reconciles
  <1>5. RunTypes' /\ FolderTypes'
    BY <1>0, <1>1, <1>4, RunFacts, TypeParts
       DEF IInv, RunTypes, RunStates, FolderTypes
  <1>6. WorldTypes' /\ GateTypes' /\ JobTypes'
    BY <1>0, TypeParts DEF IInv, WorldTypes, GateTypes, JobTypes, worldVars
  <1>7. CaptureInv'
    BY <1>0, <1>1, RunFacts DEF CaptureInv, At, Run
  <1>8. FolderInv'
    <2> SUFFICES ASSUME NEW p \in Expandable
                 PROVE  (ExpanderInv(p) /\ ReceiptInv(p) /\ PresentInv(p))'
      BY DEF FolderInv
    <2>. QED
      BY <1>0, <1>2, <1>3, Facts
         DEF FolderFacts, ExpanderInv, ReceiptInv, PresentInv, ExpanderAt, E
  <1>9. GateInv' /\ PlannerInv'
    BY <1>0, GateFrame, PlannerFrame DEF IInv, worldVars
  <1>. QED
    BY <1>5, <1>6, <1>7, <1>8, <1>9, TypePartsNext DEF IInv

LEMMA OpeningKeeps == IInv /\ (Opens \/ OtherProcessOpens) => IInv'
  <1> SUFFICES ASSUME IInv, Opens \/ OtherProcessOpens PROVE IInv'
    OBVIOUS
  <1>1. opened' \in BOOLEAN
    BY RunFacts DEF Opens, OtherProcessOpens, RunTypes
  <1>2. events' \in 0..MaxEvents
    BY PlannerFacts, AnalysisAssumption DEF Opens, OtherProcessOpens, Quiet, Event
  <1>. QED  BY <1>1, <1>2, ReconcilesKeeps DEF Opens, OtherProcessOpens

LEMMA RestartKeeps == IInv /\ Restart => IInv'
  <1> SUFFICES ASSUME IInv, Restart PROVE IInv'
    OBVIOUS
  <1>0. /\ opened' = FALSE /\ slot' = NoSlot /\ analyst' = NoAnalyst
        /\ gate' = NobodyInGate /\ planner' = NoPlanner
        /\ cut' = [p \in Expandable |-> cut[p] \/ ExpanderAt(p, "delete")]
        /\ expander' = [p \in Expandable |-> NoExpander]
        /\ UNCHANGED <<runs, stored, worldVars, decisions, disk, folderVars, asked>>
    BY DEF Restart
  <1>1. events' \in 0..MaxEvents
    BY PlannerFacts, AnalysisAssumption DEF Restart, Event
  <1>2. cut' \in [Expandable -> BOOLEAN]
    BY <1>0, Zenon
  <1>3. TypeOK'
    BY <1>0, <1>1, <1>2, IdleTypes, TypeParts, TypePartsNext
       DEF IInv, RunTypes, WorldTypes, GateTypes, FolderTypes, JobTypes,
           worldVars, folderVars
  <1>4. CaptureInv'
    BY <1>0, RunFacts DEF CaptureInv, At, Run, NoAnalyst
  <1>5. GateInv'
    BY <1>0 DEF GateInv, At, E, NoAnalyst, NobodyInGate, NoPlanner, NoExpander,
                Building, AtWork
  <1>6. FolderInv'
    <2> SUFFICES ASSUME NEW p \in Expandable
                 PROVE  (ExpanderInv(p) /\ ReceiptInv(p) /\ PresentInv(p))'
      BY DEF FolderInv
    <2>1. E(p)' = NoExpander /\ (~cut'[p] => ~cut[p] /\ ~ExpanderAt(p, "delete"))
      BY <1>0 DEF E
    <2>. QED
      BY <1>0, <2>1, Facts
         DEF FolderFacts, ExpanderInv, ReceiptInv, PresentInv, ExpanderAt,
             NoExpander, Walking, NothingFound, folderVars
  <1>7. PlannerInv'
    BY <1>0 DEF PlannerInv, NoPlanner
  <1>. QED  BY <1>3, <1>4, <1>5, <1>6, <1>7 DEF IInv

LEMMA RootScanKeeps ==
  ASSUME NEW p \in Projects, IInv, RootScan(p) PROVE IInv'
  <1>0. /\ gate.writer = None /\ epoch' = epoch + 1
        /\ UNCHANGED <<analysisVars, catalog, git, gate, decisions, disk, receipt,
                       proof, expander, planner, asked>>
        /\ p \in Expandable => E(p).pc = "idle"
    BY DEF RootScan, Readable, ExpanderAt
  <1>1. events' \in 0..MaxEvents
    BY PlannerFacts, AnalysisAssumption DEF RootScan, Event
  <1>2. planner.pc \notin Building
    BY <1>0, PlannerFacts, AnalysisAssumption DEF GateInv
  <1>3. RunTypes' /\ WorldTypes' /\ GateTypes' /\ JobTypes'
    BY <1>0, <1>1, TypeParts
       DEF IInv, RunTypes, WorldTypes, GateTypes, JobTypes, analysisVars
  <1>4. CaptureInv' /\ GateInv'
    BY <1>0, CaptureFrame, GateFrame DEF IInv, analysisVars
  <1>5. PlannerInv'
    BY <1>0, <1>2, PlannerFacts DEF PlannerInv, Building
  <1>6. FolderTypes' /\ FolderInv'
    <2>1. CASE UNCHANGED <<rows, present, whole, cut>>
      BY <1>0, <2>1, FolderFrame, TypeParts DEF IInv, FolderTypes, folderVars
    <2>2. CASE /\ p \in Expandable
               /\ rows' = [rows EXCEPT ![p] = {}]
               /\ present' = [present EXCEPT ![p] = {}]
               /\ whole' = [whole EXCEPT ![p] = TRUE]
               /\ cut' = [cut EXCEPT ![p] = FALSE]
      <3>1. FolderTypes' /\ Elsewhere(p)
        BY <1>0, <2>2, Facts DEF FolderTypes, Elsewhere
      <3>2. ExpanderInv(p)' /\ ReceiptInv(p)' /\ PresentInv(p)'
        BY <1>0, <2>2, Facts
           DEF FolderFacts, FolderTypes, ExpanderInv, ReceiptInv, PresentInv,
               ExpanderAt, E, Walking, NothingFound
      <3>. QED  BY <2>2, <3>1, <3>2, FolderOne
    <2>. QED  BY <2>1, <2>2 DEF RootScan
  <1>. QED  BY <1>3, <1>4, <1>5, <1>6, TypePartsNext DEF IInv

LEMMA UnregistersKeeps ==
  ASSUME NEW p \in Projects, IInv, Unregisters(p) PROVE IInv'
  <1>0. /\ catalog[p] = "enabled" /\ catalog' = [catalog EXCEPT ![p] = "rootless"]
        /\ epoch' = epoch + 1
        /\ UNCHANGED <<analysisVars, git, gate, manageVars>>
    BY DEF Unregisters
  <1>1. events' \in 0..MaxEvents
    BY PlannerFacts, AnalysisAssumption DEF Unregisters, Event
  <1>2. TypeOK'
    BY <1>0, <1>1, TypeParts, TypePartsNext
       DEF IInv, RunTypes, WorldTypes, GateTypes, FolderTypes, JobTypes,
           analysisVars, manageVars, folderVars
  <1>3. CaptureInv' /\ GateInv' /\ FolderInv'
    BY <1>0, CaptureFrame, GateFrame, FolderFrame
       DEF IInv, analysisVars, manageVars, folderVars
  <1>4. PlannerInv'
    BY <1>0, PlannerFacts, TypeParts
       DEF IInv, WorldTypes, PlannerInv, manageVars, folderVars
  <1>. QED  BY <1>2, <1>3, <1>4 DEF IInv

LEMMA ForgetsKeeps ==
  ASSUME NEW p \in Projects, IInv, Forgets(p) PROVE IInv'
  <1>0. /\ catalog' = [catalog EXCEPT ![p] = "gone"] /\ epoch' = epoch + 1
        /\ stored' = [r \in Runs |-> [stored[r] EXCEPT ![p] = None]]
        /\ decisions' = [decisions EXCEPT ![p] = None]
        /\ UNCHANGED <<opened, slot, analyst, runs, git, gate, events, disk,
                       whole, cut, expander, planner, asked>>
    BY DEF Forgets, Quiet
  <1>1. RunTypes' /\ WorldTypes' /\ GateTypes' /\ JobTypes'
    BY <1>0, TypeParts DEF IInv, RunTypes, WorldTypes, GateTypes, JobTypes
  <1>2. \A r \in Runs, q \in Projects :
          stored'[r][q] = IF q = p THEN None ELSE stored[r][q]
    BY <1>0, RunFacts
  <1>3. CaptureInv'
    BY <1>0, <1>2, RunFacts DEF CaptureInv, At, Run
  <1>4. GateInv'
    BY <1>0, GateFrame DEF IInv
  <1>5. FolderTypes' /\ FolderInv'
    <2>1. CASE p \in Expandable
      <3>1. /\ rows' = [rows EXCEPT ![p] = {}]
            /\ present' = [present EXCEPT ![p] = {}]
            /\ receipt' = [receipt EXCEPT ![p] = None]
            /\ proof' = [proof EXCEPT ![p] = None]
        BY <2>1 DEF Forgets
      <3>2. FolderTypes' /\ Elsewhere(p)
        BY <1>0, <2>1, <3>1, Facts DEF FolderTypes, Elsewhere
      <3>3. ExpanderInv(p)' /\ ReceiptInv(p)' /\ PresentInv(p)'
        BY <1>0, <2>1, <3>1, Facts
           DEF FolderFacts, FolderTypes, ExpanderInv, ReceiptInv, PresentInv,
               ExpanderAt, E
      <3>. QED  BY <2>1, <3>2, <3>3, FolderOne
    <2>2. CASE p \notin Expandable
      <3>1. UNCHANGED <<rows, present, receipt, proof>>
        BY <2>2 DEF Forgets
      <3>. QED
        BY <1>0, <3>1, FolderFrame, TypeParts DEF IInv, FolderTypes, folderVars
    <2>. QED  BY <2>1, <2>2
  <1>6. PlannerInv'
    <2>1. \A q \in Expandable : q # p => present'[q] = present[q]
      BY PlannerFacts DEF Forgets
    <2>. QED
      BY <1>0, <2>1, PlannerFacts, TypeParts DEF IInv, WorldTypes, PlannerInv
  <1>. QED  BY <1>1, <1>3, <1>4, <1>5, <1>6, TypePartsNext DEF IInv

LEMMA OutsideKeeps ==
  ASSUME IInv,
         \/ \E p \in Projects : GitChanges(p)
         \/ \E p \in Expandable, i \in Items : FolderChanges(p, i)
  PROVE  IInv'
  <1>1. /\ UNCHANGED <<analysisVars, catalog, epoch, gate, decisions, folderVars,
                       cut, expander, planner, asked>>
        /\ events' \in 0..MaxEvents
    BY PlannerFacts, AnalysisAssumption
       DEF GitChanges, FolderChanges, Event, manageVars, worldVars
  <1>2. WorldTypes'
    BY <1>1, TypeParts DEF IInv, WorldTypes, GitChanges, FolderChanges, worldVars
  <1>3. disk' \in [Expandable -> SUBSET Items]
    BY TypeParts DEF IInv, FolderTypes, GitChanges, FolderChanges, manageVars
  <1>4. TypeOK'
    BY <1>1, <1>2, <1>3, TypeParts, TypePartsNext
       DEF IInv, RunTypes, GateTypes, FolderTypes, JobTypes, analysisVars, folderVars
  <1>5. CaptureInv' /\ GateInv' /\ FolderInv' /\ PlannerInv'
    BY <1>1, CaptureFrame, GateFrame, FolderFrame, PlannerFrame
       DEF IInv, analysisVars, folderVars
  <1>. QED  BY <1>4, <1>5 DEF IInv

----------------------------------------------------------------------------
LEMMA StepKeeps == IInv /\ [Next]_vars => IInv'
  <1> SUFFICES ASSUME IInv, [Next]_vars PROVE IInv'
    OBVIOUS
  <1>1. CASE Owner
    BY <1>1, SlotKeeps, StartAnalysisKeeps, DecideKeeps, AskKeeps,
       StopExpansionKeeps, AskPlanKeeps, StopPlanKeeps DEF Owner
  <1>2. CASE Environment
    BY <1>2, OpeningKeeps, RestartKeeps, RootScanKeeps, UnregistersKeeps,
       ForgetsKeeps, OutsideKeeps, DbFailsKeeps, SlotKeeps, PlanDbFailsKeeps,
       ExpansionDbFailsKeeps, WalkStepsKeep DEF Environment
  <1>3. CASE AnalystMoves
    BY <1>3, AnalystMovesKeep
  <1>4. CASE PlannerStep
    BY <1>4, PlannerStepKeeps
  <1>5. CASE \E p \in Expandable : ExpanderStep(p)
    BY <1>5, ExpanderKeeps
  <1>6. CASE UNCHANGED vars
    <2>1. TypeOK'
      BY <1>6, TypeParts, TypePartsNext
         DEF IInv, vars, manageVars, RunTypes, WorldTypes, GateTypes, FolderTypes,
             JobTypes, analysisVars, worldVars, folderVars
    <2>. QED
      BY <1>6, <2>1, CaptureFrame, GateFrame, FolderFrame, PlannerFrame
         DEF IInv, vars, manageVars, analysisVars, worldVars, folderVars
  <1>. QED  BY <1>1, <1>2, <1>3, <1>4, <1>5, <1>6 DEF Next

\* The inductive invariant.
THEOREM Invariance == Spec => []IInv
  BY InitHolds, StepKeeps, PTL DEF Spec

\* Types, for any projects, folders, runs, jobs and interferences.
THEOREM Typing == Spec => []TypeOK
  <1>1. IInv => TypeOK
    BY DEF IInv
  <1>. QED  BY <1>1, Invariance, PTL

----------------------------------------------------------------------------
LEMMA EligibleWhole == IInv => EligibleIsWhole
  <1> SUFFICES ASSUME IInv, NEW p \in Expandable, NEW r \in Runs,
                      Eligible(p, Request(r, p))
               PROVE  proof[p] = rows[p]
    BY DEF EligibleIsWhole
  <1>1. /\ proof[p] \in SUBSET Items
        /\ Cardinality(rows[p]) = Cardinality(proof[p])
        /\ rows[p] = proof[p] \/ rows[p] = {}
    BY Facts DEF Eligible, FolderFacts, ReceiptInv
  <1>2. CASE rows[p] = {}
    <2>1. Cardinality(proof[p]) = 0 /\ IsFiniteSet(proof[p])
      BY <1>1, <1>2, FS_EmptySet, FS_Subset, SafeManageAssumption
    <2>2. proof[p] = {}
      BY <2>1, FS_EmptySet
    <2>. QED  BY <1>2, <2>2
  <1>. QED  BY <1>1, <1>2

\* A folder that load_regenerable_candidates would let into a plan has the
\* rows one whole walk found: mark and receipt of a folder are never both
\* positive over rows that are part old, part new.
THEOREM EligibleFoldersAreWhole == Spec => []EligibleIsWhole
  BY EligibleWhole, Invariance, PTL

----------------------------------------------------------------------------
(***************************************************************************)
(* What closes a run.                                                      *)
(***************************************************************************)
ClosesWell ==
    \A r \in Runs :
        /\ runs[r] # "completed" /\ runs'[r] = "completed" =>
              Run = r /\ stored[r] = analyst.found
        /\ runs[r] \in Closed => runs'[r] = runs[r]

LEMMA FinishCancelledCloses ==
  ASSUME IInv, FinishCancelled, Run \in Runs
  PROVE  ClosesWell
  <1>1. CASE UNCHANGED runs
    BY <1>1 DEF ClosesWell
  <1>2. CASE \E s \in {"cancelled", "partial"} :
               MayBecome(Run, s) /\ runs' = [runs EXCEPT ![Run] = s]
    BY <1>2, RunFacts DEF ClosesWell, MayBecome, Closed
  <1>. QED  BY <1>1, <1>2 DEF FinishCancelled, MayFinalize

LEMMA RunningCloses ==
  ASSUME IInv, Run \in Runs, MayBecome(Run, "running"),
         runs' = [runs EXCEPT ![Run] = "running"]
  PROVE  ClosesWell
  BY RunFacts DEF ClosesWell, MayBecome, Closed

LEMMA CompletesCloses == IInv /\ Completes => ClosesWell
  <1> SUFFICES ASSUME IInv, Completes PROVE ClosesWell
    OBVIOUS
  <1>1. Run \in Runs
    BY RunFacts DEF Completes, At
  <1>2. CASE UNCHANGED runs
    BY <1>2 DEF ClosesWell
  <1>3. CASE /\ MayFinalize(Run, "completed", analyst.done)
             /\ runs' = [runs EXCEPT ![Run] = "completed"]
    <2>1. /\ stored[Run] \in [Projects -> Evidence \cup {None}]
          /\ analyst.found \in [Projects -> Evidence \cup {None}]
      BY <1>1, RunFacts DEF Analysts
    <2>2. \A p \in Projects : stored[Run][p] = analyst.found[p]
      <3>1. \A p \in Projects : /\ analyst.found[p] # None <=> p \in analyst.done
                                /\ stored[Run][p] \in {None, analyst.found[p]}
        BY RunFacts DEF CaptureInv, Completes
      <3>2. \A p \in Projects : stored[Run][p] # None <=> p \in analyst.done
        BY <1>3 DEF MayFinalize, Assessed
      <3>. QED  BY <3>1, <3>2
    <2>3. stored[Run] = analyst.found
      BY <2>1, <2>2
    <2>. QED
      BY <1>1, <1>3, <2>3, RunFacts DEF ClosesWell, MayFinalize, MayBecome, Closed
  <1>. QED  BY <1>2, <1>3 DEF Completes

LEMMA FailsCloses == IInv /\ Fails => ClosesWell
  BY RunFacts DEF Fails, ClosesWell, Terminal, Closed

LEMMA AnalystCloses == IInv /\ AnalystStep => ClosesWell
  <1> SUFFICES ASSUME IInv, AnalystStep PROVE ClosesWell
    OBVIOUS
  <1>1. CASE Stops \/ StopsCapture
    BY <1>1, RunFacts, FinishCancelledCloses DEF Stops, StopsCapture, At
  <1>2. CASE Begins \/ ReadsCatalog \/ SavesTotal
    <2>1. Run \in Runs
      BY <1>2, RunFacts DEF Begins, ReadsCatalog, SavesTotal, At
    <2>2. \/ UNCHANGED runs
          \/ /\ MayBecome(Run, "running")
             /\ runs' = [runs EXCEPT ![Run] = "running"]
      BY <1>2 DEF Begins, ReadsCatalog, SavesTotal, Header
    <2>. QED  BY <2>1, <2>2, RunningCloses DEF ClosesWell
  <1>3. CASE Completes \/ Fails
    BY <1>3, CompletesCloses, FailsCloses
  <1>4. CASE UNCHANGED runs
    BY <1>4 DEF ClosesWell
  <1>. QED
    BY <1>1, <1>2, <1>3, <1>4
       DEF AnalystStep, Captures, Captured, Frees, Probes, Appends, StaysInDb

LEMMA OtherwiseRunsKept ==
  ASSUME \/ Owner /\ ~\E r \in Runs : StartAnalysis(r)
         \/ Environment /\ ~Opens /\ ~OtherProcessOpens
         \/ PlannerStep
         \/ \E p \in Expandable : ExpanderStep(p)
  PROVE  UNCHANGED runs
  <1>1. CASE Owner /\ ~\E r \in Runs : StartAnalysis(r)
    BY <1>1 DEF Owner, CancelAnalysis, Decide, AskExpansion, StopExpansion,
                AskPlan, StopPlan, Aside, Beside, analysisVars
  <1>2. CASE Environment /\ ~Opens /\ ~OtherProcessOpens
    BY <1>2 DEF Environment, Restart, RootScan, Unregisters, Forgets, GitChanges,
                FolderChanges, DbFails, StartTooEarly, PlanDbFails,
                ExpansionDbFails, HitsLimit, StaysInDb, Aside, Beside, analysisVars
  <1>3. CASE PlannerStep
    BY <1>3 DEF PlannerStep, PlanEnters, PlanChecks, Builds, Publishes, Beside,
                analysisVars
  <1>4. CASE \E p \in Expandable : ExpanderStep(p)
    BY <1>4 DEF ExpanderStep, Enters, MarksAbsent, DeletesRows, MarksIncomplete,
                OpensReceipt, WalkEnds, Finishes, Derives, MarksBroken, Settles,
                Visits, Aside, analysisVars
  <1>. QED  BY <1>1, <1>2, <1>3, <1>4

LEMMA StepCloses == IInv /\ [Next]_vars => ClosesWell
  <1> SUFFICES ASSUME IInv, [Next]_vars PROVE ClosesWell
    OBVIOUS
  <1>1. CASE \E r \in Runs : StartAnalysis(r)
    BY <1>1, RunFacts DEF StartAnalysis, ClosesWell, Closed
  <1>2. CASE Opens \/ OtherProcessOpens
    BY <1>2, RunFacts
       DEF Opens, OtherProcessOpens, Reconciles, Reconciled, ClosesWell, Closed, Open
  <1>3. CASE AnalystMoves
    BY <1>3, AnalystCloses DEF AnalystMoves
  <1>4. CASE UNCHANGED runs
    BY <1>4 DEF ClosesWell
  <1>. QED
    BY <1>1, <1>2, <1>3, <1>4, OtherwiseRunsKept
       DEF Next, vars, analysisVars

\* A run is completed only over all its worker captured, and never changes
\* once it is closed.
THEOREM CompletedRunsAreWhole == Spec => CompleteIsWhole
  <1>1. IInv /\ [Next]_vars =>
          \A r \in Runs :
              /\ runs[r] # "completed" /\ runs'[r] = "completed" =>
                    Run = r /\ stored[r] = analyst.found
              /\ runs[r] \in Closed => runs'[r] = runs[r]
    BY StepCloses DEF ClosesWell
  <1>. QED  BY <1>1, Invariance, PTL DEF Spec, CompleteIsWhole

----------------------------------------------------------------------------
(***************************************************************************)
(* What publishes a plan.                                                  *)
(***************************************************************************)
Authorised ==
    LET p == planner.project
    IN /\ decisions[p] = Decided(planner.req, planner.choice)
       /\ runs[planner.req.run] = "completed"
       /\ p \notin Untouchable
       /\ planner.req.ev = EvidenceNow(p)
       /\ planner.choice = "clean" => planner.built = proof[p] \/ cut[p]

LEMMA PublishIsAuthorised ==
  ASSUME IInv, PlannerAt("publish"), Allowed
  PROVE  Authorised
  <1> DEFINE p == planner.project
  <1>1. /\ p \in Listed /\ planner.req.ev = EvidenceNow(p)
        /\ stored[planner.req.run][p] = planner.req.ev
        /\ runs[planner.req.run] = "completed"
        /\ p \notin Untouchable
        /\ decisions[p] = Decided(planner.req, planner.choice)
        /\ planner.choice = "clean" => Eligible(p, planner.req)
    BY DEF Allowed, Current, MayPlan, Bound
  <1>2. ASSUME planner.choice = "clean", ~cut[p]
        PROVE  planner.built = proof[p]
    <2>1. /\ p \in Expandable /\ planner.req \in Requests
          /\ planner.built = present[p]
      BY <1>1, <1>2 DEF IInv, PlannerInv, PlannerAt, Listed
    <2>2. ~ExpanderAt(p, "delete")
      <3>1. gate.writer = "planner" /\ gate.readers = {}
        BY AnalysisAssumption DEF IInv, GateInv, PlannerAt, Building
      <3>. QED  BY <2>1, <3>1 DEF IInv, GateInv, AtWork, ExpanderAt
    <2>3. present[p] = rows[p]
      BY <1>2, <2>1, <2>2 DEF IInv, FolderInv, PresentInv
    <2>4. planner.req.run \in Runs /\ planner.req = Request(planner.req.run, p)
      BY <1>1, <2>1 DEF Requests, Request
    <2>5. proof[p] = rows[p]
      BY <1>1, <1>2, <2>1, <2>4, EligibleWhole DEF EligibleIsWhole
    <2>. QED  BY <2>1, <2>3, <2>5
  <1>. QED  BY <1>1, <1>2 DEF Authorised

LEMMA OnlyPublishes ==
  ASSUME IInv, [Next]_vars, ~PlannerAt("done"), planner'.pc = "done"
  PROVE  Publishes
  <1>0. planner \in Planners
    BY TypeParts DEF IInv, JobTypes
  <1>1. CASE Owner
    BY <1>0, <1>1 DEF Planners, Owner, Analysis, manageVars, Decide, AskExpansion,
                      StopExpansion, AskPlan, StopPlan, Aside, PlannerAt, NoPlanner
  <1>2. CASE Environment
    <2>1. CASE planner' = NoPlanner
      BY <2>1 DEF NoPlanner
    <2>2. CASE UNCHANGED planner
      BY <2>2 DEF PlannerAt
    <2>. QED
      BY <1>2, <2>1, <2>2
         DEF Environment, Opens, OtherProcessOpens, Threads, Restart, RootScan,
             Unregisters, Forgets, GitChanges, FolderChanges, Analysis,
             manageVars, PlanDbFails, EndsPlan, ExpansionDbFails, HitsLimit, Aside
  <1>3. CASE AnalystMoves
    BY <1>3 DEF AnalystMoves, Analysis, manageVars, PlannerAt
  <1>4. CASE PlannerStep
    <2>1. CASE planner' = NoPlanner
      BY <2>1 DEF NoPlanner
    <2>2. CASE PlanEnters
      BY <1>0, <2>2 DEF PlanEnters, Planners
    <2>3. CASE PlanChecks
      BY <1>0, <2>1, <2>3 DEF PlanChecks, EndsPlan, Planners
    <2>4. CASE Builds
      BY <1>0, <2>1, <2>4 DEF Builds, EndsPlan, Planners
    <2>. QED  BY <1>4, <2>2, <2>3, <2>4 DEF PlannerStep
  <1>5. CASE \E p \in Expandable : ExpanderStep(p)
    BY <1>5 DEF ExpanderStep, Enters, MarksAbsent, DeletesRows, MarksIncomplete,
                OpensReceipt, WalkEnds, Finishes, Derives, MarksBroken, Settles,
                Visits, Aside, PlannerAt
  <1>6. CASE UNCHANGED vars
    BY <1>6 DEF vars, manageVars, PlannerAt
  <1>. QED  BY <1>1, <1>2, <1>3, <1>4, <1>5, <1>6 DEF Next

\* A plan that is published carries out the latest decision about evidence
\* that still holds, and lists what the walk it relies on found.
THEOREM PublishedPlansAreAuthorised == Spec => PlanIsAuthorised
  <1>1. IInv /\ [Next]_vars =>
          (~PlannerAt("done") /\ planner'.pc = "done" =>
             LET p == planner.project
             IN /\ decisions[p] = Decided(planner.req, planner.choice)
                /\ runs[planner.req.run] = "completed"
                /\ p \notin Untouchable
                /\ planner.req.ev = EvidenceNow(p)
                /\ planner.choice = "clean" =>
                      planner.built = proof[p] \/ cut[p])
    <2> SUFFICES ASSUME IInv, [Next]_vars, ~PlannerAt("done"),
                        planner'.pc = "done"
                 PROVE  Authorised
      BY DEF Authorised
    <2>1. PlannerAt("publish") /\ Allowed
      BY OnlyPublishes DEF Publishes, NoPlanner
    <2>. QED  BY <2>1, PublishIsAuthorised
  <1>. QED  BY <1>1, Invariance, PTL DEF Spec, PlanIsAuthorised

=============================================================================
