--------------------------- MODULE ScanJobsProofs ---------------------------
(***************************************************************************)
(* Proofs about ScanJobs for every set of roots, items and contents and    *)
(* any number of jobs and edits: type correctness, and the exclusive       *)
(* ownership of the roots wherever pruning spares the jobs that stop.      *)
(***************************************************************************)
EXTENDS ScanJobs, FiniteSetTheorems, TLAPS

----------------------------------------------------------------------------
(***************************************************************************)
(* Type correctness.  It needs one fact beyond the types: a thread in the  *)
(* middle of a scan has a root, by which it indexes the catalog.           *)
(***************************************************************************)
Scanning == {"begin"} \cup BegunPcs

RootChosen == \A j \in Jobs : W(j).pc \in Scanning => R(j) \in Roots

Typed == TypeOK /\ RootChosen

CatalogTypeOK ==
    /\ rows \in [Roots -> Inventory]
    /\ project \in [Roots -> BOOLEAN]
    /\ sizes \in [Roots -> Inventory]
    /\ tracked \in [Roots -> [known : BOOLEAN, state : Inventory]]
    /\ rootRow \in [Roots -> {"absent", "disabled", "enabled"}]
    /\ scanned \in [Roots -> BOOLEAN]

\* A thread record that may be stored: its type, and its root if it scans.
Proper(w) == w \in Workers /\ (w.pc \in Scanning => w.root \in Roots)

\* The null records have their types.
LEMMA NullTypes ==
    /\ Proper(NoWorker)
    /\ NoCall \in Callers
    /\ Nothing \in Inventory
    /\ NoBaseline \in [known : BOOLEAN, state : Inventory]
BY JobStoreAssumption
   DEF Proper, Scanning, NoWorker, Workers, WorkerPcs, BegunPcs, FinishPcs,
       NoCall, Callers, NoBaseline, Nothing, Inventory, Stored

\* Storing a proper record keeps the threads typed (Become).
LEMMA BecomeTypes ==
    ASSUME Typed, NEW j \in Jobs, NEW w, Proper(w), Become(j, w)
    PROVE  (worker \in [Jobs -> Workers])' /\ RootChosen'
<1>1. worker \in [Jobs -> Workers] /\ RootChosen
  BY DEF Typed, TypeOK
<1>2. \A k \in Jobs : worker'[k] = IF k = j THEN w ELSE worker[k]
  BY <1>1 DEF Become
<1>3. (worker \in [Jobs -> Workers])'
  BY <1>1 DEF Become, Proper
<1>4. RootChosen'
  BY <1>1, <1>2 DEF RootChosen, Proper, W, R
<1> QED BY <1>3, <1>4

\* A thread that ends leaves the store and the threads typed (End).
LEMMA EndTypes ==
    ASSUME Typed, NEW j \in Jobs, NEW state \in JobStates, End(j, state)
    PROVE  JobStoreTypeOK' /\ (worker \in [Jobs -> Workers])' /\ RootChosen'
<1>1. JobStoreTypeOK'
  BY DEF Typed, TypeOK, JobStoreTypeOK, End, Close, Tokens
<1> QED BY <1>1, NullTypes, BecomeTypes DEF End

\* A thread of a running scan that moves on stays typed (Goto).
LEMMA GotoTypes ==
    ASSUME Typed, NEW j \in Jobs, NEW pc \in WorkerPcs, Goto(j, pc),
           pc \in Scanning => W(j).pc \in Scanning
    PROVE  (worker \in [Jobs -> Workers])' /\ RootChosen'
<1> DEFINE w == [W(j) EXCEPT !.pc = pc]
<1>1. W(j) \in Workers /\ (W(j).pc \in Scanning => W(j).root \in Roots)
  BY DEF Typed, TypeOK, RootChosen, W, R
<1>2. w \in Workers /\ w.pc = pc /\ w.root = W(j).root
  BY <1>1 DEF Workers
<1>3. Proper(w)
  BY <1>1, <1>2 DEF Proper
<1> QED BY <1>3, BecomeTypes DEF Goto

\* The same for the steps of finish_root_scan (Then).
LEMMA ThenTypes ==
    ASSUME Typed, NEW j \in Jobs, NEW pc \in BegunPcs, Then(j, pc),
           W(j).pc \in BegunPcs
    PROVE  (worker \in [Jobs -> Workers])' /\ RootChosen'
<1> DEFINE next == IF IsCancelled(j) THEN "stopped" ELSE pc
<1>1. next \in BegunPcs
  BY DEF BegunPcs
<1>2. next \in WorkerPcs /\ W(j).pc \in Scanning
  BY <1>1 DEF WorkerPcs, Scanning
<1>3. Goto(j, next)
  BY DEF Then
<1> HIDE DEF next
<1> QED BY <1>2, <1>3, GotoTypes

\* The store and the threads stay typed in every step of a thread.
LEMMA WorkerTypes ==
    ASSUME Typed, NEW j \in Jobs, WorkerStep(j)
    PROVE  JobStoreTypeOK' /\ (worker \in [Jobs -> Workers])' /\ RootChosen'
<1> DEFINE Goal == JobStoreTypeOK' /\ (worker \in [Jobs -> Workers])'
                     /\ RootChosen'
<1> USE DEF storeVars
<1>1. JobStoreTypeOK /\ W(j) \in Workers /\ world \in [Roots -> Inventory]
        /\ rows \in [Roots -> Inventory]
  BY DEF Typed, TypeOK, W
<1>2. W(j).pc \in Scanning => R(j) \in Roots
  BY DEF Typed, RootChosen
<1>3. {"target", "walk", "walked", "stopped", "finished", "mark", "sizes",
       "timeline", "reconcile", "begun"} \subseteq WorkerPcs
  BY DEF WorkerPcs, BegunPcs, FinishPcs
<1>4. BegunPcs = {"begun", "walk", "walked", "finished", "stopped",
                  "reconcile", "sizes", "timeline", "mark"}
  BY DEF BegunPcs, FinishPcs
<1>5. {"cancelled", "failed", "completed", "partial"} \subseteq JobStates
  BY DEF JobStates
<1>6. UNCHANGED storeVars => JobStoreTypeOK'
  BY <1>1 DEF JobStoreTypeOK
<1>7. ASSUME NEW state \in {"cancelled", "failed", "completed", "partial"},
             End(j, state)
      PROVE  Goal
  BY <1>5, <1>7, EndTypes
<1>8. EndCancelled(j) \/ CancelRoot(j) => Goal
  BY <1>7 DEF EndCancelled, CancelRoot
<1>9. ASSUME NEW w, Proper(w), Become(j, w), UNCHANGED storeVars PROVE Goal
  BY <1>6, <1>9, BecomeTypes
<1>10. CASE Prepare(j)
  <2>1. Goto(j, "target") /\ UNCHANGED storeVars => Goal
    BY <1>3, <1>6, GotoTypes DEF Scanning, BegunPcs, FinishPcs
  <2> QED BY <1>8, <1>10, <2>1 DEF Prepare
<1>11. CASE NextTarget(j)
  <2>1. ASSUME NEW r \in W(j).todo, UNCHANGED storeVars,
               Become(j, [W(j) EXCEPT !.pc = "begin", !.root = r])
        PROVE  Goal
    <3>1. r \in Roots
      BY <1>1 DEF Workers
    <3>2. Proper([W(j) EXCEPT !.pc = "begin", !.root = r])
      BY <1>1, <3>1 DEF Proper, Workers, WorkerPcs
    <3> QED BY <1>9, <2>1, <3>2
  <2> QED BY <1>8, <1>11, <2>1 DEF NextTarget
<1>12. CASE AllDone(j)
  BY <1>7, <1>12 DEF AllDone
<1>13. CASE BeginRootScan(j)
  <2> DEFINE during == [i \in Items |-> {world[R(j)][i]}]
  <2> DEFINE w == [W(j) EXCEPT !.pc = "begun", !.snap = rows[R(j)],
                               !.remaining = Present(rows[R(j)]),
                               !.left = Items, !.during = during]
  <2>1. R(j) \in Roots
    BY <1>2, <1>13 DEF BeginRootScan, Scanning
  <2>2. rows[R(j)] \in Inventory /\ world[R(j)] \in Inventory
    BY <1>1, <2>1
  <2>3. during \in [Items -> SUBSET Stored]
    BY <2>2 DEF Inventory
  <2>4. Present(rows[R(j)]) \subseteq Items
    BY DEF Present
  <2> HIDE DEF during
  <2>5. w \in Workers /\ w.root = R(j)
    BY <1>1, <1>3, <2>2, <2>3, <2>4 DEF Workers, W, R
  <2>6. Proper(w)
    BY <2>1, <2>5 DEF Proper
  <2> QED BY <1>9, <1>13, <2>6 DEF BeginRootScan, during
<1>14. CASE StartWalk(j)
  <2>1. W(j).pc = "begun" /\ Goto(j, "walk") /\ UNCHANGED storeVars => Goal
    BY <1>3, <1>4, <1>6, GotoTypes DEF Scanning
  <2> QED BY <1>8, <1>14, <2>1 DEF StartWalk
<1>15. ASSUME NEW i \in Items, WalkItem(j, i) PROVE Goal
  <2> DEFINE batch == [W(j).batch EXCEPT ![i] = world[R(j)][i]]
  <2>1. R(j) \in Roots /\ W(j).pc = "walk"
    BY <1>2, <1>4, <1>15 DEF WalkItem, Scanning
  <2>2. batch \in Inventory
    BY <1>1, <2>1 DEF Inventory, Workers
  <2> DEFINE left == W(j).left \ {i}
  <2>3. left \in SUBSET Items
    BY <1>1 DEF Workers
  <2> HIDE DEF batch, left
  <2> DEFINE w == [W(j) EXCEPT !.left = left, !.batch = batch]
  <2>4. w \in Workers /\ w.root = R(j)
    BY <1>1, <2>2, <2>3 DEF Workers, W, R
  <2>5. Proper(w)
    BY <2>1, <2>4 DEF Proper
  <2>6. w = [W(j) EXCEPT !.left = @ \ {i}, !.batch[i] = world[R(j)][i]]
    BY <1>1 DEF left, batch, Workers
  <2> HIDE DEF w
  <2> QED BY <1>9, <1>15, <2>5, <2>6 DEF WalkItem
<1>16. ASSUME NEW i \in Items, SkipUnreadable(j, i) PROVE Goal
  <2> DEFINE w == [W(j) EXCEPT !.left = @ \ {i}]
  <2>1. w \in Workers /\ w.root = R(j) /\ w.pc = W(j).pc
    BY <1>1 DEF Workers, W, R
  <2>2. Proper(w)
    BY <1>2, <2>1 DEF Proper
  <2> QED BY <1>9, <1>16, <2>2 DEF SkipUnreadable
<1>17. ASSUME NEW i \in Items, SkipOverLimit(j, i) PROVE Goal
  <2> DEFINE w == [W(j) EXCEPT !.left = @ \ {i}, !.partial = TRUE]
  <2>1. w \in Workers /\ w.root = R(j) /\ w.pc = W(j).pc
    BY <1>1 DEF Workers, W, R
  <2>2. Proper(w)
    BY <1>2, <2>1 DEF Proper
  <2> QED BY <1>9, <1>17, <2>2 DEF SkipOverLimit
<1>18. CASE PersistBatch(j)
  <2>0. PICK reread \in SUBSET Items :
          Become(j, [W(j) EXCEPT !.batch = Nothing,
                                 !.remaining = @ \ Present(W(j).batch),
                                 !.changed = @ \cup ToWrite(j, reread)])
    BY <1>18 DEF PersistBatch
  <2> DEFINE found == Present(W(j).batch)
             fresh == ToWrite(j, reread)
             w == [W(j) EXCEPT !.batch = Nothing, !.remaining = @ \ found,
                               !.changed = @ \cup fresh]
  <2>1. fresh \subseteq Items
    BY DEF Present, ToWrite
  <2>2. Nothing \in Inventory
    BY NullTypes
  <2>3. Become(j, w) /\ UNCHANGED storeVars
    BY <1>18, <2>0 DEF PersistBatch
  <2> HIDE DEF found, fresh
  <2>4. w \in Workers /\ w.root = R(j) /\ w.pc = W(j).pc
    BY <1>1, <2>1, <2>2 DEF Workers, W, R
  <2>5. Proper(w)
    BY <1>2, <2>4 DEF Proper
  <2> QED BY <1>9, <2>3, <2>5
<1>19. CASE RefuseBatch(j)
  BY <1>8, <1>19 DEF RefuseBatch
<1>20. CASE WalkCancelled(j)
  <2> DEFINE w == [W(j) EXCEPT !.pc = "walked", !.left = {},
                               !.cancelled = TRUE]
  <2>1. w \in Workers /\ w.root = R(j)
    BY <1>1, <1>3 DEF Workers, W, R
  <2>2. R(j) \in Roots
    BY <1>2, <1>4, <1>20 DEF WalkCancelled, Scanning
  <2>3. Proper(w)
    BY <2>1, <2>2 DEF Proper
  <2> QED BY <1>9, <1>20, <2>3 DEF WalkCancelled
<1>21. CASE WalkEnds(j)
  <2>1. W(j).pc = "walk" /\ Goto(j, "walked") /\ UNCHANGED storeVars
    BY <1>21 DEF WalkEnds
  <2> QED BY <1>3, <1>4, <1>6, <2>1, GotoTypes DEF Scanning
<1>22. CASE StartFinish(j)
  <2> DEFINE full == Full(j)
             pc == IF full THEN "reconcile" ELSE "mark"
             w == [W(j) EXCEPT !.full = full, !.pc = pc]
  <2>1. full \in BOOLEAN
    BY <1>1 DEF Full, Workers
  <2>2. pc \in WorkerPcs
    BY <1>3
  <2>3. EndCancelled(j) \/ (Become(j, w) /\ UNCHANGED storeVars)
    BY <1>22 DEF StartFinish
  <2> HIDE DEF full, pc
  <2>4. w \in Workers /\ w.root = R(j)
    BY <1>1, <2>1, <2>2 DEF Workers, W, R
  <2>5. R(j) \in Roots
    BY <1>2, <1>4, <1>22 DEF StartFinish, Scanning
  <2>6. Proper(w)
    BY <2>4, <2>5 DEF Proper
  <2> QED BY <1>8, <1>9, <2>3, <2>6
<1>23. CASE Reconcile(j)
  <2> DEFINE pc == IF Delta(j) # {} /\ ~W(j).background THEN "sizes"
                   ELSE "timeline"
  <2>1. pc \in BegunPcs
    BY <1>4
  <2>2. Then(j, pc) /\ W(j).pc \in BegunPcs /\ UNCHANGED storeVars
    BY <1>4, <1>23 DEF Reconcile
  <2> HIDE DEF pc
  <2> QED BY <1>6, <2>1, <2>2, ThenTypes
<1>24. CASE DeriveSizes(j)
  BY <1>4, <1>6, <1>24, ThenTypes DEF DeriveSizes
<1>25. CASE RecordTimeline(j)
  BY <1>4, <1>6, <1>25, ThenTypes DEF RecordTimeline
<1>26. CASE MarkRoot(j)
  BY <1>4, <1>6, <1>26, ThenTypes DEF MarkRoot
<1>27. CASE FinishStopped(j)
  BY <1>8, <1>27 DEF FinishStopped
<1>28. CASE RootFinished(j)
  <2> DEFINE todo == W(j).todo \ {R(j)}
             w == [NoWorker EXCEPT !.pc = "target", !.todo = todo,
                                   !.background = W(j).background]
  <2>1. \/ CancelRoot(j) \/ End(j, "partial")
        \/ Become(j, w) /\ UNCHANGED storeVars
    BY <1>28 DEF RootFinished, NextRoot
  <2>2. todo \in SUBSET Roots /\ W(j).background \in BOOLEAN
    BY <1>1 DEF Workers
  <2>3. NoWorker \in Workers
    BY NullTypes DEF Proper
  <2> HIDE DEF todo
  <2>4. w \in Workers /\ w.pc = "target"
    BY <1>3, <2>2, <2>3 DEF Workers
  <2>5. Proper(w)
    BY <2>4, <1>4 DEF Proper, Scanning
  <2> QED BY <1>7, <1>8, <1>9, <2>1, <2>5
<1>29. CASE DatabaseFails(j)
  BY <1>7, <1>29 DEF DatabaseFails
<1> QED
  BY <1>10, <1>11, <1>12, <1>13, <1>14, <1>15, <1>16, <1>17, <1>18, <1>19,
     <1>20, <1>21, <1>22, <1>23, <1>24, <1>25, <1>26, <1>27, <1>28, <1>29
  DEF WorkerStep

\* A table written for one root only stays typed: all the catalog does with a
\* row outside unregistering.
LEMMA TableTypes ==
    ASSUME NEW S, NEW t \in [Roots -> S], NEW r, NEW v \in S
    PROVE  [t EXCEPT ![r] = v] \in [Roots -> S]
OBVIOUS

\* The catalog stays typed in every step of a thread.
LEMMA WorkerCatalog ==
    ASSUME Typed, NEW j \in Jobs, WorkerStep(j)
    PROVE  CatalogTypeOK'
<1> USE DEF catalogVars
<1>1. CatalogTypeOK /\ W(j) \in Workers
  BY DEF Typed, TypeOK, CatalogTypeOK, W
<1>2. UNCHANGED catalogVars => CatalogTypeOK'
  BY <1>1 DEF CatalogTypeOK
<1>3. W(j).pc \in Scanning => R(j) \in Roots
  BY DEF Typed, RootChosen
<1>4. CASE Prepare(j)
  BY <1>2, <1>4 DEF Prepare, EndCancelled
<1>5. CASE NextTarget(j)
  BY <1>2, <1>5 DEF NextTarget, EndCancelled
<1>6. CASE AllDone(j)
  BY <1>2, <1>6 DEF AllDone
<1>7. CASE BeginRootScan(j)
  <2>1. project' \in [Roots -> BOOLEAN] /\ scanned' \in [Roots -> BOOLEAN]
    BY <1>1, <1>7, TableTypes DEF BeginRootScan, CatalogTypeOK
  <2> QED BY <1>1, <1>7, <2>1 DEF BeginRootScan, CatalogTypeOK
<1>8. CASE StartWalk(j)
  BY <1>2, <1>8 DEF StartWalk, EndCancelled
<1>9. ASSUME NEW i \in Items,
             WalkItem(j, i) \/ SkipUnreadable(j, i) \/ SkipOverLimit(j, i)
      PROVE  CatalogTypeOK'
  BY <1>2, <1>9 DEF WalkItem, SkipUnreadable, SkipOverLimit
<1>10. CASE PersistBatch(j)
  <2>0. PICK reread \in SUBSET Items :
          rows' = [rows EXCEPT ![R(j)] =
            [i \in Items |-> IF i \in ToWrite(j, reread) THEN W(j).batch[i]
                             ELSE @[i]]]
    BY <1>10 DEF PersistBatch
  <2> DEFINE batch == W(j).batch
             new == [i \in Items |-> IF i \in ToWrite(j, reread) THEN batch[i]
                                     ELSE rows[R(j)][i]]
  <2>1. R(j) \in Roots
    BY <1>3, <1>10 DEF PersistBatch, Scanning, BegunPcs
  <2>2. rows' = [rows EXCEPT ![R(j)] = new]
    BY <2>0
  <2>3. batch \in Inventory /\ rows[R(j)] \in Inventory
    BY <1>1, <2>1 DEF Workers, CatalogTypeOK
  <2>4. new \in Inventory
    BY <2>3 DEF Inventory
  <2> HIDE DEF new
  <2>5. rows' \in [Roots -> Inventory]
    BY <1>1, <2>2, <2>4, TableTypes DEF CatalogTypeOK
  <2> QED BY <1>1, <1>10, <2>5 DEF PersistBatch, CatalogTypeOK
<1>11. CASE RefuseBatch(j)
  BY <1>2, <1>11 DEF RefuseBatch, EndCancelled
<1>12. CASE WalkCancelled(j) \/ WalkEnds(j)
  BY <1>2, <1>12 DEF WalkCancelled, WalkEnds
<1>13. CASE StartFinish(j)
  BY <1>2, <1>13 DEF StartFinish, EndCancelled
<1>14. CASE Reconcile(j)
  <2> DEFINE new == [i \in Items |-> IF i \in W(j).remaining THEN Gone
                                     ELSE rows[R(j)][i]]
  <2>1. R(j) \in Roots
    BY <1>3, <1>14 DEF Reconcile, Scanning, BegunPcs, FinishPcs
  <2>2. rows' = rows \/ rows' = [rows EXCEPT ![R(j)] = new]
    BY <1>14 DEF Reconcile
  <2>3. new \in Inventory
    BY <1>1, <2>1 DEF CatalogTypeOK, Inventory, Stored
  <2> HIDE DEF new
  <2>4. rows' \in [Roots -> Inventory]
    BY <1>1, <2>2, <2>3, TableTypes DEF CatalogTypeOK
  <2> QED BY <1>1, <1>14, <2>4 DEF Reconcile, CatalogTypeOK
<1>15. CASE DeriveSizes(j)
  <2>1. R(j) \in Roots
    BY <1>3, <1>15 DEF DeriveSizes, Scanning, BegunPcs, FinishPcs
  <2>2. sizes' \in [Roots -> Inventory]
    BY <1>1, <1>15, <2>1, TableTypes DEF DeriveSizes, CatalogTypeOK
  <2> QED BY <1>1, <1>15, <2>2 DEF DeriveSizes, CatalogTypeOK
<1>16. CASE RecordTimeline(j)
  <2> DEFINE new == [known |-> TRUE, state |-> Observed(j)]
  <2>1. R(j) \in Roots
    BY <1>3, <1>16 DEF RecordTimeline, Scanning, BegunPcs, FinishPcs
  <2>2. tracked' = tracked \/ tracked' = [tracked EXCEPT ![R(j)] = new]
    BY <1>16 DEF RecordTimeline
  <2>3. /\ rows[R(j)] \in Inventory
        /\ tracked[R(j)] \in [known : BOOLEAN, state : Inventory]
    BY <1>1, <2>1 DEF CatalogTypeOK
  <2>4. Observed(j) \in Inventory
    BY <2>3 DEF Observed, Inventory
  <2>5. new \in [known : BOOLEAN, state : Inventory]
    BY <2>4
  <2> HIDE DEF new
  <2>6. tracked' \in [Roots -> [known : BOOLEAN, state : Inventory]]
    BY <1>1, <2>2, <2>5, TableTypes DEF CatalogTypeOK
  <2> QED BY <1>1, <1>16, <2>6 DEF RecordTimeline, CatalogTypeOK
<1>17. CASE MarkRoot(j)
  <2> DEFINE new == W(j).full /\ rootRow[R(j)] # "absent"
  <2>1. new \in BOOLEAN
    BY <1>1 DEF Workers
  <2>2. scanned' = scanned \/ scanned' = [scanned EXCEPT ![R(j)] = new]
    BY <1>17 DEF MarkRoot
  <2> HIDE DEF new
  <2>3. scanned' \in [Roots -> BOOLEAN]
    BY <1>1, <2>1, <2>2, TableTypes DEF CatalogTypeOK
  <2> QED BY <1>1, <1>17, <2>3 DEF MarkRoot, CatalogTypeOK
<1>18. CancelRoot(j) => CatalogTypeOK'
  <2> SUFFICES ASSUME CancelRoot(j) PROVE CatalogTypeOK'
    OBVIOUS
  <2> DEFINE new == scanned[R(j)] /\ ~W(j).full
  <2>1. new \in BOOLEAN
    OBVIOUS
  <2>2. scanned' = [scanned EXCEPT ![R(j)] = new]
    BY DEF CancelRoot
  <2> HIDE DEF new
  <2>3. scanned' \in [Roots -> BOOLEAN]
    BY <1>1, <2>1, <2>2, TableTypes DEF CatalogTypeOK
  <2> QED BY <1>1, <2>3 DEF CancelRoot, CatalogTypeOK
<1>19. CASE FinishStopped(j)
  BY <1>18, <1>19 DEF FinishStopped
<1>20. CASE RootFinished(j)
  BY <1>2, <1>18, <1>20 DEF RootFinished
<1>21. CASE DatabaseFails(j)
  BY <1>2, <1>21 DEF DatabaseFails
<1> QED
  BY <1>4, <1>5, <1>6, <1>7, <1>8, <1>9, <1>10, <1>11, <1>12, <1>13, <1>14,
     <1>15, <1>16, <1>17, <1>19, <1>20, <1>21
  DEF WorkerStep

\* A command that starts or returns is a caller record (Call, Return).
LEMMA CallTypes ==
    ASSUME caller \in [Threads -> Callers], NEW c \in Threads,
           NEW pc \in {"admit", "cancel", "disable", "unregister", "forget"},
           NEW rs \in SUBSET Roots, NEW j \in Jobs \cup {0},
           Call(c, pc, rs, j) \/ Return(c)
    PROVE  caller' \in [Threads -> Callers]
<1> DEFINE call == [pc |-> pc, roots |-> rs, job |-> j]
<1>1. call \in Callers
  BY JobStoreAssumption DEF Callers, Jobs
<1>2. \/ caller' = [caller EXCEPT ![c] = call]
      \/ caller' = [caller EXCEPT ![c] = NoCall]
  BY DEF Call, Return
<1> HIDE DEF call
<1> QED BY <1>1, <1>2, NullTypes

\* A command that returns (Return).
LEMMA ReturnTypes ==
    ASSUME caller \in [Threads -> Callers], NEW c \in Threads, Return(c)
    PROVE  caller' \in [Threads -> Callers]
BY NullTypes DEF Return

\* Every request of a user or of the resident loop keeps the types.
LEMMA RequestTypes ==
    ASSUME Typed, UserCall
    PROVE  Typed'
<1> USE DEF storeVars, catalogVars
<1>1. /\ caller \in [Threads -> Callers] /\ rootRow \in [Roots ->
            {"absent", "disabled", "enabled"}]
      /\ JobStoreTypeOK
  BY DEF Typed, TypeOK
<1>2. ASSUME caller' \in [Threads -> Callers],
             UNCHANGED <<storeVars, catalogVars, world, worker, edits>>
      PROVE  Typed'
  BY <1>2 DEF Typed, TypeOK, JobStoreTypeOK, RootChosen, W, R
<1>3. {"ui", "resident"} \subseteq Threads
  BY DEF Threads
<1>4. ASSUME NEW rs \in SUBSET Roots, ScanRequest(rs) PROVE Typed'
  <2> DEFINE enabled == {r \in rs : rootRow[r] = "enabled"}
  <2>1. enabled \in SUBSET Roots
    OBVIOUS
  <2>2. Call("ui", "admit", enabled, 0)
    BY <1>4 DEF ScanRequest
  <2> HIDE DEF enabled
  <2>3. caller' \in [Threads -> Callers]
    BY <1>1, <1>3, <2>1, <2>2, CallTypes
  <2> QED BY <1>2, <1>4, <2>3 DEF ScanRequest
<1>5. ASSUME NEW r \in Roots, RefreshRequest(r) PROVE Typed'
  <2>1. caller' \in [Threads -> Callers]
    BY <1>1, <1>3, <1>5, CallTypes DEF RefreshRequest
  <2> QED BY <1>2, <1>5, <2>1 DEF RefreshRequest
<1>6. ASSUME NEW r \in Roots, DisableRequest(r) PROVE Typed'
  <2>1. caller' \in [Threads -> Callers]
    BY <1>1, <1>3, <1>6, CallTypes DEF DisableRequest
  <2> QED BY <1>2, <1>6, <2>1 DEF DisableRequest
<1>7. ASSUME NEW r \in Roots, UnregisterRequest(r) PROVE Typed'
  <2>1. caller' \in [Threads -> Callers]
    BY <1>1, <1>3, <1>7, CallTypes DEF UnregisterRequest
  <2> QED BY <1>2, <1>7, <2>1 DEF UnregisterRequest
<1>8. ASSUME NEW r \in Roots, EnableRoot(r) PROVE Typed'
  <2>1. rootRow' \in [Roots -> {"absent", "disabled", "enabled"}]
    BY <1>1, <1>8, TableTypes DEF EnableRoot
  <2> QED
    BY <1>8, <2>1 DEF EnableRoot, Typed, TypeOK, JobStoreTypeOK, RootChosen,
                      W, R
<1>9. ASSUME NEW j \in Jobs, CancelRequest(j) PROVE Typed'
  <2>1. caller' \in [Threads -> Callers]
    BY <1>1, <1>3, <1>9, CallTypes DEF CancelRequest
  <2>2. JobStoreTypeOK'
    BY <1>1, <1>9 DEF CancelRequest, RequestCancelToken, JobStoreTypeOK, Tokens
  <2> QED
    BY <1>9, <2>1, <2>2 DEF CancelRequest, Typed, TypeOK, RootChosen, W, R
<1> QED BY <1>4, <1>5, <1>6, <1>7, <1>8, <1>9 DEF UserCall

\* Every later half of a command keeps the types.
LEMMA CallStepTypes ==
    ASSUME Typed, NEW c \in Threads, CallStep(c)
    PROVE  Typed'
<1> USE DEF storeVars, catalogVars
<1>1. /\ caller \in [Threads -> Callers] /\ rootRow \in [Roots ->
            {"absent", "disabled", "enabled"}]
      /\ JobStoreTypeOK /\ "ui" \in Threads
  BY DEF Typed, TypeOK, Threads
<1>2. ASSUME NEW j \in Jobs, Admitted(c, j) PROVE Typed'
  <2> DEFINE rs == caller[c].roots
             w == [NoWorker EXCEPT !.pc = "prepare", !.todo = rs,
                                   !.background = (c = "resident")]
             record == [state |-> "running", roots |-> rs]
  <2>1. rs \in SUBSET Roots
    BY <1>1 DEF Callers
  <2>2. caller' \in [Threads -> Callers]
    BY <1>1, <1>2, ReturnTypes DEF Admitted
  <2>3. Become(j, w)
    BY <1>2 DEF Admitted
  <2>4. PICK D \in Prunable : jobs' = [Without(D) EXCEPT ![j] = record]
    BY <1>2 DEF Admitted, Admit
  <2>5. tokens' = [tokens EXCEPT ![j] = "clear"]
    BY <1>2 DEF Admitted, Admit
  <2> HIDE DEF rs
  <2>6. w \in Workers /\ w.pc = "prepare"
    BY <2>1, NullTypes DEF Proper, Workers, WorkerPcs
  <2>7. Proper(w)
    BY <2>6 DEF Proper, Scanning, BegunPcs, FinishPcs
  <2> HIDE DEF w
  <2>8. (worker \in [Jobs -> Workers])' /\ RootChosen'
    BY <2>3, <2>7, BecomeTypes
  <2>9. record \in [state : JobStates, roots : SUBSET Roots]
    BY <2>1 DEF JobStates, OwningStates
  <2>10. Without(D) \in [Jobs -> [state : JobStates, roots : SUBSET Roots]]
    BY <1>1 DEF Without, JobStoreTypeOK, JobStates, NoRecord
  <2> HIDE DEF record
  <2>11. JobStoreTypeOK'
    BY <1>1, <2>4, <2>5, <2>9, <2>10 DEF JobStoreTypeOK, Tokens
  <2> QED BY <1>2, <2>2, <2>8, <2>11 DEF Admitted, Typed, TypeOK
<1>3. CASE AlreadyOwned(c)
  <2>1. caller' \in [Threads -> Callers]
    BY <1>1, <1>3, ReturnTypes DEF AlreadyOwned
  <2> QED
    BY <1>3, <2>1 DEF AlreadyOwned, Typed, TypeOK, JobStoreTypeOK, RootChosen,
                      W, R
<1>4. CASE CancelStored
  <2>1. caller' \in [Threads -> Callers]
    BY <1>1, <1>4, ReturnTypes DEF CancelStored
  <2>2. JobStoreTypeOK'
    BY <1>1, <1>4 DEF CancelStored, RequestCancelStatus, JobStoreTypeOK,
                      JobStates, OwningStates
  <2> QED
    BY <1>4, <2>1, <2>2 DEF CancelStored, Typed, TypeOK, RootChosen, W, R
<1>5. CASE DisableRoot
  <2>1. caller' \in [Threads -> Callers]
    BY <1>1, <1>5, ReturnTypes DEF DisableRoot
  <2>2. rootRow' \in [Roots -> {"absent", "disabled", "enabled"}]
    BY <1>1, <1>5 DEF DisableRoot
  <2> QED
    BY <1>5, <2>1, <2>2 DEF DisableRoot, Typed, TypeOK, JobStoreTypeOK,
                            RootChosen, W, R
<1>6. CASE DeleteRoot
  <2>1. caller["ui"].roots \in SUBSET Roots
    BY <1>1 DEF Callers
  <2>2. caller' \in [Threads -> Callers]
    BY <1>1, <1>6, <2>1, CallTypes DEF DeleteRoot
  <2>3. rootRow' \in [Roots -> {"absent", "disabled", "enabled"}]
    BY <1>1, <1>6 DEF DeleteRoot
  <2>4. scanned' \in [Roots -> BOOLEAN]
    BY <1>6 DEF DeleteRoot
  <2> QED
    BY <1>6, <2>2, <2>3, <2>4 DEF DeleteRoot, Typed, TypeOK, JobStoreTypeOK,
                                  RootChosen, W, R
<1>7. CASE DeleteProject
  <2>1. caller' \in [Threads -> Callers]
    BY <1>1, <1>7, ReturnTypes DEF DeleteProject
  <2>2. rows' \in [Roots -> Inventory] /\ sizes' \in [Roots -> Inventory]
    BY <1>7, NullTypes DEF DeleteProject, Typed, TypeOK
  <2>3. tracked' \in [Roots -> [known : BOOLEAN, state : Inventory]]
    BY <1>7, NullTypes DEF DeleteProject, Typed, TypeOK
  <2>4. project' \in [Roots -> BOOLEAN]
    BY <1>7 DEF DeleteProject
  <2> QED
    BY <1>7, <2>1, <2>2, <2>3, <2>4 DEF DeleteProject, Typed, TypeOK,
                                        JobStoreTypeOK, RootChosen, W, R
<1> QED BY <1>2, <1>3, <1>4, <1>5, <1>6, <1>7 DEF CallStep

\* A change made to the disk keeps the types, those of the history included.
LEMMA EditTypes ==
    ASSUME Typed, NEW r \in Roots, NEW i \in Items, NEW x \in Stored,
           Edit(r, i, x)
    PROVE  Typed'
<1> USE DEF storeVars, catalogVars
<1>1. /\ world \in [Roots -> Inventory] /\ worker \in [Jobs -> Workers]
      /\ RootChosen /\ edits \in 0..MaxEdits
  BY DEF Typed, TypeOK
<1>2. world' \in [Roots -> Inventory]
  BY <1>1 DEF Edit, Inventory
<1>3. edits' \in 0..MaxEdits
  BY <1>1, ScanAssumption DEF Edit
<1> DEFINE seen(j) == [W(j).during EXCEPT ![i] = @ \cup {x}]
<1>4. ASSUME NEW j \in Jobs
      PROVE  /\ [W(j) EXCEPT !.during[i] = @ \cup {x}] \in Workers
             /\ [W(j) EXCEPT !.during[i] = @ \cup {x}].pc = W(j).pc
             /\ [W(j) EXCEPT !.during[i] = @ \cup {x}].root = W(j).root
  <2>1. W(j) \in Workers
    BY <1>1 DEF W
  <2>2. seen(j) \in [Items -> SUBSET Stored]
    BY <2>1 DEF Workers
  <2>3. [W(j) EXCEPT !.during[i] = @ \cup {x}]
          = [W(j) EXCEPT !.during = seen(j)]
    BY <2>1 DEF Workers
  <2> HIDE DEF seen
  <2> QED BY <2>1, <2>2, <2>3 DEF Workers
<1>5. ASSUME NEW j \in Jobs
      PROVE  /\ worker'[j] \in Workers /\ worker'[j].pc = worker[j].pc
             /\ worker'[j].root = worker[j].root
  BY <1>1, <1>4 DEF Edit, W
<1>6. worker' \in [Jobs -> Workers]
  BY <1>5 DEF Edit
<1>7. RootChosen'
  BY <1>1, <1>5 DEF RootChosen, W, R
<1> QED
  BY <1>2, <1>3, <1>6, <1>7 DEF Edit, Typed, TypeOK, JobStoreTypeOK

\* A restart finds an empty store and no threads.
LEMMA RestartTypes ==
    ASSUME Typed, Restart
    PROVE  Typed'
<1> USE DEF catalogVars
<1>1. JobStoreTypeOK'
  BY DEF Restart, JobStoreTypeOK, JobStates, NoRecord, Tokens
<1>2. worker' \in [Jobs -> Workers] /\ caller' \in [Threads -> Callers]
  BY NullTypes DEF Restart, Proper
<1>3. RootChosen'
  BY DEF Restart, RootChosen, W, NoWorker, Scanning, BegunPcs, FinishPcs
<1> QED BY <1>1, <1>2, <1>3 DEF Restart, Typed, TypeOK

\* Typed is inductive, and TypeOK is a part of it.
LEMMA InitTyped == Init => Typed
<1> SUFFICES ASSUME Init PROVE Typed
  OBVIOUS
<1>1. JobStoreTypeOK
  BY DEF Init, JobStoreInit, JobStoreTypeOK, JobStates, NoRecord, Tokens
<1>2. worker \in [Jobs -> Workers] /\ caller \in [Threads -> Callers]
  BY NullTypes DEF Init, Proper
<1>3. RootChosen
  BY DEF Init, RootChosen, W, NoWorker, Scanning, BegunPcs, FinishPcs
<1>4. /\ rows \in [Roots -> Inventory] /\ sizes \in [Roots -> Inventory]
      /\ tracked \in [Roots -> [known : BOOLEAN, state : Inventory]]
      /\ project \in [Roots -> BOOLEAN] /\ scanned \in [Roots -> BOOLEAN]
      /\ rootRow \in [Roots -> {"absent", "disabled", "enabled"}]
  BY NullTypes DEF Init
<1>5. edits \in 0..MaxEdits
  BY ScanAssumption DEF Init
<1> QED BY <1>1, <1>2, <1>3, <1>4, <1>5 DEF Init, Typed, TypeOK

\* A report puts back the record of a worker whose job was pruned, and
\* touches nothing else (RecordTiming, ReportProgress).
LEMMA ReportsEffect ==
    ASSUME Typed, NEW j \in Jobs, Reports(j)
    PROVE  /\ Live(j) /\ jobs[j].state \in {"forgotten", "unknown"}
           /\ \E state \in {"unknown", "running"} :
                jobs' = [jobs EXCEPT ![j].state = state]
           /\ UNCHANGED <<tokens, catalogVars, world, worker, caller, edits>>
  BY DEF Reports, RecordTiming, ReportProgress

\* No step leaves the types.
LEMMA NextTyped == Typed /\ [Next]_vars => Typed'
<1> SUFFICES ASSUME Typed, [Next]_vars PROVE Typed'
  OBVIOUS
<1>1. ASSUME NEW j \in Jobs, WorkerStep(j) PROVE Typed'
  <2>1. JobStoreTypeOK' /\ (worker \in [Jobs -> Workers])' /\ RootChosen'
    BY <1>1, WorkerTypes
  <2>2. CatalogTypeOK'
    BY <1>1, WorkerCatalog
  <2>3. UNCHANGED <<world, caller, edits>>
    BY <1>1
    DEF WorkerStep, Prepare, NextTarget, AllDone, BeginRootScan, StartWalk,
        WalkItem, SkipUnreadable, SkipOverLimit, PersistBatch, RefuseBatch,
        WalkCancelled, WalkEnds, StartFinish, Reconcile, DeriveSizes,
        RecordTimeline, MarkRoot, FinishStopped, RootFinished, DatabaseFails
  <2> QED BY <2>1, <2>2, <2>3 DEF Typed, TypeOK, CatalogTypeOK
<1>2. CASE UNCHANGED vars
  BY <1>2 DEF vars, storeVars, catalogVars, Typed, TypeOK, JobStoreTypeOK,
              RootChosen, W, R
<1>3. ASSUME NEW j \in Jobs, Reports(j) PROVE Typed'
  <2>1. PICK state \in {"unknown", "running"} :
          jobs' = [jobs EXCEPT ![j].state = state]
    BY <1>3, ReportsEffect
  <2>2. state \in JobStates
    BY DEF JobStates, OwningStates
  <2>3. jobs' \in [Jobs -> [state : JobStates, roots : SUBSET Roots]]
    <3> DEFINE Record == [state : JobStates, roots : SUBSET Roots]
    <3>1. jobs \in [Jobs -> Record]
      BY DEF Typed, TypeOK, JobStoreTypeOK
    <3>2. [jobs[j] EXCEPT !.state = state] \in Record
      BY <2>2, <3>1
    <3>3. jobs' = [jobs EXCEPT ![j] = [jobs[j] EXCEPT !.state = state]]
      BY <2>1
    <3> HIDE DEF Record
    <3>4. jobs' \in [Jobs -> Record]
      BY <3>1, <3>2, <3>3
    <3> QED BY <3>4 DEF Record
  <2>4. UNCHANGED <<tokens, catalogVars, world, worker, caller, edits>>
    BY <1>3, ReportsEffect
  <2> QED BY <2>3, <2>4 DEF catalogVars, Typed, TypeOK, JobStoreTypeOK,
                            RootChosen, W, R
<1> QED
  BY <1>1, <1>2, <1>3, RequestTypes, CallStepTypes, EditTypes, RestartTypes DEF Next

\* Every variable keeps its type in every behaviour: no thread indexes the
\* catalog without a root, and no job reaches a state the queries ignore.
THEOREM Typing == Spec => []TypeOK
<1>1. Typed => TypeOK
  BY DEF Typed
<1> QED BY <1>1, InitTyped, NextTyped, PTL DEF Spec

----------------------------------------------------------------------------
(***************************************************************************)
(* Exclusive ownership.  OneWorkerPerRoot speaks of the threads, the check *)
(* of admit_running_for_roots_with_estimate of the records, so the         *)
(* invariant ties the two: the record of a live thread owns, in the sense  *)
(* of that check, every root the thread may still write to, and the        *)
(* records of live threads are disjoint.                                   *)
(*                                                                         *)
(* Pruning can break the tie, because it may forget a job that is still    *)
(* stopping.  The hypothesis of the theorem excludes exactly that.         *)
(***************************************************************************)
SparesLive == \A j \in Jobs : Live(j) => jobs'[j].state # "forgotten"

\* No record is pruned while the thread of its job is alive.
LiveRecordsKept == [][SparesLive]_vars

Ownership ==
    /\ \A j \in Jobs : Live(j) => Owning(j) /\ Holds(j) \subseteq jobs[j].roots
    /\ \A j \in Jobs : ~Live(j) => Holds(j) = {}
    /\ \A j, k \in Jobs : j # k /\ Live(j) /\ Live(k) =>
                            jobs[j].roots \cap jobs[k].roots = {}

Owned == Typed /\ Ownership

\* What a thread may do to the store and to the threads: it moves on in its
\* own record, with no more roots than it had, or closes its job and ends.
Moves(j) ==
    /\ Live(j)
    /\ \/ /\ UNCHANGED storeVars
          /\ \E w \in Workers : /\ Become(j, w) /\ w.pc # "none"
                                 /\ w.todo \subseteq Holds(j)
       \/ \E state \in {"cancelled", "failed", "completed", "partial"} :
            End(j, state)

\* Every step of a thread is such a move.
LEMMA WorkerMoves ==
    ASSUME Typed, NEW j \in Jobs, WorkerStep(j)
    PROVE  Moves(j)
<1> USE DEF storeVars
<1>1. W(j) \in Workers /\ worker \in [Jobs -> Workers]
  BY DEF Typed, TypeOK, W
<1>2. worker' \in [Jobs -> Workers]
  BY WorkerTypes
<1>3. ASSUME Live(j), NEW w, Become(j, w), w.pc # "none",
             w.todo \subseteq Holds(j), UNCHANGED storeVars
      PROVE  Moves(j)
  <2>1. worker'[j] = w
    BY <1>1, <1>3 DEF Become
  <2>2. w \in Workers
    BY <1>2, <2>1
  <2> QED BY <1>3, <2>2 DEF Moves
<1>4. ASSUME Live(j), NEW pc, Goto(j, pc), pc # "none", UNCHANGED storeVars
      PROVE  Moves(j)
  <2> DEFINE w == [W(j) EXCEPT !.pc = pc]
  <2>1. w.pc = pc /\ w.todo = Holds(j)
    BY <1>1 DEF Workers, Holds
  <2> QED BY <1>3, <1>4, <2>1 DEF Goto
<1>5. ASSUME Live(j), EndCancelled(j) \/ CancelRoot(j) PROVE Moves(j)
  BY <1>5 DEF EndCancelled, CancelRoot, Moves
<1>6. CASE Prepare(j)
  BY <1>4, <1>5, <1>6 DEF Prepare, Live
<1>7. CASE NextTarget(j)
  <2>1. ASSUME NEW r, UNCHANGED storeVars, Live(j),
               Become(j, [W(j) EXCEPT !.pc = "begin", !.root = r])
        PROVE  Moves(j)
    <3> DEFINE w == [W(j) EXCEPT !.pc = "begin", !.root = r]
    <3>1. w.pc = "begin" /\ w.todo = Holds(j)
      BY <1>1 DEF Workers, Holds
    <3> QED BY <1>3, <2>1, <3>1
  <2> QED BY <1>5, <1>7, <2>1 DEF NextTarget, Live
<1>8. CASE AllDone(j)
  BY <1>8 DEF AllDone, Live, Moves
<1>9. CASE BeginRootScan(j)
  <2> DEFINE w == [W(j) EXCEPT !.pc = "begun", !.snap = rows[R(j)],
                               !.remaining = Present(rows[R(j)]),
                               !.left = Items,
                               !.during = [i \in Items |-> {world[R(j)][i]}]]
  <2>1. w.pc = "begun" /\ w.todo = Holds(j)
    BY <1>1 DEF Workers, Holds
  <2>2. Become(j, w)
    BY <1>9 DEF BeginRootScan
  <2> HIDE DEF w
  <2> QED BY <1>3, <1>9, <2>1, <2>2 DEF BeginRootScan, Live
<1>10. CASE StartWalk(j)
  BY <1>4, <1>5, <1>10 DEF StartWalk, Live
<1>11. ASSUME NEW i \in Items, WalkItem(j, i) PROVE Moves(j)
  <2> DEFINE w == [W(j) EXCEPT !.left = @ \ {i}, !.batch[i] = world[R(j)][i]]
  <2>1. w.pc = "walk" /\ w.todo = Holds(j)
    BY <1>1, <1>11 DEF WalkItem, Workers, Holds
  <2>2. Become(j, w)
    BY <1>11 DEF WalkItem
  <2> HIDE DEF w
  <2> QED BY <1>3, <1>11, <2>1, <2>2 DEF WalkItem, Live
<1>12. ASSUME NEW i \in Items, SkipUnreadable(j, i) PROVE Moves(j)
  <2> DEFINE w == [W(j) EXCEPT !.left = @ \ {i}]
  <2>1. w.pc = "walk" /\ w.todo = Holds(j)
    BY <1>1, <1>12 DEF SkipUnreadable, Workers, Holds
  <2> QED BY <1>3, <1>12, <2>1 DEF SkipUnreadable, Live
<1>13. ASSUME NEW i \in Items, SkipOverLimit(j, i) PROVE Moves(j)
  <2> DEFINE w == [W(j) EXCEPT !.left = @ \ {i}, !.partial = TRUE]
  <2>1. w.pc = "walk" /\ w.todo = Holds(j)
    BY <1>1, <1>13 DEF SkipOverLimit, Workers, Holds
  <2> QED BY <1>3, <1>13, <2>1 DEF SkipOverLimit, Live
<1>14. CASE PersistBatch(j)
  <2>0. PICK reread \in SUBSET Items :
          Become(j, [W(j) EXCEPT !.batch = Nothing,
                                 !.remaining = @ \ Present(W(j).batch),
                                 !.changed = @ \cup ToWrite(j, reread)])
    BY <1>14 DEF PersistBatch
  <2> DEFINE w == [W(j) EXCEPT !.batch = Nothing,
                               !.remaining = @ \ Present(W(j).batch),
                               !.changed = @ \cup ToWrite(j, reread)]
  <2>1. w.pc = "walk" /\ w.todo = Holds(j)
    BY <1>1, <1>14 DEF PersistBatch, Workers, Holds
  <2>2. Become(j, w)
    BY <2>0
  <2> HIDE DEF w
  <2> QED BY <1>3, <1>14, <2>1, <2>2 DEF PersistBatch, Live
<1>15. CASE RefuseBatch(j)
  BY <1>5, <1>15 DEF RefuseBatch, Live
<1>16. CASE WalkCancelled(j)
  <2> DEFINE w == [W(j) EXCEPT !.pc = "walked", !.left = {},
                               !.cancelled = TRUE]
  <2>1. w.pc = "walked" /\ w.todo = Holds(j)
    BY <1>1 DEF Workers, Holds
  <2> QED BY <1>3, <1>16, <2>1 DEF WalkCancelled, Live
<1>17. CASE WalkEnds(j)
  BY <1>4, <1>17 DEF WalkEnds, Live
<1>18. CASE StartFinish(j)
  <2> DEFINE pc == IF Full(j) THEN "reconcile" ELSE "mark"
             w == [W(j) EXCEPT !.full = Full(j), !.pc = pc]
  <2>1. w.pc # "none" /\ w.todo = Holds(j)
    BY <1>1 DEF Workers, Holds
  <2>2. EndCancelled(j) \/ (Become(j, w) /\ UNCHANGED storeVars)
    BY <1>18 DEF StartFinish
  <2> HIDE DEF w
  <2> QED BY <1>3, <1>5, <1>18, <2>1, <2>2 DEF StartFinish, Live
<1>19. ASSUME Live(j), NEW pc \in BegunPcs, Then(j, pc), UNCHANGED storeVars
       PROVE  Moves(j)
  <2> DEFINE next == IF IsCancelled(j) THEN "stopped" ELSE pc
  <2>1. next # "none"
    BY <1>19 DEF BegunPcs, FinishPcs
  <2>2. Goto(j, next)
    BY <1>19 DEF Then
  <2> HIDE DEF next
  <2> QED BY <1>4, <1>19, <2>1, <2>2
<1>20. {"sizes", "timeline", "mark", "finished"} \subseteq BegunPcs
  BY DEF BegunPcs, FinishPcs
<1>21. CASE Reconcile(j)
  BY <1>19, <1>20, <1>21 DEF Reconcile, Live
<1>22. CASE DeriveSizes(j)
  BY <1>19, <1>20, <1>22 DEF DeriveSizes, Live
<1>23. CASE RecordTimeline(j)
  BY <1>19, <1>20, <1>23 DEF RecordTimeline, Live
<1>24. CASE MarkRoot(j)
  BY <1>19, <1>20, <1>24 DEF MarkRoot, Live
<1>25. CASE FinishStopped(j)
  BY <1>5, <1>25 DEF FinishStopped, Live
<1>26. CASE RootFinished(j)
  <2> DEFINE todo == W(j).todo \ {R(j)}
             w == [NoWorker EXCEPT !.pc = "target", !.todo = todo,
                                   !.background = W(j).background]
  <2>1. w.pc = "target" /\ w.todo = todo
    BY DEF NoWorker
  <2>2. todo \subseteq Holds(j)
    BY DEF Holds
  <2>3. \/ CancelRoot(j) \/ End(j, "partial")
        \/ Become(j, w) /\ UNCHANGED storeVars
    BY <1>26 DEF RootFinished, NextRoot
  <2>4. Live(j)
    BY <1>26 DEF RootFinished, Live
  <2>5. End(j, "partial") => Moves(j)
    BY <2>4 DEF Moves
  <2> HIDE DEF w, todo
  <2> QED BY <1>3, <1>5, <2>1, <2>2, <2>3, <2>4, <2>5
<1>27. CASE DatabaseFails(j)
  BY <1>27 DEF DatabaseFails, Live, Moves, FinishPcs
<1> QED
  BY <1>6, <1>7, <1>8, <1>9, <1>10, <1>11, <1>12, <1>13, <1>14, <1>15, <1>16,
     <1>17, <1>18, <1>21, <1>22, <1>23, <1>24, <1>25, <1>26, <1>27
  DEF WorkerStep

\* A move keeps the ownership: it can only give roots up.
LEMMA MovesOwned ==
    ASSUME Owned, NEW j \in Jobs, Moves(j)
    PROVE  Ownership'
<1>1. /\ worker \in [Jobs -> Workers] /\ Ownership
      /\ jobs \in [Jobs -> [state : JobStates, roots : SUBSET Roots]]
  BY DEF Owned, Typed, TypeOK, JobStoreTypeOK
<1>2. CASE /\ UNCHANGED storeVars
           /\ \E w \in Workers : /\ Become(j, w) /\ w.pc # "none"
                                  /\ w.todo \subseteq Holds(j)
  <2>1. PICK w \in Workers : /\ Become(j, w) /\ w.pc # "none"
                             /\ w.todo \subseteq Holds(j)
    BY <1>2
  <2>2. \A k \in Jobs : worker'[k] = IF k = j THEN w ELSE worker[k]
    BY <1>1, <2>1 DEF Become
  <2>3. UNCHANGED jobs
    BY <1>2 DEF storeVars
  <2>5. \A k \in Jobs : Live(k)' = Live(k)
    BY <2>1, <2>2 DEF Live, W, Moves
  <2>6. \A k \in Jobs : Holds(k)' \subseteq Holds(k)
    BY <2>1, <2>2 DEF Holds, W
  <2>7. \A k \in Jobs : Owning(k)' = Owning(k)
    BY <2>3 DEF Owning
  <2> QED BY <1>1, <2>3, <2>5, <2>6, <2>7 DEF Ownership
<1>3. ASSUME NEW state \in {"cancelled", "failed", "completed", "partial"},
             End(j, state)
      PROVE  Ownership'
  <2>1. \A k \in Jobs : worker'[k] = IF k = j THEN NoWorker ELSE worker[k]
    BY <1>1, <1>3 DEF End, Become
  <2>2. \A k \in Jobs : /\ jobs'[k].roots = jobs[k].roots
                        /\ k # j => jobs'[k] = jobs[k]
    BY <1>1, <1>3 DEF End, Close
  <2>5. /\ ~Live(j)' /\ Holds(j)' = {}
        /\ \A k \in Jobs : k # j => Live(k)' = Live(k) /\ Holds(k)' = Holds(k)
    BY <2>1 DEF Live, Holds, W, NoWorker
  <2>6. \A k \in Jobs : k # j => Owning(k)' = Owning(k)
    BY <2>2 DEF Owning
  <2> QED BY <1>1, <2>2, <2>5, <2>6 DEF Ownership
<1> QED BY <1>2, <1>3 DEF Moves

\* Admission gives the new thread roots that no live thread owns.
LEMMA AdmittedOwned ==
    ASSUME Owned, SparesLive, NEW c \in Threads, NEW j \in Jobs, Admitted(c, j)
    PROVE  Ownership'
<1> DEFINE rs == caller[c].roots
           w == [NoWorker EXCEPT !.pc = "prepare", !.todo = rs,
                                 !.background = (c = "resident")]
           record == [state |-> "running", roots |-> rs]
<1>1. /\ worker \in [Jobs -> Workers] /\ Ownership
      /\ jobs \in [Jobs -> [state : JobStates, roots : SUBSET Roots]]
      /\ caller \in [Threads -> Callers]
  BY DEF Owned, Typed, TypeOK, JobStoreTypeOK
<1>2. PICK D \in Prunable : jobs' = [Without(D) EXCEPT ![j] = record]
  BY DEF Admitted, Admit
<1>3. jobs[j].state = "unused" /\ ~HasRunningJobFor(rs)
  BY DEF Admitted, Admit, IsNextJob
<1>4. D \subseteq Jobs
  BY DEF Prunable, Terminal
<1>5. \A k \in Jobs : worker'[k] = IF k = j THEN w ELSE worker[k]
  BY <1>1 DEF Admitted, Become
<1>6. w.pc = "prepare" /\ w.todo = rs
  BY DEF NoWorker
<1>7. /\ jobs'[j] = record
      /\ \A k \in Jobs : k # j /\ k \notin D => jobs'[k] = jobs[k]
      /\ \A k \in D : k # j => jobs'[k] = [state |-> "forgotten", roots |-> {}]
  BY <1>2, <1>4 DEF Without
<1>8. record.state = "running" /\ record.roots = rs
  OBVIOUS
<1> HIDE DEF w, record, rs
<1>9. Live(j)' /\ Holds(j)' = rs /\ Owning(j)' /\ jobs'[j].roots = rs
  BY <1>5, <1>6, <1>7, <1>8 DEF Live, Holds, W, Owning, OwningStates
<1>10. \A k \in Jobs : k # j => Live(k)' = Live(k) /\ Holds(k)' = Holds(k)
  BY <1>5 DEF Live, Holds, W
<1>11. ASSUME NEW k \in Jobs, k # j, Live(k)
       PROVE  jobs'[k] = jobs[k] /\ Owning(k) /\ jobs[k].roots \cap rs = {}
  <2>1. Owning(k)
    BY <1>1, <1>11 DEF Ownership
  <2>2. k \notin D
    BY <1>7, <1>11 DEF SparesLive
  <2> QED BY <1>3, <1>7, <1>11, <2>1, <2>2 DEF HasRunningJobFor
<1>12. \A k \in Jobs : Live(k)' =>
        Owning(k)' /\ Holds(k)' \subseteq jobs'[k].roots
  BY <1>1, <1>9, <1>10, <1>11 DEF Ownership, Owning
<1>13. \A k \in Jobs : ~Live(k)' => Holds(k)' = {}
  BY <1>1, <1>9, <1>10 DEF Ownership
<1>14. \A k, l \in Jobs : k # l /\ Live(k)' /\ Live(l)' =>
                          jobs'[k].roots \cap jobs'[l].roots = {}
  BY <1>1, <1>9, <1>10, <1>11 DEF Ownership
<1> QED BY <1>12, <1>13, <1>14 DEF Ownership

\* Every other step leaves the threads and their roots alone.
LEMMA OthersOwned ==
    ASSUME Owned, UNCHANGED jobs,
           \A j \in Jobs : /\ worker'[j].pc = worker[j].pc
                           /\ worker'[j].todo = worker[j].todo
    PROVE  Ownership'
  BY DEF Owned, Ownership, Live, Holds, W, Owning

\* A worker whose record is there has none to put back.
LEMMA OwnersRecorded ==
    ASSUME Owned, NEW j \in Jobs
    PROVE  ~Reports(j)
  BY ReportsEffect DEF Owned, Ownership, Owning, OwningStates

\* No step breaks the ownership.
LEMMA NextOwned ==
    ASSUME Owned, [SparesLive]_vars, [Next]_vars
    PROVE  Owned'
<1> SUFFICES Ownership'
  BY NextTyped DEF Owned
<1>1. /\ worker \in [Jobs -> Workers] /\ Ownership
      /\ jobs \in [Jobs -> [state : JobStates, roots : SUBSET Roots]]
  BY DEF Owned, Typed, TypeOK, JobStoreTypeOK
<1>2. ASSUME NEW j \in Jobs, WorkerStep(j) PROVE Ownership'
  BY <1>2, WorkerMoves, MovesOwned DEF Owned
<1>3. CASE UserCall
  BY <1>3, OthersOwned
  DEF UserCall, ScanRequest, CancelRequest, RequestCancelToken, EnableRoot,
      DisableRequest, UnregisterRequest, RefreshRequest, storeVars
<1>4. ASSUME NEW c \in Threads, NEW j \in Jobs, Admitted(c, j)
      PROVE  Ownership'
  <2>1. ~UNCHANGED jobs
    BY <1>1, <1>4 DEF Admitted, Admit, IsNextJob
  <2>2. SparesLive
    BY <2>1 DEF vars, storeVars
  <2> QED BY <1>4, <2>2, AdmittedOwned
<1>5. ASSUME NEW c \in Threads, AlreadyOwned(c) PROVE Ownership'
  BY <1>5, OthersOwned DEF AlreadyOwned, storeVars
<1>6. CASE CancelStored
  <2>1. \A k \in Jobs : /\ jobs'[k].roots = jobs[k].roots
                        /\ Owning(k) => Owning(k)'
    BY <1>1, <1>6 DEF CancelStored, RequestCancelStatus, Owning, OwningStates
  <2>2. \A k \in Jobs : Live(k)' = Live(k) /\ Holds(k)' = Holds(k)
    BY <1>6 DEF CancelStored, Live, Holds, W
  <2> QED BY <1>1, <2>1, <2>2 DEF Ownership
<1>7. CASE DisableRoot \/ DeleteRoot \/ DeleteProject
  BY <1>7, OthersOwned DEF DisableRoot, DeleteRoot, DeleteProject, storeVars
<1>8. ASSUME NEW r \in Roots, NEW i \in Items, NEW x \in Stored, Edit(r, i, x)
      PROVE  Ownership'
  <2>1. ASSUME NEW j \in Jobs
        PROVE  worker'[j].pc = worker[j].pc /\ worker'[j].todo = worker[j].todo
    <3>1. worker[j] \in Workers
      BY <1>1
    <3>2. \/ worker'[j] = worker[j]
          \/ worker'[j] = [worker[j] EXCEPT !.during[i] = @ \cup {x}]
      BY <1>8 DEF Edit, W
    <3> QED BY <3>1, <3>2 DEF Workers
  <2> QED BY <1>8, <2>1, OthersOwned DEF Edit, storeVars
<1>9. CASE Restart
  <2>1. \A j \in Jobs : ~Live(j)' /\ Holds(j)' = {}
    BY <1>9 DEF Restart, Live, Holds, W, NoWorker
  <2> QED BY <2>1 DEF Ownership
<1>10. CASE UNCHANGED vars
  BY <1>10, OthersOwned DEF vars, storeVars
<1> QED BY <1>2, <1>3, <1>4, <1>5, <1>6, <1>7, <1>8, <1>9, <1>10,
           OwnersRecorded
        DEF Next, CallStep

\* No job has a thread at first.
LEMMA InitOwned == Init => Owned
<1> SUFFICES ASSUME Init PROVE Ownership
  BY InitTyped DEF Owned
<1>1. \A j \in Jobs : ~Live(j) /\ Holds(j) = {}
  BY DEF Init, Live, Holds, W, NoWorker
<1> QED BY <1>1 DEF Ownership

\* Whatever is requested of them, two worker threads never work on the same
\* root, as long as pruning spares the jobs whose threads are alive: the check
\* and the publication of a job under one lock suffice.
THEOREM ExclusiveRoots == Spec /\ LiveRecordsKept => []OneWorkerPerRoot
<1>1. Owned /\ [SparesLive]_vars /\ [Next]_vars => Owned'
  BY NextOwned
<1>2. Owned => OneWorkerPerRoot
  BY DEF Owned, Ownership, OneWorkerPerRoot
<1> QED BY <1>1, <1>2, InitOwned, PTL DEF Spec, LiveRecordsKept

----------------------------------------------------------------------------
(***************************************************************************)
(* A stop reaches the scan.  scan_cancel sets the token first and stores   *)
(* the status afterwards, so between the two the token must not be handed  *)
(* out anew: that needs the job's id to be in use.                         *)
(***************************************************************************)
StopInv ==
    /\ \A j \in Jobs : Live(j) => tokens[j] # "absent"
    /\ CancelReachesWorker
    /\ CallIs("ui", "cancel") =>
         /\ caller["ui"].job \in Jobs
         /\ jobs[caller["ui"].job].state # "unused"
         /\ tokens[caller["ui"].job] # "clear"

\* A step that leaves the store and the life of the threads alone, and starts
\* no call of scan_cancel, keeps it.
LEMMA OthersStop ==
    ASSUME StopInv, UNCHANGED storeVars, \A j \in Jobs : Live(j)' = Live(j),
           CallIs("ui", "cancel")' => CallIs("ui", "cancel") /\ UNCHANGED caller
    PROVE  StopInv'
  BY DEF StopInv, CancelReachesWorker, storeVars, IsCancelled, CallIs

\* A worker moves on, or ends and takes its token along.
LEMMA MovesStop ==
    ASSUME Typed, StopInv, NEW j \in Jobs, Moves(j), UNCHANGED caller
    PROVE  StopInv'
<1>1. /\ worker \in [Jobs -> Workers] /\ tokens \in [Jobs -> Tokens]
      /\ jobs \in [Jobs -> [state : JobStates, roots : SUBSET Roots]]
  BY DEF Typed, TypeOK, JobStoreTypeOK
<1>2. CASE UNCHANGED storeVars /\ \E w \in Workers : Become(j, w) /\ w.pc # "none"
  <2>1. \A k \in Jobs : Live(k)' = Live(k)
    BY <1>1, <1>2 DEF Become, Live, W, Moves
  <2> QED BY <1>2, <2>1, OthersStop DEF CallIs
<1>3. ASSUME NEW state \in {"cancelled", "failed", "completed", "partial"},
             End(j, state)
      PROVE  StopInv'
  <2>1. /\ \A k \in Jobs : k # j => jobs'[k] = jobs[k] /\ tokens'[k] = tokens[k]
        /\ jobs'[j].state = state /\ tokens'[j] = "absent"
    BY <1>1, <1>3 DEF End, Close
  <2>2. ~Live(j)' /\ \A k \in Jobs : k # j => Live(k)' = Live(k)
    BY <1>1, <1>3 DEF End, Become, Live, W, NoWorker
  <2>3. state # "unused"
    OBVIOUS
  <2> QED BY <2>1, <2>2, <2>3 DEF StopInv, CancelReachesWorker, IsCancelled, CallIs
<1> QED BY <1>2, <1>3 DEF Moves

\* A worker's step is no call.
LEMMA WorkerCallers ==
    ASSUME NEW j \in Jobs, WorkerStep(j)
    PROVE  UNCHANGED <<caller, world, edits>>
  BY DEF WorkerStep, Prepare, NextTarget, AllDone, BeginRootScan, StartWalk,
         WalkItem, SkipUnreadable, SkipOverLimit, PersistBatch, RefuseBatch,
         WalkCancelled, WalkEnds, StartFinish, Reconcile, DeriveSizes,
         RecordTimeline, MarkRoot, FinishStopped, RootFinished, DatabaseFails

\* What admission leaves of the tables: the new job's record and token, and
\* every other one, but for the records that pruning forgets.
AdmissionEffect(c, j) ==
    /\ jobs[j].state = "unused" /\ jobs'[j].state = "running"
    /\ jobs'[j].roots = caller[c].roots
    /\ tokens'[j] = "clear"
    /\ \A k \in Jobs : k # j =>
         /\ tokens'[k] = tokens[k] /\ worker'[k] = worker[k]
         /\ \/ jobs'[k] = jobs[k]
            \/ jobs'[k].state = "forgotten"
    /\ worker'[j] = [NoWorker EXCEPT !.pc = "prepare", !.todo = caller[c].roots,
                                     !.background = (c = "resident")]
    /\ caller' = [caller EXCEPT ![c] = NoCall]
    /\ UNCHANGED <<catalogVars, world, edits>>

LEMMA AdmittedStore ==
    ASSUME Typed, NEW c \in Threads, NEW j \in Jobs, Admitted(c, j)
    PROVE  AdmissionEffect(c, j)
<1>1. /\ worker \in [Jobs -> Workers] /\ tokens \in [Jobs -> Tokens]
      /\ jobs \in [Jobs -> [state : JobStates, roots : SUBSET Roots]]
  BY DEF Typed, TypeOK, JobStoreTypeOK
<1>2. PICK D \in Prunable : jobs' = [Without(D) EXCEPT ![j] =
                               [state |-> "running", roots |-> caller[c].roots]]
  BY DEF Admitted, Admit
<1>3. /\ jobs'[j] = [state |-> "running", roots |-> caller[c].roots]
      /\ \A k \in Jobs : k # j => \/ jobs'[k] = jobs[k]
                                  \/ jobs'[k] = [state |-> "forgotten", roots |-> {}]
  BY <1>2 DEF Without
<1>4. jobs[j].state = "unused" /\ tokens' = [tokens EXCEPT ![j] = "clear"]
  BY DEF Admitted, Admit, IsNextJob
<1>5. /\ worker'[j] = [NoWorker EXCEPT !.pc = "prepare", !.todo = caller[c].roots,
                                       !.background = (c = "resident")]
      /\ \A k \in Jobs : k # j => worker'[k] = worker[k]
  BY <1>1 DEF Admitted, Become
<1>7. caller' = [caller EXCEPT ![c] = NoCall] /\ UNCHANGED <<catalogVars, world, edits>>
  BY DEF Admitted, Return
<1>8. /\ jobs'[j].state = "running" /\ jobs'[j].roots = caller[c].roots
      /\ \A k \in Jobs : k # j => jobs'[k] = jobs[k] \/ jobs'[k].state = "forgotten"
  BY <1>3
<1> QED BY <1>1, <1>4, <1>5, <1>7, <1>8 DEF AdmissionEffect

\* What the other calls of the user interface leave alone.
LEMMA CallsElsewhere ==
    ASSUME Typed,
           \/ \E rs \in SUBSET Roots : ScanRequest(rs)
           \/ \E r \in Roots : EnableRoot(r) \/ DisableRequest(r)
                                 \/ UnregisterRequest(r) \/ RefreshRequest(r)
           \/ \E c \in Threads : AlreadyOwned(c)
           \/ DisableRoot \/ DeleteRoot \/ DeleteProject
    PROVE  /\ UNCHANGED <<storeVars, worker>>
           /\ CallIs("ui", "cancel")' => CallIs("ui", "cancel") /\ UNCHANGED caller["ui"]
<1>1. caller \in [Threads -> Callers] /\ "ui" \in Threads /\ "resident" \in Threads
  BY DEF Typed, TypeOK, Threads
<1>2. ASSUME NEW c \in Threads, NEW pc, pc # "cancel", NEW rs, Call(c, pc, rs, 0)
      PROVE  CallIs("ui", "cancel")' => CallIs("ui", "cancel") /\ UNCHANGED caller["ui"]
  BY <1>1, <1>2 DEF Call, CallIs
<1>3. ASSUME NEW c \in Threads, Return(c)
      PROVE  CallIs("ui", "cancel")' => CallIs("ui", "cancel") /\ UNCHANGED caller["ui"]
  BY <1>1, <1>3 DEF Return, CallIs, NoCall
<1>4. ASSUME NEW rs \in SUBSET Roots, ScanRequest(rs)
      PROVE  /\ UNCHANGED <<storeVars, worker>>
             /\ CallIs("ui", "cancel")' => CallIs("ui", "cancel") /\ UNCHANGED caller["ui"]
  BY <1>1, <1>2, <1>4 DEF ScanRequest
<1>5. ASSUME NEW r \in Roots, EnableRoot(r) \/ DisableRequest(r)
                                \/ UnregisterRequest(r) \/ RefreshRequest(r)
      PROVE  /\ UNCHANGED <<storeVars, worker>>
             /\ CallIs("ui", "cancel")' => CallIs("ui", "cancel") /\ UNCHANGED caller["ui"]
  <2>1. EnableRoot(r) => UNCHANGED <<storeVars, worker, caller>>
    BY DEF EnableRoot
  <2>2. DisableRequest(r) => UNCHANGED <<storeVars, worker>> /\ Call("ui", "disable", {r}, 0)
    BY DEF DisableRequest
  <2>3. UnregisterRequest(r) => UNCHANGED <<storeVars, worker>> /\ Call("ui", "unregister", {r}, 0)
    BY DEF UnregisterRequest
  <2>4. RefreshRequest(r) => UNCHANGED <<storeVars, worker>> /\ Call("resident", "admit", {r}, 0)
    BY DEF RefreshRequest
  <2>5. UNCHANGED caller => (CallIs("ui", "cancel")' => CallIs("ui", "cancel") /\ UNCHANGED caller["ui"])
    BY DEF CallIs
  <2> QED BY <1>1, <1>2, <1>5, <2>1, <2>2, <2>3, <2>4, <2>5
<1>6. ASSUME NEW c \in Threads, AlreadyOwned(c)
      PROVE  /\ UNCHANGED <<storeVars, worker>>
             /\ CallIs("ui", "cancel")' => CallIs("ui", "cancel") /\ UNCHANGED caller["ui"]
  BY <1>3, <1>6 DEF AlreadyOwned
<1>7. CASE DisableRoot \/ DeleteRoot \/ DeleteProject
  <2>1. UNCHANGED <<storeVars, worker>>
    BY <1>7 DEF DisableRoot, DeleteRoot, DeleteProject
  <2>2. Return("ui") \/ \E rs : Call("ui", "forget", rs, 0)
    BY <1>7 DEF DisableRoot, DeleteRoot, DeleteProject
  <2> QED BY <1>1, <1>2, <1>3, <2>1, <2>2
<1> QED BY <1>4, <1>5, <1>6, <1>7

\* No step lets a stop be lost.
LEMMA NextStop ==
    ASSUME Typed, StopInv, [Next]_vars
    PROVE  StopInv'
<1>1. /\ worker \in [Jobs -> Workers] /\ tokens \in [Jobs -> Tokens]
      /\ jobs \in [Jobs -> [state : JobStates, roots : SUBSET Roots]]
      /\ caller \in [Threads -> Callers] /\ "ui" \in Threads
  BY DEF Typed, TypeOK, JobStoreTypeOK, Threads
<1>2. ASSUME NEW j \in Jobs, WorkerStep(j) PROVE StopInv'
  BY <1>2, WorkerMoves, WorkerCallers, MovesStop
<1>3. ASSUME \/ \E rs \in SUBSET Roots : ScanRequest(rs)
             \/ \E r \in Roots : EnableRoot(r) \/ DisableRequest(r)
                                   \/ UnregisterRequest(r) \/ RefreshRequest(r)
             \/ \E c \in Threads : AlreadyOwned(c)
             \/ DisableRoot \/ DeleteRoot \/ DeleteProject
      PROVE  StopInv'
  <2>1. /\ UNCHANGED <<storeVars, worker>>
        /\ CallIs("ui", "cancel")' => CallIs("ui", "cancel") /\ UNCHANGED caller["ui"]
    BY <1>3, CallsElsewhere
  <2> QED BY <2>1 DEF StopInv, CancelReachesWorker, storeVars, IsCancelled, CallIs, Live, W
<1>4. ASSUME NEW j \in Jobs, CancelRequest(j) PROVE StopInv'
  <2>1. /\ jobs[j].state # "unused" /\ UNCHANGED <<jobs, worker>>
        /\ tokens' = [tokens EXCEPT ![j] = IF tokens[j] = "absent" THEN tokens[j]
                                                                ELSE "set"]
        /\ caller' = [caller EXCEPT !["ui"] = [pc |-> "cancel", roots |-> {}, job |-> j]]
    BY <1>4 DEF CancelRequest, RequestCancelToken, Call
  <2>2. /\ \A k \in Jobs : tokens'[k] = tokens[k] \/ (tokens[k] # "absent" /\ tokens'[k] = "set")
        /\ tokens'[j] # "clear"
    <3> DEFINE t == IF tokens[j] = "absent" THEN tokens[j] ELSE "set"
    <3>1. tokens' = [tokens EXCEPT ![j] = t]
      BY <2>1
    <3>2. (t = "set" /\ tokens[j] # "absent") \/ (t = tokens[j] /\ t = "absent")
      OBVIOUS
    <3> HIDE DEF t
    <3>3. tokens'[j] = t /\ \A k \in Jobs : k # j => tokens'[k] = tokens[k]
      BY <1>1, <3>1
    <3> QED BY <3>2, <3>3
  <2>3. caller'["ui"].job = j
    BY <1>1, <2>1
  <2> QED BY <2>1, <2>2, <2>3 DEF StopInv, CancelReachesWorker, IsCancelled, Live, W
<1>5. CASE CancelStored
  <2>1. PICK k : k = caller["ui"].job
    OBVIOUS
  <2>2. /\ jobs' = [jobs EXCEPT ![k].state = "cancelling"] /\ UNCHANGED <<tokens, worker>>
        /\ caller' = [caller EXCEPT !["ui"] = NoCall] /\ CallIs("ui", "cancel")
    BY <1>5, <2>1 DEF CancelStored, RequestCancelStatus, Return
  <2>3. k \in Jobs /\ tokens[k] # "clear"
    BY <2>1, <2>2 DEF StopInv
  <2>4. ~CallIs("ui", "cancel")'
    BY <1>1, <2>2 DEF CallIs, NoCall
  <2>5. \A m \in Jobs : m # k => jobs'[m] = jobs[m]
    BY <1>1, <2>2
  <2>6. Live(k) => tokens[k] = "set"
    BY <1>1, <2>3 DEF StopInv, Tokens
  <2> QED BY <2>2, <2>4, <2>5, <2>6 DEF StopInv, CancelReachesWorker, IsCancelled, Live, W
<1>6. ASSUME NEW c \in Threads, NEW j \in Jobs, Admitted(c, j) PROVE StopInv'
  <2>1. /\ jobs[j].state = "unused" /\ jobs'[j].state = "running" /\ tokens'[j] = "clear"
        /\ \A k \in Jobs : k # j =>
             /\ tokens'[k] = tokens[k] /\ worker'[k] = worker[k]
             /\ jobs'[k] = jobs[k] \/ jobs'[k].state = "forgotten"
        /\ caller' = [caller EXCEPT ![c] = NoCall]
    <3>1. AdmissionEffect(c, j)
      BY <1>6, AdmittedStore
    <3> QED BY <3>1 DEF AdmissionEffect
  <2>2. CallIs("ui", "cancel")' => CallIs("ui", "cancel") /\ caller'["ui"] = caller["ui"]
    BY <1>1, <2>1 DEF CallIs, NoCall
  <2>3. \A k \in Jobs : k # j =>
             /\ Live(k)' = Live(k) /\ tokens'[k] = tokens[k]
             /\ (jobs'[k].state = "cancelling" => jobs[k].state = "cancelling")
    BY <2>1 DEF Live, W
  <2>4. \A k \in Jobs : Live(k)' => tokens'[k] # "absent"
    BY <2>1, <2>3 DEF StopInv
  <2>5. CancelReachesWorker'
    BY <2>1, <2>3 DEF StopInv, CancelReachesWorker, IsCancelled
  <2>6. CallIs("ui", "cancel")' =>
          /\ caller'["ui"].job \in Jobs
          /\ jobs'[caller'["ui"].job].state # "unused"
          /\ tokens'[caller'["ui"].job] # "clear"
    BY <2>1, <2>2 DEF StopInv
  <2> QED BY <2>4, <2>5, <2>6 DEF StopInv
<1>7. ASSUME NEW r \in Roots, NEW i \in Items, NEW x \in Stored, Edit(r, i, x)
      PROVE  StopInv'
  <2>1. \A j \in Jobs : worker'[j].pc = worker[j].pc
    <3> TAKE j \in Jobs
    <3>1. worker[j] \in Workers
      BY <1>1
    <3>2. \/ worker'[j] = worker[j]
          \/ worker'[j] = [worker[j] EXCEPT !.during[i] = @ \cup {x}]
      BY <1>7 DEF Edit, W
    <3> QED BY <3>1, <3>2 DEF Workers
  <2>2. UNCHANGED <<storeVars, caller>>
    BY <1>7 DEF Edit
  <2>3. \A j \in Jobs : Live(j)' = Live(j)
    BY <2>1 DEF Live, W
  <2> QED BY <2>2, <2>3, OthersStop DEF CallIs
<1>8. CASE Restart
  <2>1. \A j \in Jobs : ~Live(j)'
    BY <1>8 DEF Restart, Live, W, NoWorker
  <2>2. ~CallIs("ui", "cancel")'
    BY <1>1, <1>8 DEF Restart, CallIs, NoCall
  <2> QED BY <2>1, <2>2 DEF StopInv, CancelReachesWorker
<1>9. CASE UNCHANGED vars
  BY <1>9, OthersStop DEF vars, Live, W, CallIs
<1>10. ASSUME NEW j \in Jobs, Reports(j) PROVE StopInv'
  <2>1. /\ \E state \in {"unknown", "running"} :
             jobs' = [jobs EXCEPT ![j].state = state]
        /\ UNCHANGED <<tokens, worker, caller>>
    BY <1>10, ReportsEffect
  <2>2. \A k \in Jobs : jobs'[k].state \in {jobs[k].state, "unknown", "running"}
    BY <1>1, <2>1
  <2> QED BY <2>1, <2>2 DEF StopInv, CancelReachesWorker, IsCancelled, CallIs,
                            Live, W
<1> QED
  BY <1>2, <1>3, <1>4, <1>5, <1>6, <1>7, <1>8, <1>9, <1>10
  DEF Next, UserCall, CallStep

\* A stop reaches the scan: a job shown as cancelling whose worker is alive
\* has its token set, whatever the order in which scan_cancel, the admission
\* of jobs, pruning and the end of the worker take the two locks.
THEOREM StopsReach == Spec => []CancelReachesWorker
<1>1. Init => StopInv
  BY DEF Init, JobStoreInit, StopInv, CancelReachesWorker, Live, W, NoWorker,
         CallIs, NoCall, Threads
<1>2. Typed /\ StopInv /\ [Next]_vars => StopInv'
  BY NextStop
<1>3. StopInv => CancelReachesWorker
  BY DEF StopInv
<1> QED BY <1>1, <1>2, <1>3, InitTyped, NextTyped, PTL DEF Spec

----------------------------------------------------------------------------
(***************************************************************************)
(* When pruning spares the live threads: as long as the store keeps as     *)
(* many records as a session has jobs, or while nobody stops a job.        *)
(***************************************************************************)
SparesStopping == MaxJobs <= MaxTerminal \/ "cancel" \notin Requests

\* Where nobody stops a job, none is stopping.
NoneStopping ==
    "cancel" \notin Requests =>
        /\ \A j \in Jobs : jobs[j].state # "cancelling"
        /\ ~CallIs("ui", "cancel")

\* What pruning forgets does not own a root (prune_terminal_jobs).
LEMMA PruningSpares ==
    ASSUME NoneStopping, SparesStopping, NEW D \in Prunable
    PROVE  \A k \in D : ~Owning(k)
<1>1. D \subseteq Terminal
  BY DEF Prunable
<1>2. Terminal \subseteq Jobs
  BY DEF Terminal
<1>3. CASE MaxJobs <= MaxTerminal
  <2>1. IsFiniteSet(Jobs) /\ Cardinality(Jobs) = MaxJobs
    BY JobStoreAssumption, FS_Interval DEF Jobs
  <2>2. Cardinality(Terminal) <= MaxJobs /\ Cardinality(Terminal) \in Nat
    BY <1>2, <2>1, FS_Subset, FS_CardinalityType
  <2>3. Cardinality(Terminal) <= MaxTerminal
    BY <1>3, <2>2, JobStoreAssumption
  <2>4. D = {}
    BY <2>3 DEF Prunable
  <2> QED BY <2>4
<1>4. CASE "cancel" \notin Requests
  BY <1>1, <1>2, <1>4 DEF NoneStopping, Terminal, Owning, OwningStates
<1> QED BY <1>3, <1>4 DEF SparesStopping

\* Only an admission may forget a record, and it forgets none of a live job.
LEMMA StepSpares ==
    ASSUME SparesStopping, NoneStopping, Owned, [Next]_vars
    PROVE  SparesLive
<1>1. /\ \A j \in Jobs : Live(j) => Owning(j)
      /\ jobs \in [Jobs -> [state : JobStates, roots : SUBSET Roots]]
      /\ Typed
  BY DEF Owned, Ownership, Typed, TypeOK, JobStoreTypeOK
<1>2. CASE UNCHANGED jobs
  BY <1>1, <1>2 DEF SparesLive, Owning, OwningStates
<1>3. ASSUME NEW j \in Jobs, NEW state, state # "forgotten",
             jobs' = [jobs EXCEPT ![j].state = state]
      PROVE  SparesLive
  BY <1>1, <1>3 DEF SparesLive, Owning, OwningStates
<1>4. ASSUME NEW j \in Jobs, WorkerStep(j) PROVE SparesLive
  BY <1>1, <1>2, <1>3, <1>4, WorkerMoves DEF Moves, End, Close, storeVars
<1>5. ASSUME NEW c \in Threads, NEW j \in Jobs, Admitted(c, j) PROVE SparesLive
  <2>1. PICK D \in Prunable : jobs' = [Without(D) EXCEPT ![j] =
                                [state |-> "running", roots |-> caller[c].roots]]
    BY <1>5 DEF Admitted, Admit
  <2>2. \A k \in D : ~Owning(k)
    BY PruningSpares
  <2>3. ASSUME NEW k \in Jobs, Live(k) PROVE jobs'[k].state # "forgotten"
    <3>1. Owning(k) /\ k \notin D
      BY <1>1, <2>2, <2>3
    <3>2. k = j => jobs'[k].state = "running"
      BY <2>1 DEF Without
    <3>3. k # j => jobs'[k] = jobs[k]
      BY <2>1, <3>1 DEF Without
    <3> QED BY <3>1, <3>2, <3>3 DEF Owning, OwningStates
  <2> QED BY <2>3 DEF SparesLive
<1>6. CASE CancelStored
  <2>1. jobs' = [jobs EXCEPT ![caller["ui"].job].state = "cancelling"]
    BY <1>6 DEF CancelStored, RequestCancelStatus
  <2>2. \A k \in Jobs : jobs'[k].state \in {jobs[k].state, "cancelling"}
    BY <1>1, <2>1
  <2> QED BY <1>1, <2>2 DEF SparesLive, Owning, OwningStates
<1>7. CASE Restart
  BY <1>7 DEF Restart, SparesLive
<1>8. \/ UNCHANGED jobs
      \/ \E j \in Jobs : WorkerStep(j)
      \/ \E c \in Threads, j \in Jobs : Admitted(c, j)
      \/ CancelStored \/ Restart
  BY OwnersRecorded
     DEF Next, UserCall, CallStep, vars, storeVars, ScanRequest, CancelRequest,
         RequestCancelToken, EnableRoot, DisableRequest, UnregisterRequest,
         RefreshRequest, AlreadyOwned, DisableRoot, DeleteRoot, DeleteProject, Edit
<1> QED BY <1>2, <1>4, <1>5, <1>6, <1>7, <1>8

\* Where nobody may stop a job, no step does.
LEMMA NextNoneStopping ==
    ASSUME Typed, NoneStopping, [Next]_vars
    PROVE  NoneStopping'
<1> SUFFICES ASSUME "cancel" \notin Requests PROVE NoneStopping'
  BY DEF NoneStopping
<1> USE DEF storeVars
<1>1. /\ \A j \in Jobs : jobs[j].state # "cancelling"
      /\ ~CallIs("ui", "cancel")
      /\ jobs \in [Jobs -> [state : JobStates, roots : SUBSET Roots]]
      /\ caller \in [Threads -> Callers]
  BY DEF NoneStopping, Typed, TypeOK, JobStoreTypeOK
<1>2. ASSUME UNCHANGED jobs, CallIs("ui", "cancel")' => CallIs("ui", "cancel")
      PROVE  NoneStopping'
  BY <1>1, <1>2 DEF NoneStopping
<1>3. ASSUME NEW j \in Jobs, WorkerStep(j) PROVE NoneStopping'
  <2>1. CallIs("ui", "cancel")' = CallIs("ui", "cancel")
    BY <1>3, WorkerCallers DEF CallIs
  <2>2. ASSUME NEW state \in {"cancelled", "failed", "completed", "partial"},
               End(j, state)
        PROVE  \A k \in Jobs : jobs'[k].state # "cancelling"
    BY <1>1, <2>2 DEF End, Close
  <2>3. UNCHANGED jobs \/ \A k \in Jobs : jobs'[k].state # "cancelling"
    BY <1>3, <2>2, WorkerMoves DEF Moves
  <2> QED BY <1>1, <1>2, <2>1, <2>3 DEF NoneStopping
<1>4. CASE \/ \E rs \in SUBSET Roots : ScanRequest(rs)
           \/ \E r \in Roots : EnableRoot(r) \/ DisableRequest(r)
                                 \/ UnregisterRequest(r) \/ RefreshRequest(r)
           \/ \E c \in Threads : AlreadyOwned(c)
           \/ DisableRoot \/ DeleteRoot \/ DeleteProject
  BY <1>2, <1>4, CallsElsewhere
<1>5. ASSUME NEW j \in Jobs, CancelRequest(j) PROVE FALSE
  BY <1>5 DEF CancelRequest
<1>6. ASSUME NEW c \in Threads, NEW j \in Jobs, Admitted(c, j)
      PROVE  NoneStopping'
  <2>1. AdmissionEffect(c, j)
    BY <1>6, AdmittedStore
  <2>2. \A k \in Jobs : jobs'[k].state # "cancelling"
    BY <1>1, <2>1 DEF AdmissionEffect
  <2>3. CallIs("ui", "cancel")' => CallIs("ui", "cancel")
    BY <1>1, <2>1 DEF AdmissionEffect, CallIs, NoCall
  <2> QED BY <1>1, <2>2, <2>3 DEF NoneStopping
<1>7. ~CancelStored
  BY <1>1 DEF CancelStored
<1>8. ASSUME NEW r \in Roots, NEW i \in Items, NEW x \in Stored, Edit(r, i, x)
      PROVE  NoneStopping'
  BY <1>2, <1>8 DEF Edit, CallIs
<1>9. CASE Restart
  BY <1>9 DEF Restart, NoneStopping, CallIs, NoCall, Threads
<1>10. CASE UNCHANGED vars
  BY <1>2, <1>10 DEF vars, CallIs
<1>11. ASSUME NEW j \in Jobs, Reports(j) PROVE NoneStopping'
  <2>1. /\ \E state \in {"unknown", "running"} :
             jobs' = [jobs EXCEPT ![j].state = state]
        /\ UNCHANGED caller
    BY <1>11, ReportsEffect
  <2>2. \A k \in Jobs : jobs'[k].state # "cancelling"
    BY <1>1, <2>1
  <2> QED BY <1>1, <2>1, <2>2 DEF NoneStopping, CallIs
<1> QED BY <1>3, <1>4, <1>5, <1>6, <1>7, <1>8, <1>9, <1>10, <1>11
        DEF Next, UserCall, CallStep

\* Under either condition no record is pruned while the thread of its job is
\* alive, whatever is requested meanwhile (prune_terminal_jobs).
THEOREM PruningSparesLive == SparesStopping => (Spec => LiveRecordsKept)
<1> SUFFICES ASSUME SparesStopping PROVE Spec => LiveRecordsKept
  OBVIOUS
<1>1. Init => NoneStopping
  BY DEF Init, JobStoreInit, NoneStopping, CallIs, NoCall, Threads
<1>2. Owned /\ NoneStopping /\ [Next]_vars =>
         [SparesLive]_vars /\ Owned' /\ NoneStopping'
  BY StepSpares, NextOwned, NextNoneStopping DEF Owned
<1> QED BY <1>1, <1>2, InitOwned, PTL DEF Spec, LiveRecordsKept

=============================================================================
