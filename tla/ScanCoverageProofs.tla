------------------------- MODULE ScanCoverageProofs -------------------------
(***************************************************************************)
(* Proofs about what a scan leaves in the catalog, wherever pruning spares *)
(* the jobs that stop, so that no two threads scan the same root: a job    *)
(* that ends cancelled leaves its root marked as needing a scan, one that  *)
(* ends completed has every root marked, and, where the walk can read      *)
(* every item, a full scan covers the disk and removes only what was gone. *)
(***************************************************************************)
EXTENDS ScanJobsProofs

----------------------------------------------------------------------------
(***************************************************************************)
(* The marks of the roots.                                                 *)
(***************************************************************************)
Fresh(w) == w.batch = Nothing /\ ~w.full /\ ~w.cancelled /\ ~w.partial

\* What a thread knows about its own run at each of its steps.
Progress(j) ==
    /\ W(j).pc \in {"prepare", "target", "begin", "begun"} => Fresh(W(j))
    /\ W(j).pc \in {"walk", "walked"} => ~W(j).full
    /\ W(j).pc \in Scanning => R(j) \in W(j).todo
    /\ W(j).pc \in {"reconcile", "sizes", "timeline"} => W(j).full
    /\ W(j).full => ~W(j).partial /\ ~W(j).cancelled
    /\ W(j).pc \in {"mark", "finished"} /\ ~W(j).full =>
         W(j).cancelled \/ W(j).partial \/ IsCancelled(j)

\* Whether a root counts as done: marked, or no longer registered.
Settled(q) == scanned[q] \/ rootRow[q] = "absent"

\* What the marks say about the run of a thread.
Marks(j) ==
    /\ W(j).pc \in BegunPcs /\ ~W(j).full => ~scanned[R(j)]
    /\ W(j).pc = "finished" /\ W(j).full => Settled(R(j))
    /\ Live(j) => \A q \in jobs[j].roots \ W(j).todo : Settled(q)

\* The commands that write to scan_root know the row they write to.
CallsMatch ==
    /\ CallIs("ui", "disable") =>
         \A r \in caller["ui"].roots : rootRow[r] # "absent"
    /\ CallIs("ui", "forget") =>
         \A r \in caller["ui"].roots : rootRow[r] = "absent"

MarkInv == Owned /\ CallsMatch /\ \A j \in Jobs : Progress(j) /\ Marks(j)

----------------------------------------------------------------------------
(***************************************************************************)
(* The rows of the roots.                                                  *)
(***************************************************************************)
\* What the row of an item has to do with what the item has been on the disk
\* since the scan of its root began, at each step of the thread.
CoversFor(w, row, i) ==
    LET was == w.during[i] IN
    /\ w.pc \in {"begun", "walk"} => w.batch[i] \in was \cup {Gone}
    /\ w.pc \in {"begun", "walk", "walked", "reconcile"} =>
         /\ row = w.snap[i] \/ row \in was
         /\ i \notin w.remaining => row \in was \cup {Gone}
    /\ w.pc = "begun" => i \in w.left
    /\ w.pc = "walk" /\ i \notin w.left /\ ~w.partial /\ ~w.cancelled =>
         \/ w.batch[i] # Gone
         \/ Gone \in was
         \/ i \notin w.remaining /\ row \in was
    /\ (w.pc = "walked" /\ ~w.partial /\ ~w.cancelled) \/ w.pc = "reconcile" =>
         Gone \in was \/ (i \notin w.remaining /\ row \in was)
    /\ w.pc \in {"sizes", "timeline", "mark", "finished"} /\ w.full =>
         row \in was

CoversItem(j, i) == CoversFor(W(j), rows[R(j)][i], i)

\* A thread watches its root from the moment its scan begins.
Watches(j) ==
    W(j).pc \in BegunPcs => \A i \in Items : world[R(j)][i] \in W(j).during[i]

Covers(j) ==
    W(j).pc \in BegunPcs /\ rootRow[R(j)] # "absent" =>
        \A i \in Items : CoversItem(j, i)

CoverInv == MarkInv /\ \A j \in Jobs : Watches(j) /\ Covers(j)

----------------------------------------------------------------------------
(***************************************************************************)
(* What a step of a thread leaves alone.                                   *)
(***************************************************************************)
\* The other threads and their jobs, and the catalog of the other roots.
ThreadFrame(j) ==
    /\ UNCHANGED <<rootRow, world, caller>>
    /\ \A k \in Jobs \ {j} : /\ worker'[k] = worker[k]
                             /\ tokens'[k] = tokens[k]
                             /\ jobs'[k] = jobs[k]
    /\ \A q \in Roots : \/ rows'[q] = rows[q] /\ scanned'[q] = scanned[q]
                        \/ W(j).pc \in Scanning /\ q = R(j)

\* Every step of a thread leaves that alone.
LEMMA ThreadElsewhere ==
    ASSUME Typed, NEW j \in Jobs, WorkerStep(j)
    PROVE  ThreadFrame(j)
<1>1. /\ worker \in [Jobs -> Workers] /\ tokens \in [Jobs -> Tokens]
      /\ jobs \in [Jobs -> [state : JobStates, roots : SUBSET Roots]]
      /\ rows \in [Roots -> Inventory] /\ scanned \in [Roots -> BOOLEAN]
  BY DEF Typed, TypeOK, JobStoreTypeOK
<1>2. \A k \in Jobs \ {j} : /\ worker'[k] = worker[k]
                            /\ tokens'[k] = tokens[k]
                            /\ jobs'[k] = jobs[k]
  <2>1. Moves(j)
    BY WorkerMoves
  <2>2. ASSUME NEW w, Become(j, w) PROVE \A k \in Jobs \ {j} : worker'[k] = worker[k]
    BY <1>1, <2>2 DEF Become
  <2>3. ASSUME NEW state, End(j, state)
        PROVE  \A k \in Jobs \ {j} : /\ worker'[k] = worker[k]
                                     /\ tokens'[k] = tokens[k]
                                     /\ jobs'[k] = jobs[k]
    BY <1>1, <2>2, <2>3 DEF End, Close
  <2> QED BY <2>1, <2>2, <2>3 DEF Moves, storeVars
<1>3. UNCHANGED <<world, caller>>
  BY DEF WorkerStep, Prepare, NextTarget, AllDone, BeginRootScan, StartWalk,
         WalkItem, SkipUnreadable, SkipOverLimit, PersistBatch, RefuseBatch,
         WalkCancelled, WalkEnds, StartFinish, Reconcile, DeriveSizes,
         RecordTimeline, MarkRoot, FinishStopped, RootFinished, DatabaseFails
<1>4. UNCHANGED rootRow
  BY DEF WorkerStep, Prepare, NextTarget, AllDone, BeginRootScan, StartWalk,
         WalkItem, SkipUnreadable, SkipOverLimit, PersistBatch, RefuseBatch,
         WalkCancelled, WalkEnds, StartFinish, Reconcile, DeriveSizes,
         RecordTimeline, MarkRoot, FinishStopped, RootFinished, DatabaseFails,
         EndCancelled, CancelRoot, catalogVars
<1>5. \/ UNCHANGED <<rows, scanned>>
      \/ BeginRootScan(j) \/ PersistBatch(j) \/ Reconcile(j) \/ MarkRoot(j)
      \/ FinishStopped(j) \/ RootFinished(j)
  BY DEF WorkerStep, Prepare, NextTarget, AllDone, StartWalk,
         WalkItem, SkipUnreadable, SkipOverLimit, RefuseBatch,
         WalkCancelled, WalkEnds, StartFinish, DeriveSizes,
         RecordTimeline, DatabaseFails, EndCancelled, catalogVars
<1>6. ASSUME NEW x, scanned' = [scanned EXCEPT ![R(j)] = x]
      PROVE  \A q \in Roots : q # R(j) => scanned'[q] = scanned[q]
  BY <1>1, <1>6
<1>7. ASSUME NEW x, rows' = [rows EXCEPT ![R(j)] = x]
      PROVE  \A q \in Roots : q # R(j) => rows'[q] = rows[q]
  BY <1>1, <1>7
<1>8. CancelRoot(j) => \E x : scanned' = [scanned EXCEPT ![R(j)] = x] /\ UNCHANGED rows
  BY DEF CancelRoot
<1>9. CASE BeginRootScan(j)
  BY <1>2, <1>3, <1>4, <1>6, <1>9 DEF BeginRootScan, ThreadFrame, Scanning
<1>10. CASE PersistBatch(j)
  <2>1. \E x : rows' = [rows EXCEPT ![R(j)] = x]
    BY <1>10 DEF PersistBatch
  <2> QED BY <1>2, <1>3, <1>4, <1>7, <1>10, <2>1
          DEF PersistBatch, ThreadFrame, Scanning, BegunPcs
<1>11. CASE Reconcile(j)
  <2>1. \/ UNCHANGED rows
        \/ \E x : rows' = [rows EXCEPT ![R(j)] = x]
    BY <1>11 DEF Reconcile
  <2> QED BY <1>2, <1>3, <1>4, <1>7, <1>11, <2>1
          DEF Reconcile, ThreadFrame, Scanning, BegunPcs, FinishPcs
<1>12. CASE MarkRoot(j)
  <2>1. \/ UNCHANGED scanned
        \/ \E x : scanned' = [scanned EXCEPT ![R(j)] = x]
    BY <1>12 DEF MarkRoot
  <2> QED BY <1>2, <1>3, <1>4, <1>6, <1>12, <2>1
          DEF MarkRoot, ThreadFrame, Scanning, BegunPcs, FinishPcs
<1>13. CASE FinishStopped(j)
  BY <1>2, <1>3, <1>4, <1>6, <1>8, <1>13
     DEF FinishStopped, ThreadFrame, Scanning, BegunPcs
<1>14. CASE RootFinished(j)
  <2>1. CancelRoot(j) \/ UNCHANGED <<rows, scanned>>
    BY <1>14 DEF RootFinished, catalogVars
  <2> QED BY <1>2, <1>3, <1>4, <1>6, <1>8, <1>14, <2>1
          DEF RootFinished, ThreadFrame, Scanning, BegunPcs
<1> QED BY <1>2, <1>3, <1>4, <1>5, <1>9, <1>10, <1>11, <1>12, <1>13, <1>14
        DEF ThreadFrame

\* A root that a live thread scans, or was to scan, is none of another's.
LEMMA ApartRoots ==
    ASSUME Owned, NEW j \in Jobs, NEW k \in Jobs, j # k, Live(j), Live(k),
           NEW q \in W(j).todo
    PROVE  q \notin jobs[k].roots /\ q \notin W(k).todo
BY DEF Owned, Ownership, Holds

\* A thread keeps what it knows while another one moves.
LEMMA OthersKeep ==
    ASSUME MarkInv, NEW j \in Jobs, ThreadFrame(j), Live(j),
           NEW k \in Jobs, k # j
    PROVE  /\ Progress(k)' /\ Marks(k)'
           /\ Watches(k) => Watches(k)'
           /\ Covers(k) => Covers(k)'
<1>1. /\ worker'[k] = worker[k] /\ tokens'[k] = tokens[k] /\ jobs'[k] = jobs[k]
      /\ rootRow' = rootRow /\ world' = world
  BY DEF ThreadFrame
<1>2. Progress(j) /\ Progress(k) /\ Marks(k) /\ Typed /\ Owned
  BY DEF MarkInv, Owned
<1>3. Live(k) = Live(k)' /\ W(k)' = W(k) /\ R(k)' = R(k) /\ IsCancelled(k)' = IsCancelled(k)
  BY <1>1 DEF Live, W, R, IsCancelled
<1>4. W(j).pc \in Scanning => R(j) \in W(j).todo
  BY <1>2 DEF Progress
<1>5. ASSUME NEW q \in Roots, Live(k), q \in jobs[k].roots
      PROVE  rows'[q] = rows[q] /\ scanned'[q] = scanned[q]
  <2>1. ~(W(j).pc \in Scanning /\ q = R(j))
    BY <1>2, <1>4, <1>5, ApartRoots
  <2> QED BY <2>1 DEF ThreadFrame
<1>6. Live(k) => jobs[k].roots \subseteq Roots /\ W(k).todo \subseteq jobs[k].roots
  BY <1>2 DEF Owned, Ownership, Holds, Typed, TypeOK, JobStoreTypeOK
<1>7. W(k).pc \in Scanning => Live(k) /\ R(k) \in Roots /\ R(k) \in jobs[k].roots
  BY <1>2, <1>6 DEF Progress, Live, Scanning, BegunPcs, FinishPcs
<1>8. W(k).pc \in Scanning => rows'[R(k)] = rows[R(k)] /\ scanned'[R(k)] = scanned[R(k)]
  BY <1>5, <1>7
<1>9. BegunPcs \subseteq Scanning /\ "finished" \in BegunPcs
  BY DEF Scanning, BegunPcs
<1>10. Progress(k)'
  BY <1>2, <1>3 DEF Progress
<1>11. Marks(k)'
  <2>1. ASSUME W(k)'.pc \in BegunPcs, ~W(k)'.full PROVE ~scanned'[R(k)']
    BY <1>2, <1>3, <1>8, <1>9, <2>1 DEF Marks
  <2>2. ASSUME W(k)'.pc = "finished", W(k)'.full PROVE Settled(R(k))'
    BY <1>1, <1>2, <1>3, <1>8, <1>9, <2>2 DEF Marks, Settled
  <2>3. ASSUME Live(k)', NEW q \in jobs'[k].roots \ W(k)'.todo PROVE Settled(q)'
    <3>1. Settled(q) /\ q \in Roots /\ q \in jobs[k].roots /\ Live(k)
      BY <1>1, <1>2, <1>3, <1>6, <2>3 DEF Marks
    <3> QED BY <1>1, <1>5, <3>1 DEF Settled
  <2> QED BY <2>1, <2>2, <2>3 DEF Marks
<1>12. Watches(k) => Watches(k)'
  BY <1>1, <1>3 DEF Watches
<1>13. Covers(k) => Covers(k)'
  <2> SUFFICES ASSUME Covers(k), W(k)'.pc \in BegunPcs,
                      rootRow'[R(k)'] # "absent", NEW i \in Items
               PROVE  CoversItem(k, i)'
    BY DEF Covers
  <2>1. CoversItem(k, i)
    BY <1>1, <1>3 DEF Covers
  <2>2. rows'[R(k)'] = rows[R(k)]
    BY <1>3, <1>8, <1>9
  <2> QED BY <1>3, <2>1, <2>2 DEF CoversItem
<1> QED BY <1>10, <1>11, <1>12, <1>13

----------------------------------------------------------------------------
(***************************************************************************)
(* What a step of a thread does to its own record.                         *)
(***************************************************************************)
\* Two records with the same data.
SameData(v, w) ==
    /\ w.todo = v.todo /\ w.root = v.root /\ w.background = v.background
    /\ w.snap = v.snap /\ w.left = v.left /\ w.batch = v.batch
    /\ w.remaining = v.remaining /\ w.changed = v.changed
    /\ w.partial = v.partial /\ w.cancelled = v.cancelled
    /\ w.full = v.full /\ w.during = v.during

\* A thread that only moves on keeps its data (Goto).
LEMMA GotoKeeps ==
    ASSUME Typed, NEW j \in Jobs, NEW pc, Goto(j, pc)
    PROVE  W(j)'.pc = pc /\ SameData(W(j), W(j)')
<1>1. worker[j] \in Workers /\ worker \in [Jobs -> Workers]
  BY DEF Typed, TypeOK
<1>2. worker'[j] = [worker[j] EXCEPT !.pc = pc]
  BY <1>1 DEF Goto, Become, W
<1> QED BY <1>1, <1>2 DEF SameData, W, Workers

\* A record that is stored is the one that is read.
LEMMA BecomeIs ==
    ASSUME Typed, NEW j \in Jobs, NEW w, Become(j, w)
    PROVE  W(j)' = w
BY DEF Typed, TypeOK, Become, W

\* A thread that has ended knows nothing.
LEMMA EndedKeeps ==
    ASSUME Typed, NEW j \in Jobs, W(j)' = NoWorker
    PROVE  Progress(j)' /\ Marks(j)' /\ Watches(j)' /\ Covers(j)'
<1>1. W(j)'.pc = "none" /\ ~W(j)'.full
  BY DEF NoWorker
<1>2. W(j)'.pc \notin Scanning /\ W(j)'.pc \notin BegunPcs
  BY <1>1 DEF Scanning, BegunPcs, FinishPcs
<1>3. Progress(j)'
  BY <1>1, <1>2 DEF Progress
<1>4. ~Live(j)'
  BY <1>1 DEF Live
<1>5. Marks(j)'
  BY <1>1, <1>2, <1>4 DEF Marks
<1> QED BY <1>2, <1>3, <1>5 DEF Watches, Covers

\* A thread that goes on keeps what it knows of the roots it is done with.
LEMMA DoneStaysSettled ==
    ASSUME MarkInv, NEW j \in Jobs, ThreadFrame(j), Live(j), UNCHANGED jobs,
           W(j)'.todo = W(j).todo
    PROVE  \A q \in jobs'[j].roots \ W(j)'.todo : Settled(q)'
<1>1. Progress(j) /\ Marks(j) /\ jobs \in [Jobs -> [state : JobStates, roots : SUBSET Roots]]
  BY DEF MarkInv, Owned, Typed, TypeOK, JobStoreTypeOK
<1> SUFFICES ASSUME NEW q \in jobs[j].roots \ W(j).todo PROVE Settled(q)'
  OBVIOUS
<1>2. q \in Roots /\ Settled(q)
  BY <1>1 DEF Marks
<1>3. W(j).pc \in Scanning => q # R(j)
  BY <1>1 DEF Progress
<1>4. scanned'[q] = scanned[q] /\ rootRow' = rootRow
  BY <1>2, <1>3 DEF ThreadFrame
<1> QED BY <1>2, <1>4 DEF Settled

\* The first two facts of Marks, about the root a thread scans.
RootMarks(j) ==
    /\ W(j).pc \in BegunPcs /\ ~W(j).full => ~scanned[R(j)]
    /\ W(j).pc = "finished" /\ W(j).full => Settled(R(j))

\* The steps before the walk of a root.
LEMMA StartsKeepMarks ==
    ASSUME MarkInv, NEW j \in Jobs,
           \/ Prepare(j) /\ Goto(j, "target") /\ UNCHANGED <<storeVars, catalogVars>>
           \/ NextTarget(j) /\ UNCHANGED <<storeVars, catalogVars>>
                /\ \E r \in W(j).todo :
                     Become(j, [W(j) EXCEPT !.pc = "begin", !.root = r])
           \/ BeginRootScan(j)
           \/ StartWalk(j) /\ Goto(j, "walk") /\ UNCHANGED <<storeVars, catalogVars>>
    PROVE  /\ Progress(j)' /\ RootMarks(j)'
           /\ Live(j) /\ UNCHANGED jobs /\ W(j)'.todo = W(j).todo
<1>1. /\ Typed /\ worker \in [Jobs -> Workers] /\ W(j) \in Workers
      /\ Progress(j) /\ Marks(j)
      /\ scanned \in [Roots -> BOOLEAN]
  BY DEF MarkInv, Owned, Typed, TypeOK, W
<1>2. CASE Prepare(j) /\ Goto(j, "target") /\ UNCHANGED <<storeVars, catalogVars>>
  <2>1. W(j).pc = "prepare" /\ W(j)'.pc = "target" /\ SameData(W(j), W(j)')
    BY <1>1, <1>2, GotoKeeps DEF Prepare
  <2>2. Fresh(W(j)) /\ Fresh(W(j)')
    BY <1>1, <2>1 DEF Progress, Fresh, SameData
  <2> QED BY <1>2, <2>1, <2>2
          DEF Progress, RootMarks, Fresh, SameData, Live, storeVars, Scanning,
              BegunPcs, FinishPcs
<1>3. ASSUME NEW r \in W(j).todo, NextTarget(j),
             UNCHANGED <<storeVars, catalogVars>>,
             Become(j, [W(j) EXCEPT !.pc = "begin", !.root = r])
      PROVE  /\ Progress(j)' /\ RootMarks(j)'
             /\ Live(j) /\ UNCHANGED jobs /\ W(j)'.todo = W(j).todo
  <2>1. W(j)' = [W(j) EXCEPT !.pc = "begin", !.root = r]
    BY <1>1, <1>3, BecomeIs
  <2>2. W(j).pc = "target"
    BY <1>3 DEF NextTarget
  <2> DEFINE w == [W(j) EXCEPT !.pc = "begin", !.root = r]
  <2>3. /\ w.pc = "begin" /\ w.root = r /\ w.todo = W(j).todo
        /\ w.batch = W(j).batch /\ w.full = W(j).full
        /\ w.cancelled = W(j).cancelled /\ w.partial = W(j).partial
    BY <1>1 DEF Workers
  <2>4. W(j)' = w
    BY <2>1
  <2> HIDE DEF w
  <2>5. Fresh(w)
    <3>1. Fresh(W(j))
      BY <1>1, <2>2 DEF Progress
    <3> QED BY <2>3, <3>1 DEF Fresh
  <2>6. R(j)' = r
    BY <2>3, <2>4 DEF R, W
  <2> QED BY <1>3, <2>2, <2>3, <2>4, <2>5, <2>6
          DEF Progress, RootMarks, Fresh, Live, storeVars, BegunPcs, FinishPcs
<1>4. CASE BeginRootScan(j)
  <2> DEFINE during == [i \in Items |-> {world[R(j)][i]}]
  <2> DEFINE w == [W(j) EXCEPT !.pc = "begun", !.snap = rows[R(j)],
                               !.remaining = Present(rows[R(j)]),
                               !.left = Items, !.during = during]
  <2>1. W(j)' = w /\ W(j).pc = "begin" /\ UNCHANGED storeVars
    BY <1>1, <1>4, BecomeIs DEF BeginRootScan
  <2> HIDE DEF during
  <2>2. /\ w.pc = "begun" /\ w.todo = W(j).todo /\ w.root = W(j).root
        /\ w.batch = W(j).batch /\ w.full = W(j).full
        /\ w.cancelled = W(j).cancelled /\ w.partial = W(j).partial
    BY <1>1 DEF Workers
  <2> HIDE DEF w
  <2>3. Fresh(w) /\ R(j) \in W(j).todo /\ R(j) \in Roots
    BY <1>1, <2>1, <2>2 DEF Progress, Fresh, Scanning, Typed, RootChosen
  <2>4. ~scanned'[R(j)] /\ R(j)' = R(j)
    BY <1>1, <1>4, <2>1, <2>2, <2>3 DEF BeginRootScan, R, W
  <2> QED BY <2>1, <2>2, <2>3, <2>4
          DEF Progress, RootMarks, Fresh, Live, R, storeVars
<1>5. CASE StartWalk(j) /\ Goto(j, "walk") /\ UNCHANGED <<storeVars, catalogVars>>
  <2>1. W(j).pc = "begun" /\ W(j)'.pc = "walk" /\ SameData(W(j), W(j)')
    BY <1>1, <1>5, GotoKeeps DEF StartWalk
  <2>2. Fresh(W(j)) /\ R(j) \in W(j).todo
    BY <1>1, <2>1 DEF Progress, Scanning, BegunPcs
  <2>3. R(j)' = R(j) /\ ~scanned[R(j)]
    <3>1. R(j)' = R(j)
      BY <2>1 DEF SameData, R, W
    <3>2. ~W(j).full /\ W(j).pc \in BegunPcs
      BY <2>1, <2>2 DEF Fresh, BegunPcs
    <3> QED BY <1>1, <3>1, <3>2 DEF Marks
  <2> QED BY <1>5, <2>1, <2>2, <2>3
          DEF Progress, RootMarks, Fresh, SameData, Live, R, storeVars, catalogVars
<1> QED BY <1>2, <1>3, <1>4, <1>5

\* The steps of the walk of a root, for the record they store.
LEMMA WalkKeepsMarks ==
    ASSUME MarkInv, NEW j \in Jobs, NEW w, Become(j, w), W(j).pc = "walk",
           w.pc \in {"walk", "walked"}, w.full = W(j).full,
           w.todo = W(j).todo, w.root = W(j).root,
           UNCHANGED <<jobs, scanned>>
    PROVE  /\ Progress(j)' /\ RootMarks(j)'
           /\ Live(j) /\ UNCHANGED jobs /\ W(j)'.todo = W(j).todo
<1>1. Typed /\ Progress(j) /\ Marks(j) /\ W(j)' = w
  BY BecomeIs DEF MarkInv, Owned
<1>2. R(j)' = R(j) /\ R(j) = w.root
  BY <1>1 DEF R, W
<1>3. R(j) \in W(j).todo /\ ~W(j).full
  BY <1>1 DEF Progress, Scanning, BegunPcs
<1>4. ~scanned[R(j)] /\ ~w.full
  BY <1>1, <1>3 DEF Marks, BegunPcs
<1>5. Progress(j)'
  BY <1>1, <1>2, <1>3, <1>4 DEF Progress
<1>6. RootMarks(j)'
  BY <1>1, <1>2, <1>4 DEF RootMarks
<1> QED BY <1>1, <1>5, <1>6 DEF Live

\* The steps of the walk of a root.
LEMMA WalkStepsKeepMarks ==
    ASSUME MarkInv, NEW j \in Jobs,
           \/ \E i \in Items :
                WalkItem(j, i) \/ SkipUnreadable(j, i) \/ SkipOverLimit(j, i)
           \/ PersistBatch(j) \/ WalkCancelled(j) \/ WalkEnds(j)
    PROVE  /\ Progress(j)' /\ RootMarks(j)'
           /\ Live(j) /\ UNCHANGED jobs /\ W(j)'.todo = W(j).todo
<1> DEFINE Goal == /\ Progress(j)' /\ RootMarks(j)'
                   /\ Live(j) /\ UNCHANGED jobs /\ W(j)'.todo = W(j).todo
<1>1. W(j) \in Workers
  BY DEF MarkInv, Owned, Typed, TypeOK, W
<1>2. ASSUME NEW w, Become(j, w), W(j).pc = "walk",
             w.pc \in {"walk", "walked"}, w.full = W(j).full,
             w.todo = W(j).todo, w.root = W(j).root, UNCHANGED <<jobs, scanned>>
      PROVE  Goal
  BY <1>2, WalkKeepsMarks
<1>3. ASSUME NEW i \in Items, WalkItem(j, i) PROVE Goal
  <2> DEFINE w == [W(j) EXCEPT !.left = @ \ {i}, !.batch[i] = world[R(j)][i]]
  <2>1. Become(j, w) /\ W(j).pc = "walk" /\ UNCHANGED <<jobs, scanned>>
    BY <1>3 DEF WalkItem, storeVars, catalogVars
  <2>2. /\ w.pc = W(j).pc /\ w.full = W(j).full /\ w.todo = W(j).todo
        /\ w.root = W(j).root
    BY <1>1 DEF Workers
  <2> QED BY <1>2, <2>1, <2>2
<1>4. ASSUME NEW i \in Items, SkipUnreadable(j, i) PROVE Goal
  <2> DEFINE w == [W(j) EXCEPT !.left = @ \ {i}]
  <2>1. Become(j, w) /\ W(j).pc = "walk" /\ UNCHANGED <<jobs, scanned>>
    BY <1>4 DEF SkipUnreadable, storeVars, catalogVars
  <2>2. /\ w.pc = W(j).pc /\ w.full = W(j).full /\ w.todo = W(j).todo
        /\ w.root = W(j).root
    BY <1>1 DEF Workers
  <2> QED BY <1>2, <2>1, <2>2
<1>5. ASSUME NEW i \in Items, SkipOverLimit(j, i) PROVE Goal
  <2> DEFINE w == [W(j) EXCEPT !.left = @ \ {i}, !.partial = TRUE]
  <2>1. Become(j, w) /\ W(j).pc = "walk" /\ UNCHANGED <<jobs, scanned>>
    BY <1>5 DEF SkipOverLimit, storeVars, catalogVars
  <2>2. /\ w.pc = W(j).pc /\ w.full = W(j).full /\ w.todo = W(j).todo
        /\ w.root = W(j).root
    BY <1>1 DEF Workers
  <2> QED BY <1>2, <2>1, <2>2
<1>6. CASE PersistBatch(j)
  <2>0. PICK reread \in SUBSET Items :
          Become(j, [W(j) EXCEPT !.batch = Nothing,
                                 !.remaining = @ \ Present(W(j).batch),
                                 !.changed = @ \cup ToWrite(j, reread)])
    BY <1>6 DEF PersistBatch
  <2> DEFINE found == Present(W(j).batch)
             fresh == ToWrite(j, reread)
             w == [W(j) EXCEPT !.batch = Nothing, !.remaining = @ \ found,
                               !.changed = @ \cup fresh]
  <2>1. Become(j, w) /\ W(j).pc = "walk" /\ UNCHANGED <<jobs, scanned>>
    BY <1>6, <2>0 DEF PersistBatch, storeVars
  <2> HIDE DEF found, fresh
  <2>2. /\ w.pc = W(j).pc /\ w.full = W(j).full /\ w.todo = W(j).todo
        /\ w.root = W(j).root
    BY <1>1 DEF Workers
  <2> QED BY <1>2, <2>1, <2>2
<1>7. CASE WalkCancelled(j)
  <2> DEFINE w == [W(j) EXCEPT !.pc = "walked", !.left = {}, !.cancelled = TRUE]
  <2>1. Become(j, w) /\ W(j).pc = "walk" /\ UNCHANGED <<jobs, scanned>>
    BY <1>7 DEF WalkCancelled, storeVars, catalogVars
  <2>2. /\ w.pc = "walked" /\ w.full = W(j).full /\ w.todo = W(j).todo
        /\ w.root = W(j).root
    BY <1>1 DEF Workers
  <2> QED BY <1>2, <2>1, <2>2
<1>8. CASE WalkEnds(j)
  <2> DEFINE w == [W(j) EXCEPT !.pc = "walked"]
  <2>1. Become(j, w) /\ W(j).pc = "walk" /\ UNCHANGED <<jobs, scanned>>
    BY <1>8 DEF WalkEnds, Goto, storeVars, catalogVars
  <2>2. /\ w.pc = "walked" /\ w.full = W(j).full /\ w.todo = W(j).todo
        /\ w.root = W(j).root
    BY <1>1 DEF Workers
  <2> QED BY <1>2, <2>1, <2>2
<1> QED BY <1>3, <1>4, <1>5, <1>6, <1>7, <1>8

\* The steps of finish_root_scan, and its start.
LEMMA FinishKeepsMarks ==
    ASSUME MarkInv, NEW j \in Jobs,
           \/ StartFinish(j) /\ rootRow[R(j)] = "enabled"
           \/ Reconcile(j) \/ DeriveSizes(j) \/ RecordTimeline(j) \/ MarkRoot(j)
    PROVE  /\ Progress(j)' /\ RootMarks(j)'
           /\ Live(j) /\ UNCHANGED jobs /\ W(j)'.todo = W(j).todo
<1>1. /\ Typed /\ W(j) \in Workers /\ Progress(j) /\ Marks(j)
      /\ scanned \in [Roots -> BOOLEAN]
  BY DEF MarkInv, Owned, Typed, TypeOK, W
<1>2. CASE StartFinish(j) /\ rootRow[R(j)] = "enabled"
  <2> DEFINE w == [W(j) EXCEPT !.full = Full(j),
                               !.pc = IF Full(j) THEN "reconcile" ELSE "mark"]
  <2>1. W(j)' = w /\ W(j).pc = "walked" /\ UNCHANGED <<jobs, tokens, scanned>>
    BY <1>1, <1>2, BecomeIs DEF StartFinish, storeVars, catalogVars
  <2>2. /\ w.full = Full(j) /\ w.pc = IF Full(j) THEN "reconcile" ELSE "mark"
        /\ w.todo = W(j).todo /\ w.root = W(j).root
        /\ w.partial = W(j).partial /\ w.cancelled = W(j).cancelled
    BY <1>1 DEF Workers
  <2> HIDE DEF w
  <2>3. R(j) \in W(j).todo /\ ~W(j).full /\ ~scanned[R(j)]
    BY <1>1, <2>1 DEF Progress, Marks, Scanning, BegunPcs
  <2>4. R(j)' = R(j) /\ IsCancelled(j)' = IsCancelled(j)
    BY <2>1, <2>2 DEF R, W, IsCancelled
  <2>5. Progress(j)'
    BY <2>1, <2>2, <2>3, <2>4 DEF Progress, Full, R, W
  <2>6. RootMarks(j)'
    BY <2>1, <2>2, <2>3, <2>4 DEF RootMarks
  <2> QED BY <2>1, <2>2, <2>5, <2>6 DEF Live
<1>3. ASSUME NEW pc \in {"sizes", "timeline", "mark", "finished"}, Then(j, pc),
             W(j).pc \in FinishPcs, UNCHANGED storeVars
      PROVE  /\ SameData(W(j), W(j)') /\ R(j)' = R(j)
             /\ IsCancelled(j)' = IsCancelled(j)
             /\ IF IsCancelled(j) THEN W(j)'.pc = "stopped" ELSE W(j)'.pc = pc
             /\ R(j) \in W(j).todo /\ Live(j) /\ UNCHANGED jobs
  <2>1. SameData(W(j), W(j)') /\ W(j)'.pc = IF IsCancelled(j) THEN "stopped" ELSE pc
    BY <1>1, <1>3, GotoKeeps DEF Then
  <2>2. R(j) \in W(j).todo /\ Live(j)
    BY <1>1, <1>3 DEF Progress, Scanning, BegunPcs, FinishPcs, Live
  <2> QED BY <1>3, <2>1, <2>2 DEF SameData, R, W, IsCancelled, storeVars
<1>4. ASSUME NEW pc \in {"sizes", "timeline", "mark"}, Then(j, pc),
             W(j).pc \in {"reconcile", "sizes", "timeline"}, UNCHANGED storeVars,
             UNCHANGED scanned
      PROVE  /\ Progress(j)' /\ RootMarks(j)'
             /\ Live(j) /\ UNCHANGED jobs /\ W(j)'.todo = W(j).todo
  <2>1. W(j).pc \in FinishPcs /\ W(j).full
    BY <1>1, <1>4 DEF FinishPcs, Progress
  <2>2. /\ SameData(W(j), W(j)') /\ R(j)' = R(j)
        /\ W(j)'.pc \in {"stopped", "sizes", "timeline", "mark"}
        /\ R(j) \in W(j).todo /\ Live(j) /\ UNCHANGED jobs
    BY <1>3, <1>4, <2>1
  <2>3. W(j)'.full
    BY <2>1, <2>2 DEF SameData
  <2>4. ~W(j)'.partial /\ ~W(j)'.cancelled
    BY <1>1, <2>1, <2>2 DEF SameData, Progress
  <2>5. Progress(j)'
    BY <2>2, <2>3, <2>4 DEF Progress, SameData
  <2>6. RootMarks(j)'
    BY <2>2, <2>3 DEF RootMarks
  <2> QED BY <2>2, <2>5, <2>6 DEF SameData
<1>5. CASE Reconcile(j)
  <2> DEFINE pc == IF Delta(j) # {} /\ ~W(j).background THEN "sizes" ELSE "timeline"
  <2>1. Then(j, pc) /\ W(j).pc = "reconcile" /\ UNCHANGED storeVars /\ UNCHANGED scanned
    BY <1>5 DEF Reconcile
  <2>2. pc \in {"sizes", "timeline", "mark"}
    OBVIOUS
  <2> HIDE DEF pc
  <2> QED BY <1>4, <2>1, <2>2
<1>6. CASE DeriveSizes(j)
  BY <1>4, <1>6 DEF DeriveSizes
<1>7. CASE RecordTimeline(j)
  BY <1>4, <1>7 DEF RecordTimeline
<1>8. CASE MarkRoot(j)
  <2>1. /\ W(j).pc = "mark" /\ W(j).pc \in FinishPcs
        /\ Then(j, "finished") /\ UNCHANGED storeVars /\ UNCHANGED rootRow
    BY <1>8 DEF MarkRoot, FinishPcs
  <2>2. /\ SameData(W(j), W(j)') /\ R(j)' = R(j) /\ IsCancelled(j)' = IsCancelled(j)
        /\ IF IsCancelled(j) THEN W(j)'.pc = "stopped" ELSE W(j)'.pc = "finished"
        /\ R(j) \in W(j).todo /\ Live(j) /\ UNCHANGED jobs
    BY <1>3, <2>1
  <2>3. R(j) \in Roots
    BY <1>1, <2>1 DEF Typed, RootChosen, Scanning, BegunPcs
  <2>4. \/ scanned'[R(j)] = (W(j).full /\ rootRow[R(j)] # "absent")
        \/ IsCancelled(j) /\ scanned' = scanned
    BY <1>1, <1>8, <2>3 DEF MarkRoot
  <2>5. ~W(j).full => ~scanned[R(j)]
    BY <1>1, <2>1 DEF Marks, BegunPcs
  <2>6. W(j)'.full = W(j).full /\ W(j)'.partial = W(j).partial
        /\ W(j)'.cancelled = W(j).cancelled /\ W(j)'.todo = W(j).todo
    BY <2>2 DEF SameData
  <2>7. Progress(j)'
    BY <1>1, <2>1, <2>2, <2>6 DEF Progress
  <2>8. RootMarks(j)'
    BY <2>1, <2>2, <2>4, <2>5, <2>6 DEF RootMarks, Settled
  <2> QED BY <2>2, <2>6, <2>7, <2>8
<1> QED BY <1>2, <1>5, <1>6, <1>7, <1>8

\* A thread that ends, whatever the reason, stores the null record.
LEMMA EndIs ==
    ASSUME Typed, NEW j \in Jobs, NEW state, End(j, state)
    PROVE  W(j)' = NoWorker
BY BecomeIs DEF End

\* A thread that is done with a root goes on with the others.
LEMMA NextRootKeepsMarks ==
    ASSUME MarkInv, NEW j \in Jobs, ThreadFrame(j), RootFinished(j),
           ~W(j).partial, ~W(j).cancelled, ~IsCancelled(j),
           NextRoot(j, W(j).todo \ {R(j)}), UNCHANGED <<storeVars, catalogVars>>
    PROVE  Progress(j)' /\ Marks(j)'
<1>1. /\ Typed /\ Progress(j) /\ Marks(j) /\ W(j).pc = "finished"
      /\ jobs \in [Jobs -> [state : JobStates, roots : SUBSET Roots]]
  BY DEF MarkInv, Owned, Typed, TypeOK, JobStoreTypeOK, RootFinished
<1> DEFINE w == [NoWorker EXCEPT !.pc = "target", !.todo = W(j).todo \ {R(j)},
                                 !.background = W(j).background]
<1>2. W(j)' = w
  BY <1>1, BecomeIs DEF NextRoot
<1>3. w.pc = "target" /\ w.todo = W(j).todo \ {R(j)} /\ Fresh(w)
  BY DEF NoWorker, Fresh
<1> HIDE DEF w
<1>4. Progress(j)'
  BY <1>2, <1>3 DEF Progress, Fresh, Scanning, BegunPcs, FinishPcs
<1>5. Settled(R(j)) /\ Live(j)
  BY <1>1 DEF Progress, Marks, Live
<1>6. \A q \in jobs'[j].roots \ w.todo : Settled(q)'
  <2> SUFFICES ASSUME NEW q \in jobs[j].roots, q \notin w.todo PROVE Settled(q)'
    BY DEF storeVars
  <2>1. Settled(q)
    BY <1>1, <1>3, <1>5 DEF Marks
  <2> QED BY <2>1 DEF Settled, catalogVars
<1> QED BY <1>2, <1>3, <1>4, <1>6 DEF Marks, Fresh, BegunPcs, FinishPcs

\* What a thread knows holds after each of its own steps.
LEMMA OwnKeepsMarks ==
    ASSUME MarkInv, NEW j \in Jobs, WorkerStep(j)
    PROVE  Progress(j)' /\ Marks(j)'
<1>1. Typed /\ ThreadFrame(j)
  BY ThreadElsewhere DEF MarkInv, Owned
<1>2. ASSUME Progress(j)', RootMarks(j)', Live(j), UNCHANGED jobs,
             W(j)'.todo = W(j).todo
      PROVE  Progress(j)' /\ Marks(j)'
  <2>1. \A q \in jobs'[j].roots \ W(j)'.todo : Settled(q)'
    BY <1>1, <1>2, DoneStaysSettled
  <2> QED BY <1>2, <2>1 DEF Marks, RootMarks
<1>3. ASSUME NEW state, End(j, state) PROVE Progress(j)' /\ Marks(j)'
  BY <1>1, <1>3, EndIs, EndedKeeps
<1>4. EndCancelled(j) \/ CancelRoot(j) => Progress(j)' /\ Marks(j)'
  BY <1>3 DEF EndCancelled, CancelRoot
<1>5. CASE Prepare(j)
  <2>1. EndCancelled(j) \/ (Goto(j, "target") /\ UNCHANGED <<storeVars, catalogVars>>)
    BY <1>5 DEF Prepare
  <2> QED BY <1>2, <1>4, <1>5, <2>1, StartsKeepMarks
<1>6. CASE NextTarget(j)
  <2>1. \/ EndCancelled(j)
        \/ /\ UNCHANGED <<storeVars, catalogVars>>
           /\ \E r \in W(j).todo : Become(j, [W(j) EXCEPT !.pc = "begin", !.root = r])
    BY <1>6 DEF NextTarget
  <2> QED BY <1>2, <1>4, <1>6, <2>1, StartsKeepMarks
<1>7. CASE AllDone(j)
  BY <1>3, <1>7 DEF AllDone
<1>8. CASE BeginRootScan(j)
  BY <1>2, <1>8, StartsKeepMarks
<1>9. CASE StartWalk(j)
  <2>1. EndCancelled(j) \/ (Goto(j, "walk") /\ UNCHANGED <<storeVars, catalogVars>>)
    BY <1>9 DEF StartWalk
  <2> QED BY <1>2, <1>4, <1>9, <2>1, StartsKeepMarks
<1>10. CASE \/ \E i \in Items :
                 WalkItem(j, i) \/ SkipUnreadable(j, i) \/ SkipOverLimit(j, i)
            \/ PersistBatch(j) \/ WalkCancelled(j) \/ WalkEnds(j)
  BY <1>2, <1>10, WalkStepsKeepMarks
<1>11. CASE RefuseBatch(j)
  BY <1>4, <1>11 DEF RefuseBatch
<1>12. CASE StartFinish(j)
  <2>1. EndCancelled(j) \/ rootRow[R(j)] = "enabled"
    BY <1>12 DEF StartFinish
  <2> QED BY <1>2, <1>4, <1>12, <2>1, FinishKeepsMarks
<1>13. CASE Reconcile(j) \/ DeriveSizes(j) \/ RecordTimeline(j) \/ MarkRoot(j)
  BY <1>2, <1>13, FinishKeepsMarks
<1>14. CASE FinishStopped(j)
  BY <1>4, <1>14 DEF FinishStopped
<1>15. CASE RootFinished(j)
  <2>1. \/ CancelRoot(j) \/ End(j, "partial")
        \/ /\ ~W(j).cancelled /\ ~IsCancelled(j) /\ ~W(j).partial
           /\ NextRoot(j, W(j).todo \ {R(j)})
           /\ UNCHANGED <<storeVars, catalogVars>>
    BY <1>15 DEF RootFinished
  <2> QED BY <1>1, <1>3, <1>4, <1>15, <2>1, NextRootKeepsMarks
<1>16. CASE DatabaseFails(j)
  BY <1>3, <1>16 DEF DatabaseFails
<1> QED BY <1>5, <1>6, <1>7, <1>8, <1>9, <1>10, <1>11, <1>12, <1>13, <1>14,
           <1>15, <1>16
        DEF WorkerStep

----------------------------------------------------------------------------
(***************************************************************************)
(* The marks hold in every state.                                          *)
(***************************************************************************)
\* A step that leaves the threads alone, and of the catalog changes at most
\* the roots that are unregistered after it.
LEMMA CatalogKeeps ==
    ASSUME Typed, NEW k \in Jobs, UNCHANGED <<worker, world>>,
           jobs'[k].roots = jobs[k].roots, IsCancelled(k) => IsCancelled(k)',
           \A q \in Roots : /\ rootRow[q] = "absent" => rootRow'[q] = "absent"
                            /\ rootRow'[q] # "absent" => rows'[q] = rows[q]
                            /\ scanned'[q] => scanned[q]
                            /\ scanned[q] => scanned'[q] \/ rootRow'[q] = "absent"
    PROVE  /\ Progress(k) => Progress(k)'
           /\ Marks(k) => Marks(k)'
           /\ Watches(k) => Watches(k)'
           /\ Covers(k) => Covers(k)'
<1>1. /\ jobs[k].roots \subseteq Roots
      /\ W(k).pc \in Scanning => R(k) \in Roots
      /\ BegunPcs \subseteq Scanning /\ "finished" \in BegunPcs
  BY DEF Typed, TypeOK, JobStoreTypeOK, RootChosen, Scanning, BegunPcs
<1>2. W(k)' = W(k) /\ R(k)' = R(k) /\ Live(k)' = Live(k)
  BY DEF W, R, Live
<1>3. \A q \in Roots : Settled(q) => Settled(q)'
  BY DEF Settled
<1>4. Progress(k) => Progress(k)'
  BY <1>2 DEF Progress
<1>5. Marks(k) => Marks(k)'
  BY <1>1, <1>2, <1>3 DEF Marks
<1>6. Watches(k) => Watches(k)'
  BY <1>2 DEF Watches
<1>7. Covers(k) => Covers(k)'
  <2> SUFFICES ASSUME Covers(k), W(k)'.pc \in BegunPcs, rootRow'[R(k)'] # "absent",
                      NEW i \in Items
               PROVE  CoversItem(k, i)'
    BY DEF Covers
  <2>1. R(k) \in Roots /\ rootRow[R(k)] # "absent" /\ rows'[R(k)] = rows[R(k)]
    BY <1>1, <1>2
  <2>2. CoversItem(k, i)
    BY <1>2, <2>1 DEF Covers
  <2> QED BY <1>2, <2>1, <2>2 DEF CoversItem
<1> QED BY <1>4, <1>5, <1>6, <1>7

\* What every thread keeps in a step.
AllKeep ==
    \A k \in Jobs : /\ Progress(k) => Progress(k)'
                    /\ Marks(k) => Marks(k)'
                    /\ Watches(k) => Watches(k)'
                    /\ Covers(k) => Covers(k)'

\* The commands of the user interface but an admission.
LEMMA CommandsKeep ==
    ASSUME MarkInv,
           \/ \E rs \in SUBSET Roots : ScanRequest(rs)
           \/ \E r \in Roots : EnableRoot(r) \/ DisableRequest(r)
                                 \/ UnregisterRequest(r) \/ RefreshRequest(r)
           \/ \E j \in Jobs : CancelRequest(j)
           \/ \E c \in Threads : AlreadyOwned(c)
           \/ CancelStored \/ DisableRoot \/ DeleteRoot \/ DeleteProject
    PROVE  AllKeep
<1>1. /\ Typed /\ CallsMatch
      /\ rootRow \in [Roots -> {"absent", "disabled", "enabled"}]
      /\ scanned \in [Roots -> BOOLEAN] /\ rows \in [Roots -> Inventory]
      /\ jobs \in [Jobs -> [state : JobStates, roots : SUBSET Roots]]
      /\ tokens \in [Jobs -> Tokens]
  BY DEF MarkInv, Owned, Typed, TypeOK, JobStoreTypeOK
<1>2. ASSUME UNCHANGED <<storeVars, catalogVars, worker, world>> PROVE AllKeep
  <2>1. UNCHANGED <<jobs, tokens, rootRow, rows, scanned, worker, world>>
    BY <1>2 DEF storeVars, catalogVars
  <2> SUFFICES ASSUME NEW k \in Jobs
               PROVE  /\ Progress(k) => Progress(k)'
                      /\ Marks(k) => Marks(k)'
                      /\ Watches(k) => Watches(k)'
                      /\ Covers(k) => Covers(k)'
    BY DEF AllKeep
  <2>2. IsCancelled(k) => IsCancelled(k)'
    BY <2>1 DEF IsCancelled
  <2> QED BY <1>1, <2>1, <2>2, CatalogKeeps
<1>3. ASSUME UNCHANGED <<worker, world, jobs, tokens>>,
             \A q \in Roots : /\ rootRow[q] = "absent" => rootRow'[q] = "absent"
                              /\ rootRow'[q] # "absent" => rows'[q] = rows[q]
                              /\ scanned'[q] => scanned[q]
                              /\ scanned[q] => scanned'[q] \/ rootRow'[q] = "absent"
      PROVE  AllKeep
  <2> SUFFICES ASSUME NEW k \in Jobs
               PROVE  /\ Progress(k) => Progress(k)'
                      /\ Marks(k) => Marks(k)'
                      /\ Watches(k) => Watches(k)'
                      /\ Covers(k) => Covers(k)'
    BY DEF AllKeep
  <2>1. jobs'[k].roots = jobs[k].roots /\ (IsCancelled(k) => IsCancelled(k)')
    BY <1>3 DEF IsCancelled
  <2> QED BY <1>1, <1>3, <2>1, CatalogKeeps
<1>4. CASE \/ \E rs \in SUBSET Roots : ScanRequest(rs)
           \/ \E r \in Roots : DisableRequest(r)
                                 \/ UnregisterRequest(r) \/ RefreshRequest(r)
           \/ \E c \in Threads : AlreadyOwned(c)
  <2>1. UNCHANGED <<storeVars, catalogVars, worker, world>>
    BY <1>4 DEF ScanRequest, DisableRequest, UnregisterRequest, RefreshRequest,
                AlreadyOwned
  <2> QED BY <1>2, <2>1
<1>5. ASSUME NEW r \in Roots, EnableRoot(r) PROVE AllKeep
  <2>1. /\ UNCHANGED <<worker, world, jobs, tokens, rows, scanned>>
        /\ \A q \in Roots : rootRow[q] = "absent" => rootRow'[q] = "absent"
    BY <1>1, <1>5 DEF EnableRoot, storeVars
  <2> QED BY <1>3, <2>1
<1>6. CASE DisableRoot
  <2>1. /\ UNCHANGED <<worker, world, jobs, tokens, rows, scanned>>
        /\ \A q \in Roots : rootRow[q] = "absent" => rootRow'[q] = "absent"
    BY <1>1, <1>6 DEF DisableRoot, storeVars, CallsMatch
  <2> QED BY <1>3, <2>1
<1>7. CASE DeleteRoot
  <2>1. UNCHANGED <<worker, world, jobs, tokens, rows>>
    BY <1>7 DEF DeleteRoot, storeVars
  <2>2. \A q \in Roots : /\ rootRow[q] = "absent" => rootRow'[q] = "absent"
                         /\ scanned'[q] => scanned[q]
                         /\ scanned[q] => scanned'[q] \/ rootRow'[q] = "absent"
    BY <1>1, <1>7 DEF DeleteRoot
  <2> QED BY <1>3, <2>1, <2>2
<1>8. CASE DeleteProject
  <2>1. UNCHANGED <<worker, world, jobs, tokens, scanned, rootRow>>
    BY <1>8 DEF DeleteProject, storeVars
  <2>2. \A q \in caller["ui"].roots : rootRow[q] = "absent"
    BY <1>1, <1>8 DEF DeleteProject, CallsMatch
  <2>3. \A q \in Roots : rows'[q] = IF q \in caller["ui"].roots THEN Nothing ELSE rows[q]
    BY <1>8 DEF DeleteProject
  <2>4. \A q \in Roots : rootRow'[q] # "absent" => rows'[q] = rows[q]
    BY <2>1, <2>2, <2>3
  <2> QED BY <1>3, <2>1, <2>4
<1>9. ASSUME NEW j \in Jobs, CancelRequest(j) PROVE AllKeep
  <2>1. /\ UNCHANGED <<jobs, catalogVars, worker, world>>
        /\ tokens' = [tokens EXCEPT ![j] = IF tokens[j] = "absent" THEN tokens[j]
                                                                ELSE "set"]
    BY <1>9 DEF CancelRequest, RequestCancelToken
  <2>2. ASSUME NEW k \in Jobs PROVE IsCancelled(k) => IsCancelled(k)'
    BY <1>1, <2>1 DEF IsCancelled
  <2>3. UNCHANGED <<rootRow, rows, scanned>>
    BY <2>1 DEF catalogVars
  <2> SUFFICES ASSUME NEW k \in Jobs
               PROVE  /\ Progress(k) => Progress(k)'
                      /\ Marks(k) => Marks(k)'
                      /\ Watches(k) => Watches(k)'
                      /\ Covers(k) => Covers(k)'
    BY DEF AllKeep
  <2> QED BY <1>1, <2>1, <2>2, <2>3, CatalogKeeps
<1>10. CASE CancelStored
  <2>1. PICK m : m = caller["ui"].job
    OBVIOUS
  <2>2. /\ UNCHANGED <<tokens, catalogVars, worker, world>>
        /\ jobs' = [jobs EXCEPT ![m].state = "cancelling"]
    BY <1>10, <2>1 DEF CancelStored, RequestCancelStatus
  <2>3. ASSUME NEW k \in Jobs
        PROVE  jobs'[k].roots = jobs[k].roots /\ (IsCancelled(k) => IsCancelled(k)')
    BY <1>1, <2>2 DEF IsCancelled
  <2>4. UNCHANGED <<rootRow, rows, scanned>>
    BY <2>2 DEF catalogVars
  <2> SUFFICES ASSUME NEW k \in Jobs
               PROVE  /\ Progress(k) => Progress(k)'
                      /\ Marks(k) => Marks(k)'
                      /\ Watches(k) => Watches(k)'
                      /\ Covers(k) => Covers(k)'
    BY DEF AllKeep
  <2> QED BY <1>1, <2>2, <2>3, <2>4, CatalogKeeps
<1> QED BY <1>4, <1>5, <1>6, <1>7, <1>8, <1>9, <1>10

\* An admission: the new thread knows nothing yet, and the jobs whose records
\* are pruned have no thread.
LEMMA AdmissionKeeps ==
    ASSUME MarkInv, Owned', NEW c \in Threads, NEW j \in Jobs, Admitted(c, j)
    PROVE  AllKeep
<1>1. AdmissionEffect(c, j)
  BY AdmittedStore DEF MarkInv, Owned
<1>2. UNCHANGED <<rootRow, rows, scanned, world>>
  BY <1>1 DEF AdmissionEffect, catalogVars
<1> DEFINE w == [NoWorker EXCEPT !.pc = "prepare", !.todo = caller[c].roots,
                                 !.background = (c = "resident")]
<1>3. Fresh(w) /\ w.pc = "prepare" /\ w.todo = caller[c].roots
  BY DEF Fresh, NoWorker
<1>4. W(j)' = w /\ jobs'[j].roots = caller[c].roots
  BY <1>1 DEF AdmissionEffect, W
<1> HIDE DEF w
<1>5. Progress(j)' /\ Marks(j)' /\ Watches(j)' /\ Covers(j)'
  <2>1. W(j)'.pc \notin Scanning /\ W(j)'.pc \notin BegunPcs
    BY <1>3, <1>4 DEF Scanning, BegunPcs, FinishPcs
  <2>2. Progress(j)'
    BY <1>3, <1>4, <2>1 DEF Progress, Fresh
  <2>3. Marks(j)'
    BY <1>3, <1>4, <2>1 DEF Marks
  <2> QED BY <2>1, <2>2, <2>3 DEF Watches, Covers
<1>6. ASSUME NEW k \in Jobs, k # j
      PROVE  /\ Progress(k) => Progress(k)'
             /\ Marks(k) => Marks(k)'
             /\ Watches(k) => Watches(k)'
             /\ Covers(k) => Covers(k)'
  <2>1. worker'[k] = worker[k] /\ tokens'[k] = tokens[k]
        /\ (jobs'[k] = jobs[k] \/ jobs'[k].state = "forgotten")
    BY <1>1, <1>6 DEF AdmissionEffect
  <2>2. /\ W(k)' = W(k) /\ R(k)' = R(k) /\ Live(k)' = Live(k)
        /\ IsCancelled(k)' = IsCancelled(k)
    BY <2>1 DEF W, R, Live, IsCancelled
  <2>3. Live(k)' => jobs'[k] = jobs[k]
    BY <2>1 DEF Owned, Ownership, Owning, OwningStates
  <2>4. Progress(k) => Progress(k)'
    BY <2>2 DEF Progress
  <2>5. Marks(k) => Marks(k)'
    BY <1>2, <2>2, <2>3 DEF Marks, Settled
  <2>6. Watches(k) => Watches(k)'
    BY <1>2, <2>2 DEF Watches
  <2>7. Covers(k) => Covers(k)'
    BY <1>2, <2>2 DEF Covers, CoversItem
  <2> QED BY <2>4, <2>5, <2>6, <2>7
<1> QED BY <1>5, <1>6 DEF AllKeep

\* A change on the disk: the threads that scan the root watch it.
LEMMA EditKeeps ==
    ASSUME Typed, NEW r \in Roots, NEW i \in Items, NEW x \in Stored, Edit(r, i, x)
    PROVE  AllKeep
<1>1. /\ worker \in [Jobs -> Workers] /\ world \in [Roots -> Inventory]
      /\ UNCHANGED <<storeVars, rootRow, rows, scanned>>
      /\ world' = [world EXCEPT ![r][i] = x]
  BY DEF Typed, TypeOK, Edit, catalogVars
<1> SUFFICES ASSUME NEW k \in Jobs
             PROVE  /\ Progress(k) => Progress(k)'
                    /\ Marks(k) => Marks(k)'
                    /\ Watches(k) => Watches(k)'
                    /\ Covers(k) => Covers(k)'
  BY DEF AllKeep
<1> DEFINE seen == [W(k) EXCEPT !.during[i] = @ \cup {x}]
<1>2. W(k) \in Workers /\ (W(k).pc \in BegunPcs => R(k) \in Roots)
  BY <1>1 DEF W, Typed, RootChosen, Scanning
<1>3. W(k)' = IF R(k) = r /\ W(k).pc \in BegunPcs THEN seen ELSE W(k)
  BY DEF Edit, W
<1>4. /\ seen.pc = W(k).pc /\ seen.todo = W(k).todo /\ seen.root = W(k).root
      /\ seen.snap = W(k).snap /\ seen.left = W(k).left
      /\ seen.batch = W(k).batch /\ seen.remaining = W(k).remaining
      /\ seen.partial = W(k).partial /\ seen.cancelled = W(k).cancelled
      /\ seen.full = W(k).full
  BY <1>2 DEF Workers
<1>5. /\ x \in seen.during[i]
      /\ \A m \in Items : W(k).during[m] \subseteq seen.during[m]
  BY <1>2 DEF Workers
<1> HIDE DEF seen
<1>6. /\ W(k)'.pc = W(k).pc /\ W(k)'.todo = W(k).todo /\ W(k)'.root = W(k).root
      /\ W(k)'.snap = W(k).snap /\ W(k)'.left = W(k).left
      /\ W(k)'.batch = W(k).batch /\ W(k)'.remaining = W(k).remaining
      /\ W(k)'.partial = W(k).partial /\ W(k)'.cancelled = W(k).cancelled
      /\ W(k)'.full = W(k).full
      /\ \A m \in Items : W(k).during[m] \subseteq W(k)'.during[m]
      /\ R(k) = r /\ W(k).pc \in BegunPcs => x \in W(k)'.during[i]
  BY <1>3, <1>4, <1>5
<1>7. R(k)' = R(k) /\ Live(k)' = Live(k) /\ IsCancelled(k)' = IsCancelled(k)
  BY <1>1, <1>6 DEF R, W, Live, IsCancelled, storeVars
<1>8. Progress(k) => Progress(k)'
  BY <1>6, <1>7 DEF Progress, Fresh
<1>9. Marks(k) => Marks(k)'
  BY <1>1, <1>6, <1>7 DEF Marks, Settled, storeVars
<1>10. Watches(k) => Watches(k)'
  <2> SUFFICES ASSUME Watches(k), W(k).pc \in BegunPcs, NEW m \in Items
               PROVE  world'[R(k)][m] \in W(k)'.during[m]
    BY <1>6, <1>7 DEF Watches
  <2>1. world[R(k)][m] \in W(k)'.during[m]
    BY <1>6 DEF Watches
  <2>2. world'[R(k)][m] = IF R(k) = r /\ m = i THEN x ELSE world[R(k)][m]
    BY <1>1, <1>2 DEF Inventory
  <2> QED BY <1>6, <2>1, <2>2
<1>11. Covers(k) => Covers(k)'
  <2> SUFFICES ASSUME W(k).pc \in BegunPcs, NEW m \in Items, CoversItem(k, m)
               PROVE  CoversItem(k, m)'
    BY <1>1, <1>6, <1>7 DEF Covers
  <2>1. W(k).during[m] \subseteq W(k)'.during[m] /\ rows' = rows
    BY <1>1, <1>6
  <2> QED BY <1>6, <1>7, <2>1 DEF CoversItem, CoversFor
<1> QED BY <1>8, <1>9, <1>10, <1>11

\* No step breaks what the calls of the user interface know of their roots.
LEMMA NextCalls ==
    ASSUME Typed, CallsMatch, [Next]_vars
    PROVE  CallsMatch'
<1>1. /\ caller \in [Threads -> Callers] /\ "ui" \in Threads
      /\ rootRow \in [Roots -> {"absent", "disabled", "enabled"}]
  BY DEF Typed, TypeOK, Threads
<1>2. ASSUME UNCHANGED rootRow, caller'["ui"] = caller["ui"] PROVE CallsMatch'
  BY <1>2 DEF CallsMatch, CallIs
<1>3. ASSUME caller'["ui"].pc \notin {"disable", "forget"} PROVE CallsMatch'
  BY <1>3 DEF CallsMatch, CallIs
<1>4. ASSUME NEW c \in Threads, Return(c), UNCHANGED rootRow PROVE CallsMatch'
  <2>1. caller'["ui"] = caller["ui"] \/ caller'["ui"].pc = "idle"
    BY <1>1, <1>4 DEF Return, NoCall
  <2> QED BY <1>2, <1>3, <1>4, <2>1
<1>5. ASSUME NEW j \in Jobs, WorkerStep(j) PROVE CallsMatch'
  BY <1>2, <1>5, ThreadElsewhere DEF ThreadFrame
<1>6. ASSUME NEW c \in Threads, NEW pc, NEW rs, NEW j, Call(c, pc, rs, j)
      PROVE  caller'[c].pc = pc /\ caller'[c].roots = rs
  BY <1>1, <1>6 DEF Call
<1>7. ASSUME NEW rs \in SUBSET Roots, ScanRequest(rs) PROVE CallsMatch'
  BY <1>1, <1>3, <1>6, <1>7 DEF ScanRequest
<1>8. ASSUME NEW j \in Jobs, CancelRequest(j) PROVE CallsMatch'
  BY <1>1, <1>3, <1>6, <1>8 DEF CancelRequest
<1>9. ASSUME NEW r \in Roots, EnableRoot(r) PROVE CallsMatch'
  BY <1>3, <1>9 DEF EnableRoot, CallIs
<1>10. ASSUME NEW r \in Roots, DisableRequest(r) PROVE CallsMatch'
  <2>1. caller'["ui"].pc = "disable" /\ caller'["ui"].roots = {r}
    BY <1>1, <1>6, <1>10 DEF DisableRequest
  <2>2. rootRow'[r] = "enabled"
    BY <1>10 DEF DisableRequest, catalogVars
  <2> QED BY <2>1, <2>2 DEF CallsMatch, CallIs
<1>11. ASSUME NEW r \in Roots, UnregisterRequest(r) PROVE CallsMatch'
  BY <1>1, <1>3, <1>6, <1>11 DEF UnregisterRequest
<1>12. ASSUME NEW r \in Roots, RefreshRequest(r) PROVE CallsMatch'
  <2>1. UNCHANGED rootRow /\ Call("resident", "admit", {r}, 0)
    BY <1>12 DEF RefreshRequest, catalogVars
  <2>2. caller'["ui"] = caller["ui"]
    BY <1>1, <2>1 DEF Call
  <2> QED BY <1>2, <2>1, <2>2
<1>13. ASSUME NEW c \in Threads, NEW j \in Jobs, Admitted(c, j) PROVE CallsMatch'
  BY <1>4, <1>13 DEF Admitted, catalogVars
<1>14. ASSUME NEW c \in Threads, AlreadyOwned(c) PROVE CallsMatch'
  BY <1>4, <1>14 DEF AlreadyOwned, catalogVars
<1>15. CASE CancelStored
  BY <1>1, <1>4, <1>15 DEF CancelStored, catalogVars
<1>16. CASE DisableRoot
  BY <1>1, <1>3, <1>16 DEF DisableRoot, Return, NoCall
<1>17. CASE DeleteRoot
  <2>1. /\ caller'["ui"].pc = "forget" /\ caller'["ui"].roots = caller["ui"].roots
        /\ caller["ui"].roots \subseteq Roots
    BY <1>1, <1>6, <1>17 DEF DeleteRoot, Callers
  <2>2. \A r \in caller["ui"].roots : rootRow'[r] = "absent"
    BY <1>17, <2>1 DEF DeleteRoot
  <2> QED BY <2>1, <2>2 DEF CallsMatch, CallIs
<1>18. CASE DeleteProject
  BY <1>1, <1>4, <1>18 DEF DeleteProject
<1>19. ASSUME NEW r \in Roots, NEW i \in Items, NEW x \in Stored, Edit(r, i, x)
       PROVE  CallsMatch'
  BY <1>2, <1>19 DEF Edit, catalogVars
<1>20. CASE Restart
  BY <1>1, <1>3, <1>20 DEF Restart, NoCall
<1>21. CASE UNCHANGED vars
  BY <1>2, <1>21 DEF vars, catalogVars
<1>22. ASSUME NEW j \in Jobs, Reports(j) PROVE CallsMatch'
  BY <1>2, <1>22 DEF Reports, catalogVars
<1> QED BY <1>5, <1>7, <1>8, <1>9, <1>10, <1>11, <1>12, <1>13, <1>14, <1>15,
           <1>16, <1>17, <1>18, <1>19, <1>20, <1>21, <1>22
        DEF Next, UserCall, CallStep

\* Every step but those of the threads keeps what the threads know.
LEMMA OutsideKeeps ==
    ASSUME MarkInv, Owned', [Next]_vars
    PROVE  AllKeep \/ \E j \in Jobs : WorkerStep(j)
<1>1. Typed
  BY DEF MarkInv, Owned
<1>2. ASSUME NEW c \in Threads, NEW j \in Jobs, Admitted(c, j) PROVE AllKeep
  BY <1>2, AdmissionKeeps
<1>3. ASSUME NEW r \in Roots, NEW i \in Items, NEW x \in Stored, Edit(r, i, x)
      PROVE  AllKeep
  BY <1>1, <1>3, EditKeeps
<1>4. CASE Restart
  <2>1. \A k \in Jobs : W(k)' = NoWorker
    BY <1>4 DEF Restart, W
  <2> QED BY <1>1, <2>1, EndedKeeps DEF AllKeep
<1>5. CASE UNCHANGED vars
  <2>1. UNCHANGED <<jobs, tokens, rootRow, rows, scanned, worker, world>>
    BY <1>5 DEF vars, storeVars, catalogVars
  <2>2. \A k \in Jobs : IsCancelled(k) => IsCancelled(k)'
    BY <2>1 DEF IsCancelled
  <2> SUFFICES ASSUME NEW k \in Jobs
               PROVE  /\ Progress(k) => Progress(k)'
                      /\ Marks(k) => Marks(k)'
                      /\ Watches(k) => Watches(k)'
                      /\ Covers(k) => Covers(k)'
    BY DEF AllKeep
  <2> QED BY <1>1, <2>1, <2>2, CatalogKeeps
<1> QED BY <1>2, <1>3, <1>4, <1>5, CommandsKeep, OwnersRecorded DEF MarkInv, Next, UserCall, CallStep

\* No step breaks what the marks of the roots say.
LEMMA NextMarks ==
    ASSUME [SparesLive]_vars, MarkInv, [Next]_vars
    PROVE  MarkInv'
<1>1. Owned' /\ CallsMatch'
  BY NextOwned, NextCalls DEF MarkInv, Owned
<1>2. CASE AllKeep
  BY <1>1, <1>2 DEF MarkInv, AllKeep
<1>3. ASSUME NEW j \in Jobs, WorkerStep(j) PROVE MarkInv'
  <2>1. ThreadFrame(j) /\ Live(j)
    BY <1>3, ThreadElsewhere, WorkerMoves DEF MarkInv, Owned, Moves
  <2>2. \A k \in Jobs : Progress(k)' /\ Marks(k)'
    BY <1>3, <2>1, OwnKeepsMarks, OthersKeep
  <2> QED BY <1>1, <2>2 DEF MarkInv
<1> QED BY <1>1, <1>2, <1>3, OutsideKeeps

\* No thread runs at first.
LEMMA InitMarks == Init => MarkInv
<1> SUFFICES ASSUME Init PROVE MarkInv
  OBVIOUS
<1>1. Owned
  BY InitOwned
<1>2. CallsMatch
  BY DEF Init, CallsMatch, CallIs, NoCall, Threads
<1>3. ASSUME NEW j \in Jobs PROVE Progress(j) /\ Marks(j)
  <2>1. W(j).pc = "none" /\ ~W(j).full
    BY DEF Init, W, NoWorker
  <2> QED BY <2>1 DEF Progress, Marks, Live, Scanning, BegunPcs, FinishPcs
<1> QED BY <1>1, <1>2, <1>3 DEF MarkInv

\* A job that ends cancelled leaves its root marked as needing a scan.
LEMMA StepCancels ==
    ASSUME MarkInv, [Next]_vars, NEW j \in Jobs, Live(j),
           jobs'[j].state = "cancelled", W(j).pc \in BegunPcs
    PROVE  ~scanned'[R(j)]
<1>1. /\ Typed /\ Progress(j) /\ Marks(j) /\ Owned
      /\ R(j) \in Roots /\ scanned \in [Roots -> BOOLEAN]
      /\ jobs \in [Jobs -> [state : JobStates, roots : SUBSET Roots]]
  BY DEF MarkInv, Owned, Typed, TypeOK, RootChosen, Scanning, JobStoreTypeOK
<1>2. jobs[j].state # "cancelled"
  BY <1>1 DEF Owned, Ownership, Owning, OwningStates
<1>3. WorkerStep(j)
  <2>1. ~UNCHANGED jobs
    BY <1>2
  <2>2. \/ \E k \in Jobs : WorkerStep(k)
        \/ \E c \in Threads, k \in Jobs : Admitted(c, k)
        \/ CancelStored \/ Restart
    BY <2>1, OwnersRecorded DEF MarkInv, Next, UserCall, CallStep, vars, storeVars, ScanRequest, CancelRequest,
            RequestCancelToken, EnableRoot, DisableRequest, UnregisterRequest,
            RefreshRequest, AlreadyOwned, DisableRoot, DeleteRoot, DeleteProject, Edit
  <2>3. ASSUME NEW k \in Jobs, WorkerStep(k), k # j PROVE FALSE
    BY <1>1, <1>2, <2>3, ThreadElsewhere DEF ThreadFrame
  <2>4. ASSUME NEW c \in Threads, NEW k \in Jobs, Admitted(c, k) PROVE FALSE
    <3>1. AdmissionEffect(c, k)
      BY <1>1, <2>4, AdmittedStore
    <3> QED BY <1>2, <3>1 DEF AdmissionEffect
  <2>5. ~CancelStored
    <3>1. ASSUME NEW m, jobs' = [jobs EXCEPT ![m].state = "cancelling"] PROVE FALSE
      BY <1>1, <1>2, <3>1
    <3> QED BY <3>1 DEF CancelStored, RequestCancelStatus
  <2>6. ~Restart
    BY DEF Restart
  <2> QED BY <2>2, <2>3, <2>4, <2>5, <2>6
<1>4. ~W(j).full => ~scanned[R(j)]
  BY <1>1 DEF Marks
<1>5. CancelRoot(j) => ~scanned'[R(j)]
  <2>1. CancelRoot(j) => scanned' = [scanned EXCEPT ![R(j)] = scanned[R(j)] /\ ~W(j).full]
    BY DEF CancelRoot
  <2> QED BY <1>1, <1>4, <2>1
<1>6. EndCancelled(j) => scanned' = scanned
  BY DEF EndCancelled, catalogVars
<1>7. ASSUME NEW state, End(j, state) PROVE state = "cancelled"
  BY <1>1, <1>7 DEF End, Close
<1>8. W(j).pc \in {"begun", "walk", "walked"} => ~W(j).full
  BY <1>1 DEF Progress, Fresh
<1>9. UNCHANGED storeVars => FALSE
  BY <1>2 DEF storeVars
<1>10. W(j).pc \notin {"prepare", "target"}
  BY DEF BegunPcs, FinishPcs
<1> QED BY <1>3, <1>4, <1>5, <1>6, <1>7, <1>8, <1>9, <1>10
        DEF WorkerStep, Prepare, NextTarget, AllDone, BeginRootScan, StartWalk,
            WalkItem, SkipUnreadable, SkipOverLimit, PersistBatch, RefuseBatch,
            WalkCancelled, WalkEnds, StartFinish, Reconcile, DeriveSizes,
            RecordTimeline, MarkRoot, FinishStopped, RootFinished, DatabaseFails

\* A job ends completed only with its roots settled.
LEMMA StepCompletes ==
    ASSUME MarkInv, [Next]_vars, NEW j \in Jobs,
           jobs[j].state # "completed", jobs'[j].state = "completed"
    PROVE  \A r \in jobs[j].roots : Settled(r)
<1>1. /\ Typed /\ Progress(j) /\ Marks(j)
      /\ jobs \in [Jobs -> [state : JobStates, roots : SUBSET Roots]]
  BY DEF MarkInv, Owned, Typed, TypeOK, JobStoreTypeOK
<1>2. WorkerStep(j)
  <2>1. ~UNCHANGED jobs
    OBVIOUS
  <2>2. \/ \E k \in Jobs : WorkerStep(k)
        \/ \E c \in Threads, k \in Jobs : Admitted(c, k)
        \/ CancelStored \/ Restart
    BY <2>1, OwnersRecorded DEF MarkInv, Next, UserCall, CallStep, vars, storeVars, ScanRequest, CancelRequest,
            RequestCancelToken, EnableRoot, DisableRequest, UnregisterRequest,
            RefreshRequest, AlreadyOwned, DisableRoot, DeleteRoot, DeleteProject, Edit
  <2>3. ASSUME NEW k \in Jobs, WorkerStep(k), k # j PROVE FALSE
    BY <1>1, <2>3, ThreadElsewhere DEF ThreadFrame
  <2>4. ASSUME NEW c \in Threads, NEW k \in Jobs, Admitted(c, k) PROVE FALSE
    <3>1. AdmissionEffect(c, k)
      BY <1>1, <2>4, AdmittedStore
    <3> QED BY <3>1 DEF AdmissionEffect
  <2>5. ~CancelStored
    <3>1. ASSUME NEW m, jobs' = [jobs EXCEPT ![m].state = "cancelling"] PROVE FALSE
      BY <1>1, <3>1
    <3> QED BY <3>1 DEF CancelStored, RequestCancelStatus
  <2>6. ~Restart
    BY DEF Restart
  <2> QED BY <2>2, <2>3, <2>4, <2>5, <2>6
<1>3. ASSUME NEW state, End(j, state) PROVE state = "completed"
  BY <1>1, <1>3 DEF End, Close
<1>4. ~EndCancelled(j) /\ ~CancelRoot(j)
  BY <1>3 DEF EndCancelled, CancelRoot
<1>5. ~UNCHANGED storeVars
  BY DEF storeVars
<1>6. AllDone(j)
  BY <1>2, <1>3, <1>4, <1>5
     DEF WorkerStep, Prepare, NextTarget, BeginRootScan, StartWalk,
         WalkItem, SkipUnreadable, SkipOverLimit, PersistBatch, RefuseBatch,
         WalkCancelled, WalkEnds, StartFinish, Reconcile, DeriveSizes,
         RecordTimeline, MarkRoot, FinishStopped, RootFinished, DatabaseFails
<1>7. W(j).todo = {} /\ Live(j)
  BY <1>6 DEF AllDone, Live
<1> QED BY <1>1, <1>7 DEF Marks

\* What the marks of the roots say of the runs of the threads, and what each
\* thread knows of its own run, hold in every state (the steps of the worker).
THEOREM MarkInvariance == Spec /\ LiveRecordsKept => []MarkInv
<1>1. MarkInv /\ [SparesLive]_vars /\ [Next]_vars => MarkInv'
  BY NextMarks
<1> QED BY <1>1, InitMarks, PTL DEF Spec, LiveRecordsKept

\* Wherever a stop catches the scan, and whatever else runs, the root of a job
\* that ends cancelled is not shown as scanned (CancelRoot, MarkRoot).
THEOREM StoppedNeedsScan == Spec /\ LiveRecordsKept => CancelledNeedsScan
<1>1. ASSUME MarkInv, [Next]_vars
      PROVE  [\A j \in Jobs :
                Live(j) /\ jobs'[j].state = "cancelled" /\ W(j).pc \in BegunPcs =>
                    ~scanned'[R(j)]]_vars
  BY <1>1, StepCancels
<1>2. Spec /\ LiveRecordsKept => []MarkInv
  BY MarkInvariance
<1> QED BY <1>1, <1>2, PTL DEF Spec, CancelledNeedsScan

\* A job is shown as completed only with each of its roots marked, or
\* unregistered meanwhile (AllDone, RootFinished, MarkRoot).
THEOREM CompletedRootsScanned == Spec /\ LiveRecordsKept => CompletedIsScanned
<1>1. ASSUME MarkInv, [Next]_vars
      PROVE  [\A j \in Jobs :
                jobs[j].state # "completed" /\ jobs'[j].state = "completed" =>
                    \A r \in jobs[j].roots : scanned[r] \/ rootRow[r] = "absent"]_vars
  BY <1>1, StepCompletes DEF Settled
<1>2. Spec /\ LiveRecordsKept => []MarkInv
  BY MarkInvariance
<1> QED BY <1>1, <1>2, PTL DEF Spec, CompletedIsScanned

----------------------------------------------------------------------------
(***************************************************************************)
(* The rows cover the disk.                                                *)
(***************************************************************************)
\* A step within the scan of a root, for the record it stores.
LEMMA ScanKeepsCover ==
    ASSUME Typed, NEW j \in Jobs, Watches(j), Covers(j), NEW w, W(j)' = w,
           W(j).pc \in BegunPcs, w.root = W(j).root, w.during = W(j).during,
           UNCHANGED <<rootRow, world>>,
           \A i \in Items : CoversFor(W(j), rows[R(j)][i], i) =>
                              CoversFor(w, rows'[R(j)][i], i)
    PROVE  Watches(j)' /\ Covers(j)'
<1>1. R(j)' = R(j)
  BY DEF R, W
<1>2. Watches(j)'
  BY <1>1 DEF Watches
<1>3. Covers(j)'
  BY <1>1 DEF Covers, CoversItem
<1> QED BY <1>2, <1>3

\* A thread that is not scanning a root.
LEMMA AwayKeepsCover ==
    ASSUME NEW j \in Jobs, W(j)'.pc \notin BegunPcs
    PROVE  Watches(j)' /\ Covers(j)'
BY DEF Watches, Covers

\* The scan of a root begins with the rows and the items it finds.
LEMMA BeginCovers ==
    ASSUME MarkInv, NEW j \in Jobs, BeginRootScan(j)
    PROVE  Watches(j)' /\ Covers(j)'
<1>1. /\ Typed /\ W(j) \in Workers /\ Progress(j) /\ W(j).pc = "begin"
      /\ R(j) \in Roots
      /\ world \in [Roots -> Inventory] /\ rows \in [Roots -> Inventory]
  BY DEF MarkInv, Owned, Typed, TypeOK, W, RootChosen, Scanning, BeginRootScan
<1> DEFINE during == [i \in Items |-> {world[R(j)][i]}]
           w == [W(j) EXCEPT !.pc = "begun", !.snap = rows[R(j)],
                             !.remaining = Present(rows[R(j)]),
                             !.left = Items, !.during = during]
<1>2. W(j)' = w /\ UNCHANGED <<rows, world, rootRow>>
  BY <1>1, BecomeIs DEF BeginRootScan
<1>3. \A i \in Items : during[i] = {world[R(j)][i]}
  OBVIOUS
<1> HIDE DEF during
<1>4. /\ w.pc = "begun" /\ w.root = W(j).root /\ w.snap = rows[R(j)]
      /\ w.remaining = Present(rows[R(j)]) /\ w.left = Items
      /\ w.during = during /\ w.batch = W(j).batch
  BY <1>1 DEF Workers
<1> HIDE DEF w
<1>5. R(j)' = R(j) /\ w.batch = Nothing
  BY <1>1, <1>2, <1>4 DEF R, W, Progress, Fresh
<1>6. ASSUME NEW i \in Items
      PROVE  world[R(j)][i] \in w.during[i] /\ CoversFor(w, rows[R(j)][i], i)
  <2>1. i \notin w.remaining => rows[R(j)][i] = Gone
    BY <1>4 DEF Present
  <2>2. w.batch[i] = Gone
    BY <1>5 DEF Nothing
  <2> QED BY <1>3, <1>4, <2>1, <2>2 DEF CoversFor
<1> QED BY <1>2, <1>5, <1>6 DEF Watches, Covers, CoversItem

\* The steps of the walk.
LEMMA WalkCovers ==
    ASSUME MarkInv, NEW j \in Jobs, Watches(j), Covers(j),
           \/ \E i \in Items : WalkItem(j, i) \/ SkipOverLimit(j, i)
           \/ WalkCancelled(j) \/ WalkEnds(j)
           \/ StartWalk(j) /\ Goto(j, "walk") /\ UNCHANGED catalogVars
    PROVE  Watches(j)' /\ Covers(j)'
<1>1. /\ Typed /\ W(j) \in Workers /\ worker \in [Jobs -> Workers]
      /\ world \in [Roots -> Inventory]
  BY DEF MarkInv, Owned, Typed, TypeOK, W
<1>2. W(j).pc \in {"begun", "walk"} => W(j).pc \in BegunPcs /\ R(j) \in Roots
  BY <1>1 DEF BegunPcs, Scanning, Typed, RootChosen
<1>3. ASSUME NEW m \in Items, WalkItem(j, m) PROVE Watches(j)' /\ Covers(j)'
  <2> DEFINE seen == [W(j).batch EXCEPT ![m] = world[R(j)][m]]
             w == [W(j) EXCEPT !.left = W(j).left \ {m}, !.batch = seen]
  <2>1. W(j)' = w /\ W(j).pc = "walk" /\ UNCHANGED <<rows, rootRow, world>>
    BY <1>1, <1>3, BecomeIs DEF WalkItem, catalogVars
  <2>2. \A i \in Items : seen[i] = IF i = m THEN world[R(j)][m] ELSE W(j).batch[i]
    BY <1>1 DEF Workers, Inventory
  <2> HIDE DEF seen
  <2>3. /\ w.pc = W(j).pc /\ w.root = W(j).root /\ w.during = W(j).during
        /\ w.left = W(j).left \ {m} /\ w.batch = seen /\ w.snap = W(j).snap
        /\ w.remaining = W(j).remaining /\ w.partial = W(j).partial
        /\ w.cancelled = W(j).cancelled /\ w.full = W(j).full
    BY <1>1 DEF Workers
  <2> HIDE DEF w
  <2>4. world[R(j)][m] \in W(j).during[m]
    BY <1>2, <2>1 DEF Watches
  <2>5. \A i \in Items : CoversFor(W(j), rows[R(j)][i], i) =>
                           CoversFor(w, rows'[R(j)][i], i)
    BY <2>1, <2>2, <2>3, <2>4 DEF CoversFor
  <2> QED BY <1>1, <1>2, <2>1, <2>3, <2>5, ScanKeepsCover
<1>4. ASSUME NEW m \in Items, SkipOverLimit(j, m) PROVE Watches(j)' /\ Covers(j)'
  <2> DEFINE w == [W(j) EXCEPT !.left = W(j).left \ {m}, !.partial = TRUE]
  <2>1. W(j)' = w /\ W(j).pc = "walk" /\ UNCHANGED <<rows, rootRow, world>>
    BY <1>1, <1>4, BecomeIs DEF SkipOverLimit, catalogVars
  <2>2. /\ w.pc = W(j).pc /\ w.root = W(j).root /\ w.during = W(j).during
        /\ w.batch = W(j).batch /\ w.snap = W(j).snap
        /\ w.remaining = W(j).remaining /\ w.partial
    BY <1>1 DEF Workers
  <2> HIDE DEF w
  <2>3. \A i \in Items : CoversFor(W(j), rows[R(j)][i], i) =>
                           CoversFor(w, rows'[R(j)][i], i)
    BY <2>1, <2>2 DEF CoversFor
  <2> QED BY <1>1, <1>2, <2>1, <2>2, <2>3, ScanKeepsCover
<1>5. CASE WalkCancelled(j)
  <2> DEFINE w == [W(j) EXCEPT !.pc = "walked", !.left = {}, !.cancelled = TRUE]
  <2>1. W(j)' = w /\ W(j).pc = "walk" /\ UNCHANGED <<rows, rootRow, world>>
    BY <1>1, <1>5, BecomeIs DEF WalkCancelled, catalogVars
  <2>2. /\ w.pc = "walked" /\ w.root = W(j).root /\ w.during = W(j).during
        /\ w.batch = W(j).batch /\ w.snap = W(j).snap
        /\ w.remaining = W(j).remaining /\ w.cancelled
    BY <1>1 DEF Workers
  <2> HIDE DEF w
  <2>3. \A i \in Items : CoversFor(W(j), rows[R(j)][i], i) =>
                           CoversFor(w, rows'[R(j)][i], i)
    BY <2>1, <2>2 DEF CoversFor
  <2> QED BY <1>1, <1>2, <2>1, <2>2, <2>3, ScanKeepsCover
<1>6. CASE WalkEnds(j)
  <2>1. /\ W(j)'.pc = "walked" /\ SameData(W(j), W(j)') /\ W(j).pc = "walk"
        /\ W(j).left = {} /\ Present(W(j).batch) = {}
        /\ UNCHANGED <<rows, rootRow, world>>
    BY <1>1, <1>6, GotoKeeps DEF WalkEnds, catalogVars
  <2>2. \A i \in Items : i \notin W(j).left /\ W(j).batch[i] = Gone
    BY <2>1 DEF Present
  <2>3. \A i \in Items : CoversFor(W(j), rows[R(j)][i], i) =>
                           CoversFor(W(j)', rows'[R(j)][i], i)
    BY <2>1, <2>2 DEF CoversFor, SameData
  <2> QED BY <1>1, <1>2, <2>1, <2>3, ScanKeepsCover DEF SameData
<1>7. CASE StartWalk(j) /\ Goto(j, "walk") /\ UNCHANGED catalogVars
  <2>1. /\ W(j)'.pc = "walk" /\ SameData(W(j), W(j)') /\ W(j).pc = "begun"
        /\ UNCHANGED <<rows, rootRow, world>>
    BY <1>1, <1>7, GotoKeeps DEF StartWalk, catalogVars
  <2>2. \A i \in Items : CoversFor(W(j), rows[R(j)][i], i) =>
                           CoversFor(W(j)', rows'[R(j)][i], i)
    BY <2>1 DEF CoversFor, SameData
  <2> QED BY <1>1, <1>2, <2>1, <2>2, ScanKeepsCover DEF SameData
<1> QED BY <1>3, <1>4, <1>5, <1>6, <1>7

\* A batch gives each item it holds what the walk saw of it.
LEMMA BatchCovers ==
    ASSUME MarkInv, NEW j \in Jobs, Watches(j), Covers(j), PersistBatch(j)
    PROVE  Watches(j)' /\ Covers(j)'
<1>1. /\ Typed /\ W(j) \in Workers /\ W(j).pc = "walk" /\ R(j) \in Roots
      /\ W(j).pc \in BegunPcs
      /\ rows \in [Roots -> Inventory]
  BY DEF MarkInv, Owned, Typed, TypeOK, W, RootChosen, Scanning, BegunPcs,
         PersistBatch
<1>0. PICK reread \in SUBSET Items :
        /\ rows' = [rows EXCEPT ![R(j)] =
             [i \in Items |-> IF i \in ToWrite(j, reread) THEN W(j).batch[i]
                              ELSE @[i]]]
        /\ Become(j, [W(j) EXCEPT !.batch = Nothing,
                                  !.remaining = @ \ Present(W(j).batch),
                                  !.changed = @ \cup ToWrite(j, reread)])
  BY DEF PersistBatch
<1> DEFINE found == Present(W(j).batch)
           fresh == ToWrite(j, reread)
           w == [W(j) EXCEPT !.batch = Nothing, !.remaining = @ \ found,
                             !.changed = @ \cup fresh]
<1>2. /\ W(j)' = w /\ UNCHANGED <<rootRow, world>>
      /\ \A i \in Items : rows'[R(j)][i] = IF i \in fresh THEN W(j).batch[i]
                                           ELSE rows[R(j)][i]
  BY <1>1, <1>0, BecomeIs DEF PersistBatch, Inventory
<1>3. \A i \in Items : i \in found <=> W(j).batch[i] # Gone
  BY DEF Present
<1>4. \A i \in Items :
        /\ i \in fresh => i \in found
        /\ i \in found /\ W(j).snap[i] # W(j).batch[i] => i \in fresh
  BY DEF ToWrite
<1> HIDE DEF found, fresh
<1>5. /\ w.pc = W(j).pc /\ w.root = W(j).root /\ w.during = W(j).during
      /\ w.left = W(j).left /\ w.batch = Nothing /\ w.snap = W(j).snap
      /\ w.remaining = W(j).remaining \ found /\ w.partial = W(j).partial
      /\ w.cancelled = W(j).cancelled /\ w.full = W(j).full
  BY <1>1 DEF Workers
<1> HIDE DEF w
<1>6. ASSUME NEW i \in Items, CoversFor(W(j), rows[R(j)][i], i)
      PROVE  CoversFor(w, rows'[R(j)][i], i)
  <2>1. w.batch[i] = Gone
    BY <1>5 DEF Nothing
  <2>2. CASE i \in found
    <3>1. W(j).batch[i] \in W(j).during[i]
      BY <1>1, <1>3, <1>6, <2>2 DEF CoversFor
    <3>2. rows'[R(j)][i] \in W(j).during[i]
      BY <1>1, <1>2, <1>4, <1>6, <2>2, <3>1 DEF CoversFor
    <3> QED BY <1>1, <1>5, <2>1, <2>2, <3>2 DEF CoversFor
  <2>3. CASE i \notin found
    <3>0. i \notin fresh
      BY <1>4, <2>3
    <3>1. rows'[R(j)][i] = rows[R(j)][i] /\ W(j).batch[i] = Gone
      BY <1>2, <1>3, <2>3, <3>0
    <3>2. i \in w.remaining <=> i \in W(j).remaining
      BY <1>5, <2>3
    <3> QED BY <1>1, <1>5, <1>6, <2>1, <3>1, <3>2 DEF CoversFor
  <2> QED BY <2>2, <2>3
<1> QED BY <1>1, <1>2, <1>5, <1>6, ScanKeepsCover

\* The steps of finish_root_scan, and its start.
LEMMA FinishCovers ==
    ASSUME MarkInv, NEW j \in Jobs, Watches(j), Covers(j),
           \/ StartFinish(j) /\ rootRow[R(j)] = "enabled"
           \/ Reconcile(j) \/ DeriveSizes(j) \/ RecordTimeline(j) \/ MarkRoot(j)
    PROVE  Watches(j)' /\ Covers(j)'
<1>1. /\ Typed /\ W(j) \in Workers /\ Progress(j) /\ Progress(j)'
      /\ rows \in [Roots -> Inventory]
  BY FinishKeepsMarks DEF MarkInv, Owned, Typed, TypeOK, W
<1>2. W(j).pc \in FinishPcs \cup {"walked"} => W(j).pc \in BegunPcs /\ R(j) \in Roots
  BY <1>1 DEF BegunPcs, Scanning, Typed, RootChosen
<1>3. CASE StartFinish(j) /\ rootRow[R(j)] = "enabled"
  <2> DEFINE w == [W(j) EXCEPT !.full = Full(j),
                               !.pc = IF Full(j) THEN "reconcile" ELSE "mark"]
  <2>1. /\ W(j)' = w /\ W(j).pc = "walked" /\ UNCHANGED <<rows, rootRow, world>>
    BY <1>1, <1>3, BecomeIs DEF StartFinish, catalogVars
  <2>2. /\ w.full = Full(j) /\ w.pc = IF Full(j) THEN "reconcile" ELSE "mark"
        /\ w.root = W(j).root /\ w.during = W(j).during
        /\ w.snap = W(j).snap /\ w.remaining = W(j).remaining
    BY <1>1 DEF Workers
  <2> HIDE DEF w
  <2>3. \A i \in Items : CoversFor(W(j), rows[R(j)][i], i) =>
                           CoversFor(w, rows'[R(j)][i], i)
    BY <2>1, <2>2 DEF CoversFor, Full
  <2> QED BY <1>1, <1>2, <2>1, <2>2, <2>3, ScanKeepsCover
<1>4. ASSUME NEW pc \in {"sizes", "timeline", "mark", "finished"}, Then(j, pc)
      PROVE  SameData(W(j), W(j)') /\ W(j)'.pc \in {pc, "stopped"}
  BY <1>1, <1>4, GotoKeeps DEF Then
<1>5. CASE Reconcile(j)
  <2> DEFINE pc == IF Delta(j) # {} /\ ~W(j).background THEN "sizes" ELSE "timeline"
  <2>1. /\ Then(j, pc) /\ pc \in {"sizes", "timeline"}
        /\ W(j).pc = "reconcile" /\ UNCHANGED <<rootRow, world>>
    BY <1>5 DEF Reconcile
  <2> HIDE DEF pc
  <2>2. SameData(W(j), W(j)') /\ W(j)'.pc \in {pc, "stopped"}
    BY <1>4, <2>1
  <2>3. W(j)'.pc # "stopped" => ~IsCancelled(j)
    BY <1>1, <2>1, GotoKeeps DEF Then
  <2>4. ~IsCancelled(j) =>
          \A i \in Items : rows'[R(j)][i] = IF i \in W(j).remaining THEN Gone
                                            ELSE rows[R(j)][i]
    BY <1>1, <1>2, <1>5, <2>1 DEF Reconcile, FinishPcs
  <2>5. ASSUME NEW i \in Items, CoversFor(W(j), rows[R(j)][i], i)
        PROVE  CoversFor(W(j)', rows'[R(j)][i], i)
    <3>1. CASE W(j)'.pc = "stopped"
      BY <3>1 DEF CoversFor
    <3>2. CASE W(j)'.pc # "stopped"
      <4>1. rows'[R(j)][i] \in W(j).during[i]
        BY <2>1, <2>3, <2>4, <2>5, <3>2 DEF CoversFor
      <4> QED BY <2>1, <2>2, <3>2, <4>1 DEF CoversFor, SameData
    <3> QED BY <3>1, <3>2
  <2> QED BY <1>1, <1>2, <2>1, <2>2, <2>5, ScanKeepsCover DEF SameData, FinishPcs
<1>6. ASSUME NEW pc \in {"timeline", "mark", "finished"}, Then(j, pc),
             W(j).pc \in {"sizes", "timeline", "mark"},
             UNCHANGED <<rows, rootRow, world>>
      PROVE  Watches(j)' /\ Covers(j)'
  <2>1. SameData(W(j), W(j)') /\ W(j)'.pc \in {pc, "stopped"}
    BY <1>4, <1>6
  <2>2. \A i \in Items : CoversFor(W(j), rows[R(j)][i], i) =>
                           CoversFor(W(j)', rows'[R(j)][i], i)
    BY <1>6, <2>1 DEF CoversFor, SameData
  <2> QED BY <1>1, <1>2, <1>6, <2>1, <2>2, ScanKeepsCover DEF SameData, FinishPcs
<1>7. CASE DeriveSizes(j)
  BY <1>6, <1>7 DEF DeriveSizes
<1>8. CASE RecordTimeline(j)
  BY <1>6, <1>8 DEF RecordTimeline
<1>9. CASE MarkRoot(j)
  BY <1>6, <1>9 DEF MarkRoot
<1> QED BY <1>3, <1>5, <1>7, <1>8, <1>9

\* Where the walk can read every item, what a thread knows of the rows holds
\* after each of its own steps.
LEMMA OwnCovers ==
    ASSUME "unreadable" \notin Faults, MarkInv, NEW j \in Jobs, Watches(j),
           Covers(j), WorkerStep(j)
    PROVE  Watches(j)' /\ Covers(j)'
<1>1. Typed
  BY DEF MarkInv, Owned
<1>2. ASSUME NEW state, End(j, state) PROVE Watches(j)' /\ Covers(j)'
  BY <1>1, <1>2, EndIs, EndedKeeps
<1>3. EndCancelled(j) \/ CancelRoot(j) => Watches(j)' /\ Covers(j)'
  BY <1>2 DEF EndCancelled, CancelRoot
<1>4. CASE Prepare(j)
  <2>1. EndCancelled(j) \/ Goto(j, "target")
    BY <1>4 DEF Prepare
  <2>2. Goto(j, "target") => W(j)'.pc \notin BegunPcs
    BY <1>1, GotoKeeps DEF BegunPcs, FinishPcs
  <2> QED BY <1>3, <2>1, <2>2, AwayKeepsCover
<1>5. CASE NextTarget(j)
  <2>1. ASSUME NEW r, Become(j, [W(j) EXCEPT !.pc = "begin", !.root = r])
        PROVE  W(j)'.pc \notin BegunPcs
    <3>1. W(j)' = [W(j) EXCEPT !.pc = "begin", !.root = r] /\ W(j) \in Workers
      BY <1>1, <2>1, BecomeIs DEF Typed, TypeOK, W
    <3>2. W(j)'.pc = "begin"
      BY <3>1 DEF Workers
    <3> QED BY <3>2 DEF BegunPcs, FinishPcs
  <2> QED BY <1>3, <1>5, <2>1, AwayKeepsCover DEF NextTarget
<1>6. CASE AllDone(j)
  BY <1>2, <1>6 DEF AllDone
<1>7. CASE BeginRootScan(j)
  BY <1>7, BeginCovers
<1>8. CASE StartWalk(j)
  BY <1>3, <1>8, WalkCovers DEF StartWalk
<1>9. CASE \E i \in Items :
             WalkItem(j, i) \/ SkipUnreadable(j, i) \/ SkipOverLimit(j, i)
  BY <1>9, WalkCovers DEF SkipUnreadable
<1>10. CASE PersistBatch(j)
  BY <1>10, BatchCovers
<1>11. CASE RefuseBatch(j)
  BY <1>3, <1>11 DEF RefuseBatch
<1>12. CASE WalkCancelled(j) \/ WalkEnds(j)
  BY <1>12, WalkCovers
<1>13. CASE StartFinish(j)
  <2>1. EndCancelled(j) \/ rootRow[R(j)] = "enabled"
    BY <1>13 DEF StartFinish
  <2> QED BY <1>3, <1>13, <2>1, FinishCovers
<1>14. CASE Reconcile(j) \/ DeriveSizes(j) \/ RecordTimeline(j) \/ MarkRoot(j)
  BY <1>14, FinishCovers
<1>15. CASE FinishStopped(j)
  BY <1>3, <1>15 DEF FinishStopped
<1>16. CASE RootFinished(j)
  <2>1. NextRoot(j, W(j).todo \ {R(j)}) => W(j)'.pc \notin BegunPcs
    <3> SUFFICES ASSUME NextRoot(j, W(j).todo \ {R(j)}) PROVE W(j)'.pc \notin BegunPcs
      OBVIOUS
    <3> DEFINE w == [NoWorker EXCEPT !.pc = "target", !.todo = W(j).todo \ {R(j)},
                                     !.background = W(j).background]
    <3>1. W(j)' = w
      BY <1>1, BecomeIs DEF NextRoot
    <3>2. w.pc = "target"
      BY DEF NoWorker
    <3> HIDE DEF w
    <3> QED BY <3>1, <3>2 DEF BegunPcs, FinishPcs
  <2> QED BY <1>2, <1>3, <1>16, <2>1, AwayKeepsCover DEF RootFinished
<1>17. CASE DatabaseFails(j)
  BY <1>2, <1>17 DEF DatabaseFails
<1> QED BY <1>4, <1>5, <1>6, <1>7, <1>8, <1>9, <1>10, <1>11, <1>12, <1>13,
           <1>14, <1>15, <1>16, <1>17
        DEF WorkerStep

\* No step breaks what the threads know of the rows.
LEMMA NextCover ==
    ASSUME [SparesLive]_vars, "unreadable" \notin Faults, CoverInv, [Next]_vars
    PROVE  CoverInv'
<1>1. MarkInv'
  BY NextMarks DEF CoverInv
<1>2. CASE AllKeep
  BY <1>1, <1>2 DEF CoverInv, AllKeep
<1>3. ASSUME NEW j \in Jobs, WorkerStep(j) PROVE CoverInv'
  <2>1. ThreadFrame(j) /\ Live(j)
    BY <1>3, ThreadElsewhere, WorkerMoves DEF CoverInv, MarkInv, Owned, Moves
  <2>2. \A k \in Jobs : Watches(k)' /\ Covers(k)'
    BY <1>3, <2>1, OwnCovers, OthersKeep DEF CoverInv
  <2> QED BY <1>1, <2>2 DEF CoverInv
<1> QED BY <1>1, <1>2, <1>3, OutsideKeeps DEF CoverInv, MarkInv

\* No root is being scanned at first.
LEMMA InitCover == Init => CoverInv
<1> SUFFICES ASSUME Init PROVE CoverInv
  OBVIOUS
<1>1. ASSUME NEW j \in Jobs PROVE Watches(j) /\ Covers(j)
  <2>1. W(j).pc = "none"
    BY DEF Init, W, NoWorker
  <2> QED BY <2>1 DEF Watches, Covers, BegunPcs, FinishPcs
<1> QED BY <1>1, InitMarks DEF CoverInv

\* A row is removed by the reconciliation of a full scan, or with its root.
LEMMA StepRemoves ==
    ASSUME CoverInv, [Next]_vars, NEW r \in Roots, NEW i \in Items,
           rows[r][i] # Gone, rows'[r][i] = Gone, rootRow[r] # "absent"
    PROVE  \E j \in Jobs : R(j) = r /\ W(j).full /\ Gone \in W(j).during[i]
<1>1. Typed /\ CallsMatch /\ rows \in [Roots -> Inventory]
  BY DEF CoverInv, MarkInv, Owned, Typed, TypeOK
<1>2. \/ \E j \in Jobs : PersistBatch(j) \/ Reconcile(j)
      \/ DeleteProject
  BY DEF Next, UserCall, CallStep, vars, catalogVars, ScanRequest, CancelRequest,
         EnableRoot, DisableRequest, UnregisterRequest, RefreshRequest, Admitted,
         Reports,
         AlreadyOwned, CancelStored, DisableRoot, DeleteRoot, Edit, Restart,
         WorkerStep, Prepare, NextTarget, AllDone, BeginRootScan, StartWalk,
         WalkItem, SkipUnreadable, SkipOverLimit, RefuseBatch, WalkCancelled,
         WalkEnds, StartFinish, DeriveSizes, RecordTimeline, MarkRoot,
         FinishStopped, RootFinished, DatabaseFails, EndCancelled, CancelRoot
<1>3. ~DeleteProject
  <2>1. SUFFICES ASSUME DeleteProject PROVE FALSE
    OBVIOUS
  <2>2. rows'[r] = IF r \in caller["ui"].roots THEN Nothing ELSE rows[r]
    BY <2>1 DEF DeleteProject
  <2>3. r \notin caller["ui"].roots
    BY <1>1, <2>1 DEF DeleteProject, CallsMatch
  <2> QED BY <2>2, <2>3
<1>4. ASSUME NEW j \in Jobs, PersistBatch(j) PROVE FALSE
  <2>0. PICK reread \in SUBSET Items :
          rows' = [rows EXCEPT ![R(j)] =
            [m \in Items |-> IF m \in ToWrite(j, reread) THEN W(j).batch[m]
                             ELSE @[m]]]
    BY <1>4 DEF PersistBatch
  <2> DEFINE fresh == ToWrite(j, reread)
             row == [m \in Items |-> IF m \in fresh THEN W(j).batch[m]
                                     ELSE rows[R(j)][m]]
  <2>1. rows' = [rows EXCEPT ![R(j)] = row]
    BY <2>0
  <2>2. row[i] # Gone \/ row[i] = rows[R(j)][i]
    BY DEF Present, ToWrite
  <2> HIDE DEF row
  <2>3. rows'[r] = rows[r] \/ (r = R(j) /\ rows'[r] = row)
    BY <1>1, <2>1
  <2> QED BY <2>2, <2>3
<1>5. ASSUME NEW j \in Jobs, Reconcile(j)
      PROVE  R(j) = r /\ W(j).full /\ Gone \in W(j).during[i]
  <2> DEFINE row == [m \in Items |-> IF m \in W(j).remaining THEN Gone
                                     ELSE rows[R(j)][m]]
  <2>1. W(j).pc = "reconcile" /\ (UNCHANGED rows \/ rows' = [rows EXCEPT ![R(j)] = row])
    BY <1>5 DEF Reconcile
  <2>2. i \in W(j).remaining \/ row[i] = rows[R(j)][i]
    OBVIOUS
  <2> HIDE DEF row
  <2>3. r = R(j) /\ i \in W(j).remaining
    BY <1>1, <2>1, <2>2
  <2>4. Covers(j) /\ Progress(j)
    BY DEF CoverInv, MarkInv
  <2>5. CoversItem(j, i)
    BY <2>1, <2>3, <2>4 DEF Covers, BegunPcs, FinishPcs
  <2> QED BY <2>1, <2>3, <2>4, <2>5 DEF CoversItem, CoversFor, Progress
<1> QED BY <1>2, <1>3, <1>4, <1>5

\* Where the walk can read every item, what each thread knows of the rows of
\* its root holds in every state (scan_inventory_stream to finish_root_scan).
THEOREM CoverInvariance ==
    "unreadable" \notin Faults => (Spec /\ LiveRecordsKept => []CoverInv)
<1> SUFFICES ASSUME "unreadable" \notin Faults
             PROVE  Spec /\ LiveRecordsKept => []CoverInv
  OBVIOUS
<1>1. CoverInv /\ [SparesLive]_vars /\ [Next]_vars => CoverInv'
  BY NextCover
<1> QED BY <1>1, InitCover, PTL DEF Spec, LiveRecordsKept

\* Where the walk can read every item, a full scan that is marked complete has
\* given every item a row it had meanwhile, and a vanished one none
\* (scan_inventory_stream, persist_batch, reconcile_active_root_scan).
THEOREM FullScanCovers ==
    "unreadable" \notin Faults => (Spec /\ LiveRecordsKept => []CompletedCoversDisk)
<1> SUFFICES ASSUME "unreadable" \notin Faults
             PROVE  Spec /\ LiveRecordsKept => []CompletedCoversDisk
  OBVIOUS
<1>1. CoverInv => CompletedCoversDisk
  BY DEF CoverInv, CompletedCoversDisk, Covers, CoversItem, CoversFor, BegunPcs
<1> QED BY <1>1, CoverInvariance, PTL

\* Where the walk can read every item, only a full scan during which an item
\* was gone removes its row (reconcile_active_root_scan).
THEOREM OnlyVanishedRemoved ==
    "unreadable" \notin Faults => (Spec /\ LiveRecordsKept => RemovedWasGone)
<1> SUFFICES ASSUME "unreadable" \notin Faults
             PROVE  Spec /\ LiveRecordsKept => RemovedWasGone
  OBVIOUS
<1>1. ASSUME CoverInv, [Next]_vars
      PROVE  [\A r \in Roots, i \in Items :
                rows[r][i] # Gone /\ rows'[r][i] = Gone /\ rootRow[r] # "absent" =>
                    \E j \in Jobs : /\ R(j) = r /\ W(j).full
                                    /\ Gone \in W(j).during[i]]_vars
  BY <1>1, StepRemoves
<1>2. Spec /\ LiveRecordsKept => []CoverInv
  BY CoverInvariance
<1> QED BY <1>1, <1>2, PTL DEF Spec, RemovedWasGone

=============================================================================
