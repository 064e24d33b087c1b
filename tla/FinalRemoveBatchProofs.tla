----------------------- MODULE FinalRemoveBatchProofs -----------------------
(***************************************************************************)
(* Theorems of FinalRemoveBatch, for any number of held objects, reviews,  *)
(* jobs and grants, every chunk size, every bound and every choice of what *)
(* may happen.  A step at one object changes the rows of that object,      *)
(* which is not settled, and nothing else: what the rows say of each other *)
(* is shown once for such steps (RowsStep), so that an action only answers *)
(* for the object it is at and for where it leaves the worker.  The last   *)
(* part shows that each removal implements DispositionPromise.             *)
(***************************************************************************)
EXTENDS FinalRemoveBatch, FiniteSetTheorems, WellFoundedInduction, TLAPS

-----------------------------------------------------------------------------
(* The inductive invariant.                                                *)

RecoverPcs == {"recover", "recover_clean", "recover_block", "recover_finish"}
OpeningPcs == {"consume", "revalidate"}
CommitPcs == {"commit", "promote", "rename", "link"}
RemovePcs == {"boundary", "claim", "dispose", "record"}

\* Where the worker and recovery are.
PlaceInv ==
    /\ pc \in WorkerPcs \cup RecoverPcs => wjob \in Jobs
    /\ pc \in CommitPcs \cup RemovePcs => cur \in chunk
    /\ pc \in {"recover", "recover_clean", "recover_block"} => cur \in Items
    /\ pc \in WorkerPcs => enabled
    /\ pc \notin {"next_chunk", "terminalize", "finalize"} => latched = "none"

\* Jobs start in their order, one at a time; a batch is written by the worker
\* of its job.
JobInv ==
    /\ \A j, k \in Jobs : k < j /\ job[j] # "none" => job[k] # "none"
    /\ \A j, k \in Jobs : k < j /\ ActiveJob(k) => job[j] = "none"
    /\ \A j \in Jobs :
         job[j] \in {"none", "created"} \/ j \in spawned \/ begun = j => batch[j] = "none"
    /\ \A j \in spawned : job[j] \notin {"none", "begun"}
    /\ begun # 0 => job[begun] = "begun" /\ pc \notin WorkerPcs
    /\ pc \in WorkerPcs => job[wjob] = "begun"
    /\ pc \in OpeningPcs => batch[wjob] = "none"
    /\ pc \in WorkerPcs \ OpeningPcs => batch[wjob] \in {"waiting_for_uac", "parent_disposition"}

\* A job was started for a review that was there, for objects it offered.
RequestInv ==
    \A j \in Jobs : job[j] # "none" =>
        LET b == request[j].binding IN
        /\ b \in Bindings /\ preview[b.preview].built
        /\ \A i \in b.selected : preview[b.preview].rows[i] # "out"

\* A job without a batch has no items.
FreshInv ==
    \A j \in Jobs, i \in Items : batch[j] = "none" =>
        bitem[j][i] = "none" /\ phase[j][i] = "none"

EarlyPhases == Intents \cup {"none", "preflight", "archive_container_bound"}

\* What the rows of an item and the state of its object say of each other: its
\* status and phase, whether it has a proof and is linked, its container, its
\* entry, whether it is there, whether it has an archive.
ItemOK(status, ph, proved, link, container, en, there, row) ==
    /\ ph \in EarlyPhases => ~proved /\ ~link
    /\ ph = "archive_path_intent" => status = "planned" /\ ~row
    /\ ph = "archive_recovery_closed" => status = "blocked"
    /\ status = "none" => ph = "none"
    /\ ~link /\ proved /\ ph # "archive_recovery_closed" =>
         status \in {"planned", "interrupted"}
    /\ status \in {"ready", "deleting"} => link
    /\ link => row
    /\ status \in {"planned", "ready"} => en = "quarantined"
    /\ status = "interrupted" /\ ~link => en = "quarantined"
    /\ status = "interrupted" => en \in {"quarantined", "deleting"}
    /\ status = "deleting" => en = "deleting"
    /\ status = "deleted" => ~there /\ en = "permanently_deleted"
    /\ container = "plain" => ~link /\ proved /\ ph # "archive_recovery_closed"
    /\ container = "armed" => ~row

ItemsInv ==
    \A j \in Jobs, i \in Items :
        ItemOK(bitem[j][i], phase[j][i], proof[j][i], linked[j][i],
               partial[j][i], entry[i], present[i], archiveRow[i])

\* An archive of the catalog has its final name; what is claimed has one.
ArchiveInv ==
    \A i \in Items :
        /\ archiveRow[i] => final[i]
        /\ ~present[i] => entry[i] \in {"deleting", "permanently_deleted"}
        /\ entry[i] \in {"deleting", "permanently_deleted"} => archiveRow[i]

Owed(j, i) == PromotionPending(j, i) /\ phase[j][i] # "archive_recovery_closed"

\* A final name without a row is owed by a batch.
OwedInv ==
    \A i \in Items : final[i] /\ ~archiveRow[i] => \E j \in Jobs : Owed(j, i)

\* Only the objects of the chunk the worker commits have a container that goes
\* with its handle.
ArmInv ==
    \A j \in Jobs, i \in Items : partial[j][i] = "armed" =>
        /\ wjob = j /\ pc \in CommitPcs /\ i \in chunk
        /\ cur < i \/ (i = cur /\ pc \in {"commit", "promote"})

\* A batch is opened when those before it are settled.
OrderInv ==
    /\ \A j, k \in Jobs : k < j /\ batch[j] # "none" => Unsettled(k) = {}
    /\ \A j \in Jobs : batch[j] \in Closed => Unsettled(j) = {}

OpeningInv == pc \in OpeningPcs => \A k \in Jobs : Unsettled(k) = {}

\* Not yet given to the helper, or through with it.
Aside(i) == bitem[wjob][i] \notin {"planned", "ready"} \/ i \in NotGiven(wjob)

Raw(i) == bitem[wjob][i] = "planned" /\ ~proof[wjob][i] /\ ~linked[wjob][i]

Untouched ==
    \A i \in Items : /\ bitem[wjob][i] \in {"none", "planned", "blocked"}
                     /\ ~proof[wjob][i] /\ ~linked[wjob][i]

Waiting == NotGiven(wjob) # {} /\ \A i \in Items : Aside(i)

InChunk ==
    /\ \A i \in Items \ chunk : Aside(i)
    /\ \A i \in chunk : bitem[wjob][i] # "none"

Committing ==
    /\ \A i \in chunk : i < cur => bitem[wjob][i] # "planned"
    /\ \A i \in chunk : i > cur => Raw(i)

Removing ==
    /\ \A i \in chunk : bitem[wjob][i] # "planned"
    /\ \A i \in chunk : i < cur => bitem[wjob][i] # "ready"

\* How far the worker is with each object of its batch ...
StageInv ==
    /\ pc \in {"preflight", "layout"} => Untouched
    /\ pc \in {"uac", "materialize"} => Waiting
    /\ pc \in CommitPcs \cup RemovePcs => InChunk
    /\ pc \in CommitPcs => Committing
    /\ pc \in RemovePcs => Removing
    /\ pc = "next_chunk" /\ latched = "none" => \A i \in Items : Aside(i)
    /\ pc = "finalize" => Undisposed(wjob) = {}

\* ... and with the object it works on.
CurrentInv ==
    /\ pc = "commit" => Raw(cur)
    /\ pc \in {"promote", "rename", "link"} =>
         bitem[wjob][cur] = "planned" /\ Owed(wjob, cur)
    /\ pc \in {"promote", "rename"} => ~archiveRow[cur]
    /\ pc = "link" => final[cur] /\ partial[wjob][cur] = "none"
    /\ pc = "claim" => bitem[wjob][cur] = "ready"
    /\ pc \in {"dispose", "record"} => bitem[wjob][cur] = "deleting"
    /\ pc = "record" => ~present[cur]

\* How far recovery is with the object it looks at.
RecoverInv ==
    /\ pc \in RecoverPcs => batch[wjob] # "none"
    /\ pc = "recover_clean" => Owed(wjob, cur) /\ ~final[cur]
    /\ pc = "recover_block" => linked[wjob][cur] \/ ~final[cur]
    /\ pc \in {"recover_clean", "recover_block"} =>
         /\ bitem[wjob][cur] \in {"planned", "interrupted"}
         /\ entry[cur] = "quarantined" /\ partial[wjob][cur] # "plain"

\* What is gone, or on its way, was taken by the batch or by a later one.
TakenInv ==
    /\ \A j \in Jobs, i \in Items : bitem[j][i] = "blocked" /\ ~present[i] =>
         \E k \in Jobs : k > j /\ bitem[k][i] # "none"
    /\ \A i \in Items : entry[i] = "deleting" =>
         \E j \in Jobs : bitem[j][i] \in {"deleting", "interrupted"}

\* The verdict of a batch is what happened to its objects.
BatchInv ==
    \A j \in Jobs :
        /\ batch[j] = "completed" => \A i \in Selected(j) : ~present[i]
        /\ batch[j] = "failed" => Retried(j) \/ \A i \in Selected(j) : present[i]

\* The result of a job is the verdict of its batch, which recovery looks at
\* again only when another batch took one of its objects.
ResultInv ==
    /\ pc \in RecoverPcs /\ batch[wjob] \in Closed => Retried(wjob)
    /\ \A j \in Jobs : job[j] \in Closed /\ batch[j] # "none" =>
         Retried(j) \/ batch[j] = job[j]

Spent(j) ==
    /\ request[j].token <= issued
    /\ \A t \in tokens : t.id # request[j].token

\* A grant has one id, and none once a batch has spent it.
GrantInv ==
    /\ \A t \in tokens : t.id <= issued
    /\ \A s, t \in tokens : s.id = t.id => s = t
    /\ \A j \in Jobs : batch[j] # "none" =>
         /\ Spent(j)
         /\ preview[request[j].binding.preview].consumed
    /\ pc = "revalidate" => Spent(wjob) /\ \A k \in Jobs : batch[k] # "none" =>
         request[k].token # request[wjob].token
    /\ \A p \in Previews : preview[p].consumed => preview[p].built
    /\ GrantSpentOnce

RowsInv ==
    /\ FreshInv /\ ItemsInv /\ ArchiveInv /\ OwedInv /\ OrderInv /\ TakenInv
    /\ BatchInv

OwnersInv == JobInv /\ RequestInv /\ OpeningInv /\ ResultInv /\ GrantInv

WorkerInv == PlaceInv /\ ArmInv /\ StageInv /\ CurrentInv /\ RecoverInv

IInv == TypeOK /\ RowsInv /\ OwnersInv /\ WorkerInv

-----------------------------------------------------------------------------
(* Types in groups, numbers, and sets of items.                            *)

RowTypes ==
    /\ batch \in [Jobs -> Closed \cup {"none", "waiting_for_uac",
                                       "parent_disposition", "interrupted"}]
    /\ bitem \in [Jobs -> [Items -> ItemStates]]
    /\ phase \in [Jobs -> [Items -> Phases]]
    /\ proof \in [Jobs -> [Items -> BOOLEAN]]
    /\ linked \in [Jobs -> [Items -> BOOLEAN]]
    /\ partial \in [Jobs -> [Items -> {"none", "armed", "plain"}]]

ObjectTypes ==
    /\ entry \in [Items -> {"quarantined", "deleting", "permanently_deleted",
                            "restored"}]
    /\ present \in [Items -> BOOLEAN]
    /\ archiveRow \in [Items -> BOOLEAN] /\ final \in [Items -> BOOLEAN]

JobTypes ==
    /\ job \in [Jobs -> {"none", "created", "begun", "lost"} \cup JobResults]
    /\ stop \in [Jobs -> BOOLEAN] /\ spawned \subseteq Jobs
    /\ request \in [Jobs -> [token : 0..MaxIssued,
                             binding : Bindings \cup {NoBinding}]]
    /\ begun \in {0} \cup Jobs

StoreTypes ==
    /\ now \in 0..MaxNow /\ issued \in 0..MaxIssued
    /\ tokens \subseteq Grants(Bindings \cup {NoBinding})

PreviewTypes ==
    preview \in [Previews -> [built : BOOLEAN, expires : 0..(MaxNow + Ttl),
                              rows : [Items -> {"out", "held", "archived"}],
                              consumed : BOOLEAN]]

SwitchTypes == enabled \in BOOLEAN /\ latch \in BOOLEAN /\ disabling \in BOOLEAN

OpTypes ==
    opItem \in [Jobs -> [Items -> {"none", "pending", "skipped", "deleting",
                                   "done", "failed", "rolled_back"}]]

WorkTypes ==
    /\ wjob \in {0} \cup Jobs
    /\ pc \in Pcs /\ cur \in 0..NItems + 1 /\ chunk \subseteq Items
    /\ latched \in {"none", "stop", "observer"}
    /\ outcome \in {"done", "error", "uac"}

EventTypes == events \in 0..MaxEvents

LEMMA TypeGroups ==
    TypeOK <=> /\ RowTypes /\ ObjectTypes /\ JobTypes /\ StoreTypes /\ PreviewTypes
               /\ SwitchTypes /\ OpTypes /\ WorkTypes /\ EventTypes
BY DEF TypeOK, RowTypes, ObjectTypes, JobTypes, StoreTypes, PreviewTypes,
       SwitchTypes, OpTypes, WorkTypes, EventTypes

LEMMA TypesNext ==
  ASSUME RowTypes', ObjectTypes', JobTypes', StoreTypes', PreviewTypes',
         SwitchTypes', OpTypes', WorkTypes', EventTypes'
  PROVE  TypeOK'
BY DEF TypeOK, RowTypes, ObjectTypes, JobTypes, StoreTypes, PreviewTypes,
       SwitchTypes, OpTypes, WorkTypes, EventTypes

LEMMA Numbers ==
    /\ NItems \in Nat \ {0} /\ MaxJobs \in Nat /\ MaxPreviews \in Nat /\ MaxEvents \in Nat
    /\ MaxIssued \in Nat /\ MaxNow \in Nat /\ Ttl \in Nat /\ ChunkSize \in Nat \ {0}
    /\ Items \subseteq Nat /\ Jobs \subseteq Nat /\ 0 \notin Jobs /\ 0 \notin Items
    /\ \A i : i \in Items <=> i \in Nat /\ 1 <= i /\ i <= NItems
BY BatchAssumption, TokenAssumption DEF Items, Jobs

Below == {p \in Nat \X Nat : p[1] < p[2]}

\* Every set of numbers that is not empty has a least one, which Least chooses.
LEMMA LeastIs ==
  ASSUME NEW T \in SUBSET Nat, T # {}
  PROVE  Least(T) \in T /\ \A y \in T : Least(T) <= y
<1>1. IsWellFoundedOn(Below, Nat)
  BY NatLessThanWellFounded DEF OpToRel, Below
<1>2. PICK x \in T : \A y \in T : ~(<<y, x>> \in Below)
  BY <1>1, WFMin
<1>3. ASSUME NEW y \in T PROVE x <= y
  <2>1. ~(<<y, x>> \in Below)
    BY <1>2
  <2>2. <<y, x>> \in Nat \X Nat
    OBVIOUS
  <2>3. ~(y < x)
    BY <2>1, <2>2 DEF Below
  <2> QED BY <2>3
<1>4. \E z \in T : \A y \in T : z <= y
  BY <1>2, <1>3
<1> QED BY <1>4 DEF Least

\* A chunk takes at least one of the items that wait.
LEMMA FirstOfIs ==
  ASSUME NEW T \in SUBSET Items, T # {}
  PROVE  FirstOf(T) # {} /\ FirstOf(T) \subseteq T
<1>1. T \in SUBSET Nat
  BY Numbers
<1>2. Least(T) \in T /\ \A y \in T : Least(T) <= y
  BY <1>1, LeastIs
<1>3. {k \in T : k < Least(T)} = {}
  <2>1. ASSUME NEW k \in T PROVE ~(k < Least(T))
    <3>1. Least(T) <= k /\ k \in Nat /\ Least(T) \in Nat
      BY <1>1, <1>2
    <3> QED BY <3>1
  <2> QED BY <2>1
<1>4. Cardinality({k \in T : k < Least(T)}) = 0
  BY <1>3, FS_EmptySet
<1>5. 0 < ChunkSize
  BY Numbers
<1>6. Least(T) \in FirstOf(T)
  BY <1>2, <1>4, <1>5 DEF FirstOf
<1> QED BY <1>6 DEF FirstOf

\* What the block of a set of items does.
LEMMA BlockIs ==
  ASSUME RowTypes, OpTypes, NEW w \in Jobs, NEW S, Block(w, S)
  PROVE  /\ bitem' \in [Jobs -> [Items -> ItemStates]]
         /\ phase' \in [Jobs -> [Items -> Phases]]
         /\ proof' = proof /\ linked' = linked
         /\ OpTypes'
         /\ \A j \in Jobs, i \in Items : ~(j = w /\ i \in S) =>
              bitem'[j][i] = bitem[j][i] /\ phase'[j][i] = phase[j][i]
         /\ \A i \in Items : i \in S =>
              /\ PromotionPending(w, i) =>
                   /\ bitem'[w][i] = "interrupted"
                   /\ phase'[w][i] = "archive_recovery_pending"
              /\ ~PromotionPending(w, i) =>
                   bitem'[w][i] = "blocked" /\ phase'[w][i] = "blocked"
<1>1. bitem' \in [Jobs -> [Items -> ItemStates]]
  BY DEF Block, RowTypes, ItemStates
<1>2. phase' \in [Jobs -> [Items -> Phases]]
  BY DEF Block, RowTypes, Phases
<1>3. OpTypes'
  BY DEF Block, OpTypes
<1>4. \A j \in Jobs, i \in Items : ~(j = w /\ i \in S) =>
         bitem'[j][i] = bitem[j][i] /\ phase'[j][i] = phase[j][i]
  BY DEF Block, RowTypes
<1>5. \A i \in Items : i \in S =>
         /\ PromotionPending(w, i) =>
              /\ bitem'[w][i] = "interrupted"
              /\ phase'[w][i] = "archive_recovery_pending"
         /\ ~PromotionPending(w, i) =>
              bitem'[w][i] = "blocked" /\ phase'[w][i] = "blocked"
  BY DEF Block, RowTypes
<1> QED BY <1>1, <1>2, <1>3, <1>4, <1>5 DEF Block

-----------------------------------------------------------------------------
(* The rows of a batch and its objects.                                    *)

\* What is known of an object whose row is not settled.
FitsOK(status, ph, proved, link, container, en, there, row, fin) ==
    /\ ItemOK(status, ph, proved, link, container, en, there, row)
    /\ row => fin
    /\ ~there => en \in {"deleting", "permanently_deleted"}
    /\ en \in {"deleting", "permanently_deleted"} => row
    /\ fin /\ ~row => ~link /\ proved /\ ph # "archive_recovery_closed"
    /\ status # "none"
    /\ status = "blocked" => there
    /\ en = "deleting" => status \in {"deleting", "interrupted"}

Fits(w, i) ==
    FitsOK(bitem[w][i], phase[w][i], proof[w][i], linked[w][i], partial[w][i],
           entry[i], present[i], archiveRow[i], final[i])

LEMMA RowValues ==
  ASSUME RowTypes, ObjectTypes, NEW j \in Jobs, NEW i \in Items
  PROVE  /\ bitem[j][i] \in ItemStates /\ phase[j][i] \in Phases
         /\ proof[j][i] \in BOOLEAN /\ linked[j][i] \in BOOLEAN
         /\ partial[j][i] \in {"none", "armed", "plain"}
         /\ entry[i] \in {"quarantined", "deleting", "permanently_deleted", "restored"}
         /\ present[i] \in BOOLEAN /\ archiveRow[i] \in BOOLEAN /\ final[i] \in BOOLEAN
BY DEF RowTypes, ObjectTypes

\* Pure: a row that is not settled is none of these.
LEMMA OpenRow ==
  ASSUME NEW status, NEW ph, NEW proved \in BOOLEAN, NEW link \in BOOLEAN,
         NEW container, NEW en, NEW there \in BOOLEAN, NEW row \in BOOLEAN,
         ItemOK(status, ph, proved, link, container, en, there, row)
  PROVE  /\ ~link /\ proved /\ ph # "archive_recovery_closed" =>
              status \in {"planned", "interrupted"} /\ en = "quarantined"
         /\ status = "none" => ~proved /\ ~link
         /\ status \in {"planned", "ready", "deleting", "interrupted"} =>
              en \in {"quarantined", "deleting"}
BY DEF ItemOK, EarlyPhases

LEMMA SettledRow ==
  ASSUME RowTypes, NEW j \in Jobs, NEW i \in Items
  PROVE  i \notin Unsettled(j) <=>
           bitem[j][i] \in {"none", "deleted", "blocked"} /\ ~Owed(j, i)
BY DEF Unsettled, Owed

LEMMA FreshSettled ==
  ASSUME RowTypes, ObjectTypes, FreshInv, ItemsInv, NEW j \in Jobs, batch[j] = "none"
  PROVE  Unsettled(j) = {}
<1>1. SUFFICES ASSUME NEW i \in Items PROVE i \notin Unsettled(j)
  BY DEF Unsettled
<1>2. bitem[j][i] = "none" /\ phase[j][i] = "none"
  BY DEF FreshInv
<1>3. ItemOK(bitem[j][i], phase[j][i], proof[j][i], linked[j][i],
             partial[j][i], entry[i], present[i], archiveRow[i])
  BY DEF ItemsInv
<1>4. ~proof[j][i]
  BY <1>2, <1>3, RowValues, OpenRow
<1> QED BY <1>2, <1>4, SettledRow DEF Owed, PromotionPending

\* Only the batch that has objects to settle is open, and no later job has one.
LEMMA OpenOnly ==
  ASSUME RowTypes, ObjectTypes, RowsInv, NEW w \in Jobs, NEW i \in Unsettled(w)
  PROVE  /\ batch[w] \notin Closed \cup {"none"}
         /\ \A k \in Jobs : k # w => Unsettled(k) = {}
         /\ \A k \in Jobs : k > w => batch[k] = "none"
<1> USE DEF RowsInv
<1>1. batch[w] # "none"
  BY FreshSettled
<1>2. batch[w] \notin Closed
  BY DEF OrderInv
<1>3. \A k \in Jobs : k > w => batch[k] = "none"
  BY Numbers DEF OrderInv
<1>4. ASSUME NEW k \in Jobs, k # w PROVE Unsettled(k) = {}
  <2>1. CASE k < w
    BY <2>1, <1>1 DEF OrderInv
  <2>2. CASE k > w
    BY <2>2, <1>3, FreshSettled
  <2> QED BY <2>1, <2>2, <1>4, Numbers
<1> QED BY <1>1, <1>2, <1>3, <1>4

LEMMA UnsettledFits ==
  ASSUME RowTypes, ObjectTypes, RowsInv, NEW w \in Jobs, NEW i \in Unsettled(w)
  PROVE  Fits(w, i) /\ i \in Items
<1> USE DEF RowsInv
<1>1. i \in Items
  BY DEF Unsettled
<1>2. ItemOK(bitem[w][i], phase[w][i], proof[w][i], linked[w][i],
             partial[w][i], entry[i], present[i], archiveRow[i])
  BY <1>1 DEF ItemsInv
<1>3. /\ archiveRow[i] => final[i]
      /\ ~present[i] => entry[i] \in {"deleting", "permanently_deleted"}
      /\ entry[i] \in {"deleting", "permanently_deleted"} => archiveRow[i]
  BY <1>1 DEF ArchiveInv
<1>4. final[i] /\ ~archiveRow[i] => Owed(w, i)
  <2>1. ASSUME final[i], ~archiveRow[i] PROVE Owed(w, i)
    <3>1. PICK j \in Jobs : Owed(j, i)
      BY <1>1, <2>1 DEF OwedInv
    <3>2. i \in Unsettled(j)
      BY <1>1, <3>1, SettledRow
    <3>3. j = w
      BY <3>2, OpenOnly
    <3> QED BY <3>1, <3>3
  <2> QED BY <2>1
<1>5. bitem[w][i] # "none" /\ bitem[w][i] # "blocked" /\ bitem[w][i] # "deleted"
  BY <1>1, <1>2, RowValues, OpenRow, SettledRow DEF Owed, PromotionPending
<1>6. entry[i] = "deleting" => bitem[w][i] \in {"deleting", "interrupted"}
  <2>1. ASSUME entry[i] = "deleting" PROVE bitem[w][i] \in {"deleting", "interrupted"}
    <3>1. PICK j \in Jobs : bitem[j][i] \in {"deleting", "interrupted"}
      BY <1>1, <2>1 DEF TakenInv
    <3>2. i \in Unsettled(j)
      BY <1>1, <3>1, SettledRow
    <3>3. j = w
      BY <3>2, OpenOnly
    <3> QED BY <3>1, <3>3
  <2> QED BY <2>1
<1> QED BY <1>1, <1>2, <1>3, <1>4, <1>5, <1>6 DEF Fits, FitsOK, Owed, PromotionPending

\* Only these rows, and these objects, change.
Only(w, S) ==
    /\ \A j \in Jobs, i \in Items : ~(j = w /\ i \in S) =>
         /\ bitem'[j][i] = bitem[j][i] /\ phase'[j][i] = phase[j][i]
         /\ proof'[j][i] = proof[j][i] /\ linked'[j][i] = linked[j][i]
         /\ partial'[j][i] \in {partial[j][i], "none"}
    /\ \A i \in Items : i \notin S =>
         /\ entry'[i] = entry[i] /\ present'[i] = present[i]
         /\ archiveRow'[i] = archiveRow[i] /\ final'[i] = final[i]

\* ... and the batch stays open.
BatchStays(w) ==
    /\ \A k \in Jobs : k # w => batch'[k] = batch[k]
    /\ batch'[w] \in {"waiting_for_uac", "parent_disposition", "interrupted"}

\* The changed ones still fit, nothing comes back, no archive is forgotten.
Moves(w, S) ==
    \A i \in S : /\ Fits(w, i)'
                 /\ present'[i] => present[i]
                 /\ archiveRow[i] => archiveRow'[i]

LEMMA OnlyFit ==
  ASSUME RowTypes, ObjectTypes, ObjectTypes', RowTypes', RowsInv,
         NEW w \in Jobs,
         \A k \in Jobs, x \in Items : k # w => partial[k][x] # "armed",
         NEW S \in SUBSET Unsettled(w), Only(w, S), Moves(w, S)
  PROVE  ItemsInv'
<1>1. SUFFICES ASSUME NEW j \in Jobs, NEW i \in Items
      PROVE  ItemOK(bitem'[j][i], phase'[j][i], proof'[j][i], linked'[j][i],
                    partial'[j][i], entry'[i], present'[i], archiveRow'[i])
  BY DEF ItemsInv
<1>2. ItemOK(bitem[j][i], phase[j][i], proof[j][i], linked[j][i],
             partial[j][i], entry[i], present[i], archiveRow[i])
  BY DEF ItemsInv, RowsInv
<1>3. CASE i \notin S
  <2>1. /\ bitem'[j][i] = bitem[j][i] /\ phase'[j][i] = phase[j][i]
        /\ proof'[j][i] = proof[j][i] /\ linked'[j][i] = linked[j][i]
        /\ partial'[j][i] \in {partial[j][i], "none"}
        /\ entry'[i] = entry[i] /\ present'[i] = present[i]
        /\ archiveRow'[i] = archiveRow[i]
    BY <1>3 DEF Only
  <2> QED BY <1>2, <2>1 DEF ItemOK
<1>4. CASE i \in S /\ j = w
  BY <1>4 DEF Moves, Fits, FitsOK
<1>5. CASE i \in S /\ j # w
  <2>1. /\ bitem'[j][i] = bitem[j][i] /\ phase'[j][i] = phase[j][i]
        /\ proof'[j][i] = proof[j][i] /\ linked'[j][i] = linked[j][i]
        /\ partial'[j][i] \in {partial[j][i], "none"}
    BY <1>5 DEF Only
  <2>2. i \in Unsettled(w)
    BY <1>5
  <2>3. Unsettled(j) = {}
    BY <1>5, <2>2, OpenOnly
  <2>4. bitem[j][i] \in {"none", "deleted", "blocked"} /\ ~Owed(j, i)
    BY <2>3, SettledRow
  <2>5. entry[i] \in {"quarantined", "deleting"}
    <3>1. Fits(w, i)
      BY <2>2, UnsettledFits
    <3>2. bitem[w][i] \in {"planned", "ready", "deleting", "interrupted"}
      <4>1. bitem[w][i] \notin {"none", "deleted", "blocked"} \/ Owed(w, i)
        BY <2>2, SettledRow
      <4> QED BY <4>1, <3>1, RowValues, OpenRow
              DEF Fits, FitsOK, Owed, PromotionPending, ItemStates
    <3> QED BY <3>1, <3>2, RowValues, OpenRow DEF Fits, FitsOK
  <2>6. bitem[j][i] # "deleted"
    BY <1>2, <2>5 DEF ItemOK
  <2>7. partial[j][i] # "armed"
    BY <1>5
  <2>8. archiveRow[i] => archiveRow'[i]
    BY <1>5 DEF Moves
  <2> QED BY <1>2, <2>1, <2>4, <2>6, <2>7, <2>8, RowValues
          DEF ItemOK, EarlyPhases, Owed, PromotionPending, Intents
<1> QED BY <1>3, <1>4, <1>5

LEMMA OnlyArchives ==
  ASSUME RowTypes, ObjectTypes, ObjectTypes', RowTypes', RowsInv,
         NEW w \in Jobs, NEW S \in SUBSET Unsettled(w), Only(w, S), Moves(w, S)
  PROVE  ArchiveInv' /\ OwedInv'
<1>1. ArchiveInv'
  <2>1. SUFFICES ASSUME NEW i \in Items
        PROVE  /\ archiveRow'[i] => final'[i]
               /\ ~present'[i] => entry'[i] \in {"deleting", "permanently_deleted"}
               /\ entry'[i] \in {"deleting", "permanently_deleted"} => archiveRow'[i]
    BY DEF ArchiveInv
  <2>2. CASE i \in S
    BY <2>2 DEF Moves, Fits, FitsOK
  <2>3. CASE i \notin S
    BY <2>3 DEF Only, ArchiveInv, RowsInv
  <2> QED BY <2>2, <2>3
<1>2. OwedInv'
  <2>1. SUFFICES ASSUME NEW i \in Items, final'[i], ~archiveRow'[i]
        PROVE  \E j \in Jobs : Owed(j, i)'
    BY DEF OwedInv
  <2>2. CASE i \in S
    <3>1. Owed(w, i)'
      BY <2>1, <2>2 DEF Moves, Fits, FitsOK, Owed, PromotionPending
    <3> QED BY <3>1
  <2>3. CASE i \notin S
    <3>1. final[i] /\ ~archiveRow[i]
      BY <2>1, <2>3 DEF Only
    <3>2. PICK j \in Jobs : Owed(j, i)
      BY <3>1 DEF OwedInv, RowsInv
    <3>3. Owed(j, i)'
      BY <2>3, <3>2 DEF Only, Owed, PromotionPending
    <3> QED BY <3>3
  <2> QED BY <2>2, <2>3
<1> QED BY <1>1, <1>2

LEMMA OnlyOthers ==
  ASSUME RowTypes, ObjectTypes, ObjectTypes', RowTypes', RowsInv,
         NEW w \in Jobs, NEW S \in SUBSET Unsettled(w), Only(w, S)
  PROVE  /\ \A k \in Jobs : k # w => Unsettled(k)' = Unsettled(k)
         /\ \A k \in Jobs : k # w => Selected(k)' = Selected(k)
         /\ Moves(w, S) => \A j \in Jobs, i \in Items :
                bitem[j][i] # "none" => bitem'[j][i] # "none"
         /\ Moves(w, S) => \A k \in Jobs : Retried(k) => Retried(k)'
<1>1. ASSUME NEW k \in Jobs, k # w PROVE Unsettled(k)' = Unsettled(k)
  BY <1>1 DEF Only, Unsettled, PromotionPending
<1>2. ASSUME NEW k \in Jobs, k # w PROVE Selected(k)' = Selected(k)
  BY <1>2 DEF Only, Selected
<1>3. ASSUME Moves(w, S), NEW j \in Jobs, NEW i \in Items, bitem[j][i] # "none"
      PROVE  bitem'[j][i] # "none"
  <2>1. CASE j = w /\ i \in S
    BY <1>3, <2>1 DEF Moves, Fits, FitsOK
  <2>2. CASE ~(j = w /\ i \in S)
    BY <1>3, <2>2 DEF Only
  <2> QED BY <2>1, <2>2
<1>4. ASSUME Moves(w, S), NEW k \in Jobs, Retried(k) PROVE Retried(k)'
  <2>1. PICK l \in Jobs : l > k /\ Selected(l) \cap Selected(k) # {}
    BY <1>4 DEF Retried
  <2>2. PICK i \in Items : bitem[l][i] # "none" /\ bitem[k][i] # "none"
    BY <2>1 DEF Selected
  <2>3. bitem'[l][i] # "none" /\ bitem'[k][i] # "none"
    BY <1>3, <1>4, <2>2
  <2> QED BY <2>1, <2>3 DEF Retried, Selected
<1> QED BY <1>1, <1>2, <1>3, <1>4

LEMMA OnlyBatches ==
  ASSUME RowTypes, ObjectTypes, ObjectTypes', RowTypes', RowsInv,
         NEW w \in Jobs, NEW S \in SUBSET Unsettled(w), S # {},
         Only(w, S), Moves(w, S), BatchStays(w)
  PROVE  FreshInv' /\ OrderInv' /\ TakenInv' /\ BatchInv'
<1>1. PICK x \in S : TRUE
  OBVIOUS
<1>2. /\ batch[w] \notin Closed \cup {"none"}
      /\ \A k \in Jobs : k # w => Unsettled(k) = {}
      /\ \A k \in Jobs : k > w => batch[k] = "none"
  BY <1>1, OpenOnly
<1>3. /\ \A k \in Jobs : k # w => batch'[k] = batch[k]
      /\ batch'[w] \notin Closed \cup {"none"}
  BY DEF BatchStays, Closed
<1>4. FreshInv'
  <2>1. SUFFICES ASSUME NEW j \in Jobs, NEW i \in Items, batch'[j] = "none"
        PROVE  bitem'[j][i] = "none" /\ phase'[j][i] = "none"
    BY DEF FreshInv
  <2>2. j # w /\ batch[j] = "none"
    BY <1>3, <2>1
  <2> QED BY <2>2 DEF Only, FreshInv, RowsInv
<1>5. OrderInv'
  <2>1. ASSUME NEW j \in Jobs, NEW k \in Jobs, k < j, batch'[j] # "none"
        PROVE  Unsettled(k)' = {}
    <3>1. batch[j] # "none"
      BY <1>2, <1>3, <2>1
    <3>2. k # w
      BY <1>2, <2>1, <3>1, Numbers
    <3> QED BY <1>2, <3>2, OnlyOthers
  <2>2. ASSUME NEW j \in Jobs, batch'[j] \in Closed PROVE Unsettled(j)' = {}
    BY <1>2, <1>3, <2>2, OnlyOthers
  <2> QED BY <2>1, <2>2 DEF OrderInv
<1>6. TakenInv'
  <2>1. ASSUME NEW j \in Jobs, NEW i \in Items, bitem'[j][i] = "blocked", ~present'[i]
        PROVE  \E k \in Jobs : k > j /\ bitem'[k][i] # "none"
    <3>1. CASE ~present[i] /\ bitem[j][i] = "blocked"
      <4>1. PICK k \in Jobs : k > j /\ bitem[k][i] # "none"
        BY <3>1 DEF TakenInv, RowsInv
      <4> QED BY <4>1, OnlyOthers
    <3>2. CASE i \notin S
      BY <2>1, <3>1, <3>2 DEF Only
    <3>3. CASE i \in S
      <4>1. j # w /\ bitem[j][i] = "blocked"
        BY <2>1, <3>3 DEF Only, Moves, Fits, FitsOK
      <4>2. batch[j] # "none"
        BY <4>1 DEF FreshInv, RowsInv
      <4>3. w > j
        BY <1>2, <4>1, <4>2, Numbers
      <4>4. bitem'[w][i] # "none"
        BY <3>3 DEF Moves, Fits, FitsOK
      <4> QED BY <4>3, <4>4
    <3> QED BY <3>2, <3>3
  <2>2. ASSUME NEW i \in Items, entry'[i] = "deleting"
        PROVE  \E j \in Jobs : bitem'[j][i] \in {"deleting", "interrupted"}
    <3>1. CASE i \in S
      BY <2>2, <3>1 DEF Moves, Fits, FitsOK
    <3>2. CASE i \notin S
      <4>1. PICK j \in Jobs : bitem[j][i] \in {"deleting", "interrupted"}
        BY <2>2, <3>2 DEF Only, TakenInv, RowsInv
      <4> QED BY <3>2, <4>1 DEF Only
    <3> QED BY <3>1, <3>2
  <2> QED BY <2>1, <2>2 DEF TakenInv
<1>7. BatchInv'
  <2>1. SUFFICES ASSUME NEW j \in Jobs, j # w, batch[j] = batch'[j]
        PROVE  /\ batch[j] = "completed" => \A i \in Selected(j)' : ~present'[i]
               /\ batch[j] = "failed" => Retried(j)' \/ \A i \in Selected(j)' : present'[i]
    BY <1>3 DEF BatchInv, Closed
  <2>2. Selected(j)' = Selected(j) /\ Selected(j) \subseteq Items
    BY <2>1, OnlyOthers DEF Selected
  <2>3. ASSUME batch[j] = "completed", NEW i \in Selected(j) PROVE ~present'[i]
    <3>1. ~present[i]
      BY <2>3 DEF BatchInv, RowsInv
    <3> QED BY <2>2, <3>1 DEF Only, Moves
  <2>4. ASSUME batch[j] = "failed", ~Retried(j)', NEW i \in Selected(j) PROVE present'[i]
    <3>1. present[i]
      BY <2>4, OnlyOthers DEF BatchInv, RowsInv
    <3>2. CASE i \notin S
      BY <2>2, <3>1, <3>2 DEF Only
    <3>3. CASE i \in S
      <4>1. j < w
        BY <1>2, <2>1, <2>4, Numbers
      <4>2. bitem'[w][i] # "none"
        BY <3>3 DEF Moves, Fits, FitsOK
      <4>3. i \in Selected(w)' /\ i \in Selected(j)'
        BY <2>2, <4>2 DEF Selected
      <4> QED BY <2>4, <4>1, <4>3, Numbers DEF Retried
    <3> QED BY <3>2, <3>3
  <2> QED BY <2>2, <2>3, <2>4
<1> QED BY <1>4, <1>5, <1>6, <1>7

\* The rows after a step on objects that are not settled.
LEMMA RowsStep ==
  ASSUME RowTypes, ObjectTypes, ObjectTypes', RowTypes', RowsInv,
         NEW w \in Jobs,
         \A k \in Jobs, x \in Items : k # w => partial[k][x] # "armed",
         NEW S \in SUBSET Unsettled(w), S # {},
         Only(w, S), Moves(w, S), BatchStays(w)
  PROVE  RowsInv'
BY OnlyFit, OnlyArchives, OnlyBatches DEF RowsInv

\* No row and no object changes; containers may go.
Still ==
    /\ UNCHANGED <<bitem, phase, proof, linked, entry, present, archiveRow, final>>
    /\ \A j \in Jobs, i \in Items : partial'[j][i] \in {partial[j][i], "none"}

LEMMA StillRows ==
  ASSUME Still
  PROVE  /\ \A k \in Jobs : Unsettled(k)' = Unsettled(k) /\ Selected(k)' = Selected(k)
         /\ \A k \in Jobs : Retried(k)' <=> Retried(k)
<1>1. bitem' = bitem /\ phase' = phase /\ proof' = proof /\ linked' = linked
  BY DEF Still
<1>2. ASSUME NEW k \in Jobs PROVE Unsettled(k)' = Unsettled(k) /\ Selected(k)' = Selected(k)
  BY <1>1 DEF Unsettled, Selected, PromotionPending
<1>3. ASSUME NEW k \in Jobs PROVE Retried(k)' <=> Retried(k)
  BY <1>1 DEF Retried, Selected
<1> QED BY <1>2, <1>3

LEMMA StillItems ==
  ASSUME RowsInv, Still
  PROVE  ItemsInv' /\ ArchiveInv' /\ OwedInv' /\ TakenInv'
<1>1. /\ bitem' = bitem /\ phase' = phase /\ proof' = proof /\ linked' = linked
      /\ entry' = entry /\ present' = present
      /\ archiveRow' = archiveRow /\ final' = final
  BY DEF Still
<1>2. ItemsInv'
  <2>1. SUFFICES ASSUME NEW j \in Jobs, NEW i \in Items
        PROVE  ItemOK(bitem'[j][i], phase'[j][i], proof'[j][i], linked'[j][i],
                      partial'[j][i], entry'[i], present'[i], archiveRow'[i])
    BY DEF ItemsInv
  <2>2. ItemOK(bitem[j][i], phase[j][i], proof[j][i], linked[j][i],
               partial[j][i], entry[i], present[i], archiveRow[i])
    BY DEF ItemsInv, RowsInv
  <2>3. partial'[j][i] \in {partial[j][i], "none"}
    BY DEF Still
  <2> QED BY <1>1, <2>2, <2>3 DEF ItemOK
<1>3. ArchiveInv'
  BY <1>1 DEF ArchiveInv, RowsInv
<1>4. OwedInv'
  BY <1>1 DEF OwedInv, RowsInv, Owed, PromotionPending
<1>5. TakenInv'
  BY <1>1 DEF TakenInv, RowsInv
<1> QED BY <1>2, <1>3, <1>4, <1>5

LEMMA RowsStay ==
  ASSUME RowsInv, Still, batch' = batch
  PROVE  RowsInv'
<1>1. ItemsInv' /\ ArchiveInv' /\ OwedInv' /\ TakenInv'
  BY StillItems
<1>2. FreshInv'
  BY DEF FreshInv, RowsInv, Still
<1>3. OrderInv'
  BY StillRows DEF OrderInv, RowsInv
<1>4. BatchInv'
  <2>1. present' = present
    BY DEF Still
  <2> QED BY <2>1, StillRows DEF BatchInv, RowsInv
<1> QED BY <1>1, <1>2, <1>3, <1>4 DEF RowsInv

\* A verdict a batch may get.
Deserved(w, v) ==
    /\ v # "none"
    /\ v \in Closed => Unsettled(w) = {}
    /\ v = "completed" => \A i \in Selected(w) : ~present[i]
    /\ v = "failed" => Retried(w) \/ \A i \in Selected(w) : present[i]

LEMMA BatchStep ==
  ASSUME RowsInv, RowTypes, Still, NEW w \in Jobs, NEW v, batch[w] # "none",
         Deserved(w, v), batch' = [batch EXCEPT ![w] = v]
  PROVE  RowsInv'
<1>1. ItemsInv' /\ ArchiveInv' /\ OwedInv' /\ TakenInv'
  BY StillItems
<1>2. batch'[w] = v /\ \A k \in Jobs : k # w => batch'[k] = batch[k]
  BY DEF RowTypes
<1>3. \A k \in Jobs : batch'[k] = "none" <=> batch[k] = "none"
  BY <1>2 DEF Deserved
<1>4. FreshInv'
  BY <1>3 DEF FreshInv, RowsInv, Still
<1>5. OrderInv'
  <2>1. ASSUME NEW j \in Jobs, NEW k \in Jobs, k < j, batch'[j] # "none"
        PROVE  Unsettled(k)' = {}
    BY <2>1, <1>3, StillRows DEF OrderInv, RowsInv
  <2>2. ASSUME NEW j \in Jobs, batch'[j] \in Closed PROVE Unsettled(j)' = {}
    BY <2>2, <1>2, StillRows DEF OrderInv, RowsInv, Deserved
  <2> QED BY <2>1, <2>2 DEF OrderInv
<1>6. BatchInv'
  <2>1. present' = present
    BY DEF Still
  <2>2. SUFFICES ASSUME NEW j \in Jobs
        PROVE  /\ batch'[j] = "completed" => \A i \in Selected(j)' : ~present'[i]
               /\ batch'[j] = "failed" => Retried(j)' \/ \A i \in Selected(j)' : present'[i]
    BY DEF BatchInv
  <2>3. CASE j = w
    BY <1>2, <2>1, <2>3, StillRows DEF Deserved
  <2>4. CASE j # w
    BY <1>2, <2>1, <2>4, StillRows DEF BatchInv, RowsInv
  <2> QED BY <2>3, <2>4
<1> QED BY <1>1, <1>4, <1>5, <1>6 DEF RowsInv

\* Nothing to dispose of and nothing unclear is left: what that says.
LEMMA AllSettled ==
  ASSUME RowTypes, ObjectTypes, RowsInv, NEW w \in Jobs,
         Unclear(w) = {}, Undisposed(w) = {}
  PROVE  /\ Unsettled(w) = {}
         /\ Deleted(w) = Selected(w) => \A i \in Selected(w) : ~present[i]
         /\ Deleted(w) = {} => Retried(w) \/ \A i \in Selected(w) : present[i]
<1>1. ASSUME NEW i \in Items PROVE bitem[w][i] \in {"none", "deleted", "blocked"}
  BY <1>1, RowValues DEF Unclear, Undisposed, ItemStates
<1>2. ASSUME NEW i \in Items
      PROVE  ItemOK(bitem[w][i], phase[w][i], proof[w][i], linked[w][i],
                    partial[w][i], entry[i], present[i], archiveRow[i])
  BY DEF ItemsInv, RowsInv
<1>3. Unsettled(w) = {}
  <2>1. SUFFICES ASSUME NEW i \in Items PROVE i \notin Unsettled(w)
    BY DEF Unsettled
  <2> QED BY <1>1, <1>2, RowValues, OpenRow, SettledRow DEF Owed, PromotionPending
<1>4. ASSUME Deleted(w) = Selected(w), NEW i \in Selected(w) PROVE ~present[i]
  <2>1. i \in Items /\ bitem[w][i] = "deleted"
    BY <1>4 DEF Deleted, Selected
  <2> QED BY <1>2, <2>1 DEF ItemOK
<1>5. ASSUME Deleted(w) = {}, NEW i \in Selected(w), ~present[i] PROVE Retried(w)
  <2>1. i \in Items /\ bitem[w][i] = "blocked"
    BY <1>1, <1>5 DEF Deleted, Selected
  <2>2. PICK k \in Jobs : k > w /\ bitem[k][i] # "none"
    BY <2>1, <1>5 DEF TakenInv, RowsInv
  <2>3. i \in Selected(k) \cap Selected(w)
    BY <2>1, <2>2 DEF Selected
  <2> QED BY <2>2, <2>3 DEF Retried
<1> QED BY <1>3, <1>4, <1>5

\* A closed batch that is pending again has an object a later batch took.
LEMMA PendingClosed ==
  ASSUME RowTypes, ObjectTypes, RowsInv, NEW w \in Jobs, Pending(w), batch[w] \in Closed
  PROVE  Retried(w)
<1>1. Unsettled(w) = {}
  BY DEF OrderInv, RowsInv
<1>2. PICK i \in Items : /\ bitem[w][i] # "none"
                         /\ \/ bitem[w][i] \notin {"deleted", "blocked"}
                            \/ entry[i] = "deleting"
                            \/ Owed(w, i)
  BY DEF Pending, Owed, PromotionPending
<1>3. entry[i] = "deleting" /\ bitem[w][i] \in {"deleted", "blocked"}
  BY <1>1, <1>2, SettledRow
<1>4. PICK k \in Jobs : bitem[k][i] \in {"deleting", "interrupted"}
  BY <1>3 DEF TakenInv, RowsInv
<1>5. i \in Unsettled(k)
  BY <1>4, SettledRow
<1>6. k # w /\ ~(k < w)
  <2>1. batch[w] # "none"
    BY DEF Closed
  <2> QED BY <1>1, <1>5, <2>1 DEF OrderInv, RowsInv
<1>7. k > w /\ i \in Selected(k) \cap Selected(w)
  BY <1>2, <1>4, <1>6, Numbers DEF Selected
<1> QED BY <1>7 DEF Retried

\* With no batch pending everything is settled, and no object is claimed.
LEMMA NothingPending ==
  ASSUME RowTypes, ObjectTypes, RowsInv, NoPendingRecovery, NEW j \in Jobs
  PROVE  /\ Unsettled(j) = {}
         /\ \A i \in Items : bitem[j][i] \in {"none", "deleted", "blocked"} /\ ~Owed(j, i)
<1>1. CASE batch[j] = "none"
  BY <1>1, FreshSettled, SettledRow DEF RowsInv, Unsettled
<1>2. CASE batch[j] # "none"
  <2>1. ASSUME NEW i \in Items
        PROVE  bitem[j][i] \in {"none", "deleted", "blocked"} /\ ~Owed(j, i)
    <3>1. bitem[j][i] = "none" \/ (bitem[j][i] \in {"deleted", "blocked"} /\ ~Owed(j, i))
      BY <1>2 DEF NoPendingRecovery, Pending, Owed, PromotionPending
    <3>2. ItemOK(bitem[j][i], phase[j][i], proof[j][i], linked[j][i],
                 partial[j][i], entry[i], present[i], archiveRow[i])
      BY DEF ItemsInv, RowsInv
    <3> QED BY <3>1, <3>2, RowValues, OpenRow DEF Owed, PromotionPending
  <2> QED BY <2>1, SettledRow DEF Unsettled
<1> QED BY <1>1, <1>2

\* A restore when no batch is pending.
LEMMA RestoreRows ==
  ASSUME RowTypes, ObjectTypes, RowsInv, NoPendingRecovery, NEW o \in Items,
         entry[o] = "quarantined", entry' = [entry EXCEPT ![o] = "restored"],
         UNCHANGED <<batch, bitem, phase, proof, linked, partial, present,
                     archiveRow, final>>
  PROVE  RowsInv'
<1>1. entry'[o] = "restored" /\ \A i \in Items : i # o => entry'[i] = entry[i]
  BY DEF ObjectTypes
<1>2. FreshInv' /\ OwedInv' /\ OrderInv' /\ BatchInv'
  BY DEF RowsInv, FreshInv, OwedInv, Owed, OrderInv, BatchInv, Unsettled,
         PromotionPending, Selected, Retried
<1>3. ItemsInv'
  <2>1. SUFFICES ASSUME NEW j \in Jobs, NEW i \in Items
        PROVE  ItemOK(bitem[j][i], phase[j][i], proof[j][i], linked[j][i],
                      partial[j][i], entry'[i], present[i], archiveRow[i])
    BY DEF ItemsInv
  <2>2. ItemOK(bitem[j][i], phase[j][i], proof[j][i], linked[j][i],
               partial[j][i], entry[i], present[i], archiveRow[i])
    BY DEF ItemsInv, RowsInv
  <2>3. bitem[j][i] \in {"none", "deleted", "blocked"} /\ ~Owed(j, i)
    BY NothingPending
  <2>4. CASE i = o
    <3>1. bitem[j][i] # "deleted"
      BY <2>2, <2>4 DEF ItemOK
    <3> QED BY <2>2, <2>3, <3>1 DEF ItemOK
  <2>5. CASE i # o
    BY <1>1, <2>2, <2>5
  <2> QED BY <2>4, <2>5
<1>4. ArchiveInv'
  BY <1>1 DEF ArchiveInv, RowsInv
<1>5. TakenInv'
  BY <1>1 DEF TakenInv, RowsInv
<1> QED BY <1>2, <1>3, <1>4, <1>5 DEF RowsInv

\* The rows of a new batch: what was selected is there and quarantined.
NewRows(w) ==
    /\ \A j \in Jobs : j # w => /\ batch'[j] = batch[j] /\ bitem'[j] = bitem[j]
                                /\ phase'[j] = phase[j]
    /\ batch'[w] = "waiting_for_uac"
    /\ \A i \in Items : \/ bitem'[w][i] = "none" /\ phase'[w][i] = "none"
                        \/ /\ bitem'[w][i] = "planned" /\ phase'[w][i] = "preflight"
                           /\ entry[i] = "quarantined"
    /\ UNCHANGED <<proof, linked, partial, entry, present, archiveRow, final>>

LEMMA NewBatchRows ==
  ASSUME RowTypes, ObjectTypes, RowsInv, NEW w \in Jobs, batch[w] = "none",
         \A k \in Jobs : Unsettled(k) = {},
         \A k \in Jobs : k > w => batch[k] = "none",
         NewRows(w)
  PROVE  /\ RowsInv'
         /\ \A i \in Items : ~proof[w][i] /\ ~linked[w][i]
         /\ \A k \in Jobs : Retried(k) => Retried(k)'
<1>1. \A i \in Items : bitem[w][i] = "none" /\ phase[w][i] = "none"
  BY DEF FreshInv, RowsInv
<1>2. ASSUME NEW i \in Items PROVE ~proof[w][i] /\ ~linked[w][i]
  <2>1. ItemOK(bitem[w][i], phase[w][i], proof[w][i], linked[w][i],
               partial[w][i], entry[i], present[i], archiveRow[i])
    BY DEF ItemsInv, RowsInv
  <2> QED BY <1>1, <2>1, RowValues, OpenRow
<1>3. ASSUME NEW j \in Jobs, NEW i \in Items
      PROVE  bitem[j][i] \in {"none", "deleted", "blocked"} /\ ~Owed(j, i)
  BY SettledRow
<1>4. FreshInv'
  BY DEF FreshInv, RowsInv, NewRows
<1>5. ItemsInv'
  <2>1. SUFFICES ASSUME NEW j \in Jobs, NEW i \in Items
        PROVE  ItemOK(bitem'[j][i], phase'[j][i], proof[j][i], linked[j][i],
                      partial[j][i], entry[i], present[i], archiveRow[i])
    BY DEF ItemsInv, NewRows
  <2>2. ItemOK(bitem[j][i], phase[j][i], proof[j][i], linked[j][i],
               partial[j][i], entry[i], present[i], archiveRow[i])
    BY DEF ItemsInv, RowsInv
  <2>3. CASE j # w
    BY <2>2, <2>3 DEF NewRows
  <2>4. CASE j = w
    <3>1. bitem[j][i] = "none" /\ phase[j][i] = "none" /\ ~proof[j][i] /\ ~linked[j][i]
      BY <1>1, <1>2, <2>4
    <3>2. CASE bitem'[w][i] = "none" /\ phase'[w][i] = "none"
      BY <2>2, <2>4, <3>1, <3>2
    <3>3. CASE bitem'[w][i] = "planned" /\ phase'[w][i] = "preflight" /\ entry[i] = "quarantined"
      BY <2>2, <2>4, <3>1, <3>3 DEF ItemOK, EarlyPhases, Intents
    <3> QED BY <3>2, <3>3 DEF NewRows
  <2> QED BY <2>3, <2>4
<1>6. ArchiveInv'
  BY DEF ArchiveInv, RowsInv, NewRows
<1>7. OwedInv'
  <2>1. \A i \in Items : ~(final[i] /\ ~archiveRow[i])
    BY <1>3 DEF OwedInv, RowsInv
  <2> QED BY <2>1 DEF OwedInv, NewRows
<1>8. ASSUME NEW k \in Jobs, k # w PROVE Unsettled(k)' = {}
  <2>1. Unsettled(k)' = Unsettled(k)
    BY <1>8 DEF Unsettled, PromotionPending, NewRows
  <2> QED BY <2>1
<1>9. OrderInv'
  <2>1. ASSUME NEW j \in Jobs, NEW k \in Jobs, k < j, batch'[j] # "none"
        PROVE  Unsettled(k)' = {}
    <3>1. k # w
      BY <2>1, Numbers DEF NewRows
    <3> QED BY <1>8, <3>1
  <2>2. ASSUME NEW j \in Jobs, batch'[j] \in Closed PROVE Unsettled(j)' = {}
    BY <1>8, <2>2 DEF NewRows, Closed
  <2> QED BY <2>1, <2>2 DEF OrderInv
<1>10. ASSUME NEW j \in Jobs, NEW i \in Items, bitem[j][i] # "none"
       PROVE  bitem'[j][i] # "none" /\ j # w
  BY <1>1, <1>10 DEF NewRows
<1>11. TakenInv'
  <2>1. ASSUME NEW j \in Jobs, NEW i \in Items, bitem'[j][i] = "blocked", ~present'[i]
        PROVE  \E k \in Jobs : k > j /\ bitem'[k][i] # "none"
    <3>1. bitem[j][i] = "blocked" /\ ~present[i]
      BY <2>1 DEF NewRows
    <3> QED BY <1>10, <3>1 DEF TakenInv, RowsInv
  <2>2. \A i \in Items : entry[i] # "deleting"
    BY <1>3 DEF TakenInv, RowsInv
  <2> QED BY <2>1, <2>2 DEF TakenInv, NewRows
<1>12. ASSUME NEW k \in Jobs, Retried(k) PROVE Retried(k)'
  <2>1. PICK l \in Jobs : l > k /\ Selected(l) \cap Selected(k) # {}
    BY <1>12 DEF Retried
  <2>2. PICK i \in Items : bitem[l][i] # "none" /\ bitem[k][i] # "none"
    BY <2>1 DEF Selected
  <2>3. bitem'[l][i] # "none" /\ bitem'[k][i] # "none"
    BY <1>10, <2>2
  <2> QED BY <2>1, <2>3 DEF Retried, Selected
<1>13. BatchInv'
  <2>1. SUFFICES ASSUME NEW j \in Jobs, j # w, batch[j] = batch'[j]
        PROVE  /\ batch[j] = "completed" => \A i \in Selected(j)' : ~present'[i]
               /\ batch[j] = "failed" => Retried(j)' \/ \A i \in Selected(j)' : present'[i]
    BY DEF BatchInv, NewRows
  <2>2. Selected(j)' = Selected(j)
    BY <2>1 DEF Selected, NewRows
  <2> QED BY <1>12, <2>2 DEF BatchInv, RowsInv, NewRows
<1> QED BY <1>2, <1>4, <1>5, <1>6, <1>7, <1>9, <1>11, <1>12, <1>13 DEF RowsInv

-----------------------------------------------------------------------------
(* The jobs and their grants.                                              *)

LEMMA EventStep ==
  ASSUME EventTypes, AsUsual \/ \E kind \in EventKinds \cup {"x"} : Happens(kind)
  PROVE  EventTypes'
<1>1. CASE AsUsual
  BY <1>1 DEF AsUsual, EventTypes
<1>2. CASE events < MaxEvents /\ events' = events + 1
  BY <1>2, Numbers DEF EventTypes
<1> QED BY <1>1, <1>2 DEF Happens

LEMMA FrameTypes ==
  ASSUME StoreTypes, SwitchTypes, PreviewTypes, WorkFrame
  PROVE  StoreTypes' /\ SwitchTypes' /\ PreviewTypes'
BY DEF WorkFrame, StoreTypes, SwitchTypes, PreviewTypes, store, switch

\* Every batch keeps being one, and what was taken again stays so.
Keeps ==
    /\ \A k \in Jobs : batch'[k] = "none" <=> batch[k] = "none"
    /\ \A k \in Jobs : Retried(k) => Retried(k)'

Unspent == issued' = issued /\ tokens' \subseteq tokens

LEMMA GrantsStay ==
  ASSUME GrantInv, Unspent, Keeps, UNCHANGED <<request, preview>>,
         pc' # "revalidate"
  PROVE  GrantInv'
<1>1. \A t \in tokens' : t.id <= issued'
  BY DEF GrantInv, Unspent
<1>2. \A s, t \in tokens' : s.id = t.id => s = t
  BY DEF GrantInv, Unspent
<1>3. ASSUME NEW j \in Jobs, batch'[j] # "none"
      PROVE  Spent(j)' /\ preview'[request'[j].binding.preview].consumed
  <2>1. Spent(j) /\ preview[request[j].binding.preview].consumed
    BY <1>3 DEF GrantInv, Keeps
  <2> QED BY <2>1 DEF Spent, Unspent
<1>4. \A p \in Previews : preview'[p].consumed => preview'[p].built
  BY DEF GrantInv
<1>5. GrantSpentOnce'
  BY DEF GrantInv, GrantSpentOnce, Keeps
<1> QED BY <1>1, <1>2, <1>3, <1>4, <1>5 DEF GrantInv

\* The worker of an open batch goes on.
LEMMA WorkerGoes ==
  ASSUME RowTypes, JobTypes, WorkTypes, OwnersInv, wjob \in Jobs,
         pc \in WorkerPcs \ OpeningPcs, pc' \in WorkerPcs \ OpeningPcs,
         UNCHANGED <<wjob, preview>>, UNCHANGED jobs, Unspent, Keeps,
         \A k \in Jobs : k # wjob => batch'[k] = batch[k],
         batch'[wjob] \in {"waiting_for_uac", "parent_disposition"}
  PROVE  OwnersInv'
<1>1. /\ job' = job /\ stop' = stop /\ request' = request /\ spawned' = spawned
      /\ begun' = begun
  BY DEF jobs
<1>2. job[wjob] = "begun" /\ wjob \notin spawned /\ begun # wjob
  BY DEF OwnersInv, JobInv
<1>3. pc' \notin RecoverPcs /\ pc' # "revalidate" /\ pc' \notin OpeningPcs /\ pc' \in WorkerPcs
  BY DEF WorkerPcs, RecoverPcs, OpeningPcs
<1>4. JobInv'
  <2>1. ASSUME NEW j \in Jobs, job[j] \in {"none", "created"} \/ j \in spawned \/ begun = j
        PROVE  batch'[j] = "none"
    BY <1>2, <2>1 DEF OwnersInv, JobInv
  <2>2. begun = 0 \/ pc \notin WorkerPcs
    BY DEF OwnersInv, JobInv
  <2> QED BY <1>1, <1>2, <1>3, <2>1, <2>2 DEF OwnersInv, JobInv, ActiveJob
<1>5. RequestInv'
  BY <1>1 DEF OwnersInv, RequestInv
<1>6. OpeningInv'
  BY <1>3 DEF OpeningInv
<1>7. ResultInv'
  <2>1. ASSUME NEW j \in Jobs, job[j] \in Closed, batch'[j] # "none"
        PROVE  Retried(j)' \/ batch'[j] = job[j]
    <3>1. j # wjob
      BY <1>2, <2>1 DEF Closed
    <3>2. batch'[j] = batch[j]
      BY <3>1
    <3> QED BY <2>1, <3>2 DEF OwnersInv, ResultInv, Keeps
  <2> QED BY <1>1, <1>3, <2>1 DEF ResultInv
<1>8. GrantInv'
  BY <1>1, <1>3, GrantsStay DEF OwnersInv
<1> QED BY <1>4, <1>5, <1>6, <1>7, <1>8 DEF OwnersInv

\* Recovery goes on with a batch, or leaves.
LEMMA RecoveryGoes ==
  ASSUME OwnersInv, Keeps, pc \in RecoverPcs,
         \/ pc' \in RecoverPcs /\ wjob' = wjob
         \/ pc' = "idle",
         wjob \in Jobs,
         UNCHANGED <<batch, preview>>, UNCHANGED jobs, Unspent
  PROVE  OwnersInv'
<1>1. /\ job' = job /\ stop' = stop /\ request' = request /\ spawned' = spawned
      /\ begun' = begun
  BY DEF jobs
<1>2. pc' \notin WorkerPcs /\ pc' # "revalidate" /\ pc' \notin OpeningPcs
  BY DEF WorkerPcs, RecoverPcs, OpeningPcs
<1>3. JobInv'
  BY <1>1, <1>2 DEF OwnersInv, JobInv, ActiveJob
<1>4. RequestInv'
  BY <1>1 DEF OwnersInv, RequestInv
<1>5. OpeningInv'
  BY <1>2 DEF OpeningInv
<1>6. ResultInv'
  <2>1. pc' \in RecoverPcs /\ batch'[wjob'] \in Closed => Retried(wjob)
    BY DEF OwnersInv, ResultInv, RecoverPcs
  <2>2. \A j \in Jobs : job[j] \in Closed /\ batch[j] # "none" =>
          Retried(j)' \/ batch[j] = job[j]
    BY DEF OwnersInv, ResultInv, Keeps
  <2>3. PICK w \in Jobs : w = wjob
    OBVIOUS
  <2>4. ASSUME pc' \in RecoverPcs, batch'[wjob'] \in Closed
        PROVE  Retried(wjob)'
    <3>1. wjob' = w
      BY <2>3, <2>4 DEF RecoverPcs
    <3>2. Retried(w)
      BY <2>1, <2>3, <2>4
    <3>3. Retried(w)'
      BY <3>2 DEF Keeps
    <3> QED BY <3>1, <3>3 DEF Retried, Selected
  <2> QED BY <1>1, <2>2, <2>4 DEF ResultInv
<1>7. GrantInv'
  BY <1>1, <1>2, GrantsStay DEF OwnersInv
<1> QED BY <1>3, <1>4, <1>5, <1>6, <1>7 DEF OwnersInv

\* The job ends and the worker is gone.
LEMMA WorkerEnds ==
  ASSUME RowTypes, JobTypes, WorkTypes, OwnersInv, WorkerInv,
         NEW result \in JobResults, Ends(result),
         pc \in WorkerPcs \ CommitPcs, partial' = partial,
         Unspent, preview' = preview, Keeps,
         \A k \in Jobs : k # wjob => batch'[k] = batch[k],
         result \in Closed /\ batch'[wjob] # "none" =>
             Retried(wjob) \/ batch'[wjob] = result
  PROVE  OwnersInv' /\ WorkerInv' /\ JobTypes' /\ WorkTypes'
<1>1. PICK w \in Jobs : w = wjob
  BY DEF WorkerInv, PlaceInv
<1>2. /\ job'[w] = result /\ \A j \in Jobs : j # w => job'[j] = job[j]
      /\ stop' = stop /\ request' = request /\ spawned' = spawned /\ begun' = begun
      /\ pc' = "idle" /\ wjob' = 0 /\ cur' = 0 /\ chunk' = {} /\ latched' = "none"
  BY <1>1 DEF Ends, JobTypes
<1>3. job[w] = "begun" /\ w \notin spawned /\ begun = 0
  BY <1>1 DEF OwnersInv, JobInv
<1>4. pc' \notin WorkerPcs /\ pc' \notin RecoverPcs /\ pc' \notin OpeningPcs
      /\ pc' \notin CommitPcs /\ pc' \notin RemovePcs
  BY <1>2 DEF WorkerPcs, RecoverPcs, OpeningPcs, CommitPcs, RemovePcs
<1>5. result \notin {"none", "created", "begun"}
  BY DEF JobResults, Closed
<1>6. JobInv'
  <2>1. ASSUME NEW j \in Jobs, NEW k \in Jobs, k < j, job'[j] # "none"
        PROVE  job'[k] # "none"
    <3>1. job[j] # "none"
      BY <1>2, <1>3, <2>1
    <3>2. job[k] # "none"
      BY <2>1, <3>1 DEF OwnersInv, JobInv
    <3> QED BY <1>2, <1>5, <3>2
  <2>2. ASSUME NEW j \in Jobs, NEW k \in Jobs, k < j, ActiveJob(k)'
        PROVE  job'[j] = "none"
    <3>1. k # w /\ ActiveJob(k)
      BY <1>2, <1>5, <2>2 DEF ActiveJob
    <3>2. job[j] = "none"
      BY <2>2, <3>1 DEF OwnersInv, JobInv
    <3> QED BY <1>2, <1>3, <3>2
  <2>3. ASSUME NEW j \in Jobs, job'[j] \in {"none", "created"} \/ j \in spawned \/ begun = j
        PROVE  batch'[j] = "none"
    <3>1. j # w
      BY <1>2, <1>3, <1>5, <2>3, Numbers
    <3>2. job[j] \in {"none", "created"} \/ j \in spawned \/ begun = j
      BY <1>2, <2>3, <3>1
    <3>3. batch[j] = "none"
      BY <3>2 DEF OwnersInv, JobInv
    <3> QED BY <1>1, <3>1, <3>3
  <2>4. \A j \in spawned : job'[j] \notin {"none", "begun"}
    BY <1>2, <1>3 DEF OwnersInv, JobInv, JobTypes
  <2> QED BY <1>2, <1>3, <1>4, <2>1, <2>2, <2>3, <2>4 DEF JobInv
<1>7. RequestInv'
  BY <1>2, <1>3 DEF OwnersInv, RequestInv
<1>8. OpeningInv'
  BY <1>4 DEF OpeningInv
<1>9. ResultInv'
  <2>1. ASSUME NEW j \in Jobs, job'[j] \in Closed, batch'[j] # "none"
        PROVE  Retried(j)' \/ batch'[j] = job'[j]
    <3>1. CASE j = w
      BY <1>1, <1>2, <2>1, <3>1 DEF Keeps
    <3>2. CASE j # w
      BY <1>1, <1>2, <2>1, <3>2 DEF OwnersInv, ResultInv, Keeps
    <3> QED BY <3>1, <3>2
  <2> QED BY <1>4, <2>1 DEF ResultInv
<1>10. GrantInv'
  BY <1>2, GrantsStay DEF OwnersInv
<1>11. ArmInv'
  <2>1. \A j \in Jobs, i \in Items : partial[j][i] # "armed"
    BY DEF WorkerInv, ArmInv
  <2> QED BY <2>1 DEF ArmInv
<1>12. PlaceInv' /\ StageInv' /\ CurrentInv' /\ RecoverInv'
  BY <1>2, <1>4 DEF PlaceInv, StageInv, CurrentInv, RecoverInv
<1>13. JobTypes'
  BY DEF Ends, JobTypes
<1>14. WorkTypes'
  BY Numbers DEF Ends, WorkTypes, Pcs
<1> QED BY <1>6, <1>7, <1>8, <1>9, <1>10, <1>11, <1>12, <1>13, <1>14
        DEF OwnersInv, WorkerInv

\* The work is as it was.
LEMMA QuietWorker ==
  ASSUME WorkerInv, UNCHANGED <<work, batch, items, partial, archiveRow, final, present>>,
         entry' = entry \/ pc = "idle",
         enabled' = enabled \/ pc = "idle" \/ enabled'
  PROVE  WorkerInv'
<1>1. /\ pc' = pc /\ wjob' = wjob /\ cur' = cur /\ chunk' = chunk /\ latched' = latched
      /\ bitem' = bitem /\ phase' = phase /\ proof' = proof /\ linked' = linked
  BY DEF work, items
<1>2. PlaceInv'
  BY <1>1 DEF WorkerInv, PlaceInv, WorkerPcs
<1>3. ArmInv'
  BY <1>1 DEF WorkerInv, ArmInv
<1>4. StageInv'
  BY <1>1 DEF WorkerInv, StageInv, Untouched, Waiting, InChunk, Committing, Removing,
              Aside, Raw, NotGiven, Undisposed
<1>5. CurrentInv'
  BY <1>1 DEF WorkerInv, CurrentInv, Raw, Owed, PromotionPending
<1>6. RecoverInv'
  BY <1>1 DEF WorkerInv, RecoverInv, Owed, PromotionPending
<1> QED BY <1>2, <1>3, <1>4, <1>5, <1>6 DEF WorkerInv

\* Neither the rows nor the work change.
Quiet == UNCHANGED <<held, archives, batch, items, work>>

LEMMA QuietStep ==
  ASSUME IInv, Quiet, enabled' = enabled \/ pc = "idle" \/ enabled'
  PROVE  /\ RowsInv' /\ WorkerInv' /\ Keeps
         /\ RowTypes' /\ ObjectTypes' /\ OpTypes' /\ WorkTypes'
         /\ \A k \in Jobs : Unsettled(k)' = Unsettled(k)
         /\ \A k \in Jobs : Retried(k)' <=> Retried(k)
<1>1. /\ pc' = pc /\ wjob' = wjob /\ cur' = cur /\ chunk' = chunk /\ latched' = latched
      /\ outcome' = outcome
      /\ bitem' = bitem /\ phase' = phase /\ proof' = proof /\ linked' = linked
      /\ opItem' = opItem /\ batch' = batch
      /\ entry' = entry /\ present' = present
      /\ archiveRow' = archiveRow /\ final' = final /\ partial' = partial
  BY DEF Quiet, work, items, held, archives
<1>2. Still
  BY <1>1 DEF Still
<1>3. RowsInv'
  BY <1>1, <1>2, RowsStay DEF IInv
<1>4. WorkerInv'
  BY <1>1, QuietWorker DEF IInv, work, items
<1>5. Keeps
  BY <1>1, <1>2, StillRows DEF Keeps
<1>6. RowTypes' /\ ObjectTypes' /\ OpTypes' /\ WorkTypes'
  BY <1>1, TypeGroups DEF IInv, RowTypes, ObjectTypes, OpTypes, WorkTypes
<1> QED BY <1>2, <1>3, <1>4, <1>5, <1>6, StillRows

LEMMA QuietOwners ==
  ASSUME IInv, Quiet, UNCHANGED jobs
  PROVE  JobInv' /\ OpeningInv' /\ ResultInv' /\ JobTypes'
<1>1. /\ job' = job /\ stop' = stop /\ request' = request /\ spawned' = spawned
      /\ begun' = begun
  BY DEF jobs
<1>2. pc' = pc /\ wjob' = wjob /\ batch' = batch /\ bitem' = bitem /\ phase' = phase
      /\ proof' = proof /\ linked' = linked
  BY DEF Quiet, work, items
<1>3. JobInv'
  BY <1>1, <1>2 DEF IInv, OwnersInv, JobInv, ActiveJob
<1>4. OpeningInv'
  BY <1>2 DEF IInv, OwnersInv, OpeningInv, Unsettled, PromotionPending
<1>5. ResultInv'
  BY <1>1, <1>2 DEF IInv, OwnersInv, ResultInv, Retried, Selected
<1>6. JobTypes'
  BY <1>1, TypeGroups DEF IInv, JobTypes
<1> QED BY <1>3, <1>4, <1>5, <1>6

LEMMA BatchHasJob ==
  ASSUME IInv, NEW j \in Jobs, batch[j] # "none"
  PROVE  /\ job[j] # "none"
         /\ request[j].binding \in Bindings /\ request[j].binding.preview \in Previews
<1>1. job[j] # "none"
  BY DEF IInv, OwnersInv, JobInv
<1>2. request[j].binding \in Bindings
  BY <1>1 DEF IInv, OwnersInv, RequestInv
<1> QED BY <1>1, <1>2 DEF Bindings

LEMMA IssueGrants ==
  ASSUME IInv, NEW action \in GrantActions, NEW b \in Bindings \cup {NoBinding},
         Issue(action, b), UNCHANGED <<request, preview, batch, pc, wjob>>
  PROVE  GrantInv' /\ StoreTypes'
<1>1. GrantInv /\ StoreTypes
  BY TypeGroups DEF IInv, OwnersInv
<1>2. now' = now
  BY DEF Issue
<1>3. \A t \in Outstanding : t \in tokens
  BY DEF Outstanding
<1>4. CASE tokens' = Outstanding /\ issued' = issued
  <2>1. tokens' \subseteq tokens
    BY <1>3, <1>4
  <2>2. StoreTypes'
    BY <1>1, <1>2, <1>4, <2>1 DEF StoreTypes
  <2>3. GrantInv'
    BY <1>1, <1>4, <2>1 DEF GrantInv, Spent, GrantSpentOnce
  <2> QED BY <2>2, <2>3
<1>5. ASSUME NEW new, new = [id |-> issued + 1, action |-> action, binding |-> b,
                             expires |-> Expiry],
             tokens' = Outstanding \cup {new}, issued' = issued + 1
      PROVE  GrantInv' /\ StoreTypes'
  <2>1. issued < MaxIssued /\ issued \in Nat /\ now \in 0..MaxNow
    BY <1>1, Numbers DEF Issue, StoreTypes
  <2>2. new \in Grants(Bindings \cup {NoBinding})
    BY <1>5, <2>1, Numbers DEF Grants, Expiry
  <2>3. StoreTypes'
    BY <1>1, <1>2, <1>3, <1>5, <2>1, <2>2, Numbers DEF StoreTypes
  <2>4. \A t \in tokens : t.id \in Nat /\ t.id <= issued
    BY <1>1, Numbers DEF StoreTypes, Grants, GrantInv
  <2>5. new.id = issued + 1
    BY <1>5
  <2>6. \A t \in tokens' : t.id <= issued'
    BY <1>3, <1>5, <2>1, <2>4, <2>5
  <2>7. \A s, t \in tokens' : s.id = t.id => s = t
    <3>1. \A s, t \in tokens : s.id = t.id => s = t
      BY <1>1 DEF GrantInv
    <3>2. \A t \in tokens : t.id # new.id
      BY <2>1, <2>4, <2>5
    <3> QED BY <1>3, <1>5, <3>1, <3>2
  <2>8. ASSUME NEW j \in Jobs, Spent(j) PROVE Spent(j)'
    <3>1. request[j].token \in Nat
      BY TypeGroups, Numbers DEF IInv, JobTypes
    <3>2. request[j].token <= issued /\ \A t \in tokens : t.id # request[j].token
      BY <2>8 DEF Spent
    <3>3. new.id # request[j].token
      BY <2>1, <2>5, <3>1, <3>2
    <3> QED BY <1>3, <1>5, <2>1, <3>1, <3>2, <3>3 DEF Spent
  <2>9. pc = "revalidate" => wjob \in Jobs
    BY DEF IInv, WorkerInv, PlaceInv, WorkerPcs
  <2>10. pc = "revalidate" => Spent(wjob)'
    <3>1. ASSUME pc = "revalidate" PROVE Spent(wjob)'
      <4>1. PICK w \in Jobs : w = wjob
        BY <2>9, <3>1
      <4>2. Spent(w)
        BY <1>1, <3>1, <4>1 DEF GrantInv
      <4>3. Spent(w)'
        BY <2>8, <4>2
      <4> QED BY <4>1, <4>3 DEF Spent
    <3> QED BY <3>1
  <2>11. GrantInv'
    <3>1. \A j \in Jobs : batch'[j] # "none" =>
             Spent(j)' /\ preview'[request'[j].binding.preview].consumed
      BY <1>1, <2>8 DEF GrantInv
    <3>2. GrantSpentOnce'
      BY <1>1 DEF GrantInv, GrantSpentOnce
    <3>3. pc' = "revalidate" => \A k \in Jobs : batch'[k] # "none" =>
             request'[k].token # request'[wjob'].token
      BY <1>1 DEF GrantInv
    <3>4. \A p \in Previews : preview'[p].consumed => preview'[p].built
      BY <1>1 DEF GrantInv
    <3> QED BY <2>6, <2>7, <2>10, <3>1, <3>2, <3>3, <3>4 DEF GrantInv
  <2> QED BY <2>3, <2>11
<1> QED BY <1>4, <1>5 DEF Issue

LEMMA ConfirmStep ==
  ASSUME IInv, NEW b \in Bindings, Confirm(b)
  PROVE  IInv'
<1>1. Quiet /\ UNCHANGED jobs /\ UNCHANGED switch /\ preview' = preview /\ events' = events
  BY DEF Confirm, Quiet
<1>2. enabled' = enabled
  BY <1>1 DEF switch
<1>3. request' = request /\ batch' = batch /\ pc' = pc /\ wjob' = wjob /\ job' = job
  BY <1>1 DEF Quiet, jobs, work
<1>4. Issue("remove", b)
  BY DEF Confirm
<1>5. GrantInv' /\ StoreTypes'
  BY <1>1, <1>3, <1>4, IssueGrants DEF GrantActions
<1>6. RequestInv'
  BY <1>1, <1>3 DEF IInv, OwnersInv, RequestInv
<1>7. OwnersInv' /\ JobTypes'
  BY <1>1, <1>5, <1>6, QuietOwners DEF OwnersInv
<1>8. /\ RowsInv' /\ WorkerInv'
      /\ RowTypes' /\ ObjectTypes' /\ OpTypes' /\ WorkTypes'
  BY <1>1, <1>2, QuietStep
<1>9. SwitchTypes' /\ PreviewTypes' /\ EventTypes'
  BY <1>1, TypeGroups DEF IInv, SwitchTypes, switch, PreviewTypes, EventTypes
<1>10. TypeOK'
  BY <1>5, <1>7, <1>8, <1>9, TypesNext
<1> QED BY <1>7, <1>8, <1>10 DEF IInv

LEMMA IssueEnterStep ==
  ASSUME IInv, IssueEnter
  PROVE  IInv'
<1>1. Quiet /\ UNCHANGED jobs /\ UNCHANGED switch /\ preview' = preview
  BY DEF IssueEnter, Quiet
<1>2. enabled' = enabled
  BY <1>1 DEF switch
<1>3. request' = request /\ batch' = batch /\ pc' = pc /\ wjob' = wjob /\ job' = job
  BY <1>1 DEF Quiet, jobs, work
<1>4. Issue("enter", NoBinding)
  BY DEF IssueEnter
<1>5. GrantInv' /\ StoreTypes'
  BY <1>1, <1>3, <1>4, IssueGrants DEF GrantActions
<1>6. RequestInv'
  BY <1>1, <1>3 DEF IInv, OwnersInv, RequestInv
<1>7. OwnersInv' /\ JobTypes'
  BY <1>1, <1>5, <1>6, QuietOwners DEF OwnersInv
<1>8. /\ RowsInv' /\ WorkerInv'
      /\ RowTypes' /\ ObjectTypes' /\ OpTypes' /\ WorkTypes'
  BY <1>1, <1>2, QuietStep
<1>9. SwitchTypes' /\ PreviewTypes' /\ EventTypes'
  BY <1>1, TypeGroups, EventStep DEF IInv, SwitchTypes, switch, PreviewTypes, IssueEnter,
     EventKinds
<1>10. TypeOK'
  BY <1>5, <1>7, <1>8, <1>9, TypesNext
<1> QED BY <1>7, <1>8, <1>10 DEF IInv

LEMMA AdvanceStep ==
  ASSUME IInv, Advance
  PROVE  IInv'
<1>1. Quiet /\ UNCHANGED jobs /\ UNCHANGED switch /\ preview' = preview
  BY DEF Advance, Quiet
<1>2. enabled' = enabled
  BY <1>1 DEF switch
<1>3. request' = request /\ batch' = batch /\ pc' = pc /\ wjob' = wjob /\ job' = job
  BY <1>1 DEF Quiet, jobs, work
<1>4. tokens' = tokens /\ issued' = issued /\ now < MaxNow /\ now' = now + 1
  BY DEF Advance, Tick
<1>5. GrantInv'
  BY <1>1, <1>3, <1>4 DEF IInv, OwnersInv, GrantInv, Spent, GrantSpentOnce
<1>6. StoreTypes'
  BY <1>4, TypeGroups, Numbers DEF IInv, StoreTypes
<1>7. RequestInv'
  BY <1>1, <1>3 DEF IInv, OwnersInv, RequestInv
<1>8. OwnersInv' /\ JobTypes'
  BY <1>1, <1>5, <1>7, QuietOwners DEF OwnersInv
<1>9. /\ RowsInv' /\ WorkerInv'
      /\ RowTypes' /\ ObjectTypes' /\ OpTypes' /\ WorkTypes'
  BY <1>1, <1>2, QuietStep
<1>10. SwitchTypes' /\ PreviewTypes' /\ EventTypes'
  BY <1>1, TypeGroups, EventStep DEF IInv, SwitchTypes, switch, PreviewTypes, Advance,
     EventKinds
<1>11. TypeOK'
  BY <1>6, <1>8, <1>9, <1>10, TypesNext
<1> QED BY <1>8, <1>9, <1>11 DEF IInv

LEMMA BuildPreviewStep ==
  ASSUME IInv, NEW p \in Previews, BuildPreview(p)
  PROVE  IInv'
<1>1. Quiet /\ UNCHANGED jobs /\ UNCHANGED switch /\ UNCHANGED store /\ events' = events
  BY DEF BuildPreview, Quiet
<1>2. enabled' = enabled /\ issued' = issued /\ tokens' = tokens /\ now' = now
  BY <1>1 DEF switch, store
<1>3. /\ request' = request /\ batch' = batch /\ pc' = pc /\ wjob' = wjob /\ job' = job
  BY <1>1 DEF Quiet, jobs, work
<1>4. preview \in [Previews -> [built : BOOLEAN, expires : 0..(MaxNow + Ttl),
                                rows : [Items -> {"out", "held", "archived"}],
                                consumed : BOOLEAN]]
      /\ now \in 0..MaxNow
  BY TypeGroups DEF IInv, PreviewTypes, StoreTypes
<1>5. ~preview[p].built /\ pc = "idle"
  BY DEF BuildPreview, GateFree
<1>6. preview' = [preview EXCEPT ![p] =
                    [built |-> TRUE, expires |-> now + Ttl, rows |-> RowsNow,
                     consumed |-> FALSE]]
  BY DEF BuildPreview
<1>7. RowsNow \in [Items -> {"out", "held", "archived"}]
  BY DEF RowsNow, Row
<1>8. now + Ttl \in 0..(MaxNow + Ttl)
  BY <1>4, Numbers
<1>9. PreviewTypes'
  BY <1>4, <1>6, <1>7, <1>8 DEF PreviewTypes
<1>10. /\ preview'[p].built /\ ~preview'[p].consumed
       /\ \A q \in Previews : q # p => preview'[q] = preview[q]
  BY <1>4, <1>6
<1>11. RequestInv'
  <2>1. ASSUME NEW j \in Jobs, job[j] # "none"
        PROVE  LET b == request[j].binding IN
                 /\ b \in Bindings /\ preview'[b.preview].built
                 /\ \A i \in b.selected : preview'[b.preview].rows[i] # "out"
    <3> DEFINE b == request[j].binding
    <3>1. /\ b \in Bindings /\ preview[b.preview].built
          /\ \A i \in b.selected : preview[b.preview].rows[i] # "out"
      BY <2>1 DEF IInv, OwnersInv, RequestInv
    <3>2. b.preview \in Previews
      BY <3>1 DEF Bindings
    <3>3. b.preview # p
      BY <1>5, <3>1
    <3> QED BY <1>10, <3>1, <3>2, <3>3
  <2> QED BY <1>3, <2>1 DEF RequestInv
<1>12. GrantInv'
  <2>1. ASSUME NEW j \in Jobs, batch[j] # "none"
        PROVE  Spent(j)' /\ preview'[request[j].binding.preview].consumed
    <3>1. Spent(j) /\ preview[request[j].binding.preview].consumed
      BY <2>1 DEF IInv, OwnersInv, GrantInv
    <3>2. request[j].binding.preview \in Previews
      BY <2>1, BatchHasJob
    <3>3. request[j].binding.preview # p
      BY <1>5, <3>1, <3>2 DEF IInv, OwnersInv, GrantInv
    <3> QED BY <1>2, <1>3, <1>10, <3>1, <3>2, <3>3 DEF Spent
  <2>2. \A q \in Previews : preview'[q].consumed => preview'[q].built
    BY <1>10 DEF IInv, OwnersInv, GrantInv
  <2>3. pc' # "revalidate"
    BY <1>3, <1>5
  <2>4. GrantSpentOnce'
    BY <1>3 DEF IInv, OwnersInv, GrantInv, GrantSpentOnce
  <2>5. /\ \A t \in tokens' : t.id <= issued'
        /\ \A s, t \in tokens' : s.id = t.id => s = t
    BY <1>2 DEF IInv, OwnersInv, GrantInv
  <2> QED BY <1>3, <2>1, <2>2, <2>3, <2>4, <2>5 DEF GrantInv
<1>13. OwnersInv' /\ JobTypes'
  BY <1>1, <1>11, <1>12, QuietOwners DEF OwnersInv
<1>14. /\ RowsInv' /\ WorkerInv'
       /\ RowTypes' /\ ObjectTypes' /\ OpTypes' /\ WorkTypes'
  BY <1>1, <1>2, QuietStep
<1>15. SwitchTypes' /\ StoreTypes' /\ EventTypes'
  BY <1>1, TypeGroups DEF IInv, SwitchTypes, switch, StoreTypes, store, EventTypes
<1>16. TypeOK'
  BY <1>9, <1>13, <1>14, <1>15, TypesNext
<1> QED BY <1>13, <1>14, <1>16 DEF IInv

\* The grants and reviews are as they were, the work does not move.
LEMMA QuietGrants ==
  ASSUME IInv, UNCHANGED <<store, preview, request, batch, pc, wjob>>
  PROVE  GrantInv' /\ StoreTypes' /\ PreviewTypes'
<1>1. issued' = issued /\ tokens' = tokens /\ now' = now
  BY DEF store
<1>2. GrantInv'
  BY <1>1 DEF IInv, OwnersInv, GrantInv, Spent, GrantSpentOnce
<1>3. StoreTypes' /\ PreviewTypes'
  BY <1>1, TypeGroups DEF IInv, StoreTypes, PreviewTypes
<1> QED BY <1>2, <1>3

LEMMA QuietOpening ==
  ASSUME IInv, Quiet
  PROVE  OpeningInv'
<1>1. pc' = pc /\ bitem' = bitem /\ phase' = phase /\ proof' = proof /\ linked' = linked
  BY DEF Quiet, work, items
<1> QED BY <1>1 DEF IInv, OwnersInv, OpeningInv, Unsettled, PromotionPending

LEMMA StartJobStep ==
  ASSUME IInv, NEW j \in Jobs, NEW id \in 1..MaxIssued, NEW b \in Bindings,
         StartJob(j, id, b)
  PROVE  IInv'
<1>1. Quiet /\ UNCHANGED <<store, switch, preview, stop, begun>>
  BY DEF StartJob, Quiet
<1>2. /\ pc = "idle" /\ job[j] = "none" /\ Bindable(b)
      /\ \A k \in Jobs : k < j => job[k] # "none"
      /\ \A k \in Jobs : ~ActiveJob(k)
      /\ request' = [request EXCEPT ![j] = [token |-> id, binding |-> b]]
  BY DEF StartJob, GateFree
<1>3. PICK r \in {"created", "error"} :
         /\ job' = [job EXCEPT ![j] = r]
         /\ r = "created" => spawned' = spawned \cup {j}
         /\ r = "error" => spawned' = spawned
  BY DEF StartJob
<1>4. JobTypes
  BY TypeGroups DEF IInv
<1>5. batch[j] = "none" /\ j \notin spawned /\ begun # j
  BY <1>2, Numbers DEF IInv, OwnersInv, JobInv
<1>6. /\ pc' = pc /\ wjob' = wjob /\ batch' = batch /\ begun' = begun
      /\ bitem' = bitem /\ enabled' = enabled
  BY <1>1 DEF Quiet, work, items, switch
<1>7. /\ job'[j] = r /\ \A k \in Jobs : k # j => job'[k] = job[k]
      /\ request'[j] = [token |-> id, binding |-> b]
      /\ \A k \in Jobs : k # j => request'[k] = request[k]
      /\ r \notin {"none", "begun"}
  BY <1>2, <1>3, <1>4 DEF JobTypes
<1>8. JobInv'
  <2>1. ASSUME NEW l \in Jobs, NEW k \in Jobs, k < l, job'[l] # "none"
        PROVE  job'[k] # "none"
    <3>1. CASE l = j
      BY <1>2, <1>7, <2>1, <3>1
    <3>2. CASE l # j
      <4>1. job[k] # "none"
        BY <1>7, <2>1, <3>2 DEF IInv, OwnersInv, JobInv
      <4> QED BY <1>7, <4>1
    <3> QED BY <3>1, <3>2
  <2>2. ASSUME NEW l \in Jobs, NEW k \in Jobs, k < l, ActiveJob(k)'
        PROVE  job'[l] = "none"
    <3>1. k = j
      BY <1>2, <1>7, <2>2 DEF ActiveJob
    <3>2. l # j
      BY <2>2, <3>1, Numbers
    <3>3. job[l] = "none"
      BY <1>2, <2>2, <3>1 DEF IInv, OwnersInv, JobInv
    <3> QED BY <1>7, <3>2, <3>3
  <2>3. ASSUME NEW l \in Jobs, job'[l] \in {"none", "created"} \/ l \in spawned' \/ begun' = l
        PROVE  batch'[l] = "none"
    <3>1. CASE l = j
      BY <1>5, <1>6, <3>1
    <3>2. CASE l # j
      <4>1. job[l] \in {"none", "created"} \/ l \in spawned \/ begun = l
        BY <1>3, <1>6, <1>7, <2>3, <3>2
      <4> QED BY <1>6, <4>1 DEF IInv, OwnersInv, JobInv
    <3> QED BY <3>1, <3>2
  <2>4. ASSUME NEW l \in spawned' PROVE job'[l] \notin {"none", "begun"}
    <3>1. CASE l = j
      BY <1>7, <3>1
    <3>2. CASE l # j
      BY <1>3, <1>4, <1>7, <2>4, <3>2 DEF IInv, OwnersInv, JobInv, JobTypes
    <3> QED BY <3>1, <3>2
  <2>5. begun' # 0 => job'[begun'] = "begun" /\ pc' \notin WorkerPcs
    BY <1>4, <1>5, <1>6, <1>7 DEF IInv, OwnersInv, JobInv, JobTypes
  <2>6. pc' \notin WorkerPcs /\ pc' \notin OpeningPcs
    BY <1>2, <1>6 DEF WorkerPcs, OpeningPcs
  <2> QED BY <2>1, <2>2, <2>3, <2>4, <2>5, <2>6 DEF JobInv
<1>9. RequestInv'
  <2>1. /\ preview[b.preview].built
        /\ \A i \in b.selected : preview[b.preview].rows[i] # "out"
    BY <1>2 DEF Bindable, Usable
  <2>2. ASSUME NEW k \in Jobs, job'[k] # "none"
        PROVE  LET c == request'[k].binding IN
                 /\ c \in Bindings /\ preview[c.preview].built
                 /\ \A i \in c.selected : preview[c.preview].rows[i] # "out"
    <3>1. CASE k = j
      BY <1>7, <2>1, <3>1
    <3>2. CASE k # j
      BY <1>7, <2>2, <3>2 DEF IInv, OwnersInv, RequestInv
    <3> QED BY <3>1, <3>2
  <2> QED BY <1>1, <2>2 DEF RequestInv
<1>10. OpeningInv'
  BY <1>1, QuietOpening
<1>11. ResultInv'
  <2>1. \A k \in Jobs : Retried(k)' <=> Retried(k)
    BY <1>1, QuietStep, <1>6
  <2>2. pc' \notin RecoverPcs
    BY <1>2, <1>6 DEF RecoverPcs
  <2>3. ASSUME NEW k \in Jobs, job'[k] \in Closed, batch'[k] # "none"
        PROVE  Retried(k) \/ batch'[k] = job'[k]
    <3>1. k # j
      BY <1>5, <1>6, <2>3
    <3> QED BY <1>6, <1>7, <2>3, <3>1 DEF IInv, OwnersInv, ResultInv
  <2> QED BY <2>1, <2>2, <2>3 DEF ResultInv
<1>12. GrantInv'
  <2>1. issued' = issued /\ tokens' = tokens /\ preview' = preview
    BY <1>1 DEF store
  <2>2. \A k \in Jobs : batch[k] # "none" => request'[k] = request[k]
    BY <1>5, <1>7
  <2>3. pc' # "revalidate"
    BY <1>2, <1>6
  <2>4. GrantSpentOnce'
    BY <1>6, <2>2 DEF IInv, OwnersInv, GrantInv, GrantSpentOnce
  <2> QED BY <1>6, <2>1, <2>2, <2>3, <2>4 DEF IInv, OwnersInv, GrantInv, Spent
<1>13. JobTypes'
  <2>1. job' \in [Jobs -> {"none", "created", "begun", "lost"} \cup JobResults]
    BY <1>3, <1>4 DEF JobTypes, JobResults
  <2>2. [token |-> id, binding |-> b] \in
          [token : 0..MaxIssued, binding : Bindings \cup {NoBinding}]
    BY Numbers
  <2>3. request' \in [Jobs -> [token : 0..MaxIssued,
                               binding : Bindings \cup {NoBinding}]]
    BY <1>2, <1>4, <2>2 DEF JobTypes
  <2> QED BY <1>1, <1>3, <1>4, <2>1, <2>3 DEF JobTypes
<1>14. /\ RowsInv' /\ WorkerInv'
       /\ RowTypes' /\ ObjectTypes' /\ OpTypes' /\ WorkTypes'
  BY <1>1, <1>6, QuietStep
<1>15. SwitchTypes' /\ StoreTypes' /\ PreviewTypes'
  BY <1>1, TypeGroups DEF IInv, SwitchTypes, switch, StoreTypes, store, PreviewTypes
<1>16. EventTypes'
  BY TypeGroups, EventStep DEF IInv, StartJob, EventKinds
<1>17. TypeOK'
  BY <1>13, <1>14, <1>15, <1>16, TypesNext
<1> QED BY <1>8, <1>9, <1>10, <1>11, <1>12, <1>14, <1>17 DEF IInv, OwnersInv

\* request_stop changes what a job that has not begun is, and its flag.
LEMMA StopOwners ==
  ASSUME IInv, Quiet, NEW j \in Jobs, RequestStop(j),
         UNCHANGED <<store, preview, request, spawned, begun>>
  PROVE  OwnersInv' /\ JobTypes'
<1>1. JobTypes
  BY TypeGroups DEF IInv
<1>2. /\ \A k \in Jobs : job'[k] = job[k] \/ (k = j /\ job[k] = "created" /\ job'[k] = "cancelled")
      /\ JobTypes'
  BY <1>1 DEF RequestStop, JobTypes, JobResults, Closed, ActiveJob
<1>3. pc' = pc /\ wjob' = wjob /\ batch' = batch
  BY DEF Quiet, work
<1>4. JobInv'
  <2>1. ASSUME NEW l \in Jobs, NEW k \in Jobs, k < l, job'[l] # "none"
        PROVE  job'[k] # "none"
    BY <1>2, <2>1 DEF IInv, OwnersInv, JobInv
  <2>2. ASSUME NEW l \in Jobs, NEW k \in Jobs, k < l, ActiveJob(k)'
        PROVE  job'[l] = "none"
    <3>1. ActiveJob(k)
      BY <1>2, <2>2 DEF ActiveJob
    <3>2. job[l] = "none"
      BY <2>2, <3>1 DEF IInv, OwnersInv, JobInv
    <3> QED BY <1>2, <3>2
  <2>3. ASSUME NEW l \in Jobs, job'[l] \in {"none", "created"} \/ l \in spawned \/ begun = l
        PROVE  batch[l] = "none"
    BY <1>2, <2>3 DEF IInv, OwnersInv, JobInv
  <2>4. \A l \in spawned : job'[l] \notin {"none", "begun"}
    BY <1>1, <1>2 DEF IInv, OwnersInv, JobInv, JobTypes
  <2>5. begun # 0 => job'[begun] = "begun" /\ pc \notin WorkerPcs
    BY <1>1, <1>2 DEF IInv, OwnersInv, JobInv, JobTypes
  <2>6. pc \in WorkerPcs => job'[wjob] = "begun"
    BY <1>2 DEF IInv, OwnersInv, JobInv, WorkerInv, PlaceInv
  <2>7. /\ pc \in OpeningPcs => batch[wjob] = "none"
        /\ pc \in WorkerPcs \ OpeningPcs =>
             batch[wjob] \in {"waiting_for_uac", "parent_disposition"}
    BY DEF IInv, OwnersInv, JobInv
  <2> QED BY <1>3, <2>1, <2>2, <2>3, <2>4, <2>5, <2>6, <2>7 DEF JobInv
<1>5. RequestInv'
  BY <1>2 DEF IInv, OwnersInv, RequestInv
<1>6. OpeningInv'
  BY QuietOpening
<1>7. ResultInv'
  <2>1. ASSUME NEW k \in Jobs, job'[k] \in Closed, batch[k] # "none"
        PROVE  Retried(k) \/ batch[k] = job'[k]
    <3>1. job'[k] = job[k]
      BY <1>2, <2>1 DEF IInv, OwnersInv, JobInv
    <3> QED BY <2>1, <3>1 DEF IInv, OwnersInv, ResultInv
  <2>2. bitem' = bitem
    BY DEF Quiet, items
  <2>3. pc \in RecoverPcs /\ batch[wjob] \in Closed => Retried(wjob)
    BY DEF IInv, OwnersInv, ResultInv
  <2> QED BY <1>3, <2>1, <2>2, <2>3 DEF ResultInv, Retried, Selected
<1>8. GrantInv'
  BY <1>3, QuietGrants
<1> QED BY <1>2, <1>4, <1>5, <1>6, <1>7, <1>8 DEF OwnersInv

LEMMA StopJobStep ==
  ASSUME IInv, NEW j \in Jobs, StopJob(j)
  PROVE  IInv'
<1>1. Quiet /\ RequestStop(j) /\ UNCHANGED <<store, switch, preview, request, spawned, begun>>
  BY DEF StopJob, Quiet
<1>2. OwnersInv' /\ JobTypes'
  BY <1>1, StopOwners
<1>3. enabled' = enabled /\ batch' = batch /\ pc' = pc /\ wjob' = wjob
  BY <1>1 DEF switch, Quiet, work
<1>4. /\ RowsInv' /\ WorkerInv'
      /\ RowTypes' /\ ObjectTypes' /\ OpTypes' /\ WorkTypes'
  BY <1>1, <1>3, QuietStep
<1>5. StoreTypes' /\ PreviewTypes'
  BY <1>1, <1>3, QuietGrants
<1>6. SwitchTypes' /\ EventTypes'
  BY <1>1, TypeGroups, EventStep DEF IInv, SwitchTypes, switch, StopJob, EventKinds
<1>7. TypeOK'
  BY <1>2, <1>4, <1>5, <1>6, TypesNext
<1> QED BY <1>2, <1>4, <1>7 DEF IInv

LEMMA DisableStep ==
  ASSUME IInv, Disable
  PROVE  IInv'
<1>1. Quiet /\ UNCHANGED <<store, enabled, preview, request, spawned, begun>>
  BY DEF Disable, Quiet
<1>2. batch' = batch /\ pc' = pc /\ wjob' = wjob
  BY <1>1 DEF Quiet, work
<1>3. OwnersInv' /\ JobTypes'
  <2>1. CASE \E j \in Jobs : RequestStop(j)
    BY <1>1, <2>1, StopOwners
  <2>2. CASE UNCHANGED <<job, stop>>
    <3>1. UNCHANGED jobs
      BY <1>1, <2>2 DEF jobs
    <3>2. GrantInv'
      BY <1>1, <1>2, QuietGrants
    <3>3. RequestInv'
      BY <1>1, <2>2 DEF IInv, OwnersInv, RequestInv
    <3> QED BY <1>1, <3>1, <3>2, <3>3, QuietOwners DEF OwnersInv
  <2> QED BY <2>1, <2>2 DEF Disable
<1>4. /\ RowsInv' /\ WorkerInv'
      /\ RowTypes' /\ ObjectTypes' /\ OpTypes' /\ WorkTypes'
  BY <1>1, QuietStep
<1>5. StoreTypes' /\ PreviewTypes'
  BY <1>1, <1>2, QuietGrants
<1>6. SwitchTypes' /\ EventTypes'
  BY <1>1, TypeGroups, EventStep DEF IInv, SwitchTypes, Disable, EventKinds
<1>7. TypeOK'
  BY <1>3, <1>4, <1>5, <1>6, TypesNext
<1> QED BY <1>3, <1>4, <1>7 DEF IInv

\* Only the switch changes.
LEMMA SwitchStep ==
  ASSUME IInv, Quiet, UNCHANGED <<store, preview>>, UNCHANGED jobs,
         SwitchTypes', EventTypes',
         enabled' = enabled \/ pc = "idle" \/ enabled'
  PROVE  IInv'
<1>1. /\ batch' = batch /\ pc' = pc /\ wjob' = wjob /\ request' = request /\ job' = job
  BY DEF Quiet, work, jobs
<1>2. RequestInv'
  BY <1>1 DEF IInv, OwnersInv, RequestInv
<1>3. GrantInv' /\ StoreTypes' /\ PreviewTypes'
  BY <1>1, QuietGrants
<1>4. OwnersInv' /\ JobTypes'
  BY <1>2, <1>3, QuietOwners DEF OwnersInv
<1>5. /\ RowsInv' /\ WorkerInv'
      /\ RowTypes' /\ ObjectTypes' /\ OpTypes' /\ WorkTypes'
  BY QuietStep
<1>6. TypeOK'
  BY <1>3, <1>4, <1>5, TypesNext
<1> QED BY <1>4, <1>5, <1>6 DEF IInv

LEMMA DisablePersistedStep ==
  ASSUME IInv, DisablePersisted
  PROVE  IInv'
<1>1. Quiet /\ UNCHANGED <<store, preview>> /\ UNCHANGED jobs /\ pc = "idle"
  BY DEF DisablePersisted, DisableWhen, Quiet, GateFree
<1>2. SwitchTypes' /\ EventTypes'
  BY TypeGroups DEF IInv, SwitchTypes, EventTypes, DisablePersisted, DisableWhen
<1> QED BY <1>1, <1>2, SwitchStep

LEMMA EnableStep ==
  ASSUME IInv, Enable
  PROVE  IInv'
<1>1. Quiet /\ UNCHANGED <<store, preview>> /\ UNCHANGED jobs /\ pc = "idle"
  BY DEF Enable, Quiet, GateFree
<1>2. SwitchTypes' /\ EventTypes'
  BY TypeGroups, EventStep DEF IInv, SwitchTypes, Enable, EventKinds
<1> QED BY <1>1, <1>2, SwitchStep

LEMMA RestoreEntryStep ==
  ASSUME IInv, NEW o \in Items, NEW id \in 1..MaxIssued, RestoreEntry(o, id)
  PROVE  IInv'
<1>1. /\ pc = "idle" /\ pc' = pc /\ wjob' = wjob /\ batch' = batch
      /\ bitem' = bitem /\ phase' = phase /\ proof' = proof /\ linked' = linked
      /\ opItem' = opItem /\ cur' = cur /\ chunk' = chunk /\ latched' = latched
      /\ outcome' = outcome /\ partial' = partial /\ archiveRow' = archiveRow
      /\ final' = final /\ present' = present /\ preview' = preview
      /\ job' = job /\ stop' = stop /\ request' = request /\ spawned' = spawned
      /\ begun' = begun /\ enabled' = enabled /\ latch' = latch /\ disabling' = disabling
  BY DEF RestoreEntry, GateFree, work, items, archives, jobs, switch
<1>2. issued' = issued /\ now' = now /\ tokens' \subseteq tokens
  BY DEF RestoreEntry, Consume, Remaining, Outstanding
<1>3. \/ entry' = entry
      \/ /\ NoPendingRecovery /\ entry[o] = "quarantined"
         /\ entry' = [entry EXCEPT ![o] = "restored"]
  BY DEF RestoreEntry
<1>4. RowTypes /\ ObjectTypes /\ RowsInv
  BY TypeGroups DEF IInv
<1>5. RowsInv'
  <2>1. CASE entry' = entry
    <3>1. Still
      BY <1>1, <2>1 DEF Still
    <3> QED BY <1>1, <1>4, <3>1, RowsStay
  <2>2. CASE NoPendingRecovery /\ entry[o] = "quarantined"
             /\ entry' = [entry EXCEPT ![o] = "restored"]
    BY <1>1, <1>4, <2>2, RestoreRows
  <2> QED BY <1>3, <2>1, <2>2
<1>6. WorkerInv'
  BY <1>1, QuietWorker DEF IInv, work, items
<1>7. JobInv'
  BY <1>1 DEF IInv, OwnersInv, JobInv, ActiveJob
<1>8. RequestInv'
  BY <1>1 DEF IInv, OwnersInv, RequestInv
<1>9. OpeningInv'
  BY <1>1 DEF IInv, OwnersInv, OpeningInv, Unsettled, PromotionPending
<1>10. ResultInv'
  BY <1>1 DEF IInv, OwnersInv, ResultInv, Retried, Selected
<1>11. GrantInv'
  <2>1. Keeps
    BY <1>1 DEF Keeps, Retried, Selected
  <2> QED BY <1>1, <1>2, <2>1, GrantsStay DEF IInv, OwnersInv, Unspent
<1>12. RowTypes' /\ OpTypes' /\ WorkTypes' /\ JobTypes' /\ PreviewTypes' /\ SwitchTypes'
  BY <1>1, TypeGroups DEF IInv, RowTypes, OpTypes, WorkTypes, JobTypes, PreviewTypes, SwitchTypes
<1>13. ObjectTypes'
  BY <1>1, <1>3, <1>4 DEF ObjectTypes
<1>14. StoreTypes'
  BY <1>2, TypeGroups DEF IInv, StoreTypes
<1>15. EventTypes'
  BY TypeGroups, EventStep DEF IInv, RestoreEntry, EventKinds
<1>16. TypeOK'
  BY <1>12, <1>13, <1>14, <1>15, TypesNext
<1> QED BY <1>5, <1>6, <1>7, <1>8, <1>9, <1>10, <1>11, <1>16 DEF IInv, OwnersInv

LEMMA BeginWorkerStep ==
  ASSUME IInv, NEW j \in Jobs, BeginWorker(j)
  PROVE  IInv'
<1>1. Quiet /\ UNCHANGED <<store, switch, preview, stop, request, events>>
  BY DEF BeginWorker, Quiet
<1>2. JobTypes
  BY TypeGroups DEF IInv
<1>3. /\ pc' = pc /\ wjob' = wjob /\ batch' = batch /\ bitem' = bitem
      /\ enabled' = enabled /\ request' = request
  BY <1>1 DEF Quiet, work, items, switch
<1>4. j \in spawned /\ spawned' = spawned \ {j}
  BY DEF BeginWorker
<1>5. job[j] \notin {"none", "begun"} /\ batch[j] = "none"
  BY <1>4 DEF IInv, OwnersInv, JobInv
<1>6. \/ begun' = begun /\ job' = job
      \/ /\ ActiveJob(j) /\ begun' = j
         /\ job'[j] = "begun" /\ \A k \in Jobs : k # j => job'[k] = job[k]
  BY <1>2 DEF BeginWorker, JobTypes
<1>7. ActiveJob(j) => pc \notin WorkerPcs
  <2>1. ASSUME ActiveJob(j), pc \in WorkerPcs PROVE FALSE
    <3>1. wjob \in Jobs /\ job[wjob] = "begun"
      BY <2>1 DEF IInv, WorkerInv, PlaceInv, OwnersInv, JobInv
    <3>2. wjob # j /\ job[wjob] # "none" /\ ActiveJob(wjob)
      BY <1>5, <3>1 DEF ActiveJob
    <3>3. wjob < j \/ j < wjob
      BY <3>1, <3>2, Numbers
    <3> QED BY <1>5, <2>1, <3>1, <3>2, <3>3 DEF IInv, OwnersInv, JobInv
  <2> QED BY <2>1
<1>8. JobInv'
  <2>1. ASSUME NEW l \in Jobs, NEW k \in Jobs, k < l, job'[l] # "none"
        PROVE  job'[k] # "none"
    BY <1>5, <1>6, <2>1 DEF IInv, OwnersInv, JobInv
  <2>2. ASSUME NEW l \in Jobs, NEW k \in Jobs, k < l, ActiveJob(k)'
        PROVE  job'[l] = "none"
    <3>1. ActiveJob(k)
      BY <1>6, <2>2 DEF ActiveJob
    <3>2. job[l] = "none"
      BY <2>2, <3>1 DEF IInv, OwnersInv, JobInv
    <3> QED BY <1>5, <1>6, <3>2
  <2>3. ASSUME NEW l \in Jobs, job'[l] \in {"none", "created"} \/ l \in spawned' \/ begun' = l
        PROVE  batch'[l] = "none"
    <3>1. CASE l = j
      BY <1>3, <1>5, <3>1
    <3>2. CASE l # j
      <4>1. job[l] \in {"none", "created"} \/ l \in spawned \/ begun = l
        BY <1>4, <1>6, <2>3, <3>2
      <4> QED BY <1>3, <4>1 DEF IInv, OwnersInv, JobInv
    <3> QED BY <3>1, <3>2
  <2>4. ASSUME NEW l \in spawned' PROVE job'[l] \notin {"none", "begun"}
    BY <1>2, <1>4, <1>6, <2>4 DEF IInv, OwnersInv, JobInv, JobTypes
  <2>5. begun' # 0 => job'[begun'] = "begun" /\ pc \notin WorkerPcs
    BY <1>6, <1>7 DEF IInv, OwnersInv, JobInv
  <2>6. pc \in WorkerPcs => job'[wjob] = "begun"
    BY <1>6, <1>7 DEF IInv, OwnersInv, JobInv
  <2>7. /\ pc \in OpeningPcs => batch[wjob] = "none"
        /\ pc \in WorkerPcs \ OpeningPcs =>
             batch[wjob] \in {"waiting_for_uac", "parent_disposition"}
    BY DEF IInv, OwnersInv, JobInv
  <2> QED BY <1>3, <2>1, <2>2, <2>3, <2>4, <2>5, <2>6, <2>7 DEF JobInv
<1>9. RequestInv'
  BY <1>1, <1>3, <1>5, <1>6 DEF IInv, OwnersInv, RequestInv
<1>10. OpeningInv'
  BY <1>1, QuietOpening
<1>11. ResultInv'
  <2>1. ASSUME NEW k \in Jobs, job'[k] \in Closed, batch[k] # "none"
        PROVE  Retried(k) \/ batch[k] = job'[k]
    <3>1. job'[k] = job[k]
      BY <1>5, <1>6, <2>1
    <3> QED BY <2>1, <3>1 DEF IInv, OwnersInv, ResultInv
  <2>2. pc \in RecoverPcs /\ batch[wjob] \in Closed => Retried(wjob)
    BY DEF IInv, OwnersInv, ResultInv
  <2> QED BY <1>3, <2>1, <2>2 DEF ResultInv, Retried, Selected
<1>12. GrantInv' /\ StoreTypes' /\ PreviewTypes'
  BY <1>1, <1>3, QuietGrants
<1>13. JobTypes'
  BY <1>1, <1>2, <1>4 DEF JobTypes, BeginWorker
<1>14. /\ RowsInv' /\ WorkerInv'
       /\ RowTypes' /\ ObjectTypes' /\ OpTypes' /\ WorkTypes'
  BY <1>1, <1>3, QuietStep
<1>15. SwitchTypes' /\ EventTypes'
  BY <1>1, TypeGroups DEF IInv, SwitchTypes, switch, EventTypes
<1>16. TypeOK'
  BY <1>12, <1>13, <1>14, <1>15, TypesNext
<1> QED BY <1>8, <1>9, <1>10, <1>11, <1>12, <1>14, <1>16 DEF IInv, OwnersInv

LEMMA EnterGateStep ==
  ASSUME IInv, NEW j \in Jobs, EnterGate(j)
  PROVE  IInv'
<1>1. /\ begun = j /\ begun' = 0 /\ pc = "idle"
      /\ UNCHANGED <<store, switch, held, archives, preview, stop, request, spawned,
                     batch, items, cur, chunk, latched, outcome, events>>
  BY DEF EnterGate, GateFree
<1>2. /\ batch' = batch /\ bitem' = bitem /\ phase' = phase /\ proof' = proof
      /\ linked' = linked /\ opItem' = opItem /\ partial' = partial
      /\ archiveRow' = archiveRow /\ final' = final /\ entry' = entry
      /\ present' = present /\ enabled' = enabled /\ request' = request
      /\ spawned' = spawned /\ latched' = latched /\ preview' = preview
      /\ tokens' = tokens /\ issued' = issued
  BY <1>1 DEF held, archives, items, switch, store
<1>3. RowTypes /\ ObjectTypes /\ RowsInv /\ JobTypes /\ WorkTypes
  BY TypeGroups DEF IInv
<1>4. job[j] = "begun" /\ batch[j] = "none" /\ j \notin spawned
  BY <1>1, Numbers DEF IInv, OwnersInv, JobInv
<1>5. \/ /\ EnabledNow /\ NoPendingRecovery /\ wjob' = j /\ pc' = "consume" /\ job' = job
      \/ /\ pc' = "idle" /\ wjob' = wjob
         /\ job'[j] = "error" /\ \A k \in Jobs : k # j => job'[k] = job[k]
  BY <1>1, <1>3 DEF EnterGate, Goto, JobTypes
<1>6. Still
  BY <1>2 DEF Still
<1>7. RowsInv' /\ Keeps
  BY <1>2, <1>3, <1>6, RowsStay, StillRows DEF Keeps
<1>8. JobInv'
  <2>1. ASSUME NEW l \in Jobs, NEW k \in Jobs, k < l, job'[l] # "none"
        PROVE  job'[k] # "none"
    BY <1>4, <1>5, <2>1 DEF IInv, OwnersInv, JobInv
  <2>2. ASSUME NEW l \in Jobs, NEW k \in Jobs, k < l, ActiveJob(k)'
        PROVE  job'[l] = "none"
    <3>1. ActiveJob(k)
      BY <1>5, <2>2 DEF ActiveJob
    <3>2. job[l] = "none"
      BY <2>2, <3>1 DEF IInv, OwnersInv, JobInv
    <3> QED BY <1>4, <1>5, <3>2
  <2>3. ASSUME NEW l \in Jobs, job'[l] \in {"none", "created"} \/ l \in spawned \/ begun' = l
        PROVE  batch[l] = "none"
    <3>1. job[l] \in {"none", "created"} \/ l \in spawned \/ begun = l
      BY <1>1, <1>5, <2>3, Numbers
    <3> QED BY <3>1 DEF IInv, OwnersInv, JobInv
  <2>4. \A l \in spawned : job'[l] \notin {"none", "begun"}
    BY <1>3, <1>4, <1>5 DEF IInv, OwnersInv, JobInv, JobTypes
  <2>5. pc' \in WorkerPcs => job'[wjob'] = "begun" /\ batch[wjob'] = "none" /\ pc' \in OpeningPcs
    BY <1>4, <1>5 DEF WorkerPcs, OpeningPcs
  <2>6. pc' \in OpeningPcs => pc' \in WorkerPcs
    BY DEF WorkerPcs, OpeningPcs
  <2> QED BY <1>1, <1>2, <2>1, <2>2, <2>3, <2>4, <2>5, <2>6 DEF JobInv
<1>9. RequestInv'
  BY <1>2, <1>4, <1>5 DEF IInv, OwnersInv, RequestInv
<1>10. OpeningInv'
  <2>1. ASSUME pc' \in OpeningPcs, NEW k \in Jobs PROVE Unsettled(k)' = {}
    <3>1. NoPendingRecovery
      BY <1>5, <2>1 DEF OpeningPcs
    <3> QED BY <1>3, <1>6, <3>1, NothingPending, StillRows
  <2> QED BY <2>1 DEF OpeningInv
<1>11. pc' \notin RecoverPcs /\ pc' # "revalidate"
  BY <1>5 DEF RecoverPcs
<1>12. ResultInv'
  <2>1. ASSUME NEW k \in Jobs, job'[k] \in Closed, batch[k] # "none"
        PROVE  Retried(k)' \/ batch[k] = job'[k]
    <3>1. job'[k] = job[k]
      BY <1>4, <1>5, <2>1
    <3> QED BY <1>7, <2>1, <3>1 DEF IInv, OwnersInv, ResultInv, Keeps
  <2> QED BY <1>2, <1>11, <2>1 DEF ResultInv
<1>13. GrantInv'
  BY <1>2, <1>7, <1>11, GrantsStay DEF IInv, OwnersInv, Unspent
<1>14. WorkerInv'
  <2>1. /\ pc' \notin RecoverPcs /\ pc' \notin CommitPcs /\ pc' \notin RemovePcs
        /\ pc' \in WorkerPcs => enabled /\ wjob' \in Jobs
    BY <1>5 DEF RecoverPcs, CommitPcs, RemovePcs, EnabledNow, WorkerPcs
  <2>2. latched = "none"
    BY <1>1 DEF IInv, WorkerInv, PlaceInv
  <2>3. \A k \in Jobs, i \in Items : partial[k][i] # "armed"
    BY <1>1 DEF IInv, WorkerInv, ArmInv, CommitPcs
  <2>4. PlaceInv'
    BY <1>2, <2>1, <2>2 DEF PlaceInv, RecoverPcs
  <2>5. ArmInv'
    BY <1>2, <2>3 DEF ArmInv
  <2>6. StageInv' /\ CurrentInv' /\ RecoverInv'
    BY <1>5, <2>1 DEF StageInv, CurrentInv, RecoverInv
  <2> QED BY <2>4, <2>5, <2>6 DEF WorkerInv
<1>15. RowTypes' /\ ObjectTypes' /\ OpTypes'
  BY <1>2, TypeGroups DEF IInv, RowTypes, ObjectTypes, OpTypes
<1>16. JobTypes' /\ WorkTypes'
  <2>1. job' \in [Jobs -> {"none", "created", "begun", "lost"} \cup JobResults]
    BY <1>1, <1>3 DEF JobTypes, EnterGate, JobResults
  <2> QED BY <1>1, <1>3, <1>5, <2>1 DEF JobTypes, WorkTypes, Pcs, WorkerPcs
<1>17. StoreTypes' /\ SwitchTypes' /\ PreviewTypes' /\ EventTypes'
  BY <1>1, TypeGroups DEF IInv, StoreTypes, store, SwitchTypes, switch, PreviewTypes, EventTypes
<1>18. TypeOK'
  BY <1>15, <1>16, <1>17, TypesNext
<1> QED BY <1>7, <1>8, <1>9, <1>10, <1>12, <1>13, <1>14, <1>18 DEF IInv, OwnersInv

-----------------------------------------------------------------------------
(* The worker of a job: its grant and its batch.                           *)

LEMMA ConsumeGrantStep ==
  ASSUME IInv, ConsumeGrant
  PROVE  IInv'
<1>1. pc = "consume" /\ UNCHANGED <<switch, held, archives, preview, batch, items, events>>
  BY DEF ConsumeGrant
<1>2. /\ batch' = batch /\ bitem' = bitem /\ phase' = phase /\ proof' = proof
      /\ linked' = linked /\ opItem' = opItem /\ partial' = partial
      /\ archiveRow' = archiveRow /\ final' = final /\ entry' = entry
      /\ present' = present /\ enabled' = enabled /\ preview' = preview
  BY <1>1 DEF held, archives, items, switch
<1>3. RowTypes /\ ObjectTypes /\ RowsInv /\ JobTypes /\ WorkTypes /\ StoreTypes
      /\ OwnersInv /\ WorkerInv
  BY TypeGroups DEF IInv
<1>4. Still
  BY <1>2 DEF Still
<1>5. RowsInv' /\ Keeps /\ \A k \in Jobs : Unsettled(k)' = Unsettled(k)
  BY <1>2, <1>3, <1>4, RowsStay, StillRows DEF Keeps
<1>6. pc \in WorkerPcs \ CommitPcs /\ pc \in OpeningPcs
  BY <1>1 DEF WorkerPcs, CommitPcs, OpeningPcs
<1>7. Unspent /\ now' = now
  BY DEF ConsumeGrant, Consume, Remaining, Outstanding, Unspent, store
<1>8. PICK w \in Jobs : w = wjob
  BY <1>3, <1>6 DEF WorkerInv, PlaceInv
<1>9. job[w] = "begun" /\ batch[w] = "none"
  BY <1>3, <1>6, <1>8 DEF OwnersInv, JobInv
<1>10. OwnersInv' /\ WorkerInv' /\ JobTypes' /\ WorkTypes'
  <2>1. CASE Ends("error")
    <3>1. "error" \in JobResults /\ "error" \notin Closed
      BY DEF JobResults, Closed
    <3> QED BY <1>2, <1>3, <1>5, <1>6, <1>7, <2>1, <3>1, WorkerEnds
  <2>2. ASSUME NEW id, NEW b, id = request[wjob].token, b = request[wjob].binding,
               Bindable(b), Matching(id, "remove", b) # {}, Consume(id, "remove", b),
               Goto("revalidate"), Same
        PROVE  OwnersInv' /\ WorkerInv' /\ JobTypes' /\ WorkTypes'
    <3>1. /\ pc' = "revalidate" /\ wjob' = wjob /\ cur' = cur /\ chunk' = chunk
          /\ latched' = latched /\ outcome' = outcome
          /\ job' = job /\ stop' = stop /\ request' = request /\ spawned' = spawned
          /\ begun' = begun
      BY <2>2 DEF Goto, Same, jobs
    <3>2. JobTypes' /\ WorkTypes'
      BY <1>3, <3>1 DEF JobTypes, WorkTypes, Pcs, WorkerPcs
    <3>3. /\ pc' \in WorkerPcs /\ pc' \in OpeningPcs /\ pc' \notin CommitPcs
          /\ pc' \notin RemovePcs /\ pc' \notin RecoverPcs
      BY <3>1 DEF WorkerPcs, OpeningPcs, CommitPcs, RemovePcs, RecoverPcs
    <3>4. PlaceInv'
      BY <1>1, <1>2, <1>3, <1>6, <3>1, <3>3 DEF WorkerInv, PlaceInv, RecoverPcs
    <3>5. ArmInv'
      BY <1>2, <1>3, <1>6 DEF WorkerInv, ArmInv
    <3>6. StageInv' /\ CurrentInv' /\ RecoverInv'
      BY <3>1, <3>3 DEF StageInv, CurrentInv, RecoverInv
    <3>7. JobInv'
      BY <1>2, <1>3, <1>6, <3>1, <3>3 DEF OwnersInv, JobInv, ActiveJob
    <3>8. RequestInv'
      BY <1>2, <1>3, <3>1 DEF OwnersInv, RequestInv
    <3>9. OpeningInv'
      BY <1>3, <1>5, <1>6 DEF OwnersInv, OpeningInv
    <3>10. ResultInv'
      BY <1>2, <1>3, <1>5, <3>1, <3>3 DEF OwnersInv, ResultInv, Keeps
    <3>11. PICK t \in tokens : t.id = id /\ t.action = "remove" /\ t.binding = b
      BY <2>2 DEF Matching, Outstanding
    <3>12. \A s \in tokens' : s.id # id
      <4>1. ASSUME NEW s \in tokens', s.id = id PROVE FALSE
        <5>1. s \in Outstanding /\ s \notin Matching(id, "remove", b)
          BY <2>2, <4>1 DEF Consume, Remaining
        <5>2. s = t
          BY <1>3, <3>11, <4>1, <5>1 DEF OwnersInv, GrantInv, Outstanding
        <5> QED BY <3>11, <5>1, <5>2 DEF Matching
      <4> QED BY <4>1
    <3>13. Spent(w)'
      <4>1. request[w].token = id /\ id <= issued
        BY <1>3, <1>8, <2>2, <3>11 DEF OwnersInv, GrantInv
      <4> QED BY <1>7, <3>1, <3>12, <4>1 DEF Spent, Unspent
    <3>14. \A k \in Jobs : batch[k] # "none" => request[k].token # id
      <4>1. ASSUME NEW k \in Jobs, batch[k] # "none" PROVE request[k].token # id
        BY <1>3, <3>11, <4>1 DEF OwnersInv, GrantInv, Spent
      <4> QED BY <4>1
    <3>15. GrantInv'
      <4>1. \A j \in Jobs : batch'[j] # "none" =>
              Spent(j)' /\ preview'[request'[j].binding.preview].consumed
        BY <1>2, <1>3, <1>7, <3>1 DEF OwnersInv, GrantInv, Spent, Unspent
      <4>2. /\ \A s \in tokens' : s.id <= issued'
            /\ \A s, r \in tokens' : s.id = r.id => s = r
        BY <1>3, <1>7 DEF OwnersInv, GrantInv, Unspent
      <4>3. Spent(wjob)'
        BY <1>8, <3>1, <3>13 DEF Spent
      <4>4. \A k \in Jobs : batch'[k] # "none" => request'[k].token # request'[wjob'].token
        BY <1>2, <2>2, <3>1, <3>14
      <4>5. GrantSpentOnce'
        BY <1>2, <1>3, <3>1 DEF OwnersInv, GrantInv, GrantSpentOnce
      <4>6. \A p \in Previews : preview'[p].consumed => preview'[p].built
        BY <1>2, <1>3 DEF OwnersInv, GrantInv
      <4> QED BY <4>1, <4>2, <4>3, <4>4, <4>5, <4>6 DEF GrantInv
    <3> QED BY <3>2, <3>4, <3>5, <3>6, <3>7, <3>8, <3>9, <3>10, <3>15
            DEF OwnersInv, WorkerInv
  <2> QED BY <2>1, <2>2 DEF ConsumeGrant
<1>11. RowTypes' /\ ObjectTypes' /\ OpTypes'
  BY <1>2, TypeGroups DEF IInv, RowTypes, ObjectTypes, OpTypes
<1>12. SwitchTypes' /\ PreviewTypes' /\ EventTypes'
  BY <1>1, TypeGroups DEF IInv, SwitchTypes, switch, PreviewTypes, EventTypes
<1>13. StoreTypes'
  BY <1>3, <1>7 DEF StoreTypes, Unspent
<1>14. TypeOK'
  BY <1>10, <1>11, <1>12, <1>13, TypesNext
<1> QED BY <1>5, <1>10, <1>14 DEF IInv

\* The transaction that uses the review up and writes the batch.
LEMMA OpenBatch ==
  ASSUME IInv, NEW w \in Jobs, w = wjob, pc = "revalidate",
         NEW b, b = request[wjob].binding,
         \A i \in Items : preview[b.preview].rows[i] # "out" =>
             Row(i) = preview[b.preview].rows[i],
         ~preview[b.preview].consumed,
         UNCHANGED <<store, switch, held, archives, proof, linked>>,
         preview' = UsedUp(b.preview),
         batch' = [batch EXCEPT ![w] = "waiting_for_uac"],
         bitem' = [bitem EXCEPT ![w] =
             [i \in Items |-> IF i \in b.selected THEN "planned" ELSE "none"]],
         phase' = [phase EXCEPT ![w] =
             [i \in Items |-> IF i \in b.selected THEN "preflight" ELSE "none"]],
         opItem' = [opItem EXCEPT ![w] =
             [i \in Items |-> IF i \in b.selected THEN "pending" ELSE "none"]],
         Goto("preflight"), Same, AsUsual
  PROVE  IInv'
<1>1. /\ pc' = "preflight" /\ wjob' = wjob /\ cur' = cur /\ chunk' = chunk
      /\ latched' = latched /\ outcome' = outcome
      /\ job' = job /\ stop' = stop /\ request' = request /\ spawned' = spawned
      /\ begun' = begun
      /\ partial' = partial /\ archiveRow' = archiveRow /\ final' = final
      /\ entry' = entry /\ present' = present /\ enabled' = enabled
      /\ tokens' = tokens /\ issued' = issued
  BY DEF Goto, Same, jobs, held, archives, switch, store
<1>2. RowTypes /\ ObjectTypes /\ RowsInv /\ JobTypes /\ WorkTypes /\ PreviewTypes
      /\ OwnersInv /\ WorkerInv /\ OpTypes
  BY TypeGroups DEF IInv
<1>3. job[w] = "begun" /\ batch[w] = "none" /\ w \notin spawned /\ begun # w
  <2>1. pc \in WorkerPcs /\ pc \in OpeningPcs
    BY DEF WorkerPcs, OpeningPcs
  <2>2. job[w] = "begun" /\ batch[w] = "none" /\ begun = 0
    BY <1>2, <2>1 DEF OwnersInv, JobInv
  <2>3. w \notin spawned
    BY <1>2, <2>2 DEF OwnersInv, JobInv
  <2> QED BY <2>2, <2>3, Numbers
<1>4. /\ b \in Bindings /\ preview[b.preview].built
      /\ \A i \in b.selected : preview[b.preview].rows[i] # "out"
  BY <1>2, <1>3 DEF OwnersInv, RequestInv
<1>5. b.preview \in Previews /\ b.selected \subseteq Items
  BY <1>4, BatchAssumption DEF Bindings, Items
<1>6. \A i \in b.selected : entry[i] = "quarantined"
  BY <1>4, <1>5 DEF Row
<1>7. \A k \in Jobs : Unsettled(k) = {}
  BY <1>2 DEF OwnersInv, OpeningInv, OpeningPcs
<1>8. \A k \in Jobs : k > w => batch[k] = "none"
  BY <1>2, <1>3, Numbers DEF OwnersInv, JobInv, ActiveJob
<1>9. RowTypes'
  BY <1>1, <1>2 DEF RowTypes, ItemStates, Phases
<1>10. NewRows(w)
  BY <1>1, <1>2, <1>6 DEF NewRows, RowTypes
<1>11. /\ RowsInv' /\ \A i \in Items : ~proof[w][i] /\ ~linked[w][i]
       /\ \A k \in Jobs : Retried(k) => Retried(k)'
  BY <1>2, <1>3, <1>7, <1>8, <1>10, NewBatchRows
<1>12. batch'[w] = "waiting_for_uac" /\ \A k \in Jobs : k # w => batch'[k] = batch[k]
  BY <1>2 DEF RowTypes
<1>13. /\ pc' \in WorkerPcs /\ pc' \notin OpeningPcs /\ pc' \notin CommitPcs
       /\ pc' \notin RemovePcs /\ pc' \notin RecoverPcs /\ pc' # "revalidate"
  BY <1>1 DEF WorkerPcs, OpeningPcs, CommitPcs, RemovePcs, RecoverPcs
<1>14. pc \in WorkerPcs /\ pc \in OpeningPcs /\ pc \notin CommitPcs
  BY DEF WorkerPcs, OpeningPcs, CommitPcs
<1>15. JobInv'
  <2>1. ASSUME NEW j \in Jobs, job[j] \in {"none", "created"} \/ j \in spawned \/ begun = j
        PROVE  batch'[j] = "none"
    BY <1>2, <1>3, <1>12, <2>1 DEF OwnersInv, JobInv
  <2>2. begun = 0
    BY <1>2, <1>14 DEF OwnersInv, JobInv
  <2> QED BY <1>1, <1>2, <1>3, <1>12, <1>13, <2>1, <2>2 DEF OwnersInv, JobInv, ActiveJob
<1>16. /\ \A p \in Previews : preview'[p].built = preview[p].built
                              /\ preview'[p].rows = preview[p].rows
       /\ preview'[b.preview].consumed
       /\ \A p \in Previews : p # b.preview => preview'[p] = preview[p]
       /\ PreviewTypes'
  BY <1>2, <1>5, ZenonT(60) DEF PreviewTypes, UsedUp
<1>17. RequestInv'
  <2>1. ASSUME NEW j \in Jobs, job[j] # "none"
        PROVE  LET c == request[j].binding IN
                 /\ c \in Bindings /\ preview'[c.preview].built
                 /\ \A i \in c.selected : preview'[c.preview].rows[i] # "out"
    <3> DEFINE c == request[j].binding
    <3>1. /\ c \in Bindings /\ preview[c.preview].built
          /\ \A i \in c.selected : preview[c.preview].rows[i] # "out"
      BY <1>2, <2>1 DEF OwnersInv, RequestInv
    <3>2. c.preview \in Previews
      BY <3>1 DEF Bindings
    <3> QED BY <1>16, <3>1, <3>2
  <2> QED BY <1>1, <2>1 DEF RequestInv
<1>18. OpeningInv'
  BY <1>13 DEF OpeningInv
<1>19. ResultInv'
  <2>1. ASSUME NEW j \in Jobs, job[j] \in Closed, batch'[j] # "none"
        PROVE  Retried(j)' \/ batch'[j] = job[j]
    <3>1. j # w
      BY <1>3, <2>1 DEF Closed
    <3> QED BY <1>2, <1>11, <1>12, <2>1, <3>1 DEF OwnersInv, ResultInv
  <2> QED BY <1>1, <1>13, <2>1 DEF ResultInv
<1>20. GrantInv'
  <2>1. ASSUME NEW j \in Jobs, batch'[j] # "none"
        PROVE  Spent(j)' /\ preview'[request'[j].binding.preview].consumed
    <3>1. CASE j = w
      <4>1. Spent(w)
        BY <1>2 DEF OwnersInv, GrantInv
      <4> QED BY <1>1, <1>16, <3>1, <4>1 DEF Spent
    <3>2. CASE j # w
      <4>1. batch[j] # "none"
        BY <1>12, <2>1, <3>2
      <4>2. Spent(j) /\ preview[request[j].binding.preview].consumed
        BY <1>2, <4>1 DEF OwnersInv, GrantInv
      <4>3. request[j].binding.preview \in Previews
        BY <4>1, BatchHasJob
      <4> QED BY <1>1, <1>16, <4>2, <4>3 DEF Spent
    <3> QED BY <3>1, <3>2
  <2>2. \A p \in Previews : preview'[p].consumed => preview'[p].built
    BY <1>2, <1>4, <1>16 DEF OwnersInv, GrantInv
  <2>3. ASSUME NEW k \in Jobs, batch[k] # "none"
        PROVE  /\ request[k].token # request[w].token
               /\ request[k].binding.preview # request[w].binding.preview
    <3>1. request[k].token # request[w].token
      BY <1>2, <2>3 DEF OwnersInv, GrantInv
    <3>2. preview[request[k].binding.preview].consumed
      BY <1>2, <2>3 DEF OwnersInv, GrantInv
    <3> QED BY <3>1, <3>2
  <2>4. GrantSpentOnce'
    <3>1. SUFFICES ASSUME NEW j \in Jobs, NEW k \in Jobs,
                          batch'[j] # "none", batch'[k] # "none", j # k
          PROVE  /\ request[j].token # request[k].token
                 /\ request[j].binding.preview # request[k].binding.preview
      BY <1>1 DEF GrantSpentOnce
    <3>2. CASE j = w
      BY <1>12, <2>3, <3>1, <3>2
    <3>3. CASE k = w
      BY <1>12, <2>3, <3>1, <3>3
    <3>4. CASE j # w /\ k # w
      BY <1>2, <1>12, <3>1, <3>4 DEF OwnersInv, GrantInv, GrantSpentOnce
    <3> QED BY <3>2, <3>3, <3>4
  <2>5. /\ \A t \in tokens' : t.id <= issued'
        /\ \A s, t \in tokens' : s.id = t.id => s = t
    BY <1>1, <1>2 DEF OwnersInv, GrantInv
  <2> QED BY <1>13, <2>1, <2>2, <2>4, <2>5 DEF GrantInv
<1>21. WorkerInv'
  <2>1. PlaceInv'
    BY <1>1, <1>2, <1>13, <1>14 DEF WorkerInv, PlaceInv, RecoverPcs
  <2>2. ArmInv'
    BY <1>1, <1>2, <1>14 DEF WorkerInv, ArmInv
  <2>3. StageInv'
    <3>1. Untouched'
      <4>1. \A i \in Items : bitem'[w][i] \in {"none", "planned"} /\ ~proof'[w][i] /\ ~linked'[w][i]
        BY <1>10, <1>11 DEF NewRows
      <4>2. wjob' = w
        BY <1>1
      <4> QED BY <4>1, <4>2 DEF Untouched
    <3> QED BY <1>1, <1>13, <3>1 DEF StageInv
  <2>4. CurrentInv' /\ RecoverInv'
    BY <1>1, <1>13 DEF CurrentInv, RecoverInv
  <2> QED BY <2>1, <2>2, <2>3, <2>4 DEF WorkerInv
<1>22. JobTypes' /\ WorkTypes' /\ ObjectTypes' /\ OpTypes'
  BY <1>1, <1>2 DEF JobTypes, WorkTypes, ObjectTypes, OpTypes, Pcs, WorkerPcs
<1>23. StoreTypes' /\ SwitchTypes' /\ EventTypes'
  BY TypeGroups DEF IInv, StoreTypes, store, SwitchTypes, switch, EventTypes, AsUsual
<1>24. TypeOK'
  BY <1>9, <1>16, <1>22, <1>23, TypesNext
<1> QED BY <1>11, <1>15, <1>17, <1>18, <1>19, <1>20, <1>21, <1>24 DEF IInv, OwnersInv

LEMMA RevalidateStep ==
  ASSUME IInv, Revalidate
  PROVE  IInv'
<1>1. pc = "revalidate" /\ UNCHANGED <<store, switch, held, archives>>
  BY DEF Revalidate
<1>2. pc \in WorkerPcs \ CommitPcs
  BY <1>1 DEF WorkerPcs, CommitPcs
<1>3. PICK w \in Jobs : w = wjob
  BY <1>2, SMTT(30) DEF IInv, WorkerInv, PlaceInv
<1>4. CASE batch' = [batch EXCEPT ![w] = "waiting_for_uac"] /\ Goto("preflight")
  <2>1. ~Ends("error")
    BY <1>4 DEF Ends, Goto
  <2> QED BY <1>1, <1>3, <2>1, OpenBatch DEF Revalidate
<1>5. CASE UNCHANGED <<preview, batch, items>> /\ Ends("error")
  <2>1. /\ batch' = batch /\ bitem' = bitem /\ phase' = phase /\ proof' = proof
        /\ linked' = linked /\ opItem' = opItem /\ partial' = partial
        /\ archiveRow' = archiveRow /\ final' = final /\ entry' = entry
        /\ present' = present /\ preview' = preview /\ tokens' = tokens /\ issued' = issued
    BY <1>1, <1>5 DEF held, archives, items, store
  <2>2. Still /\ Unspent
    BY <2>1 DEF Still, Unspent
  <2>3. RowTypes /\ ObjectTypes /\ RowsInv /\ JobTypes /\ WorkTypes /\ OwnersInv /\ WorkerInv
    BY TypeGroups DEF IInv
  <2>4. RowsInv' /\ Keeps
    BY <2>1, <2>2, <2>3, RowsStay, StillRows DEF Keeps
  <2>5. "error" \in JobResults /\ "error" \notin Closed
    BY DEF JobResults, Closed
  <2>6. OwnersInv' /\ WorkerInv' /\ JobTypes' /\ WorkTypes'
    BY <1>2, <1>5, <2>1, <2>2, <2>3, <2>4, <2>5, WorkerEnds
  <2>7. RowTypes' /\ ObjectTypes' /\ OpTypes' /\ PreviewTypes'
    BY <2>1, TypeGroups DEF IInv, RowTypes, ObjectTypes, OpTypes, PreviewTypes
  <2>8. StoreTypes' /\ SwitchTypes'
    BY <1>1, TypeGroups, SMTT(30) DEF IInv, StoreTypes, store, SwitchTypes, switch
  <2>9. EventTypes'
    BY TypeGroups, EventStep DEF IInv, Revalidate, EventKinds
  <2>10. TypeOK'
    BY <2>6, <2>7, <2>8, <2>9, TypesNext
  <2> QED BY <2>4, <2>6, <2>10 DEF IInv
<1> QED BY <1>3, <1>4, <1>5, ZenonT(60) DEF Revalidate

-----------------------------------------------------------------------------
(* The worker of an open batch.                                            *)

ActPcs == WorkerPcs \ OpeningPcs

LEMMA PcSets ==
    /\ ActPcs = {"preflight", "layout", "uac", "materialize", "commit", "promote",
                 "rename", "link", "boundary", "claim", "dispose", "record",
                 "next_chunk", "terminalize", "finalize"}
    /\ ActPcs \subseteq WorkerPcs /\ ActPcs \cap RecoverPcs = {} /\ ActPcs \cap OpeningPcs = {}
    /\ CommitPcs \subseteq ActPcs /\ RemovePcs \subseteq ActPcs
    /\ CommitPcs \cap RemovePcs = {} /\ RecoverPcs \cap WorkerPcs = {} /\ ActPcs \subseteq Pcs
    /\ RecoverPcs \subseteq Pcs
BY DEF ActPcs, WorkerPcs, OpeningPcs, CommitPcs, RemovePcs, RecoverPcs, Pcs

\* What holds whenever the worker of an open batch works.
LEMMA AtWork ==
  ASSUME IInv, pc \in ActPcs
  PROVE  /\ RowTypes /\ ObjectTypes /\ OpTypes /\ JobTypes /\ StoreTypes /\ SwitchTypes
         /\ PreviewTypes /\ WorkTypes /\ EventTypes /\ RowsInv /\ OwnersInv /\ WorkerInv
         /\ wjob \in Jobs /\ job[wjob] = "begun" /\ enabled
         /\ batch[wjob] \in {"waiting_for_uac", "parent_disposition"}
         /\ \A k \in Jobs, x \in Items : k # wjob => partial[k][x] # "armed"
         /\ pc \notin CommitPcs => \A k \in Jobs, x \in Items : partial[k][x] # "armed"
<1>1. /\ RowTypes /\ ObjectTypes /\ OpTypes /\ JobTypes /\ StoreTypes /\ SwitchTypes
      /\ PreviewTypes /\ WorkTypes /\ EventTypes /\ RowsInv /\ OwnersInv /\ WorkerInv
  BY TypeGroups DEF IInv
<1>2. pc \in WorkerPcs /\ pc \notin OpeningPcs
  BY DEF ActPcs
<1>3. wjob \in Jobs /\ enabled
  BY <1>1, <1>2 DEF WorkerInv, PlaceInv
<1>4. job[wjob] = "begun" /\ batch[wjob] \in {"waiting_for_uac", "parent_disposition"}
  BY <1>1, <1>2 DEF OwnersInv, JobInv
<1>5. \A k \in Jobs, x \in Items : partial[k][x] = "armed" => k = wjob /\ pc \in CommitPcs
  BY <1>1 DEF WorkerInv, ArmInv
<1> QED BY <1>1, <1>3, <1>4, <1>5

\* The batch stays one and stays open.
BatchGoes(w) ==
    /\ \A k \in Jobs : k # w => batch'[k] = batch[k]
    /\ batch'[w] \in {"waiting_for_uac", "parent_disposition"}

LEMMA StillGoes ==
  ASSUME IInv, pc \in ActPcs, Still, batch' = batch, RowTypes'
  PROVE  RowsInv' /\ Keeps
<1>1. RowsInv
  BY DEF IInv
<1>2. RowsInv'
  BY <1>1, RowsStay
<1>3. Keeps
  BY StillRows DEF Keeps
<1> QED BY <1>2, <1>3

LEMMA MovesGoes ==
  ASSUME IInv, pc \in ActPcs, RowTypes', ObjectTypes', NEW w \in Jobs, w = wjob,
         NEW S \in SUBSET Unsettled(w), S # {}, Only(w, S), Moves(w, S), BatchGoes(w)
  PROVE  RowsInv' /\ Keeps
<1>1. /\ RowTypes /\ ObjectTypes /\ RowsInv
      /\ \A k \in Jobs, x \in Items : k # w => partial[k][x] # "armed"
      /\ batch[w] \in {"waiting_for_uac", "parent_disposition"}
  BY AtWork
<1>2. BatchStays(w)
  BY DEF BatchStays, BatchGoes
<1>3. RowsInv'
  BY <1>1, <1>2, RowsStep
<1>4. \A k \in Jobs : Retried(k) => Retried(k)'
  BY <1>1, OnlyOthers
<1>5. \A k \in Jobs : batch'[k] = "none" <=> batch[k] = "none"
  BY <1>1 DEF BatchGoes
<1> QED BY <1>3, <1>4, <1>5 DEF Keeps

\* The frame of a step of the worker that leaves the job running.
WorkStays ==
    /\ pc \in ActPcs /\ pc' \in ActPcs /\ wjob' = wjob
    /\ UNCHANGED jobs /\ WorkFrame

LEMMA GoesStep ==
  ASSUME IInv, WorkStays, RowsInv', Keeps, NEW w \in Jobs, w = wjob, BatchGoes(w),
         WorkerInv', RowTypes', ObjectTypes', OpTypes', WorkTypes', EventTypes'
  PROVE  IInv'
<1>1. pc \in ActPcs /\ pc' \in ActPcs
  BY DEF WorkStays
<1>2. /\ RowTypes /\ JobTypes /\ WorkTypes /\ StoreTypes /\ SwitchTypes /\ PreviewTypes
      /\ OwnersInv
  BY <1>1, AtWork
<1>3. JobTypes'
  BY <1>2 DEF WorkStays, jobs, JobTypes
<1>4. StoreTypes' /\ SwitchTypes' /\ PreviewTypes'
  BY <1>2, FrameTypes DEF WorkStays
<1>5. Unspent /\ preview' = preview
  BY DEF WorkStays, WorkFrame, store, Unspent
<1>6. OwnersInv'
  BY <1>1, <1>2, <1>5, WorkerGoes DEF WorkStays, ActPcs, BatchGoes
<1>7. TypeOK'
  BY <1>3, <1>4, TypesNext
<1> QED BY <1>6, <1>7 DEF IInv

\* The frame of a step of the worker that ends the job.
LEMMA EndsStep ==
  ASSUME IInv, pc \in ActPcs \ CommitPcs, WorkFrame, RowsInv', Keeps,
         NEW w \in Jobs, w = wjob,
         NEW result \in JobResults, Ends(result), partial' = partial,
         \A k \in Jobs : k # w => batch'[k] = batch[k],
         result \in Closed => Retried(w) \/ batch'[w] = result,
         RowTypes', ObjectTypes', OpTypes', EventTypes'
  PROVE  IInv'
<1>1. /\ RowTypes /\ JobTypes /\ WorkTypes /\ StoreTypes /\ SwitchTypes /\ PreviewTypes
      /\ OwnersInv /\ WorkerInv
  BY AtWork
<1>2. Unspent /\ preview' = preview
  BY DEF WorkFrame, store, Unspent
<1>3. pc \in WorkerPcs \ CommitPcs
  BY DEF ActPcs
<1>4. OwnersInv' /\ WorkerInv' /\ JobTypes' /\ WorkTypes'
  BY <1>1, <1>2, <1>3, WorkerEnds
<1>5. StoreTypes' /\ SwitchTypes' /\ PreviewTypes'
  BY <1>1, FrameTypes
<1>6. TypeOK'
  BY <1>4, <1>5, TypesNext
<1> QED BY <1>4, <1>6 DEF IInv

\* A block of objects that were not disposed of.
LEMMA BlockMoves ==
  ASSUME RowTypes, ObjectTypes, OpTypes, RowsInv, NEW w \in Jobs,
         NEW S \in SUBSET Undisposed(w), Block(w, S),
         UNCHANGED <<entry, present, archiveRow, final>>,
         \A j \in Jobs, i \in Items :
             \/ partial'[j][i] \in {partial[j][i], "none"}
             \/ j = w /\ i \in S /\ Owed(w, i) /\ partial'[j][i] = "plain"
  PROVE  /\ S \subseteq Unsettled(w) /\ Only(w, S) /\ Moves(w, S)
         /\ \A i \in S : bitem'[w][i] \in {"blocked", "interrupted"}
<1>1. S \subseteq Unsettled(w) /\ S \subseteq Items
  BY DEF Undisposed, Unsettled
<1>2. proof' = proof /\ linked' = linked
  BY DEF Block
<1>3. \A j \in Jobs, i \in Items : ~(j = w /\ i \in S) =>
        bitem'[j][i] = bitem[j][i] /\ phase'[j][i] = phase[j][i]
  BY BlockIs
<1>4. ASSUME NEW i \in S
      PROVE  /\ PromotionPending(w, i) =>
                   /\ bitem'[w][i] = "interrupted"
                   /\ phase'[w][i] = "archive_recovery_pending"
             /\ ~PromotionPending(w, i) =>
                   bitem'[w][i] = "blocked" /\ phase'[w][i] = "blocked"
  BY <1>1, BlockIs
<1>5. Only(w, S)
  BY <1>2, <1>3 DEF Only
<1>6. Moves(w, S)
  <2>1. SUFFICES ASSUME NEW i \in S
        PROVE  FitsOK(bitem'[w][i], phase'[w][i], proof'[w][i], linked'[w][i],
                      partial'[w][i], entry'[i], present'[i], archiveRow'[i], final'[i])
    BY DEF Moves, Fits
  <2>2. i \in Items /\ i \in Unsettled(w)
    BY <1>1
  <2>3. FitsOK(bitem[w][i], phase[w][i], proof[w][i], linked[w][i],
               partial[w][i], entry[i], present[i], archiveRow[i], final[i])
    BY <2>2, UnsettledFits DEF Fits
  <2>4. bitem[w][i] \in {"planned", "ready"}
    BY DEF Undisposed
  <2>5. \/ partial'[w][i] \in {partial[w][i], "none"}
        \/ Owed(w, i) /\ partial'[w][i] = "plain"
    BY <2>2
  <2>6. proof'[w][i] = proof[w][i] /\ linked'[w][i] = linked[w][i]
    BY <1>2
  <2>7. CASE PromotionPending(w, i)
    BY <1>4, <2>2, <2>3, <2>4, <2>5, <2>6, <2>7, RowValues
       DEF FitsOK, ItemOK, EarlyPhases, Intents, Owed, PromotionPending
  <2>8. CASE ~PromotionPending(w, i)
    BY <1>4, <2>2, <2>3, <2>4, <2>5, <2>6, <2>8, RowValues
       DEF FitsOK, ItemOK, EarlyPhases, Intents, Owed, PromotionPending
  <2> QED BY <2>7, <2>8
<1>7. \A i \in S : bitem'[w][i] \in {"blocked", "interrupted"}
  BY <1>4
<1> QED BY <1>1, <1>5, <1>6, <1>7

-----------------------------------------------------------------------------
(* Where a step of the worker leaves it.                                   *)

\* The rows of the other objects are as they were.
OthersKept(w, c) ==
    \A i \in Items : i # c =>
        /\ bitem'[w][i] = bitem[w][i] /\ phase'[w][i] = phase[w][i]
        /\ proof'[w][i] = proof[w][i] /\ linked'[w][i] = linked[w][i]

\* No container is set to go that was not.
ArmsNone == \A j \in Jobs, i \in Items : partial'[j][i] = "armed" => partial[j][i] = "armed"

Unarmed == \A j \in Jobs, i \in Items : partial'[j][i] # "armed"

LEMMA UnarmedArm == Unarmed => ArmInv'
BY DEF Unarmed, ArmInv

LEMMA KeptRows ==
  ASSUME NEW w \in Jobs, w = wjob, wjob' = wjob, NEW c, OthersKept(w, c),
         NEW i \in Items, i # c
  PROVE  /\ Aside(i)' <=> Aside(i)
         /\ Raw(i)' <=> Raw(i)
BY DEF OthersKept, Aside, Raw, NotGiven

\* The first object after this one.
LEMMA AfterLeast ==
  ASSUME WorkTypes, NEW c, c = cur, c \in chunk, After(c) # {}
  PROVE  /\ Least(After(c)) \in chunk /\ Least(After(c)) > c
         /\ \A i \in chunk : i < Least(After(c)) => i < c \/ i = c
         /\ \A i \in chunk : i > c => i = Least(After(c)) \/ Least(After(c)) < i
<1>1. chunk \subseteq Items /\ chunk \subseteq Nat
  BY Numbers DEF WorkTypes
<1>2. After(c) \in SUBSET Nat
  BY <1>1 DEF After
<1>3. Least(After(c)) \in After(c) /\ \A y \in After(c) : Least(After(c)) <= y
  BY <1>2, LeastIs
<1>4. Least(After(c)) \in Nat /\ c \in Nat
  BY <1>1, <1>2, <1>3
<1>5. \A i \in chunk : i > c => i \in After(c)
  BY DEF After
<1> QED BY <1>1, <1>3, <1>4, <1>5 DEF After

LEMMA ChunkLeast ==
  ASSUME WorkTypes, NEW c, c \in chunk
  PROVE  Least(chunk) \in chunk /\ \A i \in chunk : ~(i < Least(chunk))
<1>1. chunk \in SUBSET Nat /\ chunk # {}
  BY Numbers DEF WorkTypes
<1>2. Least(chunk) \in chunk /\ \A y \in chunk : Least(chunk) <= y
  BY <1>1, LeastIs
<1>3. PICK n \in Nat : n = Least(chunk)
  BY <1>1, <1>2
<1>4. ASSUME NEW i \in chunk PROVE ~(i < n)
  <2>1. i \in Nat /\ n <= i
    BY <1>1, <1>2, <1>3
  <2> QED BY <2>1
<1> QED BY <1>2, <1>3, <1>4

\* The worker is through with the commit of one object.
LEMMA CommitNext ==
  ASSUME WorkTypes, WorkerInv, NEW w \in Jobs, w = wjob, NEW c, c = cur,
         pc \in CommitPcs, NextCommit, OthersKept(w, c), enabled' = enabled,
         bitem'[w][c] \notin {"planned", "none"},
         ArmsNone, partial'[w][c] # "armed"
  PROVE  WorkerInv' /\ pc' \in ActPcs /\ WorkTypes' /\ wjob' = wjob /\ UNCHANGED jobs
<1>1. /\ wjob' = wjob /\ chunk' = chunk /\ latched' = latched /\ outcome' = outcome
      /\ UNCHANGED jobs
      /\ \/ After(c) = {} /\ pc' = "boundary" /\ cur' = Least(chunk)
         \/ After(c) # {} /\ pc' = "commit" /\ cur' = Least(After(c))
  BY DEF NextCommit, Goto
<1>2. c \in chunk /\ enabled /\ latched = "none" /\ chunk \subseteq Items
  <2>1. pc \in WorkerPcs /\ pc \notin {"next_chunk", "terminalize", "finalize"}
    BY PcSets DEF CommitPcs
  <2> QED BY <2>1 DEF WorkerInv, PlaceInv, WorkTypes
<1>3. InChunk /\ Committing
  BY PcSets DEF WorkerInv, StageInv
<1>4. \A i \in Items : i # c => (Aside(i)' <=> Aside(i)) /\ (Raw(i)' <=> Raw(i))
  BY <1>1, KeptRows
<1>5. InChunk'
  <2>1. \A i \in Items \ chunk : Aside(i)'
    BY <1>2, <1>3, <1>4 DEF InChunk
  <2>2. \A i \in chunk : bitem'[w][i] # "none"
    BY <1>2, <1>3 DEF InChunk, OthersKept
  <2> QED BY <1>1, <2>1, <2>2 DEF InChunk
<1>6. ASSUME NEW j \in Jobs, NEW i \in Items, partial'[j][i] = "armed"
      PROVE  j = w /\ i \in chunk /\ i \in After(c)
  <2>1. /\ j = w /\ i \in chunk /\ (c < i \/ i = c)
    BY <1>6 DEF ArmsNone, WorkerInv, ArmInv
  <2>2. c < i
    BY <1>6, <2>1
  <2>3. i \in Nat /\ c \in Nat
    BY <1>2, Numbers
  <2> QED BY <2>1, <2>2, <2>3 DEF After
<1>7. CASE After(c) = {}
  <2>1. pc' = "boundary" /\ cur' = Least(chunk)
    BY <1>1, <1>7
  <2>2. pc' \in RemovePcs /\ pc' \notin CommitPcs /\ pc' \notin RecoverPcs /\ pc' \in ActPcs
    BY <2>1, PcSets DEF RemovePcs
  <2>3. cur' \in chunk /\ \A i \in chunk : ~(i < cur')
    BY <1>2, <2>1, ChunkLeast
  <2>4. PlaceInv'
    BY <1>1, <1>2, <2>1, <2>2, <2>3, PcSets DEF PlaceInv
  <2>5. ArmInv'
    BY <1>6, <1>7, UnarmedArm DEF Unarmed
  <2>6. Removing'
    <3>1. ASSUME NEW i \in chunk PROVE bitem'[w][i] # "planned"
      <4>1. CASE i = c
        BY <4>1
      <4>2. CASE i # c
        <5>1. ~(i > c)
          BY <1>2, <1>7, Numbers DEF After
        <5>2. i \in Nat /\ c \in Nat
          BY <1>2, Numbers
        <5>3. i < c
          BY <4>2, <5>1, <5>2
        <5> QED BY <1>2, <1>3, <4>2, <5>3 DEF Committing, OthersKept
      <4> QED BY <4>1, <4>2
    <3> QED BY <1>1, <2>3, <3>1 DEF Removing
  <2>7. StageInv'
    BY <1>5, <2>1, <2>2, <2>6 DEF StageInv
  <2>8. CurrentInv' /\ RecoverInv'
    BY <2>1, <2>2 DEF CurrentInv, RecoverInv
  <2>9. WorkTypes'
    BY <1>1, <1>2, <2>2, <2>3, PcSets, Numbers DEF WorkTypes
  <2> QED BY <1>1, <2>2, <2>4, <2>5, <2>7, <2>8, <2>9 DEF WorkerInv
<1>8. CASE After(c) # {}
  <2>0. PICK n \in Items : n = Least(After(c))
    BY <1>2, <1>8, AfterLeast
  <2>1. pc' = "commit" /\ cur' = n
    BY <1>1, <1>8, <2>0
  <2>2. pc' \in CommitPcs /\ pc' \notin RemovePcs /\ pc' \notin RecoverPcs /\ pc' \in ActPcs
    BY <2>1, PcSets DEF CommitPcs
  <2>3. /\ n \in chunk /\ n > c
        /\ \A i \in chunk : i < n => i < c \/ i = c
        /\ \A i \in chunk : i > c => i = n \/ n < i
    BY <1>2, <1>8, <2>0, AfterLeast
  <2>4. PlaceInv'
    BY <1>1, <1>2, <2>1, <2>2, <2>3, PcSets DEF PlaceInv
  <2>5. ArmInv'
    <3>1. ASSUME NEW j \in Jobs, NEW i \in Items, partial'[j][i] = "armed"
          PROVE  j = w /\ i \in chunk /\ (n < i \/ i = n)
      BY <1>6, <2>3, <3>1 DEF After
    <3> QED BY <1>1, <2>1, <2>2, <3>1 DEF ArmInv
  <2>6. n \in Nat /\ c \in Nat /\ n # c
    <3>1. n \in Nat /\ c \in Nat
      BY <1>2, Numbers
    <3> QED BY <2>3, <3>1
  <2>7. Committing'
    <3>1. ASSUME NEW i \in chunk, i < n PROVE bitem'[w][i] # "planned"
      <4>1. CASE i = c
        BY <4>1
      <4>2. CASE i # c
        BY <1>2, <1>3, <2>3, <3>1, <4>2 DEF Committing, OthersKept
      <4> QED BY <4>1, <4>2
    <3>2. ASSUME NEW i \in chunk, i > n PROVE Raw(i)'
      <4>1. i > c /\ i # c
        BY <1>2, <2>3, <2>6, <3>2, Numbers
      <4> QED BY <1>2, <1>3, <1>4, <4>1 DEF Committing
    <3> QED BY <1>1, <2>1, <3>1, <3>2 DEF Committing
  <2>8. StageInv'
    BY <1>5, <2>1, <2>2, <2>7 DEF StageInv
  <2>9. Raw(n)'
    BY <1>2, <1>3, <1>4, <2>3, <2>6 DEF Committing
  <2>10. CurrentInv'
    BY <2>1, <2>9 DEF CurrentInv, Raw
  <2>11. RecoverInv'
    BY <2>1, <2>2 DEF RecoverInv
  <2>12. WorkTypes'
    BY <1>1, <1>2, <2>1, <2>2, <2>3, PcSets, Numbers DEF WorkTypes
  <2> QED BY <1>1, <2>2, <2>4, <2>5, <2>8, <2>10, <2>11, <2>12 DEF WorkerInv
<1> QED BY <1>7, <1>8

\* The worker goes on with the commit of the same object.
LEMMA CommitSame ==
  ASSUME WorkTypes, WorkerInv, NEW w \in Jobs, w = wjob, NEW c, c = cur,
         pc \in CommitPcs, pc' \in {"promote", "rename", "link"}, Same,
         OthersKept(w, c), enabled' = enabled, bitem'[w][c] # "none",
         ArmsNone, partial'[w][c] # "armed" \/ pc' = "promote", CurrentInv'
  PROVE  WorkerInv' /\ pc' \in ActPcs /\ WorkTypes' /\ wjob' = wjob /\ UNCHANGED jobs
<1>1. /\ wjob' = wjob /\ cur' = cur /\ chunk' = chunk /\ latched' = latched
      /\ outcome' = outcome /\ UNCHANGED jobs
  BY DEF Same
<1>2. c \in chunk /\ enabled /\ latched = "none" /\ chunk \subseteq Items
  <2>1. pc \in WorkerPcs /\ pc \notin {"next_chunk", "terminalize", "finalize"}
    BY PcSets DEF CommitPcs
  <2> QED BY <2>1 DEF WorkerInv, PlaceInv, WorkTypes
<1>3. InChunk /\ Committing
  BY PcSets DEF WorkerInv, StageInv
<1>4. \A i \in Items : i # c => (Aside(i)' <=> Aside(i)) /\ (Raw(i)' <=> Raw(i))
  BY <1>1, KeptRows
<1>5. InChunk'
  <2>1. \A i \in Items \ chunk : Aside(i)'
    BY <1>2, <1>3, <1>4 DEF InChunk
  <2>2. \A i \in chunk : bitem'[w][i] # "none"
    BY <1>2, <1>3 DEF InChunk, OthersKept
  <2> QED BY <1>1, <2>1, <2>2 DEF InChunk
<1>6. Committing'
  <2>1. ASSUME NEW i \in chunk, i < c PROVE bitem'[w][i] # "planned"
    BY <1>2, <1>3, <2>1, Numbers DEF Committing, OthersKept
  <2>2. ASSUME NEW i \in chunk, i > c PROVE Raw(i)'
    BY <1>2, <1>3, <1>4, <2>2, Numbers DEF Committing
  <2> QED BY <1>1, <2>1, <2>2 DEF Committing
<1>7. pc' \in CommitPcs /\ pc' \notin RemovePcs /\ pc' \notin RecoverPcs /\ pc' \in ActPcs
  BY PcSets DEF CommitPcs
<1>8. PlaceInv'
  BY <1>1, <1>2, <1>7, PcSets DEF PlaceInv
<1>9. ArmInv'
  <2>1. ASSUME NEW j \in Jobs, NEW i \in Items, partial'[j][i] = "armed"
        PROVE  j = w /\ i \in chunk /\ (c < i \/ (i = c /\ pc' = "promote"))
    BY <2>1 DEF ArmsNone, WorkerInv, ArmInv
  <2> QED BY <1>1, <1>7, <2>1 DEF ArmInv
<1>10. StageInv'
  BY <1>5, <1>6, <1>7, PcSets DEF StageInv
<1>11. RecoverInv'
  BY <1>7, PcSets DEF RecoverInv
<1>12. WorkTypes'
  BY <1>1, <1>7, PcSets DEF WorkTypes
<1> QED BY <1>1, <1>7, <1>8, <1>9, <1>10, <1>11, <1>12 DEF WorkerInv

\* The worker is through with one object of the chunk.
LEMMA GroupNext ==
  ASSUME WorkTypes, WorkerInv, NEW w \in Jobs, w = wjob, NEW c, c = cur,
         pc \in RemovePcs, NextGroup, OthersKept(w, c), enabled' = enabled,
         bitem'[w][c] \notin {"none", "planned", "ready"}, Unarmed
  PROVE  WorkerInv' /\ pc' \in ActPcs /\ WorkTypes' /\ wjob' = wjob /\ UNCHANGED jobs
<1>1. /\ wjob' = wjob /\ chunk' = chunk /\ latched' = latched /\ outcome' = outcome
      /\ UNCHANGED jobs
      /\ \/ After(c) = {} /\ pc' = "next_chunk" /\ cur' = cur
         \/ After(c) # {} /\ pc' = "boundary" /\ cur' = Least(After(c))
  BY DEF NextGroup, Goto
<1>2. c \in chunk /\ enabled /\ latched = "none" /\ chunk \subseteq Items
  <2>1. pc \in WorkerPcs /\ pc \notin {"next_chunk", "terminalize", "finalize"}
    BY PcSets DEF RemovePcs
  <2> QED BY <2>1 DEF WorkerInv, PlaceInv, WorkTypes
<1>3. InChunk /\ Removing
  BY PcSets DEF WorkerInv, StageInv
<1>4. \A i \in Items : i # c => (Aside(i)' <=> Aside(i))
  BY <1>1, KeptRows
<1>5. \A i \in Items \ chunk : Aside(i)'
  BY <1>2, <1>3, <1>4 DEF InChunk
<1>6. ArmInv'
  BY UnarmedArm
<1>7. CASE After(c) = {}
  <2>1. pc' = "next_chunk" /\ cur' = cur
    BY <1>1, <1>7
  <2>2. pc' \notin RemovePcs /\ pc' \notin CommitPcs /\ pc' \notin RecoverPcs /\ pc' \in ActPcs
    BY <2>1, PcSets DEF RemovePcs, CommitPcs
  <2>3. ASSUME NEW i \in chunk PROVE Aside(i)'
    <3>1. CASE i = c
      BY <1>1, <3>1 DEF Aside
    <3>2. CASE i # c
      <4>1. ~(i > c)
        BY <1>2, <1>7, Numbers DEF After
      <4>2. i \in Nat /\ c \in Nat
        BY <1>2, Numbers
      <4>3. i < c
        BY <3>2, <4>1, <4>2
      <4>4. Aside(i)
        BY <1>3, <4>3 DEF Removing, Aside
      <4> QED BY <1>2, <1>4, <3>2, <4>4
    <3> QED BY <3>1, <3>2
  <2>4. PlaceInv'
    BY <1>1, <1>2, <2>1, <2>2, PcSets DEF PlaceInv
  <2>5. StageInv'
    BY <1>5, <2>1, <2>2, <2>3 DEF StageInv
  <2>6. CurrentInv' /\ RecoverInv'
    BY <2>1, <2>2 DEF CurrentInv, RecoverInv
  <2>7. WorkTypes'
    BY <1>1, <2>1, <2>2, PcSets DEF WorkTypes
  <2> QED BY <1>1, <1>6, <2>2, <2>4, <2>5, <2>6, <2>7 DEF WorkerInv
<1>8. CASE After(c) # {}
  <2>0. PICK n \in Items : n = Least(After(c))
    BY <1>2, <1>8, AfterLeast
  <2>1. pc' = "boundary" /\ cur' = n
    BY <1>1, <1>8, <2>0
  <2>2. pc' \in RemovePcs /\ pc' \notin CommitPcs /\ pc' \notin RecoverPcs /\ pc' \in ActPcs
    BY <2>1, PcSets DEF RemovePcs
  <2>3. /\ n \in chunk /\ n > c
        /\ \A i \in chunk : i < n => i < c \/ i = c
    BY <1>2, <1>8, <2>0, AfterLeast
  <2>4. PlaceInv'
    BY <1>1, <1>2, <2>1, <2>2, <2>3, PcSets DEF PlaceInv
  <2>5. InChunk'
    <3>1. \A i \in chunk : bitem'[w][i] # "none"
      BY <1>2, <1>3 DEF InChunk, OthersKept
    <3> QED BY <1>1, <1>5, <3>1 DEF InChunk
  <2>6. Removing'
    <3>1. ASSUME NEW i \in chunk PROVE bitem'[w][i] # "planned"
      BY <1>2, <1>3 DEF Removing, OthersKept
    <3>2. ASSUME NEW i \in chunk, i < n PROVE bitem'[w][i] # "ready"
      <4>1. CASE i = c
        BY <4>1
      <4>2. CASE i # c
        BY <1>2, <1>3, <2>3, <3>2, <4>2 DEF Removing, OthersKept
      <4> QED BY <4>1, <4>2
    <3> QED BY <1>1, <2>1, <3>1, <3>2 DEF Removing
  <2>7. StageInv'
    BY <2>1, <2>2, <2>5, <2>6 DEF StageInv
  <2>8. CurrentInv' /\ RecoverInv'
    BY <2>1, <2>2 DEF CurrentInv, RecoverInv
  <2>9. WorkTypes'
    BY <1>1, <1>2, <2>1, <2>2, <2>3, PcSets, Numbers DEF WorkTypes
  <2> QED BY <1>1, <1>6, <2>2, <2>4, <2>7, <2>8, <2>9 DEF WorkerInv
<1> QED BY <1>7, <1>8

\* The stream stops.
LEMMA AbortTo ==
  ASSUME WorkTypes, WorkerInv, pc \in ActPcs, wjob \in Jobs, enabled,
         NEW why \in {"error", "uac"}, Abort(why), enabled' = enabled, Unarmed
  PROVE  WorkerInv' /\ pc' \in ActPcs /\ WorkTypes' /\ wjob' = wjob /\ UNCHANGED jobs
<1>1. /\ pc' = "terminalize" /\ outcome' = why /\ wjob' = wjob /\ cur' = cur
      /\ chunk' = chunk /\ latched' = latched /\ UNCHANGED jobs
  BY DEF Abort, Goto
<1>2. pc' \notin RemovePcs /\ pc' \notin CommitPcs /\ pc' \notin RecoverPcs /\ pc' \in ActPcs
  BY <1>1, PcSets DEF RemovePcs, CommitPcs
<1>3. PlaceInv' /\ StageInv' /\ CurrentInv' /\ RecoverInv'
  BY <1>1, <1>2 DEF PlaceInv, StageInv, CurrentInv, RecoverInv
<1>4. WorkTypes'
  BY <1>1, <1>2, PcSets DEF WorkTypes
<1> QED BY <1>1, <1>2, <1>3, <1>4, UnarmedArm DEF WorkerInv

\* The worker goes on between objects.
LEMMA PlainWorker ==
  ASSUME WorkTypes, wjob \in Jobs, enabled, Same, enabled' = enabled, Unarmed,
         pc' \in {"layout", "uac", "materialize", "next_chunk", "terminalize", "finalize"},
         latched = "none" \/ pc' \in {"next_chunk", "terminalize", "finalize"}, StageInv'
  PROVE  WorkerInv' /\ pc' \in ActPcs /\ WorkTypes' /\ wjob' = wjob /\ UNCHANGED jobs
<1>1. /\ wjob' = wjob /\ cur' = cur /\ chunk' = chunk /\ latched' = latched
      /\ outcome' = outcome /\ UNCHANGED jobs
  BY DEF Same
<1>2. pc' \notin RemovePcs /\ pc' \notin CommitPcs /\ pc' \notin RecoverPcs /\ pc' \in ActPcs
  BY PcSets DEF RemovePcs, CommitPcs
<1>3. PlaceInv' /\ CurrentInv' /\ RecoverInv'
  BY <1>1, <1>2 DEF PlaceInv, CurrentInv, RecoverInv
<1>4. WorkTypes'
  BY <1>1, <1>2, PcSets DEF WorkTypes
<1> QED BY <1>1, <1>2, <1>3, <1>4, UnarmedArm DEF WorkerInv

\* The stage of the worker says nothing of other places.
LEMMA OtherStage ==
  ASSUME pc' \in {"terminalize", "idle"}
  PROVE  StageInv'
<1>1. pc' \notin RemovePcs /\ pc' \notin CommitPcs
  BY DEF RemovePcs, CommitPcs
<1> QED BY <1>1 DEF StageInv

LEMMA EventsNext ==
  ASSUME IInv, AsUsual \/ \E kind \in EventKinds : Happens(kind)
  PROVE  EventTypes'
BY TypeGroups, EventStep DEF IInv

\* Nothing but the places of the worker changes, and perhaps containers go.
LEMMA StillTypes ==
  ASSUME IInv, pc \in ActPcs, UNCHANGED <<held, archives, batch, items>>
  PROVE  /\ Still /\ RowsInv' /\ Keeps /\ RowTypes' /\ ObjectTypes' /\ OpTypes'
         /\ partial' = partial
         /\ \A w \in Jobs : w = wjob => BatchGoes(w)
<1>1. /\ batch' = batch /\ bitem' = bitem /\ phase' = phase /\ proof' = proof
      /\ linked' = linked /\ opItem' = opItem /\ entry' = entry /\ present' = present
      /\ archiveRow' = archiveRow /\ final' = final /\ partial' = partial
  BY DEF held, archives, items
<1>2. Still
  BY <1>1 DEF Still
<1>3. /\ RowTypes /\ ObjectTypes /\ OpTypes
      /\ batch[wjob] \in {"waiting_for_uac", "parent_disposition"}
  BY AtWork
<1>4. RowTypes' /\ ObjectTypes' /\ OpTypes'
  BY <1>1, <1>3 DEF RowTypes, ObjectTypes, OpTypes
<1>5. RowsInv' /\ Keeps
  BY <1>1, <1>2, <1>4, StillGoes
<1>6. \A w \in Jobs : w = wjob => BatchGoes(w)
  BY <1>1, <1>3 DEF BatchGoes
<1> QED BY <1>1, <1>2, <1>4, <1>5, <1>6

\* A failed write: the job ends, the rows stay.
LEMMA EndsError ==
  ASSUME IInv, pc \in ActPcs \ CommitPcs, WorkFrame,
         UNCHANGED <<held, archives, batch, items>>, Ends("error"), EventTypes'
  PROVE  IInv'
<1>1. PICK w \in Jobs : w = wjob
  BY AtWork
<1>2. /\ RowsInv' /\ Keeps /\ RowTypes' /\ ObjectTypes' /\ OpTypes' /\ partial' = partial
  BY StillTypes
<1>3. "error" \in JobResults /\ "error" \notin Closed
  BY DEF JobResults, Closed
<1>4. batch' = batch
  OBVIOUS
<1> QED BY <1>1, <1>2, <1>3, <1>4, EndsStep

\* A block of objects that were not disposed of, by the worker.
LEMMA BlockGoes ==
  ASSUME IInv, pc \in ActPcs, NEW w \in Jobs, w = wjob,
         NEW S \in SUBSET Undisposed(w), S # {}, Block(w, S),
         UNCHANGED <<held, archiveRow, final, batch>>,
         partial' \in [Jobs -> [Items -> {"none", "armed", "plain"}]],
         \A j \in Jobs, i \in Items :
             \/ partial'[j][i] \in {partial[j][i], "none"}
             \/ j = w /\ i \in S /\ Owed(w, i) /\ partial'[j][i] = "plain"
  PROVE  /\ RowsInv' /\ Keeps /\ RowTypes' /\ ObjectTypes' /\ OpTypes' /\ BatchGoes(w)
         /\ \A i \in S : bitem'[w][i] \in {"blocked", "interrupted"}
         /\ \A i \in Items : i \notin S =>
              bitem'[w][i] = bitem[w][i] /\ phase'[w][i] = phase[w][i]
         /\ proof' = proof /\ linked' = linked
         /\ \A i \in S : ~PromotionPending(w, i) => bitem'[w][i] = "blocked"
         /\ ArmsNone
<1>1. /\ RowTypes /\ ObjectTypes /\ OpTypes /\ RowsInv
      /\ batch[w] \in {"waiting_for_uac", "parent_disposition"}
  BY AtWork
<1>2. /\ entry' = entry /\ present' = present
  BY DEF held
<1>3. S \subseteq Unsettled(w) /\ Only(w, S) /\ Moves(w, S)
  BY <1>1, <1>2, BlockMoves
<1>4. /\ bitem' \in [Jobs -> [Items -> ItemStates]]
      /\ phase' \in [Jobs -> [Items -> Phases]]
      /\ proof' = proof /\ linked' = linked /\ OpTypes'
      /\ \A j \in Jobs, i \in Items : ~(j = w /\ i \in S) =>
           bitem'[j][i] = bitem[j][i] /\ phase'[j][i] = phase[j][i]
      /\ \A i \in Items : i \in S /\ ~PromotionPending(w, i) => bitem'[w][i] = "blocked"
  BY <1>1, BlockIs
<1>5. RowTypes' /\ ObjectTypes'
  BY <1>1, <1>2, <1>4 DEF RowTypes, ObjectTypes
<1>6. BatchGoes(w)
  BY <1>1 DEF BatchGoes
<1>7. RowsInv' /\ Keeps
  BY <1>3, <1>5, <1>6, MovesGoes
<1>8. \A i \in S : bitem'[w][i] \in {"blocked", "interrupted"}
  BY <1>1, <1>2, BlockMoves
<1>9. S \subseteq Items
  BY DEF Undisposed
<1>10. ArmsNone
  BY DEF ArmsNone
<1> QED BY <1>4, <1>5, <1>6, <1>7, <1>8, <1>9, <1>10

LEMMA PreflightStep ==
  ASSUME IInv, Preflight
  PROVE  IInv'
<1>1. pc = "preflight" /\ WorkFrame /\ UNCHANGED <<held, archives, batch>>
  BY DEF Preflight
<1>2. pc \in ActPcs \ CommitPcs
  BY <1>1, PcSets DEF CommitPcs
<1>3. PICK w \in Jobs : w = wjob
  BY <1>2, AtWork
<1>4. EventTypes'
  BY EventsNext DEF Preflight, EventKinds
<1>5. /\ RowTypes /\ WorkTypes /\ WorkerInv /\ enabled
      /\ \A k \in Jobs, x \in Items : partial[k][x] # "armed"
  BY <1>2, AtWork
<1>6. Untouched
  BY <1>1, <1>5 DEF WorkerInv, StageInv
<1>7. latched = "none"
  BY <1>1, <1>5 DEF WorkerInv, PlaceInv
<1>8. partial' = partial /\ archiveRow' = archiveRow /\ final' = final
  BY <1>1 DEF archives
<1>9. Unarmed /\ enabled' = enabled
  BY <1>1, <1>5, <1>8 DEF Unarmed, WorkFrame, switch
<1>10. CASE UNCHANGED items /\ Ends("error")
  BY <1>1, <1>2, <1>4, <1>10, EndsError
<1>11. ASSUME Goto("layout"), Same, RowsInv', Keeps, RowTypes', ObjectTypes', OpTypes',
              BatchGoes(w), Untouched'
       PROVE  IInv'
  <2>1. pc' = "layout"
    BY <1>11 DEF Goto
  <2>2. StageInv'
    BY <1>11, <2>1 DEF StageInv, CommitPcs, RemovePcs
  <2>3. WorkerInv' /\ pc' \in ActPcs /\ WorkTypes' /\ wjob' = wjob /\ UNCHANGED jobs
    BY <1>3, <1>5, <1>7, <1>9, <1>11, <2>1, <2>2, PlainWorker
  <2>4. WorkStays
    BY <1>1, <1>2, <2>3 DEF WorkStays
  <2> QED BY <1>3, <1>4, <1>11, <2>3, <2>4, GoesStep
<1>12. CASE UNCHANGED items /\ Goto("layout") /\ Same
  <2>1. /\ RowsInv' /\ Keeps /\ RowTypes' /\ ObjectTypes' /\ OpTypes' /\ BatchGoes(w)
    BY <1>1, <1>2, <1>3, <1>12, StillTypes
  <2>2. Untouched'
    BY <1>6, <1>12 DEF Untouched, items, Same
  <2> QED BY <1>11, <1>12, <2>1, <2>2
<1>13. ASSUME NEW S \in SUBSET Undisposed(wjob), S # {}, Block(wjob, S), Goto("layout"), Same
       PROVE  IInv'
  <2>0. S \in SUBSET Undisposed(w) /\ Block(w, S)
    BY <1>3, <1>13
  <2>1. /\ RowsInv' /\ Keeps /\ RowTypes' /\ ObjectTypes' /\ OpTypes' /\ BatchGoes(w)
        /\ proof' = proof /\ linked' = linked
        /\ \A i \in Items : i \notin S => bitem'[w][i] = bitem[w][i]
        /\ \A i \in S : ~PromotionPending(w, i) => bitem'[w][i] = "blocked"
    <3>1. partial' \in [Jobs -> [Items -> {"none", "armed", "plain"}]]
      BY <1>5, <1>8 DEF RowTypes
    <3> QED BY <1>1, <1>2, <1>3, <1>8, <1>13, <2>0, <3>1, BlockGoes
  <2>2. Untouched'
    <3>1. ASSUME NEW i \in Items
          PROVE  bitem'[w][i] \in {"none", "planned", "blocked"} /\ ~proof[w][i] /\ ~linked[w][i]
      BY <1>3, <1>6, <2>1 DEF Untouched, PromotionPending
    <3> QED BY <1>3, <1>13, <2>1, <3>1 DEF Untouched, Same
  <2> QED BY <1>11, <1>13, <2>1, <2>2
<1> QED BY <1>10, <1>12, <1>13 DEF Preflight

LEMMA LayoutStep ==
  ASSUME IInv, Layout
  PROVE  IInv'
<1>1. pc = "layout" /\ WorkFrame /\ UNCHANGED <<held, archives>>
  BY DEF Layout
<1>2. pc \in ActPcs \ CommitPcs
  BY <1>1, PcSets DEF CommitPcs
<1>3. PICK w \in Jobs : w = wjob
  BY <1>2, AtWork
<1>4. EventTypes'
  BY EventsNext DEF Layout, EventKinds
<1>5. /\ RowTypes /\ ObjectTypes /\ OpTypes /\ WorkTypes /\ WorkerInv /\ RowsInv /\ enabled
      /\ batch[w] \in {"waiting_for_uac", "parent_disposition"}
      /\ \A k \in Jobs, x \in Items : partial[k][x] # "armed"
  BY <1>2, <1>3, AtWork
<1>6. Untouched /\ latched = "none"
  BY <1>1, <1>5 DEF WorkerInv, StageInv, PlaceInv
<1>7. \A i \in Items : /\ bitem[w][i] \in {"none", "planned", "blocked"}
                       /\ ~proof[w][i] /\ ~linked[w][i]
  BY <1>3, <1>6 DEF Untouched
<1>8. /\ partial' = partial /\ archiveRow' = archiveRow /\ final' = final
      /\ entry' = entry /\ present' = present /\ enabled' = enabled
  BY <1>1 DEF archives, held, WorkFrame, switch
<1>9. Unarmed
  BY <1>5, <1>8 DEF Unarmed
<1>10. CASE UNCHANGED <<batch, items>> /\ Ends("error")
  BY <1>1, <1>2, <1>4, <1>10, EndsError
<1>11. CASE /\ Undisposed(wjob) # {}
            /\ phase' = [phase EXCEPT ![wjob] = [i \in Items |->
                 IF i \notin Undisposed(wjob) THEN phase[wjob][i]
                 ELSE IF archiveRow[i] THEN "archive_verify_intent"
                 ELSE "archive_path_intent"]]
            /\ Goto("uac") /\ Same
            /\ UNCHANGED <<batch, bitem, proof, linked, opItem>>
  <2> DEFINE S == Undisposed(w)
  <2>1. S # {} /\ S \subseteq Items /\ \A i \in S : bitem[w][i] = "planned"
    BY <1>3, <1>7, <1>11 DEF Undisposed
  <2>2. /\ \A j \in Jobs, i \in Items : ~(j = w /\ i \in S) => phase'[j][i] = phase[j][i]
        /\ \A i \in S : phase'[w][i] =
              IF archiveRow[i] THEN "archive_verify_intent" ELSE "archive_path_intent"
        /\ phase' \in [Jobs -> [Items -> Phases]]
    <3>1. phase' = [phase EXCEPT ![w] = [i \in Items |->
                 IF i \notin S THEN phase[w][i]
                 ELSE IF archiveRow[i] THEN "archive_verify_intent"
                 ELSE "archive_path_intent"]]
      BY <1>3, <1>11
    <3>2. {"archive_verify_intent", "archive_path_intent"} \subseteq Phases
      BY DEF Phases, Intents
    <3>3. phase \in [Jobs -> [Items -> Phases]]
      BY <1>5 DEF RowTypes
    <3> HIDE DEF S
    <3>4. phase'[w] = [i \in Items |->
                 IF i \notin S THEN phase[w][i]
                 ELSE IF archiveRow[i] THEN "archive_verify_intent"
                 ELSE "archive_path_intent"]
      BY <3>1, <3>3
    <3>5. \A j \in Jobs : j # w => phase'[j] = phase[j]
      BY <3>1, <3>3
    <3> QED BY <2>1, <3>1, <3>2, <3>3, <3>4, <3>5
  <2>3. RowTypes' /\ ObjectTypes' /\ OpTypes'
    BY <1>5, <1>8, <1>11, <2>2 DEF RowTypes, ObjectTypes, OpTypes
  <2>4. S \in SUBSET Unsettled(w)
    BY DEF Undisposed, Unsettled
  <2>5. Only(w, S)
    BY <1>8, <1>11, <2>2 DEF Only
  <2>6. Moves(w, S)
    <3>1. SUFFICES ASSUME NEW i \in S
          PROVE  FitsOK(bitem'[w][i], phase'[w][i], proof'[w][i], linked'[w][i],
                        partial'[w][i], entry'[i], present'[i], archiveRow'[i], final'[i])
      BY <1>8 DEF Moves, Fits
    <3>2. FitsOK(bitem[w][i], phase[w][i], proof[w][i], linked[w][i],
                 partial[w][i], entry[i], present[i], archiveRow[i], final[i])
      BY <1>5, <2>4, UnsettledFits DEF Fits
    <3>3. /\ bitem[w][i] = "planned" /\ ~proof[w][i] /\ ~linked[w][i]
          /\ phase'[w][i] = IF archiveRow[i] THEN "archive_verify_intent"
                            ELSE "archive_path_intent"
      BY <1>7, <2>1, <2>2
    <3> QED BY <1>8, <1>11, <3>2, <3>3 DEF FitsOK, ItemOK, EarlyPhases, Intents
  <2>7. BatchGoes(w)
    BY <1>5, <1>11 DEF BatchGoes
  <2>8. RowsInv' /\ Keeps
    BY <1>2, <1>3, <2>1, <2>3, <2>4, <2>5, <2>6, <2>7, MovesGoes
  <2>9. pc' = "uac" /\ wjob' = w
    BY <1>3, <1>11 DEF Goto, Same
  <2>10. Waiting'
    <3>1. ASSUME NEW i \in Items
          PROVE  bitem'[w][i] \notin {"planned", "ready"} \/ i \in NotGiven(w)'
      <4>1. CASE i \in S
        BY <1>11, <2>1, <2>2, <4>1 DEF NotGiven, Intents
      <4>2. CASE i \notin S
        BY <1>11, <4>2 DEF Undisposed
      <4> QED BY <4>1, <4>2
    <3>2. PICK i \in S : TRUE
      BY <2>1
    <3>3. i \in NotGiven(w)'
      BY <1>11, <2>1, <2>2, <3>2 DEF NotGiven, Intents
    <3> QED BY <2>9, <3>1, <3>3 DEF Waiting, Aside
  <2>11. StageInv'
    BY <2>9, <2>10 DEF StageInv, CommitPcs, RemovePcs
  <2>12. WorkerInv' /\ pc' \in ActPcs /\ WorkTypes' /\ wjob' = wjob /\ UNCHANGED jobs
    BY <1>3, <1>5, <1>6, <1>8, <1>9, <1>11, <2>9, <2>11, PlainWorker
  <2>13. WorkStays
    BY <1>1, <1>2, <2>12 DEF WorkStays
  <2> QED BY <1>3, <1>4, <2>3, <2>7, <2>8, <2>12, <2>13, GoesStep
<1>12. CASE /\ Undisposed(wjob) = {}
            /\ batch' = [batch EXCEPT ![wjob] = "failed"]
            /\ UNCHANGED items /\ Ends("failed")
  <2>1. /\ bitem' = bitem /\ phase' = phase /\ proof' = proof /\ linked' = linked
        /\ opItem' = opItem
    BY <1>12 DEF items
  <2>2. Still
    BY <1>8, <2>1 DEF Still
  <2>3. Unclear(w) = {} /\ Undisposed(w) = {} /\ Deleted(w) = {}
    BY <1>3, <1>7, <1>12 DEF Unclear, Deleted
  <2>4. Deserved(w, "failed")
    BY <1>5, <2>3, AllSettled DEF Deserved
  <2>5. batch' = [batch EXCEPT ![w] = "failed"] /\ batch[w] # "none"
    BY <1>3, <1>5, <1>12
  <2>6. RowsInv'
    BY <1>5, <2>2, <2>4, <2>5, BatchStep
  <2>7. batch'[w] = "failed" /\ \A k \in Jobs : k # w => batch'[k] = batch[k]
    BY <1>5, <2>5 DEF RowTypes
  <2>8. Keeps
    BY <2>2, <2>5, <2>7, StillRows DEF Keeps
  <2>9. RowTypes' /\ ObjectTypes' /\ OpTypes'
    BY <1>5, <1>8, <2>1, <2>5 DEF RowTypes, ObjectTypes, OpTypes, Closed
  <2>10. "failed" \in JobResults
    BY DEF JobResults, Closed
  <2> QED BY <1>1, <1>2, <1>3, <1>4, <1>8, <1>12, <2>6, <2>7, <2>8, <2>9, <2>10, EndsStep
<1> QED BY <1>10, <1>11, <1>12 DEF Layout

LEMMA UacStep ==
  ASSUME IInv, Uac
  PROVE  IInv'
<1>1. pc = "uac" /\ WorkFrame /\ UNCHANGED <<held, archives, batch, items>>
  BY DEF Uac
<1>2. pc \in ActPcs \ CommitPcs
  BY <1>1, PcSets DEF CommitPcs
<1>3. PICK w \in Jobs : w = wjob
  BY <1>2, AtWork
<1>4. EventTypes'
  BY EventsNext DEF Uac, EventKinds
<1>5. /\ WorkTypes /\ WorkerInv /\ enabled
      /\ \A k \in Jobs, x \in Items : partial[k][x] # "armed"
  BY <1>2, AtWork
<1>6. Waiting /\ latched = "none"
  BY <1>1, <1>5 DEF WorkerInv, StageInv, PlaceInv
<1>7. /\ RowsInv' /\ Keeps /\ RowTypes' /\ ObjectTypes' /\ OpTypes' /\ BatchGoes(w)
      /\ partial' = partial
  BY <1>1, <1>2, <1>3, StillTypes
<1>8. Unarmed /\ enabled' = enabled
  BY <1>1, <1>5, <1>7 DEF Unarmed, WorkFrame, switch
<1>9. WorkerInv' /\ pc' \in ActPcs /\ WorkTypes' /\ wjob' = wjob /\ UNCHANGED jobs
  <2>1. CASE Goto("materialize") /\ Same
    <3>1. pc' = "materialize" /\ wjob' = wjob
      BY <2>1 DEF Goto, Same
    <3>2. Waiting'
      BY <1>1, <1>6, <3>1 DEF Waiting, Aside, NotGiven, items
    <3>3. StageInv'
      BY <3>1, <3>2 DEF StageInv, CommitPcs, RemovePcs
    <3> QED BY <1>3, <1>5, <1>6, <1>8, <2>1, <3>1, <3>3, PlainWorker
  <2>2. CASE Abort("error") \/ Abort("uac")
    BY <1>2, <1>3, <1>5, <1>8, <2>2, AbortTo
  <2> QED BY <2>1, <2>2 DEF Uac
<1>10. WorkStays
  BY <1>1, <1>2, <1>9 DEF WorkStays
<1> QED BY <1>3, <1>4, <1>7, <1>9, <1>10, GoesStep

LEMMA NextChunkStep ==
  ASSUME IInv, NextChunk
  PROVE  IInv'
<1>1. pc = "next_chunk" /\ WorkFrame /\ UNCHANGED <<held, archives, batch, items>>
  BY DEF NextChunk
<1>2. pc \in ActPcs \ CommitPcs
  BY <1>1, PcSets DEF CommitPcs
<1>3. PICK w \in Jobs : w = wjob
  BY <1>2, AtWork
<1>4. EventTypes'
  BY EventsNext DEF NextChunk, EventKinds
<1>5. /\ WorkTypes /\ WorkerInv /\ enabled
      /\ \A k \in Jobs, x \in Items : partial[k][x] # "armed"
  BY <1>2, AtWork
<1>6. latched = "none" => \A i \in Items : Aside(i)
  BY <1>1, <1>5 DEF WorkerInv, StageInv
<1>7. /\ RowsInv' /\ Keeps /\ RowTypes' /\ ObjectTypes' /\ OpTypes' /\ BatchGoes(w)
      /\ partial' = partial
  BY <1>1, <1>2, <1>3, StillTypes
<1>8. Unarmed /\ enabled' = enabled /\ wjob' = wjob
  BY <1>1, <1>5, <1>7 DEF Unarmed, WorkFrame, switch, Same, NextChunk
<1>9. \/ latched # "none" /\ pc' = "terminalize"
      \/ latched = "none" /\ NotGiven(wjob) # {} /\ pc' = "materialize"
      \/ latched = "none" /\ NotGiven(wjob) = {} /\ pc' = "finalize"
  BY DEF NextChunk, Goto
<1>10. pc' \notin CommitPcs /\ pc' \notin RemovePcs /\ pc' \notin RecoverPcs /\ pc' \in ActPcs
  BY <1>9, PcSets DEF CommitPcs, RemovePcs
<1>11. bitem' = bitem /\ phase' = phase
  BY <1>1 DEF items
<1>12. StageInv'
  <2>1. CASE pc' = "terminalize"
    BY <2>1, OtherStage
  <2>2. CASE latched = "none" /\ NotGiven(wjob) # {} /\ pc' = "materialize"
    <3>1. Waiting'
      BY <1>6, <1>8, <1>11, <2>2 DEF Waiting, Aside, NotGiven
    <3> QED BY <1>10, <2>2, <3>1 DEF StageInv
  <2>3. CASE latched = "none" /\ NotGiven(wjob) = {} /\ pc' = "finalize"
    <3>1. Undisposed(wjob) = {}
      BY <1>6, <2>3 DEF Aside, Undisposed
    <3>2. Undisposed(wjob)' = {}
      BY <1>8, <1>11, <3>1 DEF Undisposed
    <3> QED BY <1>10, <2>3, <3>2 DEF StageInv
  <2> QED BY <1>9, <2>1, <2>2, <2>3
<1>13. WorkerInv' /\ pc' \in ActPcs /\ WorkTypes' /\ wjob' = wjob /\ UNCHANGED jobs
  <2>1. CASE Same
    BY <1>1, <1>3, <1>5, <1>8, <1>9, <1>12, <2>1, PlainWorker
  <2>2. ASSUME latched' = "observer", Goto("terminalize"),
               UNCHANGED <<wjob, cur, chunk, outcome>>, UNCHANGED jobs
        PROVE  WorkerInv' /\ pc' \in ActPcs /\ WorkTypes' /\ wjob' = wjob /\ UNCHANGED jobs
    <3>1. /\ pc' = "terminalize" /\ wjob' = w /\ cur' = cur /\ chunk' = chunk
          /\ outcome' = outcome
      BY <1>3, <2>2 DEF Goto
    <3>2. PlaceInv' /\ CurrentInv' /\ RecoverInv'
      BY <1>5, <1>8, <1>10, <3>1 DEF PlaceInv, CurrentInv, RecoverInv
    <3>3. WorkTypes'
      BY <1>5, <1>10, <2>2, <3>1, PcSets DEF WorkTypes
    <3> QED BY <1>3, <1>8, <1>10, <1>12, <2>2, <3>1, <3>2, <3>3, UnarmedArm DEF WorkerInv
  <2> QED BY <2>1, <2>2 DEF NextChunk
<1>14. WorkStays
  BY <1>1, <1>2, <1>13 DEF WorkStays
<1> QED BY <1>3, <1>4, <1>7, <1>13, <1>14, GoesStep

LEMMA TerminalizeStep ==
  ASSUME IInv, Terminalize
  PROVE  IInv'
<1>1. pc = "terminalize" /\ WorkFrame /\ UNCHANGED <<held, archives, batch>>
  BY DEF Terminalize
<1>2. pc \in ActPcs \ CommitPcs
  BY <1>1, PcSets DEF CommitPcs
<1>3. PICK w \in Jobs : w = wjob
  BY <1>2, AtWork
<1>4. EventTypes'
  BY EventsNext DEF Terminalize, EventKinds
<1>5. /\ RowTypes /\ OpTypes /\ WorkTypes /\ WorkerInv /\ enabled
      /\ \A k \in Jobs, x \in Items : partial[k][x] # "armed"
  BY <1>2, AtWork
<1>6. CASE UNCHANGED items /\ Ends("error")
  BY <1>1, <1>2, <1>4, <1>6, EndsError
<1>7. CASE Block(wjob, Undisposed(wjob)) /\ Goto("finalize") /\ Same
  <2>1. Block(w, Undisposed(w)) /\ pc' = "finalize" /\ wjob' = w
    BY <1>3, <1>7 DEF Goto, Same
  <2>2. partial' = partial /\ archiveRow' = archiveRow /\ final' = final /\ enabled' = enabled
    BY <1>1 DEF archives, WorkFrame, switch
  <2>3. /\ RowsInv' /\ Keeps /\ RowTypes' /\ ObjectTypes' /\ OpTypes' /\ BatchGoes(w)
        /\ Undisposed(w)' = {}
    <3>1. CASE Undisposed(w) = {}
      <4>1. /\ bitem' \in [Jobs -> [Items -> ItemStates]]
            /\ phase' \in [Jobs -> [Items -> Phases]]
            /\ proof' = proof /\ linked' = linked
            /\ OpTypes'
            /\ \A j \in Jobs, i \in Items :
                 bitem'[j][i] = bitem[j][i] /\ phase'[j][i] = phase[j][i]
        BY <1>5, <2>1, <3>1, BlockIs
      <4>2. bitem' = bitem /\ phase' = phase
        <5>1. bitem \in [Jobs -> [Items -> ItemStates]] /\ phase \in [Jobs -> [Items -> Phases]]
          BY <1>5 DEF RowTypes
        <5>2. \A j \in Jobs : bitem'[j] = bitem[j] /\ phase'[j] = phase[j]
          BY <4>1, <5>1
        <5> QED BY <4>1, <5>1, <5>2
      <4>3. Still /\ RowTypes'
        BY <1>1, <1>5, <2>2, <4>1, <4>2 DEF Still, held, RowTypes
      <4>4. RowsInv' /\ Keeps
        BY <1>1, <1>2, <4>3, StillGoes
      <4>5. ObjectTypes' /\ BatchGoes(w)
        <5>1. ObjectTypes /\ batch[w] \in {"waiting_for_uac", "parent_disposition"}
          BY <1>2, <1>3, AtWork
        <5> QED BY <1>1, <2>2, <5>1 DEF ObjectTypes, held, BatchGoes
      <4>6. Undisposed(w)' = {}
        BY <3>1, <4>2 DEF Undisposed
      <4> QED BY <4>1, <4>3, <4>4, <4>5, <4>6
    <3>2. CASE Undisposed(w) # {}
      <4>1. partial' \in [Jobs -> [Items -> {"none", "armed", "plain"}]]
        BY <1>5, <2>2 DEF RowTypes
      <4>2. /\ RowsInv' /\ Keeps /\ RowTypes' /\ ObjectTypes' /\ OpTypes' /\ BatchGoes(w)
            /\ \A i \in Undisposed(w) : bitem'[w][i] \in {"blocked", "interrupted"}
            /\ \A i \in Items : i \notin Undisposed(w) => bitem'[w][i] = bitem[w][i]
        BY <1>1, <1>2, <1>3, <2>1, <2>2, <3>2, <4>1, BlockGoes
      <4>3. Undisposed(w)' = {}
        <5>1. ASSUME NEW i \in Items PROVE bitem'[w][i] \notin {"planned", "ready"}
          BY <4>2 DEF Undisposed
        <5> QED BY <5>1 DEF Undisposed
      <4> QED BY <4>2, <4>3
    <3> QED BY <3>1, <3>2
  <2>4. Unarmed
    BY <1>5, <2>2 DEF Unarmed
  <2>5. StageInv'
    <3>1. Undisposed(wjob)' = {}
      BY <2>1, <2>3 DEF Undisposed
    <3> QED BY <2>1, <3>1 DEF StageInv, CommitPcs, RemovePcs
  <2>6. WorkerInv' /\ pc' \in ActPcs /\ WorkTypes' /\ wjob' = wjob /\ UNCHANGED jobs
    BY <1>3, <1>5, <1>7, <2>1, <2>2, <2>4, <2>5, PlainWorker
  <2>7. WorkStays
    BY <1>1, <1>2, <2>6 DEF WorkStays
  <2> QED BY <1>3, <1>4, <2>3, <2>6, <2>7, GoesStep
<1> QED BY <1>6, <1>7 DEF Terminalize

LEMMA FinalizeStep ==
  ASSUME IInv, Finalize
  PROVE  IInv'
<1>1. pc = "finalize" /\ WorkFrame /\ UNCHANGED <<held, archives, items>>
  BY DEF Finalize, FinalizeAs
<1>2. pc \in ActPcs \ CommitPcs
  BY <1>1, PcSets DEF CommitPcs
<1>3. PICK w \in Jobs : w = wjob
  BY <1>2, AtWork
<1>4. EventTypes'
  BY EventsNext DEF Finalize, FinalizeAs, EventKinds
<1>5. /\ RowTypes /\ ObjectTypes /\ OpTypes /\ RowsInv /\ WorkerInv
      /\ batch[w] \in {"waiting_for_uac", "parent_disposition"}
  BY <1>2, <1>3, AtWork
<1>6. Undisposed(w) = {}
  BY <1>1, <1>3, <1>5 DEF WorkerInv, StageInv
<1>7. CASE UNCHANGED batch /\ Ends("error")
  BY <1>1, <1>2, <1>4, <1>7, EndsError
<1>8. CASE batch' = [batch EXCEPT ![wjob] = Verdict(wjob)] /\ Ends(Verdict(wjob))
  <2>1. PICK v \in {"completed", "partial", "cancelled", "failed", "interrupted"} :
          v = Verdict(w)
    BY DEF Verdict
  <2>2. batch' = [batch EXCEPT ![w] = v] /\ Ends(v)
    BY <1>3, <1>8, <2>1
  <2>3. v \in Closed => Unclear(w) = {}
    BY <2>1 DEF Verdict, Closed
  <2>4. v = "completed" => Deleted(w) = Selected(w)
    BY <2>1 DEF Verdict
  <2>5. v = "failed" => Deleted(w) = {}
    BY <2>1 DEF Verdict
  <2>6. Deserved(w, v)
    <3>1. v # "none"
      BY <2>1
    <3>2. CASE v \notin Closed
      BY <3>1, <3>2 DEF Deserved, Closed
    <3>3. CASE v \in Closed
      BY <1>5, <1>6, <2>3, <2>4, <2>5, <3>1, <3>3, AllSettled DEF Deserved
    <3> QED BY <3>2, <3>3
  <2>7. /\ bitem' = bitem /\ phase' = phase /\ proof' = proof /\ linked' = linked
        /\ opItem' = opItem /\ partial' = partial /\ archiveRow' = archiveRow
        /\ final' = final /\ entry' = entry /\ present' = present
    BY <1>1 DEF items, archives, held
  <2>8. Still
    BY <2>7 DEF Still
  <2>9. RowsInv'
    BY <1>5, <2>2, <2>6, <2>8, BatchStep
  <2>10. batch'[w] = v /\ \A k \in Jobs : k # w => batch'[k] = batch[k]
    BY <1>5, <2>2 DEF RowTypes
  <2>11. Keeps
    BY <1>5, <2>1, <2>8, <2>10, StillRows DEF Keeps
  <2>12. RowTypes' /\ ObjectTypes' /\ OpTypes'
    BY <1>5, <2>1, <2>2, <2>7 DEF RowTypes, ObjectTypes, OpTypes, Closed
  <2>13. v \in JobResults
    BY <2>1 DEF JobResults, Closed
  <2> QED BY <1>1, <1>2, <1>3, <1>4, <2>2, <2>7, <2>9, <2>10, <2>11, <2>12, <2>13, EndsStep
<1> QED BY <1>7, <1>8 DEF Finalize, FinalizeAs

LEMMA MaterializeStep ==
  ASSUME IInv, Materialize
  PROVE  IInv'
<1>1. pc = "materialize" /\ WorkFrame /\ UNCHANGED <<held, archiveRow, final, batch>>
  BY DEF Materialize
<1>2. pc \in ActPcs \ CommitPcs
  BY <1>1, PcSets DEF CommitPcs
<1>3. PICK w \in Jobs : w = wjob
  BY <1>2, AtWork
<1>4. EventTypes'
  BY EventsNext DEF Materialize, EventKinds
<1>5. /\ RowTypes /\ ObjectTypes /\ OpTypes /\ WorkTypes /\ WorkerInv /\ RowsInv /\ enabled
      /\ batch[w] \in {"waiting_for_uac", "parent_disposition"}
      /\ \A k \in Jobs, x \in Items : partial[k][x] # "armed"
  BY <1>2, <1>3, AtWork
<1>6. Waiting /\ latched = "none"
  BY <1>1, <1>5 DEF WorkerInv, StageInv, PlaceInv
<1>7. entry' = entry /\ present' = present /\ enabled' = enabled
  BY <1>1 DEF held, WorkFrame, switch
<1>8. PICK S \in SUBSET Items : S = FirstOf(NotGiven(wjob))
  <2>1. NotGiven(wjob) \in SUBSET Items /\ NotGiven(wjob) # {}
    BY <1>6 DEF Waiting, NotGiven
  <2> QED BY <2>1, FirstOfIs
<1>9. S # {} /\ S \subseteq NotGiven(w)
  <2>1. NotGiven(wjob) \in SUBSET Items /\ NotGiven(wjob) # {}
    BY <1>6 DEF Waiting, NotGiven
  <2> QED BY <1>3, <1>8, <2>1, FirstOfIs
<1>10. S \in SUBSET Undisposed(w) /\ S \in SUBSET Unsettled(w)
  BY <1>9 DEF NotGiven, Undisposed, Unsettled
<1>11. ASSUME NEW i \in S
       PROVE  /\ i \in Items /\ bitem[w][i] = "planned" /\ phase[w][i] \in Intents
              /\ FitsOK(bitem[w][i], phase[w][i], proof[w][i], linked[w][i],
                        partial[w][i], entry[i], present[i], archiveRow[i], final[i])
              /\ ~proof[w][i] /\ ~linked[w][i]
              /\ phase[w][i] = "archive_path_intent" => ~archiveRow[i]
  <2>1. i \in Items /\ bitem[w][i] = "planned" /\ phase[w][i] \in Intents
    BY <1>9 DEF NotGiven
  <2>2. FitsOK(bitem[w][i], phase[w][i], proof[w][i], linked[w][i],
               partial[w][i], entry[i], present[i], archiveRow[i], final[i])
    BY <1>5, <1>10, UnsettledFits DEF Fits
  <2> QED BY <2>1, <2>2 DEF FitsOK, ItemOK, EarlyPhases
<1>12. PICK new \in SUBSET S : new = {i \in S : phase[w][i] = "archive_path_intent"}
  OBVIOUS
<1>13. ASSUME phase' = [phase EXCEPT ![w] = [i \in Items |->
                  IF i \in new THEN "archive_container_bound" ELSE phase[w][i]]]
       PROVE  /\ phase' \in [Jobs -> [Items -> Phases]]
              /\ \A j \in Jobs, i \in Items : ~(j = w /\ i \in new) => phase'[j][i] = phase[j][i]
              /\ \A i \in new : phase'[w][i] = "archive_container_bound"
  <2>1. phase \in [Jobs -> [Items -> Phases]]
    BY <1>5 DEF RowTypes
  <2>2. "archive_container_bound" \in Phases
    BY DEF Phases
  <2>3. phase'[w] = [i \in Items |->
                  IF i \in new THEN "archive_container_bound" ELSE phase[w][i]]
    BY <1>13, <2>1
  <2>4. \A j \in Jobs : j # w => phase'[j] = phase[j]
    BY <1>13, <2>1
  <2> QED BY <1>13, <2>1, <2>2, <2>3, <2>4
\* The rows after the containers were bound.
<1>14. ASSUME phase' \in [Jobs -> [Items -> Phases]],
              \A j \in Jobs, i \in Items : ~(j = w /\ i \in new) => phase'[j][i] = phase[j][i],
              \A i \in new : phase'[w][i] = "archive_container_bound",
              UNCHANGED <<bitem, proof, linked, opItem>>,
              partial' \in [Jobs -> [Items -> {"none", "armed", "plain"}]],
              \A j \in Jobs, i \in Items : ~(j = w /\ i \in new) => partial'[j][i] = partial[j][i],
              \A i \in new : partial'[w][i] \in {partial[w][i], "armed"}
       PROVE  RowsInv' /\ Keeps /\ RowTypes' /\ ObjectTypes' /\ OpTypes' /\ BatchGoes(w)
  <2>1. RowTypes' /\ ObjectTypes' /\ OpTypes' /\ BatchGoes(w)
    BY <1>1, <1>5, <1>7, <1>14 DEF RowTypes, ObjectTypes, OpTypes, BatchGoes
  <2>2. Only(w, S)
    BY <1>1, <1>7, <1>14 DEF Only
  <2>3. Moves(w, S)
    <3>1. SUFFICES ASSUME NEW i \in S
          PROVE  FitsOK(bitem'[w][i], phase'[w][i], proof'[w][i], linked'[w][i],
                        partial'[w][i], entry'[i], present'[i], archiveRow'[i], final'[i])
      BY <1>1, <1>7 DEF Moves, Fits
    <3>2. /\ i \in Items /\ bitem[w][i] = "planned"
          /\ FitsOK(bitem[w][i], phase[w][i], proof[w][i], linked[w][i],
                    partial[w][i], entry[i], present[i], archiveRow[i], final[i])
          /\ ~proof[w][i] /\ ~linked[w][i]
      BY <1>11
    <3>3. CASE i \in new
      <4>1. ~archiveRow[i] /\ phase'[w][i] = "archive_container_bound"
            /\ partial'[w][i] \in {partial[w][i], "armed"}
        BY <1>11, <1>12, <1>14, <3>3
      <4> QED BY <1>1, <1>7, <1>14, <3>2, <4>1 DEF FitsOK, ItemOK, EarlyPhases, Intents
    <3>4. CASE i \notin new
      BY <1>1, <1>7, <1>14, <3>2, <3>4
    <3> QED BY <3>3, <3>4
  <2> QED BY <1>2, <1>3, <1>9, <1>10, <2>1, <2>2, <2>3, MovesGoes
<1>15. CASE /\ phase' = [phase EXCEPT ![w] = [i \in Items |->
                  IF i \in new THEN "archive_container_bound" ELSE phase[w][i]]]
            /\ partial' = [partial EXCEPT ![w] = [i \in Items |->
                  IF i \in new THEN "armed" ELSE partial[w][i]]]
            /\ chunk' = S /\ cur' = Least(S) /\ Goto("commit")
            /\ UNCHANGED <<bitem, proof, linked, opItem, wjob, latched, outcome>>
            /\ UNCHANGED jobs
  <2>1. /\ phase' \in [Jobs -> [Items -> Phases]]
        /\ \A j \in Jobs, i \in Items : ~(j = w /\ i \in new) => phase'[j][i] = phase[j][i]
        /\ \A i \in new : phase'[w][i] = "archive_container_bound"
    BY <1>13, <1>15
  <2>2. /\ partial' \in [Jobs -> [Items -> {"none", "armed", "plain"}]]
        /\ \A j \in Jobs, i \in Items : ~(j = w /\ i \in new) => partial'[j][i] = partial[j][i]
        /\ \A i \in new : partial'[w][i] = "armed"
    <3>1. partial \in [Jobs -> [Items -> {"none", "armed", "plain"}]]
      BY <1>5 DEF RowTypes
    <3>2. partial'[w] = [i \in Items |-> IF i \in new THEN "armed" ELSE partial[w][i]]
      BY <1>15, <3>1
    <3>3. \A j \in Jobs : j # w => partial'[j] = partial[j]
      BY <1>15, <3>1
    <3> QED BY <1>15, <3>1, <3>2, <3>3
  <2>3. RowsInv' /\ Keeps /\ RowTypes' /\ ObjectTypes' /\ OpTypes' /\ BatchGoes(w)
    BY <1>14, <1>15, <2>1, <2>2
  <2>4. PICK n \in S : n = Least(S) /\ \A i \in S : n <= i
    BY <1>9, LeastIs, Numbers
  <2>5. pc' = "commit" /\ cur' = n /\ chunk' = S /\ wjob' = w /\ latched' = "none"
    BY <1>3, <1>6, <1>15, <2>4 DEF Goto
  <2>6. pc' \in CommitPcs /\ pc' \notin RemovePcs /\ pc' \notin RecoverPcs /\ pc' \in ActPcs
    BY <2>5, PcSets DEF CommitPcs
  <2>7. PlaceInv'
    BY <1>3, <1>5, <1>7, <2>5, <2>6, PcSets DEF PlaceInv
  <2>8. ASSUME NEW i \in S PROVE i \in Nat /\ n \in Nat /\ n <= i
    BY <2>4, Numbers
  <2>9. ArmInv'
    <3>1. ASSUME NEW j \in Jobs, NEW i \in Items, partial'[j][i] = "armed"
          PROVE  j = w /\ i \in S
      BY <1>5, <1>12, <2>2, <3>1
    <3>2. ASSUME NEW i \in S PROVE n < i \/ i = n
      BY <2>8
    <3> QED BY <2>5, <2>6, <3>1, <3>2 DEF ArmInv
  <2>10. ASSUME NEW i \in S PROVE Raw(i)'
    BY <1>11, <1>15, <2>5 DEF Raw
  <2>11. InChunk'
    <3>1. ASSUME NEW i \in Items \ S PROVE Aside(i)'
      <4>1. Aside(i)
        BY <1>6 DEF Waiting
      <4>2. phase'[w][i] = phase[w][i]
        BY <1>12, <2>1
      <4> QED BY <1>3, <1>15, <2>5, <4>1, <4>2 DEF Aside, NotGiven
    <3>2. \A i \in S : bitem'[w][i] # "none"
      BY <1>11, <1>15
    <3> QED BY <2>5, <3>1, <3>2 DEF InChunk
  <2>12. Committing'
    <3>1. \A i \in S : ~(i < n)
      BY <2>8
    <3> QED BY <2>5, <2>10, <3>1 DEF Committing
  <2>13. StageInv'
    BY <2>5, <2>6, <2>11, <2>12 DEF StageInv
  <2>14. CurrentInv'
    BY <2>4, <2>5, <2>10 DEF CurrentInv, Raw
  <2>15. RecoverInv'
    BY <2>5, <2>6 DEF RecoverInv
  <2>16. WorkTypes'
    <3>1. outcome' = outcome /\ n \in 0..NItems + 1
      BY <1>15, Numbers
    <3> QED BY <1>3, <1>5, <2>5, <2>6, <3>1, PcSets DEF WorkTypes
  <2>17. WorkerInv'
    BY <2>7, <2>9, <2>13, <2>14, <2>15 DEF WorkerInv
  <2>18. WorkStays
    BY <1>1, <1>2, <1>15, <2>6 DEF WorkStays
  <2> QED BY <1>3, <1>4, <2>3, <2>16, <2>17, <2>18, GoesStep
<1>16. CASE /\ phase' = [phase EXCEPT ![w] = [i \in Items |->
                  IF i \in new THEN "archive_container_bound" ELSE phase[w][i]]]
            /\ Abort("error") /\ UNCHANGED <<bitem, proof, linked, opItem, partial>>
  <2>1. /\ phase' \in [Jobs -> [Items -> Phases]]
        /\ \A j \in Jobs, i \in Items : ~(j = w /\ i \in new) => phase'[j][i] = phase[j][i]
        /\ \A i \in new : phase'[w][i] = "archive_container_bound"
    BY <1>13, <1>16
  <2>2. partial \in [Jobs -> [Items -> {"none", "armed", "plain"}]] /\ partial' = partial
    BY <1>5, <1>16 DEF RowTypes
  <2>3. RowsInv' /\ Keeps /\ RowTypes' /\ ObjectTypes' /\ OpTypes' /\ BatchGoes(w)
    BY <1>14, <1>16, <2>1, <2>2
  <2>4. WorkerInv' /\ pc' \in ActPcs /\ WorkTypes' /\ wjob' = wjob /\ UNCHANGED jobs
    BY <1>2, <1>3, <1>5, <1>7, <1>16, AbortTo DEF Unarmed
  <2>5. WorkStays
    BY <1>1, <1>2, <2>4 DEF WorkStays
  <2> QED BY <1>3, <1>4, <2>3, <2>4, <2>5, GoesStep
<1>17. ASSUME NEW k \in S, Block(w, {k}), Abort("error"), UNCHANGED partial
       PROVE  IInv'
  <2>1. {k} \in SUBSET Undisposed(w)
    BY <1>10
  <2>2. partial' \in [Jobs -> [Items -> {"none", "armed", "plain"}]]
    BY <1>5, <1>17 DEF RowTypes
  <2>3. RowsInv' /\ Keeps /\ RowTypes' /\ ObjectTypes' /\ OpTypes' /\ BatchGoes(w)
    BY <1>1, <1>2, <1>3, <1>17, <2>1, <2>2, BlockGoes
  <2>4. WorkerInv' /\ pc' \in ActPcs /\ WorkTypes' /\ wjob' = wjob /\ UNCHANGED jobs
    BY <1>2, <1>3, <1>5, <1>7, <1>17, AbortTo DEF Unarmed
  <2>5. WorkStays
    BY <1>1, <1>2, <2>4 DEF WorkStays
  <2> QED BY <1>3, <1>4, <2>3, <2>4, <2>5, GoesStep
<1>18. \A i : i \in new \cap S <=> i \in new
  OBVIOUS
<1> QED BY <1>3, <1>8, <1>12, <1>15, <1>16, <1>17, <1>18 DEF Materialize

\* What is known of the object the worker commits.
LEMMA AtCommit ==
  ASSUME IInv, pc \in CommitPcs
  PROVE  /\ pc \in ActPcs /\ cur \in Items /\ cur \in chunk /\ cur \in Undisposed(wjob)
         /\ cur \in Unsettled(wjob) /\ bitem[wjob][cur] = "planned"
         /\ FitsOK(bitem[wjob][cur], phase[wjob][cur], proof[wjob][cur], linked[wjob][cur],
                   partial[wjob][cur], entry[cur], present[cur], archiveRow[cur], final[cur])
<1>1. pc \in ActPcs
  BY PcSets
<1>2. RowTypes /\ ObjectTypes /\ RowsInv /\ WorkTypes /\ WorkerInv /\ wjob \in Jobs
  BY <1>1, AtWork
<1>3. cur \in chunk /\ cur \in Items
  BY <1>2 DEF WorkerInv, PlaceInv, WorkTypes
<1>4. bitem[wjob][cur] = "planned"
  BY <1>2 DEF WorkerInv, CurrentInv, Raw, CommitPcs
<1>5. cur \in Undisposed(wjob) /\ cur \in Unsettled(wjob)
  BY <1>3, <1>4 DEF Undisposed, Unsettled
<1>6. FitsOK(bitem[wjob][cur], phase[wjob][cur], proof[wjob][cur], linked[wjob][cur],
             partial[wjob][cur], entry[cur], present[cur], archiveRow[cur], final[cur])
  BY <1>2, <1>5, UnsettledFits DEF Fits
<1> QED BY <1>1, <1>3, <1>4, <1>5, <1>6

\* The commit of one object fails: it is blocked and its container is left so.
LEMMA CommitBlocked ==
  ASSUME IInv, pc \in CommitPcs, NEW w \in Jobs, w = wjob, NEW c \in Items, c = cur,
         WorkFrame, UNCHANGED <<held, archiveRow, final, batch>>, EventTypes',
         Block(w, {c}), NextCommit,
         NEW left \in {"none", "plain"}, left = "plain" => Owed(w, c),
         partial' = [partial EXCEPT ![w][c] = left]
  PROVE  IInv'
<1>1. /\ pc \in ActPcs /\ {c} \in SUBSET Undisposed(w)
  BY AtCommit
<1>2. RowTypes /\ WorkTypes /\ WorkerInv
  BY <1>1, AtWork
<1>3. /\ partial' \in [Jobs -> [Items -> {"none", "armed", "plain"}]]
      /\ partial'[w][c] = left
      /\ \A j \in Jobs, i \in Items : ~(j = w /\ i = c) => partial'[j][i] = partial[j][i]
  BY <1>2 DEF RowTypes
<1>4. \A j \in Jobs, i \in Items :
        \/ partial'[j][i] \in {partial[j][i], "none"}
        \/ j = w /\ i \in {c} /\ Owed(w, i) /\ partial'[j][i] = "plain"
  BY <1>3
<1>5. /\ RowsInv' /\ Keeps /\ RowTypes' /\ ObjectTypes' /\ OpTypes' /\ BatchGoes(w)
      /\ \A i \in {c} : bitem'[w][i] \in {"blocked", "interrupted"}
      /\ \A i \in Items : i \notin {c} =>
           bitem'[w][i] = bitem[w][i] /\ phase'[w][i] = phase[w][i]
      /\ proof' = proof /\ linked' = linked /\ ArmsNone
  BY <1>1, <1>3, <1>4, BlockGoes
<1>6. OthersKept(w, c)
  BY <1>5 DEF OthersKept
<1>7. enabled' = enabled
  BY DEF WorkFrame, switch
<1>8. WorkerInv' /\ pc' \in ActPcs /\ WorkTypes' /\ wjob' = wjob /\ UNCHANGED jobs
  BY <1>2, <1>3, <1>5, <1>6, <1>7, CommitNext
<1>9. WorkStays
  BY <1>1, <1>8 DEF WorkStays
<1> QED BY <1>5, <1>8, <1>9, GoesStep

\* The containers of the chunk are dropped and the stream stops.
LEMMA DropAbort ==
  ASSUME IInv, pc \in ActPcs, WorkFrame, UNCHANGED <<held, archiveRow, final, batch, items>>,
         EventTypes', Drop, Abort("error")
  PROVE  IInv'
<1>1. PICK w \in Jobs : w = wjob
  BY AtWork
<1>2. /\ RowTypes /\ ObjectTypes /\ OpTypes /\ WorkTypes /\ WorkerInv /\ enabled
      /\ \A k \in Jobs, x \in Items : k # w => partial[k][x] # "armed"
      /\ batch[w] \in {"waiting_for_uac", "parent_disposition"}
  BY <1>1, AtWork
<1>3. /\ partial' \in [Jobs -> [Items -> {"none", "armed", "plain"}]]
      /\ \A i \in Items : partial'[w][i] = IF partial[w][i] = "armed" THEN "none" ELSE partial[w][i]
      /\ \A j \in Jobs : j # w => partial'[j] = partial[j]
  BY <1>1, <1>2 DEF Drop, RowTypes
<1>4. Unarmed
  BY <1>2, <1>3 DEF Unarmed
<1>5. /\ bitem' = bitem /\ phase' = phase /\ proof' = proof /\ linked' = linked
      /\ opItem' = opItem /\ entry' = entry /\ present' = present
      /\ archiveRow' = archiveRow /\ final' = final /\ batch' = batch
  BY DEF items, held
<1>6. Still
  BY <1>3, <1>5 DEF Still
<1>7. RowTypes' /\ ObjectTypes' /\ OpTypes' /\ BatchGoes(w)
  BY <1>2, <1>3, <1>5 DEF RowTypes, ObjectTypes, OpTypes, BatchGoes
<1>8. RowsInv' /\ Keeps
  BY <1>5, <1>6, <1>7, StillGoes
<1>9. enabled' = enabled
  BY DEF WorkFrame, switch
<1>10. WorkerInv' /\ pc' \in ActPcs /\ WorkTypes' /\ wjob' = wjob /\ UNCHANGED jobs
  BY <1>1, <1>2, <1>4, <1>9, AbortTo
<1>11. WorkStays
  BY <1>10 DEF WorkStays
<1> QED BY <1>1, <1>7, <1>8, <1>10, <1>11, GoesStep

LEMMA CommitStep ==
  ASSUME IInv, Commit
  PROVE  IInv'
<1>1. pc = "commit" /\ WorkFrame /\ UNCHANGED <<held, archiveRow, final, batch>>
  BY DEF Commit
<1>2. pc \in ActPcs /\ pc \in CommitPcs
  BY <1>1, PcSets DEF CommitPcs
<1>3. PICK w \in Jobs : w = wjob
  BY <1>2, AtWork
<1>4. PICK c \in Items : c = cur
  BY <1>2, AtCommit
<1>5. EventTypes'
  BY EventsNext DEF Commit, EventKinds
<1>6. /\ RowTypes /\ ObjectTypes /\ OpTypes /\ WorkTypes /\ WorkerInv /\ RowsInv
      /\ batch[w] \in {"waiting_for_uac", "parent_disposition"}
  BY <1>2, <1>3, AtWork
<1>7. /\ c \in Unsettled(w) /\ bitem[w][c] = "planned" /\ c \in chunk
      /\ FitsOK(bitem[w][c], phase[w][c], proof[w][c], linked[w][c],
                partial[w][c], entry[c], present[c], archiveRow[c], final[c])
  BY <1>2, <1>3, <1>4, AtCommit
<1>8. ~proof[w][c] /\ ~linked[w][c]
  BY <1>1, <1>3, <1>4, <1>6 DEF WorkerInv, CurrentInv, Raw
<1>9. entry' = entry /\ present' = present /\ enabled' = enabled
  BY <1>1 DEF held, WorkFrame, switch
<1>10. CASE /\ proof' = Put(proof, TRUE) /\ phase' = Put(phase, "archive_proof_persisted")
            /\ Goto(IF archiveRow[cur] THEN "link" ELSE "promote") /\ Same
            /\ UNCHANGED <<partial, bitem, linked, opItem>>
  <2>1. /\ proof' \in [Jobs -> [Items -> BOOLEAN]] /\ proof'[w][c] = TRUE
        /\ \A j \in Jobs, i \in Items : ~(j = w /\ i = c) => proof'[j][i] = proof[j][i]
    BY <1>3, <1>4, <1>6, <1>10 DEF RowTypes, Put
  <2>2. /\ phase' \in [Jobs -> [Items -> Phases]] /\ phase'[w][c] = "archive_proof_persisted"
        /\ \A j \in Jobs, i \in Items : ~(j = w /\ i = c) => phase'[j][i] = phase[j][i]
    <3>1. "archive_proof_persisted" \in Phases
      BY DEF Phases
    <3> QED BY <1>3, <1>4, <1>6, <1>10, <3>1 DEF RowTypes, Put
  <2>3. RowTypes' /\ ObjectTypes' /\ OpTypes' /\ BatchGoes(w)
    BY <1>1, <1>6, <1>9, <1>10, <2>1, <2>2 DEF RowTypes, ObjectTypes, OpTypes, BatchGoes
  <2>4. OthersKept(w, c)
    BY <1>10, <2>1, <2>2 DEF OthersKept
  <2>5. Only(w, {c})
    BY <1>1, <1>9, <1>10, <2>1, <2>2 DEF Only
  <2>6. FitsOK(bitem'[w][c], phase'[w][c], proof'[w][c], linked'[w][c],
               partial'[w][c], entry'[c], present'[c], archiveRow'[c], final'[c])
    BY <1>1, <1>7, <1>8, <1>9, <1>10, <2>1, <2>2 DEF FitsOK, ItemOK, EarlyPhases, Intents
  <2>7. Moves(w, {c})
    BY <1>1, <1>9, <2>6 DEF Moves, Fits
  <2>8. RowsInv' /\ Keeps
    BY <1>2, <1>3, <1>7, <2>3, <2>5, <2>7, MovesGoes
  <2>9. wjob' = w /\ cur' = c /\ \/ archiveRow[c] /\ pc' = "link"
                                 \/ ~archiveRow[c] /\ pc' = "promote"
    BY <1>3, <1>4, <1>10 DEF Same, Goto
  <2>10. Owed(w, c)'
    BY <1>8, <1>10, <2>1, <2>2 DEF Owed, PromotionPending
  <2>11. archiveRow[c] => final[c] /\ partial[w][c] = "none"
    BY <1>6, <1>7, <1>8, RowValues DEF FitsOK, ItemOK
  <2>12. CurrentInv'
    <3>1. bitem'[w][c] = "planned"
      BY <1>7, <1>10
    <3>2. partial' = partial /\ archiveRow' = archiveRow /\ final' = final
      BY <1>1, <1>10
    <3>3. Owed(wjob, cur)'
      BY <2>9, <2>10 DEF Owed, PromotionPending
    <3>4. bitem'[wjob'][cur'] = "planned"
      BY <2>9, <3>1
    <3> QED BY <2>9, <2>11, <3>2, <3>3, <3>4 DEF CurrentInv
  <2>13. ArmsNone
    BY <1>10 DEF ArmsNone
  <2>14. partial'[w][c] # "armed" \/ pc' = "promote"
    BY <1>10, <2>9, <2>11
  <2>15. WorkerInv' /\ pc' \in ActPcs /\ WorkTypes' /\ wjob' = wjob /\ UNCHANGED jobs
    <3>1. bitem'[w][c] # "none"
      BY <1>7, <1>10
    <3> QED BY <1>2, <1>3, <1>4, <1>6, <1>9, <1>10, <2>4, <2>9, <2>12, <2>13, <2>14,
               <3>1, CommitSame
  <2>16. WorkStays
    BY <1>1, <1>2, <2>15 DEF WorkStays
  <2> QED BY <1>3, <1>5, <2>3, <2>8, <2>15, <2>16, GoesStep
<1>11. CASE Block(wjob, {cur}) /\ partial' = Put(partial, "none") /\ NextCommit
  <2>1. Block(w, {c}) /\ partial' = [partial EXCEPT ![w][c] = "none"]
    BY <1>3, <1>4, <1>11 DEF Put
  <2> QED BY <1>1, <1>2, <1>3, <1>4, <1>5, <1>11, <2>1, CommitBlocked
<1>12. CASE /\ bitem' = Put(bitem, "interrupted") /\ phase' = Put(phase, "scratch_cleanup_pending")
            /\ partial' = Put(partial, "none") /\ NextCommit
            /\ UNCHANGED <<proof, linked, opItem>>
  <2>1. /\ bitem' \in [Jobs -> [Items -> ItemStates]] /\ bitem'[w][c] = "interrupted"
        /\ \A j \in Jobs, i \in Items : ~(j = w /\ i = c) => bitem'[j][i] = bitem[j][i]
    <3>1. "interrupted" \in ItemStates
      BY DEF ItemStates
    <3> QED BY <1>3, <1>4, <1>6, <1>12, <3>1 DEF RowTypes, Put
  <2>2. /\ phase' \in [Jobs -> [Items -> Phases]] /\ phase'[w][c] = "scratch_cleanup_pending"
        /\ \A j \in Jobs, i \in Items : ~(j = w /\ i = c) => phase'[j][i] = phase[j][i]
    <3>1. "scratch_cleanup_pending" \in Phases
      BY DEF Phases
    <3> QED BY <1>3, <1>4, <1>6, <1>12, <3>1 DEF RowTypes, Put
  <2>3. /\ partial' \in [Jobs -> [Items -> {"none", "armed", "plain"}]]
        /\ partial'[w][c] = "none"
        /\ \A j \in Jobs, i \in Items : ~(j = w /\ i = c) => partial'[j][i] = partial[j][i]
    BY <1>3, <1>4, <1>6, <1>12 DEF RowTypes, Put
  <2>4. RowTypes' /\ ObjectTypes' /\ OpTypes' /\ BatchGoes(w)
    BY <1>1, <1>6, <1>9, <1>12, <2>1, <2>2, <2>3 DEF RowTypes, ObjectTypes, OpTypes, BatchGoes
  <2>5. OthersKept(w, c)
    BY <1>12, <2>1, <2>2 DEF OthersKept
  <2>6. Only(w, {c})
    BY <1>1, <1>9, <1>12, <2>1, <2>2, <2>3 DEF Only
  <2>7. FitsOK(bitem'[w][c], phase'[w][c], proof'[w][c], linked'[w][c],
               partial'[w][c], entry'[c], present'[c], archiveRow'[c], final'[c])
    BY <1>1, <1>7, <1>8, <1>9, <1>12, <2>1, <2>2, <2>3 DEF FitsOK, ItemOK, EarlyPhases, Intents
  <2>8. Moves(w, {c})
    BY <1>1, <1>9, <2>7 DEF Moves, Fits
  <2>9. RowsInv' /\ Keeps
    BY <1>2, <1>3, <1>7, <2>4, <2>6, <2>8, MovesGoes
  <2>10. ArmsNone
    BY <2>3 DEF ArmsNone
  <2>11. WorkerInv' /\ pc' \in ActPcs /\ WorkTypes' /\ wjob' = wjob /\ UNCHANGED jobs
    BY <1>2, <1>3, <1>4, <1>6, <1>9, <1>12, <2>1, <2>3, <2>5, <2>10, CommitNext
  <2>12. WorkStays
    BY <1>1, <1>2, <2>11 DEF WorkStays
  <2> QED BY <1>3, <1>5, <2>4, <2>9, <2>11, <2>12, GoesStep
<1>13. CASE Abort("error") /\ Drop /\ UNCHANGED items
  BY <1>1, <1>2, <1>5, <1>13, DropAbort
<1> QED BY <1>10, <1>11, <1>12, <1>13 DEF Commit

LEMMA PromoteStep ==
  ASSUME IInv, Promote
  PROVE  IInv'
<1>1. pc = "promote" /\ WorkFrame /\ UNCHANGED <<held, archiveRow, final, batch>>
  BY DEF Promote
<1>2. pc \in ActPcs /\ pc \in CommitPcs
  BY <1>1, PcSets DEF CommitPcs
<1>3. PICK w \in Jobs : w = wjob
  BY <1>2, AtWork
<1>4. PICK c \in Items : c = cur
  BY <1>2, AtCommit
<1>5. EventTypes'
  BY EventsNext DEF Promote, EventKinds
<1>6. /\ RowTypes /\ ObjectTypes /\ OpTypes /\ WorkTypes /\ WorkerInv /\ RowsInv
      /\ batch[w] \in {"waiting_for_uac", "parent_disposition"}
  BY <1>2, <1>3, AtWork
<1>7. /\ c \in Unsettled(w) /\ bitem[w][c] = "planned" /\ c \in chunk
      /\ FitsOK(bitem[w][c], phase[w][c], proof[w][c], linked[w][c],
                partial[w][c], entry[c], present[c], archiveRow[c], final[c])
  BY <1>2, <1>3, <1>4, AtCommit
<1>8. Owed(w, c) /\ ~archiveRow[c]
  BY <1>1, <1>3, <1>4, <1>6 DEF WorkerInv, CurrentInv
<1>9. entry' = entry /\ present' = present /\ enabled' = enabled
  BY <1>1 DEF held, WorkFrame, switch
<1>10. CASE partial' = Put(partial, "plain") /\ Goto("rename") /\ Same /\ UNCHANGED items
  <2>1. /\ bitem' = bitem /\ phase' = phase /\ proof' = proof /\ linked' = linked
        /\ opItem' = opItem
    BY <1>10 DEF items
  <2>2. /\ partial' \in [Jobs -> [Items -> {"none", "armed", "plain"}]]
        /\ partial'[w][c] = "plain"
        /\ \A j \in Jobs, i \in Items : ~(j = w /\ i = c) => partial'[j][i] = partial[j][i]
    BY <1>3, <1>4, <1>6, <1>10 DEF RowTypes, Put
  <2>3. RowTypes' /\ ObjectTypes' /\ OpTypes' /\ BatchGoes(w)
    BY <1>1, <1>6, <1>9, <2>1, <2>2 DEF RowTypes, ObjectTypes, OpTypes, BatchGoes
  <2>4. OthersKept(w, c)
    BY <2>1 DEF OthersKept
  <2>5. Only(w, {c})
    BY <1>1, <1>9, <2>1, <2>2 DEF Only
  <2>6. FitsOK(bitem'[w][c], phase'[w][c], proof'[w][c], linked'[w][c],
               partial'[w][c], entry'[c], present'[c], archiveRow'[c], final'[c])
    BY <1>1, <1>7, <1>8, <1>9, <2>1, <2>2 DEF FitsOK, ItemOK, Owed, PromotionPending
  <2>7. Moves(w, {c})
    BY <1>1, <1>9, <2>6 DEF Moves, Fits
  <2>8. RowsInv' /\ Keeps
    BY <1>2, <1>3, <1>7, <2>3, <2>5, <2>7, MovesGoes
  <2>9. wjob' = w /\ cur' = c /\ pc' = "rename"
    BY <1>3, <1>4, <1>10 DEF Same, Goto
  <2>10. CurrentInv'
    <3>1. Owed(wjob, cur)'
      BY <1>8, <2>1, <2>9 DEF Owed, PromotionPending
    <3>2. bitem'[wjob'][cur'] = "planned" /\ ~archiveRow'[cur']
      BY <1>1, <1>7, <1>8, <2>1, <2>9
    <3> QED BY <2>9, <3>1, <3>2 DEF CurrentInv
  <2>11. ArmsNone
    BY <2>2 DEF ArmsNone
  <2>12. WorkerInv' /\ pc' \in ActPcs /\ WorkTypes' /\ wjob' = wjob /\ UNCHANGED jobs
    <3>1. bitem'[w][c] # "none" /\ partial'[w][c] # "armed"
      BY <1>7, <2>1, <2>2
    <3> QED BY <1>2, <1>3, <1>4, <1>6, <1>9, <1>10, <2>4, <2>9, <2>10, <2>11, <3>1, CommitSame
  <2>13. WorkStays
    BY <1>1, <1>2, <2>12 DEF WorkStays
  <2> QED BY <1>3, <1>5, <2>3, <2>8, <2>12, <2>13, GoesStep
<1>11. CASE partial' = Put(partial, "none") /\ Block(wjob, {cur}) /\ NextCommit
  <2>1. Block(w, {c}) /\ partial' = [partial EXCEPT ![w][c] = "none"]
    BY <1>3, <1>4, <1>11 DEF Put
  <2> QED BY <1>1, <1>2, <1>3, <1>4, <1>5, <1>11, <2>1, CommitBlocked
<1> QED BY <1>10, <1>11 DEF Promote

LEMMA RenameStep ==
  ASSUME IInv, Rename
  PROVE  IInv'
<1>1. pc = "rename" /\ WorkFrame /\ UNCHANGED <<held, archiveRow, batch>>
  BY DEF Rename
<1>2. pc \in ActPcs /\ pc \in CommitPcs
  BY <1>1, PcSets DEF CommitPcs
<1>3. PICK w \in Jobs : w = wjob
  BY <1>2, AtWork
<1>4. PICK c \in Items : c = cur
  BY <1>2, AtCommit
<1>5. EventTypes'
  BY EventsNext DEF Rename, EventKinds
<1>6. /\ RowTypes /\ ObjectTypes /\ OpTypes /\ WorkTypes /\ WorkerInv /\ RowsInv
      /\ batch[w] \in {"waiting_for_uac", "parent_disposition"}
  BY <1>2, <1>3, AtWork
<1>7. /\ c \in Unsettled(w) /\ bitem[w][c] = "planned" /\ c \in chunk
      /\ FitsOK(bitem[w][c], phase[w][c], proof[w][c], linked[w][c],
                partial[w][c], entry[c], present[c], archiveRow[c], final[c])
  BY <1>2, <1>3, <1>4, AtCommit
<1>8. Owed(w, c) /\ ~archiveRow[c]
  BY <1>1, <1>3, <1>4, <1>6 DEF WorkerInv, CurrentInv
<1>9. entry' = entry /\ present' = present /\ enabled' = enabled
  BY <1>1 DEF held, WorkFrame, switch
<1>10. CASE /\ final' = [final EXCEPT ![cur] = TRUE] /\ partial' = Put(partial, "none")
            /\ Goto("link") /\ Same /\ UNCHANGED items
  <2>1. /\ bitem' = bitem /\ phase' = phase /\ proof' = proof /\ linked' = linked
        /\ opItem' = opItem
    BY <1>10 DEF items
  <2>2. /\ partial' \in [Jobs -> [Items -> {"none", "armed", "plain"}]]
        /\ partial'[w][c] = "none"
        /\ \A j \in Jobs, i \in Items : ~(j = w /\ i = c) => partial'[j][i] = partial[j][i]
    BY <1>3, <1>4, <1>6, <1>10 DEF RowTypes, Put
  <2>3. /\ final' \in [Items -> BOOLEAN] /\ final'[c] = TRUE
        /\ \A i \in Items : i # c => final'[i] = final[i]
    BY <1>4, <1>6, <1>10 DEF ObjectTypes
  <2>4. RowTypes' /\ ObjectTypes' /\ OpTypes' /\ BatchGoes(w)
    BY <1>1, <1>6, <1>9, <2>1, <2>2, <2>3 DEF RowTypes, ObjectTypes, OpTypes, BatchGoes
  <2>5. OthersKept(w, c)
    BY <2>1 DEF OthersKept
  <2>6. Only(w, {c})
    BY <1>1, <1>9, <2>1, <2>2, <2>3 DEF Only
  <2>7. FitsOK(bitem'[w][c], phase'[w][c], proof'[w][c], linked'[w][c],
               partial'[w][c], entry'[c], present'[c], archiveRow'[c], final'[c])
    BY <1>1, <1>7, <1>8, <1>9, <2>1, <2>2, <2>3 DEF FitsOK, ItemOK, Owed, PromotionPending
  <2>8. Moves(w, {c})
    BY <1>1, <1>9, <2>7 DEF Moves, Fits
  <2>9. RowsInv' /\ Keeps
    BY <1>2, <1>3, <1>7, <2>4, <2>6, <2>8, MovesGoes
  <2>10. wjob' = w /\ cur' = c /\ pc' = "link"
    BY <1>3, <1>4, <1>10 DEF Same, Goto
  <2>11. CurrentInv'
    <3>1. Owed(wjob, cur)'
      BY <1>8, <2>1, <2>10 DEF Owed, PromotionPending
    <3>2. bitem'[wjob'][cur'] = "planned" /\ final'[cur'] /\ partial'[wjob'][cur'] = "none"
      BY <1>7, <2>1, <2>2, <2>3, <2>10
    <3> QED BY <2>10, <3>1, <3>2 DEF CurrentInv
  <2>12. ArmsNone
    BY <2>2 DEF ArmsNone
  <2>13. WorkerInv' /\ pc' \in ActPcs /\ WorkTypes' /\ wjob' = wjob /\ UNCHANGED jobs
    <3>1. bitem'[w][c] # "none" /\ partial'[w][c] # "armed"
      BY <1>7, <2>1, <2>2
    <3> QED BY <1>2, <1>3, <1>4, <1>6, <1>9, <1>10, <2>5, <2>10, <2>11, <2>12, <3>1, CommitSame
  <2>14. WorkStays
    BY <1>1, <1>2, <2>13 DEF WorkStays
  <2> QED BY <1>3, <1>5, <2>4, <2>9, <2>13, <2>14, GoesStep
<1>11. ASSUME NEW left \in {"none", "plain"}, partial' = Put(partial, left),
              Block(wjob, {cur}), NextCommit, UNCHANGED final
       PROVE  IInv'
  <2>1. Block(w, {c}) /\ partial' = [partial EXCEPT ![w][c] = left]
    BY <1>3, <1>4, <1>11 DEF Put
  <2> QED BY <1>1, <1>2, <1>3, <1>4, <1>5, <1>8, <1>11, <2>1, CommitBlocked
<1> QED BY <1>10, <1>11 DEF Rename

LEMMA LinkStep ==
  ASSUME IInv, Link
  PROVE  IInv'
<1>1. pc = "link" /\ WorkFrame /\ UNCHANGED <<held, final, partial, batch>>
  BY DEF Link
<1>2. pc \in ActPcs /\ pc \in CommitPcs
  BY <1>1, PcSets DEF CommitPcs
<1>3. PICK w \in Jobs : w = wjob
  BY <1>2, AtWork
<1>4. PICK c \in Items : c = cur
  BY <1>2, AtCommit
<1>5. EventTypes'
  BY EventsNext DEF Link, EventKinds
<1>6. /\ RowTypes /\ ObjectTypes /\ OpTypes /\ WorkTypes /\ WorkerInv /\ RowsInv
      /\ batch[w] \in {"waiting_for_uac", "parent_disposition"}
  BY <1>2, <1>3, AtWork
<1>7. /\ c \in Unsettled(w) /\ bitem[w][c] = "planned" /\ c \in chunk
      /\ FitsOK(bitem[w][c], phase[w][c], proof[w][c], linked[w][c],
                partial[w][c], entry[c], present[c], archiveRow[c], final[c])
  BY <1>2, <1>3, <1>4, AtCommit
<1>8. Owed(w, c) /\ final[c] /\ partial[w][c] = "none"
  BY <1>1, <1>3, <1>4, <1>6 DEF WorkerInv, CurrentInv
<1>9. entry' = entry /\ present' = present /\ enabled' = enabled
  BY <1>1 DEF held, WorkFrame, switch
<1>10. CASE /\ archiveRow' = [archiveRow EXCEPT ![cur] = TRUE]
            /\ linked' = Put(linked, TRUE) /\ phase' = Put(phase, "archive_ready")
            /\ bitem' = Put(bitem, "ready")
            /\ UNCHANGED <<proof, opItem>> /\ NextCommit
  <2>1. /\ bitem' \in [Jobs -> [Items -> ItemStates]] /\ bitem'[w][c] = "ready"
        /\ \A j \in Jobs, i \in Items : ~(j = w /\ i = c) => bitem'[j][i] = bitem[j][i]
    <3>1. "ready" \in ItemStates
      BY DEF ItemStates
    <3> QED BY <1>3, <1>4, <1>6, <1>10, <3>1 DEF RowTypes, Put
  <2>2. /\ phase' \in [Jobs -> [Items -> Phases]] /\ phase'[w][c] = "archive_ready"
        /\ \A j \in Jobs, i \in Items : ~(j = w /\ i = c) => phase'[j][i] = phase[j][i]
    <3>1. "archive_ready" \in Phases
      BY DEF Phases
    <3> QED BY <1>3, <1>4, <1>6, <1>10, <3>1 DEF RowTypes, Put
  <2>3. /\ linked' \in [Jobs -> [Items -> BOOLEAN]] /\ linked'[w][c] = TRUE
        /\ \A j \in Jobs, i \in Items : ~(j = w /\ i = c) => linked'[j][i] = linked[j][i]
    BY <1>3, <1>4, <1>6, <1>10 DEF RowTypes, Put
  <2>4. /\ archiveRow' \in [Items -> BOOLEAN] /\ archiveRow'[c] = TRUE
        /\ \A i \in Items : i # c => archiveRow'[i] = archiveRow[i]
    BY <1>4, <1>6, <1>10 DEF ObjectTypes
  <2>5. RowTypes' /\ ObjectTypes' /\ OpTypes' /\ BatchGoes(w)
    BY <1>1, <1>6, <1>9, <1>10, <2>1, <2>2, <2>3, <2>4 DEF RowTypes, ObjectTypes, OpTypes, BatchGoes
  <2>6. OthersKept(w, c)
    BY <1>10, <2>1, <2>2, <2>3 DEF OthersKept
  <2>7. Only(w, {c})
    <3>1. proof' = proof /\ partial' = partial /\ final' = final
      BY <1>1, <1>10
    <3>2. \A j \in Jobs, i \in Items : ~(j = w /\ i \in {c}) =>
            /\ bitem'[j][i] = bitem[j][i] /\ phase'[j][i] = phase[j][i]
            /\ proof'[j][i] = proof[j][i] /\ linked'[j][i] = linked[j][i]
            /\ partial'[j][i] \in {partial[j][i], "none"}
      BY <2>1, <2>2, <2>3, <3>1
    <3>3. \A i \in Items : i \notin {c} =>
            /\ entry'[i] = entry[i] /\ present'[i] = present[i]
            /\ archiveRow'[i] = archiveRow[i] /\ final'[i] = final[i]
      BY <1>9, <2>4, <3>1
    <3> QED BY <3>2, <3>3 DEF Only
  <2>8. FitsOK(bitem'[w][c], phase'[w][c], proof'[w][c], linked'[w][c],
               partial'[w][c], entry'[c], present'[c], archiveRow'[c], final'[c])
    BY <1>1, <1>7, <1>8, <1>9, <1>10, <2>1, <2>2, <2>3, <2>4
       DEF FitsOK, ItemOK, EarlyPhases, Intents, Owed, PromotionPending
  <2>9. Moves(w, {c})
    BY <1>1, <1>9, <2>4, <2>8 DEF Moves, Fits
  <2>10. RowsInv' /\ Keeps
    BY <1>2, <1>3, <1>7, <2>5, <2>7, <2>9, MovesGoes
  <2>11. ArmsNone /\ partial'[w][c] # "armed"
    BY <1>1, <1>8 DEF ArmsNone
  <2>12. WorkerInv' /\ pc' \in ActPcs /\ WorkTypes' /\ wjob' = wjob /\ UNCHANGED jobs
    BY <1>2, <1>3, <1>4, <1>6, <1>9, <1>10, <2>1, <2>6, <2>11, CommitNext
  <2>13. WorkStays
    BY <1>1, <1>2, <2>12 DEF WorkStays
  <2> QED BY <1>3, <1>5, <2>5, <2>10, <2>12, <2>13, GoesStep
<1>11. CASE Block(wjob, {cur}) /\ NextCommit /\ UNCHANGED archiveRow
  <2>1. Block(w, {c})
    BY <1>3, <1>4, <1>11
  <2>2. partial' = [partial EXCEPT ![w][c] = "none"]
    <3>1. partial \in [Jobs -> [Items -> {"none", "armed", "plain"}]]
      BY <1>6 DEF RowTypes
    <3>2. [partial EXCEPT ![w][c] = "none"] = partial
      BY <1>8, <3>1
    <3> QED BY <1>1, <3>2
  <2> QED BY <1>1, <1>2, <1>3, <1>4, <1>5, <1>11, <2>1, <2>2, CommitBlocked
<1> QED BY <1>10, <1>11 DEF Link

-----------------------------------------------------------------------------
(* The disposition of a chunk.                                             *)

\* What is known of the object the worker disposes of.
LEMMA AtRemove ==
  ASSUME IInv, pc \in RemovePcs
  PROVE  /\ pc \in ActPcs /\ pc \notin CommitPcs /\ cur \in Items /\ cur \in chunk
         /\ InChunk /\ Removing /\ latched = "none"
         /\ \A j \in Jobs, i \in Items : partial[j][i] # "armed"
<1>1. pc \in ActPcs /\ pc \notin CommitPcs
  BY PcSets
<1>2. WorkTypes /\ WorkerInv /\ \A j \in Jobs, i \in Items : partial[j][i] # "armed"
  BY <1>1, AtWork
<1>3. cur \in chunk /\ cur \in Items /\ InChunk /\ Removing
  BY <1>2 DEF WorkerInv, PlaceInv, WorkTypes, StageInv
<1>4. latched = "none"
  BY <1>2 DEF WorkerInv, PlaceInv, RemovePcs
<1> QED BY <1>1, <1>2, <1>3, <1>4

\* The worker goes on with the disposition of the same object.
LEMMA RemoveSame ==
  ASSUME IInv, NEW w \in Jobs, w = wjob, NEW c, c = cur,
         pc \in RemovePcs, pc' \in {"claim", "dispose", "record"}, Same,
         OthersKept(w, c), enabled' = enabled, bitem'[w][c] \notin {"none", "planned"},
         Unarmed, CurrentInv'
  PROVE  WorkerInv' /\ pc' \in ActPcs /\ WorkTypes' /\ wjob' = wjob /\ UNCHANGED jobs
<1>1. /\ wjob' = wjob /\ cur' = cur /\ chunk' = chunk /\ latched' = latched
      /\ outcome' = outcome /\ UNCHANGED jobs
  BY DEF Same
<1>2. /\ c \in chunk /\ latched = "none" /\ chunk \subseteq Items /\ InChunk /\ Removing
      /\ WorkTypes /\ enabled
  BY AtRemove, AtWork DEF WorkTypes
<1>3. \A i \in Items : i # c => (Aside(i)' <=> Aside(i))
  BY <1>1, KeptRows
<1>4. InChunk'
  <2>1. \A i \in Items \ chunk : Aside(i)'
    BY <1>2, <1>3 DEF InChunk
  <2>2. \A i \in chunk : bitem'[w][i] # "none"
    BY <1>2 DEF InChunk, OthersKept
  <2> QED BY <1>1, <2>1, <2>2 DEF InChunk
<1>5. Removing'
  <2>1. \A i \in chunk : bitem'[w][i] # "planned"
    BY <1>2 DEF Removing, OthersKept
  <2>2. ASSUME NEW i \in chunk, i < c PROVE bitem'[w][i] # "ready"
    <3>1. i # c
      BY <1>2, <2>2, Numbers
    <3> QED BY <1>2, <2>2, <3>1 DEF Removing, OthersKept
  <2> QED BY <1>1, <2>1, <2>2 DEF Removing
<1>6. pc' \in RemovePcs /\ pc' \notin CommitPcs /\ pc' \notin RecoverPcs /\ pc' \in ActPcs
  BY PcSets DEF RemovePcs
<1>7. PlaceInv'
  BY <1>1, <1>2, <1>6, PcSets DEF PlaceInv
<1>8. StageInv'
  BY <1>4, <1>5, <1>6, PcSets DEF StageInv
<1>9. RecoverInv'
  BY <1>6, PcSets DEF RecoverInv
<1>10. WorkTypes'
  BY <1>1, <1>2, <1>6, PcSets DEF WorkTypes
<1> QED BY <1>1, <1>6, <1>7, <1>8, <1>9, <1>10, UnarmedArm DEF WorkerInv

LEMMA BoundaryStep ==
  ASSUME IInv, Boundary
  PROVE  IInv'
<1>1. pc = "boundary" /\ WorkFrame /\ UNCHANGED <<held, archives, batch, items>>
  BY DEF Boundary
<1>2. pc \in RemovePcs /\ pc \in ActPcs
  BY <1>1, PcSets DEF RemovePcs
<1>3. PICK w \in Jobs : w = wjob
  BY <1>2, AtWork
<1>4. PICK c \in Items : c = cur
  BY <1>2, AtRemove
<1>5. EventTypes'
  BY EventsNext DEF Boundary, EventKinds
<1>6. /\ WorkTypes /\ WorkerInv /\ enabled /\ c \in chunk /\ InChunk /\ Removing
      /\ latched = "none" /\ \A k \in Jobs, x \in Items : partial[k][x] # "armed"
  BY <1>2, <1>4, AtWork, AtRemove
<1>7. /\ RowsInv' /\ Keeps /\ RowTypes' /\ ObjectTypes' /\ OpTypes' /\ BatchGoes(w)
      /\ partial' = partial
  BY <1>1, <1>2, <1>3, StillTypes
<1>8. Unarmed /\ enabled' = enabled
  BY <1>1, <1>6, <1>7 DEF Unarmed, WorkFrame, switch
<1>9. bitem' = bitem /\ phase' = phase /\ proof' = proof /\ linked' = linked
  BY <1>1 DEF items
<1>10. OthersKept(w, c)
  BY <1>9 DEF OthersKept
<1>11. WorkerInv' /\ pc' \in ActPcs /\ WorkTypes' /\ wjob' = wjob /\ UNCHANGED jobs
  <2>1. ASSUME NEW l \in {"stop", "observer"}, latched' = l, Goto("next_chunk"),
               UNCHANGED <<wjob, cur, chunk, outcome>>, UNCHANGED jobs
        PROVE  WorkerInv' /\ pc' \in ActPcs /\ WorkTypes' /\ wjob' = wjob /\ UNCHANGED jobs
    <3>1. pc' = "next_chunk" /\ wjob' = w /\ cur' = cur /\ chunk' = chunk /\ outcome' = outcome
      BY <1>3, <2>1 DEF Goto
    <3>2. pc' \notin RemovePcs /\ pc' \notin CommitPcs /\ pc' \notin RecoverPcs /\ pc' \in ActPcs
      BY <3>1, PcSets DEF RemovePcs, CommitPcs
    <3>3. PlaceInv' /\ CurrentInv' /\ RecoverInv'
      BY <1>6, <1>8, <3>1, <3>2 DEF PlaceInv, CurrentInv, RecoverInv
    <3>4. StageInv'
      BY <2>1, <3>1, <3>2 DEF StageInv
    <3>5. WorkTypes'
      BY <1>6, <2>1, <3>1, <3>2, PcSets DEF WorkTypes
    <3> QED BY <1>3, <1>8, <2>1, <3>1, <3>2, <3>3, <3>4, <3>5, UnarmedArm DEF WorkerInv
  <2>2. CASE Ready(wjob, cur) /\ Goto("claim") /\ Same
    <3>1. pc' = "claim" /\ wjob' = w /\ cur' = c
      BY <1>3, <1>4, <2>2 DEF Goto, Same
    <3>2. bitem'[w][c] = "ready"
      BY <1>3, <1>4, <1>9, <2>2 DEF Ready
    <3>3. CurrentInv'
      BY <3>1, <3>2 DEF CurrentInv
    <3> QED BY <1>2, <1>3, <1>4, <1>8, <1>10, <2>2, <3>1, <3>2, <3>3, RemoveSame
  <2>3. CASE ~Ready(wjob, cur) /\ NextGroup
    <3>1. bitem'[w][c] \notin {"none", "planned", "ready"}
      BY <1>3, <1>4, <1>6, <1>9, <2>3 DEF Ready, InChunk, Removing
    <3> QED BY <1>2, <1>3, <1>4, <1>6, <1>8, <1>10, <2>3, <3>1, GroupNext
  <2> QED BY <2>1, <2>2, <2>3 DEF Boundary
<1>12. WorkStays
  BY <1>1, <1>2, <1>11 DEF WorkStays
<1> QED BY <1>3, <1>5, <1>7, <1>11, <1>12, GoesStep

LEMMA ClaimItemStep ==
  ASSUME IInv, ClaimItem
  PROVE  IInv'
<1>1. pc = "claim" /\ WorkFrame /\ UNCHANGED present
  BY DEF ClaimItem
<1>2. pc \in RemovePcs /\ pc \in ActPcs /\ pc \notin CommitPcs
  BY <1>1, PcSets DEF RemovePcs, CommitPcs
<1>3. PICK w \in Jobs : w = wjob
  BY <1>2, AtWork
<1>4. PICK c \in Items : c = cur
  BY <1>2, AtRemove
<1>5. EventTypes'
  BY EventsNext DEF ClaimItem, EventKinds
<1>6. /\ RowTypes /\ ObjectTypes /\ OpTypes /\ WorkTypes /\ WorkerInv /\ RowsInv /\ c \in chunk
      /\ batch[w] \in {"waiting_for_uac", "parent_disposition"}
      /\ \A k \in Jobs, x \in Items : partial[k][x] # "armed"
  BY <1>2, <1>3, <1>4, AtWork, AtRemove
<1>7. bitem[w][c] = "ready"
  BY <1>1, <1>3, <1>4, <1>6 DEF WorkerInv, CurrentInv
<1>8. c \in Unsettled(w) /\ {c} \in SUBSET Undisposed(w)
  BY <1>7 DEF Unsettled, Undisposed
<1>9. FitsOK(bitem[w][c], phase[w][c], proof[w][c], linked[w][c],
             partial[w][c], entry[c], present[c], archiveRow[c], final[c])
  BY <1>6, <1>8, UnsettledFits DEF Fits
<1>10. enabled' = enabled
  BY <1>1 DEF WorkFrame, switch
<1>11. CASE /\ entry' = [entry EXCEPT ![cur] = "deleting"]
            /\ bitem' = Put(bitem, "deleting")
            /\ phase' = Put(phase, "parent_disposition")
            /\ opItem' = Put(opItem, "deleting")
            /\ batch' = [batch EXCEPT ![wjob] = "parent_disposition"]
            /\ Goto("dispose") /\ Same /\ UNCHANGED <<archives, proof, linked>>
  <2>1. /\ bitem' \in [Jobs -> [Items -> ItemStates]] /\ bitem'[w][c] = "deleting"
        /\ \A j \in Jobs, i \in Items : ~(j = w /\ i = c) => bitem'[j][i] = bitem[j][i]
    <3>1. "deleting" \in ItemStates
      BY DEF ItemStates
    <3> QED BY <1>3, <1>4, <1>6, <1>11, <3>1 DEF RowTypes, Put
  <2>2. /\ phase' \in [Jobs -> [Items -> Phases]] /\ phase'[w][c] = "parent_disposition"
        /\ \A j \in Jobs, i \in Items : ~(j = w /\ i = c) => phase'[j][i] = phase[j][i]
    <3>1. "parent_disposition" \in Phases
      BY DEF Phases
    <3> QED BY <1>3, <1>4, <1>6, <1>11, <3>1 DEF RowTypes, Put
  <2>3. OpTypes'
    BY <1>3, <1>4, <1>6, <1>11 DEF OpTypes, Put
  <2>4. /\ entry' \in [Items -> {"quarantined", "deleting", "permanently_deleted", "restored"}]
        /\ entry'[c] = "deleting" /\ \A i \in Items : i # c => entry'[i] = entry[i]
    BY <1>4, <1>6, <1>11 DEF ObjectTypes
  <2>5. /\ proof' = proof /\ linked' = linked /\ partial' = partial /\ archiveRow' = archiveRow
        /\ final' = final /\ present' = present
    BY <1>1, <1>11 DEF archives
  <2>6. batch'[w] = "parent_disposition" /\ \A k \in Jobs : k # w => batch'[k] = batch[k]
    BY <1>3, <1>6, <1>11 DEF RowTypes
  <2>7. RowTypes' /\ ObjectTypes' /\ BatchGoes(w)
    BY <1>3, <1>6, <1>11, <2>1, <2>2, <2>4, <2>5, <2>6 DEF RowTypes, ObjectTypes, BatchGoes
  <2>8. OthersKept(w, c)
    BY <2>1, <2>2, <2>5 DEF OthersKept
  <2>9. Only(w, {c})
    BY <2>1, <2>2, <2>4, <2>5 DEF Only
  <2>10. FitsOK(bitem'[w][c], phase'[w][c], proof'[w][c], linked'[w][c],
                partial'[w][c], entry'[c], present'[c], archiveRow'[c], final'[c])
    BY <1>7, <1>9, <2>1, <2>2, <2>4, <2>5 DEF FitsOK, ItemOK, EarlyPhases, Intents
  <2>11. Moves(w, {c})
    BY <2>5, <2>10 DEF Moves, Fits
  <2>12. RowsInv' /\ Keeps
    BY <1>2, <1>3, <1>8, <2>7, <2>9, <2>11, MovesGoes
  <2>13. pc' = "dispose" /\ wjob' = w /\ cur' = c
    BY <1>3, <1>4, <1>11 DEF Goto, Same
  <2>14. CurrentInv'
    BY <2>1, <2>13 DEF CurrentInv
  <2>15. Unarmed
    BY <1>6, <2>5 DEF Unarmed
  <2>16. WorkerInv' /\ pc' \in ActPcs /\ WorkTypes' /\ wjob' = wjob /\ UNCHANGED jobs
    BY <1>2, <1>3, <1>4, <1>10, <1>11, <2>1, <2>8, <2>13, <2>14, <2>15, RemoveSame
  <2>17. WorkStays
    BY <1>1, <1>2, <2>16 DEF WorkStays
  <2> QED BY <1>3, <1>5, <2>3, <2>7, <2>12, <2>16, <2>17, GoesStep
<1>12. CASE Abort("error") /\ Drop /\ UNCHANGED <<entry, archiveRow, final, batch, items>>
  <2>1. UNCHANGED held
    BY <1>1, <1>12 DEF held
  <2> QED BY <1>1, <1>2, <1>5, <1>12, <2>1, DropAbort
<1>13. CASE Block(wjob, {cur}) /\ NextGroup /\ UNCHANGED <<entry, archives, batch>>
  <2>1. Block(w, {c}) /\ UNCHANGED <<held, archiveRow, final, batch>> /\ partial' = partial
    BY <1>1, <1>3, <1>4, <1>13 DEF held, archives
  <2>2. partial' \in [Jobs -> [Items -> {"none", "armed", "plain"}]]
    BY <1>6, <2>1 DEF RowTypes
  <2>3. /\ RowsInv' /\ Keeps /\ RowTypes' /\ ObjectTypes' /\ OpTypes' /\ BatchGoes(w)
        /\ \A i \in {c} : bitem'[w][i] \in {"blocked", "interrupted"}
        /\ \A i \in Items : i \notin {c} =>
             bitem'[w][i] = bitem[w][i] /\ phase'[w][i] = phase[w][i]
        /\ proof' = proof /\ linked' = linked
    BY <1>2, <1>3, <1>8, <2>1, <2>2, BlockGoes
  <2>4. OthersKept(w, c) /\ Unarmed
    BY <1>6, <2>1, <2>3 DEF OthersKept, Unarmed
  <2>5. WorkerInv' /\ pc' \in ActPcs /\ WorkTypes' /\ wjob' = wjob /\ UNCHANGED jobs
    BY <1>2, <1>3, <1>4, <1>6, <1>10, <1>13, <2>3, <2>4, GroupNext
  <2>6. WorkStays
    BY <1>1, <1>2, <2>5 DEF WorkStays
  <2> QED BY <1>3, <1>5, <2>3, <2>5, <2>6, GoesStep
<1> QED BY <1>11, <1>12, <1>13 DEF ClaimItem

LEMMA DisposeStep ==
  ASSUME IInv, Dispose
  PROVE  IInv'
<1>1. pc = "dispose" /\ WorkFrame /\ UNCHANGED <<entry, archives, batch, proof, linked, phase>>
  BY DEF Dispose
<1>2. pc \in RemovePcs /\ pc \in ActPcs
  BY <1>1, PcSets DEF RemovePcs
<1>3. PICK w \in Jobs : w = wjob
  BY <1>2, AtWork
<1>4. PICK c \in Items : c = cur
  BY <1>2, AtRemove
<1>5. EventTypes'
  BY EventsNext DEF Dispose, EventKinds
<1>6. /\ RowTypes /\ ObjectTypes /\ OpTypes /\ WorkTypes /\ WorkerInv /\ RowsInv /\ c \in chunk
      /\ batch[w] \in {"waiting_for_uac", "parent_disposition"} /\ enabled
      /\ \A k \in Jobs, x \in Items : partial[k][x] # "armed"
  BY <1>2, <1>3, <1>4, AtWork, AtRemove
<1>7. bitem[w][c] = "deleting"
  BY <1>1, <1>3, <1>4, <1>6 DEF WorkerInv, CurrentInv
<1>8. c \in Unsettled(w)
  BY <1>7 DEF Unsettled
<1>9. FitsOK(bitem[w][c], phase[w][c], proof[w][c], linked[w][c],
             partial[w][c], entry[c], present[c], archiveRow[c], final[c])
  BY <1>6, <1>8, UnsettledFits DEF Fits
<1>10. /\ enabled' = enabled /\ partial' = partial /\ archiveRow' = archiveRow /\ final' = final
       /\ entry' = entry /\ batch' = batch /\ proof' = proof /\ linked' = linked /\ phase' = phase
  BY <1>1 DEF WorkFrame, switch, archives
<1>11. Unarmed
  BY <1>6, <1>10 DEF Unarmed
<1>12. CASE present' = [present EXCEPT ![cur] = FALSE] /\ Goto("record") /\ Same
            /\ UNCHANGED <<bitem, opItem>>
  <2>1. /\ present' \in [Items -> BOOLEAN] /\ present'[c] = FALSE
        /\ \A i \in Items : i # c => present'[i] = present[i]
    BY <1>4, <1>6, <1>12 DEF ObjectTypes
  <2>2. RowTypes' /\ ObjectTypes' /\ OpTypes' /\ BatchGoes(w)
    BY <1>6, <1>10, <1>12, <2>1 DEF RowTypes, ObjectTypes, OpTypes, BatchGoes
  <2>3. OthersKept(w, c)
    BY <1>10, <1>12 DEF OthersKept
  <2>4. Only(w, {c})
    BY <1>10, <1>12, <2>1 DEF Only
  <2>5. FitsOK(bitem'[w][c], phase'[w][c], proof'[w][c], linked'[w][c],
               partial'[w][c], entry'[c], present'[c], archiveRow'[c], final'[c])
    BY <1>7, <1>9, <1>10, <1>12, <2>1 DEF FitsOK, ItemOK
  <2>6. Moves(w, {c})
    BY <1>10, <2>1, <2>5 DEF Moves, Fits
  <2>7. RowsInv' /\ Keeps
    BY <1>2, <1>3, <1>8, <2>2, <2>4, <2>6, MovesGoes
  <2>8. pc' = "record" /\ wjob' = w /\ cur' = c
    BY <1>3, <1>4, <1>12 DEF Goto, Same
  <2>9. CurrentInv'
    BY <1>7, <1>12, <2>1, <2>8 DEF CurrentInv
  <2>10. WorkerInv' /\ pc' \in ActPcs /\ WorkTypes' /\ wjob' = wjob /\ UNCHANGED jobs
    <3>1. bitem'[w][c] \notin {"none", "planned"}
      BY <1>7, <1>12
    <3> QED BY <1>2, <1>3, <1>4, <1>10, <1>11, <1>12, <2>3, <2>8, <2>9, <3>1, RemoveSame
  <2>11. WorkStays
    BY <1>1, <1>2, <2>10 DEF WorkStays
  <2> QED BY <1>3, <1>5, <2>2, <2>7, <2>10, <2>11, GoesStep
<1>13. CASE /\ Abort("error") /\ bitem' = Put(bitem, "interrupted")
            /\ opItem' = Put(opItem, "failed") /\ UNCHANGED present
  <2>1. /\ bitem' \in [Jobs -> [Items -> ItemStates]] /\ bitem'[w][c] = "interrupted"
        /\ \A j \in Jobs, i \in Items : ~(j = w /\ i = c) => bitem'[j][i] = bitem[j][i]
    <3>1. "interrupted" \in ItemStates
      BY DEF ItemStates
    <3> QED BY <1>3, <1>4, <1>6, <1>13, <3>1 DEF RowTypes, Put
  <2>2. OpTypes'
    BY <1>3, <1>4, <1>6, <1>13 DEF OpTypes, Put
  <2>3. RowTypes' /\ ObjectTypes' /\ BatchGoes(w)
    BY <1>6, <1>10, <1>13, <2>1 DEF RowTypes, ObjectTypes, BatchGoes
  <2>4. Only(w, {c})
    BY <1>10, <1>13, <2>1 DEF Only
  <2>5. FitsOK(bitem'[w][c], phase'[w][c], proof'[w][c], linked'[w][c],
               partial'[w][c], entry'[c], present'[c], archiveRow'[c], final'[c])
    BY <1>7, <1>9, <1>10, <1>13, <2>1 DEF FitsOK, ItemOK
  <2>6. Moves(w, {c})
    BY <1>10, <1>13, <2>5 DEF Moves, Fits
  <2>7. RowsInv' /\ Keeps
    BY <1>2, <1>3, <1>8, <2>3, <2>4, <2>6, MovesGoes
  <2>8. WorkerInv' /\ pc' \in ActPcs /\ WorkTypes' /\ wjob' = wjob /\ UNCHANGED jobs
    BY <1>2, <1>3, <1>6, <1>10, <1>11, <1>13, AbortTo
  <2>9. WorkStays
    BY <1>1, <1>2, <2>8 DEF WorkStays
  <2> QED BY <1>3, <1>5, <2>2, <2>3, <2>7, <2>8, <2>9, GoesStep
<1> QED BY <1>12, <1>13 DEF Dispose

LEMMA RecordStep ==
  ASSUME IInv, Record
  PROVE  IInv'
<1>1. pc = "record" /\ WorkFrame /\ UNCHANGED <<present, archives, batch, proof, linked>>
  BY DEF Record
<1>2. pc \in RemovePcs /\ pc \in ActPcs
  BY <1>1, PcSets DEF RemovePcs
<1>3. PICK w \in Jobs : w = wjob
  BY <1>2, AtWork
<1>4. PICK c \in Items : c = cur
  BY <1>2, AtRemove
<1>5. EventTypes'
  BY EventsNext DEF Record, EventKinds
<1>6. /\ RowTypes /\ ObjectTypes /\ OpTypes /\ WorkTypes /\ WorkerInv /\ RowsInv /\ c \in chunk
      /\ batch[w] \in {"waiting_for_uac", "parent_disposition"} /\ enabled
      /\ \A k \in Jobs, x \in Items : partial[k][x] # "armed"
  BY <1>2, <1>3, <1>4, AtWork, AtRemove
<1>7. bitem[w][c] = "deleting" /\ ~present[c]
  BY <1>1, <1>3, <1>4, <1>6 DEF WorkerInv, CurrentInv
<1>8. c \in Unsettled(w)
  BY <1>7 DEF Unsettled
<1>9. FitsOK(bitem[w][c], phase[w][c], proof[w][c], linked[w][c],
             partial[w][c], entry[c], present[c], archiveRow[c], final[c])
  BY <1>6, <1>8, UnsettledFits DEF Fits
<1>10. /\ enabled' = enabled /\ partial' = partial /\ archiveRow' = archiveRow /\ final' = final
       /\ present' = present /\ batch' = batch /\ proof' = proof /\ linked' = linked
  BY <1>1 DEF WorkFrame, switch, archives
<1>11. Unarmed
  BY <1>6, <1>10 DEF Unarmed
<1>12. CASE /\ entry' = [entry EXCEPT ![cur] = "permanently_deleted"]
            /\ bitem' = Put(bitem, "deleted") /\ phase' = Put(phase, "finished")
            /\ opItem' = Put(opItem, "done") /\ NextGroup
  <2>1. /\ bitem' \in [Jobs -> [Items -> ItemStates]] /\ bitem'[w][c] = "deleted"
        /\ \A j \in Jobs, i \in Items : ~(j = w /\ i = c) => bitem'[j][i] = bitem[j][i]
    <3>1. "deleted" \in ItemStates
      BY DEF ItemStates
    <3> QED BY <1>3, <1>4, <1>6, <1>12, <3>1 DEF RowTypes, Put
  <2>2. /\ phase' \in [Jobs -> [Items -> Phases]] /\ phase'[w][c] = "finished"
        /\ \A j \in Jobs, i \in Items : ~(j = w /\ i = c) => phase'[j][i] = phase[j][i]
    <3>1. "finished" \in Phases
      BY DEF Phases
    <3> QED BY <1>3, <1>4, <1>6, <1>12, <3>1 DEF RowTypes, Put
  <2>3. OpTypes'
    BY <1>3, <1>4, <1>6, <1>12 DEF OpTypes, Put
  <2>4. /\ entry' \in [Items -> {"quarantined", "deleting", "permanently_deleted", "restored"}]
        /\ entry'[c] = "permanently_deleted" /\ \A i \in Items : i # c => entry'[i] = entry[i]
    BY <1>4, <1>6, <1>12 DEF ObjectTypes
  <2>5. RowTypes' /\ ObjectTypes' /\ BatchGoes(w)
    BY <1>6, <1>10, <2>1, <2>2, <2>4 DEF RowTypes, ObjectTypes, BatchGoes
  <2>6. OthersKept(w, c)
    BY <1>10, <2>1, <2>2 DEF OthersKept
  <2>7. Only(w, {c})
    BY <1>10, <2>1, <2>2, <2>4 DEF Only
  <2>8. FitsOK(bitem'[w][c], phase'[w][c], proof'[w][c], linked'[w][c],
               partial'[w][c], entry'[c], present'[c], archiveRow'[c], final'[c])
    BY <1>7, <1>9, <1>10, <2>1, <2>2, <2>4 DEF FitsOK, ItemOK, EarlyPhases, Intents
  <2>9. Moves(w, {c})
    BY <1>10, <2>8 DEF Moves, Fits
  <2>10. RowsInv' /\ Keeps
    BY <1>2, <1>3, <1>8, <2>5, <2>7, <2>9, MovesGoes
  <2>11. WorkerInv' /\ pc' \in ActPcs /\ WorkTypes' /\ wjob' = wjob /\ UNCHANGED jobs
    <3>1. bitem'[w][c] \notin {"none", "planned", "ready"}
      BY <2>1
    <3> QED BY <1>2, <1>3, <1>4, <1>6, <1>10, <1>11, <1>12, <2>6, <3>1, GroupNext
  <2>12. WorkStays
    BY <1>1, <1>2, <2>11 DEF WorkStays
  <2> QED BY <1>3, <1>5, <2>3, <2>5, <2>10, <2>11, <2>12, GoesStep
<1>13. CASE /\ Abort("error") /\ UNCHANGED <<entry, phase>>
            /\ bitem' = Put(bitem, "interrupted") /\ opItem' = Put(opItem, "failed")
  <2>1. /\ bitem' \in [Jobs -> [Items -> ItemStates]] /\ bitem'[w][c] = "interrupted"
        /\ \A j \in Jobs, i \in Items : ~(j = w /\ i = c) => bitem'[j][i] = bitem[j][i]
    <3>1. "interrupted" \in ItemStates
      BY DEF ItemStates
    <3> QED BY <1>3, <1>4, <1>6, <1>13, <3>1 DEF RowTypes, Put
  <2>2. OpTypes'
    BY <1>3, <1>4, <1>6, <1>13 DEF OpTypes, Put
  <2>3. RowTypes' /\ ObjectTypes' /\ BatchGoes(w)
    BY <1>6, <1>10, <1>13, <2>1 DEF RowTypes, ObjectTypes, BatchGoes
  <2>4. Only(w, {c})
    BY <1>10, <1>13, <2>1 DEF Only
  <2>5. FitsOK(bitem'[w][c], phase'[w][c], proof'[w][c], linked'[w][c],
               partial'[w][c], entry'[c], present'[c], archiveRow'[c], final'[c])
    BY <1>7, <1>9, <1>10, <1>13, <2>1 DEF FitsOK, ItemOK
  <2>6. Moves(w, {c})
    BY <1>10, <1>13, <2>5 DEF Moves, Fits
  <2>7. RowsInv' /\ Keeps
    BY <1>2, <1>3, <1>8, <2>3, <2>4, <2>6, MovesGoes
  <2>8. WorkerInv' /\ pc' \in ActPcs /\ WorkTypes' /\ wjob' = wjob /\ UNCHANGED jobs
    BY <1>2, <1>3, <1>6, <1>10, <1>11, <1>13, AbortTo
  <2>9. WorkStays
    BY <1>1, <1>2, <2>8 DEF WorkStays
  <2> QED BY <1>3, <1>5, <2>2, <2>3, <2>7, <2>8, <2>9, GoesStep
<1>14. CASE Abort("error") /\ UNCHANGED <<entry, phase, bitem, opItem>>
  <2>1. UNCHANGED <<held, archives, batch, items>>
    BY <1>1, <1>14 DEF held, items
  <2>2. /\ RowsInv' /\ Keeps /\ RowTypes' /\ ObjectTypes' /\ OpTypes' /\ BatchGoes(w)
    BY <1>2, <1>3, <2>1, StillTypes
  <2>3. WorkerInv' /\ pc' \in ActPcs /\ WorkTypes' /\ wjob' = wjob /\ UNCHANGED jobs
    BY <1>2, <1>3, <1>6, <1>10, <1>11, <1>14, AbortTo
  <2>4. WorkStays
    BY <1>1, <1>2, <2>3 DEF WorkStays
  <2> QED BY <1>3, <1>5, <2>2, <2>3, <2>4, GoesStep
<1> QED BY <1>12, <1>13, <1>14 DEF Record

-----------------------------------------------------------------------------
(* Recovery.                                                               *)

\* What holds whenever recovery looks at a batch.
LEMMA AtRecovery ==
  ASSUME IInv, pc \in RecoverPcs
  PROVE  /\ RowTypes /\ ObjectTypes /\ OpTypes /\ JobTypes /\ StoreTypes /\ SwitchTypes
         /\ PreviewTypes /\ WorkTypes /\ EventTypes /\ RowsInv /\ OwnersInv /\ WorkerInv
         /\ wjob \in Jobs /\ batch[wjob] # "none" /\ latched = "none"
         /\ \A k \in Jobs, x \in Items : partial[k][x] # "armed"
         /\ pc # "recover_finish" => cur \in Items
<1>1. /\ RowTypes /\ ObjectTypes /\ OpTypes /\ JobTypes /\ StoreTypes /\ SwitchTypes
      /\ PreviewTypes /\ WorkTypes /\ EventTypes /\ RowsInv /\ OwnersInv /\ WorkerInv
  BY TypeGroups DEF IInv
<1>2. pc \notin CommitPcs /\ pc \notin {"next_chunk", "terminalize", "finalize"}
  BY DEF RecoverPcs, CommitPcs
<1>3. wjob \in Jobs /\ latched = "none" /\ (pc # "recover_finish" => cur \in Items)
  BY <1>1, <1>2 DEF WorkerInv, PlaceInv, RecoverPcs
<1>4. batch[wjob] # "none"
  BY <1>1 DEF WorkerInv, RecoverInv
<1>5. \A k \in Jobs, x \in Items : partial[k][x] # "armed"
  BY <1>1, <1>2 DEF WorkerInv, ArmInv
<1> QED BY <1>1, <1>3, <1>4, <1>5

\* Recovery goes on with the same batch, or leaves.
Proceeds == (pc' \in RecoverPcs /\ wjob' = wjob) \/ pc' = "idle"

LEMMA RecoveryStep ==
  ASSUME IInv, pc \in RecoverPcs, Frame, batch' = batch, RowsInv', Keeps, WorkerInv',
         RowTypes', ObjectTypes', OpTypes', WorkTypes', EventTypes', Proceeds
  PROVE  IInv'
<1>1. JobTypes /\ StoreTypes /\ SwitchTypes /\ PreviewTypes /\ OwnersInv /\ wjob \in Jobs
  BY AtRecovery
<1>2. JobTypes' /\ StoreTypes' /\ SwitchTypes' /\ PreviewTypes'
  BY <1>1 DEF Frame, jobs, store, switch, JobTypes, StoreTypes, SwitchTypes, PreviewTypes
<1>3. Unspent /\ preview' = preview /\ UNCHANGED jobs
  BY DEF Frame, store, Unspent
<1>4. OwnersInv'
  BY <1>1, <1>3, RecoveryGoes DEF Proceeds
<1>5. TypeOK'
  BY <1>2, TypesNext
<1> QED BY <1>4, <1>5 DEF IInv

\* Recovery is through with an object, or with the batch.
LEMMA RecoverLeaves ==
  ASSUME IInv, pc \in RecoverPcs, pc # "recover_finish", Frame, Unarmed, batch' = batch,
         RecoverNext \/ Ambiguous \/ Rest
  PROVE  WorkerInv' /\ WorkTypes' /\ Proceeds
<1>1. PICK w \in Jobs : w = wjob
  BY AtRecovery
<1>2. PICK c \in Items : c = cur
  BY AtRecovery
<1>3. WorkTypes /\ WorkerInv /\ latched = "none" /\ batch[w] # "none"
  BY <1>1, AtRecovery
<1>4. chunk' = chunk /\ latched' = latched /\ outcome' = outcome
  BY DEF Frame
<1>5. \/ pc' = "recover" /\ cur' = c + 1 /\ c # NItems /\ wjob' = w
      \/ pc' = "recover_finish" /\ cur' \in {c, c + 1} /\ wjob' = w
      \/ pc' = "idle" /\ wjob' = 0 /\ cur' = 0
  BY <1>1, <1>2 DEF RecoverNext, Ambiguous, Rest, Goto
<1>6. c \in Nat /\ 1 <= c /\ c <= NItems /\ NItems \in Nat
  BY Numbers
<1>7. c # NItems => c + 1 \in Items
  BY <1>6, Numbers
<1>8. c \in 0..NItems + 1 /\ c + 1 \in 0..NItems + 1 /\ 0 \in 0..NItems + 1
  BY <1>6
<1>9. pc' \in {"recover", "recover_finish", "idle"}
  BY <1>5
<1>10. /\ pc' \notin WorkerPcs /\ pc' \notin CommitPcs /\ pc' \notin RemovePcs /\ pc' \in Pcs
       /\ pc' \notin {"recover_clean", "recover_block"}
       /\ pc' \in RecoverPcs => wjob' = w
       /\ pc' = "recover" => cur' \in Items
  BY <1>5, <1>7, <1>9 DEF WorkerPcs, CommitPcs, RemovePcs, Pcs, RecoverPcs
<1>11. PlaceInv'
  BY <1>3, <1>4, <1>10 DEF PlaceInv
<1>12. StageInv' /\ CurrentInv'
  BY <1>9, <1>10 DEF StageInv, CurrentInv
<1>13. RecoverInv'
  BY <1>3, <1>10 DEF RecoverInv
<1>14. WorkTypes'
  BY <1>3, <1>4, <1>5, <1>8, <1>10 DEF WorkTypes
<1>15. Proceeds
  BY <1>1, <1>5 DEF Proceeds, RecoverPcs
<1> QED BY <1>11, <1>12, <1>13, <1>14, <1>15, UnarmedArm DEF WorkerInv

\* Recovery goes on with the object.
LEMMA RecoverOn ==
  ASSUME IInv, pc \in RecoverPcs, pc # "recover_finish", Frame, Unarmed, batch' = batch,
         pc' \in {"recover_clean", "recover_block"}, UNCHANGED <<wjob, cur>>, RecoverInv'
  PROVE  WorkerInv' /\ WorkTypes' /\ Proceeds
<1>1. wjob \in Jobs /\ cur \in Items /\ WorkTypes /\ latched = "none"
  BY AtRecovery
<1>2. chunk' = chunk /\ latched' = latched /\ outcome' = outcome /\ wjob' = wjob /\ cur' = cur
  BY DEF Frame
<1>3. /\ pc' \notin WorkerPcs /\ pc' \notin CommitPcs /\ pc' \notin RemovePcs
      /\ pc' \in Pcs /\ pc' \in RecoverPcs
  BY DEF WorkerPcs, CommitPcs, RemovePcs, Pcs, RecoverPcs
<1>4. PlaceInv'
  BY <1>1, <1>2, <1>3 DEF PlaceInv
<1>5. StageInv' /\ CurrentInv'
  BY <1>3 DEF StageInv, CurrentInv
<1>6. WorkTypes'
  BY <1>1, <1>2, <1>3 DEF WorkTypes
<1>7. Proceeds
  BY <1>2, <1>3 DEF Proceeds
<1> QED BY <1>4, <1>5, <1>6, <1>7, UnarmedArm DEF WorkerInv

\* Recovery changes rows of its batch.
LEMMA MovesRecovered ==
  ASSUME IInv, pc \in RecoverPcs, RowTypes', ObjectTypes', NEW w \in Jobs, w = wjob,
         NEW S \in SUBSET Unsettled(w), S # {}, Only(w, S), Moves(w, S), batch' = batch
  PROVE  RowsInv' /\ Keeps
<1>1. /\ RowTypes /\ ObjectTypes /\ RowsInv
      /\ \A k \in Jobs, x \in Items : k # w => partial[k][x] # "armed"
  BY AtRecovery
<1>2. batch[w] \notin Closed \cup {"none"}
  BY <1>1, OpenOnly
<1>3. BatchStays(w)
  BY <1>1, <1>2 DEF BatchStays, RowTypes
<1>4. RowsInv'
  BY <1>1, <1>3, RowsStep
<1>5. \A k \in Jobs : Retried(k) => Retried(k)'
  BY <1>1, OnlyOthers
<1> QED BY <1>4, <1>5 DEF Keeps

\* Recovery leaves the rows as they are.
LEMMA StillRecovered ==
  ASSUME IInv, pc \in RecoverPcs \cup {"idle"}, UNCHANGED <<held, archives, batch, items>>
  PROVE  /\ Still /\ RowsInv' /\ Keeps /\ RowTypes' /\ ObjectTypes' /\ OpTypes' /\ Unarmed
         /\ partial' = partial
<1>1. /\ batch' = batch /\ bitem' = bitem /\ phase' = phase /\ proof' = proof
      /\ linked' = linked /\ opItem' = opItem /\ entry' = entry /\ present' = present
      /\ archiveRow' = archiveRow /\ final' = final /\ partial' = partial
  BY DEF held, archives, items
<1>2. Still
  BY <1>1 DEF Still
<1>3. RowTypes /\ ObjectTypes /\ OpTypes /\ RowsInv
  BY TypeGroups DEF IInv
<1>4. RowTypes' /\ ObjectTypes' /\ OpTypes'
  BY <1>1, <1>3 DEF RowTypes, ObjectTypes, OpTypes
<1>5. RowsInv'
  BY <1>1, <1>2, <1>3, RowsStay
<1>6. Keeps
  BY <1>1, <1>2, StillRows DEF Keeps
<1>7. Unarmed
  <2>1. pc \notin CommitPcs
    BY DEF RecoverPcs, CommitPcs
  <2> QED BY <1>1, <2>1 DEF Unarmed, IInv, WorkerInv, ArmInv
<1> QED BY <1>1, <1>2, <1>4, <1>5, <1>6, <1>7

\* A step of recovery that only moves on.
LEMMA PlainRecovery ==
  ASSUME IInv, pc \in RecoverPcs, pc # "recover_finish", Frame,
         UNCHANGED <<held, archives, batch, items>>, RecoverNext \/ Ambiguous \/ Rest,
         EventTypes'
  PROVE  IInv'
<1>1. RowsInv' /\ Keeps /\ RowTypes' /\ ObjectTypes' /\ OpTypes' /\ Unarmed
  BY StillRecovered
<1>2. WorkerInv' /\ WorkTypes' /\ Proceeds
  BY <1>1, RecoverLeaves
<1> QED BY <1>1, <1>2, RecoveryStep

LEMMA RecoverPassStep ==
  ASSUME IInv, RecoverPass
  PROVE  IInv'
<1>1. pc = "recover" /\ pc \in RecoverPcs /\ EventTypes'
  BY EventsNext DEF RecoverPass, AtItem, RecoverPcs, EventKinds, AsUsual
<1> QED BY <1>1, PlainRecovery DEF RecoverPass

LEMMA RecoverUnsureStep ==
  ASSUME IInv, RecoverUnsure
  PROVE  IInv'
<1>1. pc = "recover" /\ pc \in RecoverPcs
  BY DEF RecoverUnsure, AtItem, RecoverPcs
<1>2. EventTypes'
  BY EventsNext DEF RecoverUnsure, EventKinds
<1> QED BY <1>1, <1>2, PlainRecovery DEF RecoverUnsure

\* What is known of an owed object.
LEMMA OwedRow ==
  ASSUME IInv, NEW w \in Jobs, NEW c \in Items, Owed(w, c)
  PROVE  /\ c \in Unsettled(w) /\ bitem[w][c] \in {"planned", "interrupted"}
         /\ entry[c] = "quarantined"
<1>1. RowTypes /\ ObjectTypes /\ RowsInv
  BY TypeGroups DEF IInv
<1>2. c \in Unsettled(w)
  BY <1>1, SettledRow
<1>3. ItemOK(bitem[w][c], phase[w][c], proof[w][c], linked[w][c],
             partial[w][c], entry[c], present[c], archiveRow[c])
  BY <1>1 DEF ItemsInv, RowsInv
<1>4. /\ ~linked[w][c] /\ proof[w][c] /\ phase[w][c] # "archive_recovery_closed"
      /\ proof[w][c] \in BOOLEAN /\ linked[w][c] \in BOOLEAN
      /\ present[c] \in BOOLEAN /\ archiveRow[c] \in BOOLEAN
  BY <1>1, RowValues DEF Owed, PromotionPending
<1>5. bitem[w][c] \in {"planned", "interrupted"} /\ entry[c] = "quarantined"
  BY <1>3, <1>4 DEF ItemOK
<1> QED BY <1>2, <1>5

LEMMA RecoverPartialStep ==
  ASSUME IInv, RecoverPartial
  PROVE  IInv'
<1>1. /\ pc = "recover" /\ pc \in RecoverPcs /\ Frame
      /\ UNCHANGED <<held, archiveRow, final, batch, items, events>>
  BY DEF RecoverPartial, AtItem, RecoverPcs
<1>2. PICK w \in Jobs : w = wjob
  BY <1>1, AtRecovery
<1>3. PICK c \in Items : c = cur
  BY <1>1, AtRecovery
<1>4. EventTypes'
  BY EventsNext DEF RecoverPartial, EventKinds, AsUsual
<1>5. /\ RowTypes /\ ObjectTypes /\ OpTypes /\ RowsInv
      /\ \A k \in Jobs, x \in Items : partial[k][x] # "armed"
  BY <1>1, AtRecovery
<1>6. PromotionPending(w, c) /\ partial[w][c] = "plain" /\ ~Unrecoverable(w, c)
  BY <1>2, <1>3 DEF RecoverPartial, Recoverable
<1>7. ItemOK(bitem[w][c], phase[w][c], proof[w][c], linked[w][c],
             partial[w][c], entry[c], present[c], archiveRow[c])
  BY <1>5 DEF ItemsInv, RowsInv
<1>8. Owed(w, c)
  BY <1>6, <1>7 DEF ItemOK, Owed
<1>9. c \in Unsettled(w) /\ bitem[w][c] \in {"planned", "interrupted"} /\ entry[c] = "quarantined"
  BY <1>8, OwedRow
<1>10. ~final[c]
  BY <1>6, <1>9 DEF Unrecoverable
<1>11. /\ batch' = batch /\ bitem' = bitem /\ phase' = phase /\ proof' = proof
       /\ linked' = linked /\ opItem' = opItem /\ entry' = entry /\ present' = present
       /\ archiveRow' = archiveRow /\ final' = final
  BY <1>1 DEF held, items
<1>12. /\ partial' \in [Jobs -> [Items -> {"none", "armed", "plain"}]] /\ partial'[w][c] = "none"
       /\ \A j \in Jobs, i \in Items : ~(j = w /\ i = c) => partial'[j][i] = partial[j][i]
  BY <1>2, <1>3, <1>5 DEF RecoverPartial, RowTypes, Put
<1>13. Unarmed
  BY <1>5, <1>12 DEF Unarmed
<1>14. RowTypes' /\ ObjectTypes' /\ OpTypes'
  BY <1>5, <1>11, <1>12 DEF RowTypes, ObjectTypes, OpTypes
<1>15. Only(w, {c})
  BY <1>11, <1>12 DEF Only
<1>16. FitsOK(bitem[w][c], phase[w][c], proof[w][c], linked[w][c],
              partial[w][c], entry[c], present[c], archiveRow[c], final[c])
  BY <1>5, <1>9, UnsettledFits DEF Fits
<1>17. FitsOK(bitem'[w][c], phase'[w][c], proof'[w][c], linked'[w][c],
              partial'[w][c], entry'[c], present'[c], archiveRow'[c], final'[c])
  BY <1>11, <1>12, <1>16 DEF FitsOK, ItemOK
<1>18. Moves(w, {c})
  BY <1>11, <1>17 DEF Moves, Fits
<1>19. RowsInv' /\ Keeps
  BY <1>1, <1>2, <1>9, <1>11, <1>14, <1>15, <1>18, MovesRecovered
<1>20. pc' = "recover_clean" /\ wjob' = wjob /\ cur' = cur
  BY DEF RecoverPartial, Goto
<1>21. RecoverInv'
  <2>1. wjob' = w /\ cur' = c
    BY <1>2, <1>3, <1>20
  <2>2. batch[w] # "none"
    BY <1>1, <1>2, AtRecovery
  <2> QED BY <1>8, <1>9, <1>10, <1>11, <1>12, <1>20, <2>1, <2>2
          DEF RecoverInv, Owed, PromotionPending
<1>22. WorkerInv' /\ WorkTypes' /\ Proceeds
  BY <1>1, <1>11, <1>13, <1>20, <1>21, RecoverOn
<1> QED BY <1>1, <1>4, <1>11, <1>14, <1>19, <1>22, RecoveryStep

LEMMA RecoverCleanStep ==
  ASSUME IInv, RecoverClean
  PROVE  IInv'
<1>1. pc = "recover_clean" /\ pc \in RecoverPcs /\ Frame
      /\ UNCHANGED <<held, archives, batch, bitem, proof, linked, opItem>>
  BY DEF RecoverClean, RecoverPcs
<1>2. PICK w \in Jobs : w = wjob
  BY <1>1, AtRecovery
<1>3. PICK c \in Items : c = cur
  BY <1>1, AtRecovery
<1>4. EventTypes'
  BY EventsNext DEF RecoverClean, EventKinds
<1>5. /\ RowTypes /\ ObjectTypes /\ OpTypes /\ RowsInv /\ WorkerInv /\ batch[w] # "none"
      /\ \A k \in Jobs, x \in Items : partial[k][x] # "armed"
  BY <1>1, <1>2, AtRecovery
<1>6. /\ Owed(w, c) /\ ~final[c] /\ bitem[w][c] \in {"planned", "interrupted"}
      /\ entry[c] = "quarantined" /\ partial[w][c] # "plain"
  BY <1>1, <1>2, <1>3, <1>5 DEF WorkerInv, RecoverInv
<1>7. c \in Unsettled(w)
  BY <1>6, OwedRow
<1>8. /\ batch' = batch /\ bitem' = bitem /\ proof' = proof /\ partial' = partial
      /\ linked' = linked /\ opItem' = opItem /\ entry' = entry /\ present' = present
      /\ archiveRow' = archiveRow /\ final' = final
  BY <1>1 DEF held, archives
<1>9. CASE phase' = Put(phase, "archive_partial_cleaned") /\ Goto("recover_block")
           /\ UNCHANGED <<wjob, cur>>
  <2>1. /\ phase' \in [Jobs -> [Items -> Phases]] /\ phase'[w][c] = "archive_partial_cleaned"
        /\ \A j \in Jobs, i \in Items : ~(j = w /\ i = c) => phase'[j][i] = phase[j][i]
    <3>1. "archive_partial_cleaned" \in Phases
      BY DEF Phases
    <3> QED BY <1>2, <1>3, <1>5, <1>9, <3>1 DEF RowTypes, Put
  <2>2. RowTypes' /\ ObjectTypes' /\ OpTypes'
    BY <1>5, <1>8, <2>1 DEF RowTypes, ObjectTypes, OpTypes
  <2>3. Unarmed
    BY <1>5, <1>8 DEF Unarmed
  <2>4. Only(w, {c})
    BY <1>8, <2>1 DEF Only
  <2>5. FitsOK(bitem[w][c], phase[w][c], proof[w][c], linked[w][c],
               partial[w][c], entry[c], present[c], archiveRow[c], final[c])
    BY <1>5, <1>7, UnsettledFits DEF Fits
  <2>6. FitsOK(bitem'[w][c], phase'[w][c], proof'[w][c], linked'[w][c],
               partial'[w][c], entry'[c], present'[c], archiveRow'[c], final'[c])
    BY <1>6, <1>8, <2>1, <2>5
       DEF FitsOK, ItemOK, EarlyPhases, Intents, Owed, PromotionPending
  <2>7. Moves(w, {c})
    BY <1>8, <2>6 DEF Moves, Fits
  <2>8. RowsInv' /\ Keeps
    BY <1>1, <1>2, <1>7, <1>8, <2>2, <2>4, <2>7, MovesRecovered
  <2>9. pc' = "recover_block" /\ wjob' = w /\ cur' = c
    BY <1>2, <1>3, <1>9 DEF Goto
  <2>10. RecoverInv'
    BY <1>5, <1>6, <1>8, <2>9 DEF RecoverInv
  <2>11. WorkerInv' /\ WorkTypes' /\ Proceeds
    BY <1>1, <1>8, <1>9, <2>3, <2>9, <2>10, RecoverOn
  <2> QED BY <1>1, <1>4, <1>8, <2>2, <2>8, <2>11, RecoveryStep
<1>10. CASE UNCHANGED phase /\ Rest
  <2>1. UNCHANGED <<held, archives, batch, items>>
    BY <1>1, <1>10 DEF items
  <2> QED BY <1>1, <1>4, <1>10, <2>1, PlainRecovery
<1> QED BY <1>9, <1>10 DEF RecoverClean

LEMMA RecoverPromotedStep ==
  ASSUME IInv, RecoverPromoted
  PROVE  IInv'
<1>1. pc = "recover" /\ pc \in RecoverPcs /\ Frame
      /\ UNCHANGED <<held, final, partial, batch, bitem, proof, opItem>>
  BY DEF RecoverPromoted, AtItem, RecoverPcs
<1>2. PICK w \in Jobs : w = wjob
  BY <1>1, AtRecovery
<1>3. PICK c \in Items : c = cur
  BY <1>1, AtRecovery
<1>4. EventTypes'
  BY EventsNext DEF RecoverPromoted, EventKinds
<1>5. /\ RowTypes /\ ObjectTypes /\ OpTypes /\ RowsInv /\ batch[w] # "none"
      /\ \A k \in Jobs, x \in Items : partial[k][x] # "armed"
  BY <1>1, <1>2, AtRecovery
<1>6. /\ PromotionPending(w, c) /\ ~archiveRow[c] /\ final[c] /\ partial[w][c] = "none"
      /\ ~Unrecoverable(w, c)
  BY <1>2, <1>3 DEF RecoverPromoted, Promoted, Recoverable
<1>7. Owed(w, c)
  <2>1. PICK j \in Jobs : Owed(j, c)
    BY <1>5, <1>6 DEF OwedInv, RowsInv
  <2>2. entry[c] = "quarantined"
    BY <2>1, OwedRow
  <2>3. phase[w][c] \in RecoverablePhases
    BY <1>6, <2>2 DEF Unrecoverable, PromotionPending
  <2> QED BY <1>6, <2>3 DEF Owed, RecoverablePhases
<1>8. c \in Unsettled(w) /\ bitem[w][c] \in {"planned", "interrupted"} /\ entry[c] = "quarantined"
  BY <1>7, OwedRow
<1>9. /\ batch' = batch /\ bitem' = bitem /\ proof' = proof /\ partial' = partial
      /\ opItem' = opItem /\ entry' = entry /\ present' = present /\ final' = final
  BY <1>1 DEF held
<1>10. CASE /\ archiveRow' = [archiveRow EXCEPT ![cur] = TRUE]
            /\ linked' = Put(linked, TRUE) /\ phase' = Put(phase, "archive_ready")
            /\ Goto("recover_block") /\ UNCHANGED <<wjob, cur>>
  <2>1. /\ phase' \in [Jobs -> [Items -> Phases]] /\ phase'[w][c] = "archive_ready"
        /\ \A j \in Jobs, i \in Items : ~(j = w /\ i = c) => phase'[j][i] = phase[j][i]
    <3>1. "archive_ready" \in Phases
      BY DEF Phases
    <3> QED BY <1>2, <1>3, <1>5, <1>10, <3>1 DEF RowTypes, Put
  <2>2. /\ linked' \in [Jobs -> [Items -> BOOLEAN]] /\ linked'[w][c] = TRUE
        /\ \A j \in Jobs, i \in Items : ~(j = w /\ i = c) => linked'[j][i] = linked[j][i]
    BY <1>2, <1>3, <1>5, <1>10 DEF RowTypes, Put
  <2>3. /\ archiveRow' \in [Items -> BOOLEAN] /\ archiveRow'[c] = TRUE
        /\ \A i \in Items : i # c => archiveRow'[i] = archiveRow[i]
    BY <1>3, <1>5, <1>10 DEF ObjectTypes
  <2>4. RowTypes' /\ ObjectTypes' /\ OpTypes'
    BY <1>5, <1>9, <2>1, <2>2, <2>3 DEF RowTypes, ObjectTypes, OpTypes
  <2>5. Unarmed
    BY <1>5, <1>9 DEF Unarmed
  <2>6. Only(w, {c})
    BY <1>9, <2>1, <2>2, <2>3 DEF Only
  <2>7. FitsOK(bitem[w][c], phase[w][c], proof[w][c], linked[w][c],
               partial[w][c], entry[c], present[c], archiveRow[c], final[c])
    BY <1>5, <1>8, UnsettledFits DEF Fits
  <2>8. FitsOK(bitem'[w][c], phase'[w][c], proof'[w][c], linked'[w][c],
               partial'[w][c], entry'[c], present'[c], archiveRow'[c], final'[c])
    BY <1>6, <1>8, <1>9, <2>1, <2>2, <2>3, <2>7
       DEF FitsOK, ItemOK, EarlyPhases, Intents
  <2>9. Moves(w, {c})
    BY <1>9, <2>3, <2>8 DEF Moves, Fits
  <2>10. RowsInv' /\ Keeps
    BY <1>1, <1>2, <1>8, <1>9, <2>4, <2>6, <2>9, MovesRecovered
  <2>11. pc' = "recover_block" /\ wjob' = w /\ cur' = c
    BY <1>2, <1>3, <1>10 DEF Goto
  <2>12. RecoverInv'
    BY <1>5, <1>6, <1>8, <1>9, <2>2, <2>11 DEF RecoverInv
  <2>13. WorkerInv' /\ WorkTypes' /\ Proceeds
    BY <1>1, <1>9, <1>10, <2>5, <2>11, <2>12, RecoverOn
  <2> QED BY <1>1, <1>4, <1>9, <2>4, <2>10, <2>13, RecoveryStep
<1>11. CASE UNCHANGED <<archiveRow, linked, phase>> /\ Rest
  <2>1. UNCHANGED <<held, archives, batch, items>>
    BY <1>1, <1>11 DEF items, archives
  <2> QED BY <1>1, <1>4, <1>11, <2>1, PlainRecovery
<1> QED BY <1>10, <1>11 DEF RecoverPromoted

LEMMA RecoverBlockStep ==
  ASSUME IInv, RecoverBlock
  PROVE  IInv'
<1>1. /\ pc = "recover_block" \/ (pc = "recover" /\ Recoverable /\ Closable(wjob, cur))
      /\ Frame /\ UNCHANGED <<held, archives, batch, proof, linked>>
  BY DEF RecoverBlock, BlockRecovered, AtItem
<1>2. pc \in RecoverPcs /\ pc # "recover_finish"
  BY <1>1 DEF RecoverPcs
<1>3. PICK w \in Jobs : w = wjob
  BY <1>2, AtRecovery
<1>4. PICK c \in Items : c = cur
  BY <1>2, AtRecovery
<1>5. EventTypes'
  BY EventsNext DEF RecoverBlock, BlockRecovered, EventKinds
<1>6. /\ RowTypes /\ ObjectTypes /\ OpTypes /\ RowsInv /\ WorkerInv
      /\ \A k \in Jobs, x \in Items : partial[k][x] # "armed"
  BY <1>2, AtRecovery
<1>7. /\ entry[c] = "quarantined" /\ partial[w][c] = "none"
      /\ c \in Unsettled(w)
  <2>1. partial[w][c] \in {"none", "plain"}
    BY <1>6, RowValues
  <2>2. CASE pc = "recover_block"
    <3>1. /\ bitem[w][c] \in {"planned", "interrupted"}
          /\ entry[c] = "quarantined" /\ partial[w][c] # "plain"
      BY <1>3, <1>4, <1>6, <2>2 DEF WorkerInv, RecoverInv
    <3> QED BY <2>1, <3>1 DEF Unsettled
  <2>3. CASE pc = "recover" /\ Recoverable /\ Closable(wjob, cur)
    <3>1. /\ entry[c] = "quarantined" /\ partial[w][c] # "plain" /\ ~Unrecoverable(w, c)
          /\ bitem[w][c] \in {"planned", "ready"} \/ PromotionPending(w, c)
      BY <1>3, <1>4, <2>3 DEF Recoverable, Closable
    <3>2. PromotionPending(w, c) => phase[w][c] \in RecoverablePhases
      BY <3>1 DEF Unrecoverable, PromotionPending
    <3>3. PromotionPending(w, c) => Owed(w, c)
      BY <3>2 DEF Owed, RecoverablePhases
    <3>4. c \in Unsettled(w)
      BY <3>1, <3>3 DEF Unsettled, Owed
    <3> QED BY <2>1, <3>1, <3>4
  <2> QED BY <1>1, <2>2, <2>3
<1>8. FitsOK(bitem[w][c], phase[w][c], proof[w][c], linked[w][c],
             partial[w][c], entry[c], present[c], archiveRow[c], final[c])
  BY <1>6, <1>7, UnsettledFits DEF Fits
<1>9. final[c] => archiveRow[c]
  <2>1. CASE pc = "recover_block"
    <3>1. linked[w][c] \/ ~final[c]
      BY <1>3, <1>4, <1>6, <2>1 DEF WorkerInv, RecoverInv
    <3> QED BY <1>8, <3>1 DEF FitsOK
  <2>2. CASE pc = "recover" /\ Recoverable /\ Closable(wjob, cur)
    <3>1. ~Promoted(w, c)
      BY <1>3, <1>4, <2>2 DEF Closable
    <3> QED BY <1>7, <1>8, <3>1 DEF Promoted, PromotionPending, FitsOK
  <2> QED BY <1>1, <2>1, <2>2
<1>10. /\ batch' = batch /\ proof' = proof /\ partial' = partial /\ linked' = linked
       /\ entry' = entry /\ present' = present /\ final' = final /\ archiveRow' = archiveRow
  BY <1>1 DEF held, archives
<1>11. CASE /\ bitem' = Put(bitem, "blocked")
            /\ phase' = Put(phase, IF PromotionPending(wjob, cur)
                                   THEN "archive_recovery_closed" ELSE "blocked")
            /\ opItem' = Put(opItem, "skipped") /\ RecoverNext
  <2> DEFINE ph == IF PromotionPending(w, c) THEN "archive_recovery_closed" ELSE "blocked"
  <2>1. /\ bitem' \in [Jobs -> [Items -> ItemStates]] /\ bitem'[w][c] = "blocked"
        /\ \A j \in Jobs, i \in Items : ~(j = w /\ i = c) => bitem'[j][i] = bitem[j][i]
    <3>1. "blocked" \in ItemStates
      BY DEF ItemStates
    <3> QED BY <1>3, <1>4, <1>6, <1>11, <3>1 DEF RowTypes, Put
  <2>2. /\ phase' \in [Jobs -> [Items -> Phases]] /\ phase'[w][c] = ph
        /\ \A j \in Jobs, i \in Items : ~(j = w /\ i = c) => phase'[j][i] = phase[j][i]
    <3>1. ph \in Phases
      BY DEF Phases
    <3>2. phase' = Put(phase, ph)
      BY <1>3, <1>4, <1>11
    <3> HIDE DEF ph
    <3> QED BY <1>3, <1>4, <1>6, <3>1, <3>2 DEF RowTypes, Put
  <2>3. OpTypes'
    BY <1>3, <1>4, <1>6, <1>11 DEF OpTypes, Put
  <2>4. RowTypes' /\ ObjectTypes'
    BY <1>6, <1>10, <2>1, <2>2 DEF RowTypes, ObjectTypes
  <2>5. Unarmed
    BY <1>6, <1>10 DEF Unarmed
  <2>6. Only(w, {c})
    BY <1>10, <2>1, <2>2 DEF Only
  <2>7. FitsOK(bitem'[w][c], phase'[w][c], proof'[w][c], linked'[w][c],
               partial'[w][c], entry'[c], present'[c], archiveRow'[c], final'[c])
    <3>1. PromotionPending(w, c) <=> ~linked[w][c] /\ proof[w][c]
      BY DEF PromotionPending
    <3> QED BY <1>7, <1>8, <1>9, <1>10, <2>1, <2>2, <3>1
            DEF FitsOK, ItemOK, EarlyPhases, Intents
  <2>8. Moves(w, {c})
    BY <1>10, <2>7 DEF Moves, Fits
  <2>9. RowsInv' /\ Keeps
    BY <1>2, <1>3, <1>7, <1>10, <2>4, <2>6, <2>8, MovesRecovered
  <2>10. WorkerInv' /\ WorkTypes' /\ Proceeds
    BY <1>1, <1>2, <1>10, <1>11, <2>5, RecoverLeaves
  <2> QED BY <1>1, <1>2, <1>5, <1>10, <2>3, <2>4, <2>9, <2>10, RecoveryStep
<1>12. CASE UNCHANGED <<bitem, phase, opItem>> /\ Ambiguous
  <2>1. UNCHANGED <<held, archives, batch, items>>
    BY <1>1, <1>12 DEF items
  <2> QED BY <1>1, <1>2, <1>5, <1>12, <2>1, PlainRecovery
<1> QED BY <1>11, <1>12 DEF RecoverBlock, BlockRecovered

LEMMA RecoverClaimStep ==
  ASSUME IInv, RecoverClaim
  PROVE  IInv'
<1>1. /\ pc = "recover" /\ pc \in RecoverPcs /\ Frame
      /\ UNCHANGED <<present, archives, batch, proof, linked>>
  BY DEF RecoverClaim, RecoverClaimAs, AtItem, RecoverPcs
<1>2. PICK w \in Jobs : w = wjob
  BY <1>1, AtRecovery
<1>3. PICK c \in Items : c = cur
  BY <1>1, AtRecovery
<1>4. EventTypes'
  BY EventsNext DEF RecoverClaim, RecoverClaimAs, EventKinds
<1>5. /\ RowTypes /\ ObjectTypes /\ OpTypes /\ RowsInv
      /\ \A k \in Jobs, x \in Items : partial[k][x] # "armed"
  BY <1>1, AtRecovery
<1>6. bitem[w][c] \in {"deleting", "interrupted"} /\ entry[c] = "deleting"
  BY <1>2, <1>3 DEF RecoverClaim, RecoverClaimAs
<1>7. c \in Unsettled(w)
  BY <1>6 DEF Unsettled
<1>8. FitsOK(bitem[w][c], phase[w][c], proof[w][c], linked[w][c],
             partial[w][c], entry[c], present[c], archiveRow[c], final[c])
  BY <1>5, <1>7, UnsettledFits DEF Fits
<1>9. /\ batch' = batch /\ proof' = proof /\ partial' = partial /\ linked' = linked
      /\ present' = present /\ final' = final /\ archiveRow' = archiveRow
  BY <1>1 DEF archives
<1>10. linked[w][c] /\ archiveRow[c] /\ final[c] /\ partial[w][c] = "none"
  <2>1. linked[w][c] /\ archiveRow[c] /\ final[c]
    BY <1>6, <1>8 DEF FitsOK, ItemOK
  <2>2. partial[w][c] # "plain"
    BY <1>8, <2>1 DEF FitsOK, ItemOK
  <2> QED BY <1>5, <2>1, <2>2, RowValues
<1>11. Unarmed
  BY <1>5, <1>9 DEF Unarmed
<1>12. CASE /\ RecoverNext /\ present[cur]
            /\ entry' = [entry EXCEPT ![cur] = "quarantined"]
            /\ bitem' = Put(bitem, "blocked") /\ phase' = Put(phase, "blocked")
            /\ opItem' = Put(opItem, "rolled_back")
  <2>1. /\ bitem' \in [Jobs -> [Items -> ItemStates]] /\ bitem'[w][c] = "blocked"
        /\ \A j \in Jobs, i \in Items : ~(j = w /\ i = c) => bitem'[j][i] = bitem[j][i]
    <3>1. "blocked" \in ItemStates
      BY DEF ItemStates
    <3> QED BY <1>2, <1>3, <1>5, <1>12, <3>1 DEF RowTypes, Put
  <2>2. /\ phase' \in [Jobs -> [Items -> Phases]] /\ phase'[w][c] = "blocked"
        /\ \A j \in Jobs, i \in Items : ~(j = w /\ i = c) => phase'[j][i] = phase[j][i]
    <3>1. "blocked" \in Phases
      BY DEF Phases
    <3> QED BY <1>2, <1>3, <1>5, <1>12, <3>1 DEF RowTypes, Put
  <2>3. OpTypes'
    BY <1>2, <1>3, <1>5, <1>12 DEF OpTypes, Put
  <2>4. /\ entry' \in [Items -> {"quarantined", "deleting", "permanently_deleted", "restored"}]
        /\ entry'[c] = "quarantined" /\ \A i \in Items : i # c => entry'[i] = entry[i]
    BY <1>3, <1>5, <1>12 DEF ObjectTypes
  <2>5. present[c] = TRUE
    BY <1>3, <1>5, <1>12, RowValues
  <2>6. RowTypes' /\ ObjectTypes'
    BY <1>5, <1>9, <2>1, <2>2, <2>4 DEF RowTypes, ObjectTypes
  <2>7. Only(w, {c})
    BY <1>9, <2>1, <2>2, <2>4 DEF Only
  <2>8. FitsOK(bitem'[w][c], phase'[w][c], proof'[w][c], linked'[w][c],
               partial'[w][c], entry'[c], present'[c], archiveRow'[c], final'[c])
    BY <1>8, <1>9, <1>10, <2>1, <2>2, <2>4, <2>5
       DEF FitsOK, ItemOK, EarlyPhases, Intents
  <2>9. Moves(w, {c})
    BY <1>9, <2>8 DEF Moves, Fits
  <2>10. RowsInv' /\ Keeps
    BY <1>1, <1>2, <1>7, <1>9, <2>6, <2>7, <2>9, MovesRecovered
  <2>11. WorkerInv' /\ WorkTypes' /\ Proceeds
    BY <1>1, <1>9, <1>11, <1>12, RecoverLeaves
  <2> QED BY <1>1, <1>4, <1>9, <2>3, <2>6, <2>10, <2>11, RecoveryStep
<1>13. CASE /\ RecoverNext /\ ~present[cur]
            /\ entry' = [entry EXCEPT ![cur] = "permanently_deleted"]
            /\ bitem' = Put(bitem, "deleted") /\ phase' = Put(phase, "finished")
            /\ opItem' = Put(opItem, "done")
  <2>1. /\ bitem' \in [Jobs -> [Items -> ItemStates]] /\ bitem'[w][c] = "deleted"
        /\ \A j \in Jobs, i \in Items : ~(j = w /\ i = c) => bitem'[j][i] = bitem[j][i]
    <3>1. "deleted" \in ItemStates
      BY DEF ItemStates
    <3> QED BY <1>2, <1>3, <1>5, <1>13, <3>1 DEF RowTypes, Put
  <2>2. /\ phase' \in [Jobs -> [Items -> Phases]] /\ phase'[w][c] = "finished"
        /\ \A j \in Jobs, i \in Items : ~(j = w /\ i = c) => phase'[j][i] = phase[j][i]
    <3>1. "finished" \in Phases
      BY DEF Phases
    <3> QED BY <1>2, <1>3, <1>5, <1>13, <3>1 DEF RowTypes, Put
  <2>3. OpTypes'
    BY <1>2, <1>3, <1>5, <1>13 DEF OpTypes, Put
  <2>4. /\ entry' \in [Items -> {"quarantined", "deleting", "permanently_deleted", "restored"}]
        /\ entry'[c] = "permanently_deleted" /\ \A i \in Items : i # c => entry'[i] = entry[i]
    BY <1>3, <1>5, <1>13 DEF ObjectTypes
  <2>5. ~present[c]
    BY <1>3, <1>13
  <2>6. RowTypes' /\ ObjectTypes'
    BY <1>5, <1>9, <2>1, <2>2, <2>4 DEF RowTypes, ObjectTypes
  <2>7. Only(w, {c})
    BY <1>9, <2>1, <2>2, <2>4 DEF Only
  <2>8. FitsOK(bitem'[w][c], phase'[w][c], proof'[w][c], linked'[w][c],
               partial'[w][c], entry'[c], present'[c], archiveRow'[c], final'[c])
    BY <1>8, <1>9, <1>10, <2>1, <2>2, <2>4, <2>5
       DEF FitsOK, ItemOK, EarlyPhases, Intents
  <2>9. Moves(w, {c})
    BY <1>9, <2>8 DEF Moves, Fits
  <2>10. RowsInv' /\ Keeps
    BY <1>1, <1>2, <1>7, <1>9, <2>6, <2>7, <2>9, MovesRecovered
  <2>11. WorkerInv' /\ WorkTypes' /\ Proceeds
    BY <1>1, <1>9, <1>11, <1>13, RecoverLeaves
  <2> QED BY <1>1, <1>4, <1>9, <2>3, <2>6, <2>10, <2>11, RecoveryStep
<1>14. CASE UNCHANGED <<entry, bitem, phase, opItem>> /\ Ambiguous
  <2>1. UNCHANGED <<held, archives, batch, items>>
    BY <1>1, <1>14 DEF held, items
  <2> QED BY <1>1, <1>4, <1>14, <2>1, PlainRecovery
<1> QED BY <1>12, <1>13, <1>14 DEF RecoverClaim, RecoverClaimAs

\* Recovery takes up a batch, or leaves.
LEMMA RecoveryOwners ==
  ASSUME OwnersInv, Keeps, pc' \notin WorkerPcs, UNCHANGED preview, UNCHANGED jobs,
         Unspent, ResultInv'
  PROVE  OwnersInv'
<1>1. /\ job' = job /\ stop' = stop /\ request' = request /\ spawned' = spawned
      /\ begun' = begun
  BY DEF jobs
<1>2. pc' # "revalidate" /\ pc' \notin OpeningPcs
  BY DEF WorkerPcs, OpeningPcs
<1>3. JobInv'
  BY <1>1, <1>2 DEF OwnersInv, JobInv, ActiveJob, Keeps
<1>4. RequestInv'
  BY <1>1 DEF OwnersInv, RequestInv
<1>5. OpeningInv'
  BY <1>2 DEF OpeningInv
<1>6. GrantInv'
  BY <1>1, <1>2, GrantsStay DEF OwnersInv
<1> QED BY <1>3, <1>4, <1>5, <1>6 DEF OwnersInv

\* Recovery begins a batch, or is idle.
LEMMA RecoveryBegins ==
  ASSUME IInv, Frame, Unarmed, latched = "none",
         \/ pc' = "recover" /\ wjob' \in Jobs /\ cur' = 1 /\ batch'[wjob'] # "none"
         \/ Rest
  PROVE  WorkerInv' /\ WorkTypes'
<1>1. WorkTypes
  BY TypeGroups DEF IInv
<1>2. chunk' = chunk /\ latched' = latched /\ outcome' = outcome
  BY DEF Frame
<1>3. 1 \in Items /\ 1 \in 0..NItems + 1 /\ 0 \in 0..NItems + 1
  BY Numbers
<1>4. pc' \in {"recover", "idle"}
  BY DEF Rest
<1>5. /\ pc' \notin WorkerPcs /\ pc' \notin CommitPcs /\ pc' \notin RemovePcs
      /\ pc' \in Pcs /\ pc' \notin {"recover_clean", "recover_block", "recover_finish"}
      /\ pc' \in RecoverPcs => pc' = "recover"
  BY <1>4 DEF WorkerPcs, CommitPcs, RemovePcs, Pcs, RecoverPcs
<1>6. pc' = "recover" => wjob' \in Jobs /\ cur' = 1 /\ batch'[wjob'] # "none"
  BY DEF Rest
<1>7. PlaceInv'
  BY <1>2, <1>3, <1>5, <1>6 DEF PlaceInv
<1>8. StageInv' /\ CurrentInv'
  BY <1>4, <1>5 DEF StageInv, CurrentInv
<1>9. RecoverInv'
  BY <1>4, <1>5, <1>6 DEF RecoverInv
<1>10. wjob' \in {0} \cup Jobs /\ cur' \in 0..NItems + 1
  BY <1>3 DEF Rest
<1>11. WorkTypes'
  BY <1>1, <1>2, <1>5, <1>10 DEF WorkTypes
<1> QED BY <1>7, <1>8, <1>9, <1>11, UnarmedArm DEF WorkerInv

LEMMA FrameKeeps ==
  ASSUME IInv, Frame
  PROVE  /\ JobTypes' /\ StoreTypes' /\ SwitchTypes' /\ PreviewTypes'
         /\ Unspent /\ preview' = preview /\ UNCHANGED jobs
<1>1. JobTypes /\ StoreTypes /\ SwitchTypes /\ PreviewTypes
  BY TypeGroups DEF IInv
<1>2. JobTypes' /\ StoreTypes' /\ SwitchTypes' /\ PreviewTypes'
  BY <1>1 DEF Frame, jobs, store, switch, JobTypes, StoreTypes, SwitchTypes, PreviewTypes
<1> QED BY <1>2 DEF Frame, store, Unspent

LEMMA RecoverStartStep ==
  ASSUME IInv, RecoverStart
  PROVE  IInv'
<1>1. /\ pc = "idle" /\ Frame /\ UNCHANGED <<held, archives, batch, items, events>>
      /\ pc' = "recover" /\ cur' = 1 /\ wjob' = Least({j \in Jobs : Pending(j)})
      /\ \E j \in Jobs : Pending(j)
  BY DEF RecoverStart, Goto, NoPendingRecovery
<1>2. {j \in Jobs : Pending(j)} \in SUBSET Nat /\ {j \in Jobs : Pending(j)} # {}
  BY <1>1, Numbers
<1>3. Least({j \in Jobs : Pending(j)}) \in {j \in Jobs : Pending(j)}
  BY <1>2, LeastIs
<1>4. PICK v \in Jobs : v = Least({j \in Jobs : Pending(j)}) /\ Pending(v)
  BY <1>3
<1>5. wjob' = v
  BY <1>1, <1>4
<1>6. EventTypes'
  BY <1>1, EventsNext DEF AsUsual
<1>7. RowTypes /\ ObjectTypes /\ RowsInv /\ OwnersInv /\ WorkerInv
  BY TypeGroups DEF IInv
<1>8. latched = "none"
  BY <1>1, <1>7 DEF WorkerInv, PlaceInv
<1>9. /\ Still /\ RowsInv' /\ Keeps /\ RowTypes' /\ ObjectTypes' /\ OpTypes' /\ Unarmed
      /\ batch' = batch
  BY <1>1, StillRecovered, SMTT(30)
<1>10. batch'[wjob'] # "none"
  BY <1>4, <1>5, <1>9 DEF Pending
<1>11. WorkerInv' /\ WorkTypes'
  BY <1>1, <1>5, <1>8, <1>9, <1>10, RecoveryBegins
<1>12. /\ JobTypes' /\ StoreTypes' /\ SwitchTypes' /\ PreviewTypes'
       /\ Unspent /\ preview' = preview /\ UNCHANGED jobs /\ job' = job
  BY <1>1, FrameKeeps DEF jobs
<1>13. ResultInv'
  <2>1. batch'[wjob'] \in Closed => Retried(wjob)'
    <3>1. batch[v] \in Closed => Retried(v)
      BY <1>4, <1>7, PendingClosed
    <3>2. Retried(v)' <=> Retried(v)
      BY <1>9, StillRows
    <3>3. Retried(wjob)' <=> Retried(v)'
      BY <1>5 DEF Retried, Selected
    <3> QED BY <1>5, <1>9, <3>1, <3>2, <3>3
  <2>2. \A j \in Jobs : job'[j] \in Closed /\ batch'[j] # "none" =>
          Retried(j)' \/ batch'[j] = job'[j]
    BY <1>7, <1>9, <1>12 DEF OwnersInv, ResultInv, Keeps
  <2> QED BY <2>1, <2>2 DEF ResultInv
<1>14. pc' \notin WorkerPcs
  BY <1>1 DEF WorkerPcs
<1>15. OwnersInv'
  BY <1>7, <1>9, <1>12, <1>13, <1>14, RecoveryOwners
<1>16. TypeOK'
  BY <1>6, <1>9, <1>11, <1>12, TypesNext
<1> QED BY <1>9, <1>11, <1>15, <1>16 DEF IInv

\* What recovery makes of a batch.
Recovered(w) ==
    IF cur <= NItems \/ Unclear(w) \cup Undisposed(w) # {} THEN "interrupted"
    ELSE IF Deleted(w) = Selected(w) THEN "completed"
    ELSE IF Deleted(w) # {} THEN "partial" ELSE "failed"

LEMMA RecoveredDeserved ==
  ASSUME RowTypes, ObjectTypes, RowsInv, NEW w \in Jobs
  PROVE  Deserved(w, Recovered(w)) /\ Recovered(w) \in Closed \cup {"interrupted"}
<1>1. Recovered(w) \in Closed \cup {"interrupted"}
  BY DEF Recovered, Closed
<1>2. CASE Recovered(w) = "interrupted"
  BY <1>1, <1>2 DEF Deserved, Closed
<1>3. CASE Recovered(w) # "interrupted"
  <2>1. Unclear(w) = {} /\ Undisposed(w) = {}
    BY <1>3 DEF Recovered
  <2>2. /\ Recovered(w) = "completed" => Deleted(w) = Selected(w)
        /\ Recovered(w) = "failed" => Deleted(w) = {}
    BY DEF Recovered
  <2>3. /\ Unsettled(w) = {}
        /\ Deleted(w) = Selected(w) => \A i \in Selected(w) : ~present[i]
        /\ Deleted(w) = {} => Retried(w) \/ \A i \in Selected(w) : present[i]
    BY <2>1, AllSettled
  <2>4. Recovered(w) # "none"
    BY <1>1 DEF Closed
  <2> QED BY <1>1, <2>2, <2>3, <2>4 DEF Deserved
<1> QED BY <1>2, <1>3

LEMMA RecoverFinishStep ==
  ASSUME IInv, RecoverFinish
  PROVE  IInv'
<1>1. pc = "recover_finish" /\ pc \in RecoverPcs /\ Frame /\ UNCHANGED <<held, archives, items>>
  BY DEF RecoverFinish, RecoverPcs
<1>2. PICK w \in Jobs : w = wjob
  BY <1>1, AtRecovery
<1>3. EventTypes'
  BY EventsNext DEF RecoverFinish, EventKinds
<1>4. /\ RowTypes /\ ObjectTypes /\ OpTypes /\ RowsInv /\ OwnersInv /\ WorkerInv
      /\ batch[w] # "none" /\ latched = "none"
      /\ \A k \in Jobs, x \in Items : partial[k][x] # "armed"
  BY <1>1, <1>2, AtRecovery
<1>5. /\ bitem' = bitem /\ phase' = phase /\ proof' = proof /\ partial' = partial
      /\ linked' = linked /\ opItem' = opItem /\ entry' = entry /\ present' = present
      /\ archiveRow' = archiveRow /\ final' = final
  BY <1>1 DEF held, archives, items
<1>6. Still /\ Unarmed /\ ObjectTypes' /\ OpTypes'
  BY <1>4, <1>5 DEF Still, Unarmed, ObjectTypes, OpTypes
<1>7. /\ JobTypes' /\ StoreTypes' /\ SwitchTypes' /\ PreviewTypes'
      /\ Unspent /\ preview' = preview /\ UNCHANGED jobs /\ job' = job
  BY <1>1, FrameKeeps DEF jobs
<1>8. \A k \in Jobs : Retried(k)' <=> Retried(k)
  BY <1>6, StillRows
<1>9. CASE UNCHANGED batch /\ Rest
  <2>1. UNCHANGED <<held, archives, batch, items>>
    BY <1>1, <1>9
  <2>2. RowsInv' /\ Keeps /\ RowTypes' /\ ObjectTypes' /\ OpTypes' /\ Unarmed
    BY <1>1, <2>1, StillRecovered
  <2>3. WorkerInv' /\ WorkTypes'
    BY <1>1, <1>4, <1>9, <2>2, RecoveryBegins
  <2>4. Proceeds
    BY <1>9 DEF Proceeds, Rest
  <2> QED BY <1>1, <1>3, <1>9, <2>2, <2>3, <2>4, RecoveryStep
<1>10. ASSUME batch' = [batch EXCEPT ![w] = Recovered(w)],
              \/ Rest
              \/ /\ {j \in Jobs : j > wjob /\ Pending(j)} # {}
                 /\ pc' = "recover" /\ cur' = 1
                 /\ wjob' = Least({j \in Jobs : j > wjob /\ Pending(j)})
       PROVE  IInv'
  <2>1. Deserved(w, Recovered(w)) /\ Recovered(w) \in Closed \cup {"interrupted"}
    BY <1>4, RecoveredDeserved
  <2>2. RowsInv'
    BY <1>4, <1>6, <1>10, <2>1, BatchStep
  <2>3. batch'[w] = Recovered(w) /\ \A k \in Jobs : k # w => batch'[k] = batch[k]
    BY <1>4, <1>10 DEF RowTypes
  <2>4. RowTypes'
    BY <1>4, <1>5, <1>10, <2>1 DEF RowTypes
  <2>5. Keeps
    <3>1. Recovered(w) # "none"
      BY <2>1 DEF Closed
    <3> QED BY <1>4, <1>8, <2>3, <3>1 DEF Keeps
  <2>6. \A j \in Jobs : job'[j] \in Closed /\ batch'[j] # "none" =>
          Retried(j)' \/ batch'[j] = job'[j]
    <3>1. ASSUME NEW j \in Jobs, job[j] \in Closed, batch'[j] # "none"
          PROVE  Retried(j)' \/ batch'[j] = job[j]
      <4>1. batch[j] # "none" /\ (Retried(j) \/ batch[j] = job[j])
        BY <1>4, <2>5, <3>1 DEF OwnersInv, ResultInv, Keeps
      <4>2. CASE j # w
        BY <1>8, <2>3, <4>1, <4>2
      <4>3. CASE j = w
        <5>1. batch[wjob] \in Closed => Retried(wjob)
          BY <1>1, <1>4 DEF OwnersInv, ResultInv
        <5>2. Retried(w)
          BY <1>2, <3>1, <4>1, <4>3, <5>1
        <5> QED BY <1>8, <4>3, <5>2
      <4> QED BY <4>2, <4>3
    <3> QED BY <1>7, <3>1
  <2>7. CASE Rest
    <3>1. pc' = "idle" /\ pc' \notin RecoverPcs /\ pc' \notin WorkerPcs
      BY <2>7 DEF Rest, RecoverPcs, WorkerPcs
    <3>2. ResultInv'
      BY <2>6, <3>1 DEF ResultInv
    <3>3. OwnersInv'
      BY <1>4, <1>7, <2>5, <3>1, <3>2, RecoveryOwners
    <3>4. WorkerInv' /\ WorkTypes'
      BY <1>1, <1>4, <1>6, <2>7, RecoveryBegins
    <3>5. TypeOK'
      BY <1>3, <1>6, <1>7, <2>4, <3>4, TypesNext
    <3> QED BY <2>2, <3>3, <3>4, <3>5 DEF IInv
  <2>8. CASE /\ {j \in Jobs : j > wjob /\ Pending(j)} # {}
             /\ pc' = "recover" /\ cur' = 1
             /\ wjob' = Least({j \in Jobs : j > wjob /\ Pending(j)})
    <3>1. {j \in Jobs : j > wjob /\ Pending(j)} \in SUBSET Nat
      BY Numbers
    <3>2. Least({j \in Jobs : j > wjob /\ Pending(j)}) \in {j \in Jobs : j > wjob /\ Pending(j)}
      BY <2>8, <3>1, LeastIs
    <3>3. PICK v \in Jobs : /\ v = Least({j \in Jobs : j > wjob /\ Pending(j)})
                            /\ v > w /\ Pending(v)
      BY <1>2, <3>2
    <3>4. wjob' = v /\ v # w
      BY <2>8, <3>3, Numbers
    <3>5. batch'[v] = batch[v] /\ batch[v] # "none"
      BY <2>3, <3>3, <3>4 DEF Pending
    <3>6. pc' \notin WorkerPcs
      BY <2>8 DEF WorkerPcs
    <3>7. batch'[wjob'] \in Closed => Retried(wjob)'
      <4>1. batch[v] \in Closed => Retried(v)
        BY <1>4, <3>3, PendingClosed
      <4>2. Retried(wjob)' <=> Retried(v)'
        BY <3>4 DEF Retried, Selected
      <4> QED BY <1>8, <3>4, <3>5, <4>1, <4>2
    <3>8. ResultInv'
      BY <2>6, <3>7 DEF ResultInv
    <3>9. OwnersInv'
      BY <1>4, <1>7, <2>5, <3>6, <3>8, RecoveryOwners
    <3>10. batch'[wjob'] # "none" /\ wjob' \in Jobs
      BY <3>4, <3>5
    <3>11. WorkerInv' /\ WorkTypes'
      BY <1>1, <1>4, <1>6, <2>8, <3>10, RecoveryBegins
    <3>12. TypeOK'
      BY <1>3, <1>6, <1>7, <2>4, <3>11, TypesNext
    <3> QED BY <2>2, <3>9, <3>11, <3>12 DEF IInv
  <2> QED BY <1>10, <2>7, <2>8
<1>11. \/ UNCHANGED batch /\ Rest
       \/ /\ batch' = [batch EXCEPT ![w] = Recovered(w)]
          /\ \/ Rest
             \/ /\ {j \in Jobs : j > wjob /\ Pending(j)} # {}
                /\ pc' = "recover" /\ cur' = 1
                /\ wjob' = Least({j \in Jobs : j > wjob /\ Pending(j)})
  BY <1>2 DEF RecoverFinish, Recovered, Goto
<1> QED BY <1>9, <1>10, <1>11

\* Containers that go with their handles, and nothing else on disk.
LEMMA RestartStep ==
  ASSUME IInv, Restart
  PROVE  IInv'
<1>1. /\ batch' = batch /\ bitem' = bitem /\ phase' = phase /\ proof' = proof
      /\ linked' = linked /\ opItem' = opItem /\ entry' = entry /\ present' = present
      /\ archiveRow' = archiveRow /\ final' = final
      /\ enabled' = enabled /\ preview' = preview /\ request' = request
      /\ latch' = FALSE /\ disabling' = FALSE
      /\ tokens' = {} /\ now' = now /\ issued' = issued
  BY DEF Restart, held, items, StoreLost
<1>2. /\ pc' = "idle" /\ wjob' = 0 /\ cur' = 0 /\ chunk' = {} /\ latched' = "none"
      /\ outcome' = "done" /\ spawned' = {} /\ begun' = 0 /\ stop' = EachJob(FALSE)
  BY DEF Restart
<1>3. /\ RowTypes /\ ObjectTypes /\ OpTypes /\ JobTypes /\ StoreTypes /\ SwitchTypes
      /\ PreviewTypes /\ RowsInv /\ OwnersInv
  BY TypeGroups DEF IInv
<1>4. EventTypes'
  BY EventsNext DEF Restart, EventKinds
<1>5. /\ partial' \in [Jobs -> [Items -> {"none", "armed", "plain"}]]
      /\ \A j \in Jobs, i \in Items : /\ partial'[j][i] \in {partial[j][i], "none"}
                                      /\ partial'[j][i] # "armed"
  BY <1>3 DEF Restart, RowTypes
<1>6. /\ job' \in [Jobs -> {"none", "lost"}]
      /\ \A j \in Jobs : job'[j] = "none" <=> job[j] = "none"
  BY DEF Restart
<1>7. RowTypes' /\ ObjectTypes' /\ OpTypes' /\ StoreTypes' /\ SwitchTypes' /\ PreviewTypes'
  BY <1>1, <1>3, <1>5
     DEF RowTypes, ObjectTypes, OpTypes, StoreTypes, SwitchTypes, PreviewTypes
<1>8. JobTypes'
  BY <1>1, <1>2, <1>3, <1>6 DEF JobTypes, EachJob
<1>9. WorkTypes'
  BY <1>2, Numbers DEF WorkTypes, Pcs
<1>10. Still
  BY <1>1, <1>5 DEF Still
<1>11. RowsInv'
  BY <1>1, <1>3, <1>10, RowsStay
<1>12. Keeps
  BY <1>1, <1>10, StillRows DEF Keeps
<1>13. pc' \notin WorkerPcs /\ pc' \notin RecoverPcs /\ pc' \notin CommitPcs
       /\ pc' \notin RemovePcs /\ pc' \notin OpeningPcs
  BY <1>2 DEF WorkerPcs, RecoverPcs, CommitPcs, RemovePcs, OpeningPcs
<1>14. WorkerInv'
  <2>1. ArmInv'
    BY <1>5 DEF ArmInv
  <2>2. PlaceInv' /\ StageInv' /\ CurrentInv' /\ RecoverInv'
    BY <1>2, <1>13 DEF PlaceInv, StageInv, CurrentInv, RecoverInv
  <2> QED BY <2>1, <2>2 DEF WorkerInv
<1>15. JobInv'
  <2>1. \A j \in Jobs : ~ActiveJob(j)'
    BY <1>6 DEF ActiveJob
  <2>2. \A j, k \in Jobs : k < j /\ job'[j] # "none" => job'[k] # "none"
    BY <1>3, <1>6 DEF OwnersInv, JobInv
  <2>3. ASSUME NEW j \in Jobs, job'[j] \in {"none", "created"} \/ j \in spawned' \/ begun' = j
        PROVE  batch'[j] = "none"
    <3>1. job[j] = "none"
      BY <1>2, <1>6, <2>3, Numbers
    <3> QED BY <1>1, <1>3, <3>1 DEF OwnersInv, JobInv
  <2> QED BY <1>2, <1>13, <2>1, <2>2, <2>3 DEF JobInv
<1>16. RequestInv'
  BY <1>1, <1>3, <1>6 DEF OwnersInv, RequestInv
<1>17. OpeningInv'
  BY <1>13 DEF OpeningInv
<1>18. ResultInv'
  <2>1. \A j \in Jobs : job'[j] \notin Closed
    BY <1>6 DEF Closed
  <2> QED BY <1>13, <2>1 DEF ResultInv
<1>19. GrantInv'
  <2>1. Unspent
    BY <1>1 DEF Unspent
  <2> QED BY <1>1, <1>2, <1>3, <1>12, <2>1, GrantsStay DEF OwnersInv
<1>20. TypeOK'
  BY <1>4, <1>7, <1>8, <1>9, TypesNext
<1> QED BY <1>11, <1>14, <1>15, <1>16, <1>17, <1>18, <1>19, <1>20 DEF IInv, OwnersInv

-----------------------------------------------------------------------------
(* The invariant, and what it says.                                        *)

LEMMA InitInv == Init => IInv
<1> SUFFICES ASSUME Init PROVE IInv
  OBVIOUS
<1>1. /\ now = 0 /\ tokens = {} /\ issued = 0
      /\ enabled = TRUE /\ latch = FALSE /\ disabling = FALSE
      /\ \A i \in Items : /\ entry[i] = "quarantined" /\ present[i] = TRUE
                          /\ archiveRow[i] = (i \in Archived) /\ final[i] = (i \in Archived)
      /\ \A j \in Jobs : /\ job[j] = "none" /\ batch[j] = "none"
      /\ \A j \in Jobs, i \in Items :
           /\ partial[j][i] = "none" /\ bitem[j][i] = "none" /\ phase[j][i] = "none"
           /\ proof[j][i] = FALSE /\ linked[j][i] = FALSE
      /\ \A p \in Previews : preview[p].consumed = FALSE
      /\ spawned = {} /\ begun = 0 /\ pc = "idle" /\ wjob = 0 /\ cur = 0 /\ chunk = {}
      /\ latched = "none" /\ outcome = "done" /\ events = 0
  BY DEF Init, StoreInit, Each, EachJob
<1>2. RowTypes
  BY DEF Init, RowTypes, Each, EachJob, ItemStates, Phases
<1>3. ObjectTypes
  BY DEF Init, ObjectTypes, Each
<1>4. OpTypes
  BY DEF Init, OpTypes, Each, EachJob
<1>5. JobTypes
  <2>1. NoRequest \in [token : 0..MaxIssued, binding : Bindings \cup {NoBinding}]
    BY Numbers DEF NoRequest
  <2> QED BY <2>1 DEF Init, JobTypes, EachJob
<1>6. StoreTypes /\ SwitchTypes /\ EventTypes
  <2>1. 0 \in 0..MaxNow /\ 0 \in 0..MaxIssued /\ 0 \in 0..MaxEvents
    BY Numbers
  <2> QED BY <1>1, <2>1 DEF StoreTypes, SwitchTypes, EventTypes
<1>7. PreviewTypes
  <2>1. 0 \in 0..(MaxNow + Ttl)
    BY Numbers
  <2> QED BY <2>1 DEF Init, PreviewTypes, Each
<1>8. WorkTypes
  BY <1>1, Numbers DEF WorkTypes, Pcs
<1>9. TypeOK
  BY <1>2, <1>3, <1>4, <1>5, <1>6, <1>7, <1>8, TypeGroups
<1>10. \A j \in Jobs : Unsettled(j) = {}
  BY <1>1 DEF Unsettled, PromotionPending
<1>11. RowsInv
  <2>1. FreshInv
    BY <1>1 DEF FreshInv
  <2>2. ItemsInv
    BY <1>1 DEF ItemsInv, ItemOK, EarlyPhases
  <2>3. ArchiveInv /\ OwedInv
    BY <1>1 DEF ArchiveInv, OwedInv
  <2>4. OrderInv
    BY <1>10 DEF OrderInv
  <2>5. TakenInv
    BY <1>1 DEF TakenInv
  <2>6. BatchInv
    BY <1>1 DEF BatchInv
  <2> QED BY <2>1, <2>2, <2>3, <2>4, <2>5, <2>6 DEF RowsInv
<1>12. pc \notin WorkerPcs /\ pc \notin RecoverPcs /\ pc \notin CommitPcs
       /\ pc \notin RemovePcs /\ pc \notin OpeningPcs
  BY <1>1 DEF WorkerPcs, RecoverPcs, CommitPcs, RemovePcs, OpeningPcs
<1>13. OwnersInv
  <2>1. JobInv
    BY <1>1, <1>12 DEF JobInv, ActiveJob
  <2>2. RequestInv
    BY <1>1 DEF RequestInv
  <2>3. OpeningInv
    BY <1>12 DEF OpeningInv
  <2>4. ResultInv
    BY <1>1, <1>12 DEF ResultInv, Closed
  <2>5. GrantInv
    BY <1>1 DEF GrantInv, GrantSpentOnce
  <2> QED BY <2>1, <2>2, <2>3, <2>4, <2>5 DEF OwnersInv
<1>14. WorkerInv
  <2>1. ArmInv
    BY <1>1 DEF ArmInv
  <2>2. PlaceInv /\ StageInv /\ CurrentInv /\ RecoverInv
    BY <1>1, <1>12 DEF PlaceInv, StageInv, CurrentInv, RecoverInv
  <2> QED BY <2>1, <2>2 DEF WorkerInv
<1> QED BY <1>9, <1>11, <1>13, <1>14 DEF IInv

LEMMA NextInv == IInv /\ [Next]_vars => IInv'
<1> SUFFICES ASSUME IInv, [Next]_vars PROVE IInv'
  OBVIOUS
<1>1. CASE Advance
  BY <1>1, AdvanceStep
<1>2. CASE Owner
  <2>1. ASSUME NEW p \in Previews, BuildPreview(p) PROVE IInv'
    BY <2>1, BuildPreviewStep
  <2>2. ASSUME NEW b \in Bindings, Confirm(b) PROVE IInv'
    BY <2>2, ConfirmStep
  <2>3. ASSUME NEW i \in Items, NEW id \in 1..MaxIssued, RestoreEntry(i, id) PROVE IInv'
    BY <2>3, RestoreEntryStep
  <2>4. ASSUME NEW j \in Jobs, NEW id \in 1..MaxIssued, NEW b \in Bindings,
               StartJob(j, id, b)
        PROVE  IInv'
    BY <2>4, StartJobStep
  <2>5. ASSUME NEW j \in Jobs, StopJob(j) PROVE IInv'
    BY <2>5, StopJobStep
  <2> QED BY <1>2, <2>1, <2>2, <2>3, <2>4, <2>5, IssueEnterStep, DisableStep, EnableStep
          DEF Owner
<1>3. CASE DisablePersisted
  BY <1>3, DisablePersistedStep
<1>4. CASE Start
  <2>1. ASSUME NEW j \in Jobs, BeginWorker(j) PROVE IInv'
    BY <2>1, BeginWorkerStep
  <2>2. ASSUME NEW j \in Jobs, EnterGate(j) PROVE IInv'
    BY <2>2, EnterGateStep
  <2> QED BY <1>4, <2>1, <2>2 DEF Start
<1>5. CASE Work
  BY <1>5, ConsumeGrantStep, RevalidateStep, PreflightStep, LayoutStep, UacStep,
     MaterializeStep, CommitStep, PromoteStep, RenameStep, LinkStep, BoundaryStep,
     ClaimItemStep, DisposeStep, RecordStep, NextChunkStep, TerminalizeStep, FinalizeStep
     DEF Work
<1>6. CASE RecoverStart
  BY <1>6, RecoverStartStep
<1>7. CASE Recover
  BY <1>7, RecoverPassStep, RecoverUnsureStep, RecoverPartialStep, RecoverCleanStep,
     RecoverPromotedStep, RecoverBlockStep, RecoverClaimStep, RecoverFinishStep DEF Recover
<1>8. CASE Restart
  BY <1>8, RestartStep
<1>9. CASE UNCHANGED vars
  <2>1. /\ Quiet /\ UNCHANGED <<store, preview>> /\ UNCHANGED jobs
        /\ UNCHANGED switch /\ UNCHANGED events
    BY <1>9 DEF vars, Quiet
  <2>2. SwitchTypes
    BY TypeGroups DEF IInv
  <2>3. enabled' = enabled /\ SwitchTypes'
    BY <2>1, <2>2 DEF switch, SwitchTypes
  <2>4. EventTypes'
    BY <2>1, EventsNext DEF AsUsual
  <2> QED BY <2>1, <2>3, <2>4, SwitchStep
<1> QED BY <1>1, <1>2, <1>3, <1>4, <1>5, <1>6, <1>7, <1>8, <1>9 DEF Next

THEOREM Invariance == Spec => []IInv
BY InitInv, NextInv, PTL DEF Spec

\* Every variable has its type.
THEOREM TypesKept == Spec => []TypeOK
<1>1. IInv => TypeOK
  BY DEF IInv
<1> QED BY <1>1, Invariance, PTL

\* An object that is gone left an archive behind, under its final name and in
\* the catalog, whatever failed since.
THEOREM GoneIsArchived == Spec => []ArchivedBeforeGone
<1>1. IInv => ArchivedBeforeGone
  BY DEF IInv, RowsInv, ArchiveInv, ArchivedBeforeGone
<1> QED BY <1>1, Invariance, PTL

\* A container that outlives its handle, or a final name without a row, is owed
\* by a batch recovery still has to look at.
THEOREM NoArchiveOrphaned == Spec => []ArchivesAccounted
<1>1. IInv => ArchivesAccounted
  <2> SUFFICES ASSUME IInv PROVE ArchivesAccounted
    OBVIOUS
  <2>1. ItemsInv /\ OwedInv
    BY DEF IInv, RowsInv
  <2>2. ASSUME NEW j \in Jobs, NEW i \in Items, partial[j][i] = "plain"
        PROVE  PromotionPending(j, i) /\ phase[j][i] # "archive_recovery_closed"
    BY <2>1, <2>2 DEF ItemsInv, ItemOK, PromotionPending
  <2>3. ASSUME NEW i \in Items, final[i], ~archiveRow[i]
        PROVE  \E j \in Jobs : PromotionPending(j, i) /\ phase[j][i] # "archive_recovery_closed"
    BY <2>1, <2>3 DEF OwedInv, Owed
  <2> QED BY <2>2, <2>3 DEF ArchivesAccounted
<1> QED BY <1>1, Invariance, PTL

\* At most one batch has objects it has not settled: a batch is written when
\* nothing is pending, and recovery looks again at none whose objects a later
\* batch holds open.
THEOREM BatchesOneByOne == Spec => []OneOpenBatch
<1>1. IInv => OneOpenBatch
  <2> SUFFICES ASSUME IInv, NEW j \in Jobs, NEW k \in Jobs, j # k
               PROVE  Unsettled(j) = {} \/ Unsettled(k) = {}
    BY DEF OneOpenBatch
  <2>1. RowTypes /\ ObjectTypes /\ RowsInv
    BY TypeGroups DEF IInv
  <2>2. ASSUME NEW i \in Unsettled(j) PROVE Unsettled(k) = {}
    BY <2>1, OpenOnly
  <2> QED BY <2>2
<1> QED BY <1>1, Invariance, PTL

\* A grant and a review are each good for one batch.
THEOREM GrantsSpentOnce == Spec => []GrantSpentOnce
<1>1. IInv => GrantSpentOnce
  BY DEF IInv, OwnersInv, GrantInv
<1> QED BY <1>1, Invariance, PTL

\* A verdict is what happened to the objects of the batch, and a job reports
\* that of its batch.
THEOREM VerdictsTruthful == Spec => []VerdictTruthful
<1>1. IInv => VerdictTruthful
  <2> SUFFICES ASSUME IInv PROVE VerdictTruthful
    OBVIOUS
  <2>1. BatchInv /\ OrderInv /\ ResultInv
    BY DEF IInv, RowsInv, OwnersInv
  <2>2. ASSUME NEW j \in Jobs
        PROVE  /\ batch[j] = "completed" => \A i \in Selected(j) : ~present[i]
               /\ batch[j] = "failed" => Retried(j) \/ \A i \in Selected(j) : present[i]
    BY <2>1 DEF BatchInv
  <2>3. \A j \in Jobs : batch[j] \in Closed /\ wjob # j => Unsettled(j) = {}
    BY <2>1 DEF OrderInv
  <2>4. \A j \in Jobs : job[j] \in Closed /\ batch[j] # "none" =>
          Retried(j) \/ batch[j] = job[j]
    BY <2>1 DEF ResultInv
  <2> QED BY <2>2, <2>3, <2>4 DEF VerdictTruthful
<1> QED BY <1>1, Invariance, PTL

\* Only the claim sets an object on its way, and the worker that claims has a
\* switch that is on: the setting is written when the gate is free.
LEMMA NoClaimWhenOff ==
  ASSUME IInv, [Next]_vars, ~enabled, NEW i \in Items, entry'[i] = "deleting"
  PROVE  entry[i] = "deleting"
<1>1. SUFFICES ASSUME entry' # entry PROVE entry[i] = "deleting"
  BY <1>1
<1>2. ObjectTypes
  BY TypeGroups DEF IInv
<1>3. pc \notin WorkerPcs
  BY DEF IInv, WorkerInv, PlaceInv
<1>4. ~Work
  <2>1. pc # "claim" /\ pc # "record"
    BY <1>3 DEF WorkerPcs
  <2>2. ~ClaimItem /\ ~Record
    BY <2>1 DEF ClaimItem, Record
  <2>3. ~ConsumeGrant /\ ~Revalidate /\ ~Preflight /\ ~Layout /\ ~Uac /\ ~Materialize
    BY <1>1 DEF ConsumeGrant, Revalidate, Preflight, Layout, Uac, Materialize, held
  <2>4. ~Commit /\ ~Promote /\ ~Rename /\ ~Link
    BY <1>1 DEF Commit, Promote, Rename, Link, held
  <2>5. ~Boundary /\ ~Dispose /\ ~NextChunk /\ ~Terminalize /\ ~Finalize
    BY <1>1 DEF Boundary, Dispose, NextChunk, Terminalize, Finalize, FinalizeAs, held
  <2> QED BY <2>2, <2>3, <2>4, <2>5 DEF Work
<1>5. ASSUME NEW o \in Items, NEW id \in 1..MaxIssued, RestoreEntry(o, id)
      PROVE  entry[i] = "deleting"
  <2>1. entry' = [entry EXCEPT ![o] = "restored"]
    BY <1>1, <1>5 DEF RestoreEntry
  <2> QED BY <1>2, <2>1 DEF ObjectTypes
<1>6. CASE RecoverClaim
  <2>1. \E value \in {"quarantined", "permanently_deleted"} :
          entry' = [entry EXCEPT ![cur] = value]
    BY <1>1, <1>6 DEF RecoverClaim, RecoverClaimAs
  <2> QED BY <1>2, <2>1 DEF ObjectTypes
<1>7. CASE Owner
  BY <1>1, <1>5, <1>7
     DEF Owner, BuildPreview, Confirm, IssueEnter, StartJob, StopJob, Disable, Enable, held
<1>8. ~Advance /\ ~DisablePersisted /\ ~Start /\ ~RecoverStart /\ ~Restart /\ ~UNCHANGED vars
  BY <1>1 DEF Advance, DisablePersisted, DisableWhen, Start, BeginWorker, EnterGate,
              RecoverStart, Restart, vars, held
<1>9. CASE Recover
  BY <1>1, <1>6, <1>9
     DEF Recover, RecoverPass, RecoverUnsure, RecoverPartial, RecoverClean,
         RecoverPromoted, RecoverBlock, BlockRecovered, RecoverFinish, held
<1> QED BY <1>4, <1>7, <1>8, <1>9 DEF Next

\* Once the switch is off on disk, no object is claimed for removal.
THEOREM NoClaimOnceOff == Spec => OffStopsRemoval
<1>1. IInv /\ [Next]_vars =>
        [~enabled => \A i \in Items : entry'[i] = "deleting" => entry[i] = "deleting"]_vars
  BY NoClaimWhenOff
<1>2. Spec => [][~enabled => \A i \in Items :
                   entry'[i] = "deleting" => entry[i] = "deleting"]_vars
  BY <1>1, Invariance, PTL DEF Spec
<1> QED BY <1>2, PTL DEF OffStopsRemoval


-----------------------------------------------------------------------------
(* The removal of every object by every batch as DispositionPromise has it. *)

\* A claim that was rolled back is never taken up again by its batch.
OpInv == \A j \in Jobs, i \in Items :
    opItem[j][i] = "rolled_back" => bitem[j][i] = "blocked"

Promised ==
    \A j \in Jobs, i \in Items :
        [Removal(j, i)!Next]_<<ClaimOf(j, i), ThereFor(j, i)>>

\* Nothing the mapping looks at changes.
LEMMA SameClaims ==
  ASSUME OpInv, UNCHANGED <<bitem, opItem, present>>,
         \A i \in Items : entry'[i] = "deleting" <=> entry[i] = "deleting"
  PROVE  Promised /\ OpInv'
<1>1. OpInv'
  BY DEF OpInv
<1>2. ASSUME NEW j \in Jobs, NEW i \in Items PROVE ClaimOf(j, i)' = ClaimOf(j, i)
  BY DEF ClaimOf
<1>3. ASSUME NEW j \in Jobs, NEW i \in Items PROVE ThereFor(j, i)' = ThereFor(j, i)
  BY <1>2 DEF ThereFor
<1> QED BY <1>1, <1>2, <1>3 DEF Promised

\* Rows change of objects nobody claims, and no claim begins or ends.
LEMMA HeldRows ==
  ASSUME OpInv, NEW w \in Jobs, NEW S, UNCHANGED <<entry, present>>,
         \A j \in Jobs, i \in Items : ~(j = w /\ i \in S) =>
             bitem'[j][i] = bitem[j][i] /\ opItem'[j][i] = opItem[j][i],
         \A i \in Items : i \in S =>
             /\ entry[i] # "deleting" /\ bitem[w][i] \notin {"deleted", "blocked"}
             /\ bitem'[w][i] # "deleted" /\ opItem'[w][i] # "rolled_back"
  PROVE  Promised /\ OpInv'
<1>1. OpInv'
  BY DEF OpInv
<1>2. ASSUME NEW j \in Jobs, NEW i \in Items PROVE ClaimOf(j, i)' = ClaimOf(j, i)
  BY DEF ClaimOf, OpInv
<1>3. ASSUME NEW j \in Jobs, NEW i \in Items PROVE ThereFor(j, i)' = ThereFor(j, i)
  BY <1>2 DEF ThereFor
<1> QED BY <1>1, <1>2, <1>3 DEF Promised

LEMMA BlockPromised ==
  ASSUME IInv, OpInv, NEW w \in Jobs, NEW S \in SUBSET Undisposed(w), Block(w, S),
         UNCHANGED <<entry, present>>
  PROVE  Promised /\ OpInv'
<1>1. RowTypes /\ OpTypes /\ ItemsInv
  BY TypeGroups DEF IInv, RowsInv
<1>2. \A j \in Jobs, i \in Items : ~(j = w /\ i \in S) => bitem'[j][i] = bitem[j][i]
  BY <1>1, BlockIs
<1>3. \A j \in Jobs, i \in Items : ~(j = w /\ i \in S) => opItem'[j][i] = opItem[j][i]
  BY <1>1 DEF Block, OpTypes
<1>4. ASSUME NEW i \in Items, i \in S
      PROVE  /\ entry[i] # "deleting" /\ bitem[w][i] \notin {"deleted", "blocked"}
             /\ bitem'[w][i] # "deleted" /\ opItem'[w][i] # "rolled_back"
  <2>1. bitem[w][i] \in {"planned", "ready"}
    BY <1>4 DEF Undisposed
  <2>2. entry[i] = "quarantined"
    BY <1>1, <2>1 DEF ItemsInv, ItemOK
  <2>3. bitem'[w][i] \in {"interrupted", "blocked"}
    BY <1>1, <1>4, BlockIs
  <2>4. opItem'[w][i] \in {opItem[w][i], "skipped"}
    BY <1>1 DEF Block, OpTypes
  <2>5. opItem[w][i] # "rolled_back"
    BY <2>1 DEF OpInv
  <2> QED BY <2>1, <2>2, <2>3, <2>4, <2>5
<1> QED BY <1>2, <1>3, <1>4, HeldRows

\* How the removal of an object by a batch may go on.
Turns(w, c) ==
    \/ /\ ClaimOf(w, c) = "held" /\ ClaimOf(w, c)' = "deleting"
       /\ present[c] /\ present'[c]
    \/ ClaimOf(w, c) = "deleting" /\ ClaimOf(w, c)' = "deleting" /\ ~present'[c]
    \/ /\ ClaimOf(w, c) = "deleting" /\ ClaimOf(w, c)' = "deleted"
       /\ ~present[c] /\ ~present'[c]
    \/ /\ ClaimOf(w, c) = "deleting" /\ ClaimOf(w, c)' = "returned"
       /\ present[c] /\ present'[c]

\* A step at an object that its batch has not settled.
LEMMA TurnPromised ==
  ASSUME IInv, OpInv, OpInv', NEW w \in Jobs, NEW c \in Items, c \in Unsettled(w),
         entry[c] # "permanently_deleted",
         \A j \in Jobs, i \in Items : ~(j = w /\ i = c) =>
             bitem'[j][i] = bitem[j][i] /\ opItem'[j][i] = opItem[j][i],
         \A i \in Items : i # c => entry'[i] = entry[i] /\ present'[i] = present[i],
         present'[c] \in BOOLEAN, Turns(w, c)
  PROVE  Promised
<1>1. RowTypes /\ ObjectTypes /\ ItemsInv /\ RowsInv /\ present[c] \in BOOLEAN
  BY TypeGroups DEF IInv, RowsInv, ObjectTypes
<1>2. ASSUME NEW k \in Jobs, k # w PROVE bitem[k][c] \in {"none", "blocked"}
  <2>1. Unsettled(k) = {}
    BY <1>1, <1>2, OpenOnly
  <2>2. bitem[k][c] \in {"none", "deleted", "blocked"}
    BY <1>1, <2>1, SettledRow
  <2>3. bitem[k][c] # "deleted"
    BY <1>1 DEF ItemsInv, ItemOK
  <2> QED BY <2>2, <2>3
<1>3. ASSUME NEW k \in Jobs, k # w
      PROVE  ClaimOf(k, c) \in {"held", "returned"} /\ ClaimOf(k, c)' = ClaimOf(k, c)
  BY <1>2, <1>3 DEF ClaimOf
<1>4. ASSUME NEW k \in Jobs, NEW i \in Items, i # c PROVE ClaimOf(k, i)' = ClaimOf(k, i)
  BY <1>4 DEF ClaimOf
<1>5. ASSUME NEW k \in Jobs, NEW i \in Items, i # c PROVE ThereFor(k, i)' = ThereFor(k, i)
  BY <1>4, <1>5 DEF ThereFor
<1>6. ThereFor(w, c) = present[c] /\ ThereFor(w, c)' = present'[c]
  BY <1>1, <1>3 DEF ThereFor
<1>7. ASSUME NEW k \in Jobs, k # w PROVE ThereFor(k, c) = TRUE /\ ThereFor(k, c)' = TRUE
  <2>1. present[c] \/ ClaimOf(w, c) \in {"deleting", "deleted"}
    BY DEF Turns
  <2>2. present'[c] \/ ClaimOf(w, c)' \in {"deleting", "deleted"}
    BY DEF Turns
  <2> QED BY <1>7, <2>1, <2>2 DEF ThereFor
<1>8. [Removal(w, c)!Next]_<<ClaimOf(w, c), ThereFor(w, c)>>
  <2>1. CASE ClaimOf(w, c) = "held" /\ ClaimOf(w, c)' = "deleting" /\ present[c] /\ present'[c]
    <3>1. ThereFor(w, c)' = ThereFor(w, c)
      BY <1>1, <1>6, <2>1
    <3>2. Removal(w, c)!ClaimAll
      BY <2>1, <3>1 DEF Removal!ClaimAll
    <3> QED BY <3>2 DEF Removal!Next
  <2>2. CASE ClaimOf(w, c) = "deleting" /\ ClaimOf(w, c)' = "deleting" /\ ~present'[c]
    <3>1. CASE present[c]
      <4>1. ThereFor(w, c) = TRUE /\ ThereFor(w, c)' = FALSE
        BY <1>1, <1>6, <2>2, <3>1
      <4>2. Removal(w, c)!Vanish({c})
        BY <2>2, <4>1 DEF Removal!Vanish
      <4> QED BY <4>2 DEF Removal!Next
    <3>2. CASE ~present[c]
      <4>1. ThereFor(w, c)' = ThereFor(w, c)
        BY <1>1, <1>6, <2>2, <3>2
      <4> QED BY <2>2, <4>1
    <3> QED BY <3>1, <3>2
  <2>3. CASE ClaimOf(w, c) = "deleting" /\ ClaimOf(w, c)' = "deleted" /\ ~present[c] /\ ~present'[c]
    <3>1. ThereFor(w, c) = FALSE /\ ThereFor(w, c)' = FALSE
      BY <1>1, <1>6, <2>3
    <3>2. Removal(w, c)!Confirm(c)
      BY <2>3, <3>1 DEF Removal!Confirm
    <3> QED BY <3>2 DEF Removal!Next
  <2>4. CASE ClaimOf(w, c) = "deleting" /\ ClaimOf(w, c)' = "returned" /\ present[c] /\ present'[c]
    <3>1. ThereFor(w, c) = TRUE /\ ThereFor(w, c)' = TRUE
      BY <1>1, <1>6, <2>4
    <3>2. Removal(w, c)!Return(c)
      BY <2>4, <3>1 DEF Removal!Return
    <3> QED BY <3>2 DEF Removal!Next
  <2> QED BY <2>1, <2>2, <2>3, <2>4 DEF Turns
<1>9. ASSUME NEW k \in Jobs, NEW i \in Items, ~(k = w /\ i = c)
      PROVE  ClaimOf(k, i)' = ClaimOf(k, i) /\ ThereFor(k, i)' = ThereFor(k, i)
  BY <1>3, <1>4, <1>5, <1>7, <1>9
<1> QED BY <1>8, <1>9 DEF Promised

\* Rows change of an object that is claimed before and after.
LEMMA ClaimStays ==
  ASSUME OpInv, NEW w \in Jobs, NEW c \in Items, UNCHANGED <<entry, present>>,
         \A j \in Jobs, i \in Items : ~(j = w /\ i = c) =>
             bitem'[j][i] = bitem[j][i] /\ opItem'[j][i] = opItem[j][i],
         bitem[w][c] \in {"deleting", "interrupted"},
         bitem'[w][c] \in {"deleting", "interrupted"}, opItem'[w][c] # "rolled_back"
  PROVE  Promised /\ OpInv'
<1>1. OpInv'
  BY DEF OpInv
<1>2. ASSUME NEW j \in Jobs, NEW i \in Items PROVE ClaimOf(j, i)' = ClaimOf(j, i)
  BY DEF ClaimOf, OpInv
<1>3. ASSUME NEW j \in Jobs, NEW i \in Items PROVE ThereFor(j, i)' = ThereFor(j, i)
  BY <1>2 DEF ThereFor
<1> QED BY <1>1, <1>2, <1>3 DEF Promised

\* The rows of the object at hand.
LEMMA PutRows ==
  ASSUME RowTypes, OpTypes, NEW w \in Jobs, w = wjob, NEW c \in Items, c = cur, NEW a, NEW b,
         bitem' = Put(bitem, a), opItem' = Put(opItem, b)
  PROVE  /\ bitem'[w][c] = a /\ opItem'[w][c] = b
         /\ \A j \in Jobs, i \in Items : ~(j = w /\ i = c) =>
              bitem'[j][i] = bitem[j][i] /\ opItem'[j][i] = opItem[j][i]
<1>1. /\ bitem' = [bitem EXCEPT ![w][c] = a] /\ opItem' = [opItem EXCEPT ![w][c] = b]
  BY DEF Put
<1> QED BY <1>1 DEF RowTypes, OpTypes

\* Nothing of the held objects and of the rows changes.
LEMMA StillPromised ==
  ASSUME OpInv, UNCHANGED held, UNCHANGED <<bitem, opItem>>
  PROVE  Promised /\ OpInv'
BY SameClaims DEF held

LEMMA RevalidatePromised ==
  ASSUME IInv, OpInv, Revalidate
  PROVE  Promised /\ OpInv'
<1>1. pc = "revalidate" /\ UNCHANGED held
  BY DEF Revalidate
<1>2. RowTypes /\ OpTypes /\ RowsInv /\ OwnersInv /\ WorkerInv
  BY TypeGroups DEF IInv
<1>3. pc \in OpeningPcs /\ pc \in WorkerPcs
  BY <1>1 DEF OpeningPcs, WorkerPcs
<1>4. PICK w \in Jobs : w = wjob
  BY <1>2, <1>3 DEF WorkerInv, PlaceInv
<1>5. CASE UNCHANGED <<preview, batch, items>>
  BY <1>1, <1>5, StillPromised DEF items
<1>6. CASE \E S :
             /\ bitem' = [bitem EXCEPT ![wjob] =
                   [i \in Items |-> IF i \in S THEN "planned" ELSE "none"]]
             /\ opItem' = [opItem EXCEPT ![wjob] =
                   [i \in Items |-> IF i \in S THEN "pending" ELSE "none"]]
  <2>1. \A i \in Items : bitem[w][i] = "none"
    BY <1>2, <1>3, <1>4 DEF OwnersInv, JobInv, RowsInv, FreshInv
  <2>2. \A i \in Items : entry[i] # "deleting"
    <3>1. \A j \in Jobs : Unsettled(j) = {}
      BY <1>2, <1>3 DEF OwnersInv, OpeningInv
    <3>2. \A j \in Jobs, i \in Items : bitem[j][i] \notin {"deleting", "interrupted"}
      BY <3>1 DEF Unsettled
    <3> QED BY <1>2, <3>2 DEF RowsInv, TakenInv
  <2>3. PICK S :
             /\ bitem' = [bitem EXCEPT ![w] =
                   [i \in Items |-> IF i \in S THEN "planned" ELSE "none"]]
             /\ opItem' = [opItem EXCEPT ![w] =
                   [i \in Items |-> IF i \in S THEN "pending" ELSE "none"]]
    BY <1>4, <1>6
  <2>4. \A j \in Jobs, i \in Items : ~(j = w /\ i \in Items) =>
          bitem'[j][i] = bitem[j][i] /\ opItem'[j][i] = opItem[j][i]
    BY <1>2, <2>3 DEF RowTypes, OpTypes
  <2>5. \A i \in Items : bitem'[w][i] # "deleted" /\ opItem'[w][i] # "rolled_back"
    BY <1>2, <2>3 DEF RowTypes, OpTypes
  <2>6. UNCHANGED <<entry, present>>
    BY <1>1 DEF held
  <2> QED BY <2>1, <2>2, <2>4, <2>5, <2>6, HeldRows
<1> QED
  <2>1. \/ UNCHANGED <<preview, batch, items>>
        \/ LET S == request[wjob].binding.selected IN
           /\ bitem' = [bitem EXCEPT ![wjob] =
                 [i \in Items |-> IF i \in S THEN "planned" ELSE "none"]]
           /\ opItem' = [opItem EXCEPT ![wjob] =
                 [i \in Items |-> IF i \in S THEN "pending" ELSE "none"]]
    BY Zenon DEF Revalidate
  <2> QED BY <1>5, <1>6, <2>1

LEMMA PreparePromised ==
  ASSUME IInv, OpInv, Preflight \/ Layout \/ Uac \/ Materialize \/ Terminalize
  PROVE  Promised /\ OpInv'
<1>1. pc \in ActPcs /\ UNCHANGED held /\ UNCHANGED <<entry, present>>
  BY PcSets
     DEF Preflight, Layout, Uac, Materialize, Terminalize, held, ActPcs, WorkerPcs, OpeningPcs
<1>2. PICK w \in Jobs : w = wjob
  BY <1>1, AtWork
<1>3. \/ UNCHANGED <<bitem, opItem>>
      \/ \E S \in SUBSET Undisposed(w) : Block(w, S)
  <2>1. CASE Preflight
    BY <1>2, <2>1 DEF Preflight, items
  <2>2. CASE Layout
    BY <2>2 DEF Layout, items
  <2>3. CASE Uac
    BY <2>3 DEF Uac, items
  <2>4. CASE Terminalize
    BY <1>2, <2>4 DEF Terminalize, items
  <2>5. CASE Materialize
    <3>1. \/ UNCHANGED <<bitem, opItem>>
          \/ \E k \in FirstOf(NotGiven(wjob)) : Block(wjob, {k})
      BY <2>5 DEF Materialize
    <3>2. FirstOf(NotGiven(w)) \subseteq Undisposed(w)
      BY DEF FirstOf, NotGiven, Undisposed
    <3> QED BY <1>2, <3>1, <3>2
  <2> QED BY <2>1, <2>2, <2>3, <2>4, <2>5
<1>4. CASE UNCHANGED <<bitem, opItem>>
  BY <1>1, <1>4, StillPromised
<1>5. CASE \E S \in SUBSET Undisposed(w) : Block(w, S)
  BY <1>1, <1>5, BlockPromised
<1> QED BY <1>3, <1>4, <1>5

LEMMA CommitPromised ==
  ASSUME IInv, OpInv, Commit \/ Promote \/ Rename \/ Link
  PROVE  Promised /\ OpInv'
<1>1. pc \in CommitPcs /\ UNCHANGED held /\ UNCHANGED <<entry, present>>
  BY DEF Commit, Promote, Rename, Link, held, CommitPcs
<1>2. /\ pc \in ActPcs /\ cur \in Items /\ cur \in Undisposed(wjob)
      /\ bitem[wjob][cur] = "planned" /\ wjob \in Jobs
  BY <1>1, AtCommit, AtWork
<1>3. PICK w \in Jobs : w = wjob
  BY <1>2
<1>4. PICK c \in Items : c = cur
  BY <1>2
<1>5. RowTypes /\ OpTypes /\ ItemsInv
  BY <1>2, AtWork DEF RowsInv
<1>6. \/ UNCHANGED <<bitem, opItem>>
      \/ Block(w, {c})
      \/ \E a \in {"interrupted", "ready"} : bitem' = Put(bitem, a) /\ opItem' = opItem
  <2>1. CASE Commit
    BY <1>3, <1>4, <2>1 DEF Commit, items
  <2>2. CASE Promote
    BY <1>3, <1>4, <2>2 DEF Promote, items
  <2>3. CASE Rename
    BY <1>3, <1>4, <2>3 DEF Rename, items
  <2>4. CASE Link
    BY <1>3, <1>4, <2>4 DEF Link
  <2> QED BY <2>1, <2>2, <2>3, <2>4
<1>7. CASE UNCHANGED <<bitem, opItem>>
  BY <1>1, <1>7, StillPromised
<1>8. CASE Block(w, {c})
  <2>1. {c} \in SUBSET Undisposed(w)
    BY <1>2, <1>3, <1>4
  <2> QED BY <1>1, <1>8, <2>1, BlockPromised
<1>9. CASE \E a \in {"interrupted", "ready"} : bitem' = Put(bitem, a) /\ opItem' = opItem
  <2>1. PICK a \in {"interrupted", "ready"} :
          bitem' = [bitem EXCEPT ![w][c] = a] /\ opItem' = opItem
    BY <1>3, <1>4, <1>9 DEF Put
  <2>2. \A j \in Jobs, i \in Items : ~(j = w /\ i \in {c}) =>
          bitem'[j][i] = bitem[j][i] /\ opItem'[j][i] = opItem[j][i]
    BY <1>5, <2>1 DEF RowTypes
  <2>3. bitem'[w][c] = a
    BY <1>5, <2>1 DEF RowTypes
  <2>4. bitem[w][c] = "planned"
    BY <1>2, <1>3, <1>4
  <2>5. entry[c] = "quarantined"
    BY <1>5, <2>4 DEF ItemsInv, ItemOK
  <2>6. opItem'[w][c] # "rolled_back"
    BY <2>1, <2>4 DEF OpInv
  <2>7. \A i \in Items : i \in {c} =>
             /\ entry[i] # "deleting" /\ bitem[w][i] \notin {"deleted", "blocked"}
             /\ bitem'[w][i] # "deleted" /\ opItem'[w][i] # "rolled_back"
    BY <2>1, <2>3, <2>4, <2>5, <2>6
  <2> QED BY <1>1, <2>2, <2>7, HeldRows
<1> QED BY <1>6, <1>7, <1>8, <1>9

LEMMA ClaimItemPromised ==
  ASSUME IInv, OpInv, ClaimItem
  PROVE  Promised /\ OpInv'
<1>1. pc = "claim" /\ UNCHANGED present
  BY DEF ClaimItem
<1>2. pc \in RemovePcs /\ pc \in ActPcs
  BY <1>1, PcSets DEF RemovePcs
<1>3. PICK w \in Jobs : w = wjob
  BY <1>2, AtWork
<1>4. PICK c \in Items : c = cur
  BY <1>2, AtRemove
<1>5. RowTypes /\ ObjectTypes /\ OpTypes /\ ItemsInv /\ ArchiveInv /\ WorkerInv
  BY <1>2, AtWork DEF RowsInv
<1>6. bitem[w][c] = "ready"
  BY <1>1, <1>3, <1>4, <1>5 DEF WorkerInv, CurrentInv
<1>7. c \in Unsettled(w) /\ {c} \in SUBSET Undisposed(w)
  BY <1>6 DEF Unsettled, Undisposed
<1>8. entry[c] = "quarantined" /\ present[c]
  <2>1. entry[c] = "quarantined"
    BY <1>5, <1>6 DEF ItemsInv, ItemOK
  <2> QED BY <1>5, <2>1 DEF ArchiveInv
<1>9. CASE /\ entry' = [entry EXCEPT ![cur] = "deleting"]
           /\ bitem' = Put(bitem, "deleting") /\ opItem' = Put(opItem, "deleting")
  <2>1. /\ bitem'[w][c] = "deleting" /\ opItem'[w][c] = "deleting"
        /\ \A j \in Jobs, i \in Items : ~(j = w /\ i = c) =>
             bitem'[j][i] = bitem[j][i] /\ opItem'[j][i] = opItem[j][i]
    BY <1>3, <1>4, <1>5, <1>9, PutRows
  <2>2. entry'[c] = "deleting" /\ \A i \in Items : i # c => entry'[i] = entry[i]
    BY <1>4, <1>5, <1>9 DEF ObjectTypes
  <2>3. OpInv'
    BY <2>1 DEF OpInv
  <2>4. ClaimOf(w, c) = "held"
    BY <1>6 DEF ClaimOf, OpInv
  <2>5. ClaimOf(w, c)' = "deleting"
    BY <2>1, <2>2 DEF ClaimOf
  <2>6. present'[c] /\ present'[c] \in BOOLEAN
    BY <1>1, <1>5, <1>8 DEF ObjectTypes
  <2>7. Turns(w, c)
    BY <1>8, <2>4, <2>5, <2>6 DEF Turns
  <2>8. \A i \in Items : i # c => entry'[i] = entry[i] /\ present'[i] = present[i]
    BY <1>1, <2>2
  <2>9. Promised
    BY <1>7, <1>8, <2>1, <2>3, <2>6, <2>7, <2>8, TurnPromised
  <2> QED BY <2>3, <2>9
<1>10. CASE UNCHANGED <<entry, bitem, opItem>>
  BY <1>1, <1>10, SameClaims
<1>11. CASE Block(wjob, {cur}) /\ UNCHANGED entry
  <2>1. Block(w, {c})
    BY <1>3, <1>4, <1>11
  <2> QED BY <1>1, <1>7, <1>11, <2>1, BlockPromised
<1> QED BY <1>9, <1>10, <1>11 DEF ClaimItem, items

LEMMA DisposePromised ==
  ASSUME IInv, OpInv, Dispose
  PROVE  Promised /\ OpInv'
<1>1. pc = "dispose" /\ UNCHANGED entry
  BY DEF Dispose
<1>2. pc \in RemovePcs /\ pc \in ActPcs
  BY <1>1, PcSets DEF RemovePcs
<1>3. PICK w \in Jobs : w = wjob
  BY <1>2, AtWork
<1>4. PICK c \in Items : c = cur
  BY <1>2, AtRemove
<1>5. RowTypes /\ ObjectTypes /\ OpTypes /\ ItemsInv /\ WorkerInv
  BY <1>2, AtWork DEF RowsInv
<1>6. bitem[w][c] = "deleting"
  BY <1>1, <1>3, <1>4, <1>5 DEF WorkerInv, CurrentInv
<1>7. c \in Unsettled(w)
  BY <1>6 DEF Unsettled
<1>8. entry[c] = "deleting"
  BY <1>5, <1>6 DEF ItemsInv, ItemOK
<1>9. CASE present' = [present EXCEPT ![cur] = FALSE] /\ UNCHANGED <<bitem, opItem>>
  <2>1. OpInv'
    BY <1>9 DEF OpInv
  <2>2. ClaimOf(w, c) = "deleting"
    BY <1>6, <1>8 DEF ClaimOf, OpInv
  <2>3. ClaimOf(w, c)' = "deleting"
    <3>1. ClaimOf(w, c)' = ClaimOf(w, c)
      BY <1>1, <1>9 DEF ClaimOf
    <3> QED BY <2>2, <3>1
  <2>4. present'[c] = FALSE /\ \A i \in Items : i # c => present'[i] = present[i]
    BY <1>4, <1>5, <1>9 DEF ObjectTypes
  <2>5. Turns(w, c)
    BY <2>2, <2>3, <2>4 DEF Turns
  <2>6. \A j \in Jobs, i \in Items : ~(j = w /\ i = c) =>
             bitem'[j][i] = bitem[j][i] /\ opItem'[j][i] = opItem[j][i]
    BY <1>9
  <2>7. \A i \in Items : i # c => entry'[i] = entry[i] /\ present'[i] = present[i]
    BY <1>1, <2>4
  <2>8. Promised
    BY <1>7, <1>8, <2>1, <2>4, <2>5, <2>6, <2>7, TurnPromised
  <2> QED BY <2>1, <2>8
<1>10. CASE /\ bitem' = Put(bitem, "interrupted") /\ opItem' = Put(opItem, "failed")
            /\ UNCHANGED present
  <2>1. /\ bitem'[w][c] = "interrupted" /\ opItem'[w][c] = "failed"
        /\ \A j \in Jobs, i \in Items : ~(j = w /\ i = c) =>
             bitem'[j][i] = bitem[j][i] /\ opItem'[j][i] = opItem[j][i]
    BY <1>3, <1>4, <1>5, <1>10, PutRows
  <2> QED BY <1>1, <1>6, <1>10, <2>1, ClaimStays
<1> QED BY <1>9, <1>10 DEF Dispose

\* A claim of an object that is gone is confirmed.
LEMMA ConfirmPromised ==
  ASSUME IInv, OpInv, NEW w \in Jobs, w = wjob, NEW c \in Items, c = cur,
         bitem[w][c] \in {"deleting", "interrupted"}, entry[c] = "deleting", ~present[c],
         UNCHANGED present, entry' = [entry EXCEPT ![cur] = "permanently_deleted"],
         bitem' = Put(bitem, "deleted"), opItem' = Put(opItem, "done")
  PROVE  Promised /\ OpInv'
<1>1. RowTypes /\ ObjectTypes /\ OpTypes
  BY TypeGroups DEF IInv
<1>2. /\ bitem'[w][c] = "deleted" /\ opItem'[w][c] = "done"
      /\ \A j \in Jobs, i \in Items : ~(j = w /\ i = c) =>
           bitem'[j][i] = bitem[j][i] /\ opItem'[j][i] = opItem[j][i]
  BY <1>1, PutRows
<1>3. \A i \in Items : i # c => entry'[i] = entry[i] /\ present'[i] = present[i]
  BY <1>1 DEF ObjectTypes
<1>4. OpInv'
  BY <1>2 DEF OpInv
<1>5. ClaimOf(w, c) = "deleting"
  BY DEF ClaimOf, OpInv
<1>6. ClaimOf(w, c)' = "deleted"
  BY <1>2 DEF ClaimOf
<1>7. Turns(w, c) /\ c \in Unsettled(w) /\ present'[c] \in BOOLEAN
  BY <1>1, <1>5, <1>6 DEF Turns, Unsettled, ObjectTypes
<1>8. Promised
  BY <1>2, <1>3, <1>4, <1>7, TurnPromised
<1> QED BY <1>4, <1>8

LEMMA RecordPromised ==
  ASSUME IInv, OpInv, Record
  PROVE  Promised /\ OpInv'
<1>1. pc = "record" /\ UNCHANGED present
  BY DEF Record
<1>2. pc \in RemovePcs /\ pc \in ActPcs
  BY <1>1, PcSets DEF RemovePcs
<1>3. PICK w \in Jobs : w = wjob
  BY <1>2, AtWork
<1>4. PICK c \in Items : c = cur
  BY <1>2, AtRemove
<1>5. RowTypes /\ ObjectTypes /\ OpTypes /\ ItemsInv /\ WorkerInv
  BY <1>2, AtWork DEF RowsInv
<1>6. bitem[w][c] = "deleting" /\ ~present[c]
  BY <1>1, <1>3, <1>4, <1>5 DEF WorkerInv, CurrentInv
<1>7. entry[c] = "deleting"
  BY <1>5, <1>6 DEF ItemsInv, ItemOK
<1>8. CASE /\ entry' = [entry EXCEPT ![cur] = "permanently_deleted"]
           /\ bitem' = Put(bitem, "deleted") /\ opItem' = Put(opItem, "done")
  BY <1>1, <1>3, <1>4, <1>6, <1>7, <1>8, ConfirmPromised
<1>9. CASE /\ bitem' = Put(bitem, "interrupted") /\ opItem' = Put(opItem, "failed")
           /\ UNCHANGED entry
  <2>1. /\ bitem'[w][c] = "interrupted" /\ opItem'[w][c] = "failed"
        /\ \A j \in Jobs, i \in Items : ~(j = w /\ i = c) =>
             bitem'[j][i] = bitem[j][i] /\ opItem'[j][i] = opItem[j][i]
    BY <1>3, <1>4, <1>5, <1>9, PutRows
  <2> QED BY <1>1, <1>6, <1>9, <2>1, ClaimStays
<1>10. CASE UNCHANGED <<bitem, opItem, entry>>
  BY <1>1, <1>10, SameClaims
<1> QED BY <1>8, <1>9, <1>10 DEF Record

LEMMA RecoverBlockPromised ==
  ASSUME IInv, OpInv, RecoverBlock
  PROVE  Promised /\ OpInv'
<1>1. /\ pc = "recover_block" \/ (pc = "recover" /\ Recoverable /\ Closable(wjob, cur))
      /\ UNCHANGED held /\ UNCHANGED <<entry, present>>
  BY DEF RecoverBlock, BlockRecovered, AtItem, held
<1>2. pc \in RecoverPcs /\ pc # "recover_finish"
  BY <1>1 DEF RecoverPcs
<1>3. PICK w \in Jobs : w = wjob
  BY <1>2, AtRecovery
<1>4. PICK c \in Items : c = cur
  BY <1>2, AtRecovery
<1>5. RowTypes /\ OpTypes /\ RowsInv /\ WorkerInv /\ ItemsInv
  BY <1>2, AtRecovery DEF RowsInv
<1>6. entry[c] = "quarantined" /\ bitem[w][c] \in {"planned", "ready", "interrupted"}
  <2>1. CASE pc = "recover_block"
    BY <1>3, <1>4, <1>5, <2>1 DEF WorkerInv, RecoverInv
  <2>2. CASE Recoverable /\ Closable(wjob, cur)
    <3>1. /\ entry[c] = "quarantined" /\ ~Unrecoverable(w, c)
          /\ bitem[w][c] \in {"planned", "ready"} \/ PromotionPending(w, c)
      BY <1>3, <1>4, <2>2 DEF Recoverable, Closable
    <3>2. PromotionPending(w, c) => phase[w][c] # "archive_recovery_closed"
      BY <3>1 DEF Unrecoverable, PromotionPending, RecoverablePhases
    <3>3. PromotionPending(w, c) => bitem[w][c] \in {"planned", "interrupted"}
      BY <1>5, <3>2 DEF ItemsInv, ItemOK, PromotionPending
    <3> QED BY <3>1, <3>3
  <2> QED BY <1>1, <2>1, <2>2
<1>7. CASE UNCHANGED <<bitem, opItem>>
  BY <1>1, <1>7, StillPromised
<1>8. CASE bitem' = Put(bitem, "blocked") /\ opItem' = Put(opItem, "skipped")
  <2>1. /\ bitem'[w][c] = "blocked" /\ opItem'[w][c] = "skipped"
        /\ \A j \in Jobs, i \in Items : ~(j = w /\ i = c) =>
             bitem'[j][i] = bitem[j][i] /\ opItem'[j][i] = opItem[j][i]
    BY <1>3, <1>4, <1>5, <1>8, PutRows
  <2>2. \A j \in Jobs, i \in Items : ~(j = w /\ i \in {c}) =>
          bitem'[j][i] = bitem[j][i] /\ opItem'[j][i] = opItem[j][i]
    BY <2>1
  <2>3. \A i \in Items : i \in {c} =>
             /\ entry[i] # "deleting" /\ bitem[w][i] \notin {"deleted", "blocked"}
             /\ bitem'[w][i] # "deleted" /\ opItem'[w][i] # "rolled_back"
    BY <1>6, <2>1
  <2> QED BY <1>1, <2>2, <2>3, HeldRows
<1> QED BY <1>7, <1>8 DEF RecoverBlock, BlockRecovered

LEMMA RecoverClaimPromised ==
  ASSUME IInv, OpInv, RecoverClaim
  PROVE  Promised /\ OpInv'
<1>1. pc = "recover" /\ pc \in RecoverPcs /\ UNCHANGED present
  BY DEF RecoverClaim, RecoverClaimAs, AtItem, RecoverPcs
<1>2. PICK w \in Jobs : w = wjob
  BY <1>1, AtRecovery
<1>3. PICK c \in Items : c = cur
  BY <1>1, AtRecovery
<1>4. RowTypes /\ ObjectTypes /\ OpTypes
  BY <1>1, AtRecovery
<1>5. bitem[w][c] \in {"deleting", "interrupted"} /\ entry[c] = "deleting"
  BY <1>2, <1>3 DEF RecoverClaim, RecoverClaimAs
<1>6. c \in Unsettled(w)
  BY <1>5 DEF Unsettled
<1>7. CASE /\ present[cur] /\ entry' = [entry EXCEPT ![cur] = "quarantined"]
           /\ bitem' = Put(bitem, "blocked") /\ opItem' = Put(opItem, "rolled_back")
  <2>1. /\ bitem'[w][c] = "blocked" /\ opItem'[w][c] = "rolled_back"
        /\ \A j \in Jobs, i \in Items : ~(j = w /\ i = c) =>
             bitem'[j][i] = bitem[j][i] /\ opItem'[j][i] = opItem[j][i]
    BY <1>2, <1>3, <1>4, <1>7, PutRows
  <2>2. \A i \in Items : i # c => entry'[i] = entry[i] /\ present'[i] = present[i]
    BY <1>1, <1>3, <1>4, <1>7 DEF ObjectTypes
  <2>3. OpInv'
    BY <2>1 DEF OpInv
  <2>4. ClaimOf(w, c) = "deleting"
    BY <1>5 DEF ClaimOf, OpInv
  <2>5. ClaimOf(w, c)' = "returned"
    BY <2>1 DEF ClaimOf
  <2>6. present[c] /\ present'[c] /\ present'[c] \in BOOLEAN
    BY <1>1, <1>3, <1>4, <1>7 DEF ObjectTypes
  <2>7. Turns(w, c)
    BY <2>4, <2>5, <2>6 DEF Turns
  <2>8. Promised
    BY <1>5, <1>6, <2>1, <2>2, <2>3, <2>6, <2>7, TurnPromised
  <2> QED BY <2>3, <2>8
<1>8. CASE /\ ~present[cur] /\ entry' = [entry EXCEPT ![cur] = "permanently_deleted"]
           /\ bitem' = Put(bitem, "deleted") /\ opItem' = Put(opItem, "done")
  BY <1>1, <1>2, <1>3, <1>5, <1>8, ConfirmPromised
<1>9. CASE UNCHANGED <<entry, bitem, opItem>>
  BY <1>1, <1>9, SameClaims
<1> QED BY <1>7, <1>8, <1>9 DEF RecoverClaim, RecoverClaimAs

LEMMA RestorePromised ==
  ASSUME IInv, OpInv, NEW o \in Items, NEW id \in 1..MaxIssued, RestoreEntry(o, id)
  PROVE  Promised /\ OpInv'
<1>1. UNCHANGED <<bitem, opItem, present>>
  BY DEF RestoreEntry, items
<1>2. ObjectTypes
  BY TypeGroups DEF IInv
<1>3. \A i \in Items : entry'[i] = "deleting" <=> entry[i] = "deleting"
  BY <1>2 DEF RestoreEntry, ObjectTypes
<1> QED BY <1>1, <1>3, SameClaims

\* Every step takes the removal of every object by every batch one step of
\* DispositionPromise further, or none.
LEMMA NextPromised ==
  ASSUME IInv, OpInv, [Next]_vars
  PROVE  Promised /\ OpInv'
<1>1. CASE Advance \/ DisablePersisted \/ Start \/ RecoverStart \/ Restart \/ UNCHANGED vars
  <2>1. UNCHANGED held /\ UNCHANGED <<bitem, opItem>>
    BY <1>1 DEF Advance, DisablePersisted, DisableWhen, Start, BeginWorker, EnterGate,
                RecoverStart, Restart, vars, items
  <2> QED BY <2>1, StillPromised
<1>2. CASE Owner
  <2>1. CASE \E o \in Items, id \in 1..MaxIssued : RestoreEntry(o, id)
    BY <2>1, RestorePromised
  <2>2. CASE ~(\E o \in Items, id \in 1..MaxIssued : RestoreEntry(o, id))
    <3>1. UNCHANGED held /\ UNCHANGED <<bitem, opItem>>
      BY <1>2, <2>2 DEF Owner, BuildPreview, Confirm, IssueEnter, StartJob, StopJob,
                        Disable, Enable, items
    <3> QED BY <3>1, StillPromised
  <2> QED BY <2>1, <2>2
<1>3. CASE Work
  <2>1. CASE ConsumeGrant \/ Boundary \/ NextChunk \/ Finalize
    <3>1. UNCHANGED held /\ UNCHANGED <<bitem, opItem>>
      BY <2>1 DEF ConsumeGrant, Boundary, NextChunk, Finalize, FinalizeAs, items
    <3> QED BY <3>1, StillPromised
  <2> QED BY <1>3, <2>1, RevalidatePromised, PreparePromised, CommitPromised,
             ClaimItemPromised, DisposePromised, RecordPromised DEF Work
<1>4. CASE Recover
  <2>1. CASE \/ RecoverPass \/ RecoverUnsure \/ RecoverPartial \/ RecoverClean
             \/ RecoverPromoted \/ RecoverFinish
    <3>1. UNCHANGED held /\ UNCHANGED <<bitem, opItem>>
      BY <2>1 DEF RecoverPass, RecoverUnsure, RecoverPartial, RecoverClean,
                  RecoverPromoted, RecoverFinish, items
    <3> QED BY <3>1, StillPromised
  <2> QED BY <1>4, <2>1, RecoverBlockPromised, RecoverClaimPromised DEF Recover
<1> QED BY <1>1, <1>2, <1>3, <1>4 DEF Next

LEMMA InitPromised ==
  ASSUME Init
  PROVE  OpInv /\ \A j \in Jobs, i \in Items : Removal(j, i)!Init
<1>1. /\ \A j \in Jobs, i \in Items : bitem[j][i] = "none" /\ opItem[j][i] = "none"
      /\ \A i \in Items : present[i] = TRUE
  BY DEF Init, Each, EachJob
<1>2. OpInv
  BY <1>1 DEF OpInv
<1>3. ASSUME NEW j \in Jobs, NEW i \in Items
      PROVE  ClaimOf(j, i) = "held" /\ ThereFor(j, i) = TRUE
  BY <1>1, <1>3 DEF ClaimOf, ThereFor
<1>4. ASSUME NEW j \in Jobs, NEW i \in Items PROVE Removal(j, i)!Init
  BY <1>3, <1>4 DEF Removal!Init
<1> QED BY <1>2, <1>4

\* Permanent removal implements DispositionPromise for every object and every
\* batch that selects it, whatever stops, fails or crashes and however often
\* recovery looks at it.
THEOREM Implementation == Spec => ImplementsPromise
<1>1. Init => OpInv /\ \A j \in Jobs, i \in Items : Removal(j, i)!Init
  BY InitPromised
<1>2. IInv /\ OpInv /\ [Next]_vars => OpInv'
  BY NextPromised
<1>3. IInv /\ OpInv /\ [Next]_vars =>
        [\A j \in Jobs, i \in Items :
           [Removal(j, i)!Next]_<<ClaimOf(j, i), ThereFor(j, i)>>]_vars
  BY NextPromised DEF Promised
<1>4. Spec => [][\A j \in Jobs, i \in Items :
           [Removal(j, i)!Next]_<<ClaimOf(j, i), ThereFor(j, i)>>]_vars
  BY <1>1, <1>2, <1>3, Invariance, PTL DEF Spec
<1>5. Spec => \A j \in Jobs, i \in Items : Removal(j, i)!Init
  BY <1>1 DEF Spec
<1> QED BY <1>4, <1>5, PTL DEF ImplementsPromise

\* The removal of one object by one batch is a behaviour of DispositionPromise.
THEOREM EachRemoval ==
  ASSUME NEW w \in Jobs, NEW c \in Items
  PROVE  Spec => Removal(w, c)!Spec
<1>1. UNCHANGED vars => UNCHANGED <<ClaimOf(w, c), ThereFor(w, c)>>
  BY DEF vars, ClaimOf, ThereFor, held, items
<1>2. (\A j \in Jobs, i \in Items : Removal(j, i)!Init) => Removal(w, c)!Init
  OBVIOUS
<1>3. [\A j \in Jobs, i \in Items :
         [Removal(j, i)!Next]_<<ClaimOf(j, i), ThereFor(j, i)>>]_vars =>
      [Removal(w, c)!Next]_<<[x \in {c} |-> ClaimOf(w, x)], [x \in {c} |-> ThereFor(w, x)]>>
  BY <1>1
<1>4. ImplementsPromise => Removal(w, c)!Spec
  BY <1>2, <1>3, PTL DEF ImplementsPromise, Removal!Spec
<1> QED BY <1>4, Implementation, PTL

=============================================================================
