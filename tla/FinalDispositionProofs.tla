----------------------- MODULE FinalDispositionProofs ------------------------
(***************************************************************************)
(* Theorems of FinalDisposition, for a group of any size and every bound   *)
(* on failed calls, crashes and killed guardians.                          *)
(*                                                                         *)
(* IInv is the inductive invariant.  The properties themselves are not     *)
(* inductive: the parent closes its handle believing what the guardian     *)
(* answered, so the invariant says at each pc what the channel may carry   *)
(* and where the guardian then is (ArmingInv, ProvingInv, ClosingInv); and *)
(* the members ahead of and behind the current one must be known to be     *)
(* done or untouched (CurrentInv, AheadInv, BehindInv, CancelledInv).      *)
(***************************************************************************)
EXTENDS FinalDisposition, TLAPS

\* A member is disposed of, its disposition is taken back.
ForwardPcs == {"journal_arm", "send_arm", "await_arm", "arm", "journal_armed",
               "validate", "send_prove", "await_prove", "journal_proved",
               "journal_close", "send_close", "await_close", "journal_ack",
               "close", "mark_parent", "outcome_unknown", "success", "cleanup"}
CancelPcs == {"cancel", "send_cancel", "await_cancel", "journal_cancel", "drop",
              "cancel_cleanup", "record_failure"}
MemberPcs == ForwardPcs \cup CancelPcs \cup {"journal_cleanup"}
\* The parent has not let go of the member's handle yet.
BoundPcs == (ForwardPcs \cup CancelPcs) \
              {"mark_parent", "outcome_unknown", "success", "cleanup",
               "cancel_cleanup", "record_failure"}

\* Handles keep an object, and only they keep an armed one.
HandleInv ==
  \A i \in Items : /\ Held(i) => present[i]
                   /\ armed[i] /\ present[i] => Held(i)

\* The rows of a member agree with each other and with the disk.
RowInv ==
  \A i \in Items : /\ item[i] = "deleted" <=> entry[i] = "permanently_deleted"
                   /\ item[i] \in {"deleting", "interrupted"} <=> entry[i] = "deleting"
                   /\ entry[i] = "quarantined" => present[i] /\ ~armed[i]
                   /\ entry[i] = "permanently_deleted" => ~present[i]

\* What a guardian owes to the object it was bound to.
GuardInv ==
  \A i \in Items :
    /\ armed[i] /\ entry[i] = "deleting" =>
         gphase[i] \in Holding \cup {"killed"} \/ receipt[i] = "flushed"
    /\ ~present[i] /\ entry[i] = "deleting" =>
         gphase[i] = "killed" \/ receipt[i] = "flushed"
    /\ gphase[i] = "closing" => receipt[i] = "flushed"
    /\ gphase[i] \in {"none", "bound"} => ~armed[i]
    /\ reply[i] = "cancelled" => ~armed[i]

Quiet(i) == cmd[i] = <<>> /\ reply[i] = "none"
Fresh(i) == Quiet(i) /\ ~gexcl[i] /\ gphase[i] \in {"bound", "dead", "killed"}

StartInv ==
  /\ pc \in WorkerPcs => ~gone
  /\ pc \in {"launch", "claim"} =>
       /\ cur = 0 /\ ~csafe /\ ~pcancelled
       /\ \A i \in Items : /\ entry[i] = "quarantined" /\ gstate[i] = "none"
                           /\ phold[i] /\ Quiet(i) /\ ~gexcl[i]
  /\ pc = "launch" => \A i \in Items : gphase[i] = "none"
  /\ pc = "claim" => \A i \in Items : gphase[i] \in {"bound", "dead", "killed"}

\* Members go one after the other: the current one, those ahead, those behind.
CurrentInv ==
  /\ pc \in MemberPcs => cur \in Items
  /\ pc \in (ForwardPcs \cup CancelPcs) \ {"cleanup"} => entry[cur] = "deleting"
  /\ pc = "cleanup" => entry[cur] = "permanently_deleted"
  /\ pc \in BoundPcs => phold[cur]

AheadInv ==
  pc \in MemberPcs => \A i \in Items : i < cur => entry[i] = "permanently_deleted"

BehindInv ==
  pc \in MemberPcs =>
    \A i \in Items : cur < i => entry[i] = "deleting" /\ phold[i] /\ Fresh(i)

CancelledInv ==
  /\ pc \in MemberPcs /\ (csafe \/ pcancelled) =>
       entry[cur] = "deleting" /\ ~armed[cur]
  /\ pc \in ForwardPcs => ~csafe /\ ~pcancelled
  /\ pc = "cancel_cleanup" => csafe /\ present[cur]

\* What the channel carries, and what an answer says of the guardian: before
\* the parent arms, while the guardian proves what it holds, at the close.
ArmingInv ==
  /\ pc \in {"journal_arm", "send_arm"} => Fresh(cur)
  /\ pc = "await_arm" =>
       /\ ~gexcl[cur] /\ cmd[cur] \in {<<>>, <<"arm">>}
       /\ reply[cur] \in {"none", "ready"}
       /\ reply[cur] = "ready" =>
            /\ cmd[cur] = <<>>
            /\ gphase[cur] \in {"arm_authorized", "retaining", "killed"}
       /\ gphase[cur] # "closing"
  /\ pc = "arm" =>
       /\ Quiet(cur) /\ ~gexcl[cur]
       /\ gphase[cur] \in {"arm_authorized", "retaining", "killed"}

ProvingInv ==
  /\ pc \in {"journal_armed", "validate", "send_prove", "journal_proved",
             "journal_close", "send_close"} =>
       Quiet(cur) /\ gphase[cur] # "closing"
  /\ pc = "await_prove" =>
       /\ gphase[cur] # "closing" /\ cmd[cur] \in {<<>>, <<"prove">>}
       /\ reply[cur] # "none" => cmd[cur] = <<>>

ClosingInv ==
  /\ pc = "await_close" =>
       /\ cmd[cur] \in {<<>>, <<"close">>}
       /\ cmd[cur] # <<>> => reply[cur] = "none" /\ gphase[cur] # "closing"
       /\ gphase[cur] = "closing" => armed[cur] /\ reply[cur] = "none"
       /\ reply[cur] = "closed" =>
            armed[cur] /\ gphase[cur] = "dead" /\ receipt[cur] = "flushed"
  /\ pc \in {"journal_ack", "close"} =>
       armed[cur] /\ gphase[cur] = "dead" /\ receipt[cur] = "flushed"
  /\ pc \in {"mark_parent", "success", "outcome_unknown"} =>
       ~present[cur] /\ receipt[cur] = "flushed"

RecoverInv ==
  /\ pc \in {"recover", "recover_cleanup", "recover_settled"} => cur \in Items
  /\ pc \in {"recover_cleanup", "recover_settled"} => entry[cur] # "deleting"

BatchInv ==
  batch \in {"completed", "partial", "failed"} =>
    /\ pc \notin WorkerPcs
    /\ \A i \in Items : item[i] \in {"deleted", "blocked"}
    /\ batch = "completed" => \A i \in Items : item[i] = "deleted"
    /\ batch = "failed" => \A i \in Items : item[i] # "deleted"

IInv == /\ TypeOK /\ HandleInv /\ RowInv /\ GuardInv /\ StartInv
        /\ CurrentInv /\ AheadInv /\ BehindInv /\ CancelledInv
        /\ ArmingInv /\ ProvingInv /\ ClosingInv
        /\ RecoverInv /\ BatchInv /\ OneAfterAnother

-----------------------------------------------------------------------------
\* What the other parts need of TypeOK: the variables that are functions.
Shape ==
  /\ entry = [i \in Items |-> entry[i]]
  /\ item = [i \in Items |-> item[i]]
  /\ opItem = [i \in Items |-> opItem[i]]
  /\ reason = [i \in Items |-> reason[i]]
  /\ gstate = [i \in Items |-> gstate[i]]
  /\ cleaned = [i \in Items |-> cleaned[i]]
  /\ present \in [Items -> BOOLEAN]
  /\ armed = [i \in Items |-> armed[i]]
  /\ archived = [i \in Items |-> archived[i]]
  /\ receipt = [i \in Items |-> receipt[i]]
  /\ gphase = [i \in Items |-> gphase[i]]
  /\ gexcl = [i \in Items |-> gexcl[i]]
  /\ pipe = [i \in Items |-> pipe[i]]
  /\ cmd = [i \in Items |-> cmd[i]]
  /\ reply = [i \in Items |-> reply[i]]
  /\ phold = [i \in Items |-> phold[i]]
  /\ cur \in 0..NItems + 1

LEMMA Shapes == ASSUME TypeOK PROVE Shape
<1> USE DEF TypeOK
<1>1. entry = [i \in Items |-> entry[i]]
  OBVIOUS
<1>2. item = [i \in Items |-> item[i]]
  OBVIOUS
<1>3. opItem = [i \in Items |-> opItem[i]]
  OBVIOUS
<1>4. reason = [i \in Items |-> reason[i]]
  OBVIOUS
<1>5. gstate = [i \in Items |-> gstate[i]]
  OBVIOUS
<1>6. cleaned = [i \in Items |-> cleaned[i]]
  OBVIOUS
<1>7. present \in [Items -> BOOLEAN]
  OBVIOUS
<1>8. armed = [i \in Items |-> armed[i]]
  OBVIOUS
<1>9. archived = [i \in Items |-> archived[i]]
  OBVIOUS
<1>10. receipt = [i \in Items |-> receipt[i]]
  OBVIOUS
<1>11. gphase = [i \in Items |-> gphase[i]]
  OBVIOUS
<1>12. gexcl = [i \in Items |-> gexcl[i]]
  OBVIOUS
<1>13. pipe = [i \in Items |-> pipe[i]]
  OBVIOUS
<1>14. cmd = [i \in Items |-> cmd[i]]
  OBVIOUS
<1>15. reply = [i \in Items |-> reply[i]]
  OBVIOUS
<1>16. phold = [i \in Items |-> phold[i]]
  OBVIOUS
<1> QED
  BY <1>1, <1>2, <1>3, <1>4, <1>5, <1>6, <1>7, <1>8, <1>9, <1>10, <1>11, <1>12,
     <1>13, <1>14, <1>15, <1>16 DEF Shape

\* A frame is not an empty channel, and two of them differ by their commands.
LEMMA Frames ==
  ASSUME NEW c, NEW d
  PROVE  <<c>> # <<>> /\ (<<c>> = <<d>> => c = d) /\ Append(<<>>, c) = <<c>>
  OBVIOUS

-----------------------------------------------------------------------------
(* Every step preserves every part: the worker's steps in their order, the *)
(* guardian's, the end of the process, recovery.                           *)

LEMMA LaunchInv ==
  ASSUME IInv, LaunchGuardians
  PROVE  IInv'
<1> USE DispositionAssumption DEF IInv, Goto, Fault, NoFault, rows, disk,
        guardian, channel, locals, bounds, Items, LaunchGuardians
<1>s. Shape
  BY Shapes
<1>1. TypeOK'
  <2>1. pc' \in Pcs
    BY DEF TypeOK, Pcs, WorkerPcs
  <2>2. /\ faults' \in 0..MaxFaults /\ crashes' \in 0..MaxCrashes
        /\ kills' \in 0..MaxKills
    BY DEF TypeOK
  <2>3. receipt' \in [Items -> {"none", "empty", "flushed"}]
    BY DEF TypeOK
  <2>4. gphase' \in [Items -> Phases]
    BY DEF TypeOK, Phases, Holding, Serving
  <2>5. pipe' \in [Items -> BOOLEAN]
    BY DEF TypeOK
  <2>6. phold' \in [Items -> BOOLEAN]
    <3>1. phold' = phold \/ phold' = [i \in Items |-> FALSE]
      OBVIOUS
    <3>2. phold \in [Items -> BOOLEAN]
      BY ONLY IInv DEF IInv, TypeOK
    <3> QED
      BY ONLY <3>1, <3>2
  <2> QED
    BY <2>1, <2>2, <2>3, <2>4, <2>5, <2>6 DEF TypeOK
<1>2. HandleInv'
  BY <1>s DEF HandleInv, Held, StartInv, CurrentInv, MemberPcs, ForwardPcs,
     CancelPcs, BoundPcs, Shape, Holding, Serving, RowInv
<1>3. RowInv'
  BY <1>s DEF RowInv, StartInv, CurrentInv, ClosingInv, MemberPcs, ForwardPcs,
     CancelPcs, BoundPcs, Shape
<1>4. GuardInv'
  BY <1>s DEF GuardInv, HandleInv, RowInv, Held, ArmingInv, ProvingInv,
     ClosingInv, CurrentInv, MemberPcs, ForwardPcs, CancelPcs, BoundPcs,
     Holding, Serving, Shape, Quiet, StartInv
<1>5. StartInv'
  BY <1>s DEF StartInv, WorkerPcs, Quiet, Shape, RowInv
<1>6. CurrentInv'
  BY <1>s DEF CurrentInv, MemberPcs, ForwardPcs, CancelPcs, BoundPcs, Shape
<1>7. AheadInv'
  BY <1>s DEF AheadInv, CurrentInv, MemberPcs, ForwardPcs, CancelPcs,
     BoundPcs, Shape
<1>8. BehindInv'
  BY <1>s DEF BehindInv, CurrentInv, MemberPcs, ForwardPcs, CancelPcs,
     BoundPcs, Fresh, Quiet, Shape
<1>9. CancelledInv'
  BY <1>s DEF CancelledInv, CurrentInv, MemberPcs, ForwardPcs, CancelPcs,
     BoundPcs, Shape
<1>10. ArmingInv'
  BY <1>s DEF ArmingInv, CurrentInv, MemberPcs, ForwardPcs, CancelPcs,
     BoundPcs, Fresh, Quiet, Shape
<1>11. ProvingInv'
  BY <1>s DEF ProvingInv, CurrentInv, MemberPcs, ForwardPcs, CancelPcs,
     BoundPcs, Quiet, Shape
<1>12. ClosingInv'
  BY <1>s DEF ClosingInv, CurrentInv, MemberPcs, ForwardPcs, CancelPcs,
     BoundPcs, Quiet, Shape
<1>13. RecoverInv'
  BY <1>s DEF RecoverInv, RowInv, Shape
<1>14. BatchInv'
  BY <1>s DEF BatchInv, WorkerPcs, Shape
<1>15. OneAfterAnother'
  BY <1>s DEF OneAfterAnother, StartInv, RowInv, CurrentInv, AheadInv,
     BehindInv, ArmingInv, ProvingInv, ClosingInv, MemberPcs, ForwardPcs,
     CancelPcs, BoundPcs, Shape
<1> QED
  BY <1>1, <1>2, <1>3, <1>4, <1>5, <1>6, <1>7, <1>8, <1>9, <1>10, <1>11,
     <1>12, <1>13, <1>14, <1>15

LEMMA ClaimInv ==
  ASSUME IInv, ClaimGroup
  PROVE  IInv'
<1> USE DispositionAssumption DEF IInv, Goto, Fault, NoFault, rows, disk,
        guardian, channel, locals, bounds, Items, ClaimGroup
<1>s. Shape
  BY Shapes
<1>1. TypeOK'
  <2>1. pc' \in Pcs
    BY DEF TypeOK, Pcs, WorkerPcs
  <2>2. /\ faults' \in 0..MaxFaults /\ crashes' \in 0..MaxCrashes
        /\ kills' \in 0..MaxKills
    BY DEF TypeOK
  <2>3. batch' \in BatchStates
    BY DEF TypeOK, BatchStates
  <2>4. entry' \in [Items -> {"quarantined", "deleting", "permanently_deleted"}]
    BY DEF TypeOK
  <2>5. item' \in [Items -> {"ready", "deleting", "interrupted", "deleted", "blocked"}]
    BY DEF TypeOK
  <2>6. opItem' \in [Items -> {"pending", "deleting", "done", "failed",
                           "rolled_back", "skipped"}]
    BY DEF TypeOK
  <2>7. reason' \in [Items -> {"none", "unproved", "proved"}]
    BY DEF TypeOK
  <2>8. gstate' \in [Items -> GuardianStates]
    BY DEF TypeOK, GuardianStates
  <2>9. cleaned' \in [Items -> BOOLEAN]
    <3>1. cleaned' = cleaned \/ cleaned' = [i \in Items |-> FALSE]
      OBVIOUS
    <3>2. cleaned \in [Items -> BOOLEAN]
      BY ONLY IInv DEF IInv, TypeOK
    <3> QED
      BY ONLY <3>1, <3>2
  <2>10. cur' \in 0..NItems + 1
    BY DEF TypeOK, RecoverInv
  <2> QED
    BY <2>1, <2>2, <2>3, <2>4, <2>5, <2>6, <2>7, <2>8, <2>9, <2>10 DEF TypeOK
<1>2. HandleInv'
  BY <1>s DEF HandleInv, Held, StartInv, CurrentInv, MemberPcs, ForwardPcs,
     CancelPcs, BoundPcs, Shape, Holding, Serving
<1>3. RowInv'
  BY <1>s DEF RowInv, StartInv, CurrentInv, ClosingInv, MemberPcs, ForwardPcs,
     CancelPcs, BoundPcs, Shape
<1>4. GuardInv'
  BY <1>s DEF GuardInv, HandleInv, RowInv, Held, ArmingInv, ProvingInv,
     ClosingInv, CurrentInv, MemberPcs, ForwardPcs, CancelPcs, BoundPcs,
     Holding, Serving, Shape, Quiet, StartInv
<1>5. StartInv'
  BY <1>s DEF StartInv, WorkerPcs, Quiet, Shape
<1>6. CurrentInv'
  BY <1>s DEF CurrentInv, MemberPcs, ForwardPcs, CancelPcs, BoundPcs, Shape,
     StartInv
<1>7. AheadInv'
  BY <1>s DEF AheadInv, CurrentInv, MemberPcs, ForwardPcs, CancelPcs,
     BoundPcs, Shape, StartInv
<1>8. BehindInv'
  BY <1>s DEF BehindInv, CurrentInv, MemberPcs, ForwardPcs, CancelPcs,
     BoundPcs, Fresh, Quiet, Shape, StartInv
<1>9. CancelledInv'
  BY <1>s DEF CancelledInv, CurrentInv, MemberPcs, ForwardPcs, CancelPcs,
     BoundPcs, Shape, StartInv
<1>10. ArmingInv'
  BY <1>s DEF ArmingInv, CurrentInv, MemberPcs, ForwardPcs, CancelPcs,
     BoundPcs, Fresh, Quiet, Shape, StartInv
<1>11. ProvingInv'
  BY <1>s DEF ProvingInv, CurrentInv, MemberPcs, ForwardPcs, CancelPcs,
     BoundPcs, Quiet, Shape
<1>12. ClosingInv'
  BY <1>s DEF ClosingInv, CurrentInv, MemberPcs, ForwardPcs, CancelPcs,
     BoundPcs, Quiet, Shape
<1>13. RecoverInv'
  BY <1>s DEF RecoverInv, RowInv, Shape
<1>14. BatchInv'
  BY <1>s DEF BatchInv, WorkerPcs, Shape
<1>15. OneAfterAnother'
  BY <1>s DEF OneAfterAnother, StartInv, RowInv, CurrentInv, AheadInv,
     BehindInv, ArmingInv, ProvingInv, ClosingInv, MemberPcs, ForwardPcs,
     CancelPcs, BoundPcs, Shape
<1> QED
  BY <1>1, <1>2, <1>3, <1>4, <1>5, <1>6, <1>7, <1>8, <1>9, <1>10, <1>11,
     <1>12, <1>13, <1>14, <1>15

LEMMA JournalArmInv ==
  ASSUME IInv, JournalArm
  PROVE  IInv'
<1> USE DispositionAssumption DEF IInv, Goto, Fault, NoFault, rows, disk,
        guardian, channel, locals, bounds, Items, JournalArm, Journal
<1>s. Shape
  BY Shapes
<1>a. /\ UNCHANGED <<batch, entry, item, opItem, cleaned, armed, archived>>
      /\ UNCHANGED <<receipt, gphase, gexcl, pipe, cmd, reply, cur, gone>>
      /\ UNCHANGED <<insync, pcancelled, csafe, jfailed>>
      /\ pc = "journal_arm" /\ pc' \in {"send_arm", "hang_up"}
  <2>1. /\ UNCHANGED <<batch, entry, item, opItem, cleaned, armed, archived>>
        /\ UNCHANGED <<receipt, gphase, gexcl, pipe, cmd, reply, cur, gone>>
    OBVIOUS
  <2>2. UNCHANGED <<insync, pcancelled, csafe, jfailed>>
    OBVIOUS
  <2>3. pc = "journal_arm" /\ pc' \in {"send_arm", "hang_up"}
    OBVIOUS
  <2> QED
    BY ONLY <2>1, <2>2, <2>3
<1>b. /\ pc' = "send_arm" => present' = present /\ phold' = phold
      /\ \A i \in Items :
           \/ present'[i] = present[i] /\ phold'[i] = phold[i]
           \/ /\ i = cur /\ ~phold'[i] /\ pc' = "hang_up"
              /\ present'[i] = (present[i] /\ (armed[i] => gphase[i] \in Holding))
  <2>1. CASE present' = present /\ phold' = phold
    BY ONLY <2>1
  <2>2. CASE /\ pc' = "hang_up" /\ phold' = [phold EXCEPT ![cur] = FALSE]
             /\ HandlesClose
    BY ONLY <1>a, <1>s, <2>2, IInv DEF IInv, HandlesClose, HandleInv, Held,
       Shape
  <2>3. \/ present' = present /\ phold' = phold
        \/ /\ pc' = "hang_up" /\ phold' = [phold EXCEPT ![cur] = FALSE]
           /\ HandlesClose
    OBVIOUS
  <2> QED
    BY ONLY <2>1, <2>2, <2>3
<1>1. TypeOK'
  <2>1. pc' \in Pcs
    BY DEF TypeOK, Pcs, WorkerPcs
  <2>2. /\ faults' \in 0..MaxFaults /\ crashes' \in 0..MaxCrashes
        /\ kills' \in 0..MaxKills
    BY DEF TypeOK
  <2>3. gstate' \in [Items -> GuardianStates]
    BY DEF TypeOK, GuardianStates
  <2>4. present' \in [Items -> BOOLEAN]
    <3>1. present' = present \/ HandlesClose
      OBVIOUS
    <3>2. present \in [Items -> BOOLEAN]
      BY ONLY IInv DEF IInv, TypeOK
    <3> QED
      BY ONLY <3>1, <3>2 DEF HandlesClose
  <2>5. armed' \in [Items -> BOOLEAN]
    <3>1. armed' = armed
      OBVIOUS
    <3>2. armed \in [Items -> BOOLEAN]
      BY ONLY IInv DEF IInv, TypeOK
    <3> QED
      BY ONLY <3>1, <3>2
  <2>6. gphase' \in [Items -> Phases]
    BY DEF TypeOK, Phases, Holding, Serving
  <2>7. phold' \in [Items -> BOOLEAN]
    BY DEF TypeOK
  <2> QED
    BY <2>1, <2>2, <2>3, <2>4, <2>5, <2>6, <2>7 DEF TypeOK
<1>2. HandleInv'
  <2> SUFFICES ASSUME NEW i \in Items
               PROVE  /\ Held(i)' => present'[i]
                      /\ armed'[i] /\ present'[i] => Held(i)'
    BY DEF HandleInv
  <2>1. (Held(i) => present[i]) /\ (armed[i] /\ present[i] => Held(i))
    BY ONLY IInv, i \in Items DEF IInv, HandleInv
  <2> QED
    BY ONLY <1>a, <1>b, <2>1, i \in Items DEF Held
<1>3. RowInv'
  BY ONLY <1>s, <1>a, <1>b, IInv DEF IInv, RowInv, CurrentInv, MemberPcs,
     ForwardPcs, CancelPcs
<1>4. GuardInv'
  BY ONLY <1>s, <1>a, <1>b, IInv DEF IInv, GuardInv, Shape
<1>5. StartInv'
  BY <1>s DEF StartInv, WorkerPcs, Quiet, Shape
<1>6. CurrentInv'
  BY ONLY <1>s, <1>a, <1>b, IInv DEF IInv, CurrentInv, BoundPcs, MemberPcs,
     ForwardPcs, CancelPcs
<1>7. AheadInv'
  BY ONLY <1>s, <1>a, <1>b, IInv DEF IInv, AheadInv, MemberPcs, ForwardPcs,
     CancelPcs
<1>8. BehindInv'
  BY ONLY <1>s, <1>a, <1>b, IInv DEF IInv, BehindInv, MemberPcs, ForwardPcs,
     CancelPcs, Fresh, Quiet
<1>9. CancelledInv'
  BY <1>s DEF CancelledInv, CurrentInv, MemberPcs, ForwardPcs, CancelPcs,
     BoundPcs, Shape
<1>10. ArmingInv'
  BY <1>s DEF ArmingInv, CurrentInv, MemberPcs, ForwardPcs, CancelPcs,
     BoundPcs, Fresh, Quiet, Shape
<1>11. ProvingInv'
  BY <1>s DEF ProvingInv, CurrentInv, MemberPcs, ForwardPcs, CancelPcs,
     BoundPcs, Quiet, Shape
<1>12. ClosingInv'
  BY <1>s DEF ClosingInv, CurrentInv, MemberPcs, ForwardPcs, CancelPcs,
     BoundPcs, Quiet, Shape
<1>13. RecoverInv'
  BY <1>s DEF RecoverInv, RowInv, Shape
<1>14. BatchInv'
  BY <1>s DEF BatchInv, WorkerPcs, Shape
<1>15. OneAfterAnother'
  BY ONLY <1>s, <1>a, <1>b, IInv DEF IInv, OneAfterAnother, AheadInv,
     MemberPcs, ForwardPcs, CancelPcs, CurrentInv, Items, Shape
<1> QED
  BY <1>1, <1>2, <1>3, <1>4, <1>5, <1>6, <1>7, <1>8, <1>9, <1>10, <1>11,
     <1>12, <1>13, <1>14, <1>15

LEMMA SendArmInv ==
  ASSUME IInv, Send("send_arm", "arm", "await_arm")
  PROVE  IInv'
<1> USE DispositionAssumption DEF IInv, Goto, Fault, NoFault, rows, disk,
        guardian, channel, locals, bounds, Items, Send
<1>s. Shape
  BY Shapes
<1>1. TypeOK'
  <2>1. pc' \in Pcs
    BY DEF TypeOK, Pcs, WorkerPcs
  <2>2. /\ faults' \in 0..MaxFaults /\ crashes' \in 0..MaxCrashes
        /\ kills' \in 0..MaxKills
    BY DEF TypeOK
  <2>3. cmd' \in [Items -> Seq(Commands)]
    <3>1. \A s \in Seq(Commands) : Append(s, "arm") \in Seq(Commands)
      BY DEF Commands
    <3>2. cmd' = cmd \/ cmd' = [cmd EXCEPT ![cur] = Append(@, "arm")]
      OBVIOUS
    <3>3. cmd \in [Items -> Seq(Commands)]
      BY ONLY IInv DEF IInv, TypeOK
    <3> QED
      BY ONLY <3>1, <3>2, <3>3
  <2> QED
    BY <2>1, <2>2, <2>3 DEF TypeOK
<1>2. HandleInv'
  BY <1>s DEF HandleInv, Held, StartInv, CurrentInv, MemberPcs, ForwardPcs,
     CancelPcs, BoundPcs, Shape, Holding, Serving
<1>3. RowInv'
  BY <1>s DEF RowInv, StartInv, CurrentInv, ClosingInv, MemberPcs, ForwardPcs,
     CancelPcs, BoundPcs, Shape
<1>4. GuardInv'
  BY <1>s DEF GuardInv, HandleInv, RowInv, Held, ArmingInv, ProvingInv,
     ClosingInv, CurrentInv, MemberPcs, ForwardPcs, CancelPcs, BoundPcs,
     Holding, Serving, Shape, Quiet
<1>5. StartInv'
  BY <1>s DEF StartInv, WorkerPcs, Quiet, Shape
<1>6. CurrentInv'
  BY <1>s DEF CurrentInv, MemberPcs, ForwardPcs, CancelPcs, BoundPcs, Shape
<1>7. AheadInv'
  BY <1>s DEF AheadInv, CurrentInv, MemberPcs, ForwardPcs, CancelPcs,
     BoundPcs, Shape
<1>8. BehindInv'
  BY <1>s, Frames DEF BehindInv, CurrentInv, MemberPcs, ForwardPcs, CancelPcs,
     BoundPcs, Fresh, Quiet, Shape
<1>9. CancelledInv'
  BY <1>s DEF CancelledInv, CurrentInv, MemberPcs, ForwardPcs, CancelPcs,
     BoundPcs, Shape
<1>10. ArmingInv'
  BY <1>s, Frames DEF ArmingInv, CurrentInv, MemberPcs, ForwardPcs, CancelPcs,
     BoundPcs, Fresh, Quiet, Shape
<1>11. ProvingInv'
  BY <1>s, Frames DEF ProvingInv, CurrentInv, MemberPcs, ForwardPcs,
     CancelPcs, BoundPcs, Quiet, Shape
<1>12. ClosingInv'
  BY <1>s, Frames DEF ClosingInv, CurrentInv, MemberPcs, ForwardPcs,
     CancelPcs, BoundPcs, Quiet, Shape
<1>13. RecoverInv'
  BY <1>s DEF RecoverInv, RowInv, Shape
<1>14. BatchInv'
  BY <1>s DEF BatchInv, WorkerPcs, Shape
<1>15. OneAfterAnother'
  BY <1>s DEF OneAfterAnother, StartInv, RowInv, CurrentInv, AheadInv,
     BehindInv, ArmingInv, ProvingInv, ClosingInv, MemberPcs, ForwardPcs,
     CancelPcs, BoundPcs, Shape
<1> QED
  BY <1>1, <1>2, <1>3, <1>4, <1>5, <1>6, <1>7, <1>8, <1>9, <1>10, <1>11,
     <1>12, <1>13, <1>14, <1>15

LEMMA SendProveInv ==
  ASSUME IInv, Send("send_prove", "prove", "await_prove")
  PROVE  IInv'
<1> USE DispositionAssumption DEF IInv, Goto, Fault, NoFault, rows, disk,
        guardian, channel, locals, bounds, Items, Send
<1>s. Shape
  BY Shapes
<1>1. TypeOK'
  <2>1. pc' \in Pcs
    BY DEF TypeOK, Pcs, WorkerPcs
  <2>2. /\ faults' \in 0..MaxFaults /\ crashes' \in 0..MaxCrashes
        /\ kills' \in 0..MaxKills
    BY DEF TypeOK
  <2>3. cmd' \in [Items -> Seq(Commands)]
    <3>1. \A s \in Seq(Commands) : Append(s, "prove") \in Seq(Commands)
      BY DEF Commands
    <3>2. cmd' = cmd \/ cmd' = [cmd EXCEPT ![cur] = Append(@, "prove")]
      OBVIOUS
    <3>3. cmd \in [Items -> Seq(Commands)]
      BY ONLY IInv DEF IInv, TypeOK
    <3> QED
      BY ONLY <3>1, <3>2, <3>3
  <2> QED
    BY <2>1, <2>2, <2>3 DEF TypeOK
<1>2. HandleInv'
  BY <1>s DEF HandleInv, Held, StartInv, CurrentInv, MemberPcs, ForwardPcs,
     CancelPcs, BoundPcs, Shape, Holding, Serving
<1>3. RowInv'
  BY <1>s DEF RowInv, StartInv, CurrentInv, ClosingInv, MemberPcs, ForwardPcs,
     CancelPcs, BoundPcs, Shape
<1>4. GuardInv'
  BY <1>s DEF GuardInv, HandleInv, RowInv, Held, ArmingInv, ProvingInv,
     ClosingInv, CurrentInv, MemberPcs, ForwardPcs, CancelPcs, BoundPcs,
     Holding, Serving, Shape, Quiet
<1>5. StartInv'
  BY <1>s DEF StartInv, WorkerPcs, Quiet, Shape
<1>6. CurrentInv'
  BY <1>s DEF CurrentInv, MemberPcs, ForwardPcs, CancelPcs, BoundPcs, Shape
<1>7. AheadInv'
  BY <1>s DEF AheadInv, CurrentInv, MemberPcs, ForwardPcs, CancelPcs,
     BoundPcs, Shape
<1>8. BehindInv'
  BY <1>s, Frames DEF BehindInv, CurrentInv, MemberPcs, ForwardPcs, CancelPcs,
     BoundPcs, Fresh, Quiet, Shape
<1>9. CancelledInv'
  BY <1>s DEF CancelledInv, CurrentInv, MemberPcs, ForwardPcs, CancelPcs,
     BoundPcs, Shape
<1>10. ArmingInv'
  BY <1>s, Frames DEF ArmingInv, CurrentInv, MemberPcs, ForwardPcs, CancelPcs,
     BoundPcs, Fresh, Quiet, Shape
<1>11. ProvingInv'
  BY <1>s, Frames DEF ProvingInv, CurrentInv, MemberPcs, ForwardPcs,
     CancelPcs, BoundPcs, Quiet, Shape, ArmingInv
<1>12. ClosingInv'
  BY <1>s, Frames DEF ClosingInv, CurrentInv, MemberPcs, ForwardPcs,
     CancelPcs, BoundPcs, Quiet, Shape
<1>13. RecoverInv'
  BY <1>s DEF RecoverInv, RowInv, Shape
<1>14. BatchInv'
  BY <1>s DEF BatchInv, WorkerPcs, Shape
<1>15. OneAfterAnother'
  BY <1>s DEF OneAfterAnother, StartInv, RowInv, CurrentInv, AheadInv,
     BehindInv, ArmingInv, ProvingInv, ClosingInv, MemberPcs, ForwardPcs,
     CancelPcs, BoundPcs, Shape
<1> QED
  BY <1>1, <1>2, <1>3, <1>4, <1>5, <1>6, <1>7, <1>8, <1>9, <1>10, <1>11,
     <1>12, <1>13, <1>14, <1>15

LEMMA SendCloseInv ==
  ASSUME IInv, Send("send_close", "close", "await_close")
  PROVE  IInv'
<1> USE DispositionAssumption DEF IInv, Goto, Fault, NoFault, rows, disk,
        guardian, channel, locals, bounds, Items, Send
<1>s. Shape
  BY Shapes
<1>1. TypeOK'
  <2>1. pc' \in Pcs
    BY DEF TypeOK, Pcs, WorkerPcs
  <2>2. /\ faults' \in 0..MaxFaults /\ crashes' \in 0..MaxCrashes
        /\ kills' \in 0..MaxKills
    BY DEF TypeOK
  <2>3. cmd' \in [Items -> Seq(Commands)]
    <3>1. \A s \in Seq(Commands) : Append(s, "close") \in Seq(Commands)
      BY DEF Commands
    <3>2. cmd' = cmd \/ cmd' = [cmd EXCEPT ![cur] = Append(@, "close")]
      OBVIOUS
    <3>3. cmd \in [Items -> Seq(Commands)]
      BY ONLY IInv DEF IInv, TypeOK
    <3> QED
      BY ONLY <3>1, <3>2, <3>3
  <2> QED
    BY <2>1, <2>2, <2>3 DEF TypeOK
<1>2. HandleInv'
  BY <1>s DEF HandleInv, Held, StartInv, CurrentInv, MemberPcs, ForwardPcs,
     CancelPcs, BoundPcs, Shape, Holding, Serving
<1>3. RowInv'
  BY <1>s DEF RowInv, StartInv, CurrentInv, ClosingInv, MemberPcs, ForwardPcs,
     CancelPcs, BoundPcs, Shape
<1>4. GuardInv'
  BY <1>s DEF GuardInv, HandleInv, RowInv, Held, ArmingInv, ProvingInv,
     ClosingInv, CurrentInv, MemberPcs, ForwardPcs, CancelPcs, BoundPcs,
     Holding, Serving, Shape, Quiet
<1>5. StartInv'
  BY <1>s DEF StartInv, WorkerPcs, Quiet, Shape
<1>6. CurrentInv'
  BY <1>s DEF CurrentInv, MemberPcs, ForwardPcs, CancelPcs, BoundPcs, Shape
<1>7. AheadInv'
  BY <1>s DEF AheadInv, CurrentInv, MemberPcs, ForwardPcs, CancelPcs,
     BoundPcs, Shape
<1>8. BehindInv'
  BY <1>s, Frames DEF BehindInv, CurrentInv, MemberPcs, ForwardPcs, CancelPcs,
     BoundPcs, Fresh, Quiet, Shape
<1>9. CancelledInv'
  BY <1>s DEF CancelledInv, CurrentInv, MemberPcs, ForwardPcs, CancelPcs,
     BoundPcs, Shape
<1>10. ArmingInv'
  BY <1>s, Frames DEF ArmingInv, CurrentInv, MemberPcs, ForwardPcs, CancelPcs,
     BoundPcs, Fresh, Quiet, Shape
<1>11. ProvingInv'
  BY <1>s, Frames DEF ProvingInv, CurrentInv, MemberPcs, ForwardPcs,
     CancelPcs, BoundPcs, Quiet, Shape
<1>12. ClosingInv'
  BY <1>s, Frames DEF ClosingInv, CurrentInv, MemberPcs, ForwardPcs,
     CancelPcs, BoundPcs, Quiet, Shape, ProvingInv
<1>13. RecoverInv'
  BY <1>s DEF RecoverInv, RowInv, Shape
<1>14. BatchInv'
  BY <1>s DEF BatchInv, WorkerPcs, Shape
<1>15. OneAfterAnother'
  BY <1>s DEF OneAfterAnother, StartInv, RowInv, CurrentInv, AheadInv,
     BehindInv, ArmingInv, ProvingInv, ClosingInv, MemberPcs, ForwardPcs,
     CancelPcs, BoundPcs, Shape
<1> QED
  BY <1>1, <1>2, <1>3, <1>4, <1>5, <1>6, <1>7, <1>8, <1>9, <1>10, <1>11,
     <1>12, <1>13, <1>14, <1>15

LEMMA AwaitArmInv ==
  ASSUME IInv, Await("await_arm", "ready", "arm")
  PROVE  IInv'
<1> USE DispositionAssumption DEF IInv, Goto, Fault, NoFault, rows, disk,
        guardian, channel, locals, bounds, Items, Await, Unanswered
<1>s. Shape
  BY Shapes
<1>1. TypeOK'
  <2>1. pc' \in Pcs
    BY DEF TypeOK, Pcs, WorkerPcs
  <2>2. /\ faults' \in 0..MaxFaults /\ crashes' \in 0..MaxCrashes
        /\ kills' \in 0..MaxKills
    BY DEF TypeOK
  <2>3. reply' \in [Items -> Replies]
    BY DEF TypeOK, Replies
  <2> QED
    BY <2>1, <2>2, <2>3 DEF TypeOK
<1>2. HandleInv'
  BY <1>s DEF HandleInv, Held, StartInv, CurrentInv, MemberPcs, ForwardPcs,
     CancelPcs, BoundPcs, Shape, Holding, Serving
<1>3. RowInv'
  BY <1>s DEF RowInv, StartInv, CurrentInv, ClosingInv, MemberPcs, ForwardPcs,
     CancelPcs, BoundPcs, Shape
<1>4. GuardInv'
  BY <1>s DEF GuardInv, HandleInv, RowInv, Held, ArmingInv, ProvingInv,
     ClosingInv, CurrentInv, MemberPcs, ForwardPcs, CancelPcs, BoundPcs,
     Holding, Serving, Shape, Quiet
<1>5. StartInv'
  BY <1>s DEF StartInv, WorkerPcs, Quiet, Shape
<1>6. CurrentInv'
  BY <1>s DEF CurrentInv, MemberPcs, ForwardPcs, CancelPcs, BoundPcs, Shape
<1>7. AheadInv'
  BY <1>s DEF AheadInv, CurrentInv, MemberPcs, ForwardPcs, CancelPcs,
     BoundPcs, Shape
<1>8. BehindInv'
  BY <1>s, Frames DEF BehindInv, CurrentInv, MemberPcs, ForwardPcs, CancelPcs,
     BoundPcs, Fresh, Quiet, Shape
<1>9. CancelledInv'
  BY <1>s DEF CancelledInv, CurrentInv, MemberPcs, ForwardPcs, CancelPcs,
     BoundPcs, Shape
<1>10. ArmingInv'
  BY <1>s, Frames DEF ArmingInv, CurrentInv, MemberPcs, ForwardPcs, CancelPcs,
     BoundPcs, Fresh, Quiet, Shape
<1>11. ProvingInv'
  BY <1>s, Frames DEF ProvingInv, CurrentInv, MemberPcs, ForwardPcs,
     CancelPcs, BoundPcs, Quiet, Shape
<1>12. ClosingInv'
  BY <1>s, Frames DEF ClosingInv, CurrentInv, MemberPcs, ForwardPcs,
     CancelPcs, BoundPcs, Quiet, Shape
<1>13. RecoverInv'
  BY <1>s DEF RecoverInv, RowInv, Shape
<1>14. BatchInv'
  BY <1>s DEF BatchInv, WorkerPcs, Shape
<1>15. OneAfterAnother'
  BY <1>s DEF OneAfterAnother, StartInv, RowInv, CurrentInv, AheadInv,
     BehindInv, ArmingInv, ProvingInv, ClosingInv, MemberPcs, ForwardPcs,
     CancelPcs, BoundPcs, Shape
<1> QED
  BY <1>1, <1>2, <1>3, <1>4, <1>5, <1>6, <1>7, <1>8, <1>9, <1>10, <1>11,
     <1>12, <1>13, <1>14, <1>15

LEMMA AwaitProveInv ==
  ASSUME IInv, Await("await_prove", "proved", "journal_proved")
  PROVE  IInv'
<1> USE DispositionAssumption DEF IInv, Goto, Fault, NoFault, rows, disk,
        guardian, channel, locals, bounds, Items, Await, Unanswered
<1>s. Shape
  BY Shapes
<1>1. TypeOK'
  <2>1. pc' \in Pcs
    BY DEF TypeOK, Pcs, WorkerPcs
  <2>2. /\ faults' \in 0..MaxFaults /\ crashes' \in 0..MaxCrashes
        /\ kills' \in 0..MaxKills
    BY DEF TypeOK
  <2>3. reply' \in [Items -> Replies]
    BY DEF TypeOK, Replies
  <2> QED
    BY <2>1, <2>2, <2>3 DEF TypeOK
<1>2. HandleInv'
  BY <1>s DEF HandleInv, Held, StartInv, CurrentInv, MemberPcs, ForwardPcs,
     CancelPcs, BoundPcs, Shape, Holding, Serving
<1>3. RowInv'
  BY <1>s DEF RowInv, StartInv, CurrentInv, ClosingInv, MemberPcs, ForwardPcs,
     CancelPcs, BoundPcs, Shape
<1>4. GuardInv'
  BY <1>s DEF GuardInv, HandleInv, RowInv, Held, ArmingInv, ProvingInv,
     ClosingInv, CurrentInv, MemberPcs, ForwardPcs, CancelPcs, BoundPcs,
     Holding, Serving, Shape, Quiet
<1>5. StartInv'
  BY <1>s DEF StartInv, WorkerPcs, Quiet, Shape
<1>6. CurrentInv'
  BY <1>s DEF CurrentInv, MemberPcs, ForwardPcs, CancelPcs, BoundPcs, Shape
<1>7. AheadInv'
  BY <1>s DEF AheadInv, CurrentInv, MemberPcs, ForwardPcs, CancelPcs,
     BoundPcs, Shape
<1>8. BehindInv'
  BY <1>s, Frames DEF BehindInv, CurrentInv, MemberPcs, ForwardPcs, CancelPcs,
     BoundPcs, Fresh, Quiet, Shape
<1>9. CancelledInv'
  BY <1>s DEF CancelledInv, CurrentInv, MemberPcs, ForwardPcs, CancelPcs,
     BoundPcs, Shape
<1>10. ArmingInv'
  BY <1>s, Frames DEF ArmingInv, CurrentInv, MemberPcs, ForwardPcs, CancelPcs,
     BoundPcs, Fresh, Quiet, Shape
<1>11. ProvingInv'
  BY <1>s, Frames DEF ProvingInv, CurrentInv, MemberPcs, ForwardPcs,
     CancelPcs, BoundPcs, Quiet, Shape
<1>12. ClosingInv'
  BY <1>s, Frames DEF ClosingInv, CurrentInv, MemberPcs, ForwardPcs,
     CancelPcs, BoundPcs, Quiet, Shape
<1>13. RecoverInv'
  BY <1>s DEF RecoverInv, RowInv, Shape
<1>14. BatchInv'
  BY <1>s DEF BatchInv, WorkerPcs, Shape
<1>15. OneAfterAnother'
  BY <1>s DEF OneAfterAnother, StartInv, RowInv, CurrentInv, AheadInv,
     BehindInv, ArmingInv, ProvingInv, ClosingInv, MemberPcs, ForwardPcs,
     CancelPcs, BoundPcs, Shape
<1> QED
  BY <1>1, <1>2, <1>3, <1>4, <1>5, <1>6, <1>7, <1>8, <1>9, <1>10, <1>11,
     <1>12, <1>13, <1>14, <1>15

LEMMA AwaitCloseInv ==
  ASSUME IInv, Await("await_close", "closed", "journal_ack")
  PROVE  IInv'
<1> USE DispositionAssumption DEF IInv, Goto, Fault, NoFault, rows, disk,
        guardian, channel, locals, bounds, Items, Await, Unanswered
<1>s. Shape
  BY Shapes
<1>1. TypeOK'
  <2>1. pc' \in Pcs
    BY DEF TypeOK, Pcs, WorkerPcs
  <2>2. /\ faults' \in 0..MaxFaults /\ crashes' \in 0..MaxCrashes
        /\ kills' \in 0..MaxKills
    BY DEF TypeOK
  <2>3. reply' \in [Items -> Replies]
    BY DEF TypeOK, Replies
  <2> QED
    BY <2>1, <2>2, <2>3 DEF TypeOK
<1>2. HandleInv'
  BY <1>s DEF HandleInv, Held, StartInv, CurrentInv, MemberPcs, ForwardPcs,
     CancelPcs, BoundPcs, Shape, Holding, Serving
<1>3. RowInv'
  BY <1>s DEF RowInv, StartInv, CurrentInv, ClosingInv, MemberPcs, ForwardPcs,
     CancelPcs, BoundPcs, Shape
<1>4. GuardInv'
  BY <1>s DEF GuardInv, HandleInv, RowInv, Held, ArmingInv, ProvingInv,
     ClosingInv, CurrentInv, MemberPcs, ForwardPcs, CancelPcs, BoundPcs,
     Holding, Serving, Shape, Quiet
<1>5. StartInv'
  BY <1>s DEF StartInv, WorkerPcs, Quiet, Shape
<1>6. CurrentInv'
  BY <1>s DEF CurrentInv, MemberPcs, ForwardPcs, CancelPcs, BoundPcs, Shape
<1>7. AheadInv'
  BY <1>s DEF AheadInv, CurrentInv, MemberPcs, ForwardPcs, CancelPcs,
     BoundPcs, Shape
<1>8. BehindInv'
  BY <1>s, Frames DEF BehindInv, CurrentInv, MemberPcs, ForwardPcs, CancelPcs,
     BoundPcs, Fresh, Quiet, Shape
<1>9. CancelledInv'
  BY <1>s DEF CancelledInv, CurrentInv, MemberPcs, ForwardPcs, CancelPcs,
     BoundPcs, Shape
<1>10. ArmingInv'
  BY <1>s, Frames DEF ArmingInv, CurrentInv, MemberPcs, ForwardPcs, CancelPcs,
     BoundPcs, Fresh, Quiet, Shape
<1>11. ProvingInv'
  BY <1>s, Frames DEF ProvingInv, CurrentInv, MemberPcs, ForwardPcs,
     CancelPcs, BoundPcs, Quiet, Shape
<1>12. ClosingInv'
  BY <1>s, Frames DEF ClosingInv, CurrentInv, MemberPcs, ForwardPcs,
     CancelPcs, BoundPcs, Quiet, Shape
<1>13. RecoverInv'
  BY <1>s DEF RecoverInv, RowInv, Shape
<1>14. BatchInv'
  BY <1>s DEF BatchInv, WorkerPcs, Shape
<1>15. OneAfterAnother'
  BY <1>s DEF OneAfterAnother, StartInv, RowInv, CurrentInv, AheadInv,
     BehindInv, ArmingInv, ProvingInv, ClosingInv, MemberPcs, ForwardPcs,
     CancelPcs, BoundPcs, Shape
<1> QED
  BY <1>1, <1>2, <1>3, <1>4, <1>5, <1>6, <1>7, <1>8, <1>9, <1>10, <1>11,
     <1>12, <1>13, <1>14, <1>15

LEMMA ArmInv ==
  ASSUME IInv, Arm
  PROVE  IInv'
<1> USE DispositionAssumption DEF IInv, Goto, Fault, NoFault, rows, disk,
        guardian, channel, locals, bounds, Items, Arm
<1>s. Shape
  BY Shapes
<1>1. TypeOK'
  <2>1. pc' \in Pcs
    BY DEF TypeOK, Pcs, WorkerPcs
  <2>2. /\ faults' \in 0..MaxFaults /\ crashes' \in 0..MaxCrashes
        /\ kills' \in 0..MaxKills
    BY DEF TypeOK
  <2>3. armed' \in [Items -> BOOLEAN]
    BY DEF TypeOK
  <2> QED
    BY <2>1, <2>2, <2>3 DEF TypeOK
<1>2. HandleInv'
  BY <1>s DEF HandleInv, CurrentInv, Held, BoundPcs, ForwardPcs, CancelPcs,
     Shape
<1>3. RowInv'
  BY <1>s DEF RowInv, StartInv, CurrentInv, ClosingInv, MemberPcs, ForwardPcs,
     CancelPcs, BoundPcs, Shape
<1>4. GuardInv'
  BY <1>s DEF GuardInv, ArmingInv, Holding, Serving, Shape, Quiet
<1>5. StartInv'
  BY <1>s DEF StartInv, WorkerPcs, Quiet, Shape
<1>6. CurrentInv'
  BY <1>s DEF CurrentInv, MemberPcs, ForwardPcs, CancelPcs, BoundPcs, Shape
<1>7. AheadInv'
  BY <1>s DEF AheadInv, CurrentInv, MemberPcs, ForwardPcs, CancelPcs,
     BoundPcs, Shape
<1>8. BehindInv'
  BY <1>s DEF BehindInv, CurrentInv, MemberPcs, ForwardPcs, CancelPcs,
     BoundPcs, Fresh, Quiet, Shape
<1>9. CancelledInv'
  BY <1>s DEF CancelledInv, CurrentInv, MemberPcs, ForwardPcs, CancelPcs,
     BoundPcs, Shape
<1>10. ArmingInv'
  BY <1>s DEF ArmingInv, CurrentInv, MemberPcs, ForwardPcs, CancelPcs,
     BoundPcs, Fresh, Quiet, Shape
<1>11. ProvingInv'
  BY <1>s DEF ProvingInv, CurrentInv, MemberPcs, ForwardPcs, CancelPcs,
     BoundPcs, Quiet, Shape, ArmingInv
<1>12. ClosingInv'
  BY <1>s DEF ClosingInv, CurrentInv, MemberPcs, ForwardPcs, CancelPcs,
     BoundPcs, Quiet, Shape
<1>13. RecoverInv'
  BY <1>s DEF RecoverInv, RowInv, Shape
<1>14. BatchInv'
  BY <1>s DEF BatchInv, WorkerPcs, Shape
<1>15. OneAfterAnother'
  BY <1>s DEF OneAfterAnother, StartInv, RowInv, CurrentInv, AheadInv,
     BehindInv, ArmingInv, ProvingInv, ClosingInv, MemberPcs, ForwardPcs,
     CancelPcs, BoundPcs, Shape
<1> QED
  BY <1>1, <1>2, <1>3, <1>4, <1>5, <1>6, <1>7, <1>8, <1>9, <1>10, <1>11,
     <1>12, <1>13, <1>14, <1>15

LEMMA JournalArmedInv ==
  ASSUME IInv, JournalOrCancel("journal_armed", "arm_authorized_unproved", "armed_unproved",
                         "validate")
  PROVE  IInv'
<1> USE DispositionAssumption DEF IInv, Goto, Fault, NoFault, rows, disk,
        guardian, channel, locals, bounds, Items, JournalOrCancel, Journal
<1>s. Shape
  BY Shapes
<1>1. TypeOK'
  <2>1. pc' \in Pcs
    BY DEF TypeOK, Pcs, WorkerPcs
  <2>2. /\ faults' \in 0..MaxFaults /\ crashes' \in 0..MaxCrashes
        /\ kills' \in 0..MaxKills
    BY DEF TypeOK
  <2>3. reason' \in [Items -> {"none", "unproved", "proved"}]
    BY DEF TypeOK
  <2>4. gstate' \in [Items -> GuardianStates]
    BY DEF TypeOK, GuardianStates
  <2> QED
    BY <2>1, <2>2, <2>3, <2>4 DEF TypeOK
<1>2. HandleInv'
  BY <1>s DEF HandleInv, Held, StartInv, CurrentInv, MemberPcs, ForwardPcs,
     CancelPcs, BoundPcs, Shape, Holding, Serving
<1>3. RowInv'
  BY <1>s DEF RowInv, StartInv, CurrentInv, ClosingInv, MemberPcs, ForwardPcs,
     CancelPcs, BoundPcs, Shape
<1>4. GuardInv'
  BY <1>s DEF GuardInv, HandleInv, RowInv, Held, ArmingInv, ProvingInv,
     ClosingInv, CurrentInv, MemberPcs, ForwardPcs, CancelPcs, BoundPcs,
     Holding, Serving, Shape, Quiet
<1>5. StartInv'
  BY <1>s DEF StartInv, WorkerPcs, Quiet, Shape
<1>6. CurrentInv'
  BY <1>s DEF CurrentInv, MemberPcs, ForwardPcs, CancelPcs, BoundPcs, Shape
<1>7. AheadInv'
  BY <1>s DEF AheadInv, CurrentInv, MemberPcs, ForwardPcs, CancelPcs,
     BoundPcs, Shape
<1>8. BehindInv'
  BY <1>s DEF BehindInv, CurrentInv, MemberPcs, ForwardPcs, CancelPcs,
     BoundPcs, Fresh, Quiet, Shape
<1>9. CancelledInv'
  BY <1>s DEF CancelledInv, CurrentInv, MemberPcs, ForwardPcs, CancelPcs,
     BoundPcs, Shape
<1>10. ArmingInv'
  BY <1>s DEF ArmingInv, CurrentInv, MemberPcs, ForwardPcs, CancelPcs,
     BoundPcs, Fresh, Quiet, Shape
<1>11. ProvingInv'
  BY <1>s DEF ProvingInv, CurrentInv, MemberPcs, ForwardPcs, CancelPcs,
     BoundPcs, Quiet, Shape
<1>12. ClosingInv'
  BY <1>s DEF ClosingInv, CurrentInv, MemberPcs, ForwardPcs, CancelPcs,
     BoundPcs, Quiet, Shape
<1>13. RecoverInv'
  BY <1>s DEF RecoverInv, RowInv, Shape
<1>14. BatchInv'
  BY <1>s DEF BatchInv, WorkerPcs, Shape
<1>15. OneAfterAnother'
  BY <1>s DEF OneAfterAnother, StartInv, RowInv, CurrentInv, AheadInv,
     BehindInv, ArmingInv, ProvingInv, ClosingInv, MemberPcs, ForwardPcs,
     CancelPcs, BoundPcs, Shape
<1> QED
  BY <1>1, <1>2, <1>3, <1>4, <1>5, <1>6, <1>7, <1>8, <1>9, <1>10, <1>11,
     <1>12, <1>13, <1>14, <1>15

LEMMA JournalProvedInv ==
  ASSUME IInv, JournalOrCancel("journal_proved", "armed_unproved",
                         "final_profile_proved_held", "journal_close")
  PROVE  IInv'
<1> USE DispositionAssumption DEF IInv, Goto, Fault, NoFault, rows, disk,
        guardian, channel, locals, bounds, Items, JournalOrCancel, Journal
<1>s. Shape
  BY Shapes
<1>1. TypeOK'
  <2>1. pc' \in Pcs
    BY DEF TypeOK, Pcs, WorkerPcs
  <2>2. /\ faults' \in 0..MaxFaults /\ crashes' \in 0..MaxCrashes
        /\ kills' \in 0..MaxKills
    BY DEF TypeOK
  <2>3. reason' \in [Items -> {"none", "unproved", "proved"}]
    BY DEF TypeOK
  <2>4. gstate' \in [Items -> GuardianStates]
    <3>1. gstate' = gstate \/ gstate' = [gstate EXCEPT ![cur] =
                                         "final_profile_proved_held"]
      OBVIOUS
    <3>2. gstate \in [Items -> GuardianStates]
      BY ONLY IInv DEF IInv, TypeOK
    <3> QED
      BY ONLY <3>1, <3>2 DEF GuardianStates
  <2> QED
    BY <2>1, <2>2, <2>3, <2>4 DEF TypeOK
<1>2. HandleInv'
  BY <1>s DEF HandleInv, Held, StartInv, CurrentInv, MemberPcs, ForwardPcs,
     CancelPcs, BoundPcs, Shape, Holding, Serving
<1>3. RowInv'
  BY <1>s DEF RowInv, StartInv, CurrentInv, ClosingInv, MemberPcs, ForwardPcs,
     CancelPcs, BoundPcs, Shape
<1>4. GuardInv'
  BY <1>s DEF GuardInv, HandleInv, RowInv, Held, ArmingInv, ProvingInv,
     ClosingInv, CurrentInv, MemberPcs, ForwardPcs, CancelPcs, BoundPcs,
     Holding, Serving, Shape, Quiet
<1>5. StartInv'
  BY <1>s DEF StartInv, WorkerPcs, Quiet, Shape
<1>6. CurrentInv'
  BY <1>s DEF CurrentInv, MemberPcs, ForwardPcs, CancelPcs, BoundPcs, Shape
<1>7. AheadInv'
  BY <1>s DEF AheadInv, CurrentInv, MemberPcs, ForwardPcs, CancelPcs,
     BoundPcs, Shape
<1>8. BehindInv'
  BY <1>s DEF BehindInv, CurrentInv, MemberPcs, ForwardPcs, CancelPcs,
     BoundPcs, Fresh, Quiet, Shape
<1>9. CancelledInv'
  BY <1>s DEF CancelledInv, CurrentInv, MemberPcs, ForwardPcs, CancelPcs,
     BoundPcs, Shape
<1>10. ArmingInv'
  BY <1>s DEF ArmingInv, CurrentInv, MemberPcs, ForwardPcs, CancelPcs,
     BoundPcs, Fresh, Quiet, Shape
<1>11. ProvingInv'
  BY <1>s DEF ProvingInv, CurrentInv, MemberPcs, ForwardPcs, CancelPcs,
     BoundPcs, Quiet, Shape
<1>12. ClosingInv'
  BY <1>s DEF ClosingInv, CurrentInv, MemberPcs, ForwardPcs, CancelPcs,
     BoundPcs, Quiet, Shape
<1>13. RecoverInv'
  BY <1>s DEF RecoverInv, RowInv, Shape
<1>14. BatchInv'
  BY <1>s DEF BatchInv, WorkerPcs, Shape
<1>15. OneAfterAnother'
  BY <1>s DEF OneAfterAnother, StartInv, RowInv, CurrentInv, AheadInv,
     BehindInv, ArmingInv, ProvingInv, ClosingInv, MemberPcs, ForwardPcs,
     CancelPcs, BoundPcs, Shape
<1> QED
  BY <1>1, <1>2, <1>3, <1>4, <1>5, <1>6, <1>7, <1>8, <1>9, <1>10, <1>11,
     <1>12, <1>13, <1>14, <1>15

LEMMA JournalCloseInv ==
  ASSUME IInv, JournalOrCancel("journal_close", "final_profile_proved_held",
                         "close_authorized", "send_close")
  PROVE  IInv'
<1> USE DispositionAssumption DEF IInv, Goto, Fault, NoFault, rows, disk,
        guardian, channel, locals, bounds, Items, JournalOrCancel, Journal
<1>s. Shape
  BY Shapes
<1>1. TypeOK'
  <2>1. pc' \in Pcs
    BY DEF TypeOK, Pcs, WorkerPcs
  <2>2. /\ faults' \in 0..MaxFaults /\ crashes' \in 0..MaxCrashes
        /\ kills' \in 0..MaxKills
    BY DEF TypeOK
  <2>3. reason' \in [Items -> {"none", "unproved", "proved"}]
    BY DEF TypeOK
  <2>4. gstate' \in [Items -> GuardianStates]
    BY DEF TypeOK, GuardianStates
  <2> QED
    BY <2>1, <2>2, <2>3, <2>4 DEF TypeOK
<1>2. HandleInv'
  BY <1>s DEF HandleInv, Held, StartInv, CurrentInv, MemberPcs, ForwardPcs,
     CancelPcs, BoundPcs, Shape, Holding, Serving
<1>3. RowInv'
  BY <1>s DEF RowInv, StartInv, CurrentInv, ClosingInv, MemberPcs, ForwardPcs,
     CancelPcs, BoundPcs, Shape
<1>4. GuardInv'
  BY <1>s DEF GuardInv, HandleInv, RowInv, Held, ArmingInv, ProvingInv,
     ClosingInv, CurrentInv, MemberPcs, ForwardPcs, CancelPcs, BoundPcs,
     Holding, Serving, Shape, Quiet
<1>5. StartInv'
  BY <1>s DEF StartInv, WorkerPcs, Quiet, Shape
<1>6. CurrentInv'
  BY <1>s DEF CurrentInv, MemberPcs, ForwardPcs, CancelPcs, BoundPcs, Shape
<1>7. AheadInv'
  BY <1>s DEF AheadInv, CurrentInv, MemberPcs, ForwardPcs, CancelPcs,
     BoundPcs, Shape
<1>8. BehindInv'
  BY <1>s DEF BehindInv, CurrentInv, MemberPcs, ForwardPcs, CancelPcs,
     BoundPcs, Fresh, Quiet, Shape
<1>9. CancelledInv'
  BY <1>s DEF CancelledInv, CurrentInv, MemberPcs, ForwardPcs, CancelPcs,
     BoundPcs, Shape
<1>10. ArmingInv'
  BY <1>s DEF ArmingInv, CurrentInv, MemberPcs, ForwardPcs, CancelPcs,
     BoundPcs, Fresh, Quiet, Shape
<1>11. ProvingInv'
  BY <1>s DEF ProvingInv, CurrentInv, MemberPcs, ForwardPcs, CancelPcs,
     BoundPcs, Quiet, Shape
<1>12. ClosingInv'
  BY <1>s DEF ClosingInv, CurrentInv, MemberPcs, ForwardPcs, CancelPcs,
     BoundPcs, Quiet, Shape
<1>13. RecoverInv'
  BY <1>s DEF RecoverInv, RowInv, Shape
<1>14. BatchInv'
  BY <1>s DEF BatchInv, WorkerPcs, Shape
<1>15. OneAfterAnother'
  BY <1>s DEF OneAfterAnother, StartInv, RowInv, CurrentInv, AheadInv,
     BehindInv, ArmingInv, ProvingInv, ClosingInv, MemberPcs, ForwardPcs,
     CancelPcs, BoundPcs, Shape
<1> QED
  BY <1>1, <1>2, <1>3, <1>4, <1>5, <1>6, <1>7, <1>8, <1>9, <1>10, <1>11,
     <1>12, <1>13, <1>14, <1>15

LEMMA ValidateInv ==
  ASSUME IInv, Validate
  PROVE  IInv'
<1> USE DispositionAssumption DEF IInv, Goto, Fault, NoFault, rows, disk,
        guardian, channel, locals, bounds, Items, Validate
<1>s. Shape
  BY Shapes
<1>1. TypeOK'
  <2>1. pc' \in Pcs
    BY DEF TypeOK, Pcs, WorkerPcs
  <2>2. /\ faults' \in 0..MaxFaults /\ crashes' \in 0..MaxCrashes
        /\ kills' \in 0..MaxKills
    BY DEF TypeOK
  <2> QED
    BY <2>1, <2>2 DEF TypeOK
<1>2. HandleInv'
  BY <1>s DEF HandleInv, Held, StartInv, CurrentInv, MemberPcs, ForwardPcs,
     CancelPcs, BoundPcs, Shape, Holding, Serving
<1>3. RowInv'
  BY <1>s DEF RowInv, StartInv, CurrentInv, ClosingInv, MemberPcs, ForwardPcs,
     CancelPcs, BoundPcs, Shape
<1>4. GuardInv'
  BY <1>s DEF GuardInv, HandleInv, RowInv, Held, ArmingInv, ProvingInv,
     ClosingInv, CurrentInv, MemberPcs, ForwardPcs, CancelPcs, BoundPcs,
     Holding, Serving, Shape, Quiet
<1>5. StartInv'
  BY <1>s DEF StartInv, WorkerPcs, Quiet, Shape
<1>6. CurrentInv'
  BY <1>s DEF CurrentInv, MemberPcs, ForwardPcs, CancelPcs, BoundPcs, Shape
<1>7. AheadInv'
  BY <1>s DEF AheadInv, CurrentInv, MemberPcs, ForwardPcs, CancelPcs,
     BoundPcs, Shape
<1>8. BehindInv'
  BY <1>s DEF BehindInv, CurrentInv, MemberPcs, ForwardPcs, CancelPcs,
     BoundPcs, Fresh, Quiet, Shape
<1>9. CancelledInv'
  BY <1>s DEF CancelledInv, CurrentInv, MemberPcs, ForwardPcs, CancelPcs,
     BoundPcs, Shape
<1>10. ArmingInv'
  BY <1>s DEF ArmingInv, CurrentInv, MemberPcs, ForwardPcs, CancelPcs,
     BoundPcs, Fresh, Quiet, Shape
<1>11. ProvingInv'
  BY <1>s DEF ProvingInv, CurrentInv, MemberPcs, ForwardPcs, CancelPcs,
     BoundPcs, Quiet, Shape
<1>12. ClosingInv'
  BY <1>s DEF ClosingInv, CurrentInv, MemberPcs, ForwardPcs, CancelPcs,
     BoundPcs, Quiet, Shape
<1>13. RecoverInv'
  BY <1>s DEF RecoverInv, RowInv, Shape
<1>14. BatchInv'
  BY <1>s DEF BatchInv, WorkerPcs, Shape
<1>15. OneAfterAnother'
  BY <1>s DEF OneAfterAnother, StartInv, RowInv, CurrentInv, AheadInv,
     BehindInv, ArmingInv, ProvingInv, ClosingInv, MemberPcs, ForwardPcs,
     CancelPcs, BoundPcs, Shape
<1> QED
  BY <1>1, <1>2, <1>3, <1>4, <1>5, <1>6, <1>7, <1>8, <1>9, <1>10, <1>11,
     <1>12, <1>13, <1>14, <1>15

LEMMA JournalAckInv ==
  ASSUME IInv, JournalAck
  PROVE  IInv'
<1> USE DispositionAssumption DEF IInv, Goto, Fault, NoFault, rows, disk,
        guardian, channel, locals, bounds, Items, JournalAck, Journal
<1>s. Shape
  BY Shapes
<1>1. TypeOK'
  <2>1. pc' \in Pcs
    BY DEF TypeOK, Pcs, WorkerPcs
  <2>2. /\ faults' \in 0..MaxFaults /\ crashes' \in 0..MaxCrashes
        /\ kills' \in 0..MaxKills
    BY DEF TypeOK
  <2>3. gstate' \in [Items -> GuardianStates]
    <3>1. gstate' = gstate \/ gstate' = [gstate EXCEPT ![cur] =
                                         "guardian_handle_closed"]
      OBVIOUS
    <3>2. gstate \in [Items -> GuardianStates]
      BY ONLY IInv DEF IInv, TypeOK
    <3> QED
      BY ONLY <3>1, <3>2 DEF GuardianStates
  <2> QED
    BY <2>1, <2>2, <2>3 DEF TypeOK
<1>2. HandleInv'
  BY <1>s DEF HandleInv, Held, StartInv, CurrentInv, MemberPcs, ForwardPcs,
     CancelPcs, BoundPcs, Shape, Holding, Serving
<1>3. RowInv'
  BY <1>s DEF RowInv, StartInv, CurrentInv, ClosingInv, MemberPcs, ForwardPcs,
     CancelPcs, BoundPcs, Shape
<1>4. GuardInv'
  BY <1>s DEF GuardInv, HandleInv, RowInv, Held, ArmingInv, ProvingInv,
     ClosingInv, CurrentInv, MemberPcs, ForwardPcs, CancelPcs, BoundPcs,
     Holding, Serving, Shape, Quiet
<1>5. StartInv'
  BY <1>s DEF StartInv, WorkerPcs, Quiet, Shape
<1>6. CurrentInv'
  BY <1>s DEF CurrentInv, MemberPcs, ForwardPcs, CancelPcs, BoundPcs, Shape
<1>7. AheadInv'
  BY <1>s DEF AheadInv, CurrentInv, MemberPcs, ForwardPcs, CancelPcs,
     BoundPcs, Shape
<1>8. BehindInv'
  BY <1>s DEF BehindInv, CurrentInv, MemberPcs, ForwardPcs, CancelPcs,
     BoundPcs, Fresh, Quiet, Shape
<1>9. CancelledInv'
  BY <1>s DEF CancelledInv, CurrentInv, MemberPcs, ForwardPcs, CancelPcs,
     BoundPcs, Shape
<1>10. ArmingInv'
  BY <1>s DEF ArmingInv, CurrentInv, MemberPcs, ForwardPcs, CancelPcs,
     BoundPcs, Fresh, Quiet, Shape
<1>11. ProvingInv'
  BY <1>s DEF ProvingInv, CurrentInv, MemberPcs, ForwardPcs, CancelPcs,
     BoundPcs, Quiet, Shape
<1>12. ClosingInv'
  BY <1>s DEF ClosingInv, CurrentInv, MemberPcs, ForwardPcs, CancelPcs,
     BoundPcs, Quiet, Shape
<1>13. RecoverInv'
  BY <1>s DEF RecoverInv, RowInv, Shape
<1>14. BatchInv'
  BY <1>s DEF BatchInv, WorkerPcs, Shape
<1>15. OneAfterAnother'
  BY <1>s DEF OneAfterAnother, StartInv, RowInv, CurrentInv, AheadInv,
     BehindInv, ArmingInv, ProvingInv, ClosingInv, MemberPcs, ForwardPcs,
     CancelPcs, BoundPcs, Shape
<1> QED
  BY <1>1, <1>2, <1>3, <1>4, <1>5, <1>6, <1>7, <1>8, <1>9, <1>10, <1>11,
     <1>12, <1>13, <1>14, <1>15

LEMMA CloseHandleInv ==
  ASSUME IInv, CloseHandle
  PROVE  IInv'
<1> USE DispositionAssumption DEF IInv, Goto, Fault, NoFault, rows, disk,
        guardian, channel, locals, bounds, Items, CloseHandle, CloseHandleAs,
        HandlesClose
<1>s. Shape
  BY Shapes
<1>1. TypeOK'
  <2>1. pc' \in Pcs
    BY DEF TypeOK, Pcs, WorkerPcs
  <2>2. /\ faults' \in 0..MaxFaults /\ crashes' \in 0..MaxCrashes
        /\ kills' \in 0..MaxKills
    BY DEF TypeOK
  <2>3. present' \in [Items -> BOOLEAN]
    BY DEF TypeOK
  <2>4. armed' \in [Items -> BOOLEAN]
    BY DEF TypeOK
  <2>5. gphase' \in [Items -> Phases]
    BY DEF TypeOK, Phases, Holding, Serving
  <2>6. phold' \in [Items -> BOOLEAN]
    BY DEF TypeOK
  <2> QED
    BY <2>1, <2>2, <2>3, <2>4, <2>5, <2>6 DEF TypeOK
<1>2. HandleInv'
  BY <1>s DEF HandleInv, Held, StartInv, CurrentInv, MemberPcs, ForwardPcs,
     CancelPcs, BoundPcs, Shape, Holding, Serving
<1>3. RowInv'
  BY <1>s DEF RowInv, StartInv, CurrentInv, ClosingInv, MemberPcs, ForwardPcs,
     CancelPcs, BoundPcs, Shape
<1>4. GuardInv'
  BY <1>s DEF GuardInv, HandleInv, RowInv, Held, ArmingInv, ProvingInv,
     ClosingInv, CurrentInv, MemberPcs, ForwardPcs, CancelPcs, BoundPcs,
     Holding, Serving, Shape, Quiet
<1>5. StartInv'
  BY <1>s DEF StartInv, WorkerPcs, Quiet, Shape
<1>6. CurrentInv'
  BY <1>s DEF CurrentInv, MemberPcs, ForwardPcs, CancelPcs, BoundPcs, Shape
<1>7. AheadInv'
  BY <1>s DEF AheadInv, CurrentInv, MemberPcs, ForwardPcs, CancelPcs,
     BoundPcs, Shape
<1>8. BehindInv'
  BY <1>s DEF BehindInv, CurrentInv, MemberPcs, ForwardPcs, CancelPcs,
     BoundPcs, Fresh, Quiet, Shape
<1>9. CancelledInv'
  BY <1>s DEF CancelledInv, CurrentInv, MemberPcs, ForwardPcs, CancelPcs,
     BoundPcs, Shape
<1>10. ArmingInv'
  BY <1>s DEF ArmingInv, CurrentInv, MemberPcs, ForwardPcs, CancelPcs,
     BoundPcs, Fresh, Quiet, Shape
<1>11. ProvingInv'
  BY <1>s DEF ProvingInv, CurrentInv, MemberPcs, ForwardPcs, CancelPcs,
     BoundPcs, Quiet, Shape
<1>12. ClosingInv'
  BY <1>s DEF ClosingInv, CurrentInv, MemberPcs, ForwardPcs, CancelPcs,
     BoundPcs, Quiet, Shape, Holding, Serving, HandleInv
<1>13. RecoverInv'
  BY <1>s DEF RecoverInv, RowInv, Shape
<1>14. BatchInv'
  BY <1>s DEF BatchInv, WorkerPcs, Shape
<1>15. OneAfterAnother'
  BY <1>s DEF OneAfterAnother, StartInv, RowInv, CurrentInv, AheadInv,
     BehindInv, ArmingInv, ProvingInv, ClosingInv, MemberPcs, ForwardPcs,
     CancelPcs, BoundPcs, Shape
<1> QED
  BY <1>1, <1>2, <1>3, <1>4, <1>5, <1>6, <1>7, <1>8, <1>9, <1>10, <1>11,
     <1>12, <1>13, <1>14, <1>15

LEMMA MarkParentInv ==
  ASSUME IInv, MarkParentClosed
  PROVE  IInv'
<1> USE DispositionAssumption DEF IInv, Goto, Fault, NoFault, rows, disk,
        guardian, channel, locals, bounds, Items, MarkParentClosed, Journal
<1>s. Shape
  BY Shapes
<1>1. TypeOK'
  <2>1. pc' \in Pcs
    BY DEF TypeOK, Pcs, WorkerPcs
  <2>2. /\ faults' \in 0..MaxFaults /\ crashes' \in 0..MaxCrashes
        /\ kills' \in 0..MaxKills
    BY DEF TypeOK
  <2>3. gstate' \in [Items -> GuardianStates]
    BY DEF TypeOK, GuardianStates
  <2> QED
    BY <2>1, <2>2, <2>3 DEF TypeOK
<1>2. HandleInv'
  BY <1>s DEF HandleInv, Held, StartInv, CurrentInv, MemberPcs, ForwardPcs,
     CancelPcs, BoundPcs, Shape, Holding, Serving
<1>3. RowInv'
  BY <1>s DEF RowInv, StartInv, CurrentInv, ClosingInv, MemberPcs, ForwardPcs,
     CancelPcs, BoundPcs, Shape
<1>4. GuardInv'
  BY <1>s DEF GuardInv, HandleInv, RowInv, Held, ArmingInv, ProvingInv,
     ClosingInv, CurrentInv, MemberPcs, ForwardPcs, CancelPcs, BoundPcs,
     Holding, Serving, Shape, Quiet
<1>5. StartInv'
  BY <1>s DEF StartInv, WorkerPcs, Quiet, Shape
<1>6. CurrentInv'
  BY <1>s DEF CurrentInv, MemberPcs, ForwardPcs, CancelPcs, BoundPcs, Shape
<1>7. AheadInv'
  BY <1>s DEF AheadInv, CurrentInv, MemberPcs, ForwardPcs, CancelPcs,
     BoundPcs, Shape
<1>8. BehindInv'
  BY <1>s DEF BehindInv, CurrentInv, MemberPcs, ForwardPcs, CancelPcs,
     BoundPcs, Fresh, Quiet, Shape
<1>9. CancelledInv'
  BY <1>s DEF CancelledInv, CurrentInv, MemberPcs, ForwardPcs, CancelPcs,
     BoundPcs, Shape
<1>10. ArmingInv'
  BY <1>s DEF ArmingInv, CurrentInv, MemberPcs, ForwardPcs, CancelPcs,
     BoundPcs, Fresh, Quiet, Shape
<1>11. ProvingInv'
  BY <1>s DEF ProvingInv, CurrentInv, MemberPcs, ForwardPcs, CancelPcs,
     BoundPcs, Quiet, Shape
<1>12. ClosingInv'
  BY <1>s DEF ClosingInv, CurrentInv, MemberPcs, ForwardPcs, CancelPcs,
     BoundPcs, Quiet, Shape
<1>13. RecoverInv'
  BY <1>s DEF RecoverInv, RowInv, Shape
<1>14. BatchInv'
  BY <1>s DEF BatchInv, WorkerPcs, Shape
<1>15. OneAfterAnother'
  BY <1>s DEF OneAfterAnother, StartInv, RowInv, CurrentInv, AheadInv,
     BehindInv, ArmingInv, ProvingInv, ClosingInv, MemberPcs, ForwardPcs,
     CancelPcs, BoundPcs, Shape
<1> QED
  BY <1>1, <1>2, <1>3, <1>4, <1>5, <1>6, <1>7, <1>8, <1>9, <1>10, <1>11,
     <1>12, <1>13, <1>14, <1>15

LEMMA OutcomeUnknownInv ==
  ASSUME IInv, RecordOutcomeUnknown
  PROVE  IInv'
<1> USE DispositionAssumption DEF IInv, Goto, Fault, NoFault, rows, disk,
        guardian, channel, locals, bounds, Items, RecordOutcomeUnknown
<1>s. Shape
  BY Shapes
<1>1. TypeOK'
  <2>1. pc' \in Pcs
    BY DEF TypeOK, Pcs, WorkerPcs
  <2>2. /\ faults' \in 0..MaxFaults /\ crashes' \in 0..MaxCrashes
        /\ kills' \in 0..MaxKills
    BY DEF TypeOK
  <2>3. item' \in [Items -> {"ready", "deleting", "interrupted", "deleted", "blocked"}]
    BY DEF TypeOK
  <2>4. opItem' \in [Items -> {"pending", "deleting", "done", "failed",
                           "rolled_back", "skipped"}]
    BY DEF TypeOK
  <2> QED
    BY <2>1, <2>2, <2>3, <2>4 DEF TypeOK
<1>2. HandleInv'
  BY <1>s DEF HandleInv, Held, StartInv, CurrentInv, MemberPcs, ForwardPcs,
     CancelPcs, BoundPcs, Shape, Holding, Serving
<1>3. RowInv'
  BY <1>s DEF RowInv, StartInv, CurrentInv, ClosingInv, MemberPcs, ForwardPcs,
     CancelPcs, BoundPcs, Shape
<1>4. GuardInv'
  BY <1>s DEF GuardInv, HandleInv, RowInv, Held, ArmingInv, ProvingInv,
     ClosingInv, CurrentInv, MemberPcs, ForwardPcs, CancelPcs, BoundPcs,
     Holding, Serving, Shape, Quiet
<1>5. StartInv'
  BY <1>s DEF StartInv, WorkerPcs, Quiet, Shape
<1>6. CurrentInv'
  BY <1>s DEF CurrentInv, MemberPcs, ForwardPcs, CancelPcs, BoundPcs, Shape
<1>7. AheadInv'
  BY <1>s DEF AheadInv, CurrentInv, MemberPcs, ForwardPcs, CancelPcs,
     BoundPcs, Shape
<1>8. BehindInv'
  BY <1>s DEF BehindInv, CurrentInv, MemberPcs, ForwardPcs, CancelPcs,
     BoundPcs, Fresh, Quiet, Shape
<1>9. CancelledInv'
  BY <1>s DEF CancelledInv, CurrentInv, MemberPcs, ForwardPcs, CancelPcs,
     BoundPcs, Shape
<1>10. ArmingInv'
  BY <1>s DEF ArmingInv, CurrentInv, MemberPcs, ForwardPcs, CancelPcs,
     BoundPcs, Fresh, Quiet, Shape
<1>11. ProvingInv'
  BY <1>s DEF ProvingInv, CurrentInv, MemberPcs, ForwardPcs, CancelPcs,
     BoundPcs, Quiet, Shape
<1>12. ClosingInv'
  BY <1>s DEF ClosingInv, CurrentInv, MemberPcs, ForwardPcs, CancelPcs,
     BoundPcs, Quiet, Shape
<1>13. RecoverInv'
  BY <1>s DEF RecoverInv, RowInv, Shape
<1>14. BatchInv'
  BY <1>s DEF BatchInv, WorkerPcs, Shape
<1>15. OneAfterAnother'
  BY <1>s DEF OneAfterAnother, StartInv, RowInv, CurrentInv, AheadInv,
     BehindInv, ArmingInv, ProvingInv, ClosingInv, MemberPcs, ForwardPcs,
     CancelPcs, BoundPcs, Shape
<1> QED
  BY <1>1, <1>2, <1>3, <1>4, <1>5, <1>6, <1>7, <1>8, <1>9, <1>10, <1>11,
     <1>12, <1>13, <1>14, <1>15

LEMMA SuccessInv ==
  ASSUME IInv, RecordSuccess
  PROVE  IInv'
<1> USE DispositionAssumption DEF IInv, Goto, Fault, NoFault, rows, disk,
        guardian, channel, locals, bounds, Items, RecordSuccess
<1>s. Shape
  BY Shapes
<1>1. TypeOK'
  <2>1. pc' \in Pcs
    BY DEF TypeOK, Pcs, WorkerPcs
  <2>2. /\ faults' \in 0..MaxFaults /\ crashes' \in 0..MaxCrashes
        /\ kills' \in 0..MaxKills
    <3>1. UNCHANGED <<crashes, kills>>
      OBVIOUS
    <3>2. faults' = faults \/ (faults < MaxFaults /\ faults' = faults + 1)
      OBVIOUS
    <3> QED
      BY ONLY <3>1, <3>2, IInv, DispositionAssumption DEF IInv, TypeOK
  <2>3. entry' \in [Items -> {"quarantined", "deleting", "permanently_deleted"}]
    BY DEF TypeOK
  <2>4. item' \in [Items -> {"ready", "deleting", "interrupted", "deleted", "blocked"}]
    BY DEF TypeOK
  <2>5. opItem' \in [Items -> {"pending", "deleting", "done", "failed",
                           "rolled_back", "skipped"}]
    <3>1. opItem' = opItem \/ opItem' = [opItem EXCEPT ![cur] = "done"]
      OBVIOUS
    <3>2. opItem \in [Items -> {"pending", "deleting", "done", "failed",
                           "rolled_back", "skipped"}]
      BY ONLY IInv DEF IInv, TypeOK
    <3> QED
      BY ONLY <3>1, <3>2
  <2>6. reason' \in [Items -> {"none", "unproved", "proved"}]
    BY DEF TypeOK
  <2> QED
    BY <2>1, <2>2, <2>3, <2>4, <2>5, <2>6 DEF TypeOK
<1>2. HandleInv'
  BY <1>s DEF HandleInv, Held, StartInv, CurrentInv, MemberPcs, ForwardPcs,
     CancelPcs, BoundPcs, Shape, Holding, Serving
<1>3. RowInv'
  BY <1>s DEF RowInv, StartInv, CurrentInv, ClosingInv, MemberPcs, ForwardPcs,
     CancelPcs, BoundPcs, Shape
<1>4. GuardInv'
  BY <1>s DEF GuardInv, HandleInv, RowInv, Held, ArmingInv, ProvingInv,
     ClosingInv, CurrentInv, MemberPcs, ForwardPcs, CancelPcs, BoundPcs,
     Holding, Serving, Shape, Quiet
<1>5. StartInv'
  BY <1>s DEF StartInv, WorkerPcs, Quiet, Shape
<1>6. CurrentInv'
  BY <1>s DEF CurrentInv, MemberPcs, ForwardPcs, CancelPcs, BoundPcs, Shape
<1>7. AheadInv'
  BY <1>s DEF AheadInv, CurrentInv, MemberPcs, ForwardPcs, CancelPcs,
     BoundPcs, Shape
<1>8. BehindInv'
  BY <1>s DEF BehindInv, CurrentInv, MemberPcs, ForwardPcs, CancelPcs,
     BoundPcs, Fresh, Quiet, Shape
<1>9. CancelledInv'
  BY <1>s DEF CancelledInv, CurrentInv, MemberPcs, ForwardPcs, CancelPcs,
     BoundPcs, Shape
<1>10. ArmingInv'
  BY <1>s DEF ArmingInv, CurrentInv, MemberPcs, ForwardPcs, CancelPcs,
     BoundPcs, Fresh, Quiet, Shape
<1>11. ProvingInv'
  BY <1>s DEF ProvingInv, CurrentInv, MemberPcs, ForwardPcs, CancelPcs,
     BoundPcs, Quiet, Shape
<1>12. ClosingInv'
  BY <1>s DEF ClosingInv, CurrentInv, MemberPcs, ForwardPcs, CancelPcs,
     BoundPcs, Quiet, Shape
<1>13. RecoverInv'
  BY <1>s DEF RecoverInv, RowInv, Shape
<1>14. BatchInv'
  BY <1>s DEF BatchInv, WorkerPcs, Shape
<1>15. OneAfterAnother'
  BY <1>s DEF OneAfterAnother, StartInv, RowInv, CurrentInv, AheadInv,
     BehindInv, ArmingInv, ProvingInv, ClosingInv, MemberPcs, ForwardPcs,
     CancelPcs, BoundPcs, Shape
<1> QED
  BY <1>1, <1>2, <1>3, <1>4, <1>5, <1>6, <1>7, <1>8, <1>9, <1>10, <1>11,
     <1>12, <1>13, <1>14, <1>15

LEMMA CleanupInv ==
  ASSUME IInv, CleanupReceipt("cleanup", "journal_cleanup")
  PROVE  IInv'
<1> USE DispositionAssumption DEF IInv, Goto, Fault, NoFault, rows, disk,
        guardian, channel, locals, bounds, Items, CleanupReceipt
<1>s. Shape
  BY Shapes
<1>1. TypeOK'
  <2>1. pc' \in Pcs
    BY DEF TypeOK, Pcs, WorkerPcs
  <2>2. /\ faults' \in 0..MaxFaults /\ crashes' \in 0..MaxCrashes
        /\ kills' \in 0..MaxKills
    <3>1. UNCHANGED <<crashes, kills>>
      OBVIOUS
    <3>2. faults' = faults \/ (faults < MaxFaults /\ faults' = faults + 1)
      OBVIOUS
    <3> QED
      BY ONLY <3>1, <3>2, IInv, DispositionAssumption DEF IInv, TypeOK
  <2>3. receipt' \in [Items -> {"none", "empty", "flushed"}]
    BY DEF TypeOK
  <2>4. pipe' \in [Items -> BOOLEAN]
    BY DEF TypeOK
  <2> QED
    BY <2>1, <2>2, <2>3, <2>4 DEF TypeOK
<1>2. HandleInv'
  BY <1>s DEF HandleInv, Held, StartInv, CurrentInv, MemberPcs, ForwardPcs,
     CancelPcs, BoundPcs, Shape, Holding, Serving
<1>3. RowInv'
  BY <1>s DEF RowInv, StartInv, CurrentInv, ClosingInv, MemberPcs, ForwardPcs,
     CancelPcs, BoundPcs, Shape
<1>4. GuardInv'
  BY <1>s DEF GuardInv, HandleInv, RowInv, Held, ArmingInv, ProvingInv,
     ClosingInv, CurrentInv, MemberPcs, ForwardPcs, CancelPcs, BoundPcs,
     Holding, Serving, Shape, Quiet, Gone
<1>5. StartInv'
  BY <1>s DEF StartInv, WorkerPcs, Quiet, Shape
<1>6. CurrentInv'
  BY <1>s DEF CurrentInv, MemberPcs, ForwardPcs, CancelPcs, BoundPcs, Shape
<1>7. AheadInv'
  BY <1>s DEF AheadInv, CurrentInv, MemberPcs, ForwardPcs, CancelPcs,
     BoundPcs, Shape
<1>8. BehindInv'
  BY <1>s DEF BehindInv, CurrentInv, MemberPcs, ForwardPcs, CancelPcs,
     BoundPcs, Fresh, Quiet, Shape
<1>9. CancelledInv'
  BY <1>s DEF CancelledInv, CurrentInv, MemberPcs, ForwardPcs, CancelPcs,
     BoundPcs, Shape
<1>10. ArmingInv'
  BY <1>s DEF ArmingInv, CurrentInv, MemberPcs, ForwardPcs, CancelPcs,
     BoundPcs, Fresh, Quiet, Shape
<1>11. ProvingInv'
  BY <1>s DEF ProvingInv, CurrentInv, MemberPcs, ForwardPcs, CancelPcs,
     BoundPcs, Quiet, Shape
<1>12. ClosingInv'
  BY <1>s DEF ClosingInv, CurrentInv, MemberPcs, ForwardPcs, CancelPcs,
     BoundPcs, Quiet, Shape
<1>13. RecoverInv'
  BY <1>s DEF RecoverInv, RowInv, Shape
<1>14. BatchInv'
  BY <1>s DEF BatchInv, WorkerPcs, Shape
<1>15. OneAfterAnother'
  BY <1>s DEF OneAfterAnother, StartInv, RowInv, CurrentInv, AheadInv,
     BehindInv, ArmingInv, ProvingInv, ClosingInv, MemberPcs, ForwardPcs,
     CancelPcs, BoundPcs, Shape
<1> QED
  BY <1>1, <1>2, <1>3, <1>4, <1>5, <1>6, <1>7, <1>8, <1>9, <1>10, <1>11,
     <1>12, <1>13, <1>14, <1>15

LEMMA JournalCleanupInv ==
  ASSUME IInv, JournalCleanup
  PROVE  IInv'
<1> USE DispositionAssumption DEF IInv, Goto, Fault, NoFault, rows, disk,
        guardian, channel, locals, bounds, Items, JournalCleanup,
        JournalCleanupThen
<1>s. Shape
  BY Shapes
<1>1. TypeOK'
  <2>1. pc' \in Pcs
    BY DEF TypeOK, Pcs, WorkerPcs
  <2>2. /\ faults' \in 0..MaxFaults /\ crashes' \in 0..MaxCrashes
        /\ kills' \in 0..MaxKills
    BY DEF TypeOK
  <2>3. cleaned' \in [Items -> BOOLEAN]
    BY DEF TypeOK
  <2>4. cur' \in 0..NItems + 1
    BY DEF TypeOK, RecoverInv
  <2> QED
    BY <2>1, <2>2, <2>3, <2>4 DEF TypeOK
<1>2. HandleInv'
  BY <1>s DEF HandleInv, Held, StartInv, CurrentInv, MemberPcs, ForwardPcs,
     CancelPcs, BoundPcs, Shape, Holding, Serving
<1>3. RowInv'
  BY <1>s DEF RowInv, StartInv, CurrentInv, ClosingInv, MemberPcs, ForwardPcs,
     CancelPcs, BoundPcs, Shape
<1>4. GuardInv'
  BY <1>s DEF GuardInv, HandleInv, RowInv, Held, ArmingInv, ProvingInv,
     ClosingInv, CurrentInv, MemberPcs, ForwardPcs, CancelPcs, BoundPcs,
     Holding, Serving, Shape, Quiet
<1>5. StartInv'
  BY <1>s DEF StartInv, WorkerPcs, Quiet, Shape
<1>6. CurrentInv'
  BY <1>s DEF CurrentInv, MemberPcs, ForwardPcs, CancelPcs, BoundPcs, Shape,
     BehindInv
<1>7. AheadInv'
  BY <1>s DEF AheadInv, CurrentInv, MemberPcs, ForwardPcs, CancelPcs,
     BoundPcs, Shape, RowInv
<1>8. BehindInv'
  BY <1>s DEF BehindInv, CurrentInv, MemberPcs, ForwardPcs, CancelPcs,
     BoundPcs, Fresh, Quiet, Shape
<1>9. CancelledInv'
  BY <1>s DEF CancelledInv, CurrentInv, MemberPcs, ForwardPcs, CancelPcs,
     BoundPcs, Shape, RowInv
<1>10. ArmingInv'
  BY <1>s DEF ArmingInv, CurrentInv, MemberPcs, ForwardPcs, CancelPcs,
     BoundPcs, Fresh, Quiet, Shape, BehindInv
<1>11. ProvingInv'
  BY <1>s DEF ProvingInv, CurrentInv, MemberPcs, ForwardPcs, CancelPcs,
     BoundPcs, Quiet, Shape
<1>12. ClosingInv'
  BY <1>s DEF ClosingInv, CurrentInv, MemberPcs, ForwardPcs, CancelPcs,
     BoundPcs, Quiet, Shape
<1>13. RecoverInv'
  BY <1>s DEF RecoverInv, RowInv, Shape
<1>14. BatchInv'
  BY <1>s DEF BatchInv, WorkerPcs, Shape
<1>15. OneAfterAnother'
  BY <1>s DEF OneAfterAnother, StartInv, RowInv, CurrentInv, AheadInv,
     BehindInv, ArmingInv, ProvingInv, ClosingInv, MemberPcs, ForwardPcs,
     CancelPcs, BoundPcs, Shape
<1> QED
  BY <1>1, <1>2, <1>3, <1>4, <1>5, <1>6, <1>7, <1>8, <1>9, <1>10, <1>11,
     <1>12, <1>13, <1>14, <1>15

LEMMA CancelInv ==
  ASSUME IInv, Cancel
  PROVE  IInv'
<1> USE DispositionAssumption DEF IInv, Goto, Fault, NoFault, rows, disk,
        guardian, channel, locals, bounds, Items, Cancel
<1>s. Shape
  BY Shapes
<1>1. TypeOK'
  <2>1. pc' \in Pcs
    BY DEF TypeOK, Pcs, WorkerPcs
  <2>2. /\ faults' \in 0..MaxFaults /\ crashes' \in 0..MaxCrashes
        /\ kills' \in 0..MaxKills
    BY DEF TypeOK
  <2>3. armed' \in [Items -> BOOLEAN]
    BY DEF TypeOK
  <2> QED
    BY <2>1, <2>2, <2>3 DEF TypeOK
<1>2. HandleInv'
  BY <1>s DEF HandleInv, Held, StartInv, CurrentInv, MemberPcs, ForwardPcs,
     CancelPcs, BoundPcs, Shape, Holding, Serving
<1>3. RowInv'
  BY <1>s DEF RowInv, StartInv, CurrentInv, ClosingInv, MemberPcs, ForwardPcs,
     CancelPcs, BoundPcs, Shape
<1>4. GuardInv'
  BY <1>s DEF GuardInv, HandleInv, RowInv, Held, ArmingInv, ProvingInv,
     ClosingInv, CurrentInv, MemberPcs, ForwardPcs, CancelPcs, BoundPcs,
     Holding, Serving, Shape, Quiet
<1>5. StartInv'
  BY <1>s DEF StartInv, WorkerPcs, Quiet, Shape
<1>6. CurrentInv'
  BY <1>s DEF CurrentInv, MemberPcs, ForwardPcs, CancelPcs, BoundPcs, Shape
<1>7. AheadInv'
  BY <1>s DEF AheadInv, CurrentInv, MemberPcs, ForwardPcs, CancelPcs,
     BoundPcs, Shape
<1>8. BehindInv'
  BY <1>s DEF BehindInv, CurrentInv, MemberPcs, ForwardPcs, CancelPcs,
     BoundPcs, Fresh, Quiet, Shape
<1>9. CancelledInv'
  BY <1>s DEF CancelledInv, CurrentInv, MemberPcs, ForwardPcs, CancelPcs,
     BoundPcs, Shape
<1>10. ArmingInv'
  BY <1>s DEF ArmingInv, CurrentInv, MemberPcs, ForwardPcs, CancelPcs,
     BoundPcs, Fresh, Quiet, Shape
<1>11. ProvingInv'
  BY <1>s DEF ProvingInv, CurrentInv, MemberPcs, ForwardPcs, CancelPcs,
     BoundPcs, Quiet, Shape
<1>12. ClosingInv'
  BY <1>s DEF ClosingInv, CurrentInv, MemberPcs, ForwardPcs, CancelPcs,
     BoundPcs, Quiet, Shape
<1>13. RecoverInv'
  BY <1>s DEF RecoverInv, RowInv, Shape
<1>14. BatchInv'
  BY <1>s DEF BatchInv, WorkerPcs, Shape
<1>15. OneAfterAnother'
  BY <1>s DEF OneAfterAnother, StartInv, RowInv, CurrentInv, AheadInv,
     BehindInv, ArmingInv, ProvingInv, ClosingInv, MemberPcs, ForwardPcs,
     CancelPcs, BoundPcs, Shape
<1> QED
  BY <1>1, <1>2, <1>3, <1>4, <1>5, <1>6, <1>7, <1>8, <1>9, <1>10, <1>11,
     <1>12, <1>13, <1>14, <1>15

LEMMA SendCancelInv ==
  ASSUME IInv, SendCancel
  PROVE  IInv'
<1> USE DispositionAssumption DEF IInv, Goto, Fault, NoFault, rows, disk,
        guardian, channel, locals, bounds, Items, SendCancel
<1>s. Shape
  BY Shapes
<1>1. TypeOK'
  <2>1. pc' \in Pcs
    BY DEF TypeOK, Pcs, WorkerPcs
  <2>2. /\ faults' \in 0..MaxFaults /\ crashes' \in 0..MaxCrashes
        /\ kills' \in 0..MaxKills
    BY DEF TypeOK
  <2>3. cmd' \in [Items -> Seq(Commands)]
    <3>1. \A s \in Seq(Commands) : Append(s, "cancel") \in Seq(Commands)
      BY DEF Commands
    <3>2. \A s \in Seq(Commands) : Append(s, "stale") \in Seq(Commands)
      BY DEF Commands
    <3>3. \/ cmd' = cmd \/ cmd' = [cmd EXCEPT ![cur] = Append(@, "cancel")]
          \/ cmd' = [cmd EXCEPT ![cur] = Append(@, "stale")]
      OBVIOUS
    <3>4. cmd \in [Items -> Seq(Commands)]
      BY ONLY IInv DEF IInv, TypeOK
    <3> QED
      BY ONLY <3>1, <3>2, <3>3, <3>4
  <2> QED
    BY <2>1, <2>2, <2>3 DEF TypeOK
<1>2. HandleInv'
  BY <1>s DEF HandleInv, Held, StartInv, CurrentInv, MemberPcs, ForwardPcs,
     CancelPcs, BoundPcs, Shape, Holding, Serving
<1>3. RowInv'
  BY <1>s DEF RowInv, StartInv, CurrentInv, ClosingInv, MemberPcs, ForwardPcs,
     CancelPcs, BoundPcs, Shape
<1>4. GuardInv'
  BY <1>s DEF GuardInv, HandleInv, RowInv, Held, ArmingInv, ProvingInv,
     ClosingInv, CurrentInv, MemberPcs, ForwardPcs, CancelPcs, BoundPcs,
     Holding, Serving, Shape, Quiet
<1>5. StartInv'
  BY <1>s DEF StartInv, WorkerPcs, Quiet, Shape
<1>6. CurrentInv'
  BY <1>s DEF CurrentInv, MemberPcs, ForwardPcs, CancelPcs, BoundPcs, Shape
<1>7. AheadInv'
  BY <1>s DEF AheadInv, CurrentInv, MemberPcs, ForwardPcs, CancelPcs,
     BoundPcs, Shape
<1>8. BehindInv'
  BY <1>s DEF BehindInv, CurrentInv, MemberPcs, ForwardPcs, CancelPcs,
     BoundPcs, Fresh, Quiet, Shape
<1>9. CancelledInv'
  BY <1>s DEF CancelledInv, CurrentInv, MemberPcs, ForwardPcs, CancelPcs,
     BoundPcs, Shape
<1>10. ArmingInv'
  BY <1>s DEF ArmingInv, CurrentInv, MemberPcs, ForwardPcs, CancelPcs,
     BoundPcs, Fresh, Quiet, Shape
<1>11. ProvingInv'
  BY <1>s DEF ProvingInv, CurrentInv, MemberPcs, ForwardPcs, CancelPcs,
     BoundPcs, Quiet, Shape
<1>12. ClosingInv'
  BY <1>s DEF ClosingInv, CurrentInv, MemberPcs, ForwardPcs, CancelPcs,
     BoundPcs, Quiet, Shape
<1>13. RecoverInv'
  BY <1>s DEF RecoverInv, RowInv, Shape
<1>14. BatchInv'
  BY <1>s DEF BatchInv, WorkerPcs, Shape
<1>15. OneAfterAnother'
  BY <1>s DEF OneAfterAnother, StartInv, RowInv, CurrentInv, AheadInv,
     BehindInv, ArmingInv, ProvingInv, ClosingInv, MemberPcs, ForwardPcs,
     CancelPcs, BoundPcs, Shape
<1> QED
  BY <1>1, <1>2, <1>3, <1>4, <1>5, <1>6, <1>7, <1>8, <1>9, <1>10, <1>11,
     <1>12, <1>13, <1>14, <1>15

LEMMA AwaitCancelInv ==
  ASSUME IInv, AwaitCancel
  PROVE  IInv'
<1> USE DispositionAssumption DEF IInv, Goto, Fault, NoFault, rows, disk,
        guardian, channel, locals, bounds, Items, AwaitCancel, Unanswered
<1>s. Shape
  BY Shapes
<1>1. TypeOK'
  <2>1. pc' \in Pcs
    BY DEF TypeOK, Pcs, WorkerPcs
  <2>2. /\ faults' \in 0..MaxFaults /\ crashes' \in 0..MaxCrashes
        /\ kills' \in 0..MaxKills
    BY DEF TypeOK
  <2>3. reply' \in [Items -> Replies]
    BY DEF TypeOK, Replies
  <2> QED
    BY <2>1, <2>2, <2>3 DEF TypeOK
<1>2. HandleInv'
  BY <1>s DEF HandleInv, Held, StartInv, CurrentInv, MemberPcs, ForwardPcs,
     CancelPcs, BoundPcs, Shape, Holding, Serving
<1>3. RowInv'
  BY <1>s DEF RowInv, StartInv, CurrentInv, ClosingInv, MemberPcs, ForwardPcs,
     CancelPcs, BoundPcs, Shape
<1>4. GuardInv'
  BY <1>s DEF GuardInv, HandleInv, RowInv, Held, ArmingInv, ProvingInv,
     ClosingInv, CurrentInv, MemberPcs, ForwardPcs, CancelPcs, BoundPcs,
     Holding, Serving, Shape, Quiet
<1>5. StartInv'
  BY <1>s DEF StartInv, WorkerPcs, Quiet, Shape
<1>6. CurrentInv'
  BY <1>s DEF CurrentInv, MemberPcs, ForwardPcs, CancelPcs, BoundPcs, Shape
<1>7. AheadInv'
  BY <1>s DEF AheadInv, CurrentInv, MemberPcs, ForwardPcs, CancelPcs,
     BoundPcs, Shape
<1>8. BehindInv'
  BY <1>s DEF BehindInv, CurrentInv, MemberPcs, ForwardPcs, CancelPcs,
     BoundPcs, Fresh, Quiet, Shape
<1>9. CancelledInv'
  BY <1>s DEF CancelledInv, CurrentInv, MemberPcs, ForwardPcs, CancelPcs,
     BoundPcs, Shape, GuardInv
<1>10. ArmingInv'
  BY <1>s DEF ArmingInv, CurrentInv, MemberPcs, ForwardPcs, CancelPcs,
     BoundPcs, Fresh, Quiet, Shape
<1>11. ProvingInv'
  BY <1>s DEF ProvingInv, CurrentInv, MemberPcs, ForwardPcs, CancelPcs,
     BoundPcs, Quiet, Shape
<1>12. ClosingInv'
  BY <1>s DEF ClosingInv, CurrentInv, MemberPcs, ForwardPcs, CancelPcs,
     BoundPcs, Quiet, Shape
<1>13. RecoverInv'
  BY <1>s DEF RecoverInv, RowInv, Shape
<1>14. BatchInv'
  BY <1>s DEF BatchInv, WorkerPcs, Shape
<1>15. OneAfterAnother'
  BY <1>s DEF OneAfterAnother, StartInv, RowInv, CurrentInv, AheadInv,
     BehindInv, ArmingInv, ProvingInv, ClosingInv, MemberPcs, ForwardPcs,
     CancelPcs, BoundPcs, Shape
<1> QED
  BY <1>1, <1>2, <1>3, <1>4, <1>5, <1>6, <1>7, <1>8, <1>9, <1>10, <1>11,
     <1>12, <1>13, <1>14, <1>15

LEMMA JournalCancelInv ==
  ASSUME IInv, JournalCancel
  PROVE  IInv'
<1> USE DispositionAssumption DEF IInv, Goto, Fault, NoFault, rows, disk,
        guardian, channel, locals, bounds, Items, JournalCancel,
        JournalCancelAs
<1>s. Shape
  BY Shapes
<1>1. TypeOK'
  <2>1. pc' \in Pcs
    BY DEF TypeOK, Pcs, WorkerPcs
  <2>2. /\ faults' \in 0..MaxFaults /\ crashes' \in 0..MaxCrashes
        /\ kills' \in 0..MaxKills
    BY DEF TypeOK
  <2>3. gstate' \in [Items -> GuardianStates]
    BY DEF TypeOK, GuardianStates
  <2> QED
    BY <2>1, <2>2, <2>3 DEF TypeOK
<1>2. HandleInv'
  BY <1>s DEF HandleInv, Held, StartInv, CurrentInv, MemberPcs, ForwardPcs,
     CancelPcs, BoundPcs, Shape, Holding, Serving
<1>3. RowInv'
  BY <1>s DEF RowInv, StartInv, CurrentInv, ClosingInv, MemberPcs, ForwardPcs,
     CancelPcs, BoundPcs, Shape
<1>4. GuardInv'
  BY <1>s DEF GuardInv, HandleInv, RowInv, Held, ArmingInv, ProvingInv,
     ClosingInv, CurrentInv, MemberPcs, ForwardPcs, CancelPcs, BoundPcs,
     Holding, Serving, Shape, Quiet
<1>5. StartInv'
  BY <1>s DEF StartInv, WorkerPcs, Quiet, Shape
<1>6. CurrentInv'
  BY <1>s DEF CurrentInv, MemberPcs, ForwardPcs, CancelPcs, BoundPcs, Shape
<1>7. AheadInv'
  BY <1>s DEF AheadInv, CurrentInv, MemberPcs, ForwardPcs, CancelPcs,
     BoundPcs, Shape
<1>8. BehindInv'
  BY <1>s DEF BehindInv, CurrentInv, MemberPcs, ForwardPcs, CancelPcs,
     BoundPcs, Fresh, Quiet, Shape
<1>9. CancelledInv'
  BY <1>s DEF CancelledInv, CurrentInv, MemberPcs, ForwardPcs, CancelPcs,
     BoundPcs, Shape
<1>10. ArmingInv'
  BY <1>s DEF ArmingInv, CurrentInv, MemberPcs, ForwardPcs, CancelPcs,
     BoundPcs, Fresh, Quiet, Shape
<1>11. ProvingInv'
  BY <1>s DEF ProvingInv, CurrentInv, MemberPcs, ForwardPcs, CancelPcs,
     BoundPcs, Quiet, Shape
<1>12. ClosingInv'
  BY <1>s DEF ClosingInv, CurrentInv, MemberPcs, ForwardPcs, CancelPcs,
     BoundPcs, Quiet, Shape
<1>13. RecoverInv'
  BY <1>s DEF RecoverInv, RowInv, Shape
<1>14. BatchInv'
  BY <1>s DEF BatchInv, WorkerPcs, Shape
<1>15. OneAfterAnother'
  BY <1>s DEF OneAfterAnother, StartInv, RowInv, CurrentInv, AheadInv,
     BehindInv, ArmingInv, ProvingInv, ClosingInv, MemberPcs, ForwardPcs,
     CancelPcs, BoundPcs, Shape
<1> QED
  BY <1>1, <1>2, <1>3, <1>4, <1>5, <1>6, <1>7, <1>8, <1>9, <1>10, <1>11,
     <1>12, <1>13, <1>14, <1>15

LEMMA DropInv ==
  ASSUME IInv, DropHandle
  PROVE  IInv'
<1> USE DispositionAssumption DEF IInv, Goto, Fault, NoFault, rows, disk,
        guardian, channel, locals, bounds, Items, DropHandle, HandlesClose
<1>s. Shape
  BY Shapes
<1>1. TypeOK'
  <2>1. pc' \in Pcs
    BY DEF TypeOK, Pcs, WorkerPcs
  <2>2. /\ faults' \in 0..MaxFaults /\ crashes' \in 0..MaxCrashes
        /\ kills' \in 0..MaxKills
    BY DEF TypeOK
  <2>3. present' \in [Items -> BOOLEAN]
    BY DEF TypeOK
  <2>4. armed' \in [Items -> BOOLEAN]
    BY DEF TypeOK
  <2>5. gphase' \in [Items -> Phases]
    BY DEF TypeOK, Phases, Holding, Serving
  <2>6. phold' \in [Items -> BOOLEAN]
    BY DEF TypeOK
  <2> QED
    BY <2>1, <2>2, <2>3, <2>4, <2>5, <2>6 DEF TypeOK
<1>2. HandleInv'
  BY <1>s DEF HandleInv, Held, StartInv, CurrentInv, MemberPcs, ForwardPcs,
     CancelPcs, BoundPcs, Shape, Holding, Serving
<1>3. RowInv'
  BY <1>s DEF RowInv, StartInv, CurrentInv, ClosingInv, MemberPcs, ForwardPcs,
     CancelPcs, BoundPcs, Shape
<1>4. GuardInv'
  BY <1>s DEF GuardInv, HandleInv, RowInv, Held, ArmingInv, ProvingInv,
     ClosingInv, CurrentInv, MemberPcs, ForwardPcs, CancelPcs, BoundPcs,
     Holding, Serving, Shape, Quiet
<1>5. StartInv'
  BY <1>s DEF StartInv, WorkerPcs, Quiet, Shape
<1>6. CurrentInv'
  BY <1>s DEF CurrentInv, MemberPcs, ForwardPcs, CancelPcs, BoundPcs, Shape
<1>7. AheadInv'
  BY <1>s DEF AheadInv, CurrentInv, MemberPcs, ForwardPcs, CancelPcs,
     BoundPcs, Shape
<1>8. BehindInv'
  BY <1>s DEF BehindInv, CurrentInv, MemberPcs, ForwardPcs, CancelPcs,
     BoundPcs, Fresh, Quiet, Shape
<1>9. CancelledInv'
  BY <1>s DEF CancelledInv, CurrentInv, MemberPcs, ForwardPcs, CancelPcs,
     BoundPcs, Shape, HandleInv, Held
<1>10. ArmingInv'
  BY <1>s DEF ArmingInv, CurrentInv, MemberPcs, ForwardPcs, CancelPcs,
     BoundPcs, Fresh, Quiet, Shape
<1>11. ProvingInv'
  BY <1>s DEF ProvingInv, CurrentInv, MemberPcs, ForwardPcs, CancelPcs,
     BoundPcs, Quiet, Shape
<1>12. ClosingInv'
  BY <1>s DEF ClosingInv, CurrentInv, MemberPcs, ForwardPcs, CancelPcs,
     BoundPcs, Quiet, Shape
<1>13. RecoverInv'
  BY <1>s DEF RecoverInv, RowInv, Shape
<1>14. BatchInv'
  BY <1>s DEF BatchInv, WorkerPcs, Shape
<1>15. OneAfterAnother'
  BY <1>s DEF OneAfterAnother, StartInv, RowInv, CurrentInv, AheadInv,
     BehindInv, ArmingInv, ProvingInv, ClosingInv, MemberPcs, ForwardPcs,
     CancelPcs, BoundPcs, Shape
<1> QED
  BY <1>1, <1>2, <1>3, <1>4, <1>5, <1>6, <1>7, <1>8, <1>9, <1>10, <1>11,
     <1>12, <1>13, <1>14, <1>15

LEMMA CancelCleanupInv ==
  ASSUME IInv, CleanupReceipt("cancel_cleanup", "record_failure")
  PROVE  IInv'
<1> USE DispositionAssumption DEF IInv, Goto, Fault, NoFault, rows, disk,
        guardian, channel, locals, bounds, Items, CleanupReceipt
<1>s. Shape
  BY Shapes
<1>1. TypeOK'
  <2>1. pc' \in Pcs
    BY DEF TypeOK, Pcs, WorkerPcs
  <2>2. /\ faults' \in 0..MaxFaults /\ crashes' \in 0..MaxCrashes
        /\ kills' \in 0..MaxKills
    BY DEF TypeOK
  <2>3. receipt' \in [Items -> {"none", "empty", "flushed"}]
    BY DEF TypeOK
  <2>4. pipe' \in [Items -> BOOLEAN]
    BY DEF TypeOK
  <2> QED
    BY <2>1, <2>2, <2>3, <2>4 DEF TypeOK
<1>2. HandleInv'
  BY <1>s DEF HandleInv, Held, StartInv, CurrentInv, MemberPcs, ForwardPcs,
     CancelPcs, BoundPcs, Shape, Holding, Serving
<1>3. RowInv'
  BY <1>s DEF RowInv, StartInv, CurrentInv, ClosingInv, MemberPcs, ForwardPcs,
     CancelPcs, BoundPcs, Shape
<1>4. GuardInv'
  BY <1>s DEF GuardInv, CancelledInv, CurrentInv, Gone, Holding, Serving,
     MemberPcs, CancelPcs, Shape
<1>5. StartInv'
  BY <1>s DEF StartInv, WorkerPcs, Quiet, Shape
<1>6. CurrentInv'
  BY <1>s DEF CurrentInv, MemberPcs, ForwardPcs, CancelPcs, BoundPcs, Shape
<1>7. AheadInv'
  BY <1>s DEF AheadInv, CurrentInv, MemberPcs, ForwardPcs, CancelPcs,
     BoundPcs, Shape
<1>8. BehindInv'
  BY <1>s DEF BehindInv, CurrentInv, MemberPcs, ForwardPcs, CancelPcs,
     BoundPcs, Fresh, Quiet, Shape
<1>9. CancelledInv'
  BY <1>s DEF CancelledInv, CurrentInv, MemberPcs, ForwardPcs, CancelPcs,
     BoundPcs, Shape
<1>10. ArmingInv'
  BY <1>s DEF ArmingInv, CurrentInv, MemberPcs, ForwardPcs, CancelPcs,
     BoundPcs, Fresh, Quiet, Shape
<1>11. ProvingInv'
  BY <1>s DEF ProvingInv, CurrentInv, MemberPcs, ForwardPcs, CancelPcs,
     BoundPcs, Quiet, Shape
<1>12. ClosingInv'
  BY <1>s DEF ClosingInv, CurrentInv, MemberPcs, ForwardPcs, CancelPcs,
     BoundPcs, Quiet, Shape
<1>13. RecoverInv'
  BY <1>s DEF RecoverInv, RowInv, Shape
<1>14. BatchInv'
  BY <1>s DEF BatchInv, WorkerPcs, Shape
<1>15. OneAfterAnother'
  BY <1>s DEF OneAfterAnother, StartInv, RowInv, CurrentInv, AheadInv,
     BehindInv, ArmingInv, ProvingInv, ClosingInv, MemberPcs, ForwardPcs,
     CancelPcs, BoundPcs, Shape
<1> QED
  BY <1>1, <1>2, <1>3, <1>4, <1>5, <1>6, <1>7, <1>8, <1>9, <1>10, <1>11,
     <1>12, <1>13, <1>14, <1>15

LEMMA FailureInv ==
  ASSUME IInv, RecordFailure
  PROVE  IInv'
<1> USE DispositionAssumption DEF IInv, Goto, Fault, NoFault, rows, disk,
        guardian, channel, locals, bounds, Items, RecordFailure
<1>s. Shape
  BY Shapes
<1>1. TypeOK'
  <2>1. pc' \in Pcs
    BY DEF TypeOK, Pcs, WorkerPcs
  <2>2. /\ faults' \in 0..MaxFaults /\ crashes' \in 0..MaxCrashes
        /\ kills' \in 0..MaxKills
    BY DEF TypeOK
  <2>3. item' \in [Items -> {"ready", "deleting", "interrupted", "deleted", "blocked"}]
    BY DEF TypeOK
  <2>4. opItem' \in [Items -> {"pending", "deleting", "done", "failed",
                           "rolled_back", "skipped"}]
    BY DEF TypeOK
  <2>5. reason' \in [Items -> {"none", "unproved", "proved"}]
    BY DEF TypeOK
  <2> QED
    BY <2>1, <2>2, <2>3, <2>4, <2>5 DEF TypeOK
<1>2. HandleInv'
  BY <1>s DEF HandleInv, Held, StartInv, CurrentInv, MemberPcs, ForwardPcs,
     CancelPcs, BoundPcs, Shape, Holding, Serving
<1>3. RowInv'
  BY <1>s DEF RowInv, StartInv, CurrentInv, ClosingInv, MemberPcs, ForwardPcs,
     CancelPcs, BoundPcs, Shape
<1>4. GuardInv'
  BY <1>s DEF GuardInv, HandleInv, RowInv, Held, ArmingInv, ProvingInv,
     ClosingInv, CurrentInv, MemberPcs, ForwardPcs, CancelPcs, BoundPcs,
     Holding, Serving, Shape, Quiet
<1>5. StartInv'
  BY <1>s DEF StartInv, WorkerPcs, Quiet, Shape
<1>6. CurrentInv'
  BY <1>s DEF CurrentInv, MemberPcs, ForwardPcs, CancelPcs, BoundPcs, Shape
<1>7. AheadInv'
  BY <1>s DEF AheadInv, CurrentInv, MemberPcs, ForwardPcs, CancelPcs,
     BoundPcs, Shape
<1>8. BehindInv'
  BY <1>s DEF BehindInv, CurrentInv, MemberPcs, ForwardPcs, CancelPcs,
     BoundPcs, Fresh, Quiet, Shape
<1>9. CancelledInv'
  BY <1>s DEF CancelledInv, CurrentInv, MemberPcs, ForwardPcs, CancelPcs,
     BoundPcs, Shape
<1>10. ArmingInv'
  BY <1>s DEF ArmingInv, CurrentInv, MemberPcs, ForwardPcs, CancelPcs,
     BoundPcs, Fresh, Quiet, Shape
<1>11. ProvingInv'
  BY <1>s DEF ProvingInv, CurrentInv, MemberPcs, ForwardPcs, CancelPcs,
     BoundPcs, Quiet, Shape
<1>12. ClosingInv'
  BY <1>s DEF ClosingInv, CurrentInv, MemberPcs, ForwardPcs, CancelPcs,
     BoundPcs, Quiet, Shape
<1>13. RecoverInv'
  BY <1>s DEF RecoverInv, RowInv, Shape
<1>14. BatchInv'
  BY <1>s DEF BatchInv, WorkerPcs, Shape
<1>15. OneAfterAnother'
  BY <1>s DEF OneAfterAnother, StartInv, RowInv, CurrentInv, AheadInv,
     BehindInv, ArmingInv, ProvingInv, ClosingInv, MemberPcs, ForwardPcs,
     CancelPcs, BoundPcs, Shape
<1> QED
  BY <1>1, <1>2, <1>3, <1>4, <1>5, <1>6, <1>7, <1>8, <1>9, <1>10, <1>11,
     <1>12, <1>13, <1>14, <1>15

LEMMA HangUpInv ==
  ASSUME IInv, HangUp
  PROVE  IInv'
<1> USE DispositionAssumption DEF IInv, Goto, Fault, NoFault, rows, disk,
        guardian, channel, locals, bounds, Items, HangUp, HandlesClose
<1>s. Shape
  BY Shapes
<1>1. TypeOK'
  <2>1. pc' \in Pcs
    BY DEF TypeOK, Pcs, WorkerPcs
  <2>2. /\ faults' \in 0..MaxFaults /\ crashes' \in 0..MaxCrashes
        /\ kills' \in 0..MaxKills
    BY DEF TypeOK
  <2>3. present' \in [Items -> BOOLEAN]
    BY DEF TypeOK
  <2>4. armed' \in [Items -> BOOLEAN]
    BY DEF TypeOK
  <2>5. gphase' \in [Items -> Phases]
    BY DEF TypeOK, Phases, Holding, Serving
  <2>6. pipe' \in [Items -> BOOLEAN]
    BY DEF TypeOK
  <2>7. phold' \in [Items -> BOOLEAN]
    BY DEF TypeOK
  <2> QED
    BY <2>1, <2>2, <2>3, <2>4, <2>5, <2>6, <2>7 DEF TypeOK
<1>2. HandleInv'
  BY <1>s DEF HandleInv, Held, StartInv, CurrentInv, MemberPcs, ForwardPcs,
     CancelPcs, BoundPcs, Shape, Holding, Serving
<1>3. RowInv'
  BY <1>s DEF RowInv, StartInv, CurrentInv, ClosingInv, MemberPcs, ForwardPcs,
     CancelPcs, BoundPcs, Shape
<1>4. GuardInv'
  BY <1>s DEF GuardInv, HandleInv, RowInv, Held, ArmingInv, ProvingInv,
     ClosingInv, CurrentInv, MemberPcs, ForwardPcs, CancelPcs, BoundPcs,
     Holding, Serving, Shape, Quiet
<1>5. StartInv'
  BY <1>s DEF StartInv, WorkerPcs, Quiet, Shape
<1>6. CurrentInv'
  BY <1>s DEF CurrentInv, MemberPcs, ForwardPcs, CancelPcs, BoundPcs, Shape
<1>7. AheadInv'
  BY <1>s DEF AheadInv, CurrentInv, MemberPcs, ForwardPcs, CancelPcs,
     BoundPcs, Shape
<1>8. BehindInv'
  BY <1>s DEF BehindInv, CurrentInv, MemberPcs, ForwardPcs, CancelPcs,
     BoundPcs, Fresh, Quiet, Shape
<1>9. CancelledInv'
  BY <1>s DEF CancelledInv, CurrentInv, MemberPcs, ForwardPcs, CancelPcs,
     BoundPcs, Shape
<1>10. ArmingInv'
  BY <1>s DEF ArmingInv, CurrentInv, MemberPcs, ForwardPcs, CancelPcs,
     BoundPcs, Fresh, Quiet, Shape
<1>11. ProvingInv'
  BY <1>s DEF ProvingInv, CurrentInv, MemberPcs, ForwardPcs, CancelPcs,
     BoundPcs, Quiet, Shape
<1>12. ClosingInv'
  BY <1>s DEF ClosingInv, CurrentInv, MemberPcs, ForwardPcs, CancelPcs,
     BoundPcs, Quiet, Shape
<1>13. RecoverInv'
  BY <1>s DEF RecoverInv, RowInv, Shape
<1>14. BatchInv'
  BY <1>s DEF BatchInv, WorkerPcs, Shape
<1>15. OneAfterAnother'
  BY <1>s DEF OneAfterAnother, StartInv, RowInv, CurrentInv, AheadInv,
     BehindInv, ArmingInv, ProvingInv, ClosingInv, MemberPcs, ForwardPcs,
     CancelPcs, BoundPcs, Shape
<1> QED
  BY <1>1, <1>2, <1>3, <1>4, <1>5, <1>6, <1>7, <1>8, <1>9, <1>10, <1>11,
     <1>12, <1>13, <1>14, <1>15

LEMMA TerminalizeInv ==
  ASSUME IInv, Terminalize
  PROVE  IInv'
<1> USE DispositionAssumption DEF IInv, Goto, Fault, NoFault, rows, disk,
        guardian, channel, locals, bounds, Items, Terminalize
<1>s. Shape
  BY Shapes
<1>1. TypeOK'
  <2>1. pc' \in Pcs
    BY DEF TypeOK, Pcs, WorkerPcs
  <2>2. /\ faults' \in 0..MaxFaults /\ crashes' \in 0..MaxCrashes
        /\ kills' \in 0..MaxKills
    BY DEF TypeOK
  <2>3. item' \in [Items -> {"ready", "deleting", "interrupted", "deleted", "blocked"}]
    BY DEF TypeOK
  <2>4. opItem' \in [Items -> {"pending", "deleting", "done", "failed",
                           "rolled_back", "skipped"}]
    BY DEF TypeOK
  <2> QED
    BY <2>1, <2>2, <2>3, <2>4 DEF TypeOK
<1>2. HandleInv'
  BY <1>s DEF HandleInv, Held, StartInv, CurrentInv, MemberPcs, ForwardPcs,
     CancelPcs, BoundPcs, Shape, Holding, Serving
<1>3. RowInv'
  BY <1>s DEF RowInv, StartInv, CurrentInv, ClosingInv, MemberPcs, ForwardPcs,
     CancelPcs, BoundPcs, Shape
<1>4. GuardInv'
  BY <1>s DEF GuardInv, HandleInv, RowInv, Held, ArmingInv, ProvingInv,
     ClosingInv, CurrentInv, MemberPcs, ForwardPcs, CancelPcs, BoundPcs,
     Holding, Serving, Shape, Quiet
<1>5. StartInv'
  BY <1>s DEF StartInv, WorkerPcs, Quiet, Shape
<1>6. CurrentInv'
  BY <1>s DEF CurrentInv, MemberPcs, ForwardPcs, CancelPcs, BoundPcs, Shape
<1>7. AheadInv'
  BY <1>s DEF AheadInv, CurrentInv, MemberPcs, ForwardPcs, CancelPcs,
     BoundPcs, Shape
<1>8. BehindInv'
  BY <1>s DEF BehindInv, CurrentInv, MemberPcs, ForwardPcs, CancelPcs,
     BoundPcs, Fresh, Quiet, Shape
<1>9. CancelledInv'
  BY <1>s DEF CancelledInv, CurrentInv, MemberPcs, ForwardPcs, CancelPcs,
     BoundPcs, Shape
<1>10. ArmingInv'
  BY <1>s DEF ArmingInv, CurrentInv, MemberPcs, ForwardPcs, CancelPcs,
     BoundPcs, Fresh, Quiet, Shape
<1>11. ProvingInv'
  BY <1>s DEF ProvingInv, CurrentInv, MemberPcs, ForwardPcs, CancelPcs,
     BoundPcs, Quiet, Shape
<1>12. ClosingInv'
  BY <1>s DEF ClosingInv, CurrentInv, MemberPcs, ForwardPcs, CancelPcs,
     BoundPcs, Quiet, Shape
<1>13. RecoverInv'
  BY <1>s DEF RecoverInv, RowInv, Shape
<1>14. BatchInv'
  BY <1>s DEF BatchInv, WorkerPcs, Shape
<1>15. OneAfterAnother'
  BY <1>s DEF OneAfterAnother, StartInv, RowInv, CurrentInv, AheadInv,
     BehindInv, ArmingInv, ProvingInv, ClosingInv, MemberPcs, ForwardPcs,
     CancelPcs, BoundPcs, Shape
<1> QED
  BY <1>1, <1>2, <1>3, <1>4, <1>5, <1>6, <1>7, <1>8, <1>9, <1>10, <1>11,
     <1>12, <1>13, <1>14, <1>15

LEMMA FinalizeInv ==
  ASSUME IInv, Finalize
  PROVE  IInv'
<1> USE DispositionAssumption DEF IInv, Goto, Fault, NoFault, rows, disk,
        guardian, channel, locals, bounds, Items, Finalize, Verdict,
        VerdictWith
<1>s. Shape
  BY Shapes
<1>1. TypeOK'
  <2>1. pc' \in Pcs
    BY DEF TypeOK, Pcs, WorkerPcs
  <2>2. /\ faults' \in 0..MaxFaults /\ crashes' \in 0..MaxCrashes
        /\ kills' \in 0..MaxKills
    BY DEF TypeOK
  <2>3. batch' \in BatchStates
    BY DEF TypeOK, BatchStates
  <2> QED
    BY <2>1, <2>2, <2>3 DEF TypeOK
<1>2. HandleInv'
  BY <1>s DEF HandleInv, Held, StartInv, CurrentInv, MemberPcs, ForwardPcs,
     CancelPcs, BoundPcs, Shape, Holding, Serving
<1>3. RowInv'
  BY <1>s DEF RowInv, StartInv, CurrentInv, ClosingInv, MemberPcs, ForwardPcs,
     CancelPcs, BoundPcs, Shape
<1>4. GuardInv'
  BY <1>s DEF GuardInv, HandleInv, RowInv, Held, ArmingInv, ProvingInv,
     ClosingInv, CurrentInv, MemberPcs, ForwardPcs, CancelPcs, BoundPcs,
     Holding, Serving, Shape, Quiet
<1>5. StartInv'
  BY <1>s DEF StartInv, WorkerPcs, Quiet, Shape
<1>6. CurrentInv'
  BY <1>s DEF CurrentInv, MemberPcs, ForwardPcs, CancelPcs, BoundPcs, Shape
<1>7. AheadInv'
  BY <1>s DEF AheadInv, CurrentInv, MemberPcs, ForwardPcs, CancelPcs,
     BoundPcs, Shape
<1>8. BehindInv'
  BY <1>s DEF BehindInv, CurrentInv, MemberPcs, ForwardPcs, CancelPcs,
     BoundPcs, Fresh, Quiet, Shape
<1>9. CancelledInv'
  BY <1>s DEF CancelledInv, CurrentInv, MemberPcs, ForwardPcs, CancelPcs,
     BoundPcs, Shape
<1>10. ArmingInv'
  BY <1>s DEF ArmingInv, CurrentInv, MemberPcs, ForwardPcs, CancelPcs,
     BoundPcs, Fresh, Quiet, Shape
<1>11. ProvingInv'
  BY <1>s DEF ProvingInv, CurrentInv, MemberPcs, ForwardPcs, CancelPcs,
     BoundPcs, Quiet, Shape
<1>12. ClosingInv'
  BY <1>s DEF ClosingInv, CurrentInv, MemberPcs, ForwardPcs, CancelPcs,
     BoundPcs, Quiet, Shape
<1>13. RecoverInv'
  BY <1>s DEF RecoverInv, RowInv, Shape
<1>14. BatchInv'
  BY <1>s DEF BatchInv, WorkerPcs, Shape
<1>15. OneAfterAnother'
  BY <1>s DEF OneAfterAnother, StartInv, RowInv, CurrentInv, AheadInv,
     BehindInv, ArmingInv, ProvingInv, ClosingInv, MemberPcs, ForwardPcs,
     CancelPcs, BoundPcs, Shape
<1> QED
  BY <1>1, <1>2, <1>3, <1>4, <1>5, <1>6, <1>7, <1>8, <1>9, <1>10, <1>11,
     <1>12, <1>13, <1>14, <1>15

LEMMA AllowsArmInv ==
  ASSUME IInv, NEW i \in Items, GuardianAllowsArm(i)
  PROVE  IInv'
<1> USE DispositionAssumption DEF IInv, Items, Goto, Fault, NoFault, rows,
        disk, guardian, channel, locals, bounds
<1>s. Shape
  BY Shapes
<1>a. /\ UNCHANGED <<batch, entry, item, opItem, reason, gstate, cleaned>>
      /\ UNCHANGED <<archived, pipe, pc, cur, phold, gone>>
      /\ UNCHANGED <<insync, pcancelled, csafe, jfailed>>
  BY DEF GuardianAllowsArm, Receive, Answer, GuardianFrame
<1>b. \A j \in Items : j # i =>
        /\ gphase'[j] = gphase[j] /\ gexcl'[j] = gexcl[j]
        /\ armed'[j] = armed[j] /\ receipt'[j] = receipt[j]
        /\ cmd'[j] = cmd[j] /\ reply'[j] = reply[j]
  BY <1>s DEF GuardianAllowsArm, Receive, Answer, GuardianFrame, Shape
<1>c. \A j \in Items : j # i => present'[j] = present[j]
  BY <1>s DEF GuardianAllowsArm, Receive, Answer, GuardianFrame, Shape,
     HandleInv, Held
<1>d. /\ gphase[i] = "bound" /\ gphase'[i] \in {"arm_authorized", "retaining"}
      /\ reply'[i] \in {reply[i], "ready"} /\ receipt'[i] = receipt[i]
      /\ gexcl'[i] = gexcl[i] /\ armed'[i] = armed[i]
      /\ present'[i] = present[i]
  BY <1>s, Frames DEF GuardianAllowsArm, Receive, Answer, GuardianFrame, Shape
<1>e. /\ cmd[i] = <<"arm">> /\ cmd[i] # <<>> /\ cmd'[i] = <<>>
      /\ cmd[i] # <<"prove">> /\ cmd[i] # <<"close">>
  BY <1>s, Frames DEF GuardianAllowsArm, Receive, Answer, GuardianFrame, Shape
<1>1. TypeOK'
  <2>1. faults' \in 0..MaxFaults /\ crashes' \in 0..MaxCrashes
        /\ kills' \in 0..MaxKills
    BY DEF GuardianAllowsArm, Receive, Answer, GuardianFrame, TypeOK
  <2>2. gphase' \in [Items -> Phases]
    BY DEF GuardianAllowsArm, Receive, Answer, GuardianFrame, TypeOK, Phases,
       Holding, Serving
  <2>3. gexcl' \in [Items -> BOOLEAN]
    BY DEF GuardianAllowsArm, Receive, Answer, GuardianFrame, TypeOK
  <2>4. cmd' \in [Items -> Seq(Commands)]
    BY DEF GuardianAllowsArm, Receive, Answer, GuardianFrame, TypeOK, Commands
  <2>5. reply' \in [Items -> Replies]
    BY DEF GuardianAllowsArm, Receive, Answer, GuardianFrame, TypeOK, Replies
  <2>6. armed' \in [Items -> BOOLEAN]
    BY DEF GuardianAllowsArm, Receive, Answer, GuardianFrame, TypeOK
  <2>7. present' \in [Items -> BOOLEAN]
    BY DEF GuardianAllowsArm, Receive, Answer, GuardianFrame, TypeOK
  <2>8. receipt' \in [Items -> {"none", "empty", "flushed"}]
    BY DEF GuardianAllowsArm, Receive, Answer, GuardianFrame, TypeOK
  <2> QED
    BY <1>a, <2>1, <2>2, <2>3, <2>4, <2>5, <2>6, <2>7, <2>8 DEF TypeOK
<1>2. HandleInv'
  BY <1>a, <1>b, <1>c, <1>d DEF HandleInv, GuardInv, Held, Holding, Serving
<1>3. RowInv'
  BY <1>a, <1>b, <1>c, <1>d DEF RowInv, HandleInv, GuardInv, Held, Holding,
     Serving
<1>4. GuardInv'
  BY <1>a, <1>b, <1>c, <1>d DEF GuardInv, HandleInv, RowInv, Held, Holding,
     Serving
<1>5. StartInv'
  BY <1>a, <1>b, <1>c, <1>d, <1>e DEF StartInv, WorkerPcs, Quiet, Holding,
     Serving
<1>6. CurrentInv'
  BY <1>a DEF CurrentInv
<1>7. AheadInv'
  BY <1>a DEF AheadInv
<1>8. BehindInv'
  BY <1>a, <1>b, <1>e DEF BehindInv, MemberPcs, ForwardPcs, CancelPcs, Fresh,
     Quiet
<1>9. CancelledInv'
  <2>1. \A j \in Items : armed'[j] = armed[j] /\ present'[j] = present[j]
    BY <1>b, <1>c, <1>d
  <2> QED
    BY <1>a, <2>1 DEF CancelledInv, CurrentInv, MemberPcs, ForwardPcs,
       CancelPcs
<1>10. ArmingInv'
  BY <1>a, <1>b, <1>c, <1>d, <1>e, Frames DEF ArmingInv, CurrentInv,
     MemberPcs, ForwardPcs, CancelPcs, BoundPcs, Fresh, Quiet, Holding,
     Serving, StartInv, WorkerPcs
<1>11. ProvingInv'
  BY <1>a, <1>b, <1>c, <1>d, <1>e, Frames DEF ProvingInv, CurrentInv,
     MemberPcs, ForwardPcs, CancelPcs, BoundPcs, Quiet, Holding, Serving
<1>12. ClosingInv'
  BY <1>a, <1>b, <1>c, <1>d, <1>e, Frames DEF ClosingInv, CurrentInv,
     MemberPcs, ForwardPcs, CancelPcs, BoundPcs, Quiet, Holding, Serving,
     GuardInv, HandleInv, Held
<1>13. RecoverInv'
  BY <1>a DEF RecoverInv
<1>14. BatchInv'
  BY <1>a DEF BatchInv
<1>15. OneAfterAnother'
  BY <1>a, <1>b, <1>c, <1>d DEF OneAfterAnother
<1> QED
  BY <1>1, <1>2, <1>3, <1>4, <1>5, <1>6, <1>7, <1>8, <1>9, <1>10, <1>11,
     <1>12, <1>13, <1>14, <1>15

LEMMA ProvesInv ==
  ASSUME IInv, NEW i \in Items, GuardianProves(i)
  PROVE  IInv'
<1> USE DispositionAssumption DEF IInv, Items, Goto, Fault, NoFault, rows,
        disk, guardian, channel, locals, bounds
<1>s. Shape
  BY Shapes
<1>a. /\ UNCHANGED <<batch, entry, item, opItem, reason, gstate, cleaned>>
      /\ UNCHANGED <<archived, pipe, pc, cur, phold, gone>>
      /\ UNCHANGED <<insync, pcancelled, csafe, jfailed>>
  BY DEF GuardianProves, Receive, Answer, GuardianFrame
<1>b. \A j \in Items : j # i =>
        /\ gphase'[j] = gphase[j] /\ gexcl'[j] = gexcl[j]
        /\ armed'[j] = armed[j] /\ receipt'[j] = receipt[j]
        /\ cmd'[j] = cmd[j] /\ reply'[j] = reply[j]
  BY <1>s DEF GuardianProves, Receive, Answer, GuardianFrame, Shape
<1>c. \A j \in Items : j # i => present'[j] = present[j]
  BY <1>s DEF GuardianProves, Receive, Answer, GuardianFrame, Shape,
     HandleInv, Held
<1>d. /\ gphase[i] = "arm_authorized" /\ gphase'[i] \in {"profile_proved", "arm_authorized", "retaining"}
      /\ reply'[i] \in {reply[i], "proved", "refused"}
      /\ gexcl'[i] /\ armed'[i] = armed[i] /\ present'[i] = present[i]
      /\ receipt'[i] = receipt[i]
  BY <1>s, Frames DEF GuardianProves, Receive, Answer, GuardianFrame, Shape
<1>e. /\ cmd[i] = <<"prove">> /\ cmd[i] # <<>> /\ cmd'[i] = <<>>
      /\ cmd[i] # <<"arm">> /\ cmd[i] # <<"close">>
  BY <1>s, Frames DEF GuardianProves, Receive, Answer, GuardianFrame, Shape
<1>1. TypeOK'
  <2>1. faults' \in 0..MaxFaults /\ crashes' \in 0..MaxCrashes
        /\ kills' \in 0..MaxKills
    BY DEF GuardianProves, Receive, Answer, GuardianFrame, TypeOK
  <2>2. gphase' \in [Items -> Phases]
    BY DEF GuardianProves, Receive, Answer, GuardianFrame, TypeOK, Phases,
       Holding, Serving
  <2>3. gexcl' \in [Items -> BOOLEAN]
    BY DEF GuardianProves, Receive, Answer, GuardianFrame, TypeOK
  <2>4. cmd' \in [Items -> Seq(Commands)]
    BY DEF GuardianProves, Receive, Answer, GuardianFrame, TypeOK, Commands
  <2>5. reply' \in [Items -> Replies]
    BY DEF GuardianProves, Receive, Answer, GuardianFrame, TypeOK, Replies
  <2>6. armed' \in [Items -> BOOLEAN]
    BY DEF GuardianProves, Receive, Answer, GuardianFrame, TypeOK
  <2>7. present' \in [Items -> BOOLEAN]
    BY DEF GuardianProves, Receive, Answer, GuardianFrame, TypeOK
  <2>8. receipt' \in [Items -> {"none", "empty", "flushed"}]
    BY DEF GuardianProves, Receive, Answer, GuardianFrame, TypeOK
  <2> QED
    BY <1>a, <2>1, <2>2, <2>3, <2>4, <2>5, <2>6, <2>7, <2>8 DEF TypeOK
<1>2. HandleInv'
  BY <1>a, <1>b, <1>c, <1>d DEF HandleInv, GuardInv, Held, Holding, Serving
<1>3. RowInv'
  BY <1>a, <1>b, <1>c, <1>d DEF RowInv, HandleInv, GuardInv, Held, Holding,
     Serving
<1>4. GuardInv'
  BY <1>a, <1>b, <1>c, <1>d DEF GuardInv, HandleInv, RowInv, Held, Holding,
     Serving
<1>5. StartInv'
  BY <1>a, <1>b, <1>c, <1>d, <1>e DEF StartInv, WorkerPcs, Quiet, Holding,
     Serving
<1>6. CurrentInv'
  BY <1>a DEF CurrentInv
<1>7. AheadInv'
  BY <1>a DEF AheadInv
<1>8. BehindInv'
  BY <1>a, <1>b, <1>e DEF BehindInv, MemberPcs, ForwardPcs, CancelPcs, Fresh,
     Quiet
<1>9. CancelledInv'
  <2>1. \A j \in Items : armed'[j] = armed[j] /\ present'[j] = present[j]
    BY <1>b, <1>c, <1>d
  <2> QED
    BY <1>a, <2>1 DEF CancelledInv, CurrentInv, MemberPcs, ForwardPcs,
       CancelPcs
<1>10. ArmingInv'
  BY <1>a, <1>b, <1>c, <1>d, <1>e, Frames DEF ArmingInv, CurrentInv,
     MemberPcs, ForwardPcs, CancelPcs, BoundPcs, Fresh, Quiet, Holding,
     Serving, StartInv, WorkerPcs
<1>11. ProvingInv'
  BY <1>a, <1>b, <1>c, <1>d, <1>e, Frames DEF ProvingInv, CurrentInv,
     MemberPcs, ForwardPcs, CancelPcs, BoundPcs, Quiet, Holding, Serving
<1>12. ClosingInv'
  BY <1>a, <1>b, <1>c, <1>d, <1>e, Frames DEF ClosingInv, CurrentInv,
     MemberPcs, ForwardPcs, CancelPcs, BoundPcs, Quiet, Holding, Serving,
     GuardInv, HandleInv, Held
<1>13. RecoverInv'
  BY <1>a DEF RecoverInv
<1>14. BatchInv'
  BY <1>a DEF BatchInv
<1>15. OneAfterAnother'
  BY <1>a, <1>b, <1>c, <1>d DEF OneAfterAnother
<1> QED
  BY <1>1, <1>2, <1>3, <1>4, <1>5, <1>6, <1>7, <1>8, <1>9, <1>10, <1>11,
     <1>12, <1>13, <1>14, <1>15

LEMMA CancelsInv ==
  ASSUME IInv, NEW i \in Items, GuardianCancels(i)
  PROVE  IInv'
<1> USE DispositionAssumption DEF IInv, Items, Goto, Fault, NoFault, rows,
        disk, guardian, channel, locals, bounds
<1>s. Shape
  BY Shapes
<1>a. /\ UNCHANGED <<batch, entry, item, opItem, reason, gstate, cleaned>>
      /\ UNCHANGED <<archived, pipe, pc, cur, phold, gone>>
      /\ UNCHANGED <<insync, pcancelled, csafe, jfailed>>
  BY DEF GuardianCancels, Receive, Answer, HandlesClose, GuardianFrame
<1>b. \A j \in Items : j # i =>
        /\ gphase'[j] = gphase[j] /\ gexcl'[j] = gexcl[j]
        /\ armed'[j] = armed[j] /\ receipt'[j] = receipt[j]
        /\ cmd'[j] = cmd[j] /\ reply'[j] = reply[j]
  BY <1>s DEF GuardianCancels, Receive, Answer, HandlesClose, GuardianFrame,
     Shape
<1>c. \A j \in Items : j # i => present'[j] = present[j]
    <2>1. CASE HandlesClose
    BY <1>s, <1>a, <1>b, <2>1 DEF HandlesClose, HandleInv, Held, Shape
  <2>2. CASE present' = present
    BY <2>2
  <2> QED
    BY <2>1, <2>2 DEF GuardianCancels
<1>d. /\ gphase[i] \in Serving /\ receipt'[i] = receipt[i] /\ present'[i] = present[i]
      /\ \/ /\ ~armed'[i] /\ gphase'[i] = "dead" /\ gexcl'[i] = gexcl[i]
            /\ reply'[i] \in {reply[i], "cancelled"}
         \/ /\ armed'[i] = armed[i] /\ reply'[i] \in {reply[i], "pending"}
            /\ gphase'[i] \in {"cancellation_pending", "retaining"}
    <2>1. CASE HandlesClose /\ armed' = [armed EXCEPT ![i] = FALSE]
    BY <1>s, <2>1 DEF GuardianCancels, Answer, HandlesClose, HandleInv, Held,
       Shape, Serving, Holding
  <2>2. CASE UNCHANGED <<present, armed>>
    BY <1>s, <2>2 DEF GuardianCancels, Answer, Shape
  <2> QED
    BY <2>1, <2>2 DEF GuardianCancels
<1>e. /\ cmd[i] = <<"cancel">> /\ cmd[i] # <<>> /\ cmd'[i] = <<>>
      /\ cmd[i] # <<"arm">> /\ cmd[i] # <<"prove">> /\ cmd[i] # <<"close">>
  BY <1>s, Frames DEF GuardianCancels, Receive, Answer, HandlesClose,
     GuardianFrame, Shape
<1>1. TypeOK'
  <2>1. faults' \in 0..MaxFaults /\ crashes' \in 0..MaxCrashes
        /\ kills' \in 0..MaxKills
    BY DEF GuardianCancels, Receive, Answer, HandlesClose, GuardianFrame,
       TypeOK
  <2>2. gphase' \in [Items -> Phases]
    BY DEF GuardianCancels, Receive, Answer, HandlesClose, GuardianFrame,
       TypeOK, Phases, Holding, Serving
  <2>3. gexcl' \in [Items -> BOOLEAN]
    BY DEF GuardianCancels, Receive, Answer, HandlesClose, GuardianFrame,
       TypeOK
  <2>4. cmd' \in [Items -> Seq(Commands)]
    BY DEF GuardianCancels, Receive, Answer, HandlesClose, GuardianFrame,
       TypeOK, Commands
  <2>5. reply' \in [Items -> Replies]
    BY DEF GuardianCancels, Receive, Answer, HandlesClose, GuardianFrame,
       TypeOK, Replies
  <2>6. armed' \in [Items -> BOOLEAN]
    BY DEF GuardianCancels, Receive, Answer, HandlesClose, GuardianFrame,
       TypeOK
  <2>7. present' \in [Items -> BOOLEAN]
    BY DEF GuardianCancels, Receive, Answer, HandlesClose, GuardianFrame,
       TypeOK
  <2>8. receipt' \in [Items -> {"none", "empty", "flushed"}]
    BY DEF GuardianCancels, Receive, Answer, HandlesClose, GuardianFrame,
       TypeOK
  <2> QED
    BY <1>a, <2>1, <2>2, <2>3, <2>4, <2>5, <2>6, <2>7, <2>8 DEF TypeOK
<1>2. HandleInv'
  BY <1>a, <1>b, <1>c, <1>d DEF HandleInv, GuardInv, Held, Holding, Serving
<1>3. RowInv'
  BY <1>a, <1>b, <1>c, <1>d DEF RowInv, HandleInv, GuardInv, Held, Holding,
     Serving
<1>4. GuardInv'
  BY <1>a, <1>b, <1>c, <1>d DEF GuardInv, HandleInv, RowInv, Held, Holding,
     Serving
<1>5. StartInv'
  BY <1>a, <1>b, <1>c, <1>d, <1>e DEF StartInv, WorkerPcs, Quiet, Holding,
     Serving
<1>6. CurrentInv'
  BY <1>a DEF CurrentInv
<1>7. AheadInv'
  BY <1>a DEF AheadInv
<1>8. BehindInv'
  BY <1>a, <1>b, <1>e DEF BehindInv, MemberPcs, ForwardPcs, CancelPcs, Fresh,
     Quiet
<1>9. CancelledInv'
  BY <1>a, <1>b, <1>c, <1>d DEF CancelledInv, CurrentInv, MemberPcs,
     ForwardPcs, CancelPcs, BoundPcs, GuardInv, HandleInv, Held, Holding,
     Serving
<1>10. ArmingInv'
  BY <1>a, <1>b, <1>c, <1>d, <1>e, Frames DEF ArmingInv, CurrentInv,
     MemberPcs, ForwardPcs, CancelPcs, BoundPcs, Fresh, Quiet, Holding,
     Serving, StartInv, WorkerPcs
<1>11. ProvingInv'
  BY <1>a, <1>b, <1>c, <1>d, <1>e, Frames DEF ProvingInv, CurrentInv,
     MemberPcs, ForwardPcs, CancelPcs, BoundPcs, Quiet, Holding, Serving
<1>12. ClosingInv'
  BY <1>a, <1>b, <1>c, <1>d, <1>e, Frames DEF ClosingInv, CurrentInv,
     MemberPcs, ForwardPcs, CancelPcs, BoundPcs, Quiet, Holding, Serving,
     GuardInv, HandleInv, Held
<1>13. RecoverInv'
  BY <1>a DEF RecoverInv
<1>14. BatchInv'
  BY <1>a DEF BatchInv
<1>15. OneAfterAnother'
  BY <1>a, <1>b, <1>c, <1>d DEF OneAfterAnother
<1> QED
  BY <1>1, <1>2, <1>3, <1>4, <1>5, <1>6, <1>7, <1>8, <1>9, <1>10, <1>11,
     <1>12, <1>13, <1>14, <1>15

LEMMA SignsInv ==
  ASSUME IInv, NEW i \in Items, GuardianSignsReceipt(i)
  PROVE  IInv'
<1> USE DispositionAssumption DEF IInv, Items, Goto, Fault, NoFault, rows,
        disk, guardian, channel, locals, bounds
<1>s. Shape
  BY Shapes
<1>a. /\ UNCHANGED <<batch, entry, item, opItem, reason, gstate, cleaned>>
      /\ UNCHANGED <<archived, pipe, pc, cur, phold, gone>>
      /\ UNCHANGED <<insync, pcancelled, csafe, jfailed>>
  BY DEF GuardianSignsReceipt, Receive, GuardianFrame
<1>b. \A j \in Items : j # i =>
        /\ gphase'[j] = gphase[j] /\ gexcl'[j] = gexcl[j]
        /\ armed'[j] = armed[j] /\ receipt'[j] = receipt[j]
        /\ cmd'[j] = cmd[j] /\ reply'[j] = reply[j]
  BY <1>s DEF GuardianSignsReceipt, Receive, GuardianFrame, Shape
<1>c. \A j \in Items : j # i => present'[j] = present[j]
  BY <1>s DEF GuardianSignsReceipt, Receive, GuardianFrame, Shape, HandleInv,
     Held
<1>d. /\ gphase[i] = "profile_proved" /\ gexcl'[i] = gexcl[i] /\ armed'[i] = armed[i]
      /\ present'[i] = present[i]
      /\ \/ /\ armed[i] /\ receipt'[i] = "flushed" /\ gphase'[i] = "closing"
            /\ reply'[i] = reply[i]
         \/ gphase'[i] = "retaining" /\ reply'[i] \in {reply[i], "refused"}
  BY <1>s, Frames DEF GuardianSignsReceipt, Receive, GuardianFrame, Shape
<1>e. /\ cmd[i] = <<"close">> /\ cmd[i] # <<>> /\ cmd'[i] = <<>>
      /\ cmd[i] # <<"arm">> /\ cmd[i] # <<"prove">>
  BY <1>s, Frames DEF GuardianSignsReceipt, Receive, GuardianFrame, Shape
<1>1. TypeOK'
  <2>1. faults' \in 0..MaxFaults /\ crashes' \in 0..MaxCrashes
        /\ kills' \in 0..MaxKills
    BY DEF GuardianSignsReceipt, Receive, GuardianFrame, TypeOK
  <2>2. gphase' \in [Items -> Phases]
    BY DEF GuardianSignsReceipt, Receive, GuardianFrame, TypeOK, Phases,
       Holding, Serving
  <2>3. gexcl' \in [Items -> BOOLEAN]
    BY DEF GuardianSignsReceipt, Receive, GuardianFrame, TypeOK
  <2>4. cmd' \in [Items -> Seq(Commands)]
    BY DEF GuardianSignsReceipt, Receive, GuardianFrame, TypeOK, Commands
  <2>5. reply' \in [Items -> Replies]
    BY DEF GuardianSignsReceipt, Receive, GuardianFrame, TypeOK, Replies
  <2>6. armed' \in [Items -> BOOLEAN]
    BY DEF GuardianSignsReceipt, Receive, GuardianFrame, TypeOK
  <2>7. present' \in [Items -> BOOLEAN]
    BY DEF GuardianSignsReceipt, Receive, GuardianFrame, TypeOK
  <2>8. receipt' \in [Items -> {"none", "empty", "flushed"}]
    BY DEF GuardianSignsReceipt, Receive, GuardianFrame, TypeOK
  <2> QED
    BY <1>a, <2>1, <2>2, <2>3, <2>4, <2>5, <2>6, <2>7, <2>8 DEF TypeOK
<1>2. HandleInv'
  BY <1>a, <1>b, <1>c, <1>d DEF HandleInv, GuardInv, Held, Holding, Serving
<1>3. RowInv'
  BY <1>a, <1>b, <1>c, <1>d DEF RowInv, HandleInv, GuardInv, Held, Holding,
     Serving
<1>4. GuardInv'
  BY <1>a, <1>b, <1>c, <1>d DEF GuardInv, HandleInv, RowInv, Held, Holding,
     Serving
<1>5. StartInv'
  BY <1>a, <1>b, <1>c, <1>d, <1>e DEF StartInv, WorkerPcs, Quiet, Holding,
     Serving
<1>6. CurrentInv'
  BY <1>a DEF CurrentInv
<1>7. AheadInv'
  BY <1>a DEF AheadInv
<1>8. BehindInv'
  BY <1>a, <1>b, <1>e DEF BehindInv, MemberPcs, ForwardPcs, CancelPcs, Fresh,
     Quiet
<1>9. CancelledInv'
  BY <1>a, <1>b, <1>c, <1>d DEF CancelledInv, CurrentInv, MemberPcs,
     ForwardPcs, CancelPcs, BoundPcs, GuardInv, HandleInv, Held, Holding,
     Serving
<1>10. ArmingInv'
  BY <1>a, <1>b, <1>c, <1>d, <1>e, Frames DEF ArmingInv, CurrentInv,
     MemberPcs, ForwardPcs, CancelPcs, BoundPcs, Fresh, Quiet, Holding,
     Serving, StartInv, WorkerPcs
<1>11. ProvingInv'
  BY <1>a, <1>b, <1>c, <1>d, <1>e, Frames DEF ProvingInv, CurrentInv,
     MemberPcs, ForwardPcs, CancelPcs, BoundPcs, Quiet, Holding, Serving
<1>12. ClosingInv'
  BY <1>a, <1>b, <1>c, <1>d, <1>e, Frames DEF ClosingInv, CurrentInv,
     MemberPcs, ForwardPcs, CancelPcs, BoundPcs, Quiet, Holding, Serving,
     GuardInv, HandleInv, Held
<1>13. RecoverInv'
  BY <1>a DEF RecoverInv
<1>14. BatchInv'
  BY <1>a DEF BatchInv
<1>15. OneAfterAnother'
  BY <1>a, <1>b, <1>c, <1>d DEF OneAfterAnother
<1> QED
  BY <1>1, <1>2, <1>3, <1>4, <1>5, <1>6, <1>7, <1>8, <1>9, <1>10, <1>11,
     <1>12, <1>13, <1>14, <1>15

LEMMA ClosesInv ==
  ASSUME IInv, NEW i \in Items, GuardianCloses(i)
  PROVE  IInv'
<1> USE DispositionAssumption DEF IInv, Items, Goto, Fault, NoFault, rows,
        disk, guardian, channel, locals, bounds
<1>s. Shape
  BY Shapes
<1>a. /\ UNCHANGED <<batch, entry, item, opItem, reason, gstate, cleaned>>
      /\ UNCHANGED <<archived, pipe, pc, cur, phold, gone>>
      /\ UNCHANGED <<insync, pcancelled, csafe, jfailed>>
  BY DEF GuardianCloses, HandlesClose, GuardianFrame
<1>b. \A j \in Items : j # i =>
        /\ gphase'[j] = gphase[j] /\ gexcl'[j] = gexcl[j]
        /\ armed'[j] = armed[j] /\ receipt'[j] = receipt[j]
        /\ cmd'[j] = cmd[j] /\ reply'[j] = reply[j]
  BY <1>s DEF GuardianCloses, HandlesClose, GuardianFrame, Shape
<1>c. \A j \in Items : j # i => present'[j] = present[j]
  BY <1>s DEF GuardianCloses, HandlesClose, GuardianFrame, Shape, HandleInv,
     Held
<1>d. /\ gphase[i] = "closing" /\ gphase'[i] = "dead"
      /\ reply'[i] \in {reply[i], "closed"} /\ cmd'[i] = cmd[i]
      /\ gexcl'[i] = gexcl[i] /\ armed'[i] = armed[i] /\ receipt'[i] = receipt[i]
      /\ present'[i] = (present[i] /\ (armed[i] => phold[i]))
  BY <1>s, Frames DEF GuardianCloses, HandlesClose, GuardianFrame, Shape,
     Holding, Serving
<1>1. TypeOK'
  <2>1. faults' \in 0..MaxFaults /\ crashes' \in 0..MaxCrashes
        /\ kills' \in 0..MaxKills
    BY DEF GuardianCloses, HandlesClose, GuardianFrame, TypeOK
  <2>2. gphase' \in [Items -> Phases]
    BY DEF GuardianCloses, HandlesClose, GuardianFrame, TypeOK, Phases,
       Holding, Serving
  <2>3. gexcl' \in [Items -> BOOLEAN]
    BY DEF GuardianCloses, HandlesClose, GuardianFrame, TypeOK
  <2>4. cmd' \in [Items -> Seq(Commands)]
    BY DEF GuardianCloses, HandlesClose, GuardianFrame, TypeOK, Commands
  <2>5. reply' \in [Items -> Replies]
    BY DEF GuardianCloses, HandlesClose, GuardianFrame, TypeOK, Replies
  <2>6. armed' \in [Items -> BOOLEAN]
    BY DEF GuardianCloses, HandlesClose, GuardianFrame, TypeOK
  <2>7. present' \in [Items -> BOOLEAN]
    BY DEF GuardianCloses, HandlesClose, GuardianFrame, TypeOK
  <2>8. receipt' \in [Items -> {"none", "empty", "flushed"}]
    BY DEF GuardianCloses, HandlesClose, GuardianFrame, TypeOK
  <2> QED
    BY <1>a, <2>1, <2>2, <2>3, <2>4, <2>5, <2>6, <2>7, <2>8 DEF TypeOK
<1>2. HandleInv'
  BY <1>a, <1>b, <1>c, <1>d DEF HandleInv, GuardInv, Held, Holding, Serving
<1>3. RowInv'
  BY <1>a, <1>b, <1>c, <1>d DEF RowInv, HandleInv, GuardInv, Held, Holding,
     Serving
<1>4. GuardInv'
  BY <1>a, <1>b, <1>c, <1>d DEF GuardInv, HandleInv, RowInv, Held, Holding,
     Serving
<1>5. StartInv'
  BY <1>a, <1>b, <1>c, <1>d DEF StartInv, WorkerPcs, Quiet, Holding, Serving
<1>6. CurrentInv'
  BY <1>a DEF CurrentInv
<1>7. AheadInv'
  BY <1>a DEF AheadInv
<1>8. BehindInv'
  BY <1>a, <1>b, <1>c, <1>d DEF BehindInv, CurrentInv, MemberPcs, ForwardPcs,
     CancelPcs, BoundPcs, Fresh, Quiet, Holding, Serving
<1>9. CancelledInv'
  BY <1>a, <1>b, <1>c, <1>d DEF CancelledInv, CurrentInv, MemberPcs,
     ForwardPcs, CancelPcs, BoundPcs, GuardInv, HandleInv, Held, Holding,
     Serving
<1>10. ArmingInv'
  BY <1>a, <1>b, <1>c, <1>d, Frames DEF ArmingInv, CurrentInv, MemberPcs,
     ForwardPcs, CancelPcs, BoundPcs, Fresh, Quiet, Holding, Serving,
     StartInv, WorkerPcs
<1>11. ProvingInv'
  BY <1>a, <1>b, <1>c, <1>d, Frames DEF ProvingInv, CurrentInv, MemberPcs,
     ForwardPcs, CancelPcs, BoundPcs, Quiet, Holding, Serving
<1>12. ClosingInv'
  BY <1>a, <1>b, <1>c, <1>d, Frames DEF ClosingInv, CurrentInv, MemberPcs,
     ForwardPcs, CancelPcs, BoundPcs, Quiet, Holding, Serving, GuardInv,
     HandleInv, Held
<1>13. RecoverInv'
  BY <1>a DEF RecoverInv
<1>14. BatchInv'
  BY <1>a DEF BatchInv
<1>15. OneAfterAnother'
  BY <1>a, <1>b, <1>c, <1>d DEF OneAfterAnother
<1> QED
  BY <1>1, <1>2, <1>3, <1>4, <1>5, <1>6, <1>7, <1>8, <1>9, <1>10, <1>11,
     <1>12, <1>13, <1>14, <1>15

LEMMA LosesInv ==
  ASSUME IInv, NEW i \in Items, GuardianLosesChannel(i)
  PROVE  IInv'
<1> USE DispositionAssumption DEF IInv, Items, Goto, Fault, NoFault, rows,
        disk, guardian, channel, locals, bounds
<1>s. Shape
  BY Shapes
<1>a. /\ UNCHANGED <<batch, entry, item, opItem, reason, gstate, cleaned>>
      /\ UNCHANGED <<archived, pipe, pc, cur, phold, gone>>
      /\ UNCHANGED <<insync, pcancelled, csafe, jfailed>>
  BY DEF GuardianLosesChannel, LosesChannel, HandlesClose, GuardianFrame
<1>b. \A j \in Items : j # i =>
        /\ gphase'[j] = gphase[j] /\ gexcl'[j] = gexcl[j]
        /\ armed'[j] = armed[j] /\ receipt'[j] = receipt[j]
        /\ cmd'[j] = cmd[j] /\ reply'[j] = reply[j]
  BY <1>s DEF GuardianLosesChannel, LosesChannel, HandlesClose, GuardianFrame,
     Shape
<1>c. \A j \in Items : j # i => present'[j] = present[j]
  BY <1>s DEF GuardianLosesChannel, LosesChannel, HandlesClose, GuardianFrame,
     Shape, HandleInv, Held
<1>d. /\ gphase[i] \in Serving
      /\ gphase'[i] = IF gphase[i] = "bound" THEN "dead" ELSE "retaining"
      /\ gexcl'[i] = gexcl[i] /\ armed'[i] = armed[i]
      /\ present'[i] = present[i]
      /\ receipt'[i] = receipt[i] /\ cmd'[i] = cmd[i] /\ reply'[i] = reply[i]
  BY <1>s, Frames DEF GuardianLosesChannel, LosesChannel, HandlesClose,
     GuardianFrame, Shape, GuardInv, HandleInv, Held, Serving, Holding
<1>1. TypeOK'
  <2>1. faults' \in 0..MaxFaults /\ crashes' \in 0..MaxCrashes
        /\ kills' \in 0..MaxKills
    BY DEF GuardianLosesChannel, LosesChannel, HandlesClose, GuardianFrame,
       TypeOK
  <2>2. gphase' \in [Items -> Phases]
    BY DEF GuardianLosesChannel, LosesChannel, HandlesClose, GuardianFrame,
       TypeOK, Phases, Holding, Serving
  <2>3. gexcl' \in [Items -> BOOLEAN]
    BY DEF GuardianLosesChannel, LosesChannel, HandlesClose, GuardianFrame,
       TypeOK
  <2>4. cmd' \in [Items -> Seq(Commands)]
    BY DEF GuardianLosesChannel, LosesChannel, HandlesClose, GuardianFrame,
       TypeOK, Commands
  <2>5. reply' \in [Items -> Replies]
    BY DEF GuardianLosesChannel, LosesChannel, HandlesClose, GuardianFrame,
       TypeOK, Replies
  <2>6. armed' \in [Items -> BOOLEAN]
    BY DEF GuardianLosesChannel, LosesChannel, HandlesClose, GuardianFrame,
       TypeOK
  <2>7. present' \in [Items -> BOOLEAN]
    BY DEF GuardianLosesChannel, LosesChannel, HandlesClose, GuardianFrame,
       TypeOK
  <2>8. receipt' \in [Items -> {"none", "empty", "flushed"}]
    BY DEF GuardianLosesChannel, LosesChannel, HandlesClose, GuardianFrame,
       TypeOK
  <2> QED
    BY <1>a, <2>1, <2>2, <2>3, <2>4, <2>5, <2>6, <2>7, <2>8 DEF TypeOK
<1>2. HandleInv'
  BY <1>a, <1>b, <1>c, <1>d DEF HandleInv, GuardInv, Held, Holding, Serving
<1>3. RowInv'
  BY <1>a, <1>b, <1>c, <1>d DEF RowInv, HandleInv, GuardInv, Held, Holding,
     Serving
<1>4. GuardInv'
  BY <1>a, <1>b, <1>c, <1>d DEF GuardInv, HandleInv, RowInv, Held, Holding,
     Serving
<1>5. StartInv'
  BY <1>a, <1>b, <1>c, <1>d DEF StartInv, WorkerPcs, Quiet, Holding, Serving
<1>6. CurrentInv'
  BY <1>a DEF CurrentInv
<1>7. AheadInv'
  BY <1>a DEF AheadInv
<1>8. BehindInv'
  BY <1>a, <1>b, <1>c, <1>d DEF BehindInv, CurrentInv, MemberPcs, ForwardPcs,
     CancelPcs, BoundPcs, Fresh, Quiet, Holding, Serving
<1>9. CancelledInv'
  BY <1>a, <1>b, <1>c, <1>d DEF CancelledInv, CurrentInv, MemberPcs,
     ForwardPcs, CancelPcs, BoundPcs, GuardInv, HandleInv, Held, Holding,
     Serving
<1>10. ArmingInv'
  BY <1>a, <1>b, <1>c, <1>d, Frames DEF ArmingInv, CurrentInv, MemberPcs,
     ForwardPcs, CancelPcs, BoundPcs, Fresh, Quiet, Holding, Serving,
     StartInv, WorkerPcs
<1>11. ProvingInv'
  BY <1>a, <1>b, <1>c, <1>d, Frames DEF ProvingInv, CurrentInv, MemberPcs,
     ForwardPcs, CancelPcs, BoundPcs, Quiet, Holding, Serving
<1>12. ClosingInv'
  BY <1>a, <1>b, <1>c, <1>d, Frames DEF ClosingInv, CurrentInv, MemberPcs,
     ForwardPcs, CancelPcs, BoundPcs, Quiet, Holding, Serving, GuardInv,
     HandleInv, Held
<1>13. RecoverInv'
  BY <1>a DEF RecoverInv
<1>14. BatchInv'
  BY <1>a DEF BatchInv
<1>15. OneAfterAnother'
  BY <1>a, <1>b, <1>c, <1>d DEF OneAfterAnother
<1> QED
  BY <1>1, <1>2, <1>3, <1>4, <1>5, <1>6, <1>7, <1>8, <1>9, <1>10, <1>11,
     <1>12, <1>13, <1>14, <1>15

LEMMA RetainsInv ==
  ASSUME IInv, NEW i \in Items, GuardianRetains(i)
  PROVE  IInv'
<1> USE DispositionAssumption DEF IInv, Items, Goto, Fault, NoFault, rows,
        disk, guardian, channel, locals, bounds
<1>s. Shape
  BY Shapes
<1>a. /\ UNCHANGED <<batch, entry, item, opItem, reason, gstate, cleaned>>
      /\ UNCHANGED <<archived, pipe, pc, cur, phold, gone>>
      /\ UNCHANGED <<insync, pcancelled, csafe, jfailed>>
  BY DEF GuardianRetains, RetainsUntil, GuardianFrame
<1>b. \A j \in Items : j # i =>
        /\ gphase'[j] = gphase[j] /\ gexcl'[j] = gexcl[j]
        /\ armed'[j] = armed[j] /\ receipt'[j] = receipt[j]
        /\ cmd'[j] = cmd[j] /\ reply'[j] = reply[j]
  BY <1>s DEF GuardianRetains, RetainsUntil, GuardianFrame, Shape
<1>c. \A j \in Items : j # i => present'[j] = present[j]
  BY <1>s DEF GuardianRetains, RetainsUntil, GuardianFrame, Shape, HandleInv,
     Held
<1>d. /\ gphase[i] = "retaining" /\ gphase'[i] \in {"retaining", "dead"}
      /\ gphase'[i] = "dead" => gexcl[i] \/ gone
      /\ ~armed'[i] /\ present'[i] = present[i] /\ gexcl'[i] = gexcl[i]
      /\ receipt'[i] = receipt[i] /\ cmd'[i] = cmd[i] /\ reply'[i] = reply[i]
  BY <1>s, Frames DEF GuardianRetains, RetainsUntil, GuardianFrame, Shape
<1>1. TypeOK'
  <2>1. faults' \in 0..MaxFaults /\ crashes' \in 0..MaxCrashes
        /\ kills' \in 0..MaxKills
    BY DEF GuardianRetains, RetainsUntil, GuardianFrame, TypeOK
  <2>2. gphase' \in [Items -> Phases]
      <3>1. gphase' = gphase \/ gphase' = [gphase EXCEPT ![i] = "dead"]
      BY DEF GuardianRetains, RetainsUntil
    <3> QED
      BY <3>1 DEF TypeOK, Phases, Holding, Serving
  <2>3. gexcl' \in [Items -> BOOLEAN]
    BY DEF GuardianRetains, RetainsUntil, GuardianFrame, TypeOK
  <2>4. cmd' \in [Items -> Seq(Commands)]
    BY DEF GuardianRetains, RetainsUntil, GuardianFrame, TypeOK, Commands
  <2>5. reply' \in [Items -> Replies]
    BY DEF GuardianRetains, RetainsUntil, GuardianFrame, TypeOK, Replies
  <2>6. armed' \in [Items -> BOOLEAN]
    BY DEF GuardianRetains, RetainsUntil, GuardianFrame, TypeOK
  <2>7. present' \in [Items -> BOOLEAN]
    BY DEF GuardianRetains, RetainsUntil, GuardianFrame, TypeOK
  <2>8. receipt' \in [Items -> {"none", "empty", "flushed"}]
    BY DEF GuardianRetains, RetainsUntil, GuardianFrame, TypeOK
  <2> QED
    BY <1>a, <2>1, <2>2, <2>3, <2>4, <2>5, <2>6, <2>7, <2>8 DEF TypeOK
<1>2. HandleInv'
  BY <1>a, <1>b, <1>c, <1>d DEF HandleInv, GuardInv, Held, Holding, Serving
<1>3. RowInv'
  BY <1>a, <1>b, <1>c, <1>d DEF RowInv, HandleInv, GuardInv, Held, Holding,
     Serving
<1>4. GuardInv'
  BY <1>a, <1>b, <1>c, <1>d DEF GuardInv, HandleInv, RowInv, Held, Holding,
     Serving
<1>5. StartInv'
  BY <1>a, <1>b, <1>c, <1>d DEF StartInv, WorkerPcs, Quiet, Holding, Serving
<1>6. CurrentInv'
  BY <1>a DEF CurrentInv
<1>7. AheadInv'
  BY <1>a DEF AheadInv
<1>8. BehindInv'
  BY <1>a, <1>b, <1>c, <1>d DEF BehindInv, CurrentInv, MemberPcs, ForwardPcs,
     CancelPcs, BoundPcs, Fresh, Quiet, Holding, Serving
<1>9. CancelledInv'
  BY <1>a, <1>b, <1>c, <1>d DEF CancelledInv, CurrentInv, MemberPcs,
     ForwardPcs, CancelPcs, BoundPcs, GuardInv, HandleInv, Held, Holding,
     Serving
<1>10. ArmingInv'
  BY <1>a, <1>b, <1>c, <1>d, Frames DEF ArmingInv, CurrentInv, MemberPcs,
     ForwardPcs, CancelPcs, BoundPcs, Fresh, Quiet, Holding, Serving,
     StartInv, WorkerPcs
<1>11. ProvingInv'
  BY <1>a, <1>b, <1>c, <1>d, Frames DEF ProvingInv, CurrentInv, MemberPcs,
     ForwardPcs, CancelPcs, BoundPcs, Quiet, Holding, Serving
<1>12. ClosingInv'
  BY <1>a, <1>b, <1>c, <1>d, Frames DEF ClosingInv, CurrentInv, MemberPcs,
     ForwardPcs, CancelPcs, BoundPcs, Quiet, Holding, Serving, GuardInv,
     HandleInv, Held
<1>13. RecoverInv'
  BY <1>a DEF RecoverInv
<1>14. BatchInv'
  BY <1>a DEF BatchInv
<1>15. OneAfterAnother'
  BY <1>a, <1>b, <1>c, <1>d DEF OneAfterAnother
<1> QED
  BY <1>1, <1>2, <1>3, <1>4, <1>5, <1>6, <1>7, <1>8, <1>9, <1>10, <1>11,
     <1>12, <1>13, <1>14, <1>15

LEMMA KilledInv ==
  ASSUME IInv, NEW i \in Items, GuardianKilled(i)
  PROVE  IInv'
<1> USE DispositionAssumption DEF IInv, Items, Goto, Fault, NoFault, rows,
        disk, guardian, channel, locals, bounds
<1>s. Shape
  BY Shapes
<1>a. /\ UNCHANGED <<batch, entry, item, opItem, reason, gstate, cleaned>>
      /\ UNCHANGED <<archived, pipe, pc, cur, phold, gone>>
      /\ UNCHANGED <<insync, pcancelled, csafe, jfailed>>
  BY DEF GuardianKilled, HandlesClose, GuardianFrame
<1>b. \A j \in Items : j # i =>
        /\ gphase'[j] = gphase[j] /\ gexcl'[j] = gexcl[j]
        /\ armed'[j] = armed[j] /\ receipt'[j] = receipt[j]
        /\ cmd'[j] = cmd[j] /\ reply'[j] = reply[j]
  BY <1>s DEF GuardianKilled, HandlesClose, GuardianFrame, Shape
<1>c. \A j \in Items : j # i => present'[j] = present[j]
  BY <1>s DEF GuardianKilled, HandlesClose, GuardianFrame, Shape, HandleInv,
     Held
<1>d. /\ gphase[i] \in Holding /\ gphase'[i] = "killed"
      /\ gexcl'[i] = gexcl[i] /\ armed'[i] = armed[i] /\ receipt'[i] = receipt[i]
      /\ cmd'[i] = cmd[i] /\ reply'[i] = reply[i]
      /\ present'[i] = (present[i] /\ (armed[i] => phold[i]))
  BY <1>s, Frames DEF GuardianKilled, HandlesClose, GuardianFrame, Shape,
     Holding, Serving
<1>1. TypeOK'
  <2>1. faults' \in 0..MaxFaults /\ crashes' \in 0..MaxCrashes
        /\ kills' \in 0..MaxKills
    BY DEF GuardianKilled, HandlesClose, GuardianFrame, TypeOK
  <2>2. gphase' \in [Items -> Phases]
    BY DEF GuardianKilled, HandlesClose, GuardianFrame, TypeOK, Phases,
       Holding, Serving
  <2>3. gexcl' \in [Items -> BOOLEAN]
    BY DEF GuardianKilled, HandlesClose, GuardianFrame, TypeOK
  <2>4. cmd' \in [Items -> Seq(Commands)]
    BY DEF GuardianKilled, HandlesClose, GuardianFrame, TypeOK, Commands
  <2>5. reply' \in [Items -> Replies]
    BY DEF GuardianKilled, HandlesClose, GuardianFrame, TypeOK, Replies
  <2>6. armed' \in [Items -> BOOLEAN]
    BY DEF GuardianKilled, HandlesClose, GuardianFrame, TypeOK
  <2>7. present' \in [Items -> BOOLEAN]
    BY DEF GuardianKilled, HandlesClose, GuardianFrame, TypeOK
  <2>8. receipt' \in [Items -> {"none", "empty", "flushed"}]
    BY DEF GuardianKilled, HandlesClose, GuardianFrame, TypeOK
  <2> QED
    BY <1>a, <2>1, <2>2, <2>3, <2>4, <2>5, <2>6, <2>7, <2>8 DEF TypeOK
<1>2. HandleInv'
  BY <1>a, <1>b, <1>c, <1>d DEF HandleInv, GuardInv, Held, Holding, Serving
<1>3. RowInv'
  BY <1>a, <1>b, <1>c, <1>d DEF RowInv, HandleInv, GuardInv, Held, Holding,
     Serving
<1>4. GuardInv'
  BY <1>a, <1>b, <1>c, <1>d DEF GuardInv, HandleInv, RowInv, Held, Holding,
     Serving
<1>5. StartInv'
  BY <1>a, <1>b, <1>c, <1>d DEF StartInv, WorkerPcs, Quiet, Holding, Serving
<1>6. CurrentInv'
  BY <1>a DEF CurrentInv
<1>7. AheadInv'
  BY <1>a DEF AheadInv
<1>8. BehindInv'
  BY <1>a, <1>b, <1>c, <1>d DEF BehindInv, CurrentInv, MemberPcs, ForwardPcs,
     CancelPcs, BoundPcs, Fresh, Quiet, Holding, Serving
<1>9. CancelledInv'
  BY <1>a, <1>b, <1>c, <1>d DEF CancelledInv, CurrentInv, MemberPcs,
     ForwardPcs, CancelPcs, BoundPcs, GuardInv, HandleInv, Held, Holding,
     Serving
<1>10. ArmingInv'
  BY <1>a, <1>b, <1>c, <1>d, Frames DEF ArmingInv, CurrentInv, MemberPcs,
     ForwardPcs, CancelPcs, BoundPcs, Fresh, Quiet, Holding, Serving,
     StartInv, WorkerPcs
<1>11. ProvingInv'
  BY <1>a, <1>b, <1>c, <1>d, Frames DEF ProvingInv, CurrentInv, MemberPcs,
     ForwardPcs, CancelPcs, BoundPcs, Quiet, Holding, Serving
<1>12. ClosingInv'
  BY <1>a, <1>b, <1>c, <1>d, Frames DEF ClosingInv, CurrentInv, MemberPcs,
     ForwardPcs, CancelPcs, BoundPcs, Quiet, Holding, Serving, GuardInv,
     HandleInv, Held
<1>13. RecoverInv'
  BY <1>a DEF RecoverInv
<1>14. BatchInv'
  BY <1>a DEF BatchInv
<1>15. OneAfterAnother'
  BY <1>a, <1>b, <1>c, <1>d DEF OneAfterAnother
<1> QED
  BY <1>1, <1>2, <1>3, <1>4, <1>5, <1>6, <1>7, <1>8, <1>9, <1>10, <1>11,
     <1>12, <1>13, <1>14, <1>15

LEMMA QuitInv ==
  ASSUME IInv, Quit
  PROVE  IInv'
<1> USE DispositionAssumption DEF IInv, Goto, Fault, NoFault, rows, disk,
        guardian, channel, locals, bounds, Items, Quit, ParentEnds,
        HandlesClose
<1>s. Shape
  BY Shapes
<1>1. TypeOK'
  <2>1. pc' \in Pcs
    BY DEF TypeOK, Pcs, WorkerPcs
  <2>2. /\ faults' \in 0..MaxFaults /\ crashes' \in 0..MaxCrashes
        /\ kills' \in 0..MaxKills
    BY DEF TypeOK
  <2>3. present' \in [Items -> BOOLEAN]
    BY DEF TypeOK
  <2>4. armed' \in [Items -> BOOLEAN]
    BY DEF TypeOK
  <2>5. gphase' \in [Items -> Phases]
    BY DEF TypeOK, Phases, Holding, Serving
  <2>6. pipe' \in [Items -> BOOLEAN]
    BY DEF TypeOK
  <2>7. cur' \in 0..NItems + 1
    BY DEF TypeOK, RecoverInv
  <2>8. phold' \in [Items -> BOOLEAN]
    BY DEF TypeOK
  <2> QED
    BY <2>1, <2>2, <2>3, <2>4, <2>5, <2>6, <2>7, <2>8 DEF TypeOK
<1>2. HandleInv'
  BY <1>s DEF HandleInv, Held, StartInv, CurrentInv, MemberPcs, ForwardPcs,
     CancelPcs, BoundPcs, Shape, Holding, Serving
<1>3. RowInv'
  BY <1>s DEF RowInv, StartInv, CurrentInv, ClosingInv, MemberPcs, ForwardPcs,
     CancelPcs, BoundPcs, Shape
<1>4. GuardInv'
  BY <1>s DEF GuardInv, HandleInv, RowInv, Held, ArmingInv, ProvingInv,
     ClosingInv, CurrentInv, MemberPcs, ForwardPcs, CancelPcs, BoundPcs,
     Holding, Serving, Shape, Quiet
<1>5. StartInv'
  BY <1>s DEF StartInv, WorkerPcs, Quiet, Shape
<1>6. CurrentInv'
  BY <1>s DEF CurrentInv, MemberPcs, ForwardPcs, CancelPcs, BoundPcs, Shape
<1>7. AheadInv'
  BY <1>s DEF AheadInv, CurrentInv, MemberPcs, ForwardPcs, CancelPcs,
     BoundPcs, Shape
<1>8. BehindInv'
  BY <1>s DEF BehindInv, CurrentInv, MemberPcs, ForwardPcs, CancelPcs,
     BoundPcs, Fresh, Quiet, Shape
<1>9. CancelledInv'
  BY <1>s DEF CancelledInv, CurrentInv, MemberPcs, ForwardPcs, CancelPcs,
     BoundPcs, Shape
<1>10. ArmingInv'
  BY <1>s DEF ArmingInv, CurrentInv, MemberPcs, ForwardPcs, CancelPcs,
     BoundPcs, Fresh, Quiet, Shape
<1>11. ProvingInv'
  BY <1>s DEF ProvingInv, CurrentInv, MemberPcs, ForwardPcs, CancelPcs,
     BoundPcs, Quiet, Shape
<1>12. ClosingInv'
  BY <1>s DEF ClosingInv, CurrentInv, MemberPcs, ForwardPcs, CancelPcs,
     BoundPcs, Quiet, Shape
<1>13. RecoverInv'
  BY <1>s DEF RecoverInv, RowInv, Shape
<1>14. BatchInv'
  BY <1>s DEF BatchInv, WorkerPcs, Shape
<1>15. OneAfterAnother'
  BY <1>s DEF OneAfterAnother, StartInv, RowInv, CurrentInv, AheadInv,
     BehindInv, ArmingInv, ProvingInv, ClosingInv, MemberPcs, ForwardPcs,
     CancelPcs, BoundPcs, Shape
<1> QED
  BY <1>1, <1>2, <1>3, <1>4, <1>5, <1>6, <1>7, <1>8, <1>9, <1>10, <1>11,
     <1>12, <1>13, <1>14, <1>15

LEMMA CrashInv ==
  ASSUME IInv, Crash
  PROVE  IInv'
<1> USE DispositionAssumption DEF IInv, Goto, Fault, NoFault, rows, disk,
        guardian, channel, locals, bounds, Items, Crash, ParentEnds,
        HandlesClose
<1>s. Shape
  BY Shapes
<1>1. TypeOK'
  <2>1. pc' \in Pcs
    BY DEF TypeOK, Pcs, WorkerPcs
  <2>2. /\ faults' \in 0..MaxFaults /\ crashes' \in 0..MaxCrashes
        /\ kills' \in 0..MaxKills
    BY DEF TypeOK
  <2>3. present' \in [Items -> BOOLEAN]
    BY DEF TypeOK
  <2>4. armed' \in [Items -> BOOLEAN]
    BY DEF TypeOK
  <2>5. gphase' \in [Items -> Phases]
    BY DEF TypeOK, Phases, Holding, Serving
  <2>6. pipe' \in [Items -> BOOLEAN]
    BY DEF TypeOK
  <2>7. cur' \in 0..NItems + 1
    BY DEF TypeOK, RecoverInv
  <2>8. phold' \in [Items -> BOOLEAN]
    BY DEF TypeOK
  <2> QED
    BY <2>1, <2>2, <2>3, <2>4, <2>5, <2>6, <2>7, <2>8 DEF TypeOK
<1>2. HandleInv'
  BY <1>s DEF HandleInv, Held, StartInv, CurrentInv, MemberPcs, ForwardPcs,
     CancelPcs, BoundPcs, Shape, Holding, Serving
<1>3. RowInv'
  BY <1>s DEF RowInv, StartInv, CurrentInv, ClosingInv, MemberPcs, ForwardPcs,
     CancelPcs, BoundPcs, Shape
<1>4. GuardInv'
  BY <1>s DEF GuardInv, HandleInv, RowInv, Held, ArmingInv, ProvingInv,
     ClosingInv, CurrentInv, MemberPcs, ForwardPcs, CancelPcs, BoundPcs,
     Holding, Serving, Shape, Quiet
<1>5. StartInv'
  BY <1>s DEF StartInv, WorkerPcs, Quiet, Shape
<1>6. CurrentInv'
  BY <1>s DEF CurrentInv, MemberPcs, ForwardPcs, CancelPcs, BoundPcs, Shape
<1>7. AheadInv'
  BY <1>s DEF AheadInv, CurrentInv, MemberPcs, ForwardPcs, CancelPcs,
     BoundPcs, Shape
<1>8. BehindInv'
  BY <1>s DEF BehindInv, CurrentInv, MemberPcs, ForwardPcs, CancelPcs,
     BoundPcs, Fresh, Quiet, Shape
<1>9. CancelledInv'
  BY <1>s DEF CancelledInv, CurrentInv, MemberPcs, ForwardPcs, CancelPcs,
     BoundPcs, Shape
<1>10. ArmingInv'
  BY <1>s DEF ArmingInv, CurrentInv, MemberPcs, ForwardPcs, CancelPcs,
     BoundPcs, Fresh, Quiet, Shape
<1>11. ProvingInv'
  BY <1>s DEF ProvingInv, CurrentInv, MemberPcs, ForwardPcs, CancelPcs,
     BoundPcs, Quiet, Shape
<1>12. ClosingInv'
  BY <1>s DEF ClosingInv, CurrentInv, MemberPcs, ForwardPcs, CancelPcs,
     BoundPcs, Quiet, Shape
<1>13. RecoverInv'
  BY <1>s DEF RecoverInv, RowInv, Shape
<1>14. BatchInv'
  BY <1>s DEF BatchInv, WorkerPcs, Shape
<1>15. OneAfterAnother'
  BY <1>s DEF OneAfterAnother, StartInv, RowInv, CurrentInv, AheadInv,
     BehindInv, ArmingInv, ProvingInv, ClosingInv, MemberPcs, ForwardPcs,
     CancelPcs, BoundPcs, Shape
<1> QED
  BY <1>1, <1>2, <1>3, <1>4, <1>5, <1>6, <1>7, <1>8, <1>9, <1>10, <1>11,
     <1>12, <1>13, <1>14, <1>15

LEMMA StartInvariance ==
  ASSUME IInv, Start
  PROVE  IInv'
<1> USE DispositionAssumption DEF IInv, Goto, Fault, NoFault, rows, disk,
        guardian, channel, locals, bounds, Items, Start
<1>s. Shape
  BY Shapes
<1>1. TypeOK'
  <2>1. pc' \in Pcs
    BY DEF TypeOK, Pcs, WorkerPcs
  <2>2. /\ faults' \in 0..MaxFaults /\ crashes' \in 0..MaxCrashes
        /\ kills' \in 0..MaxKills
    BY DEF TypeOK
  <2> QED
    BY <2>1, <2>2 DEF TypeOK
<1>2. HandleInv'
  BY <1>s DEF HandleInv, Held, StartInv, CurrentInv, MemberPcs, ForwardPcs,
     CancelPcs, BoundPcs, Shape, Holding, Serving
<1>3. RowInv'
  BY <1>s DEF RowInv, StartInv, CurrentInv, ClosingInv, MemberPcs, ForwardPcs,
     CancelPcs, BoundPcs, Shape
<1>4. GuardInv'
  BY <1>s DEF GuardInv, HandleInv, RowInv, Held, ArmingInv, ProvingInv,
     ClosingInv, CurrentInv, MemberPcs, ForwardPcs, CancelPcs, BoundPcs,
     Holding, Serving, Shape, Quiet
<1>5. StartInv'
  BY <1>s DEF StartInv, WorkerPcs, Quiet, Shape
<1>6. CurrentInv'
  BY <1>s DEF CurrentInv, MemberPcs, ForwardPcs, CancelPcs, BoundPcs, Shape
<1>7. AheadInv'
  BY <1>s DEF AheadInv, CurrentInv, MemberPcs, ForwardPcs, CancelPcs,
     BoundPcs, Shape
<1>8. BehindInv'
  BY <1>s DEF BehindInv, CurrentInv, MemberPcs, ForwardPcs, CancelPcs,
     BoundPcs, Fresh, Quiet, Shape
<1>9. CancelledInv'
  BY <1>s DEF CancelledInv, CurrentInv, MemberPcs, ForwardPcs, CancelPcs,
     BoundPcs, Shape
<1>10. ArmingInv'
  BY <1>s DEF ArmingInv, CurrentInv, MemberPcs, ForwardPcs, CancelPcs,
     BoundPcs, Fresh, Quiet, Shape
<1>11. ProvingInv'
  BY <1>s DEF ProvingInv, CurrentInv, MemberPcs, ForwardPcs, CancelPcs,
     BoundPcs, Quiet, Shape
<1>12. ClosingInv'
  BY <1>s DEF ClosingInv, CurrentInv, MemberPcs, ForwardPcs, CancelPcs,
     BoundPcs, Quiet, Shape
<1>13. RecoverInv'
  BY <1>s DEF RecoverInv, RowInv, Shape
<1>14. BatchInv'
  BY <1>s DEF BatchInv, WorkerPcs, Shape
<1>15. OneAfterAnother'
  BY <1>s DEF OneAfterAnother, StartInv, RowInv, CurrentInv, AheadInv,
     BehindInv, ArmingInv, ProvingInv, ClosingInv, MemberPcs, ForwardPcs,
     CancelPcs, BoundPcs, Shape
<1> QED
  BY <1>1, <1>2, <1>3, <1>4, <1>5, <1>6, <1>7, <1>8, <1>9, <1>10, <1>11,
     <1>12, <1>13, <1>14, <1>15

LEMMA RecoverStartInv ==
  ASSUME IInv, RecoverStart
  PROVE  IInv'
<1> USE DispositionAssumption DEF IInv, Goto, Fault, NoFault, rows, disk,
        guardian, channel, locals, bounds, Items, RecoverStart
<1>s. Shape
  BY Shapes
<1>1. TypeOK'
  <2>1. pc' \in Pcs
    BY DEF TypeOK, Pcs, WorkerPcs
  <2>2. /\ faults' \in 0..MaxFaults /\ crashes' \in 0..MaxCrashes
        /\ kills' \in 0..MaxKills
    BY DEF TypeOK
  <2>3. cur' \in 0..NItems + 1
    BY DEF TypeOK, RecoverInv
  <2> QED
    BY <2>1, <2>2, <2>3 DEF TypeOK
<1>2. HandleInv'
  BY <1>s DEF HandleInv, Held, StartInv, CurrentInv, MemberPcs, ForwardPcs,
     CancelPcs, BoundPcs, Shape, Holding, Serving
<1>3. RowInv'
  BY <1>s DEF RowInv, StartInv, CurrentInv, ClosingInv, MemberPcs, ForwardPcs,
     CancelPcs, BoundPcs, Shape
<1>4. GuardInv'
  BY <1>s DEF GuardInv, HandleInv, RowInv, Held, ArmingInv, ProvingInv,
     ClosingInv, CurrentInv, MemberPcs, ForwardPcs, CancelPcs, BoundPcs,
     Holding, Serving, Shape, Quiet
<1>5. StartInv'
  BY <1>s DEF StartInv, WorkerPcs, Quiet, Shape
<1>6. CurrentInv'
  BY <1>s DEF CurrentInv, MemberPcs, ForwardPcs, CancelPcs, BoundPcs, Shape
<1>7. AheadInv'
  BY <1>s DEF AheadInv, CurrentInv, MemberPcs, ForwardPcs, CancelPcs,
     BoundPcs, Shape
<1>8. BehindInv'
  BY <1>s DEF BehindInv, CurrentInv, MemberPcs, ForwardPcs, CancelPcs,
     BoundPcs, Fresh, Quiet, Shape
<1>9. CancelledInv'
  BY <1>s DEF CancelledInv, CurrentInv, MemberPcs, ForwardPcs, CancelPcs,
     BoundPcs, Shape
<1>10. ArmingInv'
  BY <1>s DEF ArmingInv, CurrentInv, MemberPcs, ForwardPcs, CancelPcs,
     BoundPcs, Fresh, Quiet, Shape
<1>11. ProvingInv'
  BY <1>s DEF ProvingInv, CurrentInv, MemberPcs, ForwardPcs, CancelPcs,
     BoundPcs, Quiet, Shape
<1>12. ClosingInv'
  BY <1>s DEF ClosingInv, CurrentInv, MemberPcs, ForwardPcs, CancelPcs,
     BoundPcs, Quiet, Shape
<1>13. RecoverInv'
  BY <1>s DEF RecoverInv, RowInv, Shape
<1>14. BatchInv'
  BY <1>s DEF BatchInv, WorkerPcs, Shape
<1>15. OneAfterAnother'
  BY <1>s DEF OneAfterAnother, StartInv, RowInv, CurrentInv, AheadInv,
     BehindInv, ArmingInv, ProvingInv, ClosingInv, MemberPcs, ForwardPcs,
     CancelPcs, BoundPcs, Shape
<1> QED
  BY <1>1, <1>2, <1>3, <1>4, <1>5, <1>6, <1>7, <1>8, <1>9, <1>10, <1>11,
     <1>12, <1>13, <1>14, <1>15

LEMMA RecoverClosedInv ==
  ASSUME IInv, RecoverClosed
  PROVE  IInv'
<1> USE DispositionAssumption DEF IInv, Goto, Fault, NoFault, rows, disk,
        guardian, channel, locals, bounds, Items, RecoverClosed, NextItem,
        RecoveryFrame
<1>s. Shape
  BY Shapes
<1>1. TypeOK'
  <2>1. pc' \in Pcs
    BY DEF TypeOK, Pcs, WorkerPcs
  <2>2. /\ faults' \in 0..MaxFaults /\ crashes' \in 0..MaxCrashes
        /\ kills' \in 0..MaxKills
    BY DEF TypeOK
  <2>3. cur' \in 0..NItems + 1
    BY DEF TypeOK, RecoverInv
  <2> QED
    BY <2>1, <2>2, <2>3 DEF TypeOK
<1>2. HandleInv'
  BY <1>s DEF HandleInv, Held, StartInv, CurrentInv, MemberPcs, ForwardPcs,
     CancelPcs, BoundPcs, Shape, Holding, Serving
<1>3. RowInv'
  BY <1>s DEF RowInv, StartInv, CurrentInv, ClosingInv, MemberPcs, ForwardPcs,
     CancelPcs, BoundPcs, Shape, HandleInv, RecoverInv
<1>4. GuardInv'
  BY <1>s DEF GuardInv, HandleInv, RowInv, Held, ArmingInv, ProvingInv,
     ClosingInv, CurrentInv, MemberPcs, ForwardPcs, CancelPcs, BoundPcs,
     Holding, Serving, Shape, Quiet
<1>5. StartInv'
  BY <1>s DEF StartInv, WorkerPcs, Quiet, Shape
<1>6. CurrentInv'
  BY <1>s DEF CurrentInv, MemberPcs, ForwardPcs, CancelPcs, BoundPcs, Shape
<1>7. AheadInv'
  BY <1>s DEF AheadInv, CurrentInv, MemberPcs, ForwardPcs, CancelPcs,
     BoundPcs, Shape
<1>8. BehindInv'
  BY <1>s DEF BehindInv, CurrentInv, MemberPcs, ForwardPcs, CancelPcs,
     BoundPcs, Fresh, Quiet, Shape
<1>9. CancelledInv'
  BY <1>s DEF CancelledInv, CurrentInv, MemberPcs, ForwardPcs, CancelPcs,
     BoundPcs, Shape
<1>10. ArmingInv'
  BY <1>s DEF ArmingInv, CurrentInv, MemberPcs, ForwardPcs, CancelPcs,
     BoundPcs, Fresh, Quiet, Shape
<1>11. ProvingInv'
  BY <1>s DEF ProvingInv, CurrentInv, MemberPcs, ForwardPcs, CancelPcs,
     BoundPcs, Quiet, Shape
<1>12. ClosingInv'
  BY <1>s DEF ClosingInv, CurrentInv, MemberPcs, ForwardPcs, CancelPcs,
     BoundPcs, Quiet, Shape
<1>13. RecoverInv'
  BY <1>s DEF RecoverInv, RowInv, Shape
<1>14. BatchInv'
  BY <1>s DEF BatchInv, WorkerPcs, Shape
<1>15. OneAfterAnother'
  BY <1>s DEF OneAfterAnother, StartInv, RowInv, CurrentInv, AheadInv,
     BehindInv, ArmingInv, ProvingInv, ClosingInv, MemberPcs, ForwardPcs,
     CancelPcs, BoundPcs, Shape
<1> QED
  BY <1>1, <1>2, <1>3, <1>4, <1>5, <1>6, <1>7, <1>8, <1>9, <1>10, <1>11,
     <1>12, <1>13, <1>14, <1>15

LEMMA RecoverUnstartedInv ==
  ASSUME IInv, RecoverUnstarted
  PROVE  IInv'
<1> USE DispositionAssumption DEF IInv, Goto, Fault, NoFault, rows, disk,
        guardian, channel, locals, bounds, Items, RecoverUnstarted, NextItem,
        Ambiguous, RecoveryFrame
<1>s. Shape
  BY Shapes
<1>1. TypeOK'
  <2>1. pc' \in Pcs
    BY DEF TypeOK, Pcs, WorkerPcs
  <2>2. /\ faults' \in 0..MaxFaults /\ crashes' \in 0..MaxCrashes
        /\ kills' \in 0..MaxKills
    BY DEF TypeOK
  <2>3. item' \in [Items -> {"ready", "deleting", "interrupted", "deleted", "blocked"}]
    BY DEF TypeOK
  <2>4. opItem' \in [Items -> {"pending", "deleting", "done", "failed",
                           "rolled_back", "skipped"}]
    BY DEF TypeOK
  <2>5. cur' \in 0..NItems + 1
    BY DEF TypeOK, RecoverInv
  <2> QED
    BY <2>1, <2>2, <2>3, <2>4, <2>5 DEF TypeOK
<1>2. HandleInv'
  BY <1>s DEF HandleInv, Held, StartInv, CurrentInv, MemberPcs, ForwardPcs,
     CancelPcs, BoundPcs, Shape, Holding, Serving
<1>3. RowInv'
  BY <1>s DEF RowInv, StartInv, CurrentInv, ClosingInv, MemberPcs, ForwardPcs,
     CancelPcs, BoundPcs, Shape, HandleInv, RecoverInv
<1>4. GuardInv'
  BY <1>s DEF GuardInv, HandleInv, RowInv, Held, ArmingInv, ProvingInv,
     ClosingInv, CurrentInv, MemberPcs, ForwardPcs, CancelPcs, BoundPcs,
     Holding, Serving, Shape, Quiet
<1>5. StartInv'
  BY <1>s DEF StartInv, WorkerPcs, Quiet, Shape
<1>6. CurrentInv'
  BY <1>s DEF CurrentInv, MemberPcs, ForwardPcs, CancelPcs, BoundPcs, Shape
<1>7. AheadInv'
  BY <1>s DEF AheadInv, CurrentInv, MemberPcs, ForwardPcs, CancelPcs,
     BoundPcs, Shape
<1>8. BehindInv'
  BY <1>s DEF BehindInv, CurrentInv, MemberPcs, ForwardPcs, CancelPcs,
     BoundPcs, Fresh, Quiet, Shape
<1>9. CancelledInv'
  BY <1>s DEF CancelledInv, CurrentInv, MemberPcs, ForwardPcs, CancelPcs,
     BoundPcs, Shape
<1>10. ArmingInv'
  BY <1>s DEF ArmingInv, CurrentInv, MemberPcs, ForwardPcs, CancelPcs,
     BoundPcs, Fresh, Quiet, Shape
<1>11. ProvingInv'
  BY <1>s DEF ProvingInv, CurrentInv, MemberPcs, ForwardPcs, CancelPcs,
     BoundPcs, Quiet, Shape
<1>12. ClosingInv'
  BY <1>s DEF ClosingInv, CurrentInv, MemberPcs, ForwardPcs, CancelPcs,
     BoundPcs, Quiet, Shape
<1>13. RecoverInv'
  BY <1>s DEF RecoverInv, RowInv, Shape
<1>14. BatchInv'
  BY <1>s DEF BatchInv, WorkerPcs, Shape
<1>15. OneAfterAnother'
  BY <1>s DEF OneAfterAnother, StartInv, RowInv, CurrentInv, AheadInv,
     BehindInv, ArmingInv, ProvingInv, ClosingInv, MemberPcs, ForwardPcs,
     CancelPcs, BoundPcs, Shape
<1> QED
  BY <1>1, <1>2, <1>3, <1>4, <1>5, <1>6, <1>7, <1>8, <1>9, <1>10, <1>11,
     <1>12, <1>13, <1>14, <1>15

LEMMA RollBackInv ==
  ASSUME IInv, RollBack
  PROVE  IInv'
<1> USE DispositionAssumption DEF IInv, Goto, Fault, NoFault, rows, disk,
        guardian, channel, locals, bounds, Items, RollBack, RollBackWhen,
        Ambiguous, Claimed, Held, RecoveryFrame
<1>s. Shape
  BY Shapes
<1>1. TypeOK'
  <2>1. pc' \in Pcs
    BY DEF TypeOK, Pcs, WorkerPcs
  <2>2. /\ faults' \in 0..MaxFaults /\ crashes' \in 0..MaxCrashes
        /\ kills' \in 0..MaxKills
    BY DEF TypeOK
  <2>3. entry' \in [Items -> {"quarantined", "deleting", "permanently_deleted"}]
    BY DEF TypeOK
  <2>4. item' \in [Items -> {"ready", "deleting", "interrupted", "deleted", "blocked"}]
    BY DEF TypeOK
  <2>5. opItem' \in [Items -> {"pending", "deleting", "done", "failed",
                           "rolled_back", "skipped"}]
    BY DEF TypeOK
  <2>6. reason' \in [Items -> {"none", "unproved", "proved"}]
    BY DEF TypeOK
  <2> QED
    BY <2>1, <2>2, <2>3, <2>4, <2>5, <2>6 DEF TypeOK
<1>2. HandleInv'
  BY <1>s DEF HandleInv, Held, StartInv, CurrentInv, MemberPcs, ForwardPcs,
     CancelPcs, BoundPcs, Shape, Holding, Serving
<1>3. RowInv'
  <2>1. cur \in Items
    BY DEF RecoverInv
  <2>2. CASE UNCHANGED <<entry, item>> /\ present' = present /\ armed' = armed
    BY <2>2 DEF RowInv
  <2>3. CASE /\ present[cur] /\ ~armed[cur]
             /\ entry' = [entry EXCEPT ![cur] = "quarantined"]
             /\ item' = [item EXCEPT ![cur] = "blocked"]
             /\ present' = present /\ armed' = armed
    BY ONLY <1>s, <2>1, <2>3, IInv DEF IInv, RowInv, Shape
  <2> QED
    BY <2>1, <2>2, <2>3 DEF HandleInv
<1>4. GuardInv'
  BY <1>s DEF GuardInv, HandleInv, RowInv, Held, ArmingInv, ProvingInv,
     ClosingInv, CurrentInv, MemberPcs, ForwardPcs, CancelPcs, BoundPcs,
     Holding, Serving, Shape, Quiet
<1>5. StartInv'
  BY <1>s DEF StartInv, WorkerPcs, Quiet, Shape
<1>6. CurrentInv'
  BY <1>s DEF CurrentInv, MemberPcs, ForwardPcs, CancelPcs, BoundPcs, Shape
<1>7. AheadInv'
  BY <1>s DEF AheadInv, CurrentInv, MemberPcs, ForwardPcs, CancelPcs,
     BoundPcs, Shape
<1>8. BehindInv'
  BY <1>s DEF BehindInv, CurrentInv, MemberPcs, ForwardPcs, CancelPcs,
     BoundPcs, Fresh, Quiet, Shape
<1>9. CancelledInv'
  BY <1>s DEF CancelledInv, CurrentInv, MemberPcs, ForwardPcs, CancelPcs,
     BoundPcs, Shape
<1>10. ArmingInv'
  BY <1>s DEF ArmingInv, CurrentInv, MemberPcs, ForwardPcs, CancelPcs,
     BoundPcs, Fresh, Quiet, Shape
<1>11. ProvingInv'
  BY <1>s DEF ProvingInv, CurrentInv, MemberPcs, ForwardPcs, CancelPcs,
     BoundPcs, Quiet, Shape
<1>12. ClosingInv'
  BY <1>s DEF ClosingInv, CurrentInv, MemberPcs, ForwardPcs, CancelPcs,
     BoundPcs, Quiet, Shape
<1>13. RecoverInv'
  BY <1>s DEF RecoverInv, RowInv, Shape
<1>14. BatchInv'
  BY <1>s DEF BatchInv, WorkerPcs, Shape
<1>15. OneAfterAnother'
  BY <1>s DEF OneAfterAnother, StartInv, RowInv, CurrentInv, AheadInv,
     BehindInv, ArmingInv, ProvingInv, ClosingInv, MemberPcs, ForwardPcs,
     CancelPcs, BoundPcs, Shape
<1> QED
  BY <1>1, <1>2, <1>3, <1>4, <1>5, <1>6, <1>7, <1>8, <1>9, <1>10, <1>11,
     <1>12, <1>13, <1>14, <1>15

LEMMA SettleAbsentInv ==
  ASSUME IInv, SettleAbsent
  PROVE  IInv'
<1> USE DispositionAssumption DEF IInv, Goto, Fault, NoFault, rows, disk,
        guardian, channel, locals, bounds, Items, SettleAbsent, Ambiguous,
        Claimed, RecoveryFrame
<1>s. Shape
  BY Shapes
<1>1. TypeOK'
  <2>1. pc' \in Pcs
    BY DEF TypeOK, Pcs, WorkerPcs
  <2>2. /\ faults' \in 0..MaxFaults /\ crashes' \in 0..MaxCrashes
        /\ kills' \in 0..MaxKills
    BY DEF TypeOK
  <2>3. entry' \in [Items -> {"quarantined", "deleting", "permanently_deleted"}]
    BY DEF TypeOK
  <2>4. item' \in [Items -> {"ready", "deleting", "interrupted", "deleted", "blocked"}]
    BY DEF TypeOK
  <2>5. opItem' \in [Items -> {"pending", "deleting", "done", "failed",
                           "rolled_back", "skipped"}]
    BY DEF TypeOK
  <2>6. reason' \in [Items -> {"none", "unproved", "proved"}]
    BY DEF TypeOK
  <2> QED
    BY <2>1, <2>2, <2>3, <2>4, <2>5, <2>6 DEF TypeOK
<1>2. HandleInv'
  BY <1>s DEF HandleInv, Held, StartInv, CurrentInv, MemberPcs, ForwardPcs,
     CancelPcs, BoundPcs, Shape, Holding, Serving
<1>3. RowInv'
  BY <1>s DEF RowInv, StartInv, CurrentInv, ClosingInv, MemberPcs, ForwardPcs,
     CancelPcs, BoundPcs, Shape, HandleInv, RecoverInv
<1>4. GuardInv'
  BY <1>s DEF GuardInv, HandleInv, RowInv, Held, ArmingInv, ProvingInv,
     ClosingInv, CurrentInv, MemberPcs, ForwardPcs, CancelPcs, BoundPcs,
     Holding, Serving, Shape, Quiet
<1>5. StartInv'
  BY <1>s DEF StartInv, WorkerPcs, Quiet, Shape
<1>6. CurrentInv'
  BY <1>s DEF CurrentInv, MemberPcs, ForwardPcs, CancelPcs, BoundPcs, Shape
<1>7. AheadInv'
  BY <1>s DEF AheadInv, CurrentInv, MemberPcs, ForwardPcs, CancelPcs,
     BoundPcs, Shape
<1>8. BehindInv'
  BY <1>s DEF BehindInv, CurrentInv, MemberPcs, ForwardPcs, CancelPcs,
     BoundPcs, Fresh, Quiet, Shape
<1>9. CancelledInv'
  BY <1>s DEF CancelledInv, CurrentInv, MemberPcs, ForwardPcs, CancelPcs,
     BoundPcs, Shape
<1>10. ArmingInv'
  BY <1>s DEF ArmingInv, CurrentInv, MemberPcs, ForwardPcs, CancelPcs,
     BoundPcs, Fresh, Quiet, Shape
<1>11. ProvingInv'
  BY <1>s DEF ProvingInv, CurrentInv, MemberPcs, ForwardPcs, CancelPcs,
     BoundPcs, Quiet, Shape
<1>12. ClosingInv'
  BY <1>s DEF ClosingInv, CurrentInv, MemberPcs, ForwardPcs, CancelPcs,
     BoundPcs, Quiet, Shape
<1>13. RecoverInv'
  BY <1>s DEF RecoverInv, RowInv, Shape
<1>14. BatchInv'
  BY <1>s DEF BatchInv, WorkerPcs, Shape
<1>15. OneAfterAnother'
  BY <1>s DEF OneAfterAnother, StartInv, RowInv, CurrentInv, AheadInv,
     BehindInv, ArmingInv, ProvingInv, ClosingInv, MemberPcs, ForwardPcs,
     CancelPcs, BoundPcs, Shape
<1> QED
  BY <1>1, <1>2, <1>3, <1>4, <1>5, <1>6, <1>7, <1>8, <1>9, <1>10, <1>11,
     <1>12, <1>13, <1>14, <1>15

LEMMA RecoverAmbiguousInv ==
  ASSUME IInv, RecoverAmbiguous
  PROVE  IInv'
<1> USE DispositionAssumption DEF IInv, Goto, Fault, NoFault, rows, disk,
        guardian, channel, locals, bounds, Items, RecoverAmbiguous, Ambiguous,
        Claimed, RecoveryFrame
<1>s. Shape
  BY Shapes
<1>1. TypeOK'
  <2>1. pc' \in Pcs
    BY DEF TypeOK, Pcs, WorkerPcs
  <2>2. /\ faults' \in 0..MaxFaults /\ crashes' \in 0..MaxCrashes
        /\ kills' \in 0..MaxKills
    BY DEF TypeOK
  <2> QED
    BY <2>1, <2>2 DEF TypeOK
<1>2. HandleInv'
  BY <1>s DEF HandleInv, Held, StartInv, CurrentInv, MemberPcs, ForwardPcs,
     CancelPcs, BoundPcs, Shape, Holding, Serving
<1>3. RowInv'
  BY <1>s DEF RowInv, StartInv, CurrentInv, ClosingInv, MemberPcs, ForwardPcs,
     CancelPcs, BoundPcs, Shape, HandleInv, RecoverInv
<1>4. GuardInv'
  BY <1>s DEF GuardInv, HandleInv, RowInv, Held, ArmingInv, ProvingInv,
     ClosingInv, CurrentInv, MemberPcs, ForwardPcs, CancelPcs, BoundPcs,
     Holding, Serving, Shape, Quiet
<1>5. StartInv'
  BY <1>s DEF StartInv, WorkerPcs, Quiet, Shape
<1>6. CurrentInv'
  BY <1>s DEF CurrentInv, MemberPcs, ForwardPcs, CancelPcs, BoundPcs, Shape
<1>7. AheadInv'
  BY <1>s DEF AheadInv, CurrentInv, MemberPcs, ForwardPcs, CancelPcs,
     BoundPcs, Shape
<1>8. BehindInv'
  BY <1>s DEF BehindInv, CurrentInv, MemberPcs, ForwardPcs, CancelPcs,
     BoundPcs, Fresh, Quiet, Shape
<1>9. CancelledInv'
  BY <1>s DEF CancelledInv, CurrentInv, MemberPcs, ForwardPcs, CancelPcs,
     BoundPcs, Shape
<1>10. ArmingInv'
  BY <1>s DEF ArmingInv, CurrentInv, MemberPcs, ForwardPcs, CancelPcs,
     BoundPcs, Fresh, Quiet, Shape
<1>11. ProvingInv'
  BY <1>s DEF ProvingInv, CurrentInv, MemberPcs, ForwardPcs, CancelPcs,
     BoundPcs, Quiet, Shape
<1>12. ClosingInv'
  BY <1>s DEF ClosingInv, CurrentInv, MemberPcs, ForwardPcs, CancelPcs,
     BoundPcs, Quiet, Shape
<1>13. RecoverInv'
  BY <1>s DEF RecoverInv, RowInv, Shape
<1>14. BatchInv'
  BY <1>s DEF BatchInv, WorkerPcs, Shape
<1>15. OneAfterAnother'
  BY <1>s DEF OneAfterAnother, StartInv, RowInv, CurrentInv, AheadInv,
     BehindInv, ArmingInv, ProvingInv, ClosingInv, MemberPcs, ForwardPcs,
     CancelPcs, BoundPcs, Shape
<1> QED
  BY <1>1, <1>2, <1>3, <1>4, <1>5, <1>6, <1>7, <1>8, <1>9, <1>10, <1>11,
     <1>12, <1>13, <1>14, <1>15

LEMMA RecoverCleanupInv ==
  ASSUME IInv, RecoverCleanup
  PROVE  IInv'
<1> USE DispositionAssumption DEF IInv, Goto, Fault, NoFault, rows, disk,
        guardian, channel, locals, bounds, Items, RecoverCleanup,
        RecoverCleanupWhen, NextItem, RecoveryAborts
<1>s. Shape
  BY Shapes
<1>1. TypeOK'
  <2>1. pc' \in Pcs
    BY DEF TypeOK, Pcs, WorkerPcs
  <2>2. /\ faults' \in 0..MaxFaults /\ crashes' \in 0..MaxCrashes
        /\ kills' \in 0..MaxKills
    BY DEF TypeOK
  <2>3. cleaned' \in [Items -> BOOLEAN]
    BY DEF TypeOK
  <2>4. receipt' \in [Items -> {"none", "empty", "flushed"}]
    BY DEF TypeOK
  <2>5. cur' \in 0..NItems + 1
    BY DEF TypeOK, RecoverInv
  <2> QED
    BY <2>1, <2>2, <2>3, <2>4, <2>5 DEF TypeOK
<1>2. HandleInv'
  BY <1>s DEF HandleInv, Held, StartInv, CurrentInv, MemberPcs, ForwardPcs,
     CancelPcs, BoundPcs, Shape, Holding, Serving
<1>3. RowInv'
  BY <1>s DEF RowInv, StartInv, CurrentInv, ClosingInv, MemberPcs, ForwardPcs,
     CancelPcs, BoundPcs, Shape
<1>4. GuardInv'
  BY <1>s DEF GuardInv, RecoverInv, Gone, Holding, Serving, Shape
<1>5. StartInv'
  BY <1>s DEF StartInv, WorkerPcs, Quiet, Shape
<1>6. CurrentInv'
  BY <1>s DEF CurrentInv, MemberPcs, ForwardPcs, CancelPcs, BoundPcs, Shape
<1>7. AheadInv'
  BY <1>s DEF AheadInv, CurrentInv, MemberPcs, ForwardPcs, CancelPcs,
     BoundPcs, Shape
<1>8. BehindInv'
  BY <1>s DEF BehindInv, CurrentInv, MemberPcs, ForwardPcs, CancelPcs,
     BoundPcs, Fresh, Quiet, Shape
<1>9. CancelledInv'
  BY <1>s DEF CancelledInv, CurrentInv, MemberPcs, ForwardPcs, CancelPcs,
     BoundPcs, Shape
<1>10. ArmingInv'
  BY <1>s DEF ArmingInv, CurrentInv, MemberPcs, ForwardPcs, CancelPcs,
     BoundPcs, Fresh, Quiet, Shape
<1>11. ProvingInv'
  BY <1>s DEF ProvingInv, CurrentInv, MemberPcs, ForwardPcs, CancelPcs,
     BoundPcs, Quiet, Shape
<1>12. ClosingInv'
  BY <1>s DEF ClosingInv, CurrentInv, MemberPcs, ForwardPcs, CancelPcs,
     BoundPcs, Quiet, Shape
<1>13. RecoverInv'
  BY <1>s DEF RecoverInv, RowInv, Shape
<1>14. BatchInv'
  BY <1>s DEF BatchInv, WorkerPcs, Shape
<1>15. OneAfterAnother'
  BY <1>s DEF OneAfterAnother, StartInv, RowInv, CurrentInv, AheadInv,
     BehindInv, ArmingInv, ProvingInv, ClosingInv, MemberPcs, ForwardPcs,
     CancelPcs, BoundPcs, Shape
<1> QED
  BY <1>1, <1>2, <1>3, <1>4, <1>5, <1>6, <1>7, <1>8, <1>9, <1>10, <1>11,
     <1>12, <1>13, <1>14, <1>15

LEMMA RecoverFinishInv ==
  ASSUME IInv, RecoverFinish
  PROVE  IInv'
<1> USE DispositionAssumption DEF IInv, Goto, Fault, NoFault, rows, disk,
        guardian, channel, locals, bounds, Items, RecoverFinish, Verdict,
        VerdictWith, RecoveryAborts
<1>s. Shape
  BY Shapes
<1>1. TypeOK'
  <2>1. pc' \in Pcs
    BY DEF TypeOK, Pcs, WorkerPcs
  <2>2. /\ faults' \in 0..MaxFaults /\ crashes' \in 0..MaxCrashes
        /\ kills' \in 0..MaxKills
    BY DEF TypeOK
  <2>3. batch' \in BatchStates
    BY DEF TypeOK, BatchStates
  <2>4. cur' \in 0..NItems + 1
    BY DEF TypeOK, RecoverInv
  <2> QED
    BY <2>1, <2>2, <2>3, <2>4 DEF TypeOK
<1>2. HandleInv'
  BY <1>s DEF HandleInv, Held, StartInv, CurrentInv, MemberPcs, ForwardPcs,
     CancelPcs, BoundPcs, Shape, Holding, Serving
<1>3. RowInv'
  BY <1>s DEF RowInv, StartInv, CurrentInv, ClosingInv, MemberPcs, ForwardPcs,
     CancelPcs, BoundPcs, Shape
<1>4. GuardInv'
  BY <1>s DEF GuardInv, HandleInv, RowInv, Held, ArmingInv, ProvingInv,
     ClosingInv, CurrentInv, MemberPcs, ForwardPcs, CancelPcs, BoundPcs,
     Holding, Serving, Shape, Quiet
<1>5. StartInv'
  BY <1>s DEF StartInv, WorkerPcs, Quiet, Shape
<1>6. CurrentInv'
  BY <1>s DEF CurrentInv, MemberPcs, ForwardPcs, CancelPcs, BoundPcs, Shape
<1>7. AheadInv'
  BY <1>s DEF AheadInv, CurrentInv, MemberPcs, ForwardPcs, CancelPcs,
     BoundPcs, Shape
<1>8. BehindInv'
  BY <1>s DEF BehindInv, CurrentInv, MemberPcs, ForwardPcs, CancelPcs,
     BoundPcs, Fresh, Quiet, Shape
<1>9. CancelledInv'
  BY <1>s DEF CancelledInv, CurrentInv, MemberPcs, ForwardPcs, CancelPcs,
     BoundPcs, Shape
<1>10. ArmingInv'
  BY <1>s DEF ArmingInv, CurrentInv, MemberPcs, ForwardPcs, CancelPcs,
     BoundPcs, Fresh, Quiet, Shape
<1>11. ProvingInv'
  BY <1>s DEF ProvingInv, CurrentInv, MemberPcs, ForwardPcs, CancelPcs,
     BoundPcs, Quiet, Shape
<1>12. ClosingInv'
  BY <1>s DEF ClosingInv, CurrentInv, MemberPcs, ForwardPcs, CancelPcs,
     BoundPcs, Quiet, Shape
<1>13. RecoverInv'
  BY <1>s DEF RecoverInv, RowInv, Shape
<1>14. BatchInv'
  BY <1>s DEF BatchInv, WorkerPcs, Shape
<1>15. OneAfterAnother'
  BY <1>s DEF OneAfterAnother, StartInv, RowInv, CurrentInv, AheadInv,
     BehindInv, ArmingInv, ProvingInv, ClosingInv, MemberPcs, ForwardPcs,
     CancelPcs, BoundPcs, Shape
<1> QED
  BY <1>1, <1>2, <1>3, <1>4, <1>5, <1>6, <1>7, <1>8, <1>9, <1>10, <1>11,
     <1>12, <1>13, <1>14, <1>15

LEMMA ArchiveLostInv ==
  ASSUME IInv, NEW i \in Items, ArchiveLost(i)
  PROVE  IInv'
<1> USE DispositionAssumption DEF IInv, Goto, Fault, NoFault, rows, disk,
        guardian, channel, locals, bounds, Items, ArchiveLost
<1>s. Shape
  BY Shapes
<1>1. TypeOK'
  <2>1. pc' \in Pcs
    BY DEF TypeOK, Pcs, WorkerPcs
  <2>2. /\ faults' \in 0..MaxFaults /\ crashes' \in 0..MaxCrashes
        /\ kills' \in 0..MaxKills
    BY DEF TypeOK
  <2>3. archived' \in [Items -> BOOLEAN]
    BY DEF TypeOK
  <2> QED
    BY <2>1, <2>2, <2>3 DEF TypeOK
<1>2. HandleInv'
  BY <1>s DEF HandleInv, Held, StartInv, CurrentInv, MemberPcs, ForwardPcs,
     CancelPcs, BoundPcs, Shape, Holding, Serving
<1>3. RowInv'
  BY <1>s DEF RowInv, StartInv, CurrentInv, ClosingInv, MemberPcs, ForwardPcs,
     CancelPcs, BoundPcs, Shape
<1>4. GuardInv'
  BY <1>s DEF GuardInv, HandleInv, RowInv, Held, ArmingInv, ProvingInv,
     ClosingInv, CurrentInv, MemberPcs, ForwardPcs, CancelPcs, BoundPcs,
     Holding, Serving, Shape, Quiet
<1>5. StartInv'
  BY <1>s DEF StartInv, WorkerPcs, Quiet, Shape
<1>6. CurrentInv'
  BY <1>s DEF CurrentInv, MemberPcs, ForwardPcs, CancelPcs, BoundPcs, Shape
<1>7. AheadInv'
  BY <1>s DEF AheadInv, CurrentInv, MemberPcs, ForwardPcs, CancelPcs,
     BoundPcs, Shape
<1>8. BehindInv'
  BY <1>s DEF BehindInv, CurrentInv, MemberPcs, ForwardPcs, CancelPcs,
     BoundPcs, Fresh, Quiet, Shape
<1>9. CancelledInv'
  BY <1>s DEF CancelledInv, CurrentInv, MemberPcs, ForwardPcs, CancelPcs,
     BoundPcs, Shape
<1>10. ArmingInv'
  BY <1>s DEF ArmingInv, CurrentInv, MemberPcs, ForwardPcs, CancelPcs,
     BoundPcs, Fresh, Quiet, Shape
<1>11. ProvingInv'
  BY <1>s DEF ProvingInv, CurrentInv, MemberPcs, ForwardPcs, CancelPcs,
     BoundPcs, Quiet, Shape
<1>12. ClosingInv'
  BY <1>s DEF ClosingInv, CurrentInv, MemberPcs, ForwardPcs, CancelPcs,
     BoundPcs, Quiet, Shape
<1>13. RecoverInv'
  BY <1>s DEF RecoverInv, RowInv, Shape
<1>14. BatchInv'
  BY <1>s DEF BatchInv, WorkerPcs, Shape
<1>15. OneAfterAnother'
  BY <1>s DEF OneAfterAnother, StartInv, RowInv, CurrentInv, AheadInv,
     BehindInv, ArmingInv, ProvingInv, ClosingInv, MemberPcs, ForwardPcs,
     CancelPcs, BoundPcs, Shape
<1> QED
  BY <1>1, <1>2, <1>3, <1>4, <1>5, <1>6, <1>7, <1>8, <1>9, <1>10, <1>11,
     <1>12, <1>13, <1>14, <1>15

-----------------------------------------------------------------------------
LEMMA InitInv == Init => IInv
<1> SUFFICES ASSUME Init PROVE IInv
  OBVIOUS
<1> USE DispositionAssumption DEF Init, Items
<1>1. TypeOK
  <2>1. pc \in Pcs /\ cur \in 0..NItems + 1
    BY DEF Pcs, WorkerPcs
  <2>2. faults \in 0..MaxFaults /\ crashes \in 0..MaxCrashes /\ kills \in 0..MaxKills
    OBVIOUS
  <2>3. cmd \in [Items -> Seq(Commands)]
    OBVIOUS
  <2>4. gstate \in [Items -> GuardianStates] /\ gphase \in [Items -> Phases]
    BY DEF GuardianStates, Phases, Holding, Serving
  <2>5. reply \in [Items -> Replies] /\ batch \in BatchStates
    BY DEF Replies, BatchStates
  <2> QED
    BY <2>1, <2>2, <2>3, <2>4, <2>5 DEF TypeOK
<1>2. HandleInv /\ RowInv /\ OneAfterAnother
  BY DEF HandleInv, Held, RowInv, OneAfterAnother
<1>3. GuardInv /\ StartInv
  BY DEF GuardInv, StartInv, Quiet, Holding, Serving
<1>4. CurrentInv /\ AheadInv /\ BehindInv /\ CancelledInv
  BY DEF CurrentInv, AheadInv, BehindInv, CancelledInv, MemberPcs, ForwardPcs,
         CancelPcs, BoundPcs
<1>5. ArmingInv /\ ProvingInv /\ ClosingInv
  BY DEF ArmingInv, ProvingInv, ClosingInv
<1>6. RecoverInv /\ BatchInv
  BY DEF RecoverInv, BatchInv
<1> QED
  BY <1>1, <1>2, <1>3, <1>4, <1>5, <1>6 DEF IInv

LEMMA StutterInv == ASSUME IInv, UNCHANGED vars PROVE IInv'
<1> USE DEF vars, rows, disk, guardian, channel, locals, bounds
<1>1. TypeOK' /\ HandleInv' /\ RowInv' /\ OneAfterAnother'
  BY DEF IInv, TypeOK, HandleInv, Held, RowInv, OneAfterAnother
<1>2. GuardInv' /\ StartInv' /\ RecoverInv' /\ BatchInv'
  BY DEF IInv, GuardInv, StartInv, Quiet, RecoverInv, BatchInv
<1>3. CurrentInv' /\ AheadInv' /\ BehindInv' /\ CancelledInv'
  BY DEF IInv, CurrentInv, AheadInv, BehindInv, CancelledInv, Fresh, Quiet
<1>4. ArmingInv' /\ ProvingInv' /\ ClosingInv'
  BY DEF IInv, ArmingInv, ProvingInv, ClosingInv, Fresh, Quiet
<1> QED
  BY <1>1, <1>2, <1>3, <1>4 DEF IInv

LEMMA WorkerInv == ASSUME IInv, WorkerStep PROVE IInv'
  BY LaunchInv, ClaimInv, JournalArmInv, SendArmInv, SendProveInv, SendCloseInv,
     AwaitArmInv, AwaitProveInv, AwaitCloseInv, ArmInv, JournalArmedInv,
     JournalProvedInv, JournalCloseInv, ValidateInv, JournalAckInv,
     CloseHandleInv, MarkParentInv, OutcomeUnknownInv, SuccessInv, CleanupInv,
     JournalCleanupInv, CancelInv, SendCancelInv, AwaitCancelInv,
     JournalCancelInv, DropInv, CancelCleanupInv, FailureInv, HangUpInv,
     TerminalizeInv, FinalizeInv
     DEF WorkerStep

LEMMA GuardianInv ==
  ASSUME IInv, NEW i \in Items, GuardianStep(i) \/ GuardianKilled(i)
  PROVE  IInv'
  BY AllowsArmInv, ProvesInv, CancelsInv, SignsInv, ClosesInv, LosesInv,
     RetainsInv, KilledInv
     DEF GuardianStep

LEMMA RecoveryInv == ASSUME IInv, RecoveryStep PROVE IInv'
  BY RecoverStartInv, RecoverClosedInv, RecoverUnstartedInv, RollBackInv,
     SettleAbsentInv, RecoverAmbiguousInv, RecoverCleanupInv, RecoverFinishInv
     DEF RecoveryStep

LEMMA NextInv == IInv /\ [Next]_vars => IInv'
<1> SUFFICES ASSUME IInv, [Next]_vars PROVE IInv'
  OBVIOUS
<1>1. CASE WorkerStep
  BY <1>1, WorkerInv
<1>2. CASE RecoveryStep
  BY <1>2, RecoveryInv
<1>3. CASE \E i \in Items : GuardianStep(i) \/ GuardianKilled(i) \/ ArchiveLost(i)
  BY <1>3, GuardianInv, ArchiveLostInv
<1>4. CASE Quit \/ Crash \/ Start
  BY <1>4, QuitInv, CrashInv, StartInvariance
<1>5. CASE UNCHANGED vars
  BY <1>5, StutterInv
<1> QED
  BY <1>1, <1>2, <1>3, <1>4, <1>5 DEF Next

\* The inductive invariant holds in every reachable state.
THEOREM Invariance == Spec => []IInv
<1>1. Init => IInv
  BY InitInv
<1>2. IInv /\ [Next]_vars => IInv'
  BY NextInv
<1> QED
  BY <1>1, <1>2, PTL DEF Spec

\* The variables keep their types: no step writes a row, a phase or a frame
\* that its reader does not know.
THEOREM TypesKept == Spec => []TypeOK
<1>1. IInv => TypeOK
  BY DEF IInv
<1> QED
  BY <1>1, Invariance, PTL

\* An entry called permanently deleted names an object that is gone, for every
\* size of the group and every number of faults, crashes and kills.
THEOREM DeletedStaysGone == Spec => []DeletedIsGone
<1>1. IInv => DeletedIsGone
  BY DEF IInv, RowInv, DeletedIsGone
<1> QED
  BY <1>1, Invariance, PTL

\* A quarantined entry names an object that is there, unarmed.
THEOREM QuarantinedStaysThere == Spec => []QuarantinedIsThere
<1>1. IInv => QuarantinedIsThere
  BY DEF IInv, RowInv, QuarantinedIsThere
<1> QED
  BY <1>1, Invariance, PTL

\* The members are removed one after the other.
THEOREM RemovedInOrder == Spec => []OneAfterAnother
<1>1. IInv => OneAfterAnother
  BY DEF IInv
<1> QED
  BY <1>1, Invariance, PTL

\* An armed object has a guardian, a receipt, or a killed guardian.
THEOREM ArmStaysGuarded == Spec => []ArmIsGuarded
<1>1. IInv => ArmIsGuarded
  <2> SUFFICES ASSUME IInv, NEW i \in Items, armed[i], present[i]
               PROVE  gphase[i] \in Holding \cup {"killed"} \/ receipt[i] = "flushed"
    BY DEF ArmIsGuarded
  <2>1. entry[i] = "deleting"
    BY DEF IInv, RowInv, TypeOK
  <2> QED
    BY <2>1 DEF IInv, GuardInv
<1> QED
  BY <1>1, Invariance, PTL

\* A lost object leaves its receipt, unless its guardian was killed.
THEOREM LossKeepsReceipt == Spec => []LossLeavesReceipt
<1>1. IInv => LossLeavesReceipt
  BY DEF IInv, GuardInv, LossLeavesReceipt
<1> QED
  BY <1>1, Invariance, PTL

\* A batch that ended says what happened.
THEOREM VerdictIsTruthful == Spec => []BatchRowTruthful
<1>1. IInv => BatchRowTruthful
  <2> SUFFICES ASSUME IInv, batch \in {"completed", "partial", "failed"}
               PROVE  /\ \A i \in Items : entry[i] # "deleting"
                      /\ batch = "completed" => \A i \in Items : ~present[i]
                      /\ batch = "failed" => \A i \in Items : present[i]
    BY DEF BatchRowTruthful
  <2>1. \A i \in Items : item[i] \in {"deleted", "blocked"}
    BY DEF IInv, BatchInv
  <2>2. \A i \in Items : entry[i] # "deleting"
    BY <2>1 DEF IInv, RowInv
  <2>3. batch = "completed" => \A i \in Items : ~present[i]
    BY DEF IInv, BatchInv, RowInv
  <2>4. batch = "failed" => \A i \in Items : present[i]
    <3> SUFFICES ASSUME batch = "failed", NEW i \in Items PROVE present[i]
      OBVIOUS
    <3>1. entry[i] # "permanently_deleted"
      BY DEF IInv, BatchInv, RowInv
    <3>2. entry[i] = "quarantined"
      BY <2>2, <3>1 DEF IInv, TypeOK
    <3> QED
      BY <3>2 DEF IInv, RowInv
  <2> QED
    BY <2>2, <2>3, <2>4
<1> QED
  BY <1>1, Invariance, PTL

-----------------------------------------------------------------------------
(* The refinement: what a step does to the claims and to the disk is one   *)
(* of six things, and each is a step of the promise or none.               *)

Unseen == UNCHANGED <<entry, gstate, present>>
LetsGo ==
  /\ UNCHANGED <<entry, gstate>> /\ HandlesClose
  /\ \A i \in Items : armed'[i] => armed[i]
Notes ==
  /\ UNCHANGED <<entry, present>>
  /\ cur \in Items /\ entry[cur] = "deleting"
  /\ \E s \in GuardianStates \ {"none"} : gstate' = [gstate EXCEPT ![cur] = s]
Takes ==
  /\ \A i \in Items : entry[i] = "quarantined" /\ gstate[i] = "none"
  /\ entry' = [i \in Items |-> "deleting"]
  /\ gstate' = [i \in Items |-> "handle_bound"] /\ UNCHANGED present
Settles(verdict, found) ==
  /\ UNCHANGED <<gstate, present>>
  /\ cur \in Items /\ entry[cur] = "deleting" /\ present[cur] = found
  /\ entry' = [entry EXCEPT ![cur] = verdict]
Seen == \/ Unseen \/ LetsGo \/ Notes \/ Takes
        \/ Settles("permanently_deleted", FALSE) \/ Settles("quarantined", TRUE)

\* Every claim has had its guardian row written.
RowsKnown == \A i \in Items : entry[i] # "quarantined" => gstate[i] # "none"

LEMMA WorkerSeen == ASSUME IInv, WorkerStep PROVE Seen
<1> USE DEF Goto, rows, disk, guardian
<1>1. CASE LaunchGuardians
  BY <1>1 DEF LaunchGuardians, Seen, Unseen
<1>2. CASE ClaimGroup
  BY <1>2 DEF ClaimGroup, Seen, Unseen, Takes, IInv, StartInv
<1>3. CASE JournalArm
  <2>1. cur \in Items /\ entry[cur] = "deleting"
    BY <1>3 DEF JournalArm, IInv, CurrentInv, MemberPcs, ForwardPcs
  <2> QED
    BY <1>3, <2>1 DEF JournalArm, Journal, Seen, Notes, LetsGo, GuardianStates
<1>4. ASSUME NEW a, NEW c, NEW w, Send(a, c, w) PROVE Seen
  BY <1>4 DEF Send, Seen, Unseen
<1>5. ASSUME NEW a, NEW c, NEW w, Await(a, c, w) PROVE Seen
  BY <1>5 DEF Await, Seen, Unseen
<1>6. CASE Arm \/ Validate \/ RecordOutcomeUnknown \/ JournalCleanup \/ Cancel
  BY <1>6 DEF Arm, Validate, RecordOutcomeUnknown, JournalCleanup,
              JournalCleanupThen, Cancel, Seen, Unseen
<1>7. ASSUME NEW a \in {"journal_armed", "journal_proved", "journal_close"}, NEW f,
             NEW t \in GuardianStates \ {"none"}, NEW n, JournalOrCancel(a, f, t, n)
      PROVE  Seen
  <2>1. cur \in Items /\ entry[cur] = "deleting"
    BY <1>7 DEF JournalOrCancel, IInv, CurrentInv, MemberPcs, ForwardPcs
  <2> QED
    BY <1>7, <2>1 DEF JournalOrCancel, Journal, Seen, Notes, Unseen
<1>8. CASE JournalAck \/ MarkParentClosed \/ JournalCancel
  <2>1. cur \in Items /\ entry[cur] = "deleting"
    BY <1>8 DEF JournalAck, MarkParentClosed, JournalCancel, JournalCancelAs,
                IInv, CurrentInv, MemberPcs, ForwardPcs, CancelPcs
  <2> QED
    BY <1>8, <2>1 DEF JournalAck, MarkParentClosed, JournalCancel,
                      JournalCancelAs, Journal, Seen, Notes, Unseen, GuardianStates
<1>9. CASE CloseHandle \/ DropHandle \/ HangUp
  BY <1>9 DEF CloseHandle, CloseHandleAs, DropHandle, HangUp, Seen, LetsGo
<1>10. CASE RecordSuccess
  <2>1. cur \in Items /\ ~present[cur]
    BY <1>10 DEF RecordSuccess, IInv, CurrentInv, ClosingInv, MemberPcs, ForwardPcs
  <2> QED
    BY <1>10, <2>1 DEF RecordSuccess, Seen, Unseen, Settles, IInv, TypeOK
<1>11. ASSUME NEW a, NEW n, CleanupReceipt(a, n) PROVE Seen
  BY <1>11 DEF CleanupReceipt, Seen, Unseen
<1>12. CASE SendCancel \/ AwaitCancel \/ RecordFailure \/ Terminalize \/ Finalize
  BY <1>12 DEF SendCancel, AwaitCancel, RecordFailure, Terminalize, Finalize,
               Seen, Unseen
<1>13. /\ "arm_authorized_unproved" \in GuardianStates \ {"none"}
       /\ "armed_unproved" \in GuardianStates \ {"none"}
       /\ "final_profile_proved_held" \in GuardianStates \ {"none"}
       /\ "close_authorized" \in GuardianStates \ {"none"}
  BY DEF GuardianStates
<1> QED
  BY <1>1, <1>2, <1>3, <1>4, <1>5, <1>6, <1>7, <1>8, <1>9, <1>10, <1>11, <1>12,
     <1>13 DEF WorkerStep

LEMMA GuardianSeen ==
  ASSUME IInv, NEW i \in Items, GuardianStep(i) \/ GuardianKilled(i) \/ ArchiveLost(i)
  PROVE  Seen
<1> USE DEF GuardianFrame, rows
<1>1. CASE \/ GuardianAllowsArm(i) \/ GuardianProves(i) \/ GuardianSignsReceipt(i)
           \/ GuardianRetains(i) \/ ArchiveLost(i)
  BY <1>1 DEF GuardianAllowsArm, GuardianProves, GuardianSignsReceipt,
              GuardianRetains, RetainsUntil, ArchiveLost, Seen, Unseen
<1>2. CASE GuardianCancels(i)
  <2>1. CASE armed' = [armed EXCEPT ![i] = FALSE] /\ HandlesClose
    <3>1. armed = [j \in Items |-> armed[j]]
      BY DEF IInv, TypeOK
    <3>2. \A j \in Items : armed'[j] => armed[j]
      BY <2>1, <3>1
    <3> QED
      BY <1>2, <2>1, <3>2 DEF GuardianCancels, Seen, LetsGo
  <2>2. CASE UNCHANGED <<present, armed>>
    BY <1>2, <2>2 DEF GuardianCancels, Seen, Unseen
  <2> QED
    BY <1>2, <2>1, <2>2 DEF GuardianCancels
<1>3. CASE GuardianCloses(i) \/ GuardianLosesChannel(i) \/ GuardianKilled(i)
  BY <1>3 DEF GuardianCloses, GuardianLosesChannel, LosesChannel, GuardianKilled,
              Seen, LetsGo
<1> QED
  BY <1>1, <1>2, <1>3 DEF GuardianStep

LEMMA RecoverySeen == ASSUME IInv, RecoveryStep PROVE Seen
<1> USE DEF rows, disk, RecoveryFrame, Ambiguous
<1>1. CASE RecoverStart \/ RecoverClosed \/ RecoverAmbiguous \/ RecoverFinish
  BY <1>1 DEF RecoverStart, RecoverClosed, RecoverAmbiguous, RecoverFinish, Seen,
              Unseen
<1>2. CASE RecoverUnstarted \/ RecoverCleanup
  BY <1>2 DEF RecoverUnstarted, RecoverCleanup, RecoverCleanupWhen, Seen, Unseen
<1>3. CASE RollBack
  <2>1. cur \in Items
    BY <1>3 DEF RollBack, RollBackWhen, IInv, RecoverInv
  <2> QED
    BY <1>3, <2>1 DEF RollBack, RollBackWhen, Seen, Unseen, Settles, IInv, TypeOK
<1>4. CASE SettleAbsent
  <2>1. cur \in Items /\ (Claimed(cur) => entry[cur] = "deleting")
    BY <1>4 DEF SettleAbsent, IInv, RecoverInv, RowInv, Claimed
  <2> QED
    BY <1>4, <2>1 DEF SettleAbsent, Seen, Unseen, Settles, IInv, TypeOK
<1> QED
  BY <1>1, <1>2, <1>3, <1>4 DEF RecoveryStep

LEMMA NextSeen == ASSUME IInv, [Next]_vars PROVE Seen
<1>1. CASE WorkerStep
  BY <1>1, WorkerSeen
<1>2. CASE RecoveryStep
  BY <1>2, RecoverySeen
<1>3. CASE \E i \in Items : GuardianStep(i) \/ GuardianKilled(i) \/ ArchiveLost(i)
  BY <1>3, GuardianSeen
<1>4. CASE Quit \/ Crash
  BY <1>4 DEF Quit, Crash, ParentEnds, rows, Seen, LetsGo
<1>5. CASE Start \/ UNCHANGED vars
  BY <1>5 DEF Start, vars, rows, disk, Seen, Unseen
<1> QED
  BY <1>1, <1>2, <1>3, <1>4, <1>5 DEF Next

\* A handle that closes takes an object away only under its claim.
LEMMA FallsUnderClaim ==
  ASSUME IInv, LetsGo, NEW i \in Items
  PROVE  \/ present'[i] = present[i]
         \/ present[i] /\ ~present'[i] /\ entry[i] = "deleting"
<1>1. present'[i] = (present[i] /\ (armed'[i] => phold'[i] \/ gphase'[i] \in Holding))
  BY DEF LetsGo, HandlesClose
<1>2. present[i] \in BOOLEAN
  BY DEF IInv, TypeOK
<1>3. armed'[i] => armed[i]
  BY DEF LetsGo
<1>4. armed[i] /\ present[i] => entry[i] = "deleting"
  BY DEF IInv, RowInv, TypeOK
<1> QED
  BY <1>1, <1>2, <1>3, <1>4

claims == [i \in Items |-> Claim(i)]

LEMMA ClaimValues ==
  ASSUME IInv, NEW i \in Items
  PROVE  /\ entry[i] = "deleting" => Claim(i) = "deleting"
         /\ entry[i] = "permanently_deleted" => Claim(i) = "deleted"
         /\ entry[i] = "quarantined" /\ gstate[i] = "none" => Claim(i) = "held"
         /\ entry[i] = "quarantined" /\ gstate[i] # "none" => Claim(i) = "returned"
  BY DEF Claim

LEMMA NextClaimValues ==
  ASSUME NEW i \in Items
  PROVE  /\ entry'[i] = "deleting" => Claim(i)' = "deleting"
         /\ entry'[i] = "permanently_deleted" => Claim(i)' = "deleted"
         /\ entry'[i] = "quarantined" /\ gstate'[i] = "none" => Claim(i)' = "held"
         /\ entry'[i] = "quarantined" /\ gstate'[i] # "none" => Claim(i)' = "returned"
         /\ entry'[i] = entry[i] /\ gstate'[i] = gstate[i] => Claim(i)' = Claim(i)
         /\ entry'[i] = entry[i] /\ entry[i] = "deleting" => Claim(i)' = Claim(i)
  BY DEF Claim

LEMMA StepKeepsPromise ==
  ASSUME IInv, RowsKnown, Seen
  PROVE  RowsKnown' /\ [Promise!Next]_<<claims, present>>
<1>1. CASE Unseen
  <2>1. UNCHANGED claims
    BY <1>1 DEF Unseen, claims, Claim
  <2> QED
    BY <1>1, <2>1 DEF Unseen, RowsKnown
<1>2. CASE LetsGo
  <2>1. UNCHANGED claims
    BY <1>2 DEF LetsGo, claims, Claim
  <2>2. RowsKnown'
    BY <1>2 DEF LetsGo, RowsKnown
  <2> DEFINE S == {i \in Items : present[i] /\ ~present'[i]}
  <2>3. present' = [i \in Items |-> present[i] /\ i \notin S]
    <3>1. present' = [i \in Items |-> present'[i]]
      BY <1>2 DEF LetsGo, HandlesClose
    <3>2. \A i \in Items : present'[i] = (present[i] /\ i \notin S)
      <4>1. \A i \in Items : present[i] \in BOOLEAN
        BY DEF IInv, TypeOK
      <4>2. SUFFICES ASSUME NEW i \in Items
                     PROVE  present'[i] = (present[i] /\ i \notin S)
        OBVIOUS
      <4>3. CASE present'[i] = present[i]
        BY <4>1, <4>3
      <4>4. CASE present[i] /\ ~present'[i]
        <5>1. present'[i] \in BOOLEAN
          BY <1>2 DEF LetsGo, HandlesClose
        <5> QED
          BY <4>4, <5>1
      <4> QED
        BY <1>2, <4>3, <4>4, FallsUnderClaim
    <3> QED
      BY <3>1, <3>2
  <2>4. \A i \in S : claims[i] = "deleting" /\ present[i]
    <3>1. \A i \in S : i \in Items /\ present[i] /\ ~present'[i]
      OBVIOUS
    <3>2. \A i \in S : entry[i] = "deleting"
      BY <1>2, <3>1, FallsUnderClaim
    <3> QED
      BY <3>1, <3>2, ClaimValues DEF claims
  <2>5. CASE S = {}
    <3>1. present' = [i \in Items |-> present[i] /\ TRUE]
      BY <2>3, <2>5
    <3>2. present = [i \in Items |-> present[i] /\ TRUE]
      BY DEF IInv, TypeOK
    <3> QED
      BY <2>1, <2>2, <3>1, <3>2
  <2>6. CASE S # {}
    <3>1. Promise!Vanish(S)
      BY <2>1, <2>3, <2>4, <2>6 DEF Promise!Vanish, claims
    <3>2. S \in SUBSET Items
      OBVIOUS
    <3> QED
      BY <2>2, <3>1, <3>2 DEF Promise!Next
  <2> QED
    BY <2>5, <2>6
<1>3. CASE Notes
  <2>1. /\ \A i \in Items : i # cur => gstate'[i] = gstate[i]
        /\ gstate'[cur] # "none"
    <3>1. gstate = [i \in Items |-> gstate[i]]
      BY DEF IInv, TypeOK
    <3> QED
      BY <1>3, <3>1 DEF Notes
  <2>2. \A i \in Items : Claim(i)' = Claim(i)
    BY <1>3, <2>1, NextClaimValues DEF Notes
  <2>3. UNCHANGED claims
    BY <2>2 DEF claims
  <2>4. RowsKnown'
    BY <1>3, <2>1 DEF Notes, RowsKnown
  <2> QED
    BY <1>3, <2>3, <2>4 DEF Notes
<1>4. CASE Takes
  <2>1. \A i \in Items : claims[i] = "held"
    BY <1>4, ClaimValues DEF Takes, claims
  <2>2. claims' = [i \in Items |-> "deleting"]
    BY <1>4, NextClaimValues DEF Takes, claims
  <2>3. Promise!ClaimAll
    BY <1>4, <2>1, <2>2 DEF Promise!ClaimAll, Takes, claims
  <2> QED
    BY <1>4, <2>3 DEF Promise!Next, RowsKnown, Takes
<1>5. ASSUME NEW verdict, NEW found, Settles(verdict, found)
      PROVE  \A i \in Items : /\ i # cur => Claim(i)' = Claim(i)
                              /\ i # cur => entry'[i] = entry[i]
                              /\ entry'[cur] = verdict
  <2>1. entry = [i \in Items |-> entry[i]]
    BY DEF IInv, TypeOK
  <2>2. \A i \in Items : i # cur => entry'[i] = entry[i] /\ gstate'[i] = gstate[i]
    BY <1>5, <2>1 DEF Settles
  <2>3. entry'[cur] = verdict
    BY <1>5, <2>1 DEF Settles
  <2> QED
    BY <2>2, <2>3, NextClaimValues
<1>6. CASE Settles("permanently_deleted", FALSE)
  <2>1. claims' = [claims EXCEPT ![cur] = "deleted"]
    BY <1>5, <1>6, NextClaimValues DEF Settles, claims
  <2>2. claims[cur] = "deleting"
    BY <1>6, ClaimValues DEF Settles, claims
  <2>3. Promise!Confirm(cur)
    BY <1>6, <2>1, <2>2 DEF Promise!Confirm, Settles, claims
  <2>4. RowsKnown'
    BY <1>5, <1>6 DEF Settles, RowsKnown
  <2> QED
    BY <1>6, <2>3, <2>4 DEF Promise!Next, Settles
<1>7. CASE Settles("quarantined", TRUE)
  <2>1. gstate[cur] # "none"
    BY <1>7 DEF Settles, RowsKnown
  <2>2. \A i \in Items : i = cur => Claim(i)' = "returned"
    <3>1. entry'[cur] = "quarantined" /\ gstate'[cur] # "none"
      BY <1>5, <1>7, <2>1 DEF Settles
    <3> QED
      BY <3>1, NextClaimValues
  <2>3. claims' = [claims EXCEPT ![cur] = "returned"]
    <3>1. \A i \in Items : i # cur => Claim(i)' = Claim(i)
      BY <1>5, <1>7
    <3>2. claims' = [i \in Items |-> Claim(i)']
      BY DEF claims
    <3> QED
      BY <2>2, <3>1, <3>2 DEF claims
  <2>4. claims[cur] = "deleting"
    BY <1>7, ClaimValues DEF Settles, claims
  <2>5. Promise!Return(cur)
    BY <1>7, <2>3, <2>4 DEF Promise!Return, Settles, claims
  <2>6. RowsKnown'
    BY <1>5, <1>7 DEF Settles, RowsKnown
  <2> QED
    BY <1>7, <2>5, <2>6 DEF Promise!Next, Settles
<1> QED
  BY <1>1, <1>2, <1>3, <1>4, <1>6, <1>7 DEF Seen

\* The detailed removal - guardians, channels, journal rows, crashes and
\* recovery - does to the claims and the objects only what the promise allows.
THEOREM Refinement == Spec => ImplementsPromise
<1>1. Init => RowsKnown /\ Promise!Init
  <2> SUFFICES ASSUME Init PROVE RowsKnown /\ Promise!Init
    OBVIOUS
  <2>1. \A i \in Items : entry[i] = "quarantined" /\ gstate[i] = "none"
    BY DEF Init
  <2>2. \A i \in Items : Claim(i) = "held"
    BY <2>1, InitInv, ClaimValues
  <2> QED
    BY <2>1, <2>2 DEF RowsKnown, Promise!Init, Init
<1>2. IInv /\ RowsKnown /\ [Next]_vars =>
        RowsKnown' /\ [Promise!Next]_<<claims, present>>
  BY NextSeen, StepKeepsPromise
<1>3. IInv /\ RowsKnown /\ [Next]_vars =>
        RowsKnown' /\ [Promise!Next]_<<[i \in Items |-> Claim(i)], present>>
  BY <1>2 DEF claims
<1> QED
  BY <1>1, <1>3, Invariance, PTL DEF Spec, ImplementsPromise, Promise!Spec

=============================================================================
