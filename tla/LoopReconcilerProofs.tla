------------------------ MODULE LoopReconcilerProofs ------------------------
(***************************************************************************)
(* Proofs about LoopReconciler.                                            *)
(***************************************************************************)
EXTENDS LoopReconcilerInvariant, TLAPS

USE ConstantsAssumption DEF ConstantsAssumption

LEMMA TaskNames ==
  \A c \in Cycles : /\ Work(c) \in Tasks /\ Verify(c) \in Tasks
                    /\ \A d \in Cycles : Work(c) # Verify(d)
BY DEF Work, Verify, Tasks

-----------------------------------------------------------------------------
(* The local state of the calls: what each way to move on preserves.       *)

LEMMA GotoType ==
  ASSUME CallsOK, CycleLeft, NEW p \in Syncers, NEW label \in Labels,
         label \in Staging => snap[p].count < MaxCycles, Goto(p, label)
  PROVE  CallsOK' /\ CycleLeft'
BY DEF CallsOK, CycleLeft, Goto

LEMMA PlanStatusType ==
  ASSUME CallsOK, CycleLeft, NEW p \in Syncers, NEW status \in Statuses,
         NEW r \in Nat, PlanStatus(p, status, r)
  PROVE  CallsOK' /\ CycleLeft'
BY DEF CallsOK, CycleLeft, PlanStatus, Labels, Staging

LEMMA ReturnType ==
  ASSUME CallsOK, CycleLeft, NEW p \in Syncers, Return(p)
  PROVE  CallsOK' /\ CycleLeft'
<1> USE DEF CallsOK, Return
<1>1. NoSnapshot \in [promoted : BOOLEAN, count : Cycles, remediation : Cycles,
                     verifier : Cycles, lost : SUBSET {"replaced", "profile"}]
  BY DEF NoSnapshot, Cycles
<1>2. NoPlan \in [status : Statuses, commit : Nat]
  BY DEF NoPlan, Statuses
<1>3. "idle" \in Labels /\ "idle" \notin Staging
  BY DEF Labels, Staging
<1>4. CallsOK'
  BY <1>1, <1>2, <1>3
<1>5. CycleLeft'
  BY <1>3 DEF CycleLeft
<1> QED BY <1>4, <1>5

LEMMA CallWithType ==
  ASSUME RecordOK, CallsOK, CycleLeft, NEW p \in Syncers,
         NEW label \in Labels \ Staging, CallWith(p, label)
  PROVE  CallsOK' /\ CycleLeft'
<1>1. Snapshot \in [promoted : BOOLEAN, count : Cycles, remediation : Cycles,
                   verifier : Cycles, lost : SUBSET {"replaced", "profile"}]
  BY DEF Snapshot, RecordOK
<1>2. CallsOK'
  BY <1>1 DEF CallsOK, CallWith
<1>3. CycleLeft'
  BY DEF CallsOK, CycleLeft, CallWith
<1> QED BY <1>2, <1>3

LEMMA NextTargetType ==
  ASSUME CallsOK, CycleLeft, NEW p \in Syncers, NEW problem \in BOOLEAN,
         NextTarget(p, problem)
  PROVE  CallsOK' /\ CycleLeft'
<1>1. CASE aim[p] < 3
  <2>1. NextAim(p) \in 0 .. 3 /\ "cancelTask" \in Labels \ Staging
    BY <1>1 DEF NextAim, CallsOK, Labels, Staging
  <2>2. (unconfirmed[p] \/ problem) \in BOOLEAN
    OBVIOUS
  <2>3. /\ pc' = [pc EXCEPT ![p] = "cancelTask"]
        /\ aim' = [aim EXCEPT ![p] = NextAim(p)]
        /\ unconfirmed' = [unconfirmed EXCEPT ![p] = unconfirmed[p] \/ problem]
        /\ UNCHANGED <<snap, rev, plan>>
    BY <1>1 DEF NextTarget
  <2>4. unconfirmed' \in [Syncers -> BOOLEAN]
    BY <2>2, <2>3, Zenon DEF CallsOK
  <2> QED BY <2>1, <2>3, <2>4 DEF CallsOK, CycleLeft
<1>2. CASE ~ aim[p] < 3
  <2>1. "CANCELED" \in Statuses
    BY DEF Statuses
  <2>2. Return(p) \/ PlanStatus(p, "CANCELED", 0)
    BY <1>2 DEF NextTarget
  <2> QED BY <2>1, <2>2, ReturnType, PlanStatusType
<1> QED BY <1>1, <1>2

-----------------------------------------------------------------------------
(* Type correctness.                                                       *)

LEMMA TypeInit == Init => TypeOK /\ CycleLeft
<1> SUFFICES ASSUME Init PROVE TypeOK /\ CycleLeft
  OBVIOUS
<1> USE DEF Init
<1>1. RecordOK /\ FilesOK /\ BoardOK /\ GitOK /\ EnvOK /\ AcceptingOK
  BY DEF RecordOK, FilesOK, BoardOK, GitOK, EnvOK, AcceptingOK, Statuses, Cycles, NoCycle
<1>2. CallsOK
  BY DEF CallsOK, NoSnapshot, NoPlan, Cycles, Statuses, Labels
<1>3. CycleLeft
  BY DEF CycleLeft, Staging
<1> QED BY <1>1, <1>2, <1>3 DEF TypeOK

LEMMA TypeCall ==
  ASSUME TypeOK, CycleLeft, NEW p \in Syncers, StartCall(p)
  PROVE  TypeOK' /\ CycleLeft'
<1> USE DEF TypeOK, fileVars, boardVars, gitVars, envVars
<1>1. "guard" \in Labels \ Staging /\ "requestCancel" \in Labels \ Staging
      /\ "stopScan" \in Labels \ Staging
  BY DEF Labels, Staging
<1>2. CASE RecoverActiveLoops(p) \/ ReconcileTaskEvent(p) \/ LoopSync(p) \/ LoopStop(p)
  <2>1. CallsOK' /\ CycleLeft'
    BY <1>1, <1>2, CallWithType DEF RecoverActiveLoops, ReconcileTaskEvent, LoopSync, LoopStop
  <2>2. UNCHANGED <<loop, fileVars, boardVars, gitVars, envVars, accepting>>
    BY <1>2 DEF RecoverActiveLoops, ReconcileTaskEvent, LoopSync, LoopStop
  <2> QED BY <2>1, <2>2 DEF RecordOK, FilesOK, BoardOK, GitOK, EnvOK, AcceptingOK
<1>3. CASE EmergencyStop(p)
  <2>1. CallsOK' /\ CycleLeft'
    BY <1>1, <1>3, GotoType DEF EmergencyStop
  <2>2. EnvOK'
    BY <1>3 DEF EmergencyStop, EnvOK
  <2> QED BY <1>3, <2>1, <2>2 DEF EmergencyStop, RecordOK, FilesOK, BoardOK, GitOK, AcceptingOK
<1> QED BY <1>2, <1>3 DEF StartCall

\* Steps of a call that only read.
Reads(p) ==
  \/ ProfileChanged(p) \/ AuthorityLost(p) \/ AlreadyPromoted(p)
  \/ GuardPassed(p) \/ ShowDevelopment(p) \/ ShowVerifier(p)
  \/ QueueRemediation(p) \/ InspectWorktree(p) \/ ResolveHead(p)
  \/ StopScan(p) \/ CancelTask(p)

shared == <<loop, fileVars, boardVars, gitVars, envVars, accepting>>

LEMMA ReadsFrame ==
  ASSUME NEW p \in Syncers, Reads(p)
  PROVE  UNCHANGED shared
BY DEF Reads, shared, fileVars, boardVars, gitVars, envVars,
       ProfileChanged, AuthorityLost, AlreadyPromoted,
       GuardPassed, ShowDevelopment, ShowVerifier, QueueRemediation,
       InspectWorktree, ResolveHead, StopScan, CancelTask

LEMMA SharedTypes ==
  ASSUME TypeOK, UNCHANGED shared
  PROVE  RecordOK' /\ FilesOK' /\ BoardOK' /\ GitOK' /\ EnvOK' /\ AcceptingOK'
BY DEF TypeOK, shared, fileVars, boardVars, gitVars, envVars, RecordOK, FilesOK,
       BoardOK, GitOK, EnvOK, AcceptingOK

LEMMA TypeReads ==
  ASSUME TypeOK, CycleLeft, NEW p \in Syncers, Reads(p)
  PROVE  TypeOK' /\ CycleLeft'
<1> SUFFICES CallsOK' /\ CycleLeft'
  BY ReadsFrame, SharedTypes DEF TypeOK
<1> USE DEF Staging, Labels, SyncCalls
<1>1. "NEEDS_HUMAN" \in Statuses /\ "VERIFYING" \in Statuses
      /\ \A s : Unfinished(s) \in Statuses
  BY DEF Statuses, Unfinished
<1>2. RecordOK /\ CallsOK /\ head \in Nat
  BY DEF TypeOK, GitOK
<1>3. CASE ProfileChanged(p)
  BY <1>1, <1>2, <1>3, PlanStatusType DEF ProfileChanged
<1>4. CASE AuthorityLost(p)
  BY <1>2, <1>4, GotoType DEF AuthorityLost
<1>5. CASE AlreadyPromoted(p)
  BY <1>2, <1>5, ReturnType DEF AlreadyPromoted
<1>6. CASE GuardPassed(p)
  BY <1>2, <1>6, GotoType DEF GuardPassed
<1>7. CASE ShowDevelopment(p)
  BY <1>1, <1>2, <1>7, GotoType, PlanStatusType DEF ShowDevelopment
<1>8. CASE ShowVerifier(p)
  <2>1. CASE PlanStatus(p, "NEEDS_HUMAN", 0) \/ PlanStatus(p, "VERIFYING", 0)
    BY <1>1, <1>2, <2>1, PlanStatusType
  <2>2. CASE ~ (snap[p].count >= MaxCycles) /\ Goto(p, "queueRemediation")
    <3>1. snap[p].count < MaxCycles
      BY <1>2, <2>2 DEF CallsOK, Cycles
    <3> QED BY <1>2, <2>2, <3>1, GotoType
  <2>3. CASE Goto(p, "saveEvidence")
    BY <1>2, <2>3, GotoType
  <2> QED BY <1>8, <2>1, <2>2, <2>3 DEF ShowVerifier
<1>9. CASE QueueRemediation(p)
  <2>1. snap[p].count < MaxCycles
    BY <1>9 DEF QueueRemediation, CycleLeft
  <2> QED BY <1>1, <1>2, <1>9, <2>1, GotoType, PlanStatusType DEF QueueRemediation
<1>10. CASE InspectWorktree(p)
  BY <1>1, <1>2, <1>10, GotoType, PlanStatusType DEF InspectWorktree
<1>11. CASE ResolveHead(p)
  <2>1. CASE PlanStatus(p, "NEEDS_HUMAN", head)
    BY <1>1, <1>2, <2>1, PlanStatusType
  <2>2. CASE /\ rev' = [rev EXCEPT ![p] = head]
             /\ pc' = [pc EXCEPT ![p] = "bindRevision"]
             /\ UNCHANGED <<snap, plan, aim, unconfirmed>>
    BY <1>2, <2>2 DEF CallsOK, CycleLeft
  <2> QED BY <1>11, <2>1, <2>2 DEF ResolveHead
<1>12. CASE StopScan(p)
  BY <1>2, <1>12, CallWithType, ReturnType DEF StopScan
<1>13. CASE CancelTask(p)
  BY <1>2, <1>13, GotoType, NextTargetType DEF CancelTask
<1> QED
  BY <1>3, <1>4, <1>5, <1>6, <1>7, <1>8, <1>9, <1>10, <1>11, <1>12, <1>13 DEF Reads

\* Steps of a call that write, each to one store.
Writes(p) ==
  \/ MarkStatus(p) \/ CreateRemediation(p) \/ CreateReverifier(p)
  \/ BindRemediation(p) \/ PromoteRemediation(p) \/ SaveEvidence(p)
  \/ BindEvidence(p) \/ EnterMerging(p) \/ CommitWorktree(p)
  \/ BindRevision(p) \/ Push(p) \/ RequestCancel(p) \/ ReclaimTask(p)
  \/ BlockTask(p)

LEMMA SyncStepSplit == \A p \in Syncers : SyncStep(p) => Reads(p) \/ Writes(p)
BY DEF SyncStep, Reads, Writes

LEMMA TypeWrites ==
  ASSUME TypeOK, CycleLeft, NEW p \in Syncers, Writes(p)
  PROVE  TypeOK' /\ CycleLeft'
<1> USE DEF Staging, Labels, SyncCalls, TypeOK, fileVars, boardVars, gitVars, envVars
<1>1. "NEEDS_HUMAN" \in Statuses /\ "REMEDIATING" \in Statuses /\ "MERGING" \in Statuses
      /\ "AWAITING_HUMAN_ACCEPTANCE" \in Statuses /\ "CANCEL_REQUESTED" \in Statuses
  BY DEF Statuses
<1>2. CASE MarkStatus(p)
  <2>1. CallsOK' /\ CycleLeft'
    BY <1>2, ReturnType DEF MarkStatus
  <2>2. RecordOK'
    BY <1>2 DEF MarkStatus, RecordOK, CallsOK
  <2> QED BY <1>2, <2>1, <2>2 DEF MarkStatus, FilesOK, BoardOK, GitOK, EnvOK, AcceptingOK
<1>3. CASE CreateRemediation(p)
  <2>1. CallsOK' /\ CycleLeft'
    BY <1>3, GotoType DEF CreateRemediation, CycleLeft
  <2>2. BoardOK'
    BY <1>3 DEF CreateRemediation, CreateTask, BoardOK
  <2> QED BY <1>3, <2>1, <2>2 DEF CreateRemediation, RecordOK, FilesOK, GitOK, EnvOK, AcceptingOK
<1>4. CASE CreateReverifier(p)
  <2>1. CallsOK' /\ CycleLeft'
    BY <1>4, GotoType DEF CreateReverifier, CycleLeft
  <2>2. BoardOK'
    BY <1>4 DEF CreateReverifier, CreateTask, BoardOK
  <2> QED BY <1>4, <2>1, <2>2 DEF CreateReverifier, RecordOK, FilesOK, GitOK, EnvOK, AcceptingOK
<1>5. CASE BindRemediation(p)
  <2>1. CallsOK' /\ CycleLeft'
    BY <1>5, GotoType DEF BindRemediation, CycleLeft
  <2>2. snap[p].count + 1 \in Cycles
    BY <1>5 DEF BindRemediation, CycleLeft, CallsOK, Cycles
  <2>3. RecordOK'
    BY <1>1, <1>5, <2>2 DEF BindRemediation, RecordOK
  <2> QED BY <1>5, <2>1, <2>3 DEF BindRemediation, FilesOK, BoardOK, GitOK, EnvOK, AcceptingOK
<1>6. CASE PromoteRemediation(p)
  <2>1. CallsOK' /\ CycleLeft'
    BY <1>1, <1>6, ReturnType, PlanStatusType DEF PromoteRemediation
  <2>2. BoardOK'
    BY <1>6 DEF PromoteRemediation, BoardOK
  <2> QED BY <1>6, <2>1, <2>2 DEF PromoteRemediation, RecordOK, FilesOK, GitOK, EnvOK, AcceptingOK
<1>7. CASE SaveEvidence(p)
  <2>1. CallsOK' /\ CycleLeft'
    BY <1>7, GotoType DEF SaveEvidence
  <2>2. FilesOK'
    BY <1>7 DEF SaveEvidence, FilesOK, CallsOK
  <2> QED BY <1>7, <2>1, <2>2 DEF SaveEvidence, RecordOK, BoardOK, GitOK, EnvOK, AcceptingOK
<1>8. CASE BindEvidence(p)
  <2>1. CallsOK' /\ CycleLeft'
    BY <1>8, GotoType DEF BindEvidence
  <2>2. RecordOK'
    BY <1>1, <1>8 DEF BindEvidence, RecordOK, CallsOK
  <2> QED BY <1>8, <2>1, <2>2 DEF BindEvidence, FilesOK, BoardOK, GitOK, EnvOK, AcceptingOK
<1>9. CASE EnterMerging(p)
  <2>1. CallsOK' /\ CycleLeft'
    BY <1>9 DEF EnterMerging, RecordOK, CallsOK, CycleLeft
  <2>2. RecordOK'
    BY <1>1, <1>9 DEF EnterMerging, RecordOK
  <2> QED BY <1>9, <2>1, <2>2 DEF EnterMerging, FilesOK, BoardOK, GitOK, EnvOK, AcceptingOK
<1>10. CASE CommitWorktree(p)
  <2>1. CallsOK' /\ CycleLeft'
    BY <1>1, <1>10, GotoType, PlanStatusType DEF CommitWorktree
  <2>2. GitOK'
    BY <1>10 DEF CommitWorktree, GitOK
  <2> QED BY <1>10, <2>1, <2>2 DEF CommitWorktree, RecordOK, FilesOK, BoardOK, EnvOK, AcceptingOK
<1>11. CASE BindRevision(p)
  <2>1. CallsOK' /\ CycleLeft'
    BY <1>11, GotoType DEF BindRevision
  <2>2. RecordOK'
    BY <1>1, <1>11 DEF BindRevision, RecordOK, CallsOK
  <2> QED BY <1>11, <2>1, <2>2 DEF BindRevision, FilesOK, BoardOK, GitOK, EnvOK, AcceptingOK
<1>12. CASE Push(p)
  <2>1. CallsOK' /\ CycleLeft'
    <3>1. rev[p] \in Nat
      BY DEF CallsOK
    <3> QED BY <1>1, <1>12, <3>1, PlanStatusType DEF Push
  <2>2. GitOK'
    BY <1>12 DEF Push, GitOK
  <2> QED BY <1>12, <2>1, <2>2 DEF Push, RecordOK, FilesOK, BoardOK, EnvOK, AcceptingOK
<1>13. CASE RequestCancel(p)
  <2>1. CallsOK' /\ CycleLeft'
    BY <1>13 DEF RequestCancel, CallsOK, CycleLeft
  <2>2. RecordOK'
    BY <1>1, <1>13 DEF RequestCancel, RecordOK
  <2> QED BY <1>13, <2>1, <2>2 DEF RequestCancel, FilesOK, BoardOK, GitOK, EnvOK, AcceptingOK
<1>14. CASE ReclaimTask(p)
  <2>1. (unconfirmed[p] \/ task[Target(p)] # "running") \in BOOLEAN
    OBVIOUS
  <2>2. unconfirmed' = [unconfirmed EXCEPT ![p] = unconfirmed[p] \/ task[Target(p)] # "running"]
    BY <1>14 DEF ReclaimTask
  <2>3. unconfirmed' \in [Syncers -> BOOLEAN]
    BY <2>1, <2>2, Zenon DEF CallsOK
  <2>4. CallsOK' /\ CycleLeft'
    BY <1>14, <2>3 DEF ReclaimTask, CallsOK, CycleLeft
  <2>5. BoardOK'
    BY <1>14 DEF ReclaimTask, BoardOK
  <2> QED BY <1>14, <2>4, <2>5 DEF ReclaimTask, RecordOK, FilesOK, GitOK, EnvOK, AcceptingOK
<1>15. CASE BlockTask(p)
  <2>1. CallsOK' /\ CycleLeft'
    <3>1. (~ task[Target(p)] \in {"todo", "running"}) \in BOOLEAN
      OBVIOUS
    <3>2. NextTarget(p, ~ task[Target(p)] \in {"todo", "running"})
      BY <1>15 DEF BlockTask
    <3> QED BY <3>1, <3>2, NextTargetType
  <2>2. BoardOK'
    BY <1>15 DEF BlockTask, BoardOK
  <2> QED BY <1>15, <2>1, <2>2 DEF BlockTask, RecordOK, FilesOK, GitOK, EnvOK, AcceptingOK
<1> QED
  BY <1>2, <1>3, <1>4, <1>5, <1>6, <1>7, <1>8, <1>9, <1>10, <1>11, <1>12, <1>13,
     <1>14, <1>15 DEF Writes

LEMMA TypeFaults ==
  ASSUME TypeOK, CycleLeft, NEW p \in Syncers, FaultStep(p)
  PROVE  TypeOK' /\ CycleLeft'
<1> USE DEF TypeOK, fileVars, boardVars, gitVars
<1>1. "NEEDS_HUMAN" \in Statuses /\ rev[p] \in Nat /\ FailureRevision(p) \in Nat
  BY DEF Statuses, CallsOK, FailureRevision
<1>2. ASSUME Fault, UNCHANGED revoked PROVE EnvOK'
  BY <1>2 DEF Fault, EnvOK
<1>3. CASE CallFails(p)
  <2>1. CallsOK' /\ CycleLeft'
    BY <1>1, <1>3, PlanStatusType DEF CallFails
  <2>2. EnvOK'
    BY <1>2, <1>3 DEF CallFails
  <2> QED BY <1>3, <2>1, <2>2 DEF CallFails, RecordOK, FilesOK, BoardOK, GitOK, AcceptingOK
<1>4. CASE ReplyLost(p)
  <2>1. CallsOK' /\ CycleLeft'
    BY <1>1, <1>4, PlanStatusType DEF ReplyLost
  <2>2. EnvOK'
    BY <1>2, <1>4 DEF ReplyLost
  <2>3. BoardOK' /\ GitOK'
    BY <1>4 DEF ReplyLost, BoardOK, GitOK
  <2> QED BY <1>4, <2>1, <2>2, <2>3 DEF ReplyLost, RecordOK, FilesOK, AcceptingOK
<1>5. CASE Crash(p)
  <2>1. CallsOK' /\ CycleLeft'
    BY <1>5, ReturnType DEF Crash
  <2>2. EnvOK'
    BY <1>2, <1>5 DEF Crash
  <2> QED BY <1>5, <2>1, <2>2 DEF Crash, RecordOK, FilesOK, BoardOK, GitOK, AcceptingOK
<1>6. CASE ControlFails(p)
  <2>1. CallsOK' /\ CycleLeft'
    <3>1. CASE NextTarget(p, TRUE)
      BY <3>1, NextTargetType
    <3>2. CASE /\ unconfirmed' = [unconfirmed EXCEPT ![p] = TRUE]
               /\ pc' = [pc EXCEPT ![p] = "block"]
               /\ UNCHANGED <<snap, rev, plan, aim>>
      BY <3>2 DEF CallsOK, CycleLeft, Labels, Staging
    <3> QED BY <1>6, <3>1, <3>2 DEF ControlFails
  <2>2. EnvOK'
    BY <1>2, <1>6 DEF ControlFails
  <2> QED BY <1>6, <2>1, <2>2 DEF ControlFails, RecordOK, FilesOK, BoardOK, GitOK, AcceptingOK
<1> QED BY <1>3, <1>4, <1>5, <1>6 DEF FaultStep

LEMMA TypeAccept == ASSUME TypeOK, CycleLeft, Accept PROVE TypeOK' /\ CycleLeft'
<1> USE DEF TypeOK, fileVars, boardVars, gitVars, envVars, localVars
<1>1. CallsOK' /\ CycleLeft'
  BY DEF Accept, AcceptRead, AcceptFile, AcceptMark, CallsOK, CycleLeft
<1>2. CASE AcceptRead
  BY <1>1, <1>2 DEF AcceptRead, RecordOK, FilesOK, BoardOK, GitOK, EnvOK, AcceptingOK
<1>3. CASE AcceptFile
  <2>1. FilesOK' /\ AcceptingOK'
    BY <1>3 DEF AcceptFile, FilesOK, AcceptingOK
  <2> QED BY <1>1, <1>3, <2>1 DEF AcceptFile, RecordOK, BoardOK, GitOK, EnvOK
<1>4. CASE AcceptMark
  <2>1. RecordOK' /\ AcceptingOK'
    BY <1>4 DEF AcceptMark, RecordOK, AcceptingOK, Statuses
  <2> QED BY <1>1, <1>4, <2>1 DEF AcceptMark, FilesOK, BoardOK, GitOK, EnvOK
<1> QED BY <1>2, <1>3, <1>4 DEF Accept

LEMMA TypeBoard == ASSUME TypeOK, CycleLeft, Board PROVE TypeOK' /\ CycleLeft'
<1> USE DEF TypeOK, fileVars, boardVars, gitVars, envVars, localVars
<1>1. ASSUME NEW t \in Tasks, Claim(t) \/ WorkerBlocks(t) \/ Unblock(t)
      PROVE  TypeOK' /\ CycleLeft'
  <2>1. BoardOK'
    BY <1>1 DEF Claim, WorkerBlocks, Unblock, BoardOK
  <2> QED BY <1>1, <2>1 DEF Claim, WorkerBlocks, Unblock, RecordOK, FilesOK, GitOK,
                            EnvOK, AcceptingOK, CallsOK, CycleLeft
<1>2. ASSUME NEW c \in Cycles, FinishWork(c) \/ FinishVerify(c) \/ LateWrite(c)
      PROVE  TypeOK' /\ CycleLeft'
  <2>1. BoardOK'
    BY <1>2 DEF FinishWork, FinishVerify, LateWrite, BoardOK, GitOK
  <2>2. GitOK'
    BY <1>2 DEF FinishWork, FinishVerify, LateWrite, GitOK
  <2> QED BY <1>2, <2>1, <2>2 DEF FinishWork, FinishVerify, LateWrite, RecordOK, FilesOK,
                                  EnvOK, AcceptingOK, CallsOK, CycleLeft
<1>3. CASE LateCommit \/ LatePush
  <2>1. GitOK'
    BY <1>3 DEF LateCommit, LatePush, GitOK
  <2> QED BY <1>3, <2>1 DEF LateCommit, LatePush, RecordOK, FilesOK, BoardOK, EnvOK,
                            AcceptingOK, CallsOK, CycleLeft
<1> QED BY <1>1, <1>2, <1>3 DEF Board

LEMMA TypeNext == TypeOK /\ CycleLeft /\ [Next]_vars => TypeOK' /\ CycleLeft'
<1> SUFFICES ASSUME TypeOK, CycleLeft, [Next]_vars PROVE TypeOK' /\ CycleLeft'
  OBVIOUS
<1>1. ASSUME NEW p \in Syncers, SyncStep(p) PROVE TypeOK' /\ CycleLeft'
  BY <1>1, SyncStepSplit, TypeReads, TypeWrites
<1>2. ASSUME NEW r \in Revocations, Revoke(r) PROVE TypeOK' /\ CycleLeft'
  BY <1>2 DEF Revoke, TypeOK, CycleLeft, RecordOK, FilesOK, BoardOK, GitOK, EnvOK,
              AcceptingOK, CallsOK, fileVars, boardVars, gitVars, localVars
<1>3. CASE UNCHANGED vars
  BY <1>3 DEF vars, TypeOK, CycleLeft, RecordOK, FilesOK, BoardOK, GitOK, EnvOK,
              AcceptingOK, CallsOK, fileVars, boardVars, gitVars, envVars, localVars
<1> QED BY <1>1, <1>2, <1>3, TypeCall, TypeFaults, TypeAccept, TypeBoard DEF Next

\* Every reachable state is well typed; in particular no interleaving of
\* calls counts more remediation cycles than the profile authorizes.
THEOREM TypeCorrect == Spec => []TypeOK
<1>1. TypeOK /\ CycleLeft /\ [Next]_vars => TypeOK' /\ CycleLeft'
  BY TypeNext
<1> QED BY TypeInit, <1>1, PTL DEF Spec
=============================================================================
