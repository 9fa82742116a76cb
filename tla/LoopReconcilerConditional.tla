---------------------- MODULE LoopReconcilerConditional ----------------------
(***************************************************************************)
(* What LoopReconciler guarantees only under a hypothesis about its        *)
(* environment, for any number of cycles and faults:                       *)
(*                                                                         *)
(*   LateContent = 0: workers edit nothing after the end of their task.    *)
(*   Then whatever is committed, recorded and pushed is the one version    *)
(*   that passed.  If they do not push by themselves either, the loop      *)
(*   implements the contract of promotion.                                 *)
(*                                                                         *)
(*   NoOverlap: one call of sync or cancel at a time.  Then a call's copy  *)
(*   of the cycle stays true while the call relies on it.                  *)
(*                                                                         *)
(*   MaxFaults = 0 and NoOverlap: a call that has bound a revision pushes  *)
(*   it before any other call meets the record.                            *)
(*                                                                         *)
(* EvidenceFirst needs none of them.  TLC refutes every other theorem of   *)
(* this module once its hypothesis is dropped (see the README).            *)
(***************************************************************************)
EXTENDS LoopReconcilerSafety

USE ConstantsAssumption DEF ConstantsAssumption

-----------------------------------------------------------------------------
(* Who changes the worktree, the revisions and the verifiers, and how.     *)

WorktreeMoves ==
  /\ content' = content \/ \E c \in Cycles : FinishWork(c) \/ LateWrite(c)
  /\ \/ head' = head
     \/ \E p \in Syncers : pc[p] = "commitWorktree" /\ head' = content
     \/ LateCommit
  /\ \/ remote' = remote
     \/ \E p \in Syncers : pc[p] = "push" /\ remote' = head
     \/ LatePush
  /\ \/ loop'.commit = loop.commit
     \/ \E p \in Syncers : /\ pc[p] = "markStatus" /\ plan[p].commit # 0
                           /\ loop'.commit = plan[p].commit
     \/ \E p \in Syncers : BindRevision(p) /\ loop'.commit = rev[p]

VerifierMoves ==
  \A c \in Cycles :
    /\ examined'[c] = examined[c] \/ FinishVerify(c)
    /\ task'[Verify(c)] = "done" => task[Verify(c)] = "done" \/ FinishVerify(c)
    /\ task'[Verify(c)] = "running" => task[Verify(c)] = "running" \/ Claim(Verify(c))

LEMMA WorktreeFrame == ASSUME UNCHANGED <<gitVars, loop>> PROVE WorktreeMoves
BY DEF WorktreeMoves, gitVars

LEMMA VerifierFrame == ASSUME UNCHANGED <<task, examined>> PROVE VerifierMoves
BY DEF VerifierMoves

LEMMA WorktreeNext == ASSUME TypeOK, [Next]_vars PROVE WorktreeMoves
<1> USE DEF WorktreeMoves
<1>1. RecordOK
  BY DEF TypeOK
<1>2. ASSUME NEW p \in Syncers, MarkStatus(p) PROVE WorktreeMoves
  BY <1>1, <1>2 DEF RecordOK, MarkStatus, gitVars
<1>3. ASSUME NEW p \in Syncers,
             \/ BindRemediation(p) \/ BindEvidence(p) \/ EnterMerging(p)
             \/ BindRevision(p) \/ RequestCancel(p)
      PROVE  WorktreeMoves
  BY <1>1, <1>3 DEF RecordOK, BindRemediation, BindEvidence, EnterMerging, BindRevision,
                    RequestCancel, gitVars
<1>4. ASSUME NEW p \in Syncers, CommitWorktree(p) \/ Push(p) \/ ReplyLost(p)
      PROVE  WorktreeMoves
  BY <1>4 DEF CommitWorktree, Push, ReplyLost
<1>5. ASSUME NEW p \in Syncers,
             \/ Reads(p) \/ StartCall(p) \/ CallFails(p) \/ Crash(p) \/ ControlFails(p)
             \/ CreateRemediation(p) \/ CreateReverifier(p) \/ PromoteRemediation(p)
             \/ SaveEvidence(p) \/ ReclaimTask(p) \/ BlockTask(p)
      PROVE  WorktreeMoves
  BY <1>5, ReadsFrame, WorktreeFrame
     DEF shared, StartCall, RecoverActiveLoops, ReconcileTaskEvent, LoopSync, LoopStop,
         EmergencyStop, CallFails, Crash, ControlFails, CreateRemediation,
         CreateReverifier, PromoteRemediation, SaveEvidence, ReclaimTask, BlockTask
<1>6. ASSUME AcceptMark PROVE WorktreeMoves
  BY <1>1, <1>6 DEF RecordOK, AcceptMark, gitVars
<1>7. ASSUME NEW c \in Cycles, FinishWork(c) \/ LateWrite(c) PROVE WorktreeMoves
  BY <1>7 DEF FinishWork, LateWrite
<1>8. CASE LateCommit \/ LatePush
  BY <1>8 DEF LateCommit, LatePush
<1>9. ASSUME \/ AcceptRead \/ AcceptFile
             \/ \E t \in Tasks : Claim(t) \/ WorkerBlocks(t) \/ Unblock(t)
             \/ \E c \in Cycles : FinishVerify(c)
             \/ \E r \in Revocations : Revoke(r)
             \/ UNCHANGED vars
      PROVE  WorktreeMoves
  BY <1>9, WorktreeFrame
     DEF AcceptRead, AcceptFile, Claim, WorkerBlocks, Unblock, FinishVerify, Revoke, vars
<1> QED
  BY <1>2, <1>3, <1>4, <1>5, <1>6, <1>7, <1>8, <1>9, SyncStepSplit
     DEF Next, Writes, FaultStep, Accept, Board

LEMMA VerifierCalls ==
  ASSUME TypeOK, NEW p \in Syncers, SyncStep(p) \/ StartCall(p) \/ FaultStep(p)
  PROVE  VerifierMoves
<1> USE DEF VerifierMoves
<1>1. BoardOK
  BY DEF TypeOK
<1>2. CASE CreateRemediation(p) \/ CreateReverifier(p)
  BY <1>1, <1>2, TaskNames DEF BoardOK, CreateRemediation, CreateReverifier, CreateTask
<1>3. CASE PromoteRemediation(p) \/ ReplyLost(p)
  BY <1>1, <1>3, TaskNames DEF BoardOK, PromoteRemediation, ReplyLost
<1>4. CASE ReclaimTask(p) \/ BlockTask(p)
  BY <1>1, <1>4, TaskNames DEF BoardOK, ReclaimTask, BlockTask
<1>5. CASE Reads(p) \/ StartCall(p)
  BY <1>5, ReadsFrame, VerifierFrame
     DEF shared, boardVars, StartCall, RecoverActiveLoops, ReconcileTaskEvent, LoopSync,
         LoopStop, EmergencyStop
<1>6. CASE \/ MarkStatus(p) \/ BindRemediation(p) \/ SaveEvidence(p) \/ BindEvidence(p)
           \/ EnterMerging(p) \/ CommitWorktree(p) \/ BindRevision(p) \/ Push(p)
           \/ RequestCancel(p) \/ CallFails(p) \/ Crash(p) \/ ControlFails(p)
  BY <1>6, VerifierFrame
     DEF boardVars, MarkStatus, BindRemediation, SaveEvidence, BindEvidence, EnterMerging,
         CommitWorktree, BindRevision, Push, RequestCancel, CallFails, Crash, ControlFails
<1> QED
  BY <1>2, <1>3, <1>4, <1>5, <1>6, SyncStepSplit DEF Writes, FaultStep

LEMMA VerifierNext == ASSUME TypeOK, [Next]_vars PROVE VerifierMoves
<1>1. BoardOK
  BY DEF TypeOK
<1>2. ASSUME NEW t \in Tasks, Claim(t) PROVE VerifierMoves
  BY <1>1, <1>2, TaskNames DEF BoardOK, Claim, VerifierMoves
<1>3. ASSUME NEW t \in Tasks, WorkerBlocks(t) \/ Unblock(t) PROVE VerifierMoves
  BY <1>1, <1>3, TaskNames DEF BoardOK, WorkerBlocks, Unblock, VerifierMoves
<1>4. ASSUME NEW c \in Cycles, FinishWork(c) PROVE VerifierMoves
  BY <1>1, <1>4, TaskNames DEF BoardOK, FinishWork, VerifierMoves
<1>5. ASSUME NEW c \in Cycles, FinishVerify(c) PROVE VerifierMoves
  BY <1>1, <1>5, TaskNames, VerifyInjective DEF BoardOK, FinishVerify, VerifierMoves
<1>6. ASSUME \/ Accept \/ LateCommit \/ LatePush \/ \E c \in Cycles : LateWrite(c)
             \/ \E r \in Revocations : Revoke(r)
             \/ UNCHANGED vars
      PROVE  VerifierMoves
  BY <1>6, VerifierFrame
     DEF Accept, AcceptRead, AcceptFile, AcceptMark, LateWrite, LateCommit, LatePush,
         Revoke, vars, boardVars
<1> QED BY <1>2, <1>3, <1>4, <1>5, <1>6, VerifierCalls DEF Next, Board

\* A call that is about to commit or to push, and the status in which the tool
\* hook lets the Development worker do so, come after stored evidence.
LEMMA EvidenceStored ==
  ASSUME InductiveInvariant,
         \/ \E p \in Syncers : pc[p] \in {"commitWorktree", "push"}
         \/ GitAllowed
  PROVE  \E c \in results : Passed(c)
<1>1. ASSUME NEW p \in Syncers, pc[p] \in {"commitWorktree", "push"}
      PROVE  \E c \in results : Passed(c)
  BY <1>1 DEF InductiveInvariant, PromotionSound, Promoting
<1>2. CASE GitAllowed
  <2>1. loop.status \in Promoted
    BY <1>2 DEF GitAllowed, Promoted
  <2> QED BY <2>1 DEF InductiveInvariant, ResultsSound
<1> QED BY <1>1, <1>2

\* Whoever runs git commit or git push (_merge_worktree, or a Development worker
\* that outlives its card, in MERGING), and whatever has been written to the
\* worktree meanwhile, record_verification_evidence has stored accepted evidence.
THEOREM EvidenceFirst == Spec => []EvidenceBeforeGit
<1>1. Init => EvidenceBeforeGit
  BY DEF Init, EvidenceBeforeGit
<1>2. InductiveInvariant /\ EvidenceBeforeGit /\ [Next]_vars => EvidenceBeforeGit'
  <2> SUFFICES ASSUME InductiveInvariant, EvidenceBeforeGit, [Next]_vars,
                      head' # 0 \/ remote' # 0
               PROVE  \E c \in results' : verdict'[c] = "accepted"
    BY DEF EvidenceBeforeGit
  <2>1. TypeOK
    BY DEF InductiveInvariant
  <2>2. \E c \in results : Passed(c)
    <3>1. CASE head # 0 \/ remote # 0
      BY <3>1 DEF EvidenceBeforeGit, InductiveInvariant, ResultsSound
    <3>2. CASE \/ \E p \in Syncers : pc[p] \in {"commitWorktree", "push"}
               \/ GitAllowed
      BY <3>2, EvidenceStored
    <3> QED BY <2>1, <3>1, <3>2, WorktreeNext DEF WorktreeMoves, LateCommit, LatePush
  <2>3. PICK c \in results : Passed(c)
    BY <2>2
  <2>4. c \in Cycles /\ c \in results'
    BY <2>1, <2>3, Ranges, RecordKeeps
  <2>5. Passed(c)'
    BY <2>1, <2>3, <2>4, VerdictsStay
  <2> QED BY <2>4, <2>5 DEF Passed
<1> QED BY <1>1, <1>2, Invariance, PTL DEF Spec

-----------------------------------------------------------------------------
(* Where a call's revisions come from, and which step takes it to a program *)
(* point that relies on them.                                               *)

Resolved == {"resolveHead", "bindRevision", "push"}

RevisionControl(q) ==
  /\ rev'[q] \in {rev[q], 0, loop.commit, head}
  /\ plan'[q].commit \in {plan[q].commit, 0, rev[q], head}
  /\ pc'[q] = "resolveHead" =>
       pc[q] = "resolveHead" \/ InspectWorktree(q) \/ CommitWorktree(q)
  /\ pc'[q] = "bindRevision" =>
       \/ pc[q] = "bindRevision" /\ rev'[q] = rev[q]
       \/ pc[q] = "resolveHead" /\ rev'[q] = head
  /\ pc'[q] = "push" => rev'[q] = rev[q] /\ (pc[q] = "push" \/ BindRevision(q))

SameRevisions(q) == pc'[q] = pc[q] /\ rev'[q] = rev[q] /\ plan'[q] = plan[q]

\* A step of p moves p alone, and only as RevisionControl says.
RevisionAlone(p) == RevisionControl(p) /\ \A q \in Syncers \ {p} : SameRevisions(q)

LEMMA SameRevisionControl == \A q \in Syncers : SameRevisions(q) => RevisionControl(q)
BY DEF SameRevisions, RevisionControl

LEMMA GotoRevisions ==
  ASSUME CallsOK, NEW p \in Syncers, NEW label, Goto(p, label), label \notin Resolved
  PROVE  RevisionAlone(p)
BY DEF CallsOK, Goto, RevisionAlone, RevisionControl, SameRevisions, Resolved

LEMMA PlanStatusRevisions ==
  ASSUME CallsOK, NEW p \in Syncers, NEW status, NEW r \in {0, rev[p], head},
         PlanStatus(p, status, r)
  PROVE  RevisionAlone(p)
BY DEF CallsOK, PlanStatus, RevisionAlone, RevisionControl, SameRevisions

LEMMA ReturnRevisions ==
  ASSUME CallsOK, NEW p \in Syncers, Return(p)
  PROVE  RevisionAlone(p)
BY DEF CallsOK, Return, NoPlan, RevisionAlone, RevisionControl, SameRevisions

LEMMA CallWithRevisions ==
  ASSUME CallsOK, NEW p \in Syncers, NEW label \in {"guard", "requestCancel"},
         CallWith(p, label)
  PROVE  RevisionAlone(p)
BY DEF CallsOK, CallWith, RevisionAlone, RevisionControl, SameRevisions

LEMMA NextTargetRevisions ==
  ASSUME CallsOK, NEW p \in Syncers, NEW problem, NextTarget(p, problem)
  PROVE  RevisionAlone(p)
<1>1. CASE aim[p] < 3
  BY <1>1 DEF NextTarget, CallsOK, RevisionAlone, RevisionControl, SameRevisions
<1>2. CASE ~ aim[p] < 3
  <2>1. Return(p) \/ PlanStatus(p, "CANCELED", 0)
    BY <1>2 DEF NextTarget
  <2> QED BY <2>1, ReturnRevisions, PlanStatusRevisions
<1> QED BY <1>1, <1>2

LEMMA ReadsRevisions == ASSUME CallsOK, NEW p \in Syncers, Reads(p) PROVE RevisionAlone(p)
<1>1. CASE ProfileChanged(p)
  BY <1>1, PlanStatusRevisions DEF ProfileChanged
<1>2. CASE AuthorityLost(p) \/ GuardPassed(p)
  BY <1>2, GotoRevisions DEF AuthorityLost, GuardPassed, Resolved
<1>3. CASE AlreadyPromoted(p)
  BY <1>3, ReturnRevisions DEF AlreadyPromoted
<1>4. CASE ShowDevelopment(p)
  BY <1>4, GotoRevisions, PlanStatusRevisions DEF ShowDevelopment, Resolved
<1>5. CASE ShowVerifier(p)
  <2>1. \/ PlanStatus(p, "NEEDS_HUMAN", 0) \/ PlanStatus(p, "VERIFYING", 0)
        \/ Goto(p, "queueRemediation") \/ Goto(p, "saveEvidence")
    BY <1>5 DEF ShowVerifier
  <2> QED BY <2>1, GotoRevisions, PlanStatusRevisions DEF Resolved
<1>6. CASE QueueRemediation(p)
  BY <1>6, GotoRevisions, PlanStatusRevisions DEF QueueRemediation, Resolved
<1>7. CASE InspectWorktree(p)
  <2>1. CASE Goto(p, "resolveHead")
    BY <1>7, <2>1
       DEF Goto, CallsOK, RevisionAlone, RevisionControl, SameRevisions
  <2> QED
    BY <1>7, <2>1, GotoRevisions, PlanStatusRevisions DEF InspectWorktree, Resolved
<1>8. CASE ResolveHead(p)
  <2>1. CASE /\ rev' = [rev EXCEPT ![p] = head]
             /\ pc' = [pc EXCEPT ![p] = "bindRevision"]
             /\ UNCHANGED plan
    BY <1>8, <2>1
       DEF ResolveHead, CallsOK, RevisionAlone, RevisionControl, SameRevisions
  <2> QED BY <1>8, <2>1, PlanStatusRevisions DEF ResolveHead
<1>9. CASE StopScan(p)
  BY <1>9, CallWithRevisions, ReturnRevisions DEF StopScan
<1>10. CASE CancelTask(p)
  BY <1>10, GotoRevisions, NextTargetRevisions DEF CancelTask, Resolved
<1> QED
  BY <1>1, <1>2, <1>3, <1>4, <1>5, <1>6, <1>7, <1>8, <1>9, <1>10 DEF Reads

LEMMA WritesRevisions ==
  ASSUME CallsOK, NEW p \in Syncers, Writes(p) PROVE RevisionAlone(p)
<1>1. CASE MarkStatus(p)
  BY <1>1, ReturnRevisions DEF MarkStatus
<1>2. CASE \/ CreateRemediation(p) \/ CreateReverifier(p) \/ BindRemediation(p)
           \/ SaveEvidence(p) \/ BindEvidence(p)
  BY <1>2, GotoRevisions
     DEF CreateRemediation, CreateReverifier, BindRemediation, SaveEvidence,
         BindEvidence, Resolved
<1>3. CASE PromoteRemediation(p)
  BY <1>3, ReturnRevisions, PlanStatusRevisions DEF PromoteRemediation
<1>4. CASE EnterMerging(p)
  BY <1>4 DEF EnterMerging, CallsOK, RevisionAlone, RevisionControl, SameRevisions
<1>5. CASE CommitWorktree(p)
  <2>1. CASE Goto(p, "resolveHead")
    BY <1>5, <2>1 DEF Goto, CallsOK, RevisionAlone, RevisionControl, SameRevisions
  <2> QED BY <1>5, <2>1, PlanStatusRevisions DEF CommitWorktree
<1>6. CASE BindRevision(p)
  <2>1. Goto(p, "push")
    BY <1>6 DEF BindRevision
  <2> QED
    BY <1>6, <2>1 DEF Goto, CallsOK, RevisionAlone, RevisionControl, SameRevisions
<1>7. CASE Push(p)
  BY <1>7, PlanStatusRevisions DEF Push
<1>8. CASE RequestCancel(p)
  BY <1>8 DEF RequestCancel, CallsOK, RevisionAlone, RevisionControl, SameRevisions
<1>9. CASE ReclaimTask(p)
  BY <1>9 DEF ReclaimTask, CallsOK, RevisionAlone, RevisionControl, SameRevisions
<1>10. CASE BlockTask(p)
  BY <1>10, NextTargetRevisions DEF BlockTask
<1> QED
  BY <1>1, <1>2, <1>3, <1>4, <1>5, <1>6, <1>7, <1>8, <1>9, <1>10 DEF Writes

LEMMA OthersRevisions ==
  ASSUME CallsOK, NEW p \in Syncers, StartCall(p) \/ FaultStep(p)
  PROVE  RevisionAlone(p)
<1>1. CASE StartCall(p)
  <2>1. CASE EmergencyStop(p)
    BY <2>1, GotoRevisions DEF EmergencyStop, Resolved
  <2> QED BY <1>1, <2>1, CallWithRevisions
          DEF StartCall, RecoverActiveLoops, ReconcileTaskEvent, LoopSync, LoopStop
<1>2. CASE CallFails(p) \/ ReplyLost(p)
  <2>1. FailureRevision(p) \in {0, rev[p], head}
    BY DEF FailureRevision
  <2> QED BY <1>2, <2>1, PlanStatusRevisions DEF CallFails, ReplyLost
<1>3. CASE Crash(p)
  BY <1>3, ReturnRevisions DEF Crash
<1>4. CASE ControlFails(p)
  <2>1. CASE pc' = [pc EXCEPT ![p] = "block"] /\ UNCHANGED <<rev, plan>>
    BY <2>1 DEF CallsOK, RevisionAlone, RevisionControl, SameRevisions
  <2> QED BY <1>4, <2>1, NextTargetRevisions DEF ControlFails
<1> QED BY <1>1, <1>2, <1>3, <1>4 DEF FaultStep

LEMMA RevisionControlNext ==
  ASSUME CallsOK, [Next]_vars
  PROVE  \A q \in Syncers : RevisionControl(q)
<1>1. ASSUME NEW p \in Syncers, RevisionAlone(p)
      PROVE  \A q \in Syncers : RevisionControl(q)
  BY <1>1, SameRevisionControl DEF RevisionAlone
<1>2. CASE UNCHANGED localVars
  BY <1>2, SameRevisionControl DEF localVars, SameRevisions
<1>3. Accept \/ Board \/ (\E r \in Revocations : Revoke(r)) \/ UNCHANGED vars
        => UNCHANGED localVars
  BY DEF Accept, AcceptRead, AcceptFile, AcceptMark, Board, Claim, WorkerBlocks, Unblock,
         FinishWork, FinishVerify, LateWrite, LateCommit, LatePush, Revoke, vars, localVars
<1> QED
  BY <1>1, <1>2, <1>3, SyncStepSplit, ReadsRevisions, WritesRevisions, OthersRevisions
     DEF Next

-----------------------------------------------------------------------------
(* The parts of PromotionInvariant, one by one.                             *)

LEMMA PromotionInit == Init => PromotionInvariant
<1> SUFFICES ASSUME Init PROVE PromotionInvariant
  OBVIOUS
<1>1. \A c \in Cycles : task[Verify(c)] \notin {"running", "done"}
  BY TaskNames DEF Init
<1>2. VerifierAfterWork /\ PassedIsContent
  BY <1>1 DEF VerifierAfterWork, PassedIsContent, Passed
<1>3. HeadSound /\ RevisionsSound
  BY DEF Init, HeadSound, RevisionsSound, NoPlan
<1> QED BY <1>2, <1>3 DEF PromotionInvariant

LEMMA VerifierAfterWorkNext ==
  ASSUME TypeOK, VerifierAfterWork, [Next]_vars
  PROVE  VerifierAfterWork'
<1> SUFFICES ASSUME NEW c \in Cycles, task'[Verify(c)] \in {"running", "done"}
             PROVE  task'[Work(c)] = "done"
  BY DEF VerifierAfterWork, Verify, Work
<1>1. SUFFICES task[Work(c)] = "done"
  BY BoardNext, TaskNames DEF BoardKeeps
<1>2. CASE task[Verify(c)] \in {"running", "done"}
  BY <1>2 DEF VerifierAfterWork
<1>3. CASE Claim(Verify(c))
  <2>1. Work(c) \in Parents(Verify(c))
    BY DEF Parents, Verify
  <2> QED BY <1>3, <2>1 DEF Claim
<1>4. CASE FinishVerify(c)
  BY <1>4 DEF FinishVerify, VerifierAfterWork
<1> QED BY <1>2, <1>3, <1>4, VerifierNext DEF VerifierMoves

\* When a cycle has passed, every work before it is done, and there is none
\* after it.
LEMMA PassedEndsWork ==
  ASSUME InductiveInvariant, VerifierAfterWork, NEW c \in Cycles, NEW d \in Cycles,
         Passed(c)
  PROVE  task[Work(d)] # "running"
<1> USE DEF InductiveInvariant
<1> SUFFICES ASSUME task[Work(d)] = "running" PROVE FALSE
  OBVIOUS
<1>1. c \in Nat /\ d \in Nat
  BY DEF Cycles
<1>2. task[Verify(c)] # "absent"
  BY DEF Passed
<1>3. CASE d = c
  BY <1>3 DEF VerifierAfterWork, Passed
<1>4. CASE d < c
  <2>1. Failed(d)
    BY <1>2, <1>4 DEF EarlierFailed
  <2> QED BY <2>1 DEF VerifierAfterWork, Failed
<1>5. CASE c < d
  <2>1. d \in Cycles \ {0} /\ d - 1 \in Cycles
    BY <1>1, <1>5 DEF Cycles
  <2>2. Failed(d - 1)
    BY <2>1 DEF RemediationJustified, Failed
  <2>3. CASE c = d - 1
    BY <2>2, <2>3 DEF Failed, Passed
  <2>4. CASE c < d - 1
    <3>1. Failed(c)
      BY <2>1, <2>2, <2>4 DEF EarlierFailed, Failed
    <3> QED BY <3>1 DEF Failed, Passed
  <2> QED BY <1>1, <1>5, <2>3, <2>4
<1> QED BY <1>1, <1>3, <1>4, <1>5

\* At most one cycle of a loop ever passes.
LEMMA OnePasses ==
  ASSUME InductiveInvariant, NEW c \in Cycles, NEW d \in Cycles, Passed(c), Passed(d)
  PROVE  c = d
<1>1. c \in Nat /\ d \in Nat
  BY DEF Cycles
<1>2. ~ c < d /\ ~ d < c
  BY DEF InductiveInvariant, EarlierFailed, Failed, Passed
<1> QED BY <1>1, <1>2

\* So nobody changes what was passed, unless a worker outlives its task.
LEMMA ContentStays ==
  ASSUME LateContent = 0, InductiveInvariant, VerifierAfterWork, [Next]_vars,
         NEW c \in Cycles, Passed(c)
  PROVE  content' = content
<1>1. TypeOK
  BY DEF InductiveInvariant
<1>2. ASSUME NEW d \in Cycles, FinishWork(d) PROVE FALSE
  BY <1>2, PassedEndsWork DEF FinishWork
<1>3. ASSUME NEW d \in Cycles, LateWrite(d) PROVE FALSE
  BY <1>1, <1>3 DEF LateWrite, TypeOK, GitOK
<1> QED BY <1>1, <1>2, <1>3, WorktreeNext DEF WorktreeMoves

LEMMA PassedIsContentNext ==
  ASSUME LateContent = 0, InductiveInvariant, VerifierAfterWork, PassedIsContent,
         [Next]_vars
  PROVE  PassedIsContent'
<1>1. TypeOK
  BY DEF InductiveInvariant
<1> SUFFICES ASSUME NEW c \in Cycles, task'[Verify(c)] = "done", verdict'[c] = "accepted"
             PROVE  examined'[c] = content'
  BY DEF PassedIsContent, Passed, Verify
<1>2. CASE FinishVerify(c)
  BY <1>1, <1>2 DEF FinishVerify, gitVars, TypeOK, BoardOK
<1>3. CASE ~ FinishVerify(c)
  <2>1. task[Verify(c)] = "done" /\ examined'[c] = examined[c]
    BY <1>1, <1>3, VerifierNext DEF VerifierMoves
  <2>2. Passed(c)
    BY <1>1, <2>1, BoardNext DEF BoardKeeps, Passed
  <2>3. content' = content
    BY <2>2, ContentStays
  <2> QED BY <2>1, <2>2, <2>3 DEF PassedIsContent
<1> QED BY <1>2, <1>3

LEMMA HeadSoundNext ==
  ASSUME LateContent = 0, InductiveInvariant, PromotionInvariant, [Next]_vars
  PROVE  HeadSound'
<1> USE DEF PromotionInvariant
<1>1. TypeOK
  BY DEF InductiveInvariant
<1> SUFFICES ASSUME head' # 0
             PROVE  head' = content' /\ \E c \in results' : Passed(c)'
  BY DEF HeadSound, Passed, Verify
<1>2. \E c \in results : Passed(c) /\ head' = content
  <2>1. CASE head' = head
    BY <2>1 DEF HeadSound
  <2>2. ASSUME NEW p \in Syncers, pc[p] = "commitWorktree", head' = content
        PROVE  \E c \in results : Passed(c) /\ head' = content
    BY <2>2, EvidenceStored
  <2>3. CASE LateCommit
    BY <2>3, EvidenceStored DEF LateCommit
  <2> QED BY <1>1, <2>1, <2>2, <2>3, WorktreeNext DEF WorktreeMoves
<1>3. PICK c \in results : Passed(c) /\ head' = content
  BY <1>2
<1>4. c \in Cycles /\ c \in results'
  BY <1>1, <1>3, Ranges, RecordKeeps
<1>5. content' = content
  BY <1>3, <1>4, ContentStays
<1>6. Passed(c)'
  BY <1>1, <1>3, <1>4, VerdictsStay
<1> QED BY <1>3, <1>4, <1>5, <1>6

LEMMA HeadStays ==
  ASSUME LateContent = 0, InductiveInvariant, PromotionInvariant, [Next]_vars, head # 0
  PROVE  head' = head
<1>1. TypeOK
  BY DEF InductiveInvariant
<1>2. PICK c \in Cycles : Passed(c)
  BY <1>1, Ranges DEF PromotionInvariant, HeadSound
<1>3. head = content
  BY DEF PromotionInvariant, HeadSound
<1> QED BY <1>1, <1>3, WorktreeNext DEF WorktreeMoves, LateCommit

LEMMA RevisionsSoundNext ==
  ASSUME LateContent = 0, InductiveInvariant, PromotionInvariant, [Next]_vars
  PROVE  RevisionsSound'
<1> USE DEF PromotionInvariant
<1>1. TypeOK /\ CallsOK
  BY DEF InductiveInvariant, TypeOK
<1>2. head = 0 \/ head' = head
  BY HeadStays
<1>3. {0, head} \subseteq {0, head'}
  BY <1>2
<1>4. loop'.commit \in {0, head} /\ remote' \in {0, head}
  BY <1>1, WorktreeNext DEF WorktreeMoves, RevisionsSound, LatePush
<1>5. loop.commit # 0 => loop'.commit # 0
  BY <1>1, WorktreeNext DEF WorktreeMoves, RevisionsSound, BindRevision
<1>6. ASSUME NEW q \in Syncers
      PROVE  /\ rev'[q] \in {0, head} /\ plan'[q].commit \in {0, head}
             /\ pc'[q] \in {"resolveHead", "bindRevision", "push"} => head' # 0
             /\ pc'[q] \in {"bindRevision", "push"} => rev'[q] = head'
             /\ pc'[q] = "push" => loop'.commit # 0
  <2>1. RevisionControl(q)
    BY <1>1, RevisionControlNext
  <2>2. rev'[q] \in {0, head} /\ plan'[q].commit \in {0, head}
    BY <2>1 DEF RevisionControl, RevisionsSound
  <2>3. ASSUME pc'[q] = "resolveHead" PROVE head' # 0
    <3>1. CASE pc[q] = "resolveHead"
      BY <1>2, <3>1 DEF RevisionsSound
    <3>2. CASE InspectWorktree(q)
      <4>1. head # 0 \/ rev[q] # 0
        BY <1>1, <2>3, <3>2 DEF InspectWorktree, Goto, PlanStatus, CallsOK
      <4> QED BY <1>2, <4>1 DEF RevisionsSound
    <3>3. CASE CommitWorktree(q)
      <4>1. content # head /\ head' = content
        BY <1>1, <2>3, <3>3 DEF CommitWorktree, Goto, PlanStatus, CallsOK
      <4> QED BY <1>2, <4>1
    <3> QED BY <2>1, <2>3, <3>1, <3>2, <3>3 DEF RevisionControl
  <2>4. ASSUME pc'[q] = "bindRevision" PROVE head' # 0 /\ rev'[q] = head'
    BY <1>2, <2>1, <2>4 DEF RevisionControl, RevisionsSound
  <2>5. ASSUME pc'[q] = "push"
        PROVE  head' # 0 /\ rev'[q] = head' /\ loop'.commit # 0
    <3>1. CASE pc[q] = "push"
      BY <1>2, <1>5, <2>1, <2>5, <3>1 DEF RevisionControl, RevisionsSound
    <3>2. CASE BindRevision(q)
      <4>1. loop'.commit = rev[q] /\ pc[q] = "bindRevision"
        BY <1>1, <3>2 DEF BindRevision, TypeOK, RecordOK
      <4> QED BY <1>2, <2>1, <2>5, <4>1 DEF RevisionControl, RevisionsSound
    <3> QED BY <2>1, <2>5, <3>1, <3>2 DEF RevisionControl
  <2> QED BY <2>2, <2>3, <2>4, <2>5
<1> QED BY <1>3, <1>4, <1>6 DEF RevisionsSound

LEMMA PromotionNext ==
  ASSUME LateContent = 0, InductiveInvariant, PromotionInvariant, [Next]_vars
  PROVE  PromotionInvariant'
<1>1. TypeOK /\ VerifierAfterWork /\ PassedIsContent
  BY DEF InductiveInvariant, PromotionInvariant
<1> QED
  BY <1>1, VerifierAfterWorkNext, PassedIsContentNext, HeadSoundNext, RevisionsSoundNext
     DEF PromotionInvariant

\* While workers edit nothing after their task has ended, the worktree that
\* passed stays as it is, and HEAD, the record, the remote and every call's
\* copy of the revision name that version, however many calls promote it and
\* whether it is a call or a late Development worker that commits and pushes.
THEOREM PromotionInvariance == LateContent = 0 => (Spec => []PromotionInvariant)
<1> SUFFICES ASSUME LateContent = 0 PROVE Spec => []PromotionInvariant
  OBVIOUS
<1>1. InductiveInvariant /\ PromotionInvariant /\ [Next]_vars => PromotionInvariant'
  BY PromotionNext
<1> QED BY PromotionInit, Invariance, <1>1, PTL DEF Spec

LEMMA PushIsRecordedNext ==
  ASSUME LateContent = 0, "push" \notin LateGit, InductiveInvariant, PromotionInvariant,
         PushIsRecorded, [Next]_vars
  PROVE  PushIsRecorded'
<1> SUFFICES ASSUME remote' # 0 PROVE loop'.commit = remote'
  BY DEF PushIsRecorded
<1>1. TypeOK /\ PromotionInvariant'
  BY PromotionNext DEF InductiveInvariant
<1>2. loop.commit # 0
  BY <1>1, WorktreeNext
     DEF WorktreeMoves, LatePush, PushIsRecorded, PromotionInvariant, RevisionsSound
<1>3. loop'.commit # 0
  BY <1>1, <1>2, WorktreeNext
     DEF WorktreeMoves, BindRevision, PromotionInvariant, RevisionsSound
<1> QED BY <1>1, <1>3 DEF PromotionInvariant, RevisionsSound

\* The record is bound to what was pushed before it is pushed, and stays bound
\* to it (_merge_worktree: mark_status with the revision, then git push), in
\* spite of blind status writes, failed pushes, crashes and workers that commit
\* late, unless a late worker pushes by itself.
THEOREM PushSafety ==
  LateContent = 0 /\ "push" \notin LateGit => (Spec => []PushIsRecorded)
<1> SUFFICES ASSUME LateContent = 0, "push" \notin LateGit
             PROVE  Spec => []PushIsRecorded
  OBVIOUS
<1>1. Init => PushIsRecorded
  BY DEF Init, PushIsRecorded
<1>2. /\ InductiveInvariant /\ PromotionInvariant /\ PushIsRecorded /\ [Next]_vars
      => PushIsRecorded'
  BY PushIsRecordedNext
<1> QED BY <1>1, <1>2, Invariance, PromotionInvariance, PTL DEF Spec

\* Whoever runs git commit (_merge_worktree or a late Development worker) takes
\* a version a verifier has accepted.
THEOREM CommitSafety == LateContent = 0 => (Spec => []CommitIsVerified)
<1> SUFFICES ASSUME LateContent = 0 PROVE Spec => []CommitIsVerified
  OBVIOUS
<1>1. TypeOK /\ PromotionInvariant => CommitIsVerified
  BY Ranges DEF PromotionInvariant, HeadSound, PassedIsContent, Passed, CommitIsVerified
<1> QED BY <1>1, TypeCorrect, PromotionInvariance, PTL

\* A human's acceptance (accept_loop) and git push (_merge_worktree or a late
\* Development worker), which know nothing of each other, are about the same
\* version of the worktree, whichever of them comes first.
THEOREM AcceptedSafety == LateContent = 0 => (Spec => []OnlyAcceptedIsPushed)
<1> SUFFICES ASSUME LateContent = 0 PROVE Spec => []OnlyAcceptedIsPushed
  OBVIOUS
<1>1. InductiveInvariant /\ PromotionInvariant => OnlyAcceptedIsPushed
  <2> SUFFICES ASSUME InductiveInvariant, PromotionInvariant, acceptance # NoCycle,
                      remote # 0
               PROVE  examined[acceptance] = remote
    BY DEF OnlyAcceptedIsPushed
  <2>1. acceptance \in Cycles /\ Passed(acceptance)
    BY Ranges DEF InductiveInvariant, ResultsSound
  <2>2. examined[acceptance] = content
    BY <2>1 DEF PromotionInvariant, PassedIsContent
  <2>3. head # 0 /\ remote = head
    BY DEF PromotionInvariant, RevisionsSound
  <2> QED BY <2>2, <2>3 DEF PromotionInvariant, HeadSound
<1> QED BY <1>1, Invariance, PromotionInvariance, PTL

-----------------------------------------------------------------------------
(* The contract of promotion is implemented, step by step.                  *)

Approved == {examined[c] : c \in results}

\* The variables of the contract other than `approved` stay as they are.
ContractFrame ==
  /\ head' = head /\ loop'.commit = loop.commit /\ remote' = remote
  /\ (acceptance' # NoCycle) = (acceptance # NoCycle)

\* Evidence that is stored names the version it named before.
LEMMA ApprovedStays ==
  ASSUME InductiveInvariant, [Next]_vars, results' = results
  PROVE  Approved' = Approved
<1>1. ASSUME NEW c \in results PROVE examined'[c] = examined[c]
  <2>1. c \in Cycles /\ Passed(c)
    BY <1>1, Ranges DEF InductiveInvariant, ResultsSound
  <2>2. ~ FinishVerify(c)
    BY <2>1 DEF FinishVerify, Passed
  <2> QED BY <2>1, <2>2, VerifierNext DEF InductiveInvariant, VerifierMoves
<1> QED BY <1>1 DEF Approved

LEMMA Stutter ==
  ASSUME InductiveInvariant, [Next]_vars, results' = results, ContractFrame
  PROVE  [Contract!Next]_(Contract!contract)
<1>1. Approved' = Approved
  BY ApprovedStays
<1> QED BY <1>1 DEF Approved, ContractFrame, Contract!contract

\* record_verification_evidence approves the one version that passed, or
\* stores once more what is stored already.
LEMMA SaveApproves ==
  ASSUME InductiveInvariant, [Next]_vars, NEW p \in Syncers, SaveEvidence(p)
  PROVE  [Contract!Next]_(Contract!contract)
<1> DEFINE v == snap[p].verifier
<1>1. /\ TypeOK /\ v \in Cycles /\ Passed(v)
      /\ \A c \in results : c \in Cycles /\ Passed(c)
  BY Ranges DEF InductiveInvariant, PromotionSound, ResultsSound, SaveEvidence
<1>2. results' = results \cup {v} /\ UNCHANGED <<examined, head, loop, remote, acceptance>>
  BY DEF SaveEvidence, boardVars, gitVars
<1>3. CASE v \in results
  <2>1. results' = results /\ ContractFrame
    BY <1>2, <1>3 DEF ContractFrame
  <2> QED BY <2>1, Stutter
<1>4. CASE v \notin results
  <2>1. results = {}
    BY <1>1, <1>4, OnePasses
  <2>2. Approved = {} /\ Approved' = {examined[v]}
    BY <1>2, <2>1 DEF Approved
  <2>3. examined[v] \in Nat
    BY <1>1 DEF TypeOK, BoardOK
  <2>4. Contract!Approve
    BY <1>2, <2>2, <2>3 DEF Contract!Approve, Approved
  <2> QED BY <2>4 DEF Contract!Next
<1> QED BY <1>3, <1>4

\* git commit, by a call or by a late worker, takes the approved version.
LEMMA CommitCommits ==
  ASSUME InductiveInvariant, PromotionInvariant, [Next]_vars, head' = content,
         \E c \in results : Passed(c), UNCHANGED <<results, loop, remote, acceptance>>
  PROVE  [Contract!Next]_(Contract!contract)
<1>1. PICK v \in Cycles : v \in results /\ Passed(v)
  BY Ranges DEF InductiveInvariant
<1>2. examined[v] = content
  BY <1>1 DEF PromotionInvariant, PassedIsContent
<1>3. Approved' = Approved /\ content \in Approved
  BY <1>1, <1>2, ApprovedStays DEF Approved
<1>4. Contract!Commit
  BY <1>3 DEF Contract!Commit, Approved
<1> QED BY <1>4 DEF Contract!Next

\* A revision that is written into the record is the committed version.
LEMMA BindRecords ==
  ASSUME InductiveInvariant, PromotionInvariant, [Next]_vars, NEW p \in Syncers,
         MarkStatus(p) \/ BindRevision(p)
  PROVE  [Contract!Next]_(Contract!contract)
<1>1. TypeOK /\ RecordOK
  BY DEF InductiveInvariant, TypeOK
<1>2. UNCHANGED <<results, head, remote, acceptance>>
  BY DEF MarkStatus, BindRevision, fileVars, gitVars
<1>3. loop'.commit = loop.commit \/ (head # 0 /\ loop'.commit = head)
  <2>1. CASE MarkStatus(p)
    <3>1. loop'.commit = IF plan[p].commit # 0 THEN plan[p].commit ELSE loop.commit
      BY <1>1, <2>1 DEF MarkStatus, RecordOK
    <3> QED BY <3>1 DEF PromotionInvariant, RevisionsSound
  <2>2. CASE BindRevision(p)
    <3>1. loop'.commit = rev[p] /\ pc[p] = "bindRevision"
      BY <1>1, <2>2 DEF BindRevision, RecordOK
    <3> QED BY <3>1 DEF PromotionInvariant, RevisionsSound
  <2> QED BY <2>1, <2>2
<1>4. CASE loop'.commit = loop.commit
  BY <1>2, <1>4, Stutter DEF ContractFrame
<1>5. CASE head # 0 /\ loop'.commit = head
  <2>1. Approved' = Approved
    BY <1>2, ApprovedStays
  <2>2. Contract!Record
    BY <1>2, <1>5, <2>1 DEF Contract!Record, Approved
  <2> QED BY <2>2 DEF Contract!Next
<1> QED BY <1>3, <1>4, <1>5

\* git push sends what the record is bound to.
LEMMA PushPushes ==
  ASSUME InductiveInvariant, PromotionInvariant, [Next]_vars, NEW p \in Syncers,
         pc[p] = "push", remote' = head, UNCHANGED <<results, loop, head, acceptance>>
  PROVE  [Contract!Next]_(Contract!contract)
<1>1. loop.commit # 0 /\ loop.commit = head
  BY DEF PromotionInvariant, RevisionsSound
<1>2. Approved' = Approved
  BY ApprovedStays
<1>3. Contract!Push
  BY <1>1, <1>2 DEF Contract!Push, Approved
<1> QED BY <1>3 DEF Contract!Next

\* The acceptance artifact is written after evidence is stored.
LEMMA AcceptCloses ==
  ASSUME InductiveInvariant, [Next]_vars, AcceptFile
  PROVE  [Contract!Next]_(Contract!contract)
<1>1. UNCHANGED <<results, head, loop, remote>>
  BY DEF AcceptFile, gitVars
<1>2. accepting.result \in results /\ accepting.result # NoCycle
  <2>1. accepting.result \in results
    BY DEF InductiveInvariant, ResultsSound, AcceptFile
  <2> QED BY <2>1, Ranges DEF InductiveInvariant, Cycles, NoCycle
<1>3. CASE acceptance' = acceptance
  BY <1>1, <1>3, Stutter DEF ContractFrame
<1>4. CASE acceptance' = accepting.result
  <2>1. Approved' = Approved /\ Approved # {}
    <3>1. examined[accepting.result] \in Approved
      BY <1>2 DEF Approved
    <3>2. Approved' = Approved
      BY <1>1, ApprovedStays
    <3> QED BY <3>1, <3>2
  <2>2. Contract!Close
    BY <1>1, <1>2, <1>4, <2>1 DEF Contract!Close, Approved
  <2> QED BY <2>2 DEF Contract!Next
<1> QED BY <1>3, <1>4 DEF AcceptFile

LEMMA OtherStepsStutter ==
  ASSUME InductiveInvariant, [Next]_vars,
         \/ \E p \in Syncers :
              \/ Reads(p) \/ StartCall(p) \/ CallFails(p) \/ Crash(p) \/ ControlFails(p)
              \/ CreateRemediation(p) \/ CreateReverifier(p) \/ PromoteRemediation(p)
              \/ BindRemediation(p) \/ BindEvidence(p) \/ EnterMerging(p)
              \/ RequestCancel(p) \/ ReclaimTask(p) \/ BlockTask(p)
         \/ AcceptRead \/ AcceptMark
         \/ \E t \in Tasks : Claim(t) \/ WorkerBlocks(t) \/ Unblock(t)
         \/ \E c \in Cycles : FinishWork(c) \/ FinishVerify(c) \/ LateWrite(c)
         \/ \E r \in Revocations : Revoke(r)
         \/ UNCHANGED vars
  PROVE  [Contract!Next]_(Contract!contract)
<1> SUFFICES results' = results /\ ContractFrame
  BY Stutter
<1>1. RecordOK
  BY DEF InductiveInvariant, TypeOK
<1>2. ASSUME UNCHANGED <<results, head, loop, remote, acceptance>>
      PROVE  results' = results /\ ContractFrame
  BY <1>2 DEF ContractFrame
<1>3. ASSUME NEW p \in Syncers,
             \/ Reads(p) \/ StartCall(p) \/ CallFails(p) \/ Crash(p) \/ ControlFails(p)
             \/ CreateRemediation(p) \/ CreateReverifier(p) \/ PromoteRemediation(p)
             \/ ReclaimTask(p) \/ BlockTask(p)
      PROVE  results' = results /\ ContractFrame
  BY <1>2, <1>3, ReadsFrame
     DEF shared, fileVars, gitVars, StartCall, RecoverActiveLoops, ReconcileTaskEvent,
         LoopSync, LoopStop, EmergencyStop, CallFails, Crash, ControlFails,
         CreateRemediation, CreateReverifier, PromoteRemediation, ReclaimTask, BlockTask
<1>4. ASSUME NEW p \in Syncers,
             BindRemediation(p) \/ BindEvidence(p) \/ EnterMerging(p) \/ RequestCancel(p)
      PROVE  results' = results /\ ContractFrame
  BY <1>1, <1>4 DEF RecordOK, BindRemediation, BindEvidence, EnterMerging, RequestCancel,
                    fileVars, gitVars, ContractFrame
<1>5. CASE AcceptMark
  BY <1>1, <1>5 DEF RecordOK, AcceptMark, fileVars, gitVars, ContractFrame
<1>6. CASE \/ AcceptRead \/ (\E r \in Revocations : Revoke(r)) \/ UNCHANGED vars
           \/ \E t \in Tasks : Claim(t) \/ WorkerBlocks(t) \/ Unblock(t)
           \/ \E c \in Cycles : FinishWork(c) \/ FinishVerify(c) \/ LateWrite(c)
  BY <1>2, <1>6
     DEF AcceptRead, Claim, WorkerBlocks, Unblock, FinishWork, FinishVerify, LateWrite,
         Revoke, vars, fileVars, gitVars
<1> QED BY <1>3, <1>4, <1>5, <1>6

LEMMA ContractNext ==
  ASSUME "push" \notin LateGit, InductiveInvariant, PromotionInvariant, [Next]_vars
  PROVE  [Contract!Next]_(Contract!contract)
<1>1. ASSUME NEW p \in Syncers, CommitWorktree(p) PROVE [Contract!Next]_(Contract!contract)
  BY <1>1, EvidenceStored, CommitCommits DEF CommitWorktree, fileVars
<1>2. ASSUME NEW p \in Syncers, Push(p) PROVE [Contract!Next]_(Contract!contract)
  BY <1>2, PushPushes DEF Push, fileVars
<1>3. ASSUME NEW p \in Syncers, ReplyLost(p) PROVE [Contract!Next]_(Contract!contract)
  <2>1. UNCHANGED <<results, loop, acceptance>>
    BY <1>3 DEF ReplyLost, fileVars
  <2>2. \/ pc[p] = "commitWorktree" /\ head' = content /\ UNCHANGED remote
        \/ pc[p] = "push" /\ remote' = head /\ UNCHANGED head
        \/ UNCHANGED <<head, remote>>
    BY <1>3 DEF ReplyLost
  <2>3. CASE UNCHANGED <<head, remote>>
    BY <2>1, <2>3, Stutter DEF ContractFrame
  <2> QED BY <2>1, <2>2, <2>3, EvidenceStored, CommitCommits, PushPushes
<1>4. ASSUME NEW p \in Syncers, SyncStep(p) \/ StartCall(p) \/ FaultStep(p)
      PROVE  [Contract!Next]_(Contract!contract)
  BY <1>1, <1>2, <1>3, <1>4, SyncStepSplit, SaveApproves, BindRecords, OtherStepsStutter
     DEF Writes, FaultStep
<1>5. ASSUME LateCommit PROVE [Contract!Next]_(Contract!contract)
  BY <1>5, EvidenceStored, CommitCommits DEF LateCommit, fileVars
<1> QED
  BY <1>4, <1>5, AcceptCloses, OtherStepsStutter DEF Next, Accept, Board, LatePush

\* The loop implements the contract of promotion: however many calls of sync,
\* cancel and accept interleave, fail or die, versions become approved,
\* committed, recorded and pushed in this order, and only one version ever is.
\* A late worker may commit, but must not push.
THEOREM Refinement ==
  LateContent = 0 /\ "push" \notin LateGit => (Spec => ImplementsContract)
<1> SUFFICES ASSUME LateContent = 0, "push" \notin LateGit
             PROVE  Spec => ImplementsContract
  OBVIOUS
<1>1. Init => Contract!Init
  BY DEF Init, Contract!Init
<1>2. InductiveInvariant /\ PromotionInvariant /\ [Next]_vars =>
        [Contract!Next]_(Contract!contract)
  BY ContractNext
<1> QED
  BY <1>1, <1>2, Invariance, PromotionInvariance, PTL
     DEF Spec, ImplementsContract, Contract!Spec

-----------------------------------------------------------------------------
(* Calls that do not overlap: what a step of a call does to the cycle it    *)
(* relies on, and to what cancel has confirmed.                             *)

CallControl(q) ==
  /\ pc'[q] \in Relying =>
       \/ snap'[q] = Snapshot /\ loop' = loop
       \/ pc[q] \in Relying /\ snap'[q] = snap[q]
  /\ pc'[q] \in Cancelling /\ ~ unconfirmed'[q] =>
       \/ aim'[q] = 1
       \/ /\ pc[q] \in Cancelling /\ ~ unconfirmed[q]
          /\ \/ aim'[q] = aim[q]
             \/ aim'[q] = NextAim(q) /\ task'[Target(q)] \in {"done", "blocked"}
  /\ pc'[q] = "markStatus" /\ plan'[q].status = "CANCELED" =>
       \/ pc[q] = "markStatus" /\ plan'[q] = plan[q]
       \/ /\ pc[q] \in Cancelling /\ ~ unconfirmed[q] /\ ~ aim[q] < 3
          /\ task'[Target(q)] \in {"done", "blocked"}

SameCall(q) ==
  /\ pc'[q] = pc[q] /\ snap'[q] = snap[q] /\ plan'[q] = plan[q]
  /\ aim'[q] = aim[q] /\ unconfirmed'[q] = unconfirmed[q]

\* A step of p moves p alone, and only as CallControl says.
CallAlone(p) == CallControl(p) /\ \A q \in Syncers \ {p} : SameCall(q)

LEMMA SameCallControl == \A q \in Syncers : SameCall(q) => CallControl(q)
<1> SUFFICES ASSUME NEW q \in Syncers, SameCall(q) PROVE CallControl(q)
  OBVIOUS
<1> USE DEF SameCall
<1>1. pc'[q] \in Relying => pc[q] \in Relying /\ snap'[q] = snap[q]
  OBVIOUS
<1>2. pc'[q] \in Cancelling /\ ~ unconfirmed'[q] =>
        pc[q] \in Cancelling /\ ~ unconfirmed[q] /\ aim'[q] = aim[q]
  OBVIOUS
<1>3. pc'[q] = "markStatus" => pc[q] = "markStatus" /\ plan'[q] = plan[q]
  OBVIOUS
<1> QED BY <1>1, <1>2, <1>3 DEF CallControl

LEMMA GotoCalls ==
  ASSUME CallsOK, NEW p \in Syncers, NEW label, Goto(p, label),
         label \notin Cancelling \cup {"markStatus"},
         label \in Relying => pc[p] \in Relying
  PROVE  CallAlone(p)
BY DEF CallsOK, Goto, CallAlone, CallControl, SameCall

LEMMA GotoCancelling ==
  ASSUME CallsOK, NEW p \in Syncers, NEW label \in Cancelling, Goto(p, label),
         pc[p] \in Cancelling
  PROVE  CallAlone(p)
<1>1. /\ pc'[p] = label /\ snap'[p] = snap[p] /\ aim'[p] = aim[p]
      /\ unconfirmed'[p] = unconfirmed[p]
      /\ \A q \in Syncers \ {p} : SameCall(q)
  BY DEF CallsOK, Goto, SameCall
<1>2. label # "markStatus" /\ pc[p] \in Relying
  BY DEF Cancelling, Relying
<1> QED BY <1>1, <1>2 DEF CallAlone, CallControl

LEMMA PlanStatusCalls ==
  ASSUME CallsOK, NEW p \in Syncers, NEW status, NEW r, PlanStatus(p, status, r),
         status # "CANCELED"
  PROVE  CallAlone(p)
BY DEF CallsOK, PlanStatus, CallAlone, CallControl, SameCall, Relying, Cancelling, Staging

LEMMA ReturnCalls ==
  ASSUME CallsOK, NEW p \in Syncers, Return(p)
  PROVE  CallAlone(p)
BY DEF CallsOK, Return, CallAlone, CallControl, SameCall, Relying, Cancelling, Staging

LEMMA CallWithCalls ==
  ASSUME CallsOK, NEW p \in Syncers, NEW label \in {"guard", "requestCancel"},
         CallWith(p, label), UNCHANGED loop
  PROVE  CallAlone(p)
BY DEF CallsOK, CallWith, CallAlone, CallControl, SameCall, Cancelling

LEMMA NextTargetCalls ==
  ASSUME CallsOK, NEW p \in Syncers, NEW problem \in BOOLEAN, NextTarget(p, problem),
         pc[p] \in Cancelling,
         ~ problem => task'[Target(p)] \in {"done", "blocked"}
  PROVE  CallAlone(p)
<1>1. CASE aim[p] < 3
  <2>1. /\ pc'[p] = "cancelTask" /\ snap'[p] = snap[p] /\ aim'[p] = NextAim(p)
        /\ unconfirmed'[p] = (unconfirmed[p] \/ problem)
        /\ \A q \in Syncers \ {p} : SameCall(q)
    BY <1>1 DEF NextTarget, CallsOK, SameCall
  <2>2. pc[p] \in Relying
    BY DEF Relying
  <2> QED BY <2>1, <2>2 DEF CallAlone, CallControl
<1>2. CASE ~ aim[p] < 3 /\ (unconfirmed[p] \/ problem)
  BY <1>2, ReturnCalls DEF NextTarget
<1>3. CASE ~ aim[p] < 3 /\ ~ unconfirmed[p] /\ ~ problem
  <2>1. PlanStatus(p, "CANCELED", 0)
    BY <1>3 DEF NextTarget
  <2>2. pc'[p] = "markStatus" /\ \A q \in Syncers \ {p} : SameCall(q)
    BY <2>1 DEF PlanStatus, CallsOK, SameCall
  <2>3. "markStatus" \notin Relying /\ "markStatus" \notin Cancelling
    BY DEF Relying, Cancelling, Staging
  <2> QED BY <1>3, <2>2, <2>3 DEF CallAlone, CallControl
<1> QED BY <1>1, <1>2, <1>3

LEMMA TargetTask == ASSUME TypeOK, NEW p \in Syncers PROVE Target(p) \in Tasks
<1>1. 0 \in Cycles /\ snap[p].remediation \in Cycles /\ snap[p].verifier \in Cycles
  BY DEF TypeOK, CallsOK, Cycles
<1> QED BY <1>1, TaskNames DEF Target

LEMMA CallReads ==
  ASSUME TypeOK, NEW p \in Syncers, Reads(p) PROVE CallAlone(p)
<1>0. CallsOK
  BY DEF TypeOK
<1>1. "NEEDS_HUMAN" # "CANCELED" /\ \A s : Unfinished(s) # "CANCELED"
  BY DEF Unfinished
<1>2. CASE ProfileChanged(p)
  BY <1>0, <1>2, PlanStatusCalls DEF ProfileChanged
<1>3. CASE AuthorityLost(p) \/ GuardPassed(p)
  BY <1>0, <1>3, GotoCalls DEF AuthorityLost, GuardPassed, Relying, Cancelling
<1>4. CASE AlreadyPromoted(p)
  BY <1>0, <1>4, ReturnCalls DEF AlreadyPromoted
<1>5. CASE ShowDevelopment(p)
  BY <1>0, <1>1, <1>5, GotoCalls, PlanStatusCalls
     DEF ShowDevelopment, Relying, Cancelling
<1>6. CASE ShowVerifier(p)
  <2>1. \/ PlanStatus(p, "NEEDS_HUMAN", 0) \/ PlanStatus(p, "VERIFYING", 0)
        \/ Goto(p, "queueRemediation") \/ Goto(p, "saveEvidence")
    BY <1>6 DEF ShowVerifier
  <2>2. pc[p] \in Relying
    BY <1>6 DEF ShowVerifier, Relying
  <2> QED BY <1>0, <2>1, <2>2, GotoCalls, PlanStatusCalls DEF Cancelling
<1>7. CASE QueueRemediation(p)
  BY <1>0, <1>7, GotoCalls, PlanStatusCalls
     DEF QueueRemediation, Relying, Cancelling, Staging
<1>8. CASE InspectWorktree(p)
  BY <1>0, <1>8, GotoCalls, PlanStatusCalls
     DEF InspectWorktree, Relying, Cancelling, Staging
<1>9. CASE ResolveHead(p)
  <2>1. CASE pc' = [pc EXCEPT ![p] = "bindRevision"]
              /\ UNCHANGED <<snap, plan, aim, unconfirmed>>
    BY <1>0, <2>1
       DEF CallsOK, CallAlone, CallControl, SameCall, Relying, Cancelling, Staging
  <2> QED BY <1>0, <1>9, <2>1, PlanStatusCalls DEF ResolveHead
<1>10. CASE StopScan(p)
  BY <1>0, <1>10, CallWithCalls, ReturnCalls DEF StopScan
<1>11. CASE CancelTask(p)
  <2>1. pc[p] \in Cancelling /\ UNCHANGED task
    BY <1>11 DEF CancelTask, Cancelling, boardVars
  <2>2. CASE task[Target(p)] \in {"done", "blocked"} /\ NextTarget(p, FALSE)
    BY <1>0, <2>1, <2>2, NextTargetCalls
  <2>3. CASE Goto(p, "reclaim") \/ Goto(p, "block")
    BY <1>0, <2>1, <2>3, GotoCancelling DEF Cancelling
  <2> QED BY <1>11, <2>2, <2>3 DEF CancelTask
<1> QED
  BY <1>2, <1>3, <1>4, <1>5, <1>6, <1>7, <1>8, <1>9, <1>10, <1>11 DEF Reads

LEMMA CallWrites ==
  ASSUME TypeOK, NEW p \in Syncers, Writes(p) PROVE CallAlone(p)
<1>0. CallsOK
  BY DEF TypeOK
<1>1. CASE MarkStatus(p)
  BY <1>0, <1>1, ReturnCalls DEF MarkStatus
<1>2. CASE CreateRemediation(p) \/ CreateReverifier(p) \/ BindRemediation(p)
  BY <1>0, <1>2, GotoCalls
     DEF CreateRemediation, CreateReverifier, BindRemediation, Relying, Cancelling, Staging
<1>3. CASE SaveEvidence(p) \/ BindEvidence(p) \/ BindRevision(p)
  BY <1>0, <1>3, GotoCalls
     DEF SaveEvidence, BindEvidence, BindRevision, Relying, Cancelling, Staging
<1>4. CASE PromoteRemediation(p)
  BY <1>0, <1>4, ReturnCalls, PlanStatusCalls DEF PromoteRemediation
<1>5. CASE EnterMerging(p)
  BY <1>0, <1>5 DEF EnterMerging, CallsOK, CallAlone, CallControl, SameCall, Relying,
                    Cancelling, Staging
<1>6. CASE CommitWorktree(p)
  BY <1>0, <1>6, GotoCalls, PlanStatusCalls
     DEF CommitWorktree, Relying, Cancelling, Staging
<1>7. CASE Push(p)
  BY <1>0, <1>7, PlanStatusCalls DEF Push
<1>8. CASE RequestCancel(p)
  <2>1. /\ pc[p] \in Relying /\ pc'[p] # "markStatus" /\ snap'[p] = snap[p]
        /\ aim'[p] = 1 /\ \A q \in Syncers \ {p} : SameCall(q)
    BY <1>0, <1>8 DEF RequestCancel, CallsOK, SameCall, Relying
  <2> QED BY <2>1 DEF CallAlone, CallControl
<1>9. CASE ReclaimTask(p)
  <2>1. /\ pc[p] \in Cancelling /\ pc'[p] # "markStatus" /\ snap'[p] = snap[p]
        /\ aim'[p] = aim[p] /\ \A q \in Syncers \ {p} : SameCall(q)
    BY <1>0, <1>9 DEF ReclaimTask, CallsOK, SameCall, Cancelling
  <2>2. unconfirmed[p] => unconfirmed'[p]
    BY <1>0, <1>9 DEF ReclaimTask, CallsOK
  <2>3. pc[p] \in Relying
    BY <2>1 DEF Relying
  <2> QED BY <2>1, <2>2, <2>3 DEF CallAlone, CallControl
<1>10. CASE BlockTask(p)
  <2> DEFINE open == task[Target(p)] \in {"todo", "running"}
  <2>1. NextTarget(p, ~ open) /\ pc[p] \in Cancelling
    BY <1>10 DEF BlockTask, Cancelling
  <2>2. open => task'[Target(p)] \in {"done", "blocked"}
    BY <1>10, TargetTask DEF BlockTask, TypeOK, BoardOK
  <2> QED BY <1>0, <2>1, <2>2, NextTargetCalls
<1> QED
  BY <1>1, <1>2, <1>3, <1>4, <1>5, <1>6, <1>7, <1>8, <1>9, <1>10 DEF Writes

LEMMA CallOthers ==
  ASSUME TypeOK, NEW p \in Syncers, StartCall(p) \/ FaultStep(p)
  PROVE  CallAlone(p)
<1>0. CallsOK
  BY DEF TypeOK
<1>1. CASE StartCall(p)
  <2>1. CASE EmergencyStop(p)
    BY <1>0, <2>1, GotoCalls DEF EmergencyStop, Relying, Cancelling, Staging
  <2> QED BY <1>0, <1>1, <2>1, CallWithCalls
          DEF StartCall, RecoverActiveLoops, ReconcileTaskEvent, LoopSync, LoopStop
<1>2. CASE CallFails(p) \/ ReplyLost(p)
  BY <1>0, <1>2, PlanStatusCalls DEF CallFails, ReplyLost
<1>3. CASE Crash(p)
  BY <1>0, <1>3, ReturnCalls DEF Crash
<1>4. CASE ControlFails(p)
  <2>1. pc[p] \in Cancelling
    BY <1>4 DEF ControlFails, Cancelling
  <2>2. CASE NextTarget(p, TRUE)
    BY <1>0, <2>1, <2>2, NextTargetCalls
  <2>3. CASE /\ unconfirmed' = [unconfirmed EXCEPT ![p] = TRUE]
             /\ pc' = [pc EXCEPT ![p] = "block"]
             /\ UNCHANGED <<snap, rev, plan, aim>>
    <3>1. /\ pc'[p] # "markStatus" /\ snap'[p] = snap[p] /\ unconfirmed'[p]
          /\ \A q \in Syncers \ {p} : SameCall(q)
      BY <1>0, <2>3 DEF CallsOK, SameCall
    <3>2. pc[p] \in Relying
      BY <2>1 DEF Relying
    <3> QED BY <3>1, <3>2 DEF CallAlone, CallControl
  <2> QED BY <1>4, <2>2, <2>3 DEF ControlFails
<1> QED BY <1>1, <1>2, <1>3, <1>4 DEF FaultStep

LEMMA CallControlNext ==
  ASSUME TypeOK, [Next]_vars
  PROVE  \A q \in Syncers : CallControl(q)
<1>1. ASSUME NEW p \in Syncers, CallAlone(p)
      PROVE  \A q \in Syncers : CallControl(q)
  BY <1>1, SameCallControl DEF CallAlone
<1>2. CASE UNCHANGED localVars
  BY <1>2, SameCallControl DEF localVars, SameCall
<1>3. Accept \/ Board \/ (\E r \in Revocations : Revoke(r)) \/ UNCHANGED vars
        => UNCHANGED localVars
  BY DEF Accept, AcceptRead, AcceptFile, AcceptMark, Board, Claim, WorkerBlocks, Unblock,
         FinishWork, FinishVerify, LateWrite, LateCommit, LatePush, Revoke, vars, localVars
<1> QED
  BY <1>1, <1>2, <1>3, SyncStepSplit, CallReads, CallWrites, CallOthers DEF Next

\* While a call relies on a cycle, no other one binds the next.
LEMMA CycleStays ==
  ASSUME TypeOK, [Next]_vars, NoOverlap, NEW q \in Syncers, pc[q] # "idle",
         pc[q] # "bindRemediation" \/ pc'[q] # "promoteRemediation"
  PROVE  /\ loop'.count = loop.count /\ loop'.remediation = loop.remediation
         /\ loop'.verifier = loop.verifier
<1>1. ASSUME NEW p \in Syncers, BindRemediation(p) PROVE FALSE
  <2>1. pc[p] = "bindRemediation" /\ pc'[p] = "promoteRemediation"
    BY <1>1 DEF BindRemediation, Goto, TypeOK, CallsOK
  <2>2. p = q
    BY <2>1 DEF NoOverlap
  <2> QED BY <2>1, <2>2
<1> QED BY <1>1, RecordNext DEF RecordMoves

LEMMA SnapshotCurrentNext ==
  ASSUME TypeOK, SnapshotCurrent, NoOverlap, [Next]_vars
  PROVE  SnapshotCurrent'
<1> SUFFICES ASSUME NEW q \in Syncers, pc'[q] \in Relying
             PROVE  snap'[q].count = loop'.count
  BY DEF SnapshotCurrent
<1>1. CallControl(q)
  BY CallControlNext
<1>2. CASE snap'[q] = Snapshot /\ loop' = loop
  BY <1>2 DEF Snapshot
<1>3. CASE pc[q] \in Relying /\ snap'[q] = snap[q]
  <2>1. pc[q] # "idle" /\ pc'[q] # "promoteRemediation"
    BY <1>3 DEF Relying, Cancelling, Staging
  <2>2. loop'.count = loop.count
    BY <2>1, CycleStays
  <2> QED BY <1>3, <2>2 DEF SnapshotCurrent
<1> QED BY <1>1, <1>2, <1>3 DEF CallControl

\* What has halted stays halted, unless a human or a remediation releases it.
LEMMA HaltedStays ==
  ASSUME TypeOK, [Next]_vars, NoOverlap, "unblock" \notin HumanActs,
         NEW q \in Syncers, pc[q] \in Cancelling \cup {"markStatus"},
         NEW t \in Tasks, Halted(t)
  PROVE  task'[t] \in {"done", "blocked"}
<1>1. ASSUME NEW p \in Syncers, pc[p] = "promoteRemediation" PROVE FALSE
  BY <1>1 DEF NoOverlap, Cancelling
<1>2. CASE task[t] = "done"
  BY <1>2, BoardNext DEF BoardKeeps
<1>3. CASE task[t] = "blocked"
  BY <1>1, <1>3, BoardNext DEF BoardReleases, Unblock
<1> QED BY <1>2, <1>3 DEF Halted

LEMMA CancelSoundNext ==
  ASSUME InductiveInvariant, CallInvariant, NoOverlap, [Next]_vars,
         "unblock" \notin HumanActs
  PROVE  CancelSound'
<1> USE DEF CallInvariant
<1>1. TypeOK /\ CyclesAgree
  BY DEF InductiveInvariant
<1>2. 0 \in Cycles /\ loop.remediation \in Cycles /\ loop.verifier \in Cycles
  BY <1>1, Ranges
<1> SUFFICES ASSUME NEW q \in Syncers
             PROVE  /\ pc'[q] \in Cancelling /\ ~ unconfirmed'[q] =>
                         /\ aim'[q] > 1 => task'[Work(0)] \in {"done", "blocked"}
                         /\ aim'[q] > 2 /\ loop'.remediation # 0 =>
                              task'[Work(loop'.remediation)] \in {"done", "blocked"}
                    /\ pc'[q] = "markStatus" /\ plan'[q].status = "CANCELED" =>
                         \A t \in Bound' : task'[t] \in {"done", "blocked"}
  BY DEF CancelSound, Halted, Work
<1>3. CallControl(q)
  BY <1>1, CallControlNext
<1>4. ASSUME pc[q] \in Cancelling \cup {"markStatus"}
      PROVE  /\ loop'.remediation = loop.remediation /\ loop'.verifier = loop.verifier
             /\ Bound' = Bound
             /\ \A t \in Tasks : Halted(t) => task'[t] \in {"done", "blocked"}
  <2>1. loop'.remediation = loop.remediation /\ loop'.verifier = loop.verifier
    BY <1>1, <1>4, CycleStays DEF Cancelling
  <2>2. \A t \in Tasks : Halted(t) => task'[t] \in {"done", "blocked"}
    BY <1>1, <1>4, HaltedStays
  <2> QED BY <2>1, <2>2 DEF Bound, Work, Verify
<1>5. ASSUME pc[q] \in Cancelling
      PROVE  /\ snap[q].remediation = loop.remediation
             /\ snap[q].verifier = loop.verifier
  <2>1. snap[q].count = loop.count
    BY <1>5 DEF SnapshotCurrent, Relying
  <2> QED BY <1>1, <2>1 DEF CyclesAgree
<1>6. ASSUME pc'[q] \in Cancelling, ~ unconfirmed'[q]
      PROVE  /\ aim'[q] > 1 => task'[Work(0)] \in {"done", "blocked"}
             /\ aim'[q] > 2 /\ loop'.remediation # 0 =>
                  task'[Work(loop'.remediation)] \in {"done", "blocked"}
  <2>1. CASE aim'[q] = 1
    BY <2>1
  <2>2. CASE pc[q] \in Cancelling /\ ~ unconfirmed[q] /\ aim'[q] = aim[q]
    <3>1. /\ aim[q] > 1 => Halted(Work(0))
          /\ aim[q] > 2 /\ loop.remediation # 0 => Halted(Work(loop.remediation))
      BY <2>2 DEF CancelSound
    <3> QED BY <1>2, <1>4, <2>2, <3>1, TaskNames
  <2>3. CASE /\ pc[q] \in Cancelling /\ ~ unconfirmed[q] /\ aim'[q] = NextAim(q)
             /\ task'[Target(q)] \in {"done", "blocked"}
    <3>1. /\ aim[q] > 1 => Halted(Work(0))
          /\ aim[q] > 2 /\ loop.remediation # 0 => Halted(Work(loop.remediation))
      BY <2>3 DEF CancelSound
    <3>2. aim[q] \in 0 .. 3
      BY <1>1 DEF TypeOK, CallsOK
    <3>3. CASE aim[q] = 0
      BY <2>3, <3>3 DEF NextAim
    <3>4. CASE aim[q] = 1
      <4>1. task'[Work(0)] \in {"done", "blocked"}
        BY <2>3, <3>4 DEF Target
      <4>2. loop'.remediation # 0 => aim'[q] = 2
        BY <1>4, <1>5, <2>3, <3>4 DEF NextAim
      <4> QED BY <4>1, <4>2
    <3>5. CASE aim[q] = 2
      <4>1. task'[Work(loop'.remediation)] \in {"done", "blocked"}
        BY <1>4, <1>5, <2>3, <3>5 DEF Target
      <4> QED BY <1>2, <1>4, <2>3, <3>1, <3>5, <4>1, TaskNames
    <3>6. CASE aim[q] = 3
      BY <1>2, <1>4, <2>3, <3>1, <3>6, TaskNames
    <3> QED BY <3>2, <3>3, <3>4, <3>5, <3>6
  <2> QED BY <1>3, <1>6, <2>1, <2>2, <2>3 DEF CallControl
<1>7. ASSUME pc'[q] = "markStatus", plan'[q].status = "CANCELED", NEW t \in Bound'
      PROVE  task'[t] \in {"done", "blocked"}
  <2>1. \A u \in Bound : u \in Tasks
    BY <1>2, TaskNames DEF Bound
  <2>2. CASE pc[q] = "markStatus" /\ plan'[q] = plan[q]
    <3>1. t \in Bound /\ Halted(t)
      BY <1>4, <1>7, <2>2 DEF CancelSound
    <3> QED BY <1>4, <2>1, <2>2, <3>1
  <2>3. CASE /\ pc[q] \in Cancelling /\ ~ unconfirmed[q] /\ ~ aim[q] < 3
             /\ task'[Target(q)] \in {"done", "blocked"}
    <3>1. aim[q] = 3
      BY <1>1, <2>3 DEF TypeOK, CallsOK
    <3>2. /\ Halted(Work(0))
          /\ loop.remediation # 0 => Halted(Work(loop.remediation))
      BY <2>3, <3>1 DEF CancelSound
    <3>3. task'[Verify(loop.verifier)] \in {"done", "blocked"}
      BY <1>5, <2>3, <3>1 DEF Target
    <3>4. t \in Bound
      BY <1>4, <1>7, <2>3
    <3>5. CASE t = Verify(loop.verifier)
      BY <3>3, <3>5
    <3>6. CASE t # Verify(loop.verifier)
      BY <1>4, <2>1, <2>3, <3>2, <3>4, <3>6 DEF Bound
    <3> QED BY <3>5, <3>6
  <2> QED BY <1>3, <1>7, <2>2, <2>3 DEF CallControl
<1> QED BY <1>6, <1>7

LEMMA CallInit == Init => CallInvariant
BY DEF Init, CallInvariant, SnapshotCurrent, CancelSound, Relying, Cancelling, Staging

\* In runs of calls that do not overlap, a call's copy of the cycle is the
\* loop's own as long as the call relies on it: of sync, of queue_remediation
\* up to the write of the next cycle, and of cancel.
THEOREM SnapshotSafety == Spec /\ []NoOverlap => []SnapshotCurrent
<1>1. Init => SnapshotCurrent
  BY CallInit DEF CallInvariant
<1>2. InductiveInvariant /\ SnapshotCurrent /\ NoOverlap /\ [Next]_vars => SnapshotCurrent'
  BY SnapshotCurrentNext DEF InductiveInvariant
<1> QED BY <1>1, <1>2, Invariance, PTL DEF Spec

\* In such runs no write takes spent cycles back, nor the binding to the last
\* verifier (queue_remediation counts from its caller's copy of the record).
THEOREM CyclesSafety == Spec /\ []NoOverlap => CyclesNeverReturn
<1>1. ASSUME InductiveInvariant, InductiveInvariant', SnapshotCurrent, [Next]_vars
      PROVE  loop'.count >= loop.count /\ loop'.verifier >= loop.verifier
  <2>1. TypeOK /\ RecordOK /\ loop.count \in Nat
    BY <1>1 DEF InductiveInvariant, TypeOK, RecordOK, Cycles
  <2>2. loop.verifier = loop.count /\ loop'.verifier = loop'.count
    BY <1>1 DEF InductiveInvariant, CyclesAgree
  <2>3. ASSUME NEW p \in Syncers, BindRemediation(p) PROVE loop'.count = loop.count + 1
    <3>1. loop'.count = snap[p].count + 1
      BY <2>1, <2>3 DEF BindRemediation, RecordOK
    <3>2. snap[p].count = loop.count
      BY <1>1, <2>3 DEF BindRemediation, SnapshotCurrent, Relying, Staging
    <3> QED BY <3>1, <3>2
  <2>4. loop'.count = loop.count \/ loop'.count = loop.count + 1
    BY <1>1, <2>1, <2>3, RecordNext DEF RecordMoves
  <2> QED BY <2>1, <2>2, <2>4
<1> QED BY <1>1, Invariance, SnapshotSafety, PTL DEF Spec, CyclesNeverReturn

\* What cancel has confirmed stays confirmed, until it has written CANCELED,
\* in runs of calls that do not overlap and where no human releases a card.
THEOREM CallInvariance ==
  "unblock" \notin HumanActs => (Spec /\ []NoOverlap => []CallInvariant)
<1> SUFFICES ASSUME "unblock" \notin HumanActs
             PROVE  Spec /\ []NoOverlap => []CallInvariant
  OBVIOUS
<1>1. InductiveInvariant /\ CallInvariant /\ NoOverlap /\ [Next]_vars => CallInvariant'
  BY SnapshotCurrentNext, CancelSoundNext DEF InductiveInvariant, CallInvariant
<1> QED BY CallInit, <1>1, Invariance, PTL DEF Spec

\* Who writes the status CANCELED.
LEMMA CanceledBy ==
  ASSUME TypeOK, [Next]_vars, loop'.status = "CANCELED", loop.status # "CANCELED"
  PROVE  \E p \in Syncers : /\ pc[p] = "markStatus" /\ plan[p].status = "CANCELED"
                            /\ task' = task
<1>1. RecordOK
  BY DEF TypeOK
<1>2. ASSUME NEW p \in Syncers, MarkStatus(p)
      PROVE  pc[p] = "markStatus" /\ plan[p].status = "CANCELED" /\ task' = task
  BY <1>1, <1>2 DEF RecordOK, MarkStatus, boardVars
<1>3. ASSUME NEW p \in Syncers,
             \/ BindRemediation(p) \/ BindEvidence(p) \/ EnterMerging(p)
             \/ BindRevision(p) \/ RequestCancel(p)
      PROVE  FALSE
  BY <1>1, <1>3 DEF RecordOK, BindRemediation, BindEvidence, EnterMerging, BindRevision,
                    RequestCancel
<1>4. ASSUME NEW p \in Syncers,
             \/ Reads(p) \/ StartCall(p) \/ FaultStep(p)
             \/ CreateRemediation(p) \/ CreateReverifier(p) \/ PromoteRemediation(p)
             \/ SaveEvidence(p) \/ CommitWorktree(p) \/ Push(p)
             \/ ReclaimTask(p) \/ BlockTask(p)
      PROVE  FALSE
  BY <1>4, ReadsFrame
     DEF shared, StartCall, RecoverActiveLoops, ReconcileTaskEvent, LoopSync, LoopStop,
         EmergencyStop, FaultStep, CallFails, ReplyLost, Crash, ControlFails,
         CreateRemediation, CreateReverifier, PromoteRemediation, SaveEvidence,
         CommitWorktree, Push, ReclaimTask, BlockTask
<1>5. ASSUME AcceptMark PROVE FALSE
  BY <1>1, <1>5 DEF RecordOK, AcceptMark
<1>6. ASSUME AcceptRead \/ AcceptFile \/ Board \/ (\E r \in Revocations : Revoke(r))
               \/ UNCHANGED vars
      PROVE  FALSE
  BY <1>6 DEF AcceptRead, AcceptFile, Board, Claim, WorkerBlocks, Unblock, FinishWork,
              FinishVerify, LateWrite, LateCommit, LatePush, Revoke, vars
<1> QED
  BY <1>2, <1>3, <1>4, <1>5, <1>6, SyncStepSplit DEF Next, Writes, Accept

\* CANCELED is written only when nothing the loop names can run (cancel shows,
\* reclaims and blocks every task before it writes the status).
THEOREM CancelSafety ==
  "unblock" \notin HumanActs => (Spec /\ []NoOverlap => CancelIsConfirmed)
<1> SUFFICES ASSUME "unblock" \notin HumanActs
             PROVE  Spec /\ []NoOverlap => CancelIsConfirmed
  OBVIOUS
<1>1. InductiveInvariant /\ CallInvariant /\ [Next]_vars =>
        (loop'.status = "CANCELED" /\ loop.status # "CANCELED" =>
           \A t \in Bound : task[t] \in {"done", "blocked"})
  BY CanceledBy DEF InductiveInvariant, CallInvariant, CancelSound, Halted
<1> QED BY <1>1, Invariance, CallInvariance, PTL DEF Spec, CancelIsConfirmed

-----------------------------------------------------------------------------
(* A bound revision and a missing push: what a step does to a call that     *)
(* knows of one.                                                            *)

Merging == {"inspectWorktree", "commitWorktree", "resolveHead"}

PromiseControl(q) ==
  /\ pc'[q] \in Merging =>
       \/ pc[q] \in Merging /\ rev'[q] = rev[q]
       \/ EnterMerging(q)
  /\ plan'[q].commit # 0 =>
       \/ plan'[q].commit = plan[q].commit
       \/ Push(q) \/ FaultStep(q)
       \/ pc[q] = "resolveHead" /\ rev[q] # 0
  /\ pc'[q] = "guard" =>
       \/ pc[q] = "guard" /\ snap'[q] = snap[q]
       \/ pc[q] = "idle" /\ snap'[q] = Snapshot /\ UNCHANGED <<loop, remote>>
  /\ pc[q] = "push" => pc'[q] = "push" \/ Push(q) \/ FaultStep(q)

SamePromise(q) ==
  pc'[q] = pc[q] /\ snap'[q] = snap[q] /\ rev'[q] = rev[q] /\ plan'[q] = plan[q]

\* A step of p moves p alone, and only as PromiseControl says.
PromiseAlone(p) == PromiseControl(p) /\ \A q \in Syncers \ {p} : SamePromise(q)

LEMMA SamePromiseControl == \A q \in Syncers : SamePromise(q) => PromiseControl(q)
BY DEF SamePromise, PromiseControl

LEMMA GotoPromise ==
  ASSUME CallsOK, NEW p \in Syncers, NEW label, Goto(p, label),
         label \notin {"guard"}, pc[p] # "push",
         label \in Merging => pc[p] \in Merging
  PROVE  PromiseAlone(p)
BY DEF CallsOK, Goto, PromiseAlone, PromiseControl, SamePromise

LEMMA PlanStatusPromise ==
  ASSUME CallsOK, NEW p \in Syncers, NEW status, NEW r, PlanStatus(p, status, r),
         pc[p] # "push" \/ Push(p) \/ FaultStep(p),
         \/ r = 0 \/ Push(p) \/ FaultStep(p)
         \/ pc[p] = "resolveHead" /\ rev[p] # 0
  PROVE  PromiseAlone(p)
BY DEF CallsOK, PlanStatus, PromiseAlone, PromiseControl, SamePromise, Merging

LEMMA ReturnPromise ==
  ASSUME CallsOK, NEW p \in Syncers, Return(p), pc[p] # "push" \/ FaultStep(p)
  PROVE  PromiseAlone(p)
BY DEF CallsOK, Return, NoPlan, PromiseAlone, PromiseControl, SamePromise, Merging

LEMMA CallWithPromise ==
  ASSUME CallsOK, NEW p \in Syncers, NEW label \in {"guard", "requestCancel"},
         CallWith(p, label), UNCHANGED <<loop, remote>>,
         pc[p] # "push", label = "guard" => pc[p] = "idle"
  PROVE  PromiseAlone(p)
BY DEF CallsOK, CallWith, PromiseAlone, PromiseControl, SamePromise, Merging

LEMMA NextTargetPromise ==
  ASSUME CallsOK, NEW p \in Syncers, NEW problem, NextTarget(p, problem), pc[p] # "push"
  PROVE  PromiseAlone(p)
<1>1. CASE aim[p] < 3
  BY <1>1 DEF NextTarget, CallsOK, PromiseAlone, PromiseControl, SamePromise, Merging
<1>2. CASE ~ aim[p] < 3
  <2>1. Return(p) \/ PlanStatus(p, "CANCELED", 0)
    BY <1>2 DEF NextTarget
  <2> QED BY <2>1, ReturnPromise, PlanStatusPromise
<1> QED BY <1>1, <1>2

LEMMA PromiseReads == ASSUME CallsOK, NEW p \in Syncers, Reads(p) PROVE PromiseAlone(p)
<1> USE DEF Merging
<1>1. CASE ProfileChanged(p)
  BY <1>1, PlanStatusPromise DEF ProfileChanged
<1>2. CASE AuthorityLost(p) \/ GuardPassed(p)
  BY <1>2, GotoPromise DEF AuthorityLost, GuardPassed
<1>3. CASE AlreadyPromoted(p)
  BY <1>3, ReturnPromise DEF AlreadyPromoted
<1>4. CASE ShowDevelopment(p)
  BY <1>4, GotoPromise, PlanStatusPromise DEF ShowDevelopment
<1>5. CASE ShowVerifier(p)
  <2>1. \/ PlanStatus(p, "NEEDS_HUMAN", 0) \/ PlanStatus(p, "VERIFYING", 0)
        \/ Goto(p, "queueRemediation") \/ Goto(p, "saveEvidence")
    BY <1>5 DEF ShowVerifier
  <2>2. pc[p] = "showVerifier"
    BY <1>5 DEF ShowVerifier
  <2> QED BY <2>1, <2>2, GotoPromise, PlanStatusPromise
<1>6. CASE QueueRemediation(p)
  BY <1>6, GotoPromise, PlanStatusPromise DEF QueueRemediation
<1>7. CASE InspectWorktree(p)
  BY <1>7, GotoPromise, PlanStatusPromise DEF InspectWorktree
<1>8. CASE ResolveHead(p)
  <2>1. CASE /\ rev' = [rev EXCEPT ![p] = head]
             /\ pc' = [pc EXCEPT ![p] = "bindRevision"]
             /\ UNCHANGED <<snap, plan>>
    BY <1>8, <2>1 DEF ResolveHead, CallsOK, PromiseAlone, PromiseControl, SamePromise
  <2>2. CASE rev[p] \notin {0, head} /\ PlanStatus(p, "NEEDS_HUMAN", head)
    BY <1>8, <2>2, PlanStatusPromise DEF ResolveHead
  <2> QED BY <1>8, <2>1, <2>2 DEF ResolveHead
<1>9. CASE StopScan(p)
  BY <1>9, CallWithPromise, ReturnPromise DEF StopScan, gitVars
<1>10. CASE CancelTask(p)
  BY <1>10, GotoPromise, NextTargetPromise DEF CancelTask
<1> QED
  BY <1>1, <1>2, <1>3, <1>4, <1>5, <1>6, <1>7, <1>8, <1>9, <1>10 DEF Reads

LEMMA PromiseWrites ==
  ASSUME CallsOK, NEW p \in Syncers, Writes(p) PROVE PromiseAlone(p)
<1> USE DEF Merging
<1>1. CASE MarkStatus(p)
  BY <1>1, ReturnPromise DEF MarkStatus
<1>2. CASE \/ CreateRemediation(p) \/ CreateReverifier(p) \/ BindRemediation(p)
           \/ SaveEvidence(p) \/ BindEvidence(p)
  BY <1>2, GotoPromise
     DEF CreateRemediation, CreateReverifier, BindRemediation, SaveEvidence, BindEvidence
<1>3. CASE PromoteRemediation(p)
  BY <1>3, ReturnPromise, PlanStatusPromise DEF PromoteRemediation
<1>4. CASE EnterMerging(p)
  <2>1. pc[p] = "enterMerging" /\ pc'[p] = "inspectWorktree" /\ plan' = plan
    BY <1>4 DEF EnterMerging, CallsOK
  <2>2. \A q \in Syncers \ {p} : SamePromise(q)
    BY <1>4 DEF EnterMerging, CallsOK, SamePromise
  <2> QED BY <1>4, <2>1, <2>2 DEF PromiseAlone, PromiseControl
<1>5. CASE CommitWorktree(p)
  BY <1>5, GotoPromise, PlanStatusPromise DEF CommitWorktree
<1>6. CASE BindRevision(p)
  BY <1>6, GotoPromise DEF BindRevision
<1>7. CASE Push(p)
  BY <1>7, PlanStatusPromise DEF Push
<1>8. CASE RequestCancel(p)
  BY <1>8 DEF RequestCancel, CallsOK, PromiseAlone, PromiseControl, SamePromise
<1>9. CASE ReclaimTask(p)
  BY <1>9 DEF ReclaimTask, CallsOK, PromiseAlone, PromiseControl, SamePromise
<1>10. CASE BlockTask(p)
  BY <1>10, NextTargetPromise DEF BlockTask
<1> QED
  BY <1>1, <1>2, <1>3, <1>4, <1>5, <1>6, <1>7, <1>8, <1>9, <1>10 DEF Writes

LEMMA PromiseOthers ==
  ASSUME CallsOK, NEW p \in Syncers, StartCall(p) \/ FaultStep(p)
  PROVE  PromiseAlone(p)
<1>1. CASE StartCall(p)
  <2>1. pc[p] = "idle"
    BY <1>1 DEF StartCall, RecoverActiveLoops, ReconcileTaskEvent, LoopSync, LoopStop,
                EmergencyStop
  <2>2. CASE EmergencyStop(p)
    BY <2>1, <2>2, GotoPromise DEF EmergencyStop, Merging
  <2> QED BY <1>1, <2>1, <2>2, CallWithPromise
          DEF StartCall, RecoverActiveLoops, ReconcileTaskEvent, LoopSync, LoopStop, gitVars
<1>2. CASE FaultStep(p)
  <2>1. CASE CallFails(p) \/ ReplyLost(p)
    BY <1>2, <2>1, PlanStatusPromise DEF CallFails, ReplyLost
  <2>2. CASE Crash(p)
    BY <1>2, <2>2, ReturnPromise DEF Crash
  <2>3. CASE ControlFails(p)
    <3>1. pc[p] # "push"
      BY <2>3 DEF ControlFails
    <3>2. CASE pc' = [pc EXCEPT ![p] = "block"] /\ UNCHANGED <<snap, rev, plan>>
      BY <3>1, <3>2 DEF CallsOK, PromiseAlone, PromiseControl, SamePromise, Merging
    <3> QED BY <2>3, <3>1, <3>2, NextTargetPromise DEF ControlFails
  <2> QED BY <1>2, <2>1, <2>2, <2>3 DEF FaultStep
<1> QED BY <1>1, <1>2

LEMMA PromiseControlNext ==
  ASSUME CallsOK, [Next]_vars
  PROVE  \A q \in Syncers : PromiseControl(q)
<1>1. ASSUME NEW p \in Syncers, PromiseAlone(p)
      PROVE  \A q \in Syncers : PromiseControl(q)
  BY <1>1, SamePromiseControl DEF PromiseAlone
<1>2. CASE UNCHANGED localVars
  BY <1>2, SamePromiseControl DEF localVars, SamePromise
<1>3. Accept \/ Board \/ (\E r \in Revocations : Revoke(r)) \/ UNCHANGED vars
        => UNCHANGED localVars
  BY DEF Accept, AcceptRead, AcceptFile, AcceptMark, Board, Claim, WorkerBlocks, Unblock,
         FinishWork, FinishVerify, LateWrite, LateCommit, LatePush, Revoke, vars, localVars
<1> QED
  BY <1>1, <1>2, <1>3, SyncStepSplit, PromiseReads, PromiseWrites, PromiseOthers DEF Next

LEMMA RevisionsExistNext ==
  ASSUME TypeOK, RevisionsExist, [Next]_vars
  PROVE  RevisionsExist'
<1>1. /\ loop.commit \in Nat /\ content \in Nat /\ head \in Nat /\ remote \in Nat
      /\ CallsOK
  BY DEF TypeOK, RecordOK, GitOK
<1>2. WorktreeMoves /\ \A q \in Syncers : RevisionControl(q)
  BY <1>1, WorktreeNext, RevisionControlNext
<1>3. content' = content \/ content' = content + 1
  BY <1>2 DEF WorktreeMoves, FinishWork, LateWrite
<1>4. head' = head \/ head' = content
  BY <1>2 DEF WorktreeMoves, LateCommit
<1>5. head' <= content' /\ (head # 0 => head' # 0)
  BY <1>1, <1>3, <1>4 DEF RevisionsExist
<1>6. ASSUME loop'.commit # 0 \/ remote' # 0 PROVE head # 0
  <2>1. ASSUME NEW p \in Syncers, pc[p] = "push" \/ plan[p].commit # 0 \/ BindRevision(p)
        PROVE  head # 0
    BY <2>1 DEF RevisionsExist, BindRevision
  <2> QED BY <1>2, <1>6, <2>1 DEF WorktreeMoves, RevisionsExist, LatePush
<1>7. ASSUME NEW q \in Syncers,
             \/ rev'[q] # 0 \/ plan'[q].commit # 0
             \/ pc'[q] \in {"resolveHead", "bindRevision", "push"}
      PROVE  head' # 0
  <2>1. RevisionControl(q)
    BY <1>2
  <2>2. CASE rev'[q] # 0 \/ plan'[q].commit # 0
    <3>1. head # 0
      BY <2>1, <2>2 DEF RevisionControl, RevisionsExist
    <3> QED BY <1>5, <3>1
  <2>3. CASE pc'[q] \in {"bindRevision", "push"}
    <3>1. pc[q] \in {"resolveHead", "bindRevision", "push"}
      BY <2>1, <2>3 DEF RevisionControl, BindRevision
    <3> QED BY <1>5, <3>1 DEF RevisionsExist
  <2>4. CASE pc'[q] = "resolveHead"
    <3>1. CASE pc[q] = "resolveHead"
      BY <1>5, <3>1 DEF RevisionsExist
    <3>2. CASE InspectWorktree(q)
      <4>1. head # 0 \/ rev[q] # 0
        BY <1>1, <2>4, <3>2 DEF InspectWorktree, Goto, PlanStatus, CallsOK
      <4> QED BY <1>5, <4>1 DEF RevisionsExist
    <3>3. CASE CommitWorktree(q)
      <4>1. head' = content /\ content # head
        BY <1>1, <2>4, <3>3 DEF CommitWorktree, Goto, PlanStatus, CallsOK
      <4> QED BY <1>1, <4>1 DEF RevisionsExist
    <3> QED BY <2>1, <2>4, <3>1, <3>2, <3>3 DEF RevisionControl
  <2> QED BY <1>7, <2>2, <2>3, <2>4
<1> QED
  <2>1. loop'.commit # 0 \/ remote' # 0 => head' # 0
    BY <1>5, <1>6
  <2> QED BY <1>5, <1>7, <2>1 DEF RevisionsExist

\* A revision bound but not pushed is one a call is about to push: no fault
\* takes the call away before, and no second call meets the record meanwhile.
LEMMA BoundIsPushedNext ==
  ASSUME MaxFaults = 0, TypeOK, NoOverlap, NoOverlap', RevisionsExist, BoundIsPushed,
         [Next]_vars
  PROVE  BoundIsPushed'
<1>1. CallsOK /\ loop.commit \in Nat /\ head \in Nat /\ remote \in Nat
  BY DEF TypeOK, RecordOK, GitOK
<1>2. WorktreeMoves /\ \A q \in Syncers : PromiseControl(q)
  BY <1>1, WorktreeNext, PromiseControlNext
<1>3. \A q \in Syncers : ~ FaultStep(q)
  BY DEF TypeOK, EnvOK, FaultStep, CallFails, ReplyLost, Crash, ControlFails, Fault
<1>4. \A q \in Syncers : Push(q) => remote' # 0
  BY DEF Push, RevisionsExist
<1>5. remote # 0 => remote' # 0
  BY <1>2 DEF WorktreeMoves, RevisionsExist, LatePush
<1>6. ASSUME NEW p \in Syncers, pc[p] = "push", remote' = 0 PROVE pc'[p] = "push"
  BY <1>2, <1>3, <1>4, <1>6 DEF PromiseControl
<1>7. ASSUME loop'.commit # 0, remote' = 0 PROVE \E p \in Syncers : pc'[p] = "push"
  <2>1. remote = 0
    BY <1>5, <1>7
  <2>2. CASE loop.commit # 0
    BY <1>6, <1>7, <2>1, <2>2 DEF BoundIsPushed
  <2>3. CASE loop.commit = 0
    <3>1. PICK p \in Syncers : BindRevision(p)
      BY <1>2, <1>7, <2>1, <2>3 DEF WorktreeMoves, BoundIsPushed
    <3> QED BY <1>1, <3>1 DEF BindRevision, Goto, CallsOK
  <2> QED BY <1>1, <2>2, <2>3
<1>8. ASSUME NEW q \in Syncers,
             \/ plan'[q].commit # 0
             \/ pc'[q] \in {"inspectWorktree", "commitWorktree", "resolveHead"}
                  /\ rev'[q] # 0
             \/ pc'[q] = "guard" /\ snap'[q].promoted
      PROVE  remote' # 0
  <2>1. PromiseControl(q)
    BY <1>2
  <2>2. CASE plan'[q].commit # 0
    <3>1. plan[q].commit # 0 \/ Push(q) \/ (pc[q] = "resolveHead" /\ rev[q] # 0)
      BY <1>3, <2>1, <2>2 DEF PromiseControl
    <3> QED BY <1>4, <1>5, <3>1 DEF BoundIsPushed
  <2>3. CASE pc'[q] \in Merging /\ rev'[q] # 0
    <3>1. CASE pc[q] \in Merging /\ rev'[q] = rev[q]
      BY <1>5, <2>3, <3>1 DEF BoundIsPushed, Merging
    <3>2. CASE EnterMerging(q)
      <4>1. pc[q] = "enterMerging" /\ rev'[q] = loop.commit
        BY <1>1, <3>2 DEF EnterMerging, CallsOK
      <4>2. \A p \in Syncers : pc[p] # "push"
        BY <4>1 DEF NoOverlap
      <4>3. remote # 0
        BY <2>3, <4>1, <4>2 DEF BoundIsPushed
      <4> QED BY <1>5, <4>3
    <3> QED BY <2>1, <2>3, <3>1, <3>2 DEF PromiseControl
  <2>4. CASE pc'[q] = "guard" /\ snap'[q].promoted
    <3>1. CASE pc[q] = "guard" /\ snap'[q] = snap[q]
      BY <1>5, <2>4, <3>1 DEF BoundIsPushed
    <3>2. CASE pc[q] = "idle" /\ snap'[q] = Snapshot /\ UNCHANGED <<loop, remote>>
      <4>1. loop.commit # 0
        <5>1. Snapshot.promoted
          BY <2>4, <3>2
        <5>2. Snapshot.promoted = (/\ loop.status = "AWAITING_HUMAN_ACCEPTANCE"
                                   /\ loop.commit # 0)
          BY DEF Snapshot
        <5> QED BY <5>1, <5>2
      <4>2. ASSUME remote' = 0 PROVE FALSE
        <5>1. PICK p \in Syncers : pc[p] = "push"
          BY <3>2, <4>1, <4>2 DEF BoundIsPushed
        <5>2. pc'[p] = "push"
          BY <1>6, <4>2, <5>1
        <5>3. p = q
          BY <2>4, <5>2 DEF NoOverlap
        <5> QED BY <3>2, <5>1, <5>3
      <4> QED BY <4>2
    <3> QED BY <2>1, <2>4, <3>1, <3>2 DEF PromiseControl
  <2> QED BY <1>8, <2>2, <2>3, <2>4 DEF Merging
<1> QED BY <1>7, <1>8 DEF BoundIsPushed

\* While nothing fails and calls do not overlap, sync may return "already
\* promoted" for a revision that is bound: it has been pushed.
THEOREM PromotedSafety ==
  MaxFaults = 0 => (Spec /\ []NoOverlap => []AlreadyPromotedIsPushed)
<1> SUFFICES ASSUME MaxFaults = 0
             PROVE  Spec /\ []NoOverlap => []AlreadyPromotedIsPushed
  OBVIOUS
<1>1. Init => RevisionsExist /\ BoundIsPushed
  BY DEF Init, RevisionsExist, BoundIsPushed, NoPlan
<1>2. InductiveInvariant /\ RevisionsExist /\ BoundIsPushed /\ NoOverlap /\ NoOverlap'
        /\ [Next]_vars => RevisionsExist' /\ BoundIsPushed'
  BY RevisionsExistNext, BoundIsPushedNext DEF InductiveInvariant
<1>3. BoundIsPushed => AlreadyPromotedIsPushed
  BY DEF BoundIsPushed, AlreadyPromotedIsPushed
<1> QED BY <1>1, <1>2, <1>3, Invariance, PTL DEF Spec
=============================================================================
