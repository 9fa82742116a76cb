------------------------ MODULE LoopReconcilerSafety ------------------------
(***************************************************************************)
(* Safety of LoopReconciler for any number of reconciling processes,       *)
(* remediation cycles, faults and late writes: InductiveInvariant is       *)
(* preserved by every step, and the safety properties follow from it.      *)
(*                                                                         *)
(* Most of the invariant says what a call knows at a program point.  It is *)
(* stable, because the facts known are (BoardStable, RecordStable), and it *)
(* is established by the step that enters the point (Control).             *)
(***************************************************************************)
EXTENDS LoopReconcilerProofs

USE ConstantsAssumption DEF ConstantsAssumption

-----------------------------------------------------------------------------
(* Control flow: which step takes a call to a program point.               *)

Same(q) == pc'[q] = pc[q] /\ snap'[q] = snap[q] /\ plan'[q] = plan[q]

Control(q) ==
  /\ pc'[q] \in Staging =>
       snap'[q] = snap[q] /\ (pc[q] \in Staging \/ ShowVerifier(q))
  /\ pc'[q] \in {"bindRemediation", "promoteRemediation"} =>
       pc[q] \in {"bindRemediation", "promoteRemediation"} \/ CreateReverifier(q)
  /\ pc'[q] = "promoteRemediation" => pc[q] = "promoteRemediation" \/ BindRemediation(q)
  /\ pc'[q] \in Promoting \cup {"saveEvidence"} =>
       snap'[q] = snap[q] /\ (pc[q] \in Promoting \cup {"saveEvidence"} \/ ShowVerifier(q))
  /\ pc'[q] \in Promoting => pc[q] \in Promoting \/ SaveEvidence(q)
  /\ pc'[q] \in Promoting \ {"bindEvidence"} =>
       pc[q] \in Promoting \ {"bindEvidence"} \/ BindEvidence(q)
  /\ pc'[q] = "markStatus" /\ plan'[q].status \in Promoted =>
       (pc[q] = "markStatus" /\ plan'[q] = plan[q]) \/ pc[q] = "push"
  /\ snap'[q] \in {snap[q], Snapshot, NoSnapshot}

\* A step of p moves p alone, and only as Control says.
Alone(p) == Control(p) /\ \A q \in Syncers \ {p} : Same(q)

LEMMA SameControl == \A q \in Syncers : Same(q) => Control(q)
BY DEF Same, Control

LEMMA GotoAlone ==
  ASSUME CallsOK, NEW p \in Syncers, NEW label, Goto(p, label),
         label \notin Staging \cup Promoting \cup {"saveEvidence", "markStatus"}
  PROVE  Alone(p)
BY DEF CallsOK, Goto, Alone, Control, Same, Staging, Promoting

LEMMA PlanStatusAlone ==
  ASSUME CallsOK, NEW p \in Syncers, NEW status, NEW r, PlanStatus(p, status, r),
         status \notin Promoted
  PROVE  Alone(p)
BY DEF CallsOK, PlanStatus, Alone, Control, Same, Staging, Promoting

LEMMA ReturnAlone ==
  ASSUME CallsOK, NEW p \in Syncers, Return(p)
  PROVE  Alone(p)
BY DEF CallsOK, Return, Alone, Control, Same, Staging, Promoting

LEMMA CallWithAlone ==
  ASSUME CallsOK, NEW p \in Syncers, NEW label \in {"guard", "requestCancel"},
         CallWith(p, label)
  PROVE  Alone(p)
BY DEF CallsOK, CallWith, Alone, Control, Same, Staging, Promoting

LEMMA NextTargetAlone ==
  ASSUME CallsOK, NEW p \in Syncers, NEW problem, NextTarget(p, problem)
  PROVE  Alone(p)
<1>1. CASE aim[p] < 3
  BY <1>1 DEF NextTarget, CallsOK, Alone, Control, Same, Staging, Promoting
<1>2. CASE ~ aim[p] < 3
  <2>1. Return(p) \/ PlanStatus(p, "CANCELED", 0)
    BY <1>2 DEF NextTarget
  <2>2. "CANCELED" \notin Promoted
    BY DEF Promoted
  <2> QED BY <2>1, <2>2, ReturnAlone, PlanStatusAlone
<1> QED BY <1>1, <1>2

LEMMA ReadsAlone == ASSUME CallsOK, NEW p \in Syncers, Reads(p) PROVE Alone(p)
<1>1. /\ "NEEDS_HUMAN" \notin Promoted /\ "VERIFYING" \notin Promoted
      /\ \A s : Unfinished(s) \notin Promoted
  BY DEF Promoted, Unfinished
<1>2. \A label \in {"requestCancel", "showDevelopment", "showVerifier", "reclaim", "block"} :
        label \notin Staging \cup Promoting \cup {"saveEvidence", "markStatus"}
  BY DEF Staging, Promoting
<1>3. CASE ProfileChanged(p)
  BY <1>1, <1>3, PlanStatusAlone DEF ProfileChanged
<1>4. CASE AuthorityLost(p)
  BY <1>2, <1>4, GotoAlone DEF AuthorityLost
<1>5. CASE AlreadyPromoted(p)
  BY <1>5, ReturnAlone DEF AlreadyPromoted
<1>6. CASE GuardPassed(p)
  BY <1>2, <1>6, GotoAlone DEF GuardPassed
<1>7. CASE ShowDevelopment(p)
  BY <1>1, <1>2, <1>7, GotoAlone, PlanStatusAlone DEF ShowDevelopment
<1>8. CASE ShowVerifier(p)
  <2>1. CASE PlanStatus(p, "NEEDS_HUMAN", 0) \/ PlanStatus(p, "VERIFYING", 0)
    BY <1>1, <2>1, PlanStatusAlone
  <2>2. CASE Goto(p, "queueRemediation") \/ Goto(p, "saveEvidence")
    BY <1>8, <2>2 DEF CallsOK, Goto, Alone, Control, Same, Staging, Promoting
  <2> QED BY <1>8, <2>1, <2>2 DEF ShowVerifier
<1>9. CASE QueueRemediation(p)
  <2>1. CASE Goto(p, "createRemediation")
    BY <1>9, <2>1 DEF QueueRemediation, CallsOK, Goto, Alone, Control, Same, Staging, Promoting
  <2> QED BY <1>1, <1>9, <2>1, PlanStatusAlone DEF QueueRemediation
<1>10. CASE InspectWorktree(p)
  <2>1. CASE Goto(p, "commitWorktree") \/ Goto(p, "resolveHead")
    BY <1>10, <2>1 DEF InspectWorktree, CallsOK, Goto, Alone, Control, Same, Staging, Promoting
  <2> QED BY <1>1, <1>10, <2>1, PlanStatusAlone DEF InspectWorktree
<1>11. CASE ResolveHead(p)
  <2>1. CASE pc' = [pc EXCEPT ![p] = "bindRevision"] /\ UNCHANGED <<snap, plan>>
    BY <1>11, <2>1 DEF ResolveHead, CallsOK, Alone, Control, Same, Staging, Promoting
  <2> QED BY <1>1, <1>11, <2>1, PlanStatusAlone DEF ResolveHead
<1>12. CASE StopScan(p)
  BY <1>12, CallWithAlone, ReturnAlone DEF StopScan
<1>13. CASE CancelTask(p)
  BY <1>2, <1>13, GotoAlone, NextTargetAlone DEF CancelTask
<1> QED
  BY <1>3, <1>4, <1>5, <1>6, <1>7, <1>8, <1>9, <1>10, <1>11, <1>12, <1>13 DEF Reads

LEMMA WritesAlone == ASSUME CallsOK, NEW p \in Syncers, Writes(p) PROVE Alone(p)
<1> USE DEF CallsOK, Staging, Promoting
<1>1. "NEEDS_HUMAN" \notin Promoted
  BY DEF Promoted
<1>2. CASE MarkStatus(p)
  BY <1>2, ReturnAlone DEF MarkStatus
<1>3. CASE CreateRemediation(p)
  BY <1>3 DEF CreateRemediation, Goto, Alone, Control, Same
<1>4. CASE CreateReverifier(p)
  BY <1>4 DEF CreateReverifier, Goto, Alone, Control, Same
<1>5. CASE BindRemediation(p)
  BY <1>5 DEF BindRemediation, Goto, Alone, Control, Same
<1>6. CASE PromoteRemediation(p)
  BY <1>1, <1>6, ReturnAlone, PlanStatusAlone DEF PromoteRemediation
<1>7. CASE SaveEvidence(p)
  BY <1>7 DEF SaveEvidence, Goto, Alone, Control, Same
<1>8. CASE BindEvidence(p)
  BY <1>8 DEF BindEvidence, Goto, Alone, Control, Same
<1>9. CASE EnterMerging(p)
  BY <1>9 DEF EnterMerging, Alone, Control, Same
<1>10. CASE CommitWorktree(p)
  <2>1. CASE Goto(p, "resolveHead")
    BY <1>10, <2>1 DEF CommitWorktree, Goto, Alone, Control, Same
  <2> QED BY <1>1, <1>10, <2>1, PlanStatusAlone DEF CommitWorktree
<1>11. CASE BindRevision(p)
  BY <1>11 DEF BindRevision, Goto, Alone, Control, Same
<1>12. CASE Push(p)
  BY <1>12 DEF Push, PlanStatus, Alone, Control, Same
<1>13. CASE RequestCancel(p)
  BY <1>13 DEF RequestCancel, Alone, Control, Same
<1>14. CASE ReclaimTask(p)
  BY <1>14 DEF ReclaimTask, Alone, Control, Same
<1>15. CASE BlockTask(p)
  BY <1>15, NextTargetAlone DEF BlockTask
<1> QED
  BY <1>2, <1>3, <1>4, <1>5, <1>6, <1>7, <1>8, <1>9, <1>10, <1>11, <1>12, <1>13,
     <1>14, <1>15 DEF Writes

LEMMA OthersAlone ==
  ASSUME CallsOK, NEW p \in Syncers, StartCall(p) \/ FaultStep(p)
  PROVE  Alone(p)
<1>1. "NEEDS_HUMAN" \notin Promoted
  BY DEF Promoted
<1>2. CASE StartCall(p)
  <2>1. CASE EmergencyStop(p)
    BY <2>1, GotoAlone DEF EmergencyStop, Staging, Promoting
  <2> QED BY <1>2, <2>1, CallWithAlone
          DEF StartCall, RecoverActiveLoops, ReconcileTaskEvent, LoopSync, LoopStop
<1>3. CASE FaultStep(p)
  <2>1. CASE CallFails(p) \/ ReplyLost(p)
    BY <1>1, <2>1, PlanStatusAlone DEF CallFails, ReplyLost
  <2>2. CASE Crash(p)
    BY <2>2, ReturnAlone DEF Crash
  <2>3. CASE ControlFails(p)
    <3>1. CASE pc' = [pc EXCEPT ![p] = "block"] /\ UNCHANGED <<snap, plan>>
      BY <3>1 DEF CallsOK, Alone, Control, Same, Staging, Promoting
    <3> QED BY <2>3, <3>1, NextTargetAlone DEF ControlFails
  <2> QED BY <1>3, <2>1, <2>2, <2>3 DEF FaultStep
<1> QED BY <1>2, <1>3

LEMMA ControlNext ==
  ASSUME CallsOK, [Next]_vars
  PROVE  \A q \in Syncers : Control(q)
<1>1. ASSUME NEW p \in Syncers, Alone(p) PROVE \A q \in Syncers : Control(q)
  BY <1>1, SameControl DEF Alone
<1>2. CASE UNCHANGED localVars
  BY <1>2, SameControl DEF localVars, Same
<1>3. Accept \/ Board \/ (\E r \in Revocations : Revoke(r)) \/ UNCHANGED vars => UNCHANGED localVars
  BY DEF Accept, AcceptRead, AcceptFile, AcceptMark, Board, Claim, WorkerBlocks, Unblock,
         FinishWork, FinishVerify, LateWrite, LateCommit, LatePush, Revoke, vars, localVars
<1> QED
  BY <1>1, <1>2, <1>3, SyncStepSplit, ReadsAlone, WritesAlone, OthersAlone DEF Next

-----------------------------------------------------------------------------
(* Stability: what no step takes back.                                     *)

BoardKeeps ==
  /\ \A t \in Tasks : /\ task[t] # "absent" => task'[t] # "absent"
                      /\ task[t] = "done" => task'[t] = "done"
  /\ \A c \in Cycles : task[Verify(c)] = "done" => verdict'[c] = verdict[c]

\* Tasks come from queue_remediation alone, remediations as blocked ones.
BoardAdds ==
  \A t \in Tasks : task[t] = "absent" /\ task'[t] # "absent" =>
    \E p \in Syncers :
      \/ /\ CreateRemediation(p) /\ t = Work(snap[p].count + 1)
         /\ task'[t] = "blocked"
      \/ CreateReverifier(p) /\ t = Verify(snap[p].count + 1)

\* A blocked task is released by queue_remediation, or by a human.
BoardReleases ==
  \A t \in Tasks : task[t] = "blocked" /\ task'[t] # "blocked" =>
    \/ Unblock(t)
    \/ \E p \in Syncers : pc[p] = "promoteRemediation" /\ t = Work(snap[p].count + 1)

\* Who changes the record and the stored results, and how.
RecordMoves ==
  /\ \/ /\ loop'.count = loop.count /\ loop'.remediation = loop.remediation
        /\ loop'.verifier = loop.verifier
     \/ \E p \in Syncers : BindRemediation(p)
  /\ loop'.result = loop.result \/ \E p \in Syncers : BindEvidence(p)
  /\ results' = results \/ \E p \in Syncers : SaveEvidence(p)
  /\ loop'.status \in Promoted =>
       \/ loop.status \in Promoted
       \/ AcceptMark
       \/ \E p \in Syncers :
            \/ BindEvidence(p)
            \/ pc[p] \in Promoting \ {"bindEvidence"}
            \/ pc[p] = "markStatus" /\ plan[p].status \in Promoted

LEMMA VerifyInjective == \A c, d \in Cycles : Verify(c) = Verify(d) => c = d
BY DEF Verify

LEMMA WorkInjective == \A c, d \in Cycles : Work(c) = Work(d) => c = d
BY DEF Work

LEMMA BoardFrame ==
  ASSUME UNCHANGED <<task, verdict>>
  PROVE  BoardKeeps /\ BoardAdds /\ BoardReleases
BY DEF BoardKeeps, BoardAdds, BoardReleases

LEMMA BoardCalls ==
  ASSUME TypeOK, NEW p \in Syncers, SyncStep(p) \/ StartCall(p) \/ FaultStep(p)
  PROVE  BoardKeeps /\ BoardAdds /\ BoardReleases
<1> USE DEF BoardKeeps, BoardAdds, BoardReleases
<1>1. BoardOK
  BY DEF TypeOK
<1>2. CASE CreateRemediation(p)
  <2>1. UNCHANGED verdict
    BY <1>2 DEF CreateRemediation
  <2> QED BY <1>1, <1>2, <2>1 DEF BoardOK, CreateRemediation, CreateTask
<1>3. CASE CreateReverifier(p)
  <2>1. UNCHANGED verdict
    BY <1>3 DEF CreateReverifier
  <2> QED BY <1>1, <1>3, <2>1 DEF BoardOK, CreateReverifier, CreateTask
<1>4. CASE PromoteRemediation(p) \/ ReplyLost(p)
  <2>1. UNCHANGED verdict
    BY <1>4 DEF PromoteRemediation, ReplyLost
  <2> QED BY <1>1, <1>4, <2>1 DEF BoardOK, PromoteRemediation, ReplyLost
<1>5. CASE ReclaimTask(p) \/ BlockTask(p)
  <2>1. UNCHANGED verdict
    BY <1>5 DEF ReclaimTask, BlockTask
  <2> QED BY <1>1, <1>5, <2>1 DEF BoardOK, ReclaimTask, BlockTask
<1>6. CASE Reads(p) \/ StartCall(p)
  BY <1>6, ReadsFrame, BoardFrame
     DEF shared, boardVars, StartCall, RecoverActiveLoops, ReconcileTaskEvent, LoopSync,
         LoopStop, EmergencyStop
<1>7. CASE \/ MarkStatus(p) \/ BindRemediation(p) \/ SaveEvidence(p) \/ BindEvidence(p)
           \/ EnterMerging(p) \/ CommitWorktree(p) \/ BindRevision(p) \/ Push(p)
           \/ RequestCancel(p) \/ CallFails(p) \/ Crash(p) \/ ControlFails(p)
  BY <1>7, BoardFrame
     DEF boardVars, MarkStatus, BindRemediation, SaveEvidence, BindEvidence, EnterMerging,
         CommitWorktree, BindRevision, Push, RequestCancel, CallFails, Crash, ControlFails
<1> QED
  BY <1>2, <1>3, <1>4, <1>5, <1>6, <1>7, SyncStepSplit DEF Writes, FaultStep

LEMMA BoardNext ==
  ASSUME TypeOK, [Next]_vars
  PROVE  BoardKeeps /\ BoardAdds /\ BoardReleases
<1>1. BoardOK
  BY DEF TypeOK
<1>2. ASSUME NEW t \in Tasks, Claim(t) \/ WorkerBlocks(t) \/ Unblock(t)
      PROVE  BoardKeeps /\ BoardAdds /\ BoardReleases
  BY <1>1, <1>2 DEF BoardOK, Claim, WorkerBlocks, Unblock, BoardKeeps, BoardAdds, BoardReleases
<1>3. ASSUME NEW c \in Cycles, FinishWork(c)
      PROVE  BoardKeeps /\ BoardAdds /\ BoardReleases
  BY <1>1, <1>3 DEF BoardOK, FinishWork, BoardKeeps, BoardAdds, BoardReleases
<1>4. ASSUME NEW c \in Cycles, FinishVerify(c)
      PROVE  BoardKeeps /\ BoardAdds /\ BoardReleases
  BY <1>1, <1>4 DEF BoardOK, FinishVerify, BoardKeeps, BoardAdds, BoardReleases
<1>5. ASSUME \/ Accept \/ LateCommit \/ LatePush \/ \E c \in Cycles : LateWrite(c)
             \/ \E r \in Revocations : Revoke(r)
             \/ UNCHANGED vars
      PROVE  BoardKeeps /\ BoardAdds /\ BoardReleases
  BY <1>5, BoardFrame
     DEF Accept, AcceptRead, AcceptFile, AcceptMark, LateWrite, LateCommit, LatePush,
         Revoke, vars, boardVars
<1> QED BY <1>2, <1>3, <1>4, <1>5, BoardCalls DEF Next, Board

LEMMA RecordFrame == ASSUME UNCHANGED <<loop, results>> PROVE RecordMoves
BY DEF RecordMoves

LEMMA RecordNext == ASSUME TypeOK, [Next]_vars PROVE RecordMoves
<1> USE DEF RecordMoves
<1>1. RecordOK
  BY DEF TypeOK
<1>2. ASSUME NEW p \in Syncers, BindRemediation(p) PROVE RecordMoves
  BY <1>1, <1>2 DEF RecordOK, BindRemediation, fileVars, Promoted
<1>3. ASSUME NEW p \in Syncers, SaveEvidence(p) PROVE RecordMoves
  BY <1>3 DEF SaveEvidence
<1>4. ASSUME NEW p \in Syncers, BindEvidence(p) PROVE RecordMoves
  BY <1>1, <1>4 DEF RecordOK, BindEvidence, fileVars, Promoting
<1>5. ASSUME NEW p \in Syncers, EnterMerging(p) \/ BindRevision(p) PROVE RecordMoves
  BY <1>1, <1>5 DEF RecordOK, EnterMerging, BindRevision, fileVars, Promoting
<1>6. ASSUME NEW p \in Syncers, MarkStatus(p) \/ RequestCancel(p) PROVE RecordMoves
  BY <1>1, <1>6 DEF RecordOK, MarkStatus, RequestCancel, fileVars, Promoted
<1>7. ASSUME AcceptMark PROVE RecordMoves
  BY <1>1, <1>7 DEF RecordOK, AcceptMark, fileVars
<1>8. ASSUME NEW p \in Syncers,
             \/ Reads(p) \/ StartCall(p) \/ FaultStep(p)
             \/ CreateRemediation(p) \/ CreateReverifier(p) \/ PromoteRemediation(p)
             \/ CommitWorktree(p) \/ Push(p) \/ ReclaimTask(p) \/ BlockTask(p)
      PROVE  RecordMoves
  BY <1>8, ReadsFrame, RecordFrame
     DEF shared, fileVars, StartCall, RecoverActiveLoops, ReconcileTaskEvent, LoopSync,
         LoopStop, EmergencyStop, FaultStep, CallFails, ReplyLost, Crash, ControlFails,
         CreateRemediation, CreateReverifier, PromoteRemediation, CommitWorktree, Push,
         ReclaimTask, BlockTask
<1>9. ASSUME AcceptRead \/ AcceptFile \/ Board \/ (\E r \in Revocations : Revoke(r))
               \/ UNCHANGED vars
      PROVE  RecordMoves
  BY <1>9, RecordFrame
     DEF AcceptRead, AcceptFile, Board, Claim, WorkerBlocks, Unblock, FinishWork,
         FinishVerify, LateWrite, LateCommit, LatePush, Revoke, vars, fileVars
<1> QED
  BY <1>2, <1>3, <1>4, <1>5, <1>6, <1>7, <1>8, <1>9, SyncStepSplit
     DEF Next, Writes, Accept

\* Only accept_loop writes the acceptance artifact.
LEMMA AcceptNext ==
  ASSUME [Next]_vars
  PROVE  /\ acceptance' = acceptance \/ AcceptFile
         /\ accepting' = accepting \/ Accept
<1>1. ASSUME NEW p \in Syncers, SyncStep(p) PROVE UNCHANGED <<acceptance, accepting>>
  BY <1>1, SyncStepSplit, ReadsFrame
     DEF shared, fileVars, Writes, MarkStatus, CreateRemediation, CreateReverifier,
         BindRemediation, PromoteRemediation, SaveEvidence, BindEvidence, EnterMerging,
         CommitWorktree, BindRevision, Push, RequestCancel, ReclaimTask, BlockTask
<1>2. ASSUME NEW p \in Syncers, StartCall(p) \/ FaultStep(p)
      PROVE  UNCHANGED <<acceptance, accepting>>
  BY <1>2 DEF fileVars, StartCall, RecoverActiveLoops, ReconcileTaskEvent, LoopSync,
              LoopStop, EmergencyStop, FaultStep, CallFails, ReplyLost, Crash, ControlFails
<1>3. ASSUME Board \/ (\E r \in Revocations : Revoke(r)) \/ UNCHANGED vars
      PROVE  UNCHANGED <<acceptance, accepting>>
  BY <1>3 DEF Board, Claim, WorkerBlocks, Unblock, FinishWork, FinishVerify,
              LateWrite, LateCommit, LatePush, Revoke, vars, fileVars
<1>4. ASSUME Accept PROVE acceptance' = acceptance \/ AcceptFile
  BY <1>4 DEF Accept, AcceptRead, AcceptMark, fileVars
<1> QED BY <1>1, <1>2, <1>3, <1>4 DEF Next

LEMMA RecordKeeps ==
  ASSUME TypeOK, [Next]_vars
  PROVE  /\ results \subseteq results'
         /\ loop.result # NoCycle => loop'.result # NoCycle
         /\ loop.remediation # 0 => loop'.remediation # 0
<1>1. /\ RecordOK /\ \A p \in Syncers : snap[p].verifier \in Cycles /\ snap[p].count \in Cycles
      /\ Cycles \subseteq Nat /\ NoCycle \notin Nat
  BY DEF TypeOK, CallsOK, Cycles, NoCycle
<1>2. RecordMoves
  BY RecordNext
<1>3. results \subseteq results'
  BY <1>2 DEF RecordMoves, SaveEvidence
<1>4. ASSUME NEW p \in Syncers, BindEvidence(p) PROVE loop'.result # NoCycle
  <2>1. loop'.result = snap[p].verifier
    BY <1>1, <1>4 DEF BindEvidence, RecordOK
  <2> QED BY <1>1, <2>1
<1>5. ASSUME NEW p \in Syncers, BindRemediation(p) PROVE loop'.remediation # 0
  <2>1. loop'.remediation = snap[p].count + 1
    BY <1>1, <1>5 DEF BindRemediation, RecordOK
  <2>2. snap[p].count \in Nat
    BY <1>1
  <2> QED BY <2>1, <2>2
<1> QED BY <1>2, <1>3, <1>4, <1>5 DEF RecordMoves

-----------------------------------------------------------------------------
(* The parts of the invariant, one by one.                                 *)

\* Ranges of what a call or the record may name.
LEMMA Ranges ==
  ASSUME TypeOK
  PROVE  /\ \A p \in Syncers : snap[p].count \in Cycles /\ snap[p].verifier \in Cycles
         /\ loop.verifier \in Cycles /\ loop.count \in Cycles /\ loop.remediation \in Cycles
         /\ results \subseteq Cycles /\ Cycles \subseteq Nat /\ 0 \in Cycles
         /\ \A p \in Syncers : snap[p].count < MaxCycles => snap[p].count + 1 \in Cycles
<1>1. \A p \in Syncers : snap[p].count \in Cycles /\ snap[p].verifier \in Cycles
  BY DEF TypeOK, CallsOK
<1>2. loop.verifier \in Cycles /\ loop.count \in Cycles /\ loop.remediation \in Cycles
  BY DEF TypeOK, RecordOK
<1>3. results \subseteq Cycles /\ Cycles \subseteq Nat /\ 0 \in Cycles
  BY DEF TypeOK, FilesOK, Cycles
<1>4. \A p \in Syncers : snap[p].count < MaxCycles => snap[p].count + 1 \in Cycles
  BY <1>1 DEF Cycles
<1> QED BY <1>1, <1>2, <1>3, <1>4

LEMMA VerdictsStay ==
  ASSUME TypeOK, [Next]_vars, NEW c \in Cycles
  PROVE  (Failed(c) => Failed(c)') /\ (Passed(c) => Passed(c)')
<1>1. /\ task[Verify(c)] = "done" => task'[Verify(c)] = "done"
      /\ task[Verify(c)] = "done" => verdict'[c] = verdict[c]
  BY BoardNext, TaskNames DEF BoardKeeps
<1>2. (Verify(c))' = Verify(c)
  BY DEF Verify
<1> QED BY <1>1, <1>2 DEF Failed, Passed

LEMMA SafeInit == Init => InductiveInvariant
<1> SUFFICES ASSUME Init PROVE InductiveInvariant
  OBVIOUS
<1>1. TypeOK /\ CycleLeft
  BY TypeInit
<1>2. \A c \in Cycles : /\ c # 0 => task[Work(c)] = "absent" /\ task[Verify(c)] = "absent"
                        /\ c = 0 => task[Verify(c)] = "todo"
  <2> TAKE c \in Cycles
  <2>1. Work(c)[2] = c /\ Verify(c)[2] = c
    BY DEF Work, Verify
  <2> QED BY <2>1, TaskNames DEF Init
<1>3. CyclesAgree
  <2>1. task[Verify(0)] # "absent"
    BY <1>2 DEF Cycles
  <2> QED BY <2>1 DEF Init, CyclesAgree, NoSnapshot
<1>4. StagingSound /\ PromotionSound
  BY DEF Init, StagingSound, PromotionSound, Staging, Promoting
<1>5. EarlierFailed
  BY <1>2 DEF EarlierFailed, Cycles
<1>6. ResultsSound
  BY DEF Init, ResultsSound, Promoted
<1>7. RemediationJustified /\ PairStagedBeforeRelease
  BY <1>2 DEF RemediationJustified, PairStagedBeforeRelease
<1> QED BY <1>1, <1>3, <1>4, <1>5, <1>6, <1>7 DEF InductiveInvariant

LEMMA CyclesAgreeNext ==
  ASSUME InductiveInvariant, [Next]_vars
  PROVE  CyclesAgree'
<1> USE DEF InductiveInvariant
<1>1. \A p \in Syncers : /\ snap'[p].remediation = snap'[p].count
                         /\ snap'[p].verifier = snap'[p].count
  <2> TAKE p \in Syncers
  <2>1. snap'[p] \in {snap[p], Snapshot, NoSnapshot}
    BY ControlNext DEF Control, TypeOK
  <2> QED BY <2>1 DEF CyclesAgree, Snapshot, NoSnapshot
<1>2. CASE \E p \in Syncers : BindRemediation(p)
  <2>1. PICK p \in Syncers : BindRemediation(p)
    BY <1>2
  <2>2. /\ loop'.count = snap[p].count + 1 /\ loop'.remediation = snap[p].count + 1
        /\ loop'.verifier = snap[p].count + 1
    BY <2>1 DEF BindRemediation, TypeOK, RecordOK
  <2>3. task[Verify(snap[p].count + 1)] # "absent" /\ snap[p].count + 1 \in Cycles
    BY <2>1, Ranges DEF BindRemediation, StagingSound, CycleLeft, Staging
  <2>4. task'[Verify(snap[p].count + 1)] # "absent"
    BY <2>3, BoardNext, TaskNames DEF BoardKeeps
  <2> QED BY <1>1, <2>2, <2>4 DEF CyclesAgree
<1>3. CASE ~ \E p \in Syncers : BindRemediation(p)
  <2>1. /\ loop'.count = loop.count /\ loop'.remediation = loop.remediation
        /\ loop'.verifier = loop.verifier
    BY <1>3, RecordNext DEF RecordMoves, TypeOK
  <2>2. task'[Verify(loop.verifier)] # "absent"
    BY BoardNext, TaskNames, Ranges DEF BoardKeeps, CyclesAgree
  <2> QED BY <1>1, <2>1, <2>2 DEF CyclesAgree
<1> QED BY <1>2, <1>3

LEMMA StagingSoundNext ==
  ASSUME InductiveInvariant, [Next]_vars
  PROVE  StagingSound'
<1> USE DEF InductiveInvariant
<1> SUFFICES ASSUME NEW p \in Syncers
             PROVE  /\ pc'[p] \in Staging => Failed(snap[p].count)'
                    /\ pc'[p] \in {"bindRemediation", "promoteRemediation"} =>
                         task'[Verify(snap'[p].count + 1)] # "absent"
                    /\ pc'[p] = "promoteRemediation" => loop'.remediation # 0
  BY DEF StagingSound, Failed, Verify
<1>1. Control(p)
  BY ControlNext DEF TypeOK
<1>2. snap[p].count \in Cycles /\ (snap[p].count < MaxCycles => snap[p].count + 1 \in Cycles)
  BY Ranges
<1>3. pc'[p] \in Staging => Failed(snap[p].count)'
  <2> SUFFICES ASSUME pc'[p] \in Staging PROVE Failed(snap[p].count)'
    OBVIOUS
  <2>1. snap'[p] = snap[p]
    BY <1>1 DEF Control
  <2>2. Failed(snap[p].count)
    <3>1. CASE pc[p] \in Staging
      BY <3>1 DEF StagingSound
    <3>2. CASE ShowVerifier(p) /\ pc[p] \notin Staging
      <4>1. pc'[p] = "queueRemediation"
        BY <3>2 DEF ShowVerifier, PlanStatus, Goto, TypeOK, CallsOK, Staging
      <4>2. /\ task[Verify(snap[p].verifier)] = "done"
            /\ EvidenceValid(verdict[snap[p].verifier])
            /\ ~ EvidenceAccepted(verdict[snap[p].verifier])
        BY <3>2, <4>1 DEF ShowVerifier, PlanStatus, Goto, TypeOK, CallsOK
      <4>3. snap[p].verifier = snap[p].count
        BY DEF CyclesAgree
      <4> QED BY <4>2, <4>3 DEF EvidenceValid, EvidenceAccepted, Failed
    <3> QED BY <1>1, <3>1, <3>2 DEF Control
  <2> QED BY <1>2, <2>1, <2>2, VerdictsStay DEF Failed, Verify
<1>4. ASSUME pc'[p] \in {"bindRemediation", "promoteRemediation"}
      PROVE  task'[Verify(snap'[p].count + 1)] # "absent"
  <2>1. snap'[p] = snap[p]
    BY <1>1, <1>4 DEF Control, Staging
  <2>2. pc[p] \in Staging
    BY <1>1, <1>4 DEF Control, CreateReverifier, Staging
  <2>3. snap[p].count + 1 \in Cycles
    BY <1>2, <2>2 DEF CycleLeft
  <2>4. CASE pc[p] \in {"bindRemediation", "promoteRemediation"}
    BY <2>1, <2>3, <2>4, BoardNext, TaskNames DEF StagingSound, BoardKeeps
  <2>5. CASE CreateReverifier(p)
    BY <2>1, <2>3, <2>5, TaskNames DEF CreateReverifier, CreateTask, TypeOK, BoardOK
  <2> QED BY <1>1, <1>4, <2>4, <2>5 DEF Control
<1>5. ASSUME pc'[p] = "promoteRemediation" PROVE loop'.remediation # 0
  <2>1. CASE pc[p] = "promoteRemediation"
    BY <2>1, RecordKeeps DEF StagingSound
  <2>2. CASE BindRemediation(p)
    <3>1. loop'.remediation = snap[p].count + 1
      BY <2>2 DEF BindRemediation, TypeOK, RecordOK
    <3> QED BY <1>2, <3>1 DEF Cycles
  <2> QED BY <1>1, <1>5, <2>1, <2>2 DEF Control
<1> QED BY <1>3, <1>4, <1>5

LEMMA EarlierFailedNext ==
  ASSUME InductiveInvariant, [Next]_vars
  PROVE  EarlierFailed'
<1> USE DEF InductiveInvariant
<1> SUFFICES ASSUME NEW c \in Cycles, NEW d \in Cycles, d < c,
                    task'[Verify(c)] # "absent"
             PROVE  Failed(d)'
  BY DEF EarlierFailed, Verify
<1>1. Failed(d)
  <2>1. CASE task[Verify(c)] # "absent"
    BY <2>1 DEF EarlierFailed
  <2>2. CASE task[Verify(c)] = "absent"
    <3>1. PICK p \in Syncers : CreateReverifier(p) /\ Verify(c) = Verify(snap[p].count + 1)
      <4>1. \A k \in Cycles : Work(k) # Verify(c)
        BY TaskNames
      <4>2. ASSUME NEW p \in Syncers, CreateRemediation(p)
            PROVE  snap[p].count + 1 \in Cycles
        BY <4>2, Ranges DEF CreateRemediation, CycleLeft, Staging
      <4> QED BY <2>2, <4>1, <4>2, BoardNext, TaskNames DEF BoardAdds
    <3>2. pc[p] \in Staging /\ snap[p].count \in Cycles /\ snap[p].count + 1 \in Cycles
      BY <3>1, Ranges DEF CreateReverifier, CycleLeft, Staging
    <3>3. c = snap[p].count + 1
      BY <3>1, <3>2, VerifyInjective
    <3>4. Failed(snap[p].count)
      BY <3>2 DEF StagingSound
    <3>5. CASE d = snap[p].count
      BY <3>4, <3>5
    <3>6. CASE d < snap[p].count
      <4>1. task[Verify(snap[p].count)] # "absent"
        BY <3>4 DEF Failed
      <4> QED BY <3>2, <3>6, <4>1 DEF EarlierFailed
    <3> QED BY <3>2, <3>3, <3>5, <3>6 DEF Cycles
  <2> QED BY <2>1, <2>2
<1> QED BY <1>1, VerdictsStay

LEMMA PromotionSoundNext ==
  ASSUME InductiveInvariant, [Next]_vars
  PROVE  PromotionSound'
<1> USE DEF InductiveInvariant
<1> SUFFICES ASSUME NEW p \in Syncers
             PROVE  /\ pc'[p] \in Promoting \cup {"saveEvidence"} => Passed(snap[p].verifier)'
                    /\ pc'[p] \in Promoting => snap'[p].verifier \in results'
                    /\ pc'[p] \in Promoting \ {"bindEvidence"} => loop'.result # NoCycle
                    /\ pc'[p] = "markStatus" /\ plan'[p].status \in Promoted =>
                         loop'.result # NoCycle
  BY DEF PromotionSound, Passed, Verify
<1>1. Control(p)
  BY ControlNext DEF TypeOK
<1>2. snap[p].verifier \in Cycles
  BY Ranges
<1>3. ASSUME pc'[p] \in Promoting \cup {"saveEvidence"} PROVE Passed(snap[p].verifier)'
  <2>1. snap'[p] = snap[p]
    BY <1>1, <1>3 DEF Control
  <2>2. Passed(snap[p].verifier)
    <3>1. CASE pc[p] \in Promoting \cup {"saveEvidence"}
      BY <3>1 DEF PromotionSound
    <3>2. CASE ShowVerifier(p) /\ pc[p] \notin Promoting
      <4>1. pc'[p] = "saveEvidence"
        BY <1>3, <3>2 DEF ShowVerifier, PlanStatus, Goto, TypeOK, CallsOK, Promoting
      <4>2. /\ task[Verify(snap[p].verifier)] = "done"
            /\ EvidenceAccepted(verdict[snap[p].verifier])
        BY <3>2, <4>1 DEF ShowVerifier, PlanStatus, Goto, TypeOK, CallsOK
      <4> QED BY <4>2 DEF EvidenceAccepted, Passed
    <3> QED BY <1>1, <1>3, <3>1, <3>2 DEF Control
  <2> QED BY <1>2, <2>1, <2>2, VerdictsStay DEF Passed, Verify
<1>4. ASSUME pc'[p] \in Promoting PROVE snap'[p].verifier \in results'
  <2>1. snap'[p] = snap[p]
    BY <1>1, <1>4 DEF Control
  <2>2. CASE pc[p] \in Promoting
    BY <2>1, <2>2, RecordKeeps DEF PromotionSound
  <2>3. CASE SaveEvidence(p)
    BY <2>1, <2>3 DEF SaveEvidence
  <2> QED BY <1>1, <1>4, <2>2, <2>3 DEF Control
<1>5. ASSUME pc'[p] \in Promoting \ {"bindEvidence"} PROVE loop'.result # NoCycle
  <2>1. CASE pc[p] \in Promoting \ {"bindEvidence"}
    BY <2>1, RecordKeeps DEF PromotionSound
  <2>2. CASE BindEvidence(p)
    <3>1. loop'.result = snap[p].verifier
      BY <2>2 DEF BindEvidence, TypeOK, RecordOK
    <3> QED BY <1>2, <3>1 DEF Cycles, NoCycle
  <2> QED BY <1>1, <1>5, <2>1, <2>2 DEF Control
<1>6. ASSUME pc'[p] = "markStatus", plan'[p].status \in Promoted PROVE loop'.result # NoCycle
  <2>1. CASE pc[p] = "markStatus" /\ plan'[p] = plan[p]
    BY <1>6, <2>1, RecordKeeps DEF PromotionSound
  <2>2. CASE pc[p] = "push"
    BY <2>2, RecordKeeps DEF PromotionSound, Promoting
  <2> QED BY <1>1, <1>6, <2>1, <2>2 DEF Control
<1> QED BY <1>3, <1>4, <1>5, <1>6

LEMMA ResultsSoundNext ==
  ASSUME InductiveInvariant, [Next]_vars
  PROVE  ResultsSound'
<1> USE DEF InductiveInvariant
<1>1. ASSUME NEW c \in results' PROVE Passed(c)'
  <2>1. c \in Cycles /\ Passed(c)
    <3>1. CASE c \in results
      BY <3>1, Ranges DEF ResultsSound
    <3>2. CASE c \notin results
      <4>1. PICK p \in Syncers : SaveEvidence(p)
        BY <1>1, <3>2, RecordNext DEF RecordMoves
      <4>2. c = snap[p].verifier
        BY <1>1, <3>2, <4>1 DEF SaveEvidence
      <4> QED BY <4>1, <4>2, Ranges DEF SaveEvidence, PromotionSound
    <3> QED BY <3>1, <3>2
  <2> QED BY <2>1, VerdictsStay
<1>2. loop'.result # NoCycle => loop'.result \in results'
  <2>1. CASE loop'.result = loop.result
    BY <2>1, RecordKeeps DEF ResultsSound
  <2>2. ASSUME NEW p \in Syncers, BindEvidence(p) PROVE loop'.result \in results'
    <3>1. loop'.result = snap[p].verifier
      BY <2>2 DEF BindEvidence, TypeOK, RecordOK
    <3>2. snap[p].verifier \in results
      BY <2>2 DEF BindEvidence, PromotionSound, Promoting
    <3> QED BY <3>1, <3>2, RecordKeeps
  <2> QED BY <2>1, <2>2, RecordNext DEF RecordMoves
<1>3. loop'.status \in Promoted => loop'.result # NoCycle
  <2> SUFFICES ASSUME loop'.status \in Promoted PROVE loop'.result # NoCycle
    OBVIOUS
  <2>1. CASE loop.status \in Promoted \/ AcceptMark
    BY <2>1, RecordKeeps DEF ResultsSound, AcceptMark
  <2>2. ASSUME NEW p \in Syncers, BindEvidence(p) \/ pc[p] \in Promoting \ {"bindEvidence"}
        PROVE  loop'.result # NoCycle
    <3>1. CASE BindEvidence(p)
      <4>1. loop'.result = snap[p].verifier
        BY <3>1 DEF BindEvidence, TypeOK, RecordOK
      <4> QED BY <4>1, Ranges DEF NoCycle, Cycles
    <3>2. CASE pc[p] \in Promoting \ {"bindEvidence"}
      BY <3>2, RecordKeeps DEF PromotionSound
    <3> QED BY <2>2, <3>1, <3>2
  <2>3. ASSUME NEW p \in Syncers, pc[p] = "markStatus", plan[p].status \in Promoted
        PROVE  loop'.result # NoCycle
    BY <2>3, RecordKeeps DEF PromotionSound
  <2> QED BY <2>1, <2>2, <2>3, RecordNext DEF RecordMoves
<1>4. acceptance' # NoCycle => acceptance' \in results' /\ loop'.result # NoCycle
  <2>1. CASE acceptance' = acceptance
    BY <2>1, RecordKeeps DEF ResultsSound
  <2>2. CASE AcceptFile
    BY <2>2, RecordKeeps DEF AcceptFile, ResultsSound
  <2> QED BY <2>1, <2>2, AcceptNext
<1>5. accepting'.step # "idle" => accepting'.result \in results' /\ loop'.result # NoCycle
  <2>1. CASE accepting' = accepting
    BY <2>1, RecordKeeps DEF ResultsSound
  <2>2. CASE AcceptRead
    <3>1. accepting' = [step |-> "file", result |-> loop.result]
      BY <2>2 DEF AcceptRead
    <3>2. loop.status \in Promoted
      BY <2>2 DEF AcceptRead, Promoted
    <3>3. loop.result # NoCycle
      BY <3>2 DEF ResultsSound
    <3> QED BY <3>1, <3>3, RecordKeeps DEF ResultsSound
  <2>3. CASE AcceptFile
    <3>1. accepting'.step = "idle" \/ accepting'.result = accepting.result
      BY <2>3 DEF AcceptFile, TypeOK, AcceptingOK
    <3> QED BY <2>3, <3>1, RecordKeeps DEF AcceptFile, ResultsSound
  <2>4. CASE AcceptMark
    BY <2>4 DEF AcceptMark
  <2> QED BY <2>1, <2>2, <2>3, <2>4, AcceptNext DEF Accept
<1> QED BY <1>1, <1>2, <1>3, <1>4, <1>5 DEF ResultsSound, Passed, Verify

LEMMA RemediationJustifiedNext ==
  ASSUME InductiveInvariant, [Next]_vars
  PROVE  RemediationJustified'
<1> USE DEF InductiveInvariant
<1> SUFFICES ASSUME NEW c \in Cycles \ {0}, task'[Work(c)] # "absent"
             PROVE  Failed(c - 1)'
  BY DEF RemediationJustified, Failed, Work, Verify
<1>1. c - 1 \in Cycles
  BY DEF Cycles
<1>2. Failed(c - 1)
  <2>1. CASE task[Work(c)] # "absent"
    BY <2>1 DEF RemediationJustified, Failed
  <2>2. CASE task[Work(c)] = "absent"
    <3>1. PICK p \in Syncers : CreateRemediation(p) /\ Work(c) = Work(snap[p].count + 1)
      <4>1. \A k \in Cycles : Verify(k) # Work(c)
        BY TaskNames
      <4>2. ASSUME NEW p \in Syncers, CreateReverifier(p)
            PROVE  snap[p].count + 1 \in Cycles
        BY <4>2, Ranges DEF CreateReverifier, CycleLeft, Staging
      <4> QED BY <2>2, <4>1, <4>2, BoardNext, TaskNames DEF BoardAdds
    <3>2. pc[p] \in Staging /\ snap[p].count \in Cycles /\ snap[p].count + 1 \in Cycles
      BY <3>1, Ranges DEF CreateRemediation, CycleLeft, Staging
    <3>3. c = snap[p].count + 1
      BY <3>1, <3>2, WorkInjective
    <3>4. c - 1 = snap[p].count
      BY <3>2, <3>3 DEF Cycles
    <3> QED BY <3>2, <3>4 DEF StagingSound
  <2> QED BY <2>1, <2>2
<1> QED BY <1>1, <1>2, VerdictsStay

LEMMA PairStagedNext ==
  ASSUME InductiveInvariant, [Next]_vars
  PROVE  PairStagedBeforeRelease'
<1> USE DEF InductiveInvariant
<1> SUFFICES ASSUME NEW c \in Cycles \ {0}, task'[Work(c)] \in {"todo", "running", "done"}
             PROVE  task'[Verify(c)] # "absent" /\ loop'.remediation # 0
  BY DEF PairStagedBeforeRelease, Work, Verify
<1>1. SUFFICES task[Verify(c)] # "absent" /\ loop.remediation # 0
  BY BoardNext, RecordKeeps, TaskNames DEF BoardKeeps
<1>2. CASE task[Work(c)] \in {"todo", "running", "done"}
  BY <1>2 DEF PairStagedBeforeRelease
<1>3. task[Work(c)] # "absent"
  <2>1. \A k \in Cycles : Verify(k) # Work(c)
    BY TaskNames
  <2>2. ASSUME NEW p \in Syncers, CreateReverifier(p)
        PROVE  snap[p].count + 1 \in Cycles
    BY <2>2, Ranges DEF CreateReverifier, CycleLeft, Staging
  <2> QED BY <2>1, <2>2, BoardNext, TaskNames DEF BoardAdds
<1>4. CASE task[Work(c)] = "blocked"
  <2>1. CASE Work(c) \in Bound
    <3>1. Work(c) # Work(0) /\ Work(c) # Verify(loop.verifier)
      BY WorkInjective, TaskNames, Ranges
    <3>2. loop.remediation # 0 /\ Work(c) = Work(loop.remediation)
      BY <2>1, <3>1 DEF Bound
    <3>3. c = loop.remediation
      BY <3>2, WorkInjective, Ranges
    <3> QED BY <3>2, <3>3 DEF CyclesAgree
  <2>2. ASSUME NEW p \in Syncers, pc[p] = "promoteRemediation",
               Work(c) = Work(snap[p].count + 1)
        PROVE  task[Verify(c)] # "absent" /\ loop.remediation # 0
    <3>1. snap[p].count + 1 \in Cycles
      BY <2>2, Ranges DEF CycleLeft, Staging
    <3>2. c = snap[p].count + 1
      BY <2>2, <3>1, WorkInjective
    <3> QED BY <2>2, <3>2 DEF StagingSound
  <2> QED BY <1>4, <2>1, <2>2, BoardNext, TaskNames DEF BoardReleases, Unblock
<1> QED BY <1>2, <1>3, <1>4, TaskNames DEF TypeOK, BoardOK

-----------------------------------------------------------------------------
(* The theorems.                                                           *)

LEMMA SafeNext == InductiveInvariant /\ [Next]_vars => InductiveInvariant'
<1> SUFFICES ASSUME InductiveInvariant, [Next]_vars PROVE InductiveInvariant'
  OBVIOUS
<1>1. TypeOK' /\ CycleLeft'
  BY TypeNext DEF InductiveInvariant
<1> QED
  BY <1>1, CyclesAgreeNext, StagingSoundNext, EarlierFailedNext, PromotionSoundNext,
     ResultsSoundNext, RemediationJustifiedNext, PairStagedNext DEF InductiveInvariant

\* What every call knows at its program point stays true, however many calls
\* of sync, cancel and accept interleave.
THEOREM Invariance == Spec => []InductiveInvariant
BY SafeInit, SafeNext, PTL DEF Spec

\* A remediation is only ever created for a failed verification of the cycle
\* before it (sync and queue_remediation on stale counters).
THEOREM RemediationSafety == Spec => []RemediationJustified
<1>1. InductiveInvariant => RemediationJustified
  BY DEF InductiveInvariant
<1> QED BY <1>1, Invariance, PTL

\* A remediation is released only after its re-verifier exists and the loop
\* knows a remediation (the order of queue_remediation's steps).
THEOREM PairSafety == Spec => []PairStagedBeforeRelease
<1>1. InductiveInvariant => PairStagedBeforeRelease
  BY DEF InductiveInvariant
<1> QED BY <1>1, Invariance, PTL

\* Only stored, accepted evidence leads a loop to MERGING and beyond (sync,
\* record_verification_evidence and accept_loop interleaved).
THEOREM PromotionSafety == Spec => []VerifiedPromotion
<1>1. InductiveInvariant => VerifiedPromotion
  BY DEF InductiveInvariant, ResultsSound, VerifiedPromotion, Promoted, Passed
<1> QED BY <1>1, Invariance, PTL

\* At most one result of a loop is ever stored, so the one a human accepted is
\* the one the loop is bound to (accept_loop, record_verification_evidence).
THEOREM AcceptanceSafety == Spec => []AcceptanceNamesResult
<1>1. InductiveInvariant => AcceptanceNamesResult
  <2> SUFFICES ASSUME InductiveInvariant, acceptance # NoCycle
               PROVE  loop.result = acceptance
    BY DEF AcceptanceNamesResult
  <2> USE DEF InductiveInvariant
  <2>1. /\ acceptance \in results /\ Passed(acceptance)
        /\ loop.result \in results /\ Passed(loop.result)
    BY DEF ResultsSound
  <2>2. acceptance \in Nat /\ loop.result \in Nat
    BY <2>1, Ranges
  <2>3. ~ loop.result < acceptance /\ ~ acceptance < loop.result
    BY <2>1, Ranges DEF EarlierFailed, Failed, Passed
  <2> QED BY <2>2, <2>3
<1> QED BY <1>1, Invariance, PTL
=============================================================================
