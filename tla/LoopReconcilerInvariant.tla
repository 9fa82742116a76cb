---------------------- MODULE LoopReconcilerInvariant ----------------------
(***************************************************************************)
(* The inductive invariant behind the safety properties of LoopReconciler. *)
(* The properties are not inductive by themselves: what a call is about to *)
(* write was read several steps before, so the invariant says, for every   *)
(* program point, which of the facts read then still hold now.             *)
(***************************************************************************)
EXTENDS LoopReconciler

\* Program points of queue_remediation, and of the promotion after its first
\* write.
Staging == {"queueRemediation", "createRemediation", "createReverifier",
            "bindRemediation", "promoteRemediation"}
Promoting == {"bindEvidence", "enterMerging", "inspectWorktree",
              "commitWorktree", "resolveHead", "bindRevision", "push"}

\* Loop statuses that only accepted evidence leads to.
Promoted == {"MERGING", "AWAITING_HUMAN_ACCEPTANCE", "ACCEPTED"}

\* What the verifier of a cycle has reported for good.
Failed(c) == task[Verify(c)] = "done" /\ verdict[c] = "failed"
Passed(c) == task[Verify(c)] = "done" /\ verdict[c] = "accepted"

\* Counter, remediation and verifier of a loop belong to one cycle, in the
\* record and in every copy of it; and that verifier exists.
CyclesAgree ==
  /\ loop.remediation = loop.count /\ loop.verifier = loop.count
  /\ task[Verify(loop.verifier)] # "absent"
  /\ \A p \in Syncers : snap[p].remediation = snap[p].count
                          /\ snap[p].verifier = snap[p].count

\* A call that stages a pair has seen that a cycle is left,
CycleLeft ==
  \A p \in Syncers : pc[p] \in Staging => snap[p].count < MaxCycles

\* and that the cycle before it has failed.
StagingSound ==
  \A p \in Syncers :
    /\ pc[p] \in Staging => Failed(snap[p].count)
    /\ pc[p] \in {"bindRemediation", "promoteRemediation"} =>
         task[Verify(snap[p].count + 1)] # "absent"
    /\ pc[p] = "promoteRemediation" => loop.remediation # 0

\* A re-verifier exists only after every earlier cycle has failed.
EarlierFailed ==
  \A c, d \in Cycles : d < c /\ task[Verify(c)] # "absent" => Failed(d)

\* A call that promotes has seen the evidence pass, and has stored it.
PromotionSound ==
  \A p \in Syncers :
    /\ pc[p] \in Promoting \cup {"saveEvidence"} => Passed(snap[p].verifier)
    /\ pc[p] \in Promoting => snap[p].verifier \in results
    /\ pc[p] \in Promoting \ {"bindEvidence"} => loop.result # NoCycle
    /\ pc[p] = "markStatus" /\ plan[p].status \in Promoted => loop.result # NoCycle

\* Stored results passed; the loop and the acceptance name stored results.
ResultsSound ==
  /\ \A c \in results : Passed(c)
  /\ loop.result # NoCycle => loop.result \in results
  /\ loop.status \in Promoted => loop.result # NoCycle
  /\ acceptance # NoCycle => acceptance \in results /\ loop.result # NoCycle
  /\ accepting.step # "idle" => accepting.result \in results /\ loop.result # NoCycle

\* Together they are inductive: every call, at every program point, still
\* has the right to write what it is about to write.
InductiveInvariant ==
  /\ TypeOK /\ CycleLeft
  /\ CyclesAgree
  /\ StagingSound
  /\ EarlierFailed
  /\ PromotionSound
  /\ ResultsSound
  /\ RemediationJustified
  /\ PairStagedBeforeRelease

-----------------------------------------------------------------------------
(* The same for the revisions of a promotion.  It holds while workers write *)
(* nothing after the end of their task (LateContent = 0).                   *)

\* A verifier that runs, or has run, looks at finished work.
VerifierAfterWork ==
  \A c \in Cycles :
    task[Verify(c)] \in {"running", "done"} => task[Work(c)] = "done"

\* Once a verifier has passed the worktree, nobody is left to change it.
PassedIsContent == \A c \in Cycles : Passed(c) => examined[c] = content

\* HEAD moves once, from the baseline to a version with stored evidence.
HeadSound == head # 0 => head = content /\ \E c \in results : Passed(c)

\* Every revision held by the record, the remote or a call is that HEAD; a
\* call that resolves it has one, is right about it until it pushed it, and has
\* bound it before.
RevisionsSound ==
  /\ loop.commit \in {0, head} /\ remote \in {0, head}
  /\ \A p \in Syncers :
       /\ rev[p] \in {0, head} /\ plan[p].commit \in {0, head}
       /\ pc[p] \in {"resolveHead", "bindRevision", "push"} => head # 0
       /\ pc[p] \in {"bindRevision", "push"} => rev[p] = head
       /\ pc[p] = "push" => loop.commit # 0

PromotionInvariant ==
  VerifierAfterWork /\ PassedIsContent /\ HeadSound /\ RevisionsSound

-----------------------------------------------------------------------------
(* And for calls that do not overlap.                                       *)

\* At most one call is under way.  (Acceptance by a human is not such a call.)
NoOverlap == \A p, q \in Syncers : pc[p] # "idle" /\ pc[q] # "idle" => p = q

\* Program points at which a call relies on the cycle it has read.
Cancelling == {"cancelTask", "reclaim", "block"}
Relying == {"guard", "showDevelopment", "showVerifier", "requestCancel"}
             \cup Cancelling \cup (Staging \ {"promoteRemediation"})

\* The cycle of the snapshot is still the cycle of the loop.
SnapshotCurrent ==
  \A p \in Syncers : pc[p] \in Relying => snap[p].count = loop.count

\* What cancel has been through so far can no longer run, unless it has noted
\* that it could not confirm this.
Halted(t) == task[t] \in {"done", "blocked"}
CancelSound ==
  \A p \in Syncers :
    /\ pc[p] \in Cancelling /\ ~ unconfirmed[p] =>
         /\ aim[p] > 1 => Halted(Work(0))
         /\ aim[p] > 2 /\ loop.remediation # 0 => Halted(Work(loop.remediation))
    /\ pc[p] = "markStatus" /\ plan[p].status = "CANCELED" =>
         \A t \in Bound : Halted(t)

CallInvariant == SnapshotCurrent /\ CancelSound

-----------------------------------------------------------------------------
(* Why sync may take a bound revision as proof of promotion (it may, while  *)
(* nothing fails and calls do not overlap).                                 *)

\* Every revision known to anybody is one that HEAD has had.
RevisionsExist ==
  /\ head <= content
  /\ loop.commit # 0 \/ remote # 0 => head # 0
  /\ \A p \in Syncers :
       \/ rev[p] # 0 \/ plan[p].commit # 0
       \/ pc[p] \in {"resolveHead", "bindRevision", "push"}
       => head # 0

\* A bound revision is pushed, or about to be; one that a call has found bound,
\* or is going to bind once more, is pushed.
BoundIsPushed ==
  /\ loop.commit # 0 /\ remote = 0 => \E p \in Syncers : pc[p] = "push"
  /\ \A p \in Syncers :
       \/ plan[p].commit # 0
       \/ pc[p] \in {"inspectWorktree", "commitWorktree", "resolveHead"} /\ rev[p] # 0
       \/ pc[p] = "guard" /\ snap[p].promoted
       => remote # 0
=============================================================================
