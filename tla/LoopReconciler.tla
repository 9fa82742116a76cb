--------------------------- MODULE LoopReconciler ---------------------------
(***************************************************************************)
(* One dispatched development loop of Project Autopilot: its durable       *)
(* record, the Kanban tasks of its pipeline, the Development worktree, and *)
(* the processes that reconcile, cancel and accept it.                     *)
(*                                                                         *)
(* Reconciliation (LoopReconciler.sync) is called by the gateway, by the   *)
(* lifecycle hooks inside worker processes and by commands.  No lock spans *)
(* a call: each one works on the loop record it read when it started and   *)
(* only single writes of the record are atomic.  Hence one action here is  *)
(* one external call or one durable write of a call, and the local state   *)
(* of a call (pc, snap, rev, plan, aim, unconfirmed) is kept per process.  *)
(*                                                                         *)
(* Tasks of the pipeline come in cycles.  Cycle 0 is the Development task  *)
(* and its verifier; cycle c > 0 is remediation c and its re-verifier.     *)
(* The idempotency keys of the created tasks are exactly these names.      *)
(***************************************************************************)
EXTENDS Integers, FiniteSets

CONSTANTS
  Syncers,        \* processes that may run sync or cancel
  MaxCycles,      \* max_remediation_cycles of the verification profile
  MaxFaults,      \* bound: failed calls, lost replies and crashes of a run
  Revocations,    \* authority that may be lost: the kill switch, the lease
                  \* (expired or replaced), the verification profile
  HumanActs,      \* subset of {"sync", "stop", "accept", "unblock"}
  LateContent,    \* bound on the worktree version writes after a task's end
                  \* may reach; 0: workers edit nothing once they are done
  LateGit         \* git commands the Development worker runs after its task's
                  \* end, of those the tool hook allows: "commit", "push"

ASSUME ConstantsAssumption ==
  /\ MaxCycles \in Nat
  /\ MaxFaults \in Nat
  /\ LateContent \in Nat
  /\ Revocations \subseteq {"kill", "expired", "replaced", "profile"}
  /\ HumanActs \subseteq {"sync", "stop", "accept", "unblock"}
  /\ LateGit \subseteq {"commit", "push"}

VARIABLES
  loop,         \* the durable loop record (loops/loop_<id>.json)
  results,      \* cycles whose immutable result artifact exists
  acceptance,   \* the result the acceptance artifact names, or NoCycle
  task,         \* Kanban status of every pipeline task
  verdict,      \* what the completed run of each verifier task reported
  examined,     \* worktree version that verifier run looked at
  content,      \* version of the files in the Development worktree
  head,         \* version committed at the worktree's HEAD; 0: the baseline
  remote,       \* version at the target branch of origin; 0: the baseline
  revoked,      \* authority lost so far
  faults,       \* faults so far
  pc, snap, rev, plan, aim, unconfirmed,    \* local state of each Syncer
  accepting     \* local state of the human's accept command

boardVars == <<task, verdict, examined>>
gitVars   == <<content, head, remote>>
fileVars  == <<results, acceptance>>
envVars   == <<revoked, faults>>
localVars == <<pc, snap, rev, plan, aim, unconfirmed>>
vars == <<loop, fileVars, boardVars, gitVars, envVars, localVars, accepting>>

-----------------------------------------------------------------------------
Cycles == 0 .. MaxCycles
NoCycle == -1
Work(c) == <<"work", c>>
Verify(c) == <<"verify", c>>
Tasks == {"work", "verify"} \X Cycles

Statuses == {"QUEUED", "RUNNING", "VERIFYING", "MERGING", "REMEDIATING",
             "NEEDS_HUMAN", "CANCEL_REQUESTED", "CANCELED",
             "AWAITING_HUMAN_ACCEPTANCE", "ACCEPTED"}

\* Statuses the periodic recovery looks at.
Recoverable == {"QUEUED", "RUNNING", "VERIFYING", "MERGING", "REMEDIATING"}

\* Statuses `loop stop` refuses as already terminal.
Terminal == {"CANCELED", "ACCEPTED"}

\* Statuses the emergency stop cancels.
StopStatuses == {"QUEUED", "RUNNING", "VERIFYING", "REMEDIATING",
                 "CANCEL_REQUESTED"}

\* Statuses in which the tool hook lets a bound worker act.
ActiveStatuses == {"QUEUED", "RUNNING", "VERIFYING", "MERGING", "REMEDIATING",
                   "NEEDS_HUMAN", "AWAITING_HUMAN_ACCEPTANCE"}

\* What sync and cancel use of the loop record, the project state and the
\* profile their caller read for them: a lease replaced or a profile changed
\* later goes unnoticed, the kill file and the clock are looked at anew.
NoSnapshot == [promoted |-> FALSE, count |-> 0, remediation |-> 0,
               verifier |-> 0, lost |-> {}]
Snapshot == [promoted |-> loop.status = "AWAITING_HUMAN_ACCEPTANCE"
                            /\ loop.commit # 0,
             count |-> loop.count,
             remediation |-> loop.remediation,
             verifier |-> loop.verifier,
             lost |-> revoked \cap {"replaced", "profile"}]

NoPlan == [status |-> "NEEDS_HUMAN", commit |-> 0]

\* Mutant: a re-verifier created with the failed verifier as its parent.
ParentsSkipRemediation(t) ==
  IF t = Work(0) THEN {} ELSE IF t = Verify(0) THEN {Work(0)} ELSE {Verify(t[2] - 1)}

\* A verifier waits for its work, a remediation for the verifier before it.
Parents(t) ==
  IF t[1] = "verify" THEN {Work(t[2])}
  ELSE IF t[2] = 0 THEN {} ELSE {Verify(t[2] - 1)}

\* Task ids the loop record names now.
Bound == {Work(0), Verify(loop.verifier)}
           \cup (IF loop.remediation = 0 THEN {} ELSE {Work(loop.remediation)})

\* The hook reloads authority, binding and status before every tool call.
HookAllows(t) ==
  /\ revoked \cap {"kill", "expired", "replaced"} = {}
  /\ loop.status \in ActiveStatuses
  /\ t \in Bound

Init ==
  /\ loop = [status |-> "QUEUED", count |-> 0, remediation |-> 0,
             verifier |-> 0, commit |-> 0, result |-> NoCycle]
  /\ results = {} /\ acceptance = NoCycle
  /\ task = [t \in Tasks |-> IF t[2] = 0 THEN "todo" ELSE "absent"]
  /\ verdict = [c \in Cycles |-> "none"]
  /\ examined = [c \in Cycles |-> 0]
  /\ content = 0 /\ head = 0 /\ remote = 0
  /\ revoked = {} /\ faults = 0
  /\ pc = [p \in Syncers |-> "idle"]
  /\ snap = [p \in Syncers |-> NoSnapshot]
  /\ rev = [p \in Syncers |-> 0]
  /\ plan = [p \in Syncers |-> NoPlan]
  /\ aim = [p \in Syncers |-> 0]
  /\ unconfirmed = [p \in Syncers |-> FALSE]
  /\ accepting = [step |-> "idle", result |-> NoCycle]

-----------------------------------------------------------------------------
(* Local control of a reconciling process.                                 *)

Goto(p, label) ==
  /\ pc' = [pc EXCEPT ![p] = label]
  /\ UNCHANGED <<snap, rev, plan, aim, unconfirmed>>

\* The status (and revision, unless 0) the call is going to write next.
PlanStatus(p, status, revision) ==
  /\ pc' = [pc EXCEPT ![p] = "markStatus"]
  /\ plan' = [plan EXCEPT ![p] = [status |-> status, commit |-> revision]]
  /\ UNCHANGED <<snap, rev, aim, unconfirmed>>

Return(p) ==
  /\ pc' = [pc EXCEPT ![p] = "idle"]
  /\ snap' = [snap EXCEPT ![p] = NoSnapshot]
  /\ rev' = [rev EXCEPT ![p] = 0]
  /\ plan' = [plan EXCEPT ![p] = NoPlan]
  /\ aim' = [aim EXCEPT ![p] = 0]
  /\ unconfirmed' = [unconfirmed EXCEPT ![p] = FALSE]

\* The caller reads record, state and profile, and passes them to the call.
CallWith(p, label) ==
  /\ pc' = [pc EXCEPT ![p] = label]
  /\ snap' = [snap EXCEPT ![p] = Snapshot]
  /\ UNCHANGED <<rev, plan, aim, unconfirmed>>

Fault == faults < MaxFaults /\ faults' = faults + 1

-----------------------------------------------------------------------------
(* Callers of the reconciler.                                              *)

\* Mutant: recovery that forgets loops in MERGING.
RecoverUnlessMerging(p) ==
  /\ pc[p] = "idle"
  /\ loop.status \in Recoverable \ {"MERGING"}
  /\ CallWith(p, "guard")
  /\ UNCHANGED <<loop, fileVars, boardVars, gitVars, envVars, accepting>>

\* Session start or a throttled tool call: active loops only.
RecoverActiveLoops(p) ==
  /\ pc[p] = "idle"
  /\ loop.status \in Recoverable
  /\ CallWith(p, "guard")
  /\ UNCHANGED <<loop, fileVars, boardVars, gitVars, envVars, accepting>>

\* A Kanban claimed, completed or blocked event, whatever the loop's status.
ReconcileTaskEvent(p) ==
  /\ pc[p] = "idle"
  /\ CallWith(p, "guard")
  /\ UNCHANGED <<loop, fileVars, boardVars, gitVars, envVars, accepting>>

\* `/autopilot loop sync`: refused under the kill switch, else any status.
LoopSync(p) ==
  /\ pc[p] = "idle"
  /\ "sync" \in HumanActs /\ "kill" \notin revoked
  /\ CallWith(p, "guard")
  /\ UNCHANGED <<loop, fileVars, boardVars, gitVars, envVars, accepting>>

\* `/autopilot loop stop`.
LoopStop(p) ==
  /\ pc[p] = "idle"
  /\ "stop" \in HumanActs /\ "kill" \notin revoked
  /\ loop.status \notin Terminal
  /\ CallWith(p, "requestCancel")
  /\ UNCHANGED <<loop, fileVars, boardVars, gitVars, envVars, accepting>>

\* `/autopilot stop`: the kill file is written first ...
EmergencyStop(p) ==
  /\ pc[p] = "idle"
  /\ "kill" \in Revocations
  /\ revoked' = revoked \cup {"kill"}
  /\ Goto(p, "stopScan")
  /\ UNCHANGED <<loop, fileVars, boardVars, gitVars, faults, accepting>>

\* ... and then the loops it considers active are canceled.
StopScan(p) ==
  /\ pc[p] = "stopScan"
  /\ IF loop.status \in StopStatuses THEN CallWith(p, "requestCancel")
                                     ELSE Return(p)
  /\ UNCHANGED <<loop, fileVars, boardVars, gitVars, envVars, accepting>>

-----------------------------------------------------------------------------
(* LoopReconciler.sync.                                                    *)

\* Mutant: sync looks at the lease, not at the kill switch.
AuthorizedByLease(p) == "expired" \notin revoked /\ "replaced" \notin snap[p].lost

\* Kill switch off, and the lease the loop's own and not expired.
Authorized(p) ==
  revoked \cap {"kill", "expired"} = {} /\ "replaced" \notin snap[p].lost

\* The verification profile is not the dispatched one any more.
ProfileChanged(p) ==
  /\ pc[p] = "guard"
  /\ "profile" \in snap[p].lost
  /\ PlanStatus(p, "NEEDS_HUMAN", 0)
  /\ UNCHANGED <<loop, fileVars, boardVars, gitVars, envVars, accepting>>

\* Kill switch active, or lease missing, expired or replaced: cancel.
AuthorityLost(p) ==
  /\ pc[p] = "guard"
  /\ "profile" \notin snap[p].lost /\ ~ Authorized(p)
  /\ Goto(p, "requestCancel")
  /\ UNCHANGED <<loop, fileVars, boardVars, gitVars, envVars, accepting>>

\* "Verified worktree was already promoted": return without a write.
AlreadyPromoted(p) ==
  /\ pc[p] = "guard"
  /\ "profile" \notin snap[p].lost /\ Authorized(p) /\ snap[p].promoted
  /\ Return(p)
  /\ UNCHANGED <<loop, fileVars, boardVars, gitVars, envVars, accepting>>

GuardPassed(p) ==
  /\ pc[p] = "guard"
  /\ "profile" \notin snap[p].lost /\ Authorized(p) /\ ~ snap[p].promoted
  /\ Goto(p, "showDevelopment")
  /\ UNCHANGED <<loop, fileVars, boardVars, gitVars, envVars, accepting>>

\* Mutant: the Kanban status is stored as it is.
UnfinishedRaw(status) == status

\* The loop status that stands for an unfinished Development task.
Unfinished(status) ==
  CASE status = "blocked" -> "NEEDS_HUMAN"
    [] status = "running" -> "RUNNING"
    [] OTHER -> "QUEUED"

ShowDevelopment(p) ==
  /\ pc[p] = "showDevelopment"
  /\ IF task[Work(0)] = "done" THEN Goto(p, "showVerifier")
                               ELSE PlanStatus(p, Unfinished(task[Work(0)]), 0)
  /\ UNCHANGED <<loop, fileVars, boardVars, gitVars, envVars, accepting>>

\* Mutants: any completed run counts as evidence; review and exit codes of
\* the checks are not looked at.
EvidenceUnvalidated(report) == report # "none"
EvidenceByStatus(report) == report # "malformed"

\* Evidence of a completed verifier run that fits the dispatched contract,
EvidenceValid(report) == report \in {"accepted", "failed"}

\* and evidence of a run that passed every check and was approved.
EvidenceAccepted(report) == report = "accepted"

\* The verifier task of the snapshot and the evidence of its last run.
ShowVerifier(p) ==
  LET v == snap[p].verifier
      done == task[Verify(v)] = "done"
      accepted == EvidenceValid(verdict[v]) /\ EvidenceAccepted(verdict[v])
      rejected == EvidenceValid(verdict[v]) /\ ~ EvidenceAccepted(verdict[v])
      exhausted == snap[p].count >= MaxCycles
  IN
  /\ pc[p] = "showVerifier"
  /\ \/ task[Verify(v)] = "blocked" /\ PlanStatus(p, "NEEDS_HUMAN", 0)
     \/ task[Verify(v)] \in {"todo", "running"} /\ PlanStatus(p, "VERIFYING", 0)
     \/ done /\ ~ EvidenceValid(verdict[v]) /\ PlanStatus(p, "NEEDS_HUMAN", 0)
     \/ done /\ rejected /\ exhausted /\ PlanStatus(p, "NEEDS_HUMAN", 0)
     \/ done /\ rejected /\ ~ exhausted /\ Goto(p, "queueRemediation")
     \/ done /\ accepted /\ Goto(p, "saveEvidence")
  /\ UNCHANGED <<loop, fileVars, boardVars, gitVars, envVars, accepting>>

\* Mutant: the status is written with the rest of the snapshot it belongs to.
MarkSnapshot(p) ==
  /\ pc[p] = "markStatus"
  /\ loop' = [loop EXCEPT !.status = plan[p].status, !.count = snap[p].count,
                          !.remediation = snap[p].remediation,
                          !.verifier = snap[p].verifier]
  /\ Return(p)
  /\ UNCHANGED <<fileVars, boardVars, gitVars, envVars, accepting>>

\* mark_status: blind to the status the record has by now.
MarkStatus(p) ==
  /\ pc[p] = "markStatus"
  /\ loop' = [loop EXCEPT !.status = plan[p].status,
                          !.commit = IF plan[p].commit # 0 THEN plan[p].commit
                                                           ELSE @]
  /\ Return(p)
  /\ UNCHANGED <<fileVars, boardVars, gitVars, envVars, accepting>>

-----------------------------------------------------------------------------
(* DevelopmentExecutor.queue_remediation, on the snapshot's counter.       *)

QueueRemediation(p) ==
  /\ pc[p] = "queueRemediation"
  /\ IF Authorized(p) THEN Goto(p, "createRemediation")
                      ELSE PlanStatus(p, "NEEDS_HUMAN", 0)
  /\ UNCHANGED <<loop, fileVars, boardVars, gitVars, envVars, accepting>>

\* Mutant: the cards are not staged as blocked.
CreateReleased(t, status) ==
  task' = IF task[t] = "absent" THEN [task EXCEPT ![t] = "todo"] ELSE task

\* Kanban create: a known idempotency key returns the task as it is.
CreateTask(t, status) ==
  task' = IF task[t] = "absent" THEN [task EXCEPT ![t] = status] ELSE task

CreateRemediation(p) ==
  /\ pc[p] = "createRemediation"
  /\ CreateTask(Work(snap[p].count + 1), "blocked")
  /\ Goto(p, "createReverifier")
  /\ UNCHANGED <<loop, fileVars, verdict, examined, gitVars, envVars, accepting>>

CreateReverifier(p) ==
  /\ pc[p] = "createReverifier"
  /\ CreateTask(Verify(snap[p].count + 1), "todo")
  /\ Goto(p, "bindRemediation")
  /\ UNCHANGED <<loop, fileVars, verdict, examined, gitVars, envVars, accepting>>

\* Mutant: the cycle is counted from the record as it is by now.
BindNextCycle(p) ==
  LET cycle == loop.count + 1 IN
  /\ pc[p] = "bindRemediation"
  /\ loop' = [loop EXCEPT !.status = "REMEDIATING", !.count = cycle,
                          !.remediation = cycle, !.verifier = cycle]
  /\ Goto(p, "promoteRemediation")
  /\ UNCHANGED <<fileVars, boardVars, gitVars, envVars, accepting>>

BindRemediation(p) ==
  LET cycle == snap[p].count + 1 IN
  /\ pc[p] = "bindRemediation"
  /\ loop' = [loop EXCEPT !.status = "REMEDIATING", !.count = cycle,
                          !.remediation = cycle, !.verifier = cycle]
  /\ Goto(p, "promoteRemediation")
  /\ UNCHANGED <<fileVars, boardVars, gitVars, envVars, accepting>>

\* Kanban promote releases a blocked (or still waiting) card, nothing else.
PromoteRemediation(p) ==
  LET t == Work(snap[p].count + 1) IN
  /\ pc[p] = "promoteRemediation"
  /\ IF task[t] \in {"blocked", "todo"}
       THEN task' = [task EXCEPT ![t] = "todo"] /\ Return(p)
       ELSE task' = task /\ PlanStatus(p, "NEEDS_HUMAN", 0)
  /\ UNCHANGED <<loop, fileVars, verdict, examined, gitVars, envVars, accepting>>

-----------------------------------------------------------------------------
(* Accepted evidence: store it, enter MERGING, promote the worktree.       *)

\* record_verification_evidence, first write: the immutable result artifact.
SaveEvidence(p) ==
  /\ pc[p] = "saveEvidence"
  /\ results' = results \cup {snap[p].verifier}
  /\ Goto(p, "bindEvidence")
  /\ UNCHANGED <<loop, acceptance, boardVars, gitVars, envVars, accepting>>

\* Mutant: the result is filed under the verifier the record names by now.
BindCurrentVerifier(p) ==
  /\ pc[p] = "bindEvidence"
  /\ loop' = [loop EXCEPT !.status = "AWAITING_HUMAN_ACCEPTANCE",
                          !.result = loop.verifier]
  /\ Goto(p, "enterMerging")
  /\ UNCHANGED <<fileVars, boardVars, gitVars, envVars, accepting>>

\* Second write: the loop names the result, and awaits acceptance already.
BindEvidence(p) ==
  /\ pc[p] = "bindEvidence"
  /\ loop' = [loop EXCEPT !.status = "AWAITING_HUMAN_ACCEPTANCE",
                          !.result = snap[p].verifier]
  /\ Goto(p, "enterMerging")
  /\ UNCHANGED <<fileVars, boardVars, gitVars, envVars, accepting>>

\* The record this write returns is the one _merge_worktree works on.
EnterMerging(p) ==
  /\ pc[p] = "enterMerging"
  /\ loop' = [loop EXCEPT !.status = "MERGING"]
  /\ rev' = [rev EXCEPT ![p] = loop.commit]
  /\ pc' = [pc EXCEPT ![p] = "inspectWorktree"]
  /\ UNCHANGED <<snap, plan, aim, unconfirmed>>
  /\ UNCHANGED <<fileVars, boardVars, gitVars, envVars, accepting>>

\* git status.  A clean worktree is promoted only if its last commit is the
\* loop's own or a revision is bound; a HEAD other than 0 has that subject.
InspectWorktree(p) ==
  /\ pc[p] = "inspectWorktree"
  /\ \/ content # head /\ Goto(p, "commitWorktree")
     \/ content = head /\ (head # 0 \/ rev[p] # 0) /\ Goto(p, "resolveHead")
     \/ content = head /\ head = 0 /\ rev[p] = 0 /\ PlanStatus(p, "NEEDS_HUMAN", 0)
  /\ UNCHANGED <<loop, fileVars, boardVars, gitVars, envVars, accepting>>

\* git add --all and git commit, which fails when nothing is left to commit.
CommitWorktree(p) ==
  /\ pc[p] = "commitWorktree"
  /\ head' = content
  /\ IF content # head THEN Goto(p, "resolveHead")
                       ELSE PlanStatus(p, "NEEDS_HUMAN", 0)
  /\ UNCHANGED <<loop, fileVars, boardVars, content, remote, envVars, accepting>>

\* git rev-parse HEAD, compared with the revision bound before, if any.
ResolveHead(p) ==
  /\ pc[p] = "resolveHead"
  /\ \/ /\ rev[p] \in {0, head}
        /\ rev' = [rev EXCEPT ![p] = head]
        /\ pc' = [pc EXCEPT ![p] = "bindRevision"]
        /\ UNCHANGED <<snap, plan, aim, unconfirmed>>
     \/ rev[p] \notin {0, head} /\ PlanStatus(p, "NEEDS_HUMAN", head)
  /\ UNCHANGED <<loop, fileVars, boardVars, gitVars, envVars, accepting>>

\* Mutant: the revision is recorded after the push only.
BindStatusOnly(p) ==
  /\ pc[p] = "bindRevision"
  /\ loop' = [loop EXCEPT !.status = "MERGING"]
  /\ Goto(p, "push")
  /\ UNCHANGED <<fileVars, boardVars, gitVars, envVars, accepting>>

BindRevision(p) ==
  /\ pc[p] = "bindRevision"
  /\ loop' = [loop EXCEPT !.status = "MERGING", !.commit = rev[p]]
  /\ Goto(p, "push")
  /\ UNCHANGED <<fileVars, boardVars, gitVars, envVars, accepting>>

\* git push origin HEAD: what HEAD is now, not the revision resolved before.
Push(p) ==
  /\ pc[p] = "push"
  /\ remote' = head
  /\ PlanStatus(p, "AWAITING_HUMAN_ACCEPTANCE", rev[p])
  /\ UNCHANGED <<loop, fileVars, boardVars, content, head, envVars, accepting>>

-----------------------------------------------------------------------------
(* Calls of sync to Kanban or Git, and its writes, that report failure.     *)

SyncCalls == {"showDevelopment", "showVerifier", "createRemediation",
              "createReverifier", "bindRemediation", "promoteRemediation",
              "saveEvidence", "bindEvidence", "enterMerging",
              "inspectWorktree", "commitWorktree", "resolveHead",
              "bindRevision", "push"}

\* Every failed call or write ends in NEEDS_HUMAN; once the revision of a
\* promotion is resolved, its failure is written with it.
FailureRevision(p) == IF pc[p] \in {"bindRevision", "push"} THEN rev[p] ELSE 0

CallFails(p) ==
  /\ pc[p] \in SyncCalls
  /\ Fault
  /\ PlanStatus(p, "NEEDS_HUMAN", FailureRevision(p))
  /\ UNCHANGED <<loop, fileVars, boardVars, gitVars, revoked, accepting>>

\* The call took effect, but its answer was lost (a timeout of the tool).
ReplyLost(p) ==
  /\ Fault
  /\ \/ /\ pc[p] = "commitWorktree" /\ head' = content
        /\ UNCHANGED <<task, remote>>
     \/ /\ pc[p] = "push" /\ remote' = head
        /\ UNCHANGED <<task, head>>
     \/ /\ pc[p] = "promoteRemediation"
        /\ task[Work(snap[p].count + 1)] = "blocked"
        /\ task' = [task EXCEPT ![Work(snap[p].count + 1)] = "todo"]
        /\ UNCHANGED <<head, remote>>
  /\ PlanStatus(p, "NEEDS_HUMAN", FailureRevision(p))
  /\ UNCHANGED <<loop, fileVars, verdict, examined, content, revoked, accepting>>

\* The process running the call dies; nothing of its local state survives.
Crash(p) ==
  /\ pc[p] # "idle"
  /\ Fault
  /\ Return(p)
  /\ UNCHANGED <<loop, fileVars, boardVars, gitVars, revoked, accepting>>

-----------------------------------------------------------------------------
(* LoopReconciler.cancel, on the task ids of the snapshot.                 *)

\* The tasks in the order cancel visits them; aim is the position in it.
Target(p) ==
  IF aim[p] = 1 THEN Work(0)
  ELSE IF aim[p] = 2 THEN Work(snap[p].remediation)
  ELSE Verify(snap[p].verifier)

\* Mutant: the remediation card is not canceled.
NextAimSkips(p) == 3

NextAim(p) == IF aim[p] = 1 /\ snap[p].remediation = 0 THEN 3 ELSE aim[p] + 1

\* On to the next task, or to the verdict of the whole cancellation.
NextTarget(p, problem) ==
  LET open == unconfirmed[p] \/ problem IN
  IF aim[p] < 3
    THEN /\ pc' = [pc EXCEPT ![p] = "cancelTask"]
         /\ aim' = [aim EXCEPT ![p] = NextAim(p)]
         /\ unconfirmed' = [unconfirmed EXCEPT ![p] = open]
         /\ UNCHANGED <<snap, rev, plan>>
    ELSE IF open THEN Return(p) ELSE PlanStatus(p, "CANCELED", 0)

RequestCancel(p) ==
  /\ pc[p] = "requestCancel"
  /\ loop' = [loop EXCEPT !.status = "CANCEL_REQUESTED"]
  /\ pc' = [pc EXCEPT ![p] = "cancelTask"]
  /\ aim' = [aim EXCEPT ![p] = 1]
  /\ UNCHANGED <<snap, rev, plan, unconfirmed>>
  /\ UNCHANGED <<fileVars, boardVars, gitVars, envVars, accepting>>

CancelTask(p) ==
  /\ pc[p] = "cancelTask"
  /\ \/ task[Target(p)] \in {"done", "blocked"} /\ NextTarget(p, FALSE)
     \/ task[Target(p)] = "running" /\ Goto(p, "reclaim")
     \/ task[Target(p)] = "todo" /\ Goto(p, "block")
  /\ UNCHANGED <<loop, fileVars, boardVars, gitVars, envVars, accepting>>

\* Kanban reclaim takes a running task from its worker; of a task that is
\* not running any more it reports failure, which is noted, and block follows.
ReclaimTask(p) ==
  LET t == Target(p) IN
  /\ pc[p] = "reclaim"
  /\ task' = IF task[t] = "running" THEN [task EXCEPT ![t] = "todo"] ELSE task
  /\ unconfirmed' = [unconfirmed EXCEPT ![p] = @ \/ task[t] # "running"]
  /\ pc' = [pc EXCEPT ![p] = "block"]
  /\ UNCHANGED <<snap, rev, plan, aim>>
  /\ UNCHANGED <<loop, fileVars, verdict, examined, gitVars, envVars, accepting>>

\* Kanban block; it reports failure for a task that is no longer open.
BlockTask(p) ==
  LET t == Target(p)
      open == task[t] \in {"todo", "running"} IN
  /\ pc[p] = "block"
  /\ task' = IF open THEN [task EXCEPT ![t] = "blocked"] ELSE task
  /\ NextTarget(p, ~ open)
  /\ UNCHANGED <<loop, fileVars, verdict, examined, gitVars, envVars, accepting>>

\* A failed show or block counts against the task; so does a failed reclaim,
\* after which the task is blocked all the same.
ControlFails(p) ==
  /\ Fault
  /\ \/ pc[p] \in {"cancelTask", "block"} /\ NextTarget(p, TRUE)
     \/ /\ pc[p] = "reclaim"
        /\ unconfirmed' = [unconfirmed EXCEPT ![p] = TRUE]
        /\ pc' = [pc EXCEPT ![p] = "block"]
        /\ UNCHANGED <<snap, rev, plan, aim>>
  /\ UNCHANGED <<loop, fileVars, boardVars, gitVars, revoked, accepting>>

-----------------------------------------------------------------------------
(* `/autopilot loop accept` (accept_loop): the record is read unlocked.    *)

\* Mutant: the current verifier is accepted instead of the bound result.
AcceptVerifier ==
  /\ "accept" \in HumanActs /\ "kill" \notin revoked
  /\ accepting.step = "idle"
  /\ loop.status = "AWAITING_HUMAN_ACCEPTANCE"
  /\ loop.result \in results
  /\ accepting' = [step |-> "file", result |-> loop.verifier]
  /\ UNCHANGED <<loop, fileVars, boardVars, gitVars, envVars, localVars>>

AcceptRead ==
  /\ "accept" \in HumanActs /\ "kill" \notin revoked
  /\ accepting.step = "idle"
  /\ loop.status = "AWAITING_HUMAN_ACCEPTANCE"
  /\ loop.result \in results
  /\ accepting' = [step |-> "file", result |-> loop.result]
  /\ UNCHANGED <<loop, fileVars, boardVars, gitVars, envVars, localVars>>

\* The acceptance artifact is written once; one for another result conflicts.
AcceptFile ==
  /\ accepting.step = "file"
  /\ IF acceptance \in {NoCycle, accepting.result}
       THEN /\ acceptance' = accepting.result
            /\ accepting' = [accepting EXCEPT !.step = "mark"]
       ELSE /\ acceptance' = acceptance
            /\ accepting' = [step |-> "idle", result |-> NoCycle]
  /\ UNCHANGED <<loop, results, boardVars, gitVars, envVars, localVars>>

AcceptMark ==
  /\ accepting.step = "mark"
  /\ loop' = [loop EXCEPT !.status = "ACCEPTED"]
  /\ accepting' = [step |-> "idle", result |-> NoCycle]
  /\ UNCHANGED <<fileVars, boardVars, gitVars, envVars, localVars>>

-----------------------------------------------------------------------------
(* The Kanban board and its workers, external to the plugin.               *)

\* The dispatcher starts a worker for a task whose parents are done.
Claim(t) ==
  /\ task[t] = "todo"
  /\ \A u \in Parents(t) : task[u] = "done"
  /\ task' = [task EXCEPT ![t] = "running"]
  /\ UNCHANGED <<loop, fileVars, verdict, examined, gitVars, envVars, localVars,
                 accepting>>

\* A Development or remediation worker completes, with or without edits.
FinishWork(c) ==
  /\ task[Work(c)] = "running"
  /\ HookAllows(Work(c))
  /\ task' = [task EXCEPT ![Work(c)] = "done"]
  /\ content' \in {content, content + 1}
  /\ UNCHANGED <<loop, fileVars, verdict, examined, head, remote, envVars,
                 localVars, accepting>>

\* A verifier run completes and reports on the worktree it looked at.
FinishVerify(c) ==
  /\ task[Verify(c)] = "running"
  /\ HookAllows(Verify(c))
  /\ task' = [task EXCEPT ![Verify(c)] = "done"]
  /\ \E v \in {"accepted", "failed", "malformed"} :
       verdict' = [verdict EXCEPT ![c] = v]
  /\ examined' = [examined EXCEPT ![c] = content]
  /\ UNCHANGED <<loop, fileVars, gitVars, envVars, localVars, accepting>>

\* kanban_block by the worker itself, a worker timeout, or retries used up.
WorkerBlocks(t) ==
  /\ task[t] = "running"
  /\ task' = [task EXCEPT ![t] = "blocked"]
  /\ UNCHANGED <<loop, fileVars, verdict, examined, gitVars, envVars, localVars,
                 accepting>>

\* A human releases a blocked card of the loop.
Unblock(t) ==
  /\ "unblock" \in HumanActs
  /\ t \in Bound /\ task[t] = "blocked"
  /\ task' = [task EXCEPT ![t] = "todo"]
  /\ UNCHANGED <<loop, fileVars, verdict, examined, gitVars, envVars, localVars,
                 accepting>>

\* The worker of a done task still runs and edits files: the hook asks for the
\* binding and the loop status, not for the status of the Kanban task.
LateWrite(c) ==
  /\ content < LateContent
  /\ task[Work(c)] = "done" /\ HookAllows(Work(c))
  /\ content' = content + 1
  /\ UNCHANGED <<loop, fileVars, boardVars, head, remote, envVars, localVars,
                 accepting>>

\* Mutant: the hook does not look at the status of the loop.
GitAllowedAlways == task[Work(0)] = "done" /\ HookAllows(Work(0))

\* In MERGING the hook lets the Development worker, and no other, run the very
\* git commands of the promotion.
GitAllowed ==
  /\ loop.status = "MERGING"
  /\ task[Work(0)] = "done" /\ HookAllows(Work(0))

\* git add --all and git commit, with the subject the reconciler uses.
LateCommit ==
  /\ "commit" \in LateGit /\ GitAllowed
  /\ content # head
  /\ head' = content
  /\ UNCHANGED <<loop, fileVars, boardVars, content, remote, envVars, localVars,
                 accepting>>

\* git push origin HEAD: to the target branch of the loop.
LatePush ==
  /\ "push" \in LateGit /\ GitAllowed
  /\ remote' = head
  /\ UNCHANGED <<loop, fileVars, boardVars, content, head, envVars, localVars,
                 accepting>>

\* The lease expires or is replaced; the profile is configured anew.
Revoke(r) ==
  /\ r \in (Revocations \ {"kill"}) \ revoked
  /\ revoked' = revoked \cup {r}
  /\ UNCHANGED <<loop, fileVars, boardVars, gitVars, faults, localVars, accepting>>

-----------------------------------------------------------------------------
(* A call's own next step, whatever it is.                                 *)
SyncStep(p) ==
  \/ ProfileChanged(p) \/ AuthorityLost(p) \/ AlreadyPromoted(p)
  \/ GuardPassed(p) \/ ShowDevelopment(p) \/ ShowVerifier(p) \/ MarkStatus(p)
  \/ QueueRemediation(p) \/ CreateRemediation(p) \/ CreateReverifier(p)
  \/ BindRemediation(p) \/ PromoteRemediation(p)
  \/ SaveEvidence(p) \/ BindEvidence(p) \/ EnterMerging(p)
  \/ InspectWorktree(p) \/ CommitWorktree(p) \/ ResolveHead(p)
  \/ BindRevision(p) \/ Push(p)
  \/ StopScan(p) \/ RequestCancel(p) \/ CancelTask(p) \/ ReclaimTask(p)
  \/ BlockTask(p)

StartCall(p) ==
  \/ RecoverActiveLoops(p) \/ ReconcileTaskEvent(p) \/ LoopSync(p)
  \/ LoopStop(p) \/ EmergencyStop(p)

FaultStep(p) == CallFails(p) \/ ReplyLost(p) \/ Crash(p) \/ ControlFails(p)

Accept == AcceptRead \/ AcceptFile \/ AcceptMark

Board ==
  \/ \E t \in Tasks : Claim(t) \/ WorkerBlocks(t) \/ Unblock(t)
  \/ \E c \in Cycles : FinishWork(c) \/ FinishVerify(c) \/ LateWrite(c)
  \/ LateCommit \/ LatePush

Next ==
  \/ \E p \in Syncers : SyncStep(p) \/ StartCall(p) \/ FaultStep(p)
  \/ Accept
  \/ Board
  \/ \E r \in Revocations : Revoke(r)

Spec == Init /\ [][Next]_vars

(***************************************************************************)
(* Fairness.  A process that started a call finishes it: every external    *)
(* call has a timeout.  Recovery runs on session start, at least every     *)
(* 300 s of tool activity, and before each command; its fairness is strong *)
(* because the command it precedes (an emergency stop, say) occupies the   *)
(* same process, so that recovery is not enabled all the time.  The        *)
(* dispatcher claims ready tasks, and Kanban's max runtime ends every      *)
(* claimed one.  Humans, revocations and faults are not fair: they may     *)
(* never happen.                                                           *)
(***************************************************************************)
Fairness ==
  /\ \A p \in Syncers : WF_vars(SyncStep(p)) /\ SF_vars(RecoverActiveLoops(p))
  /\ \A t \in Tasks : WF_vars(Claim(t))
  /\ \A c \in Cycles : /\ WF_vars(FinishWork(c) \/ WorkerBlocks(Work(c)))
                       /\ WF_vars(FinishVerify(c) \/ WorkerBlocks(Verify(c)))

FairSpec == Spec /\ Fairness

-----------------------------------------------------------------------------
(* Properties.                                                             *)

Labels == SyncCalls \cup
  {"idle", "guard", "markStatus", "queueRemediation",
   "stopScan", "requestCancel", "cancelTask", "reclaim", "block"}

\* Every variable has its type; counters of a loop stay within the cycles.
RecordOK ==
  loop \in [status : Statuses, count : Cycles, remediation : Cycles,
            verifier : Cycles, commit : Nat, result : Cycles \cup {NoCycle}]
FilesOK == results \subseteq Cycles /\ acceptance \in Cycles \cup {NoCycle}
BoardOK ==
  /\ task \in [Tasks -> {"absent", "todo", "blocked", "running", "done"}]
  /\ verdict \in [Cycles -> {"none", "accepted", "failed", "malformed"}]
  /\ examined \in [Cycles -> Nat]
GitOK == content \in Nat /\ head \in Nat /\ remote \in Nat
EnvOK == revoked \subseteq Revocations /\ faults \in 0 .. MaxFaults
CallsOK ==
  /\ pc \in [Syncers -> Labels]
  /\ snap \in [Syncers -> [promoted : BOOLEAN, count : Cycles,
                           remediation : Cycles, verifier : Cycles,
                           lost : SUBSET {"replaced", "profile"}]]
  /\ rev \in [Syncers -> Nat]
  /\ plan \in [Syncers -> [status : Statuses, commit : Nat]]
  /\ aim \in [Syncers -> 0 .. 3]
  /\ unconfirmed \in [Syncers -> BOOLEAN]
AcceptingOK == accepting \in [step : {"idle", "file", "mark"},
                              result : Cycles \cup {NoCycle}]
TypeOK == /\ RecordOK /\ FilesOK /\ BoardOK /\ GitOK /\ EnvOK /\ CallsOK
          /\ AcceptingOK

\* Only accepted evidence, stored and named by the loop, lets a loop into
\* MERGING or any later status, however many calls of sync interleave.
VerifiedPromotion ==
  loop.status \in {"MERGING", "AWAITING_HUMAN_ACCEPTANCE", "ACCEPTED"} =>
    loop.result \in results /\ verdict[loop.result] = "accepted"

\* A remediation exists only for a re-verifiable failure of the cycle before
\* it; in particular there are never more of them than authorized, although
\* concurrent calls of sync queue them from stale counters.
RemediationJustified ==
  \A c \in Cycles \ {0} :
    task[Work(c)] # "absent" =>
      /\ task[Verify(c - 1)] = "done"
      /\ verdict[c - 1] = "failed"

\* A remediation worker is released only once its re-verifier exists and the
\* loop is bound to a remediation, so the tool hook and cancel can know it.
PairStagedBeforeRelease ==
  \A c \in Cycles \ {0} :
    task[Work(c)] \in {"todo", "running", "done"} =>
      /\ task[Verify(c)] # "absent"
      /\ loop.remediation # 0

\* What the target branch received was bound in the loop record first, and
\* stays bound: a crash or a lost reply after the push loses no revision.  It
\* holds for pushes of the reconciler; see the README for those of a worker.
PushIsRecorded == remote # 0 => loop.commit = remote

\* The worktree is committed only in a version a verifier has accepted.  It
\* needs workers that edit nothing after the end of their task.
CommitIsVerified ==
  head # 0 => \E c \in Cycles : verdict[c] = "accepted" /\ examined[c] = head

\* A human's acceptance names the very result the loop is bound to.
AcceptanceNamesResult == acceptance # NoCycle => loop.result = acceptance

\* Nothing is committed or pushed before accepted evidence is stored, neither
\* by sync, after any failure of a promotion, nor by a Development worker that
\* outlives its task and runs git itself.
EvidenceBeforeGit ==
  head # 0 \/ remote # 0 => \E c \in results : verdict[c] = "accepted"

\* Once a human has accepted a result, the target branch has received no other
\* version than the accepted one: before the acceptance, after it, or not yet.
OnlyAcceptedIsPushed ==
  acceptance # NoCycle /\ remote # 0 => examined[acceptance] = remote

\* What a human accepts has been committed and pushed before.
AcceptedIsPushed ==
  acceptance # NoCycle => remote # 0 /\ examined[acceptance] = remote

\* The contract of promotion that the loop implements: versions become
\* approved with stored evidence, committed, recorded and pushed in order.
Contract == INSTANCE PromotionContract WITH
  approved  <- {examined[c] : c \in results},
  committed <- head,
  recorded  <- loop.commit,
  pushed    <- remote,
  closed    <- acceptance # NoCycle

ImplementsContract == Contract!Spec

\* CANCELED is written only when no task the loop names can still run.  It
\* holds for calls that do not overlap; see the README for those that do.
CancelIsConfirmed ==
  [][loop'.status = "CANCELED" /\ loop.status # "CANCELED" =>
       \A t \in Bound : task[t] \in {"done", "blocked"}]_vars

\* Calls that do not overlap never give spent remediation cycles back, nor
\* point the loop at the verifier of an earlier cycle again.
CyclesNeverReturn ==
  [][loop'.count >= loop.count /\ loop'.verifier >= loop.verifier]_vars

\* A sync that reports the worktree as already promoted tells the truth.
AlreadyPromotedIsPushed ==
  \A p \in Syncers : pc[p] = "guard" /\ snap[p].promoted => remote # 0

\* Sync follows the Development task and the verifier of the last cycle, but
\* never looks at a remediation: when that one is blocked nothing shows it.
RemediationBlocked ==
  loop.remediation # 0 /\ task[Work(loop.remediation)] = "blocked"

\* Recovery brings every active loop to an end or to a human, even when
\* events are missed and processes crash, unless its remediation is blocked.
RecoverySettles ==
  loop.status \in Recoverable ~>
    (loop.status \notin Recoverable \/ RemediationBlocked)

\* Once the kill switch is on, the loop is active at most for a while, even
\* when calls that passed the check before are still writing.
KillQuiesces == "kill" \in revoked ~> [](loop.status \notin Recoverable)
=============================================================================
