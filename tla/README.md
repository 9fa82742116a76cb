# Verification of Hermes Project Autopilot

TLA+ models of the parts of the plugin in which several processes meet: the
project states and the commands that work on them, execution briefs, the dispatch
of loops, the development loop and its reconciliation, the structured decisions of
workers, and the manual checkpoint and commit. TLC checks them on small instances;
TLAPS proves the central safety properties of each for every number of processes,
projects, cycles and faults.

Paths are those of the repository (`src/` is its root); `loop_reconciler.py`,
`autonomous_loop.py` and `development_executor.py` are in
`src/autopilot/adapters/`, the other Python files in `src/autopilot/`.

## 1. The system

Nothing in the plugin runs by itself. The same code is entered by four kinds of
processes: the gateway (Kanban lifecycle hooks), worker processes (tool hook,
decision tool, lifecycle hooks), interactive sessions (slash commands), and every
session's start-up and tool activity (recovery). They share files under
`$HERMES_HOME/state/autopilot`, the Kanban board behind `hermes kanban`, and the
Git worktree of a loop. A single file write is atomic (`os.replace`) and a single
update of a loop record is locked, but nothing locks a whole call: a call reads the
record, makes external calls of up to minutes, and writes what it concluded.

| Component | State it keeps | Operations | Where it meets the others |
|---|---|---|---|
| Loop reconciler (`loop_reconciler.py`) | none; works on the loop record, board and worktree | `sync`, `_merge_worktree`, `cancel` | called by hooks, recovery and commands, concurrently |
| Loop supervisor (`autonomous_loop.py`) | loop records, results, decisions, acceptances, locks | `start_loop`, `mark_*`, `record_*`, `stage_`/`finalize_question_answer`, `accept_loop` | every other component writes through it |
| Development executor (`development_executor.py`) | cards on the board | `dispatch`, `queue_remediation` | `loop start`, `sync` |
| Lifecycle (`lifecycle.py`, `src/__init__.py`) | recovery throttle | `recover_active_loops`, `reconcile_task_event` | hooks, before every command |
| Structured decisions (`decision_runtime.py`, `question_policy.py`) | decision artifacts | `handle`, `decide_question` | workers, `loop answer` |
| Checkpoint (`checkpoint.py`) | archive, authorization file | `create`, `authorize_commit`, `commit` | accepted loops, worktree |
| Tool policy hook (`policy_hook.py`) | none | `pre_tool_call_guard`, `find_task_binding` | every tool call of a worker |
| Evidence, profile (`evidence.py`, `verification.py`) | profile file | validation | `sync`, `dispatch` |
| Lease, policy, kill switch (`lease.py`, `policy.py`, `kill_switch.py`) | lease in the project state, kill file | expiry, capabilities, activation | every guard |
| Project store, state machine (`storage.py`, `state_machine.py`, `phases.py`) | a state file for each project, a legacy one, the manifest with the active project | load, save, mutate, transition | every command, each access under its own lock |
| Briefs, run packages (`execution_bridge.py`, `runner.py`) | brief files, packages | generate, authorize in place, prepare | commands, `loop start`, on a project state loaded before |
| Registration, audit, simulation, read-only adapters | records, log | validate, append, simulate | commands |

What is hard: two processes in `sync` at once on different snapshots; a cancel
overlapping a sync or a dispatch; the death of a process between two external
calls; a call that took effect but whose answer was lost (each has a timeout);
missed hook events; a worker that outlives its card; humans answering, accepting
and committing meanwhile; the kill switch coming between a check and its use.

What makes each part correct:

- *Reconciliation*: only accepted, stored evidence promotes; a version reaches
  the branch only after approval, commit and record, in this order; remediations
  are justified by a failed verification and bounded; `CANCELED` is true; active
  loops settle; the kill switch wins.
- *Dispatch*: a lease is not overdrawn; no released card is unknown to the record;
  a canceled loop has no released card.
- *Decisions*: a question is resolved once, all workers get the same choice, an
  acknowledged answer counts, a blocked card can be answered.
- *Checkpoint*: the commit holds the checkpointed files; an unchanged worktree keeps the
  digest that was archived, except in the one case the property names.
- *Project store*: no file, and no copy a command holds, is a mixture of what
  several commands wrote; a project's file holds that project; labels move along
  the graph of the state machine, and `STOPPED` is final.
- *Briefs*: work is handed over on a brief that was approved and has not been revoked
  since; a decision that was reported is in the file.

## 2. Modules

| Module | Models |
|---|---|
| `LoopReconciler` | one dispatched loop: `sync`, `_merge_worktree`, `queue_remediation`, `cancel`, `accept_loop`, recovery, emergency stop, tool hook, board, workers, faults |
| `PromotionContract` | abstract: versions are approved, committed, recorded, pushed, closed |
| `LoopReconcilerInvariant` | the inductive invariants: of every behaviour, without late writes, and for calls that do not overlap |
| `LoopReconcilerProofs`, `LoopReconcilerSafety` | theorems of every behaviour (section 5) |
| `LoopReconcilerConditional` | theorems under hypotheses about workers, faults and overlap (section 5) |
| `LoopDispatch` | `loop start`: lease lock, validation, creation, binding and release of cards, against stop, expiry and cancel |
| `QuestionDecisions` | decision tool and `loop answer` |
| `DecisionContract` | abstract: a question is resolved once, workers are told its resolution |
| `CheckpointCommit` | `loop checkpoint`, `authorize-commit`, `commit` |
| `ProjectStore` | state files, their locks, the active project, and the commands `register`, `use`, `lease`, `verify`, `simulate`, `off`, `stop`, `status` |
| `ExecutionBriefs` | composed with `ProjectStore`: `brief`, `execute`, `approve`, `revoke`, `run`, and `loop start` up to its dispatch |
| `LoopDispatchProofs`, `QuestionDecisionsProofs`, `CheckpointCommitProofs`, `ProjectStoreProofs`, `ExecutionBriefsProofs` | invariants and theorems of these modules |
| `MC*` | instances for TLC: symmetry sets and definitions the configurations need |

### LoopReconciler

A step is one external call or one durable write. The variables `loop`, `results`
and `acceptance` are the files; `task`, `verdict`, `examined` the board (`examined`
remembers the worktree version a verifier looked at); `content`, `head`, `remote`
the worktree's files, its HEAD and the target branch as version numbers; `revoked`
the lost authority. Each process of `Syncers` has a program counter `pc`, the
snapshot `snap` of the record it was called with, the revision `rev` of a
promotion, the status `plan` it will write, and for cancel its position `aim` and
whether anything is `unconfirmed`. `accepting` is the accept command.

Cards are named by role and cycle, `Work(c)` and `Verify(c)`; these are the
idempotency keys, so creating one twice returns the existing card, as on the board.
Actions carry the names of the calls: `ShowDevelopment`, `ShowVerifier`,
`SaveEvidence`, `BindEvidence` (the two writes of `record_verification_evidence`),
`EnterMerging`, `InspectWorktree`, `CommitWorktree`, `ResolveHead`, `BindRevision`,
`Push`, and so on. `CallFails` is a reported failure at any of these calls,
`ReplyLost` one that took effect, `Crash` the death of the process anywhere.

The tool hook goes by the status of the loop and not by that of the card, so a worker
that goes on after its card may still act. `LateWrite` is an edit of such a worker;
`LateContent` bounds the versions it may write. In `MERGING` the hook lets the
Development worker run the commands of the promotion itself (`GitAllowed`,
`policy_hook.py:203-245`): `LateCommit` is its `git add` and `git commit`, `LatePush`
its `git push`. `LateGit` says which of them occur.

What is coarser than the code: a caller reads record, project state and profile in
one step; `git add` and `git commit` are one step; the lease's capabilities and
workspace count as part of "replaced"; archived cards, a record unreadable when a call begins,
a missing profile, `stop_loop` without a plugin runtime and the recovery telemetry
are left out; a worker that blocks has not edited anything.

### LoopDispatch

Several loops and sessions. A session goes through the steps of `start_loop`
(acquire the lease's lock, validate, write the record) and of `dispatch` (validate
the contract, preflight, create two cards, bind, promote); `call` holds the lease id
it read at the start, which may be replaced since. Sync and cancel of a loop are one
step here, because LoopReconciler has their steps. The preflight (Git, gateway,
project, board) succeeds or not. An approved brief is presupposed.

### QuestionDecisions

One card, its workers one after another, the decision artifacts and the pending
question of the record. `RecordNew`, `RecordReplay`, `RecordConflict` are
`record_question_decision`, atomic under the loop's lock except for a worker that
dies between its two writes (`WorkerDies`); `Stage`, `Unblock`, `Finalize` are
`loop answer`. The reconciler writes statuses it has read earlier. Cancel is one
process that goes through its calls on the card: `RequestCancel`, `CancelTask` (show),
`ReclaimTask`, which is what ends the worker's call in flight, `BlockTask`, and
`ConfirmCancel`; `CancelFails` is a failure of one of them. Contents of questions are
the two kinds that `decide_question` tells apart, with a usable suggestion and without;
it does not look at their categories (section 4). A remediation card asks through
the same tool; its questions and the cancellation of a second card are left out.

### CheckpointCommit

HEAD, index and worktree as functions from paths to versions; Git status compares
them path by path. A digest gives for each path of the evidence its version and the
paths hashed before it, so two digests are equal exactly if the same was hashed in
the same order. Each command is a sequence of steps on the record it read. The loop
was accepted while its worktree still had changes: after a normal promotion the
worktree is clean and every checkpoint is refused, so these commands matter to loops
accepted before promotion. `Promote` is a whole sync of such a loop in one step, that
of a clean worktree included, which binds HEAD as the revision; its own failures are
those of LoopReconciler. Size limits, symlinks and the secret scan only refuse and
are left out.

### ProjectStore

`state` is the content of each project's file and of the legacy file (`NoProject`),
reduced to what decides: the label, and the project and workspace of registration,
lease and profile. `active` is the manifest. A command is given (`Begin`), and then
makes one access after another. Each access looks up the active project (`Resolve`)
and afterwards loads, mutates or saves under the lock of that file; `c.at` is the
position of the access in the command, and `AfterLoad` what the command does with
what it read. Locks are not state of their own: a load, mutation or save with a
project is one step, enabled while nobody holds the lock. Before the first
registration the code computes the path of the lock, of the file it reads and of the
file it writes separately (`storage.py:315-345`); there `Guard`, `Load` or `Mutate`,
and `Write` are steps, and `guard` is the lock in between. A load of a missing or
unreadable file writes the default (`Load`, `Damage`).

`simulate` saves nine labels one after another, each a step of its own; it starts
only from three labels, and only the first of its saves is preceded by a look at the
kill switch. `off` and `stop` save once. All of them save the whole content they
have in memory.

Two observers are no state of the code. `lossy` collects the files in which a
command overwrote something else than it had read or written last, or that were
damaged; `registered` what humans have registered.

Left out: the damage of the manifest (read as "no active project"), lease ids, expiry
and capabilities, which only refuse, the counters `loop_iteration` and `run_count`,
and workspaces below the registered one.

### ExecutionBriefs

The module extends ProjectStore; its commands stop at `loaded` with the state they
have loaded, and go on with brief files. `Generate` creates the empty file, `Read`
reads a whole one, `Empty` and `Fill` are the two halves of `Path.write_text`;
`HandOver` is the writing of a run package or the start of a dispatch, after the
checks of `_validate`, `_validate_start` and `_validate_contract` on the loaded state
(`Fits`). A loop loads the verification profile, that is the project's state once
more, before (`LoadProfile`). `StoreStep` is a step of the store alone. `Decline` is
any refusal, those by expiry, capabilities, phase and loop limit included.
`settled` is an observer: the last decision on a brief while no other overlapped it,
and the number of the first command that begins after it.

Brief versions (a count of the directory, which two overlapping `brief`s can give
twice), tasks, risks and the prompt are left out.

## 3. Runs

`tlc -config <cfg> <module>`; the configuration is `<module>_<run>.cfg`.

| Run | Module | Expected | Shows |
|---|---|---|---|
| `concurrent` | MCLoopReconciler | pass | two processes, two cycles, all human acts: evidence, remediation, acceptance and the promotion contract, also while a late worker commits; nothing but what is accepted is on the branch |
| `recovery` | MCLoopReconciler | pass | two processes, a fault, an emergency stop, fairness: settling, the kill switch, no lost revision, no unverified commit, by a late worker neither, and the invariant behind the last two |
| `sequential` | MCLoopReconciler | pass | one process, every loss of authority, two faults, a late worker that edits, commits and pushes: truthful cancellation, monotone cycles, the invariant of both; no commit or push before stored evidence |
| `dispatch` | MCLoopDispatch | pass | two sessions, two loops, two leases, a fault, stop and expiry: the limit of the lease, released cards are bound |
| `answers` | MCQuestionDecisions | pass | two questions, two answers, two humans, a fault, a cancellation: the decision contract |
| `commit` | MCCheckpointCommit | pass | two sessions, an edit, a fault: the commit is the checkpoint; exactly when an unchanged worktree keeps its digest |
| `project` | MCExecutionBriefs | pass | two projects, two workspaces, two sessions, all commands: consistent files, isolated projects, the graph, decisions and revocations that hold |
| `crash_before_push` | MCLoopReconciler | violation | a promotion reported that never happened |
| `accepted_before_push` | MCLoopReconciler | violation | a result accepted of which nothing is pushed |
| `released_after_stop` | MCLoopDispatch | violation | the card of a canceled loop is released |
| `unanswerable` | MCQuestionDecisions | violation | a blocked card that no answer releases |
| `contamination` | MCExecutionBriefs | violation | the state of one project in the file of another |

**Bounds.** Two processes suffice for every pairwise interleaving; the proofs cover
any number. Two remediation cycles (`concurrent`) are the least in which an old
snapshot can be a whole cycle behind and a cycle other than the first and the last
exists; the code allows three. The proofs cover every `MaxCycles`. One fault per run
is a failed call, a lost reply or a crash at any step; `sequential` has two, and so
reaches a crash during the repair of a failure. `LateContent` bounds the versions a
worker may still write after its card is done. `LateGit` has no push in `concurrent`
and `recovery`, because a late push refutes their properties (section 4), and both
commands in `sequential`. Two loops over two leases with one loop each make both
sessions compete for the last loop of a lease. Two questions make a later one replace an
earlier one; two humans with two texts are the least for a conflict. Three paths,
one of them outside the evidence, tell a commit of too much from the right one, and
one order of hashing from another.

`project` allows three events (`MaxEvents`): three commands, or two and a crash or a
damaged file, of two sessions, in a fresh installation or in one where both projects
are registered and there may be an approved brief. Three commands are what the longest hazards
take: one that is under way, a registration or switch in between, and one that acts
on the result; a revocation, an overlapping approval and a run; a lease approval, a
switch, a run. The proofs cover every number of projects, sessions, commands and
briefs.

**Deadlock** is checked everywhere except in the runs of LoopDispatch, where after an
emergency stop commands are refused and every process may be done for good, and of
ExecutionBriefs, where no command is given after the bound `MaxEvents`.

**Symmetry** is used for processes, sessions, loops, humans, questions, projects and
workspaces, never in the run with liveness properties.

**Fairness** (`FairSpec` of LoopReconciler). A call that has begun goes on, because
every external call has a timeout: weak fairness of `SyncStep`. Recovery runs at
every session start, before each command and at least every 300 s of tool activity
(`src/__init__.py:37-68`): strong fairness of `RecoverActiveLoops`, strong because a
command the same process runs disables it for a while. It does not say that events
arrive: `ReconcileTaskEvent` has no fairness. The Kanban dispatcher claims ready
cards, and a claimed card ends at its `--max-runtime`: weak fairness of `Claim` and
of finishing or blocking. Humans, faults and revocations are not fair.

## 4. What the code does otherwise than it says

Runs with expected violations, each on one property; PROJECT.json quotes the
sentences they contradict.

- *crash_before_push*: evidence is bound with the status
  `AWAITING_HUMAN_ACCEPTANCE` before `MERGING`. Together with a revision bound by a
  failed push this is what sync takes for "already promoted". `PromotedSafety`
  (section 5) says that it takes a fault or an overlap; without a fault TLC needs
  three calls at once (one has bound the revision and not pushed it yet, one binds the
  evidence, one reads).
- *accepted_before_push*: the write that binds the evidence sets
  `AWAITING_HUMAN_ACCEPTANCE`, and `MERGING` comes with a later write. `accept_loop` asks
  for the status and a bound result only, so a human accepts in between, while nothing
  is committed or pushed. What holds instead is `OnlyAcceptedIsPushed`, in
  `concurrent` and as a theorem: the branch never has another version than the
  accepted one.
- *released_after_stop*: dispatch looks at the kill switch before it creates cards
  and not when it releases one. `HaltSafety` shows that a cancellation between the
  binding of the cards and the release is the only way to it.
- *unanswerable*: `loop answer` unblocks the card before the answer is final. A
  worker claimed at once asks again, sees a staged answer, and blocks its card;
  finalizing then closes the question. A worker that dies between the two writes of
  a new question leaves an equally unanswerable one, and a second question replaces
  a pending first one. `AnswerableUndisturbed` shows that it takes a fault, a
  cancellation, two humans who answer at once, or such an early worker. Each of them
  suffices. An unblock that comes late releases a card that waits for another question
  by then; TLC needs three questions for this one. A cancellation blocks the card while
  its worker is about to, so that an answer releases it too early.
- *contamination*: `save_state` looks up the active project again, so `off`, `stop` or
  `simulate` that began for one project writes that project's whole state into the
  file of another that a `register` or `use` has made active meanwhile. `OneByOne`
  shows that it takes two commands at once.

Met while modelling, without a run of their own:

- A deleted path that sorts before a remaining one is hashed in another position by
  `create` (`checkpoint.py:317-330`) than by `authorize-commit` (`checkpoint.py:231`), so
  an unchanged worktree is refused with "Worktree contents changed after checkpoint;
  create a new checkpoint", and a new checkpoint is the same. `DigestDependsOnOrder`, in
  `commit` and as a theorem, says that this is when, and only when, it happens.
- A Development worker that outlives its card may run the `git commit` and `git push` of
  the promotion while the loop is in `MERGING`, so the branch can have a revision before
  the record has it, although README.md:69 and docs/ARCHITECTURE.md:117 say that the
  record comes first. With `LateGit = {"commit", "push"}` TLC refutes `PushIsRecorded`.
  `EvidenceFirst` shows that even so nothing is committed or pushed before accepted
  evidence is stored; `CommitSafety` that what it commits is verified if it edits nothing.
- A worker that outlives its card has its edits committed and pushed though no verifier
  saw them ("all verified worktree changes", docs/ARCHITECTURE.md:116). With
  `LateContent = 1` TLC refutes `CommitIsVerified`. With `LateContent = 2` it shows besides
  that a HEAD refused because it is not the bound revision is bound by that refusal
  (`loop_reconciler.py:500`) and pushed by the next sync.
- `decide_question` answers every question with a usable suggestion, whatever its
  category; its docstring calls this blanket approval. README.md:21 promises it for
  `routine_low_risk` questions only, and `tests/test_decision_runtime.py:81-214` expects
  a human to be asked about security and architecture. `DecisionContract` says that a
  question is resolved once, not by whom.
- `lease approve` reads the active project with its state and looks it up again to write
  (`commands.py:507`), so a `use` of another session in between puts the lease of the first
  project into the state of the second. Nothing runs under it (`Fits`), but the second
  project has lost its own lease.
- Cancel blocks the cards of the record its caller read, and then writes `CANCELED`;
  a sync in between has bound and released a remediation. `CancelSafety` (section 5)
  shows that it takes two overlapping calls, or a human who releases a card that
  cancel has just blocked.
- Sync looks at no status, a status write overwrites any, and so does finalizing an
  answer: a canceled loop can become active again.
- `STOPPED` is "terminal, no exits except manual reset" (`state_machine.py:74`), yet a
  `simulate` under way saves its next label over it; that file is `lossy` then.
- A command that overlaps another loses the other's update: an `off` or `simulate`
  brings a replaced lease back. `FileConsistent` says what remains: each file is some
  coherent state.
- "Workspace root is immutable after registration" (docs/PROJECT_SCOPING.md:106), but
  registering a project again replaces workspace and registration.
- A registration that comes while the first command of a fresh installation writes the
  missing legacy file back can be overwritten by that default.
- Briefs are "immutable" (docs/PHASE2_PLAN.md:62), but `approve` and `revoke` write the
  file again in place; a process that dies in between leaves an empty file, which is
  no brief any more.
- The verifier card is not created blocked (SECURITY.md:14 says so of both cards);
  it only waits for its parent. `ReleasedIsBound` shows that this is enough.
- `NEEDS_HUMAN` is an active status of the tool hook, although README.md:64 lists the
  "human-decision pause" among the reasons to block.
- `/autopilot stop` runs recovery before it activates the kill switch
  (`src/__init__.py:50`), and passes over loops in `MERGING`, `NEEDS_HUMAN`,
  `AWAITING_HUMAN_ACCEPTANCE` and `WAITING_FOR_DEVELOPMENT_EXECUTOR`.
- While a remediation is blocked, sync shows `VERIFYING`, also over a `NEEDS_HUMAN`;
  `RecoverySettles` names this exception.
- A dispatch that dies stays `WAITING_FOR_DEVELOPMENT_EXECUTOR`: it uses up its
  lease, recovery passes it over, `loop stop` refuses it. A dispatch that loses the
  reply of promote is `DISPATCH_BLOCKED`, "terminal", with a released card.
- When `git commit` of `loop commit` fails, the staged paths have other status codes,
  so neither the old checkpoint nor a new one fits any more. A crash after it loses
  the revision. Edits in the course of a commit are committed (`RaceEdits = TRUE`).

## 5. Proofs

Assumed are the `ConstantsAssumption`s and `BriefAssumption`: bounds are natural
numbers, a lease allows at least one loop, `LateGit` has no other commands than commit
and push, `None` and the like are no members of the sets they extend, answers are choices, leases given as text name a project. Sets of
processes, sessions, loops, humans, questions, projects, workspaces, briefs and paths
are arbitrary, infinite ones included. Some theorems have a hypothesis besides, stated
in the theorem. Each is the assumption of the run that checks the property, or tells
when what a run with an expected violation shows cannot happen, and is needed: TLC
refutes the property once it is dropped.

- `CommitSafety` of CheckpointCommit: nobody edits the worktree in the course of a
  commit (`RaceEdits = FALSE`, as in `commit`).
- `LateContent = 0`, as in `concurrent` and `recovery`: a worker edits nothing after
  the end of its card; it may commit and push. The code does not enforce it (section 4),
  so these theorems say what the plugin guarantees for workers that do leave the
  worktree alone. With `LateContent = 2` TLC refutes `CommitIsVerified`,
  `OnlyAcceptedIsPushed`, `ImplementsContract` and, with a fault, `PushIsRecorded`.
- `"push" \notin LateGit`, for `PushSafety` and `Refinement`: a worker pushes nothing
  after the end of its card. Otherwise TLC refutes both (section 4).
- `[]NoOverlap`: one call of sync or cancel at a time, as with the one process of
  `sequential`; here the calls may still come from any number of processes. Accepting,
  workers, the board, revocations and faults interleave with the call. Two processes
  refute `CyclesNeverReturn` and `CancelIsConfirmed`.
- `"unblock" \notin HumanActs`, as in `sequential`: otherwise a human can release a card
  between the step in which cancel blocks it and the step in which it writes `CANCELED`.
- `MaxFaults = 0`, for `PromotedSafety` alone; with a fault, `crash_before_push`
  refutes it.
- `NotCanceledAtPromotion`, for `HaltSafety`: no step leaves a loop canceled whose
  dispatch has bound its cards and not released the first one yet. Otherwise see
  `released_after_stop`.
- `[]OneCommand`, for `OneByOne`: no two slash commands work on state files at a time;
  commands of any number of sessions may follow each other, wait with their copies for
  other components, die, and meet damaged files. Otherwise see `contamination`.
- `[]Undisturbed`, for `AnswerableUndisturbed`: no fault so far, nobody cancels, one
  human at a time between staging and finalizing, and no worker runs between the unblock
  of its card and the finalize. The statuses the reconciler writes interleave with all
  of it. Otherwise see `unanswerable`.

| Theorem | Module | Statement |
|---|---|---|
| `TypeCorrect` | LoopReconcilerProofs | `Spec => []TypeOK` |
| `Invariance` | LoopReconcilerSafety | `Spec => []InductiveInvariant` |
| `PromotionSafety` | LoopReconcilerSafety | `Spec => []VerifiedPromotion` |
| `RemediationSafety` | LoopReconcilerSafety | `Spec => []RemediationJustified` |
| `PairSafety` | LoopReconcilerSafety | `Spec => []PairStagedBeforeRelease` |
| `AcceptanceSafety` | LoopReconcilerSafety | `Spec => []AcceptanceNamesResult` |
| `EvidenceFirst` | LoopReconcilerConditional | `Spec => []EvidenceBeforeGit` |
| `PromotionInvariance` | LoopReconcilerConditional | `LateContent = 0 => (Spec => []PromotionInvariant)` |
| `PushSafety` | LoopReconcilerConditional | `LateContent = 0 /\ "push" \notin LateGit => (Spec => []PushIsRecorded)` |
| `CommitSafety` | LoopReconcilerConditional | `LateContent = 0 => (Spec => []CommitIsVerified)` |
| `AcceptedSafety` | LoopReconcilerConditional | `LateContent = 0 => (Spec => []OnlyAcceptedIsPushed)` |
| `Refinement` | LoopReconcilerConditional | `LateContent = 0 /\ "push" \notin LateGit => (Spec => ImplementsContract)` |
| `SnapshotSafety` | LoopReconcilerConditional | `Spec /\ []NoOverlap => []SnapshotCurrent` |
| `CyclesSafety` | LoopReconcilerConditional | `Spec /\ []NoOverlap => CyclesNeverReturn` |
| `CallInvariance` | LoopReconcilerConditional | `"unblock" \notin HumanActs => (Spec /\ []NoOverlap => []CallInvariant)` |
| `CancelSafety` | LoopReconcilerConditional | `"unblock" \notin HumanActs => (Spec /\ []NoOverlap => CancelIsConfirmed)` |
| `PromotedSafety` | LoopReconcilerConditional | `MaxFaults = 0 => (Spec /\ []NoOverlap => []AlreadyPromotedIsPushed)` |
| `TypeCorrect` | LoopDispatchProofs | `Spec => []TypeOK` |
| `LeaseSafety` | LoopDispatchProofs | `Spec => []LoopsWithinLease` |
| `ReleaseSafety` | LoopDispatchProofs | `Spec => []ReleasedIsBound` |
| `HaltSafety` | LoopDispatchProofs | `Spec /\ [][NotCanceledAtPromotion]_vars => []CanceledIsHalted` |
| `TypeCorrect` | QuestionDecisionsProofs | `Spec => []TypeOK` |
| `DecisionRefinement` | QuestionDecisionsProofs | `Spec => ImplementsDecisions` |
| `AnswerSafety` | QuestionDecisionsProofs | `Spec => []AcknowledgedAnswer` |
| `AnswerableUndisturbed` | QuestionDecisionsProofs | `Spec /\ []Undisturbed => []BlockedIsAnswerable` |
| `TypeCorrect` | CheckpointCommitProofs | `Spec => []TypeOK` |
| `CommitSafety` | CheckpointCommitProofs | `RaceEdits = FALSE /\ Spec => CommitMatchesCheckpoint` |
| `DigestsAgreeExactly` | CheckpointCommitProofs | `Spec => []DigestDependsOnOrder` |
| `StoreSafety` | ProjectStoreProofs | `StoreSpec => []StoreInvariant` |
| `StoreOneByOne` | ProjectStoreProofs | `StoreSpec /\ []OneCommand => []NoContamination /\ OnlyDamageLoses` |
| `StoreImplemented` | ExecutionBriefsProofs | `Spec => StoreSpec` |
| `TypesHold` | ExecutionBriefsProofs | `Spec => []TypeOK` |
| `FilesStayConsistent` | ExecutionBriefsProofs | `Spec => []FileConsistent` |
| `ProjectsStayIsolated` | ExecutionBriefsProofs | `Spec => []Isolated` |
| `LabelsFollowGraph` | ExecutionBriefsProofs | `Spec => FollowsGraph` |
| `DecisionsKept` | ExecutionBriefsProofs | `Spec => []DecisionKept` |
| `RevocationsHold` | ExecutionBriefsProofs | `Spec => RevocationHolds` |
| `OneByOne` | ExecutionBriefsProofs | `Spec /\ []OneCommand => []NoContamination /\ OnlyDamageLoses` |

*LoopReconciler.* None of the four properties is inductive. What a call writes it has read several
steps ago, and in between other processes may have run whole calls. The invariant
therefore says, for each program point, which of the facts read then are still
true: a call that stages a pair has a cycle left and the verifier of its snapshot
has failed (`CycleLeft`, `StagingSound`); a call that promotes has the verifier of
its snapshot passed and its result stored (`PromotionSound`). These survive other
calls because the facts are stable: a card that is done stays done with its verdict,
and results are never removed. That two calls cannot disagree rests on
`CyclesAgree` (counter, remediation and verifier of record and snapshots are of one
cycle) and `EarlierFailed` (a verifier exists only if all earlier ones failed): if
one verifier has passed, no later one exists, so all stored results are one and the
same, and a late `BindEvidence` cannot replace the result a human accepted.

The type invariant contains more than types: that `count` stays within the cycles
needs `CycleLeft`, so the two are proved together (`TypeCorrect`). The step of
`Invariance` has one lemma for each group of actions and under it one step per
conjunct that they can disturb.

*LoopReconciler, promotion.* `PromotionInvariant` says why the version a verifier
passed is the one that is committed, recorded and pushed, although nothing holds the
worktree still. A verifier runs only after the work of its cycle is done
(`VerifierAfterWork`), and a pass ends all work: a card that could still write belongs
to an earlier cycle, whose work is done, or to a later one, which exists only if this
verification failed (lemma `PassedEndsWork`, from `EarlierFailed` and
`RemediationJustified`). So once a verifier has passed the content of the worktree is
what it examined (`PassedIsContent`), HEAD, once it has moved from the baseline, is
that content and stays (`HeadSound`), whoever commits it, and every revision that a
call, the record or the remote knows is HEAD (`RevisionsSound`); `ResolveHead` never
refuses one. That the record has what the remote has (`PushIsRecorded`) holds on top of
this as long as only calls push: they are past `BindRevision` then. The
refinement of `PromotionContract` has one lemma for each of its five steps
(`SaveApproves`, `CommitCommits`, `BindRecords`, `PushPushes`, `AcceptCloses`) and one
for the steps that stutter. `EvidenceFirst` needs none of this: only a
call past `SaveEvidence` (`PromotionSound`) or a worker in `MERGING`, which is entered
with stored evidence (`ResultsSound`), reaches HEAD and the branch.

*LoopReconciler, one call at a time.* `SnapshotCurrent`: at the program points at which
a call relies on the cycle it has read, that is still the loop's, since cycles are
bound by calls only. Hence a `BindRemediation` counts on. `CancelSound`: the cards that
cancel has been through are done or blocked, unless it has noted that it could not
confirm one, and stay so, since only a call of sync releases a blocked card
(`HaltedStays`). `BoundIsPushed`: a bound revision that is not pushed is one that the
call under way is about to push.

*LoopDispatch.* `IInv` has the facts of each program point. `CountSound`: whoever
counts the loops of a lease has its lock and keeps it until the record is written,
so what was counted is still so; other writes neither create loops nor change their
lease. `RecordSound`: statuses the emergency stop looks for occur in bound loops
only, so a cancellation never makes a record of nothing. `CallSound`: a dispatch
that is about to release has bound its loop, and no step unbinds one. `HaltInv` adds
that the loop of a dispatch about to release is not canceled. Binding writes `QUEUED`
over any earlier cancellation, so only one after it matters; and whoever cancels
blocks the cards, which no other step releases.

*QuestionDecisions.* `StatusOfContent` ties the status of an artifact to its content:
an artifact that answers itself is never staged. A replay has the content of the
artifact, so what the worker is given from its own content is the resolution.
`AnswerKept`: from staging on, the artifact holds the text of everybody who is
answering that question, because a different text is refused. With these, recording
a self-answering question and finalizing an answer are `Resolve`, a reply is `Tell`,
and every other step is a stutter of DecisionContract. `AnswerableUndisturbed` rests
on `OpenInv`: at most one question is open, it is the pending one, and its card is
blocked, about to be, or just released by the human who finalizes next. So a running
worker finds no question open, and pauses for none but the one it records
(`RunningIsClosed`). `IInv` of both modules was
checked by TLC on the instances of `dispatch` and `answers` before it was proved.

*CheckpointCommit.* What a commit is about is only known some steps after it was
compared, so `CommitInv` carries the comparison along: no path outside the evidence
differs (`OthersUntouched`, from the inspection on), the paths of the evidence are
those of the checkpoint the call was given (`HoldsCheckpoint`, from the comparison
on), and the index is the worktree (`StagedIsTree`, after `git add`). Other sessions
and the reconciler do move HEAD and index in between, but only to the worktree
(`HeadMoves`), and nothing but an edit moves that. `ArchivedInOrder`: whatever is
stored was hashed files first (`FilesFirst`), by `HashForCheckpoint` alone; that this
order and that of the paths give one digest is then a matter of the worktree
(`DigestsAgree`).

*ProjectStore.* `StoreInvariant` says of every file that it is coherent, and of every
command (`Sound`) that its copy is, that the copy is of the project it was read from
unless that file is lossy, that the label it read allows the one it will save, and
that a registration or lease it will write comes from a human or from a copy. Coherence refers to what
has been registered and to the files that exist; both only grow, so a stale copy
stays coherent: this is why lost updates do not make mixtures. `CleanInv` says what a
command may rely on while no other works on the files (`CleanStep`): the project it
has read from is still active when it saves or writes, and the file holds what it has
read, so that it overwrites nothing (`OnlyDamageLoses`). `Isolated` and `FollowsGraph`
then hold of every file that was not damaged.

*ExecutionBriefs.* `StoreImplemented` shows that the composition does to state files
only what the store does, and carries the store's invariant over. `DraftSound` adds
what a session has checked of the brief it has read. A copy that a consumer holds was
read before a revocation or the revocation is younger than the command
(`NotRevoked`); `SettledSound` ties the file to the decision as long as no other
decision is about to write it.

Only model-checked: liveness (`RecoverySettles`, `KillQuiesces`), which is beyond the
prover, as is `ENABLED` in the fairness it rests on. That the hypotheses above are
needed is a result of TLC too, on instances of the runs with the constant changed.

## 6. Plan

1. Done: `LoopReconciler`, `LoopDispatch`, `QuestionDecisions`, `CheckpointCommit`,
   `ProjectStore` and `ExecutionBriefs` with their proofs.
2. A composition of `LoopDispatch` and `LoopReconciler`, so that a cancel between
   binding and release is followed call by call.
3. Pure operators with reference definitions: evidence validation, the allowlists of
   the tool hook, lease validation, phase readiness.

## 7. Not modelled

The audit log, the read-only adapters and the end-to-end script, which keep no
protocol (PROJECT.json gives the reason for each). Of components that are modelled
partly: the allowlists of the tool hook, and the parsing of profiles, leases, registrations and evidence,
which are decisions on text without state; scripted simulations that only tests call;
the bodies of cards, prompts and reports.
