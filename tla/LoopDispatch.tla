----------------------------- MODULE LoopDispatch -----------------------------
(***************************************************************************)
(* `/autopilot loop start`: several sessions start loops of one project    *)
(* under its lease, and dispatch each of them to the Kanban board: two     *)
(* cards are created, bound in the loop record, and released.              *)
(*                                                                         *)
(* A command works on the project state (the lease) it read when it        *)
(* started.  The lock of the lease spans the count of its loops and the    *)
(* write of the new record; no lock spans the dispatch.                    *)
(*                                                                         *)
(* Meanwhile the lease expires or is replaced, an emergency stop comes,    *)
(* loops are synced and canceled (in one step here, see LoopReconciler for *)
(* theirs), the dispatcher claims cards, and a human unblocks them.        *)
(***************************************************************************)
EXTENDS Integers, FiniteSets

CONSTANTS
  Sessions,
  Loops,          \* ids of the loops that may be started
  Leases,         \* leases that may be approved, as numbers, one at a time
  MaxIterations,  \* max_loop_iterations of a lease
  MaxFaults,      \* bound: failed calls, lost replies and crashes
  NoSession, NoLoop

ASSUME ConstantsAssumption ==
  /\ Leases \subseteq Nat /\ 1 \in Leases
  /\ MaxIterations \in Nat \ {0}
  /\ MaxFaults \in Nat
  /\ NoSession \notin Sessions /\ NoLoop \notin Loops

VARIABLES
  loop,       \* every loop's record: status, lease, and whether it binds cards
  work,       \* Kanban status of the Development card of every loop
  verify,     \* Kanban status of its verifier card
  lease,      \* id of the project's lease
  expired,    \* leases whose time is over
  kill,       \* the kill switch
  stopping,   \* emergency stop: "no", "list", or "cancel" for the loops in
  targets,    \* targets
  lock,       \* per lease: the session that holds its lock, or NoSession
  call,       \* local state of the command each session runs
  faults

recordVars == <<loop, lock>>
cardVars == <<work, verify>>
authorityVars == <<lease, expired, kill, stopping, targets>>
vars == <<recordVars, cardVars, authorityVars, call, faults>>

-----------------------------------------------------------------------------
\* "absent": no record yet.
Statuses == {"absent", "WAITING_FOR_DEVELOPMENT_EXECUTOR", "QUEUED", "RUNNING",
             "VERIFYING", "NEEDS_HUMAN", "DISPATCH_BLOCKED", "CANCELED"}

Recoverable == {"QUEUED", "RUNNING", "VERIFYING"}
StopStatuses == {"QUEUED", "RUNNING", "VERIFYING"}
Terminal == {"DISPATCH_BLOCKED", "CANCELED"}

NoRecord == [status |-> "absent", lease |-> 0, bound |-> FALSE]
NoCall == [step |-> "idle", lease |-> 0, loop |-> NoLoop]

Init ==
  /\ loop = [l \in Loops |-> NoRecord]
  /\ work = [l \in Loops |-> "absent"]
  /\ verify = [l \in Loops |-> "absent"]
  /\ lease = 1 /\ expired = {} /\ kill = FALSE
  /\ stopping = "no" /\ targets = {}
  /\ lock = [n \in Leases |-> NoSession]
  /\ call = [s \in Sessions |-> NoCall]
  /\ faults = 0

Mine(s) == call[s].loop
Goto(s, step) == call' = [call EXCEPT ![s].step = step]
Return(s) == call' = [call EXCEPT ![s] = NoCall]
SetStatus(l, status) == loop' = [loop EXCEPT ![l].status = status]

\* The lease the command has read has run out by the clock; that it was
\* replaced goes unnoticed.
LeaseOver(s) == call[s].lease \in expired

-----------------------------------------------------------------------------
(* start_loop                                                              *)

\* The state, with its lease, is read; commands are refused under the kill
\* switch.
Start(s) ==
  /\ call[s].step = "idle" /\ ~ kill
  /\ call' = [call EXCEPT ![s] = [NoCall EXCEPT !.step = "lock", !.lease = lease]]
  /\ UNCHANGED <<recordVars, cardVars, authorityVars, faults>>

\* Mutant: the count of the loops is not under the lock.
AcquireNothing(s) ==
  /\ call[s].step = "lock"
  /\ Goto(s, "validate")
  /\ UNCHANGED <<recordVars, cardVars, authorityVars, faults>>

AcquireLease(s) ==
  LET n == call[s].lease IN
  /\ call[s].step = "lock" /\ lock[n] = NoSession
  /\ lock' = [lock EXCEPT ![n] = s]
  /\ Goto(s, "validate")
  /\ UNCHANGED <<loop, cardVars, authorityVars, faults>>

Unlocked(s) == [n \in Leases |-> IF lock[n] = s THEN NoSession ELSE lock[n]]
UsedLoops(n) == {l \in Loops : loop[l].status # "absent" /\ loop[l].lease = n}

\* _validate_start: the lease has not expired and has a loop left.
ValidateStart(s) ==
  /\ call[s].step = "validate"
  /\ IF LeaseOver(s) \/ Cardinality(UsedLoops(call[s].lease)) >= MaxIterations
       THEN lock' = Unlocked(s) /\ Return(s)
       ELSE lock' = lock /\ Goto(s, "write")
  /\ UNCHANGED <<loop, cardVars, authorityVars, faults>>

\* A fresh record, then the lock is released.
WriteLoop(s, l) ==
  /\ call[s].step = "write" /\ loop[l].status = "absent"
  /\ loop' = [loop EXCEPT ![l] = [status |-> "WAITING_FOR_DEVELOPMENT_EXECUTOR",
                                  lease |-> call[s].lease, bound |-> FALSE]]
  /\ lock' = Unlocked(s)
  /\ call' = [call EXCEPT ![s].step = "contract", ![s].loop = l]
  /\ UNCHANGED <<cardVars, authorityVars, faults>>

-----------------------------------------------------------------------------
(* DevelopmentExecutor.dispatch; whatever fails, mark_dispatch_blocked.    *)

\* _validate_contract: the last look at the kill switch.
ValidateContract(s) ==
  /\ call[s].step = "contract"
  /\ Goto(s, IF kill \/ LeaseOver(s) THEN "blocked" ELSE "preflight")
  /\ UNCHANGED <<recordVars, cardVars, authorityVars, faults>>

\* Git, gateway, project and board are inspected; at least 60 seconds of the
\* lease must be left.
Preflight(s) ==
  /\ call[s].step = "preflight"
  /\ \E ready \in BOOLEAN :
       Goto(s, IF ready /\ ~ LeaseOver(s) THEN "createWork" ELSE "blocked")
  /\ UNCHANGED <<recordVars, cardVars, authorityVars, faults>>

CreateDevelopment(s) ==
  /\ call[s].step = "createWork"
  /\ work' = [work EXCEPT ![Mine(s)] = "blocked"]
  /\ Goto(s, "createVerify")
  /\ UNCHANGED <<recordVars, verify, authorityVars, faults>>

\* Not blocked, but it waits for its parent, the Development card.
CreateVerifier(s) ==
  /\ call[s].step = "createVerify"
  /\ verify' = [verify EXCEPT ![Mine(s)] = "todo"]
  /\ Goto(s, "bind")
  /\ UNCHANGED <<recordVars, work, authorityVars, faults>>

\* Mutant: the record gets its status only.
MarkQueued(s) ==
  /\ call[s].step = "bind"
  /\ SetStatus(Mine(s), "QUEUED")
  /\ Goto(s, "promote")
  /\ UNCHANGED <<lock, cardVars, authorityVars, faults>>

\* mark_dispatched
MarkDispatched(s) ==
  /\ call[s].step = "bind"
  /\ loop' = [loop EXCEPT ![Mine(s)].status = "QUEUED", ![Mine(s)].bound = TRUE]
  /\ Goto(s, "promote")
  /\ UNCHANGED <<lock, cardVars, authorityVars, faults>>

\* Kanban promote, whatever has become of the loop; it fails for a card that
\* is not blocked any more.
Promote(s) ==
  /\ call[s].step = "promote"
  /\ IF work[Mine(s)] \in {"blocked", "todo"}
       THEN work' = [work EXCEPT ![Mine(s)] = "todo"] /\ Return(s)
       ELSE work' = work /\ Goto(s, "blocked")
  /\ UNCHANGED <<recordVars, verify, authorityVars, faults>>

MarkDispatchBlocked(s) ==
  /\ call[s].step = "blocked"
  /\ SetStatus(Mine(s), "DISPATCH_BLOCKED")
  /\ Return(s)
  /\ UNCHANGED <<lock, cardVars, authorityVars, faults>>

\* A call fails, or its answer is lost after it took effect.
CallFails(s) ==
  LET l == Mine(s) IN
  /\ call[s].step \in {"createWork", "createVerify", "promote"}
  /\ faults < MaxFaults /\ faults' = faults + 1
  /\ \/ UNCHANGED cardVars
     \/ /\ call[s].step = "createWork"
        /\ work' = [work EXCEPT ![l] = "blocked"] /\ verify' = verify
     \/ /\ call[s].step = "createVerify"
        /\ verify' = [verify EXCEPT ![l] = "todo"] /\ work' = work
     \/ /\ call[s].step = "promote" /\ work[l] = "blocked"
        /\ work' = [work EXCEPT ![l] = "todo"] /\ verify' = verify
  /\ Goto(s, "blocked")
  /\ UNCHANGED <<recordVars, authorityVars>>

\* The process dies; the operating system releases its lock.
Crash(s) ==
  /\ call[s].step # "idle"
  /\ faults < MaxFaults /\ faults' = faults + 1
  /\ lock' = Unlocked(s)
  /\ Return(s)
  /\ UNCHANGED <<loop, cardVars, authorityVars>>

-----------------------------------------------------------------------------
(* Reconciliation and cancellation of a bound loop.                        *)

Halted(status) == IF status \in {"todo", "running"} THEN "blocked" ELSE status

\* Every unfinished card the record names is blocked.
CancelLoop(l) ==
  /\ work' = [work EXCEPT ![l] = Halted(@)]
  /\ verify' = [verify EXCEPT ![l] = Halted(@)]
  /\ SetStatus(l, "CANCELED")

\* Mutant: the Kanban status is stored as it is.
StatusRaw(l) == work[l]

StatusOfCards(l) ==
  CASE work[l] = "blocked" -> "NEEDS_HUMAN"
    [] work[l] = "running" -> "RUNNING"
    [] work[l] = "done" -> "VERIFYING"
    [] OTHER -> "QUEUED"

\* Recovery looks at active loops; a card's event and `loop sync` at any
\* bound loop.  Authority is looked at first.
Sync(l) ==
  /\ loop[l].bound
  /\ IF kill \/ lease \in expired \/ loop[l].lease # lease
       THEN CancelLoop(l)
       ELSE SetStatus(l, StatusOfCards(l)) /\ UNCHANGED cardVars
  /\ UNCHANGED <<lock, authorityVars, call, faults>>

\* `loop stop`; without bound cards it returns before any write.
LoopStop(l) ==
  /\ loop[l].bound /\ ~ kill /\ loop[l].status \notin Terminal
  /\ CancelLoop(l)
  /\ UNCHANGED <<lock, authorityVars, call, faults>>

\* `/autopilot stop`: the kill file first, then the loops it finds active.
EmergencyStop ==
  /\ stopping = "no"
  /\ kill' = TRUE /\ stopping' = "list"
  /\ UNCHANGED <<recordVars, cardVars, lease, expired, targets, call, faults>>

StopList ==
  /\ stopping = "list"
  /\ stopping' = "cancel"
  /\ targets' = {l \in Loops : loop[l].status \in StopStatuses}
  /\ UNCHANGED <<recordVars, cardVars, lease, expired, kill, call, faults>>

StopLoop(l) ==
  /\ stopping = "cancel" /\ l \in targets
  /\ targets' = targets \ {l}
  /\ CancelLoop(l)
  /\ UNCHANGED <<lock, lease, expired, kill, stopping, call, faults>>

-----------------------------------------------------------------------------
(* The clock, humans, and the Kanban board with its workers.               *)

Expire(n) ==
  /\ n <= lease /\ n \notin expired
  /\ expired' = expired \cup {n}
  /\ UNCHANGED <<recordVars, cardVars, lease, kill, stopping, targets, call, faults>>

\* A new lease replaces the old one; refused under the kill switch.
ApproveLease ==
  /\ ~ kill /\ lease + 1 \in Leases
  /\ lease' = lease + 1
  /\ UNCHANGED <<recordVars, cardVars, expired, kill, stopping, targets, call, faults>>

\* The tool hook: a worker acts only for the card of an active loop under its
\* own lease.
HookAllows(l) ==
  /\ loop[l].bound /\ loop[l].status \notin Terminal
  /\ ~ kill /\ lease \notin expired /\ loop[l].lease = lease

ClaimWork(l) ==
  /\ work[l] = "todo"
  /\ work' = [work EXCEPT ![l] = "running"]
  /\ UNCHANGED <<recordVars, verify, authorityVars, call, faults>>

FinishWork(l) ==
  /\ work[l] = "running" /\ HookAllows(l)
  /\ work' = [work EXCEPT ![l] = "done"]
  /\ UNCHANGED <<recordVars, verify, authorityVars, call, faults>>

ClaimVerify(l) ==
  /\ verify[l] = "todo" /\ work[l] = "done"
  /\ verify' = [verify EXCEPT ![l] = "running"]
  /\ UNCHANGED <<recordVars, work, authorityVars, call, faults>>

\* kanban_block, a timeout of the worker, or its death.
WorkerEnds(l) ==
  /\ \/ work[l] = "running" /\ work' = [work EXCEPT ![l] = "blocked"] /\ verify' = verify
     \/ verify[l] = "running" /\ verify' = [verify EXCEPT ![l] = "blocked"] /\ work' = work
  /\ UNCHANGED <<recordVars, authorityVars, call, faults>>

-----------------------------------------------------------------------------
StartStep(s) ==
  \/ Start(s) \/ AcquireLease(s) \/ ValidateStart(s)
  \/ \E l \in Loops : WriteLoop(s, l)

DispatchStep(s) ==
  \/ ValidateContract(s) \/ Preflight(s) \/ CreateDevelopment(s)
  \/ CreateVerifier(s) \/ MarkDispatched(s) \/ Promote(s)
  \/ MarkDispatchBlocked(s) \/ CallFails(s) \/ Crash(s)

Control(l) == Sync(l) \/ LoopStop(l) \/ StopLoop(l)

Worker(l) == ClaimWork(l) \/ FinishWork(l) \/ ClaimVerify(l) \/ WorkerEnds(l)

Next ==
  \/ \E s \in Sessions : StartStep(s) \/ DispatchStep(s)
  \/ \E l \in Loops : Control(l) \/ Worker(l)
  \/ EmergencyStop \/ StopList \/ ApproveLease \/ \E n \in Leases : Expire(n)

Spec == Init /\ [][Next]_vars

-----------------------------------------------------------------------------
(* Properties.                                                             *)

\* Every variable has its type; a lock is held within start_loop only.
TypeOK ==
  /\ loop \in [Loops -> [status : Statuses, lease : Leases \cup {0}, bound : BOOLEAN]]
  /\ work \in [Loops -> {"absent", "todo", "blocked", "running", "done"}]
  /\ verify \in [Loops -> {"absent", "todo", "blocked", "running"}]
  /\ lease \in Leases /\ expired \subseteq Leases /\ kill \in BOOLEAN
  /\ stopping \in {"no", "list", "cancel"} /\ targets \subseteq Loops
  /\ lock \in [Leases -> Sessions \cup {NoSession}]
  /\ call \in [Sessions ->
       [step : {"idle", "lock", "validate", "write", "contract", "preflight",
                "createWork", "createVerify", "bind", "promote", "blocked"},
        lease : Leases \cup {0}, loop : Loops \cup {NoLoop}]]
  /\ faults \in 0 .. MaxFaults

\* However many sessions start loops at once, and whatever becomes of their
\* dispatch, a lease is consumed by no more loops than it allows.
LoopsWithinLease ==
  \A n \in Leases : Cardinality(UsedLoops(n)) <= MaxIterations

\* A card that a worker may take, or has taken, is named by its loop record
\* and has its verifier: the tool hook, sync and cancel can find it, although
\* dispatches fail and die at any point.
ReleasedIsBound ==
  \A l \in Loops :
    /\ work[l] \in {"todo", "running", "done"} => loop[l].bound /\ verify[l] # "absent"
    /\ verify[l] = "running" => loop[l].bound

\* What the emergency stop and `loop stop` report as canceled stays so: no
\* card of a canceled loop is released.
CanceledIsHalted ==
  \A l \in Loops :
    loop[l].status = "CANCELED" => work[l] \notin {"todo", "running"}
=============================================================================
