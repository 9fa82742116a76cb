-------------------------- MODULE LoopDispatchProofs --------------------------
(***************************************************************************)
(* Proofs about LoopDispatch: a lease is not overdrawn, a released card is *)
(* bound, and a canceled loop stays halted unless it is canceled at one    *)
(* point of its dispatch.                                                  *)
(***************************************************************************)
EXTENDS LoopDispatch, FiniteSetTheorems, TLAPS

USE ConstantsAssumption DEF ConstantsAssumption

-----------------------------------------------------------------------------
(* The inductive invariant.                                                *)

Starting == {"idle", "lock", "validate", "write"}

\* A dispatch works on a loop that has a record, and has a verifier and a
\* bound record when it is about to bind and to release.
CallSound ==
  \A s \in Sessions :
    /\ call[s].step # "idle" => call[s].lease \in Leases
    /\ call[s].step \notin Starting =>
         Mine(s) \in Loops /\ loop[Mine(s)].status # "absent"
    /\ call[s].step \in {"bind", "promote"} => verify[Mine(s)] # "absent"
    /\ call[s].step = "promote" => loop[Mine(s)].bound

\* Only a bound loop is active, and only bound loops are to be stopped.
RecordSound ==
  \A l \in Loops :
    /\ loop[l].bound => loop[l].status # "absent"
    /\ loop[l].status \in StopStatuses \/ l \in targets => loop[l].bound

\* Who counts the loops of a lease, and writes a new one, has its lock; what
\* was counted is still so when the record is written.
CountSound ==
  /\ \A n \in Leases : IsFiniteSet(UsedLoops(n)) /\ Cardinality(UsedLoops(n)) <= MaxIterations
  /\ \A s \in Sessions :
       /\ call[s].step \in {"validate", "write"} => lock[call[s].lease] = s
       /\ call[s].step = "write" => Cardinality(UsedLoops(call[s].lease)) < MaxIterations

IInv == TypeOK /\ CallSound /\ RecordSound /\ CountSound /\ ReleasedIsBound

-----------------------------------------------------------------------------
RecordType == [status : Statuses, lease : Leases \cup {0}, bound : BOOLEAN]

CallType ==
  [step : {"idle", "lock", "validate", "write", "contract", "preflight", "createWork",
           "createVerify", "bind", "promote", "blocked"},
   lease : Leases \cup {0}, loop : Loops \cup {NoLoop}]

LEMMA InitSound == Init => IInv
<1> SUFFICES ASSUME Init PROVE IInv
  OBVIOUS
<1> USE DEF Init
<1>1. TypeOK
  <2>1. NoRecord \in RecordType
    BY DEF NoRecord, Statuses, RecordType
  <2>2. NoCall \in CallType
    BY DEF NoCall, CallType
  <2>3. /\ loop \in [Loops -> RecordType] /\ call \in [Sessions -> CallType]
        /\ lock \in [Leases -> Sessions \cup {NoSession}]
    BY <2>1, <2>2
  <2>4. /\ work \in [Loops -> {"absent", "todo", "blocked", "running", "done"}]
        /\ verify \in [Loops -> {"absent", "todo", "blocked", "running"}]
        /\ faults \in 0 .. MaxFaults
    OBVIOUS
  <2> QED BY <2>3, <2>4 DEF TypeOK, CallType, RecordType
<1>2. CallSound /\ RecordSound /\ ReleasedIsBound
  BY DEF CallSound, RecordSound, ReleasedIsBound, NoRecord, NoCall, Starting,
         StopStatuses
<1>3. \A n \in Leases : UsedLoops(n) = {}
  BY DEF UsedLoops, NoRecord
<1>4. CountSound
  BY <1>3, FS_EmptySet DEF CountSound, NoCall
<1> QED BY <1>1, <1>2, <1>4 DEF IInv

\* The loops of a lease change only when a record is written first.
LEMMA UsedSame ==
  ASSUME \A l \in Loops : /\ loop'[l].lease = loop[l].lease
                          /\ loop'[l].status = "absent" <=> loop[l].status = "absent"
  PROVE  \A n \in Leases : UsedLoops(n)' = UsedLoops(n)
BY DEF UsedLoops

LEMMA UnlockedSound ==
  ASSUME TypeOK, NEW s \in Sessions
  PROVE  /\ Unlocked(s) \in [Leases -> Sessions \cup {NoSession}]
         /\ \A n \in Leases, r \in Sessions : r # s /\ lock[n] = r => Unlocked(s)[n] = r
BY DEF Unlocked, TypeOK

-----------------------------------------------------------------------------
(* Every step preserves the types.                                         *)

\* What a session does to its own state, to the cards and to the record of
\* its loop.
LEMMA GotoType ==
  ASSUME TypeOK, NEW s \in Sessions,
         NEW step \in {"idle", "lock", "validate", "write", "contract", "preflight",
                       "createWork", "createVerify", "bind", "promote", "blocked"},
         Goto(s, step)
  PROVE  call' \in [Sessions -> CallType]
<1>1. call \in [Sessions -> CallType]
  BY DEF TypeOK, CallType
<1>2. \A c \in CallType : [c EXCEPT !.step = step] \in CallType
  BY DEF CallType
<1>3. call' = [call EXCEPT ![s] = [call[s] EXCEPT !.step = step]]
  BY <1>1 DEF Goto
<1> QED BY <1>1, <1>2, <1>3

LEMMA ReturnType ==
  ASSUME TypeOK, NEW s \in Sessions, Return(s)
  PROVE  call' \in [Sessions -> CallType]
BY DEF TypeOK, CallType, RecordType, Return, NoCall

LEMMA StatusType ==
  ASSUME TypeOK, NEW l, NEW status \in Statuses, SetStatus(l, status)
  PROVE  loop' \in [Loops -> RecordType]
<1>1. ASSUME NEW r \in RecordType PROVE [r EXCEPT !.status = status] \in RecordType
  BY DEF RecordType
<1>2. loop \in [Loops -> RecordType] /\ loop' = [loop EXCEPT ![l].status = status]
  BY DEF TypeOK, RecordType, SetStatus
<1> QED BY <1>1, <1>2

LEMMA TypeStart ==
  ASSUME TypeOK, CallSound, NEW s \in Sessions, StartStep(s)
  PROVE  TypeOK'
<1> USE DEF recordVars, cardVars, authorityVars
<1>1. CASE Start(s)
  <2>1. call' \in [Sessions -> CallType]
    BY <1>1 DEF Start, NoCall, TypeOK, CallType, RecordType
  <2> QED BY <1>1, <2>1 DEF Start, TypeOK, CallType, RecordType
<1>2. CASE AcquireLease(s)
  <2>1. call' \in [Sessions -> CallType]
    BY <1>2, GotoType DEF AcquireLease
  <2>2. lock' \in [Leases -> Sessions \cup {NoSession}]
    BY <1>2 DEF AcquireLease, TypeOK
  <2> QED BY <1>2, <2>1, <2>2 DEF AcquireLease, TypeOK, CallType, RecordType
<1>3. CASE ValidateStart(s)
  <2>1. call' \in [Sessions -> CallType]
    BY <1>3, GotoType, ReturnType DEF ValidateStart
  <2>2. lock' \in [Leases -> Sessions \cup {NoSession}]
    BY <1>3, UnlockedSound DEF ValidateStart, TypeOK
  <2> QED BY <1>3, <2>1, <2>2 DEF ValidateStart, TypeOK, CallType, RecordType
<1>4. ASSUME NEW l \in Loops, WriteLoop(s, l) PROVE TypeOK'
  <2>1. call' \in [Sessions -> CallType]
    <3>1. [[call[s] EXCEPT !.step = "contract"] EXCEPT !.loop = l] \in CallType
      BY <1>4 DEF WriteLoop, TypeOK, CallType
    <3> QED BY <1>4, <3>1 DEF WriteLoop, TypeOK, CallType
  <2>2. lock' \in [Leases -> Sessions \cup {NoSession}]
    BY <1>4, UnlockedSound DEF WriteLoop
  <2>3. loop' \in [Loops -> RecordType]
    BY <1>4 DEF WriteLoop, TypeOK, Statuses, RecordType
  <2> QED BY <1>4, <2>1, <2>2, <2>3 DEF WriteLoop, TypeOK, CallType, RecordType
<1> QED BY <1>1, <1>2, <1>3, <1>4 DEF StartStep

LEMMA TypeDispatch ==
  ASSUME TypeOK, NEW s \in Sessions, DispatchStep(s)
  PROVE  TypeOK'
<1> USE DEF recordVars, cardVars, authorityVars
<1>1. call' \in [Sessions -> CallType]
  BY GotoType, ReturnType
     DEF DispatchStep, ValidateContract, Preflight, CreateDevelopment, CreateVerifier,
         MarkDispatched, Promote, MarkDispatchBlocked, CallFails, Crash
<1>2. CASE ValidateContract(s) \/ Preflight(s)
  BY <1>1, <1>2 DEF ValidateContract, Preflight, TypeOK, CallType, RecordType
<1>3. CASE CreateDevelopment(s) \/ CreateVerifier(s) \/ Promote(s) \/ CallFails(s)
  <2>1. work' \in [Loops -> {"absent", "todo", "blocked", "running", "done"}]
    <3>1. CASE CreateDevelopment(s)
      BY <3>1 DEF CreateDevelopment, TypeOK
    <3>2. CASE Promote(s)
      BY <3>2 DEF Promote, TypeOK
    <3>3. CASE CreateVerifier(s) \/ CallFails(s)
      BY <3>3 DEF CreateVerifier, CallFails, TypeOK
    <3> QED BY <1>3, <3>1, <3>2, <3>3
  <2>2. verify' \in [Loops -> {"absent", "todo", "blocked", "running"}]
    <3>1. CASE CreateVerifier(s)
      BY <3>1 DEF CreateVerifier, TypeOK
    <3>2. CASE CreateDevelopment(s) \/ Promote(s) \/ CallFails(s)
      BY <3>2 DEF CreateDevelopment, Promote, CallFails, TypeOK
    <3> QED BY <1>3, <3>1, <3>2
  <2>3. faults' \in 0 .. MaxFaults
    BY <1>3 DEF CreateDevelopment, CreateVerifier, Promote, CallFails, TypeOK
  <2> QED BY <1>1, <1>3, <2>1, <2>2, <2>3
          DEF CreateDevelopment, CreateVerifier, Promote, CallFails, TypeOK, CallType, RecordType
<1>4. CASE MarkDispatched(s) \/ MarkDispatchBlocked(s)
  <2>1. loop' \in [Loops -> RecordType]
    <3>1. CASE MarkDispatched(s)
      <4>1. ASSUME NEW r \in RecordType
            PROVE  [[r EXCEPT !.status = "QUEUED"] EXCEPT !.bound = TRUE] \in RecordType
        BY DEF RecordType, Statuses
      <4>2. loop \in [Loops -> RecordType]
        BY DEF TypeOK, RecordType
      <4>3. loop' = [loop EXCEPT ![Mine(s)] =
              [[loop[Mine(s)] EXCEPT !.status = "QUEUED"] EXCEPT !.bound = TRUE]]
        BY <3>1, <4>2 DEF MarkDispatched
      <4> QED BY <4>1, <4>2, <4>3
    <3>2. CASE MarkDispatchBlocked(s)
      BY <3>2, StatusType DEF MarkDispatchBlocked, Statuses
    <3> QED BY <1>4, <3>1, <3>2
  <2> QED BY <1>1, <1>4, <2>1 DEF MarkDispatched, MarkDispatchBlocked, TypeOK, CallType, RecordType
<1>5. CASE Crash(s)
  <2>1. faults' \in 0 .. MaxFaults /\ lock' \in [Leases -> Sessions \cup {NoSession}]
    BY <1>5, UnlockedSound DEF Crash, TypeOK
  <2> QED BY <1>1, <1>5, <2>1 DEF Crash, TypeOK, CallType, RecordType
<1> QED BY <1>2, <1>3, <1>4, <1>5 DEF DispatchStep

LEMMA CancelType ==
  ASSUME TypeOK, NEW l \in Loops, CancelLoop(l)
  PROVE  /\ loop' \in [Loops -> RecordType]
         /\ work' \in [Loops -> {"absent", "todo", "blocked", "running", "done"}]
         /\ verify' \in [Loops -> {"absent", "todo", "blocked", "running"}]
BY StatusType DEF CancelLoop, TypeOK, Halted, Statuses

LEMMA TypeControl ==
  ASSUME TypeOK, NEW l \in Loops, Control(l)
  PROVE  TypeOK'
<1> USE DEF recordVars, cardVars, authorityVars
<1>1. CASE Sync(l)
  <2>1. CASE CancelLoop(l)
    BY <1>1, <2>1, CancelType DEF Sync, TypeOK, RecordType
  <2>2. CASE SetStatus(l, StatusOfCards(l)) /\ UNCHANGED cardVars
    <3>1. StatusOfCards(l) \in Statuses
      BY DEF StatusOfCards, Statuses
    <3>2. loop' \in [Loops -> RecordType]
      BY <2>2, <3>1, StatusType
    <3> QED BY <1>1, <2>2, <3>2 DEF Sync, TypeOK, RecordType
  <2> QED BY <1>1, <2>1, <2>2 DEF Sync
<1>2. CASE LoopStop(l)
  BY <1>2, CancelType DEF LoopStop, TypeOK, RecordType
<1>3. CASE StopLoop(l)
  BY <1>3, CancelType DEF StopLoop, TypeOK, RecordType
<1> QED BY <1>1, <1>2, <1>3 DEF Control

LEMMA TypeNext ==
  ASSUME TypeOK, CallSound, [Next]_vars
  PROVE  TypeOK'
<1> USE DEF recordVars, cardVars, authorityVars
<1>1. ASSUME NEW l \in Loops, Worker(l) PROVE TypeOK'
  BY <1>1 DEF Worker, ClaimWork, FinishWork, ClaimVerify, WorkerEnds, TypeOK
<1>2. CASE EmergencyStop \/ StopList \/ ApproveLease
  BY <1>2 DEF EmergencyStop, StopList, ApproveLease, TypeOK
<1>3. ASSUME NEW n \in Leases, Expire(n) PROVE TypeOK'
  BY <1>3 DEF Expire, TypeOK
<1>4. CASE UNCHANGED vars
  BY <1>4 DEF vars, TypeOK
<1> QED BY <1>1, <1>2, <1>3, <1>4, TypeStart, TypeDispatch, TypeControl DEF Next

-----------------------------------------------------------------------------
(* Counting the loops of a lease.                                          *)

\* Loops keep their lease and their existence, and whoever counts or writes
\* goes on with what it had.
LEMMA CountKept ==
  ASSUME CountSound,
         \A l \in Loops : /\ loop'[l].lease = loop[l].lease
                          /\ loop'[l].status = "absent" <=> loop[l].status = "absent",
         \A s \in Sessions : call'[s].step \in {"validate", "write"} =>
           /\ call'[s].step = call[s].step /\ call'[s].lease = call[s].lease
           /\ call[s].lease \in Leases
           /\ lock'[call[s].lease] = lock[call[s].lease]
  PROVE  CountSound'
<1>1. \A n \in Leases : UsedLoops(n)' = UsedLoops(n)
  BY UsedSame
<1>2. \A n \in Leases : IsFiniteSet(UsedLoops(n)') /\ Cardinality(UsedLoops(n)') <= MaxIterations
  BY <1>1 DEF CountSound
<1>3. \A s \in Sessions :
        call'[s].step \in {"validate", "write"} => lock'[call'[s].lease] = s
  BY DEF CountSound
<1>4. ASSUME NEW s \in Sessions, call'[s].step = "write"
      PROVE  Cardinality(UsedLoops(call[s].lease)') < MaxIterations
  <2>1. call'[s].lease \in Leases /\ call[s].step = "write" /\ call'[s].lease = call[s].lease
    BY <1>4
  <2>2. UsedLoops(call[s].lease)' = UsedLoops(call[s].lease)
    BY <1>1, <2>1
  <2> QED BY <2>1, <2>2 DEF CountSound
<1> QED BY <1>2, <1>3, <1>4 DEF CountSound

LEMMA CountStart ==
  ASSUME TypeOK, CallSound, CountSound, NEW s \in Sessions, StartStep(s)
  PROVE  CountSound'
<1> USE DEF recordVars
<1>1. CASE Start(s)
  <2>1. \A r \in Sessions : call'[r].step \in {"validate", "write"} =>
          r # s /\ call'[r] = call[r]
    BY <1>1 DEF Start, NoCall, TypeOK
  <2> QED BY <1>1, <2>1, CountKept DEF Start, CallSound
<1>2. CASE AcquireLease(s)
  <2> DEFINE n == call[s].lease
  <2>1. n \in Leases /\ lock[n] = NoSession /\ loop' = loop
        /\ call' = [call EXCEPT ![s].step = "validate"] /\ lock' = [lock EXCEPT ![n] = s]
    BY <1>2 DEF AcquireLease, Goto, CallSound
  <2>2. \A m \in Leases : UsedLoops(m)' = UsedLoops(m)
    BY <2>1, UsedSame
  <2>3. ASSUME NEW r \in Sessions, call'[r].step \in {"validate", "write"}
        PROVE  /\ lock'[call'[r].lease] = r
               /\ call'[r].step = "write" =>
                    Cardinality(UsedLoops(call[r].lease)) < MaxIterations
                    /\ call'[r].lease = call[r].lease /\ call[r].lease \in Leases
    <3>1. CASE r = s
      BY <2>1, <3>1 DEF TypeOK
    <3>2. CASE r # s
      <4>1. call'[r] = call[r] /\ call[r].lease \in Leases /\ lock[call[r].lease] = r
        BY <2>1, <2>3, <3>2 DEF TypeOK, CountSound, CallSound
      <4>2. lock'[call[r].lease] = r
        BY <2>1, <4>1 DEF TypeOK
      <4> QED BY <2>3, <4>1, <4>2 DEF CountSound
    <3> QED BY <3>1, <3>2
  <2> QED BY <2>2, <2>3 DEF CountSound
<1>3. CASE ValidateStart(s)
  <2> DEFINE n == call[s].lease
  <2>1. n \in Leases /\ lock[n] = s /\ loop' = loop
    BY <1>3 DEF ValidateStart, CallSound, CountSound
  <2>2. \A m \in Leases : UsedLoops(m)' = UsedLoops(m)
    BY <2>1, UsedSame
  <2>3. CASE lock' = Unlocked(s) /\ Return(s)
    <3>1. ASSUME NEW r \in Sessions, call'[r].step \in {"validate", "write"}
          PROVE  /\ r # s /\ call'[r] = call[r] /\ call[r].lease \in Leases
                 /\ lock[call[r].lease] = r /\ lock'[call[r].lease] = r
      <4>1. r # s /\ call'[r] = call[r]
        BY <2>3, <3>1 DEF Return, NoCall, TypeOK
      <4>2. call[r].lease \in Leases /\ lock[call[r].lease] = r
        BY <3>1, <4>1 DEF CallSound, CountSound
      <4> QED BY <2>3, <4>1, <4>2, UnlockedSound
    <3> QED BY <2>1, <3>1, CountKept
  <2>4. CASE /\ Cardinality(UsedLoops(n)) < MaxIterations
             /\ lock' = lock /\ Goto(s, "write")
    <3>1. ASSUME NEW r \in Sessions, call'[r].step \in {"validate", "write"}
          PROVE  /\ lock'[call'[r].lease] = r
                 /\ call'[r].step = "write" =>
                      /\ Cardinality(UsedLoops(call[r].lease)) < MaxIterations
                      /\ call'[r].lease = call[r].lease /\ call[r].lease \in Leases
      <4>1. CASE r = s
        BY <2>1, <2>4, <4>1 DEF Goto, TypeOK
      <4>2. CASE r # s
        BY <2>4, <3>1, <4>2 DEF Goto, TypeOK, CountSound, CallSound
      <4> QED BY <4>1, <4>2
    <3> QED BY <2>2, <3>1 DEF CountSound
  <2>5. Cardinality(UsedLoops(n)) \in Nat
    BY <2>1, FS_CardinalityType DEF CountSound
  <2> QED BY <1>3, <2>3, <2>4, <2>5 DEF ValidateStart
<1>4. ASSUME NEW l \in Loops, WriteLoop(s, l) PROVE CountSound'
  <2>0. PICK n \in Leases : n = call[s].lease
    BY <1>4 DEF WriteLoop, CallSound
  <2>1. /\ n \in Leases /\ lock[n] = s /\ loop[l].status = "absent"
        /\ Cardinality(UsedLoops(n)) < MaxIterations
        /\ loop' = [loop EXCEPT ![l] = [status |-> "WAITING_FOR_DEVELOPMENT_EXECUTOR",
                                        lease |-> n, bound |-> FALSE]]
        /\ lock' = Unlocked(s)
    BY <1>4, <2>0 DEF WriteLoop, CallSound, CountSound
  <2>2. /\ loop'[l].status # "absent" /\ loop'[l].lease = n
        /\ \A k \in Loops \ {l} : loop'[k] = loop[k]
    BY <2>1 DEF TypeOK
  <2>3. UsedLoops(n)' = UsedLoops(n) \cup {l}
    <3>1. \A k \in Loops : (loop'[k].status # "absent" /\ loop'[k].lease = n) <=>
                           (loop[k].status # "absent" /\ loop[k].lease = n) \/ k = l
      BY <2>2
    <3> QED BY <3>1, Zenon DEF UsedLoops
  <2>4. \A m \in Leases \ {n} : UsedLoops(m)' = UsedLoops(m)
    BY <2>1, <2>2 DEF UsedLoops
  <2>5. ASSUME NEW r \in Sessions, call'[r].step \in {"validate", "write"}
        PROVE  /\ call'[r] = call[r] /\ call[r].lease \in Leases \ {n}
               /\ lock'[call[r].lease] = r
    <3>1. r # s /\ call'[r] = call[r]
      BY <1>4, <2>5 DEF WriteLoop, TypeOK
    <3>2. call[r].lease \in Leases /\ lock[call[r].lease] = r
      BY <2>5, <3>1 DEF CallSound, CountSound
    <3>3. call[r].lease # n
      BY <2>1, <3>1, <3>2
    <3>4. Unlocked(s)[call[r].lease] = r
      BY <3>1, <3>2, UnlockedSound
    <3> QED BY <2>1, <3>1, <3>2, <3>3, <3>4
  <2>6. IsFiniteSet(UsedLoops(n)') /\ Cardinality(UsedLoops(n)') <= MaxIterations
    <3> DEFINE used == UsedLoops(n)
    <3>1. IsFiniteSet(used) /\ Cardinality(used) \in Nat
      BY <2>1, FS_CardinalityType DEF CountSound
    <3>2. l \notin used
      BY <2>1 DEF UsedLoops
    <3>3. IsFiniteSet(used \cup {l}) /\ Cardinality(used \cup {l}) = Cardinality(used) + 1
      BY <3>1, <3>2, FS_AddElement
    <3>4. Cardinality(used) < MaxIterations
      BY <2>1
    <3>5. Cardinality(used) + 1 <= MaxIterations
      BY <3>1, <3>4
    <3> QED BY <2>3, <3>3, <3>5
  <2>7. ASSUME NEW m \in Leases
        PROVE  IsFiniteSet(UsedLoops(m)') /\ Cardinality(UsedLoops(m)') <= MaxIterations
    <3>1. CASE m = n
      BY <2>6, <3>1
    <3>2. CASE m # n
      <4>1. UsedLoops(m)' = UsedLoops(m)
        BY <2>4, <3>2
      <4>2. IsFiniteSet(UsedLoops(m)) /\ Cardinality(UsedLoops(m)) <= MaxIterations
        BY DEF CountSound
      <4> QED BY <4>1, <4>2
    <3> QED BY <3>1, <3>2
  <2> QED BY <2>4, <2>5, <2>7 DEF CountSound
<1> QED BY <1>1, <1>2, <1>3, <1>4 DEF StartStep

-----------------------------------------------------------------------------
(* Records and cards.                                                      *)

\* Records stay, bindings stay, verifiers stay.
Grows ==
  \A l \in Loops :
    /\ loop[l].status # "absent" => loop'[l].status # "absent"
    /\ loop[l].bound => loop'[l].bound
    /\ verify[l] # "absent" => verify'[l] # "absent"

LEMMA CallKept ==
  ASSUME CallSound, Grows, UNCHANGED call
  PROVE  CallSound'
BY DEF CallSound, Grows, Mine, Starting

LEMMA CallReturn ==
  ASSUME TypeOK, CallSound, Grows, NEW s \in Sessions, Return(s)
  PROVE  CallSound'
BY DEF TypeOK, CallSound, Grows, Mine, Return, NoCall, Starting

LEMMA CallGoto ==
  ASSUME TypeOK, CallSound, Grows, NEW s \in Sessions, NEW step, Goto(s, step),
         call[s].step # "idle",
         step \notin Starting => call[s].step \notin Starting,
         step \in {"bind", "promote"} => verify'[Mine(s)] # "absent",
         step = "promote" => loop'[Mine(s)].bound
  PROVE  CallSound'
<1>1. /\ call'[s].step = step /\ call'[s].lease = call[s].lease
      /\ call'[s].loop = call[s].loop
      /\ \A r \in Sessions \ {s} : call'[r] = call[r]
  BY DEF Goto, TypeOK
<1> QED BY <1>1 DEF CallSound, Grows, Mine, Starting

\* A card is released by a promotion only, which follows the binding.
LEMMA DispatchSound ==
  ASSUME TypeOK, CallSound, RecordSound, ReleasedIsBound, NEW s \in Sessions, DispatchStep(s)
  PROVE  CallSound' /\ RecordSound' /\ ReleasedIsBound'
<1> USE DEF recordVars, cardVars, authorityVars
<1>1. CASE ValidateContract(s) \/ Preflight(s)
  <2>1. UNCHANGED <<loop, work, verify, targets>>
    BY <1>1 DEF ValidateContract, Preflight
  <2>2. Grows
    BY <2>1 DEF Grows
  <2>3. CallSound'
    BY <1>1, <2>2, CallGoto DEF ValidateContract, Preflight, Starting
  <2> QED BY <2>1, <2>3 DEF RecordSound, ReleasedIsBound
<1>2. CASE CreateDevelopment(s)
  <2>1. /\ work' = [work EXCEPT ![Mine(s)] = "blocked"] /\ UNCHANGED <<loop, verify, targets>>
    BY <1>2 DEF CreateDevelopment
  <2>2. Grows
    BY <2>1 DEF Grows
  <2>3. CallSound'
    BY <1>2, <2>2, CallGoto DEF CreateDevelopment, Starting
  <2>4. ReleasedIsBound'
    BY <2>1 DEF ReleasedIsBound, TypeOK
  <2> QED BY <2>1, <2>3, <2>4 DEF RecordSound
<1>3. CASE CreateVerifier(s)
  <2>1. /\ verify' = [verify EXCEPT ![Mine(s)] = "todo"] /\ UNCHANGED <<loop, work, targets>>
        /\ Mine(s) \in Loops
    BY <1>3 DEF CreateVerifier, CallSound, Starting
  <2>2. Grows
    BY <2>1 DEF Grows, TypeOK
  <2>3. verify'[Mine(s)] = "todo"
    BY <2>1 DEF TypeOK
  <2>4. CallSound'
    BY <1>3, <2>2, <2>3, CallGoto DEF CreateVerifier, Starting
  <2>5. ReleasedIsBound'
    BY <2>1 DEF ReleasedIsBound, TypeOK
  <2> QED BY <2>1, <2>4, <2>5 DEF RecordSound
<1>4. CASE MarkDispatched(s)
  <2>1. /\ loop' = [loop EXCEPT ![Mine(s)].status = "QUEUED", ![Mine(s)].bound = TRUE]
        /\ Mine(s) \in Loops /\ verify[Mine(s)] # "absent"
        /\ UNCHANGED <<work, verify, targets>>
    BY <1>4 DEF MarkDispatched, CallSound, Starting
  <2>2. /\ loop'[Mine(s)].status = "QUEUED" /\ loop'[Mine(s)].bound
        /\ \A l \in Loops \ {Mine(s)} : loop'[l] = loop[l]
    BY <2>1 DEF TypeOK
  <2>3. Grows
    BY <2>1, <2>2 DEF Grows
  <2>4. CallSound'
    BY <1>4, <2>1, <2>2, <2>3, CallGoto DEF MarkDispatched, Starting
  <2>5. RecordSound' /\ ReleasedIsBound'
    BY <2>1, <2>2 DEF RecordSound, ReleasedIsBound
  <2> QED BY <2>4, <2>5
<1>5. CASE Promote(s)
  <2>1. /\ Mine(s) \in Loops /\ loop[Mine(s)].bound /\ verify[Mine(s)] # "absent"
        /\ work' = work \/ work' = [work EXCEPT ![Mine(s)] = "todo"]
        /\ UNCHANGED <<loop, verify, targets>>
    BY <1>5 DEF Promote, CallSound, Starting
  <2>2. Grows
    BY <2>1 DEF Grows
  <2>3. CallSound'
    BY <1>5, <2>2, CallGoto, CallReturn DEF Promote, Starting
  <2>4. ReleasedIsBound'
    BY <2>1 DEF ReleasedIsBound, TypeOK
  <2> QED BY <2>1, <2>3, <2>4 DEF RecordSound
<1>6. CASE MarkDispatchBlocked(s)
  <2>1. /\ loop' = [loop EXCEPT ![Mine(s)].status = "DISPATCH_BLOCKED"]
        /\ Mine(s) \in Loops /\ UNCHANGED <<work, verify, targets>>
        /\ loop[Mine(s)].status # "absent"
    BY <1>6 DEF MarkDispatchBlocked, SetStatus, CallSound, Starting
  <2>2. /\ loop'[Mine(s)].status = "DISPATCH_BLOCKED"
        /\ loop'[Mine(s)].bound = loop[Mine(s)].bound
        /\ \A l \in Loops \ {Mine(s)} : loop'[l] = loop[l]
    BY <2>1 DEF TypeOK
  <2>3. Grows
    BY <2>1, <2>2 DEF Grows
  <2>4. CallSound'
    BY <1>6, <2>3, CallReturn DEF MarkDispatchBlocked
  <2>5. RecordSound' /\ ReleasedIsBound'
    BY <2>1, <2>2 DEF RecordSound, ReleasedIsBound, StopStatuses
  <2> QED BY <2>4, <2>5
<1>7. CASE CallFails(s)
  <2>1. /\ Mine(s) \in Loops /\ UNCHANGED <<loop, targets>>
        /\ call[s].step = "promote" => loop[Mine(s)].bound /\ verify[Mine(s)] # "absent"
    BY <1>7 DEF CallFails, CallSound, Starting
  <2>2. Grows /\ ReleasedIsBound'
    BY <1>7, <2>1 DEF CallFails, Grows, ReleasedIsBound, TypeOK
  <2>3. CallSound'
    BY <1>7, <2>2, CallGoto DEF CallFails, Starting
  <2> QED BY <2>1, <2>2, <2>3 DEF RecordSound
<1>8. CASE Crash(s)
  <2>1. UNCHANGED <<loop, work, verify, targets>>
    BY <1>8 DEF Crash
  <2>2. Grows
    BY <2>1 DEF Grows
  <2>3. CallSound'
    BY <1>8, <2>2, CallReturn DEF Crash
  <2> QED BY <2>1, <2>3 DEF RecordSound, ReleasedIsBound
<1> QED BY <1>1, <1>2, <1>3, <1>4, <1>5, <1>6, <1>7, <1>8 DEF DispatchStep

LEMMA StartSound ==
  ASSUME TypeOK, CallSound, RecordSound, ReleasedIsBound, NEW s \in Sessions, StartStep(s)
  PROVE  CallSound' /\ RecordSound' /\ ReleasedIsBound'
<1> USE DEF recordVars, cardVars, authorityVars
<1>1. CASE Start(s)
  <2>1. /\ UNCHANGED <<loop, work, verify, targets>> /\ lease \in Leases
        /\ call' = [call EXCEPT ![s] = [NoCall EXCEPT !.step = "lock", !.lease = lease]]
    BY <1>1 DEF Start, TypeOK
  <2>2. /\ call'[s].step = "lock" /\ call'[s].lease \in Leases
        /\ \A r \in Sessions \ {s} : call'[r] = call[r]
    BY <2>1 DEF TypeOK, NoCall
  <2>3. CallSound'
    BY <2>1, <2>2 DEF CallSound, Starting, Mine
  <2> QED BY <2>1, <2>3 DEF RecordSound, ReleasedIsBound
<1>2. CASE AcquireLease(s) \/ ValidateStart(s)
  <2>1. UNCHANGED <<loop, work, verify, targets>>
    BY <1>2 DEF AcquireLease, ValidateStart
  <2>2. Grows
    BY <2>1 DEF Grows
  <2>3. CallSound'
    BY <1>2, <2>2, CallGoto, CallReturn DEF AcquireLease, ValidateStart, Starting
  <2> QED BY <2>1, <2>3 DEF RecordSound, ReleasedIsBound
<1>3. ASSUME NEW l \in Loops, WriteLoop(s, l)
      PROVE  CallSound' /\ RecordSound' /\ ReleasedIsBound'
  <2>1. /\ call[s].step = "write" /\ loop[l].status = "absent"
        /\ UNCHANGED <<work, verify, targets>>
    BY <1>3 DEF WriteLoop
  <2>2. /\ loop'[l].status = "WAITING_FOR_DEVELOPMENT_EXECUTOR" /\ ~ loop'[l].bound
        /\ \A k \in Loops \ {l} : loop'[k] = loop[k]
    BY <1>3 DEF WriteLoop, TypeOK
  <2>3. /\ call'[s].step = "contract" /\ call'[s].loop = l
        /\ call'[s].lease = call[s].lease
        /\ \A r \in Sessions \ {s} : call'[r] = call[r]
    BY <1>3 DEF WriteLoop, TypeOK
  <2>4. ~ loop[l].bound /\ l \notin targets
    BY <2>1 DEF RecordSound
  <2>5. CallSound'
    BY <2>1, <2>2, <2>3, <2>4 DEF CallSound, Mine, Starting
  <2>6. RecordSound' /\ ReleasedIsBound'
    BY <2>1, <2>2, <2>4 DEF RecordSound, ReleasedIsBound, StopStatuses
  <2> QED BY <2>5, <2>6
<1> QED BY <1>1, <1>2, <1>3 DEF StartStep

LEMMA CancelSound ==
  ASSUME TypeOK, CallSound, RecordSound, ReleasedIsBound, NEW l \in Loops, CancelLoop(l),
         UNCHANGED call, targets' \subseteq targets
  PROVE  CallSound' /\ RecordSound' /\ ReleasedIsBound'
<1>1. /\ loop'[l].status = "CANCELED" /\ loop'[l].bound = loop[l].bound
      /\ \A k \in Loops \ {l} : loop'[k] = loop[k]
  BY DEF CancelLoop, SetStatus, TypeOK
<1>2. /\ work' = [work EXCEPT ![l] = Halted(@)] /\ verify' = [verify EXCEPT ![l] = Halted(@)]
  BY DEF CancelLoop
<1>3. Grows
  BY <1>1, <1>2 DEF Grows, Halted, TypeOK
<1>4. CallSound'
  BY <1>3, CallKept
<1>5. ReleasedIsBound'
  BY <1>1, <1>2 DEF ReleasedIsBound, Halted, TypeOK
<1>6. RecordSound'
  BY <1>1 DEF RecordSound, StopStatuses
<1> QED BY <1>4, <1>5, <1>6

LEMMA ControlSound ==
  ASSUME TypeOK, CallSound, RecordSound, ReleasedIsBound, NEW l \in Loops, Control(l)
  PROVE  CallSound' /\ RecordSound' /\ ReleasedIsBound'
<1> USE DEF recordVars, cardVars, authorityVars
<1>1. CASE Sync(l)
  <2>1. CASE CancelLoop(l)
    BY <1>1, <2>1, CancelSound DEF Sync
  <2>2. CASE SetStatus(l, StatusOfCards(l)) /\ UNCHANGED cardVars
    <3>1. loop[l].bound /\ UNCHANGED <<work, verify, targets, call>>
      BY <1>1, <2>2 DEF Sync
    <3>2. /\ loop'[l].status # "absent" /\ loop'[l].bound
          /\ \A k \in Loops \ {l} : loop'[k] = loop[k]
      BY <2>2, <3>1 DEF SetStatus, StatusOfCards, TypeOK
    <3>3. Grows
      BY <3>1, <3>2 DEF Grows
    <3>4. CallSound'
      BY <3>1, <3>3, CallKept
    <3>5. RecordSound' /\ ReleasedIsBound'
      BY <3>1, <3>2 DEF RecordSound, ReleasedIsBound
    <3> QED BY <3>4, <3>5
  <2> QED BY <1>1, <2>1, <2>2 DEF Sync
<1>2. CASE LoopStop(l)
  BY <1>2, CancelSound DEF LoopStop
<1>3. CASE StopLoop(l)
  BY <1>3, CancelSound DEF StopLoop
<1> QED BY <1>1, <1>2, <1>3 DEF Control

\* The verifier of an unbound loop is not claimed, because the parent of
\* such a card is never done.
LEMMA WorkerSound ==
  ASSUME TypeOK, CallSound, RecordSound, ReleasedIsBound, NEW l \in Loops, Worker(l)
  PROVE  CallSound' /\ RecordSound' /\ ReleasedIsBound'
<1> USE DEF recordVars, cardVars, authorityVars
<1>1. UNCHANGED <<loop, call, targets>>
  BY DEF Worker, ClaimWork, FinishWork, ClaimVerify, WorkerEnds
<1>2. Grows /\ ReleasedIsBound'
  BY <1>1 DEF Worker, ClaimWork, FinishWork, ClaimVerify, WorkerEnds, Grows,
              ReleasedIsBound, TypeOK
<1> QED BY <1>1, <1>2, CallKept DEF RecordSound

LEMMA CountDispatch ==
  ASSUME TypeOK, CallSound, CountSound, NEW s \in Sessions, DispatchStep(s)
  PROVE  CountSound'
<1> USE DEF recordVars
<1>1. \A r \in Sessions : call'[r].step \in {"validate", "write"} => r # s /\ call'[r] = call[r]
  BY DEF DispatchStep, ValidateContract, Preflight, CreateDevelopment, CreateVerifier,
         MarkDispatched, Promote, MarkDispatchBlocked, CallFails, Crash, Goto, Return,
         NoCall, TypeOK
<1>2. lock' = lock \/ lock' = Unlocked(s)
  BY DEF DispatchStep, ValidateContract, Preflight, CreateDevelopment, CreateVerifier,
         MarkDispatched, Promote, MarkDispatchBlocked, CallFails, Crash
<1>3. ASSUME NEW r \in Sessions, call'[r].step \in {"validate", "write"}
      PROVE  /\ call'[r] = call[r] /\ call[r].lease \in Leases
             /\ lock'[call[r].lease] = lock[call[r].lease]
  <2>1. r # s /\ call'[r] = call[r]
    BY <1>1, <1>3
  <2>2. call[r].lease \in Leases /\ lock[call[r].lease] = r
    BY <1>3, <2>1 DEF CallSound, CountSound
  <2>3. Unlocked(s)[call[r].lease] = r
    BY <2>1, <2>2, UnlockedSound
  <2> QED BY <1>2, <2>1, <2>2, <2>3
<1>4. \A l \in Loops : /\ loop'[l].lease = loop[l].lease
                       /\ loop'[l].status = "absent" <=> loop[l].status = "absent"
  <2>1. CASE MarkDispatched(s) \/ MarkDispatchBlocked(s)
    <3>1. Mine(s) \in Loops /\ loop[Mine(s)].status # "absent"
      BY <2>1 DEF MarkDispatched, MarkDispatchBlocked, CallSound, Starting
    <3>2. /\ loop'[Mine(s)].status # "absent" /\ loop'[Mine(s)].lease = loop[Mine(s)].lease
          /\ \A l \in Loops \ {Mine(s)} : loop'[l] = loop[l]
      BY <2>1, <3>1 DEF MarkDispatched, MarkDispatchBlocked, SetStatus, TypeOK
    <3> QED BY <3>1, <3>2
  <2>2. CASE UNCHANGED loop
    BY <2>2
  <2> QED BY <2>1, <2>2 DEF DispatchStep, ValidateContract, Preflight, CreateDevelopment,
                            CreateVerifier, Promote, CallFails, Crash
<1> QED BY <1>3, <1>4, CountKept

LEMMA CountControl ==
  ASSUME TypeOK, CallSound, RecordSound, CountSound, NEW l \in Loops, Control(l) \/ Worker(l)
  PROVE  CountSound'
<1> USE DEF recordVars, cardVars
<1>1. UNCHANGED <<call, lock>>
  BY DEF Control, Sync, LoopStop, StopLoop, Worker, ClaimWork, FinishWork, ClaimVerify,
         WorkerEnds
<1>2. loop' = loop \/ \E status \in Statuses \ {"absent"} :
                        SetStatus(l, status) /\ loop[l].bound
  <2>1. CASE Worker(l)
    BY <2>1 DEF Worker, ClaimWork, FinishWork, ClaimVerify, WorkerEnds
  <2>2. CASE Control(l)
    <3>1. StatusOfCards(l) \in Statuses \ {"absent"} /\ "CANCELED" \in Statuses \ {"absent"}
      BY DEF StatusOfCards, Statuses
    <3> QED BY <2>2, <3>1 DEF Control, Sync, LoopStop, StopLoop, CancelLoop, RecordSound
  <2> QED BY <2>1, <2>2
<1>3. \A k \in Loops : /\ loop'[k].lease = loop[k].lease
                       /\ loop'[k].status = "absent" <=> loop[k].status = "absent"
  BY <1>2 DEF SetStatus, RecordSound, TypeOK
<1> QED BY <1>1, <1>3, CountKept DEF CallSound

LEMMA NextSound == IInv /\ [Next]_vars => IInv'
<1> SUFFICES ASSUME IInv, [Next]_vars PROVE IInv'
  OBVIOUS
<1> USE DEF IInv
<1>1. TypeOK'
  BY TypeNext
<1>2. ASSUME UNCHANGED <<loop, work, verify, call, targets>>
      PROVE  CallSound' /\ RecordSound' /\ ReleasedIsBound'
  BY <1>2 DEF CallSound, RecordSound, ReleasedIsBound, Mine
<1>3. ASSUME EmergencyStop \/ ApproveLease \/ UNCHANGED vars \/ \E n \in Leases : Expire(n)
      PROVE  UNCHANGED <<loop, lock, work, verify, call, targets>>
  BY <1>3 DEF EmergencyStop, ApproveLease, Expire, vars, recordVars, cardVars, authorityVars
<1>4. ASSUME StopList PROVE CallSound' /\ RecordSound' /\ ReleasedIsBound'
  <2>1. /\ UNCHANGED <<loop, work, verify, call, lock>>
        /\ targets' = {l \in Loops : loop[l].status \in StopStatuses}
    BY <1>4 DEF StopList, recordVars, cardVars
  <2>2. CallSound' /\ ReleasedIsBound'
    BY <2>1 DEF CallSound, ReleasedIsBound, Mine
  <2>3. RecordSound'
    BY <2>1 DEF RecordSound
  <2> QED BY <2>2, <2>3
<1>5. CallSound' /\ RecordSound' /\ ReleasedIsBound'
  BY <1>2, <1>3, <1>4, StartSound, DispatchSound, ControlSound, WorkerSound DEF Next
<1>6. ASSUME UNCHANGED <<loop, lock, call>> PROVE CountSound'
  BY <1>6 DEF CountSound, UsedLoops
<1>7. ASSUME StopList PROVE CountSound'
  BY <1>6, <1>7 DEF StopList, recordVars
<1>8. CountSound'
  BY <1>3, <1>6, <1>7, CountStart, CountDispatch, CountControl DEF Next
<1> QED BY <1>1, <1>5, <1>8

\* Each program point of `loop start` finds what it relies on, whatever other
\* sessions, stops and workers do.
THEOREM DispatchInvariance == Spec => []IInv
BY InitSound, NextSound, PTL DEF Spec

\* Records, cards, locks and calls keep their types.
THEOREM TypeCorrect == Spec => []TypeOK
<1>1. IInv => TypeOK
  BY DEF IInv
<1> QED BY <1>1, DispatchInvariance, PTL

\* No lease is consumed by more loops than it allows, for any number of
\* sessions that start loops at once.
THEOREM LeaseSafety == Spec => []LoopsWithinLease
<1>1. IInv => LoopsWithinLease
  <2> SUFFICES ASSUME IInv, NEW n \in Leases
               PROVE  Cardinality(UsedLoops(n)) <= MaxIterations
    BY DEF LoopsWithinLease
  <2> QED BY DEF IInv, CountSound
<1> QED BY <1>1, DispatchInvariance, PTL

\* Every card a worker may take is named by its loop record and has its
\* verifier, wherever dispatches fail and die.
THEOREM ReleaseSafety == Spec => []ReleasedIsBound
<1>1. IInv => ReleasedIsBound
  BY DEF IInv
<1> QED BY <1>1, DispatchInvariance, PTL

-----------------------------------------------------------------------------
(* When a canceled loop stays halted.                                      *)

\* No loop is canceled while a dispatch of it has bound the cards and not yet
\* released the first.
NotCanceledAtPromotion ==
  \A s \in Sessions : call[s].step = "promote" => loop'[Mine(s)].status # "CANCELED"

\* The dispatch that is about to release a card has a loop that is not canceled.
HaltInv ==
  /\ CanceledIsHalted
  /\ \A s \in Sessions : call[s].step = "promote" => loop[Mine(s)].status # "CANCELED"

LEMMA InitHalted == Init => HaltInv
<1>1. NoRecord.status = "absent" /\ NoCall.step = "idle"
  BY DEF NoRecord, NoCall
<1> QED BY <1>1 DEF Init, HaltInv, CanceledIsHalted

\* What a step may do: to the cards of a loop that was not canceled, what it likes;
\* to those of a canceled one, anything but to release them.
LEMMA HaltKept ==
  ASSUME HaltInv,
         \A l \in Loops : loop'[l].status = "CANCELED" =>
           \/ work'[l] \notin {"todo", "running"}
           \/ loop[l].status = "CANCELED" /\ work'[l] = work[l],
         \A s \in Sessions : call'[s].step = "promote" =>
           \/ loop'[Mine(s)'].status # "CANCELED"
           \/ /\ call[s].step = "promote" /\ Mine(s)' = Mine(s)
              /\ loop'[Mine(s)].status = loop[Mine(s)].status
  PROVE  HaltInv'
<1>1. CanceledIsHalted'
  BY DEF HaltInv, CanceledIsHalted
<1>2. \A s \in Sessions : call'[s].step = "promote" => loop'[Mine(s)'].status # "CANCELED"
  BY DEF HaltInv
<1> QED BY <1>1, <1>2 DEF HaltInv, Mine

LEMMA CallAfter ==
  ASSUME TypeOK, NEW s \in Sessions
  PROVE  /\ Return(s) => /\ call'[s].step = "idle"
                         /\ \A r \in Sessions \ {s} : call'[r] = call[r]
         /\ \A step : Goto(s, step) =>
              /\ call'[s].step = step /\ call'[s].loop = call[s].loop
              /\ \A r \in Sessions \ {s} : call'[r] = call[r]
<1>1. Return(s) => /\ call'[s] = NoCall
                   /\ \A r \in Sessions \ {s} : call'[r] = call[r]
  BY DEF Return, TypeOK
<1>2. NoCall.step = "idle"
  BY DEF NoCall
<1>3. \A step : Goto(s, step) =>
        /\ call'[s].step = step /\ call'[s].loop = call[s].loop
        /\ \A r \in Sessions \ {s} : call'[r] = call[r]
  BY DEF Goto, TypeOK
<1> QED BY <1>1, <1>2, <1>3

LEMMA HaltStart ==
  ASSUME IInv, HaltInv, NEW s \in Sessions, StartStep(s)
  PROVE  HaltInv'
<1> USE DEF IInv, recordVars, cardVars, authorityVars
<1>1. CASE Start(s)
  <2>1. UNCHANGED <<loop, work>>
    BY <1>1 DEF Start
  <2>2. call'[s].step = "lock" /\ \A r \in Sessions \ {s} : call'[r] = call[r]
    BY <1>1 DEF Start, TypeOK, NoCall
  <2> QED BY <2>1, <2>2, HaltKept DEF Mine
<1>2. CASE AcquireLease(s) \/ ValidateStart(s)
  <2>1. UNCHANGED <<loop, work>>
    BY <1>2 DEF AcquireLease, ValidateStart
  <2>2. Return(s) \/ Goto(s, "validate") \/ Goto(s, "write")
    BY <1>2 DEF AcquireLease, ValidateStart
  <2>3. call'[s].step # "promote" /\ \A r \in Sessions \ {s} : call'[r] = call[r]
    BY <2>2, CallAfter
  <2> QED BY <2>1, <2>3, HaltKept DEF Mine
<1>3. ASSUME NEW l \in Loops, WriteLoop(s, l) PROVE HaltInv'
  <2>1. /\ loop'[l].status = "WAITING_FOR_DEVELOPMENT_EXECUTOR"
        /\ \A k \in Loops \ {l} : loop'[k] = loop[k]
        /\ work' = work
    BY <1>3 DEF WriteLoop, TypeOK
  <2>2. call'[s].step = "contract" /\ \A r \in Sessions \ {s} : call'[r] = call[r]
    BY <1>3 DEF WriteLoop, TypeOK
  <2>3. \A r \in Sessions : call[r].step = "promote" => Mine(r) \in Loops
    BY DEF CallSound, Starting
  <2> QED BY <2>1, <2>2, <2>3, HaltKept DEF Mine
<1> QED BY <1>1, <1>2, <1>3 DEF StartStep

\* Only Promote, and a promotion whose answer is lost, make a card ready.
LEMMA HaltDispatch ==
  ASSUME IInv, HaltInv, NEW s \in Sessions, DispatchStep(s)
  PROVE  HaltInv'
<1> USE DEF IInv, recordVars, cardVars, authorityVars
<1>0. \A r \in Sessions : call[r].step \notin Starting => Mine(r) \in Loops
  BY DEF CallSound
<1>1. CASE ValidateContract(s) \/ Preflight(s) \/ CreateVerifier(s) \/ Crash(s)
  <2>1. UNCHANGED <<loop, work>>
    BY <1>1 DEF ValidateContract, Preflight, CreateVerifier, Crash
  <2>2. \/ Return(s) \/ Goto(s, "blocked") \/ Goto(s, "preflight") \/ Goto(s, "createWork")
        \/ Goto(s, "bind")
    BY <1>1 DEF ValidateContract, Preflight, CreateVerifier, Crash
  <2>3. call'[s].step # "promote" /\ \A r \in Sessions \ {s} : call'[r] = call[r]
    BY <2>2, CallAfter
  <2> QED BY <2>1, <2>3, HaltKept DEF Mine
<1>2. CASE CreateDevelopment(s)
  <2>1. loop' = loop /\ work' = [work EXCEPT ![Mine(s)] = "blocked"] /\ Goto(s, "createVerify")
    BY <1>2 DEF CreateDevelopment
  <2>2. \A l \in Loops : work'[l] \notin {"todo", "running"} \/ work'[l] = work[l]
    BY <2>1 DEF TypeOK
  <2>3. call'[s].step # "promote" /\ \A r \in Sessions \ {s} : call'[r] = call[r]
    BY <2>1, CallAfter
  <2> QED BY <2>1, <2>2, <2>3, HaltKept DEF Mine
<1>3. CASE MarkDispatched(s)
  <2>1. /\ loop' = [loop EXCEPT ![Mine(s)].status = "QUEUED", ![Mine(s)].bound = TRUE]
        /\ Mine(s) \in Loops /\ work' = work /\ Goto(s, "promote")
    BY <1>0, <1>3 DEF MarkDispatched, Starting
  <2>2. /\ loop'[Mine(s)].status = "QUEUED"
        /\ \A l \in Loops \ {Mine(s)} : loop'[l] = loop[l]
    BY <2>1 DEF TypeOK
  <2>3. /\ call'[s].loop = call[s].loop
        /\ \A r \in Sessions \ {s} : call'[r] = call[r]
    BY <2>1, CallAfter
  <2>4. \A r \in Sessions : call[r].step = "promote" => Mine(r) \in Loops
    BY <1>0 DEF Starting
  <2> QED BY <2>1, <2>2, <2>3, <2>4, HaltKept DEF Mine
<1>4. CASE Promote(s)
  <2>1. /\ loop' = loop /\ Mine(s) \in Loops /\ loop[Mine(s)].status # "CANCELED"
        /\ work' = work \/ work' = [work EXCEPT ![Mine(s)] = "todo"]
        /\ Return(s) \/ Goto(s, "blocked")
    BY <1>0, <1>4 DEF Promote, HaltInv, Starting
  <2>2. \A l \in Loops : l = Mine(s) \/ work'[l] = work[l]
    BY <2>1 DEF TypeOK
  <2>3. call'[s].step # "promote" /\ \A r \in Sessions \ {s} : call'[r] = call[r]
    BY <2>1, CallAfter
  <2> QED BY <2>1, <2>2, <2>3, HaltKept DEF Mine
<1>5. CASE MarkDispatchBlocked(s)
  <2>1. /\ loop' = [loop EXCEPT ![Mine(s)].status = "DISPATCH_BLOCKED"]
        /\ Mine(s) \in Loops /\ work' = work /\ Return(s)
    BY <1>0, <1>5 DEF MarkDispatchBlocked, SetStatus, Starting
  <2>2. /\ loop'[Mine(s)].status = "DISPATCH_BLOCKED"
        /\ \A l \in Loops \ {Mine(s)} : loop'[l] = loop[l]
    BY <2>1 DEF TypeOK
  <2>3. call'[s].step # "promote" /\ \A r \in Sessions \ {s} : call'[r] = call[r]
    BY <2>1, CallAfter
  <2>4. \A r \in Sessions : call[r].step = "promote" => Mine(r) \in Loops
    BY <1>0 DEF Starting
  <2> QED BY <2>1, <2>2, <2>3, <2>4, HaltKept DEF Mine
<1>6. CASE CallFails(s)
  <2>1. /\ loop' = loop /\ Goto(s, "blocked") /\ Mine(s) \in Loops
        /\ \/ work' = work
           \/ work' = [work EXCEPT ![Mine(s)] = "blocked"]
           \/ /\ call[s].step = "promote"
              /\ work' = [work EXCEPT ![Mine(s)] = "todo"]
    BY <1>0, <1>6 DEF CallFails, Starting
  <2>2. \A l \in Loops : \/ work'[l] \notin {"todo", "running"}
                         \/ work'[l] = work[l]
                         \/ call[s].step = "promote" /\ l = Mine(s)
    BY <2>1 DEF TypeOK
  <2>3. call'[s].step # "promote" /\ \A r \in Sessions \ {s} : call'[r] = call[r]
    BY <2>1, CallAfter
  <2>4. call[s].step = "promote" => loop'[Mine(s)].status # "CANCELED"
    BY <2>1 DEF HaltInv
  <2> QED BY <2>1, <2>2, <2>3, <2>4, HaltKept DEF Mine
<1> QED BY <1>1, <1>2, <1>3, <1>4, <1>5, <1>6 DEF DispatchStep

\* Whoever cancels a loop blocks its cards.
LEMMA HaltControl ==
  ASSUME IInv, HaltInv, NEW l \in Loops, Control(l), NotCanceledAtPromotion
  PROVE  HaltInv'
<1> USE DEF IInv, recordVars, cardVars, authorityVars
<1>1. call' = call
  BY DEF Control, Sync, LoopStop, StopLoop
<1>2. CancelLoop(l) \/ (SetStatus(l, StatusOfCards(l)) /\ work' = work)
  BY DEF Control, Sync, LoopStop, StopLoop
<1>3. \A s \in Sessions : call'[s].step = "promote" => loop'[Mine(s)'].status # "CANCELED"
  BY <1>1 DEF NotCanceledAtPromotion, Mine
<1>4. CASE CancelLoop(l)
  <2>1. /\ \A k \in Loops \ {l} : loop'[k] = loop[k]
        /\ \A k \in Loops \ {l} : work'[k] = work[k]
        /\ work'[l] = Halted(work[l])
    BY <1>4 DEF CancelLoop, SetStatus, TypeOK
  <2>2. work'[l] \notin {"todo", "running"}
    BY <2>1 DEF Halted
  <2> QED BY <1>3, <2>1, <2>2, HaltKept
<1>5. CASE SetStatus(l, StatusOfCards(l)) /\ work' = work
  <2>1. /\ \A k \in Loops \ {l} : loop'[k] = loop[k]
        /\ loop'[l].status = StatusOfCards(l)
    BY <1>5 DEF SetStatus, TypeOK
  <2>2. StatusOfCards(l) # "CANCELED"
    BY DEF StatusOfCards
  <2> QED BY <1>3, <1>5, <2>1, <2>2, HaltKept
<1> QED BY <1>2, <1>4, <1>5

LEMMA HaltNext ==
  ASSUME IInv, HaltInv, [Next]_vars, [NotCanceledAtPromotion]_vars
  PROVE  HaltInv'
<1> USE DEF recordVars, cardVars, authorityVars
<1>1. ASSUME UNCHANGED <<loop, work, call>> PROVE HaltInv'
  BY <1>1 DEF HaltInv, CanceledIsHalted, Mine
<1>2. ASSUME NEW l \in Loops, Worker(l) PROVE HaltInv'
  <2>1. UNCHANGED <<loop, call>>
    BY <1>2 DEF Worker, ClaimWork, FinishWork, ClaimVerify, WorkerEnds
  <2>2. \A k \in Loops : \/ work'[k] \notin {"todo", "running"}
                         \/ work[k] \in {"todo", "running"} \/ work'[k] = work[k]
    BY <1>2 DEF Worker, ClaimWork, FinishWork, ClaimVerify, WorkerEnds, IInv, TypeOK
  <2> QED BY <2>1, <2>2 DEF HaltInv, CanceledIsHalted, Mine
<1>3. ASSUME \/ EmergencyStop \/ StopList \/ ApproveLease \/ UNCHANGED vars
             \/ \E n \in Leases : Expire(n)
      PROVE  UNCHANGED <<loop, work, call>>
  BY <1>3 DEF EmergencyStop, StopList, ApproveLease, Expire, vars
<1>4. CASE UNCHANGED vars
  BY <1>1, <1>3, <1>4
<1>5. CASE Next /\ NotCanceledAtPromotion
  BY <1>1, <1>2, <1>3, <1>5, HaltStart, HaltDispatch, HaltControl DEF Next
<1> QED BY <1>4, <1>5

\* The one way to release a card of a canceled loop is to cancel the loop between
\* mark_dispatched and the promotion (development_executor.py:556, 581): without such
\* a cancellation what is reported as stopped stays so.
THEOREM HaltSafety == Spec /\ [][NotCanceledAtPromotion]_vars => []CanceledIsHalted
<1>1. IInv /\ HaltInv /\ [Next]_vars /\ [NotCanceledAtPromotion]_vars => HaltInv'
  BY HaltNext
<1>2. HaltInv => CanceledIsHalted
  BY DEF HaltInv
<1> QED BY <1>1, <1>2, InitHalted, DispatchInvariance, PTL DEF Spec
=============================================================================
