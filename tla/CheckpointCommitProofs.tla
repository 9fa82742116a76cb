------------------------ MODULE CheckpointCommitProofs ------------------------
(***************************************************************************)
(* Proofs about CheckpointCommit: a commit is the checkpoint its command   *)
(* was started for, if nobody edits the worktree in the course of it, and  *)
(* the digest of an unchanged worktree is the checkpoint's exactly if its  *)
(* deletions sort last.                                                    *)
(***************************************************************************)
EXTENDS CheckpointCommit, TLAPS

USE ConstantsAssumption DEF ConstantsAssumption

-----------------------------------------------------------------------------
(* The inductive invariant.                                                *)

\* The steps a commit takes only after it has found the checkpoint in the worktree.
Compared == {"readPermit", "add", "commit"}

\* The steps behind the comparison are those of a commit.
ComparedCommits == \A s \in Sessions : call[s].step \in Compared => call[s].op = "commit"

\* A commit that has inspected the worktree found no other path changed.
OthersUntouched ==
  \A s \in Sessions : call[s].op = "commit" /\ call[s].step \in {"hash"} \cup Compared =>
    \A p \in Paths \ Evidence : head[p] = tree[p] /\ index[p] = tree[p]

\* A commit that has compared the contents has those of its checkpoint, the
\* one it was called for, in the worktree.
HoldsCheckpoint ==
  \A s \in Sessions : call[s].step \in Compared =>
    \A p \in Evidence : call[s].bound.content[p].version = tree[p]

\* What is about to be committed is the worktree.
StagedIsTree == \A s \in Sessions : call[s].step = "commit" => index = tree

CommitInv ==
  /\ TypeOK
  /\ ComparedCommits /\ OthersUntouched /\ HoldsCheckpoint /\ StagedIsTree

-----------------------------------------------------------------------------
(* Types.                                                                  *)

Steps == {"idle", "inspect", "hash", "store", "bindCheckpoint", "permit", "bindPermit",
          "readPermit", "add", "commit", "resolve", "use", "bindRevision"}
Operations == {"none", "checkpoint", "authorize", "commit"}
LoopType ==
  [status : LoopStatuses, bound : Digests, permitted : BOOLEAN,
   revision : {<<>>} \cup Snapshots]
CallType ==
  [step : Steps, op : Operations, status : LoopStatuses \cup {""}, bound : Digests,
   permitted : BOOLEAN, digests : Digests, permit : Permits,
   revision : {<<>>} \cup Snapshots]

LEMMA TypeIs ==
  TypeOK <=>
    /\ loop \in LoopType
    /\ archive \in Digests /\ permit \in Permits
    /\ head \in Snapshots /\ index \in Snapshots /\ tree \in Snapshots
    /\ sourceIntact \in BOOLEAN
    /\ call \in [Sessions -> CallType]
    /\ edits \in 0 .. MaxEdits /\ faults \in 0 .. MaxFaults
  BY DEF TypeOK, LoopType, CallType, Steps, Operations

LEMMA EmptyTypes == NoDigests \in Digests /\ NoPermit \in Permits /\ NoCall \in CallType
<1>1. NoDigests \in Digests
  BY DEF NoDigests, Digests
<1>2. NoPermit \in Permits
  BY <1>1 DEF NoPermit, Permits
<1> QED
  BY <1>1, <1>2 DEF NoCall, CallType, Steps, Operations

LEMMA DigestTypes ==
  ASSUME TypeOK
  PROVE  /\ Status \in [Paths -> Codes \X Codes]
         /\ LiveDigest \in [Evidence -> [version : Versions, after : SUBSET Evidence]]
         /\ ArchiveDigest \in [Evidence -> [version : Versions, after : SUBSET Evidence]]
<1>1. tree \in [Paths -> Versions] /\ Evidence \subseteq Paths
  BY DEF TypeOK, Snapshots
<1>2. \A a, b \in Versions : Code(a, b) \in Codes
  BY DEF Code, Codes
<1>3. Status \in [Paths -> Codes \X Codes]
  BY <1>2 DEF Status, TypeOK, Snapshots
<1>4. LiveDigest \in [Evidence -> [version : Versions, after : SUBSET Evidence]]
  BY <1>1 DEF LiveDigest
<1>5. ArchiveDigest \in [Evidence -> [version : Versions, after : SUBSET Evidence]]
  BY <1>1 DEF ArchiveDigest
<1> QED
  BY <1>3, <1>4, <1>5

\* Writing a call of the right type for a session is all that is to be shown
\* of most actions.
LEMMA CallUpdate ==
  ASSUME TypeOK, NEW s \in Sessions, NEW c \in CallType, call' = [call EXCEPT ![s] = c]
  PROVE  call' \in [Sessions -> CallType]
  BY TypeIs

LEMMA CallFields ==
  ASSUME NEW c \in CallType, NEW step \in Steps
  PROVE  /\ [c EXCEPT !.step = step] \in CallType
         /\ \A d \in Digests : [c EXCEPT !.step = step, !.digests = d] \in CallType
         /\ \A q \in Permits : [c EXCEPT !.step = step, !.permit = q] \in CallType
         /\ \A r \in Snapshots : [c EXCEPT !.step = step, !.revision = r] \in CallType
  BY DEF CallType

LEMMA InitTypes == Init => TypeOK
<1> SUFFICES ASSUME Init PROVE TypeOK
  OBVIOUS
<1>1. loop \in LoopType /\ archive \in Digests /\ permit \in Permits
  BY EmptyTypes DEF Init, LoopType, LoopStatuses
<1>2. call \in [Sessions -> CallType]
  BY EmptyTypes DEF Init
<1>3. head \in Snapshots /\ index \in Snapshots /\ tree \in Snapshots
  BY DEF Init, Snapshots, Versions
<1>4. sourceIntact \in BOOLEAN /\ edits \in 0 .. MaxEdits /\ faults \in 0 .. MaxFaults
  BY DEF Init
<1> QED
  BY <1>1, <1>2, <1>3, <1>4, TypeIs

-----------------------------------------------------------------------------
\* What an action that only moves the call of a session leaves as it is.
LEMMA OnlyCall ==
  ASSUME TypeOK, UNCHANGED <<loop, archive, permit, gitVars, envVars>>,
         call' \in [Sessions -> CallType]
  PROVE  TypeOK'
<1>1. /\ loop' \in LoopType /\ archive' \in Digests /\ permit' \in Permits
      /\ head' \in Snapshots /\ index' \in Snapshots /\ tree' \in Snapshots
      /\ sourceIntact' \in BOOLEAN /\ edits' \in 0 .. MaxEdits /\ faults' \in 0 .. MaxFaults
  BY TypeIs DEF gitVars, envVars
<1> QED
  BY <1>1 DEF TypeOK, LoopType, CallType, Steps, Operations

\* Every command keeps the types.
LEMMA CommandType ==
  ASSUME TypeOK, NEW s \in Sessions, Command(s)
  PROVE  TypeOK'
<1> USE TypeIs
<1> DEFINE c == call[s]
<1>0. /\ c \in CallType /\ NoCall \in CallType
      /\ c.digests \in Digests /\ c.bound \in Digests /\ c.permit \in Permits
      /\ c.status \in LoopStatuses \cup {""} /\ c.permitted \in BOOLEAN
      /\ c.revision \in {<<>>} \cup Snapshots
  BY EmptyTypes DEF CallType
<1>1. Return(s) => call' \in [Sessions -> CallType]
  BY <1>0, CallUpdate DEF Return
<1>2. ASSUME NEW step \in Steps, Goto(s, step)
      PROVE  call' \in [Sessions -> CallType]
  <2>1. [c EXCEPT !.step = step] \in CallType
    BY <1>0, CallFields
  <2>2. call' = [call EXCEPT ![s] = [c EXCEPT !.step = step]]
    BY <1>2 DEF Goto
  <2> QED
    BY <2>1, <2>2, CallUpdate
<1>3. ASSUME NEW op \in {"checkpoint", "authorize", "commit"}, Start(s, op)
      PROVE  TypeOK'
  <2> DEFINE d == [NoCall EXCEPT !.step = "inspect", !.op = op, !.status = loop.status,
                                 !.bound = loop.bound, !.permitted = loop.permitted]
  <2>1. d \in CallType
    BY EmptyTypes DEF CallType, LoopType, Steps, Operations
  <2> QED
    BY <1>3, <2>1, CallUpdate, OnlyCall DEF Start
<1>4. CASE Inspect(s)
  <2> DEFINE e == [c.digests EXCEPT !.status = Status]
             d == [c EXCEPT !.step = "hash", !.status = "", !.digests = e]
  <2>1. e \in Digests
    BY <1>0, DigestTypes DEF Digests
  <2>2. d \in CallType
    BY <1>0, <2>1 DEF CallType, Steps
  <2>3. Return(s) \/ call' = [call EXCEPT ![s] = d]
    BY <1>4 DEF Inspect
  <2> QED
    BY <1>1, <1>4, <2>2, <2>3, CallUpdate, OnlyCall DEF Inspect
<1>5. CASE HashForCheckpoint(s)
  <2> DEFINE e == [c.digests EXCEPT !.content = ArchiveDigest]
             step == IF archive = NoDigests THEN "store" ELSE "bindCheckpoint"
             d == [c EXCEPT !.digests = e, !.step = step]
  <2>1. e \in Digests
    BY <1>0, DigestTypes DEF Digests
  <2>2. d \in CallType
    BY <1>0, <2>1 DEF CallType, Steps
  <2>3. Return(s) \/ call' = [call EXCEPT ![s] = d]
    BY <1>5 DEF HashForCheckpoint
  <2> QED
    BY <1>1, <1>5, <2>2, <2>3, CallUpdate, OnlyCall DEF HashForCheckpoint
<1>6. CASE StoreArchive(s)
  <2>1. call' \in [Sessions -> CallType]
    BY <1>2, <1>6 DEF StoreArchive, Steps
  <2> QED
    BY <1>0, <1>6, <2>1 DEF StoreArchive, gitVars, envVars, TypeOK, LoopType, CallType, Steps,
                            Operations
<1>7. CASE Compare(s)
  <2> DEFINE e == [c.digests EXCEPT !.content = LiveDigest]
             step == IF c.op = "commit" THEN "readPermit" ELSE "permit"
             d == [c EXCEPT !.digests = e, !.step = step]
  <2>1. e \in Digests
    BY <1>0, DigestTypes DEF Digests
  <2>2. d \in CallType
    BY <1>0, <2>1 DEF CallType, Steps
  <2>3. Return(s) \/ call' = [call EXCEPT ![s] = d]
    BY <1>7 DEF Compare
  <2> QED
    BY <1>1, <1>7, <2>2, <2>3, CallUpdate, OnlyCall DEF Compare
<1>8. CASE WritePermit(s) \/ UsePermit(s)
  <2>1. call' \in [Sessions -> CallType]
    BY <1>2, <1>8 DEF WritePermit, UsePermit, Steps
  <2>2. permit' \in Permits
    <3>1. CASE WritePermit(s)
      BY <1>0, <3>1 DEF WritePermit, Permits
    <3>2. CASE UsePermit(s)
      BY <1>0, <3>2 DEF UsePermit, Permits
    <3> QED
      BY <1>8, <3>1, <3>2
  <2> QED
    BY <1>8, <2>1, <2>2 DEF WritePermit, UsePermit, gitVars, envVars, TypeOK, LoopType,
                            CallType, Steps, Operations
<1>9. CASE BindCheckpoint(s) \/ BindPermit(s) \/ BindRevision(s)
  <2>1. call' \in [Sessions -> CallType]
    BY <1>1, <1>9 DEF BindCheckpoint, BindPermit, BindRevision, Mark
  <2>2. loop' \in LoopType
    <3>1. CASE BindCheckpoint(s)
      BY <1>0, <3>1 DEF BindCheckpoint, Mark, LoopType, LoopStatuses
    <3>2. CASE BindPermit(s)
      BY <1>0, <3>2 DEF BindPermit, Mark, LoopType, LoopStatuses
    <3>3. CASE BindRevision(s)
      BY <1>0, <3>3 DEF BindRevision, Mark, LoopType, LoopStatuses
    <3> QED
      BY <1>9, <3>1, <3>2, <3>3
  <2> QED
    BY <1>9, <2>1, <2>2 DEF BindCheckpoint, BindPermit, BindRevision, gitVars, envVars, TypeOK,
                            LoopType, CallType, Steps, Operations
<1>10. CASE ReadPermit(s)
  <2> DEFINE d == [c EXCEPT !.step = "add", !.permit = permit]
  <2>1. d \in CallType
    BY <1>0, CallFields DEF Steps
  <2>2. Return(s) \/ call' = [call EXCEPT ![s] = d]
    BY <1>10 DEF ReadPermit
  <2> QED
    BY <1>1, <1>10, <2>1, <2>2, CallUpdate, OnlyCall DEF ReadPermit
<1>11. CASE GitAdd(s) \/ GitCommit(s)
  <2>1. call' \in [Sessions -> CallType]
    BY <1>1, <1>2, <1>11 DEF GitAdd, GitCommit, Steps
  <2> QED
    BY <1>11, <2>1 DEF GitAdd, GitCommit, envVars, TypeOK, LoopType, CallType, Steps, Operations
<1>12. CASE ResolveHead(s)
  <2> DEFINE d == [c EXCEPT !.step = "use", !.revision = head]
  <2>1. d \in CallType
    BY <1>0, CallFields DEF Steps
  <2>2. call' = [call EXCEPT ![s] = d]
    BY <1>12 DEF ResolveHead
  <2> QED
    BY <1>12, <2>1, <2>2, CallUpdate, OnlyCall DEF ResolveHead
<1>13. CASE Fail(s)
  <2>1. call' \in [Sessions -> CallType]
    BY <1>1, <1>13 DEF Fail
  <2>2. faults' \in 0 .. MaxFaults /\ head' \in Snapshots
    BY <1>13 DEF Fail
  <2> QED
    BY <1>13, <2>1, <2>2 DEF Fail, TypeOK, LoopType, CallType, Steps, Operations
<1> QED
  BY <1>3, <1>4, <1>5, <1>6, <1>7, <1>8, <1>9, <1>10, <1>11, <1>12, <1>13 DEF Command

\* So does everybody else.
LEMMA EnvironmentType == TypeOK /\ Environment => TypeOK'
<1> SUFFICES ASSUME TypeOK, Environment PROVE TypeOK'
  OBVIOUS
<1>1. ASSUME NEW p \in Paths, Edit(p) PROVE TypeOK'
  <2>1. edits' \in 0 .. MaxEdits
    <3>1. edits \in 0 .. MaxEdits /\ edits < MaxEdits /\ edits' = edits + 1
      BY <1>1 DEF Edit, TypeOK
    <3> QED
      BY <3>1
  <2>2. tree' \in Snapshots
    <3>1. PICK v \in Versions : tree' = [tree EXCEPT ![p] = v]
      BY <1>1 DEF Edit
    <3> QED
      BY <3>1 DEF TypeOK, Snapshots
  <2> QED
    BY <1>1, <2>1, <2>2 DEF Edit, TypeOK
<1>2. CASE EditSource
  <2>1. edits' \in 0 .. MaxEdits
    <3>1. edits \in 0 .. MaxEdits /\ edits < MaxEdits /\ edits' = edits + 1
      BY <1>2 DEF EditSource, TypeOK
    <3> QED
      BY <3>1
  <2>2. sourceIntact' \in BOOLEAN
    BY <1>2 DEF EditSource
  <2> QED
    BY <1>2, <2>1, <2>2 DEF EditSource, gitVars, TypeOK
<1>3. CASE Expire
  <2>1. permit' \in Permits
    BY <1>3 DEF Expire, TypeOK, Permits
  <2> QED
    BY <1>3, <2>1 DEF Expire, gitVars, envVars, TypeOK
<1>4. CASE Promote
  <2>1. loop' \in LoopType
    BY <1>4, TypeIs DEF Promote, Promotable, LoopType, LoopStatuses
  <2> QED
    BY <1>4, <2>1 DEF Promote, envVars, TypeOK, LoopType
<1>5. CASE Accept
  <2>1. loop' \in LoopType
    BY <1>5, TypeIs DEF Accept, LoopType, LoopStatuses
  <2> QED
    BY <1>5, <2>1 DEF Accept, gitVars, envVars, TypeOK, LoopType
<1> QED
  BY <1>1, <1>2, <1>3, <1>4, <1>5 DEF Environment

LEMMA NextTypes == TypeOK /\ [Next]_vars => TypeOK'
<1>1. TypeOK /\ UNCHANGED vars => TypeOK'
  BY DEF vars, gitVars, envVars, TypeOK
<1> QED
  BY <1>1, CommandType, EnvironmentType DEF Next

\* Every reachable state of the commands, the record and Git has its type.
THEOREM TypeCorrect == Spec => []TypeOK
  BY InitTypes, NextTypes, PTL DEF Spec

-----------------------------------------------------------------------------
(* The commit is the checkpoint.                                           *)

LEMMA InitSafe == Init => CommitInv
<1> SUFFICES ASSUME Init PROVE CommitInv
  OBVIOUS
<1>1. \A s \in Sessions : call[s].step = "idle" /\ call[s].op = "none"
  BY DEF Init, NoCall
<1> QED
  BY <1>1, InitTypes DEF CommitInv, ComparedCommits, OthersUntouched, HoldsCheckpoint,
                         StagedIsTree, Compared

\* A step of a session that leaves the Git variables alone is no concern of the
\* others: what is to be shown is what it says of its own call.
LEMMA OwnCall ==
  ASSUME CommitInv, NEW s \in Sessions, NEW c,
         call' = [call EXCEPT ![s] = c], UNCHANGED gitVars,
         c.step \in Compared => c.op = "commit",
         c.op = "commit" /\ c.step \in {"hash"} \cup Compared =>
           \A p \in Paths \ Evidence : head[p] = tree[p] /\ index[p] = tree[p],
         c.step \in Compared => \A p \in Evidence : c.bound.content[p].version = tree[p],
         c.step = "commit" => index = tree
  PROVE  /\ ComparedCommits' /\ OthersUntouched' /\ HoldsCheckpoint' /\ StagedIsTree'
<1>1. \A t \in Sessions : call'[t] = IF t = s THEN c ELSE call[t]
  BY DEF CommitInv, TypeOK
<1>2. UNCHANGED <<head, index, tree>>
  BY DEF gitVars
<1>3. ComparedCommits'
  BY <1>1 DEF CommitInv, ComparedCommits
<1>4. OthersUntouched'
  BY <1>1, <1>2 DEF CommitInv, OthersUntouched
<1>5. HoldsCheckpoint'
  BY <1>1, <1>2 DEF CommitInv, HoldsCheckpoint
<1>6. StagedIsTree'
  BY <1>1, <1>2 DEF CommitInv, StagedIsTree
<1> QED
  BY <1>3, <1>4, <1>5, <1>6

\* Git status lists exactly the evidence: no other path differs anywhere.
LEMMA OnlyEvidenceChanged ==
  ASSUME TypeOK, ChangedPaths(Status) = Evidence
  PROVE  \A p \in Paths \ Evidence : head[p] = tree[p] /\ index[p] = tree[p]
<1> SUFFICES ASSUME NEW p \in Paths \ Evidence
             PROVE  head[p] = tree[p] /\ index[p] = tree[p]
  OBVIOUS
<1>1. Status[p] = <<"unchanged", "unchanged">>
  BY DEF ChangedPaths
<1>2. Code(head[p], index[p]) = "unchanged" /\ Code(index[p], tree[p]) = "unchanged"
  BY <1>1 DEF Status
<1> QED
  BY <1>2 DEF Code

\* The commands keep the invariant.
LEMMA CommandSafe ==
  ASSUME CommitInv, NEW s \in Sessions, Command(s)
  PROVE  ComparedCommits' /\ OthersUntouched' /\ HoldsCheckpoint' /\ StagedIsTree'
<1> DEFINE c == call[s]
           Goal == ComparedCommits' /\ OthersUntouched' /\ HoldsCheckpoint' /\ StagedIsTree'
<1>0. /\ TypeOK /\ c \in CallType
      /\ c.step \in Compared => c.op = "commit"
      /\ c.op = "commit" /\ c.step \in {"hash"} \cup Compared =>
           \A p \in Paths \ Evidence : head[p] = tree[p] /\ index[p] = tree[p]
      /\ c.step \in Compared => \A p \in Evidence : c.bound.content[p].version = tree[p]
      /\ c.step = "commit" => index = tree
  BY TypeIs DEF CommitInv, ComparedCommits, OthersUntouched, HoldsCheckpoint, StagedIsTree
<1>1. Return(s) /\ UNCHANGED gitVars => Goal
  <2>1. NoCall.step = "idle"
    BY DEF NoCall
  <2> QED
    BY <2>1, OwnCall DEF Return, Compared
<1>2. ASSUME NEW step \in Steps, Goto(s, step), UNCHANGED gitVars,
             step \notin {"hash"} \cup Compared
      PROVE  Goal
  <2> DEFINE d == [c EXCEPT !.step = step]
  <2>1. call' = [call EXCEPT ![s] = d] /\ d.step = step
    BY <1>0, <1>2 DEF Goto, CallType
  <2> QED
    BY <1>2, <2>1, OwnCall DEF Compared
<1>3. ASSUME NEW op \in {"checkpoint", "authorize", "commit"}, Start(s, op)
      PROVE  Goal
  <2> DEFINE d == [NoCall EXCEPT !.step = "inspect", !.op = op, !.status = loop.status,
                                 !.bound = loop.bound, !.permitted = loop.permitted]
  <2>1. d.step = "inspect"
    BY DEF NoCall
  <2> QED
    BY <1>3, <2>1, OwnCall DEF Start, Compared
<1>4. CASE Inspect(s)
  <2>1. CASE Return(s)
    BY <1>1, <1>4, <2>1 DEF Inspect
  <2>2. CASE ~ Return(s)
    <3> DEFINE d == [c EXCEPT !.step = "hash", !.status = "", !.digests.status = Status]
    <3>1. ChangedPaths(Status) = Evidence /\ call' = [call EXCEPT ![s] = d]
      BY <1>4, <2>2 DEF Inspect
    <3>2. d.step = "hash"
      BY <1>0 DEF CallType
    <3>3. \A p \in Paths \ Evidence : head[p] = tree[p] /\ index[p] = tree[p]
      BY <1>0, <3>1, OnlyEvidenceChanged
    <3> QED
      BY <1>4, <3>1, <3>2, <3>3, OwnCall DEF Inspect, Compared
  <2> QED
    BY <2>1, <2>2
<1>5. CASE HashForCheckpoint(s)
  <2>1. CASE Return(s)
    BY <1>1, <1>5, <2>1 DEF HashForCheckpoint
  <2>2. CASE ~ Return(s)
    <3> DEFINE e == [c.digests EXCEPT !.content = ArchiveDigest]
               step == IF archive = NoDigests THEN "store" ELSE "bindCheckpoint"
               d == [c EXCEPT !.digests = e, !.step = step]
    <3>1. call' = [call EXCEPT ![s] = d]
      BY <1>5, <2>2 DEF HashForCheckpoint
    <3>2. d.step \in {"store", "bindCheckpoint"}
      BY <1>0 DEF CallType
    <3> QED
      BY <1>5, <3>1, <3>2, OwnCall DEF HashForCheckpoint, Compared
  <2> QED
    BY <2>1, <2>2
<1>6. CASE StoreArchive(s) \/ WritePermit(s) \/ UsePermit(s)
  <2>1. PICK step \in {"bindCheckpoint", "bindPermit", "bindRevision"} : Goto(s, step)
    <3>1. CASE StoreArchive(s)
      BY <3>1 DEF StoreArchive
    <3>2. CASE WritePermit(s)
      BY <3>2 DEF WritePermit
    <3>3. CASE UsePermit(s)
      BY <3>3 DEF UsePermit
    <3> QED
      BY <1>6, <3>1, <3>2, <3>3
  <2>2. UNCHANGED gitVars
    BY <1>6 DEF StoreArchive, WritePermit, UsePermit
  <2>3. step \in Steps /\ step \notin {"hash"} \cup Compared
    BY DEF Steps, Compared
  <2> QED
    BY <1>2, <2>1, <2>2, <2>3
<1>7. CASE Compare(s)
  <2>1. CASE Return(s)
    BY <1>1, <1>7, <2>1 DEF Compare
  <2>2. CASE ~ Return(s)
    <3> DEFINE e == [c.digests EXCEPT !.content = LiveDigest]
               step == IF c.op = "commit" THEN "readPermit" ELSE "permit"
               d == [c EXCEPT !.digests = e, !.step = step]
    <3>1. UnchangedSince(c) /\ call' = [call EXCEPT ![s] = d]
      BY <1>7, <2>2 DEF Compare
    <3>2. d.step = step /\ d.op = c.op /\ d.bound = c.bound
      BY <1>0 DEF CallType
    <3>3. \A p \in Evidence : c.bound.content[p].version = tree[p]
      BY <3>1 DEF UnchangedSince, LiveDigest
    <3>4. c.step = "hash" /\ UNCHANGED gitVars
      BY <1>7 DEF Compare
    <3>5. /\ d.step \in Compared => d.op = "commit"
          /\ d.step # "commit"
          /\ d.op = "commit" => \A p \in Paths \ Evidence : head[p] = tree[p] /\ index[p] = tree[p]
      BY <1>0, <3>2, <3>4 DEF Compared
    <3> HIDE DEF d
    <3> QED
      BY <3>1, <3>2, <3>3, <3>4, <3>5, OwnCall
  <2> QED
    BY <2>1, <2>2
<1>8. CASE BindCheckpoint(s) \/ BindPermit(s) \/ BindRevision(s)
  BY <1>1, <1>8 DEF BindCheckpoint, BindPermit, BindRevision, Mark
<1>9. CASE ReadPermit(s)
  <2>1. CASE Return(s)
    BY <1>1, <1>9, <2>1 DEF ReadPermit
  <2>2. CASE ~ Return(s)
    <3> DEFINE d == [c EXCEPT !.step = "add", !.permit = permit]
    <3>1. call' = [call EXCEPT ![s] = d]
      BY <1>9, <2>2 DEF ReadPermit
    <3>2. d.step = "add" /\ d.op = c.op /\ d.bound = c.bound
      BY <1>0 DEF CallType
    <3>3. c.step = "readPermit"
      BY <1>9 DEF ReadPermit
    <3> QED
      BY <1>0, <1>9, <3>1, <3>2, <3>3, OwnCall DEF ReadPermit, Compared
  <2> QED
    BY <2>1, <2>2
<1>10. CASE GitAdd(s)
  <2> DEFINE d == [c EXCEPT !.step = "commit"]
  <2>1. /\ call' = [call EXCEPT ![s] = d] /\ c.step = "add"
        /\ index' = tree /\ head' = head /\ tree' = tree
    BY <1>10 DEF GitAdd, Goto
  <2>2. d.step = "commit" /\ d.op = c.op /\ d.bound = c.bound
    BY <1>0 DEF CallType
  <2>3. \A t \in Sessions : call'[t] = IF t = s THEN d ELSE call[t]
    BY <1>0, <2>1 DEF TypeOK
  <2>4. ComparedCommits'
    BY <1>0, <2>1, <2>2, <2>3 DEF CommitInv, ComparedCommits, Compared
  <2>5. OthersUntouched'
    BY <1>0, <2>1, <2>2, <2>3 DEF CommitInv, OthersUntouched, Compared
  <2>6. HoldsCheckpoint'
    BY <1>0, <2>1, <2>2, <2>3 DEF CommitInv, HoldsCheckpoint, Compared
  <2>7. StagedIsTree'
    BY <2>1 DEF StagedIsTree
  <2> QED
    BY <2>4, <2>5, <2>6, <2>7
<1>11. CASE GitCommit(s) \/ Fail(s)
  <2> DEFINE r == [c EXCEPT !.step = "resolve"]
  <2>0. r.step = "resolve" /\ NoCall.step = "idle"
    BY <1>0 DEF NoCall, CallType
  <2>1. /\ index' = index /\ tree' = tree
        /\ head' = head \/ (c.step = "commit" /\ head' = index)
    BY <1>11 DEF GitCommit, Fail
  <2>2. PICK d \in {NoCall, r} : call' = [call EXCEPT ![s] = d]
    BY <1>11 DEF GitCommit, Fail, Return, Goto
  <2>3. \A t \in Sessions : call'[t] = IF t = s THEN d ELSE call[t]
    BY <1>0, <2>2 DEF TypeOK
  <2>4. d.step \in {"idle", "resolve"}
    BY <2>0, <2>2
  <2>5. ComparedCommits'
    BY <2>4, <2>3 DEF CommitInv, ComparedCommits, Compared
  <2>6. OthersUntouched'
    BY <1>0, <2>1, <2>4, <2>3 DEF CommitInv, OthersUntouched, Compared
  <2>7. HoldsCheckpoint'
    BY <2>1, <2>4, <2>3 DEF CommitInv, HoldsCheckpoint, Compared
  <2>8. StagedIsTree'
    BY <2>1, <2>4, <2>3 DEF CommitInv, StagedIsTree
  <2> QED
    BY <2>5, <2>6, <2>7, <2>8
<1>12. CASE ResolveHead(s)
  <2> DEFINE d == [c EXCEPT !.step = "use", !.revision = head]
  <2>1. call' = [call EXCEPT ![s] = d] /\ d.step = "use"
    BY <1>0, <1>12 DEF ResolveHead, CallType
  <2> QED
    BY <1>12, <2>1, OwnCall DEF ResolveHead, Compared
<1> QED
  BY <1>3, <1>4, <1>5, <1>6, <1>7, <1>8, <1>9, <1>10, <1>11, <1>12 DEF Command

\* The others keep it if humans do not edit while a commit is under way.
LEMMA EnvironmentSafe ==
  ASSUME CommitInv, Environment, RaceEdits = FALSE
  PROVE  ComparedCommits' /\ OthersUntouched' /\ HoldsCheckpoint' /\ StagedIsTree'
<1> USE DEF CommitInv, ComparedCommits, OthersUntouched, HoldsCheckpoint, StagedIsTree
<1>1. ASSUME NEW p \in Paths, Edit(p)
      PROVE  ComparedCommits' /\ OthersUntouched' /\ HoldsCheckpoint' /\ StagedIsTree'
  <2>1. call' = call /\ ~ Committing
    BY <1>1 DEF Edit
  <2>2. \A s \in Sessions : call[s].op = "commit" => call[s].step \notin {"hash"} \cup Compared
    BY <2>1 DEF Committing, Compared
  <2>3. \A s \in Sessions : call[s].step \notin Compared
    BY <2>2
  <2> QED
    BY <2>1, <2>2, <2>3 DEF Compared
<1>2. CASE EditSource \/ Expire \/ Accept
  <2>1. UNCHANGED <<call, head, index, tree>>
    BY <1>2 DEF EditSource, Expire, Accept, gitVars
  <2> QED
    BY <2>1
<1>3. CASE Promote
  <2>1. call' = call /\ tree' = tree /\ head' = tree /\ index' = tree
    BY <1>3 DEF Promote
  <2> QED
    BY <2>1
<1> QED
  BY <1>1, <1>2, <1>3 DEF Environment

LEMMA NextSafe == RaceEdits = FALSE /\ CommitInv /\ [Next]_vars => CommitInv'
<1> SUFFICES ASSUME RaceEdits = FALSE, CommitInv, [Next]_vars PROVE CommitInv'
  OBVIOUS
<1>1. TypeOK'
  BY NextTypes DEF CommitInv
<1>2. CASE UNCHANGED vars
  BY <1>1, <1>2 DEF CommitInv, ComparedCommits, OthersUntouched, HoldsCheckpoint,
                    StagedIsTree, vars, gitVars
<1>3. CASE Environment
  BY <1>1, <1>3, EnvironmentSafe DEF CommitInv
<1>4. ASSUME NEW s \in Sessions, Command(s) PROVE CommitInv'
  BY <1>1, <1>4, CommandSafe DEF CommitInv
<1> QED
  BY <1>2, <1>3, <1>4 DEF Next

\* Whoever moves HEAD, it moves to the worktree or to an index that is
\* about to be committed.
LEMMA HeadMoves ==
  ASSUME CommitInv, [Next]_vars, head' # head
  PROVE  head' = tree
<1>1. CASE Environment
  BY <1>1 DEF Environment, Edit, EditSource, Expire, Promote, Accept, gitVars
<1>2. ASSUME NEW s \in Sessions, Command(s) PROVE head' = tree
  <2>1. GitCommit(s) \/ Fail(s)
    BY <1>2 DEF Command, Start, Inspect, HashForCheckpoint, StoreArchive, BindCheckpoint,
                Compare, WritePermit, BindPermit, ReadPermit, GitAdd, ResolveHead, UsePermit,
                BindRevision, gitVars
  <2>2. call[s].step = "commit" /\ head' = index
    BY <2>1 DEF GitCommit, Fail
  <2> QED
    BY <2>2 DEF CommitInv, StagedIsTree
<1> QED
  BY <1>1, <1>2 DEF Next, vars, gitVars

LEMMA StepCommitsCheckpoint ==
  ASSUME CommitInv, [Next]_vars, NEW s \in Sessions, call[s].step = "commit", head' # head
  PROVE  /\ \A p \in Evidence : head'[p] = call[s].bound.content[p].version
         /\ \A p \in Paths \ Evidence : head'[p] = head[p]
<1>1. call[s].step \in Compared /\ call[s].op = "commit"
  BY DEF CommitInv, ComparedCommits, Compared
<1>2. /\ \A p \in Evidence : call[s].bound.content[p].version = tree[p]
      /\ \A p \in Paths \ Evidence : head[p] = tree[p]
  BY <1>1 DEF CommitInv, HoldsCheckpoint, OthersUntouched
<1> QED
  BY <1>2, HeadMoves

\* What `loop commit` (checkpoint.py:548) commits is the checkpoint it was
\* called for, for any number of sessions, paths, edits and faults, if nobody
\* edits the worktree while it runs.
THEOREM CommitSafety == RaceEdits = FALSE /\ Spec => CommitMatchesCheckpoint
<1>1. RaceEdits = FALSE /\ Spec => []CommitInv
  <2> SUFFICES ASSUME RaceEdits = FALSE PROVE Spec => []CommitInv
    OBVIOUS
  <2>1. CommitInv /\ [Next]_vars => CommitInv'
    BY NextSafe
  <2> QED
    BY <2>1, InitSafe, PTL DEF Spec
<1>2. CommitInv /\ [Next]_vars =>
        [\A s \in Sessions :
           call[s].step = "commit" /\ head' # head =>
             /\ \A p \in Evidence : head'[p] = call[s].bound.content[p].version
             /\ \A p \in Paths \ Evidence : head'[p] = head[p]]_vars
  BY StepCommitsCheckpoint
<1> QED
  BY <1>1, <1>2, PTL DEF Spec, CommitMatchesCheckpoint

-----------------------------------------------------------------------------
(* When an unchanged worktree can be authorized.                           *)

\* A digest in the order in which create hashes: files first, then deletions.
Deleted(content, p) == content[p].version = "none"
FilesFirst(content) ==
  [p \in Evidence |-> [version |-> content[p].version, after |-> {q \in Evidence :
     IF Deleted(content, q) <=> Deleted(content, p) THEN q < p ELSE Deleted(content, p)}]]

InOrder(content) == content = FilesFirst(content)

\* The archive, and one about to be stored, are such digests.
ArchivedInOrder ==
  /\ archive # NoDigests => InOrder(archive.content)
  /\ \A s \in Sessions : call[s].step = "store" => InOrder(call[s].digests.content)

LEMMA ArchiveDigestInOrder == InOrder(ArchiveDigest)
<1>1. \A p \in Evidence : Deleted(ArchiveDigest, p) <=> tree[p] = "none"
  BY DEF ArchiveDigest, Deleted
<1>2. ASSUME NEW p \in Evidence
      PROVE  {q \in Evidence : IF tree[q] = "none" <=> tree[p] = "none"
                                 THEN q < p ELSE tree[p] = "none"}
             = {q \in Evidence : IF Deleted(ArchiveDigest, q) <=> Deleted(ArchiveDigest, p)
                                   THEN q < p ELSE Deleted(ArchiveDigest, p)}
  BY <1>1
<1>3. FilesFirst(ArchiveDigest) = [p \in Evidence |->
        [version |-> tree[p],
         after |-> {q \in Evidence : IF tree[q] = "none" <=> tree[p] = "none"
                                       THEN q < p ELSE tree[p] = "none"}]]
  <2>1. \A p \in Evidence : ArchiveDigest[p].version = tree[p]
    BY DEF ArchiveDigest
  <2> QED BY <1>2, <2>1, Zenon DEF FilesFirst
<1> QED BY <1>3, Zenon DEF InOrder, ArchiveDigest

LEMMA InitOrder == Init => ArchivedInOrder
<1>1. Init => archive = NoDigests /\ \A s \in Sessions : call[s] = NoCall
  BY DEF Init
<1>2. NoCall.step = "idle"
  BY DEF NoCall
<1> QED BY <1>1, <1>2 DEF ArchivedInOrder

LEMMA OrderKept ==
  ASSUME ArchivedInOrder, archive' = archive \/ InOrder(archive'.content),
         \A t \in Sessions : \/ call'[t].step # "store"
                             \/ call'[t].digests = call[t].digests /\ call[t].step = "store"
                             \/ InOrder(call'[t].digests.content)
  PROVE  ArchivedInOrder'
<1>1. archive' # NoDigests => InOrder(archive'.content)
  BY DEF ArchivedInOrder
<1>2. \A t \in Sessions : call'[t].step = "store" => InOrder(call'[t].digests.content)
  BY DEF ArchivedInOrder
<1> QED BY <1>1, <1>2, Zenon DEF ArchivedInOrder, InOrder, FilesFirst, Deleted

\* What a command does to the others: nothing.
LEMMA CallMoves ==
  ASSUME TypeOK, NEW s \in Sessions, NEW c, call' = [call EXCEPT ![s] = c]
  PROVE  call'[s] = c /\ \A t \in Sessions \ {s} : call'[t] = call[t]
  BY TypeIs

\* Only a checkpoint that has hashed the files goes on to store them.
LEMMA OrderCommand ==
  ASSUME TypeOK, ArchivedInOrder, NEW s \in Sessions, Command(s)
  PROVE  ArchivedInOrder'
<1> DEFINE c == call[s]
<1>0. c \in CallType /\ NoCall.step = "idle"
  BY TypeIs DEF NoCall
<1>1. ASSUME archive' = archive, NEW d, call' = [call EXCEPT ![s] = d],
             d.step # "store" \/ InOrder(d.digests.content)
      PROVE  ArchivedInOrder'
  <2>1. call'[s] = d /\ \A t \in Sessions \ {s} : call'[t] = call[t]
    BY <1>1, CallMoves
  <2> QED BY <1>1, <2>1, OrderKept
<1>2. ASSUME archive' = archive, Return(s) PROVE ArchivedInOrder'
  BY <1>0, <1>1, <1>2 DEF Return
<1>3. ASSUME NEW step \in Steps \ {"store"}, Goto(s, step)
      PROVE  /\ call' = [call EXCEPT ![s] = [c EXCEPT !.step = step]]
             /\ [c EXCEPT !.step = step].step # "store"
  BY <1>0, <1>3, TypeIs DEF Goto, CallType
<1>4. ASSUME archive' = archive, NEW step \in Steps \ {"store"}, Goto(s, step)
      PROVE  ArchivedInOrder'
  BY <1>1, <1>3, <1>4
<1>5. CASE StoreArchive(s)
  <2>1. archive' = c.digests /\ InOrder(archive'.content) /\ Goto(s, "bindCheckpoint")
    BY <1>5 DEF StoreArchive, ArchivedInOrder
  <2>2. call'[s].step # "store" /\ \A t \in Sessions \ {s} : call'[t] = call[t]
    BY <1>3, <2>1, CallMoves DEF Steps
  <2> QED BY <2>1, <2>2, OrderKept
<1>6. CASE HashForCheckpoint(s)
  <2> DEFINE digests == [c.digests EXCEPT !.content = ArchiveDigest]
  <2>1. archive' = archive
    BY <1>6 DEF HashForCheckpoint
  <2>2. CASE Return(s)
    BY <1>2, <2>1, <2>2
  <2>3. CASE ~ Return(s)
    <3> DEFINE d == [c EXCEPT !.digests = digests,
                      !.step = IF archive = NoDigests THEN "store" ELSE "bindCheckpoint"]
    <3>1. call' = [call EXCEPT ![s] = d]
      BY <1>6, <2>3 DEF HashForCheckpoint
    <3>2. digests.content = ArchiveDigest
      BY <1>0 DEF CallType, Digests
    <3>3. d.digests = digests
      BY <1>0 DEF CallType
    <3>4. InOrder(d.digests.content)
      BY <3>2, <3>3, ArchiveDigestInOrder
    <3> QED BY <1>1, <2>1, <3>1, <3>4
  <2> QED BY <2>2, <2>3
<1>7. CASE \E op \in {"checkpoint", "authorize", "commit"} : Start(s, op)
  <2>1. PICK op \in {"checkpoint", "authorize", "commit"} : Start(s, op)
    BY <1>7
  <2> DEFINE d == [NoCall EXCEPT !.step = "inspect", !.op = op, !.status = loop.status,
                      !.bound = loop.bound, !.permitted = loop.permitted]
  <2>2. archive' = archive /\ call' = [call EXCEPT ![s] = d]
    BY <2>1 DEF Start
  <2>3. d.step = "inspect"
    BY DEF NoCall
  <2> QED BY <1>1, <2>2, <2>3
<1>8. CASE Inspect(s)
  <2>1. archive' = archive
    BY <1>8 DEF Inspect
  <2>2. CASE Return(s)
    BY <1>2, <2>1, <2>2
  <2>3. CASE ~ Return(s)
    <3> DEFINE d == [c EXCEPT !.step = "hash", !.status = "", !.digests.status = Status]
    <3>1. call' = [call EXCEPT ![s] = d]
      BY <1>8, <2>3 DEF Inspect
    <3>2. d.step = "hash"
      BY <1>0 DEF CallType
    <3> QED BY <1>1, <2>1, <3>1, <3>2
  <2> QED BY <2>2, <2>3
<1>9. CASE Compare(s)
  <2>1. archive' = archive
    BY <1>9 DEF Compare
  <2>2. CASE Return(s)
    BY <1>2, <2>1, <2>2
  <2>3. CASE ~ Return(s)
    <3> DEFINE d == [c EXCEPT !.digests.content = LiveDigest,
                      !.step = IF c.op = "commit" THEN "readPermit" ELSE "permit"]
    <3>1. call' = [call EXCEPT ![s] = d]
      BY <1>9, <2>3 DEF Compare
    <3>2. d.step # "store"
      BY <1>0 DEF CallType
    <3> QED BY <1>1, <2>1, <3>1, <3>2
  <2> QED BY <2>2, <2>3
<1>10. CASE ReadPermit(s)
  <2>1. archive' = archive
    BY <1>10 DEF ReadPermit
  <2>2. CASE Return(s)
    BY <1>2, <2>1, <2>2
  <2>3. CASE ~ Return(s)
    <3> DEFINE d == [c EXCEPT !.step = "add", !.permit = permit]
    <3>1. call' = [call EXCEPT ![s] = d]
      BY <1>10, <2>3 DEF ReadPermit
    <3>2. d.step = "add"
      BY <1>0 DEF CallType
    <3> QED BY <1>1, <2>1, <3>1, <3>2
  <2> QED BY <2>2, <2>3
<1>11. CASE ResolveHead(s)
  <2> DEFINE d == [c EXCEPT !.step = "use", !.revision = head]
  <2>1. archive' = archive /\ call' = [call EXCEPT ![s] = d]
    BY <1>11 DEF ResolveHead
  <2>2. d.step = "use"
    BY <1>0 DEF CallType
  <2> QED BY <1>1, <2>1, <2>2
<1>12. CASE BindCheckpoint(s) \/ BindPermit(s) \/ BindRevision(s) \/ Fail(s)
  BY <1>2, <1>12 DEF BindCheckpoint, BindPermit, BindRevision, Fail, Mark
<1>13. CASE WritePermit(s) \/ GitAdd(s) \/ UsePermit(s)
  <2>1. archive' = archive
    BY <1>13 DEF WritePermit, GitAdd, UsePermit
  <2>2. Goto(s, "bindPermit") \/ Goto(s, "commit") \/ Goto(s, "bindRevision")
    BY <1>13 DEF WritePermit, GitAdd, UsePermit
  <2> QED BY <1>4, <2>1, <2>2 DEF Steps
<1>14. CASE GitCommit(s)
  <2>1. archive' = archive /\ (Return(s) \/ Goto(s, "resolve"))
    BY <1>14 DEF GitCommit
  <2> QED BY <1>2, <1>4, <2>1 DEF Steps
<1> QED
  BY <1>5, <1>6, <1>7, <1>8, <1>9, <1>10, <1>11, <1>12, <1>13, <1>14 DEF Command

LEMMA OrderNext ==
  ASSUME TypeOK, ArchivedInOrder, [Next]_vars
  PROVE  ArchivedInOrder'
<1>1. ASSUME Environment \/ UNCHANGED vars PROVE ArchivedInOrder'
  <2>1. archive' = archive /\ call' = call
    BY <1>1 DEF Environment, Edit, EditSource, Expire, Promote, Accept, vars
  <2> QED BY <2>1, OrderKept
<1> QED BY <1>1, OrderCommand DEF Next

\* The two orders give one digest exactly if deletions come last in both.
LEMMA DigestsAgree ==
  (\A p \in Evidence : ArchiveDigest[p] = LiveDigest[p]) <=> DeletionsLast
<1>1. ASSUME DeletionsLast, NEW p \in Evidence PROVE ArchiveDigest[p] = LiveDigest[p]
  <2>1. ASSUME NEW q \in Evidence
        PROVE  (IF tree[q] = "none" <=> tree[p] = "none" THEN q < p ELSE tree[p] = "none")
               <=> q < p
    <3>1. p \in Nat /\ q \in Nat
      OBVIOUS
    <3>2. CASE tree[q] = "none" <=> tree[p] = "none"
      BY <3>2
    <3>3. CASE tree[p] = "none" /\ tree[q] # "none"
      BY <1>1, <3>3 DEF DeletionsLast
    <3>4. CASE tree[p] # "none" /\ tree[q] = "none"
      <4>1. p < q
        BY <1>1, <3>4 DEF DeletionsLast
      <4> QED BY <3>1, <3>4, <4>1
    <3> QED BY <3>2, <3>3, <3>4
  <2>2. ArchiveDigest[p].after = LiveDigest[p].after
    BY <2>1 DEF ArchiveDigest, LiveDigest
  <2> QED BY <2>2 DEF ArchiveDigest, LiveDigest
<1>2. ASSUME \A p \in Evidence : ArchiveDigest[p] = LiveDigest[p],
             NEW p \in Evidence, NEW q \in Evidence, tree[p] = "none", tree[q] # "none"
      PROVE  q < p
  <2>1. q \in ArchiveDigest[p].after
    BY <1>2 DEF ArchiveDigest
  <2>2. q \in LiveDigest[p].after
    BY <1>2, <2>1
  <2> QED BY <2>2 DEF LiveDigest
<1> QED BY <1>1, <1>2 DEF DeletionsLast

\* As long as the worktree holds the archived files, authorize-commit computes the digest
\* of the checkpoint if and only if every deleted path sorts after every remaining one
\* (create and _current_content_digest of checkpoint.py).
THEOREM DigestsAgreeExactly == Spec => []DigestDependsOnOrder
<1>1. TypeOK /\ ArchivedInOrder /\ [Next]_vars => ArchivedInOrder'
  BY OrderNext
<1>2. ArchivedInOrder => DigestDependsOnOrder
  <2> SUFFICES ASSUME InOrder(archive.content),
                      \A p \in Evidence : archive.content[p].version = tree[p]
               PROVE  archive.content = LiveDigest <=> DeletionsLast
    BY DEF ArchivedInOrder, DigestDependsOnOrder
  <2>1. FilesFirst(archive.content) = ArchiveDigest
    <3>1. \A p \in Evidence : Deleted(archive.content, p) <=> tree[p] = "none"
      BY DEF Deleted
    <3>2. ASSUME NEW p \in Evidence
          PROVE  {q \in Evidence : IF tree[q] = "none" <=> tree[p] = "none"
                                     THEN q < p ELSE tree[p] = "none"}
                 = {q \in Evidence :
                      IF Deleted(archive.content, q) <=> Deleted(archive.content, p)
                        THEN q < p ELSE Deleted(archive.content, p)}
      BY <3>1
    <3> QED BY <3>2, Zenon DEF FilesFirst, ArchiveDigest
  <2>2. archive.content = ArchiveDigest
    BY <2>1 DEF InOrder
  <2>3. ArchiveDigest = LiveDigest <=> \A p \in Evidence : ArchiveDigest[p] = LiveDigest[p]
    BY DEF ArchiveDigest, LiveDigest
  <2> QED BY <2>2, <2>3, DigestsAgree
<1> QED BY <1>1, <1>2, InitOrder, TypeCorrect, PTL DEF Spec
=============================================================================
