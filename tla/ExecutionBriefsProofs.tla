------------------------- MODULE ExecutionBriefsProofs -------------------------
(***************************************************************************)
(* Theorems about execution briefs on top of the project store: decisions  *)
(* are kept, and revocations hold.  The store's own theorems carry over,   *)
(* since every step of the composition is a step of the store or leaves it *)
(* alone.                                                                  *)
(***************************************************************************)
EXTENDS ExecutionBriefs, ProjectStoreProofs

USE ConstantsAssumption, BriefAssumption

Drafts == [step : {"idle", "empty", "fill", "profile", "hand"},
           brief : Briefs \cup {NoBrief}, copy : BriefFiles]
Settlements == [by : Decisions \cup {"nobody"}, from : 0 .. MaxEvents + 1]

\* A consumer's copy of a brief, approved, was read before a revocation, if any.
NotRevoked(d, c, decision) ==
  d.copy.approved => /\ decision.by # "brief"
                     /\ decision.by = "revoke" => c.number < decision.from

\* What a session that works on a brief has checked.
DraftSound(s) == draft[s].step # "idle" =>
  LET d == draft[s]
      c == call[s]
      b == d.brief
  IN
  /\ c.step = "loaded" /\ b \in Briefs /\ brief[b].file # "absent"
  /\ d.copy.file = "whole" /\ d.copy.scope \in registered
  /\ d.step \in {"empty", "fill"} => c.op \in Decisions /\ settled[b].by = "nobody"
  /\ d.step = "empty" => c.op # "brief"
  /\ d.step \in {"profile", "hand"} => NotRevoked(d, c, settled[b])
  /\ d.step = "fill" /\ c.op = "brief" =>
       /\ brief[b].file = "torn"
       /\ \A t \in Sessions \ {s} : draft[t].step # "idle" => draft[t].brief # b

SettledSound(b) == settled[b].by # "nobody" =>
  brief[b].file = "whole" /\ (brief[b].approved <=> settled[b].by = "approve")

BriefTypeOK ==
  /\ brief \in [Briefs -> BriefFiles]
  /\ draft \in [Sessions -> Drafts]
  /\ handoffs \subseteq [brief : Briefs, number : 0 .. MaxEvents]
  /\ settled \in [Briefs -> Settlements]

\* The inductive invariant, beside the store's.
BriefInvariant ==
  /\ BriefTypeOK
  /\ \A b \in Briefs : /\ brief[b].file # "absent" => brief[b].scope \in registered
                       /\ SettledSound(b)
  /\ \A s \in Sessions : DraftSound(s)

-----------------------------------------------------------------------------
(* The composition takes the steps of the store                            *)

LEMMA NextIsStoreNext ==
  ASSUME [Next]_vars
  PROVE  [StoreNext]_storeVars
<1>1. CASE StoreStep
  BY <1>1 DEF StoreStep, StoreNext
<1>2. ASSUME NEW s \in Sessions, BriefStep(s) \/ BriefCrash(s)
      PROVE  [StoreNext]_storeVars
  <2>1. Going \/ Leave(s) \/ Crash(s)
    BY <1>2 DEF BriefStep, BriefCrash, Generate, Read, Empty, Fill, LoadProfile, HandOver,
                Decline, Finish
  <2>. QED BY <2>1 DEF Going, StoreNext
<1>3. CASE UNCHANGED vars
  BY <1>3 DEF vars
<1>. QED BY <1>1, <1>2, <1>3 DEF Next

\* The composition implements the store: its briefs add nothing to what commands do
\* to state files.
THEOREM StoreImplemented == Spec => StoreSpec
<1>1. Init => StoreInit
  BY DEF Init
<1>2. [Next]_vars => [StoreNext]_storeVars
  BY NextIsStoreNext
<1>. QED BY <1>1, <1>2, PTL DEF Spec, StoreSpec

\* The type, coherence and isolation invariants of the store, in the composition.
THEOREM StoreHolds == Spec => []StoreInvariant
  BY StoreImplemented, StoreSafety, PTL

-----------------------------------------------------------------------------
(* Steps of the store, and of dying processes                              *)

\* Nothing but its own next step touches a command that has loaded its state.
LEMMA LoadedStays ==
  ASSUME StoreInvariant, StoreStep, NEW t \in Sessions, call[t].step = "loaded"
  PROVE  call'[t] = call[t] /\ registered \subseteq registered'
<1>1. call \in [Sessions -> Calls]
  BY DEF StoreInvariant, StoreTypeOK
<1>2. CASE Environment
  BY <1>2 DEF Environment, Damage, ResetKill
<1>3. ASSUME NEW s \in Sessions, StoreCommand(s)
      PROVE  call'[t] = call[t] /\ registered \subseteq registered'
  <2>1. CASE s = t
    BY <1>3, <2>1 DEF StoreCommand, Access, Begin, Activate, Resolve, Guard, Load, Mutate, Write,
       Save, MayAccess
  <2>2. CASE s # t
    <3>1. /\ registered \subseteq registered'
          /\ \E c : call' = [call EXCEPT ![s] = c]
      <4>1. CASE \E op \in Commands : \E input \in Inputs(op) : Begin(s, op, input)
        BY <4>1 DEF Begin
      <4>2. CASE Activate(s)
        BY <4>2 DEF Activate, Return
      <4>3. CASE Resolve(s)
        BY <4>3 DEF Resolve, Return
      <4>4. CASE Guard(s)
        BY <4>4 DEF Guard
      <4>5. CASE Load(s)
        BY <4>5 DEF Load
      <4>6. CASE Mutate(s)
        BY <4>6 DEF Mutate
      <4>7. CASE Write(s)
        BY <4>7 DEF Write
      <4>8. CASE Save(s)
        BY <4>8 DEF Save
      <4>. QED BY <1>3, <4>1, <4>2, <4>3, <4>4, <4>5, <4>6, <4>7, <4>8 DEF StoreCommand, Access
    <3>. QED BY <1>1, <2>2, <3>1
  <2>. QED BY <2>1, <2>2
<1>. QED BY <1>2, <1>3 DEF StoreStep

LEMMA StoreStepInvariant ==
  ASSUME StoreInvariant, BriefInvariant, StoreStep
  PROVE  BriefInvariant'
<1>1. UNCHANGED briefVars
  BY DEF StoreStep
<1>2. registered \subseteq registered'
  <2>1. CASE Environment
    BY <2>1 DEF Environment, Damage, ResetKill
  <2>2. ASSUME NEW s \in Sessions, StoreCommand(s) PROVE registered \subseteq registered'
    <3>1. CASE \E op \in Commands : \E input \in Inputs(op) : Begin(s, op, input)
      BY <3>1 DEF Begin
    <3>2. CASE Activate(s) \/ Access(s)
      BY <3>2 DEF Activate, Access, Resolve, Guard, Load, Mutate, Write, Save
    <3> QED BY <2>2, <3>1, <3>2 DEF StoreCommand
  <2> QED BY <2>1, <2>2 DEF StoreStep
<1>3. ASSUME NEW s \in Sessions
      PROVE  DraftSound(s)'
  <2>1. DraftSound(s)
    BY DEF BriefInvariant
  <2>2. draft[s].step # "idle" => call'[s] = call[s]
    BY <2>1, LoadedStays DEF DraftSound
  <2>. QED BY <1>1, <1>2, <2>1, <2>2 DEF DraftSound, briefVars
<1>. QED BY <1>1, <1>2, <1>3 DEF BriefInvariant, BriefTypeOK, SettledSound,
                                 briefVars

\* A session ends its work on a brief, and writes nothing.
LEMMA EndInvariant ==
  ASSUME StoreInvariant, BriefInvariant, NEW s \in Sessions, Return(s),
         draft' = [draft EXCEPT ![s] = NoDraft], UNCHANGED <<brief, settled, registered>>,
         handoffs' \subseteq [brief : Briefs, number : 0 .. MaxEvents]
  PROVE  BriefInvariant'
<1>1. call \in [Sessions -> Calls] /\ draft \in [Sessions -> Drafts]
  BY DEF StoreInvariant, StoreTypeOK, BriefInvariant, BriefTypeOK
<1>2. NoDraft \in Drafts
  BY DEF NoDraft, Drafts, Absent, BriefFiles
<1>3. BriefTypeOK'
  BY <1>1, <1>2 DEF BriefInvariant, BriefTypeOK
<1>4. ASSUME NEW t \in Sessions
      PROVE  DraftSound(t)'
  <2>1. CASE t = s
    BY <1>1, <2>1 DEF DraftSound, NoDraft
  <2>2. CASE t # s
    <3>1. draft'[t] = draft[t] /\ call'[t] = call[t] /\ draft'[s].step = "idle"
      BY <1>1, <2>2 DEF Return, NoDraft
    <3>2. \A u \in Sessions : draft'[u].step # "idle" => draft'[u] = draft[u]
      BY <1>1, <3>1
    <3>3. DraftSound(t)
      BY DEF BriefInvariant
    <3>. QED BY <3>1, <3>2, <3>3 DEF DraftSound
  <2>. QED BY <2>1, <2>2
<1>. QED BY <1>3, <1>4 DEF BriefInvariant, SettledSound

-----------------------------------------------------------------------------
(* Steps of commands that work on briefs                                   *)

\* What is known of a session before its step.
LEMMA BriefFacts ==
  ASSUME StoreInvariant, BriefInvariant, NEW s \in Sessions
  PROVE  /\ call \in [Sessions -> Calls] /\ draft \in [Sessions -> Drafts]
         /\ brief \in [Briefs -> BriefFiles] /\ settled \in [Briefs -> Settlements]
         /\ call[s] \in Calls /\ call[s].snapshot \in Contents
         /\ CoherentIn(call[s].snapshot, known, registered)
         /\ registered \subseteq Registrations
         /\ begun \in 0 .. MaxEvents /\ call[s].number <= begun
         /\ DraftSound(s)
<1>1. call[s] \in Calls /\ Sound(call[s], known, lossy, registered, begun)
  BY AccessFacts
<1>2. call[s].snapshot \in Contents
  BY <1>1 DEF Calls
<1>. QED BY <1>1, <1>2 DEF StoreInvariant, StoreTypeOK, BriefInvariant, BriefTypeOK, Sound

LEMMA GenerateInvariant ==
  ASSUME StoreInvariant, BriefInvariant, NEW s \in Sessions, NEW b \in Briefs, Generate(s, b)
  PROVE  BriefInvariant'
<1>. PICK r : r = call[s].snapshot.registration
  OBVIOUS
<1>. PICK new : new = [file |-> "whole", scope |-> r, approved |-> FALSE]
  OBVIOUS
<1>. PICK torn : torn = [new EXCEPT !.file = "torn"]
  OBVIOUS
<1>. PICK d : d = [step |-> "fill", brief |-> b, copy |-> new]
  OBVIOUS
<1>1. /\ call[s].step = "loaded" /\ call[s].op = "brief" /\ brief[b].file = "absent"
      /\ r # None /\ draft' = [draft EXCEPT ![s] = d]
      /\ brief' = [brief EXCEPT ![b] = torn]
      /\ UNCHANGED <<call, registered, handoffs, settled>>
  <2>2. call[s].step = "loaded" /\ call[s].op = "brief" /\ brief[b] = Absent /\ r # None
    BY DEF Generate, Loaded
  <2>3. draft' = [draft EXCEPT ![s] = d]
    BY DEF Generate
  <2>4. brief' = [brief EXCEPT ![b] = torn]
    BY DEF Generate
  <2>5. UNCHANGED <<call, registered, handoffs, settled>>
    BY DEF Generate, Going, storeVars
  <2>. QED BY <2>2, <2>3, <2>4, <2>5 DEF Absent
<1>2. r \in registered /\ r \in Registrations
  BY <1>1, BriefFacts DEF CoherentIn
<1>3. /\ new \in BriefFiles /\ torn \in BriefFiles /\ d \in Drafts
      /\ torn.file = "torn" /\ torn.scope = r
  BY <1>2 DEF BriefFiles, Drafts
<1>4. BriefTypeOK'
  BY <1>1, <1>3 DEF BriefInvariant, BriefTypeOK
<1>5. settled[b].by = "nobody"
  BY <1>1 DEF BriefInvariant, SettledSound
<1>6. ASSUME NEW a \in Briefs
      PROVE  /\ brief'[a].file # "absent" => brief'[a].scope \in registered'
             /\ SettledSound(a)'
  BY <1>1, <1>2, <1>3, <1>5, BriefFacts DEF BriefInvariant, SettledSound
<1>7. ASSUME NEW t \in Sessions, t # s, draft[t].step # "idle"
      PROVE  draft[t].brief # b
  BY <1>1, <1>7 DEF BriefInvariant, DraftSound
<1>8. ASSUME NEW t \in Sessions
      PROVE  DraftSound(t)'
  <2>1. CASE t = s
    <3>1. draft'[t] = d /\ brief'[b] = torn
      BY <1>1, <2>1, BriefFacts
    <3>2. \A u \in Sessions \ {s} : draft'[u] = draft[u]
      BY <1>1, BriefFacts
    <3>. QED BY <1>1, <1>2, <1>3, <1>5, <1>7, <2>1, <3>1, <3>2 DEF DraftSound, Decisions
  <2>2. CASE t # s
    <3>1. draft'[t] = draft[t] /\ call'[t] = call[t] /\ draft'[s].brief = b
      BY <1>1, <2>2, BriefFacts
    <3>2. \A u \in Sessions : u # s => draft'[u] = draft[u]
      BY <1>1, BriefFacts
    <3>3. draft[t].step # "idle" => draft[t].brief # b /\ brief'[draft[t].brief] = brief[draft[t].brief]
      BY <1>1, <1>7, <2>2, BriefFacts DEF BriefInvariant, DraftSound
    <3>4. DraftSound(t)
      BY DEF BriefInvariant
    <3>. QED BY <1>1, <3>1, <3>2, <3>3, <3>4 DEF DraftSound
  <2>. QED BY <2>1, <2>2
<1>. QED BY <1>1, <1>4, <1>6, <1>8 DEF BriefInvariant

LEMMA ReadInvariant ==
  ASSUME StoreInvariant, BriefInvariant, NEW s \in Sessions, NEW b \in Briefs, Read(s, b)
  PROVE  BriefInvariant'
<1>. PICK step : step = CASE call[s].op = "run" -> "hand" [] call[s].op = "loop" -> "profile"
                          [] OTHER -> "empty"
  OBVIOUS
<1>. PICK d : d = [brief |-> b, copy |-> brief[b], step |-> step]
  OBVIOUS
<1>1. /\ call[s].step = "loaded" /\ call[s].op \in Consumers \cup {"approve", "revoke"}
      /\ draft[s].step = "idle" /\ brief[b].file = "whole"
      /\ draft' = [draft EXCEPT ![s] = d]
      /\ settled' = IF call[s].op \in Consumers THEN settled ELSE [settled EXCEPT ![b] = Open]
      /\ UNCHANGED <<call, registered, brief, handoffs>>
  BY DEF Read, Loaded, NoDraft, Going, storeVars
<1>2. /\ call[s].op \in Consumers => step \in {"hand", "profile"}
      /\ call[s].op \notin Consumers => step = "empty"
  BY DEF Consumers
<1>3. d \in Drafts /\ Open \in Settlements
  BY <1>2, BriefFacts DEF Drafts, Settlements, Open
<1>4. settled' \in [Briefs -> Settlements]
  BY <1>1, <1>3, BriefFacts
<1>5. BriefTypeOK'
  BY <1>1, <1>3, <1>4 DEF BriefInvariant, BriefTypeOK
<1>6. \A a \in Briefs : settled'[a] = settled[a] \/ settled'[a].by = "nobody"
  BY <1>1, BriefFacts DEF Open
<1>7. ASSUME NEW a \in Briefs
      PROVE  /\ brief'[a].file # "absent" => brief'[a].scope \in registered'
             /\ SettledSound(a)'
  BY <1>1, <1>6 DEF BriefInvariant, SettledSound
<1>8. ASSUME NEW t \in Sessions
      PROVE  DraftSound(t)'
  <2>1. CASE t = s
    <3>1. draft'[t] = d /\ call'[t] = call[s]
      BY <1>1, <2>1, BriefFacts
    <3>2. brief[b].scope \in registered
      BY <1>1 DEF BriefInvariant
    <3>3. CASE call[s].op \in Consumers
      <4>1. settled' = settled /\ step \in {"hand", "profile"}
        BY <1>1, <1>2, <3>3
      <4>2. NotRevoked(d, call[s], settled[b])
        BY DEF NotRevoked, BriefInvariant, SettledSound
      <4>. QED BY <1>1, <2>1, <3>1, <3>2, <4>1, <4>2 DEF DraftSound
    <3>4. CASE call[s].op \notin Consumers
      <4>1. settled'[b].by = "nobody" /\ step = "empty" /\ call[s].op \in {"approve", "revoke"}
        BY <1>1, <1>2, <3>4, BriefFacts DEF Open
      <4>. QED BY <1>1, <2>1, <3>1, <3>2, <4>1 DEF DraftSound, Decisions
    <3>. QED BY <3>3, <3>4
  <2>2. CASE t # s
    <3>1. /\ draft'[t] = draft[t] /\ call'[t] = call[t] /\ draft'[s].brief = b
          /\ \A u \in Sessions : u # s => draft'[u] = draft[u]
      BY <1>1, <2>2, BriefFacts
    <3>2. DraftSound(t)
      BY DEF BriefInvariant
    <3>. QED BY <1>1, <1>6, <3>1, <3>2 DEF DraftSound, NotRevoked
  <2>. QED BY <2>1, <2>2
<1>. QED BY <1>1, <1>5, <1>7, <1>8 DEF BriefInvariant

LEMMA EmptyInvariant ==
  ASSUME StoreInvariant, BriefInvariant, NEW s \in Sessions, Empty(s)
  PROVE  BriefInvariant'
<1>. PICK b : b = draft[s].brief
  OBVIOUS
<1>1. /\ draft[s].step = "empty" /\ brief' = [brief EXCEPT ![b].file = "torn"]
      /\ draft' = [draft EXCEPT ![s].step = "fill"]
      /\ UNCHANGED <<call, registered, handoffs, settled>>
  BY DEF Empty, Going, storeVars
<1>2. b \in Briefs /\ settled[b].by = "nobody" /\ call[s].op # "brief"
  BY <1>1, BriefFacts DEF DraftSound
<1>3. \A a \in Briefs : /\ brief'[a].file \in {brief[a].file, "torn"}
                        /\ brief'[a].scope = brief[a].scope
                        /\ a # b => brief'[a] = brief[a]
  BY <1>1, <1>2, BriefFacts DEF BriefFiles
<1>4. brief' \in [Briefs -> BriefFiles] /\ brief'[b].file = "torn"
  <2>1. brief \in [Briefs -> BriefFiles]
    BY BriefFacts
  <2>2. [brief[b] EXCEPT !.file = "torn"] \in BriefFiles
    BY <1>2, <2>1 DEF BriefFiles
  <2>3. brief' = [brief EXCEPT ![b] = [brief[b] EXCEPT !.file = "torn"]]
    BY <1>1, <1>2, <2>1
  <2>4. [brief[b] EXCEPT !.file = "torn"].file = "torn"
    BY <1>2, <2>1 DEF BriefFiles
  <2> QED BY <1>2, <2>1, <2>2, <2>3, <2>4
<1>5. draft' \in [Sessions -> Drafts]
  BY <1>1, BriefFacts DEF Drafts
<1>6. brief[b].file # "absent"
  BY <1>1, BriefFacts DEF DraftSound
<1>7. ASSUME NEW a \in Briefs
      PROVE  /\ brief'[a].file # "absent" => brief'[a].scope \in registered'
             /\ SettledSound(a)'
  BY <1>1, <1>2, <1>3, <1>6 DEF BriefInvariant, SettledSound
<1>8. ASSUME NEW t \in Sessions
      PROVE  DraftSound(t)'
  <2>1. /\ draft'[t].brief = draft[t].brief /\ draft'[t].copy = draft[t].copy
        /\ t # s => draft'[t] = draft[t]
        /\ t = s => draft'[t].step = "fill"
        /\ \A u \in Sessions : /\ draft'[u].brief = draft[u].brief
                               /\ draft'[u].step # "idle" => draft[u].step # "idle"
    BY <1>1, BriefFacts DEF Drafts
  <2>2. DraftSound(t)
    BY DEF BriefInvariant
  <2>3. CASE t = s
    BY <1>1, <1>2, <1>3, <1>4, <2>1, <2>2, <2>3 DEF DraftSound
  <2>4. CASE t # s
    BY <1>1, <1>3, <1>4, <2>1, <2>2, <2>4 DEF DraftSound
  <2>. QED BY <2>3, <2>4
<1>. QED BY <1>1, <1>4, <1>5, <1>7, <1>8 DEF BriefInvariant, BriefTypeOK

LEMMA FillInvariant ==
  ASSUME StoreInvariant, BriefInvariant, NEW s \in Sessions, Fill(s)
  PROVE  BriefInvariant'
<1>. PICK b : b = draft[s].brief
  OBVIOUS
<1>. PICK op : op = call[s].op
  OBVIOUS
<1>. PICK filled : filled = [draft[s].copy EXCEPT !.approved = (op = "approve")]
  OBVIOUS
<1>. PICK decision : decision =
       IF \A t \in Sessions \ {s} : ~ Deciding(t, b)
         THEN [by |-> op, from |-> begun + 1] ELSE Open
  OBVIOUS
<1>1. /\ draft[s].step = "fill" /\ brief' = [brief EXCEPT ![b] = filled]
      /\ settled' = [settled EXCEPT ![b] = decision]
      /\ draft' = [draft EXCEPT ![s] = NoDraft] /\ Return(s)
      /\ UNCHANGED <<registered, handoffs>>
  BY DEF Fill, Finish, Leave
<1>0. registered' = registered
  BY DEF Fill, Finish, Leave
<1>2. /\ b \in Briefs /\ op \in Decisions /\ draft[s].copy.scope \in registered
      /\ draft[s].copy.file = "whole" /\ draft[s].copy \in BriefFiles
  BY <1>1, BriefFacts DEF DraftSound, Drafts
<1>3. /\ filled \in BriefFiles /\ filled.file = "whole"
      /\ filled.scope \in registered /\ filled.approved = (op = "approve")
  BY <1>2 DEF BriefFiles
<1>4. decision \in Settlements
  BY <1>2, BriefFacts DEF Settlements, Open
<1>5. NoDraft \in Drafts
  BY DEF NoDraft, Drafts, Absent, BriefFiles
<1>6. BriefTypeOK'
  BY <1>1, <1>2, <1>3, <1>4, <1>5 DEF BriefInvariant, BriefTypeOK
<1>7. ASSUME NEW a \in Briefs
      PROVE  /\ brief'[a].file # "absent" => brief'[a].scope \in registered'
             /\ SettledSound(a)'
  <2>1. CASE a = b
    <3>1. brief'[a] = filled /\ settled'[a] = decision
      BY <1>1, <1>2, <2>1, BriefFacts
    <3>2. decision.by \in {op, "nobody"}
      BY DEF Open
    <3>3. filled.approved <=> op = "approve"
      BY <1>3, Zenon
    <3>4. SettledSound(a)'
      <4>1. decision.by # "nobody" =>
              filled.file = "whole" /\ (filled.approved <=> decision.by = "approve")
        BY <1>3, <3>2, <3>3
      <4>. QED BY <3>1, <4>1 DEF SettledSound
    <3>5. brief'[a].file # "absent" => brief'[a].scope \in registered'
      BY <1>0, <1>3, <3>1
    <3>. QED BY <3>4, <3>5
  <2>2. CASE a # b
    <3>1. brief'[a] = brief[a] /\ settled'[a] = settled[a]
      BY <1>1, <2>2, BriefFacts
    <3>2. SettledSound(a) /\ (brief[a].file # "absent" => brief[a].scope \in registered)
      BY DEF BriefInvariant
    <3>3. SettledSound(a)'
      BY <3>1, <3>2 DEF SettledSound
    <3>4. brief'[a].file # "absent" => brief'[a].scope \in registered'
      BY <1>0, <3>1, <3>2
    <3>. QED BY <3>3, <3>4
  <2>. QED BY <2>1, <2>2
<1>8. ASSUME NEW t \in Sessions
      PROVE  DraftSound(t)'
  <2>1. CASE t = s
    <3>1. draft'[t].step = "idle"
      BY <1>1, <2>1, BriefFacts DEF NoDraft
    <3>. QED BY <3>1 DEF DraftSound
  <2>2. CASE t # s
    <3>1. /\ draft'[t] = draft[t] /\ call'[t] = call[t]
          /\ \A u \in Sessions : draft'[u].step # "idle" => u # s /\ draft'[u] = draft[u]
      BY <1>1, <2>2, BriefFacts DEF Return, NoDraft
    <3>2. DraftSound(t)
      BY DEF BriefInvariant
    <3>3. CASE draft[t].step # "idle" /\ draft[t].brief = b
      <4>1. brief'[b] = filled /\ settled'[b] = decision
        BY <1>1, <1>2, BriefFacts
      <4>2. draft[t].step \in {"empty", "fill"} => decision.by = "nobody"
        <5>1. draft[t].step \in {"empty", "fill"} => Deciding(t, b)
          BY <3>3 DEF Deciding
        <5>. QED BY <2>2, <5>1 DEF Open
      <4>3. op # "brief"
        BY <1>1, <2>2, <3>3, BriefFacts DEF DraftSound
      <4>4. call[t].number < begun + 1
        BY BriefFacts DEF Calls
      <4>5. NotRevoked(draft[t], call[t], decision)
        BY <4>3, <4>4 DEF NotRevoked, Open
      <4>6. ~ (draft[t].step = "fill" /\ call[t].op = "brief")
        BY <1>1, <2>2, <3>2, <3>3 DEF DraftSound
      <4>. QED BY <1>1, <1>3, <3>1, <3>2, <3>3, <4>1, <4>2, <4>5, <4>6 DEF DraftSound
    <3>4. CASE draft[t].step # "idle" /\ draft[t].brief # b
      <4>1. brief'[draft[t].brief] = brief[draft[t].brief] /\ settled'[draft[t].brief] = settled[draft[t].brief]
        BY <1>1, <3>2, <3>4, BriefFacts DEF DraftSound
      <4>. QED BY <1>1, <3>1, <3>2, <3>4, <4>1 DEF DraftSound
    <3>5. CASE draft[t].step = "idle"
      BY <3>1, <3>5 DEF DraftSound
    <3>. QED BY <3>3, <3>4, <3>5
  <2>. QED BY <2>1, <2>2
<1>. QED BY <1>1, <1>6, <1>7, <1>8 DEF BriefInvariant

LEMMA LoadProfileInvariant ==
  ASSUME StoreInvariant, BriefInvariant, NEW s \in Sessions, LoadProfile(s)
  PROVE  BriefInvariant'
<1>1. CASE Finish(s)
  <2>1. UNCHANGED <<brief, handoffs, settled, registered>>
    BY <1>1 DEF LoadProfile, Finish, Leave
  <2>2. handoffs' \subseteq [brief : Briefs, number : 0 .. MaxEvents]
    BY <2>1 DEF BriefInvariant, BriefTypeOK
  <2>. QED BY <1>1, <2>1, <2>2, EndInvariant DEF Finish, Leave
<1>2. CASE ~ Finish(s)
  <2>1. /\ draft[s].step = "profile" /\ draft' = [draft EXCEPT ![s].step = "hand"]
        /\ UNCHANGED <<call, registered, brief, handoffs, settled>>
    BY <1>2 DEF LoadProfile, Going, storeVars
  <2>2. draft' \in [Sessions -> Drafts]
    BY <2>1, BriefFacts DEF Drafts
  <2>3. ASSUME NEW t \in Sessions
        PROVE  DraftSound(t)'
    <3>1. /\ draft'[t].brief = draft[t].brief /\ draft'[t].copy = draft[t].copy
          /\ t # s => draft'[t] = draft[t]
          /\ t = s => draft'[t].step = "hand"
          /\ \A u \in Sessions : /\ draft'[u].brief = draft[u].brief
                                 /\ draft'[u].step # "idle" => draft[u].step # "idle"
      BY <2>1, BriefFacts DEF Drafts
    <3>2. DraftSound(t)
      BY DEF BriefInvariant
    <3>. QED BY <2>1, <3>1, <3>2 DEF DraftSound, NotRevoked
  <2>. QED BY <2>1, <2>2, <2>3 DEF BriefInvariant, BriefTypeOK, SettledSound
<1>. QED BY <1>1, <1>2

LEMMA HandOverInvariant ==
  ASSUME StoreInvariant, BriefInvariant, NEW s \in Sessions, HandOver(s)
  PROVE  BriefInvariant'
<1>. PICK c : c = call[s]
  OBVIOUS
<1>. PICK d : d = draft[s]
  OBVIOUS
<1>. PICK h : h = [brief |-> d.brief, number |-> c.number]
  OBVIOUS
<1>1. /\ d.step = "hand" /\ handoffs' = handoffs \cup {h}
      /\ draft' = [draft EXCEPT ![s] = NoDraft] /\ Return(s)
      /\ UNCHANGED <<registered, brief, settled>>
  BY DEF HandOver, Finish, Leave
<1>2. d.brief \in Briefs
  BY <1>1, BriefFacts DEF DraftSound
<1>3. c.number \in 0 .. MaxEvents
  BY BriefFacts DEF Calls
<1>4. handoffs' \subseteq [brief : Briefs, number : 0 .. MaxEvents]
  BY <1>1, <1>2, <1>3 DEF BriefInvariant, BriefTypeOK
<1>. QED BY <1>1, <1>4, EndInvariant

LEMMA DeclineInvariant ==
  ASSUME StoreInvariant, BriefInvariant, NEW s \in Sessions, Decline(s) \/ BriefCrash(s)
  PROVE  BriefInvariant'
<1>1. /\ draft' = [draft EXCEPT ![s] = NoDraft] /\ Return(s)
      /\ UNCHANGED <<registered, brief, handoffs, settled>>
  BY DEF Decline, BriefCrash, Finish, Leave, Crash
<1>2. handoffs' \subseteq [brief : Briefs, number : 0 .. MaxEvents]
  BY <1>1 DEF BriefInvariant, BriefTypeOK
<1>. QED BY <1>1, <1>2, EndInvariant

LEMMA BriefInitInvariant ==
  ASSUME Init
  PROVE  StoreInvariant /\ BriefInvariant
<1>1. StoreInvariant
  BY InitInvariant DEF Init
<1>2. registered \subseteq Registrations
  BY <1>1 DEF StoreInvariant, StoreTypeOK
<1>3. ASSUME NEW b \in Briefs
      PROVE  brief[b] \in BriefFiles /\ (brief[b].file # "absent" => brief[b].scope \in registered)
  <2>1. brief[b] = Absent \/ \E x \in registered :
                               brief[b] = [file |-> "whole", scope |-> x, approved |-> TRUE]
    BY DEF Init
  <2>2. CASE brief[b] = Absent
    BY <2>2 DEF Absent, BriefFiles
  <2>3. ASSUME NEW x \in registered, brief[b] = [file |-> "whole", scope |-> x, approved |-> TRUE]
        PROVE  brief[b] \in BriefFiles /\ brief[b].scope \in registered
    BY <1>2, <2>3 DEF BriefFiles
  <2>. QED BY <2>1, <2>2, <2>3
<1>4. NoDraft \in Drafts /\ Open \in Settlements
  BY DEF NoDraft, Drafts, Absent, BriefFiles, Open, Settlements
<1>5. brief \in [Briefs -> BriefFiles]
  BY <1>3 DEF Init
<1>6. BriefTypeOK
  BY <1>4, <1>5 DEF Init, BriefTypeOK
<1>7. \A s \in Sessions : DraftSound(s)
  BY DEF Init, DraftSound, NoDraft
<1>8. \A b \in Briefs : SettledSound(b)
  BY DEF Init, SettledSound, Open
<1>. QED BY <1>1, <1>3, <1>6, <1>7, <1>8 DEF BriefInvariant

LEMMA BriefNextInvariant ==
  ASSUME StoreInvariant, BriefInvariant, [Next]_vars
  PROVE  BriefInvariant'
<1>1. CASE StoreStep
  BY <1>1, StoreStepInvariant
<1>2. ASSUME NEW s \in Sessions, BriefStep(s) \/ BriefCrash(s)
      PROVE  BriefInvariant'
  BY <1>2, GenerateInvariant, ReadInvariant, EmptyInvariant, FillInvariant, LoadProfileInvariant,
     HandOverInvariant, DeclineInvariant DEF BriefStep
<1>3. CASE UNCHANGED vars
  BY <1>3 DEF vars, storeVars, briefVars, BriefInvariant, BriefTypeOK, DraftSound, SettledSound
<1>. QED BY <1>1, <1>2, <1>3 DEF Next

-----------------------------------------------------------------------------
(* Theorems                                                                *)

\* The invariants of store and briefs together are inductive.
THEOREM BriefSafety == Spec => [](StoreInvariant /\ BriefInvariant)
<1>1. Init => StoreInvariant /\ BriefInvariant
  BY BriefInitInvariant
<1>2. StoreInvariant /\ BriefInvariant /\ [Next]_vars => (StoreInvariant /\ BriefInvariant)'
  BY NextIsStoreNext, NextInvariant, BriefNextInvariant
<1>. QED BY <1>1, <1>2, PTL DEF Spec

\* All variables of the store and of the briefs keep their types.
THEOREM TypesHold == Spec => []TypeOK
<1>1. StoreInvariant /\ BriefInvariant => TypeOK
  BY DEF TypeOK, StoreInvariant, BriefInvariant, BriefTypeOK, Drafts, Settlements
<1>. QED BY <1>1, BriefSafety, PTL

\* Whatever commands overlap or are lost, every state file and every copy a command
\* holds is coherent: storage.py and the mutators of commands.py.
THEOREM FilesStayConsistent == Spec => []FileConsistent
<1>1. StoreInvariant => FileConsistent
  BY InvariantImplies
<1>. QED BY <1>1, StoreHolds, PTL

\* A project's file holds its own registration and profile, unless a command has
\* overwritten there what it had not read there: save_state, mutate_state.
THEOREM ProjectsStayIsolated == Spec => []Isolated
<1>1. StoreInvariant => Isolated
  BY InvariantImplies
<1>. QED BY <1>1, StoreHolds, PTL

\* Labels move along ALLOWED_TRANSITIONS, or to IDLE by off, where nothing was lost.
THEOREM LabelsFollowGraph == Spec => FollowsGraph
<1>. DEFINE Moves == \A f \in Files \ lossy' :
       LET from == state[f].label
           to == state'[f].label
       IN from # to => CanTransition(from, to) \/ (to = "IDLE" /\ from # "STOPPED")
<1>1. StoreInvariant /\ [StoreNext]_storeVars => [Moves]_storeVars
  BY LabelStep DEF LabelMoves
<1>. QED BY <1>1, StoreImplemented, StoreSafety, PTL DEF StoreSpec, FollowsGraph

\* A decision that no other overlapped is what the brief file says.
THEOREM DecisionsKept == Spec => []DecisionKept
<1>1. BriefInvariant => DecisionKept
  BY DEF BriefInvariant, DecisionKept, SettledSound
<1>. QED BY <1>1, BriefSafety, PTL

\* Only HandOver hands over, and only what was not revoked before its command began.
LEMMA HandedOver ==
  ASSUME StoreInvariant, BriefInvariant, [Next]_vars, NEW h \in handoffs' \ handoffs
  PROVE  /\ settled[h.brief].by # "brief"
         /\ settled[h.brief].by = "revoke" => h.number < settled[h.brief].from
<1>1. PICK s \in Sessions : HandOver(s)
  BY DEF Next, StoreStep, BriefStep, BriefCrash, Generate, Read, Empty, Fill, LoadProfile, Decline,
         briefVars, vars
<1>. PICK d : d = draft[s]
  OBVIOUS
<1>2. /\ d.step = "hand" /\ d.copy.approved
      /\ h.brief = d.brief /\ h.number = call[s].number
  BY <1>1 DEF HandOver, Fits
<1>3. NotRevoked(d, call[s], settled[d.brief])
  BY <1>2 DEF BriefInvariant, DraftSound
<1>. QED BY <1>2, <1>3, Zenon DEF NotRevoked

\* A revoked brief is not handed over by a command that begins later, a brief nobody
\* has decided on by none: set_brief_authorization, prepare_run, start_loop.
THEOREM RevocationsHold == Spec => RevocationHolds
<1>. DEFINE Handed == \A h \in handoffs' \ handoffs :
       /\ settled[h.brief].by # "brief"
       /\ settled[h.brief].by = "revoke" => h.number < settled[h.brief].from
<1>1. StoreInvariant /\ BriefInvariant /\ [Next]_vars => [Handed]_vars
  BY HandedOver
<1>. QED BY <1>1, BriefSafety, PTL DEF Spec, RevocationHolds

\* Nothing of one project gets into the file of another, and no update is lost, as long
\* as no two commands work on state files at a time (storage.py:315, 327, 338), whatever
\* briefs and run packages they are about, and wherever they die.
THEOREM OneByOne == Spec /\ []OneCommand => []NoContamination /\ OnlyDamageLoses
  BY StoreImplemented, StoreOneByOne, PTL
=============================================================================
