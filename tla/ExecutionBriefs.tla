---------------------------- MODULE ExecutionBriefs ----------------------------
(***************************************************************************)
(* Execution briefs, from their generation to the run package or the loop  *)
(* that they authorize, together with the store whose states the commands  *)
(* work on.                                                                *)
(*                                                                         *)
(* `brief` and `execute` write a new file, `approve` and `revoke` read it  *)
(* and write it again in place: the file is emptied and then filled.  No   *)
(* lock protects it.  `run` and `loop start` read it and hand it over, if  *)
(* it is approved and fits the state they have loaded.                     *)
(***************************************************************************)
EXTENDS ProjectStore

CONSTANTS Briefs, NoBrief

ASSUME BriefAssumption == NoBrief \notin Briefs

VARIABLES
  brief,     \* the brief files
  draft,     \* the brief a session's command works on, and its copy
  handoffs,  \* briefs made run packages or loops, and by which command
  settled    \* observer: the last decision on a brief, if none overlapped it

briefVars == <<brief, draft, handoffs, settled>>
vars == <<storeVars, briefVars>>

-----------------------------------------------------------------------------
Decisions == {"brief", "approve", "revoke"}

Absent == [file |-> "absent", scope |-> None, approved |-> FALSE]
NoDraft == [step |-> "idle", brief |-> NoBrief, copy |-> Absent]
Open == [by |-> "nobody", from |-> 0]

\* In an installation in use there may be an approved brief of any registered project.
Init ==
  /\ StoreInit
  /\ brief \in [Briefs -> {Absent} \cup
       {[file |-> "whole", scope |-> r, approved |-> TRUE] : r \in registered}]
  /\ draft = [s \in Sessions |-> NoDraft]
  /\ handoffs = {}
  /\ settled = [b \in Briefs |-> Open]

Loaded(s) == call[s].step = "loaded"
Going == UNCHANGED storeVars
Finish(s) == Leave(s) /\ draft' = [draft EXCEPT ![s] = NoDraft]

Covers(lease, scope) ==
  lease.project = scope.project /\ lease.workspace \in {NoWorkspace, scope.workspace}

-----------------------------------------------------------------------------
(* generate_brief and set_brief_authorization                              *)

\* The readiness checks, and the empty file of a new brief.
Generate(s, b) ==
  LET c == call[s] IN
  /\ Loaded(s) /\ c.op = "brief" /\ draft[s] = NoDraft
  /\ brief[b] = Absent
  /\ c.snapshot.registration # None /\ Covers(c.snapshot.lease, c.snapshot.registration)
  /\ LET new == [file |-> "whole", scope |-> c.snapshot.registration, approved |-> FALSE] IN
     /\ draft' = [draft EXCEPT ![s] = [step |-> "fill", brief |-> b, copy |-> new]]
     /\ brief' = [brief EXCEPT ![b] = [new EXCEPT !.file = "torn"]]
  /\ Going /\ UNCHANGED <<handoffs, settled>>

\* read_brief, in the directory of the registered project: a torn file is no brief.
Read(s, b) ==
  LET c == call[s] IN
  /\ Loaded(s) /\ c.op \in Consumers \cup {"approve", "revoke"} /\ draft[s] = NoDraft
  /\ brief[b].file = "whole" /\ brief[b].scope.project = c.snapshot.registration.project
  /\ draft' = [draft EXCEPT ![s] =
       [brief |-> b, copy |-> brief[b],
        step |-> CASE c.op = "run" -> "hand" [] c.op = "loop" -> "profile"
                   [] OTHER -> "empty"]]
  /\ settled' = IF c.op \in Consumers THEN settled ELSE [settled EXCEPT ![b] = Open]
  /\ Going /\ UNCHANGED <<brief, handoffs>>

\* Path.write_text empties the file and then fills it.
Empty(s) ==
  LET b == draft[s].brief IN
  /\ draft[s].step = "empty"
  /\ brief' = [brief EXCEPT ![b].file = "torn"]
  /\ draft' = [draft EXCEPT ![s].step = "fill"]
  /\ Going /\ UNCHANGED <<handoffs, settled>>

Deciding(t, b) == draft[t].brief = b /\ draft[t].step \in {"empty", "fill"}

\* Mutant: an approval stays in the copy that a revocation writes.
FillApproval(s) ==
  LET b == draft[s].brief
      alone == \A t \in Sessions \ {s} : ~ Deciding(t, b)
  IN
  /\ draft[s].step = "fill"
  /\ brief' = [brief EXCEPT ![b] =
       [draft[s].copy EXCEPT !.approved = @ \/ call[s].op = "approve"]]
  /\ settled' = [settled EXCEPT ![b] =
       IF alone THEN [by |-> call[s].op, from |-> begun + 1] ELSE Open]
  /\ Finish(s)
  /\ UNCHANGED handoffs

Fill(s) ==
  LET b == draft[s].brief
      alone == \A t \in Sessions \ {s} : ~ Deciding(t, b)
  IN
  /\ draft[s].step = "fill"
  /\ brief' = [brief EXCEPT ![b] = [draft[s].copy EXCEPT !.approved = call[s].op = "approve"]]
  /\ settled' = [settled EXCEPT ![b] =
       IF alone THEN [by |-> call[s].op, from |-> begun + 1] ELSE Open]
  /\ Finish(s)
  /\ UNCHANGED handoffs

-----------------------------------------------------------------------------
(* prepare_run, and loop start                                             *)

\* load_verification_profile: the state of the project is loaded again, from a file
\* that exists (Coherent).  The profile must fit the registration in it, and later the
\* workspace of the brief; which project it names is not asked.
LoadProfile(s) ==
  LET scope == draft[s].copy.scope
      loaded == state[scope.project]
  IN
  /\ draft[s].step = "profile" /\ Free(scope.project)
  /\ IF /\ loaded.profile # None /\ loaded.profile = loaded.registration
        /\ loaded.profile.workspace = scope.workspace
       THEN Going /\ draft' = [draft EXCEPT ![s].step = "hand"]
       ELSE Finish(s)
  /\ UNCHANGED <<brief, handoffs, settled>>

\* Mutant: the approval is not asked for.
FitsUnapproved(copy, content) ==
  copy.scope = content.registration /\ Covers(content.lease, copy.scope)

\* The checks of _validate, _validate_start and _validate_contract.
Fits(copy, content) ==
  /\ copy.approved
  /\ copy.scope = content.registration
  /\ Covers(content.lease, copy.scope)

HandOver(s) ==
  LET c == call[s]
      d == draft[s]
  IN
  /\ d.step = "hand" /\ Fits(d.copy, c.snapshot)
  /\ c.op = "loop" => ~ kill
  /\ handoffs' = handoffs \cup {[brief |-> d.brief, number |-> c.number]}
  /\ Finish(s)
  /\ UNCHANGED <<brief, settled>>

\* A check fails, among them those left out here: expiry, capabilities, loop limit.
Decline(s) ==
  /\ Loaded(s) /\ call[s].op \in Consumers \cup Decisions
  /\ draft[s].step \in {"idle", "hand"}
  /\ Finish(s)
  /\ UNCHANGED <<brief, handoffs, settled>>

-----------------------------------------------------------------------------
BriefCrash(s) == Crash(s) /\ draft' = [draft EXCEPT ![s] = NoDraft]
                          /\ UNCHANGED <<brief, handoffs, settled>>
StoreStep ==
  /\ (\E s \in Sessions : StoreCommand(s)) \/ Environment
  /\ UNCHANGED briefVars
BriefStep(s) ==
  \/ \E b \in Briefs : Generate(s, b) \/ Read(s, b)
  \/ Empty(s) \/ Fill(s) \/ LoadProfile(s) \/ HandOver(s) \/ Decline(s)
Next == StoreStep \/ \E s \in Sessions : BriefStep(s) \/ BriefCrash(s)

Spec == Init /\ [][Next]_vars

-----------------------------------------------------------------------------
BriefFiles == [file : {"absent", "torn", "whole"}, scope : Registrations \cup {None},
               approved : BOOLEAN]

\* All variables keep their types, those of the store included.
TypeOK ==
  /\ StoreTypeOK
  /\ brief \in [Briefs -> BriefFiles]
  /\ draft \in [Sessions -> [step : {"idle", "empty", "fill", "profile", "hand"},
                             brief : Briefs \cup {NoBrief}, copy : BriefFiles]]
  /\ handoffs \subseteq [brief : Briefs, number : 0 .. MaxEvents]
  /\ settled \in [Briefs -> [by : Decisions \cup {"nobody"}, from : 0 .. MaxEvents + 1]]

\* When no decision on a brief overlapped the last one, the file is whole and says
\* what was decided, however many sessions write it, whenever their processes die.
DecisionKept == \A b \in Briefs : settled[b].by # "nobody" =>
  brief[b].file = "whole" /\ (brief[b].approved <=> settled[b].by = "approve")

\* "The brief cannot be run until approved again": no command that begins after a
\* revocation was reported hands the brief over before another approval, and none
\* at all hands over a brief that nobody has approved.
RevocationHolds == [][\A h \in handoffs' \ handoffs :
  /\ settled[h.brief].by # "brief"
  /\ settled[h.brief].by = "revoke" => h.number < settled[h.brief].from]_vars
=============================================================================
