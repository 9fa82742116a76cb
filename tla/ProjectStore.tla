----------------------------- MODULE ProjectStore -----------------------------
(***************************************************************************)
(* The project states, the manifest that names the active project, and the *)
(* slash commands that work on them.                                       *)
(*                                                                         *)
(* Every project has a state file.  A command works on the file of the     *)
(* active project, which it looks up again for each access; before the     *)
(* first registration it works on the legacy file.  A load and a save take *)
(* the lock of a file one after the other, a mutation holds it for both;   *)
(* no lock spans a command, or covers the manifest.                        *)
(*                                                                         *)
(* Commands of several sessions interleave, processes die, a human resets  *)
(* the kill switch, and files are damaged from outside.                    *)
(***************************************************************************)
EXTENDS Naturals, Sequences

CONSTANTS
  Projects, Workspaces, Sessions,
  Commands,     \* the commands that are given
  LeaseTexts,   \* scopes of the leases given as JSON
  MaxEvents,    \* bound: commands, deaths of processes and damaged files
  NoProject, NoWorkspace, NoFile

Files == Projects \cup {NoProject}     \* NoProject: the legacy file
Scopes == [project : Files, workspace : Workspaces \cup {NoWorkspace}]
None == [project |-> NoProject, workspace |-> NoWorkspace]
Registrations == [project : Projects, workspace : Workspaces]

\* Commands that go on with the files of other components after a load.
Consumers == {"run", "loop"}
Consulting == Consumers \cup {"brief", "approve", "revoke"}
AllCommands == Consulting \cup {"status", "register", "use", "lease", "approve_lease",
                                "verify", "simulate", "off", "stop"}

ASSUME ConstantsAssumption ==
  /\ NoProject \notin Projects /\ NoWorkspace \notin Workspaces
  /\ NoFile \notin Files
  /\ Commands \subseteq AllCommands
  /\ LeaseTexts \subseteq [project : Projects, workspace : Workspaces \cup {NoWorkspace}]
  /\ MaxEvents \in Nat

VARIABLES
  state,      \* content of every state file
  known,      \* files that exist
  active,     \* active project in the manifest
  kill,       \* the kill switch
  call,       \* local state of the command each session runs
  begun,      \* number of commands given
  faults,
  lossy,      \* observer: files in which an update was lost or damaged
  registered  \* observer: what humans have registered

fileVars == <<state, known, lossy>>
storeVars == <<state, known, lossy, active, kill, call, begun, faults, registered>>

-----------------------------------------------------------------------------
(* The state machine                                                       *)

Halts == {"NEEDS_HUMAN", "PAUSED", "FAILED", "LEASE_EXPIRED", "STOPPED"}
Waits == {"NEEDS_HUMAN", "PAUSED"}
Labels == Halts \cup {"IDLE", "CONFIGURED", "LEASE_READY", "SIMULATING",
  "PREPARING_BRIEF", "EXECUTING", "VERIFYING", "REVIEWING", "REMEDIATING", "PHASE_ACCEPTED"}

\* ALLOWED_TRANSITIONS
AllowedTransitions == [label \in Labels |->
  CASE label = "IDLE" -> {"CONFIGURED", "STOPPED"}
    [] label = "CONFIGURED" -> {"LEASE_READY", "SIMULATING", "IDLE", "STOPPED"}
    [] label = "LEASE_READY" ->
         {"SIMULATING", "LEASE_EXPIRED", "NEEDS_HUMAN", "PAUSED", "IDLE", "STOPPED"}
    [] label = "SIMULATING" -> {"PREPARING_BRIEF"} \cup Halts
    [] label = "PREPARING_BRIEF" -> {"EXECUTING"} \cup Halts
    [] label = "EXECUTING" -> {"VERIFYING"} \cup Halts
    [] label = "VERIFYING" -> {"REVIEWING"} \cup Halts
    [] label = "REVIEWING" -> {"PHASE_ACCEPTED", "REMEDIATING"} \cup Halts
    [] label = "REMEDIATING" -> {"VERIFYING"} \cup Halts
    [] label = "PHASE_ACCEPTED" -> {"IDLE", "SIMULATING", "STOPPED"}
    [] label \in Waits -> {"SIMULATING", "EXECUTING", "VERIFYING", "REVIEWING",
         "REMEDIATING", "CONFIGURED", "IDLE", "STOPPED", "FAILED"}
    [] label \in {"FAILED", "LEASE_EXPIRED"} -> {"IDLE", "STOPPED"}
    [] label = "STOPPED" -> {}]

CanTransition(from, to) == to \in AllowedTransitions[from]

\* The labels a simulation saves one after another.
Walk == <<"SIMULATING", "PREPARING_BRIEF", "EXECUTING", "VERIFYING", "REVIEWING",
          "REMEDIATING", "VERIFYING", "REVIEWING", "PHASE_ACCEPTED">>

\* Mutant: a simulation starts wherever the project is set up.
SimulableConfigured == Labels \ {"IDLE"}

Simulable == {"LEASE_READY", "CONFIGURED", "PHASE_ACCEPTED"}

-----------------------------------------------------------------------------
Default == [label |-> "IDLE", registration |-> None, lease |-> None, profile |-> None]
NoCall == [op |-> "status", step |-> "idle", access |-> "load", at |-> 0, number |-> 0,
           input |-> None, target |-> NoProject, guard |-> NoFile,
           snapshot |-> Default, origin |-> NoProject]

Fresh == state = [f \in Files |-> Default] /\ known = {} /\ active = NoProject

\* A state the commands lead to: every project registered, with a lease.
InUse(home) ==
  LET scope(f) == [project |-> f, workspace |-> home[f]] IN
  /\ state = [f \in Files |->
       IF f = NoProject THEN Default
       ELSE [label |-> "LEASE_READY", registration |-> scope(f), lease |-> scope(f),
             profile |-> scope(f)]]
  /\ known = Projects /\ active \in Projects

StoreInit ==
  /\ \/ Fresh /\ registered = {}
     \/ \E home \in [Projects -> Workspaces] :
          InUse(home) /\ registered = {[project |-> p, workspace |-> home[p]] : p \in Projects}
  /\ kill = FALSE /\ begun = 0 /\ faults = 0 /\ lossy = {}
  /\ call = [s \in Sessions |-> NoCall]

-----------------------------------------------------------------------------
(* Commands                                                                *)

Return(s) == call' = [call EXCEPT ![s] = NoCall]

Inputs(op) == CASE op = "register" -> Registrations
                [] op = "use" -> {[project |-> p, workspace |-> NoWorkspace] : p \in Projects}
                [] op = "lease" -> LeaseTexts
                [] OTHER -> {None}

\* handle_autopilot_command: only `stop` is taken under the kill switch, which
\* it activates at once.  register mutates the file of its own project.
Begin(s, op, input) ==
  /\ call[s].step = "idle" /\ begun + faults < MaxEvents
  /\ op \in Commands /\ input \in Inputs(op)
  /\ kill => op = "stop"
  /\ kill' = (kill \/ op = "stop")
  /\ begun' = begun + 1
  /\ registered' = registered \cup (IF op = "register" THEN {input} ELSE {})
  /\ call' = [call EXCEPT ![s] = [NoCall EXCEPT
       !.op = op, !.input = input, !.at = 1,
       !.number = IF op \in Consumers THEN begun + 1 ELSE 0,
       !.step = IF op \in {"register", "use"} THEN "activate" ELSE "resolve",
       !.access = IF op \in {"register", "lease"} THEN "mutate" ELSE "load"]]
  /\ UNCHANGED <<fileVars, active, faults>>

\* Mutant: register mutates the file of the active project, as other commands do.
ActivateThenResolve(s) ==
  LET c == call[s] IN
  /\ c.step = "activate"
  /\ IF (c.op = "register" /\ kill) \/ (c.op = "use" /\ c.input.project \notin known)
       THEN Return(s) /\ UNCHANGED active
       ELSE /\ active' = c.input.project
            /\ call' = [call EXCEPT ![s].step = "resolve"]
  /\ UNCHANGED <<fileVars, kill, begun, faults, registered>>

\* set_active_project_id.  register looks at the kill switch again, use at the
\* projects that have a state.
Activate(s) ==
  LET c == call[s] IN
  /\ c.step = "activate"
  /\ IF (c.op = "register" /\ kill) \/ (c.op = "use" /\ c.input.project \notin known)
       THEN Return(s) /\ UNCHANGED active
       ELSE /\ active' = c.input.project
            /\ call' = [call EXCEPT
                 ![s].step = IF c.op = "register" THEN "access" ELSE "resolve",
                 ![s].target = c.input.project]
  /\ UNCHANGED <<fileVars, kill, begun, faults, registered>>

-----------------------------------------------------------------------------
(* Accesses to state files                                                 *)

\* load_state, save_state and mutate_state look up the active project first.
\* A simulation that is refused under the kill switch looks up nothing.
Resolve(s) ==
  LET c == call[s] IN
  /\ c.step = "resolve"
  /\ IF c.op = "simulate" /\ c.access = "save" /\ c.at = 1 /\ kill
       THEN Return(s)
       ELSE call' = [call EXCEPT ![s].target = active,
                       ![s].step = IF active = NoProject THEN "guard" ELSE "access"]
  /\ UNCHANGED <<fileVars, active, kill, begun, faults, registered>>

Free(f) == \A t \in Sessions : call[t].guard # f

\* Without an active project, the paths of the lock, of the file that is read and
\* of the file that is written are each looked up anew.
Guard(s) ==
  /\ call[s].step = "guard" /\ Free(active)
  /\ call' = [call EXCEPT ![s].guard = active, ![s].step = "access"]
  /\ UNCHANGED <<fileVars, active, kill, begun, faults, registered>>

Legacy(c) == c.target = NoProject
File(c) == IF Legacy(c) THEN active ELSE c.target

\* With a project, the access happens under the lock of its file.
MayAccess(c) == c.step = "access" /\ (Legacy(c) \/ Free(File(c)))

Then(c, access, at) == [c EXCEPT !.access = access, !.at = at, !.step = "resolve",
                                 !.guard = NoFile]

\* lease approve mutates the active project, verify the project it has loaded, both
\* for the registration they have loaded.
ApproveLease(c) == [Then(c, "mutate", 2) EXCEPT !.input = c.snapshot.registration]
SaveProfile(c) ==
  LET scope == c.snapshot.registration IN
  [c EXCEPT !.input = scope, !.target = scope.project, !.access = "mutate",
            !.guard = NoFile, !.step = "access"]
Consult(c) == [c EXCEPT !.guard = NoFile, !.step = "loaded"]

\* What a command does when a load has returned: it goes on to its next access,
\* to files of other components ("loaded"), or is over.
AfterLoad(c) ==
  LET label == c.snapshot.label
      bound == c.snapshot.registration # None
  IN CASE c.op = "approve_lease" /\ c.at = 1 /\ bound -> ApproveLease(c)
       [] c.op = "verify" /\ bound -> SaveProfile(c)
       [] c.op = "simulate" /\ label \in Simulable -> Then(c, "save", 1)
       [] c.op = "off" /\ label \notin {"IDLE", "STOPPED"} -> Then(c, "save", 1)
       [] c.op = "stop" -> Then(c, "save", 1)
       [] c.op \in Consulting -> Consult(c)
       [] OTHER -> NoCall

\* A load writes a missing file back at once.
Load(s) ==
  LET c == call[s]
      f == File(c)
      read == [c EXCEPT !.snapshot = state[f], !.origin = f]
  IN
  /\ MayAccess(c) /\ c.access = "load"
  /\ IF Legacy(c) /\ f \notin known
       THEN call' = [call EXCEPT ![s] = [read EXCEPT !.step = "write"]] /\ known' = known
       ELSE call' = [call EXCEPT ![s] = AfterLoad(read)] /\ known' = known \cup {f}
  /\ UNCHANGED <<state, lossy, active, kill, begun, faults, registered>>

\* The mutators of register, verify, and of lease and lease approve.  The second
\* raises, and nothing is written, when the registration has changed.
Registering(content, scope) ==
  [content EXCEPT !.registration = scope,
     !.label = IF content.label = "IDLE" THEN "CONFIGURED" ELSE content.label]
Configuring(content, scope) ==
  [content EXCEPT !.profile =
     IF content.registration = scope THEN scope ELSE content.profile]
Leasing(content, lease) ==
  [content EXCEPT !.lease = lease,
     !.label = IF content.label = "CONFIGURED" THEN "LEASE_READY" ELSE content.label]

Mutated(c, content) == CASE c.op = "register" -> Registering(content, c.input)
                         [] c.op = "verify" -> Configuring(content, c.input)
                         [] OTHER -> Leasing(content, c.input)

AfterMutate(c) == IF c.op = "approve_lease" THEN Then(c, "load", 3) ELSE NoCall

\* mutate_project_state under the lock, or the first half of mutate_state without one.
Mutate(s) ==
  LET c == call[s]
      f == File(c)
  IN
  /\ MayAccess(c) /\ c.access = "mutate"
  /\ IF Legacy(c)
       THEN /\ call' = [call EXCEPT ![s].snapshot = state[f], ![s].origin = f,
                                    ![s].step = "write"]
            /\ UNCHANGED <<state, known>>
       ELSE /\ state' = [state EXCEPT ![f] = Mutated(c, @)]
            /\ known' = IF c.op = "verify" THEN known ELSE known \cup {f}
            /\ call' = [call EXCEPT ![s] = AfterMutate(c)]
  /\ UNCHANGED <<lossy, active, kill, begun, faults, registered>>

\* Something else is overwritten than what the command has read or written last.
Overwrites(c, f) == f # c.origin \/ state[f] # c.snapshot

\* The second half of an access without a project: the default of a missing file,
\* or what has been read and mutated.
Write(s) ==
  LET c == call[s]
      f == File(c)
  IN
  /\ c.step = "write"
  /\ state' = [state EXCEPT ![f] =
       IF c.access = "load" THEN Default ELSE Mutated(c, c.snapshot)]
  /\ known' = known \cup {f}
  /\ lossy' = IF Overwrites(c, f) THEN lossy \cup {f} ELSE lossy
  /\ call' = [call EXCEPT ![s] = IF c.access = "load" THEN AfterLoad(c) ELSE AfterMutate(c)]
  /\ UNCHANGED <<active, kill, begun, faults, registered>>

\* Mutant: off saves a label of its own.
NextLabelOff(c) == CASE c.op = "stop" -> "STOPPED"
                     [] c.op = "off" -> "OFF"
                     [] OTHER -> Walk[c.at]

\* The whole state is saved as the command holds it in memory, with a new label.
NextLabel(c) == CASE c.op = "stop" -> "STOPPED"
                  [] c.op = "off" -> "IDLE"
                  [] OTHER -> Walk[c.at]

AfterSave(c) == IF c.op = "simulate" /\ c.at < Len(Walk) THEN Then(c, "save", c.at + 1)
                                                        ELSE NoCall

\* Mutant: only the label is saved, into what the file holds now.
SaveLabel(s) ==
  LET c == call[s]
      f == File(c)
  IN
  /\ MayAccess(c) /\ c.access = "save"
  /\ state' = [state EXCEPT ![f].label = NextLabel(c)]
  /\ known' = known \cup {f}
  /\ call' = [call EXCEPT ![s] = AfterSave([c EXCEPT !.origin = f])]
  /\ UNCHANGED <<lossy, active, kill, begun, faults, registered>>

Save(s) ==
  LET c == call[s]
      f == File(c)
      saved == [c.snapshot EXCEPT !.label = NextLabel(c)]
  IN
  /\ MayAccess(c) /\ c.access = "save"
  /\ state' = [state EXCEPT ![f] = saved]
  /\ known' = known \cup {f}
  /\ lossy' = IF Overwrites(c, f) THEN lossy \cup {f} ELSE lossy
  /\ call' = [call EXCEPT ![s] = AfterSave([c EXCEPT !.snapshot = saved, !.origin = f])]
  /\ UNCHANGED <<active, kill, begun, faults, registered>>

\* A command is done with the files of other components.
Leave(s) ==
  /\ call[s].step = "loaded"
  /\ Return(s)
  /\ UNCHANGED <<fileVars, active, kill, begun, faults, registered>>

-----------------------------------------------------------------------------
(* The environment                                                         *)

Fault == begun + faults < MaxEvents /\ faults' = faults + 1

\* The process dies; what it holds in memory, and its lock, are gone.
Crash(s) ==
  /\ Fault /\ call[s].step # "idle"
  /\ Return(s)
  /\ UNCHANGED <<fileVars, active, kill, begun, registered>>

\* An unreadable state file is read, and written back, as the default: the damage
\* matters when a command is about to read the file.
Damage(f) ==
  /\ Fault /\ f \in known
  /\ \E s \in Sessions : /\ call[s].step = "access" /\ call[s].access # "save"
                        /\ File(call[s]) = f
  /\ state' = [state EXCEPT ![f] = Default]
  /\ lossy' = lossy \cup {f}
  /\ UNCHANGED <<known, active, kill, call, begun, registered>>

ResetKill ==
  /\ kill /\ kill' = FALSE
  /\ UNCHANGED <<fileVars, active, call, begun, faults, registered>>

Access(s) == Resolve(s) \/ Guard(s) \/ Load(s) \/ Mutate(s) \/ Write(s) \/ Save(s)
StoreCommand(s) ==
  \/ \E op \in Commands : \E input \in Inputs(op) : Begin(s, op, input)
  \/ Activate(s) \/ Access(s)
Environment == (\E f \in Files : Damage(f)) \/ ResetKill
StoreNext == (\E s \in Sessions : StoreCommand(s) \/ Leave(s) \/ Crash(s)) \/ Environment

StoreSpec == StoreInit /\ [][StoreNext]_storeVars

-----------------------------------------------------------------------------
(* Properties                                                              *)

Contents == [label : Labels, registration : Registrations \cup {None},
             lease : Scopes, profile : Registrations \cup {None}]
Calls == [op : AllCommands,
          step : {"idle", "activate", "resolve", "guard", "access", "write", "loaded"},
          access : {"load", "mutate", "save"}, at : 0 .. Len(Walk), number : 0 .. MaxEvents,
          input : Scopes, target : Files, guard : Files \cup {NoFile},
          snapshot : Contents, origin : Files]

\* All variables keep their types.
StoreTypeOK ==
  /\ state \in [Files -> Contents]
  /\ known \subseteq Files /\ lossy \subseteq Files
  /\ active \in Files
  /\ kill \in BOOLEAN
  /\ call \in [Sessions -> Calls]
  /\ begun \in 0 .. MaxEvents /\ faults \in 0 .. MaxEvents
  /\ registered \subseteq Registrations

\* A content that a sequence of mutators could have produced: beyond IDLE only with
\* a registration, ready for work only with a lease, registered as a human said, and
\* for a project that has a state file.
Coherent(content) ==
  /\ content.label \notin {"IDLE", "STOPPED"} => content.registration # None
  /\ content.label = "LEASE_READY" => content.lease # None
  /\ content.profile # None => content.registration # None
  /\ content.registration # None =>
       content.registration \in registered /\ content.registration.project \in known

\* Whatever commands overlap, and whatever they lose, no file and no command's copy
\* is a mixture: every state is coherent in itself.
FileConsistent ==
  /\ \A f \in Files : Coherent(state[f])
  /\ \A s \in Sessions : Coherent(call[s].snapshot)

\* The registration and the profile in a project's file are the project's own, as
\* long as no command has overwritten there what it had not read there.
Isolated == \A f \in Files \ lossy :
  /\ state[f].registration.project \in {f, NoProject}
  /\ state[f].profile.project \in {f, NoProject}

\* As long as no update was lost in a file, its label moves along the graph, or is
\* forced to IDLE by off; STOPPED is never left.
FollowsGraph == [][\A f \in Files \ lossy' :
  LET from == state[f].label
      to == state'[f].label
  IN from # to => CanTransition(from, to) \/ (to = "IDLE" /\ from # "STOPPED")]_storeVars

\* docs/PROJECT_SCOPING.md: "Cross-project contamination is a bug."
NoContamination == \A p \in Projects : state[p].registration.project \in {p, NoProject}
=============================================================================
