--------------------------- MODULE ProjectStoreProofs ---------------------------
(***************************************************************************)
(* Theorems about the project store: types, coherence and isolation of the *)
(* state files, the moves of their labels, and what commands that come one *)
(* at a time do.                                                           *)
(***************************************************************************)
EXTENDS ProjectStore, TLAPS

USE ConstantsAssumption

\* Coherent, for given known files and registrations; and the lease is one of those
\* that were given as texts or derived from a registration.
CoherentIn(content, K, R) ==
  /\ content.label \notin {"IDLE", "STOPPED"} => content.registration # None
  /\ content.label = "LEASE_READY" => content.lease # None
  /\ content.profile # None => content.registration # None
  /\ content.registration # None =>
       content.registration \in R /\ content.registration.project \in K
  /\ content.lease \in R \cup LeaseTexts \cup {None}

\* Registration and profile are those of f.
Own(content, f) ==
  /\ content.registration.project \in {f, NoProject}
  /\ content.profile.project \in {f, NoProject}

\* The label that a command has read allows the one it is about to save.
LabelFits(c) ==
  \/ c.op = "stop"
  \/ c.op = "off" /\ c.snapshot.label \notin {"IDLE", "STOPPED"}
  \/ /\ c.op = "simulate"
     /\ \/ c.at = 1 /\ c.snapshot.label \in Simulable
        \/ c.at \in 2 .. 9 /\ c.snapshot.label = Walk[c.at - 1]

\* What a command has checked and read before its next step.
Sound(c, K, L, R, N) ==
  /\ CoherentIn(c.snapshot, K, R)
  /\ c.origin \notin L => Own(c.snapshot, c.origin)
  /\ c.step = "activate" => c.op \in {"register", "use"} /\ c.input.project \in Projects
  /\ c.op = "register" /\ c.step # "idle" =>
       /\ c.input \in Registrations /\ c.input \in R
       /\ c.access = "mutate" /\ c.step \in {"activate", "access"}
       /\ c.step = "access" => c.target = c.input.project
  /\ c.access = "mutate" =>
       /\ c.op \in {"register", "lease", "approve_lease", "verify"}
       /\ c.input \in R \cup LeaseTexts /\ c.input.project \in Projects
  /\ c.access = "save" => LabelFits(c)
  /\ N \in Nat /\ c.number <= N
  /\ c.step = "write" =>
       c.target = NoProject /\ c.access # "save" /\ (c.access = "load" => c.snapshot = Default)

\* The inductive invariant.
StoreInvariant ==
  /\ StoreTypeOK
  /\ \A f \in Files : /\ CoherentIn(state[f], known, registered)
                      /\ f \notin lossy => Own(state[f], f)
                      /\ f \notin known => state[f] = Default
  /\ \A s \in Sessions : Sound(call[s], known, lossy, registered, begun)

-----------------------------------------------------------------------------
(* Types of the operators                                                  *)

LEMMA Constant ==
  /\ None \in Scopes /\ None \notin Registrations
  /\ Registrations \subseteq Scopes /\ LeaseTexts \subseteq Scopes
  /\ Len(Walk) = 9 /\ \A i \in 1 .. 9 : Walk[i] \in Labels
  BY DEF None, Scopes, Registrations, Files, Walk, Labels, Halts

LEMMA DefaultType == Default \in Contents /\ NoCall \in Calls
  BY Constant DEF Default, NoCall, Contents, Calls, Labels, Files, AllCommands

\* A content with another label, registration, lease or profile.
LEMMA ContentType ==
  ASSUME NEW content \in Contents, NEW l \in Labels, NEW r \in Registrations \cup {None},
         NEW d \in Scopes
  PROVE  /\ [content EXCEPT !.label = l] \in Contents
         /\ [content EXCEPT !.registration = r, !.label = l] \in Contents
         /\ [content EXCEPT !.lease = d, !.label = l] \in Contents
         /\ [content EXCEPT !.profile = r] \in Contents
  BY DEF Contents

LEMMA MutatedType ==
  ASSUME NEW c \in Calls, NEW content \in Contents,
         c.op = "register" => c.input \in Registrations
  PROVE  Mutated(c, content) \in Contents
<1>. /\ content.label \in Labels /\ content.registration \in Registrations \cup {None}
     /\ content.profile \in Registrations \cup {None} /\ c.input \in Scopes
  BY DEF Contents, Calls
<1>. "CONFIGURED" \in Labels /\ "LEASE_READY" \in Labels
  BY DEF Labels
<1>1. CASE c.op = "register"
  BY <1>1, ContentType DEF Mutated, Registering, Configuring, Leasing
<1>2. CASE c.op = "verify"
  BY <1>2, ContentType DEF Mutated, Registering, Configuring, Leasing
<1>3. CASE c.op \notin {"register", "verify"}
  BY <1>3, ContentType DEF Mutated, Registering, Configuring, Leasing
<1>. QED BY <1>1, <1>2, <1>3

LEMMA ThenType ==
  ASSUME NEW c \in Calls, NEW a \in {"load", "mutate", "save"}, NEW i \in 0 .. 9
  PROVE  Then(c, a, i) \in Calls
  BY Constant DEF Then, Calls

LEMMA LoadedType ==
  ASSUME NEW c \in Calls
  PROVE  /\ Consult(c) \in Calls
         /\ c.snapshot.registration # None => ApproveLease(c) \in Calls /\ SaveProfile(c) \in Calls
<1>. c.snapshot.registration \in Registrations \cup {None}
  BY DEF Calls, Contents
<1>1. Consult(c) \in Calls
  BY DEF Calls, Consult
<1>2. ASSUME c.snapshot.registration # None
      PROVE  ApproveLease(c) \in Calls
  <2>1. Then(c, "mutate", 2) \in Calls /\ c.snapshot.registration \in Scopes
    BY <1>2, ThenType, Constant
  <2>. QED BY <2>1 DEF Calls, ApproveLease
<1>3. ASSUME c.snapshot.registration # None
      PROVE  SaveProfile(c) \in Calls
  <2>1. c.snapshot.registration \in Scopes /\ c.snapshot.registration.project \in Files
    BY <1>3, Constant DEF Registrations, Files
  <2>. QED BY <2>1 DEF Calls, SaveProfile
<1>. QED BY <1>1, <1>2, <1>3

\* What follows a load, case by case.
LEMMA AfterLoadCases ==
  ASSUME NEW c
  PROVE  \/ c.op = "approve_lease" /\ c.snapshot.registration # None /\ AfterLoad(c) = ApproveLease(c)
         \/ c.op = "verify" /\ c.snapshot.registration # None /\ AfterLoad(c) = SaveProfile(c)
         \/ /\ \/ c.op = "stop"
               \/ c.op = "simulate" /\ c.snapshot.label \in Simulable
               \/ c.op = "off" /\ c.snapshot.label \notin {"IDLE", "STOPPED"}
            /\ AfterLoad(c) = Then(c, "save", 1)
         \/ c.op \in Consulting /\ AfterLoad(c) = Consult(c)
         \/ AfterLoad(c) = NoCall
  BY DEF AfterLoad, Consulting, Consumers

LEMMA AfterLoadType ==
  ASSUME NEW c \in Calls
  PROVE  AfterLoad(c) \in Calls
  BY AfterLoadCases, LoadedType, ThenType, DefaultType

LEMMA AfterMutateType ==
  ASSUME NEW c \in Calls
  PROVE  AfterMutate(c) \in Calls
  BY ThenType, DefaultType DEF AfterMutate

LEMMA AfterSaveType ==
  ASSUME NEW c \in Calls
  PROVE  AfterSave(c) \in Calls
<1>1. CASE c.op = "simulate" /\ c.at < Len(Walk)
  <2>1. c.at + 1 \in 0 .. 9
    BY <1>1, Constant DEF Calls
  <2>. QED BY <1>1, <2>1, ThenType DEF AfterSave
<1>2. CASE ~ (c.op = "simulate" /\ c.at < Len(Walk))
  BY <1>2, DefaultType DEF AfterSave
<1>. QED BY <1>1, <1>2

-----------------------------------------------------------------------------
(* What mutators and saves do to a content                                 *)

LEMMA DefaultSound ==
  ASSUME NEW K, NEW R, NEW f
  PROVE  CoherentIn(Default, K, R) /\ Own(Default, f)
  BY DEF CoherentIn, Own, Default, None

LEMMA MutatedSound ==
  ASSUME NEW c \in Calls, NEW content \in Contents, NEW K, NEW R,
         CoherentIn(content, K, R), c.input \in R \cup LeaseTexts, c.input.project \in Projects,
         c.op \in {"register", "lease", "approve_lease", "verify"},
         c.op = "register" =>
           c.input \in Registrations /\ c.input \in R /\ c.input.project \in K
  PROVE  CoherentIn(Mutated(c, content), K, R)
<1>. c.input # None
  BY DEF None
<1>1. CASE c.op = "register"
  <2>. PICK m : m = Mutated(c, content)
    OBVIOUS
  <2>1. /\ m.registration = c.input /\ m.lease = content.lease /\ m.profile = content.profile
        /\ m.label = IF content.label = "IDLE" THEN "CONFIGURED" ELSE content.label
    BY <1>1 DEF Mutated, Registering, Configuring, Leasing, Contents
  <2>. QED BY <1>1, <2>1 DEF CoherentIn
<1>2. CASE c.op = "verify"
  <2>. PICK m : m = Mutated(c, content)
    OBVIOUS
  <2>1. /\ m.registration = content.registration /\ m.lease = content.lease
        /\ m.profile = IF content.registration = c.input THEN c.input ELSE content.profile
        /\ m.label = content.label
    BY <1>2 DEF Mutated, Registering, Configuring, Leasing, Contents
  <2>. QED BY <2>1 DEF CoherentIn
<1>3. CASE c.op \in {"lease", "approve_lease"}
  <2>. PICK m : m = Mutated(c, content)
    OBVIOUS
  <2>1. /\ m.registration = content.registration /\ m.lease = c.input
        /\ m.profile = content.profile
        /\ m.label = IF content.label = "CONFIGURED" THEN "LEASE_READY" ELSE content.label
    BY <1>3 DEF Mutated, Registering, Configuring, Leasing, Contents
  <2>. QED BY <2>1 DEF CoherentIn
<1>. QED BY <1>1, <1>2, <1>3

LEMMA MutatedOwn ==
  ASSUME NEW c \in Calls, NEW content \in Contents, NEW f \in Files,
         Own(content, f), c.input.project \in Projects,
         c.op = "register" => c.input.project = f
  PROVE  Own(Mutated(c, content), f)
<1>. c.input.project # NoProject
  OBVIOUS
<1>1. CASE c.op = "register"
  BY <1>1 DEF Mutated, Registering, Configuring, Leasing, Contents, Own
<1>2. CASE c.op = "verify"
  BY <1>2 DEF Mutated, Registering, Configuring, Leasing, Contents, Own
<1>3. CASE c.op \notin {"register", "verify"}
  BY <1>3 DEF Mutated, Registering, Configuring, Leasing, Contents, Own
<1>. QED BY <1>1, <1>2, <1>3

LEMMA MutatedLabel ==
  ASSUME NEW c \in Calls, NEW content \in Contents
  PROVE  \/ Mutated(c, content).label = content.label
         \/ CanTransition(content.label, Mutated(c, content).label)
<1>. /\ CanTransition("IDLE", "CONFIGURED") /\ CanTransition("CONFIGURED", "LEASE_READY")
  BY DEF CanTransition, AllowedTransitions, Labels, Halts, Waits
<1>1. CASE c.op = "register"
  BY <1>1 DEF Mutated, Registering, Configuring, Leasing, Contents
<1>2. CASE c.op = "verify"
  BY <1>2 DEF Mutated, Registering, Configuring, Leasing, Contents
<1>3. CASE c.op \notin {"register", "verify"}
  BY <1>3 DEF Mutated, Registering, Configuring, Leasing, Contents
<1>. QED BY <1>1, <1>2, <1>3

\* A profile that is not saved leaves a file that does not exist as it is.
LEMMA ProfileNotSaved ==
  ASSUME NEW c \in Calls, c.op = "verify", c.input.project \in Projects
  PROVE  Mutated(c, Default) = Default
  BY DEF Mutated, Registering, Configuring, Leasing, Default, None

\* Every label but STOPPED may become STOPPED.
LEMMA MayStop ==
  ASSUME NEW l \in Labels, l # "STOPPED"
  PROVE  CanTransition(l, "STOPPED")
  BY DEF CanTransition, AllowedTransitions, Labels, Halts, Waits

LEMMA WalkAllowed ==
  /\ \A l \in Simulable : CanTransition(l, Walk[1])
  /\ \A i \in 2 .. 9 : CanTransition(Walk[i - 1], Walk[i])
<1>1. \A l \in Simulable : CanTransition(l, Walk[1])
  BY DEF CanTransition, AllowedTransitions, Labels, Simulable, Walk
<1>2. ASSUME NEW i \in 2 .. 9
      PROVE  CanTransition(Walk[i - 1], Walk[i])
  <2>1. \/ i = 2 \/ i = 3 \/ i = 4 \/ i = 5 \/ i = 6 \/ i = 7 \/ i = 8 \/ i = 9
    OBVIOUS
  <2>2. /\ CanTransition(Walk[1], Walk[2]) /\ CanTransition(Walk[2], Walk[3])
        /\ CanTransition(Walk[3], Walk[4]) /\ CanTransition(Walk[4], Walk[5])
    BY DEF CanTransition, AllowedTransitions, Labels, Walk, Halts, Waits
  <2>3. /\ CanTransition(Walk[5], Walk[6]) /\ CanTransition(Walk[6], Walk[7])
        /\ CanTransition(Walk[7], Walk[8]) /\ CanTransition(Walk[8], Walk[9])
    BY DEF CanTransition, AllowedTransitions, Labels, Walk, Halts, Waits
  <2>. QED BY <2>1, <2>2, <2>3
<1>. QED BY <1>1, <1>2

LEMMA NextLabelFits ==
  ASSUME NEW c \in Calls, LabelFits(c)
  PROVE  LET from == c.snapshot.label
             to == NextLabel(c)
         IN /\ to \in Labels /\ to # "LEASE_READY"
            /\ to \in {"IDLE", "STOPPED"} \/ from \notin {"IDLE", "STOPPED"}
            /\ from = to \/ CanTransition(from, to) \/ (to = "IDLE" /\ from # "STOPPED")
<1>. c.snapshot.label \in Labels
  BY DEF Calls, Contents
<1>1. CASE c.op = "stop"
  BY <1>1, MayStop DEF NextLabel, Labels, Halts
<1>2. CASE c.op = "off"
  BY <1>2 DEF NextLabel, Labels, LabelFits
<1>3. CASE c.op = "simulate"
  <2>1. NextLabel(c) = Walk[c.at]
    BY <1>3 DEF NextLabel
  <2>2. \A i \in 1 .. 9 : Walk[i] \in Labels \ {"LEASE_READY", "IDLE", "STOPPED"}
    BY DEF Walk, Labels, Halts
  <2>3. \A l \in Simulable : l \notin {"IDLE", "STOPPED"}
    BY DEF Simulable
  <2>4. CASE c.at = 1 /\ c.snapshot.label \in Simulable
    BY <2>1, <2>2, <2>3, <2>4, WalkAllowed
  <2>5. CASE c.at \in 2 .. 9 /\ c.snapshot.label = Walk[c.at - 1]
    <3>1. c.at - 1 \in 1 .. 9 /\ c.at \in 1 .. 9
      BY <2>5
    <3>. QED BY <2>1, <2>2, <2>5, <3>1, WalkAllowed
  <2>. QED BY <1>3, <2>4, <2>5 DEF LabelFits
<1>. QED BY <1>1, <1>2, <1>3 DEF LabelFits

LEMMA SavedSound ==
  ASSUME NEW c \in Calls, LabelFits(c), NEW K, NEW R, CoherentIn(c.snapshot, K, R)
  PROVE  LET saved == [c.snapshot EXCEPT !.label = NextLabel(c)] IN
         /\ saved \in Contents /\ saved.label = NextLabel(c)
         /\ CoherentIn(saved, K, R)
         /\ \A f : Own(c.snapshot, f) => Own(saved, f)
<1>. c.snapshot \in Contents
  BY DEF Calls
<1>. PICK l : l = NextLabel(c)
  OBVIOUS
<1>1. /\ l \in Labels /\ l # "LEASE_READY"
      /\ l \in {"IDLE", "STOPPED"} \/ c.snapshot.label \notin {"IDLE", "STOPPED"}
  BY NextLabelFits
<1>. PICK saved : saved = [c.snapshot EXCEPT !.label = l]
  OBVIOUS
<1>2. /\ saved.label = l /\ saved.registration = c.snapshot.registration
      /\ saved.lease = c.snapshot.lease /\ saved.profile = c.snapshot.profile
      /\ saved \in Contents
  BY <1>1 DEF Contents
<1>3. CoherentIn(saved, K, R) /\ \A f : Own(c.snapshot, f) => Own(saved, f)
  BY <1>1, <1>2 DEF CoherentIn, Own
<1>. QED BY <1>2, <1>3

-----------------------------------------------------------------------------
(* Soundness of commands                                                   *)

LEMMA SoundGrows ==
  ASSUME NEW c, NEW K, NEW L, NEW R, NEW N, NEW K2, NEW L2, NEW R2, NEW N2 \in Nat,
         c \in Calls, K \subseteq K2, L \subseteq L2, R \subseteq R2, N <= N2, Sound(c, K, L, R, N)
  PROVE  Sound(c, K2, L2, R2, N2)
<1>. c.number <= N2
  BY DEF Sound, Calls
<1>. QED BY DEF Sound, CoherentIn

LEMMA CoherentGrows ==
  ASSUME NEW content, NEW K, NEW R, NEW K2, NEW R2,
         K \subseteq K2, R \subseteq R2, CoherentIn(content, K, R)
  PROVE  CoherentIn(content, K2, R2)
  BY DEF CoherentIn

LEMMA NoCallSound ==
  ASSUME NEW K, NEW L, NEW R, NEW N \in Nat
  PROVE  Sound(NoCall, K, L, R, N)
<1>. NoCall.snapshot = Default
  BY DEF NoCall
<1>. QED BY DefaultSound DEF Sound, NoCall

\* A command reads a content of file f.
LEMMA ReadSound ==
  ASSUME NEW c \in Calls, NEW content \in Contents, NEW f \in Files, NEW K, NEW L, NEW R, NEW N,
         Sound(c, K, L, R, N), c.step = "access", c.access # "save",
         CoherentIn(content, K, R), f \notin L => Own(content, f)
  PROVE  LET read == [c EXCEPT !.snapshot = content, !.origin = f] IN
         read \in Calls /\ Sound(read, K, L, R, N)
<1>. PICK r : r = [c EXCEPT !.snapshot = content, !.origin = f]
  OBVIOUS
<1>1. r \in Calls
  BY DEF Calls
<1>2. /\ r.number = c.number /\ r.snapshot = content /\ r.origin = f /\ r.op = c.op /\ r.step = c.step
      /\ r.access = c.access /\ r.input = c.input /\ r.target = c.target /\ r.at = c.at
  BY DEF Calls
<1>3. Sound(r, K, L, R, N)
  BY <1>2 DEF Sound
<1>. QED BY <1>1, <1>3

LEMMA ThenFields ==
  ASSUME NEW c \in Calls, NEW a, NEW i
  PROVE  /\ Then(c, a, i).op = c.op /\ Then(c, a, i).access = a /\ Then(c, a, i).at = i
         /\ Then(c, a, i).step = "resolve" /\ Then(c, a, i).input = c.input
         /\ Then(c, a, i).snapshot = c.snapshot /\ Then(c, a, i).origin = c.origin
         /\ Then(c, a, i).number = c.number
  BY DEF Then, Calls

LEMMA AfterLoadSound ==
  ASSUME NEW c \in Calls, NEW K, NEW L, NEW R, NEW N, Sound(c, K, L, R, N), c.access = "load"
  PROVE  Sound(AfterLoad(c), K, L, R, N)
<1>. c.snapshot.registration \in Registrations \cup {None}
  BY DEF Calls, Contents
<1>1. ASSUME c.op = "approve_lease", c.snapshot.registration # None
      PROVE  Sound(ApproveLease(c), K, L, R, N)
  <2>. PICK a : a = ApproveLease(c)
    OBVIOUS
  <2>1. /\ a.number = c.number /\ a.op = c.op /\ a.access = "mutate" /\ a.step = "resolve"
        /\ a.input = c.snapshot.registration /\ a.snapshot = c.snapshot
        /\ a.origin = c.origin
    BY DEF ApproveLease, Then, Calls
  <2>. QED BY <1>1, <2>1 DEF Sound, CoherentIn, Registrations
<1>2. ASSUME c.op = "verify", c.snapshot.registration # None
      PROVE  Sound(SaveProfile(c), K, L, R, N)
  <2>. PICK a : a = SaveProfile(c)
    OBVIOUS
  <2>1. /\ a.number = c.number /\ a.op = c.op /\ a.access = "mutate" /\ a.step = "access"
        /\ a.input = c.snapshot.registration /\ a.snapshot = c.snapshot
        /\ a.origin = c.origin
    BY DEF SaveProfile, Calls
  <2>. QED BY <1>2, <2>1 DEF Sound, CoherentIn, Registrations
<1>3. ASSUME \/ c.op = "stop"
             \/ c.op = "simulate" /\ c.snapshot.label \in Simulable
             \/ c.op = "off" /\ c.snapshot.label \notin {"IDLE", "STOPPED"}
      PROVE  Sound(Then(c, "save", 1), K, L, R, N)
  <2>. PICK a : a = Then(c, "save", 1)
    OBVIOUS
  <2>1. /\ a.number = c.number /\ a.op = c.op /\ a.access = "save" /\ a.at = 1 /\ a.step = "resolve"
        /\ a.input = c.input /\ a.snapshot = c.snapshot /\ a.origin = c.origin
    BY ThenFields
  <2>. QED BY <1>3, <2>1 DEF Sound, LabelFits
<1>4. ASSUME c.op \in Consulting
      PROVE  Sound(Consult(c), K, L, R, N)
  <2>. PICK a : a = Consult(c)
    OBVIOUS
  <2>1. /\ a.number = c.number /\ a.op = c.op /\ a.access = "load" /\ a.step = "loaded"
        /\ a.input = c.input /\ a.snapshot = c.snapshot /\ a.origin = c.origin
    BY DEF Consult, Calls
  <2>. QED BY <1>4, <2>1 DEF Sound, Consulting, Consumers
<1>5. N \in Nat
  BY DEF Sound
<1>. QED BY <1>1, <1>2, <1>3, <1>4, <1>5, AfterLoadCases, NoCallSound

LEMMA AfterMutateSound ==
  ASSUME NEW c \in Calls, NEW K, NEW L, NEW R, NEW N, Sound(c, K, L, R, N)
  PROVE  Sound(AfterMutate(c), K, L, R, N)
<1>1. ASSUME c.op = "approve_lease"
      PROVE  Sound(Then(c, "load", 3), K, L, R, N)
  <2>. PICK a : a = Then(c, "load", 3)
    OBVIOUS
  <2>1. /\ a.number = c.number /\ a.op = c.op /\ a.access = "load" /\ a.step = "resolve"
        /\ a.snapshot = c.snapshot /\ a.origin = c.origin
    BY ThenFields
  <2>. QED BY <1>1, <2>1 DEF Sound
<1>2. N \in Nat
  BY DEF Sound
<1>. QED BY <1>1, <1>2, NoCallSound DEF AfterMutate

\* A simulation has saved one label and goes on to save the next.
LEMMA NextSaveSound ==
  ASSUME NEW c \in Calls, NEW K, NEW L, NEW R, NEW N, NEW i \in 2 .. 9,
         c.op = "simulate", c.snapshot.label = Walk[i - 1],
         CoherentIn(c.snapshot, K, R), c.origin \notin L => Own(c.snapshot, c.origin),
         N \in Nat, c.number <= N
  PROVE  Sound(Then(c, "save", i), K, L, R, N)
<1>. PICK a : a = Then(c, "save", i)
  OBVIOUS
<1>1. /\ a.number = c.number /\ a.op = c.op /\ a.access = "save" /\ a.step = "resolve" /\ a.at = i
      /\ a.snapshot = c.snapshot /\ a.origin = c.origin
  BY ThenFields
<1>. QED BY <1>1 DEF Sound, LabelFits

\* A command saves its content to file f, which joins L if something is lost there.
LEMMA AfterSaveSound ==
  ASSUME NEW c \in Calls, NEW K, NEW L, NEW R, NEW N, NEW f \in Files, Sound(c, K, L, R, N),
         c.access = "save", f \notin L => Own(c.snapshot, f)
  PROVE  LET saved == [c.snapshot EXCEPT !.label = NextLabel(c)]
             after == AfterSave([c EXCEPT !.snapshot = saved, !.origin = f])
         IN after \in Calls /\ Sound(after, K, L, R, N)
<1>. PICK saved : saved = [c.snapshot EXCEPT !.label = NextLabel(c)]
  OBVIOUS
<1>1. LabelFits(c) /\ CoherentIn(c.snapshot, K, R) /\ N \in Nat
  BY DEF Sound
<1>2. /\ saved \in Contents /\ saved.label = NextLabel(c) /\ CoherentIn(saved, K, R)
      /\ f \notin L => Own(saved, f)
  BY <1>1, SavedSound
<1>. PICK d : d = [c EXCEPT !.snapshot = saved, !.origin = f]
  OBVIOUS
<1>3. d \in Calls /\ d.number = c.number /\ d.number <= N /\ d.op = c.op /\ d.at = c.at /\ d.snapshot = saved /\ d.origin = f
  BY <1>2 DEF Calls, Sound
<1>4. ASSUME c.op = "simulate", c.at < Len(Walk)
      PROVE  Sound(Then(d, "save", c.at + 1), K, L, R, N)
  <2>1. c.at + 1 \in 2 .. 9 /\ saved.label = Walk[(c.at + 1) - 1]
    BY <1>1, <1>2, <1>4, Constant DEF Calls, LabelFits, NextLabel
  <2>. QED BY <1>1, <1>2, <1>3, <1>4, <2>1, NextSaveSound
<1>5. Sound(AfterSave(d), K, L, R, N)
  BY <1>1, <1>3, <1>4, NoCallSound DEF AfterSave
<1>. QED BY <1>3, <1>5, AfterSaveType

-----------------------------------------------------------------------------
(* Every action keeps the invariant                                        *)

FilesSound == \A f \in Files : /\ CoherentIn(state[f], known, registered)
                               /\ f \notin lossy => Own(state[f], f)
                               /\ f \notin known => state[f] = Default
CallsSound == \A s \in Sessions : Sound(call[s], known, lossy, registered, begun)

\* Observers and known files only grow.
Grows == /\ known \subseteq known' /\ lossy \subseteq lossy' /\ registered \subseteq registered'
         /\ begun \in Nat /\ begun' \in Nat /\ begun <= begun'

LEMMA CallStep ==
  ASSUME StoreInvariant, Grows, NEW s \in Sessions, NEW c \in Calls,
         Sound(c, known', lossy', registered', begun'), call' = [call EXCEPT ![s] = c]
  PROVE  call' \in [Sessions -> Calls] /\ CallsSound'
<1>1. call' \in [Sessions -> Calls]
  BY DEF StoreInvariant, StoreTypeOK
<1>2. ASSUME NEW t \in Sessions
      PROVE  Sound(call'[t], known', lossy', registered', begun')
  <2>1. CASE t = s
    BY <2>1 DEF StoreInvariant, StoreTypeOK
  <2>2. CASE t # s
    <3>1. call'[t] = call[t] /\ call[t] \in Calls /\ Sound(call[t], known, lossy, registered, begun)
      BY <2>2 DEF StoreInvariant, StoreTypeOK
    <3>. QED BY <3>1, SoundGrows DEF Grows
  <2>. QED BY <2>1, <2>2
<1>. QED BY <1>1, <1>2 DEF CallsSound

LEMMA CallsStay ==
  ASSUME StoreInvariant, Grows, UNCHANGED call
  PROVE  call' \in [Sessions -> Calls] /\ CallsSound'
<1>1. ASSUME NEW t \in Sessions
      PROVE  Sound(call[t], known', lossy', registered', begun')
  BY SoundGrows DEF Grows, StoreInvariant, StoreTypeOK
<1>. QED BY <1>1 DEF StoreInvariant, StoreTypeOK, CallsSound

LEMMA FileStep ==
  ASSUME StoreInvariant, Grows, NEW f \in Files, NEW content \in Contents,
         CoherentIn(content, known', registered'), f \notin lossy' => Own(content, f),
         f \in known' \/ content = Default,
         state' = [state EXCEPT ![f] = content]
  PROVE  state' \in [Files -> Contents] /\ FilesSound'
<1>1. state' \in [Files -> Contents]
  BY DEF StoreInvariant, StoreTypeOK
<1>2. ASSUME NEW g \in Files
      PROVE  /\ CoherentIn(state'[g], known', registered')
             /\ g \notin lossy' => Own(state'[g], g)
             /\ g \notin known' => state'[g] = Default
  <2>1. CASE g = f
    BY <2>1 DEF StoreInvariant, StoreTypeOK
  <2>2. CASE g # f
    <3>1. state'[g] = state[g] /\ CoherentIn(state[g], known, registered)
      BY <2>2 DEF StoreInvariant, StoreTypeOK
    <3>2. CoherentIn(state[g], known', registered')
      BY <3>1, CoherentGrows DEF Grows
    <3>. QED BY <3>1, <3>2 DEF StoreInvariant, Grows
  <2>. QED BY <2>1, <2>2
<1>. QED BY <1>1, <1>2 DEF FilesSound

LEMMA FilesStay ==
  ASSUME StoreInvariant, Grows, UNCHANGED state
  PROVE  state' \in [Files -> Contents] /\ FilesSound'
<1>1. ASSUME NEW g \in Files
      PROVE  CoherentIn(state[g], known', registered')
  BY CoherentGrows DEF Grows, StoreInvariant
<1>. QED BY <1>1 DEF StoreInvariant, StoreTypeOK, FilesSound, Grows

\* The rest of the type invariant.
SmallTypeOK ==
  /\ known \subseteq Files /\ lossy \subseteq Files
  /\ active \in Files /\ kill \in BOOLEAN
  /\ begun \in 0 .. MaxEvents /\ faults \in 0 .. MaxEvents
  /\ registered \subseteq Registrations

LEMMA Parts ==
  ASSUME state \in [Files -> Contents], FilesSound, call \in [Sessions -> Calls],
         CallsSound, SmallTypeOK
  PROVE  StoreInvariant
  BY DEF StoreInvariant, StoreTypeOK, SmallTypeOK, FilesSound, CallsSound

LEMMA PartsNext ==
  ASSUME state' \in [Files -> Contents], FilesSound', call' \in [Sessions -> Calls],
         CallsSound', SmallTypeOK'
  PROVE  StoreInvariant'
  BY DEF StoreInvariant, StoreTypeOK, SmallTypeOK, FilesSound, CallsSound

\* A command that only changes its own local state.
LEMMA OnlyCall ==
  ASSUME StoreInvariant, NEW s \in Sessions, NEW c \in Calls,
         Sound(c, known, lossy, registered, begun), call' = [call EXCEPT ![s] = c],
         UNCHANGED <<fileVars, kill, begun, faults, registered>>, active' \in Files
  PROVE  StoreInvariant'
<1>1. Grows
  BY DEF Grows, fileVars, StoreInvariant, StoreTypeOK
<1>2. call' \in [Sessions -> Calls] /\ CallsSound'
  BY <1>1, CallStep DEF fileVars
<1>3. state' \in [Files -> Contents] /\ FilesSound'
  BY <1>1, FilesStay DEF fileVars
<1>4. SmallTypeOK'
  BY DEF SmallTypeOK, StoreInvariant, StoreTypeOK, fileVars
<1>. QED BY <1>2, <1>3, <1>4, PartsNext

LEMMA InitInvariant ==
  ASSUME StoreInit
  PROVE  StoreInvariant
<1>0. /\ lossy \subseteq Files /\ begun \in 0 .. MaxEvents /\ faults \in 0 .. MaxEvents
      /\ kill \in BOOLEAN
  <2>1. kill \in BOOLEAN
    BY Zenon DEF StoreInit
  <2>2. lossy = {} /\ begun = 0 /\ faults = 0
    BY Zenon DEF StoreInit
  <2>. QED BY <2>1, <2>2
<1>1. call \in [Sessions -> Calls] /\ CallsSound
  BY DefaultType, NoCallSound DEF StoreInit, CallsSound
<1>2. CASE Fresh /\ registered = {}
  <2>1. state \in [Files -> Contents] /\ FilesSound
    BY <1>2, DefaultType, DefaultSound DEF Fresh, FilesSound
  <2>2. SmallTypeOK
    BY <1>0, <1>2 DEF SmallTypeOK, Fresh, Files
  <2>. QED BY <1>1, <2>1, <2>2, Parts
<1>3. ASSUME NEW home \in [Projects -> Workspaces], InUse(home),
             registered = {[project |-> p, workspace |-> home[p]] : p \in Projects}
      PROVE  StoreInvariant
  <2>1. ASSUME NEW f \in Files
        PROVE  /\ state[f] \in Contents /\ CoherentIn(state[f], known, registered)
               /\ Own(state[f], f)
               /\ f \notin known => state[f] = Default
    <3>1. CASE f = NoProject
      BY <1>3, <3>1, DefaultType, DefaultSound DEF InUse
    <3>2. CASE f # NoProject
      <4>. PICK r : r = [project |-> f, workspace |-> home[f]]
        OBVIOUS
      <4>1. /\ f \in Projects /\ r \in Registrations /\ r \in Scopes /\ r # None
            /\ r \in registered /\ r.project = f
        BY <1>3, <3>2 DEF Files, Registrations, Scopes, None
      <4>2. state[f] = [label |-> "LEASE_READY", registration |-> r, lease |-> r, profile |-> r]
        BY <1>3, <3>2 DEF InUse
      <4>3. known = Projects /\ "LEASE_READY" \in Labels
        BY <1>3 DEF InUse, Labels
      <4>. QED BY <4>1, <4>2, <4>3 DEF Contents, CoherentIn, Own
    <3>. QED BY <3>1, <3>2
  <2>2. DOMAIN state = Files /\ state = [f \in Files |-> state[f]]
    BY <1>3 DEF InUse
  <2>3. state \in [Files -> Contents] /\ FilesSound
    <3>1. state \in [Files -> Contents]
      BY <2>1, <2>2, Zenon
    <3>. QED BY <2>1, <3>1 DEF FilesSound
  <2>4. /\ known \subseteq Files /\ active \in Files
        /\ registered \subseteq Registrations
    BY <1>3 DEF InUse, Files, Registrations
  <2>5. SmallTypeOK
    BY <1>0, <2>4 DEF SmallTypeOK
  <2>. QED BY <1>1, <2>3, <2>5, Parts
<1>. QED BY <1>2, <1>3 DEF StoreInit

LEMMA BeginInvariant ==
  ASSUME StoreInvariant, NEW s \in Sessions, NEW op \in Commands, NEW input \in Inputs(op),
         Begin(s, op, input)
  PROVE  StoreInvariant'
<1>1. Grows
  BY DEF Grows, fileVars, Begin, StoreInvariant, StoreTypeOK
<1>2. /\ op \in AllCommands /\ input \in Scopes
      /\ op = "register" => input \in Registrations
      /\ op \in {"register", "use", "lease"} => input.project \in Projects
      /\ op = "lease" => input \in LeaseTexts
  <2>1. CASE op = "register"
    BY <2>1, Constant DEF Inputs, Registrations
  <2>2. CASE op = "use"
    BY <2>2 DEF Inputs, Scopes, Files
  <2>3. CASE op = "lease"
    BY <2>3, Constant DEF Inputs
  <2>4. CASE op \notin {"register", "use", "lease"}
    BY <2>4, Constant DEF Inputs
  <2>. QED BY <2>1, <2>2, <2>3, <2>4
<1>. PICK n : n = IF op \in Consumers THEN begun + 1 ELSE 0
  OBVIOUS
<1>3. n \in 0 .. MaxEvents /\ begun' \in 0 .. MaxEvents /\ n <= begun'
  BY DEF Begin, StoreInvariant, StoreTypeOK
<1>. PICK step : step = IF op \in {"register", "use"} THEN "activate" ELSE "resolve"
  OBVIOUS
<1>. PICK access : access = IF op \in {"register", "lease"} THEN "mutate" ELSE "load"
  OBVIOUS
<1>. PICK c : c = [NoCall EXCEPT !.op = op, !.input = input, !.at = 1, !.number = n,
                                 !.step = step, !.access = access]
  OBVIOUS
<1>4. /\ c.number = n /\ c.op = op /\ c.input = input /\ c.at = 1 /\ c.snapshot = Default
      /\ c.origin = NoProject
      /\ c.step = step /\ c.access = access
  BY DEF NoCall
<1>5. c \in Calls
  <2>1. NoCall \in Calls /\ 1 \in 0 .. Len(Walk)
    BY DefaultType, Constant
  <2>2. step \in {"activate", "resolve"} /\ access \in {"mutate", "load"}
    OBVIOUS
  <2>3. op \in AllCommands /\ input \in Scopes /\ n \in 0 .. MaxEvents
    BY <1>2, <1>3
  <2>. QED BY <2>1, <2>2, <2>3, ZenonT(60) DEF Calls
<1>6. op = "register" => input \in registered'
  BY DEF Begin
<1>7. Sound(c, known', lossy', registered', begun')
  BY <1>2, <1>3, <1>4, <1>6, DefaultSound DEF Sound
<1>8. call' = [call EXCEPT ![s] = c]
  BY DEF Begin
<1>9. call' \in [Sessions -> Calls] /\ CallsSound'
  BY <1>1, <1>5, <1>7, <1>8, CallStep
<1>10. state' \in [Files -> Contents] /\ FilesSound'
  BY <1>1, FilesStay DEF Begin, fileVars
<1>11. SmallTypeOK'
  BY <1>2, <1>3 DEF SmallTypeOK, StoreInvariant, StoreTypeOK, Begin, fileVars
<1>. QED BY <1>9, <1>10, <1>11, PartsNext

LEMMA ReturnInvariant ==
  ASSUME StoreInvariant, NEW s \in Sessions, Return(s),
         UNCHANGED <<fileVars, active, kill, begun, registered>>, faults' \in 0 .. MaxEvents
  PROVE  StoreInvariant'
<1>1. Grows
  BY DEF Grows, fileVars, StoreInvariant, StoreTypeOK
<1>2. call' \in [Sessions -> Calls] /\ CallsSound'
  BY <1>1, CallStep, NoCallSound, DefaultType DEF Return, Grows
<1>3. state' \in [Files -> Contents] /\ FilesSound'
  BY <1>1, FilesStay DEF fileVars
<1>4. SmallTypeOK'
  BY DEF SmallTypeOK, StoreInvariant, StoreTypeOK, fileVars
<1>. QED BY <1>2, <1>3, <1>4, PartsNext

LEMMA ActivateInvariant ==
  ASSUME StoreInvariant, NEW s \in Sessions, Activate(s)
  PROVE  StoreInvariant'
<1>. PICK c : c = call[s]
  OBVIOUS
<1>1. c \in Calls /\ Sound(c, known, lossy, registered, begun) /\ c.step = "activate"
  BY DEF StoreInvariant, StoreTypeOK, Activate
<1>2. CASE Return(s) /\ UNCHANGED active
  <2>1. faults' \in 0 .. MaxEvents
    BY DEF Activate, StoreInvariant, StoreTypeOK
  <2>. QED BY <1>2, <2>1, ReturnInvariant DEF Activate
<1>3. CASE ~ (Return(s) /\ UNCHANGED active)
  <2>. PICK d : d = [c EXCEPT !.step = IF c.op = "register" THEN "access" ELSE "resolve",
                              !.target = c.input.project]
    OBVIOUS
  <2>1. /\ d.number = c.number /\ d.op = c.op /\ d.input = c.input /\ d.access = c.access
        /\ d.snapshot = c.snapshot /\ d.origin = c.origin /\ d.at = c.at
        /\ d.step = IF c.op = "register" THEN "access" ELSE "resolve"
        /\ d.target = c.input.project
    BY <1>1 DEF Calls
  <2>2. c.input.project \in Projects
    BY <1>1 DEF Sound
  <2>3. d \in Calls
    <3>1. c.input.project \in Files /\ c \in Calls
      BY <1>1, <2>2 DEF Files
    <3> QED BY <3>1, ZenonT(60) DEF Calls
  <2>4. Sound(d, known, lossy, registered, begun)
    BY <1>1, <2>1, <2>2 DEF Sound, LabelFits
  <2>5. call' = [call EXCEPT ![s] = d] /\ active' = c.input.project
    BY <1>3 DEF Activate, StoreInvariant, StoreTypeOK
  <2>. QED BY <2>2, <2>3, <2>4, <2>5, OnlyCall DEF Activate, Files
<1>. QED BY <1>2, <1>3

LEMMA ResolveInvariant ==
  ASSUME StoreInvariant, NEW s \in Sessions, Resolve(s)
  PROVE  StoreInvariant'
<1>. PICK c : c = call[s]
  OBVIOUS
<1>1. c \in Calls /\ Sound(c, known, lossy, registered, begun) /\ c.step = "resolve"
  BY DEF StoreInvariant, StoreTypeOK, Resolve
<1>2. CASE Return(s)
  <2>1. faults' \in 0 .. MaxEvents
    BY DEF Resolve, StoreInvariant, StoreTypeOK
  <2>. QED BY <1>2, <2>1, ReturnInvariant DEF Resolve
<1>3. CASE ~ Return(s)
  <2>. PICK d : d = [c EXCEPT !.target = active,
                              !.step = IF active = NoProject THEN "guard" ELSE "access"]
    OBVIOUS
  <2>1. /\ d.number = c.number /\ d.op = c.op /\ d.input = c.input /\ d.access = c.access
        /\ d.snapshot = c.snapshot /\ d.origin = c.origin /\ d.at = c.at
        /\ d.step \in {"guard", "access"}
    BY <1>1 DEF Calls
  <2>2. active \in Files /\ active' = active
    BY DEF StoreInvariant, StoreTypeOK, Resolve
  <2>3. d \in Calls
    BY <1>1, <2>2 DEF Calls
  <2>4. Sound(d, known, lossy, registered, begun)
    BY <1>1, <2>1 DEF Sound, LabelFits
  <2>5. call' = [call EXCEPT ![s] = d]
    BY <1>3 DEF Resolve, StoreInvariant, StoreTypeOK
  <2>. QED BY <2>2, <2>3, <2>4, <2>5, OnlyCall DEF Resolve
<1>. QED BY <1>2, <1>3

LEMMA GuardInvariant ==
  ASSUME StoreInvariant, NEW s \in Sessions, Guard(s)
  PROVE  StoreInvariant'
<1>. PICK c : c = call[s]
  OBVIOUS
<1>1. c \in Calls /\ Sound(c, known, lossy, registered, begun) /\ c.step = "guard"
  BY DEF StoreInvariant, StoreTypeOK, Guard
<1>. PICK d : d = [c EXCEPT !.guard = active, !.step = "access"]
  OBVIOUS
<1>2. /\ d.number = c.number /\ d.op = c.op /\ d.input = c.input /\ d.access = c.access
      /\ d.snapshot = c.snapshot /\ d.origin = c.origin /\ d.at = c.at
      /\ d.step = "access"
  BY <1>1 DEF Calls
<1>3. active \in Files /\ active' = active
  BY DEF StoreInvariant, StoreTypeOK, Guard
<1>4. d \in Calls
  BY <1>1, <1>3 DEF Calls
<1>5. Sound(d, known, lossy, registered, begun)
  BY <1>1, <1>2 DEF Sound, LabelFits
<1>6. call' = [call EXCEPT ![s] = d]
  BY DEF Guard, StoreInvariant, StoreTypeOK
<1>7. UNCHANGED <<fileVars, kill, begun, faults, registered>>
  BY DEF Guard
<1>. QED BY <1>3, <1>4, <1>5, <1>6, <1>7, OnlyCall

\* The call and the file of an access.
LEMMA AccessFacts ==
  ASSUME StoreInvariant, NEW s \in Sessions
  PROVE  /\ call[s] \in Calls /\ Sound(call[s], known, lossy, registered, begun)
         /\ File(call[s]) \in Files
         /\ \A f \in Files : /\ state[f] \in Contents
                             /\ CoherentIn(state[f], known, registered)
                             /\ f \notin lossy => Own(state[f], f)
                             /\ f \notin known => state[f] = Default
<1>1. call[s] \in Calls /\ Sound(call[s], known, lossy, registered, begun) /\ active \in Files
  BY DEF StoreInvariant, StoreTypeOK
<1>2. call[s].target \in Files
  BY <1>1 DEF Calls
<1>3. File(call[s]) \in Files
  BY <1>1, <1>2 DEF File, Legacy
<1>4. \A f \in Files : /\ state[f] \in Contents
                       /\ CoherentIn(state[f], known, registered)
                       /\ f \notin lossy => Own(state[f], f)
                       /\ f \notin known => state[f] = Default
  BY DEF StoreInvariant, StoreTypeOK
<1>. QED BY <1>1, <1>3, <1>4

LEMMA LoadInvariant ==
  ASSUME StoreInvariant, NEW s \in Sessions, Load(s)
  PROVE  StoreInvariant'
<1>. PICK c : c = call[s]
  OBVIOUS
<1>. PICK f : f = File(c)
  OBVIOUS
<1>. PICK r : r = [c EXCEPT !.snapshot = state[f], !.origin = f]
  OBVIOUS
<1>1. /\ c \in Calls /\ Sound(c, known, lossy, registered, begun) /\ f \in Files
      /\ state[f] \in Contents /\ CoherentIn(state[f], known, registered)
      /\ f \notin lossy => Own(state[f], f)
      /\ f \notin known => state[f] = Default
  BY AccessFacts
<1>2. c.step = "access" /\ c.access = "load"
  BY DEF Load, MayAccess
<1>3. r \in Calls /\ Sound(r, known, lossy, registered, begun)
  BY <1>1, <1>2, ReadSound
<1>4. Grows
  BY DEF Grows, Load, StoreInvariant, StoreTypeOK
<1>5. /\ r.number = c.number /\ r.op = c.op /\ r.access = "load" /\ r.snapshot = state[f] /\ r.origin = f
      /\ r.target = c.target /\ r.input = c.input
  BY <1>1, <1>2 DEF Calls
<1>6. Sound(r, known', lossy', registered', begun')
  BY <1>3, <1>4, SoundGrows DEF Grows
<1>7. PICK d \in Calls : Sound(d, known', lossy', registered', begun') /\ call' = [call EXCEPT ![s] = d]
  <2>1. CASE Legacy(c) /\ f \notin known
    <3>. PICK d : d = [r EXCEPT !.step = "write"]
      OBVIOUS
    <3>1. d \in Calls
      BY <1>3, ZenonT(60) DEF Calls
    <3>2. /\ d.number = c.number /\ d.op = c.op /\ d.access = "load" /\ d.snapshot = state[f] /\ d.origin = f
          /\ d.target = c.target /\ d.input = c.input /\ d.step = "write"
      BY <1>3, <1>5 DEF Calls
    <3>3. c.op # "register"
      BY <1>1, <1>2 DEF Sound
    <3>4. c.target = NoProject /\ state[f] = Default
      BY <1>1, <2>1 DEF Legacy
    <3>5. Sound(d, known', lossy', registered', begun')
      BY <1>5, <1>6, <3>2, <3>3, <3>4 DEF Sound
    <3>6. call' = [call EXCEPT ![s] = d]
      BY <2>1 DEF Load
    <3>. QED BY <3>1, <3>5, <3>6
  <2>2. CASE ~ (Legacy(c) /\ f \notin known)
    <3>1. call' = [call EXCEPT ![s] = AfterLoad(r)]
      BY <2>2 DEF Load
    <3>2. AfterLoad(r) \in Calls /\ Sound(AfterLoad(r), known', lossy', registered', begun')
      BY <1>3, <1>5, <1>6, AfterLoadType, AfterLoadSound
    <3>. QED BY <3>1, <3>2
  <2>. QED BY <2>1, <2>2
<1>8. call' \in [Sessions -> Calls] /\ CallsSound'
  BY <1>4, <1>7, CallStep
<1>9. state' \in [Files -> Contents] /\ FilesSound'
  BY <1>4, FilesStay DEF Load
<1>10. SmallTypeOK'
  BY <1>1 DEF SmallTypeOK, StoreInvariant, StoreTypeOK, Load
<1>. QED BY <1>8, <1>9, <1>10, PartsNext

LEMMA MutateInvariant ==
  ASSUME StoreInvariant, NEW s \in Sessions, Mutate(s)
  PROVE  StoreInvariant'
<1>. PICK c : c = call[s]
  OBVIOUS
<1>. PICK f : f = File(c)
  OBVIOUS
<1>1. /\ c \in Calls /\ Sound(c, known, lossy, registered, begun) /\ f \in Files
      /\ state[f] \in Contents /\ CoherentIn(state[f], known, registered)
      /\ f \notin lossy => Own(state[f], f)
      /\ f \notin known => state[f] = Default
  BY AccessFacts
<1>2. c.step = "access" /\ c.access = "mutate"
  BY DEF Mutate, MayAccess
<1>3. /\ c.op \in {"register", "lease", "approve_lease", "verify"}
      /\ c.input \in registered \cup LeaseTexts /\ c.input.project \in Projects
      /\ c.op = "register" =>
           c.input \in Registrations /\ c.input \in registered /\ c.target = c.input.project
  BY <1>1, <1>2 DEF Sound
<1>4. CASE Legacy(c)
  <2>. PICK d : d = [c EXCEPT !.snapshot = state[f], !.origin = f, !.step = "write"]
    OBVIOUS
  <2>1. d \in Calls
    BY <1>1, ZenonT(60) DEF Calls
  <2>2. /\ d.number = c.number /\ d.op = c.op /\ d.access = "mutate" /\ d.snapshot = state[f] /\ d.origin = f
        /\ d.target = NoProject /\ d.input = c.input /\ d.step = "write"
    BY <1>1, <1>2, <1>4 DEF Calls, Legacy
  <2>3. c.op # "register"
    BY <1>3, <1>4 DEF Legacy
  <2>4. Sound(d, known, lossy, registered, begun)
    BY <1>1, <1>3, <2>2, <2>3 DEF Sound
  <2>5. call' = [call EXCEPT ![s] = d]
    BY <1>4 DEF Mutate, StoreInvariant, StoreTypeOK
  <2>6. active' \in Files
    BY DEF Mutate, StoreInvariant, StoreTypeOK
  <2>7. UNCHANGED <<fileVars, kill, begun, faults, registered>>
    BY <1>4 DEF Mutate, fileVars
  <2>. QED BY <2>1, <2>4, <2>5, <2>6, <2>7, OnlyCall
<1>5. CASE ~ Legacy(c)
  <2>1. f = c.target
    BY <1>5 DEF File
  <2>2. /\ state' = [state EXCEPT ![f] = Mutated(c, state[f])]
        /\ known' = IF c.op = "verify" THEN known ELSE known \cup {f}
        /\ call' = [call EXCEPT ![s] = AfterMutate(c)]
        /\ UNCHANGED <<lossy, registered>>
    BY <1>1, <1>5 DEF Mutate, StoreInvariant, StoreTypeOK
  <2>3. Grows
    BY <2>2 DEF Grows, Mutate, StoreInvariant, StoreTypeOK
  <2>4. CoherentIn(state[f], known', registered') /\ Sound(c, known', lossy', registered', begun')
    BY <1>1, <2>3, CoherentGrows, SoundGrows DEF Grows
  <2>5. Mutated(c, state[f]) \in Contents
    BY <1>1, <1>3, MutatedType
  <2>6. CoherentIn(Mutated(c, state[f]), known', registered')
    <3>1. c.op = "register" => c.input \in registered' /\ c.input.project \in known'
      BY <1>3, <2>1, <2>2
    <3>2. c.input \in registered' \cup LeaseTexts
      BY <1>3, <2>2
    <3>. QED BY <1>1, <1>3, <2>4, <3>1, <3>2, MutatedSound
  <2>7. f \notin lossy' => Own(Mutated(c, state[f]), f)
    BY <1>1, <1>3, <2>1, <2>2, MutatedOwn
  <2>8. f \in known' \/ Mutated(c, state[f]) = Default
    BY <1>1, <1>3, <2>2, ProfileNotSaved
  <2>9. state' \in [Files -> Contents] /\ FilesSound'
    BY <1>1, <2>2, <2>3, <2>5, <2>6, <2>7, <2>8, FileStep
  <2>10. AfterMutate(c) \in Calls /\ Sound(AfterMutate(c), known', lossy', registered', begun')
    BY <1>1, <2>4, AfterMutateType, AfterMutateSound
  <2>11. call' \in [Sessions -> Calls] /\ CallsSound'
    BY <2>2, <2>3, <2>10, CallStep
  <2>12. SmallTypeOK'
    BY <1>1, <2>2 DEF SmallTypeOK, StoreInvariant, StoreTypeOK, Mutate
  <2>. QED BY <2>9, <2>11, <2>12, PartsNext
<1>. QED BY <1>4, <1>5

\* What a write stores: the default, or the mutated copy.
Written(c) == IF c.access = "load" THEN Default ELSE Mutated(c, c.snapshot)

LEMMA WrittenSound ==
  ASSUME NEW c \in Calls, NEW K, NEW L, NEW R, NEW N, NEW f \in Files, Sound(c, K, L, R, N),
         c.step = "write"
  PROVE  /\ Written(c) \in Contents /\ CoherentIn(Written(c), K, R)
         /\ f = c.origin /\ f \notin L => Own(Written(c), f)
         /\ \/ c.access = "load" /\ c.snapshot = Default
            \/ c.access = "mutate" /\ c.op # "register"
<1>1. /\ c.snapshot \in Contents /\ c.access \in {"load", "mutate"}
      /\ c.access = "load" => c.snapshot = Default
  BY DEF Calls, Sound
<1>2. CASE c.access = "load"
  BY <1>1, <1>2, DefaultType, DefaultSound DEF Written
<1>3. CASE c.access = "mutate"
  <2>1. /\ c.op \in {"lease", "approve_lease", "verify"} /\ c.input.project \in Projects
        /\ CoherentIn(c.snapshot, K, R) /\ c.input \in R \cup LeaseTexts
        /\ c.origin \notin L => Own(c.snapshot, c.origin)
    BY <1>3, <1>1 DEF Sound
  <2>2. Mutated(c, c.snapshot) \in Contents /\ CoherentIn(Mutated(c, c.snapshot), K, R)
    BY <1>1, <2>1, MutatedType, MutatedSound
  <2>3. ASSUME f = c.origin, f \notin L
        PROVE  Own(Mutated(c, c.snapshot), f)
    <3>1. Own(c.snapshot, f)
      BY <2>1, <2>3 DEF Sound
    <3>. QED BY <1>1, <2>1, <3>1, MutatedOwn
  <2>. QED BY <1>3, <2>1, <2>2, <2>3 DEF Written
<1>. QED BY <1>1, <1>2, <1>3

LEMMA WriteInvariant ==
  ASSUME StoreInvariant, NEW s \in Sessions, Write(s)
  PROVE  StoreInvariant'
<1>. PICK c : c = call[s]
  OBVIOUS
<1>. PICK f : f = File(c)
  OBVIOUS
<1>1. /\ c \in Calls /\ Sound(c, known, lossy, registered, begun) /\ f \in Files
      /\ c.step = "write"
  BY AccessFacts DEF Write
<1>2. /\ state' = [state EXCEPT ![f] = Written(c)]
      /\ known' = known \cup {f} /\ registered' = registered
      /\ lossy' = IF Overwrites(c, f) THEN lossy \cup {f} ELSE lossy
      /\ call' = [call EXCEPT ![s] = IF c.access = "load" THEN AfterLoad(c)
                                                          ELSE AfterMutate(c)]
  BY DEF Write, Written
<1>3. Grows
  BY <1>2 DEF Grows, Write, StoreInvariant, StoreTypeOK
<1>4. Sound(c, known', lossy', registered', begun')
  BY <1>1, <1>3, SoundGrows DEF Grows
<1>5. /\ Written(c) \in Contents /\ CoherentIn(Written(c), known', registered')
      /\ f = c.origin /\ f \notin lossy' => Own(Written(c), f)
  BY <1>1, <1>4, WrittenSound
<1>6. f \notin lossy' => f = c.origin
  BY <1>2 DEF Overwrites
<1>7. state' \in [Files -> Contents] /\ FilesSound'
  BY <1>1, <1>2, <1>3, <1>5, <1>6, FileStep
<1>8. PICK d \in Calls : Sound(d, known', lossy', registered', begun') /\ call' = [call EXCEPT ![s] = d]
  <2>1. CASE c.access = "load"
    BY <1>1, <1>2, <1>4, <2>1, AfterLoadType, AfterLoadSound
  <2>2. CASE c.access # "load"
    BY <1>1, <1>2, <1>4, <2>2, AfterMutateType, AfterMutateSound
  <2>. QED BY <2>1, <2>2
<1>9. call' \in [Sessions -> Calls] /\ CallsSound'
  BY <1>3, <1>8, CallStep
<1>10. SmallTypeOK'
  BY <1>1, <1>2 DEF SmallTypeOK, StoreInvariant, StoreTypeOK, Write
<1>. QED BY <1>7, <1>9, <1>10, PartsNext

LEMMA SaveInvariant ==
  ASSUME StoreInvariant, NEW s \in Sessions, Save(s)
  PROVE  StoreInvariant'
<1>. PICK c : c = call[s]
  OBVIOUS
<1>. PICK f : f = File(c)
  OBVIOUS
<1>. PICK saved : saved = [c.snapshot EXCEPT !.label = NextLabel(c)]
  OBVIOUS
<1>. PICK d : d = AfterSave([c EXCEPT !.snapshot = saved, !.origin = f])
  OBVIOUS
<1>1. /\ c \in Calls /\ Sound(c, known, lossy, registered, begun) /\ f \in Files
      /\ c.access = "save"
  BY AccessFacts DEF Save
<1>2. /\ state' = [state EXCEPT ![f] = saved]
      /\ known' = known \cup {f} /\ registered' = registered
      /\ lossy' = IF Overwrites(c, f) THEN lossy \cup {f} ELSE lossy
      /\ call' = [call EXCEPT ![s] = d]
  BY DEF Save
<1>3. Grows
  BY <1>2 DEF Grows, Save, StoreInvariant, StoreTypeOK
<1>4. Sound(c, known', lossy', registered', begun')
  BY <1>1, <1>3, SoundGrows DEF Grows
<1>5. f \notin lossy' => Own(c.snapshot, f)
  BY <1>2, <1>4 DEF Overwrites, Sound
<1>6. /\ saved \in Contents /\ CoherentIn(saved, known', registered')
      /\ f \notin lossy' => Own(saved, f)
  BY <1>1, <1>4, <1>5, SavedSound DEF Sound
<1>7. state' \in [Files -> Contents] /\ FilesSound'
  BY <1>1, <1>2, <1>3, <1>6, FileStep
<1>8. d \in Calls /\ Sound(d, known', lossy', registered', begun')
  BY <1>1, <1>4, <1>5, AfterSaveSound
<1>9. call' \in [Sessions -> Calls] /\ CallsSound'
  BY <1>2, <1>3, <1>8, CallStep
<1>10. SmallTypeOK'
  BY <1>1, <1>2 DEF SmallTypeOK, StoreInvariant, StoreTypeOK, Save
<1>. QED BY <1>7, <1>9, <1>10, PartsNext

LEMMA DamageInvariant ==
  ASSUME StoreInvariant, NEW f \in Files, Damage(f)
  PROVE  StoreInvariant'
<1>1. Grows /\ f \in known'
  BY DEF Grows, Damage, StoreInvariant, StoreTypeOK
<1>2. state' \in [Files -> Contents] /\ FilesSound'
  BY <1>1, DefaultType, DefaultSound, FileStep DEF Damage
<1>3. call' \in [Sessions -> Calls] /\ CallsSound'
  BY <1>1, CallsStay DEF Damage
<1>4. SmallTypeOK'
  BY DEF SmallTypeOK, StoreInvariant, StoreTypeOK, Damage, Fault
<1>. QED BY <1>2, <1>3, <1>4, PartsNext

LEMMA ResetKillInvariant ==
  ASSUME StoreInvariant, ResetKill
  PROVE  StoreInvariant'
<1>1. Grows
  BY DEF Grows, ResetKill, fileVars, StoreInvariant, StoreTypeOK
<1>2. state' \in [Files -> Contents] /\ FilesSound'
  BY <1>1, FilesStay DEF ResetKill, fileVars
<1>3. call' \in [Sessions -> Calls] /\ CallsSound'
  BY <1>1, CallsStay DEF ResetKill
<1>4. SmallTypeOK'
  BY DEF SmallTypeOK, StoreInvariant, StoreTypeOK, ResetKill, fileVars
<1>. QED BY <1>2, <1>3, <1>4, PartsNext

LEMMA StutterInvariant ==
  ASSUME StoreInvariant, UNCHANGED storeVars
  PROVE  StoreInvariant'
  BY DEF StoreInvariant, StoreTypeOK, storeVars

LEMMA CommandInvariant ==
  ASSUME StoreInvariant, NEW s \in Sessions, StoreCommand(s) \/ Leave(s) \/ Crash(s)
  PROVE  StoreInvariant'
<1>1. CASE \E op \in Commands : \E input \in Inputs(op) : Begin(s, op, input)
  BY <1>1, BeginInvariant
<1>2. CASE Activate(s)
  BY <1>2, ActivateInvariant
<1>3. CASE Access(s)
  BY <1>3, ResolveInvariant, GuardInvariant, LoadInvariant, MutateInvariant, WriteInvariant,
     SaveInvariant DEF Access
<1>4. CASE Leave(s)
  <2>1. faults' \in 0 .. MaxEvents
    BY <1>4 DEF Leave, StoreInvariant, StoreTypeOK
  <2>. QED BY <1>4, <2>1, ReturnInvariant DEF Leave
<1>5. CASE Crash(s)
  <2>1. faults' \in 0 .. MaxEvents
    BY <1>5 DEF Crash, Fault, StoreInvariant, StoreTypeOK
  <2>. QED BY <1>5, <2>1, ReturnInvariant DEF Crash
<1>. QED BY <1>1, <1>2, <1>3, <1>4, <1>5 DEF StoreCommand

LEMMA NextInvariant ==
  ASSUME StoreInvariant, [StoreNext]_storeVars
  PROVE  StoreInvariant'
<1>1. CASE Environment
  BY <1>1, DamageInvariant, ResetKillInvariant DEF Environment
<1>2. CASE \E s \in Sessions : StoreCommand(s) \/ Leave(s) \/ Crash(s)
  BY <1>2, CommandInvariant
<1>3. CASE UNCHANGED storeVars
  BY <1>3, StutterInvariant
<1>. QED BY <1>1, <1>2, <1>3 DEF StoreNext

\* The label of a file in which nothing is lost moves along the graph.
LabelMoves(from, to) ==
  from = to \/ CanTransition(from, to) \/ (to = "IDLE" /\ from # "STOPPED")

LEMMA CommandMoves ==
  ASSUME StoreInvariant, NEW s \in Sessions, Mutate(s) \/ Write(s) \/ Save(s),
         NEW g \in Files \ lossy'
  PROVE  LabelMoves(state[g].label, state'[g].label)
<1>. PICK c : c = call[s]
  OBVIOUS
<1>. PICK f : f = File(c)
  OBVIOUS
<1>1. /\ c \in Calls /\ Sound(c, known, lossy, registered, begun) /\ f \in Files
      /\ state[f] \in Contents /\ state \in [Files -> Contents]
  BY AccessFacts DEF StoreInvariant, StoreTypeOK
<1>2. ASSUME NEW content, state' = [state EXCEPT ![f] = content],
             f \notin lossy' => LabelMoves(state[f].label, content.label)
      PROVE  LabelMoves(state[g].label, state'[g].label)
  <2>1. CASE g = f
    BY <1>1, <1>2, <2>1
  <2>2. CASE g # f
    <3>1. state'[g] = state[g]
      BY <1>1, <1>2, <2>2
    <3>. QED BY <3>1 DEF LabelMoves
  <2>. QED BY <2>1, <2>2
<1>3. CASE Mutate(s)
  <2>1. CASE Legacy(c)
    <3>1. state' = state
      BY <1>3, <2>1 DEF Mutate
    <3>. QED BY <3>1 DEF LabelMoves
  <2>2. CASE ~ Legacy(c)
    <3>1. state' = [state EXCEPT ![f] = Mutated(c, state[f])]
      BY <1>1, <1>3, <2>2 DEF Mutate
    <3>2. LabelMoves(state[f].label, Mutated(c, state[f]).label)
      BY <1>1, MutatedLabel DEF LabelMoves
    <3>. QED BY <1>2, <3>1, <3>2
  <2>. QED BY <2>1, <2>2
<1>4. CASE Write(s)
  <2>1. /\ state' = [state EXCEPT ![f] = Written(c)] /\ c.step = "write"
        /\ f \notin lossy' => state[f] = c.snapshot
    BY <1>4 DEF Write, Written, Overwrites
  <2>2. ASSUME state[f] = c.snapshot
        PROVE  LabelMoves(state[f].label, Written(c).label)
    <3>1. CASE c.access = "load"
      BY <1>1, <2>1, <2>2, <3>1, WrittenSound DEF LabelMoves, Written
    <3>2. CASE c.access # "load"
      BY <1>1, <2>2, <3>2, MutatedLabel DEF LabelMoves, Written
    <3>. QED BY <3>1, <3>2
  <2>. QED BY <1>2, <2>1, <2>2
<1>5. CASE Save(s)
  <2>. PICK saved : saved = [c.snapshot EXCEPT !.label = NextLabel(c)]
    OBVIOUS
  <2>1. /\ state' = [state EXCEPT ![f] = saved] /\ c.access = "save"
        /\ f \notin lossy' => state[f] = c.snapshot
    BY <1>5 DEF Save, Overwrites
  <2>2. LabelFits(c) /\ CoherentIn(c.snapshot, known, registered)
    BY <1>1, <2>1 DEF Sound
  <2>3. saved.label = NextLabel(c)
    BY <1>1, <2>2, SavedSound
  <2>4. LabelMoves(c.snapshot.label, NextLabel(c))
    BY <1>1, <2>2, NextLabelFits DEF LabelMoves
  <2>5. f \notin lossy' => LabelMoves(state[f].label, saved.label)
    BY <2>1, <2>3, <2>4
  <2>. QED BY <1>2, <2>1, <2>5
<1>. QED BY <1>3, <1>4, <1>5

LEMMA LabelStep ==
  ASSUME StoreInvariant, [StoreNext]_storeVars, NEW g \in Files \ lossy'
  PROVE  LabelMoves(state[g].label, state'[g].label)
<1>1. CASE \E s \in Sessions : Mutate(s) \/ Write(s) \/ Save(s)
  BY <1>1, CommandMoves
<1>2. CASE \E f \in Files : Damage(f)
  <2>1. PICK f \in Files : Damage(f)
    BY <1>2
  <2>2. state'[g] = state[g]
    BY <2>1 DEF Damage, StoreInvariant, StoreTypeOK
  <2>. QED BY <2>2 DEF LabelMoves
<1>3. CASE UNCHANGED state
  BY <1>3 DEF LabelMoves
<1>4. \/ \E s \in Sessions : Mutate(s) \/ Write(s) \/ Save(s)
      \/ \E f \in Files : Damage(f)
      \/ UNCHANGED state
  BY DEF StoreNext, StoreCommand, Environment, Access, Begin, Activate, Resolve, Guard, Load,
         Leave, Crash, ResetKill, storeVars, fileVars
<1>. QED BY <1>1, <1>2, <1>3, <1>4

-----------------------------------------------------------------------------
(* What the invariant says                                                 *)

LEMMA InvariantImplies ==
  ASSUME StoreInvariant
  PROVE  StoreTypeOK /\ FileConsistent /\ Isolated
<1>1. ASSUME NEW content, CoherentIn(content, known, registered)
      PROVE  Coherent(content)
  BY <1>1 DEF Coherent, CoherentIn
<1>2. FileConsistent
  BY <1>1 DEF FileConsistent, StoreInvariant, Sound
<1>3. Isolated
  BY DEF Isolated, StoreInvariant, Own
<1>. QED BY <1>2, <1>3 DEF StoreInvariant

\* The store alone keeps its inductive invariant, whatever commands sessions interleave:
\* registrations, switches, reads and saves of storage.py and commands.py.
THEOREM StoreSafety == StoreSpec => []StoreInvariant
<1>1. StoreInit => StoreInvariant
  BY InitInvariant
<1>2. StoreInvariant /\ [StoreNext]_storeVars => StoreInvariant'
  BY NextInvariant
<1>. QED BY <1>1, <1>2, PTL DEF StoreSpec

-----------------------------------------------------------------------------
(* What commands do that come one at a time                                *)

\* The steps at which a command works on state files and the manifest.
Touching == {"activate", "resolve", "guard", "access", "write"}

\* No two commands work on them at a time.
OneCommand ==
  \A s, t \in Sessions : call[s].step \in Touching /\ call[t].step \in Touching => s = t

CleanFiles == \A f \in Files : state[f].registration.project \in {f, NoProject}

\* A command holds a content of the file it has read, and saves or writes that of the
\* project which is active, a, whose file holds what it has read or saved last, k.
CleanCall(c, a, k) ==
  /\ c.snapshot.registration.project \in {c.origin, NoProject}
  /\ c.access = "save" \/ c.step = "write" => c.origin = a /\ c.snapshot = k
  /\ c.step = "guard" => Legacy(c)
  /\ c.step \in {"guard", "access", "write"} /\ Legacy(c) => a = NoProject
  /\ c.step = "access" /\ c.access # "mutate" => c.target = a

CleanInv ==
  /\ CleanFiles
  /\ \A s \in Sessions : call[s].step \in Touching => CleanCall(call[s], active, state[active])

LEMMA InitClean == StoreInit => CleanInv
<1>. SUFFICES ASSUME StoreInit PROVE CleanInv
  OBVIOUS
<1>1. CleanFiles
  BY DEF StoreInit, CleanFiles, Fresh, InUse, Default, None
<1>2. NoCall.step = "idle" /\ \A s \in Sessions : call[s] = NoCall
  BY DEF StoreInit, NoCall
<1>. QED BY <1>1, <1>2 DEF CleanInv, Touching

\* While a command works on the files, the others do not.
LEMMA CleanStep ==
  ASSUME StoreInvariant, CleanInv, OneCommand, CleanFiles', NEW s \in Sessions, NEW d,
         call' = [call EXCEPT ![s] = d],
         call[s].step \in Touching \/ UNCHANGED <<state, active>>,
         d.step \in Touching => CleanCall(d, active', state'[active'])
  PROVE  CleanInv'
<1>1. call'[s] = d /\ \A t \in Sessions \ {s} : call'[t] = call[t]
  BY DEF StoreInvariant, StoreTypeOK
<1>2. ASSUME NEW t \in Sessions, call'[t].step \in Touching
      PROVE  CleanCall(call'[t], active', state'[active'])
  <2>1. CASE t = s
    BY <1>1, <1>2, <2>1
  <2>2. CASE t # s
    <3>1. /\ call'[t] = call[t] /\ call[t].step \in Touching
          /\ CleanCall(call[t], active, state[active])
      BY <1>1, <1>2, <2>2 DEF CleanInv
    <3>2. call[s].step \notin Touching
      BY <2>2, <3>1 DEF OneCommand
    <3>. QED BY <3>1, <3>2
  <2>. QED BY <2>1, <2>2
<1>. QED BY <1>2 DEF CleanInv

LEMMA CleanWrite ==
  ASSUME StoreInvariant, CleanFiles, NEW f \in Files, NEW content,
         state' = [state EXCEPT ![f] = content],
         content.registration.project \in {f, NoProject}
  PROVE  CleanFiles'
<1>1. state'[f] = content /\ \A g \in Files \ {f} : state'[g] = state[g]
  BY DEF StoreInvariant, StoreTypeOK
<1>. QED BY <1>1 DEF CleanFiles

LEMMA MutatedRegistration ==
  ASSUME NEW c, NEW content \in Contents
  PROVE  Mutated(c, content).registration = IF c.op = "register" THEN c.input
                                                                ELSE content.registration
  BY DEF Mutated, Registering, Configuring, Leasing, Contents

\* What follows a load, a mutation or a save goes on with the content it has.
LEMMA CleanAfter ==
  ASSUME NEW c \in Calls, c.snapshot.registration.project \in {c.origin, NoProject}
  PROVE  /\ AfterLoad(c).step \in Touching => CleanCall(AfterLoad(c), c.origin, c.snapshot)
         /\ AfterSave(c).step \in Touching => CleanCall(AfterSave(c), c.origin, c.snapshot)
<1>1. NoCall.step \notin Touching
  BY DEF NoCall, Touching
<1>2. ASSUME NEW access, NEW at PROVE CleanCall(Then(c, access, at), c.origin, c.snapshot)
  BY ThenFields DEF CleanCall
<1>3. Consult(c).step \notin Touching
  BY DEF Consult, Calls, Touching
<1>4. CleanCall(ApproveLease(c), c.origin, c.snapshot)
  <2>. PICK d : d = Then(c, "mutate", 2)
    OBVIOUS
  <2>1. /\ CleanCall(d, c.origin, c.snapshot) /\ d \in Calls
        /\ d.step = "resolve" /\ d.access = "mutate"
    BY <1>2, ThenFields, ThenType
  <2>2. ApproveLease(c) = [d EXCEPT !.input = c.snapshot.registration]
    BY DEF ApproveLease
  <2>. PICK e : e = ApproveLease(c)
    OBVIOUS
  <2>3. /\ e.snapshot = d.snapshot /\ e.origin = d.origin /\ e.step = "resolve"
        /\ e.access = "mutate"
    BY <2>1, <2>2 DEF Calls
  <2>. QED BY <2>1, <2>3 DEF CleanCall
<1>5. ASSUME c.snapshot.registration # None PROVE CleanCall(SaveProfile(c), c.origin, c.snapshot)
  <2>. PICK e : e = SaveProfile(c)
    OBVIOUS
  <2>1. /\ e.snapshot = c.snapshot /\ e.origin = c.origin /\ e.step = "access"
        /\ e.access = "mutate" /\ e.target = c.snapshot.registration.project
    BY DEF SaveProfile, Calls
  <2>2. c.snapshot.registration.project \in Projects
    BY <1>5 DEF Calls, Contents, Registrations
  <2>3. ~ Legacy(e)
    BY <2>1, <2>2, ConstantsAssumption DEF Legacy
  <2>. QED BY <2>1, <2>3 DEF CleanCall
<1>6. AfterLoad(c).step \in Touching => CleanCall(AfterLoad(c), c.origin, c.snapshot)
  BY <1>1, <1>2, <1>3, <1>4, <1>5, AfterLoadCases
<1>7. AfterSave(c).step \in Touching => CleanCall(AfterSave(c), c.origin, c.snapshot)
  BY <1>1, <1>2 DEF AfterSave
<1>. QED BY <1>6, <1>7

\* The file and the call at a step of a command that works on files.
LEMMA CleanFacts ==
  ASSUME StoreInvariant, CleanInv, NEW s \in Sessions, call[s].step \in Touching
  PROVE  /\ call[s] \in Calls /\ Sound(call[s], known, lossy, registered, begun)
         /\ CleanCall(call[s], active, state[active]) /\ CleanFiles
         /\ \A f \in Files : state[f] \in Contents
         /\ active \in Files /\ File(call[s]) \in Files
  BY AccessFacts DEF CleanInv, StoreInvariant, StoreTypeOK

LEMMA BeginClean ==
  ASSUME StoreInvariant, CleanInv, OneCommand, NEW s \in Sessions,
         NEW op \in Commands, NEW input \in Inputs(op), Begin(s, op, input)
  PROVE  CleanInv'
<1>. PICK d : d = [NoCall EXCEPT
       !.op = op, !.input = input, !.at = 1,
       !.number = IF op \in Consumers THEN begun + 1 ELSE 0,
       !.step = IF op \in {"register", "use"} THEN "activate" ELSE "resolve",
       !.access = IF op \in {"register", "lease"} THEN "mutate" ELSE "load"]
  OBVIOUS
<1>1. /\ d.snapshot = Default /\ d.step \in {"activate", "resolve"}
      /\ d.access \in {"mutate", "load"}
  BY DEF NoCall
<1>2. CleanCall(d, active, state[active])
  BY <1>1 DEF CleanCall, Default, None
<1>3. call' = [call EXCEPT ![s] = d] /\ active' = active /\ state' = state
  BY DEF Begin, fileVars
<1>4. CleanFiles'
  BY <1>3 DEF CleanInv, CleanFiles
<1>. QED BY <1>2, <1>3, <1>4, CleanStep

LEMMA ReturnClean ==
  ASSUME StoreInvariant, CleanInv, OneCommand, NEW s \in Sessions, Return(s),
         UNCHANGED <<state, active>>
  PROVE  CleanInv'
<1>1. NoCall.step \notin Touching
  BY DEF NoCall, Touching
<1>2. CleanFiles'
  BY DEF CleanInv, CleanFiles
<1>. QED BY <1>1, <1>2, CleanStep DEF Return

LEMMA ActivateClean ==
  ASSUME StoreInvariant, CleanInv, OneCommand, NEW s \in Sessions, Activate(s)
  PROVE  CleanInv'
<1>. PICK c : c = call[s]
  OBVIOUS
<1>1. c.step = "activate" /\ c.step \in Touching /\ state' = state
  BY DEF Activate, Touching, fileVars
<1>2. /\ c \in Calls /\ Sound(c, known, lossy, registered, begun)
      /\ CleanCall(c, active, state[active]) /\ CleanFiles
  BY <1>1, CleanFacts
<1>3. CASE Return(s) /\ UNCHANGED active
  BY <1>1, <1>3, ReturnClean
<1>4. CASE ~ (Return(s) /\ UNCHANGED active)
  <2>. PICK d : d = [c EXCEPT !.step = IF c.op = "register" THEN "access" ELSE "resolve",
                              !.target = c.input.project]
    OBVIOUS
  <2>1. /\ d.access = c.access /\ d.snapshot = c.snapshot /\ d.origin = c.origin
        /\ d.step = IF c.op = "register" THEN "access" ELSE "resolve"
        /\ d.target = c.input.project
    BY <1>2 DEF Calls
  <2>2. call' = [call EXCEPT ![s] = d]
    BY <1>4 DEF Activate, StoreInvariant, StoreTypeOK
  <2>3. /\ c.op \in {"register", "use"} /\ c.input.project \in Projects
        /\ c.op = "register" => c.access = "mutate"
        /\ c.access # "save"
    BY <1>1, <1>2 DEF Sound, LabelFits
  <2>4. CleanCall(d, active', state'[active'])
    <3>1. ~ Legacy(d)
      BY <2>1, <2>3, ConstantsAssumption DEF Legacy
    <3>. QED BY <1>2, <2>1, <2>3, <3>1 DEF CleanCall
  <2>5. CleanFiles'
    BY <1>1, <1>2 DEF CleanFiles
  <2>. QED BY <1>1, <2>2, <2>4, <2>5, CleanStep
<1>. QED BY <1>3, <1>4

LEMMA ResolveClean ==
  ASSUME StoreInvariant, CleanInv, OneCommand, NEW s \in Sessions, Resolve(s)
  PROVE  CleanInv'
<1>. PICK c : c = call[s]
  OBVIOUS
<1>1. c.step = "resolve" /\ c.step \in Touching /\ state' = state /\ active' = active
  BY DEF Resolve, Touching, fileVars
<1>2. c \in Calls /\ CleanCall(c, active, state[active]) /\ CleanFiles
  BY <1>1, CleanFacts
<1>3. CASE Return(s)
  BY <1>1, <1>3, ReturnClean
<1>4. CASE ~ Return(s)
  <2>. PICK d : d = [c EXCEPT !.target = active,
                              !.step = IF active = NoProject THEN "guard" ELSE "access"]
    OBVIOUS
  <2>1. /\ d.access = c.access /\ d.snapshot = c.snapshot /\ d.origin = c.origin
        /\ d.step = IF active = NoProject THEN "guard" ELSE "access"
        /\ d.target = active
    BY <1>2 DEF Calls
  <2>2. call' = [call EXCEPT ![s] = d]
    BY <1>4 DEF Resolve, StoreInvariant, StoreTypeOK
  <2>3. CleanCall(d, active', state'[active'])
    BY <1>1, <1>2, <2>1 DEF CleanCall, Legacy
  <2>4. CleanFiles'
    BY <1>1, <1>2 DEF CleanFiles
  <2>. QED BY <1>1, <2>2, <2>3, <2>4, CleanStep
<1>. QED BY <1>3, <1>4

LEMMA GuardClean ==
  ASSUME StoreInvariant, CleanInv, OneCommand, NEW s \in Sessions, Guard(s)
  PROVE  CleanInv'
<1>. PICK c : c = call[s]
  OBVIOUS
<1>1. c.step = "guard" /\ c.step \in Touching /\ state' = state /\ active' = active
  BY DEF Guard, Touching, fileVars
<1>2. c \in Calls /\ CleanCall(c, active, state[active]) /\ CleanFiles
  BY <1>1, CleanFacts
<1>. PICK d : d = [c EXCEPT !.guard = active, !.step = "access"]
  OBVIOUS
<1>3. /\ d.access = c.access /\ d.snapshot = c.snapshot /\ d.origin = c.origin
      /\ d.step = "access" /\ d.target = c.target
  BY <1>2 DEF Calls
<1>4. call' = [call EXCEPT ![s] = d]
  BY DEF Guard, StoreInvariant, StoreTypeOK
<1>5. CleanCall(d, active', state'[active'])
  BY <1>1, <1>2, <1>3 DEF CleanCall, Legacy
<1>6. CleanFiles'
  BY <1>1, <1>2 DEF CleanFiles
<1>. QED BY <1>1, <1>4, <1>5, <1>6, CleanStep

LEMMA LoadClean ==
  ASSUME StoreInvariant, CleanInv, OneCommand, NEW s \in Sessions, Load(s)
  PROVE  CleanInv'
<1>. PICK c : c = call[s]
  OBVIOUS
<1>. PICK f : f = File(c)
  OBVIOUS
<1>1. /\ c.step = "access" /\ c.access = "load" /\ c.step \in Touching
      /\ state' = state /\ active' = active
  BY DEF Load, MayAccess, Touching
<1>2. /\ c \in Calls /\ CleanCall(c, active, state[active]) /\ CleanFiles
      /\ f \in Files /\ state[f] \in Contents
  BY <1>1, CleanFacts
<1>3. f = active
  BY <1>1, <1>2 DEF CleanCall, File, Legacy
<1>. PICK r : r = [c EXCEPT !.snapshot = state[f], !.origin = f]
  OBVIOUS
<1>4. /\ r \in Calls /\ r.snapshot = state[f] /\ r.origin = f /\ r.step = "access"
      /\ r.target = c.target /\ r.access = "load"
  BY <1>1, <1>2 DEF Calls
<1>5. r.snapshot.registration.project \in {r.origin, NoProject}
  BY <1>2, <1>4 DEF CleanFiles
<1>6. CleanFiles'
  BY <1>1, <1>2 DEF CleanFiles
<1>7. CASE Legacy(c) /\ f \notin known
  <2>. PICK d : d = [r EXCEPT !.step = "write"]
    OBVIOUS
  <2>1. /\ d.snapshot = r.snapshot /\ d.origin = f /\ d.step = "write" /\ d.access = "load"
        /\ d.target = c.target
    BY <1>4 DEF Calls
  <2>2. call' = [call EXCEPT ![s] = d]
    BY <1>7 DEF Load
  <2>3. CleanCall(d, active', state'[active'])
    BY <1>1, <1>2, <1>3, <1>4, <1>5, <2>1 DEF CleanCall, Legacy
  <2>. QED BY <1>1, <1>6, <2>2, <2>3, CleanStep
<1>8. CASE ~ (Legacy(c) /\ f \notin known)
  <2>1. call' = [call EXCEPT ![s] = AfterLoad(r)]
    BY <1>8 DEF Load
  <2>2. AfterLoad(r).step \in Touching => CleanCall(AfterLoad(r), active', state'[active'])
    <3>1. r.origin = active' /\ r.snapshot = state'[active']
      BY <1>1, <1>3, <1>4
    <3>2. AfterLoad(r).step \in Touching => CleanCall(AfterLoad(r), r.origin, r.snapshot)
      BY <1>4, <1>5, CleanAfter
    <3>. QED BY <3>1, <3>2
  <2>. QED BY <1>1, <1>6, <2>1, <2>2, CleanStep
<1>. QED BY <1>7, <1>8

LEMMA MutateClean ==
  ASSUME StoreInvariant, CleanInv, OneCommand, NEW s \in Sessions, Mutate(s)
  PROVE  CleanInv'
<1>. PICK c : c = call[s]
  OBVIOUS
<1>. PICK f : f = File(c)
  OBVIOUS
<1>1. c.step = "access" /\ c.access = "mutate" /\ c.step \in Touching /\ active' = active
  BY DEF Mutate, MayAccess, Touching
<1>2. /\ c \in Calls /\ Sound(c, known, lossy, registered, begun)
      /\ CleanCall(c, active, state[active]) /\ CleanFiles /\ f \in Files /\ state[f] \in Contents
  BY <1>1, CleanFacts
<1>3. CASE Legacy(c)
  <2>1. f = NoProject /\ active = NoProject
    BY <1>1, <1>2, <1>3 DEF CleanCall, File
  <2>. PICK d : d = [c EXCEPT !.snapshot = state[f], !.origin = f, !.step = "write"]
    OBVIOUS
  <2>2. d.snapshot = state[f] /\ d.origin = f /\ d.step = "write" /\ d.target = c.target
    BY <1>2 DEF Calls
  <2>3. call' = [call EXCEPT ![s] = d] /\ state' = state
    BY <1>3 DEF Mutate, StoreInvariant, StoreTypeOK
  <2>4. CleanCall(d, active', state'[active'])
    BY <1>1, <1>2, <2>1, <2>2, <2>3 DEF CleanCall, CleanFiles
  <2>5. CleanFiles'
    BY <1>2, <2>3 DEF CleanFiles
  <2>. QED BY <1>1, <2>3, <2>4, <2>5, CleanStep
<1>4. CASE ~ Legacy(c)
  <2>1. /\ state' = [state EXCEPT ![f] = Mutated(c, state[f])] /\ f = c.target
        /\ call' = [call EXCEPT ![s] = AfterMutate(c)]
    BY <1>2, <1>4 DEF Mutate, File, StoreInvariant, StoreTypeOK
  <2>2. Mutated(c, state[f]).registration.project \in {f, NoProject}
    <3>1. CASE c.op = "register"
      <4>1. c.target = c.input.project
        BY <1>1, <1>2, <3>1 DEF Sound
      <4>. QED BY <1>2, <2>1, <3>1, <4>1, MutatedRegistration
    <3>2. CASE c.op # "register"
      <4>1. Mutated(c, state[f]).registration = state[f].registration
        BY <1>2, <3>2, MutatedRegistration
      <4>. QED BY <1>2, <4>1 DEF CleanFiles
    <3>. QED BY <3>1, <3>2
  <2>3. CleanFiles'
    BY <1>2, <2>1, <2>2, CleanWrite
  <2>4. AfterMutate(c).step \in Touching => CleanCall(AfterMutate(c), active', state'[active'])
    <3>1. CleanCall(Then(c, "load", 3), active', state'[active'])
      BY <1>1, <1>2, ThenFields DEF CleanCall
    <3>2. NoCall.step \notin Touching
      BY DEF NoCall, Touching
    <3>. QED BY <3>1, <3>2 DEF AfterMutate
  <2>. QED BY <1>1, <2>1, <2>3, <2>4, CleanStep
<1>. QED BY <1>3, <1>4

LEMMA WriteClean ==
  ASSUME StoreInvariant, CleanInv, OneCommand, NEW s \in Sessions, Write(s)
  PROVE  CleanInv'
<1>. PICK c : c = call[s]
  OBVIOUS
<1>. PICK f : f = File(c)
  OBVIOUS
<1>1. /\ c.step = "write" /\ c.step \in Touching /\ active' = active
      /\ state' = [state EXCEPT ![f] = Written(c)]
      /\ call' = [call EXCEPT ![s] = IF c.access = "load" THEN AfterLoad(c)
                                                          ELSE AfterMutate(c)]
  BY DEF Write, Written, Touching
<1>2. /\ c \in Calls /\ Sound(c, known, lossy, registered, begun)
      /\ CleanCall(c, active, state[active]) /\ CleanFiles /\ f \in Files
  BY <1>1, CleanFacts
<1>3. /\ c.origin = active /\ f = active /\ active = NoProject
      /\ c.snapshot.registration.project \in {c.origin, NoProject}
  BY <1>1, <1>2 DEF CleanCall, Sound, File, Legacy
<1>4. Written(c).registration.project \in {f, NoProject}
  <2>1. CASE c.access = "load"
    BY <2>1 DEF Written, Default, None
  <2>2. CASE c.access # "load"
    <3>1. c.op # "register" /\ c.snapshot \in Contents
      BY <1>1, <1>2 DEF Sound, Calls
    <3>2. Written(c).registration = c.snapshot.registration
      BY <2>2, <3>1, MutatedRegistration DEF Written
    <3>. QED BY <1>3, <3>2
  <2>. QED BY <2>1, <2>2
<1>5. CleanFiles'
  BY <1>1, <1>2, <1>4, CleanWrite
<1>6. ASSUME c.access = "load", AfterLoad(c).step \in Touching
      PROVE  CleanCall(AfterLoad(c), active', state'[active'])
  <2>1. c.snapshot = Default
    BY <1>1, <1>2, <1>6 DEF Sound
  <2>2. state'[f] = Default
    BY <1>1, <1>2, <1>6 DEF Written, StoreInvariant, StoreTypeOK
  <2>3. c.origin = active' /\ c.snapshot = state'[active']
    BY <1>1, <1>3, <2>1, <2>2
  <2>. QED BY <1>2, <1>3, <1>6, <2>3, CleanAfter
<1>7. AfterMutate(c).step \in Touching => CleanCall(AfterMutate(c), active', state'[active'])
  <2>1. CleanCall(Then(c, "load", 3), active', state'[active'])
    BY <1>1, <1>2, ThenFields DEF CleanCall
  <2>2. NoCall.step \notin Touching
    BY DEF NoCall, Touching
  <2>. QED BY <2>1, <2>2 DEF AfterMutate
<1>. QED BY <1>1, <1>5, <1>6, <1>7, CleanStep

LEMMA SaveClean ==
  ASSUME StoreInvariant, CleanInv, OneCommand, NEW s \in Sessions, Save(s)
  PROVE  CleanInv'
<1>. PICK c : c = call[s]
  OBVIOUS
<1>. PICK f : f = File(c)
  OBVIOUS
<1>. PICK saved : saved = [c.snapshot EXCEPT !.label = NextLabel(c)]
  OBVIOUS
<1>. PICK r : r = [c EXCEPT !.snapshot = saved, !.origin = f]
  OBVIOUS
<1>1. /\ c.step = "access" /\ c.access = "save" /\ c.step \in Touching /\ active' = active
      /\ state' = [state EXCEPT ![f] = saved] /\ call' = [call EXCEPT ![s] = AfterSave(r)]
  BY DEF Save, MayAccess, Touching
<1>2. /\ c \in Calls /\ Sound(c, known, lossy, registered, begun)
      /\ CleanCall(c, active, state[active]) /\ CleanFiles /\ f \in Files
  BY <1>1, CleanFacts
<1>3. /\ c.origin = active /\ f = active
      /\ c.snapshot.registration.project \in {active, NoProject}
  BY <1>1, <1>2 DEF CleanCall, File, Legacy
<1>4. saved \in Contents /\ saved.registration = c.snapshot.registration
  <2>1. saved \in Contents
    BY <1>1, <1>2, SavedSound DEF Sound
  <2>2. c.snapshot \in Contents
    BY <1>2 DEF Calls
  <2>. QED BY <2>1, <2>2 DEF Contents
<1>5. CleanFiles'
  BY <1>1, <1>2, <1>3, <1>4, CleanWrite
<1>6. r \in Calls /\ r.snapshot = saved /\ r.origin = f
  BY <1>2, <1>4 DEF Calls
<1>7. AfterSave(r).step \in Touching => CleanCall(AfterSave(r), active', state'[active'])
  <2>1. state'[f] = saved
    BY <1>1, <1>2 DEF StoreInvariant, StoreTypeOK
  <2>2. r.origin = active' /\ r.snapshot = state'[active']
    BY <1>1, <1>3, <1>6, <2>1
  <2>3. r.snapshot.registration.project \in {r.origin, NoProject}
    BY <1>3, <1>4, <1>6
  <2>4. AfterSave(r).step \in Touching => CleanCall(AfterSave(r), r.origin, r.snapshot)
    BY <1>6, <2>3, CleanAfter
  <2>. QED BY <2>2, <2>4
<1>. QED BY <1>1, <1>5, <1>7, CleanStep

LEMMA NextClean ==
  ASSUME StoreInvariant, CleanInv, OneCommand, [StoreNext]_storeVars
  PROVE  CleanInv'
<1>1. ASSUME NEW s \in Sessions, StoreCommand(s) PROVE CleanInv'
  BY <1>1, BeginClean, ActivateClean, ResolveClean, GuardClean, LoadClean, MutateClean,
     WriteClean, SaveClean DEF StoreCommand, Access
<1>2. ASSUME NEW s \in Sessions, Leave(s) \/ Crash(s) PROVE CleanInv'
  BY <1>2, ReturnClean DEF Leave, Crash, fileVars
<1>3. ASSUME NEW f \in Files, Damage(f) PROVE CleanInv'
  <2>1. CleanFiles'
    BY <1>3, CleanWrite DEF Damage, Default, None, CleanInv
  <2>2. UNCHANGED <<call, active>>
    BY <1>3 DEF Damage
  <2>3. PICK t \in Sessions : call[t].step = "access" /\ call[t].access # "save"
    BY <1>3 DEF Damage
  <2>4. ASSUME NEW s \in Sessions, call[s].step \in Touching
        PROVE  CleanCall(call[s], active, state'[active])
    <3>1. s = t
      BY <2>3, <2>4 DEF OneCommand, Touching
    <3>. QED BY <2>3, <2>4, <3>1 DEF CleanInv, CleanCall
  <2>. QED BY <2>1, <2>2, <2>4 DEF CleanInv
<1>4. ASSUME ResetKill \/ UNCHANGED storeVars PROVE CleanInv'
  <2>1. UNCHANGED <<state, call, active>>
    BY <1>4 DEF ResetKill, storeVars, fileVars
  <2>. QED BY <2>1 DEF CleanInv, CleanFiles
<1>. QED BY <1>1, <1>2, <1>3, <1>4 DEF StoreNext, Environment

\* Without overlap, a file is overwritten only by who has read it last.
LEMMA LossStep ==
  ASSUME StoreInvariant, CleanInv, [StoreNext]_storeVars, NEW f \in lossy' \ lossy
  PROVE  Damage(f)
<1>1. ASSUME NEW s \in Sessions, Write(s) \/ Save(s) PROVE lossy' = lossy
  <2>. PICK c : c = call[s]
    OBVIOUS
  <2>1. /\ c.step = "write" \/ (c.step = "access" /\ c.access = "save")
        /\ lossy' = IF Overwrites(c, File(c)) THEN lossy \cup {File(c)} ELSE lossy
    <3>1. CASE Write(s)
      BY <3>1 DEF Write
    <3>2. CASE Save(s)
      <4>1. lossy' = IF Overwrites(c, File(c)) THEN lossy \cup {File(c)} ELSE lossy
        BY <3>2, Zenon DEF Save
      <4>2. c.step = "access" /\ c.access = "save"
        BY <3>2, Zenon DEF Save, MayAccess
      <4>. QED BY <4>1, <4>2
    <3>. QED BY <1>1, <3>1, <3>2
  <2>2. CleanCall(c, active, state[active]) /\ Sound(c, known, lossy, registered, begun)
    BY <2>1, CleanFacts DEF Touching
  <2>3. File(c) = active /\ c.origin = active /\ c.snapshot = state[active]
    BY <2>1, <2>2 DEF CleanCall, Sound, File, Legacy
  <2>. QED BY <2>1, <2>3 DEF Overwrites
<1>2. ASSUME NEW g \in Files, Damage(g) PROVE f = g
  BY <1>2 DEF Damage
<1>3. \/ \E s \in Sessions : Write(s) \/ Save(s)
      \/ \E g \in Files : Damage(g)
      \/ UNCHANGED lossy
  BY DEF StoreNext, StoreCommand, Environment, Access, Begin, Activate, Resolve, Guard, Load,
         Mutate, Leave, Crash, ResetKill, storeVars, fileVars
<1>. QED BY <1>1, <1>2, <1>3

\* Commands lose no update: only damage from outside does.
OnlyDamageLoses == [][\A f \in lossy' \ lossy : Damage(f)]_storeVars

\* If no two commands work on state files at a time, no project's file holds the
\* registration of another, and no command overwrites what it has not read: load, save
\* and mutate of storage.py look up the active project for each access, and only another
\* command changes it, or the file, in between.
THEOREM StoreOneByOne == StoreSpec /\ []OneCommand => []NoContamination /\ OnlyDamageLoses
<1>1. StoreInvariant /\ CleanInv /\ OneCommand /\ [StoreNext]_storeVars => CleanInv'
  BY NextClean
<1>2. CleanInv => NoContamination
  BY DEF CleanInv, CleanFiles, NoContamination, Files
<1>3. StoreInvariant /\ CleanInv /\ [StoreNext]_storeVars =>
        [\A f \in lossy' \ lossy : Damage(f)]_storeVars
  BY LossStep
<1>. QED BY <1>1, <1>2, <1>3, InitClean, StoreSafety, PTL DEF StoreSpec, OnlyDamageLoses
=============================================================================
