--------------------------- MODULE CheckpointCommit ---------------------------
(***************************************************************************)
(* The manual checkpoint of an accepted loop: `loop checkpoint` stores an  *)
(* immutable archive of the changed files, `loop authorize-commit` a       *)
(* one-time authorization for it, `loop commit` commits the worktree.      *)
(* Sessions run these commands at any time, each on the loop record it     *)
(* read when it started; no lock spans a command.                          *)
(*                                                                         *)
(* A version of a file is a model of its bytes; "none" stands for no file. *)
(* Git status compares HEAD, index and worktree path by path.              *)
(*                                                                         *)
(* Around them: a human edits the worktree and the original workspace, the *)
(* authorization expires, and the reconciler promotes the worktree (as it  *)
(* does whenever something makes it look at the accepted loop again).      *)
(***************************************************************************)
EXTENDS Integers

CONSTANTS
  Paths,      \* paths of the worktree, as numbers in their sorted order
  Evidence,   \* changed paths the verifier's evidence lists
  Sessions,
  MaxEdits,   \* bound: edits of a human
  MaxFaults,  \* bound: failed calls and crashes
  RaceEdits   \* whether humans edit the worktree in the course of a commit

ASSUME ConstantsAssumption ==
  /\ Paths \subseteq Nat /\ Evidence \subseteq Paths
  /\ MaxEdits \in Nat /\ MaxFaults \in Nat /\ RaceEdits \in BOOLEAN

VARIABLES
  loop,         \* fields of the loop record the commands use
  archive,      \* digests in the checkpoint archive of the result, or NoDigests
  permit,       \* the authorization file, or NoPermit
  head, index, tree,    \* version of every path in the Development worktree
  sourceIntact, \* the original workspace has its status of dispatch
  call,         \* local state of the command each session runs
  edits, faults

gitVars == <<head, index, tree>>
envVars == <<sourceIntact, edits, faults>>
vars == <<loop, archive, permit, gitVars, call, envVars>>

-----------------------------------------------------------------------------
Versions == {"none", "base", "new"}

\* Both codes of git status --porcelain, path by path; "unchanged" in
\* both is a path that status does not list.
Code(old, new) ==
  IF old = new THEN "unchanged"
  ELSE IF old = "none" THEN "added" ELSE IF new = "none" THEN "deleted"
  ELSE "modified"
Status == [p \in Paths |-> <<Code(head[p], index[p]), Code(index[p], tree[p])>>]
ChangedPaths(status) == {p \in Paths : status[p] # <<"unchanged", "unchanged">>}

\* What is fed to a hash: for every path its version ("none": that it is deleted),
\* after which other paths.  No two contents, and no two orders, share a digest.
\* create hashes all files in the order of their paths, then all deletions, and the
\* archive is checked against its manifest in the same order.
ArchiveDigest ==
  [p \in Evidence |-> [version |-> tree[p], after |-> {q \in Evidence :
     IF tree[q] = "none" <=> tree[p] = "none" THEN q < p ELSE tree[p] = "none"}]]

\* Mutant: deleted paths are not hashed.
LiveDigestFiles ==
  [p \in Evidence |-> [version |-> tree[p],
     after |-> {q \in Evidence : q < p /\ tree[q] # "none"}]]

\* _current_content_digest hashes the paths in their order.
LiveDigest ==
  [p \in Evidence |-> [version |-> tree[p], after |-> {q \in Evidence : q < p}]]

NoDigests == [status |-> <<>>, content |-> <<>>]
NoPermit == [digests |-> NoDigests, fresh |-> FALSE, used |-> FALSE]
NoCall == [step |-> "idle", op |-> "none", status |-> "", bound |-> NoDigests,
           permitted |-> FALSE, digests |-> NoDigests, permit |-> NoPermit,
           revision |-> <<>>]

\* The loop was accepted before its worktree was promoted: the reconciler
\* writes the status that acceptance asks for before it commits.
Init ==
  /\ loop = [status |-> "ACCEPTED", bound |-> NoDigests, permitted |-> FALSE,
             revision |-> <<>>]
  /\ archive = NoDigests /\ permit = NoPermit
  /\ head \in [Paths -> {"none", "base"}]
  /\ index = head
  /\ tree \in [Paths -> Versions]
  /\ \A p \in Paths : tree[p] = "base" <=> p \notin Evidence
  /\ ChangedPaths(Status) = Evidence
  /\ sourceIntact = TRUE
  /\ call = [s \in Sessions |-> NoCall]
  /\ edits = 0 /\ faults = 0

-----------------------------------------------------------------------------
Goto(s, step) == call' = [call EXCEPT ![s].step = step]
Return(s) == call' = [call EXCEPT ![s] = NoCall]

\* The command reads the loop record once.
Start(s, op) ==
  /\ call[s].step = "idle"
  /\ call' = [call EXCEPT ![s] =
       [NoCall EXCEPT !.step = "inspect", !.op = op, !.status = loop.status,
                      !.bound = loop.bound, !.permitted = loop.permitted]]
  /\ UNCHANGED <<loop, archive, permit, gitVars, envVars>>

\* _validate_bound_state: accepted loop, original workspace untouched, and
\* exactly the paths of the evidence changed in the worktree.
Inspect(s) ==
  /\ call[s].step = "inspect"
  /\ IF /\ call[s].status = "ACCEPTED" /\ sourceIntact
        /\ ChangedPaths(Status) = Evidence
       THEN call' = [call EXCEPT ![s] =
              [@ EXCEPT !.step = "hash", !.status = "", !.digests.status = Status]]
       ELSE Return(s)
  /\ UNCHANGED <<loop, archive, permit, gitVars, envVars>>

\* The record is written with whatever the call found; the status is not
\* looked at again.
Mark(s, status, field, value) ==
  /\ loop' = [loop EXCEPT !.status = status, ![field] = value]
  /\ Return(s)

-----------------------------------------------------------------------------
(* create                                                                  *)

\* The files are read once, for the digest and for the archive.  If there is
\* an archive already, it must be the one that would be written now.
HashForCheckpoint(s) ==
  LET digests == [call[s].digests EXCEPT !.content = ArchiveDigest] IN
  /\ call[s].step = "hash" /\ call[s].op = "checkpoint"
  /\ IF archive \in {NoDigests, digests}
       THEN call' = [call EXCEPT ![s] = [@ EXCEPT !.digests = digests,
              !.step = IF archive = NoDigests THEN "store" ELSE "bindCheckpoint"]]
       ELSE Return(s)
  /\ UNCHANGED <<loop, archive, permit, gitVars, envVars>>

\* os.replace: an archive another call stored meanwhile is replaced.
StoreArchive(s) ==
  /\ call[s].step = "store"
  /\ archive' = call[s].digests
  /\ Goto(s, "bindCheckpoint")
  /\ UNCHANGED <<loop, permit, gitVars, envVars>>

\* Mutant: the checkpoint gets a status of its own.
BindCheckpointed(s) ==
  /\ call[s].step = "bindCheckpoint"
  /\ Mark(s, "CHECKPOINTED", "bound", call[s].digests)
  /\ UNCHANGED <<archive, permit, gitVars, envVars>>

BindCheckpoint(s) ==
  /\ call[s].step = "bindCheckpoint"
  /\ Mark(s, "ACCEPTED", "bound", call[s].digests)
  /\ UNCHANGED <<archive, permit, gitVars, envVars>>

-----------------------------------------------------------------------------
(* authorize_commit and commit                                             *)

\* Mutant: only git status is compared with the checkpoint.
UnchangedPaths(c) ==
  archive = c.bound /\ archive # NoDigests /\ c.digests.status = archive.status

\* The archive is the one bound to the loop, and the worktree has its paths
\* and contents.
UnchangedSince(c) ==
  /\ archive = c.bound /\ archive # NoDigests
  /\ c.digests.status = archive.status
  /\ LiveDigest = archive.content

Compare(s) ==
  /\ call[s].step = "hash" /\ call[s].op \in {"authorize", "commit"}
  /\ IF UnchangedSince(call[s])
       THEN call' = [call EXCEPT ![s] = [@ EXCEPT !.digests.content = LiveDigest,
              !.step = IF call[s].op = "commit" THEN "readPermit" ELSE "permit"]]
       ELSE Return(s)
  /\ UNCHANGED <<loop, archive, permit, gitVars, envVars>>

WritePermit(s) ==
  /\ call[s].step = "permit"
  /\ permit' = [digests |-> call[s].digests, fresh |-> TRUE, used |-> FALSE]
  /\ Goto(s, "bindPermit")
  /\ UNCHANGED <<loop, archive, gitVars, envVars>>

BindPermit(s) ==
  /\ call[s].step = "bindPermit"
  /\ Mark(s, "ACCEPTED", "permitted", TRUE)
  /\ UNCHANGED <<archive, permit, gitVars, envVars>>

\* The authorization the record names: unused, in time, for these contents.
ReadPermit(s) ==
  /\ call[s].step = "readPermit"
  /\ IF /\ call[s].permitted /\ permit.fresh /\ ~ permit.used
        /\ permit.digests = call[s].digests
       THEN call' = [call EXCEPT ![s] = [@ EXCEPT !.step = "add", !.permit = permit]]
       ELSE Return(s)
  /\ UNCHANGED <<loop, archive, permit, gitVars, envVars>>

\* git add --all: whatever the worktree holds by now.
GitAdd(s) ==
  /\ call[s].step = "add"
  /\ index' = tree
  /\ Goto(s, "commit")
  /\ UNCHANGED <<loop, archive, permit, head, tree, envVars>>

\* git commit fails when nothing is staged.
GitCommit(s) ==
  /\ call[s].step = "commit"
  /\ head' = index
  /\ IF index = head THEN Return(s) ELSE Goto(s, "resolve")
  /\ UNCHANGED <<loop, archive, permit, index, tree, envVars>>

ResolveHead(s) ==
  /\ call[s].step = "resolve"
  /\ call' = [call EXCEPT ![s] = [@ EXCEPT !.step = "use", !.revision = head]]
  /\ UNCHANGED <<loop, archive, permit, gitVars, envVars>>

\* The authorization that was read is written back as used, in place of any
\* that was given since.
UsePermit(s) ==
  /\ call[s].step = "use"
  /\ permit' = [call[s].permit EXCEPT !.used = TRUE]
  /\ Goto(s, "bindRevision")
  /\ UNCHANGED <<loop, archive, gitVars, envVars>>

BindRevision(s) ==
  /\ call[s].step = "bindRevision"
  /\ Mark(s, "ACCEPTED", "revision", call[s].revision)
  /\ UNCHANGED <<archive, permit, gitVars, envVars>>

\* A failed call or a crash ends the command where it is; git may have
\* committed all the same.
Fail(s) ==
  /\ call[s].step # "idle"
  /\ faults < MaxFaults /\ faults' = faults + 1
  /\ Return(s)
  /\ head' \in {head} \cup (IF call[s].step = "commit" THEN {index} ELSE {})
  /\ UNCHANGED <<loop, archive, permit, index, tree, sourceIntact, edits>>

-----------------------------------------------------------------------------
(* Humans, the clock and the reconciler.                                   *)

\* A commit command is past its first look at the worktree.
Committing ==
  \E s \in Sessions : /\ call[s].op = "commit"
                      /\ call[s].step \in {"hash", "readPermit", "add", "commit"}

Edit(p) ==
  /\ edits < MaxEdits /\ (RaceEdits \/ ~ Committing)
  /\ \E v \in Versions \ {tree[p]} : tree' = [tree EXCEPT ![p] = v]
  /\ edits' = edits + 1
  /\ UNCHANGED <<loop, archive, permit, head, index, call, sourceIntact, faults>>

EditSource ==
  /\ edits < MaxEdits /\ sourceIntact
  /\ sourceIntact' = FALSE /\ edits' = edits + 1
  /\ UNCHANGED <<loop, archive, permit, gitVars, call, faults>>

Expire ==
  /\ permit.fresh
  /\ permit' = [permit EXCEPT !.fresh = FALSE]
  /\ UNCHANGED <<loop, archive, gitVars, call, envVars>>

\* There is something to commit, or a clean worktree of a loop that has a
\* revision is looked at again.
Promotable ==
  tree # head \/ (ChangedPaths(Status) = {} /\ loop.revision # <<>>)

\* sync of a loop that is not known as promoted: it commits all changes, and
\* binds HEAD as the revision; it asks for a human if another revision is
\* bound or there is nothing to promote (git add --all has run all the same
\* if anything is staged).
Promote ==
  /\ loop.status # "AWAITING_HUMAN_ACCEPTANCE" \/ loop.revision = <<>>
  /\ index' = tree /\ head' = tree
  /\ loop' = [loop EXCEPT !.revision = IF Promotable THEN tree ELSE @,
                !.status = IF Promotable /\ loop.revision \in {<<>>, tree}
                             THEN "AWAITING_HUMAN_ACCEPTANCE" ELSE "NEEDS_HUMAN"]
  /\ UNCHANGED <<archive, permit, tree, call, envVars>>

Accept ==
  /\ loop.status = "AWAITING_HUMAN_ACCEPTANCE"
  /\ loop' = [loop EXCEPT !.status = "ACCEPTED"]
  /\ UNCHANGED <<archive, permit, gitVars, call, envVars>>

-----------------------------------------------------------------------------
Command(s) ==
  \/ \E op \in {"checkpoint", "authorize", "commit"} : Start(s, op)
  \/ Inspect(s) \/ Fail(s)
  \/ HashForCheckpoint(s) \/ StoreArchive(s) \/ BindCheckpoint(s)
  \/ Compare(s) \/ WritePermit(s) \/ BindPermit(s)
  \/ ReadPermit(s) \/ GitAdd(s) \/ GitCommit(s) \/ ResolveHead(s)
  \/ UsePermit(s) \/ BindRevision(s)

Environment ==
  \/ \E p \in Paths : Edit(p)
  \/ EditSource \/ Expire \/ Promote \/ Accept

Next == (\E s \in Sessions : Command(s)) \/ Environment

Spec == Init /\ [][Next]_vars

-----------------------------------------------------------------------------
(* Properties.                                                             *)

Snapshots == [Paths -> Versions]
Codes == {"unchanged", "added", "deleted", "modified"}
Digests ==
  [status : {<<>>} \cup [Paths -> Codes \X Codes],
   content : {<<>>} \cup [Evidence -> [version : Versions, after : SUBSET Evidence]]]
Permits == [digests : Digests, fresh : BOOLEAN, used : BOOLEAN]
LoopStatuses == {"ACCEPTED", "AWAITING_HUMAN_ACCEPTANCE", "NEEDS_HUMAN"}

\* Every variable has its type; a digest covers exactly the paths of the
\* evidence.
TypeOK ==
  /\ loop \in [status : LoopStatuses, bound : Digests, permitted : BOOLEAN,
               revision : {<<>>} \cup Snapshots]
  /\ archive \in Digests /\ permit \in Permits
  /\ head \in Snapshots /\ index \in Snapshots /\ tree \in Snapshots
  /\ sourceIntact \in BOOLEAN
  /\ call \in [Sessions ->
       [step : {"idle", "inspect", "hash", "store", "bindCheckpoint", "permit", "bindPermit",
                "readPermit", "add", "commit", "resolve", "use", "bindRevision"},
        op : {"none", "checkpoint", "authorize", "commit"},
        status : LoopStatuses \cup {""}, bound : Digests, permitted : BOOLEAN,
        digests : Digests, permit : Permits, revision : {<<>>} \cup Snapshots]]
  /\ edits \in 0 .. MaxEdits /\ faults \in 0 .. MaxFaults

\* `loop commit` commits the files of the checkpoint it was started for, and
\* leaves every other path as it was: over crashed and concurrent commands,
\* renewed and expired authorizations, replaced archives, edits before the
\* command and commits of the reconciler in the course of it.
CommitMatchesCheckpoint ==
  [][\A s \in Sessions :
       call[s].step = "commit" /\ head' # head =>
         /\ \A p \in Evidence : head'[p] = call[s].bound.content[p].version
         /\ \A p \in Paths \ Evidence : head'[p] = head[p]]_vars

\* Deletions sort after every path that is left.
DeletionsLast == \A p, q \in Evidence : tree[p] = "none" /\ tree[q] # "none" => q < p

\* While the worktree holds the archived files, authorize-commit computes the
\* digest of the checkpoint if and only if every deleted path sorts after every
\* remaining one, whatever was edited in between: the order is all that the two
\* ways of hashing differ in.  Where it fails an unchanged worktree is refused.
DigestDependsOnOrder ==
  archive # NoDigests /\ (\A p \in Evidence : archive.content[p].version = tree[p])
    => (archive.content = LiveDigest <=> DeletionsLast)
=============================================================================
