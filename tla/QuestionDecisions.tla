-------------------------- MODULE QuestionDecisions --------------------------
(***************************************************************************)
(* The structured decisions of a Development (or remediation) worker: the  *)
(* tool autopilot_decide in the worker process, `/autopilot loop answer`   *)
(* in the sessions of the humans, and the two files they share, the        *)
(* decision artifact of a question and the loop record.                    *)
(*                                                                         *)
(* The loop lock makes each of record, stage and finalize atomic against   *)
(* the others, but not against a crash: record and finalize write the      *)
(* decision artifact first and the loop record second.                     *)
(*                                                                         *)
(* The reconciler appears with what it does to this protocol: it writes    *)
(* the status it has read from the card some time before, and it cancels.  *)
(***************************************************************************)
EXTENDS Naturals, Sequences

CONSTANTS
  Questions,   \* question ids
  Contents,    \* what a worker may ask: a recommended choice (or None) and
               \* the sequence of choices it presents
  Answers,     \* texts a human may answer
  Humans,      \* sessions in which `loop answer` runs
  Choices,     \* everything a worker can be given, and None
  None,
  MaxFaults    \* bound: failed calls, lost replies and crashes of a run

ASSUME ConstantsAssumption ==
  /\ MaxFaults \in Nat
  /\ None \in Choices /\ None \notin Questions
  /\ Answers \subseteq Choices \ {None}
  /\ Contents \subseteq [recommended : Choices, choices : Seq(Choices \ {None})]

VARIABLES
  loop,        \* status and pending decision of the loop record
  decision,    \* the decision artifact of every question
  task,        \* Kanban status of the worker's card
  waiting,     \* question named in the reason the card is blocked for, or None
  ask,         \* the worker's call of autopilot_decide
  told,        \* choices the workers of the card were given, per question
  answering,   \* local state of `loop answer` in every session
  sync,        \* status a reconciler has read and is going to write, or None
  cancel,      \* local state of a cancellation
  faults       \* faults so far

workerVars == <<ask, told>>
cardVars   == <<task, waiting>>
otherVars  == <<sync, cancel>>
vars == <<loop, decision, cardVars, workerVars, answering, otherVars, faults>>

-----------------------------------------------------------------------------
NoContent == [recommended |-> None, choices |-> <<>>]
NoDecision == [status |-> "absent", content |-> NoContent, answer |-> None]
NotAsking == [step |-> "idle", question |-> None, content |-> NoContent]
NotAnswering == [step |-> "idle", question |-> None, text |-> None]

Statuses == {"QUEUED", "RUNNING", "VERIFYING", "NEEDS_HUMAN",
             "CANCEL_REQUESTED", "CANCELED"}
ActiveStatuses == {"QUEUED", "RUNNING", "VERIFYING", "NEEDS_HUMAN"}

\* The recommended choice, or else the first one presented.
Suggested(content) ==
  IF content.recommended # None THEN content.recommended
  ELSE IF content.choices # <<>> THEN Head(content.choices) ELSE None

Presented(content) == {content.choices[i] : i \in DOMAIN content.choices}

\* decide_question: every question with a usable suggestion answers itself,
\* whatever its category.
SelfAnswering(content) ==
  /\ Suggested(content) # None
  /\ content.choices = <<>> \/ Suggested(content) \in Presented(content)

NewDecision(content) ==
  [status |-> IF SelfAnswering(content) THEN "auto_answered" ELSE "awaiting_human",
   content |-> content, answer |-> None]

Init ==
  /\ loop = [status |-> "QUEUED", pending |-> None]
  /\ decision = [q \in Questions |-> NoDecision]
  /\ task = "todo" /\ waiting = None
  /\ ask = NotAsking
  /\ told = [q \in Questions |-> {}]
  /\ answering = [h \in Humans |-> NotAnswering]
  /\ sync = None /\ cancel = "idle"
  /\ faults = 0

Fault == faults < MaxFaults /\ faults' = faults + 1

-----------------------------------------------------------------------------
(* The worker and its decision tool (WorkerDecisionHandler.handle).        *)

Claim ==
  /\ task = "todo"
  /\ task' = "running"
  /\ UNCHANGED <<loop, decision, waiting, workerVars, answering, otherVars, faults>>

\* The tool hook lets the call pass; the binding of the task is read.
Ask(q, content) ==
  /\ task = "running" /\ ask.step = "idle"
  /\ loop.status \in ActiveStatuses
  /\ ask' = [step |-> "record", question |-> q, content |-> content]
  /\ UNCHANGED <<loop, decision, cardVars, told, answering, otherVars, faults>>

\* Mutant: a staged answer is given to the worker already.
ReplyStaged(q, entry) ==
  IF entry.status \in {"answer_staged", "answered"}
    THEN told' = [told EXCEPT ![q] = @ \cup {entry.answer}] /\ ask' = NotAsking
  ELSE IF SelfAnswering(ask.content)
    THEN told' = [told EXCEPT ![q] = @ \cup {Suggested(ask.content)}] /\ ask' = NotAsking
  ELSE told' = told /\ ask' = [ask EXCEPT !.step = "pause"]

\* What the worker is given for the artifact that recording returned.
Reply(q, entry) ==
  IF entry.status = "answered"
    THEN told' = [told EXCEPT ![q] = @ \cup {entry.answer}] /\ ask' = NotAsking
  ELSE IF SelfAnswering(ask.content)
    THEN told' = [told EXCEPT ![q] = @ \cup {Suggested(ask.content)}] /\ ask' = NotAsking
  ELSE told' = told /\ ask' = [ask EXCEPT !.step = "pause"]

\* record_question_decision of a new question.
RecordNew ==
  LET q == ask.question
      entry == NewDecision(ask.content) IN
  /\ ask.step = "record" /\ decision[q].status = "absent"
  /\ decision' = [decision EXCEPT ![q] = entry]
  /\ loop' = IF entry.status = "awaiting_human"
               THEN [status |-> "NEEDS_HUMAN", pending |-> q] ELSE loop
  /\ Reply(q, entry)
  /\ UNCHANGED <<cardVars, answering, otherVars, faults>>

\* A replay returns the artifact as it is by now, and writes nothing.
RecordReplay ==
  LET q == ask.question IN
  /\ ask.step = "record" /\ decision[q].status # "absent"
  /\ decision[q].content = ask.content
  /\ Reply(q, decision[q])
  /\ UNCHANGED <<loop, decision, cardVars, answering, otherVars, faults>>

\* The same id with another content conflicts with the immutable artifact.
RecordConflict ==
  /\ ask.step = "record" /\ decision[ask.question].status # "absent"
  /\ decision[ask.question].content # ask.content
  /\ ask' = NotAsking
  /\ UNCHANGED <<loop, decision, cardVars, told, answering, otherVars, faults>>

\* kanban_block with kind needs_input; refused for a card not running.
PauseTask ==
  /\ ask.step = "pause"
  /\ IF task = "running"
       THEN task' = "blocked" /\ waiting' = ask.question
       ELSE UNCHANGED cardVars
  /\ ask' = NotAsking
  /\ UNCHANGED <<loop, decision, told, answering, otherVars, faults>>

\* Blocking was not confirmed: the tool reports it and the worker goes on.
PauseFails ==
  /\ ask.step = "pause" /\ Fault
  /\ ask' = NotAsking
  /\ UNCHANGED <<loop, decision, cardVars, told, answering, otherVars>>

FinishTask ==
  /\ task = "running" /\ ask.step = "idle"
  /\ loop.status \in ActiveStatuses
  /\ task' = "done"
  /\ UNCHANGED <<loop, decision, waiting, workerVars, answering, otherVars, faults>>

\* The worker dies: the card is retried or, with no retry left, blocked.
\* Amid the recording of a new question only the first of its two writes is
\* done.
WorkerDies ==
  /\ task = "running" /\ Fault
  /\ task' \in {"todo", "blocked"}
  /\ ask' = NotAsking
  /\ \/ decision' = decision
     \/ /\ ask.step = "record" /\ decision[ask.question].status = "absent"
        /\ decision' = [decision EXCEPT ![ask.question] = NewDecision(ask.content)]
  /\ UNCHANGED <<loop, waiting, told, answering, otherVars>>

-----------------------------------------------------------------------------
(* `/autopilot loop answer <loop> <question> <answer>`.                    *)

StartAnswer(h, q, text) ==
  answering' = [answering EXCEPT ![h] =
                  [step |-> "unblock", question |-> q, text |-> text]]

\* Mutant: a later answer replaces the staged one.
StageOver(h, q, text) ==
  /\ answering[h].step \in {"idle", "acknowledged"}
  /\ loop.pending = q
  /\ decision[q].status \in {"awaiting_human", "answer_staged"}
  /\ decision' = [decision EXCEPT ![q].status = "answer_staged", ![q].answer = text]
  /\ StartAnswer(h, q, text)
  /\ UNCHANGED <<loop, cardVars, workerVars, otherVars, faults>>

\* stage_question_answer: for the pending question, and a different answer
\* is refused once one is staged.
Stage(h, q, text) ==
  /\ answering[h].step \in {"idle", "acknowledged"}
  /\ loop.pending = q
  /\ \/ decision[q].status = "awaiting_human"
     \/ decision[q].status = "answer_staged" /\ decision[q].answer = text
  /\ decision' = [decision EXCEPT ![q].status = "answer_staged", ![q].answer = text]
  /\ StartAnswer(h, q, text)
  /\ UNCHANGED <<loop, cardVars, workerVars, otherVars, faults>>

\* Kanban unblock fails for a card that is not blocked: "retry the command".
Unblock(h) ==
  /\ answering[h].step = "unblock"
  /\ IF task = "blocked"
       THEN /\ task' = "todo" /\ waiting' = None
            /\ answering' = [answering EXCEPT ![h].step = "finalize"]
       ELSE /\ answering' = [answering EXCEPT ![h] = NotAnswering]
            /\ UNCHANGED cardVars
  /\ UNCHANGED <<loop, decision, workerVars, otherVars, faults>>

Finalizable(q) == loop.pending = q /\ decision[q].status = "answer_staged"

\* finalize_question_answer: only what is pending and staged.
Finalize(h) ==
  LET q == answering[h].question IN
  /\ answering[h].step = "finalize"
  /\ IF Finalizable(q)
       THEN /\ decision' = [decision EXCEPT ![q].status = "answered"]
            /\ loop' = [status |-> "QUEUED", pending |-> None]
            /\ answering' = [answering EXCEPT ![h].step = "acknowledged"]
       ELSE /\ answering' = [answering EXCEPT ![h] = NotAnswering]
            /\ UNCHANGED <<loop, decision>>
  /\ UNCHANGED <<cardVars, workerVars, otherVars, faults>>

\* The session dies or the command line fails; an unblock whose reply is
\* lost has released the card; amid finalize only the first write is done.
AnswerFails(h) ==
  LET q == answering[h].question IN
  /\ answering[h].step \in {"unblock", "finalize"} /\ Fault
  /\ answering' = [answering EXCEPT ![h] = NotAnswering]
  /\ \/ UNCHANGED <<decision, cardVars>>
     \/ /\ answering[h].step = "unblock" /\ task = "blocked"
        /\ task' = "todo" /\ waiting' = None
        /\ UNCHANGED decision
     \/ /\ answering[h].step = "finalize" /\ Finalizable(q)
        /\ decision' = [decision EXCEPT ![q].status = "answered"]
        /\ UNCHANGED cardVars
  /\ UNCHANGED <<loop, workerVars, otherVars>>

-----------------------------------------------------------------------------
(* The reconciler, as far as it touches the record and the card.           *)

\* Mutant: the Kanban status is stored as it is.
StatusRaw == task

StatusOfCard ==
  CASE task = "blocked" -> "NEEDS_HUMAN"
    [] task = "running" -> "RUNNING"
    [] task = "done" -> "VERIFYING"
    [] OTHER -> "QUEUED"

SyncRead ==
  /\ sync = None
  /\ sync' = StatusOfCard
  /\ UNCHANGED <<loop, decision, cardVars, workerVars, answering, cancel, faults>>

SyncWrite ==
  /\ sync # None
  /\ loop' = [loop EXCEPT !.status = sync]
  /\ sync' = None
  /\ UNCHANGED <<decision, cardVars, workerVars, answering, cancel, faults>>

RequestCancel ==
  /\ cancel = "idle" /\ loop.status # "CANCELED"
  /\ loop' = [loop EXCEPT !.status = "CANCEL_REQUESTED"]
  /\ cancel' = "show"
  /\ UNCHANGED <<decision, cardVars, workerVars, answering, sync, faults>>

CancelTask ==
  /\ cancel = "show"
  /\ cancel' = CASE task = "running" -> "reclaim"
                 [] task = "todo" -> "block"
                 [] OTHER -> "confirm"
  /\ UNCHANGED <<loop, decision, cardVars, workerVars, answering, sync, faults>>

\* Kanban reclaim ends the worker (between two writes: WorkerDies).  Of a
\* card that is not running any more it reports failure: the card is blocked
\* anyway, and CANCELED not written.
ReclaimTask ==
  /\ cancel = "reclaim"
  /\ IF task = "running"
       THEN task' = "todo" /\ ask' = NotAsking /\ cancel' = "block"
       ELSE UNCHANGED <<task, ask>> /\ cancel' = "blockAnyway"
  /\ UNCHANGED <<loop, decision, waiting, told, answering, sync, faults>>

\* Kanban block, which fails for a card that is not open.  A worker that has
\* claimed it meanwhile is not reclaimed: its call goes on.
BlockTask ==
  /\ cancel \in {"block", "blockAnyway"}
  /\ IF task \in {"todo", "running"}
       THEN /\ task' = "blocked" /\ waiting' = None
            /\ cancel' = IF cancel = "block" THEN "confirm" ELSE "idle"
       ELSE UNCHANGED cardVars /\ cancel' = "idle"
  /\ UNCHANGED <<loop, decision, workerVars, answering, sync, faults>>

\* A failed show or block leaves the loop at CANCEL_REQUESTED, and so does a
\* failed reclaim, after which the card is blocked all the same.
CancelFails ==
  /\ cancel \in {"show", "reclaim", "block", "blockAnyway"} /\ Fault
  /\ cancel' = IF cancel = "reclaim" THEN "blockAnyway" ELSE "idle"
  /\ UNCHANGED <<loop, decision, cardVars, workerVars, answering, sync>>

ConfirmCancel ==
  /\ cancel = "confirm"
  /\ loop' = [loop EXCEPT !.status = "CANCELED"]
  /\ cancel' = "idle"
  /\ UNCHANGED <<decision, cardVars, workerVars, answering, sync, faults>>

-----------------------------------------------------------------------------
Worker ==
  \/ Claim \/ FinishTask \/ WorkerDies
  \/ \E q \in Questions, content \in Contents : Ask(q, content)
  \/ RecordNew \/ RecordReplay \/ RecordConflict \/ PauseTask \/ PauseFails

Answer(h) ==
  \/ \E q \in Questions, text \in Answers : Stage(h, q, text)
  \/ Unblock(h) \/ Finalize(h) \/ AnswerFails(h)

Reconciler ==
  \/ SyncRead \/ SyncWrite
  \/ RequestCancel \/ CancelTask \/ ReclaimTask \/ BlockTask \/ CancelFails
  \/ ConfirmCancel

Next == Worker \/ (\E h \in Humans : Answer(h)) \/ Reconciler

Spec == Init /\ [][Next]_vars

-----------------------------------------------------------------------------
(* Properties.                                                             *)

\* Every variable has its type; a stored content was asked by a worker.
TypeOK ==
  /\ loop \in [status : Statuses, pending : Questions \cup {None}]
  /\ decision \in [Questions ->
       [status : {"absent", "auto_answered", "awaiting_human", "answer_staged",
                  "answered"},
        content : Contents \cup {NoContent}, answer : Answers \cup {None}]]
  /\ task \in {"todo", "running", "blocked", "done"}
  /\ waiting \in Questions \cup {None}
  /\ ask \in [step : {"idle", "record", "pause"}, question : Questions \cup {None},
              content : Contents \cup {NoContent}]
  /\ told \in [Questions -> SUBSET Choices]
  /\ answering \in [Humans -> [step : {"idle", "unblock", "finalize", "acknowledged"},
                               question : Questions \cup {None},
                               text : Answers \cup {None}]]
  /\ sync \in Statuses \cup {None}
  /\ cancel \in {"idle", "show", "reclaim", "block", "blockAnyway", "confirm"}
  /\ faults \in 0 .. MaxFaults

\* What a question is resolved to: its own suggestion, or a final answer.
Resolution(q) ==
  CASE decision[q].status = "auto_answered" -> Suggested(decision[q].content)
    [] decision[q].status = "answered" -> decision[q].answer
    [] OTHER -> None

\* Questions are resolved once, and what workers are given for one, over
\* replays, retries, conflicting contents and racing answers, is that
\* resolution, be it the suggestion or the answer of a human.  Which questions
\* may be resolved without a human is no part of this: see the README.
Decisions == INSTANCE DecisionContract WITH
  resolved <- [q \in Questions |-> Resolution(q)]

ImplementsDecisions == Decisions!Spec

\* A human told that their answer is recorded reads it in the artifact, also
\* when several humans answer at once.
AcknowledgedAnswer ==
  \A h \in Humans :
    answering[h].step = "acknowledged" =>
      decision[answering[h].question].answer = answering[h].text

\* A card blocked for a question can be released by answering it.
BlockedIsAnswerable ==
  task = "blocked" /\ waiting # None => loop.pending = waiting
=============================================================================
