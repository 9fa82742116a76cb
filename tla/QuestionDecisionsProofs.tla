----------------------- MODULE QuestionDecisionsProofs -----------------------
(***************************************************************************)
(* Proofs about QuestionDecisions: it implements DecisionContract, an      *)
(* acknowledged answer is the one in the artifact, and, undisturbed, a     *)
(* blocked card is released by answering its question.                     *)
(***************************************************************************)
EXTENDS QuestionDecisions, TLAPS

USE ConstantsAssumption DEF ConstantsAssumption

-----------------------------------------------------------------------------
(* The inductive invariant.                                                *)

\* The types that resolving and answering a question rest on.
DecisionType ==
  decision \in [Questions ->
    [status : {"absent", "auto_answered", "awaiting_human", "answer_staged", "answered"},
     content : Contents \cup {NoContent}, answer : Answers \cup {None}]]

ToldType == told \in [Questions -> SUBSET Choices]

\* A call that has begun is about a question.
AskSound ==
  /\ ask \in [step : {"idle", "record", "pause"}, question : Questions \cup {None},
              content : Contents \cup {NoContent}]
  /\ ask.step # "idle" => ask.question \in Questions /\ ask.content \in Contents

AnsweringType ==
  /\ answering \in [Humans -> [step : {"idle", "unblock", "finalize", "acknowledged"},
                               question : Questions \cup {None},
                               text : Answers \cup {None}]]
  /\ \A h \in Humans : answering[h].step # "idle" =>
       answering[h].question \in Questions /\ answering[h].text \in Answers

\* The status of an artifact says whether its content answers itself, and an
\* artifact with an answer has one of a human.
StatusOfContent ==
  \A q \in Questions :
    /\ decision[q].status = "auto_answered" => SelfAnswering(decision[q].content)
    /\ decision[q].status \in {"awaiting_human", "answer_staged", "answered"} =>
         ~ SelfAnswering(decision[q].content)
    /\ decision[q].status \in {"answer_staged", "answered"} => decision[q].answer \in Answers
    /\ decision[q].status # "absent" => decision[q].content \in Contents

\* From the staging on, the artifact holds the answer of everybody who is
\* answering the question.
AnswerKept ==
  \A h \in Humans : answering[h].step # "idle" =>
    LET entry == decision[answering[h].question] IN
    /\ entry.status \in {"answer_staged", "answered"}
    /\ entry.answer = answering[h].text

IInv == DecisionType /\ ToldType /\ AskSound /\ AnsweringType
          /\ StatusOfContent /\ AnswerKept

-----------------------------------------------------------------------------
LEMMA SuggestedIsChoice ==
  \A content \in Contents : Suggested(content) \in Choices
BY DEF Suggested

LEMMA NewDecisionSound ==
  ASSUME NEW content \in Contents
  PROVE  /\ NewDecision(content) \in
              [status : {"auto_answered", "awaiting_human"},
               content : Contents, answer : {None}]
         /\ NewDecision(content).status = "auto_answered" <=> SelfAnswering(content)
         /\ NewDecision(content).content = content
BY DEF NewDecision

LEMMA InitSound == Init => IInv
BY DEF Init, IInv, DecisionType, ToldType, AskSound, AnsweringType, StatusOfContent,
       AnswerKept, NoDecision, NoContent, NotAsking, NotAnswering

-----------------------------------------------------------------------------
(* The three ways in which an artifact is written.                         *)

LEMMA RecordSound ==
  ASSUME DecisionType, StatusOfContent, AnswerKept, AnsweringType,
         NEW q \in Questions, NEW content \in Contents, decision[q].status = "absent",
         decision' = [decision EXCEPT ![q] = NewDecision(content)],
         UNCHANGED answering
  PROVE  DecisionType' /\ StatusOfContent' /\ AnswerKept'
<1>1. decision'[q] = NewDecision(content)
      /\ \A r \in Questions \ {q} : decision'[r] = decision[r]
  BY DEF DecisionType
<1>2. DecisionType'
  BY NewDecisionSound DEF DecisionType
<1>3. StatusOfContent'
  <2>1. \A c : SelfAnswering(c)' = SelfAnswering(c)
    BY DEF SelfAnswering, Suggested, Presented
  <2> QED BY <1>1, <2>1, NewDecisionSound DEF StatusOfContent
<1>4. AnswerKept'
  BY <1>1 DEF AnswerKept, AnsweringType
<1> QED BY <1>2, <1>3, <1>4

LEMMA FinalizeSound ==
  ASSUME DecisionType, StatusOfContent, AnswerKept, AnsweringType,
         NEW q \in Questions, Finalizable(q),
         decision' = [decision EXCEPT ![q].status = "answered"],
         \A h \in Humans : answering'[h].step # "idle" =>
           /\ answering[h].step # "idle"
           /\ answering'[h].question = answering[h].question
           /\ answering'[h].text = answering[h].text
  PROVE  DecisionType' /\ StatusOfContent' /\ AnswerKept'
<1>1. /\ decision'[q].status = "answered" /\ decision'[q].content = decision[q].content
      /\ decision'[q].answer = decision[q].answer
      /\ \A r \in Questions \ {q} : decision'[r] = decision[r]
  BY DEF DecisionType
<1>2. DecisionType'
  BY DEF DecisionType
<1>3. StatusOfContent'
  BY <1>1 DEF StatusOfContent, Finalizable
<1>4. AnswerKept'
  BY <1>1 DEF AnswerKept, AnsweringType
<1> QED BY <1>2, <1>3, <1>4

\* Nothing that the invariant speaks of has changed, or somebody who was
\* answering has given up.
LEMMA KeptSound ==
  ASSUME DecisionType, StatusOfContent, AnswerKept, AnsweringType, UNCHANGED decision,
         \A h \in Humans : answering'[h].step # "idle" =>
           /\ answering[h].step # "idle"
           /\ answering'[h].question = answering[h].question
           /\ answering'[h].text = answering[h].text
  PROVE  DecisionType' /\ StatusOfContent' /\ AnswerKept'
BY DEF DecisionType, StatusOfContent, AnswerKept, AnsweringType

\* Over a replay, a worker is given something only if the artifact resolves
\* the question, and then its resolution.
LEMMA ReplySound ==
  ASSUME StatusOfContent, AskSound, ToldType, NEW q \in Questions,
         NEW entry, ask.step = "record", ask.content \in Contents,
         entry.status = "answered" => entry.answer \in Answers,
         Reply(q, entry)
  PROVE  ToldType' /\ AskSound'
<1>1. ASSUME NEW a \in Choices, told' = [told EXCEPT ![q] = @ \cup {a}]
      PROVE  ToldType'
  BY <1>1 DEF ToldType
<1>2. CASE entry.status = "answered"
  <2>1. entry.answer \in Choices
    BY <1>2
  <2>2. told' = [told EXCEPT ![q] = @ \cup {entry.answer}] /\ ask' = NotAsking
    BY <1>2 DEF Reply
  <2>3. AskSound'
    BY <2>2 DEF AskSound, NotAsking
  <2> QED BY <1>1, <2>1, <2>2, <2>3
<1>3. CASE entry.status # "answered" /\ SelfAnswering(ask.content)
  <2>1. Suggested(ask.content) \in Choices
    BY SuggestedIsChoice
  <2>2. told' = [told EXCEPT ![q] = @ \cup {Suggested(ask.content)}] /\ ask' = NotAsking
    BY <1>3 DEF Reply
  <2>3. AskSound'
    BY <2>2 DEF AskSound, NotAsking
  <2> QED BY <1>1, <2>1, <2>2, <2>3
<1>4. CASE entry.status # "answered" /\ ~ SelfAnswering(ask.content)
  <2>1. told' = told /\ ask' = [ask EXCEPT !.step = "pause"]
    BY <1>4 DEF Reply
  <2>2. ToldType'
    BY <2>1 DEF ToldType
  <2> QED BY <2>1, <2>2 DEF AskSound
<1> QED BY <1>2, <1>3, <1>4

-----------------------------------------------------------------------------
(* Every step preserves the invariant.                                     *)

LEMMA WorkerSound == IInv /\ Worker => IInv'
<1> SUFFICES ASSUME IInv, Worker PROVE IInv'
  OBVIOUS
<1> USE DEF IInv, cardVars, otherVars, workerVars
<1>1. CASE Claim \/ FinishTask
  <2>1. UNCHANGED <<decision, told, ask, answering>>
    BY <1>1 DEF Claim, FinishTask
  <2> QED BY <2>1, KeptSound DEF ToldType, AskSound, AnsweringType
<1>2. ASSUME NEW q \in Questions, NEW content \in Contents, Ask(q, content)
      PROVE  IInv'
  <2>1. UNCHANGED <<decision, told, answering>>
    BY <1>2 DEF Ask
  <2>2. AskSound'
    BY <1>2 DEF Ask, AskSound
  <2> QED BY <2>1, <2>2, KeptSound DEF ToldType, AnsweringType
<1>3. CASE RecordNew
  <2> DEFINE q == ask.question
             entry == NewDecision(ask.content)
  <2>1. /\ q \in Questions /\ ask.content \in Contents /\ ask.step = "record"
        /\ decision[q].status = "absent" /\ Reply(q, entry)
        /\ decision' = [decision EXCEPT ![q] = entry] /\ UNCHANGED answering
    BY <1>3 DEF RecordNew, AskSound
  <2>2. DecisionType' /\ StatusOfContent' /\ AnswerKept'
    BY <2>1, RecordSound
  <2>3. entry.status # "answered"
    BY <2>1, NewDecisionSound
  <2>4. ToldType' /\ AskSound'
    BY <2>1, <2>3, ReplySound
  <2> QED BY <2>1, <2>2, <2>4 DEF AnsweringType
<1>4. CASE RecordReplay
  <2> DEFINE q == ask.question
  <2>1. /\ q \in Questions /\ ask.content \in Contents /\ ask.step = "record"
        /\ Reply(q, decision[q]) /\ UNCHANGED <<decision, answering>>
    BY <1>4 DEF RecordReplay, AskSound
  <2>2. decision[q].status = "answered" => decision[q].answer \in Answers
    BY <2>1 DEF StatusOfContent
  <2>3. ToldType' /\ AskSound'
    BY <2>1, <2>2, ReplySound
  <2> QED BY <2>1, <2>3, KeptSound DEF AnsweringType
<1>5. CASE RecordConflict \/ PauseTask \/ PauseFails
  <2>1. ask' = NotAsking /\ UNCHANGED <<decision, told, answering>>
    BY <1>5 DEF RecordConflict, PauseTask, PauseFails
  <2>2. AskSound'
    BY <2>1 DEF AskSound, NotAsking
  <2> QED BY <2>1, <2>2, KeptSound DEF ToldType, AnsweringType
<1>6. CASE WorkerDies
  <2>1. ask' = NotAsking /\ UNCHANGED <<told, answering>>
    BY <1>6 DEF WorkerDies
  <2>2. AskSound' /\ ToldType' /\ AnsweringType'
    BY <2>1 DEF AskSound, NotAsking, ToldType, AnsweringType
  <2>3. CASE decision' = decision
    BY <2>1, <2>2, <2>3, KeptSound
  <2>4. CASE /\ ask.step = "record" /\ decision[ask.question].status = "absent"
             /\ decision' = [decision EXCEPT ![ask.question] = NewDecision(ask.content)]
    <3>1. ask.question \in Questions /\ ask.content \in Contents
      BY <2>4 DEF AskSound
    <3> QED BY <2>1, <2>2, <2>4, <3>1, RecordSound
  <2> QED BY <1>6, <2>3, <2>4 DEF WorkerDies
<1> QED BY <1>1, <1>2, <1>3, <1>4, <1>5, <1>6 DEF Worker

LEMMA StageSound ==
  ASSUME IInv, NEW h \in Humans, NEW q \in Questions, NEW text \in Answers,
         Stage(h, q, text)
  PROVE  IInv'
<1> USE DEF IInv
<1>1. /\ decision' = [decision EXCEPT ![q].status = "answer_staged", ![q].answer = text]
      /\ answering' = [answering EXCEPT ![h] =
                         [step |-> "unblock", question |-> q, text |-> text]]
      /\ UNCHANGED <<told, ask>>
      /\ \/ decision[q].status = "awaiting_human"
         \/ decision[q].status = "answer_staged" /\ decision[q].answer = text
  BY DEF Stage, StartAnswer, workerVars
<1>2. /\ decision'[q].status = "answer_staged" /\ decision'[q].answer = text
      /\ decision'[q].content = decision[q].content
      /\ \A r \in Questions \ {q} : decision'[r] = decision[r]
  BY <1>1 DEF DecisionType
<1>3. DecisionType'
  <2> DEFINE T == [status : {"absent", "auto_answered", "awaiting_human", "answer_staged",
                             "answered"},
                   content : Contents \cup {NoContent}, answer : Answers \cup {None}]
             d == [[decision[q] EXCEPT !.status = "answer_staged"] EXCEPT !.answer = text]
  <2>1. decision \in [Questions -> T]
    BY DEF DecisionType
  <2>2. d \in T
    BY <2>1
  <2>3. decision' = [decision EXCEPT ![q] = d]
    BY <1>1, <2>1
  <2>4. decision' \in [Questions -> T]
    <3> HIDE DEF T, d
    <3> QED BY <2>1, <2>2, <2>3
  <2> QED BY <2>4 DEF DecisionType
<1>4. ToldType' /\ AskSound'
  BY <1>1 DEF ToldType, AskSound
<1>5. AnsweringType'
  BY <1>1 DEF AnsweringType
<1>6. StatusOfContent'
  BY <1>1, <1>2 DEF StatusOfContent
<1>7. ASSUME NEW g \in Humans, answering'[g].step # "idle"
      PROVE  /\ decision'[answering'[g].question].status \in {"answer_staged", "answered"}
             /\ decision'[answering'[g].question].answer = answering'[g].text
  <2>1. CASE g = h
    <3>1. answering'[g].question = q /\ answering'[g].text = text
      BY <1>1, <2>1 DEF AnsweringType
    <3> QED BY <1>2, <3>1
  <2>2. CASE g # h
    <3>1. answering'[g] = answering[g] /\ answering[g].question \in Questions
      BY <1>1, <1>7, <2>2 DEF AnsweringType
    <3>2. /\ decision[answering[g].question].status \in {"answer_staged", "answered"}
          /\ decision[answering[g].question].answer = answering[g].text
      BY <1>7, <3>1 DEF AnswerKept
    <3>3. CASE answering[g].question = q
      BY <1>1, <1>2, <3>1, <3>2, <3>3
    <3>4. CASE answering[g].question # q
      BY <1>2, <3>1, <3>2, <3>4
    <3> QED BY <3>3, <3>4
  <2> QED BY <2>1, <2>2
<1> QED BY <1>3, <1>4, <1>5, <1>6, <1>7 DEF AnswerKept

LEMMA AnswerSound ==
  ASSUME IInv, NEW h \in Humans, Answer(h)
  PROVE  IInv'
<1> USE DEF IInv, cardVars, workerVars
<1> DEFINE q == answering[h].question
           GivesUp == answering' = [answering EXCEPT ![h] = NotAnswering]
           GoesOn(step) == answering' = [answering EXCEPT ![h].step = step]
           Same == \A g \in Humans : answering'[g].step # "idle" =>
                     /\ answering[g].step # "idle"
                     /\ answering'[g].question = answering[g].question
                     /\ answering'[g].text = answering[g].text
<1>1. ASSUME GivesUp \/ (\E step \in {"finalize", "acknowledged"} :
                          GoesOn(step) /\ answering[h].step # "idle")
      PROVE  AnsweringType' /\ Same
  BY <1>1 DEF AnsweringType, NotAnswering
<1>2. CASE Unblock(h)
  <2>1. /\ GivesUp \/ (GoesOn("finalize") /\ answering[h].step # "idle")
        /\ UNCHANGED <<decision, told, ask>>
    BY <1>2 DEF Unblock
  <2> QED BY <1>1, <2>1, KeptSound DEF ToldType, AskSound
<1>3. CASE Finalize(h)
  <2>1. answering[h].step = "finalize" /\ q \in Questions /\ UNCHANGED <<told, ask>>
    BY <1>3 DEF Finalize, AnsweringType
  <2>2. CASE Finalizable(q)
    <3>1. GoesOn("acknowledged") /\ decision' = [decision EXCEPT ![q].status = "answered"]
      BY <1>3, <2>2 DEF Finalize
    <3> QED BY <1>1, <2>1, <2>2, <3>1, FinalizeSound DEF ToldType, AskSound
  <2>3. CASE ~ Finalizable(q)
    <3>1. GivesUp /\ UNCHANGED decision
      BY <1>3, <2>3 DEF Finalize
    <3> QED BY <1>1, <2>1, <3>1, KeptSound DEF ToldType, AskSound
  <2> QED BY <2>2, <2>3
<1>4. CASE AnswerFails(h)
  <2>1. GivesUp /\ q \in Questions /\ UNCHANGED <<told, ask>>
    BY <1>4 DEF AnswerFails, AnsweringType
  <2>2. CASE UNCHANGED decision
    BY <1>1, <2>1, <2>2, KeptSound DEF ToldType, AskSound
  <2>3. CASE Finalizable(q) /\ decision' = [decision EXCEPT ![q].status = "answered"]
    BY <1>1, <2>1, <2>3, FinalizeSound DEF ToldType, AskSound
  <2> QED BY <1>4, <2>2, <2>3 DEF AnswerFails
<1> QED BY <1>2, <1>3, <1>4, StageSound DEF Answer

LEMMA ReconcilerSound == IInv /\ Reconciler => IInv'
<1> SUFFICES ASSUME IInv, Reconciler PROVE IInv'
  OBVIOUS
<1> USE DEF IInv
<1>1. UNCHANGED <<decision, told, answering>> /\ (ask' = ask \/ ask' = NotAsking)
  BY DEF Reconciler, SyncRead, SyncWrite, RequestCancel, CancelTask, ReclaimTask,
         BlockTask, CancelFails, ConfirmCancel,
         workerVars, cardVars
<1>2. AskSound'
  BY <1>1 DEF AskSound, NotAsking
<1> QED BY <1>1, <1>2, KeptSound DEF ToldType, AnsweringType

LEMMA NextSound == IInv /\ [Next]_vars => IInv'
<1> SUFFICES ASSUME IInv, [Next]_vars PROVE IInv'
  OBVIOUS
<1>1. CASE UNCHANGED vars
  BY <1>1, KeptSound DEF IInv, vars, workerVars, ToldType, AskSound, AnsweringType
<1> QED BY <1>1, WorkerSound, AnswerSound, ReconcilerSound DEF Next

\* The artifact of a question is consistent with its content, and holds the
\* answer of everybody who is answering it, in every reachable state.
THEOREM Invariance == Spec => []IInv
BY InitSound, NextSound, PTL DEF Spec

\* The types that IInv leaves out.
RestType ==
  /\ loop \in [status : Statuses, pending : Questions \cup {None}]
  /\ task \in {"todo", "running", "blocked", "done"}
  /\ waiting \in Questions \cup {None}
  /\ sync \in Statuses \cup {None}
  /\ cancel \in {"idle", "show", "reclaim", "block", "blockAnyway", "confirm"}
  /\ faults \in 0 .. MaxFaults

LEMMA RestTypeNext ==
  ASSUME IInv, RestType, [Next]_vars
  PROVE  RestType'
<1>1. CASE Worker
  <2>1. ask.step # "idle" => ask.question \in Questions
    BY DEF IInv, AskSound
  <2>2. CASE \/ Claim \/ FinishTask \/ RecordReplay \/ RecordConflict
             \/ \E q \in Questions, content \in Contents : Ask(q, content)
    BY <2>2 DEF Claim, FinishTask, Ask, RecordReplay, RecordConflict, cardVars, otherVars, RestType
  <2>3. CASE WorkerDies \/ PauseFails
    BY <2>3 DEF WorkerDies, PauseFails, Fault, cardVars, otherVars, RestType
  <2>4. CASE RecordNew
    BY <2>1, <2>4 DEF RecordNew, cardVars, otherVars, RestType, Statuses
  <2>5. CASE PauseTask
    BY <2>1, <2>5 DEF PauseTask, cardVars, otherVars, RestType
  <2> QED BY <1>1, <2>2, <2>3, <2>4, <2>5 DEF Worker
<1>2. ASSUME NEW h \in Humans, Answer(h) PROVE RestType'
  <2>1. ASSUME NEW q \in Questions, NEW text \in Answers, Stage(h, q, text) PROVE RestType'
    BY <2>1 DEF Stage, cardVars, otherVars, RestType
  <2>2. CASE Unblock(h)
    BY <2>2 DEF Unblock, cardVars, otherVars, RestType
  <2>3. CASE Finalize(h)
    BY <2>3 DEF Finalize, cardVars, otherVars, RestType, Statuses
  <2>4. CASE AnswerFails(h)
    BY <2>4 DEF AnswerFails, Fault, cardVars, otherVars, RestType
  <2> QED BY <1>2, <2>1, <2>2, <2>3, <2>4 DEF Answer
<1>3. CASE Reconciler
  <2>1. CASE SyncRead \/ SyncWrite
    BY <2>1 DEF SyncRead, SyncWrite, StatusOfCard, cardVars, RestType, Statuses
  <2>2. CASE RequestCancel \/ ConfirmCancel
    BY <2>2 DEF RequestCancel, ConfirmCancel, cardVars, RestType, Statuses
  <2>3. CASE CancelTask
    BY <2>3 DEF CancelTask, cardVars, RestType
  <2>4. CASE ReclaimTask \/ BlockTask
    BY <2>4 DEF ReclaimTask, BlockTask, cardVars, RestType
  <2>5. CASE CancelFails
    BY <2>5 DEF CancelFails, Fault, cardVars, RestType
  <2> QED BY <1>3, <2>1, <2>2, <2>3, <2>4, <2>5 DEF Reconciler
<1>4. CASE UNCHANGED vars
  BY <1>4 DEF vars, cardVars, otherVars, RestType
<1> QED BY <1>1, <1>2, <1>3, <1>4 DEF Next

\* The record, the artifacts, the card and everybody's calls keep their types.
THEOREM TypeCorrect == Spec => []TypeOK
<1>1. Init => RestType
  BY DEF Init, RestType, Statuses
<1>2. IInv /\ RestType => TypeOK
  BY DEF IInv, DecisionType, ToldType, AskSound, AnsweringType, RestType, TypeOK
<1> QED BY <1>1, <1>2, RestTypeNext, Invariance, PTL DEF Spec

\* A human told that their answer is recorded reads it in the artifact,
\* however many humans answer at once and whatever fails.
THEOREM AnswerSafety == Spec => []AcknowledgedAnswer
<1>1. IInv => AcknowledgedAnswer
  BY DEF IInv, AnswerKept, AcknowledgedAnswer
<1> QED BY <1>1, Invariance, PTL

-----------------------------------------------------------------------------
(* QuestionDecisions implements DecisionContract.                          *)

LEMMA Unresolved ==
  \A q \in Questions :
    decision[q].status \in {"absent", "awaiting_human", "answer_staged"} =>
      Resolution(q) = None
BY DEF Resolution

\* A step that leaves the artifacts alone may tell a resolution.
LEMMA ToldIsTell ==
  ASSUME ToldType, NEW q \in Questions, UNCHANGED decision, Resolution(q) # None,
         told' = [told EXCEPT ![q] = @ \cup {Resolution(q)}]
  PROVE  [Decisions!Next]_(Decisions!decisions)
<1>1. [r \in Questions |-> Resolution(r)]' = [r \in Questions |-> Resolution(r)]
  BY DEF Resolution, Suggested
<1>2. ({[r \in Questions |-> Resolution(r)]'[q]} \ {None}) = {Resolution(q)}
  BY <1>1
<1>3. Decisions!Tell(q)
  BY <1>2 DEF Decisions!Tell
<1> QED BY <1>1, <1>3 DEF Decisions!Next

\* The first write of an artifact, as a step of the contract.
LEMMA RecordIsResolve ==
  ASSUME DecisionType, NEW q \in Questions, NEW content \in Contents,
         decision[q].status = "absent",
         decision' = [decision EXCEPT ![q] = NewDecision(content)]
  PROVE  LET resolved == [r \in Questions |-> Resolution(r)] IN
         /\ SelfAnswering(content) =>
              /\ Decisions!Resolve(q)
              /\ resolved'[q] = Suggested(content)
         /\ ~ SelfAnswering(content) => UNCHANGED resolved
<1> DEFINE resolved == [r \in Questions |-> Resolution(r)]
<1>1. /\ decision'[q] = NewDecision(content)
      /\ \A r \in Questions \ {q} : decision'[r] = decision[r]
  BY DEF DecisionType
<1>2. resolved[q] = None
  BY Unresolved
<1>3. \A r \in Questions \ {q} : resolved'[r] = resolved[r]
  BY <1>1 DEF Resolution, Suggested
<1>4. CASE SelfAnswering(content)
  <2>1. resolved'[q] = Suggested(content)
    BY <1>1, <1>4 DEF Resolution, Suggested, NewDecision
  <2>2. Suggested(content) \in Choices \ {None}
    BY <1>4, SuggestedIsChoice DEF SelfAnswering
  <2>3. resolved' = [resolved EXCEPT ![q] = Suggested(content)]
    BY <1>3, <2>1
  <2>4. Decisions!Resolve(q)
    BY <1>2, <2>2, <2>3 DEF Decisions!Resolve
  <2> QED BY <1>4, <2>1, <2>4
<1>5. CASE ~ SelfAnswering(content)
  <2>1. resolved'[q] = None
    BY <1>1, <1>5 DEF Resolution, NewDecision
  <2> QED BY <1>2, <1>3, <1>5, <2>1
<1> QED BY <1>4, <1>5

LEMMA SameResolution ==
  ASSUME NEW q \in Questions, decision'[q] = decision[q]
  PROVE  Resolution(q)' = Resolution(q)
BY DEF Resolution, Suggested

LEMMA StageIsHidden ==
  ASSUME DecisionType, NEW q \in Questions, NEW text \in Answers,
         decision[q].status \in {"awaiting_human", "answer_staged"},
         decision' = [decision EXCEPT ![q].status = "answer_staged", ![q].answer = text]
  PROVE  LET resolved == [r \in Questions |-> Resolution(r)] IN UNCHANGED resolved
<1>1. /\ decision'[q].status = "answer_staged"
      /\ \A r \in Questions \ {q} : decision'[r] = decision[r]
  BY DEF DecisionType
<1>2. Resolution(q) = None /\ Resolution(q)' = None
  BY <1>1 DEF Resolution
<1>3. ASSUME NEW r \in Questions \ {q} PROVE Resolution(r)' = Resolution(r)
  <2>1. decision'[r] = decision[r]
    BY <1>1
  <2> QED BY <2>1, SameResolution
<1> QED BY <1>2, <1>3

LEMMA FinalizeIsResolve ==
  ASSUME DecisionType, StatusOfContent, NEW q \in Questions, Finalizable(q),
         decision' = [decision EXCEPT ![q].status = "answered"]
  PROVE  Decisions!Resolve(q)
<1> DEFINE resolved == [r \in Questions |-> Resolution(r)]
<1>1. /\ decision'[q].status = "answered" /\ decision'[q].answer = decision[q].answer
      /\ \A r \in Questions \ {q} : decision'[r] = decision[r]
  BY DEF DecisionType
<1>2. resolved[q] = None
  BY Unresolved DEF Finalizable
<1>3. decision[q].answer \in Choices \ {None}
  BY DEF StatusOfContent, Finalizable
<1>4. resolved' = [resolved EXCEPT ![q] = decision[q].answer]
  <2>1. resolved'[q] = decision[q].answer
    BY <1>1 DEF Resolution
  <2>2. \A r \in Questions \ {q} : resolved'[r] = resolved[r]
    BY <1>1 DEF Resolution, Suggested
  <2> QED BY <2>1, <2>2
<1> QED BY <1>2, <1>3, <1>4 DEF Decisions!Resolve

LEMMA WorkerRefines == IInv /\ Worker => [Decisions!Next]_(Decisions!decisions)
<1> SUFFICES ASSUME IInv, Worker PROVE [Decisions!Next]_(Decisions!decisions)
  OBVIOUS
<1> DEFINE resolved == [r \in Questions |-> Resolution(r)]
<1> USE DEF IInv, cardVars, otherVars, workerVars
<1>1. ASSUME UNCHANGED <<decision, told>> PROVE UNCHANGED <<resolved, told>>
  BY <1>1 DEF Resolution, Suggested
<1>2. CASE Claim \/ FinishTask \/ RecordConflict \/ PauseTask \/ PauseFails
  BY <1>1, <1>2 DEF Claim, FinishTask, RecordConflict, PauseTask, PauseFails,
                    Decisions!decisions
<1>3. ASSUME NEW q \in Questions, NEW content \in Contents, Ask(q, content)
      PROVE  UNCHANGED <<resolved, told>>
  BY <1>1, <1>3 DEF Ask
<1>4. CASE RecordNew
  <2> DEFINE q == ask.question
             entry == NewDecision(ask.content)
  <2>1. /\ q \in Questions /\ ask.content \in Contents
        /\ decision[q].status = "absent" /\ Reply(q, entry)
        /\ decision' = [decision EXCEPT ![q] = entry]
        /\ entry.status # "answered"
    BY <1>4, NewDecisionSound DEF RecordNew, AskSound
  <2>2. CASE SelfAnswering(ask.content)
    <3>1. told' = [told EXCEPT ![q] = @ \cup {Suggested(ask.content)}]
      BY <2>1, <2>2 DEF Reply
    <3>2. Decisions!Resolve(q) /\ resolved'[q] = Suggested(ask.content)
      BY <2>1, <2>2, RecordIsResolve
    <3>3. Suggested(ask.content) # None
      BY <2>2 DEF SelfAnswering
    <3>4. {resolved'[q]} \ {None} = {Suggested(ask.content)}
      BY <3>2, <3>3
    <3>5. Decisions!Tell(q)
      BY <3>1, <3>4 DEF Decisions!Tell
    <3> QED BY <2>1, <3>2, <3>5 DEF Decisions!Next
  <2>3. CASE ~ SelfAnswering(ask.content)
    <3>1. told' = told
      BY <2>1, <2>3 DEF Reply
    <3>2. UNCHANGED resolved
      BY <2>1, <2>3, RecordIsResolve
    <3> QED BY <3>1, <3>2 DEF Decisions!decisions
  <2> QED BY <2>2, <2>3
<1>5. CASE RecordReplay
  <2> DEFINE q == ask.question
  <2>1. /\ q \in Questions /\ ask.content \in Contents
        /\ decision[q].status # "absent" /\ decision[q].content = ask.content
        /\ Reply(q, decision[q]) /\ UNCHANGED decision
    BY <1>5 DEF RecordReplay, AskSound
  <2>2. CASE decision[q].status = "answered"
    <3>1. Resolution(q) = decision[q].answer /\ Resolution(q) # None
      BY <2>1, <2>2 DEF Resolution, StatusOfContent
    <3>2. told' = [told EXCEPT ![q] = @ \cup {Resolution(q)}]
      BY <2>1, <2>2, <3>1 DEF Reply
    <3> QED BY <2>1, <3>1, <3>2, ToldIsTell
  <2>3. CASE decision[q].status # "answered" /\ SelfAnswering(ask.content)
    <3>1. decision[q].status = "auto_answered"
      BY <2>1, <2>3 DEF StatusOfContent, DecisionType
    <3>2. Resolution(q) = Suggested(ask.content) /\ Resolution(q) # None
      BY <2>1, <2>3, <3>1 DEF Resolution, SelfAnswering
    <3>3. told' = [told EXCEPT ![q] = @ \cup {Resolution(q)}]
      BY <2>1, <2>3, <3>2 DEF Reply
    <3> QED BY <2>1, <3>2, <3>3, ToldIsTell
  <2>4. CASE decision[q].status # "answered" /\ ~ SelfAnswering(ask.content)
    <3>1. told' = told
      BY <2>1, <2>4 DEF Reply
    <3> QED BY <1>1, <2>1, <3>1 DEF Decisions!decisions
  <2> QED BY <2>2, <2>3, <2>4
<1>6. CASE WorkerDies
  <2>1. told' = told
    BY <1>6 DEF WorkerDies
  <2>2. CASE decision' = decision
    BY <1>1, <2>1, <2>2 DEF Decisions!decisions
  <2>3. CASE /\ ask.step = "record" /\ decision[ask.question].status = "absent"
             /\ decision' = [decision EXCEPT ![ask.question] = NewDecision(ask.content)]
    <3>1. ask.question \in Questions /\ ask.content \in Contents
      BY <2>3 DEF AskSound
    <3> QED BY <2>1, <2>3, <3>1, RecordIsResolve
            DEF Decisions!Next, Decisions!decisions
  <2> QED BY <1>6, <2>2, <2>3 DEF WorkerDies
<1> QED BY <1>2, <1>3, <1>4, <1>5, <1>6 DEF Worker, Decisions!decisions

LEMMA AnswerRefines ==
  ASSUME IInv, NEW h \in Humans, Answer(h)
  PROVE  [Decisions!Next]_(Decisions!decisions)
<1> DEFINE resolved == [r \in Questions |-> Resolution(r)]
           q == answering[h].question
<1> USE DEF IInv, cardVars, workerVars
<1>1. told' = told
  BY DEF Answer, Stage, Unblock, Finalize, AnswerFails
<1>2. ASSUME UNCHANGED decision PROVE UNCHANGED resolved
  BY <1>2 DEF Resolution, Suggested
<1>3. ASSUME NEW r \in Questions, NEW text \in Answers, Stage(h, r, text)
      PROVE  UNCHANGED resolved
  BY <1>3, StageIsHidden DEF Stage
<1>4. CASE Unblock(h)
  BY <1>1, <1>2, <1>4 DEF Unblock, Decisions!decisions
<1>5. CASE Finalize(h) \/ AnswerFails(h)
  <2>1. q \in Questions
    BY <1>5 DEF Finalize, AnswerFails, AnsweringType
  <2>2. CASE UNCHANGED decision
    BY <1>1, <1>2, <2>2 DEF Decisions!decisions
  <2>3. CASE Finalizable(q) /\ decision' = [decision EXCEPT ![q].status = "answered"]
    BY <1>1, <2>1, <2>3, FinalizeIsResolve DEF Decisions!Next
  <2> QED BY <1>5, <2>2, <2>3 DEF Finalize, AnswerFails
<1> QED BY <1>1, <1>3, <1>4, <1>5 DEF Answer, Decisions!decisions

LEMMA NextRefines == IInv /\ [Next]_vars => [Decisions!Next]_(Decisions!decisions)
<1> SUFFICES ASSUME IInv, [Next]_vars PROVE [Decisions!Next]_(Decisions!decisions)
  OBVIOUS
<1>1. ASSUME UNCHANGED <<decision, told>> PROVE UNCHANGED Decisions!decisions
  BY <1>1 DEF Decisions!decisions, Resolution, Suggested
<1>2. CASE Reconciler \/ UNCHANGED vars
  BY <1>1, <1>2 DEF Reconciler, SyncRead, SyncWrite, RequestCancel, CancelTask,
                    ReclaimTask, BlockTask, CancelFails, ConfirmCancel, vars, workerVars, cardVars
<1> QED BY <1>2, WorkerRefines, AnswerRefines DEF Next

\* The decision tool and `loop answer` keep the contract: a question is
\* resolved once, and every worker that is given a choice is given that one,
\* whatever retries, crashes and racing answers there are.
THEOREM DecisionRefinement == Spec => ImplementsDecisions
<1>1. Init => Decisions!Init
  BY DEF Init, Decisions!Init, Resolution, NoDecision
<1> QED BY <1>1, NextRefines, Invariance, PTL
        DEF Spec, ImplementsDecisions, Decisions!Spec

-----------------------------------------------------------------------------
(* What the run `unanswerable` needs to reach a card that no answer        *)
(* releases: a fault, a cancellation, two humans at once, or a worker that *)
(* is faster than the session that has released its card.                  *)

Open(q) == decision[q].status \in {"awaiting_human", "answer_staged"}

Underway == {"unblock", "finalize"}

\* Nothing has failed so far, nobody cancels the loop, one human answers at a
\* time, and the worker is not started between the unblock of its card and
\* the finalize.
Undisturbed ==
  /\ faults = 0 /\ cancel = "idle"
  /\ \A h, k \in Humans :
       answering[h].step \in Underway /\ answering[k].step \in Underway => h = k
  /\ \A h \in Humans : answering[h].step = "finalize" => task # "running"

\* The one open question is the pending one, and somebody sees to it.
OpenIsPending ==
  \A q \in Questions : Open(q) =>
    /\ loop.pending = q
    /\ \/ task = "blocked"
       \/ ask.step = "pause"
       \/ \E h \in Humans : answering[h].step = "finalize"

AskOpen ==
  /\ ask.step # "idle" => task = "running"
  /\ ask.step = "pause" => Open(ask.question)

UnderwayStaged ==
  \A h \in Humans :
    /\ answering[h].step \in Underway => decision[answering[h].question].status = "answer_staged"
    /\ answering[h].step = "finalize" => waiting = None

WaitingOpen ==
  waiting # None => task = "blocked" /\ waiting \in Questions /\ Open(waiting)

OpenInv == OpenIsPending /\ AskOpen /\ UnderwayStaged /\ WaitingOpen

LEMMA InitOpen == Init => OpenInv
BY DEF Init, OpenInv, OpenIsPending, AskOpen, UnderwayStaged, WaitingOpen, Open, Underway,
       NoDecision, NotAsking, NotAnswering

\* While a worker runs and is not about to pause, no question is open.
LEMMA RunningIsClosed ==
  ASSUME OpenInv, Undisturbed, task = "running", ask.step # "pause"
  PROVE  /\ \A q \in Questions : ~ Open(q)
         /\ waiting = None
BY DEF OpenInv, OpenIsPending, WaitingOpen, Undisturbed

\* If no question is open, nobody is underway to answer one.
LEMMA ClosedIsIdle ==
  ASSUME AnsweringType, UnderwayStaged, \A q \in Questions : ~ Open(q)
  PROVE  \A h \in Humans : answering[h].step \notin Underway
BY DEF AnsweringType, UnderwayStaged, Open, Underway

\* With no open question, the invariant is about the waiting card and the
\* worker only.
LEMMA ClosedOpenInv ==
  ASSUME \A q \in Questions : ~ Open(q)', waiting' = None,
         ask.step' # "pause", (ask.step # "idle" => task = "running")',
         \A h \in Humans : answering'[h].step \notin Underway
  PROVE  OpenInv'
BY DEF OpenInv, OpenIsPending, AskOpen, UnderwayStaged, WaitingOpen

LEMMA WorkerOpen ==
  ASSUME IInv, RestType, OpenInv, Undisturbed, Undisturbed', Worker
  PROVE  OpenInv'
<1> USE DEF IInv, cardVars, otherVars, workerVars
<1>1. CASE Claim
  <2>1. \A q \in Questions : ~ Open(q)
    BY <1>1 DEF Claim, OpenInv, OpenIsPending, AskOpen, Undisturbed
  <2>2. \A h \in Humans : answering'[h].step \notin Underway
    BY <1>1, <2>1, ClosedIsIdle DEF Claim, OpenInv
  <2>3. waiting' = None /\ ask' = ask /\ task' = "running" /\ ask.step = "idle"
    BY <1>1 DEF Claim, OpenInv, WaitingOpen, AskOpen
  <2>4. \A q \in Questions : ~ Open(q)'
    BY <1>1, <2>1 DEF Claim, Open
  <2> QED BY <2>2, <2>3, <2>4, ClosedOpenInv
<1>2. CASE \/ \E q \in Questions, content \in Contents : Ask(q, content)
           \/ FinishTask \/ RecordConflict
  <2>1. task = "running" /\ ask.step # "pause"
    BY <1>2 DEF Ask, FinishTask, RecordConflict, OpenInv, AskOpen
  <2>2. UNCHANGED <<decision, waiting, answering>>
    BY <1>2 DEF Ask, FinishTask, RecordConflict
  <2>3. ask'.step # "pause" /\ (ask'.step # "idle" => task' = "running")
    BY <1>2, <2>1 DEF Ask, FinishTask, RecordConflict, NotAsking
  <2>4. \A q \in Questions : ~ Open(q)'
    BY <2>1, <2>2, RunningIsClosed DEF Open
  <2>5. \A h \in Humans : answering'[h].step \notin Underway
    BY <2>1, <2>2, RunningIsClosed, ClosedIsIdle DEF OpenInv
  <2> QED BY <2>1, <2>2, <2>3, <2>4, <2>5, RunningIsClosed, ClosedOpenInv
<1>3. CASE RecordNew
  <2> DEFINE entry == NewDecision(ask.content)
  <2>0. PICK q \in Questions : q = ask.question
    BY <1>3 DEF RecordNew, AskSound
  <2>1. /\ ask.content \in Contents /\ ask.step = "record"
        /\ decision[q].status = "absent" /\ Reply(q, entry)
        /\ decision' = [decision EXCEPT ![q] = entry]
        /\ loop' = IF entry.status = "awaiting_human"
                     THEN [status |-> "NEEDS_HUMAN", pending |-> q] ELSE loop
        /\ UNCHANGED <<task, waiting, answering>>
    BY <1>3, <2>0 DEF RecordNew, AskSound
  <2>2. task = "running"
    BY <2>1 DEF OpenInv, AskOpen
  <2>3. (\A r \in Questions : ~ Open(r)) /\ waiting = None
    BY <2>1, <2>2, RunningIsClosed
  <2>4. \A h \in Humans : answering'[h].step \notin Underway
    BY <2>1, <2>3, ClosedIsIdle DEF OpenInv
  <2>5. /\ decision'[q] = entry
        /\ \A r \in Questions \ {q} : decision'[r] = decision[r]
    BY <2>1 DEF DecisionType
  <2>6. \A r \in Questions \ {q} : ~ Open(r)'
    BY <2>3, <2>5 DEF Open
  <2>7. CASE SelfAnswering(ask.content)
    <3>1. entry.status = "auto_answered" /\ ask' = NotAsking
      BY <2>1, <2>7 DEF NewDecision, Reply
    <3>2. ~ Open(q)'
      BY <2>5, <3>1 DEF Open
    <3> QED BY <2>1, <2>3, <2>4, <2>6, <3>1, <3>2, ClosedOpenInv DEF NotAsking
  <2>8. CASE ~ SelfAnswering(ask.content)
    <3>1. entry.status = "awaiting_human"
      BY <2>8 DEF NewDecision
    <3>2. ask' = [ask EXCEPT !.step = "pause"]
      BY <2>1, <2>8, <3>1 DEF Reply
    <3>3. ask'.step = "pause" /\ ask'.question = q /\ loop'.pending = q
      BY <2>0, <2>1, <3>1, <3>2 DEF AskSound
    <3>4. Open(q)'
      BY <2>5, <3>1 DEF Open
    <3>5. OpenIsPending'
      BY <2>6, <3>3 DEF OpenIsPending
    <3>6. AskOpen'
      BY <2>1, <2>2, <3>3, <3>4 DEF AskOpen, Open
    <3> QED BY <2>1, <2>3, <2>4, <3>5, <3>6
            DEF OpenInv, UnderwayStaged, WaitingOpen, Underway
  <2> QED BY <2>7, <2>8
<1>4. CASE RecordReplay
  <2> DEFINE q == ask.question
  <2>1. /\ q \in Questions /\ ask.step = "record" /\ Reply(q, decision[q])
        /\ decision[q].status # "absent" /\ decision[q].content = ask.content
        /\ UNCHANGED <<decision, task, waiting, answering>>
    BY <1>4 DEF RecordReplay, AskSound
  <2>2. task = "running"
    BY <2>1 DEF OpenInv, AskOpen
  <2>3. (\A r \in Questions : ~ Open(r)) /\ waiting = None
    BY <2>1, <2>2, RunningIsClosed
  <2>4. decision[q].status \in {"auto_answered", "answered"}
    BY <2>1, <2>3 DEF DecisionType, Open
  <2>5. ask' = NotAsking
    BY <2>1, <2>4 DEF Reply, StatusOfContent
  <2>6. \A h \in Humans : answering'[h].step \notin Underway
    BY <2>1, <2>3, ClosedIsIdle DEF OpenInv
  <2> QED BY <2>1, <2>3, <2>5, <2>6, ClosedOpenInv DEF NotAsking, Open
<1>5. CASE PauseTask
  <2>1. ask.step = "pause" /\ task = "running" /\ Open(ask.question)
    BY <1>5 DEF PauseTask, OpenInv, AskOpen
  <2>2. /\ task' = "blocked" /\ waiting' = ask.question /\ ask' = NotAsking
        /\ UNCHANGED <<loop, decision, answering>>
    BY <1>5, <2>1 DEF PauseTask
  <2>3. ask.question \in Questions
    BY <2>1 DEF AskSound
  <2>4. OpenIsPending'
    BY <2>2 DEF OpenInv, OpenIsPending, Open
  <2>5. WaitingOpen'
    BY <2>1, <2>2, <2>3 DEF WaitingOpen, Open
  <2>6. \A h \in Humans : answering[h].step # "finalize"
    BY <2>1 DEF Undisturbed
  <2> QED BY <2>2, <2>4, <2>5, <2>6
          DEF OpenInv, AskOpen, UnderwayStaged, NotAsking
<1>6. CASE PauseFails \/ WorkerDies
  BY <1>6 DEF PauseFails, WorkerDies, Fault, Undisturbed, RestType
<1> QED BY <1>1, <1>2, <1>3, <1>4, <1>5, <1>6 DEF Worker

LEMMA AnswerOpen ==
  ASSUME IInv, RestType, OpenInv, Undisturbed, Undisturbed',
         NEW h \in Humans, Answer(h)
  PROVE  OpenInv'
<1> USE DEF IInv, cardVars, otherVars, workerVars
<1>1. ASSUME NEW q \in Questions, NEW text \in Answers, Stage(h, q, text)
      PROVE  OpenInv'
  <2>1. /\ Open(q) /\ answering[h].step \notin Underway
        /\ decision' = [decision EXCEPT ![q].status = "answer_staged", ![q].answer = text]
        /\ answering' = [answering EXCEPT ![h] =
                           [step |-> "unblock", question |-> q, text |-> text]]
        /\ UNCHANGED <<loop, task, waiting, ask>>
    BY <1>1 DEF Stage, StartAnswer, Open, Underway
  <2>2. /\ decision'[q].status = "answer_staged"
        /\ \A r \in Questions \ {q} : decision'[r] = decision[r]
    BY <2>1 DEF DecisionType
  <2>3. \A r \in Questions : Open(r)' <=> Open(r)
    BY <2>1, <2>2 DEF Open
  <2>4. /\ answering'[h].step = "unblock" /\ answering'[h].question = q
        /\ \A k \in Humans \ {h} : answering'[k] = answering[k]
    BY <2>1 DEF AnsweringType
  <2>5. \A k \in Humans : answering'[k].step = "finalize" <=> answering[k].step = "finalize"
    BY <2>1, <2>4 DEF Underway
  <2>6. OpenIsPending'
    BY <2>1, <2>3, <2>5 DEF OpenInv, OpenIsPending
  <2>7. AskOpen'
    <3>1. ask.step = "pause" => ask.question \in Questions
      BY DEF AskSound
    <3> QED BY <2>1, <2>3, <3>1 DEF OpenInv, AskOpen
  <2>8. WaitingOpen'
    BY <2>1, <2>3 DEF OpenInv, WaitingOpen
  <2>9. UnderwayStaged'
    <3>1. ASSUME NEW k \in Humans, answering'[k].step \in Underway
          PROVE  decision'[answering'[k].question].status = "answer_staged"
      <4>1. CASE k = h
        BY <2>2, <2>4, <4>1
      <4>2. CASE k # h
        <5>1. answering'[k] = answering[k] /\ answering[k].question \in Questions
          BY <2>4, <3>1, <4>2 DEF AnsweringType, Underway
        <5>2. decision[answering[k].question].status = "answer_staged"
          BY <3>1, <5>1 DEF OpenInv, UnderwayStaged
        <5> QED BY <2>2, <5>1, <5>2
      <4> QED BY <4>1, <4>2
    <3>2. \A k \in Humans : answering'[k].step = "finalize" => waiting' = None
      BY <2>1, <2>5 DEF OpenInv, UnderwayStaged
    <3> QED BY <3>1, <3>2 DEF UnderwayStaged
  <2> QED BY <2>6, <2>7, <2>8, <2>9 DEF OpenInv
<1>2. CASE Unblock(h)
  <2>1. answering[h].step = "unblock" /\ UNCHANGED <<loop, decision, ask>>
    BY <1>2 DEF Unblock
  <2>2. \A r \in Questions : Open(r)' <=> Open(r)
    BY <2>1 DEF Open
  <2>3. CASE task = "blocked"
    <3>1. /\ task' = "todo" /\ waiting' = None
          /\ answering' = [answering EXCEPT ![h].step = "finalize"]
      BY <1>2, <2>3 DEF Unblock
    <3>2. /\ answering'[h].step = "finalize"
          /\ \A k \in Humans : answering'[k].question = answering[k].question
          /\ \A k \in Humans \ {h} : answering'[k] = answering[k]
      BY <3>1 DEF AnsweringType
    <3>3. OpenIsPending'
      BY <2>1, <2>2, <3>2 DEF OpenInv, OpenIsPending
    <3>4. AskOpen'
      BY <2>1, <2>3 DEF OpenInv, AskOpen
    <3>5. UnderwayStaged'
      BY <2>1, <3>1, <3>2 DEF OpenInv, UnderwayStaged, Underway
    <3> QED BY <3>1, <3>3, <3>4, <3>5 DEF OpenInv, WaitingOpen
  <2>4. CASE task # "blocked"
    <3>1. answering' = [answering EXCEPT ![h] = NotAnswering] /\ UNCHANGED <<task, waiting>>
      BY <1>2, <2>4 DEF Unblock
    <3>2. /\ answering'[h].step = "idle"
          /\ \A k \in Humans \ {h} : answering'[k] = answering[k]
      BY <3>1 DEF AnsweringType, NotAnswering
    <3>3. OpenIsPending'
      BY <2>1, <2>2, <3>1, <3>2 DEF OpenInv, OpenIsPending
    <3>4. AskOpen' /\ WaitingOpen'
      BY <2>1, <3>1 DEF OpenInv, AskOpen, WaitingOpen, Open
    <3>5. UnderwayStaged'
      BY <2>1, <3>1, <3>2 DEF OpenInv, UnderwayStaged, Underway
    <3> QED BY <3>3, <3>4, <3>5 DEF OpenInv
  <2> QED BY <2>3, <2>4
<1>3. CASE Finalize(h)
  <2> DEFINE q == answering[h].question
  <2>1. answering[h].step = "finalize" /\ q \in Questions /\ UNCHANGED <<task, waiting, ask>>
    BY <1>3 DEF Finalize, AnsweringType
  <2>2. decision[q].status = "answer_staged" /\ waiting = None
    BY <2>1 DEF OpenInv, UnderwayStaged, Underway
  <2>3. Open(q) /\ loop.pending = q
    BY <2>1, <2>2 DEF OpenInv, OpenIsPending, Open
  <2>4. /\ decision' = [decision EXCEPT ![q].status = "answered"]
        /\ answering' = [answering EXCEPT ![h].step = "acknowledged"]
    BY <1>3, <2>2, <2>3 DEF Finalize, Finalizable
  <2>5. /\ decision'[q].status = "answered"
        /\ \A r \in Questions \ {q} : decision'[r] = decision[r]
    BY <2>1, <2>4 DEF DecisionType
  <2>6. \A r \in Questions : Open(r) => r = q
    BY <2>3 DEF OpenInv, OpenIsPending
  <2>7. \A r \in Questions : ~ Open(r)'
    BY <2>5, <2>6 DEF Open
  <2>8. \A k \in Humans : answering'[k].step \notin Underway
    <3>1. /\ answering'[h].step = "acknowledged"
          /\ \A k \in Humans \ {h} : answering'[k] = answering[k]
      BY <2>4 DEF AnsweringType
    <3>2. \A k \in Humans \ {h} : answering[k].step \notin Underway
      BY <2>1 DEF Undisturbed, Underway
    <3> QED BY <3>1, <3>2 DEF Underway
  <2>9. ask.step = "idle"
    BY <2>1 DEF Undisturbed, OpenInv, AskOpen
  <2> QED BY <2>1, <2>2, <2>7, <2>8, <2>9, ClosedOpenInv
<1>4. CASE AnswerFails(h)
  BY <1>4 DEF AnswerFails, Fault, Undisturbed, RestType
<1> QED BY <1>1, <1>2, <1>3, <1>4 DEF Answer

LEMMA NextOpen ==
  ASSUME IInv, RestType, OpenInv, Undisturbed, Undisturbed', [Next]_vars
  PROVE  OpenInv'
<1>1. CASE RequestCancel \/ CancelTask \/ ReclaimTask \/ BlockTask \/ CancelFails \/ ConfirmCancel
  BY <1>1 DEF RequestCancel, CancelTask, ReclaimTask, BlockTask, CancelFails, ConfirmCancel,
              Undisturbed
<1>2. CASE SyncRead \/ SyncWrite \/ UNCHANGED vars
  <2>1. UNCHANGED <<decision, task, waiting, ask, answering>>
    BY <1>2 DEF SyncRead, SyncWrite, vars, cardVars, workerVars
  <2>2. loop'.pending = loop.pending
    BY <1>2 DEF SyncRead, SyncWrite, vars, RestType
  <2> QED BY <2>1, <2>2
          DEF OpenInv, OpenIsPending, AskOpen, UnderwayStaged, WaitingOpen, Open
<1> QED BY <1>1, <1>2, WorkerOpen, AnswerOpen DEF Next, Reconciler

\* While nothing fails, nobody cancels, one human answers at a time, and no
\* worker starts between the unblock and the finalize, a card blocked for a
\* question is released by answering it, whatever status the reconciler
\* writes meanwhile.
THEOREM AnswerableUndisturbed == Spec /\ []Undisturbed => []BlockedIsAnswerable
<1>1. Init => RestType
  BY DEF Init, RestType, Statuses
<1>2. OpenInv => BlockedIsAnswerable
  BY DEF OpenInv, OpenIsPending, WaitingOpen, BlockedIsAnswerable
<1> QED BY <1>1, <1>2, RestTypeNext, InitOpen, NextOpen, Invariance, PTL DEF Spec
=============================================================================
