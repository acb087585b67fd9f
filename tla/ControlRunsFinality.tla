-------------------------- MODULE ControlRunsFinality --------------------------
(* Proofs that what Control has decided stays decided: questions and their
   answers, completed inputs, and inputs a stop canceled; and that what is called
   active, or steered, does not outlast its run.  The last two relate rows that
   different reports write, at different times.  All rest on IInv of
   ControlRunsProofs. *)
EXTENDS ControlRunsProofs

-----------------------------------------------------------------------------
(* Runs end in the commit of a terminal request and nowhere else. *)

\* A run keeps its input, and leaves the unfinished states by a commit only.
LEMMA UnfinishedStays ==
    ASSUME IInv, [Next]_vars, NEW r \in Runs, Unfinished(r)
    PROVE  /\ runs'[r].primary = runs[r].primary
           /\ \/ Unfinished(r)'
              \/ \E h \in Handlers : CommitFinish(h) /\ handlers[h].run = r
<1> USE DEF Unfinished, Exists
<1>1. ASSUME NEW s \in Runs, StartWorkerInput(s)
      PROVE  runs'[r].primary = runs[r].primary /\ Unfinished(r)'
  <2>1. r # s
    BY <1>1 DEF StartWorkerInput
  <2>2. runs'[r] = IF r \in Displaced(ControlOf[Primary(s)])
                   THEN [runs[r] EXCEPT !.slot = 0,
                            !.status = IF @ \in Executing THEN "reconciling" ELSE @]
                   ELSE runs[r]
    BY <1>1, <2>1 DEF StartWorkerInput
  <2> QED
    BY <2>2 DEF IInv, TypeOK, RunRow, Terminal
<1>2. ASSUME NEW s \in Runs, NEW t \in Turns, RecordSubmission(s, t)
      PROVE  runs'[r].primary = runs[r].primary /\ Unfinished(r)'
  BY <1>2 DEF RecordSubmission, IInv, TypeOK, RunRow, Terminal
<1>3. ASSUME NEW s \in Runs, ConfirmTurn(s)
      PROVE  runs'[r].primary = runs[r].primary /\ Unfinished(r)'
  BY <1>3 DEF ConfirmTurn, IInv, TypeOK, RunRow, Terminal
<1>4. ASSUME NEW i \in Intents, AckSteer(i)
      PROVE  runs'[r].primary = runs[r].primary /\ Unfinished(r)'
  BY <1>4 DEF AckSteer, IInv, TypeOK, RunRow, Terminal
<1>5. ASSUME NEW s \in Runs, NEW q \in Requests, RegisterInteractive(s, q)
      PROVE  runs'[r].primary = runs[r].primary /\ Unfinished(r)'
  BY <1>5 DEF RegisterInteractive, Waiting, IInv, TypeOK, RunRow, Terminal
<1>6. ASSUME NEW q \in Requests, TryResumeInteractive(q)
      PROVE  runs'[r].primary = runs[r].primary /\ Unfinished(r)'
  <2>1. runs' = [runs EXCEPT ![requests[q].run].status = "running",
                             ![requests[q].run].slot = 1]
    BY <1>6 DEF TryResumeInteractive
  <2> QED
    BY <2>1 DEF IInv, TypeOK, RunRow, Terminal
<1>7. ASSUME NEW h \in Handlers, CommitFinish(h)
      PROVE  /\ runs'[r].primary = runs[r].primary
             /\ Unfinished(r)' \/ (CommitFinish(h) /\ handlers[h].run = r)
  <2>1. runs' = [runs EXCEPT ![handlers[h].run].status = journal[handlers[h].run].outcome,
                             ![handlers[h].run].slot = 0]
    BY <1>7 DEF CommitFinish, Ended
  <2> QED
    BY <1>7, <2>1 DEF IInv, TypeOK, RunRow
<1>8. CASE UNCHANGED runs
  BY <1>8
<1> QED
  BY <1>1, <1>2, <1>3, <1>4, <1>5, <1>6, <1>7, <1>8
     DEF Next, InputStep, WorkerStep, ReportStep, InteractiveStep, FinishStep, vars, server,
         Enqueue, ClientMessage, Stop, Fetch, Discard, Accept, Steer, Interrupt, StartTurn,
         TurnStarted, Conclude, SetThread, AckInterrupt, AnswerInteractive,
         ExpireInteractive, BeginFinish, AbortFinish

-----------------------------------------------------------------------------
(* Questions. *)

\* Every write of a request row checks that the question is still open, or new.
LEMMA AnsweredStays ==
    ASSUME IInv, [Next]_vars, NEW q \in Requests,
           requests[q].status \notin {"absent", "pending"}
    PROVE  requests'[q] = requests[q]
<1>1. ASSUME NEW i \in Intents, ClientMessage(i) PROVE requests'[q] = requests[q]
  BY <1>1 DEF ClientMessage, Skippable, IInv, TypeOK
<1>2. ASSUME NEW r \in Runs, NEW p \in Requests, RegisterInteractive(r, p)
      PROVE  requests'[q] = requests[q]
  BY <1>2 DEF RegisterInteractive, IInv, TypeOK
<1>3. ASSUME NEW p \in Requests, NEW surface, AnswerInteractive(p, surface)
      PROVE  requests'[q] = requests[q]
  BY <1>3 DEF AnswerInteractive, Open, IInv, TypeOK
<1>4. ASSUME NEW p \in Requests, ExpireInteractive(p) PROVE requests'[q] = requests[q]
  BY <1>4 DEF ExpireInteractive, Open, IInv, TypeOK
<1>5. ASSUME NEW h \in Handlers, CommitFinish(h) PROVE requests'[q] = requests[q]
  BY <1>5 DEF CommitFinish, Withdrawn, Open
<1>6. CASE UNCHANGED requests
  BY <1>6
<1> QED
  BY <1>1, <1>2, <1>3, <1>4, <1>5, <1>6
     DEF Next, InputStep, WorkerStep, ReportStep, InteractiveStep, FinishStep, vars, server,
         Enqueue, Stop, Fetch, Discard, Accept, Steer, Interrupt, StartTurn, TurnStarted,
         Conclude, StartWorkerInput, SetThread, RecordSubmission, ConfirmTurn, AckSteer,
         AckInterrupt, TryResumeInteractive, BeginFinish, AbortFinish

\* The first of answer, skip, deadline and end of the run decides a question.
THEOREM AnswersAreFinal == Spec => AnswerIsFinal
<1>1. IInv /\ [Next]_vars =>
         [\A q \in Requests :
             requests[q].status \notin {"absent", "pending"} => requests'[q] = requests[q]]_vars
  BY AnsweredStays
<1> QED
  BY <1>1, InvariantHolds, PTL DEF Spec, AnswerIsFinal

\* A question becomes pending when its running run registers it, and stops being
\* pending in the transaction that ends the run.
LEMMA PendingStep ==
    ASSUME IInv, [Next]_vars, PendingMeansUnfinished
    PROVE  PendingMeansUnfinished'
<1> SUFFICES ASSUME NEW q \in Requests, requests'[q].status = "pending"
             PROVE  Unfinished(requests[q].run)'
  BY DEF PendingMeansUnfinished
<1>1. CASE requests'[q].status = requests[q].status /\ requests'[q].run = requests[q].run
  <2>1. requests[q].run \in Runs /\ Unfinished(requests[q].run)
    BY <1>1 DEF PendingMeansUnfinished, IInv, References
  <2>2. ASSUME NEW h \in Handlers, CommitFinish(h), handlers[h].run = requests[q].run
        PROVE  FALSE
    <3>1. requests'[q] = [requests[q] EXCEPT !.status = "interrupted"]
      BY <1>1, <2>2 DEF CommitFinish, Withdrawn, Open
    <3> QED
      BY <3>1, <1>1 DEF IInv, TypeOK, RequestRow
  <2> QED
    BY <1>1, <2>1, <2>2, UnfinishedStays DEF Unfinished, Exists
<1>2. ASSUME NEW r \in Runs, NEW p \in Requests, RegisterInteractive(r, p)
      PROVE  \/ Unfinished(requests[q].run)'
             \/ /\ requests'[q].status = requests[q].status
                /\ requests'[q].run = requests[q].run
  <2>1. CASE q = p
    <3>1. requests'[q].run = r /\ runs'[r].status = "waiting_for_user"
      BY <1>2, <2>1 DEF RegisterInteractive, Waiting, IInv, TypeOK, RunRow
    <3> QED
      BY <3>1 DEF Unfinished, Exists, Terminal
  <2>2. CASE q # p
    BY <1>2, <2>2 DEF RegisterInteractive, IInv, TypeOK
  <2> QED
    BY <2>1, <2>2
<1>3. \/ \E r \in Runs, p \in Requests : RegisterInteractive(r, p)
      \/ /\ requests'[q].status = requests[q].status
         /\ requests'[q].run = requests[q].run
  <2>1. ASSUME NEW i \in Intents, ClientMessage(i) PROVE requests'[q] = requests[q]
    BY <2>1 DEF ClientMessage, IInv, TypeOK, RequestRow
  <2>2. ASSUME NEW p \in Requests, NEW surface, AnswerInteractive(p, surface)
        PROVE  requests'[q] = requests[q]
    BY <2>2 DEF AnswerInteractive, IInv, TypeOK, RequestRow
  <2>3. ASSUME NEW p \in Requests, ExpireInteractive(p) PROVE requests'[q] = requests[q]
    BY <2>3 DEF ExpireInteractive, IInv, TypeOK, RequestRow
  <2>4. ASSUME NEW h \in Handlers, CommitFinish(h) PROVE requests'[q] = requests[q]
    BY <2>4 DEF CommitFinish, IInv, TypeOK, RequestRow
  <2>5. CASE UNCHANGED requests
    BY <2>5
  <2> QED
    BY <2>1, <2>2, <2>3, <2>4, <2>5
       DEF Next, InputStep, WorkerStep, ReportStep, InteractiveStep, FinishStep, vars, server,
           Enqueue, Stop, Fetch, Discard, Accept, Steer, Interrupt, StartTurn, TurnStarted,
           Conclude, StartWorkerInput, SetThread, RecordSubmission, ConfirmTurn, AckSteer,
           AckInterrupt, TryResumeInteractive, BeginFinish, AbortFinish
<1> QED
  BY <1>1, <1>2, <1>3

\* No question outlives its run: the Worker is never asked to wait for an answer
\* that nobody can give any more.
THEOREM QuestionsEndWithRuns == Spec => []PendingMeansUnfinished
<1>1. Init => PendingMeansUnfinished
  BY DEF Init, PendingMeansUnfinished
<1>2. PendingMeansUnfinished /\ IInv /\ [Next]_vars => PendingMeansUnfinished'
  BY PendingStep
<1> QED
  BY <1>1, <1>2, InvariantHolds, PTL DEF Spec

-----------------------------------------------------------------------------
(* Inputs. *)

\* What changes the status of an input: the queue, a report about the run it
\* started, its acknowledgement as a steer or interrupt, or the end of a run.
LEMMA CompletedStays ==
    ASSUME IInv, [Next]_vars, NEW i \in Intents, intents[i].status = "completed"
    PROVE  intents'[i].status = "completed"
<1> USE DEF IInv
<1>1. ASSUME NEW j \in Intents, Enqueue(j) \/ ClientMessage(j) \/ Stop(j)
      PROVE  intents'[i].status = "completed"
  <2>1. i # j
    BY <1>1, IntentsAssumption DEF Enqueue, ClientMessage, Stop, IsNext, Created
  <2>2. CASE Stop(j)
    BY <2>1, <2>2 DEF Stop, Cancelable, TypeOK
  <2> QED
    BY <1>1, <2>1, <2>2 DEF Enqueue, ClientMessage, TypeOK
<1>2. ASSUME NEW r \in Runs, StartWorkerInput(r) PROVE intents'[i].status = "completed"
  BY <1>2 DEF StartWorkerInput, Startable, TypeOK
<1>3. ASSUME NEW r \in Runs, NEW t \in Turns, RecordSubmission(r, t)
      PROVE  intents'[i].status = "completed"
  BY <1>3 DEF RecordSubmission, Reopenable, Terminal, TypeOK
<1>4. ASSUME NEW r \in Runs, ConfirmTurn(r) PROVE intents'[i].status = "completed"
  BY <1>4 DEF ConfirmTurn, Reopenable, Terminal, TypeOK
<1>5. ASSUME NEW j \in Intents, AckSteer(j) PROVE intents'[i].status = "completed"
  BY <1>5 DEF AckSteer, SteerSettled, TypeOK
<1>6. ASSUME NEW j \in Intents, AckInterrupt(j) PROVE intents'[i].status = "completed"
  BY <1>6 DEF AckInterrupt, TypeOK
<1>7. ASSUME NEW r \in Runs, NEW q \in Requests, RegisterInteractive(r, q)
      PROVE  intents'[i].status = "completed"
  <2>1. intents[runs[r].primary].status \notin Terminal
    BY <1>7 DEF RegisterInteractive, CanAsk, Executing, Terminal, LedgerFollowsWorker
  <2> QED
    BY <1>7, <2>1 DEF RegisterInteractive, Terminal, TypeOK
<1>8. ASSUME NEW q \in Requests, TryResumeInteractive(q) PROVE intents'[i].status = "completed"
  <2>1. PICK r \in Runs : r = requests[q].run /\ Exists(r)
    BY <1>8 DEF TryResumeInteractive, Answered, References
  <2>2. runs[r].status = "waiting_for_user"
    BY <1>8, <2>1 DEF TryResumeInteractive
  <2>3. intents[runs[r].primary].status \notin Terminal
    BY <2>1, <2>2 DEF Terminal, LedgerFollowsWorker
  <2>4. intents' = [intents EXCEPT ![runs[r].primary].status = "running"]
    BY <1>8, <2>1 DEF TryResumeInteractive
  <2> QED
    BY <2>3, <2>4 DEF Terminal, TypeOK
<1>9. ASSUME NEW h \in Handlers, CommitFinish(h) PROVE intents'[i].status = "completed"
  <2>1. PICK r \in Runs : r = handlers[h].run /\ Exists(r)
    BY <1>9 DEF CommitFinish, Idle, References
  <2>2. i \notin ClosedBy(runs[r].primary, handlers[h].turn)
    BY DEF ClosedBy
  <2>3. intents'[i] = IF i = runs[r].primary
                      THEN [intents[i] EXCEPT !.status = journal[r].outcome] ELSE intents[i]
    BY <1>9, <2>1, <2>2 DEF CommitFinish
  <2>4. i = runs[r].primary => journal[r].outcome = "completed"
    BY <2>1 DEF LedgerFollowsWorker, Terminal
  <2> QED
    BY <2>3, <2>4 DEF TypeOK, IntentRow
<1>10. CASE UNCHANGED intents
  BY <1>10
<1> QED
  BY <1>1, <1>2, <1>3, <1>4, <1>5, <1>6, <1>7, <1>8, <1>9, <1>10
     DEF Next, InputStep, WorkerStep, ReportStep, InteractiveStep, FinishStep, vars, server,
         Fetch, Discard, Accept, Steer, Interrupt, StartTurn, TurnStarted, Conclude, SetThread,
         AnswerInteractive, ExpireInteractive, BeginFinish, AbortFinish

\* A repeated acknowledgement, a stop or another run's end never reopens a
\* completed input.
THEOREM CompletedInputsAreFinal == Spec => CompletedInputIsFinal
<1>1. IInv /\ [Next]_vars =>
         [\A i \in Intents : intents[i].status = "completed" =>
             intents'[i].status = "completed"]_vars
  BY CompletedStays
<1> QED
  BY <1>1, InvariantHolds, PTL DEF Spec, CompletedInputIsFinal

\* The primary input of a run row is written once, from the queue.
LEMMA PrimaryWrittenOnce ==
    ASSUME IInv, [Next]_vars, NEW r \in Runs, runs'[r].primary # runs[r].primary
    PROVE  intents[runs'[r].primary].status = "queued"
<1> USE DEF IInv
<1>1. ASSUME NEW s \in Runs, StartWorkerInput(s)
      PROVE  intents[runs'[r].primary].status = "queued"
  <2>1. runs'[s].primary = Primary(s) /\ intents[Primary(s)].status = "queued"
    BY <1>1 DEF StartWorkerInput, Startable
  <2>2. r # s => runs'[r].primary = runs[r].primary
    BY <1>1 DEF StartWorkerInput, TypeOK, RunRow
  <2> QED
    BY <2>1, <2>2
<1>2. ASSUME NEW q \in Requests, TryResumeInteractive(q) PROVE FALSE
  <2>1. runs' = [runs EXCEPT ![requests[q].run].status = "running",
                             ![requests[q].run].slot = 1]
    BY <1>2 DEF TryResumeInteractive
  <2> QED
    BY <2>1 DEF TypeOK, RunRow
<1>3. ASSUME NEW h \in Handlers, CommitFinish(h) PROVE FALSE
  <2>1. runs' = [runs EXCEPT ![handlers[h].run].status = journal[handlers[h].run].outcome,
                             ![handlers[h].run].slot = 0]
    BY <1>3 DEF CommitFinish, Ended
  <2> QED
    BY <2>1 DEF TypeOK, RunRow
<1>4. ASSUME NEW s \in Runs, NEW q \in Requests, RegisterInteractive(s, q) PROVE FALSE
  BY <1>4 DEF RegisterInteractive, Waiting, TypeOK, RunRow
<1>5. ASSUME NEW s \in Runs, NEW t \in Turns, RecordSubmission(s, t) PROVE FALSE
  BY <1>5 DEF RecordSubmission, TypeOK, RunRow
<1>6. ASSUME NEW s \in Runs, ConfirmTurn(s) PROVE FALSE
  BY <1>6 DEF ConfirmTurn, TypeOK, RunRow
<1>7. ASSUME NEW j \in Intents, AckSteer(j) PROVE FALSE
  BY <1>7 DEF AckSteer, TypeOK, RunRow
<1>8. ~UNCHANGED runs
  OBVIOUS
<1> QED
  BY <1>1, <1>2, <1>3, <1>4, <1>5, <1>6, <1>7, <1>8
     DEF Next, InputStep, WorkerStep, ReportStep, InteractiveStep, FinishStep, vars, server,
         Enqueue, ClientMessage, Stop, Fetch, Discard, Accept, Steer, Interrupt, StartTurn,
         TurnStarted, Conclude, SetThread, AckInterrupt, AnswerInteractive, ExpireInteractive,
         BeginFinish, AbortFinish

\* Although the Worker may have accepted the input, a stop that committed first
\* keeps Control from ever registering a run for it.
THEOREM StopsBeatLateStarts == Spec => StopBeatsLateStart
<1>1. IInv /\ [Next]_vars =>
         [\A i \in Intents : intents[i].status = "canceled" /\ intents[i].resolved = None =>
             \A r \in Runs : runs'[r].primary = i => runs[r].primary = i]_vars
  BY PrimaryWrittenOnce
<1> QED
  BY <1>1, InvariantHolds, PTL DEF Spec, StopBeatsLateStart

-----------------------------------------------------------------------------
(* The active input and the active turn of a control. *)

\* The confirmed turn of the input of a run is written once: a report that names
\* another turn is refused, and acknowledgements name inputs that started no run.
LEMMA ConfirmedOnce ==
    ASSUME IInv, [Next]_vars, NEW r \in Runs, Exists(r),
           intents[runs[r].primary].confirmed # None
    PROVE  intents'[runs[r].primary].confirmed = intents[runs[r].primary].confirmed
<1> DEFINE i == runs[r].primary
<1>1. i \in Intents /\ routed[i].action = "start"
  BY PrimaryInput
<1>r. intents \in [Intents -> IntentRow]
  BY DEF IInv, TypeOK
<1> HIDE DEF i
<1> SUFFICES intents'[i].confirmed = intents[i].confirmed
  BY DEF i
<1>2. ASSUME NEW j \in Intents, Enqueue(j) \/ ClientMessage(j) \/ Stop(j)
      PROVE  intents'[i].confirmed = intents[i].confirmed
  BY <1>1, <1>2, <1>r DEF Enqueue, ClientMessage, Stop, IntentRow
<1>3. ASSUME NEW s \in Runs, StartWorkerInput(s)
      PROVE  intents'[i].confirmed = intents[i].confirmed
  BY <1>1, <1>3, <1>r DEF StartWorkerInput, IntentRow
<1>4. ASSUME NEW s \in Runs, NEW t \in Turns, RecordSubmission(s, t)
      PROVE  intents'[i].confirmed = intents[i].confirmed
  BY <1>1, <1>4, <1>r DEF RecordSubmission, IntentRow
<1>5. ASSUME NEW s \in Runs, ConfirmTurn(s)
      PROVE  intents'[i].confirmed = intents[i].confirmed
  BY <1>1, <1>5, <1>r DEF ConfirmTurn, Reopenable, IntentRow, i
<1>6. ASSUME NEW j \in Intents, AckSteer(j) \/ AckInterrupt(j)
      PROVE  intents'[i].confirmed = intents[i].confirmed
  BY <1>1, <1>6, <1>r DEF AckSteer, AckInterrupt
<1>7. ASSUME NEW s \in Runs, NEW q \in Requests, RegisterInteractive(s, q)
      PROVE  intents'[i].confirmed = intents[i].confirmed
  BY <1>1, <1>7, <1>r DEF RegisterInteractive, IntentRow
<1>8. ASSUME NEW q \in Requests, TryResumeInteractive(q)
      PROVE  intents'[i].confirmed = intents[i].confirmed
  BY <1>1, <1>8, <1>r DEF TryResumeInteractive, IntentRow
<1>9. ASSUME NEW h \in Handlers, CommitFinish(h)
      PROVE  intents'[i].confirmed = intents[i].confirmed
  BY <1>1, <1>9, <1>r DEF CommitFinish, IntentRow
<1>10. CASE UNCHANGED intents
  BY <1>10
<1> QED
  BY <1>2, <1>3, <1>4, <1>5, <1>6, <1>7, <1>8, <1>9, <1>10
     DEF Next, InputStep, WorkerStep, ReportStep, InteractiveStep, FinishStep, vars, server,
         Fetch, Discard, Accept, Steer, Interrupt, StartTurn, TurnStarted, Conclude, SetThread,
         AnswerInteractive, ExpireInteractive, BeginFinish, AbortFinish

\* What is active after a step was active before it, or the step started the run
\* or confirmed the turn; the end of a run leaves nothing active on its control.
LEMMA ActiveWrites ==
    ASSUME IInv, [Next]_vars, NEW c \in Controls
    PROVE  /\ \/ controls'[c].activeIntent \in {None, controls[c].activeIntent}
              \/ \E r \in Runs : /\ StartWorkerInput(r)
                                 /\ c = ControlOf[Primary(r)]
                                 /\ controls'[c].activeIntent = Primary(r)
           /\ \/ controls'[c].activeTurn \in {None, controls[c].activeTurn}
              \/ \E r \in Runs : /\ ConfirmTurn(r)
                                 /\ c = ControlOf[runs[r].primary]
                                 /\ controls'[c].activeTurn = journal[r].confirmed
           /\ \A h \in Handlers : CommitFinish(h) /\ c = ControlOf[runs[handlers[h].run].primary] =>
                controls'[c].activeIntent = None /\ controls'[c].activeTurn = None
<1> DEFINE Same == /\ controls'[c].activeIntent = controls[c].activeIntent
                   /\ controls'[c].activeTurn = controls[c].activeTurn
<1>r. controls \in [Controls -> ControlRow]
  BY DEF IInv, TypeOK
<1>1. ASSUME NEW j \in Intents, Stop(j) PROVE Same
  BY <1>1, <1>r DEF Stop, ControlRow
<1>2. ASSUME NEW r \in Runs, StartWorkerInput(r)
      PROVE  \/ Same
             \/ /\ c = ControlOf[Primary(r)]
                /\ controls'[c].activeIntent = Primary(r)
                /\ controls'[c].activeTurn = controls[c].activeTurn
  BY <1>2, <1>r DEF StartWorkerInput, ControlRow
<1>3. ASSUME NEW r \in Runs, SetThread(r) PROVE Same
  BY <1>3, <1>r DEF SetThread, ControlRow
<1>4. ASSUME NEW r \in Runs, ConfirmTurn(r)
      PROVE  \/ Same
             \/ /\ c = ControlOf[runs[r].primary]
                /\ controls'[c].activeIntent = controls[c].activeIntent
                /\ controls'[c].activeTurn = journal[r].confirmed
  BY <1>4, <1>r DEF ConfirmTurn, ControlRow
<1>5. ASSUME NEW q \in Requests, TryResumeInteractive(q) PROVE Same
  BY <1>5, <1>r DEF TryResumeInteractive, ControlRow
<1>6. ASSUME NEW h \in Handlers, CommitFinish(h)
      PROVE  IF c = ControlOf[runs[handlers[h].run].primary]
             THEN controls'[c].activeIntent = None /\ controls'[c].activeTurn = None
             ELSE Same
  BY <1>6, <1>r DEF CommitFinish, Released
<1>7. ASSUME UNCHANGED controls PROVE Same
  BY <1>7
<1> HIDE DEF Same
<1>8. \/ Same
      \/ \E r \in Runs : StartWorkerInput(r) \/ ConfirmTurn(r)
      \/ \E h \in Handlers : CommitFinish(h)
  BY <1>1, <1>3, <1>5, <1>7
     DEF Next, InputStep, WorkerStep, ReportStep, InteractiveStep, FinishStep, vars, server,
         Enqueue, ClientMessage, Fetch, Discard, Accept, Steer, Interrupt, StartTurn,
         TurnStarted, Conclude, RecordSubmission, AckSteer, AckInterrupt, RegisterInteractive,
         AnswerInteractive, ExpireInteractive, BeginFinish, AbortFinish
<1> QED
  BY <1>2, <1>4, <1>6, <1>8 DEF Same

\* An active input or turn keeps its unfinished run until the end of that run,
\* which clears both.
LEMMA ActiveStep ==
    ASSUME IInv, [Next]_vars, ActiveMeansUnfinished
    PROVE  ActiveMeansUnfinished'
<1> SUFFICES ASSUME NEW c \in Controls
             PROVE  /\ controls'[c].activeIntent # None =>
                          \E r \in RunsOf(c)' : /\ Unfinished(r)'
                                                /\ runs'[r].primary = controls'[c].activeIntent
                    /\ controls'[c].activeTurn # None =>
                          \E r \in RunsOf(c)' :
                              /\ Unfinished(r)'
                              /\ intents'[runs'[r].primary].confirmed = controls'[c].activeTurn
  BY DEF ActiveMeansUnfinished
<1>1. ASSUME NEW r \in RunsOf(c), Unfinished(r),
             controls'[c].activeIntent # None \/ controls'[c].activeTurn # None
      PROVE  /\ r \in RunsOf(c)' /\ Unfinished(r)'
             /\ runs'[r].primary = runs[r].primary
  <2>1. r \in Runs /\ c = ControlOf[runs[r].primary]
    BY DEF RunsOf
  <2>2. ~ \E h \in Handlers : CommitFinish(h) /\ handlers[h].run = r
    BY <1>1, <2>1, ActiveWrites
  <2> QED
    BY <1>1, <2>1, <2>2, UnfinishedStays DEF RunsOf, Unfinished, Exists
<1>2. ASSUME NEW r \in Runs, StartWorkerInput(r), c = ControlOf[Primary(r)]
      PROVE  /\ r \in RunsOf(c)' /\ Unfinished(r)'
             /\ runs'[r].primary = Primary(r)
  <2>1. runs'[r] = [status |-> "starting", primary |-> Primary(r), slot |-> 1, appends |-> 0]
    BY <1>2 DEF StartWorkerInput
  <2> QED
    BY <1>2, <2>1 DEF RunsOf, Unfinished, Exists, Terminal
<1>3. ASSUME NEW r \in Runs, ConfirmTurn(r), c = ControlOf[runs[r].primary]
      PROVE  /\ r \in RunsOf(c) /\ Unfinished(r)
             /\ intents'[runs[r].primary].confirmed = journal[r].confirmed
  <2>1. runs[r].primary \in Intents
    BY <1>3, PrimaryInput DEF ConfirmTurn
  <2> QED
    BY <1>3, <2>1 DEF ConfirmTurn, Reopenable, RunsOf, Unfinished, IInv, TypeOK, IntentRow
<1>4. ASSUME controls'[c].activeIntent # None
      PROVE  \E r \in RunsOf(c)' : /\ Unfinished(r)'
                                   /\ runs'[r].primary = controls'[c].activeIntent
  BY <1>1, <1>2, <1>4, ActiveWrites DEF ActiveMeansUnfinished, RunsOf
<1>5. ASSUME controls'[c].activeTurn # None
      PROVE  \E r \in RunsOf(c)' :
                 /\ Unfinished(r)'
                 /\ intents'[runs'[r].primary].confirmed = controls'[c].activeTurn
  <2>1. CASE controls'[c].activeTurn = controls[c].activeTurn
    <3>1. PICK r \in RunsOf(c) :
             Unfinished(r) /\ intents[runs[r].primary].confirmed = controls[c].activeTurn
      BY <1>5, <2>1 DEF ActiveMeansUnfinished
    <3>2. intents'[runs[r].primary].confirmed = controls[c].activeTurn
      BY <1>5, <2>1, <3>1, ConfirmedOnce DEF RunsOf
    <3> QED
      BY <1>1, <1>5, <2>1, <3>1, <3>2
  <2>2. ASSUME NEW r \in Runs, ConfirmTurn(r), c = ControlOf[runs[r].primary],
               controls'[c].activeTurn = journal[r].confirmed
        PROVE  \E s \in RunsOf(c)' :
                   /\ Unfinished(s)'
                   /\ intents'[runs'[s].primary].confirmed = controls'[c].activeTurn
    BY <1>1, <1>3, <1>5, <2>2
  <2> QED
    BY <1>5, <2>1, <2>2, ActiveWrites
<1> QED
  BY <1>4, <1>5

\* No client is shown an active input or turn of a run that has ended, however
\* starts displace each other and terminal requests repeat.
THEOREM ActiveCorrect == Spec => []ActiveMeansUnfinished
<1>1. Init => ActiveMeansUnfinished
  BY DEF Init, ActiveMeansUnfinished
<1>2. ActiveMeansUnfinished /\ IInv /\ [Next]_vars => ActiveMeansUnfinished'
  BY ActiveStep
<1> QED
  BY <1>1, <1>2, InvariantHolds, PTL DEF Spec

-----------------------------------------------------------------------------
(* Steered inputs.  The end of a run closes the steers of a turn, by the id of
   the turn: that they are the steers of the run is a matter of what the Worker
   recorded, of what reports copied to Control, and of when. *)

\* A native turn is started by one run.
StartedOnce ==
    \A r, s \in Runs : \A t \in journal[r].started \cap journal[s].started : r = s

\* Every turn id in the Journal of a run, in the row of its input and in a
\* terminal request about it is one that the run started.
TurnsOfRun ==
    /\ \A r \in Runs :
          /\ journal[r].turn \in {None} \cup journal[r].started
          /\ journal[r].confirmed \in {None} \cup journal[r].started
          /\ Exists(r) =>
                intents[runs[r].primary].confirmed \in {None} \cup journal[r].started
    /\ \A h \in Handlers : handlers[h].run # None =>
          handlers[h].turn \in {None} \cup journal[handlers[h].run].started

\* An input in the queue names no turn; one acknowledged as a steer runs or has
\* ended, under the turn it was steered into, which its run had started.
TurnsOfSteers ==
    \A i \in Intents :
        /\ intents[i].status \in {"absent", "queued"} => intents[i].confirmed = None
        /\ routed[i].action = "steer" => routed[i].turn \in journal[routed[i].run].started
        /\ intents[i].resolved = "steer" =>
              /\ intents[i].confirmed = routed[i].turn
              /\ intents[i].status \in {"running"} \cup Terminal

\* The inductive invariant of steered inputs, on top of IInv.
SteerInv ==
    /\ StartedOnce
    /\ TurnsOfRun
    /\ TurnsOfSteers
    /\ SteerEndsWithRun

\* What the Worker has recorded it does not take back.
LEMMA RecordsStay ==
    ASSUME IInv, [Next]_vars
    PROVE  /\ \A r \in Runs : journal[r].started \subseteq journal'[r].started
           /\ \A r \in Runs : Accepted(r) => journal'[r].input = journal[r].input
           /\ \A i \in Intents : routed[i].action # None => routed'[i] = routed[i]
<1> DEFINE Kept == \A s \in Runs : /\ journal[s].started \subseteq journal'[s].started
                                   /\ Accepted(s) => journal'[s].input = journal[s].input
<1>r. journal \in [Runs -> Journal] /\ routed \in [Intents -> Decision]
  BY DEF IInv, TypeOK
<1>u. \A i \in offered : routed[i].action = None
  BY DEF IInv, DecidedOnce
<1>1. ASSUME NEW r \in Runs, NEW i \in Intents, Accept(r, i)
      PROVE  /\ Kept
             /\ \A j \in Intents : routed[j].action # None => routed'[j] = routed[j]
  BY <1>1, <1>r, <1>u DEF Accept, Accepted, Journal
<1>2. ASSUME NEW r \in Runs, NEW i \in Intents, Steer(r, i) \/ Interrupt(r, i)
      PROVE  /\ Kept
             /\ \A j \in Intents : routed[j].action # None => routed'[j] = routed[j]
  BY <1>2, <1>r, <1>u DEF Steer, Interrupt, Journal
<1>3. ASSUME NEW r \in Runs, NEW t \in Turns, StartTurn(r, t)
      PROVE  Kept /\ UNCHANGED routed
  BY <1>3, <1>r DEF StartTurn, Journal
<1>4. ASSUME NEW r \in Runs, TurnStarted(r)
      PROVE  Kept /\ UNCHANGED routed
  BY <1>4, <1>r DEF TurnStarted, Journal
<1>5. ASSUME NEW r \in Runs, NEW outcome, Conclude(r, outcome)
      PROVE  Kept /\ UNCHANGED routed
  BY <1>5, <1>r DEF Conclude, Journal
<1>6. ASSUME UNCHANGED <<journal, routed>> PROVE Kept /\ UNCHANGED routed
  BY <1>6
<1> HIDE DEF Kept
<1>7. \/ Kept /\ UNCHANGED routed
      \/ \E r \in Runs, i \in Intents : Accept(r, i) \/ Steer(r, i) \/ Interrupt(r, i)
  BY <1>3, <1>4, <1>5, <1>6
     DEF Next, InputStep, WorkerStep, ReportStep, InteractiveStep, FinishStep, vars,
         worker, Enqueue, ClientMessage, Stop, Fetch, Discard, StartWorkerInput, SetThread,
         RecordSubmission, ConfirmTurn, AckSteer, AckInterrupt, RegisterInteractive,
         AnswerInteractive, ExpireInteractive, TryResumeInteractive, BeginFinish, CommitFinish,
         AbortFinish
<1>8. Kept /\ \A i \in Intents : routed[i].action # None => routed'[i] = routed[i]
  BY <1>1, <1>2, <1>7
<1> QED
  BY <1>8 DEF Kept

\* A new turn is one that no run has started.
LEMMA StartedOnceStep ==
    ASSUME IInv, StartedOnce, [Next]_vars
    PROVE  StartedOnce'
<1>r. journal \in [Runs -> Journal]
  BY DEF IInv, TypeOK
<1>1. ASSUME NEW r \in Runs, NEW t \in Turns, StartTurn(r, t) PROVE StartedOnce'
  <2>1. \A s \in Runs : \A v \in journal'[s].started :
           v \in journal[s].started \/ (s = r /\ v = t)
    BY <1>1, <1>r DEF StartTurn, Journal
  <2>2. \A s \in Runs : t \notin journal[s].started
    BY <1>1 DEF StartTurn
  <2> SUFFICES ASSUME NEW p \in Runs, NEW q \in Runs,
                      NEW u \in journal'[p].started \cap journal'[q].started
               PROVE  p = q
    BY DEF StartedOnce
  <2>3. CASE u = t
    BY <2>1, <2>2, <2>3
  <2>4. CASE u # t
    <3>1. u \in journal[p].started \cap journal[q].started
      BY <2>1, <2>4
    <3> QED
      BY <3>1 DEF StartedOnce
  <2> QED
    BY <2>3, <2>4
<1>2. ASSUME \A s \in Runs : journal'[s].started = journal[s].started PROVE StartedOnce'
  BY <1>2 DEF StartedOnce
<1>3. ASSUME NEW r \in Runs, TurnStarted(r) PROVE StartedOnce'
  BY <1>2, <1>3, <1>r DEF TurnStarted, Journal
<1>4. ASSUME NEW r \in Runs, NEW outcome, Conclude(r, outcome) PROVE StartedOnce'
  BY <1>2, <1>4, <1>r DEF Conclude, Journal
<1>5. ASSUME NEW r \in Runs, NEW i \in Intents, Accept(r, i) \/ Interrupt(r, i)
      PROVE  StartedOnce'
  BY <1>2, <1>5, <1>r DEF Accept, Interrupt, Journal
<1>6. ASSUME UNCHANGED journal PROVE StartedOnce'
  BY <1>2, <1>6
<1> QED
  BY <1>1, <1>3, <1>4, <1>5, <1>6
     DEF Next, InputStep, WorkerStep, ReportStep, InteractiveStep, FinishStep, vars, worker,
         Enqueue, ClientMessage, Stop, Fetch, Discard, Steer, StartWorkerInput, SetThread,
         RecordSubmission, ConfirmTurn, AckSteer, AckInterrupt, RegisterInteractive,
         AnswerInteractive, ExpireInteractive, TryResumeInteractive, BeginFinish, CommitFinish,
         AbortFinish

\* The Journal of a run names turns of that run.
LEMMA JournalTurns ==
    ASSUME IInv, TurnsOfRun, [Next]_vars, NEW r \in Runs
    PROVE  /\ journal'[r].turn \in {None} \cup journal'[r].started
           /\ journal'[r].confirmed \in {None} \cup journal'[r].started
<1> DEFINE Goal == /\ journal'[r].turn \in {None} \cup journal'[r].started
                   /\ journal'[r].confirmed \in {None} \cup journal'[r].started
<1>r. /\ journal \in [Runs -> Journal]
      /\ journal[r].turn \in {None} \cup journal[r].started
      /\ journal[r].confirmed \in {None} \cup journal[r].started
  BY DEF IInv, TypeOK, TurnsOfRun
<1>1. ASSUME NEW s \in Runs, NEW t \in Turns, StartTurn(s, t) PROVE Goal
  BY <1>1, <1>r DEF StartTurn, Journal
<1>2. ASSUME NEW s \in Runs, TurnStarted(s) PROVE Goal
  BY <1>2, <1>r DEF TurnStarted, Journal
<1>3. ASSUME NEW s \in Runs, NEW outcome, Conclude(s, outcome) PROVE Goal
  BY <1>3, <1>r DEF Conclude, Journal
<1>4. ASSUME NEW s \in Runs, NEW i \in Intents, Accept(s, i) \/ Interrupt(s, i) PROVE Goal
  BY <1>4, <1>r DEF Accept, Interrupt, Journal
<1>5. ASSUME UNCHANGED journal PROVE Goal
  BY <1>5, <1>r
<1> QED
  BY <1>1, <1>2, <1>3, <1>4, <1>5
     DEF Next, InputStep, WorkerStep, ReportStep, InteractiveStep, FinishStep, vars, worker,
         Enqueue, ClientMessage, Stop, Fetch, Discard, Steer, StartWorkerInput, SetThread,
         RecordSubmission, ConfirmTurn, AckSteer, AckInterrupt, RegisterInteractive,
         AnswerInteractive, ExpireInteractive, TryResumeInteractive, BeginFinish, CommitFinish,
         AbortFinish

\* Who writes the confirmed turn of an input.
LEMMA ConfirmedWrites ==
    ASSUME IInv, [Next]_vars, NEW i \in Intents, intents'[i].confirmed # intents[i].confirmed
    PROVE  /\ intents'[i].status \notin {"absent", "queued"}
           /\ \/ /\ routed[i].action \in {"steer", "interrupt"}
                 /\ intents'[i].confirmed = routed[i].turn
              \/ \E r \in Runs : /\ Exists(r) /\ runs[r].primary = i
                                 /\ journal[r].confirmed # None
                                 /\ intents'[i].confirmed = journal[r].confirmed
<1>r. intents \in [Intents -> IntentRow]
  BY DEF IInv, TypeOK
<1>1. ASSUME NEW j \in Intents, Enqueue(j) \/ ClientMessage(j) \/ Stop(j) PROVE FALSE
  BY <1>1, <1>r DEF Enqueue, ClientMessage, Stop, IntentRow
<1>2. ASSUME NEW s \in Runs, StartWorkerInput(s) PROVE FALSE
  BY <1>2, <1>r DEF StartWorkerInput, IntentRow
<1>3. ASSUME NEW s \in Runs, NEW t \in Turns, RecordSubmission(s, t) PROVE FALSE
  BY <1>3, <1>r DEF RecordSubmission, IntentRow
<1>4. ASSUME NEW s \in Runs, ConfirmTurn(s)
      PROVE  /\ Exists(s) /\ runs[s].primary = i /\ journal[s].confirmed # None
             /\ intents'[i].confirmed = journal[s].confirmed
             /\ intents'[i].status = "running"
  <2>1. runs[s].primary \in Intents
    BY <1>4, PrimaryInput DEF ConfirmTurn
  <2> QED
    BY <1>4, <2>1, <1>r DEF ConfirmTurn, IntentRow
<1>5. ASSUME NEW j \in Intents, AckSteer(j)
      PROVE  /\ i = j /\ routed[i].action = "steer"
             /\ intents'[i].confirmed = routed[i].turn /\ intents'[i].status = "running"
  BY <1>5, <1>r DEF AckSteer, IntentRow
<1>6. ASSUME NEW j \in Intents, AckInterrupt(j)
      PROVE  /\ i = j /\ routed[i].action = "interrupt"
             /\ intents'[i].confirmed = routed[i].turn /\ intents'[i].status = "completed"
  BY <1>6, <1>r DEF AckInterrupt, IntentRow
<1>7. ASSUME NEW s \in Runs, NEW q \in Requests, RegisterInteractive(s, q) PROVE FALSE
  BY <1>7, <1>r DEF RegisterInteractive, IntentRow
<1>8. ASSUME NEW q \in Requests, TryResumeInteractive(q) PROVE FALSE
  BY <1>8, <1>r DEF TryResumeInteractive, IntentRow
<1>9. ASSUME NEW h \in Handlers, CommitFinish(h) PROVE FALSE
  BY <1>9, <1>r DEF CommitFinish, IntentRow
<1>10. ASSUME UNCHANGED intents PROVE FALSE
  BY <1>10
<1> QED
  BY <1>1, <1>2, <1>3, <1>4, <1>5, <1>6, <1>7, <1>8, <1>9, <1>10
     DEF Next, InputStep, WorkerStep, ReportStep, InteractiveStep, FinishStep, vars, server,
         Fetch, Discard, Accept, Steer, Interrupt, StartTurn, TurnStarted, Conclude, SetThread,
         AnswerInteractive, ExpireInteractive, BeginFinish, AbortFinish

\* A run row keeps its input; a new one has the input of its Journal, from the queue.
LEMMA RunRowsStay ==
    ASSUME IInv, [Next]_vars, NEW r \in Runs, Exists(r)'
    PROVE  \/ Exists(r) /\ runs'[r].primary = runs[r].primary
           \/ intents[runs'[r].primary].status = "queued" /\ UNCHANGED journal
<1>r. runs \in [Runs -> RunRow]
  BY DEF IInv, TypeOK
<1>1. CASE Exists(r)
  <2>1. Accepted(r) /\ runs[r].primary = journal[r].input
    BY <1>1, PrimaryInput, NoneAssumption DEF Accepted
  <2>2. runs'[r].primary = journal'[r].input
    BY InvariantStep DEF IInv, References
  <2> QED
    BY <1>1, <2>1, <2>2, RecordsStay
<1>2. CASE ~Exists(r)
  <2>1. ASSUME NEW s \in Runs, StartWorkerInput(s)
        PROVE  intents[runs'[r].primary].status = "queued" /\ UNCHANGED journal
    <3>1. r = s
      BY <1>2, <2>1, <1>r DEF StartWorkerInput, Displaced, RunsOf, Exists
    <3> QED
      BY <2>1, <3>1 DEF StartWorkerInput, Startable, worker
  <2>2. ASSUME NEW s \in Runs, Exists(s), \A o \in Runs \ {s} : runs'[o].status = runs[o].status
        PROVE  FALSE
    BY <1>2, <2>2 DEF Exists
  <2>3. ASSUME NEW s \in Runs, NEW t \in Turns, RecordSubmission(s, t) PROVE FALSE
    BY <2>2, <2>3, <1>r DEF RecordSubmission
  <2>4. ASSUME NEW s \in Runs, ConfirmTurn(s) PROVE FALSE
    BY <2>2, <2>4, <1>r DEF ConfirmTurn
  <2>5. ASSUME NEW i \in Intents, AckSteer(i) PROVE FALSE
    BY <1>2, <2>5, <1>r DEF AckSteer, Exists, RunRow
  <2>6. ASSUME NEW s \in Runs, NEW q \in Requests, RegisterInteractive(s, q) PROVE FALSE
    BY <2>2, <2>6, <1>r DEF RegisterInteractive, Waiting
  <2>7. ASSUME NEW q \in Requests, TryResumeInteractive(q) PROVE FALSE
    <3>1. requests[q].run \in Runs /\ Exists(requests[q].run)
      BY <2>7 DEF TryResumeInteractive, Answered, IInv, References
    <3> QED
      BY <2>2, <2>7, <3>1, <1>r DEF TryResumeInteractive
  <2>8. ASSUME NEW h \in Handlers, CommitFinish(h) PROVE FALSE
    <3>1. handlers[h].run \in Runs /\ Exists(handlers[h].run)
      BY <2>8 DEF CommitFinish, Idle, IInv, References
    <3> QED
      BY <2>2, <2>8, <3>1, <1>r DEF CommitFinish, Ended
  <2>9. ~UNCHANGED runs
    BY <1>2 DEF Exists
  <2> QED
    BY <2>1, <2>3, <2>4, <2>5, <2>6, <2>7, <2>8, <2>9
       DEF Next, InputStep, WorkerStep, ReportStep, InteractiveStep, FinishStep, vars, server,
           Enqueue, ClientMessage, Stop, Fetch, Discard, Accept, Steer, Interrupt, StartTurn,
           TurnStarted, Conclude, SetThread, AckInterrupt, AnswerInteractive, ExpireInteractive,
           BeginFinish, AbortFinish
<1> QED
  BY <1>1, <1>2

\* A run, its input and the requests about it name turns of that run.
LEMMA TurnsOfRunStep ==
    ASSUME IInv, TurnsOfRun, TurnsOfSteers, [Next]_vars
    PROVE  TurnsOfRun'
<1>1. ASSUME NEW r \in Runs, Exists(r)'
      PROVE  intents'[runs'[r].primary].confirmed \in {None} \cup journal'[r].started
  <2> DEFINE i == runs'[r].primary
  <2>1. i \in Intents /\ routed'[i].action = "start" /\ routed'[i].run = r
    <3>1. /\ i \in Intents /\ i = journal'[r].input
          /\ Accepted(r)' => /\ routed'[Primary(r)'].action = "start"
                             /\ routed'[Primary(r)'].run = r
      BY <1>1, InvariantStep DEF IInv, References, DecidedOnce
    <3> QED
      BY <3>1, NoneAssumption DEF Accepted, Primary
  <2>2. intents[i].confirmed \in {None} \cup journal[r].started
    BY <1>1, <2>1, RunRowsStay DEF TurnsOfRun, TurnsOfSteers
  <2>3. CASE intents'[i].confirmed = intents[i].confirmed
    BY <2>2, <2>3, RecordsStay
  <2>4. CASE intents'[i].confirmed # intents[i].confirmed
    <3>1. routed[i].action \notin {"steer", "interrupt"}
      BY <2>1, RecordsStay, NoneAssumption
    <3>2. PICK s \in Runs : /\ Exists(s) /\ runs[s].primary = i
                            /\ journal[s].confirmed # None
                            /\ intents'[i].confirmed = journal[s].confirmed
      BY <2>1, <2>4, <3>1, ConfirmedWrites
    <3>3. s = r
      BY <3>2, <2>1, PrimaryInput, RecordsStay, NoneAssumption
    <3>4. journal[r].confirmed \in {None} \cup journal[r].started
      BY DEF TurnsOfRun
    <3> QED
      BY <3>2, <3>3, <3>4, RecordsStay
  <2> QED
    BY <2>3, <2>4
<1>2. ASSUME NEW h \in Handlers, handlers'[h].run # None
      PROVE  handlers'[h].turn \in {None} \cup journal'[handlers'[h].run].started
  <2>r. handlers \in [Handlers -> Handling]
    BY DEF IInv, TypeOK
  <2>1. ASSUME NEW k \in Handlers, NEW r \in Runs, BeginFinish(k, r)
        PROVE  \/ handlers'[h] = handlers[h]
               \/ /\ handlers'[h].run = r
                  /\ handlers'[h].turn \in {journal[r].turn, intents[runs[r].primary].confirmed}
                  /\ Exists(r)
    BY <2>1, <2>r DEF BeginFinish, Unfinished
  <2>2. ASSUME NEW k \in Handlers, CommitFinish(k) \/ AbortFinish(k)
        PROVE  handlers'[h] = handlers[h]
    BY <1>2, <2>2, <2>r DEF CommitFinish, AbortFinish
  <2>3. \/ handlers'[h] = handlers[h]
        \/ \E r \in Runs :
              /\ handlers'[h].run = r
              /\ handlers'[h].turn \in {journal[r].turn, intents[runs[r].primary].confirmed}
              /\ Exists(r)
    BY <2>1, <2>2
       DEF Next, InputStep, WorkerStep, ReportStep, InteractiveStep, FinishStep, vars, server,
           Enqueue, ClientMessage, Stop, Fetch, Discard, Accept, Steer, Interrupt, StartTurn,
           TurnStarted, Conclude, StartWorkerInput, SetThread, RecordSubmission, ConfirmTurn,
           AckSteer, AckInterrupt, RegisterInteractive, AnswerInteractive, ExpireInteractive,
           TryResumeInteractive
  <2>4. CASE handlers'[h] = handlers[h]
    <3>1. handlers[h].run \in Runs
      BY <1>2, <2>4 DEF IInv, References
    <3>2. handlers[h].turn \in {None} \cup journal[handlers[h].run].started
      BY <1>2, <2>4 DEF TurnsOfRun
    <3> QED
      BY <2>4, <3>1, <3>2, RecordsStay
  <2>5. ASSUME NEW r \in Runs, handlers'[h].run = r, Exists(r),
               handlers'[h].turn \in {journal[r].turn, intents[runs[r].primary].confirmed}
        PROVE  handlers'[h].turn \in {None} \cup journal'[r].started
    BY <2>5, RecordsStay DEF TurnsOfRun
  <2> QED
    BY <2>3, <2>4, <2>5
<1> QED
  BY <1>1, <1>2, JournalTurns DEF TurnsOfRun

\* An input that was acknowledged as a steer is written by another acknowledgement
\* or by a terminal transaction that closes the steers of its turn.
LEMMA SteerWrites ==
    ASSUME IInv, TurnsOfSteers, [Next]_vars, NEW i \in Intents, intents'[i].resolved = "steer"
    PROVE  \/ intents'[i] = intents[i]
           \/ /\ routed[i].action = "steer"
              /\ intents'[i].confirmed = routed[i].turn /\ intents'[i].status = "running"
           \/ \E h \in Handlers :
                /\ CommitFinish(h)
                /\ intents[i].resolved = "steer"
                /\ i \in ClosedBy(runs[handlers[h].run].primary, handlers[h].turn)
                /\ intents'[i] = [intents[i] EXCEPT !.status = journal[handlers[h].run].outcome]
<1>r. intents \in [Intents -> IntentRow]
  BY DEF IInv, TypeOK
<1>s. /\ intents[i].resolved = "steer" =>
            routed[i].action = "steer" /\ intents[i].status \notin {"absent", "queued"}
      /\ \A r \in Runs : Exists(r) => runs[r].primary \in Intents
      /\ \A r \in Runs : Exists(r) => routed[runs[r].primary].action = "start"
  BY PrimaryInput DEF IInv, DecidedOnce, TurnsOfSteers, Terminal
<1>1. ASSUME NEW j \in Intents, Enqueue(j) \/ ClientMessage(j) \/ Stop(j)
      PROVE  intents'[i] = intents[i]
  <2>1. intents[j].status = "absent"
    BY <1>1, IntentsAssumption DEF Enqueue, ClientMessage, Stop, IsNext, Created
  <2>2. CASE Stop(j)
    BY <2>1, <2>2, <1>r, <1>s DEF Stop, Cancelable, IntentRow
  <2> QED
    BY <1>1, <2>1, <2>2, <1>r, <1>s DEF Enqueue, ClientMessage, IntentRow
<1>2. ASSUME NEW s \in Runs, StartWorkerInput(s) PROVE intents'[i] = intents[i]
  BY <1>2, <1>r DEF StartWorkerInput, IntentRow
<1>3. ASSUME NEW s \in Runs, NEW t \in Turns, RecordSubmission(s, t)
      PROVE  intents'[i] = intents[i]
  BY <1>3, <1>r, <1>s DEF RecordSubmission, IntentRow
<1>4. ASSUME NEW s \in Runs, ConfirmTurn(s) PROVE intents'[i] = intents[i]
  BY <1>4, <1>r, <1>s DEF ConfirmTurn, IntentRow
<1>5. ASSUME NEW j \in Intents, AckSteer(j)
      PROVE  \/ intents'[i] = intents[i]
             \/ /\ routed[i].action = "steer"
                /\ intents'[i].confirmed = routed[i].turn /\ intents'[i].status = "running"
  BY <1>5, <1>r DEF AckSteer, IntentRow
<1>6. ASSUME NEW j \in Intents, AckInterrupt(j) PROVE intents'[i] = intents[i]
  BY <1>6, <1>r DEF AckInterrupt, IntentRow
<1>7. ASSUME NEW s \in Runs, NEW q \in Requests, RegisterInteractive(s, q)
      PROVE  intents'[i] = intents[i]
  BY <1>7, <1>r, <1>s DEF RegisterInteractive, IntentRow
<1>8. ASSUME NEW q \in Requests, TryResumeInteractive(q) PROVE intents'[i] = intents[i]
  <2>1. requests[q].run \in Runs /\ Exists(requests[q].run)
    BY <1>8 DEF TryResumeInteractive, Answered, IInv, References
  <2> QED
    BY <1>8, <2>1, <1>r, <1>s DEF TryResumeInteractive, IntentRow
<1>9. ASSUME NEW h \in Handlers, CommitFinish(h)
      PROVE  \/ intents'[i] = intents[i]
             \/ /\ intents[i].resolved = "steer"
                /\ i \in ClosedBy(runs[handlers[h].run].primary, handlers[h].turn)
                /\ intents'[i] = [intents[i] EXCEPT !.status = journal[handlers[h].run].outcome]
  <2>1. handlers[h].run \in Runs /\ Exists(handlers[h].run)
    BY <1>9 DEF CommitFinish, Idle, IInv, References
  <2>2. intents'[i].resolved = intents[i].resolved
    BY <1>9, <1>r DEF CommitFinish, IntentRow
  <2> QED
    BY <1>9, <2>1, <2>2, <1>s DEF CommitFinish
<1>10. ASSUME UNCHANGED intents PROVE intents'[i] = intents[i]
  BY <1>10
<1> QED
  BY <1>1, <1>2, <1>3, <1>4, <1>5, <1>6, <1>7, <1>8, <1>9, <1>10
     DEF Next, InputStep, WorkerStep, ReportStep, InteractiveStep, FinishStep, vars, server,
         Fetch, Discard, Accept, Steer, Interrupt, StartTurn, TurnStarted, Conclude, SetThread,
         AnswerInteractive, ExpireInteractive, BeginFinish, AbortFinish

\* An input is in the queue only if it was: nothing puts it back.
LEMMA QueueStays ==
    ASSUME IInv, [Next]_vars, NEW i \in Intents, intents'[i].status \in {"absent", "queued"}
    PROVE  intents[i].status \in {"absent", "queued"}
<1>r. intents \in [Intents -> IntentRow]
  BY DEF IInv, TypeOK
<1>1. ASSUME NEW j \in Intents, Enqueue(j) \/ ClientMessage(j) \/ Stop(j)
      PROVE  intents[i].status \in {"absent", "queued"}
  <2>1. intents[j].status = "absent"
    BY <1>1, IntentsAssumption DEF Enqueue, ClientMessage, Stop, IsNext, Created
  <2> QED
    BY <1>1, <2>1, <1>r DEF Enqueue, ClientMessage, Stop, IntentRow
<1>2. ASSUME NEW s \in Runs, StartWorkerInput(s) PROVE intents[i].status \in {"absent", "queued"}
  BY <1>2, <1>r DEF StartWorkerInput, IntentRow
<1>3. ASSUME NEW s \in Runs, NEW t \in Turns, RecordSubmission(s, t)
      PROVE  intents[i].status \in {"absent", "queued"}
  BY <1>3, <1>r DEF RecordSubmission, IntentRow
<1>4. ASSUME NEW s \in Runs, ConfirmTurn(s) PROVE intents[i].status \in {"absent", "queued"}
  BY <1>4, <1>r DEF ConfirmTurn, IntentRow
<1>5. ASSUME NEW j \in Intents, AckSteer(j) \/ AckInterrupt(j)
      PROVE  intents[i].status \in {"absent", "queued"}
  BY <1>5, <1>r DEF AckSteer, AckInterrupt, IntentRow
<1>6. ASSUME NEW s \in Runs, NEW q \in Requests, RegisterInteractive(s, q)
      PROVE  intents[i].status \in {"absent", "queued"}
  BY <1>6, <1>r DEF RegisterInteractive, IntentRow
<1>7. ASSUME NEW q \in Requests, TryResumeInteractive(q)
      PROVE  intents[i].status \in {"absent", "queued"}
  BY <1>7, <1>r DEF TryResumeInteractive, IntentRow
<1>8. ASSUME NEW h \in Handlers, CommitFinish(h)
      PROVE  intents[i].status \in {"absent", "queued"}
  <2>1. journal[handlers[h].run].outcome \in Terminal
    BY <1>8 DEF CommitFinish, Idle, IInv, References
  <2>2. intents'[i].status \in {intents[i].status, journal[handlers[h].run].outcome}
    BY <1>8, <1>r DEF CommitFinish, IntentRow
  <2> QED
    BY <2>1, <2>2 DEF Terminal
<1>9. CASE UNCHANGED intents
  BY <1>9
<1> QED
  BY <1>1, <1>2, <1>3, <1>4, <1>5, <1>6, <1>7, <1>8, <1>9
     DEF Next, InputStep, WorkerStep, ReportStep, InteractiveStep, FinishStep, vars, server,
         Fetch, Discard, Accept, Steer, Interrupt, StartTurn, TurnStarted, Conclude, SetThread,
         AnswerInteractive, ExpireInteractive, BeginFinish, AbortFinish

\* An input leaves the queue for good, and reports keep the turn of a steer.
LEMMA TurnsOfSteersStep ==
    ASSUME IInv, TurnsOfRun, TurnsOfSteers, [Next]_vars
    PROVE  TurnsOfSteers'
<1> SUFFICES ASSUME NEW i \in Intents
             PROVE  /\ intents'[i].status \in {"absent", "queued"} => intents'[i].confirmed = None
                    /\ routed'[i].action = "steer" =>
                          routed'[i].turn \in journal'[routed'[i].run].started
                    /\ intents'[i].resolved = "steer" =>
                          /\ intents'[i].confirmed = routed'[i].turn
                          /\ intents'[i].status \in {"running"} \cup Terminal
  BY DEF TurnsOfSteers
<1>1. ASSUME intents'[i].status \in {"absent", "queued"}
      PROVE  intents'[i].confirmed = None
  BY <1>1, QueueStays, ConfirmedWrites DEF TurnsOfSteers
<1>2. ASSUME routed'[i].action = "steer"
      PROVE  routed'[i].turn \in journal'[routed'[i].run].started
  <2>1. CASE routed'[i] = routed[i]
    <3>1. routed[i].run \in Runs
      BY <1>2, <2>1, NoneAssumption DEF IInv, References
    <3> QED
      BY <1>2, <2>1, <3>1, RecordsStay DEF TurnsOfSteers
  <2>2. ASSUME NEW r \in Runs, NEW j \in Intents, Steer(r, j), i = j
        PROVE  routed'[i].turn \in journal'[routed'[i].run].started
    BY <2>2 DEF Steer, TurnsOfRun, IInv, TypeOK
  <2>3. \/ routed'[i] = routed[i]
        \/ \E r \in Runs, j \in Intents : Steer(r, j) /\ i = j
    <3>r. routed \in [Intents -> Decision]
      BY DEF IInv, TypeOK
    <3>1. ASSUME NEW r \in Runs, NEW j \in Intents, Accept(r, j)
          PROVE  routed'[i] = routed[i]
      BY <1>2, <3>1, <3>r DEF Accept
    <3>2. ASSUME NEW r \in Runs, NEW j \in Intents, Interrupt(r, j)
          PROVE  routed'[i] = routed[i]
      BY <1>2, <3>2, <3>r DEF Interrupt
    <3>3. ASSUME NEW r \in Runs, NEW j \in Intents, Steer(r, j)
          PROVE  routed'[i] = routed[i] \/ i = j
      BY <3>3, <3>r DEF Steer
    <3>4. ASSUME UNCHANGED routed PROVE routed'[i] = routed[i]
      BY <3>4
    <3> QED
      BY <3>1, <3>2, <3>3, <3>4
     DEF Next, InputStep, WorkerStep, ReportStep, InteractiveStep, FinishStep, vars, worker,
         Enqueue, ClientMessage, Stop, Fetch, Discard, StartTurn,
         TurnStarted, Conclude, StartWorkerInput, SetThread, RecordSubmission, ConfirmTurn,
         AckSteer, AckInterrupt, RegisterInteractive, AnswerInteractive, ExpireInteractive,
         TryResumeInteractive, BeginFinish, CommitFinish, AbortFinish
  <2> QED
    BY <2>1, <2>2, <2>3
<1>3. ASSUME intents'[i].resolved = "steer"
      PROVE  /\ intents'[i].confirmed = routed'[i].turn
             /\ intents'[i].status \in {"running"} \cup Terminal
  <2>1. CASE intents'[i] = intents[i]
    <3>1. routed[i].action = "steer"
      BY <1>3, <2>1 DEF IInv, DecidedOnce
    <3> QED
      BY <1>3, <2>1, <3>1, RecordsStay, NoneAssumption DEF TurnsOfSteers
  <2>2. CASE /\ routed[i].action = "steer"
             /\ intents'[i].confirmed = routed[i].turn /\ intents'[i].status = "running"
    BY <2>2, RecordsStay, NoneAssumption
  <2>3. ASSUME NEW h \in Handlers, CommitFinish(h), intents[i].resolved = "steer",
               intents'[i] = [intents[i] EXCEPT !.status = journal[handlers[h].run].outcome]
        PROVE  /\ intents'[i].confirmed = routed'[i].turn
               /\ intents'[i].status \in {"running"} \cup Terminal
    <3>1. journal[handlers[h].run].outcome \in Terminal
      BY <2>3 DEF CommitFinish, Idle, IInv, References
    <3>2. intents[i] \in IntentRow
      BY DEF IInv, TypeOK
    <3>3. routed[i].action = "steer"
      BY <2>3 DEF IInv, DecidedOnce
    <3> QED
      BY <2>3, <3>1, <3>2, <3>3, RecordsStay, NoneAssumption DEF TurnsOfSteers, IntentRow
  <2> QED
    BY <1>3, <2>1, <2>2, <2>3, SteerWrites
<1> QED
  BY <1>1, <1>2, <1>3

\* The terminal transaction of a run closes the steers of that run and no others:
\* another run's steers name a turn that this run never started.
LEMMA SteerEndsStep ==
    ASSUME IInv, SteerInv, [Next]_vars
    PROVE  SteerEndsWithRun'
<1> SUFFICES ASSUME NEW i \in Intents, intents'[i].resolved = "steer",
                    intents'[i].status \in Terminal
             PROVE  /\ routed'[i].action = "steer"
                    /\ runs'[routed'[i].run].status = intents'[i].status
  BY DEF SteerEndsWithRun
<1>1. CASE intents'[i] = intents[i]
  <2>1. routed[i].action = "steer" /\ runs[routed[i].run].status = intents[i].status
    BY <1>1 DEF SteerInv, SteerEndsWithRun
  <2>2. routed[i].run \in Runs /\ routed'[i] = routed[i]
    BY <2>1, RecordsStay, NoneAssumption DEF IInv, References
  <2> QED
    BY <1>1, <2>1, <2>2, EndedRunStays
<1>2. ASSUME NEW h \in Handlers, CommitFinish(h), intents[i].resolved = "steer",
             i \in ClosedBy(runs[handlers[h].run].primary, handlers[h].turn),
             intents'[i] = [intents[i] EXCEPT !.status = journal[handlers[h].run].outcome]
      PROVE  /\ routed'[i].action = "steer"
             /\ runs'[routed'[i].run].status = intents'[i].status
  <2>1. handlers[h].run \in Runs /\ handlers[h].run # None
    BY <1>2, NoneAssumption DEF CommitFinish, Idle, IInv, References
  <2>2. routed[i].action = "steer" /\ routed[i].run \in Runs
    BY <1>2, NoneAssumption DEF IInv, DecidedOnce, References
  <2>3. handlers[h].turn # None /\ handlers[h].turn = routed[i].turn
    BY <1>2 DEF ClosedBy, SteerInv, TurnsOfSteers
  <2>4. handlers[h].turn \in journal[handlers[h].run].started \cap journal[routed[i].run].started
    BY <2>1, <2>2, <2>3 DEF SteerInv, TurnsOfRun, TurnsOfSteers
  <2>5. routed[i].run = handlers[h].run
    BY <2>1, <2>2, <2>4 DEF SteerInv, StartedOnce
  <2>6. routed'[i] = routed[i]
    BY <2>2, RecordsStay, NoneAssumption
  <2>7. runs'[handlers[h].run].status = journal[handlers[h].run].outcome
    BY <1>2, <2>1 DEF CommitFinish, Ended, IInv, TypeOK, RunRow
  <2>8. intents'[i].status = journal[handlers[h].run].outcome
    BY <1>2 DEF IInv, TypeOK, IntentRow
  <2> QED
    BY <2>2, <2>5, <2>6, <2>7, <2>8
<1>3. intents'[i].status # "running"
  BY DEF Terminal
<1> QED
  BY <1>1, <1>2, <1>3, SteerWrites DEF SteerInv

\* A steered input that has ended shares the outcome of its own run, although it
\* is closed by turn id and may be acknowledged, late or twice, after the end.  That
\* it has ended, or stays so, is not said: a late acknowledgement may reopen it.
THEOREM SteersEndWithTheirRun == Spec => []SteerEndsWithRun
<1>1. Init => SteerInv
  BY NoneAssumption
     DEF Init, SteerInv, StartedOnce, TurnsOfRun, TurnsOfSteers, SteerEndsWithRun, Exists
<1>2. SteerInv /\ IInv /\ [Next]_vars => SteerInv'
  BY StartedOnceStep, TurnsOfRunStep, TurnsOfSteersStep, SteerEndsStep DEF SteerInv
<1>3. SteerInv => SteerEndsWithRun
  BY DEF SteerInv
<1> QED
  BY <1>1, <1>2, <1>3, InvariantHolds, PTL DEF Spec
=============================================================================
