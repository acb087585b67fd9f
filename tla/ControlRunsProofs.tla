--------------------------- MODULE ControlRunsProofs ---------------------------
(* Proofs about the ledger of ControlRuns, for every number of controls, inputs,
   runs, turns, questions and terminal handlers.

   LedgerFollowsWorker and SlotMeansExecuting are not inductive: a report names
   a run, and what it writes reaches the input through primary_intent_id, so the
   argument needs the foreign keys (References), the fact that the Worker decides
   an input once (DecidedOnce), and that the input of a run has left the queue
   (StartedLeavesQueue), where a stop can no longer cancel it. *)
EXTENDS ControlRuns, TLAPS

\* Foreign keys, and the outcome a terminal request carries.
References ==
    /\ \A r \in Runs : Exists(r) =>
          runs[r].primary \in Intents /\ runs[r].primary = journal[r].input
    /\ \A q \in Requests : requests[q].status # "absent" =>
          requests[q].run \in Runs /\ Exists(requests[q].run)
    /\ \A i \in Intents : routed[i].action # None => routed[i].run \in Runs
    /\ \A h \in Handlers : handlers[h].run # None =>
          /\ handlers[h].run \in Runs /\ Exists(handlers[h].run)
          /\ journal[handlers[h].run].outcome \in Terminal

\* The Worker starts, steers or applies an input, and never decides it twice.
DecidedOnce ==
    /\ \A i \in offered : routed[i].action = None
    /\ \A r \in Runs : Accepted(r) =>
          routed[Primary(r)].action = "start" /\ routed[Primary(r)].run = r
    /\ \A i \in Intents : intents[i].resolved = "steer" => routed[i].action = "steer"

\* The input of a run has left the queue.
StartedLeavesQueue ==
    \A r \in Runs : Exists(r) => intents[runs[r].primary].status \notin {"absent", "queued"}

\* The inductive invariant.
IInv ==
    /\ TypeOK
    /\ References
    /\ DecidedOnce
    /\ StartedLeavesQueue
    /\ LedgerFollowsWorker
    /\ SlotMeansExecuting
    /\ OneSlotPerControl

-----------------------------------------------------------------------------
(* What the invariant says of a run and its input. *)

\* The input of a run is a row, and no other run or steer has it.
LEMMA PrimaryInput ==
    ASSUME IInv, NEW r \in Runs, Exists(r)
    PROVE  /\ runs[r].primary \in Intents
           /\ runs[r].primary = journal[r].input
           /\ routed[runs[r].primary].action = "start"
           /\ routed[runs[r].primary].run = r
           /\ intents[runs[r].primary].status \notin {"absent", "queued"}
<1>1. runs[r].primary \in Intents /\ runs[r].primary = journal[r].input
  BY DEF IInv, References
<1>2. Accepted(r) /\ Primary(r) = runs[r].primary
  BY <1>1, NoneAssumption DEF Accepted, Primary
<1> QED
  BY <1>1, <1>2 DEF IInv, DecidedOnce, StartedLeavesQueue

\* Two runs of one input are the same run.
LEMMA OneRunPerInput ==
    ASSUME IInv, NEW r \in Runs, NEW s \in Runs, Exists(r), Exists(s),
           runs[r].primary = runs[s].primary
    PROVE  r = s
BY PrimaryInput

\* A step that touches no input of a run leaves the ledger as it was.
LEMMA OtherInputsChange ==
    ASSUME IInv, UNCHANGED journal,
           \A s \in Runs : /\ runs'[s].status = runs[s].status
                           /\ runs'[s].primary = runs[s].primary,
           \A s \in Runs : Exists(s) =>
               intents'[runs[s].primary].status = intents[runs[s].primary].status
    PROVE  StartedLeavesQueue' /\ LedgerFollowsWorker'
<1>1. StartedLeavesQueue'
  BY DEF IInv, StartedLeavesQueue, Exists
<1>2. LedgerFollowsWorker'
  BY DEF IInv, LedgerFollowsWorker, Exists, Primary
<1> QED
  BY <1>1, <1>2

\* A step that moves one unfinished run and its input between unfinished states.
LEMMA LiveRunMoves ==
    ASSUME IInv, UNCHANGED journal,
           NEW r \in Runs, Exists(r), runs[r].status \notin Terminal,
           \A s \in Runs : runs'[s].primary = runs[s].primary,
           \A s \in Runs \ {r} : runs'[s].status = runs[s].status,
           runs'[r].status \notin Terminal, runs'[r].status # "absent",
           \A j \in Intents \ {runs[r].primary} : intents'[j].status = intents[j].status,
           intents'[runs[r].primary].status \notin Terminal \cup {"absent", "queued"}
    PROVE  StartedLeavesQueue' /\ LedgerFollowsWorker'
<1>1. \A s \in Runs \ {r} : Exists(s) =>
         runs[s].primary \in Intents \ {runs[r].primary}
  BY PrimaryInput, OneRunPerInput
<1>2. StartedLeavesQueue'
  BY <1>1 DEF IInv, StartedLeavesQueue, Exists
<1>3. LedgerFollowsWorker'
  <2> SUFFICES ASSUME NEW s \in Runs, Exists(s)'
               PROVE  LET i == runs'[s].primary IN
                      /\ i = Primary(s)'
                      /\ runs'[s].status \in Terminal <=> intents'[i].status \in Terminal
                      /\ runs'[s].status \in Terminal =>
                            /\ runs'[s].status = journal'[s].outcome
                            /\ intents'[i].status = runs'[s].status
    BY DEF LedgerFollowsWorker
  <2>1. CASE s = r
    BY <2>1, PrimaryInput DEF Primary
  <2>2. CASE s # r
    BY <2>2, <1>1 DEF IInv, LedgerFollowsWorker, Exists, Primary
  <2> QED
    BY <2>1, <2>2
<1> QED
  BY <1>2, <1>3

\* A step that grants no slot and changes no status of a run that holds one.
LEMMA SlotsOnlyReleased ==
    ASSUME IInv,
           \A s \in Runs : runs'[s].primary = runs[s].primary,
           \A s \in Runs : runs'[s].slot = 1 =>
               runs[s].slot = 1 /\ runs'[s].status \in {"starting", "running"}
    PROVE  SlotMeansExecuting' /\ OneSlotPerControl'
BY DEF IInv, SlotMeansExecuting, OneSlotPerControl, Occupied

-----------------------------------------------------------------------------
(* Each action preserves the invariant. *)

\* A new input is a row no run has.
LEMMA EnqueueStep ==
    ASSUME IInv, NEW i \in Intents, Enqueue(i)
    PROVE  IInv'
<1> USE DEF IInv
<1>1. \A s \in Runs : Exists(s) => runs[s].primary \in Intents \ {i}
  BY PrimaryInput, IntentsAssumption DEF Enqueue, IsNext, Created
<1>2. \A j \in Intents \ {i} : intents'[j] = intents[j]
  BY DEF Enqueue, TypeOK
<1>3. TypeOK'
  <2>1. intents' \in [Intents -> IntentRow]
    BY DEF TypeOK, Enqueue, IntentRow, IntentStatuses, Terminal
  <2> QED
    BY <2>1 DEF TypeOK, Enqueue, worker
<1>4. References'
  BY DEF Enqueue, worker, References, Exists
<1>5. DecidedOnce'
  BY DEF Enqueue, worker, DecidedOnce, Accepted, Primary, TypeOK
<1>6. StartedLeavesQueue' /\ LedgerFollowsWorker'
  BY <1>1, <1>2, OtherInputsChange DEF Enqueue, worker
<1>7. SlotMeansExecuting' /\ OneSlotPerControl'
  BY DEF Enqueue, worker, SlotMeansExecuting, OneSlotPerControl, Occupied
<1> QED
  BY <1>3, <1>4, <1>5, <1>6, <1>7

\* A new input and a skipped question touch no run.
LEMMA ClientMessageStep ==
    ASSUME IInv, NEW i \in Intents, ClientMessage(i)
    PROVE  IInv'
<1> USE DEF IInv
<1>1. \A s \in Runs : Exists(s) => runs[s].primary \in Intents \ {i}
  BY PrimaryInput, IntentsAssumption DEF ClientMessage, IsNext, Created
<1>2. \A j \in Intents \ {i} : intents'[j] = intents[j]
  BY DEF ClientMessage, TypeOK
<1>3. \A q \in Requests : requests'[q].run = requests[q].run /\ (requests[q].status = "absent" => requests'[q].status = "absent")
  BY DEF ClientMessage, Skippable, TypeOK, RequestRow
<1>4. TypeOK'
  <2>1. intents' \in [Intents -> IntentRow]
    BY DEF TypeOK, ClientMessage, IntentRow, IntentStatuses, Terminal
  <2>2. requests' \in [Requests -> RequestRow]
    BY DEF TypeOK, ClientMessage, RequestRow, Answered
  <2> QED
    BY <2>1, <2>2 DEF TypeOK, ClientMessage, worker
<1>5. References'
  BY <1>3 DEF ClientMessage, worker, References, Exists
<1>6. DecidedOnce'
  BY DEF ClientMessage, worker, DecidedOnce, Accepted, Primary, TypeOK
<1>7. StartedLeavesQueue' /\ LedgerFollowsWorker'
  BY <1>1, <1>2, OtherInputsChange DEF ClientMessage, worker
<1>8. SlotMeansExecuting' /\ OneSlotPerControl'
  BY DEF ClientMessage, worker, SlotMeansExecuting, OneSlotPerControl, Occupied
<1> QED
  BY <1>4, <1>5, <1>6, <1>7, <1>8

\* A stop cancels queued inputs only, and no run has one.
LEMMA StopStep ==
    ASSUME IInv, NEW i \in Intents, Stop(i)
    PROVE  IInv'
<1> USE DEF IInv
<1>1. \A s \in Runs : Exists(s) => intents'[runs[s].primary] = intents[runs[s].primary]
  BY PrimaryInput, IntentsAssumption DEF Stop, IsNext, Created, Cancelable
<1>2. TypeOK'
  <2>1. intents' \in [Intents -> IntentRow]
    BY DEF TypeOK, Stop, IntentRow, IntentStatuses, Terminal
  <2>2. controls' \in [Controls -> ControlRow]
    BY DEF TypeOK, Stop, ControlRow
  <2> QED
    BY <2>1, <2>2 DEF TypeOK, Stop, worker
<1>3. References'
  BY DEF Stop, worker, References, Exists
<1>4. DecidedOnce'
  BY DEF Stop, worker, DecidedOnce, Accepted, Primary, TypeOK
<1>5. StartedLeavesQueue' /\ LedgerFollowsWorker'
  BY <1>1, OtherInputsChange DEF Stop, worker
<1>6. SlotMeansExecuting' /\ OneSlotPerControl'
  BY DEF Stop, worker, SlotMeansExecuting, OneSlotPerControl, Occupied
<1> QED
  BY <1>2, <1>3, <1>4, <1>5, <1>6

\* The Worker fetches an input it has not decided.
LEMMA FetchStep ==
    ASSUME IInv, NEW i \in Intents, NEW active \in SUBSET Controls,
                NEW onlyActive \in BOOLEAN, Fetch(i, active, onlyActive)
    PROVE  IInv'
<1> USE DEF IInv
<1>1. TypeOK'
  <2>1. offered' \in SUBSET Intents
    BY DEF TypeOK, Fetch
  <2> QED
    BY <2>1 DEF TypeOK, Fetch, server
<1>2. References'
  BY DEF Fetch, server, References, Exists
<1>3. DecidedOnce'
  BY DEF Fetch, server, DecidedOnce, Accepted, Primary, TypeOK
<1>4. StartedLeavesQueue' /\ LedgerFollowsWorker'
  BY DEF Fetch, server, StartedLeavesQueue, LedgerFollowsWorker, Exists, Primary
<1>5. SlotMeansExecuting' /\ OneSlotPerControl'
  BY DEF Fetch, server, SlotMeansExecuting, OneSlotPerControl, Occupied
<1> QED
  BY <1>1, <1>2, <1>3, <1>4, <1>5

\* A discarded input is undecided again.
LEMMA DiscardStep ==
    ASSUME IInv, NEW i \in Intents, Discard(i)
    PROVE  IInv'
<1> USE DEF IInv
<1>1. TypeOK'
  <2>1. offered' \in SUBSET Intents
    BY DEF TypeOK, Discard
  <2> QED
    BY <2>1 DEF TypeOK, Discard, server
<1>2. References'
  BY DEF Discard, server, References, Exists
<1>3. DecidedOnce'
  BY DEF Discard, server, DecidedOnce, Accepted, Primary, TypeOK
<1>4. StartedLeavesQueue' /\ LedgerFollowsWorker'
  BY DEF Discard, server, StartedLeavesQueue, LedgerFollowsWorker, Exists, Primary
<1>5. SlotMeansExecuting' /\ OneSlotPerControl'
  BY DEF Discard, server, SlotMeansExecuting, OneSlotPerControl, Occupied
<1> QED
  BY <1>1, <1>2, <1>3, <1>4, <1>5

\* The run of a newly accepted input is not yet a row.
LEMMA AcceptStep ==
    ASSUME IInv, NEW r \in Runs, NEW i \in Intents, Accept(r, i)
    PROVE  IInv'
<1> USE DEF IInv
<1>1. /\ journal'[r].input = i /\ journal[r].input = None
      /\ \A s \in Runs \ {r} : journal'[s] = journal[s]
      /\ journal'[r].outcome = journal[r].outcome
  BY DEF Accept, Accepted, TypeOK, Journal
<1>2. /\ \A j \in Intents \ {i} : routed'[j] = routed[j]
      /\ routed'[i].action = "start" /\ routed'[i].run = r
  BY DEF Accept, TypeOK
<1>3. routed[i].action = None
  BY DEF Accept, DecidedOnce
<1>4. offered' = offered \ {i} /\ UNCHANGED server
  BY DEF Accept
<1>5. ~Exists(r)
  BY <1>1, NoneAssumption DEF References
<1>6. \A h \in Handlers : handlers[h].run # r
  BY <1>5, NoneAssumption DEF References
<1>7. TypeOK'
  <2>1. journal' \in [Runs -> Journal]
    BY DEF TypeOK, Accept, Journal, Terminal
  <2>2. routed' \in [Intents -> Decision]
    BY DEF TypeOK, Accept, Decision
  <2>3. offered' \in SUBSET Intents
    BY DEF TypeOK, Accept
  <2> QED
    BY <2>1, <2>2, <2>3 DEF TypeOK, Accept, server
<1>8. References'
  BY <1>1, <1>2, <1>4, <1>5, <1>6 DEF server, References, Exists
<1>9. DecidedOnce'
  BY <1>1, <1>2, <1>3, <1>4, NoneAssumption DEF server, DecidedOnce, Accepted, Primary, TypeOK, Journal
<1>10. StartedLeavesQueue' /\ LedgerFollowsWorker'
  BY <1>1, <1>4, <1>5 DEF server, StartedLeavesQueue, LedgerFollowsWorker, Exists, Primary
<1>11. SlotMeansExecuting' /\ OneSlotPerControl'
  BY DEF Accept, server, SlotMeansExecuting, OneSlotPerControl, Occupied
<1> QED
  BY <1>7, <1>8, <1>9, <1>10, <1>11

\* A native turn changes neither the input nor the outcome of its run.
LEMMA StartTurnStep ==
    ASSUME IInv, NEW r \in Runs, NEW t \in Turns, StartTurn(r, t)
    PROVE  IInv'
<1> USE DEF IInv
<1>1. TypeOK'
  <2>1. journal' \in [Runs -> Journal]
    BY DEF TypeOK, StartTurn, Journal, Terminal
  <2> QED
    BY <2>1 DEF TypeOK, StartTurn, server
<1>2. References'
  BY DEF StartTurn, server, References, Exists, TypeOK
<1>3. DecidedOnce'
  BY DEF StartTurn, server, DecidedOnce, Accepted, Primary, TypeOK
<1>4. StartedLeavesQueue' /\ LedgerFollowsWorker'
  BY DEF StartTurn, server, StartedLeavesQueue, LedgerFollowsWorker, Exists, Primary, TypeOK
<1>5. SlotMeansExecuting' /\ OneSlotPerControl'
  BY DEF StartTurn, server, SlotMeansExecuting, OneSlotPerControl, Occupied
<1> QED
  BY <1>1, <1>2, <1>3, <1>4, <1>5

\* Nor does its confirmation.
LEMMA TurnStartedStep ==
    ASSUME IInv, NEW r \in Runs, TurnStarted(r)
    PROVE  IInv'
<1> USE DEF IInv
<1>1. \A s \in Runs : journal'[s].input = journal[s].input /\ journal'[s].outcome = journal[s].outcome
  BY DEF TurnStarted, TypeOK, Journal
<1>2. TypeOK'
  <2>1. journal' \in [Runs -> Journal]
    <3>1. [journal[r] EXCEPT !.confirmed = journal[r].turn] \in Journal
      BY DEF TypeOK, Journal
    <3> QED
      BY <3>1 DEF TypeOK, TurnStarted
  <2> QED
    BY <2>1 DEF TypeOK, TurnStarted, server
<1>3. References'
  BY <1>1 DEF TurnStarted, server, References, Exists
<1>4. DecidedOnce'
  BY <1>1 DEF TurnStarted, server, DecidedOnce, Accepted, Primary
<1>5. StartedLeavesQueue' /\ LedgerFollowsWorker'
  BY <1>1 DEF TurnStarted, server, StartedLeavesQueue, LedgerFollowsWorker, Exists, Primary
<1>6. SlotMeansExecuting' /\ OneSlotPerControl'
  BY DEF TurnStarted, server, SlotMeansExecuting, OneSlotPerControl, Occupied
<1> QED
  BY <1>2, <1>3, <1>4, <1>5, <1>6

\* A steered input starts no run.
LEMMA SteerStep ==
    ASSUME IInv, NEW r \in Runs, NEW i \in Intents, Steer(r, i)
    PROVE  IInv'
<1> USE DEF IInv
<1>1. journal[r].turn \in Turns \cup {None}
  BY DEF TypeOK, Journal
<1>2. /\ \A j \in Intents \ {i} : routed'[j] = routed[j]
      /\ routed'[i].action = "steer" /\ routed'[i].run = r
  BY DEF Steer, TypeOK
<1>3. routed[i].action = None
  BY DEF Steer, DecidedOnce
<1>4. offered' = offered \ {i} /\ UNCHANGED <<server, journal>>
  BY DEF Steer
<1>5. TypeOK'
  <2>1. routed' \in [Intents -> Decision]
    <3>1. [action |-> "steer", run |-> r, turn |-> journal[r].turn] \in Decision
      BY <1>1 DEF Decision
    <3> QED
      BY <3>1 DEF TypeOK, Steer
  <2>2. offered' \in SUBSET Intents
    BY DEF TypeOK, Steer
  <2> QED
    BY <2>1, <2>2 DEF TypeOK, Steer, server
<1>6. References'
  BY <1>2, <1>4 DEF server, References, Exists
<1>7. DecidedOnce'
  BY <1>2, <1>3, <1>4, NoneAssumption DEF server, DecidedOnce, Accepted, Primary, TypeOK, Journal
<1>8. StartedLeavesQueue' /\ LedgerFollowsWorker'
  BY DEF Steer, server, StartedLeavesQueue, LedgerFollowsWorker, Exists, Primary
<1>9. SlotMeansExecuting' /\ OneSlotPerControl'
  BY DEF Steer, server, SlotMeansExecuting, OneSlotPerControl, Occupied
<1> QED
  BY <1>5, <1>6, <1>7, <1>8, <1>9

\* An interrupt records the outcome of a run that had none.
LEMMA InterruptStep ==
    ASSUME IInv, NEW r \in Runs, NEW i \in Intents, Interrupt(r, i)
    PROVE  IInv'
<1> USE DEF IInv
<1>1. /\ \A s \in Runs : journal'[s].input = journal[s].input
      /\ \A s \in Runs : journal[s].outcome # None => journal'[s].outcome = journal[s].outcome
  BY DEF Interrupt, Local, TypeOK, Journal
<1>2. journal[r].turn \in Turns \cup {None}
  BY DEF TypeOK, Journal
<1>3. \A j \in Intents \ {i} : routed'[j] = routed[j]
  BY DEF Interrupt, TypeOK
<1>4. routed'[i].run \in Runs \/ routed'[i] = routed[i]
  BY DEF Interrupt, TypeOK, Decision
<1>5. routed[i].action = None
  BY DEF Interrupt, DecidedOnce
<1>6. offered' = offered \ {i} /\ UNCHANGED server
  BY DEF Interrupt
<1>7. TypeOK'
  <2>1. journal' \in [Runs -> Journal]
    BY DEF TypeOK, Interrupt, Journal, Terminal
  <2>2. routed' \in [Intents -> Decision]
    <3>1. [action |-> "interrupt", run |-> r, turn |-> journal[r].turn] \in Decision
      BY <1>2 DEF Decision
    <3> QED
      BY <3>1 DEF TypeOK, Interrupt
  <2>3. offered' \in SUBSET Intents
    BY DEF TypeOK, Interrupt
  <2> QED
    BY <2>1, <2>2, <2>3 DEF TypeOK, Interrupt, server
<1>8. References'
  BY <1>1, <1>3, <1>4, <1>6, NoneAssumption DEF server, References, Exists, Terminal
<1>9. DecidedOnce'
  BY <1>1, <1>3, <1>5, <1>6, NoneAssumption DEF server, DecidedOnce, Accepted, Primary, TypeOK, Journal
<1>10. StartedLeavesQueue' /\ LedgerFollowsWorker'
  BY <1>1, <1>6, NoneAssumption DEF server, StartedLeavesQueue, LedgerFollowsWorker, Exists,
     Primary, Terminal
<1>11. SlotMeansExecuting' /\ OneSlotPerControl'
  BY DEF Interrupt, server, SlotMeansExecuting, OneSlotPerControl, Occupied
<1> QED
  BY <1>7, <1>8, <1>9, <1>10, <1>11

\* A run is concluded once.
LEMMA ConcludeStep ==
    ASSUME IInv, NEW r \in Runs, NEW outcome \in {"completed", "failed"}, Conclude(r, outcome)
    PROVE  IInv'
<1> USE DEF IInv
<1>1. /\ \A s \in Runs : journal'[s].input = journal[s].input
      /\ \A s \in Runs : journal[s].outcome # None => journal'[s].outcome = journal[s].outcome
  BY DEF Conclude, Local, TypeOK, Journal
<1>2. TypeOK'
  <2>1. journal' \in [Runs -> Journal]
    BY DEF TypeOK, Conclude, Journal, Terminal
  <2> QED
    BY <2>1 DEF TypeOK, Conclude, server
<1>3. References'
  BY <1>1, NoneAssumption DEF Conclude, server, References, Exists, Terminal
<1>4. DecidedOnce'
  BY <1>1 DEF Conclude, server, DecidedOnce, Accepted, Primary
<1>5. StartedLeavesQueue' /\ LedgerFollowsWorker'
  BY <1>1, NoneAssumption DEF Conclude, server, StartedLeavesQueue, LedgerFollowsWorker, Exists,
     Primary, Terminal
<1>6. SlotMeansExecuting' /\ OneSlotPerControl'
  BY DEF Conclude, server, SlotMeansExecuting, OneSlotPerControl, Occupied
<1> QED
  BY <1>2, <1>3, <1>4, <1>5, <1>6

\* A start takes the slot of its control from the runs that held it.
LEMMA StartWorkerInputStep ==
    ASSUME IInv, NEW r \in Runs, StartWorkerInput(r)
    PROVE  IInv'
<1> USE DEF IInv
<1>1. Primary(r) \in Intents /\ ControlOf[Primary(r)] \in Controls
  BY IntentsAssumption DEF StartWorkerInput, Primary, Accepted, TypeOK, Journal
<1>2. \A s \in Runs : Exists(s) => runs[s].primary \in Intents \ {Primary(r)}
  BY PrimaryInput DEF StartWorkerInput, Startable
<1>3. runs'[r] = [status |-> "starting", primary |-> Primary(r), slot |-> 1, appends |-> 0]
  BY DEF StartWorkerInput, TypeOK
<1>4. \A s \in Runs \ {r} :
        /\ runs'[s].primary = runs[s].primary
        /\ \/ runs'[s].status = runs[s].status
           \/ /\ runs[s].status \in Executing
              /\ runs'[s].status = "reconciling" /\ runs'[s].slot = 0
        /\ runs'[s].slot = 1 =>
              /\ runs[s].slot = 1
              /\ ControlOf[runs[s].primary] # ControlOf[Primary(r)]
  <2>1. \A s \in Runs \ {r} :
          runs'[s] = IF s \in Displaced(ControlOf[Primary(r)])
                     THEN [runs[s] EXCEPT !.slot = 0,
                              !.status = IF @ \in Executing THEN "reconciling" ELSE @]
                     ELSE runs[s]
    BY DEF StartWorkerInput
  <2> SUFFICES ASSUME NEW s \in Runs \ {r}
               PROVE  /\ runs'[s].primary = runs[s].primary
                      /\ \/ runs'[s].status = runs[s].status
                         \/ /\ runs[s].status \in Executing
                            /\ runs'[s].status = "reconciling" /\ runs'[s].slot = 0
                      /\ runs'[s].slot = 1 =>
                            /\ runs[s].slot = 1
                            /\ ControlOf[runs[s].primary] # ControlOf[Primary(r)]
    OBVIOUS
  <2>2. CASE s \in Displaced(ControlOf[Primary(r)])
    <3>1. runs[s].status \in Executing
      BY <2>2 DEF Displaced, SlotMeansExecuting, Executing
    <3>2. runs[s] \in RunRow /\ runs'[s] = [runs[s] EXCEPT !.slot = 0, !.status = "reconciling"]
      BY <2>1, <2>2, <3>1 DEF TypeOK, RunRow
    <3> QED
      BY <3>1, <3>2 DEF RunRow
  <2>3. CASE s \notin Displaced(ControlOf[Primary(r)])
    <3>1. runs'[s] = runs[s]
      BY <2>1, <2>3
    <3>2. runs[s].slot = 1 => ControlOf[runs[s].primary] # ControlOf[Primary(r)]
      BY <2>3 DEF Displaced, RunsOf, Occupied, Exists, SlotMeansExecuting
    <3> QED
      BY <3>1, <3>2
  <2> QED
    BY <2>2, <2>3
<1>5. /\ intents'[Primary(r)].status = "dispatching" /\ intents'[Primary(r)].resolved = "start"
      /\ \A j \in Intents \ {Primary(r)} : intents'[j] = intents[j]
  BY <1>1 DEF StartWorkerInput, TypeOK, IntentRow
<1>6. ~Exists(r) /\ Primary(r) = journal[r].input
  BY DEF StartWorkerInput, Primary
<1>7. UNCHANGED <<requests, handlers, worker>>
  BY DEF StartWorkerInput
<1>8. TypeOK'
  <2>1. intents' \in [Intents -> IntentRow]
    BY <1>1 DEF StartWorkerInput, TypeOK, IntentRow, IntentStatuses
  <2>2. runs' \in [Runs -> RunRow]
    <3>1. [status |-> "starting", primary |-> Primary(r), slot |-> 1, appends |-> 0] \in RunRow
      BY <1>1, BoundsAssumption DEF RunRow, RunStatuses, Executing
    <3>2. ASSUME NEW s \in Runs
          PROVE  [runs[s] EXCEPT !.slot = 0,
                     !.status = IF @ \in Executing THEN "reconciling" ELSE @] \in RunRow
      BY DEF TypeOK, RunRow, RunStatuses, Executing
    <3>3. ASSUME NEW s \in Runs PROVE runs'[s] \in RunRow
      BY <3>1, <3>2 DEF StartWorkerInput, TypeOK
    <3>4. runs' = [s \in Runs |-> runs'[s]]
      BY DEF StartWorkerInput
    <3> QED
      BY <3>3, <3>4
  <2>3. controls' \in [Controls -> ControlRow]
    <3>1. controls' = [controls EXCEPT ![ControlOf[Primary(r)]].status = "dispatching",
                                       ![ControlOf[Primary(r)]].activeIntent = Primary(r)]
      BY DEF StartWorkerInput
    <3> QED
      BY <1>1, <3>1 DEF TypeOK, ControlRow
  <2> QED
    BY <2>1, <2>2, <2>3 DEF TypeOK, StartWorkerInput, worker
<1>9. References'
  BY <1>1, <1>3, <1>4, <1>6, <1>7 DEF worker, References, Exists, Executing
<1>10. DecidedOnce'
  BY <1>5, <1>7, NoneAssumption DEF worker, DecidedOnce, Accepted, Primary
<1>11. \A s \in Runs \ {r} : Exists(s)' => Exists(s)
  BY <1>4 DEF Exists, Executing
<1>12. StartedLeavesQueue'
  BY <1>1, <1>2, <1>3, <1>4, <1>5, <1>11 DEF StartedLeavesQueue
<1>13. LedgerFollowsWorker'
  <2> SUFFICES ASSUME NEW s \in Runs, Exists(s)'
               PROVE  LET i == runs'[s].primary IN
                      /\ i = Primary(s)'
                      /\ runs'[s].status \in Terminal <=> intents'[i].status \in Terminal
                      /\ runs'[s].status \in Terminal =>
                            /\ runs'[s].status = journal'[s].outcome
                            /\ intents'[i].status = runs'[s].status
    BY DEF LedgerFollowsWorker
  <2>1. CASE s = r
    BY <2>1, <1>1, <1>3, <1>5, <1>6, <1>7 DEF worker, Primary, Terminal
  <2>2. CASE s # r
    <3>1. Exists(s) /\ runs[s].primary \in Intents \ {Primary(r)}
      BY <2>2, <1>2, <1>11
    <3> QED
      BY <2>2, <3>1, <1>4, <1>5, <1>7 DEF worker, LedgerFollowsWorker, Primary, Terminal, Executing
  <2> QED
    BY <2>1, <2>2
<1>14. SlotMeansExecuting'
  BY <1>3, <1>4 DEF SlotMeansExecuting, Occupied
<1>15. OneSlotPerControl'
  BY <1>3, <1>4 DEF OneSlotPerControl, Occupied
<1> QED
  BY <1>8, <1>9, <1>10, <1>12, <1>13, <1>14, <1>15

\* A thread report writes the control alone.
LEMMA SetThreadStep ==
    ASSUME IInv, NEW r \in Runs, SetThread(r)
    PROVE  IInv'
<1> USE DEF IInv
<1>1. UNCHANGED <<intents, runs, requests, handlers, worker>>
  BY DEF SetThread
<1>2. TypeOK'
  <2>1. controls' \in [Controls -> ControlRow]
    BY DEF TypeOK, SetThread, ControlRow
  <2> QED
    BY <2>1 DEF TypeOK, SetThread, worker
<1>3. References'
  BY <1>1 DEF worker, References, Exists
<1>4. DecidedOnce'
  BY <1>1 DEF worker, DecidedOnce, Accepted, Primary
<1>5. StartedLeavesQueue' /\ LedgerFollowsWorker'
  BY <1>1, OtherInputsChange DEF worker
<1>6. SlotMeansExecuting' /\ OneSlotPerControl'
  BY <1>1, SlotsOnlyReleased DEF SlotMeansExecuting, Occupied
<1> QED
  BY <1>2, <1>3, <1>4, <1>5, <1>6

\* A submission moves an unfinished run and its input.
LEMMA RecordSubmissionStep ==
    ASSUME IInv, NEW r \in Runs, NEW t \in Turns, RecordSubmission(r, t)
    PROVE  IInv'
<1> USE DEF IInv
<1>1. Exists(r) /\ runs[r].primary \in Intents
  BY PrimaryInput DEF RecordSubmission
<1>2. runs' = [runs EXCEPT ![r].status = "running"]
  BY DEF RecordSubmission
<1>3. \A s \in Runs : runs'[s].primary = runs[s].primary /\ runs'[s].slot = runs[s].slot
  BY <1>2 DEF TypeOK, RunRow
<1>4. runs[r].status \notin Terminal /\ runs'[r].status = "running"
  BY <1>2 DEF RecordSubmission, Reopenable, TypeOK, RunRow
<1>5. \A s \in Runs \ {r} : runs'[s] = runs[s]
  BY <1>2 DEF TypeOK
<1>6. /\ intents'[runs[r].primary].status = "awaiting_confirmation"
      /\ \A j \in Intents \ {runs[r].primary} : intents'[j] = intents[j]
      /\ \A j \in Intents : intents'[j].resolved = intents[j].resolved
  BY <1>1 DEF RecordSubmission, TypeOK, IntentRow
<1>7. TypeOK'
  <2>1. intents' \in [Intents -> IntentRow]
    BY <1>1 DEF RecordSubmission, TypeOK, IntentRow, IntentStatuses
  <2>2. runs' \in [Runs -> RunRow]
    BY DEF TypeOK, RecordSubmission, RunRow, RunStatuses, Executing, Terminal
  <2> QED
    BY <2>1, <2>2 DEF TypeOK, RecordSubmission, worker
<1>8. References'
  BY <1>1, <1>3, <1>4, <1>5 DEF RecordSubmission, worker, References, Exists
<1>9. DecidedOnce'
  BY <1>6 DEF RecordSubmission, worker, DecidedOnce, Accepted, Primary
<1>10. StartedLeavesQueue' /\ LedgerFollowsWorker'
  BY <1>1, <1>3, <1>4, <1>5, <1>6, LiveRunMoves DEF RecordSubmission, worker, Terminal
<1>11. SlotMeansExecuting' /\ OneSlotPerControl'
  BY <1>3, <1>4, <1>5, SlotsOnlyReleased DEF SlotMeansExecuting, Occupied
<1> QED
  BY <1>7, <1>8, <1>9, <1>10, <1>11

\* So does a confirmation.
LEMMA ConfirmTurnStep ==
    ASSUME IInv, NEW r \in Runs, ConfirmTurn(r)
    PROVE  IInv'
<1> USE DEF IInv
<1>1. Exists(r) /\ runs[r].primary \in Intents
  BY PrimaryInput DEF ConfirmTurn
<1>2. journal[r].confirmed \in Turns \cup {None}
  BY DEF TypeOK, Journal
<1>3. runs' = [runs EXCEPT ![r].status = "running"]
  BY DEF ConfirmTurn
<1>4. \A s \in Runs : runs'[s].primary = runs[s].primary /\ runs'[s].slot = runs[s].slot
  BY <1>3 DEF TypeOK, RunRow
<1>5. runs[r].status \notin Terminal /\ runs'[r].status = "running"
  BY <1>3 DEF ConfirmTurn, Reopenable, TypeOK, RunRow
<1>6. \A s \in Runs \ {r} : runs'[s] = runs[s]
  BY <1>3 DEF TypeOK
<1>7. /\ intents'[runs[r].primary].status = "running"
      /\ \A j \in Intents \ {runs[r].primary} : intents'[j] = intents[j]
      /\ \A j \in Intents : intents'[j].resolved = intents[j].resolved
  BY <1>1 DEF ConfirmTurn, TypeOK, IntentRow
<1>8. TypeOK'
  <2>1. intents' \in [Intents -> IntentRow]
    <3>1. intents' = [intents EXCEPT ![runs[r].primary].status = "running",
                                     ![runs[r].primary].confirmed = journal[r].confirmed]
      BY DEF ConfirmTurn
    <3> QED
      BY <1>1, <1>2, <3>1 DEF TypeOK, IntentRow, IntentStatuses
  <2>2. runs' \in [Runs -> RunRow]
    BY DEF TypeOK, ConfirmTurn, RunRow, RunStatuses, Executing, Terminal
  <2>3. controls' \in [Controls -> ControlRow]
    <3>1. controls' = [controls EXCEPT
              ![ControlOf[runs[r].primary]].status = "active",
              ![ControlOf[runs[r].primary]].activeTurn = journal[r].confirmed]
      BY DEF ConfirmTurn
    <3>2. ControlOf[runs[r].primary] \in Controls
      BY <1>1, IntentsAssumption
    <3> QED
      BY <1>2, <3>1, <3>2 DEF TypeOK, ControlRow
  <2> QED
    BY <2>1, <2>2, <2>3 DEF TypeOK, ConfirmTurn, worker
<1>9. References'
  BY <1>1, <1>4, <1>5, <1>6 DEF ConfirmTurn, worker, References, Exists
<1>10. DecidedOnce'
  BY <1>7 DEF ConfirmTurn, worker, DecidedOnce, Accepted, Primary
<1>11. StartedLeavesQueue' /\ LedgerFollowsWorker'
  BY <1>1, <1>4, <1>5, <1>6, <1>7, LiveRunMoves DEF ConfirmTurn, worker, Terminal
<1>12. SlotMeansExecuting' /\ OneSlotPerControl'
  BY <1>4, <1>5, <1>6, SlotsOnlyReleased DEF SlotMeansExecuting, Occupied
<1> QED
  BY <1>8, <1>9, <1>10, <1>11, <1>12

\* The acknowledged steer is the input of no run.
LEMMA AckSteerStep ==
    ASSUME IInv, NEW i \in Intents, AckSteer(i)
    PROVE  IInv'
<1> USE DEF IInv
<1>1. routed[i].run \in Runs /\ routed[i].turn \in Turns \cup {None}
  BY NoneAssumption DEF AckSteer, References, TypeOK, Decision
<1>2. \A s \in Runs : Exists(s) => runs[s].primary \in Intents \ {i}
  BY PrimaryInput DEF AckSteer
<1>3. \A j \in Intents \ {i} : intents'[j] = intents[j]
  BY DEF AckSteer, TypeOK
<1>4. \A s \in Runs : /\ runs'[s].status = runs[s].status /\ runs'[s].primary = runs[s].primary
                    /\ runs'[s].slot = runs[s].slot
  BY <1>1 DEF AckSteer, TypeOK, RunRow
<1>5. TypeOK'
  <2>1. intents' \in [Intents -> IntentRow]
    <3>1. [intents[i] EXCEPT !.status = "running", !.resolved = "steer",
                             !.confirmed = routed[i].turn] \in IntentRow
      BY <1>1 DEF TypeOK, IntentRow, IntentStatuses
    <3> QED
      BY <3>1 DEF TypeOK, AckSteer
  <2>2. runs' \in [Runs -> RunRow]
    BY <1>1, BoundsAssumption DEF TypeOK, AckSteer, CanAppend, RunRow
  <2> QED
    BY <2>1, <2>2 DEF TypeOK, AckSteer, worker
<1>6. References'
  BY <1>4 DEF AckSteer, worker, References, Exists
<1>7. DecidedOnce'
  BY DEF AckSteer, worker, DecidedOnce, Accepted, Primary, TypeOK
<1>8. StartedLeavesQueue' /\ LedgerFollowsWorker'
  BY <1>2, <1>3, <1>4, OtherInputsChange DEF AckSteer, worker
<1>9. SlotMeansExecuting' /\ OneSlotPerControl'
  BY <1>4, SlotsOnlyReleased DEF SlotMeansExecuting, Occupied
<1> QED
  BY <1>5, <1>6, <1>7, <1>8, <1>9

\* Neither is the acknowledged interrupt.
LEMMA AckInterruptStep ==
    ASSUME IInv, NEW i \in Intents, AckInterrupt(i)
    PROVE  IInv'
<1> USE DEF IInv
<1>1. routed[i].turn \in Turns \cup {None}
  BY DEF TypeOK, Decision
<1>2. \A s \in Runs : Exists(s) => runs[s].primary \in Intents \ {i}
  BY PrimaryInput DEF AckInterrupt
<1>3. \A j \in Intents \ {i} : intents'[j] = intents[j]
  BY DEF AckInterrupt, TypeOK
<1>4. TypeOK'
  <2>1. intents' \in [Intents -> IntentRow]
    <3>1. [intents[i] EXCEPT !.status = "completed", !.resolved = "interrupt",
                             !.confirmed = routed[i].turn] \in IntentRow
      BY <1>1 DEF TypeOK, IntentRow, IntentStatuses, Terminal
    <3> QED
      BY <3>1 DEF TypeOK, AckInterrupt
  <2> QED
    BY <2>1 DEF TypeOK, AckInterrupt, worker
<1>5. References'
  BY DEF AckInterrupt, worker, References, Exists
<1>6. DecidedOnce'
  BY DEF AckInterrupt, worker, DecidedOnce, Accepted, Primary, TypeOK
<1>7. StartedLeavesQueue' /\ LedgerFollowsWorker'
  BY <1>2, <1>3, OtherInputsChange DEF AckInterrupt, worker
<1>8. SlotMeansExecuting' /\ OneSlotPerControl'
  BY DEF AckInterrupt, worker, SlotMeansExecuting, OneSlotPerControl, Occupied
<1> QED
  BY <1>4, <1>5, <1>6, <1>7, <1>8

\* A question releases the slot of its run.
LEMMA RegisterInteractiveStep ==
    ASSUME IInv, NEW r \in Runs, NEW q \in Requests, RegisterInteractive(r, q)
    PROVE  IInv'
<1> USE DEF IInv
<1>1. Exists(r) /\ runs[r].primary \in Intents
  BY PrimaryInput DEF RegisterInteractive
<1>2. /\ runs[r].status \notin Terminal
      /\ runs'[r].status = "waiting_for_user" /\ runs'[r].slot = 0
  BY DEF RegisterInteractive, CanAsk, Waiting, Executing, Terminal, TypeOK, RunRow
<1>3. \A s \in Runs \ {r} : runs'[s] = runs[s]
  BY DEF RegisterInteractive, Waiting, TypeOK
<1>4. \A s \in Runs : runs'[s].primary = runs[s].primary
  BY <1>3 DEF RegisterInteractive, Waiting, TypeOK, RunRow
<1>5. /\ intents'[runs[r].primary].status = "waiting_for_user"
      /\ \A j \in Intents \ {runs[r].primary} : intents'[j] = intents[j]
      /\ \A j \in Intents : intents'[j].resolved = intents[j].resolved
  BY <1>1 DEF RegisterInteractive, TypeOK, IntentRow
<1>6. requests'[q].run = r /\ \A p \in Requests \ {q} : requests'[p] = requests[p]
  BY DEF RegisterInteractive, TypeOK
<1>7. TypeOK'
  <2>1. requests' \in [Requests -> RequestRow]
    BY DEF TypeOK, RegisterInteractive, RequestRow, Answered
  <2>2. runs' \in [Runs -> RunRow]
    <3>1. runs' = [runs EXCEPT ![r].status = "waiting_for_user", ![r].slot = 0]
      BY DEF RegisterInteractive, Waiting
    <3>2. [runs[r] EXCEPT !.status = "waiting_for_user", !.slot = 0] \in RunRow
      BY DEF TypeOK, RunRow, RunStatuses, Executing
    <3> QED
      BY <3>1, <3>2 DEF TypeOK
  <2>3. intents' \in [Intents -> IntentRow]
    BY DEF TypeOK, RegisterInteractive, IntentRow, IntentStatuses, Terminal
  <2> QED
    BY <2>1, <2>2, <2>3 DEF TypeOK, RegisterInteractive, worker
<1>8. References'
  BY <1>1, <1>4, <1>2, <1>3, <1>6 DEF RegisterInteractive, worker, References, Exists
<1>9. DecidedOnce'
  BY <1>5 DEF RegisterInteractive, worker, DecidedOnce, Accepted, Primary
<1>10. StartedLeavesQueue' /\ LedgerFollowsWorker'
  BY <1>1, <1>4, <1>2, <1>3, <1>5, LiveRunMoves DEF RegisterInteractive, worker, Terminal
<1>11. SlotMeansExecuting' /\ OneSlotPerControl'
  BY <1>4, <1>2, <1>3, SlotsOnlyReleased DEF SlotMeansExecuting, Occupied
<1> QED
  BY <1>7, <1>8, <1>9, <1>10, <1>11

\* An answer writes the question alone.
LEMMA AnswerInteractiveStep ==
    ASSUME IInv, NEW q \in Requests, NEW surface \in {"desktop", "auto"}, AnswerInteractive(q, surface)
    PROVE  IInv'
<1> USE DEF IInv
<1>1. \A p \in Requests :
          /\ requests'[p].run = requests[p].run
          /\ requests[p].status = "absent" => requests'[p].status = "absent"
  BY DEF AnswerInteractive, Open, TypeOK, RequestRow
<1>2. TypeOK'
  <2>1. requests' \in [Requests -> RequestRow]
    BY DEF TypeOK, AnswerInteractive, RequestRow, Answered
  <2> QED
    BY <2>1 DEF TypeOK, AnswerInteractive, worker
<1>3. References'
  BY <1>1 DEF AnswerInteractive, worker, References, Exists
<1>4. DecidedOnce'
  BY DEF AnswerInteractive, worker, DecidedOnce, Accepted, Primary
<1>5. StartedLeavesQueue' /\ LedgerFollowsWorker'
  BY DEF AnswerInteractive, worker, StartedLeavesQueue, LedgerFollowsWorker, Exists, Primary
<1>6. SlotMeansExecuting' /\ OneSlotPerControl'
  BY DEF AnswerInteractive, worker, SlotMeansExecuting, OneSlotPerControl, Occupied
<1> QED
  BY <1>2, <1>3, <1>4, <1>5, <1>6

\* So does a deadline.
LEMMA ExpireInteractiveStep ==
    ASSUME IInv, NEW q \in Requests, ExpireInteractive(q)
    PROVE  IInv'
<1> USE DEF IInv
<1>1. \A p \in Requests :
          /\ requests'[p].run = requests[p].run
          /\ requests[p].status = "absent" => requests'[p].status = "absent"
  BY DEF ExpireInteractive, Open, TypeOK, RequestRow
<1>2. TypeOK'
  <2>1. requests' \in [Requests -> RequestRow]
    BY DEF TypeOK, ExpireInteractive, RequestRow, Answered
  <2> QED
    BY <2>1 DEF TypeOK, ExpireInteractive, worker
<1>3. References'
  BY <1>1 DEF ExpireInteractive, worker, References, Exists
<1>4. DecidedOnce'
  BY DEF ExpireInteractive, worker, DecidedOnce, Accepted, Primary
<1>5. StartedLeavesQueue' /\ LedgerFollowsWorker'
  BY DEF ExpireInteractive, worker, StartedLeavesQueue, LedgerFollowsWorker, Exists, Primary
<1>6. SlotMeansExecuting' /\ OneSlotPerControl'
  BY DEF ExpireInteractive, worker, SlotMeansExecuting, OneSlotPerControl, Occupied
<1> QED
  BY <1>2, <1>3, <1>4, <1>5, <1>6

\* A resumption takes a slot that no run of the control holds.
LEMMA TryResumeInteractiveStep ==
    ASSUME IInv, NEW q \in Requests, TryResumeInteractive(q)
    PROVE  IInv'
<1> USE DEF IInv
<1>1. requests[q].run \in Runs /\ Exists(requests[q].run)
  BY DEF TryResumeInteractive, Answered, References
<1>2. PICK r \in Runs : r = requests[q].run /\ Exists(r)
  BY <1>1
<1>3. runs[r].status = "waiting_for_user"
  BY <1>2 DEF TryResumeInteractive
<1>4. runs[r].primary \in Intents
  BY <1>2, PrimaryInput
<1>5. runs' = [runs EXCEPT ![r].status = "running", ![r].slot = 1]
  BY <1>2 DEF TryResumeInteractive
<1>6. runs[r].status \notin Terminal /\ runs'[r].status = "running" /\ runs'[r].slot = 1
  BY <1>3, <1>5 DEF Terminal, TypeOK, RunRow
<1>7. \A s \in Runs \ {r} : runs'[s] = runs[s]
  BY <1>5 DEF TypeOK
<1>8. \A s \in Runs : runs'[s].primary = runs[s].primary
  BY <1>5 DEF TypeOK, RunRow
<1>9. /\ intents'[runs[r].primary].status = "running"
      /\ \A j \in Intents \ {runs[r].primary} : intents'[j] = intents[j]
      /\ \A j \in Intents : intents'[j].resolved = intents[j].resolved
  BY <1>2, <1>4 DEF TryResumeInteractive, TypeOK, IntentRow
<1>10. UNCHANGED <<requests, handlers, journal, routed, offered>>
  BY DEF TryResumeInteractive, worker
<1>11. TypeOK'
  <2>1. runs' \in [Runs -> RunRow]
    <3>1. [runs[r] EXCEPT !.status = "running", !.slot = 1] \in RunRow
      BY DEF TypeOK, RunRow, RunStatuses, Executing
    <3> QED
      BY <1>5, <3>1 DEF TypeOK
  <2>2. controls' \in [Controls -> ControlRow]
    <3>1. ControlOf[runs[r].primary] \in Controls
      BY <1>4, IntentsAssumption
    <3>2. controls' = [controls EXCEPT ![ControlOf[runs[r].primary]].status = "active"]
      BY <1>2 DEF TryResumeInteractive
    <3> QED
      BY <3>1, <3>2 DEF TypeOK, ControlRow
  <2>3. intents' \in [Intents -> IntentRow]
    BY <1>2, <1>4 DEF TryResumeInteractive, TypeOK, IntentRow, IntentStatuses
  <2> QED
    BY <2>1, <2>2, <2>3 DEF TypeOK, TryResumeInteractive, worker
<1>12. References'
  BY <1>2, <1>8, <1>6, <1>7, <1>10 DEF References, Exists
<1>13. DecidedOnce'
  BY <1>9, <1>10 DEF DecidedOnce, Accepted, Primary
<1>14. StartedLeavesQueue' /\ LedgerFollowsWorker'
  BY <1>2, <1>8, <1>6, <1>7, <1>9, <1>10, LiveRunMoves DEF Terminal
<1>15. SlotMeansExecuting'
  BY <1>6, <1>7 DEF SlotMeansExecuting, Occupied
<1>16. \A s \in Runs : s \in Occupied /\ ControlOf[runs[s].primary] = ControlOf[runs[r].primary] => FALSE
  BY <1>2 DEF TryResumeInteractive, SlotFree, RunsOf, Occupied, SlotMeansExecuting, Exists
<1>17. OneSlotPerControl'
  BY <1>8, <1>7, <1>16 DEF OneSlotPerControl, Occupied
<1> QED
  BY <1>11, <1>12, <1>13, <1>14, <1>15, <1>17

\* A terminal request names a concluded run.
LEMMA BeginFinishStep ==
    ASSUME IInv, NEW h \in Handlers, NEW r \in Runs, BeginFinish(h, r)
    PROVE  IInv'
<1> USE DEF IInv
<1>1. PICK t : handlers' = [handlers EXCEPT ![h] = [run |-> r, turn |-> t]] /\ t \in Turns \cup {None}
  <2>1. runs[r].primary \in Intents
    BY PrimaryInput DEF BeginFinish, Unfinished
  <2>2. /\ journal[r].turn \in Turns \cup {None}
        /\ intents[runs[r].primary].confirmed \in Turns \cup {None}
    BY <2>1 DEF TypeOK, Journal, IntentRow
  <2> QED
    BY <2>2 DEF BeginFinish
<1>2. Exists(r) /\ journal[r].outcome \in Terminal
  BY DEF BeginFinish, Unfinished, TypeOK, Journal
<1>3. UNCHANGED <<intents, runs, controls, requests, worker>>
  BY DEF BeginFinish
<1>4. TypeOK'
  <2>1. handlers' \in [Handlers -> Handling]
    BY <1>1 DEF TypeOK, Handling
  <2> QED
    BY <2>1 DEF TypeOK, BeginFinish, worker
<1>5. References'
  BY <1>1, <1>2, <1>3 DEF worker, References, Exists, TypeOK
<1>6. DecidedOnce'
  BY <1>3 DEF worker, DecidedOnce, Accepted, Primary
<1>7. StartedLeavesQueue' /\ LedgerFollowsWorker'
  BY <1>3, OtherInputsChange DEF worker
<1>8. SlotMeansExecuting' /\ OneSlotPerControl'
  BY <1>3, SlotsOnlyReleased DEF SlotMeansExecuting, Occupied
<1> QED
  BY <1>4, <1>5, <1>6, <1>7, <1>8

\* Its commit ends the run, its input and the steers of its turn.
LEMMA CommitFinishStep ==
    ASSUME IInv, NEW h \in Handlers, CommitFinish(h)
    PROVE  IInv'
<1> USE DEF IInv
<1>1. PICK r \in Runs : /\ r = handlers[h].run /\ Exists(r)
                       /\ journal[r].outcome \in Terminal
  BY DEF CommitFinish, Idle, References
<1>2. runs[r].primary \in Intents /\ ControlOf[runs[r].primary] \in Controls
  BY <1>1, PrimaryInput, IntentsAssumption
<1>3. runs' = [runs EXCEPT ![r].status = journal[r].outcome, ![r].slot = 0]
  BY <1>1 DEF CommitFinish, Ended
<1>4. /\ \A s \in Runs : runs'[s].primary = runs[s].primary
      /\ \A s \in Runs \ {r} : runs'[s] = runs[s]
      /\ runs'[r].status = journal[r].outcome /\ runs'[r].slot = 0
  BY <1>1, <1>3 DEF TypeOK, RunRow
<1>5. \A j \in Intents : intents'[j] =
         IF j = runs[r].primary \/ j \in ClosedBy(runs[r].primary, handlers[h].turn)
         THEN [intents[j] EXCEPT !.status = journal[r].outcome] ELSE intents[j]
  BY <1>1 DEF CommitFinish
<1>6. /\ \A j \in Intents : intents'[j].resolved = intents[j].resolved
      /\ \A j \in Intents : intents[j].resolved # "steer" /\ j # runs[r].primary =>
            intents'[j].status = intents[j].status
      /\ intents'[runs[r].primary].status = journal[r].outcome
  BY <1>2, <1>5 DEF ClosedBy, TypeOK, IntentRow
<1>7. \A q \in Requests :
          /\ requests'[q].run = requests[q].run
          /\ requests[q].status = "absent" => requests'[q].status = "absent"
  BY DEF CommitFinish, Withdrawn, Open, TypeOK, RequestRow
<1>8. \A k \in Handlers : handlers'[k].run = handlers[k].run \/ handlers'[k].run = None
  BY DEF CommitFinish, TypeOK, Handling
<1>9. UNCHANGED <<journal, routed, offered>>
  BY DEF CommitFinish, worker
<1>10. \A s \in Runs \ {r} : Exists(s) =>
         /\ runs[s].primary \in Intents
         /\ intents'[runs[s].primary].status = intents[runs[s].primary].status
  BY <1>1, <1>6, PrimaryInput, OneRunPerInput DEF DecidedOnce
<1>11. TypeOK'
  <2>1. intents' \in [Intents -> IntentRow]
    <3>1. \A j \in Intents : [intents[j] EXCEPT !.status = journal[r].outcome] \in IntentRow
      BY <1>1 DEF TypeOK, IntentRow, IntentStatuses
    <3>2. \A j \in Intents : intents'[j] \in IntentRow
      BY <1>5, <3>1 DEF TypeOK
    <3>3. intents' = [j \in Intents |-> intents'[j]]
      BY DEF CommitFinish
    <3> QED
      BY <3>2, <3>3
  <2>2. runs' \in [Runs -> RunRow]
    <3>1. [runs[r] EXCEPT !.status = journal[r].outcome, !.slot = 0] \in RunRow
      BY <1>1 DEF TypeOK, RunRow, RunStatuses
    <3> QED
      BY <1>3, <3>1 DEF TypeOK
  <2>3. requests' \in [Requests -> RequestRow]
    BY DEF TypeOK, CommitFinish, RequestRow, Answered
  <2>4. controls' \in [Controls -> ControlRow]
    <3>1. controls' = Released(ControlOf[runs[r].primary])
      BY <1>1 DEF CommitFinish
    <3> QED
      BY <1>2, <3>1 DEF Released, TypeOK, ControlRow
  <2>5. handlers' \in [Handlers -> Handling]
    BY DEF TypeOK, CommitFinish, Handling
  <2> QED
    BY <2>1, <2>2, <2>3, <2>4, <2>5 DEF TypeOK, CommitFinish, worker
<1>12. References'
  BY <1>1, <1>4, <1>7, <1>8, <1>9, NoneAssumption DEF References, Exists, Terminal
<1>13. DecidedOnce'
  BY <1>6, <1>9 DEF DecidedOnce, Accepted, Primary
<1>14. StartedLeavesQueue'
  BY <1>1, <1>2, <1>4, <1>6, <1>10 DEF StartedLeavesQueue, Exists, Terminal
<1>15. LedgerFollowsWorker'
  <2> SUFFICES ASSUME NEW s \in Runs, Exists(s)'
               PROVE  LET i == runs'[s].primary IN
                      /\ i = Primary(s)'
                      /\ runs'[s].status \in Terminal <=> intents'[i].status \in Terminal
                      /\ runs'[s].status \in Terminal =>
                            /\ runs'[s].status = journal'[s].outcome
                            /\ intents'[i].status = runs'[s].status
    BY DEF LedgerFollowsWorker
  <2>1. CASE s = r
    BY <2>1, <1>1, <1>2, <1>4, <1>6, <1>9, PrimaryInput DEF Primary
  <2>2. CASE s # r
    BY <2>2, <1>4, <1>9, <1>10 DEF LedgerFollowsWorker, Exists, Primary
  <2> QED
    BY <2>1, <2>2
<1>16. SlotMeansExecuting' /\ OneSlotPerControl'
  BY <1>4, SlotsOnlyReleased DEF SlotMeansExecuting, Occupied
<1> QED
  BY <1>11, <1>12, <1>13, <1>14, <1>15, <1>16

\* A terminal request that fails writes nothing.
LEMMA AbortFinishStep ==
    ASSUME IInv, NEW h \in Handlers, AbortFinish(h)
    PROVE  IInv'
<1> USE DEF IInv
<1>1. TypeOK'
  <2>1. handlers' \in [Handlers -> Handling]
    BY DEF TypeOK, AbortFinish, Handling
  <2> QED
    BY <2>1 DEF TypeOK, AbortFinish, worker
<1>2. References'
  BY DEF AbortFinish, worker, References, Exists, TypeOK
<1>3. DecidedOnce'
  BY DEF AbortFinish, worker, DecidedOnce, Accepted, Primary
<1>4. StartedLeavesQueue' /\ LedgerFollowsWorker'
  BY DEF AbortFinish, worker, StartedLeavesQueue, LedgerFollowsWorker, Exists, Primary
<1>5. SlotMeansExecuting' /\ OneSlotPerControl'
  BY DEF AbortFinish, worker, SlotMeansExecuting, OneSlotPerControl, Occupied
<1> QED
  BY <1>1, <1>2, <1>3, <1>4, <1>5

-----------------------------------------------------------------------------
(* The invariant, and what follows from it. *)

\* The empty ledger satisfies the invariant.
LEMMA InvariantInit == Init => IInv
<1> SUFFICES ASSUME Init PROVE IInv
  OBVIOUS
<1>1. TypeOK
  BY BoundsAssumption DEF Init, TypeOK, IntentRow, RunRow, ControlRow, RequestRow, Handling,
     Journal, Decision, IntentStatuses, RunStatuses, Terminal, Executing, Answered
<1>2. \A r \in Runs : ~Exists(r) /\ runs[r].slot = 0 /\ ~Accepted(r)
  BY DEF Init, Exists, Accepted
<1> QED
  BY <1>1, <1>2, NoneAssumption
     DEF Init, IInv, References, DecidedOnce, StartedLeavesQueue, LedgerFollowsWorker,
         SlotMeansExecuting, OneSlotPerControl, Occupied

\* The invariant is a predicate of the variables.
LEMMA InvariantStutters == IInv /\ UNCHANGED vars => IInv'
BY DEF IInv, vars, server, worker, TypeOK, References, DecidedOnce, StartedLeavesQueue,
       LedgerFollowsWorker, SlotMeansExecuting, OneSlotPerControl, Exists, Accepted, Primary,
       Occupied

\* Every action of Next preserves it.
LEMMA InvariantStep == IInv /\ [Next]_vars => IInv'
<1> SUFFICES ASSUME IInv, [Next]_vars PROVE IInv'
  OBVIOUS
<1>1. CASE InputStep
  BY <1>1, EnqueueStep, ClientMessageStep, StopStep DEF InputStep
<1>2. CASE WorkerStep
  BY <1>2, FetchStep, DiscardStep, AcceptStep, SteerStep, InterruptStep, StartTurnStep,
     TurnStartedStep, ConcludeStep DEF WorkerStep
<1>3. CASE ReportStep
  BY <1>3, StartWorkerInputStep, SetThreadStep, ConfirmTurnStep, RecordSubmissionStep,
     AckSteerStep, AckInterruptStep DEF ReportStep
<1>4. CASE InteractiveStep
  BY <1>4, RegisterInteractiveStep, AnswerInteractiveStep, ExpireInteractiveStep,
     TryResumeInteractiveStep DEF InteractiveStep
<1>5. CASE FinishStep
  BY <1>5, BeginFinishStep, CommitFinishStep, AbortFinishStep DEF FinishStep
<1>6. CASE UNCHANGED vars
  BY <1>6, InvariantStutters
<1> QED
  BY <1>1, <1>2, <1>3, <1>4, <1>5, <1>6 DEF Next

\* The strengthened invariant of the ledger holds of every behaviour.
THEOREM InvariantHolds == Spec => []IInv
BY InvariantInit, InvariantStep, PTL DEF Spec

\* Every column keeps a value of its type: no report writes NULL where a row is
\* expected, and append_count stays within max_append_count.
THEOREM TypeCorrect == Spec => []TypeOK
<1>1. IInv => TypeOK
  BY DEF IInv
<1> QED
  BY <1>1, InvariantHolds, PTL

\* A run and its primary input end together, with the outcome the Worker
\* recorded, under every interleaving of reports, stops and terminal requests.
THEOREM LedgerCorrect == Spec => []LedgerFollowsWorker
<1>1. IInv => LedgerFollowsWorker
  BY DEF IInv
<1> QED
  BY <1>1, InvariantHolds, PTL

\* A slot is never left to a run that waits, was displaced or has ended.
THEOREM SlotsCorrect == Spec => []SlotMeansExecuting
<1>1. IInv => SlotMeansExecuting
  BY DEF IInv
<1> QED
  BY <1>1, InvariantHolds, PTL

\* The unique key on (control_id, active_slot) is never violated by a start, and
\* a resumption that would violate it is the only one refused.
THEOREM OneSlotCorrect == Spec => []OneSlotPerControl
<1>1. IInv => OneSlotPerControl
  BY DEF IInv
<1> QED
  BY <1>1, InvariantHolds, PTL

-----------------------------------------------------------------------------
(* What has ended stays as it ended. *)

\* Each report that writes a run checks that it has not ended.
LEMMA EndedRunStays ==
    ASSUME IInv, [Next]_vars, NEW r \in Runs, runs[r].status \in Terminal
    PROVE  runs'[r].status = runs[r].status
<1>1. Exists(r) /\ runs[r].status \notin Executing
  BY DEF Exists, Terminal, Executing
<1>2. ASSUME NEW s \in Runs, StartWorkerInput(s) PROVE runs'[r].status = runs[r].status
  <2>1. r # s
    BY <1>1, <1>2 DEF StartWorkerInput
  <2> QED
    BY <1>1, <1>2, <2>1 DEF StartWorkerInput, IInv, SlotMeansExecuting, Displaced, Executing
<1>3. ASSUME NEW s \in Runs, NEW t \in Turns, RecordSubmission(s, t)
      PROVE  runs'[r].status = runs[r].status
  BY <1>3 DEF RecordSubmission, Reopenable, IInv, TypeOK, RunRow
<1>4. ASSUME NEW s \in Runs, ConfirmTurn(s) PROVE runs'[r].status = runs[r].status
  BY <1>4 DEF ConfirmTurn, Reopenable, IInv, TypeOK, RunRow
<1>5. ASSUME NEW i \in Intents, AckSteer(i) PROVE runs'[r].status = runs[r].status
  BY <1>5 DEF AckSteer, IInv, TypeOK, RunRow
<1>6. ASSUME NEW s \in Runs, NEW q \in Requests, RegisterInteractive(s, q)
      PROVE  runs'[r].status = runs[r].status
  BY <1>1, <1>6 DEF RegisterInteractive, CanAsk, Waiting, IInv, TypeOK, RunRow
<1>7. ASSUME NEW q \in Requests, TryResumeInteractive(q) PROVE runs'[r].status = runs[r].status
  <2>1. r # requests[q].run
    BY <1>7 DEF TryResumeInteractive, Terminal
  <2>2. runs' = [runs EXCEPT ![requests[q].run].status = "running", ![requests[q].run].slot = 1]
    BY <1>7 DEF TryResumeInteractive
  <2> QED
    BY <2>1, <2>2 DEF IInv, TypeOK
<1>8. ASSUME NEW h \in Handlers, CommitFinish(h) PROVE runs'[r].status = runs[r].status
  <2>1. runs' = [runs EXCEPT ![handlers[h].run].status = journal[handlers[h].run].outcome,
                             ![handlers[h].run].slot = 0]
    BY <1>8 DEF CommitFinish, Ended
  <2> QED
    BY <1>1, <2>1 DEF IInv, TypeOK, RunRow, LedgerFollowsWorker
<1>9. CASE UNCHANGED runs
  BY <1>9
<1> QED
  BY <1>2, <1>3, <1>4, <1>5, <1>6, <1>7, <1>8, <1>9
     DEF Next, InputStep, WorkerStep, ReportStep, InteractiveStep, FinishStep, vars, server,
         Enqueue, ClientMessage, Stop, Fetch, Discard, Accept, Steer, Interrupt, StartTurn,
         TurnStarted, Conclude, SetThread, AckInterrupt, AnswerInteractive,
         ExpireInteractive, BeginFinish, AbortFinish

\* No late, repeated or reordered report revives a run or gives it a slot again.
THEOREM EndedRunsAreFinal == Spec => EndedRunIsFinal
<1>1. IInv /\ IInv' /\ [Next]_vars =>
         [\A r \in Runs : runs[r].status \in Terminal =>
             /\ runs'[r].status = runs[r].status
             /\ r \notin Occupied']_vars
  <2> SUFFICES ASSUME IInv, IInv', [Next]_vars, NEW r \in Runs, runs[r].status \in Terminal
               PROVE  runs'[r].status = runs[r].status /\ r \notin Occupied'
    OBVIOUS
  <2>1. runs'[r].status = runs[r].status
    BY EndedRunStays
  <2> QED
    BY <2>1 DEF IInv, SlotMeansExecuting, Terminal
<1> QED
  BY <1>1, InvariantHolds, PTL DEF Spec, EndedRunIsFinal
=============================================================================
