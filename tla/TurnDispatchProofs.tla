------------------------- MODULE TurnDispatchProofs -------------------------
(***************************************************************************)
(* Proofs about TurnDispatch, for every set of inputs and every scenario:  *)
(* slots, steers, turns of one control, and what the Worker remembers.     *)
(***************************************************************************)
EXTENDS TurnDispatch, FiniteSetTheorems, TLAPS

-----------------------------------------------------------------------------
(* The inductive invariant *)

Live == {"begin", "turn", "steer", "stop", "ended", "saved", "remembered"}

\* The loop decides about an input that exists; so does everything after it.
Asked ==
    loop \in {"decide", "accept"} => task \in Inputs /\ status[task] # "absent"

Held(p) ==
    run[p].applied \cup file[p].applied \cup run[p].reserved
        \cup {run[p].commands[n] : n \in 1..Len(run[p].commands)}
        \cup (IF run[p].stage \in {"steer", "stop"} THEN {run[p].doing} ELSE {})

\* What has been sent to a run or applied by it exists and was not to wait.
HeldInputs ==
    \A p \in Inputs : \A j \in Held(p) :
        j \in Inputs /\ status[j] # "absent" /\ OpOf(j) # "idle"

\* A run on its way is in the coordinator.  Two runs of one control are there
\* together, or one with a run that still waits for a slot, only after a restart;
\* and so is the control of the input that is about to start a run.
Registered ==
    /\ \A p \in Inputs : run[p].stage \in Live => p \in active
    /\ \A p \in active, q \in Inputs :
          p # q /\ ControlOf(p) = ControlOf(q) /\ (q \in active \/ run[q].stage = "waiting")
              => p \in beside /\ q \in beside
    /\ loop = "accept" =>
          \A q \in active : q # task /\ ControlOf(q) = ControlOf(task)
              => q \in beside /\ task \in beside

\* A Journal stands for a remembered input and goes after the report only; a run
\* under way knows what its Journal says.
Filed ==
    /\ \A p \in Inputs : run[p].stage \notin {"none", "done"} => file[p].kept
    /\ \A p \in Inputs : file[p].kept \/ run[p].stage # "none" => p \in remembered
    /\ \A p \in Inputs :
          IF run[p].stage \in {"none", "waiting"} THEN run[p].applied = {}
          ELSE file[p].applied \subseteq run[p].applied
    /\ \A p \in Inputs : run[p].stage \in {"remove", "clean"} => file[p].delivered
    /\ \A p \in Inputs : file[p].delivered =>
          /\ run[p].stage \in {"none", "waiting", "remove", "clean", "done"}
          /\ status[p] = "taken"
          /\ \A j \in file[p].applied : OpOf(j) # "replace" => status[j] = "taken"

\* What is remembered exists, and its report is done or still to come.
Remembers ==
    /\ \A i \in remembered : status[i] # "absent"
    /\ HandledIsReported

IInv ==
    /\ TypeOK /\ SlotsBalance /\ Asked /\ HeldInputs
    /\ Registered /\ Filed /\ Remembers

\* A run that has not begun is a run.
LEMMA FreshRun == NoRun \in Run
BY DEF NoRun, Run, Stages

\* A run in another stage is a run; so are the ones below, each of them the
\* effect of one or two actions.
LEMMA Staged ==
    ASSUME NEW r \in Run, NEW s \in Stages
    PROVE  [r EXCEPT !.stage = s] \in Run
BY DEF Run

\* Clean.
LEMMA SlotLess ==
    ASSUME NEW r \in Run, NEW s \in Stages
    PROVE  [r EXCEPT !.slot = FALSE, !.stage = s] \in Run
BY DEF Run

\* Send.
LEMMA Sent ==
    ASSUME NEW r \in Run, NEW i \in Inputs
    PROVE  [r EXCEPT !.commands = Append(@, i), !.reserved = @ \cup {i}, !.appends = @ + 1] \in Run
<1>1. r.commands \in Seq(Inputs) /\ r.appends \in Nat /\ r.reserved \subseteq Inputs
  BY DEF Run
<1>2. /\ Append(r.commands, i) \in Seq(Inputs) /\ r.appends + 1 \in Nat
      /\ r.reserved \cup {i} \subseteq Inputs
  BY <1>1
<1>3. \A c \in Seq(Inputs), n \in Nat, R \in SUBSET Inputs :
          [r EXCEPT !.commands = c, !.reserved = R, !.appends = n] \in Run
  BY DEF Run
<1> QED BY <1>2, <1>3

\* TakeCommand takes the first command.
LEMMA Popped ==
    ASSUME NEW r \in Run, r.commands # <<>>
    PROVE  /\ Head(r.commands) \in Inputs
           /\ [r EXCEPT !.commands = Tail(@)] \in Run
<1>1. r.commands \in Seq(Inputs)
  BY DEF Run
<1>2. Head(r.commands) \in Inputs /\ Tail(r.commands) \in Seq(Inputs)
  BY <1>1
<1>3. \A c \in Seq(Inputs) : [r EXCEPT !.commands = c] \in Run
  BY DEF Run
<1> QED BY <1>2, <1>3

\* Rejected.
LEMMA Refused ==
    ASSUME NEW r \in Run, NEW R \in SUBSET Inputs, NEW n \in Nat
    PROVE  [r EXCEPT !.reserved = R, !.appends = n] \in Run
BY DEF Run

\* TakeCommand passes it on.
LEMMA Doing ==
    ASSUME NEW r \in Run, NEW j \in Inputs, NEW s \in Stages
    PROVE  [r EXCEPT !.doing = j, !.stage = s] \in Run
BY DEF Run

\* MarkApplied.
LEMMA Done ==
    ASSUME NEW r \in Run, NEW R \in SUBSET Inputs, NEW A \in SUBSET Inputs, NEW s \in Stages
    PROVE  [r EXCEPT !.stage = s, !.doing = None, !.reserved = R, !.applied = A] \in Run
BY DEF Run

\* Recover.
LEMMA Recovered ==
    ASSUME NEW n \in Nat, NEW A \in SUBSET Inputs, NEW s \in Stages
    PROVE  [NoRun EXCEPT !.slot = TRUE, !.applied = A, !.appends = n, !.stage = s] \in Run
BY FreshRun DEF Run

\* Crash; Accept.
LEMMA Anew ==
    ASSUME  NEW s \in Stages
    PROVE  [NoRun EXCEPT !.stage = s] \in Run /\ [NoRun EXCEPT !.stage = s, !.slot = TRUE] \in Run
BY FreshRun DEF Run

\* Return and Unregister.
LEMMA Ended ==
    ASSUME NEW r \in Run, NEW s \in Stages
    PROVE  /\ Over(s, r) \in Run /\ Over(s, r).stage = s /\ Over(s, r).applied = r.applied
           /\ ~Over(s, r).slot /\ Over(s, r).commands = <<>> /\ Over(s, r).reserved = {}
<1>1. r.applied \subseteq Inputs
  BY DEF Run
<1> QED BY <1>1, FreshRun DEF Over, Run, NoRun

\* One run is replaced.
LEMMA Replaced ==
    ASSUME NEW f \in [Inputs -> Run], NEW p \in Inputs, NEW r \in Run
    PROVE  [f EXCEPT ![p] = r] \in [Inputs -> Run]
OBVIOUS

\* A run is moved to another stage.
LEMMA Moved ==
    ASSUME TypeOK, NEW p \in Inputs, NEW stage \in Stages, GoTo(p, stage)
    PROVE  run' \in [Inputs -> Run]
<1>1. run \in [Inputs -> Run] /\ run[p] \in Run
  BY DEF TypeOK
<1>2. run' = [run EXCEPT ![p] = [run[p] EXCEPT !.stage = stage]]
  BY DEF GoTo
<1> QED BY <1>1, <1>2, Staged, Replaced

\* What a scenario is made of.
LEMMA Scenery ==
    ASSUME TypeOK, ScenariosAssumption
    PROVE  /\ Slots \in Nat
           /\ scenario.arriving \subseteq Inputs
           /\ \A i \in Inputs : ControlOf(i) \in Controls /\ OpOf(i) \in Ops
<1>1. scenario \in [arriving : SUBSET Inputs, slots : Nat, crashes : Nat, faults : BOOLEAN,
                    work : [Inputs -> [control : Controls, op : Ops]]]
  BY DEF TypeOK, ScenariosAssumption
<1> QED BY <1>1 DEF Slots, ControlOf, OpOf

\* A Journal names inputs.
LEMMA JournalOf ==
    ASSUME TypeOK, NEW p \in Inputs
    PROVE  file[p] \in Journal /\ file[p].applied \subseteq Inputs
BY DEF TypeOK, Journal

\* A removed Journal and a new one are Journals.
LEMMA NoFileIsJournal ==
    /\ NoFile \in Journal
    /\ [NoFile EXCEPT !.kept = TRUE] \in Journal
BY DEF NoFile, Journal

\* The slots of the runs that have one are counted.
LEMMA SlotIsCounted ==
    ASSUME SlotsBalance, InputsAssumption, NEW p \in Inputs, run[p].slot
    PROVE  used > 0
<1> DEFINE S == {q \in Inputs : run[q].slot}
<1>1. IsFiniteSet(S)
  BY FS_Subset DEF InputsAssumption
<1>2. S # {}
  OBVIOUS
<1>3. Cardinality(S) # 0 /\ Cardinality(S) \in Nat
  BY <1>1, <1>2, FS_EmptySet, FS_CardinalityType
<1>4. used = Cardinality(S)
  BY DEF SlotsBalance
<1> HIDE DEF S
<1> QED BY <1>3, <1>4

\* No slot is given back that was not taken.
LEMMA GivenBack ==
    ASSUME TypeOK, SlotsBalance, InputsAssumption, NEW p \in Inputs
    PROVE  SlotsWithout(p) \in Nat
<1>0. used \in Nat
  BY DEF TypeOK
<1>1. CASE run[p].slot
  BY <1>0, <1>1, SlotIsCounted DEF SlotsWithout
<1>2. CASE ~run[p].slot
  BY <1>0, <1>2 DEF SlotsWithout
<1> QED BY <1>1, <1>2

\* The steers a run has behind it can be counted.
LEMMA AppliedIsFinite ==
    ASSUME TypeOK, InputsAssumption, NEW p \in Inputs
    PROVE  Cardinality(file[p].applied) \in Nat /\ Cardinality(run[p].applied) \in Nat
<1>1. run[p].applied \subseteq Inputs
  BY DEF TypeOK, Run
<1> QED BY <1>1, JournalOf, FS_Subset, FS_CardinalityType DEF InputsAssumption

\* Returning leaves no run behind.
LEMMA Returned ==
    ASSUME TypeOK, SlotsBalance, InputsAssumption, NEW p \in Inputs, Return(p)
    PROVE  /\ run' \in [Inputs -> Run] /\ used' \in Nat
           /\ active' \subseteq Inputs /\ remembered' \subseteq Inputs
           /\ rung' \in BOOLEAN /\ signalled' \in BOOLEAN
<1>0. run[p] \in Run /\ run[p].applied \subseteq Inputs
  BY DEF TypeOK, Run
<1>1. run' \in [Inputs -> Run]
  BY <1>0, Ended, Replaced DEF Return, TypeOK, Stages
<1>2. used' \in Nat
  BY GivenBack DEF Return
<1>3. active' \subseteq Inputs /\ remembered' \subseteq Inputs
  BY <1>0 DEF Return, TypeOK
<1>4. rung' \in BOOLEAN /\ signalled' \in BOOLEAN
  BY DEF Return, Notify
<1> QED BY <1>1, <1>2, <1>3, <1>4

\* Types: the steps of the loop.
LEMMA TypeOfLoop ==
    ASSUME InputsAssumption, ScenariosAssumption, IInv, LoopStep
    PROVE  TypeOK'
<1>0. TypeOK /\ Asked
  BY DEF IInv
<1>a. LoopOnly => /\ scenario' = scenario /\ status' = status /\ task' = task /\ run' = run
                  /\ active' = active /\ remembered' = remembered /\ used' = used
                  /\ file' = file /\ executed' = executed
                  /\ exposed' = exposed /\ beside' = beside /\ crashes' = crashes
  BY DEF LoopOnly, history
<1>1. CASE Check
  BY <1>0, <1>a, <1>1 DEF Check, TypeOK, LoopSteps
<1>2. CASE Arm
  BY <1>0, <1>a, <1>2 DEF Arm, waking, TypeOK, LoopSteps
<1>3. CASE Signal
  BY <1>0, <1>a, <1>3 DEF Signal, TypeOK, LoopSteps
<1>4. CASE Timer
  BY <1>0, <1>a, <1>4 DEF Timer, TypeOK, LoopSteps
<1>5. CASE Claim
  <2>1. \A p \in active : ControlOf(p) \in Controls
    BY <1>0, Scenery DEF TypeOK
  <2>2. ask' \in [active : SUBSET Controls, full : BOOLEAN]
    BY <1>5, <2>1 DEF Claim
  <2> QED BY <1>0, <1>a, <1>5, <2>2 DEF Claim, waking, TypeOK, LoopSteps
<1>6. CASE Answer
  <2>0. Answered
    BY <1>6 DEF Answer, AnswerInput, AnswerNothing
  <2>1. task' \in Inputs \cup {None} /\ loop' \in LoopSteps
    BY <1>0, <1>6 DEF Answer, AnswerInput, AnswerNothing, TypeOK, LoopSteps
  <2>2. ask' \in [active : SUBSET Controls, full : BOOLEAN]
    BY <2>0 DEF Answered, NoAsk
  <2> QED BY <1>0, <2>0, <2>1, <2>2 DEF Answered, waking, history, TypeOK
<1>7. CASE Decide
  <2>1. task \in Inputs
    BY <1>0, <1>7 DEF Decide, Asked
  <2>2. ASSUME NEW p \in Routes(task), Send(p, task)
        PROVE  run' \in [Inputs -> Run]
    <3>1. p \in Inputs /\ run \in [Inputs -> Run] /\ run[p] \in Run
      BY <1>0 DEF Routes, TypeOK
    <3>2. run' = [run EXCEPT ![p] = [run[p] EXCEPT !.commands = Append(@, task),
                                         !.reserved = @ \cup {task}, !.appends = @ + 1]]
      BY <2>2 DEF Send
    <3> QED BY <2>1, <3>1, <3>2, Sent, Replaced
  <2>3. ASSUME NEW p \in Inputs
        PROVE  Acknowledged(p, task) \in [Inputs -> {"absent", "queued", "taken"}]
    BY <1>0, <2>1 DEF Acknowledged, TypeOK
  <2>4. \A p \in Routes(task) : p \in Inputs
    BY <1>0 DEF Routes, TypeOK
  <2>5. run' \in [Inputs -> Run]
    BY <1>0, <1>7, <2>2 DEF Decide, TypeOK
  <2>6. status' \in [Inputs -> {"absent", "queued", "taken"}]
    <3>1. \/ status' = status
          \/ \E p \in Routes(task) : status' = Acknowledged(p, task)
      BY <1>7 DEF Decide
    <3>2. status \in [Inputs -> {"absent", "queued", "taken"}]
      BY <1>0 DEF TypeOK
    <3> QED BY <2>3, <2>4, <3>1, <3>2
  <2>7. loop' \in LoopSteps /\ task' \in Inputs \cup {None}
    BY <1>0, <1>7 DEF Decide, LoopSteps, TypeOK
  <2> QED BY <1>0, <1>7, <2>5, <2>6, <2>7 DEF Decide, Notify, history, TypeOK
<1>8. CASE Accept
  <2>1. task \in Inputs
    BY <1>0, <1>8 DEF Accept, Asked
  <2>2. loop' \in LoopSteps /\ task' \in Inputs \cup {None}
    BY <1>8 DEF Accept, LoopSteps
  <2>3. CASE task \notin remembered /\ used < Slots
    <3>0. used < Slots => ~(used >= Slots)
      BY <1>0, Scenery DEF TypeOK
    <3>1. file' \in [Inputs -> Journal]
      BY <1>0, <1>8, <2>1, <2>3, <3>0, NoFileIsJournal DEF Accept, TypeOK
    <3>2. run' \in [Inputs -> Run]
      <4>1. run \in [Inputs -> Run]
        BY <1>0 DEF TypeOK
      <4>2. run' = [run EXCEPT ![task] = [NoRun EXCEPT !.stage = "begin", !.slot = TRUE]]
        BY <1>8, <2>3, <3>0 DEF Accept
      <4>3. [NoRun EXCEPT !.stage = "begin", !.slot = TRUE] \in Run
        BY Anew DEF Stages
      <4> QED BY <2>1, <4>1, <4>2, <4>3, Replaced
    <3>3. exposed' \subseteq Inputs /\ beside' \subseteq Inputs
      BY <1>0, <1>8, <2>3, <3>0 DEF Accept, Beside, Overtaken, TypeOK
    <3>4. used' \in Nat /\ remembered' \subseteq Inputs /\ active' \subseteq Inputs
      BY <1>0, <1>8, <2>1, <2>3, <3>0 DEF Accept, TypeOK
    <3> QED BY <1>0, <1>8, <2>2, <3>1, <3>2, <3>3, <3>4 DEF Accept, waking, TypeOK
  <2>4. CASE ~(task \notin remembered /\ used < Slots)
    BY <1>0, <1>8, <2>2, <2>4 DEF Accept, waking, TypeOK
  <2> QED BY <2>3, <2>4
<1> QED BY <1>1, <1>2, <1>3, <1>4, <1>5, <1>6, <1>7, <1>8 DEF LoopStep

\* Types: the steps of a run.
LEMMA TypeOfRun ==
    ASSUME InputsAssumption, ScenariosAssumption, IInv, NEW p \in Inputs, RunStep(p)
    PROVE  TypeOK'
<1>0. TypeOK /\ SlotsBalance /\ HeldInputs
  BY DEF IInv
<1>r. /\ run \in [Inputs -> Run] /\ run[p] \in Run
      /\ file \in [Inputs -> Journal] /\ file[p] \in Journal
  BY <1>0 DEF TypeOK
<1>a. RunOnly => /\ scenario' = scenario /\ status' = status /\ loop' = loop /\ ask' = ask
                 /\ task' = task /\ remembered' = remembered /\ active' = active
                 /\ used' = used /\ rung' = rung /\ signalled' = signalled
                 /\ beside' = beside /\ crashes' = crashes
  BY DEF RunOnly, looping, waking
<1>e. ASSUME NEW j \in Inputs, Executes(j) PROVE executed' \in [Inputs -> 0 .. 2]
  BY <1>0, <1>e DEF Executes, TypeOK
<1>1. CASE Begin(p)
  <2>1. run' \in [Inputs -> Run]
    BY <1>0, <1>1, Moved DEF Begin, StartTurn, Stages
  <2>2. executed' \in [Inputs -> 0 .. 2] /\ exposed' \subseteq Inputs
    BY <1>0, <1>1, <1>e DEF Begin, StartTurn, TypeOK
  <2> QED BY <1>0, <1>a, <1>1, <2>1, <2>2 DEF Begin, TypeOK
<1>2. CASE SaveEvent(p)
  <2>1. file' \in [Inputs -> Journal]
    BY <1>r, <1>2 DEF SaveEvent, Save, Journal, Run
  <2> QED BY <1>0, <1>a, <1>2, <2>1 DEF SaveEvent, TypeOK
<1>3. CASE TakeCommand(p)
  <2> DEFINE j    == Head(run[p].commands)
             rest == [run EXCEPT ![p].commands = Tail(@)]
  <2>1. j \in Inputs /\ [run[p] EXCEPT !.commands = Tail(@)] \in Run
    BY <1>r, <1>3, Popped DEF TakeCommand
  <2>2. rest = [run EXCEPT ![p] = [run[p] EXCEPT !.commands = Tail(@)]]
    OBVIOUS
  <2> HIDE DEF rest, j
  <2>3. rest \in [Inputs -> Run] /\ rest[p] \in Run
    BY <1>r, <2>1, <2>2, Replaced
  <2>4. Rejected(rest, p, j) \in [Inputs -> Run]
    <3> DEFINE n == IF j \in run[p].reserved /\ rest[p].appends > Cardinality(run[p].applied)
                    THEN rest[p].appends - 1 ELSE rest[p].appends
               R == rest[p].reserved \ {j}
    <3>1. Cardinality(run[p].applied) \in Nat
      BY <1>0, AppliedIsFinite
    <3>2. rest[p].appends \in Nat /\ rest[p].reserved \subseteq Inputs
      BY <2>3 DEF Run
    <3>3. n \in Nat /\ R \in SUBSET Inputs
      BY <3>1, <3>2
    <3>4. Rejected(rest, p, j) = [rest EXCEPT ![p] = [rest[p] EXCEPT !.reserved = R, !.appends = n]]
      BY DEF Rejected
    <3> HIDE DEF n, R
    <3>5. [rest[p] EXCEPT !.reserved = R, !.appends = n] \in Run
      BY <2>3, <3>3, Refused
    <3> QED BY <2>3, <3>4, <3>5, Replaced
  <2>5. [rest EXCEPT ![p].doing = j, ![p].stage = IF Stops(j) THEN "stop" ELSE "steer"]
            \in [Inputs -> Run]
    <3> DEFINE s == IF Stops(j) THEN "stop" ELSE "steer"
    <3>1. s \in Stages
      BY DEF Stages
    <3> HIDE DEF s
    <3>2. [rest[p] EXCEPT !.doing = j, !.stage = s] \in Run
      BY <2>1, <2>3, <3>1, Doing
    <3>3. [rest EXCEPT ![p].doing = j, ![p].stage = s] \in [Inputs -> Run]
      BY <2>3, <3>2, Replaced
    <3> QED BY <3>3 DEF s
  <2>6. run' \in [Inputs -> Run]
    BY <1>3, <2>4, <2>5 DEF TakeCommand, rest, j
  <2>7. executed' \in [Inputs -> 0 .. 2] /\ exposed' \subseteq Inputs
    <3>1. /\ executed' = executed \/ Executes(j)
          /\ exposed' = exposed \/ exposed' = exposed \cup {j}
      BY <1>3 DEF TakeCommand, j
    <3> QED BY <1>0, <1>e, <2>1, <3>1 DEF TypeOK
  <2> QED BY <1>0, <1>a, <1>3, <2>6, <2>7 DEF TakeCommand, TypeOK
<1>4. CASE MarkApplied(p)
  <2> DEFINE d == run[p].doing
             s == IF Stops(d) THEN "ended" ELSE "turn"
             R == run[p].reserved \ {d}
             A == run[p].applied \cup {d}
  <2>1. d \in Inputs
    BY <1>0, <1>4 DEF MarkApplied, HeldInputs, Held
  <2>3. s \in Stages /\ R \in SUBSET Inputs /\ A \in SUBSET Inputs
    BY <1>r, <2>1 DEF Stages, Run
  <2>2. file' \in [Inputs -> Journal]
    <3>1. file' = file \/ Save(p, A)
      BY <1>4 DEF MarkApplied
    <3>2. \A X \in SUBSET Inputs :
              [file EXCEPT ![p].applied = X, ![p].submitted = TRUE] \in [Inputs -> Journal]
      BY <1>r DEF Journal
    <3> QED BY <1>r, <2>3, <3>1, <3>2 DEF Save
  <2>4. run' = [run EXCEPT ![p] = [run[p] EXCEPT !.stage = s, !.doing = None, !.reserved = R,
                                                 !.applied = A]]
    BY <1>4 DEF MarkApplied
  <2> HIDE DEF s, R, A
  <2>5. [run[p] EXCEPT !.stage = s, !.doing = None, !.reserved = R, !.applied = A] \in Run
    BY <1>r, <2>3, Done
  <2>6. run' \in [Inputs -> Run]
    BY <1>r, <2>4, <2>5, Replaced
  <2> QED BY <1>0, <1>a, <1>4, <2>2, <2>6 DEF MarkApplied, TypeOK
<1>5. CASE EndTurn(p)
  <2>1. run' \in [Inputs -> Run]
    BY <1>0, <1>5, Moved DEF EndTurn, Stages
  <2> QED BY <1>0, <1>a, <1>5, <2>1 DEF EndTurn, TypeOK
<1>6. CASE SaveResult(p)
  <2>1. CASE Return(p) /\ UNCHANGED file
    BY <1>0, <1>6, <2>1, Returned DEF SaveResult, TypeOK, looping, history
  <2>2. CASE /\ file' = [file EXCEPT ![p].ended = TRUE, ![p].submitted = TRUE,
                                     ![p].applied = run[p].applied]
             /\ GoTo(p, "saved")
             /\ UNCHANGED <<remembered, active, used, waking>>
    <3>1. run' \in [Inputs -> Run]
      BY <1>0, <2>2, Moved DEF Stages
    <3>2. file' \in [Inputs -> Journal]
      BY <1>r, <2>2 DEF Journal, Run
    <3> QED BY <1>0, <1>6, <2>2, <3>1, <3>2 DEF SaveResult, TypeOK, looping, history, waking
  <2> QED BY <1>6, <2>1, <2>2 DEF SaveResult
<1>7. CASE Remember(p)
  <2>1. run' \in [Inputs -> Run]
    BY <1>0, <1>7, Moved DEF Remember, Stages
  <2>2. remembered' \subseteq Inputs
    BY <1>0, <1>r, <1>7 DEF Remember, TypeOK, Run
  <2> QED BY <1>0, <1>7, <2>1, <2>2 DEF Remember, TypeOK, looping, history, waking
<1>8. CASE Unregister(p)
  <2>1. run' \in [Inputs -> Run]
    BY <1>r, <1>8, Ended, Replaced DEF Unregister, Stages
  <2>2. used' \in Nat
    BY <1>0, <1>8, GivenBack DEF Unregister
  <2>3. active' \subseteq Inputs
    BY <1>0, <1>8 DEF Unregister, TypeOK
  <2> QED BY <1>0, <1>8, <2>1, <2>2, <2>3 DEF Unregister, TypeOK, looping, history, waking
<1>9. CASE Deliver(p)
  <2>1. run' \in [Inputs -> Run]
    BY <1>0, <1>9, Moved DEF Deliver, Stages
  <2>2. file' \in [Inputs -> Journal]
    BY <1>r, <1>9 DEF Deliver, Journal
  <2>3. status' \in [Inputs -> {"absent", "queued", "taken"}]
    BY <1>0, <1>9 DEF Deliver, Synced, TypeOK
  <2> QED BY <1>0, <1>9, <2>1, <2>2, <2>3 DEF Deliver, TypeOK, looping, history, waking
<1>10. CASE Remove(p)
  <2>1. file' \in [Inputs -> Journal]
    BY <1>r, <1>10, NoFileIsJournal DEF Remove
  <2> QED BY <1>0, <1>10, <2>1, Returned DEF Remove, TypeOK, looping, history
<1>11. CASE Clean(p)
  <2>1. file' \in [Inputs -> Journal]
    BY <1>r, <1>11, NoFileIsJournal DEF Clean
  <2>2. run' = [run EXCEPT ![p] = [run[p] EXCEPT !.slot = FALSE, !.stage = "done"]]
    BY <1>11 DEF Clean
  <2>3. run' \in [Inputs -> Run]
    BY <1>r, <2>2, SlotLess, Replaced DEF Stages
  <2>4. used' \in Nat
    BY <1>0, <1>11, GivenBack DEF Clean
  <2> QED BY <1>0, <1>11, <2>1, <2>3, <2>4 DEF Clean, TypeOK, looping, history, Notify
<1>12. CASE Recover(p)
  <2> DEFINE s == CASE file[p].delivered -> "clean"
                    [] ~file[p].delivered /\ file[p].ended -> "saved"
                    [] OTHER -> "begin"
             n == Cardinality(file[p].applied)
  <2>1. n \in Nat
    BY <1>0, AppliedIsFinite
  <2>2. s \in Stages /\ file[p].applied \in SUBSET Inputs
    BY <1>r DEF Stages, Journal
  <2>3. run' = [run EXCEPT ![p] = [NoRun EXCEPT !.slot = TRUE, !.applied = file[p].applied,
                                                !.appends = n, !.stage = s]]
    BY <1>12 DEF Recover
  <2> HIDE DEF s, n
  <2>4. [NoRun EXCEPT !.slot = TRUE, !.applied = file[p].applied, !.appends = n, !.stage = s]
            \in Run
    BY <2>1, <2>2, Recovered
  <2>5. run' \in [Inputs -> Run]
    BY <1>r, <2>3, <2>4, Replaced
  <2>6. beside' \subseteq Inputs
    BY <1>0, <1>12 DEF Recover, TypeOK, Beside
  <2>7. used' \in Nat /\ active' \subseteq Inputs
    BY <1>0, <1>12 DEF Recover, TypeOK
  <2> QED BY <1>0, <1>12, <2>5, <2>6, <2>7 DEF Recover, TypeOK, looping, waking
<1> QED BY <1>1, <1>2, <1>3, <1>4, <1>5, <1>6, <1>7, <1>8, <1>9, <1>10, <1>11, <1>12
        DEF RunStep

\* Types: arrival, reports and restarts.
LEMMA TypeOfRest ==
    ASSUME InputsAssumption, ScenariosAssumption, IInv,
           \/ \E i \in scenario.arriving : Arrive(i)
           \/ \E p \in Inputs : ReportStart(p)
           \/ \E p, j \in Inputs : ReportDecision(p, j)
           \/ Crash
           \/ UNCHANGED vars
    PROVE  TypeOK'
<1>0. TypeOK /\ HeldInputs
  BY DEF IInv
<1>1. ASSUME NEW i \in scenario.arriving, Arrive(i) PROVE TypeOK'
  <2>1. status' \in [Inputs -> {"absent", "queued", "taken"}]
    BY <1>0, <1>1 DEF Arrive, TypeOK
  <2>2. rung' \in BOOLEAN /\ signalled' \in BOOLEAN
    BY <1>0, <1>1 DEF Arrive, Notify, waking, TypeOK
  <2> QED BY <1>0, <1>1, <2>1, <2>2 DEF Arrive, TypeOK, looping, history
<1>2. ASSUME NEW p \in Inputs, ReportStart(p) PROVE TypeOK'
  <2>1. status' \in [Inputs -> {"absent", "queued", "taken"}]
    BY <1>0, <1>2 DEF ReportStart, Started, TypeOK
  <2> QED BY <1>0, <1>2, <2>1 DEF ReportStart, TypeOK, looping, waking, history
<1>3. ASSUME NEW p \in Inputs, NEW j \in Inputs, ReportDecision(p, j) PROVE TypeOK'
  <2>1. status' \in [Inputs -> {"absent", "queued", "taken"}]
    BY <1>0, <1>3 DEF ReportDecision, Acknowledged, TypeOK
  <2> QED BY <1>0, <1>3, <2>1 DEF ReportDecision, TypeOK, looping, waking, history
<1>4. CASE Crash
  <2>1. run' \in [Inputs -> Run]
    BY <1>4, FreshRun, Anew DEF Crash, Stages
  <2>2. exposed' \subseteq Inputs
    <3>1. \A p \in Inputs : run[p].stage = "steer" => run[p].doing \in Inputs
      BY <1>0 DEF HeldInputs, Held
    <3>2. Lost \subseteq Inputs
      <4>1. \A p \in Inputs : run[p].applied \subseteq Inputs
        BY <1>0 DEF TypeOK, Run
      <4> QED BY <3>1, <4>1 DEF Lost
    <3> QED BY <1>0, <1>4, <3>2 DEF Crash, TypeOK
  <2>3. remembered' \subseteq Inputs
    BY <1>0, <1>4, JournalOf DEF Crash
  <2>4. crashes' \in Nat /\ used' \in Nat /\ loop' \in LoopSteps
    BY <1>0, <1>4 DEF Crash, TypeOK, LoopSteps
  <2> QED BY <1>0, <1>4, <2>1, <2>2, <2>3, <2>4 DEF Crash, TypeOK, NoAsk
<1>5. CASE UNCHANGED vars
  BY <1>0, <1>5 DEF vars, looping, waking, history, TypeOK
<1> QED BY <1>1, <1>2, <1>3, <1>4, <1>5

\* Types: every step.
LEMMA StepType ==
    ASSUME InputsAssumption, ScenariosAssumption, IInv, [Next]_vars
    PROVE  TypeOK'
BY TypeOfLoop, TypeOfRun, TypeOfRest DEF Next

-----------------------------------------------------------------------------
(* What every step leaves alone *)

\* The scenario never changes.
LEMMA Scene ==
    ASSUME [Next]_vars
    PROVE  scenario' = scenario
<1>1. ASSUME LoopStep PROVE scenario' = scenario
  BY <1>1 DEF LoopStep, Check, Arm, Signal, Timer, Claim, Answer, AnswerInput, AnswerNothing,
              Answered, Decide, Accept, LoopOnly
<1>2. ASSUME NEW p \in Inputs, RunStep(p) PROVE scenario' = scenario
  BY <1>2 DEF RunStep, Begin, SaveEvent, TakeCommand, MarkApplied, EndTurn, SaveResult, Remember,
              Unregister, Deliver, Remove, Clean, Recover, RunOnly
<1> QED BY <1>1, <1>2 DEF Next, Arrive, ReportStart, ReportDecision, Crash, vars

\* A step of a run leaves the other runs and Journals as they are.
LEMMA OthersStay ==
    ASSUME IInv, NEW p \in Inputs, RunStep(p), NEW q \in Inputs, q # p
    PROVE  run'[q] = run[q] /\ file'[q] = file[q]
<1>0. run \in [Inputs -> Run] /\ file \in [Inputs -> Journal]
  BY DEF IInv, TypeOK
<1>1. CASE Begin(p) \/ SaveEvent(p) \/ EndTurn(p) \/ Remember(p) \/ Unregister(p)
           \/ Deliver(p) \/ Clean(p)
  BY <1>0, <1>1 DEF Begin, StartTurn, SaveEvent, Save, EndTurn, Remember, Unregister, Deliver,
                    Clean, GoTo
<1>2. CASE TakeCommand(p) \/ MarkApplied(p)
  BY <1>0, <1>2 DEF TakeCommand, Rejected, MarkApplied, Save
<1>3. CASE SaveResult(p) \/ Remove(p) \/ Recover(p)
  BY <1>0, <1>3 DEF SaveResult, Return, GoTo, Remove, Recover
<1> QED BY <1>1, <1>2, <1>3 DEF RunStep

\* What Control has been told stays, and only arrival puts an input in the queue.
Grows(i) ==
    /\ status[i] = "taken" => status'[i] = "taken"
    /\ status[i] # "absent" => status'[i] # "absent"
    /\ status'[i] = "queued" => status[i] \in {"queued", "absent"}

\* Every step lets the status of an input grow.
LEMMA StatusGrows ==
    ASSUME IInv, [Next]_vars, NEW i \in Inputs
    PROVE  Grows(i)
<1>0. status \in [Inputs -> {"absent", "queued", "taken"}]
  BY DEF IInv, TypeOK
<1>s. status' = status => Grows(i)
  BY <1>0 DEF Grows
<1>a. \A p, j \in Inputs : status' = Acknowledged(p, j) => Grows(i)
  BY <1>0 DEF Grows, Acknowledged
<1>1. ASSUME LoopStep PROVE Grows(i)
  <2>1. CASE Decide
    <3>1. task \in Inputs /\ Routes(task) \subseteq Inputs
      BY <2>1 DEF IInv, TypeOK, Asked, Decide, Routes
    <3> QED BY <1>s, <1>a, <2>1, <3>1 DEF Decide
  <2> QED BY <1>1, <1>s, <2>1 DEF LoopStep, Check, Arm, Signal, Timer, Claim,
              Answer, AnswerInput, AnswerNothing, Answered, Accept, LoopOnly
<1>2. ASSUME NEW p \in Inputs, RunStep(p) PROVE Grows(i)
  <2>1. CASE Deliver(p)
    BY <1>0, <2>1 DEF Deliver, Synced, Grows
  <2> QED BY <1>2, <1>s, <2>1 DEF RunStep, Begin, SaveEvent, TakeCommand, MarkApplied, EndTurn,
              SaveResult, Remember, Unregister, Remove, Clean, Recover, RunOnly
<1>3. ASSUME NEW j \in scenario.arriving, Arrive(j) PROVE Grows(i)
  BY <1>0, <1>3 DEF Arrive, Grows
<1>4. ASSUME NEW p \in Inputs, ReportStart(p) PROVE Grows(i)
  BY <1>0, <1>4 DEF ReportStart, Started, Grows
<1>5. ASSUME NEW p \in Inputs, NEW j \in Inputs, ReportDecision(p, j) PROVE Grows(i)
  BY <1>a, <1>5 DEF ReportDecision
<1>6. CASE Crash \/ UNCHANGED vars
  BY <1>s, <1>6 DEF Crash, vars
<1> QED BY <1>1, <1>2, <1>3, <1>4, <1>5, <1>6 DEF Next

\* Outside a run, the runs and Journals change when a command is sent, a run
\* starts, or the Worker ends.
LEMMA RunsStay ==
    ASSUME [Next]_vars, ~Decide, ~Accept, ~Crash, \A p \in Inputs : ~RunStep(p)
    PROVE  /\ run' = run /\ file' = file /\ active' = active /\ remembered' = remembered
           /\ used' = used /\ exposed' = exposed /\ beside' = beside
BY DEF Next, LoopStep, Check, Arm, Signal, Timer, Claim, Answer, AnswerInput, AnswerNothing,
       Answered, LoopOnly, history, Arrive, ReportStart, ReportDecision, vars

-----------------------------------------------------------------------------
(* The input the loop decides about *)

\* Every step preserves Asked.
LEMMA StepAsked ==
    ASSUME InputsAssumption, ScenariosAssumption, IInv, [Next]_vars
    PROVE  Asked'
<1>0. TypeOK /\ Asked /\ TypeOK'
  BY StepType DEF IInv
<1>g. \A i \in Inputs : status[i] # "absent" => status'[i] # "absent"
  BY StatusGrows DEF Grows
<1>1. CASE Answer
  <2>1. CASE AnswerInput
    BY <1>0, <2>1 DEF AnswerInput, Answered, PendingWorkerInput, Offered, Asked, TypeOK
  <2>2. CASE AnswerNothing
    BY <2>2 DEF AnswerNothing, Asked
  <2> QED BY <1>1, <2>1, <2>2 DEF Answer
<1>2. CASE Decide
  BY <1>0, <1>2, <1>g DEF Decide, Asked
<1>3. CASE ~Answer /\ ~Decide
  <2>1. \/ loop' \notin {"decide", "accept"}
        \/ loop' = loop /\ task' = task
    <3>1. CASE LoopStep
      BY <1>3, <3>1 DEF LoopStep, Check, Arm, Signal, Timer, Claim, Accept
    <3>2. ASSUME NEW p \in Inputs, RunStep(p) PROVE loop' = loop /\ task' = task
      BY <3>2 DEF RunStep, Begin, SaveEvent, TakeCommand, MarkApplied, EndTurn, SaveResult, looping,
              Remember, Unregister, Deliver, Remove, Clean, Recover, RunOnly
    <3> QED BY <3>1, <3>2 DEF Next, Arrive, ReportStart, ReportDecision, Crash, vars, looping
  <2> QED BY <1>0, <1>g, <2>1 DEF Asked
<1> QED BY <1>1, <1>2, <1>3

-----------------------------------------------------------------------------
(* What a run holds *)

\* HeldInputs is preserved by what gives no run anything new.
LEMMA HeldStays ==
    ASSUME InputsAssumption, ScenariosAssumption, IInv, [Next]_vars, 
           \A p \in Inputs : Held(p)' \subseteq Held(p)
    PROVE  HeldInputs'
<1>1. \A i : OpOf(i)' = OpOf(i)
  BY Scene DEF OpOf
<1>2. \A i \in Inputs : status[i] # "absent" => status'[i] # "absent"
  BY StatusGrows DEF Grows
<1>3. HeldInputs
  BY DEF IInv
<1> QED BY <1>1, <1>2, <1>3 DEF HeldInputs

\* A step that leaves the commands of a run and takes nothing on gives it nothing new.
LEMMA HeldOf ==
    ASSUME NEW p, run'[p].commands = run[p].commands, run'[p].reserved \subseteq run[p].reserved,
           run'[p].applied \subseteq run[p].applied \cup file[p].applied,
           file'[p].applied \subseteq run[p].applied \cup file[p].applied,
           run'[p].stage \in {"steer", "stop"} =>
               run[p].stage \in {"steer", "stop"} /\ run'[p].doing = run[p].doing
    PROVE  Held(p)' \subseteq Held(p)
BY DEF Held

\* Every step preserves HeldInputs.
LEMMA StepHeld ==
    ASSUME InputsAssumption, ScenariosAssumption, IInv, [Next]_vars
    PROVE  HeldInputs'
<1>0. TypeOK /\ HeldInputs /\ Asked
  BY DEF IInv
<1>r. run \in [Inputs -> Run] /\ file \in [Inputs -> Journal]
  BY <1>0 DEF TypeOK
<1>1. CASE Decide
  <2>1. ASSUME run' = run /\ file' = file PROVE HeldInputs'
    BY <2>1, HeldStays DEF Held
  <2>2. ASSUME NEW p \in Routes(task), Sendable(p, task), Send(p, task), UNCHANGED status
        PROVE  HeldInputs'
    <3>1. task \in Inputs /\ status[task] # "absent" /\ p \in Inputs /\ ControlOf(p) = ControlOf(task)
      BY <1>0, <1>1 DEF Asked, Decide, Routes, TypeOK
    <3>2. OpOf(task) # "idle" /\ scenario' = scenario /\ file' = file
      BY <1>1, <2>2 DEF Sendable, Decide
    <3>3. run[p].commands \in Seq(Inputs) /\ run[p] \in Run
      BY <1>r, <3>1 DEF Run
    <3>4. ASSUME NEW q \in Inputs, NEW j \in Held(q)' PROVE j \in Held(q) \/ j = task
      <4>1. CASE q # p
        <5>1. run'[q] = run[q]
          BY <1>r, <2>2, <4>1 DEF Send
        <5> QED BY <3>2, <3>4, <5>1 DEF Held
      <4>2. CASE q = p
        <5>1. /\ run'[p].commands = Append(run[p].commands, task)
              /\ run'[p].reserved = run[p].reserved \cup {task}
              /\ run'[p].stage = run[p].stage /\ run'[p].doing = run[p].doing
              /\ run'[p].applied = run[p].applied
          BY <1>r, <2>2, <3>1, <3>3 DEF Send, Run
        <5>2. {run'[p].commands[n] : n \in 1..Len(run'[p].commands)}
                  \subseteq {run[p].commands[n] : n \in 1..Len(run[p].commands)} \cup {task}
          BY <3>3, <5>1
        <5> QED BY <3>2, <3>4, <4>2, <5>1, <5>2 DEF Held
      <4> QED BY <4>1, <4>2
    <3>5. \A i : OpOf(i)' = OpOf(i)
      BY <3>2 DEF OpOf
    <3> QED BY <1>0, <2>2, <3>1, <3>2, <3>4, <3>5 DEF HeldInputs
  <2> QED BY <1>1, <2>1, <2>2 DEF Decide
<1>2. CASE Accept
  <2>1. ASSUME NEW q \in Inputs PROVE Held(q)' \subseteq Held(q)
    <3>1. CASE run'[q] = run[q] /\ file'[q] = file[q]
      BY <3>1, HeldOf
    <3>2. CASE /\ file'[q] = [NoFile EXCEPT !.kept = TRUE]
               /\ run'[q] = [NoRun EXCEPT !.stage = "begin", !.slot = TRUE]
      BY <3>2 DEF Held, NoFile, NoRun
    <3> QED BY <1>r, <1>2, <3>1, <3>2 DEF Accept
  <2> QED BY <2>1, HeldStays
<1>3. CASE Crash
  <2>1. ASSUME NEW q \in Inputs PROVE Held(q)' \subseteq Held(q)
    <3>1. file' = file /\ (run'[q] = NoRun \/ run'[q] = [NoRun EXCEPT !.stage = "waiting"])
      BY <1>3 DEF Crash
    <3> QED BY <3>1 DEF Held, NoRun
  <2> QED BY <2>1, HeldStays
<1>4. ASSUME NEW p \in Inputs, RunStep(p) PROVE HeldInputs'
  <2>r. run[p] \in Run /\ file[p] \in Journal
    BY <1>r
  <2>1. Held(p)' \subseteq Held(p)
    <3>1. CASE Begin(p)
      <4>1. /\ run'[p].commands = run[p].commands /\ run'[p].reserved = run[p].reserved
            /\ run'[p].stage \notin {"steer", "stop"} /\ file' = file
            /\ run'[p].applied = run[p].applied
        BY <1>r, <2>r, <3>1 DEF Begin, StartTurn, GoTo, Run
      <4> QED BY <4>1 DEF Held
    <3>2. CASE SaveEvent(p)
      BY <1>r, <2>r, <3>2, HeldOf DEF SaveEvent, Save, Journal
    <3>3. CASE TakeCommand(p)
      <4>1. run[p].commands \in Seq(Inputs) /\ run[p].commands # <<>>
        BY <2>r, <3>3 DEF TakeCommand, Run
      <4>2. /\ Head(run[p].commands) \in {run[p].commands[n] : n \in 1..Len(run[p].commands)}
            /\ {Tail(run[p].commands)[n] : n \in 1..Len(Tail(run[p].commands))}
                  \subseteq {run[p].commands[n] : n \in 1..Len(run[p].commands)}
        BY <4>1
      <4>3. /\ run'[p].commands = Tail(run[p].commands)
            /\ run'[p].reserved \subseteq run[p].reserved
            /\ run'[p].applied = run[p].applied
            /\ file' = file
        <5> DEFINE j    == Head(run[p].commands)
                   rest == [run EXCEPT ![p].commands = Tail(@)]
        <5>1. /\ rest[p].commands = Tail(run[p].commands) /\ rest[p].reserved = run[p].reserved
              /\ rest[p].applied = run[p].applied
              /\ rest[p] = [run[p] EXCEPT !.commands = Tail(@)] /\ DOMAIN rest = Inputs
          BY <1>r, <2>r DEF Run
        <5>2. file' = file /\ \/ run' = Rejected(rest, p, j)
                              \/ run' = [rest EXCEPT ![p].doing = j,
                                      ![p].stage = IF Stops(j) THEN "stop" ELSE "steer"]
          BY <3>3 DEF TakeCommand
        <5>r. DOMAIN run[p] = DOMAIN NoRun
          BY <2>r DEF Run, NoRun
        <5> HIDE DEF j, rest
        <5>3. CASE run' = Rejected(rest, p, j)
          BY <2>r, <5>1, <5>2, <5>3, <5>r DEF Rejected, NoRun
        <5>4. CASE run' = [rest EXCEPT ![p].doing = j,
                               ![p].stage = IF Stops(j) THEN "stop" ELSE "steer"]
          BY <2>r, <5>1, <5>2, <5>4, <5>r DEF NoRun
        <5> QED BY <5>2, <5>3, <5>4
      <4>4. run'[p].stage \in {"steer", "stop"} => run'[p].doing = Head(run[p].commands)
        BY <1>r, <2>r, <3>3 DEF TakeCommand, Rejected, Run
      <4> QED BY <4>2, <4>3, <4>4 DEF Held
    <3>4. CASE MarkApplied(p)
      <4>1. /\ run'[p].commands = run[p].commands
            /\ run'[p].reserved \subseteq run[p].reserved
            /\ run'[p].stage \notin {"steer", "stop"}
            /\ run'[p].applied = run[p].applied \cup {run[p].doing}
        BY <1>r, <2>r, <3>4 DEF MarkApplied, Run
      <4>2. /\ run[p].stage \in {"steer", "stop"}
            /\ file'[p].applied \subseteq file[p].applied \cup run[p].applied \cup {run[p].doing}
        BY <1>r, <2>r, <3>4 DEF MarkApplied, Save, Journal
      <4> QED BY <4>1, <4>2 DEF Held
    <3>5. CASE EndTurn(p)
      BY <1>r, <2>r, <3>5, HeldOf DEF EndTurn, GoTo, Run
    <3>6. CASE SaveResult(p)
      <4>1. CASE Return(p) /\ UNCHANGED file
        <5>1. run'[p] = Over("done", run[p])
          BY <1>r, <4>1 DEF Return
        <5> QED BY <2>r, <4>1, <5>1, Ended DEF Held, Stages
      <4>2. CASE /\ file' = [file EXCEPT ![p].ended = TRUE, ![p].submitted = TRUE,
                                         ![p].applied = run[p].applied]
                 /\ GoTo(p, "saved")
        BY <1>r, <2>r, <4>2, HeldOf DEF GoTo, Run, Journal
      <4> QED BY <3>6, <4>1, <4>2 DEF SaveResult
    <3>7. CASE Remember(p)
      BY <1>r, <2>r, <3>7, HeldOf DEF Remember, GoTo, Run
    <3>8. CASE Unregister(p)
      <4>1. run'[p] = Over("report", run[p]) /\ file' = file
        BY <1>r, <3>8 DEF Unregister
      <4> QED BY <2>r, <4>1, Ended DEF Held, Stages
    <3>9. CASE Deliver(p)
      BY <1>r, <2>r, <3>9, HeldOf DEF Deliver, GoTo, Run, Journal
    <3>10. CASE Remove(p)
      <4>1. run'[p] = Over("done", run[p]) /\ file'[p] = NoFile
        BY <1>r, <3>10 DEF Remove, Return
      <4> QED BY <2>r, <4>1, Ended DEF Held, NoFile, Stages
    <3>11. CASE Clean(p)
      <4>1. /\ run'[p].commands = run[p].commands /\ run'[p].reserved = run[p].reserved
            /\ run'[p].stage = "done" /\ file'[p] = NoFile /\ run'[p].applied = run[p].applied
        BY <1>r, <2>r, <3>11 DEF Clean, Run
      <4> QED BY <4>1 DEF Held, NoFile
    <3>12. CASE Recover(p)
      <4>1. /\ run'[p].commands = <<>> /\ run'[p].reserved = {} /\ file' = file
            /\ run'[p].stage \notin {"steer", "stop"} /\ run'[p].applied = file[p].applied
        BY <1>r, <2>r, <3>12 DEF Recover, NoRun, Journal
      <4> QED BY <4>1 DEF Held
    <3> QED BY <1>4, <3>1, <3>2, <3>3, <3>4, <3>5, <3>6, <3>7, <3>8, <3>9, <3>10, <3>11, <3>12
            DEF RunStep
  <2>2. ASSUME NEW q \in Inputs, q # p PROVE Held(q)' \subseteq Held(q)
    BY <1>4, <2>2, OthersStay, HeldOf
  <2> QED BY <2>1, <2>2, HeldStays
<1>5. CASE ~Decide /\ ~Accept /\ ~Crash /\ \A p \in Inputs : ~RunStep(p)
  <2>1. run' = run /\ file' = file
    BY <1>5, RunsStay
  <2> QED BY <2>1, HeldStays DEF Held
<1> QED BY <1>1, <1>2, <1>3, <1>4, <1>5

-----------------------------------------------------------------------------
(* Slots *)

SlotStages == {"begin", "turn", "steer", "stop", "ended", "saved", "remembered", "clean"}

SlotFits(r) == r.slot <=> r.stage \in SlotStages

Holders == {q \in Inputs : run[q].slot}

\* There are finitely many runs with a slot.
LEMMA HoldersAreFinite ==
    ASSUME InputsAssumption
    PROVE  IsFiniteSet(Holders)
BY FS_Subset DEF InputsAssumption, Holders

\* No run takes or gives back a slot.
LEMMA SlotsKeep ==
    ASSUME SlotsBalance, used' = used, scenario' = scenario,
           \A q \in Inputs : run'[q].slot = run[q].slot,
           \A q \in Inputs : SlotFits(run'[q])
    PROVE  SlotsBalance'
<1>1. Holders' = Holders
  BY DEF Holders
<1>2. used' = Cardinality(Holders') /\ used' <= Slots'
  BY <1>1 DEF SlotsBalance, Holders, Slots
<1> QED BY <1>2 DEF SlotsBalance, Holders, SlotFits, SlotStages

\* One run takes a slot.
LEMMA SlotsGain ==
    ASSUME TypeOK, SlotsBalance, InputsAssumption, ScenariosAssumption, NEW p \in Inputs,
           used < Slots, used' = used + 1, scenario' = scenario,
           ~run[p].slot, run'[p].slot,
           \A q \in Inputs \ {p} : run'[q].slot = run[q].slot,
           \A q \in Inputs : SlotFits(run'[q])
    PROVE  SlotsBalance'
<1>1. Holders' = Holders \cup {p} /\ p \notin Holders
  BY DEF Holders
<1>2. used = Cardinality(Holders) /\ used \in Nat /\ Slots \in Nat
  BY Scenery DEF SlotsBalance, Holders, TypeOK
<1>3. Cardinality(Holders') = Cardinality(Holders) + 1
  BY <1>1, HoldersAreFinite, FS_AddElement
<1>4. used' = Cardinality(Holders') /\ used' <= Slots'
  BY <1>2, <1>3 DEF Slots
<1> QED BY <1>4 DEF SlotsBalance, Holders, SlotFits, SlotStages

\* One run gives its slot back, if it has one.
LEMMA SlotsLose ==
    ASSUME TypeOK, SlotsBalance, InputsAssumption, ScenariosAssumption, NEW p \in Inputs,
           used' = SlotsWithout(p), scenario' = scenario,
           run[p].slot \in BOOLEAN, ~run'[p].slot,
           \A q \in Inputs \ {p} : run'[q].slot = run[q].slot,
           \A q \in Inputs : SlotFits(run'[q])
    PROVE  SlotsBalance'
<1>2. used = Cardinality(Holders) /\ used \in Nat /\ Slots \in Nat /\ used <= Slots
  BY Scenery DEF SlotsBalance, Holders, TypeOK
<1>3. CASE run[p].slot
  <2>1. Holders' = Holders \ {p} /\ p \in Holders
    BY <1>3 DEF Holders
  <2>2. Cardinality(Holders') = Cardinality(Holders) - 1
    BY <2>1, HoldersAreFinite, FS_RemoveElement
  <2>3. used' = Cardinality(Holders') /\ used' <= Slots'
    BY <1>2, <1>3, <2>2 DEF SlotsWithout, Slots
  <2> QED BY <2>3 DEF SlotsBalance, Holders, SlotFits, SlotStages
<1>4. CASE ~run[p].slot
  <2>1. Holders' = Holders
    BY <1>4 DEF Holders
  <2>2. used' = Cardinality(Holders') /\ used' <= Slots'
    BY <1>2, <1>4, <2>1 DEF SlotsWithout, Slots
  <2> QED BY <2>2 DEF SlotsBalance, Holders, SlotFits, SlotStages
<1> QED BY <1>3, <1>4

\* A run that has neither slot nor place in the list of stages.
LEMMA NewRuns ==
    /\ SlotFits(NoRun) /\ ~NoRun.slot
    /\ \A s \in Stages : s \notin SlotStages => SlotFits([NoRun EXCEPT !.stage = s])
    /\ \A s : ~[NoRun EXCEPT !.stage = s].slot
BY DEF NoRun, SlotFits, SlotStages, Stages

\* Every step preserves SlotsBalance.
LEMMA StepSlots ==
    ASSUME InputsAssumption, ScenariosAssumption, IInv, [Next]_vars
    PROVE  SlotsBalance'
<1>0. TypeOK /\ SlotsBalance /\ Filed /\ Asked
  BY DEF IInv
<1>r. run \in [Inputs -> Run] /\ file \in [Inputs -> Journal]
  BY <1>0 DEF TypeOK
<1>s. scenario' = scenario
  BY Scene
<1>f. \A q \in Inputs : SlotFits(run[q])
  BY <1>0 DEF SlotsBalance, SlotFits, SlotStages
<1>b. \A q \in Inputs : run[q].slot \in BOOLEAN
  BY <1>r DEF Run
<1>1. CASE Decide
  <2>1. ASSUME NEW p \in Routes(task), Send(p, task), NEW q \in Inputs
        PROVE  run'[q].slot = run[q].slot /\ run'[q].stage = run[q].stage
    BY <1>r, <2>1 DEF Send, Run
  <2>2. \A q \in Inputs : run'[q].slot = run[q].slot /\ run'[q].stage = run[q].stage
    BY <1>1, <2>1 DEF Decide
  <2>3. used' = used
    BY <1>1 DEF Decide
  <2> QED BY <1>0, <1>s, <1>f, <2>2, <2>3, SlotsKeep DEF SlotFits
<1>2. CASE Accept
  <2>1. CASE task \notin remembered /\ used < Slots
    <3>0. used < Slots => ~(used >= Slots)
      BY <1>0, Scenery DEF TypeOK
    <3>1. task \in Inputs
      BY <1>0, <1>2 DEF Accept, Asked
    <3>2. ~run[task].slot
      BY <1>0, <1>f, <2>1, <3>1 DEF Filed, SlotFits, SlotStages
    <3>3. run' = [run EXCEPT ![task] = [NoRun EXCEPT !.stage = "begin", !.slot = TRUE]]
          /\ used' = used + 1
      BY <1>2, <2>1, <3>0 DEF Accept
    <3>4. run'[task].slot /\ SlotFits(run'[task])
      BY <1>r, <3>1, <3>3 DEF NoRun, SlotFits, SlotStages
    <3>5. \A q \in Inputs \ {task} : run'[q] = run[q]
      BY <1>r, <3>3
    <3>6. \A q \in Inputs : SlotFits(run'[q])
      BY <1>f, <3>4, <3>5
    <3> QED BY <1>0, <1>s, <2>1, <3>1, <3>2, <3>3, <3>4, <3>5, <3>6, SlotsGain
  <2>2. CASE ~(task \notin remembered /\ used < Slots)
    <3>1. run' = run /\ used' = used
      BY <1>2, <2>2 DEF Accept
    <3> QED BY <1>0, <1>s, <1>f, <3>1, SlotsKeep
  <2> QED BY <2>1, <2>2
<1>3. CASE Crash
  <2>1. \A q \in Inputs : run'[q] = NoRun \/ run'[q] = [NoRun EXCEPT !.stage = "waiting"]
    BY <1>3 DEF Crash
  <2>2. \A q \in Inputs : ~run'[q].slot /\ SlotFits(run'[q])
    BY <2>1, NewRuns DEF Stages, SlotStages
  <2>3. Holders' = {}
    BY <2>2 DEF Holders
  <2>4. used' = Cardinality(Holders')
    BY <1>3, <2>3, FS_EmptySet DEF Crash
  <2>5. used' <= Slots'
    BY <1>0, <1>3, <1>s, Scenery DEF Crash, Slots
  <2> QED BY <2>2, <2>4, <2>5 DEF SlotsBalance, Holders, SlotFits, SlotStages
<1>4. ASSUME NEW p \in Inputs, RunStep(p) PROVE SlotsBalance'
  <2>r. run[p] \in Run /\ file[p] \in Journal /\ SlotFits(run[p]) /\ run[p].slot \in BOOLEAN
    BY <1>r, <1>f, <1>b
  <2>o. \A q \in Inputs \ {p} : run'[q] = run[q]
    BY <1>4, OthersStay
  <2>f. SlotFits(run'[p]) => \A q \in Inputs : SlotFits(run'[q])
    BY <1>f, <2>o
  <2>k. ASSUME used' = used, run'[p].slot = run[p].slot,
               run[p].stage \in SlotStages <=> run'[p].stage \in SlotStages
        PROVE  SlotsBalance'
    <3>1. SlotFits(run'[p])
      BY <2>r, <2>k DEF SlotFits
    <3> QED BY <1>0, <1>s, <2>o, <2>f, <2>k, <3>1, SlotsKeep
  <2>l. ASSUME used' = SlotsWithout(p), ~run'[p].slot, run'[p].stage \notin SlotStages
        PROVE  SlotsBalance'
    <3>1. SlotFits(run'[p])
      BY <2>l DEF SlotFits
    <3> QED BY <1>0, <1>s, <2>r, <2>o, <2>f, <2>l, <3>1, SlotsLose
  <2>t. Return(p) => SlotsBalance'
    <3>1. Return(p) => /\ used' = SlotsWithout(p)
                       /\ ~run'[p].slot /\ run'[p].stage \notin SlotStages
      BY <1>r, <2>r, Ended DEF Return, SlotStages, Stages
    <3> QED BY <2>l, <3>1
  <2>1. CASE Begin(p)
    BY <1>r, <2>r, <2>1, <2>k DEF Begin, StartTurn, GoTo, RunOnly, Run, SlotStages
  <2>2. CASE SaveEvent(p)
    BY <2>2, <2>k DEF SaveEvent, RunOnly
  <2>3. CASE TakeCommand(p)
    <3>1. /\ run'[p].slot = run[p].slot
          /\ run'[p].stage \in SlotStages /\ run[p].stage \in SlotStages
      <4> DEFINE j    == Head(run[p].commands)
                 rest == [run EXCEPT ![p].commands = Tail(@)]
      <4>1. rest[p].stage = run[p].stage /\ rest[p].slot = run[p].slot /\ DOMAIN rest = Inputs
            /\ rest[p] = [run[p] EXCEPT !.commands = Tail(@)]
        BY <1>r, <2>r DEF Run
      <4>2. run[p].stage = "turn" /\ \/ run' = Rejected(rest, p, j)
                                     \/ run' = [rest EXCEPT ![p].doing = j,
                                             ![p].stage = IF Stops(j) THEN "stop" ELSE "steer"]
        BY <2>3 DEF TakeCommand
      <4>3. DOMAIN run[p] = DOMAIN NoRun
        BY <2>r DEF Run, NoRun
      <4> HIDE DEF j, rest
      <4>4. CASE run' = Rejected(rest, p, j)
        BY <4>1, <4>2, <4>3, <4>4 DEF Rejected, NoRun, SlotStages
      <4>5. CASE run' = [rest EXCEPT ![p].doing = j,
                             ![p].stage = IF Stops(j) THEN "stop" ELSE "steer"]
        BY <4>1, <4>2, <4>3, <4>5 DEF NoRun, SlotStages
      <4> QED BY <4>2, <4>4, <4>5
    <3> QED BY <2>3, <2>k, <3>1 DEF TakeCommand, RunOnly
  <2>4. CASE MarkApplied(p)
    <3>1. /\ run'[p].slot = run[p].slot
          /\ run'[p].stage \in SlotStages /\ run[p].stage \in SlotStages
      BY <1>r, <2>r, <2>4 DEF MarkApplied, Run, SlotStages
    <3> QED BY <2>4, <2>k, <3>1 DEF MarkApplied, RunOnly
  <2>5. CASE EndTurn(p)
    BY <1>r, <2>r, <2>5, <2>k DEF EndTurn, GoTo, RunOnly, Run, SlotStages
  <2>6. CASE SaveResult(p)
    <3>1. CASE GoTo(p, "saved") /\ UNCHANGED <<remembered, active, used, waking>>
      BY <1>r, <2>r, <2>6, <2>k, <3>1 DEF SaveResult, GoTo, Run, SlotStages
    <3> QED BY <2>6, <2>t, <3>1 DEF SaveResult
  <2>7. CASE Remember(p)
    BY <1>r, <2>r, <2>7, <2>k DEF Remember, GoTo, Run, SlotStages
  <2>8. CASE Unregister(p)
    BY <1>r, <2>r, <2>8, <2>l, Ended DEF Unregister, SlotStages, Stages
  <2>9. CASE Deliver(p)
    BY <1>r, <2>r, <2>9, <2>k DEF Deliver, GoTo, Run, SlotStages
  <2>10. CASE Remove(p)
    BY <2>10, <2>t DEF Remove
  <2>11. CASE Clean(p)
    BY <1>r, <2>r, <2>11, <2>l DEF Clean, Run, SlotStages
  <2>12. CASE Recover(p)
    <3>1. /\ ~run[p].slot /\ run'[p].slot /\ run'[p].stage \in SlotStages
          /\ used < Slots /\ used' = used + 1
      BY <1>r, <2>r, <2>12 DEF Recover, NoRun, SlotFits, SlotStages, Journal
    <3>2. SlotFits(run'[p])
      BY <3>1 DEF SlotFits
    <3> QED BY <1>0, <1>s, <2>o, <2>f, <3>1, <3>2, SlotsGain
  <2> QED BY <1>4, <2>1, <2>2, <2>3, <2>4, <2>5, <2>6, <2>7, <2>8, <2>9, <2>10, <2>11, <2>12
          DEF RunStep
<1>5. CASE ~Decide /\ ~Accept /\ ~Crash /\ \A p \in Inputs : ~RunStep(p)
  <2>1. run' = run /\ used' = used
    BY <1>5, RunsStay
  <2> QED BY <1>0, <1>s, <1>f, <2>1, SlotsKeep
<1> QED BY <1>1, <1>2, <1>3, <1>4, <1>5

-----------------------------------------------------------------------------
(* Runs and the coordinator *)

\* The steps of a registered run, up to its way out.
Working(p) ==
    \/ Begin(p) \/ SaveEvent(p) \/ TakeCommand(p) \/ MarkApplied(p) \/ EndTurn(p)
    \/ SaveResult(p) \/ Remember(p) \/ Unregister(p)

\* The steps of a run, sorted by what they do to the coordinator.
LEMMA RunStepKinds ==
    ASSUME NEW p, RunStep(p)
    PROVE  Working(p) \/ Deliver(p) \/ Remove(p) \/ Clean(p) \/ Recover(p)
BY DEF RunStep, Working

\* In one of them the run is on its way before; after it, it is so in the
\* coordinator, or it is on its way out and unregistered.
LEMMA WorkingRun ==
    ASSUME IInv, NEW p \in Inputs, Working(p)
    PROVE  /\ run[p].stage \in Live
           /\ \/ run'[p].stage \in Live /\ active' = active
              \/ run'[p].stage \in {"report", "done"} /\ active' = active \ {p}
           /\ beside' = beside
<1>r. run \in [Inputs -> Run] /\ run[p] \in Run /\ DOMAIN run[p] = DOMAIN NoRun
  BY DEF IInv, TypeOK, Run, NoRun
<1>t. Return(p) => run'[p].stage = "done" /\ active' = active \ {p}
  BY <1>r, Ended DEF Return, Stages
<1>1. CASE Begin(p)
  BY <1>r, <1>1 DEF Begin, StartTurn, GoTo, RunOnly, history, Run, Live
<1>2. CASE SaveEvent(p)
  BY <1>r, <1>2 DEF SaveEvent, RunOnly, history, Live
<1>3. CASE TakeCommand(p)
  <2>1. run'[p].stage \in Live
    <3> DEFINE j    == Head(run[p].commands)
               rest == [run EXCEPT ![p].commands = Tail(@)]
    <3>1. rest[p].stage = run[p].stage /\ DOMAIN rest = Inputs
          /\ rest[p] = [run[p] EXCEPT !.commands = Tail(@)]
      BY <1>r DEF Run
    <3>2. run[p].stage = "turn" /\ \/ run' = Rejected(rest, p, j)
                                   \/ run' = [rest EXCEPT ![p].doing = j,
                                           ![p].stage = IF Stops(j) THEN "stop" ELSE "steer"]
      BY <1>3 DEF TakeCommand
    <3> HIDE DEF j, rest
    <3>3. CASE run' = Rejected(rest, p, j)
      BY <1>r, <3>1, <3>2, <3>3 DEF Rejected, NoRun, Live
    <3>4. CASE run' = [rest EXCEPT ![p].doing = j,
                           ![p].stage = IF Stops(j) THEN "stop" ELSE "steer"]
      BY <1>r, <3>1, <3>2, <3>4 DEF NoRun, Live
    <3> QED BY <3>2, <3>3, <3>4
  <2> QED BY <1>3, <2>1 DEF TakeCommand, RunOnly, history, Live
<1>4. CASE MarkApplied(p)
  <2>1. run[p].stage \in Live /\ run'[p].stage \in Live
    BY <1>r, <1>4 DEF MarkApplied, Live, NoRun
  <2> QED BY <1>4, <2>1 DEF MarkApplied, RunOnly, history
<1>5. CASE EndTurn(p)
  BY <1>r, <1>5 DEF EndTurn, GoTo, RunOnly, history, Run, Live
<1>6. CASE SaveResult(p)
  <2>1. CASE GoTo(p, "saved") /\ UNCHANGED <<remembered, active, used, waking>>
    BY <1>r, <1>6, <2>1 DEF SaveResult, GoTo, history, Run, Live
  <2> QED BY <1>6, <1>t, <2>1 DEF SaveResult, history, Live
<1>7. CASE Remember(p)
  BY <1>r, <1>7 DEF Remember, GoTo, history, Run, Live
<1>8. CASE Unregister(p)
  BY <1>r, <1>8, Ended DEF Unregister, history, Stages, Live
<1> QED BY <1>1, <1>2, <1>3, <1>4, <1>5, <1>6, <1>7, <1>8 DEF Working

\* What becomes of it afterwards.
LEMMA LeavingRun ==
    ASSUME IInv, NEW p \in Inputs, Deliver(p) \/ Remove(p) \/ Clean(p)
    PROVE  /\ run'[p].stage \in {"remove", "done"}
           /\ active' \in {active, active \ {p}} /\ beside' = beside
<1>r. run \in [Inputs -> Run] /\ run[p] \in Run /\ DOMAIN run[p] = DOMAIN NoRun
  BY DEF IInv, TypeOK, Run, NoRun
<1>1. CASE Deliver(p)
  BY <1>r, <1>1 DEF Deliver, GoTo, history, Run
<1>2. CASE Remove(p)
  BY <1>r, <1>2, Ended DEF Remove, Return, history, Stages
<1>3. CASE Clean(p)
  BY <1>r, <1>3 DEF Clean, history, NoRun
<1> QED BY <1>1, <1>2, <1>3

\* A recovered run is registered.
LEMMA RecoveredRun ==
    ASSUME IInv, NEW p \in Inputs, Recover(p)
    PROVE  /\ run[p].stage = "waiting" /\ file' = file
           /\ run'[p].stage \in {"clean", "saved", "begin"}
           /\ run'[p].stage = "clean" <=> file[p].delivered
           /\ active' = active \cup {p} /\ beside' = beside \cup Beside(p)
           /\ run'[p].applied = file[p].applied
<1>r. run \in [Inputs -> Run] /\ file[p] \in Journal
  BY DEF IInv, TypeOK
<1> QED BY <1>r DEF Recover, NoRun, Journal

\* The steps of a run are not those of the loop.
LEMMA LoopStays ==
    ASSUME NEW p, RunStep(p)
    PROVE  loop' = loop /\ task' = task
BY DEF RunStep, Begin, SaveEvent, TakeCommand, MarkApplied, EndTurn, SaveResult, looping,
       Remember, Unregister, Deliver, Remove, Clean, Recover, RunOnly

\* Every step preserves Registered.
LEMMA StepRegistered ==
    ASSUME InputsAssumption, ScenariosAssumption, IInv, [Next]_vars
    PROVE  Registered'
<1>0. TypeOK /\ Registered /\ Filed /\ Asked /\ Asked'
  BY StepAsked DEF IInv
<1>r. run \in [Inputs -> Run] /\ file \in [Inputs -> Journal] /\ active \subseteq Inputs
  BY <1>0 DEF TypeOK
<1>s. \A i : ControlOf(i)' = ControlOf(i)
  BY Scene DEF ControlOf
<1>1. CASE Decide
  <2>1. \A q \in Inputs : run'[q].stage = run[q].stage
    <3>1. ASSUME NEW p \in Inputs, Send(p, task), NEW q \in Inputs
          PROVE  run'[q].stage = run[q].stage
      BY <1>r, <3>1 DEF Send, Run
    <3> QED BY <1>1, <1>r, <3>1 DEF Decide, Routes
  <2>2. active' = active /\ beside' = beside
    BY <1>1 DEF Decide, history
  <2>3. loop' = "accept" => task' = task /\ Routes(task) = {}
    BY <1>1 DEF Decide
  <2>4. loop' = "accept" => \A q \in active : ControlOf(q) # ControlOf(task)
    BY <2>3 DEF Routes
  <2> QED BY <1>0, <1>r, <1>s, <2>1, <2>2, <2>3, <2>4 DEF Registered
<1>2. CASE Accept
  <2>l. loop' = "check"
    BY <1>2 DEF Accept
  <2>1. CASE task \notin remembered /\ used < Slots
    <3>0. used < Slots => ~(used >= Slots)
      BY <1>0, Scenery DEF TypeOK
    <3>1. task \in Inputs /\ loop = "accept"
      BY <1>0, <1>2 DEF Accept, Asked
    <3>2. /\ run' = [run EXCEPT ![task] = [NoRun EXCEPT !.stage = "begin", !.slot = TRUE]]
          /\ active' = active \cup {task} /\ beside' = beside \cup Beside(task)
      BY <1>2, <2>1, <3>0 DEF Accept
    <3>3. run'[task].stage = "begin" /\ \A q \in Inputs \ {task} : run'[q] = run[q]
      BY <1>r, <3>1, <3>2 DEF NoRun
    <3>4. \A p \in Inputs : run'[p].stage \in Live => p \in active'
      BY <1>0, <3>2, <3>3 DEF Registered
    <3>5. ASSUME NEW q \in Inputs, q # task, ControlOf(q) = ControlOf(task),
                 q \in active \/ run[q].stage = "waiting"
          PROVE  q \in beside' /\ task \in beside'
      <4>1. CASE q \in active
        BY <1>0, <3>1, <3>2, <3>5, <4>1 DEF Registered
      <4>2. CASE run[q].stage = "waiting"
        <5>1. Beside(task) = {j \in Inputs : ControlOf(j) = ControlOf(task)}
          BY <3>5, <4>2 DEF Beside
        <5> QED BY <3>1, <3>2, <3>5, <5>1
      <4> QED BY <3>5, <4>1, <4>2
    <3>6. ASSUME NEW p \in active', NEW q \in Inputs, p # q, ControlOf(p) = ControlOf(q),
                 q \in active' \/ run'[q].stage = "waiting"
          PROVE  p \in beside' /\ q \in beside'
      <4>1. CASE p = task
        BY <3>2, <3>3, <3>5, <3>6, <4>1
      <4>2. CASE q = task
        BY <1>r, <3>2, <3>5, <3>6, <4>2
      <4>3. CASE p # task /\ q # task
        BY <1>0, <3>2, <3>3, <3>6, <4>3 DEF Registered
      <4> QED BY <4>1, <4>2, <4>3
    <3> QED BY <1>s, <2>l, <3>4, <3>6 DEF Registered
  <2>2. CASE ~(task \notin remembered /\ used < Slots)
    <3>1. run' = run /\ active' = active /\ beside' = beside
      BY <1>2, <2>2 DEF Accept
    <3> QED BY <1>0, <1>s, <2>l, <3>1 DEF Registered
  <2> QED BY <2>1, <2>2
<1>3. CASE Crash
  <2>1. active' = {} /\ loop' = "check"
    BY <1>3 DEF Crash
  <2>2. \A q \in Inputs : run'[q].stage \notin Live
    BY <1>3 DEF Crash, NoRun, Live
  <2> QED BY <2>1, <2>2 DEF Registered
<1>4. ASSUME NEW p \in Inputs, RunStep(p) PROVE Registered'
  <2>o. \A q \in Inputs \ {p} : run'[q] = run[q]
    BY <1>4, OthersStay
  <2>l. loop' = loop /\ task' = task
    BY <1>4, LoopStays
  <2>1. CASE Working(p) \/ Deliver(p) \/ Remove(p) \/ Clean(p)
    <3>1. /\ active' \in {active, active \ {p}} /\ beside' = beside
          /\ run'[p].stage # "waiting"
          /\ run'[p].stage \in Live => run[p].stage \in Live /\ active' = active
      BY <2>1, WorkingRun, LeavingRun DEF Live
    <3> QED BY <1>0, <1>s, <2>o, <2>l, <3>1 DEF Registered
  <2>2. CASE Recover(p)
    <3>1. /\ run[p].stage = "waiting" /\ run'[p].stage # "waiting"
          /\ active' = active \cup {p} /\ beside' = beside \cup Beside(p)
      BY <2>2, RecoveredRun
    <3>2. \A q \in Inputs : run'[q].stage \in Live => q \in active'
      BY <1>0, <2>o, <3>1 DEF Registered
    <3>3. ASSUME NEW q \in Inputs, q # p, ControlOf(q) = ControlOf(p),
                 q \in active \/ run[q].stage = "waiting"
          PROVE  q \in beside' /\ p \in beside'
      <4>1. CASE q \in active
        BY <1>0, <3>1, <3>3, <4>1 DEF Registered
      <4>2. CASE run[q].stage = "waiting"
        <5>1. Beside(p) = {j \in Inputs : ControlOf(j) = ControlOf(p)}
          BY <3>3, <4>2 DEF Beside
        <5> QED BY <3>1, <3>3, <5>1
      <4> QED BY <3>3, <4>1, <4>2
    <3>4. ASSUME NEW i \in active', NEW q \in Inputs, i # q, ControlOf(i) = ControlOf(q),
                 q \in active' \/ run'[q].stage = "waiting"
          PROVE  i \in beside' /\ q \in beside'
      <4>1. CASE i = p
        BY <2>o, <3>1, <3>3, <3>4, <4>1
      <4>2. CASE q = p
        BY <1>r, <3>1, <3>3, <3>4, <4>2
      <4>3. CASE i # p /\ q # p
        BY <1>0, <2>o, <3>1, <3>4, <4>3 DEF Registered
      <4> QED BY <4>1, <4>2, <4>3
    <3>5. ASSUME loop = "accept", NEW q \in active', q # task, ControlOf(q) = ControlOf(task)
          PROVE  q \in beside' /\ task \in beside'
      <4>1. CASE q = p
        <5>1. task \in Inputs /\ Beside(p) = {j \in Inputs : ControlOf(j) = ControlOf(p)}
          BY <1>0, <3>5, <4>1 DEF Beside, Asked
        <5> QED BY <3>1, <3>5, <4>1, <5>1
      <4>2. CASE q # p
        BY <1>0, <3>1, <3>5, <4>2 DEF Registered
      <4> QED BY <4>1, <4>2
    <3> QED BY <1>s, <2>l, <3>2, <3>4, <3>5 DEF Registered
  <2> QED BY <1>4, <2>1, <2>2, RunStepKinds
<1>5. CASE ~Decide /\ ~Accept /\ ~Crash /\ \A p \in Inputs : ~RunStep(p)
  <2>1. run' = run /\ active' = active /\ beside' = beside
    BY <1>5, RunsStay
  <2>2. loop' = "accept" => loop = "accept" /\ task' = task
    BY <1>5 DEF Next, LoopStep, Check, Arm, Signal, Timer, Claim, Answer, AnswerInput,
                AnswerNothing, Answered, LoopOnly, Arrive, ReportStart, ReportDecision, vars, looping
  <2> QED BY <1>0, <1>s, <2>1, <2>2 DEF Registered
<1> QED BY <1>1, <1>2, <1>3, <1>4, <1>5

-----------------------------------------------------------------------------
(* Journals and what is remembered *)

\* A run that works keeps what it has applied, writes nothing else into its Journal,
\* and remembers nothing but that and itself.
LEMMA WorkingJournal ==
    ASSUME IInv, NEW p \in Inputs, Working(p)
    PROVE  /\ file'[p].kept = file[p].kept /\ file'[p].delivered = file[p].delivered
           /\ file'[p].applied \subseteq file[p].applied \cup run'[p].applied
           /\ file[p].applied \subseteq run[p].applied => file[p].applied \subseteq file'[p].applied
           /\ run[p].applied \subseteq run'[p].applied
           /\ remembered' \in {remembered, remembered \cup {p} \cup run[p].applied}
<1>r. file \in [Inputs -> Journal] /\ file[p] \in Journal /\ DOMAIN file[p] = DOMAIN NoFile
  BY DEF IInv, TypeOK, Journal, NoFile
<1>q. run \in [Inputs -> Run] /\ run[p] \in Run /\ DOMAIN run[p] = DOMAIN NoRun
  BY DEF IInv, TypeOK, Run, NoRun
<1>t. Return(p) => /\ run'[p].applied = run[p].applied
                   /\ remembered' = remembered \cup {p} \cup run[p].applied
  BY <1>q, Ended DEF Return, Stages
<1>1. CASE Begin(p) \/ EndTurn(p) \/ Remember(p)
  BY <1>q, <1>1 DEF Begin, StartTurn, EndTurn, Remember, RunOnly, GoTo, NoRun
<1>2. CASE SaveEvent(p)
  BY <1>r, <1>2 DEF SaveEvent, Save, RunOnly, NoFile
<1>3. CASE TakeCommand(p)
  <2> DEFINE j    == Head(run[p].commands)
             rest == [run EXCEPT ![p].commands = Tail(@)]
  <2>1. rest[p].applied = run[p].applied /\ DOMAIN rest = Inputs
        /\ rest[p] = [run[p] EXCEPT !.commands = Tail(@)]
    BY <1>q DEF NoRun
  <2>2. /\ file' = file /\ remembered' = remembered
        /\ \/ run' = Rejected(rest, p, j)
           \/ run' = [rest EXCEPT ![p].doing = j, ![p].stage = IF Stops(j) THEN "stop" ELSE "steer"]
    BY <1>3 DEF TakeCommand, RunOnly
  <2> HIDE DEF j, rest
  <2>3. CASE run' = Rejected(rest, p, j)
    BY <1>q, <2>1, <2>2, <2>3 DEF Rejected, NoRun
  <2>4. CASE run' = [rest EXCEPT ![p].doing = j,
                         ![p].stage = IF Stops(j) THEN "stop" ELSE "steer"]
    BY <1>q, <2>1, <2>2, <2>4 DEF NoRun
  <2> QED BY <2>2, <2>3, <2>4
<1>4. CASE MarkApplied(p)
  <2>1. /\ run'[p].applied = run[p].applied \cup {run[p].doing} /\ remembered' = remembered
        /\ file' = file \/ Save(p, run[p].applied \cup {run[p].doing})
    BY <1>q, <1>4 DEF MarkApplied, RunOnly, NoRun
  <2> QED BY <1>r, <2>1 DEF Save, NoFile
<1>5. CASE Unregister(p)
  BY <1>q, <1>5, Ended DEF Unregister, Stages
<1>6. CASE SaveResult(p)
  <2>1. CASE Return(p) /\ UNCHANGED file
    BY <1>t, <2>1
  <2>2. CASE /\ file' = [file EXCEPT ![p].ended = TRUE, ![p].submitted = TRUE,
                                     ![p].applied = run[p].applied]
             /\ GoTo(p, "saved") /\ UNCHANGED <<remembered, active, used, waking>>
    <3>1. run'[p].applied = run[p].applied /\ remembered' = remembered
      BY <1>q, <2>2 DEF GoTo, NoRun
    <3> QED BY <1>r, <2>2, <3>1 DEF NoFile
  <2> QED BY <1>6, <2>1, <2>2 DEF SaveResult
<1> QED BY <1>1, <1>2, <1>3, <1>4, <1>5, <1>6 DEF Working

\* A delivered Journal is marked, and Control has been told of everything in it.
LEMMA DeliveredJournal ==
    ASSUME IInv, NEW p \in Inputs, Deliver(p)
    PROVE  /\ file'[p].kept = file[p].kept /\ file'[p].delivered
           /\ file'[p].applied = file[p].applied /\ remembered' = remembered
           /\ run[p].stage = "report" /\ run'[p].stage = "remove" /\ status' = Synced(p)
           /\ run'[p].applied = run[p].applied
<1>r. /\ file \in [Inputs -> Journal] /\ DOMAIN file[p] = DOMAIN NoFile
      /\ run \in [Inputs -> Run] /\ DOMAIN run[p] = DOMAIN NoRun
  BY DEF IInv, TypeOK, Journal, NoFile, Run, NoRun
<1> QED BY <1>r DEF Deliver, GoTo, NoFile, NoRun

\* A Journal is removed once it is marked.
LEMMA RemovedJournal ==
    ASSUME IInv, NEW p \in Inputs, Remove(p) \/ Clean(p)
    PROVE  /\ file'[p] = NoFile /\ status' = status
           /\ remembered' \in {remembered, remembered \cup {p} \cup run[p].applied}
           /\ run[p].stage \in {"remove", "clean"} /\ run'[p].stage = "done"
           /\ run'[p].applied = run[p].applied
<1>r. /\ file \in [Inputs -> Journal]
      /\ run \in [Inputs -> Run] /\ run[p] \in Run /\ DOMAIN run[p] = DOMAIN NoRun
  BY DEF IInv, TypeOK, Run, NoRun
<1>1. CASE Remove(p)
  BY <1>r, <1>1, Ended DEF Remove, Return, Stages
<1>2. CASE Clean(p)
  BY <1>r, <1>2 DEF Clean, NoRun
<1> QED BY <1>1, <1>2

\* The Journal of a run, as Filed has it.
FiledFor(p) ==
    /\ run[p].stage \notin {"none", "done"} => file[p].kept
    /\ file[p].kept \/ run[p].stage # "none" => p \in remembered
    /\ IF run[p].stage \in {"none", "waiting"} THEN run[p].applied = {}
       ELSE file[p].applied \subseteq run[p].applied
    /\ run[p].stage \in {"remove", "clean"} => file[p].delivered
    /\ file[p].delivered =>
          /\ run[p].stage \in {"none", "waiting", "remove", "clean", "done"}
          /\ status[p] = "taken"
          /\ \A j \in file[p].applied : OpOf(j) # "replace" => status[j] = "taken"

\* Filed, taken apart.
LEMMA FiledByRun ==
    Filed <=> \A p \in Inputs : FiledFor(p)
BY DEF Filed, FiledFor

\* FiledFor is preserved where run, Journal and memory stay.
LEMMA FiledStays ==
    ASSUME InputsAssumption, ScenariosAssumption, IInv, [Next]_vars, NEW p \in Inputs,
           run'[p].stage = run[p].stage, run'[p].applied = run[p].applied, file'[p] = file[p],
           remembered \subseteq remembered'
    PROVE  FiledFor(p)'
<1>1. \A i : OpOf(i)' = OpOf(i)
  BY Scene DEF OpOf
<1>2. \A i \in Inputs : status[i] = "taken" => status'[i] = "taken"
  BY StatusGrows DEF Grows
<1>3. FiledFor(p)
  BY FiledByRun DEF IInv
<1>4. file[p].applied \subseteq Inputs
  BY JournalOf DEF IInv
<1> QED BY <1>1, <1>2, <1>3, <1>4 DEF FiledFor

\* Every step preserves Filed.
LEMMA StepFiled ==
    ASSUME InputsAssumption, ScenariosAssumption, IInv, [Next]_vars
    PROVE  Filed'
<1>0. TypeOK /\ Filed /\ Asked /\ Remembers
  BY DEF IInv
<1>r. run \in [Inputs -> Run] /\ file \in [Inputs -> Journal]
  BY <1>0 DEF TypeOK
<1>i. \A q \in Inputs : FiledFor(q)
  BY <1>0, FiledByRun
<1>b. (\A q \in Inputs : FiledFor(q)') => Filed'
  BY DEF Filed, FiledFor
<1>1. CASE Decide
  <2>1. \A q \in Inputs : run'[q].stage = run[q].stage /\ run'[q].applied = run[q].applied
    <3>1. ASSUME NEW p \in Inputs, Send(p, task), NEW q \in Inputs
          PROVE  run'[q].stage = run[q].stage /\ run'[q].applied = run[q].applied
      BY <1>r, <3>1 DEF Send, Run
    <3> QED BY <1>1, <1>0, <3>1 DEF Decide, Routes, TypeOK
  <2>2. file' = file /\ remembered' = remembered
    BY <1>1 DEF Decide
  <2> QED BY <1>b, <2>1, <2>2, FiledStays
<1>2. CASE Accept
  <2>1. CASE task \notin remembered /\ used < Slots
    <3>0. used < Slots => ~(used >= Slots)
      BY <1>0, Scenery DEF TypeOK
    <3>1. task \in Inputs
      BY <1>0, <1>2 DEF Accept, Asked
    <3>2. /\ run' = [run EXCEPT ![task] = [NoRun EXCEPT !.stage = "begin", !.slot = TRUE]]
          /\ file' = [file EXCEPT ![task] = [NoFile EXCEPT !.kept = TRUE]]
          /\ remembered' = remembered \cup {task}
      BY <1>2, <2>1, <3>0 DEF Accept
    <3>3. ASSUME NEW q \in Inputs, q = task PROVE FiledFor(q)'
      <4>1. /\ file'[q] = [NoFile EXCEPT !.kept = TRUE] /\ q \in remembered'
            /\ run'[q].stage = "begin"
        BY <1>r, <3>2, <3>3 DEF NoRun
      <4> QED BY <4>1 DEF FiledFor, NoFile
    <3>4. \A q \in Inputs \ {task} : run'[q] = run[q] /\ file'[q] = file[q]
      BY <1>r, <3>2
    <3> QED BY <1>b, <3>2, <3>3, <3>4, FiledStays
  <2>2. CASE ~(task \notin remembered /\ used < Slots)
    <3>1. run' = run /\ file' = file /\ remembered' = remembered
      BY <1>2, <2>2 DEF Accept
    <3> QED BY <1>b, <3>1, FiledStays
  <2> QED BY <2>1, <2>2
<1>3. CASE Crash
  <2>1. ASSUME NEW q \in Inputs PROVE FiledFor(q)'
    <3>1. /\ file' = file /\ status' = status
          /\ file[q].kept => run'[q].stage = "waiting" /\ q \in remembered'
          /\ ~file[q].kept => run'[q].stage = "none"
          /\ run'[q].applied = {}
      BY <1>3 DEF Crash, NoRun
    <3>2. FiledFor(q) /\ \A i : OpOf(i)' = OpOf(i)
      BY <1>i, Scene DEF OpOf
    <3> QED BY <3>1, <3>2 DEF FiledFor
  <2> QED BY <1>b, <2>1
<1>4. ASSUME NEW p \in Inputs, RunStep(p) PROVE Filed'
  <2>o. \A q \in Inputs \ {p} : run'[q] = run[q] /\ file'[q] = file[q]
    BY <1>4, OthersStay
  <2>r. FiledFor(p) /\ file[p] \in Journal
    BY <1>i, <1>r
  <2>m. remembered \subseteq remembered'
    <3>1. CASE Recover(p)
      BY <3>1 DEF Recover
    <3> QED BY <1>4, <3>1, RunStepKinds, WorkingJournal, DeliveredJournal, RemovedJournal
  <2>p. FiledFor(p)'
    <3>1. CASE Working(p)
      <4>1. run[p].stage \in Live /\ run'[p].stage \in Live \cup {"report", "done"}
        BY <3>1, WorkingRun
      <4>2. ~file[p].delivered /\ file[p].kept
        BY <2>r, <4>1 DEF FiledFor, Live
      <4>3. /\ ~file'[p].delivered /\ file'[p].kept
            /\ file'[p].applied \subseteq file[p].applied \cup run'[p].applied
            /\ run[p].applied \subseteq run'[p].applied
        BY <3>1, <4>2, WorkingJournal
      <4> QED BY <2>r, <2>m, <4>1, <4>2, <4>3 DEF FiledFor, Live
    <3>2. CASE Deliver(p)
      <4>1. /\ file'[p].kept = file[p].kept /\ file'[p].delivered
            /\ file[p].applied = file'[p].applied
            /\ run[p].stage = "report" /\ run'[p].stage = "remove"
            /\ status' = Synced(p) /\ run'[p].applied = run[p].applied
        BY <3>2, DeliveredJournal
      <4>2. file[p].applied \subseteq Inputs /\ \A i : OpOf(i)' = OpOf(i)
        BY <1>0, JournalOf, Scene DEF OpOf
      <4>3. file[p].applied \subseteq run[p].applied
        BY <2>r, <4>1 DEF FiledFor
      <4>4. status'[p] = "taken"
            /\ \A j \in file[p].applied : OpOf(j) # "replace" => status'[j] = "taken"
        BY <4>1, <4>2, <4>3 DEF Synced
      <4> QED BY <2>r, <2>m, <4>1, <4>2, <4>3, <4>4 DEF FiledFor
    <3>3. CASE Remove(p) \/ Clean(p)
      <4>1. /\ file'[p] = NoFile /\ run'[p].stage = "done"
            /\ run[p].stage \in {"remove", "clean"}
        BY <3>3, RemovedJournal
      <4> QED BY <2>r, <2>m, <4>1 DEF FiledFor, NoFile
    <3>4. CASE Recover(p)
      <4>1. /\ run[p].stage = "waiting" /\ file' = file
            /\ run'[p].stage \in {"clean", "saved", "begin"}
            /\ run'[p].stage = "clean" <=> file[p].delivered
            /\ run'[p].applied = file[p].applied
        BY <3>4, RecoveredRun
      <4>2. status' = status /\ \A i : OpOf(i)' = OpOf(i)
        BY <3>4, Scene DEF Recover, OpOf
      <4> QED BY <2>r, <2>m, <4>1, <4>2 DEF FiledFor
    <3> QED BY <1>4, <3>1, <3>2, <3>3, <3>4, RunStepKinds
  <2>q. \A q \in Inputs \ {p} : FiledFor(q)'
    BY <2>o, <2>m, FiledStays
  <2> QED BY <1>b, <2>p, <2>q
<1>5. CASE ~Decide /\ ~Accept /\ ~Crash /\ \A p \in Inputs : ~RunStep(p)
  <2>1. run' = run /\ file' = file /\ remembered' = remembered
    BY <1>5, RunsStay
  <2> QED BY <1>b, <2>1, FiledStays
<1> QED BY <1>1, <1>2, <1>3, <1>4, <1>5

\* A Journal that goes on recording what it recorded keeps the inputs recorded, and
\* so does a run.
LEMMA RecordedStays ==
    ASSUME scenario' = scenario,
           \A p \in Inputs : file[p].kept =>
               file'[p].kept /\ file[p].applied \subseteq file'[p].applied,
           \A p \in Inputs : run[p].applied \subseteq run'[p].applied,
           NEW i, Recorded(i)
    PROVE  Recorded(i)'
BY DEF Recorded, OpOf

\* Every step preserves Remembers.
LEMMA StepRemembers ==
    ASSUME InputsAssumption, ScenariosAssumption, IInv, [Next]_vars
    PROVE  Remembers'
<1>0. TypeOK /\ Filed /\ Asked /\ Remembers /\ HeldInputs
  BY DEF IInv
<1>r. /\ run \in [Inputs -> Run] /\ file \in [Inputs -> Journal]
      /\ remembered \subseteq Inputs
      /\ \A q \in Inputs : file[q].applied \subseteq Inputs /\ run[q].applied \subseteq Inputs
  BY <1>0, JournalOf DEF TypeOK, Run
<1>n. scenario' = scenario
  BY Scene
<1>s. \A i : OpOf(i)' = OpOf(i)
  BY <1>n DEF OpOf
<1>g. \A i \in Inputs : Grows(i)
  BY StatusGrows
<1>i. \A q \in Inputs : FiledFor(q)
  BY <1>0, FiledByRun
<1>a. \A q \in Inputs :
          /\ file[q].kept => status[q] # "absent"
          /\ \A j \in file[q].applied \cup run[q].applied : status[j] # "absent"
  BY <1>0, <1>i DEF FiledFor, Remembers, HeldInputs, Held
<1>t. ASSUME \A i \in remembered : Recorded(i) => Recorded(i)',
             \A i \in remembered' : i \in remembered \/ (i \in Inputs /\ status[i] # "absent"),
             \A i \in remembered' : i \in remembered \/ Recorded(i)' \/ OpOf(i) = "replace"
      PROVE  Remembers'
  <2>1. \A i \in remembered' : status'[i] # "absent"
    BY <1>0, <1>r, <1>g, <1>t DEF Remembers, Grows
  <2>2. ASSUME NEW i \in remembered', status'[i] = "queued"
        PROVE  Recorded(i)' \/ OpOf(i)' = "replace"
    <3>1. CASE i \in remembered
      <4>1. status[i] = "queued"
        BY <1>0, <1>r, <1>g, <2>2, <3>1 DEF Remembers, Grows
      <4> QED BY <1>0, <1>r, <1>s, <1>t, <3>1, <4>1 DEF Remembers, HandledIsReported
    <3> QED BY <1>s, <1>t, <2>2, <3>1
  <2> QED BY <2>1, <2>2 DEF Remembers, HandledIsReported
<1>1. CASE Decide
  <2>1. file' = file /\ remembered' = remembered
    BY <1>1 DEF Decide
  <2>2. \A q \in Inputs : run'[q].applied = run[q].applied
    <3>1. ASSUME NEW p \in Inputs, Send(p, task), NEW q \in Inputs
          PROVE  run'[q].applied = run[q].applied
      BY <1>r, <3>1 DEF Send, Run
    <3> QED BY <1>1, <1>0, <3>1 DEF Decide, Routes, TypeOK
  <2> QED BY <1>n, <1>t, <2>1, <2>2, RecordedStays
<1>2. CASE Accept
  <2>1. CASE task \notin remembered /\ used < Slots
    <3>0. used < Slots => ~(used >= Slots)
      BY <1>0, Scenery DEF TypeOK
    <3>1. task \in Inputs /\ status[task] # "absent"
      BY <1>0, <1>2 DEF Accept, Asked
    <3>2. /\ file' = [file EXCEPT ![task] = [NoFile EXCEPT !.kept = TRUE]]
          /\ remembered' = remembered \cup {task}
          /\ run' = [run EXCEPT ![task] = [NoRun EXCEPT !.stage = "begin", !.slot = TRUE]]
      BY <1>2, <2>1, <3>0 DEF Accept
    <3>3. ~file[task].kept /\ run[task].applied = {}
      BY <1>i, <2>1, <3>1 DEF FiledFor
    <3>4. file'[task].kept /\ \A q \in Inputs \ {task} : file'[q] = file[q]
      BY <1>r, <3>1, <3>2 DEF NoFile
    <3>a. \A q \in Inputs : run[q].applied \subseteq run'[q].applied
      BY <1>r, <3>2, <3>3
    <3>5. \A i \in remembered : Recorded(i) => Recorded(i)'
      BY <1>n, <3>3, <3>4, <3>a, RecordedStays
    <3>6. \A q \in Inputs : q = task => Recorded(q)'
      BY <3>1, <3>4 DEF Recorded
    <3> QED BY <1>t, <3>1, <3>2, <3>5, <3>6
  <2>2. CASE ~(task \notin remembered /\ used < Slots)
    <3>1. file' = file /\ remembered' = remembered /\ run' = run
      BY <1>2, <2>2 DEF Accept
    <3> QED BY <1>n, <1>t, <3>1, RecordedStays
  <2> QED BY <2>1, <2>2
<1>3. CASE Crash
  <2>1. file' = file /\ \A i \in remembered' : \E q \in Inputs :
            file[q].kept /\ (i = q \/ i \in file[q].applied)
    BY <1>3 DEF Crash
  <2>2. \A i \in remembered' : Recorded(i)'
    BY <2>1 DEF Recorded
  <2>3. \A i \in remembered' : i \in Inputs /\ status'[i] # "absent"
    BY <1>r, <1>a, <1>3, <2>1 DEF Crash
  <2> QED BY <2>2, <2>3 DEF Remembers, HandledIsReported
<1>4. ASSUME NEW p \in Inputs, RunStep(p) PROVE Remembers'
  <2>o. \A q \in Inputs \ {p} : file'[q] = file[q] /\ run'[q] = run[q]
    BY <1>4, OthersStay
  <2>r. FiledFor(p)
    BY <1>i
  <2>1. CASE Working(p)
    <3>1. file[p].kept /\ file[p].applied \subseteq run[p].applied
      BY <2>1, <2>r, WorkingRun DEF FiledFor, Live
    <3>2. /\ file'[p].kept /\ file[p].applied \subseteq file'[p].applied
          /\ run[p].applied \subseteq run'[p].applied
          /\ remembered' \in {remembered, remembered \cup {p} \cup run[p].applied}
      BY <2>1, <3>1, WorkingJournal
    <3>3. \A i \in remembered : Recorded(i) => Recorded(i)'
      BY <1>n, <2>o, <3>2, RecordedStays
    <3>4. \A i \in {p} \cup run[p].applied :
              /\ Recorded(i)' \/ OpOf(i) = "replace"
              /\ i \in Inputs /\ status[i] # "absent"
      BY <1>r, <1>s, <1>a, <3>1, <3>2 DEF Recorded
    <3> QED BY <1>t, <3>2, <3>3, <3>4
  <2>2. CASE Deliver(p)
    <3>1. /\ file'[p].kept = file[p].kept /\ file[p].applied = file'[p].applied
          /\ remembered' = remembered /\ run'[p].applied = run[p].applied
      BY <2>2, DeliveredJournal
    <3>2. \A i \in remembered : Recorded(i) => Recorded(i)'
      BY <1>n, <2>o, <3>1, RecordedStays
    <3> QED BY <1>t, <3>1, <3>2
  <2>3. CASE Remove(p) \/ Clean(p)
    <3>1. /\ file'[p] = NoFile /\ status' = status /\ run'[p].applied = run[p].applied
          /\ remembered' \in {remembered, remembered \cup {p} \cup run[p].applied}
          /\ run[p].stage \in {"remove", "clean"}
      BY <2>3, RemovedJournal
    <3>2. /\ file[p].kept /\ status[p] = "taken"
          /\ \A j \in file[p].applied : OpOf(j) # "replace" => status[j] = "taken"
      BY <2>r, <3>1 DEF FiledFor
    <3>3. \A i \in remembered' : status'[i] # "absent"
      BY <1>0, <1>a, <3>1, <3>2 DEF Remembers
    <3>4. ASSUME NEW i \in remembered', status'[i] = "queued"
          PROVE  Recorded(i)' \/ OpOf(i)' = "replace"
      <4>1. CASE i \in run[p].applied
        BY <1>s, <3>1, <4>1 DEF Recorded
      <4>2. CASE i = p \/ i \in file[p].applied
        BY <1>s, <3>1, <3>2, <3>4, <4>2
      <4>3. CASE i # p /\ i \notin file[p].applied /\ i \notin run[p].applied
        <5>1. Recorded(i) \/ OpOf(i) = "replace"
          BY <1>0, <3>1, <3>4, <4>3 DEF Remembers, HandledIsReported
        <5>2. CASE Recorded(i)
          <6>1. PICK q \in Inputs : \/ file[q].kept /\ (i = q \/ i \in file[q].applied)
                                    \/ i \in run[q].applied /\ OpOf(i) # "replace"
            BY <5>2 DEF Recorded
          <6>2. file'[q] = file[q] /\ run'[q] = run[q]
            BY <2>o, <4>3, <6>1
          <6> QED BY <1>s, <6>1, <6>2 DEF Recorded
        <5> QED BY <1>s, <5>1, <5>2
      <4> QED BY <4>1, <4>2, <4>3
    <3> QED BY <3>3, <3>4 DEF Remembers, HandledIsReported
  <2>4. CASE Recover(p)
    <3>1. file' = file /\ remembered' = remembered /\ run[p].stage = "waiting"
      BY <2>4 DEF Recover
    <3>2. run[p].applied = {}
      BY <2>r, <3>1 DEF FiledFor
    <3> QED BY <1>n, <1>t, <2>o, <3>1, <3>2, RecordedStays
  <2> QED BY <1>4, <2>1, <2>2, <2>3, <2>4, RunStepKinds
<1>5. CASE ~Decide /\ ~Accept /\ ~Crash /\ \A p \in Inputs : ~RunStep(p)
  <2>1. file' = file /\ remembered' = remembered /\ run' = run
    BY <1>5, RunsStay
  <2> QED BY <1>n, <1>t, <2>1, RecordedStays
<1> QED BY <1>1, <1>2, <1>3, <1>4, <1>5

-----------------------------------------------------------------------------
(* Theorems *)

\* The invariant holds at the start.
LEMMA InitIInv ==
    ASSUME InputsAssumption, ScenariosAssumption, Init
    PROVE  IInv
<1>1. TypeOK
  <2>1. 0 \in 0 .. 2
    OBVIOUS
  <2>2. executed \in [Inputs -> 0 .. 2]
    BY <2>1 DEF Init
  <2> QED BY <2>2, FreshRun, NoFileIsJournal DEF Init, TypeOK, LoopSteps, NoAsk
<1>2. SlotsBalance
  <2>1. {p \in Inputs : run[p].slot} = {}
    BY DEF Init, NoRun
  <2>2. Cardinality({p \in Inputs : run[p].slot}) = 0
    BY <2>1, FS_EmptySet
  <2>3. used = 0 /\ Slots \in Nat
    BY <1>1, Scenery DEF Init
  <2> QED BY <2>2, <2>3 DEF SlotsBalance, Init, NoRun
<1>3. Asked /\ HeldInputs
  BY DEF Init, Asked, HeldInputs, Held, NoRun, NoFile
<1>4. Registered /\ Filed /\ Remembers
  BY DEF Init, Registered, Filed, Remembers, HandledIsReported, NoRun, NoFile, Live
<1> QED BY <1>1, <1>2, <1>3, <1>4 DEF IInv

\* Every step preserves the invariant.
LEMMA StepIInv ==
    ASSUME InputsAssumption, ScenariosAssumption, IInv, [Next]_vars
    PROVE  IInv'
BY StepType, StepSlots, StepAsked, StepHeld, StepRegistered, StepFiled, StepRemembers DEF IInv

\* The invariant holds in every reachable state.
THEOREM Invariance == Spec => []IInv
BY InitIInv, StepIInv, InputsAssumption, ScenariosAssumption, PTL DEF Spec

\* The state stays in the sets it is declared to be in.
THEOREM TypeCorrect == Spec => []TypeOK
<1>1. IInv => TypeOK
  BY DEF IInv
<1> QED BY <1>1, Invariance, PTL

\* Whatever becomes of a run, its slot is given back once: the slots taken are
\* those of the runs on their way.
THEOREM SlotsAreBalanced == Spec => []SlotsBalance
<1>1. IInv => SlotsBalance
  BY DEF IInv
<1> QED BY <1>1, Invariance, PTL

\* No input that waits for an idle control is sent to a run or applied by it.
THEOREM IdleNeverSteered == Spec => []IdleIsNotSteered
<1>1. IInv => IdleIsNotSteered
  BY DEF IInv, HeldInputs, Held, IdleIsNotSteered
<1> QED BY <1>1, Invariance, PTL

\* Two native turns of a control at a time come from a restart only.
THEOREM OneTurnAtATime == Spec => []TurnsDoNotOverlap
<1>1. ASSUME IInv PROVE TurnsDoNotOverlap
  <2>1. ASSUME NEW p \in Inputs, InTurn(p) PROVE p \in active
    BY <1>1, <2>1 DEF IInv, Registered, InTurn, Live
  <2> QED BY <1>1, <2>1 DEF IInv, Registered, TurnsDoNotOverlap
<1> QED BY <1>1, Invariance, PTL

\* An input the Worker passes over is in a Journal, or Control has been told of it.
THEOREM HandledStaysReported == Spec => []HandledIsReported
<1>1. IInv => HandledIsReported
  BY DEF IInv, Remembers
<1> QED BY <1>1, Invariance, PTL

=============================================================================
