----------------------------- MODULE TurnDispatch -----------------------------
(***************************************************************************)
(* How the Worker turns the inputs Control keeps into turns.               *)
(*                                                                         *)
(* One loop waits for a wake-up or a timer, asks Control for the next      *)
(* input, and either hands it to the run of its control or starts a run.   *)
(* A run works in a goroutine of its own: it starts the native turn, steers*)
(* or interrupts it as commands arrive, saves the result, leaves the       *)
(* coordinator, gives its slot back, and tells Control.  What the Worker   *)
(* has accepted is on its disk before Control hears of it, so Control may  *)
(* offer again what is already done; Journals, reservations and the        *)
(* remembered inputs are there to notice that.  The Worker may stop        *)
(* anywhere and restart from its Journals; native turns go on.             *)
(*                                                                         *)
(* There is one run per primary input, and it is named by that input.      *)
(* Inputs are numbered by their time of creation.                          *)
(*                                                                         *)
(* Above some operators stands a faulty variant of it, named for its       *)
(* fault.  The specification uses none of them; each breaks a property     *)
(* stated at the end.                                                      *)
(***************************************************************************)
EXTENDS Integers, Sequences, FiniteSets

CONSTANTS
    Inputs,         \* codex_turn_intents
    Controls,       \* codex_thread_controls of one worker and engine
    Scenarios,      \* bound: the inputs that arrive, what they are, the slots, the
                    \* restarts of the Worker, and whether answers of steers and
                    \* saves of decisions may fail
    MaxSteers,      \* Claimed.MaxSteers
    Queue,          \* capacity of the command channel of a run
    None            \* no input

\* "idle" is a turn_input with behavior start_when_idle.
Ops == {"turn", "idle", "interrupt", "replace"}

ASSUME InputsAssumption ==
    Inputs \subseteq Nat /\ IsFiniteSet(Inputs) /\ None \notin Inputs
ASSUME ScenariosAssumption ==
    Scenarios \subseteq [arriving : SUBSET Inputs, slots : Nat, crashes : Nat, faults : BOOLEAN,
                         work : [Inputs -> [control : Controls, op : Ops]]]
ASSUME BoundsAssumption ==
    MaxSteers \in Nat /\ Queue \in Nat

VARIABLES
    scenario,       \* never changes
    status,         \* Control: "absent", "queued", "taken" (resolved_action is set)
    loop,           \* where Runner.Run is
    ask,            \* the selection sent to Control
    task,           \* the input Control has answered with
    rung,           \* wakeSignals.pending["claim"]
    signalled,      \* the signal the loop waits on has been closed
    run,            \* runJournal and runCoordinator, by primary input
    active,         \* coordinator.active: primary inputs
    remembered,     \* acceptedInputs
    used,           \* len(turnSlots)
    file,           \* the Journals on disk, by primary input
    executed,       \* how often the input has reached the native runtime: 2 is again
    exposed,        \* history: executed inputs whose execution the Worker cannot see
    beside,         \* history: inputs of a control with a run beside a recovered one
    crashes

waking == <<rung, signalled>>
looping == <<loop, ask, task>>
history == <<exposed, beside, crashes>>
vars == <<scenario, status, loop, ask, task, rung, signalled, run, active, remembered,
          used, file, executed, exposed, beside, crashes>>

LoopSteps == {"check", "arm", "sleep", "claim", "asked", "decide", "accept"}

\* The steps of a run, in order.  One waits for a slot, and from "begin" to
\* "remembered" it has it.  "clean" is a run that was delivered before a restart.
Stages == {"none", "waiting", "begin", "turn", "steer", "stop", "ended", "saved",
           "remembered", "report", "remove", "clean", "done"}

Run == [stage : Stages, slot : BOOLEAN, doing : Inputs \cup {None},
        commands : Seq(Inputs), reserved : SUBSET Inputs, applied : SUBSET Inputs,
        appends : Nat]

NoRun == [stage |-> "none", slot |-> FALSE, doing |-> None,
          commands |-> <<>>, reserved |-> {}, applied |-> {}, appends |-> 0]

NoAsk == [active |-> {}, full |-> FALSE]

\* It names the turn by what turn/start returned ("submitted").
Journal == [kept : BOOLEAN, submitted : BOOLEAN, ended : BOOLEAN, delivered : BOOLEAN,
            applied : SUBSET Inputs]

NoFile == [kept |-> FALSE, submitted |-> FALSE, ended |-> FALSE, delivered |-> FALSE,
           applied |-> {}]

TypeOK ==
    /\ scenario \in Scenarios
    /\ status \in [Inputs -> {"absent", "queued", "taken"}]
    /\ loop \in LoopSteps
    /\ ask \in [active : SUBSET Controls, full : BOOLEAN]
    /\ task \in Inputs \cup {None}
    /\ rung \in BOOLEAN /\ signalled \in BOOLEAN
    /\ run \in [Inputs -> Run]
    /\ active \subseteq Inputs /\ remembered \subseteq Inputs
    /\ used \in Nat
    /\ file \in [Inputs -> Journal]
    /\ executed \in [Inputs -> 0 .. 2]
    /\ exposed \subseteq Inputs /\ beside \subseteq Inputs
    /\ crashes \in Nat

Init ==
    /\ scenario \in Scenarios
    /\ status = [i \in Inputs |-> "absent"]
    /\ loop = "check" /\ ask = NoAsk /\ task = None
    /\ rung = FALSE /\ signalled = FALSE
    /\ run = [i \in Inputs |-> NoRun]
    /\ active = {} /\ remembered = {} /\ used = 0
    /\ file = [i \in Inputs |-> NoFile]
    /\ executed = [i \in Inputs |-> 0]
    /\ exposed = {} /\ beside = {} /\ crashes = 0

ControlOf(i) == scenario.work[i].control
OpOf(i) == scenario.work[i].op
Slots == scenario.slots      \* cap(turnSlots)
IsTurn(i) == OpOf(i) \in {"turn", "idle"}
Stops(i) == OpOf(i) \in {"interrupt", "replace"}

\* The input reaches the native runtime.
Executes(i) == executed' = [executed EXCEPT ![i] = IF @ = 2 THEN 2 ELSE @ + 1]
-----------------------------------------------------------------------------
(* Wake-ups *)

\* Wait reads the signal before it sleeps; what was closed earlier is not noticed.
Notify == rung' = TRUE /\ signalled' = (loop = "sleep")

\* The user's input is committed.  The wake-up that follows may be lost.
Arrive(i) ==
    /\ status[i] = "absent"
    /\ \A j \in scenario.arriving : j < i => status[j] # "absent"
    /\ status' = [status EXCEPT ![i] = "queued"]
    /\ Notify \/ UNCHANGED waking
    /\ UNCHANGED <<scenario, looping, run, active, remembered, used, file, executed, history>>

LoopOnly == UNCHANGED <<scenario, status, task, run, active, remembered, used, file, executed,
                        history>>

Check ==
    /\ loop = "check"
    /\ loop' = IF rung THEN "claim" ELSE "arm"
    /\ rung' = FALSE
    /\ UNCHANGED <<ask, signalled>> /\ LoopOnly

Arm ==
    /\ loop = "arm"
    /\ loop' = "sleep"
    /\ UNCHANGED <<ask, waking>> /\ LoopOnly

\* Nobody else takes this kind, so the loop finds it.
Signal ==
    /\ loop = "sleep" /\ signalled
    /\ loop' = "claim"
    /\ rung' = FALSE /\ signalled' = FALSE
    /\ UNCHANGED ask /\ LoopOnly

\* Faulty: Wait has no fallback.
NoFallback == FALSE /\ UNCHANGED vars

Timer ==
    /\ loop = "sleep"
    /\ loop' = "claim" /\ signalled' = FALSE
    /\ UNCHANGED <<ask, rung>> /\ LoopOnly
-----------------------------------------------------------------------------
(* The loop: Control's answer, the coordinator, a new run *)

\* The request is built from the slots and the coordinator of this moment.
Claim ==
    /\ loop = "claim"
    /\ ask' = [active |-> {ControlOf(p) : p \in active}, full |-> used >= Slots]
    /\ loop' = "asked"
    /\ UNCHANGED waking /\ LoopOnly

Busy(i) == ControlOf(i) \in ask.active

Offered(i) ==
    /\ status[i] = "queued"
    /\ ~(OpOf(i) = "idle" /\ Busy(i))
    /\ ask.full => Busy(i)

\* Active controls first, among them interrupts and replacements, then by age.
Rank(i) == CASE Busy(i) /\ Stops(i) -> 0 [] Busy(i) -> 1 [] OTHER -> 2

Before(i, j) == Rank(i) < Rank(j) \/ (Rank(i) = Rank(j) /\ i < j)

PendingWorkerInput(i) == Offered(i) /\ \A j \in Inputs \ {i} : Offered(j) => Before(i, j)

Answered ==
    /\ loop = "asked" /\ ask' = NoAsk
    /\ UNCHANGED <<scenario, status, waking, run, active, remembered, used, file, executed,
                   history>>

\* Control reads its tables.
AnswerInput ==
    /\ Answered /\ loop' = "decide"
    /\ \E i \in Inputs : PendingWorkerInput(i) /\ task' = i

\* Nothing is offered, or the request fails, whatever is queued.
AnswerNothing == Answered /\ loop' = "check" /\ UNCHANGED task

Answer == AnswerInput \/ AnswerNothing

\* Control is told that the run of p has handled j.  It must know the run, and
\* changes nothing for a replacement.
Acknowledged(p, j) ==
    IF status[p] = "taken" /\ OpOf(j) # "replace"
    THEN [status EXCEPT ![j] = "taken"] ELSE status

\* Faulty: an input for an idle control interrupts the wait instead.
SendableIdle(p, i) ==
    /\ p # i /\ i \notin run[p].applied /\ i \notin run[p].reserved
    /\ IsTurn(i) => run[p].appends < MaxSteers
    /\ Len(run[p].commands) < Queue

\* The command reaches the run, unless it is there, must wait, or does not fit.
Sendable(p, i) ==
    /\ p # i /\ i \notin run[p].applied /\ i \notin run[p].reserved
    /\ OpOf(i) # "idle"
    /\ OpOf(i) = "turn" => run[p].appends < MaxSteers
    /\ Len(run[p].commands) < Queue

Send(p, i) ==
    run' = [run EXCEPT ![p].commands = Append(@, i),
                       ![p].reserved = @ \cup {i},
                       ![p].appends = @ + 1]

\* Faulty: an input that cannot be sent may start a run.
RoutesIfSendable(i) == {p \in active : ControlOf(p) = ControlOf(i) /\ Sendable(p, i)}

Routes(i) == {p \in active : ControlOf(p) = ControlOf(i)}

\* After a claim the queue is looked at again, whatever becomes of the input.
Decide ==
    /\ loop = "decide"
    /\ Notify
    /\ \/ \E p \in Routes(task) :
            /\ loop' = "check" /\ task' = None
            /\ \/ Sendable(p, task) /\ Send(p, task) /\ UNCHANGED status
               \/ ~Sendable(p, task) /\ UNCHANGED run
                  /\ \/ UNCHANGED status
                     \/ p # task /\ task \in run[p].applied /\ status' = Acknowledged(p, task)
       \/ Routes(task) = {} /\ loop' = "accept" /\ UNCHANGED <<status, run, task>>
    /\ UNCHANGED <<scenario, ask, active, remembered, used, file, executed, history>>

\* A recovered run that waits for a slot is not in the coordinator yet: another run
\* of its control may start beside it, and take what it has accepted.  So may one
\* that was decided upon before the recovered run is registered.
Beside(i) ==
    IF \/ \E p \in Inputs \ {i} : run[p].stage = "waiting" /\ ControlOf(p) = ControlOf(i)
       \/ loop = "accept" /\ task # i /\ ControlOf(task) = ControlOf(i)
    THEN {j \in Inputs : ControlOf(j) = ControlOf(i)} ELSE {}

\* The runs that have these on record are over, so the coordinator does not know
\* them, and a run of their control does not ask what is remembered.  A stop or an
\* idle input that starts one overtakes their reports.
Overtaken(i) ==
    {j \in Inputs : /\ OpOf(i) # "turn" /\ OpOf(j) = "turn" /\ ControlOf(j) = ControlOf(i)
                    /\ status[j] = "queued" /\ executed[j] > 0}

\* The Journal is saved first: if that fails the Worker ends (see Crash).
Accept ==
    /\ loop = "accept"
    /\ loop' = "check" /\ task' = None
    /\ \/ /\ task \notin remembered /\ used < Slots
          /\ used' = used + 1
          /\ file' = [file EXCEPT ![task] = [NoFile EXCEPT !.kept = TRUE]]
          /\ run' = [run EXCEPT ![task] = [NoRun EXCEPT !.stage = "begin", !.slot = TRUE]]
          /\ remembered' = remembered \cup {task}
          /\ active' = active \cup {task}
          /\ beside' = beside \cup Beside(task)
          /\ exposed' = exposed \cup Overtaken(task)
       \/ /\ task \in remembered \/ used >= Slots
          /\ UNCHANGED <<used, file, run, remembered, active, beside, exposed>>
    /\ UNCHANGED <<scenario, status, ask, waking, executed, crashes>>
-----------------------------------------------------------------------------
(* A run *)

RunOnly == UNCHANGED <<scenario, status, looping, remembered, active, used, waking, beside,
                       crashes>>

GoTo(p, stage) == run' = [run EXCEPT ![p].stage = stage]

\* journalStore.save writes what memory holds.
Save(p, applied) ==
    file' = [file EXCEPT ![p].applied = applied, ![p].submitted = TRUE]

\* The turn is started; its submission is in memory until the next save.
StartTurn(p) == GoTo(p, "turn") /\ Executes(p)

\* A Journal that names a submission is reconciled: its native turn is followed,
\* or found to be over.  One the runtime does not list is started again, unless an
\* event that announced it is saved: then the run fails (EndTurn).  Whether there
\* was such an event is left open.
Begin(p) ==
    /\ run[p].stage = "begin"
    /\ \/ ~file[p].submitted /\ StartTurn(p) /\ UNCHANGED exposed
       \/ /\ file[p].submitted /\ (GoTo(p, "turn") \/ GoTo(p, "ended"))
          /\ UNCHANGED <<executed, exposed>>
       \/ file[p].submitted /\ StartTurn(p) /\ exposed' = exposed \cup {p}
    /\ UNCHANGED file /\ RunOnly

\* An event of the turn is saved, and with it the submission and what earlier saves
\* missed.
SaveEvent(p) ==
    /\ run[p].stage = "turn"
    /\ Save(p, run[p].applied)
    /\ UNCHANGED <<run, executed, exposed>> /\ RunOnly

Rejected(r, p, j) ==
    [r EXCEPT ![p].reserved = @ \ {j},
              ![p].appends = IF j \in run[p].reserved /\ @ > Cardinality(run[p].applied)
                             THEN @ - 1 ELSE @]

\* The next command reaches the native turn, or is refused and stays queued.  One
\* that reaches it but seems to fail, as its answer is lost, stays queued as well; of
\* a stop that is no more than a refusal and a turn that ends.
TakeCommand(p) ==
    /\ run[p].stage = "turn" /\ run[p].commands # <<>>
    /\ LET j    == Head(run[p].commands)
           rest == [run EXCEPT ![p].commands = Tail(@)]
       IN  \/ /\ run' = [rest EXCEPT ![p].doing = j,
                             ![p].stage = IF Stops(j) THEN "stop" ELSE "steer"]
              /\ IF Stops(j) THEN UNCHANGED executed ELSE Executes(j)
              /\ UNCHANGED exposed
           \/ run' = Rejected(rest, p, j) /\ UNCHANGED <<executed, exposed>>
           \/ /\ scenario.faults /\ ~Stops(j)
              /\ run' = Rejected(rest, p, j) /\ Executes(j) /\ exposed' = exposed \cup {j}
    /\ UNCHANGED file /\ RunOnly

\* markApplied: memory knows, and the error of the save is ignored.
MarkApplied(p) ==
    /\ run[p].stage \in {"steer", "stop"}
    /\ LET j == run[p].doing IN
       /\ run' = [run EXCEPT ![p].stage = IF Stops(j) THEN "ended" ELSE "turn",
                             ![p].doing = None, ![p].reserved = @ \ {j},
                             ![p].applied = @ \cup {j}]
       /\ \/ Save(p, run[p].applied \cup {j})
          \/ scenario.faults /\ UNCHANGED file
    /\ UNCHANGED <<executed, exposed>> /\ RunOnly

\* The native turn completes, fails or times out.  A turn whose start was not
\* answered began and ended.
EndTurn(p) ==
    /\ run[p].stage \in {"begin", "turn"}
    /\ GoTo(p, "ended")
    /\ UNCHANGED <<file, executed, exposed>> /\ RunOnly

\* Faulty: a slot is given back on every way out.
SlotsAlwaysLess(p) == used - 1

\* Faulty: the same, with a receive that does not block when no slot is taken.
SlotsLessIfAny(p) == IF used > 0 THEN used - 1 ELSE used

\* Faulty: slots are never given back.
SlotsKept(p) == used

\* releaseSlot: a second call does nothing.
SlotsWithout(p) == IF run[p].slot THEN used - 1 ELSE used

\* Faulty: the decisions are forgotten with the run.
OverForgetting(stage, r) == [NoRun EXCEPT !.stage = stage]

\* The run has nothing left but what is still to be reported.
Over(stage, r) == [NoRun EXCEPT !.stage = stage, !.applied = r.applied]

\* The deferred calls: releaseRun, releaseSlot, Notify.
Return(p) ==
    /\ used' = SlotsWithout(p)
    /\ run' = [run EXCEPT ![p] = Over("done", @)]
    /\ remembered' = remembered \cup {p} \cup run[p].applied
    /\ active' = active \ {p}
    /\ Notify

\* A result that cannot be saved leaves the run to the next restart.
SaveResult(p) ==
    /\ run[p].stage = "ended"
    /\ \/ /\ file' = [file EXCEPT ![p].ended = TRUE, ![p].submitted = TRUE,
                                ![p].applied = run[p].applied]
          /\ GoTo(p, "saved")
          /\ UNCHANGED <<remembered, active, used, waking>>
       \/ Return(p) /\ UNCHANGED file
    /\ UNCHANGED <<scenario, status, looping, executed, history>>

\* Faulty: releaseRun only unregisters.
ReleaseForgetting(p) ==
    /\ run[p].stage = "saved"
    /\ GoTo(p, "remembered")
    /\ UNCHANGED <<scenario, status, looping, remembered, active, used, waking, file, executed,
                   history>>

\* releaseRun: the inputs are remembered before the run leaves the coordinator.
Remember(p) ==
    /\ run[p].stage = "saved"
    /\ remembered' = remembered \cup {p} \cup run[p].applied
    /\ GoTo(p, "remembered")
    /\ UNCHANGED <<scenario, status, looping, active, used, waking, file, executed, history>>

\* unregister, then the early releaseSlot.
Unregister(p) ==
    /\ run[p].stage = "remembered"
    /\ active' = active \ {p}
    /\ used' = SlotsWithout(p)
    /\ run' = [run EXCEPT ![p] = Over("report", @)]
    /\ UNCHANGED <<scenario, status, looping, remembered, waking, file, executed, history>>
-----------------------------------------------------------------------------
(* Reports to Control *)

Started(p) == [status EXCEPT ![p] = "taken"]

InProcess(p) == run[p].stage \in {"begin", "turn", "steer", "stop"}

\* The state sync of a run that goes on.
ReportStart(p) ==
    /\ InProcess(p) /\ status[p] = "queued"
    /\ status' = Started(p)
    /\ UNCHANGED <<scenario, looping, waking, run, active, remembered, used, file, executed,
                   history>>

\* ackCommandEventually does not end with the run.
ReportDecision(p, j) ==
    /\ run[p].stage \notin {"none", "waiting"}
    /\ j \in run[p].applied /\ status[j] = "queued"
    /\ status' = Acknowledged(p, j)
    /\ UNCHANGED <<scenario, looping, waking, run, active, remembered, used, file, executed,
                   history>>

\* What deliverTerminal reports before it completes the run.
Synced(p) ==
    [i \in Inputs |-> IF i = p \/ (i \in run[p].applied /\ OpOf(i) # "replace")
                      THEN "taken" ELSE status[i]]

\* deliverTerminal: the state sync, the end of the run, and a save of the mark.
Deliver(p) ==
    /\ run[p].stage = "report"
    /\ status' = Synced(p)
    /\ file' = [file EXCEPT ![p].delivered = TRUE]
    /\ GoTo(p, "remove")
    /\ UNCHANGED <<scenario, looping, waking, active, remembered, used, executed, history>>

Remove(p) ==
    /\ run[p].stage = "remove"
    /\ file' = [file EXCEPT ![p] = NoFile]
    /\ Return(p)
    /\ UNCHANGED <<scenario, status, looping, executed, history>>
-----------------------------------------------------------------------------
(* Restarts *)

\* What the native runtime has done and the disk does not show.
Lost ==
    {p \in Inputs : file[p].kept /\ ~file[p].submitted /\ executed[p] > 0}
    \cup {run[p].doing : p \in {q \in Inputs : run[q].stage = "steer"}}
    \cup UNION {run[p].applied \ file[p].applied : p \in Inputs}

\* Memory is lost.  recoverJournals remembers the inputs of every Journal before
\* the loop starts; the runs wait for slots.
Crash ==
    /\ crashes < scenario.crashes
    /\ crashes' = crashes + 1
    /\ exposed' = exposed \cup Lost
    /\ LET kept == {p \in Inputs : file[p].kept}
       IN  /\ run' = [p \in Inputs |-> IF p \in kept THEN [NoRun EXCEPT !.stage = "waiting"]
                                       ELSE NoRun]
           /\ remembered' = kept \cup UNION {file[p].applied : p \in kept}
    /\ loop' = "check" /\ ask' = NoAsk /\ task' = None
    /\ rung' = FALSE /\ signalled' = FALSE
    /\ active' = {} /\ used' = 0
    /\ UNCHANGED <<scenario, status, file, executed, beside>>

\* A recovered run gets a slot, is registered, and goes on where it stopped.
Recover(p) ==
    /\ run[p].stage = "waiting" /\ used < Slots
    /\ used' = used + 1
    /\ active' = active \cup {p}
    /\ run' = [run EXCEPT ![p] =
                [NoRun EXCEPT !.slot = TRUE, !.applied = file[p].applied,
                    !.appends = Cardinality(file[p].applied),
                    !.stage = CASE file[p].delivered -> "clean"
                                [] ~file[p].delivered /\ file[p].ended -> "saved"
                                [] OTHER -> "begin"]]
    /\ beside' = beside \cup Beside(p)
    /\ UNCHANGED <<scenario, status, looping, waking, remembered, file, executed, exposed,
                   crashes>>

\* A run delivered before the restart gives its slot back and removes its file.
\* This way out has no releaseRun: the coordinator keeps the run.
Clean(p) ==
    /\ run[p].stage = "clean"
    /\ used' = SlotsWithout(p)
    /\ run' = [run EXCEPT ![p].slot = FALSE, ![p].stage = "done"]
    /\ file' = [file EXCEPT ![p] = NoFile]
    /\ Notify
    /\ UNCHANGED <<scenario, status, looping, remembered, active, executed, history>>
-----------------------------------------------------------------------------
LoopStep == Check \/ Arm \/ Signal \/ Timer \/ Claim \/ Answer \/ Decide \/ Accept

RunStep(p) ==
    \/ Begin(p) \/ SaveEvent(p) \/ TakeCommand(p) \/ MarkApplied(p) \/ EndTurn(p)
    \/ SaveResult(p) \/ Remember(p) \/ Unregister(p) \/ Deliver(p) \/ Remove(p) \/ Clean(p)
    \/ Recover(p)

Next ==
    \/ LoopStep
    \/ \E i \in scenario.arriving : Arrive(i)
    \/ \E p \in Inputs : RunStep(p) \/ ReportStart(p)
    \/ \E p, j \in Inputs : ReportDecision(p, j)
    \/ Crash

Spec == Init /\ [][Next]_vars

\* The loop and the goroutines go on, and a turn ends although commands it refuses
\* are there again and again.  Control is asked again and again, and not every request
\* fails.  Nothing makes users write, wake-ups arrive, or the state sync come before
\* the end of the run.
FairSpec ==
    /\ Spec
    /\ WF_vars(LoopStep) /\ SF_vars(AnswerInput)
    /\ \A p \in Inputs : WF_vars(RunStep(p)) /\ SF_vars(EndTurn(p))
-----------------------------------------------------------------------------
(* Properties *)

\* Control offers an input until it hears of it, and the Worker must not execute it
\* again (runtime_submission_test.go:100).  It does so in two cases only: the first
\* execution left it no record, or none it looks at (Lost, a lost answer of a steer, a
\* turn the runtime does not list, Overtaken), or a run was started beside a recovered
\* one.  Delays, refusals, full channels, the end of runs and the order in which
\* users write do not suffice.
ExecutedOnce == \A i \in Inputs : executed[i] > 1 => i \in exposed \cup beside

InTurn(p) == run[p].stage \in {"turn", "steer", "stop"}

\* A control has one native turn at a time, unless a recovered run came beside it.
TurnsDoNotOverlap ==
    \A p, q \in Inputs :
        p # q /\ ControlOf(p) = ControlOf(q) /\ InTurn(p) /\ InTurn(q)
            => p \in beside /\ q \in beside

\* An input that waits for an idle control never reaches a turn that goes on,
\* whatever the coordinator had told Control when it was offered.
IdleIsNotSteered ==
    \A p \in Inputs :
        \A j \in run[p].applied \cup file[p].applied \cup run[p].reserved : OpOf(j) # "idle"

\* The slots taken are those of the runs on their way, and they are never more
\* than there are: every way out of a run gives its slot back once.
SlotsBalance ==
    /\ used = Cardinality({p \in Inputs : run[p].slot})
    /\ used <= Slots
    /\ \A p \in Inputs : run[p].slot <=> run[p].stage \in
           {"begin", "turn", "steer", "stop", "ended", "saved", "remembered", "clean"}

\* A Journal has it, or the goroutine that could not save it goes on reporting it.
Recorded(i) ==
    \E p \in Inputs : \/ file[p].kept /\ (i = p \/ i \in file[p].applied)
                      \/ i \in run[p].applied /\ OpOf(i) # "replace"

\* The Worker's comment: what it remembers, and so passes over, is an input whose
\* report is still to come.
RememberedIsReported ==
    \A i \in remembered : status[i] = "queued" => Recorded(i)

\* Of every input but a replacement that has interrupted a turn.
HandledIsReported ==
    \A i \in remembered : status[i] = "queued" => Recorded(i) \/ OpOf(i) = "replace"

\* Nothing the loop can get past: a run that stays registered after it has ended,
\* one whose result could not be saved, or a replacement that is passed over.
Stuck ==
    \/ \E p \in Inputs : run[p].stage = "done" /\ (p \in active \/ file[p].kept)
    \/ \E i \in remembered : status[i] = "queued" /\ ~Recorded(i)

\* Users write finitely often here.  Then every input is taken in the end, also when
\* its wake-up is lost, its first run cannot take it, or older inputs stand before it.
QueuedIsTaken == <>[](Stuck \/ \A i \in Inputs : status[i] # "queued")

\* A wake-up is answered by a claim, although one that comes between the look at
\* the pending kinds and the look at the signal is not noticed.
WakeIsAnswered == rung ~> loop = "claim"
=============================================================================
