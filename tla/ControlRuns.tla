----------------------------- MODULE ControlRuns -----------------------------
(***************************************************************************)
(* The ledger Control keeps of what the Worker runs.                       *)
(*                                                                         *)
(* A user input ("intent") is queued on a thread control, fetched by the   *)
(* Worker, and there either starts a run, is steered into the run already  *)
(* executing on the control, or interrupts it.  The Worker decides alone   *)
(* and reports every decision and observation to Control afterwards, over  *)
(* HTTP calls it repeats until they succeed: a call may be lost, answered  *)
(* late, executed twice, or executed after the call that followed it.      *)
(*                                                                         *)
(* The actions named after repository methods and handlers are one         *)
(* database transaction each.  `intents`, `runs`, `controls` and           *)
(* `requests` are table rows; `handlers` are the in-flight terminal        *)
(* requests, which read in one transaction and write in another.  The      *)
(* Worker is represented by the facts it has made durable (`journal`,      *)
(* `routed`) and the inputs it holds (`offered`).  Any call those facts    *)
(* justify may reach Control at any time, any number of times.             *)
(*                                                                         *)
(* Above some operators stands a faulty variant of it, named for its       *)
(* fault (CancelableWhenDispatched above Cancelable).  The specification   *)
(* uses none of them; each breaks a property stated at the end.            *)
(***************************************************************************)
EXTENDS Integers, FiniteSets

CONSTANTS
    Controls,       \* codex_thread_controls rows of one Worker and engine
    Intents,        \* codex_turn_intents, numbered in creation order
    Runs,           \* codex_turn_runs, identified by the Worker
    Turns,          \* native turn identifiers
    Requests,       \* codex_interactive_requests, in creation order
    Handlers,       \* concurrent complete/fail request handlers
    None,           \* SQL NULL
    ControlOf,      \* [Intents -> Controls]
    Operation,      \* [Intents -> Operations]
    StartWhenIdle,  \* the inputs whose behavior is start_when_idle
    GenerationOf,   \* [Requests -> Nat]: app-server generation of a request
    MaxAppend,      \* max_append_count of a run (CodexMaxSteersPerTurn)
    MaxJobs         \* workers.max_concurrent_jobs

Operations == {"turn_input", "interrupt", "replace_last_turn"}
UserInputs == {"turn_input", "replace_last_turn"}
Urgent     == {"interrupt", "replace_last_turn"}

ASSUME IntentsAssumption ==
    /\ Intents \subseteq Nat
    /\ ControlOf \in [Intents -> Controls]
    /\ Operation \in [Intents -> Operations]
    /\ StartWhenIdle \subseteq Intents
ASSUME RequestsAssumption ==
    /\ Requests \subseteq Nat
    /\ GenerationOf \in [Requests -> Nat]
ASSUME BoundsAssumption == MaxAppend \in Nat /\ MaxJobs \in Nat
ASSUME NoneAssumption ==
    /\ None \notin Intents /\ None \notin Runs /\ None \notin Turns
    /\ None \notin {"start", "steer", "interrupt", "completed", "failed", "canceled"}

VARIABLES
    intents,    \* rows: status, resolved_action, submission and confirmed ids
    runs,       \* rows: status, primary_intent_id, active_slot (0 is NULL), append_count
    controls,   \* rows: status, active_intent_id, active_codex_turn_id
    requests,   \* rows: status, run_id
    handlers,   \* terminal requests between their check and their commit
    journal,    \* what the Worker has recorded of each run
    routed,     \* the decision the Worker has recorded for each input
    offered     \* inputs the Worker fetched and has not decided

server == <<intents, runs, controls, requests, handlers>>
worker == <<journal, routed, offered>>
vars   == <<server, worker>>

Terminal       == {"completed", "failed", "canceled"}
IntentStatuses == {"absent", "queued", "dispatching", "awaiting_confirmation",
                   "running", "waiting_for_user"} \cup Terminal
Executing      == {"starting", "running", "waiting_for_user"}
RunStatuses    == {"absent", "reconciling"} \cup Executing \cup Terminal
Answered       == {"resolved", "expired"}

Exists(r)     == runs[r].status # "absent"
Unfinished(r) == Exists(r) /\ runs[r].status \notin Terminal
RunsOf(c)     == {r \in Runs : Exists(r) /\ ControlOf[runs[r].primary] = c}
Occupied      == {r \in Runs : runs[r].slot = 1}
Primary(r)    == journal[r].input
Accepted(r)   == journal[r].input # None
Local(r)      == Accepted(r) /\ journal[r].outcome = None
Steered(r)    == {i \in Intents : routed[i].action = "steer" /\ routed[i].run = r}

Init ==
    /\ intents  = [i \in Intents |-> [status |-> "absent", resolved |-> None,
                                      submission |-> None, confirmed |-> None]]
    /\ runs     = [r \in Runs |-> [status |-> "absent", primary |-> None,
                                   slot |-> 0, appends |-> 0]]
    /\ controls = [c \in Controls |-> [status |-> "idle", activeIntent |-> None,
                                       activeTurn |-> None]]
    /\ requests = [q \in Requests |-> [status |-> "absent", run |-> None]]
    /\ handlers = [h \in Handlers |-> [run |-> None, turn |-> None]]
    /\ journal  = [r \in Runs |-> [input |-> None, turn |-> None, started |-> {},
                                   confirmed |-> None, outcome |-> None]]
    /\ routed   = [i \in Intents |-> [action |-> None, run |-> None, turn |-> None]]
    /\ offered  = {}

-----------------------------------------------------------------------------
(* Inputs arrive. *)

Created(i) == intents[i].status # "absent"

\* Rows are numbered as they are created; an input of the model may never come.
IsNext(i) == \A j \in Intents : j >= i => ~Created(j)

\* The newest user input of a control is the one whose edit can be replayed.
UserInputsOf(c) ==
    {i \in Intents : Created(i) /\ ControlOf[i] = c /\ Operation[i] \in UserInputs}
Latest(c) == {i \in UserInputsOf(c) : \A j \in UserInputsOf(c) : j <= i}

\* An edit of an input that is still queued rewrites it instead of reserving
\* a replacement, so a replacement row exists only behind a dispatched input.
Enqueue(i) ==
    /\ IsNext(i)
    /\ Operation[i] # "interrupt"
    /\ Operation[i] = "replace_last_turn" =>
          \E j \in Latest(ControlOf[i]) : intents[j].status # "queued"
    /\ intents' = [intents EXCEPT ![i].status = "queued"]
    /\ UNCHANGED <<runs, controls, requests, handlers, worker>>

\* Questions a new client message may answer with "skipped".
Skippable(c) ==
    {q \in Requests :
        /\ requests[q].status = "pending"
        /\ requests[q].run \in RunsOf(c)
        /\ runs[requests[q].run].status = "waiting_for_user"
        /\ controls[c].activeIntent = runs[requests[q].run].primary
        /\ controls[c].status \in {"dispatching", "active"}}

ClientMessage(i) ==
    /\ IsNext(i)
    /\ Operation[i] = "turn_input"
    /\ intents' = [intents EXCEPT ![i].status = "queued"]
    /\ \E q \in Skippable(ControlOf[i]) :
          /\ \A p \in Skippable(ControlOf[i]) : p <= q
          /\ requests' = [requests EXCEPT ![q].status = "resolved"]
    /\ UNCHANGED <<runs, controls, handlers, worker>>

CancelableWhenDispatched(j, c) ==
    ControlOf[j] = c /\ Operation[j] = "turn_input" /\ intents[j].status \in {"queued", "dispatching"}

\* What a stop takes out of the queue.
Cancelable(j, c) ==
    ControlOf[j] = c /\ Operation[j] = "turn_input" /\ intents[j].status = "queued"

\* Stop cancels what is queued and leaves an interrupt input for the rest.
Stop(i) ==
    LET c == ControlOf[i] IN
    /\ IsNext(i)
    /\ Operation[i] = "interrupt"
    /\ intents' = [j \in Intents |->
          IF j = i THEN [intents[j] EXCEPT !.status = "queued"]
          ELSE IF Cancelable(j, c) THEN [intents[j] EXCEPT !.status = "canceled"]
          ELSE intents[j]]
    /\ controls' = IF /\ controls[c].activeIntent # None
                      /\ controls[c].status \in {"dispatching", "active"}
                   THEN [controls EXCEPT ![c].status = "stopping"]
                   ELSE controls
    /\ UNCHANGED <<runs, requests, handlers, worker>>

-----------------------------------------------------------------------------
(* The Worker fetches inputs, decides them and executes turns. *)

Pending(i) == intents[i].status = "queued" /\ intents[i].resolved = None

Selectable(i, active, onlyActive) ==
    /\ Pending(i)
    /\ Operation[i] = "turn_input" /\ i \in StartWhenIdle =>
          ControlOf[i] \notin active
    /\ onlyActive => ControlOf[i] \in active

Rank(i, active) == IF ControlOf[i] \notin active THEN 2
                   ELSE IF Operation[i] \in Urgent THEN 0 ELSE 1

\* `active` is what the Worker's coordinator holds: after a restart a run that
\* still waits for an execution slot is local but not registered there.
Fetch(i, active, onlyActive) ==
    /\ active \subseteq {ControlOf[Primary(r)] : r \in {s \in Runs : Local(s)}}
    /\ Selectable(i, active, onlyActive)
    /\ \A j \in Intents : Selectable(j, active, onlyActive) =>
          \/ Rank(i, active) < Rank(j, active)
          \/ Rank(i, active) = Rank(j, active) /\ i <= j
    /\ routed[i].action = None
    /\ offered' = offered \cup {i}
    /\ UNCHANGED <<server, journal, routed>>

\* No slot is free, the command channel is full, or the steer was rejected.
Discard(i) ==
    /\ i \in offered
    /\ offered' = offered \ {i}
    /\ UNCHANGED <<server, journal, routed>>

\* The input starts a run, whatever its operation.
Accept(r, i) ==
    /\ i \in offered
    /\ ~Accepted(r)
    /\ offered' = offered \ {i}
    /\ journal' = [journal EXCEPT ![r].input = i]
    /\ routed' = [routed EXCEPT ![i] = [action |-> "start", run |-> r, turn |-> None]]
    /\ UNCHANGED server

\* turn/start.  The id reaches the journal with the next save, so a crash in
\* between starts a second turn; once a steer or a confirmation is recorded,
\* so is the id, and recovery finds the turn again.
StartTurn(r, t) ==
    /\ Local(r)
    /\ journal[r].confirmed = None /\ Steered(r) = {}
    /\ \A s \in Runs : t \notin journal[s].started
    /\ journal' = [journal EXCEPT ![r].turn = t, ![r].started = @ \cup {t}]
    /\ UNCHANGED <<server, routed, offered>>

\* The turn/started event, or the turn found in the thread on recovery.
TurnStarted(r) ==
    /\ Local(r)
    /\ journal[r].turn # None /\ journal[r].confirmed = None
    /\ journal' = [journal EXCEPT ![r].confirmed = journal[r].turn]
    /\ UNCHANGED <<server, routed, offered>>

Steer(r, i) ==
    /\ Local(r) /\ journal[r].turn # None
    /\ i \in offered \ StartWhenIdle
    /\ Operation[i] = "turn_input"
    /\ ControlOf[i] = ControlOf[Primary(r)]
    /\ Cardinality(Steered(r)) < MaxAppend
    /\ offered' = offered \ {i}
    /\ routed' = [routed EXCEPT ![i] =
                    [action |-> "steer", run |-> r, turn |-> journal[r].turn]]
    /\ UNCHANGED <<server, journal>>

\* turn/interrupt ends the run as canceled.  A replacement that interrupted the
\* running turn stays queued at Control: it has yet to start.
Interrupt(r, i) ==
    /\ Local(r) /\ journal[r].turn # None
    /\ i \in offered
    /\ Operation[i] \in Urgent
    /\ ControlOf[i] = ControlOf[Primary(r)]
    /\ offered' = offered \ {i}
    /\ journal' = [journal EXCEPT ![r].outcome = "canceled"]
    /\ routed' = IF Operation[i] = "interrupt"
                 THEN [routed EXCEPT ![i] = [action |-> "interrupt", run |-> r,
                                             turn |-> journal[r].turn]]
                 ELSE routed
    /\ UNCHANGED server

\* The outcome is durable before the first attempt to report it.
Conclude(r, outcome) ==
    /\ Local(r)
    /\ outcome = "completed" => journal[r].turn # None
    /\ journal' = [journal EXCEPT ![r].outcome = outcome]
    /\ UNCHANGED <<server, routed, offered>>

-----------------------------------------------------------------------------
(* Control executes the Worker's reports. *)

StartableAfterStop(i) == intents[i].status \in {"queued", "canceled"}

\* A stop that committed first leaves nothing to start.
Startable(i) == intents[i].status = "queued"

DisplacedNever(c) == {}

\* The runs whose slot a new run of the control takes over.
Displaced(c) == RunsOf(c) \cap Occupied

\* A replay finds the run and changes nothing.
StartWorkerInput(r) ==
    LET i == Primary(r)
        c == ControlOf[i]
    IN
    /\ Accepted(r) /\ ~Exists(r)
    /\ Startable(i)
    /\ runs' = [s \in Runs |->
          CASE s = r -> [status |-> "starting", primary |-> i,
                         slot |-> 1, appends |-> 0]
            [] s \in Displaced(c) /\ s # r ->
                 [runs[s] EXCEPT !.slot = 0,
                     !.status = IF @ \in Executing THEN "reconciling" ELSE @]
            [] OTHER -> runs[s]]
    /\ intents' = [intents EXCEPT ![i].status = "dispatching", ![i].resolved = "start"]
    /\ controls' = [controls EXCEPT ![c].status = "dispatching", ![c].activeIntent = i]
    /\ UNCHANGED <<requests, handlers, worker>>

SetThread(r) ==
    /\ Accepted(r) /\ Exists(r)
    /\ controls' = [controls EXCEPT ![ControlOf[runs[r].primary]].status = "active"]
    /\ UNCHANGED <<intents, runs, requests, handlers, worker>>

ReopenableWhenEnded(r, stored, t) == stored \in {None, t}

\* lockSubmissionState: a stored id that differs is a conflict, and nothing is
\* written once the intent or the run is terminal.
Reopenable(r, stored, t) ==
    /\ stored \in {None, t}
    /\ intents[runs[r].primary].status \notin Terminal
    /\ runs[r].status \notin Terminal

RecordSubmission(r, t) ==
    LET i == runs[r].primary IN
    /\ Exists(r) /\ t \in journal[r].started
    /\ Reopenable(r, intents[i].submission, t)
    /\ ~(intents[i].confirmed # None /\ intents[i].submission # None)
    /\ intents' = [intents EXCEPT ![i].status = "awaiting_confirmation",
                                  ![i].submission = t]
    /\ runs' = [runs EXCEPT ![r].status = "running"]
    /\ UNCHANGED <<controls, requests, handlers, worker>>

ConfirmTurn(r) ==
    LET i == runs[r].primary
        t == journal[r].confirmed
    IN
    /\ Exists(r) /\ t # None
    /\ Reopenable(r, intents[i].confirmed, t)
    /\ intents' = [intents EXCEPT ![i].status = "running", ![i].confirmed = t]
    /\ runs' = [runs EXCEPT ![r].status = "running"]
    /\ controls' = [controls EXCEPT ![ControlOf[i]].status = "active",
                                    ![ControlOf[i]].activeTurn = t]
    /\ UNCHANGED <<requests, handlers, worker>>

SteerSettledByRunOnly(i) == intents[i].status = "running"

\* An acknowledgement that arrives again.
SteerSettled(i) == intents[i].status \in {"completed", "running"}

CanAppendAlways(r) == TRUE

CanAppend(r) == runs[r].appends < MaxAppend

AckSteer(i) ==
    LET r == routed[i].run IN
    /\ routed[i].action = "steer" /\ Exists(r)
    /\ ~SteerSettled(i)
    /\ intents' = [intents EXCEPT ![i].status = "running", ![i].resolved = "steer",
                                  ![i].confirmed = routed[i].turn]
    /\ runs' = IF CanAppend(r) THEN [runs EXCEPT ![r].appends = @ + 1] ELSE runs
    /\ UNCHANGED <<controls, requests, handlers, worker>>

AckInterrupt(i) ==
    /\ routed[i].action = "interrupt" /\ Exists(routed[i].run)
    /\ intents[i].status # "completed"
    /\ intents' = [intents EXCEPT ![i].status = "completed", ![i].resolved = "interrupt",
                                  ![i].confirmed = routed[i].turn]
    /\ UNCHANGED <<runs, controls, requests, handlers, worker>>

-----------------------------------------------------------------------------
(* Questions and approvals of the running turn. *)

CanAsk(r) == runs[r].status \in Executing

\* A waiting run gives its execution slot back.
WaitingKeepsSlot(r) == [runs EXCEPT ![r].status = "waiting_for_user"]
Waiting(r) == [runs EXCEPT ![r].status = "waiting_for_user", ![r].slot = 0]

\* Only the first registration writes; a replay must name the same request.
RegisterInteractive(r, q) ==
    /\ Exists(r) /\ journal[r].turn # None
    /\ CanAsk(r)
    /\ requests[q].status = "absent"
    /\ \A p \in Requests : p < q => requests[p].status # "absent"
    /\ \A p \in Requests : requests[p].run = r => GenerationOf[p] = GenerationOf[q]
    /\ requests' = [requests EXCEPT ![q] = [status |-> "pending", run |-> r]]
    /\ runs' = Waiting(r)
    /\ intents' = [intents EXCEPT ![runs[r].primary].status = "waiting_for_user"]
    /\ UNCHANGED <<controls, handlers, worker>>

OpenUntilResolved(q) == requests[q].status \in {"pending", "expired"}

\* Only a pending question takes an answer.
Open(q) == requests[q].status = "pending"

AnswerInteractive(q, surface) ==
    /\ Open(q)
    /\ runs[requests[q].run].status \notin Terminal
    /\ requests' = [requests EXCEPT ![q].status =
                       IF surface = "auto" THEN "expired" ELSE "resolved"]
    /\ UNCHANGED <<intents, runs, controls, handlers, worker>>

\* The deadline of the request passed; the run is not looked at.
ExpireInteractive(q) ==
    /\ Open(q)
    /\ requests' = [requests EXCEPT ![q].status = "expired"]
    /\ UNCHANGED <<intents, runs, controls, handlers, worker>>

\* The Worker polls until the answered request is ready.
Ready(q) == requests[q].status \in Answered /\ requests[q].run \in Occupied

SlotFreeAlways(c) == TRUE

\* The update is refused while another run of the control holds the slot
\* (UNIQUE(control_id, active_slot)).
SlotFree(c) == RunsOf(c) \cap Occupied = {}

TryResumeInteractive(q) ==
    LET r == requests[q].run
        i == runs[r].primary
    IN
    /\ requests[q].status \in Answered
    /\ runs[r].status = "waiting_for_user" /\ r \notin Occupied
    /\ Cardinality(Occupied) < MaxJobs
    /\ SlotFree(ControlOf[i])
    /\ runs' = [runs EXCEPT ![r].status = "running", ![r].slot = 1]
    /\ controls' = [controls EXCEPT ![ControlOf[i]].status = "active"]
    /\ intents' = [intents EXCEPT ![i].status = "running"]
    /\ UNCHANGED <<requests, handlers, worker>>

-----------------------------------------------------------------------------
(* Runs end.  The terminal request is checked in one transaction and written
   in another, so a repeated request can pass the check with the first. *)

Idle(h) == handlers[h].run = None

\* remoteRunAlreadyFinished and claimedRemoteRun.  A completed run names its
\* turn in the result; any other outcome uses the id Control has stored.
BeginFinish(h, r) ==
    /\ Idle(h)
    /\ journal[r].outcome # None /\ Unfinished(r)
    /\ handlers' = [handlers EXCEPT ![h] = [run |-> r, turn |->
           IF journal[r].outcome = "completed" THEN journal[r].turn
           ELSE intents[runs[r].primary].confirmed]]
    /\ UNCHANGED <<intents, runs, controls, requests, worker>>

ClosedByAnyTurn(i, t) == {j \in Intents : /\ j # i /\ ControlOf[j] = ControlOf[i]
                                          /\ intents[j].status = "running"
                                          /\ intents[j].resolved = "steer"}

\* The steered inputs that end with the turn.
ClosedBy(i, t) == {j \in Intents : /\ j # i /\ ControlOf[j] = ControlOf[i]
                                   /\ intents[j].status = "running"
                                   /\ intents[j].resolved = "steer"
                                   /\ t # None /\ intents[j].confirmed = t}

EndedKeepingSlot(r, outcome) == [runs EXCEPT ![r].status = outcome]
Ended(r, outcome) == [runs EXCEPT ![r].status = outcome, ![r].slot = 0]

ReleasedKeepingTurn(c) ==
    [controls EXCEPT ![c].status = "idle", ![c].activeIntent = None]
Released(c) ==
    [controls EXCEPT ![c] = [status |-> "idle", activeIntent |-> None, activeTurn |-> None]]

WithdrawnWhileWaiting(r) ==
    {q \in Requests : /\ requests[q].run = r /\ Open(q)
                      /\ runs[r].status = "waiting_for_user"}

\* What is still asked when the run ends is interrupted.
Withdrawn(r) == {q \in Requests : requests[q].run = r /\ Open(q)}

CommitFinish(h) ==
    LET r == handlers[h].run
        i == runs[r].primary
        outcome == journal[r].outcome
    IN
    /\ ~Idle(h)
    /\ intents' = [j \in Intents |->
          IF j = i \/ j \in ClosedBy(i, handlers[h].turn)
          THEN [intents[j] EXCEPT !.status = outcome] ELSE intents[j]]
    /\ runs' = Ended(r, outcome)
    /\ requests' = [q \in Requests |->
          IF q \in Withdrawn(r) THEN [requests[q] EXCEPT !.status = "interrupted"]
          ELSE requests[q]]
    /\ controls' = Released(ControlOf[i])
    /\ handlers' = [handlers EXCEPT ![h] = [run |-> None, turn |-> None]]
    /\ UNCHANGED worker

\* A second completion inserts its answer under the same local id: the unique
\* key rolls the transaction back.  The request also fails by itself.
AbortFinish(h) ==
    /\ ~Idle(h)
    /\ handlers' = [handlers EXCEPT ![h] = [run |-> None, turn |-> None]]
    /\ UNCHANGED <<intents, runs, controls, requests, worker>>

-----------------------------------------------------------------------------
InputStep ==
    \E i \in Intents : Enqueue(i) \/ ClientMessage(i) \/ Stop(i)

WorkerStep ==
    \/ \E i \in Intents, active \in SUBSET Controls, onlyActive \in BOOLEAN :
          Fetch(i, active, onlyActive)
    \/ \E i \in Intents : Discard(i)
    \/ \E r \in Runs, i \in Intents : Accept(r, i) \/ Steer(r, i) \/ Interrupt(r, i)
    \/ \E r \in Runs, t \in Turns : StartTurn(r, t)
    \/ \E r \in Runs : TurnStarted(r)
    \/ \E r \in Runs, outcome \in {"completed", "failed"} : Conclude(r, outcome)

ReportStep ==
    \/ \E r \in Runs : StartWorkerInput(r) \/ SetThread(r) \/ ConfirmTurn(r)
    \/ \E r \in Runs, t \in Turns : RecordSubmission(r, t)
    \/ \E i \in Intents : AckSteer(i) \/ AckInterrupt(i)

InteractiveStep ==
    \/ \E r \in Runs, q \in Requests : RegisterInteractive(r, q)
    \/ \E q \in Requests, surface \in {"desktop", "auto"} : AnswerInteractive(q, surface)
    \/ \E q \in Requests : ExpireInteractive(q) \/ TryResumeInteractive(q)

FinishStep ==
    \/ \E h \in Handlers, r \in Runs : BeginFinish(h, r)
    \/ \E h \in Handlers : CommitFinish(h) \/ AbortFinish(h)

Next == InputStep \/ WorkerStep \/ ReportStep \/ InteractiveStep \/ FinishStep

Spec == Init /\ [][Next]_vars

-----------------------------------------------------------------------------
(* Properties. *)

IntentRow  == [status : IntentStatuses, resolved : {None, "start", "steer", "interrupt"},
               submission : Turns \cup {None}, confirmed : Turns \cup {None}]
RunRow     == [status : RunStatuses, primary : Intents \cup {None},
               slot : {0, 1}, appends : 0..MaxAppend]
ControlRow == [status : {"idle", "dispatching", "active", "stopping"},
               activeIntent : Intents \cup {None}, activeTurn : Turns \cup {None}]
RequestRow == [status : {"absent", "pending", "interrupted"} \cup Answered,
               run : Runs \cup {None}]
Handling   == [run : Runs \cup {None}, turn : Turns \cup {None}]
Journal    == [input : Intents \cup {None}, turn : Turns \cup {None},
               started : SUBSET Turns, confirmed : Turns \cup {None}, outcome : Terminal \cup {None}]
Decision   == [action : {None, "start", "steer", "interrupt"},
               run : Runs \cup {None}, turn : Turns \cup {None}]

\* Every column holds a value of its type.
TypeOK ==
    /\ intents  \in [Intents -> IntentRow]
    /\ runs     \in [Runs -> RunRow]
    /\ controls \in [Controls -> ControlRow]
    /\ requests \in [Requests -> RequestRow]
    /\ handlers \in [Handlers -> Handling]
    /\ journal  \in [Runs -> Journal]
    /\ routed   \in [Intents -> Decision]
    /\ offered  \subseteq Intents

\* A run and the input that started it end together and with the outcome the
\* Worker recorded, however reports, stops and terminal requests interleave.
LedgerFollowsWorker ==
    \A r \in Runs : Exists(r) =>
        LET i == runs[r].primary IN
        /\ i = Primary(r)
        /\ runs[r].status \in Terminal <=> intents[i].status \in Terminal
        /\ runs[r].status \in Terminal =>
              runs[r].status = journal[r].outcome /\ intents[i].status = runs[r].status

\* At most one run of a control occupies its execution slot, through displaced
\* runs, waiting questions and resumptions.
OneSlotPerControl ==
    \A r, s \in Occupied :
        ControlOf[runs[r].primary] = ControlOf[runs[s].primary] => r = s

\* A slot is held by a run that executes: never by one that waits for its user,
\* was displaced, or has ended.
SlotMeansExecuting == \A r \in Occupied : runs[r].status \in {"starting", "running"}

\* What a control calls active has not ended: its active input belongs to an
\* unfinished run, its active turn to an unfinished run that confirmed it.
ActiveMeansUnfinished ==
    \A c \in Controls :
        /\ controls[c].activeIntent # None =>
              \E r \in RunsOf(c) : Unfinished(r) /\ runs[r].primary = controls[c].activeIntent
        /\ controls[c].activeTurn # None =>
              \E r \in RunsOf(c) :
                  Unfinished(r) /\ intents[runs[r].primary].confirmed = controls[c].activeTurn

\* No question outlives its run unanswered: the terminal transaction interrupts
\* what is pending, and nothing registers or reopens a question afterwards.
PendingMeansUnfinished ==
    \A q \in Requests : requests[q].status = "pending" => Unfinished(requests[q].run)

\* A steered input that has ended shares the outcome of the run it was steered
\* into, whichever of acknowledgement, stop and terminal request came first.
SteerEndsWithRun ==
    \A i \in Intents :
        intents[i].resolved = "steer" /\ intents[i].status \in Terminal =>
            /\ routed[i].action = "steer"
            /\ runs[routed[i].run].status = intents[i].status

\* The first answer wins: no later answer, timeout, skip or end of the run
\* changes a request that is no longer pending.
AnswerIsFinal ==
    [][\A q \in Requests :
          requests[q].status \notin {"absent", "pending"} => requests'[q] = requests[q]]_vars

\* A run that has ended stays as it ended, against late and repeated reports.
EndedRunIsFinal ==
    [][\A r \in Runs : runs[r].status \in Terminal =>
          /\ runs'[r].status = runs[r].status
          /\ r \notin Occupied']_vars

\* A completed input stays completed.
CompletedInputIsFinal ==
    [][\A i \in Intents : intents[i].status = "completed" =>
          intents'[i].status = "completed"]_vars

\* An input that a stop canceled before Control heard of its start never
\* becomes the input of a run, although the Worker may have accepted it.
StopBeatsLateStart ==
    [][\A i \in Intents : intents[i].status = "canceled" /\ intents[i].resolved = None =>
          \A r \in Runs : runs'[r].primary = i => runs[r].primary = i]_vars

-----------------------------------------------------------------------------
(* What comments and tests of the repository say, and the code does not do. *)

\* "An answer must resume the run once a slot is free": the run of an answered
\* request either holds the slot or is still in the state resumption expects.
AnsweredRunCanResume ==
    \A q \in Requests :
        /\ requests[q].status \in Answered
        /\ Unfinished(requests[q].run)
        /\ runs[requests[q].run].status # "reconciling"
        => Ready(q) \/ runs[requests[q].run].status = "waiting_for_user"

\* Late reports leave the control of a finished run idle.
IdleWithoutRuns ==
    \A c \in Controls :
        (\A r \in RunsOf(c) : ~Unfinished(r)) => controls[c].status = "idle"

\* A late confirmation does not reopen an input that ended with its turn.
EndedSteerIsFinal ==
    [][\A i \in Intents :
          intents[i].resolved = "steer" /\ intents[i].status \in Terminal =>
              intents'[i].status = intents[i].status]_vars
=============================================================================
