--------------------------- MODULE TurnDispatchOnce ---------------------------
(***************************************************************************)
(* Proof that an input reaches the native runtime once, for every set of   *)
(* inputs and every scenario, unless it is exposed or beside another run.  *)
(* OrderInv says where an executed input is known and that Control keeps   *)
(* the order of turns; IInv is that of TurnDispatchProofs.                 *)
(***************************************************************************)
EXTENDS TurnDispatchProofs

-----------------------------------------------------------------------------
(* Executed once: the invariant *)

\* Everything of the control of an input stands beside a recovered run.
AllBeside(i) == \A j \in Inputs : ControlOf(j) = ControlOf(i) => j \in beside

\* The exceptions of ExecutedOnce.
Excused(i) == i \in exposed \cup beside

\* Control may offer the input, or has just done so.
Pending(i) == status[i] = "queued" \/ task = i

CommandsOf(p) == {run[p].commands[n] : n \in 1 .. Len(run[p].commands)}

\* The loop has passed the input on, to a run or to one of its own.
Touched(i) == executed[i] > 0 \/ file[i].kept \/ \E p \in Inputs : i \in Held(p)

\* The run is that of the input, or has taken it and shows it; one that waits for
\* its slot will show what its Journal does.
Has(p, i) ==
    \/ i = p \/ i \in run[p].applied
    \/ run[p].stage = "waiting" /\ i \in file[p].applied
    \/ run[p].stage = "steer" /\ run[p].doing = i

\* What has been executed exists, and so do older inputs than one that exists.
Known ==
    /\ \A i \in Inputs : executed[i] > 0 => status[i] # "absent"
    /\ task \in Inputs => loop \in {"decide", "accept"}
    /\ \A i \in Inputs, j \in scenario.arriving :
          j < i /\ status[i] # "absent" => status[j] # "absent"

\* A Journal is that of a run, and a run that is about to leave is remembered with
\* all it has done.
Marked ==
    \A p \in Inputs :
        /\ file[p].kept => run[p].stage # "none"
        /\ ~file[p].kept => file[p].applied = {}
        /\ run[p].stage = "remembered" => run[p].applied \subseteq remembered

\* A command is in one place, and for the control of its run.
Channels ==
    \A p \in Inputs :
        /\ CommandsOf(p) \subseteq run[p].reserved
        /\ \A m, n \in 1 .. Len(run[p].commands) :
              m # n => run[p].commands[m] # run[p].commands[n]
        /\ run[p].stage \in {"steer", "stop"} => run[p].doing \in run[p].reserved \ CommandsOf(p)
        /\ p \notin run[p].reserved
        /\ run[p].commands # <<>> => p \in active
        /\ \A j \in Held(p) : ControlOf(j) = ControlOf(p)

\* Where two runs of a control may meet, or one with a run that still waits for
\* its slot, the whole control is beside.
Apart ==
    /\ \A p \in active : run[p].stage \notin {"none", "waiting"}
    /\ \A p, q \in Inputs :
          /\ p # q /\ ControlOf(p) = ControlOf(q)
          /\ \/ p \in active /\ q \in active
             \/ run[q].stage = "waiting" /\ run[p].stage \notin {"none", "waiting"}
          => AllBeside(p)
    /\ loop = "accept" =>
          \A q \in active : q # task /\ ControlOf(q) = ControlOf(task) => AllBeside(q)

\* Control offers a turn when the older turns of its control are taken.
InOrder ==
    \A i, j \in Inputs :
        /\ ControlOf(i) = ControlOf(j) /\ OpOf(i) = "turn" /\ OpOf(j) = "turn"
        /\ j < i /\ (task = i \/ Touched(i))
        => status[j] # "queued"

\* While one that was passed on is queued, no other one of its control is offered.
OneAtATime ==
    \A i \in Inputs :
        /\ task \in Inputs /\ task # i /\ ControlOf(i) = ControlOf(task)
        /\ status[i] = "queued" /\ OpOf(i) = "turn" /\ OpOf(task) = "turn"
        => ~Touched(i)

\* There is a run of the control that has it, with a Journal if it is its own.
Worked(i) ==
    \E p \in Inputs : /\ ControlOf(p) = ControlOf(i) /\ run[p].stage # "none" /\ Has(p, i)
                      /\ p = i /\ status[i] = "queued" => file[i].kept

\* The remembered inputs or the coordinator show it.
Noticed(i) ==
    i \in remembered \/ \E p \in active : ControlOf(p) = ControlOf(i) /\ Has(p, i)

\* So does every run a turn could be sent to.
InAll(i) ==
    OpOf(i) = "turn" => \A p \in active : ControlOf(p) = ControlOf(i) => Has(p, i)

\* An executed input that Control may offer is known wherever the Worker looks for it.
HandledAs(i) ==
    /\ Worked(i) /\ Noticed(i) /\ InAll(i)
    /\ loop = "accept" /\ task = i => i \in remembered

Handled ==
    \A i \in Inputs : executed[i] > 0 /\ Pending(i) /\ ~Excused(i) => HandledAs(i)

\* What is about to be executed has not been.
Fresh ==
    \A i \in Inputs : executed[i] > 0 /\ ~Excused(i) =>
        /\ file[i].kept /\ ~file[i].submitted => run[i].stage \notin {"waiting", "begin"}
        /\ OpOf(i) = "turn" => \A p \in Inputs : i \notin CommandsOf(p)

OrderInv ==
    /\ Known /\ Marked /\ Channels /\ Apart /\ InOrder /\ OneAtATime /\ Handled /\ Fresh
    /\ ExecutedOnce

-----------------------------------------------------------------------------
(* What the steps of a run do to what the invariant is about *)

\* The run goes on.
Goes(p) ==
    /\ active' = active /\ remembered \subseteq remembered'
    /\ exposed \subseteq exposed' /\ beside' = beside
    /\ run'[p].commands = run[p].commands /\ run'[p].reserved = run[p].reserved
    /\ run'[p].applied = run[p].applied
    /\ file'[p].kept = file[p].kept
    /\ file'[p].applied \subseteq file[p].applied \cup run[p].applied
    /\ file[p].submitted => file'[p].submitted
    /\ run[p].stage \notin {"none", "waiting", "steer", "stop", "clean", "done"}
    /\ run'[p].stage \notin {"none", "waiting", "steer", "stop", "clean", "done"}
    /\ run'[p].stage = "begin" => run[p].stage = "begin"
    /\ run'[p].stage = "remembered" => run[p].applied \subseteq remembered'

\* It leaves, and what it has done is remembered.
Leaves(p) ==
    /\ active' = active \ {p} /\ exposed' = exposed /\ beside' = beside
    /\ remembered \cup {p} \cup run[p].applied \subseteq remembered'
    /\ run'[p].commands = <<>> /\ run'[p].reserved = {} /\ run'[p].applied = run[p].applied
    /\ run[p].stage \notin {"none", "waiting", "steer", "stop", "clean", "done"}
    /\ run'[p].stage \in {"report", "done"}
    /\ \/ file'[p] = file[p]
       \/ file'[p] = NoFile /\ file[p].delivered /\ run'[p].stage = "done"

\* It takes a command, or refuses it.
Takes(p) ==
    /\ active' = active /\ remembered' = remembered
    /\ exposed \subseteq exposed' /\ beside' = beside
    /\ file'[p] = file[p] /\ run[p].stage = "turn" /\ run[p].commands # <<>>
    /\ run'[p].commands = Tail(run[p].commands) /\ run'[p].applied = run[p].applied
    /\ \/ /\ run'[p].reserved = run[p].reserved
          /\ run'[p].stage \in {"steer", "stop"} /\ run'[p].doing = Head(run[p].commands)
       \/ /\ run'[p].reserved = run[p].reserved \ {Head(run[p].commands)}
          /\ run'[p].stage = "turn"

\* It marks the command as applied, in memory and perhaps in its Journal.
Applies(p) ==
    /\ active' = active /\ remembered' = remembered /\ exposed' = exposed /\ beside' = beside
    /\ run[p].stage \in {"steer", "stop"} /\ run'[p].stage \in {"turn", "ended"}
    /\ run'[p].commands = run[p].commands
    /\ run'[p].reserved = run[p].reserved \ {run[p].doing}
    /\ run'[p].applied = run[p].applied \cup {run[p].doing}
    /\ file'[p].kept = file[p].kept
    /\ file'[p].applied \subseteq file[p].applied \cup run'[p].applied

\* It was delivered before the restart, and ends.
Cleans(p) ==
    /\ active' = active /\ remembered' = remembered /\ exposed' = exposed /\ beside' = beside
    /\ run[p].stage = "clean" /\ run'[p].stage = "done"
    /\ run'[p].commands = run[p].commands /\ run'[p].reserved = run[p].reserved
    /\ run'[p].applied = run[p].applied
    /\ file'[p] = NoFile

\* It gets a slot after a restart.
Recovers(p) ==
    /\ active' = active \cup {p} /\ remembered' = remembered
    /\ exposed' = exposed /\ beside' = beside \cup Beside(p)
    /\ run[p].stage = "waiting" /\ run'[p].stage \in {"clean", "saved", "begin"}
    /\ run'[p].commands = <<>> /\ run'[p].reserved = {}
    /\ run'[p].applied = file[p].applied
    /\ file'[p] = file[p]

\* Each step of a run is one of these.
LEMMA RunEffects ==
    ASSUME IInv, Marked, NEW p \in Inputs, RunStep(p)
    PROVE  Goes(p) \/ Leaves(p) \/ Takes(p) \/ Applies(p) \/ Cleans(p) \/ Recovers(p)
<1>r. /\ run \in [Inputs -> Run] /\ run[p] \in Run /\ DOMAIN run[p] = DOMAIN NoRun
      /\ file \in [Inputs -> Journal] /\ file[p] \in Journal /\ DOMAIN file[p] = DOMAIN NoFile
  BY DEF IInv, TypeOK, Run, NoRun, Journal, NoFile
<1>f. run[p].stage # "none" => p \in remembered
  BY DEF IInv, Filed
<1>o. \A s \in {"report", "done"} :
          /\ Over(s, run[p]).stage = s /\ Over(s, run[p]).applied = run[p].applied
          /\ Over(s, run[p]).commands = <<>> /\ Over(s, run[p]).reserved = {}
  BY <1>r, Ended DEF Stages
<1>1. CASE Begin(p)
  <2>1. exposed \subseteq exposed' /\ file' = file
    BY <1>1 DEF Begin
  <2> QED BY <1>r, <1>1, <2>1 DEF Begin, StartTurn, GoTo, RunOnly, NoRun, Goes
<1>2. CASE SaveEvent(p)
  BY <1>r, <1>2 DEF SaveEvent, Save, RunOnly, NoFile, Goes
<1>3. CASE TakeCommand(p)
  <2> DEFINE j    == Head(run[p].commands)
             rest == [run EXCEPT ![p].commands = Tail(@)]
  <2>1. /\ rest[p].commands = Tail(run[p].commands) /\ rest[p].reserved = run[p].reserved
        /\ rest[p].stage = run[p].stage /\ rest[p].applied = run[p].applied
        /\ rest[p] = [run[p] EXCEPT !.commands = Tail(@)] /\ DOMAIN rest = Inputs
    BY <1>r DEF NoRun
  <2>2. /\ run[p].stage = "turn" /\ run[p].commands # <<>> /\ file' = file
        /\ active' = active /\ remembered' = remembered
        /\ exposed \subseteq exposed' /\ beside' = beside
        /\ \/ run' = Rejected(rest, p, j)
           \/ run' = [rest EXCEPT ![p].doing = j,
                           ![p].stage = IF Stops(j) THEN "stop" ELSE "steer"]
    BY <1>3 DEF TakeCommand, RunOnly
  <2> HIDE DEF rest
  <2>3. CASE run' = Rejected(rest, p, j)
    <3>1. /\ run'[p].commands = Tail(run[p].commands) /\ run'[p].applied = run[p].applied
          /\ run'[p].reserved = run[p].reserved \ {Head(run[p].commands)}
          /\ run'[p].stage = "turn"
      BY <1>r, <2>1, <2>2, <2>3 DEF Rejected, NoRun
    <3> QED BY <2>2, <3>1 DEF Takes
  <2>4. CASE run' = [rest EXCEPT ![p].doing = j,
                         ![p].stage = IF Stops(j) THEN "stop" ELSE "steer"]
    <3>1. /\ run'[p].commands = Tail(run[p].commands) /\ run'[p].applied = run[p].applied
          /\ run'[p].reserved = run[p].reserved /\ run'[p].doing = Head(run[p].commands)
          /\ run'[p].stage \in {"steer", "stop"}
      BY <1>r, <2>1, <2>2, <2>4 DEF NoRun
    <3> QED BY <2>2, <3>1 DEF Takes
  <2> QED BY <2>2, <2>3, <2>4
<1>4. CASE MarkApplied(p)
  <2>1. /\ run'[p].commands = run[p].commands
        /\ run'[p].reserved = run[p].reserved \ {run[p].doing}
        /\ run'[p].applied = run[p].applied \cup {run[p].doing}
        /\ run'[p].stage \in {"turn", "ended"}
    BY <1>r, <1>4 DEF MarkApplied, NoRun
  <2>2. /\ file'[p].applied \subseteq file[p].applied \cup run[p].applied \cup {run[p].doing}
        /\ file'[p].kept = file[p].kept
    BY <1>r, <1>4 DEF MarkApplied, Save, NoFile
  <2> QED BY <1>4, <2>1, <2>2 DEF MarkApplied, RunOnly, Applies
<1>5. CASE EndTurn(p)
  BY <1>r, <1>5 DEF EndTurn, GoTo, RunOnly, NoRun, Goes
<1>6. CASE SaveResult(p)
  <2>1. CASE Return(p) /\ UNCHANGED file
    <3>1. run'[p] = Over("done", run[p])
      BY <1>r, <2>1 DEF Return
    <3> QED BY <1>r, <1>o, <1>6, <2>1, <3>1 DEF SaveResult, Return, history, Leaves
  <2>2. CASE /\ file' = [file EXCEPT ![p].ended = TRUE, ![p].submitted = TRUE,
                                     ![p].applied = run[p].applied]
             /\ GoTo(p, "saved") /\ UNCHANGED <<remembered, active, used, waking>>
    <3>1. /\ run'[p].commands = run[p].commands /\ run'[p].reserved = run[p].reserved
          /\ run'[p].applied = run[p].applied
          /\ run[p].stage = "ended" /\ run'[p].stage = "saved"
      BY <1>r, <1>6, <2>2 DEF SaveResult, GoTo, NoRun
    <3>2. /\ file'[p].kept = file[p].kept /\ file'[p].applied = run[p].applied
          /\ file'[p].submitted
      BY <1>r, <2>2 DEF NoFile
    <3> QED BY <1>6, <2>2, <3>1, <3>2 DEF SaveResult, history, Goes
  <2> QED BY <1>6, <2>1, <2>2 DEF SaveResult
<1>7. CASE Remember(p)
  BY <1>r, <1>7 DEF Remember, GoTo, history, NoRun, Goes
<1>8. CASE Unregister(p)
  <2>1. {p} \cup run[p].applied \subseteq remembered
    BY <1>f, <1>8 DEF Unregister, Marked
  <2>2. run'[p] = Over("report", run[p])
    BY <1>r, <1>8 DEF Unregister
  <2> QED BY <1>r, <1>o, <1>8, <2>1, <2>2 DEF Unregister, history, Leaves
<1>9. CASE Deliver(p)
  <2>1. /\ run'[p].commands = run[p].commands /\ run'[p].reserved = run[p].reserved
        /\ run'[p].applied = run[p].applied
        /\ run[p].stage = "report" /\ run'[p].stage = "remove"
    BY <1>r, <1>9 DEF Deliver, GoTo, NoRun
  <2>2. /\ file'[p].kept = file[p].kept /\ file'[p].applied = file[p].applied
        /\ file'[p].submitted = file[p].submitted
    BY <1>r, <1>9 DEF Deliver, NoFile
  <2> QED BY <1>9, <2>1, <2>2 DEF Deliver, history, Goes
<1>10. CASE Remove(p)
  <2>1. file[p].delivered
    BY <1>10 DEF Remove, IInv, Filed
  <2>2. run'[p] = Over("done", run[p]) /\ file'[p] = NoFile
    BY <1>r, <1>10 DEF Remove, Return
  <2> QED BY <1>r, <1>o, <1>10, <2>1, <2>2 DEF Remove, Return, history, Leaves
<1>11. CASE Clean(p)
  BY <1>r, <1>11 DEF Clean, NoRun, history, Cleans
<1>12. CASE Recover(p)
  <2>1. run'[p].commands = <<>> /\ run'[p].reserved = {} /\ run'[p].applied = file[p].applied
    BY <1>r, <1>12 DEF Recover, NoRun
  <2>2. run'[p].stage \in {"clean", "saved", "begin"}
    BY <1>r, <1>12 DEF Recover, NoRun
  <2> QED BY <1>12, <2>1, <2>2 DEF Recover, Recovers
<1> QED BY <1>1, <1>2, <1>3, <1>4, <1>5, <1>6, <1>7, <1>8, <1>9, <1>10, <1>11, <1>12 DEF RunStep

-----------------------------------------------------------------------------
(* What every step leaves, and what executes an input *)

\* The scenario, as the definitions read it.
LEMMA SceneStays ==
    ASSUME [Next]_vars
    PROVE  \A i : /\ ControlOf(i)' = ControlOf(i) /\ OpOf(i)' = OpOf(i)
                  /\ Stops(i)' = Stops(i)
BY Scene DEF ControlOf, OpOf, Stops

\* Exposed inputs stay exposed, and those beside a recovered run stay so.
LEMMA ExposedStays ==
    ASSUME IInv, Marked, [Next]_vars
    PROVE  exposed \subseteq exposed' /\ beside \subseteq beside'
<1>1. ASSUME NEW p \in Inputs, RunStep(p)
      PROVE  exposed \subseteq exposed' /\ beside \subseteq beside'
  BY <1>1, RunEffects DEF Goes, Leaves, Takes, Applies, Cleans, Recovers
<1>2. CASE Decide \/ Accept \/ Crash
  BY <1>2 DEF Decide, Accept, Crash, history
<1> QED BY <1>1, <1>2, RunsStay

\* Once excepted, an input stays so.
LEMMA ExcusedStays ==
    ASSUME IInv, Marked, [Next]_vars, NEW i \in Inputs
    PROVE  Excused(i) => Excused(i)'
BY ExposedStays DEF Excused

\* The turn of the input begins.
Starts(i) ==
    /\ Begin(i) /\ run[i].stage = "begin" /\ ~file[i].submitted /\ run'[i].stage = "turn"

\* The input is steered into the turn of p.
Steers(p, i) ==
    /\ TakeCommand(p) /\ Takes(p) /\ i = Head(run[p].commands) /\ ~Stops(i)
    /\ run'[p].stage = "steer" /\ run'[p].doing = i

\* The inputs in the channel of a run are inputs, and its first one is one of them.
LEMMA FirstCommand ==
    ASSUME IInv, NEW p \in Inputs, run[p].commands # <<>>
    PROVE  /\ Head(run[p].commands) \in CommandsOf(p) /\ CommandsOf(p) \subseteq Inputs
           /\ Len(run[p].commands) \in Nat \ {0}
           /\ Head(run[p].commands) = run[p].commands[1]
           /\ Len(Tail(run[p].commands)) = Len(run[p].commands) - 1
           /\ \A n \in 1 .. Len(Tail(run[p].commands)) :
                 n + 1 \in 1 .. Len(run[p].commands)
                 /\ Tail(run[p].commands)[n] = run[p].commands[n + 1]
<1>1. run[p].commands \in Seq(Inputs)
  BY DEF IInv, TypeOK, Run
<1>2. /\ Len(run[p].commands) \in Nat \ {0} /\ Head(run[p].commands) = run[p].commands[1]
      /\ Len(Tail(run[p].commands)) = Len(run[p].commands) - 1
      /\ \A n \in 1 .. Len(Tail(run[p].commands)) : n + 1 \in 1 .. Len(run[p].commands)
                 /\ Tail(run[p].commands)[n] = run[p].commands[n + 1]
  BY <1>1
<1>3. 1 \in 1 .. Len(run[p].commands)
  BY <1>2
<1>4. CommandsOf(p) \subseteq Inputs
  BY <1>1 DEF CommandsOf
<1> QED BY <1>2, <1>3, <1>4 DEF CommandsOf

\* An input that is executed was passed on; it is executed by one of these two steps,
\* or exposed.
LEMMA ExecutedBy ==
    ASSUME IInv, Marked, [Next]_vars, NEW i \in Inputs, executed'[i] # executed[i]
    PROVE  /\ Touched(i) /\ Executes(i)
           /\ i \in exposed' \/ Starts(i) \/ \E p \in Inputs : Steers(p, i)
<1>r. /\ run \in [Inputs -> Run] /\ \A p \in Inputs : DOMAIN run[p] = DOMAIN NoRun
      /\ executed \in [Inputs -> 0 .. 2]
  BY DEF IInv, TypeOK, Run, NoRun
<1>e. \A j : Executes(j) => j = i
  BY <1>r DEF Executes
<1>1. ASSUME NEW p \in Inputs, Begin(p)
      PROVE  /\ Touched(i) /\ Executes(i)
             /\ i \in exposed' \/ Starts(i)
  <2>1. StartTurn(p) /\ p = i
    BY <1>1, <1>e DEF Begin, StartTurn
  <2>2. run[i].stage = "begin" /\ run'[i].stage = "turn"
    BY <1>r, <1>1, <2>1 DEF Begin, StartTurn, GoTo, NoRun
  <2>3. Touched(i)
    BY <2>2 DEF IInv, Filed, Touched
  <2>4. ~file[i].submitted \/ i \in exposed'
    BY <1>1, <2>1, <2>2, <1>r DEF Begin
  <2> QED BY <1>1, <2>1, <2>2, <2>3, <2>4 DEF Starts, StartTurn
<1>2. ASSUME NEW p \in Inputs, TakeCommand(p)
      PROVE  /\ Touched(i) /\ Executes(i)
             /\ i \in exposed' \/ Steers(p, i)
  <2> DEFINE j    == Head(run[p].commands)
             rest == [run EXCEPT ![p].commands = Tail(@)]
  <2>1. /\ rest[p] = [run[p] EXCEPT !.commands = Tail(@)] /\ DOMAIN rest = Inputs
        /\ run[p].stage = "turn" /\ run[p].commands # <<>>
    BY <1>r, <1>2 DEF NoRun, TakeCommand
  <2>2. /\ Executes(j) /\ ~Stops(j)
        /\ \/ run' = [rest EXCEPT ![p].doing = j,
                           ![p].stage = IF Stops(j) THEN "stop" ELSE "steer"]
           \/ j \in exposed'
    BY <1>2 DEF TakeCommand
  <2>3. j = i
    BY <1>e, <2>2
  <2>4. Touched(i)
    BY <2>1, <2>3, FirstCommand DEF Touched, Held, CommandsOf
  <2> HIDE DEF rest
  <2>5. CASE run' = [rest EXCEPT ![p].doing = j,
                          ![p].stage = IF Stops(j) THEN "stop" ELSE "steer"]
    <3>1. run'[p].stage = "steer" /\ run'[p].doing = Head(run[p].commands)
      BY <1>r, <2>1, <2>2, <2>5 DEF NoRun
    <3>2. Takes(p)
      BY <1>2, <2>1, <3>1, RunEffects
         DEF RunStep, Goes, Leaves, Takes, Applies, Cleans, Recovers
    <3> QED BY <1>2, <2>2, <2>3, <2>4, <3>1, <3>2 DEF Steers
  <2> QED BY <2>2, <2>3, <2>4, <2>5
<1>3. ASSUME NEW p \in Inputs, RunStep(p), ~Begin(p), ~TakeCommand(p) PROVE executed' = executed
  BY <1>3 DEF RunStep, SaveEvent, MarkApplied, EndTurn, SaveResult, Remember, Unregister, Deliver,
              Remove, Clean, Recover
<1>4. ASSUME \A p \in Inputs : ~RunStep(p) PROVE executed' = executed
  BY <1>4 DEF Next, LoopStep, Check, Arm, Signal, Timer, Claim, Answer, AnswerInput,
              AnswerNothing, Answered, LoopOnly, Decide, Accept, Arrive, ReportStart,
              ReportDecision, Crash, vars
<1> QED BY <1>1, <1>2, <1>3, <1>4

-----------------------------------------------------------------------------
(* What the loop does *)

\* It sends its input to a run.
Sends(p) ==
    /\ loop = "decide" /\ loop' = "check" /\ task' = None
    /\ task \in Inputs /\ p \in active /\ ControlOf(p) = ControlOf(task)
    /\ p # task /\ task \notin run[p].applied /\ task \notin run[p].reserved
    /\ OpOf(task) # "idle"
    /\ active' = active /\ remembered' = remembered /\ exposed' = exposed /\ beside' = beside
    /\ status' = status /\ file' = file /\ executed' = executed
    /\ run'[p].commands = Append(run[p].commands, task)
    /\ run'[p].reserved = run[p].reserved \cup {task}
    /\ run'[p].stage = run[p].stage /\ run'[p].doing = run[p].doing
    /\ run'[p].applied = run[p].applied
    /\ \A q \in Inputs \ {p} : run'[q] = run[q]

\* It starts a run.
Begins ==
    /\ loop = "accept" /\ loop' = "check" /\ task' = None
    /\ task \in Inputs /\ task \notin remembered
    /\ active' = active \cup {task} /\ remembered' = remembered \cup {task}
    /\ exposed' = exposed \cup Overtaken(task) /\ beside' = beside \cup Beside(task)
    /\ status' = status /\ executed' = executed
    /\ run'[task] = [NoRun EXCEPT !.stage = "begin", !.slot = TRUE]
    /\ file'[task] = [NoFile EXCEPT !.kept = TRUE]
    /\ \A q \in Inputs \ {task} : run'[q] = run[q] /\ file'[q] = file[q]

\* It, or Control, does something else; no input is executed.
Rests ==
    /\ run' = run /\ file' = file /\ active' = active /\ remembered' = remembered
    /\ exposed' = exposed /\ beside' = beside
    /\ \/ task' = task /\ loop' = loop
       \/ task' = task /\ loop = "decide" /\ loop' = "accept" /\ status' = status
             /\ Routes(task) = {}
       \/ task' = task /\ {loop, loop'} \cap {"decide", "accept"} = {}
       \/ task' = None /\ loop' = "check"
       \/ PendingWorkerInput(task') /\ task' \in Inputs /\ loop' = "decide" /\ status' = status

\* A step of the Worker, of Control or of a user is one of these, or one of a run.
LEMMA LoopEffects ==
    ASSUME InputsAssumption, ScenariosAssumption, IInv, [Next]_vars,
           \A p \in Inputs : ~RunStep(p)
    PROVE  /\ (\E p \in Inputs : Sends(p)) \/ Begins \/ Rests \/ Crash
           /\ executed' = executed
<1>r. /\ run \in [Inputs -> Run] /\ \A p \in Inputs : DOMAIN run[p] = DOMAIN NoRun
      /\ \A p \in Inputs : run[p].commands \in Seq(Inputs)
      /\ file \in [Inputs -> Journal] /\ active \subseteq Inputs /\ task \in Inputs \cup {None}
  BY DEF IInv, TypeOK, Run, NoRun
<1>e. executed' = executed
  BY DEF Next, LoopStep, Check, Arm, Signal, Timer, Claim, Answer, AnswerInput, AnswerNothing,
         Answered, LoopOnly, Decide, Accept, Arrive, ReportStart, ReportDecision, Crash, vars
<1>1. CASE Decide
  <2>1. ASSUME NEW p \in Routes(task), Sendable(p, task), Send(p, task), UNCHANGED status,
               loop' = "check", task' = None
        PROVE  \E q \in Inputs : Sends(q)
    <3>1. task \in Inputs /\ p \in Inputs /\ p \in active /\ ControlOf(p) = ControlOf(task)
      BY <1>r, <1>1, <2>1 DEF IInv, Asked, Decide, Routes
    <3>2. /\ run'[p].commands = Append(run[p].commands, task)
          /\ run'[p].reserved = run[p].reserved \cup {task}
          /\ run'[p].stage = run[p].stage /\ run'[p].doing = run[p].doing
          /\ run'[p].applied = run[p].applied
          /\ \A q \in Inputs \ {p} : run'[q] = run[q]
      BY <1>r, <2>1, <3>1 DEF Send, NoRun
    <3> QED BY <1>1, <1>e, <2>1, <3>1, <3>2 DEF Decide, Sendable, Sends, history
  <2>2. ASSUME UNCHANGED run, loop' = "check" /\ task' = None PROVE Rests
    BY <1>1, <2>2 DEF Decide, Rests, history
  <2>3. ASSUME Routes(task) = {}, loop' = "accept", UNCHANGED <<status, run, task>> PROVE Rests
    BY <1>1, <2>3 DEF Decide, Rests, history
  <2> QED BY <1>1, <1>e, <2>1, <2>2, <2>3 DEF Decide
<1>2. CASE Accept
  <2>1. task \in Inputs
    BY <1>2 DEF Accept, IInv, TypeOK, Asked
  <2>2. CASE task \notin remembered /\ used < Slots
    <3>0. used < Slots => ~(used >= Slots)
      BY Scenery DEF IInv, TypeOK
    <3>1. /\ run' = [run EXCEPT ![task] = [NoRun EXCEPT !.stage = "begin", !.slot = TRUE]]
          /\ file' = [file EXCEPT ![task] = [NoFile EXCEPT !.kept = TRUE]]
          /\ active' = active \cup {task} /\ remembered' = remembered \cup {task}
          /\ exposed' = exposed \cup Overtaken(task) /\ beside' = beside \cup Beside(task)
      BY <1>2, <2>2, <3>0 DEF Accept
    <3> QED BY <1>r, <1>2, <1>e, <2>1, <2>2, <3>1 DEF Accept, Begins
  <2>3. CASE ~(task \notin remembered /\ used < Slots)
    BY <1>2, <1>e, <2>3 DEF Accept, Rests
  <2> QED BY <2>2, <2>3
<1>3. CASE ~Decide /\ ~Accept /\ ~Crash
  <2>1. /\ run' = run /\ file' = file /\ active' = active /\ remembered' = remembered
        /\ exposed' = exposed /\ beside' = beside
    BY <1>3, RunsStay
  <2>2. CASE Answer
    <3>1. CASE AnswerInput
      BY <2>1, <3>1 DEF AnswerInput, Answered, Rests
    <3>2. CASE AnswerNothing
      BY <2>1, <3>2 DEF AnswerNothing, Answered, Rests
    <3> QED BY <1>e, <2>2, <3>1, <3>2 DEF Answer
  <2>3. CASE Check \/ Arm \/ Signal \/ Timer \/ Claim
    <3>1. task' = task /\ {loop, loop'} \cap {"decide", "accept"} = {}
      BY <2>3 DEF Check, Arm, Signal, Timer, Claim, LoopOnly
    <3> QED BY <1>e, <2>1, <3>1 DEF Rests
  <2>4. CASE ~LoopStep
    <3>1. task' = task /\ loop' = loop
      BY <1>3, <2>4 DEF Next, Arrive, ReportStart, ReportDecision, vars, looping
    <3> QED BY <1>e, <2>1, <3>1 DEF Rests
  <2> QED BY <1>3, <2>2, <2>3, <2>4 DEF LoopStep
<1> QED BY <1>1, <1>2, <1>3, <1>e

-----------------------------------------------------------------------------
(* The bookkeeping of the invariant *)

\* Each count is a number.
LEMMA Counted ==
    ASSUME IInv
    PROVE  executed \in [Inputs -> 0 .. 2]
BY DEF IInv, TypeOK

\* What Control did not have before was written by a user.
LEMMA Arrival ==
    ASSUME InputsAssumption, ScenariosAssumption, IInv, [Next]_vars, NEW i \in Inputs,
           status[i] = "absent", status'[i] # "absent"
    PROVE  i \in scenario.arriving /\ Arrive(i)
<1>0. TypeOK /\ Asked /\ HeldInputs /\ Filed /\ Remembers
  BY DEF IInv
<1>1. ASSUME NEW p \in Inputs, Deliver(p) PROVE FALSE
  <2>1. i = p \/ i \in run[p].applied
    BY <1>0, <1>1 DEF Deliver, Synced
  <2>2. status[p] # "absent" /\ \A k \in run[p].applied : status[k] # "absent"
    BY <1>0, <1>1 DEF Deliver, Filed, Remembers, HeldInputs, Held
  <2> QED BY <2>1, <2>2
<1>2. ASSUME NEW p \in Inputs, ReportStart(p) PROVE FALSE
  BY <1>0, <1>2 DEF ReportStart, Started, TypeOK
<1>3. ASSUME NEW p \in Inputs, NEW k \in Inputs, ReportDecision(p, k) PROVE FALSE
  BY <1>0, <1>3 DEF ReportDecision, Acknowledged, TypeOK
<1>4. ASSUME Decide PROVE FALSE
  <2>1. task \in Inputs /\ status[task] # "absent"
    BY <1>0, <1>4 DEF Decide, Asked
  <2>2. status' # status => \E p : status' = Acknowledged(p, task)
    BY <1>4 DEF Decide
  <2> QED BY <1>0, <2>1, <2>2 DEF Acknowledged, TypeOK
<1>5. status' # status
  OBVIOUS
<1>6. ASSUME NEW p \in Inputs, RunStep(p), ~Deliver(p) PROVE status' = status
  BY <1>6 DEF RunStep, Begin, SaveEvent, TakeCommand, MarkApplied, EndTurn, SaveResult,
              Remember, Unregister, Remove, Clean, Recover, RunOnly
<1>7. LoopStep /\ ~Decide => status' = status
  BY DEF LoopStep, Check, Arm, Signal, Timer, Claim, Answer, AnswerInput, AnswerNothing,
         Answered, LoopOnly, Accept
<1>8. Crash \/ UNCHANGED vars => status' = status
  BY DEF Crash, vars
<1>9. ASSUME NEW k \in scenario.arriving, Arrive(k) PROVE k = i
  BY <1>0, <1>9 DEF Arrive, TypeOK
<1>10. ASSUME \A k \in scenario.arriving : ~Arrive(k) PROVE FALSE
  <2>1. \A p \in Inputs : ~RunStep(p) /\ ~ReportStart(p)
    BY <1>1, <1>2, <1>5, <1>6
  <2>2. ~LoopStep
    BY <1>4, <1>5, <1>7
  <2>3. \A p, k \in Inputs : ~ReportDecision(p, k)
    BY <1>3
  <2> QED BY <1>5, <1>8, <1>10, <2>1, <2>2, <2>3 DEF Next
<1> QED BY <1>9, <1>10

\* An input that was passed on exists.
LEMMA TouchedExists ==
    ASSUME IInv, Known, NEW i \in Inputs, Touched(i) \/ task = i
    PROVE  status[i] # "absent"
BY DEF IInv, Known, Touched, Filed, Remembers, HeldInputs, Asked

\* Every step preserves Known.
LEMMA StepKnown ==
    ASSUME InputsAssumption, ScenariosAssumption, IInv, OrderInv, [Next]_vars
    PROVE  Known'
<1>0. Known /\ Marked /\ TypeOK /\ Asked /\ HeldInputs /\ Filed /\ Remembers
  BY DEF OrderInv, IInv
<1>g. \A i \in Inputs : status[i] # "absent" => status'[i] # "absent"
  BY StatusGrows DEF Grows
<1>1. ASSUME NEW i \in Inputs, executed'[i] > 0 PROVE status'[i] # "absent"
  <2>1. CASE executed'[i] = executed[i]
    BY <1>0, <1>1, <1>g, <2>1 DEF Known
  <2>2. CASE executed'[i] # executed[i]
    <3>1. Touched(i)
      BY <1>0, <2>2, ExecutedBy
    <3> QED BY <1>0, <1>g, <3>1, TouchedExists
  <2> QED BY <2>1, <2>2
<1>2. task' \in Inputs => loop' \in {"decide", "accept"}
  <2>1. CASE \A p \in Inputs : ~RunStep(p)
    <3>1. CASE Crash
      BY <3>1, InputsAssumption DEF Crash, InputsAssumption
    <3>2. (\E p \in Inputs : Sends(p)) \/ Begins => task' = None
      BY DEF Sends, Begins
    <3>3. CASE Rests
      BY <1>0, <3>3 DEF Rests, Known, InputsAssumption
    <3> QED BY <2>1, <3>1, <3>2, <3>3, LoopEffects DEF InputsAssumption
  <2>2. CASE \E p \in Inputs : RunStep(p)
    BY <1>0, <2>2, LoopStays DEF Known
  <2> QED BY <2>1, <2>2
<1>3. ASSUME NEW i \in Inputs, NEW j \in scenario'.arriving, j < i, status'[i] # "absent"
      PROVE  status'[j] # "absent"
  <2>1. scenario' = scenario /\ scenario.arriving \subseteq Inputs
    BY <1>0, Scene, Scenery
  <2>2. CASE status[i] # "absent"
    BY <1>0, <1>3, <1>g, <2>1, <2>2 DEF Known
  <2>3. CASE status[i] = "absent"
    <3>1. i \in scenario.arriving /\ Arrive(i)
      BY <1>0, <1>3, <2>3, Arrival
    <3> QED BY <1>3, <1>g, <2>1, <3>1 DEF Arrive
  <2> QED BY <2>2, <2>3
<1> QED BY <1>1, <1>2, <1>3 DEF Known

\* What Marked says of one run.
MarkedRun(p) ==
    /\ file[p].kept => run[p].stage # "none"
    /\ ~file[p].kept => file[p].applied = {}
    /\ run[p].stage = "remembered" => run[p].applied \subseteq remembered

\* It is preserved where run and Journal stay.
LEMMA MarkedStays ==
    ASSUME NEW p \in Inputs, MarkedRun(p), run'[p].stage = run[p].stage,
           run'[p].applied = run[p].applied, file'[p] = file[p], remembered \subseteq remembered'
    PROVE  MarkedRun(p)'
BY DEF MarkedRun

\* Every step preserves Marked.
LEMMA StepMarked ==
    ASSUME InputsAssumption, ScenariosAssumption, IInv, OrderInv, [Next]_vars
    PROVE  Marked'
<1>0. Marked /\ TypeOK /\ Filed /\ \A p \in Inputs : MarkedRun(p)
  BY DEF OrderInv, IInv, Marked, MarkedRun
<1>b. (\A p \in Inputs : MarkedRun(p)') => Marked'
  BY DEF Marked, MarkedRun
<1>1. ASSUME NEW p \in Inputs, RunStep(p) PROVE Marked'
  <2>m. remembered \subseteq remembered'
    BY <1>0, <1>1, RunEffects DEF Goes, Leaves, Takes, Applies, Cleans, Recovers
  <2>p. MarkedRun(p)
    BY <1>0
  <2>f. run[p].stage \notin {"none", "done"} => file[p].kept
    BY <1>0 DEF Filed
  <2>7. MarkedRun(p)'
    <3>1. CASE Goes(p)
      BY <2>m, <2>p, <2>f, <3>1 DEF Goes, MarkedRun
    <3>2. CASE Leaves(p)
      BY <2>m, <2>p, <2>f, <3>2 DEF Leaves, MarkedRun, NoFile
    <3>3. CASE Takes(p)
      BY <2>m, <2>p, <2>f, <3>3 DEF Takes, MarkedRun
    <3>4. CASE Applies(p)
      BY <2>m, <2>p, <2>f, <3>4 DEF Applies, MarkedRun
    <3>5. CASE Cleans(p)
      BY <2>m, <2>p, <2>f, <3>5 DEF Cleans, MarkedRun, NoFile
    <3>6. CASE Recovers(p)
      BY <2>m, <2>p, <2>f, <3>6 DEF Recovers, MarkedRun
    <3> QED BY <1>0, <1>1, <3>1, <3>2, <3>3, <3>4, <3>5, <3>6, RunEffects
  <2>8. ASSUME NEW q \in Inputs, q # p PROVE MarkedRun(q)'
    BY <1>0, <1>1, <2>m, <2>8, OthersStay, MarkedStays
  <2> QED BY <1>b, <2>7, <2>8
<1>2. ASSUME NEW p \in Inputs, Sends(p) PROVE Marked'
  <2>1. ASSUME NEW q \in Inputs PROVE MarkedRun(q)'
    <3>1. /\ run'[q].stage = run[q].stage /\ run'[q].applied = run[q].applied
          /\ file'[q] = file[q] /\ remembered' = remembered
      BY <1>2 DEF Sends
    <3> QED BY <1>0, <3>1, MarkedStays
  <2> QED BY <1>b, <2>1
<1>3. CASE Begins
  <2>1. ASSUME NEW q \in Inputs, q # task PROVE MarkedRun(q)'
    BY <1>0, <1>3, <2>1, MarkedStays DEF Begins
  <2>2. ASSUME NEW q \in Inputs, q = task PROVE MarkedRun(q)'
    <3>1. run'[q].stage = "begin" /\ file'[q].kept /\ file'[q].applied = {}
      BY <1>3, <2>2 DEF Begins, NoRun, NoFile
    <3> QED BY <3>1 DEF MarkedRun
  <2> QED BY <1>b, <2>1, <2>2
<1>4. CASE Crash
  <2>1. ASSUME NEW q \in Inputs PROVE MarkedRun(q)'
    <3>1. /\ file' = file
          /\ file[q].kept => run'[q].stage = "waiting"
          /\ ~file[q].kept => run'[q].stage = "none"
      BY <1>4 DEF Crash, NoRun
    <3>2. MarkedRun(q)
      BY <1>0
    <3> QED BY <3>1, <3>2 DEF MarkedRun
  <2> QED BY <1>b, <2>1
<1>5. CASE Rests
  <2>0. run' = run /\ file' = file /\ remembered' = remembered
    BY <1>5 DEF Rests
  <2> QED BY <1>0, <1>b, <2>0, MarkedStays
<1> QED BY <1>1, <1>2, <1>3, <1>4, <1>5, LoopEffects

-----------------------------------------------------------------------------
(* Channels *)

\* What Channels says of one run.
ChannelRun(p) ==
    /\ CommandsOf(p) \subseteq run[p].reserved
    /\ \A m, n \in 1 .. Len(run[p].commands) :
          m # n => run[p].commands[m] # run[p].commands[n]
    /\ run[p].stage \in {"steer", "stop"} => run[p].doing \in run[p].reserved \ CommandsOf(p)
    /\ p \notin run[p].reserved
    /\ run[p].commands # <<>> => p \in active
    /\ \A j \in Held(p) : ControlOf(j) = ControlOf(p)

\* It is preserved by what neither gives the run a command nor takes one.
LEMMA ChannelStays ==
    ASSUME [Next]_vars, NEW p \in Inputs, ChannelRun(p),
           run'[p].commands = run[p].commands, run'[p].reserved = run[p].reserved,
           run'[p].stage \in {"steer", "stop"} =>
               run[p].stage \in {"steer", "stop"} /\ run'[p].doing = run[p].doing,
           run'[p].applied \subseteq run[p].applied \cup file[p].applied,
           file'[p].applied \subseteq run[p].applied \cup file[p].applied,
           p \in active => p \in active'
    PROVE  ChannelRun(p)'
<1>1. CommandsOf(p)' = CommandsOf(p)
  BY DEF CommandsOf
<1>2. Held(p)' \subseteq Held(p)
  BY DEF Held
<1>3. \A j : ControlOf(j)' = ControlOf(j)
  BY SceneStays
<1> QED BY <1>1, <1>2, <1>3 DEF ChannelRun

\* A run without commands has an empty channel.
LEMMA ChannelEmpty ==
    ASSUME [Next]_vars, NEW p \in Inputs, ChannelRun(p),
           run'[p].commands = <<>>, run'[p].reserved = {},
           run'[p].stage \notin {"steer", "stop"},
           run'[p].applied \subseteq run[p].applied \cup file[p].applied,
           file'[p].applied \subseteq run[p].applied \cup file[p].applied
    PROVE  ChannelRun(p)' /\ CommandsOf(p)' = {}
<1>1. CommandsOf(p)' = {} /\ Len(run'[p].commands) = 0
  BY DEF CommandsOf
<1>2. Held(p)' \subseteq Held(p)
  BY <1>1 DEF Held, CommandsOf
<1>3. \A j : ControlOf(j)' = ControlOf(j)
  BY SceneStays
<1>4. \A m, n \in 1 .. Len(run'[p].commands) : FALSE
  BY <1>1
<1> QED BY <1>1, <1>2, <1>3, <1>4 DEF ChannelRun

\* What is left when a command is taken.
LEMMA CommandTaken ==
    ASSUME IInv, NEW p \in Inputs, ChannelRun(p), Takes(p)
    PROVE  /\ CommandsOf(p)' \subseteq CommandsOf(p) \ {Head(run[p].commands)}
           /\ \A m, n \in 1 .. Len(run'[p].commands) :
                 m # n => run'[p].commands[m] # run'[p].commands[n]
           /\ Head(run[p].commands) \in CommandsOf(p)
<1> DEFINE c == run[p].commands
           t == Tail(run[p].commands)
<1>1. c # <<>> /\ run'[p].commands = t
  BY DEF Takes
<1>2. /\ Head(c) \in CommandsOf(p) /\ Len(c) \in Nat \ {0} /\ Head(c) = c[1]
      /\ Len(t) = Len(c) - 1
      /\ \A n \in 1 .. Len(t) : n + 1 \in 1 .. Len(c) /\ t[n] = c[n + 1]
  BY <1>1, FirstCommand
<1>3. \A m, n \in 1 .. Len(c) : m # n => c[m] # c[n]
  BY DEF ChannelRun
<1>4. CommandsOf(p) = {c[n] : n \in 1 .. Len(c)} /\ CommandsOf(p)' = {t[n] : n \in 1 .. Len(t)}
  BY <1>1 DEF CommandsOf
<1> HIDE DEF c, t
<1>5. ASSUME NEW n \in 1 .. Len(t) PROVE t[n] # c[1]
  <2>1. n + 1 \in 1 .. Len(c) /\ t[n] = c[n + 1] /\ 1 \in 1 .. Len(c) /\ n + 1 # 1
    BY <1>2, <1>5
  <2> QED BY <1>3, <2>1
<1>6. CommandsOf(p)' \subseteq CommandsOf(p) \ {Head(c)}
  BY <1>2, <1>4, <1>5
<1>7. ASSUME NEW m \in 1 .. Len(t), NEW n \in 1 .. Len(t), m # n PROVE t[m] # t[n]
  <2>1. /\ m + 1 \in 1 .. Len(c) /\ t[m] = c[m + 1]
        /\ n + 1 \in 1 .. Len(c) /\ t[n] = c[n + 1] /\ m + 1 # n + 1
    BY <1>2, <1>7
  <2> QED BY <1>3, <2>1
<1> QED BY <1>1, <1>2, <1>6, <1>7 DEF c

\* A run that takes a command, or has applied one.
LEMMA ChannelTaken ==
    ASSUME IInv, [Next]_vars, NEW p \in Inputs, ChannelRun(p), Takes(p) \/ Applies(p)
    PROVE  ChannelRun(p)'
<1>c. \A j : ControlOf(j)' = ControlOf(j)
  BY SceneStays
<1>1. CASE Takes(p)
  <2> DEFINE h == Head(run[p].commands)
  <2>1. /\ CommandsOf(p)' \subseteq CommandsOf(p) \ {h} /\ h \in CommandsOf(p)
        /\ \A m, n \in 1 .. Len(run'[p].commands) :
              m # n => run'[p].commands[m] # run'[p].commands[n]
    BY <1>1, CommandTaken
  <2>2. Held(p)' \subseteq Held(p)
    <3>1. /\ run'[p].reserved \subseteq run[p].reserved /\ file'[p] = file[p]
          /\ run'[p].applied = run[p].applied
          /\ run'[p].stage \in {"steer", "stop"} => run'[p].doing = h
      BY <1>1 DEF Takes
    <3> QED BY <2>1, <3>1 DEF Held, CommandsOf
  <2>3. /\ active' = active /\ run[p].commands # <<>>
        /\ \/ run'[p].reserved = run[p].reserved /\ run'[p].doing = h
           \/ run'[p].reserved = run[p].reserved \ {h} /\ run'[p].stage = "turn"
    BY <1>1 DEF Takes
  <2> HIDE DEF h
  <2> QED BY <1>c, <2>1, <2>2, <2>3 DEF ChannelRun
<1>2. CASE Applies(p)
  <2>1. CommandsOf(p)' = CommandsOf(p) /\ run[p].doing \notin CommandsOf(p)
    BY <1>2 DEF Applies, CommandsOf, ChannelRun
  <2>2. Held(p)' \subseteq Held(p)
    BY <1>2 DEF Applies, Held
  <2> QED BY <1>2, <1>c, <2>1, <2>2 DEF Applies, ChannelRun
<1> QED BY <1>1, <1>2

\* A run that is sent a command.
LEMMA ChannelSent ==
    ASSUME IInv, [Next]_vars, NEW p \in Inputs, ChannelRun(p), Sends(p)
    PROVE  ChannelRun(p)' /\ CommandsOf(p)' = CommandsOf(p) \cup {task}
           /\ Held(p)' = Held(p) \cup {task}
<1> DEFINE c == run[p].commands
           d == run'[p].commands
<1>1. /\ d = Append(c, task) /\ task \notin run[p].reserved /\ p # task
      /\ run'[p].reserved = run[p].reserved \cup {task} /\ p \in active'
      /\ run'[p].stage = run[p].stage /\ run'[p].doing = run[p].doing
      /\ run'[p].applied = run[p].applied
      /\ file' = file /\ ControlOf(p) = ControlOf(task)
  BY DEF Sends
<1>2. c \in Seq(Inputs) /\ task \in Inputs
  BY DEF IInv, TypeOK, Run, Sends
<1>3. CommandsOf(p) = {c[n] : n \in 1 .. Len(c)} /\ CommandsOf(p)' = {d[n] : n \in 1 .. Len(d)}
  BY DEF CommandsOf
<1>4. \A m, n \in 1 .. Len(c) : m # n => c[m] # c[n]
  BY DEF ChannelRun
<1>5. task \notin CommandsOf(p)
  BY <1>1 DEF ChannelRun
<1> HIDE DEF c, d
<1>6. /\ Len(c) \in Nat /\ Len(d) = Len(c) + 1 /\ d[Len(c) + 1] = task
      /\ \A n \in 1 .. Len(c) : d[n] = c[n]
  BY <1>1, <1>2
<1>7. \A n \in 1 .. Len(d) : n \in 1 .. Len(c) \/ n = Len(c) + 1
  BY <1>6
<1>8. CommandsOf(p)' = CommandsOf(p) \cup {task}
  <2>1. \A n \in 1 .. Len(c) : n \in 1 .. Len(d)
    BY <1>6
  <2>2. Len(c) + 1 \in 1 .. Len(d)
    BY <1>6
  <2> QED BY <1>3, <1>6, <1>7, <2>1, <2>2
<1>9. ASSUME NEW m \in 1 .. Len(d), NEW n \in 1 .. Len(d), m # n PROVE d[m] # d[n]
  BY <1>3, <1>4, <1>5, <1>6, <1>7, <1>9
<1>10. Held(p)' = Held(p) \cup {task}
  BY <1>1, <1>8 DEF Held, CommandsOf
<1>11. \A j : ControlOf(j)' = ControlOf(j)
  BY SceneStays
<1>12. \A m, n \in 1 .. Len(run'[p].commands) :
          m # n => run'[p].commands[m] # run'[p].commands[n]
  BY <1>9 DEF d
<1> QED BY <1>1, <1>8, <1>10, <1>11, <1>12 DEF ChannelRun

\* Every step preserves Channels.
LEMMA StepChannels ==
    ASSUME InputsAssumption, ScenariosAssumption, IInv, OrderInv, [Next]_vars
    PROVE  Channels'
<1>0. Marked /\ TypeOK /\ Registered /\ \A p \in Inputs : ChannelRun(p)
  BY DEF OrderInv, IInv, Channels, ChannelRun
<1>b. (\A p \in Inputs : ChannelRun(p)') => Channels'
  BY DEF Channels, ChannelRun
<1>1. ASSUME NEW p \in Inputs, RunStep(p) PROVE Channels'
  <2>1. ChannelRun(p)'
    <3>1. CASE Goes(p)
      BY <1>0, <3>1, ChannelStays DEF Goes
    <3>2. CASE Leaves(p)
      <4>1. /\ run'[p].commands = <<>> /\ run'[p].reserved = {}
            /\ run'[p].stage \notin {"steer", "stop"} /\ run'[p].applied = run[p].applied
            /\ file'[p].applied \subseteq file[p].applied
        BY <3>2 DEF Leaves, NoFile
      <4> QED BY <1>0, <4>1, ChannelEmpty
    <3>3. CASE Takes(p) \/ Applies(p)
      BY <1>0, <3>3, ChannelTaken
    <3>4. CASE Cleans(p)
      BY <1>0, <3>4, ChannelStays DEF Cleans, NoFile
    <3>5. CASE Recovers(p)
      BY <1>0, <3>5, ChannelEmpty DEF Recovers
    <3> QED BY <1>0, <1>1, <3>1, <3>2, <3>3, <3>4, <3>5, RunEffects
  <2>2. ASSUME NEW q \in Inputs, q # p PROVE ChannelRun(q)'
    <3>1. q \in active => q \in active'
      BY <1>0, <1>1, <2>2, RunEffects DEF Goes, Leaves, Takes, Applies, Cleans, Recovers
    <3> QED BY <1>0, <1>1, <2>2, <3>1, OthersStay, ChannelStays
  <2> QED BY <1>b, <2>1, <2>2
<1>2. ASSUME NEW p \in Inputs, Sends(p) PROVE Channels'
  <2>1. ASSUME NEW q \in Inputs, q # p PROVE ChannelRun(q)'
    <3>1. run'[q] = run[q] /\ file' = file /\ active' = active
      BY <1>2, <2>1 DEF Sends
    <3> QED BY <1>0, <3>1, ChannelStays
  <2> QED BY <1>0, <1>2, <1>b, <2>1, ChannelSent
<1>3. CASE Begins
  <2>1. ASSUME NEW q \in Inputs PROVE ChannelRun(q)'
    <3>1. CASE q = task
      <4>1. run'[q].commands = <<>> /\ run'[q].reserved = {} /\ run'[q].stage = "begin"
            /\ file'[q].applied = {} /\ run'[q].applied = {}
        BY <1>3, <3>1 DEF Begins, NoRun, NoFile
      <4> QED BY <1>0, <4>1, ChannelEmpty
    <3>2. CASE q # task
      <4>1. run'[q] = run[q] /\ file'[q] = file[q] /\ (q \in active => q \in active')
        BY <1>3, <3>2 DEF Begins
      <4> QED BY <1>0, <4>1, ChannelStays
    <3> QED BY <3>1, <3>2
  <2> QED BY <1>b, <2>1
<1>4. CASE Crash
  <2>1. ASSUME NEW q \in Inputs PROVE ChannelRun(q)'
    <3>1. /\ run'[q].commands = <<>> /\ run'[q].reserved = {} /\ file' = file
          /\ run'[q].stage \notin {"steer", "stop"} /\ run'[q].applied = {}
      BY <1>4 DEF Crash, NoRun
    <3> QED BY <1>0, <3>1, ChannelEmpty
  <2> QED BY <1>b, <2>1
<1>5. CASE Rests
  <2>1. ASSUME NEW q \in Inputs PROVE ChannelRun(q)'
    BY <1>0, <1>5, ChannelStays DEF Rests
  <2> QED BY <1>b, <2>1
<1> QED BY <1>1, <1>2, <1>3, <1>4, <1>5, LoopEffects

-----------------------------------------------------------------------------
(* Runs of one control *)

\* A whole control that is beside stays so.
LEMMA AllBesideStays ==
    ASSUME IInv, Marked, [Next]_vars, NEW i \in Inputs, AllBeside(i)
    PROVE  AllBeside(i)'
BY ExposedStays, SceneStays DEF AllBeside

\* A run that starts has its control beside where a recovered one waits, or the loop
\* is about to start another.
LEMMA BesideAll ==
    ASSUME [Next]_vars, NEW p \in Inputs, beside' = beside \cup Beside(p),
           \/ \E q \in Inputs \ {p} : run[q].stage = "waiting" /\ ControlOf(q) = ControlOf(p)
           \/ loop = "accept" /\ task # p /\ ControlOf(task) = ControlOf(p)
    PROVE  AllBeside(p)'
<1>1. Beside(p) = {j \in Inputs : ControlOf(j) = ControlOf(p)}
  BY DEF Beside
<1> QED BY <1>1, SceneStays DEF AllBeside

\* What Apart says of two runs.
ApartRuns(p, q) ==
    /\ p # q /\ ControlOf(p) = ControlOf(q)
    /\ \/ p \in active /\ q \in active
       \/ run[q].stage = "waiting" /\ run[p].stage \notin {"none", "waiting"}
    => AllBeside(p)

\* And of the input that is about to start a run.
ApartTask ==
    loop = "accept" =>
        \A q \in active : q # task /\ ControlOf(q) = ControlOf(task) => AllBeside(q)

\* It is preserved where runs only leave the coordinator.
LEMMA ApartStays ==
    ASSUME IInv, Marked, [Next]_vars, NEW p \in Inputs, NEW q \in Inputs, ApartRuns(p, q),
           active' \subseteq active, run'[q].stage = "waiting" => run[q].stage = "waiting",
           run'[p].stage \notin {"none", "waiting"} => run[p].stage \notin {"none", "waiting"}
    PROVE  ApartRuns(p, q)'
BY AllBesideStays, SceneStays DEF ApartRuns

\* So is the rest of it where the loop does not come to its decision.
LEMMA ApartTaskStays ==
    ASSUME IInv, Marked, [Next]_vars, ApartTask, active' \subseteq active,
           loop' = "accept" => loop = "accept" /\ task' = task
    PROVE  ApartTask'
<1>1. CASE loop' # "accept"
  BY <1>1 DEF ApartTask
<1>2. CASE loop' = "accept"
  <2>1. \A t : task = t => \A q \in active' :
            q # t /\ ControlOf(q)' = ControlOf(t)' => AllBeside(q)'
    BY <1>2, AllBesideStays, SceneStays DEF ApartTask, IInv, TypeOK
  <2> QED BY <1>2, <2>1, SceneStays DEF ApartTask
<1> QED BY <1>1, <1>2

\* Every step preserves Apart.
LEMMA StepApart ==
    ASSUME InputsAssumption, ScenariosAssumption, IInv, OrderInv, [Next]_vars
    PROVE  Apart'
<1>0. Apart /\ Marked /\ TypeOK /\ ApartTask
  BY DEF OrderInv, IInv, Apart, ApartTask
<1>p. \A p, q \in Inputs : ApartRuns(p, q)
  BY <1>0 DEF Apart, ApartRuns
<1>r. active \subseteq Inputs /\ task \in Inputs \cup {None}
  BY <1>0 DEF TypeOK
<1>c. \A j : ControlOf(j)' = ControlOf(j)
  BY SceneStays
<1>b. /\ \A p \in active' : run'[p].stage \notin {"none", "waiting"}
      /\ \A p, q \in Inputs : ApartRuns(p, q)'
      /\ ApartTask'
      => Apart'
  BY DEF Apart, ApartRuns, ApartTask
<1>1. ASSUME NEW p \in Inputs, RunStep(p), ~Recovers(p) PROVE Apart'
  <2>1. /\ active' \subseteq active /\ run'[p].stage # "waiting"
        /\ run[p].stage \notin {"none", "waiting"}
        /\ run'[p].stage # "none"
    BY <1>0, <1>1, RunEffects DEF Goes, Leaves, Takes, Applies, Cleans
  <2>2. \A q \in Inputs \ {p} : run'[q] = run[q]
    BY <1>1, OthersStay
  <2>3. \A i, q \in Inputs : ApartRuns(i, q)'
    BY <1>0, <1>p, <2>1, <2>2, ApartStays
  <2>4. ApartTask'
    BY <1>0, <1>1, <2>1, LoopStays, ApartTaskStays
  <2>5. \A i \in active' : run'[i].stage \notin {"none", "waiting"}
    BY <1>0, <1>r, <2>1, <2>2 DEF Apart
  <2> QED BY <1>b, <2>3, <2>4, <2>5
<1>2. ASSUME NEW p \in Inputs, RunStep(p), Recovers(p) PROVE Apart'
  <2>1. /\ active' = active \cup {p} /\ beside' = beside \cup Beside(p)
        /\ run[p].stage = "waiting" /\ run'[p].stage \notin {"none", "waiting"}
    BY <1>2 DEF Recovers
  <2>2. \A q \in Inputs \ {p} : run'[q] = run[q]
    BY <1>2, OthersStay
  <2>3. ASSUME NEW q \in Inputs, q # p, ControlOf(q) = ControlOf(p), run'[q].stage # "none",
               q \in active \/ run[q].stage = "waiting"
        PROVE  AllBeside(p)' /\ AllBeside(q)'
    <3>1. CASE run[q].stage = "waiting"
      <4>1. AllBeside(p)'
        BY <2>1, <2>3, <3>1, BesideAll
      <4> QED BY <1>c, <2>3, <4>1 DEF AllBeside
    <3>2. CASE run[q].stage # "waiting"
      <4>1. run[q].stage \notin {"none", "waiting"}
        BY <2>2, <2>3, <3>2
      <4>2. AllBeside(q)
        BY <1>p, <2>1, <2>3, <4>1 DEF ApartRuns
      <4>3. AllBeside(q)'
        BY <1>0, <4>2, AllBesideStays
      <4> QED BY <1>c, <2>3, <4>3 DEF AllBeside
    <3> QED BY <3>1, <3>2
  <2>4. ASSUME NEW i \in Inputs, NEW q \in Inputs PROVE ApartRuns(i, q)'
    <3>1. CASE i # p /\ q # p
      <4>1. ApartRuns(i, q) /\ (AllBeside(i) => AllBeside(i)')
        BY <1>0, <1>p, AllBesideStays
      <4> QED BY <1>c, <2>1, <2>2, <3>1, <4>1 DEF ApartRuns
    <3>2. CASE i = p /\ q # p
      BY <1>c, <2>1, <2>2, <2>3, <3>2, <1>0 DEF ApartRuns, Apart
    <3>3. CASE q = p /\ i # p
      BY <1>c, <2>1, <2>2, <2>3, <3>3, <1>0 DEF ApartRuns, Apart
    <3>4. CASE i = q
      BY <3>4 DEF ApartRuns
    <3> QED BY <3>1, <3>2, <3>3, <3>4
  <2>5. ApartTask'
    <3>1. loop' = loop /\ task' = task
      BY <1>2, LoopStays
    <3>2. ASSUME loop = "accept", NEW t \in Inputs, t = task, NEW q \in active', q # t,
                 ControlOf(q) = ControlOf(t)
          PROVE  AllBeside(q)'
      <4>1. CASE q = p
        BY <2>1, <3>2, <4>1, BesideAll
      <4>2. CASE q # p
        BY <1>0, <1>r, <2>1, <3>2, <4>2, AllBesideStays DEF ApartTask
      <4> QED BY <4>1, <4>2
    <3>3. loop = "accept" => task \in Inputs
      BY DEF IInv, Asked
    <3>4. \A t \in Inputs : t = task => t = task'
      BY <3>1
    <3> QED BY <1>c, <3>1, <3>2, <3>3, <3>4 DEF ApartTask
  <2>6. \A i \in active' : run'[i].stage \notin {"none", "waiting"}
    BY <1>0, <1>r, <2>1, <2>2 DEF Apart
  <2> QED BY <1>b, <2>4, <2>5, <2>6
<1>3. ASSUME NEW p \in Inputs, Sends(p) PROVE Apart'
  <2>1. active' = active /\ loop' = "check" /\ \A q \in Inputs : run'[q].stage = run[q].stage
    BY <1>3 DEF Sends
  <2>2. \A i, q \in Inputs : ApartRuns(i, q)'
    BY <1>0, <1>p, <2>1, ApartStays
  <2> QED BY <1>0, <1>b, <1>r, <2>1, <2>2, ApartTaskStays DEF Apart
<1>4. CASE Begins
  <2>1. PICK p \in Inputs : p = task
    BY <1>4 DEF Begins
  <2>2. /\ active' = active \cup {p} /\ beside' = beside \cup Beside(p)
        /\ run'[p].stage = "begin" /\ loop = "accept" /\ loop' = "check"
        /\ \A q \in Inputs \ {p} : run'[q] = run[q]
    BY <1>4, <2>1 DEF Begins, NoRun
  <2>3. ASSUME NEW q \in Inputs, q # p, ControlOf(q) = ControlOf(p),
               q \in active \/ run[q].stage = "waiting"
        PROVE  AllBeside(p)' /\ AllBeside(q)'
    <3>1. CASE run[q].stage = "waiting"
      <4>1. AllBeside(p)'
        BY <2>2, <2>3, <3>1, BesideAll
      <4> QED BY <1>c, <2>3, <4>1 DEF AllBeside
    <3>2. CASE q \in active
      <4>1. AllBeside(q)
        BY <1>0, <2>1, <2>2, <2>3, <3>2 DEF ApartTask
      <4>2. AllBeside(q)'
        BY <1>0, <4>1, AllBesideStays
      <4> QED BY <1>c, <2>3, <4>2 DEF AllBeside
    <3> QED BY <2>3, <3>1, <3>2
  <2>4. ASSUME NEW i \in Inputs, NEW q \in Inputs PROVE ApartRuns(i, q)'
    <3>1. CASE i # p /\ q # p
      <4>1. ApartRuns(i, q) /\ (AllBeside(i) => AllBeside(i)')
        BY <1>0, <1>p, AllBesideStays
      <4> QED BY <1>c, <2>2, <3>1, <4>1 DEF ApartRuns
    <3>2. CASE i = p /\ q # p
      BY <1>c, <2>2, <2>3, <3>2 DEF ApartRuns
    <3>3. CASE q = p /\ i # p
      BY <1>c, <2>2, <2>3, <3>3 DEF ApartRuns
    <3>4. CASE i = q
      BY <3>4 DEF ApartRuns
    <3> QED BY <3>1, <3>2, <3>3, <3>4
  <2>5. ApartTask'
    BY <2>2 DEF ApartTask
  <2>6. \A i \in active' : run'[i].stage \notin {"none", "waiting"}
    BY <1>0, <1>r, <2>2 DEF Apart
  <2> QED BY <1>b, <2>4, <2>5, <2>6
<1>5. CASE Crash
  <2>1. active' = {} /\ loop' = "check" /\ \A q \in Inputs : run'[q].stage \in {"none", "waiting"}
    BY <1>5 DEF Crash, NoRun
  <2>2. \A i, q \in Inputs : ApartRuns(i, q)'
    BY <2>1 DEF ApartRuns
  <2> QED BY <1>b, <2>1, <2>2 DEF ApartTask
<1>6. CASE Rests
  <2>1. run' = run /\ active' = active
    BY <1>6 DEF Rests
  <2>2. \A i, q \in Inputs : ApartRuns(i, q)'
    BY <1>0, <1>p, <2>1, ApartStays
  <2>3. ApartTask'
    <3>1. CASE loop' = "accept" => loop = "accept" /\ task' = task
      BY <1>0, <2>1, <3>1, ApartTaskStays
    <3>2. CASE loop' = "accept" /\ task' = task /\ Routes(task) = {}
      <4>1. \A t : t = task => \A q \in active : ControlOf(q) # ControlOf(t)
        BY <3>2 DEF Routes
      <4>2. \A t : t = task => t = task'
        BY <3>2
      <4> QED BY <1>c, <2>1, <4>1, <4>2 DEF ApartTask
    <3> QED BY <1>6, <3>1, <3>2 DEF Rests
  <2> QED BY <1>0, <1>b, <2>1, <2>2, <2>3 DEF Apart
<1> QED BY <1>1, <1>2, <1>3, <1>4, <1>5, <1>6, LoopEffects

-----------------------------------------------------------------------------
(* The order in which inputs are offered *)

\* A step of a run gives it nothing new.
LEMMA HeldShrinks ==
    ASSUME IInv, Marked, NEW p \in Inputs, ChannelRun(p), RunStep(p)
    PROVE  Held(p)' \subseteq Held(p)
<1>1. CASE Goes(p)
  BY <1>1 DEF Goes, Held
<1>2. CASE Leaves(p)
  <2>1. run'[p].commands = <<>> /\ file'[p].applied \subseteq file[p].applied
        /\ run'[p].reserved = {} /\ run'[p].stage \notin {"steer", "stop"}
        /\ run'[p].applied = run[p].applied
    BY <1>2 DEF Leaves, NoFile
  <2> QED BY <2>1 DEF Held
<1>3. CASE Takes(p)
  <2>1. CommandsOf(p)' \subseteq CommandsOf(p) /\ Head(run[p].commands) \in CommandsOf(p)
    BY <1>3, CommandTaken
  <2> QED BY <1>3, <2>1 DEF Takes, Held, CommandsOf
<1>4. CASE Applies(p)
  BY <1>4 DEF Applies, Held
<1>5. CASE Cleans(p)
  BY <1>5 DEF Cleans, Held, NoFile
<1>6. CASE Recovers(p)
  BY <1>6 DEF Recovers, Held
<1> QED BY <1>1, <1>2, <1>3, <1>4, <1>5, <1>6, RunEffects

\* Only the input the loop decides about is passed on.
LEMMA TouchedGrows ==
    ASSUME InputsAssumption, ScenariosAssumption, IInv, OrderInv, [Next]_vars,
           NEW i \in Inputs, Touched(i)'
    PROVE  Touched(i) \/ (task = i /\ task' = None)
<1>0. Marked /\ Known /\ TypeOK /\ Filed /\ \A p \in Inputs : ChannelRun(p)
  BY DEF OrderInv, IInv, Channels, ChannelRun
<1>1. ASSUME executed'[i] > 0 PROVE Touched(i)
  BY <1>0, <1>1, ExecutedBy DEF Touched
<1>2. ASSUME NEW p \in Inputs, RunStep(p), file'[i].kept \/ \E q \in Inputs : i \in Held(q)'
      PROVE  Touched(i)
  <2>1. file'[i].kept => file[i].kept
    BY <1>0, <1>2, OthersStay, RunEffects
       DEF Goes, Leaves, Takes, Applies, Cleans, Recovers, NoFile
  <2>2. ASSUME NEW q \in Inputs PROVE Held(q)' \subseteq Held(q)
    <3>1. CASE q = p
      BY <1>0, <1>2, <3>1, HeldShrinks
    <3>2. CASE q # p
      BY <1>2, <3>2, OthersStay DEF Held
    <3> QED BY <3>1, <3>2
  <2> QED BY <1>2, <2>1, <2>2 DEF Touched
<1>3. ASSUME NEW p \in Inputs, Sends(p), \E q \in Inputs : i \in Held(q)'
      PROVE  Touched(i) \/ (task = i /\ task' = None)
  <2>1. Held(p)' = Held(p) \cup {task}
    BY <1>0, <1>3, ChannelSent
  <2>2. \A q \in Inputs \ {p} : Held(q)' = Held(q)
    BY <1>3 DEF Sends, Held
  <2> QED BY <1>3, <2>1, <2>2 DEF Sends, Touched
<1>4. CASE Begins
  <2>1. \A q \in Inputs : Held(q)' \subseteq Held(q)
    <3>1. ASSUME NEW q \in Inputs, q = task PROVE Held(q)' \subseteq Held(q)
      <4>1. run'[q].commands = <<>> /\ run'[q].reserved = {} /\ run'[q].stage = "begin"
            /\ file'[q].applied = {} /\ run'[q].applied = {}
        BY <1>4, <3>1 DEF Begins, NoRun, NoFile
      <4> QED BY <4>1 DEF Held
    <3>2. ASSUME NEW q \in Inputs, q # task PROVE Held(q)' \subseteq Held(q)
      BY <1>4, <3>2 DEF Begins, Held
    <3> QED BY <3>1, <3>2
  <2>2. i # task => file'[i] = file[i]
    BY <1>4 DEF Begins
  <2>3. task' = None /\ executed' = executed
    BY <1>4 DEF Begins
  <2> QED BY <2>1, <2>2, <2>3 DEF Touched
<1>5. CASE Crash
  <2>1. \A q \in Inputs : Held(q)' \subseteq Held(q)
    BY <1>5 DEF Crash, NoRun, Held
  <2>2. file' = file /\ executed' = executed
    BY <1>5 DEF Crash
  <2> QED BY <2>1, <2>2 DEF Touched
<1>6. ASSUME Rests, executed' = executed PROVE Touched(i)
  BY <1>6 DEF Rests, Touched, Held
<1>7. CASE \A p \in Inputs : ~RunStep(p)
  <2>1. ASSUME NEW p \in Inputs, Sends(p) PROVE Touched(i) \/ (task = i /\ task' = None)
    BY <1>1, <1>3, <2>1 DEF Touched, Sends
  <2> QED BY <1>4, <1>5, <1>6, <1>7, <2>1, LoopEffects
<1> QED BY <1>1, <1>2, <1>7 DEF Touched

\* Of two turns of a control, Control offers the older.
LEMMA OfferedFirst ==
    ASSUME NEW i \in Inputs, NEW j \in Inputs, PendingWorkerInput(i), j # i,
           ControlOf(i) = ControlOf(j), OpOf(i) = "turn", OpOf(j) = "turn",
           status[j] = "queued"
    PROVE  i < j
<1>1. Offered(i) /\ Busy(i) = Busy(j)
  BY DEF PendingWorkerInput, Busy
<1>2. Offered(j)
  BY <1>1 DEF Offered
<1>3. Rank(i) = Rank(j) /\ Rank(i) \in {1, 2}
  BY <1>1 DEF Rank, Stops
<1>4. Before(i, j)
  BY <1>2 DEF PendingWorkerInput
<1> QED BY <1>3, <1>4 DEF Before

\* Every step preserves InOrder.
LEMMA StepInOrder ==
    ASSUME InputsAssumption, ScenariosAssumption, IInv, OrderInv, [Next]_vars
    PROVE  InOrder'
<1>0. Marked /\ Known /\ TypeOK /\ InOrder
  BY DEF OrderInv, IInv
<1>c. \A i : ControlOf(i)' = ControlOf(i) /\ OpOf(i)' = OpOf(i) /\ Stops(i)' = Stops(i)
  BY SceneStays
<1>1. ASSUME NEW i \in Inputs, NEW j \in Inputs, ControlOf(i) = ControlOf(j), j < i,
             OpOf(i) = "turn", OpOf(j) = "turn", task' = i \/ Touched(i)'
      PROVE  status'[j] # "queued"
  <2>2. CASE task = i \/ Touched(i)
    <3>1. status[j] # "queued" /\ status[i] # "absent"
      BY <1>0, <1>1, <2>2, TouchedExists DEF InOrder
    <3>2. status[j] = "absent" /\ status'[j] = "queued" => FALSE
      BY <1>0, <1>1, <3>1, Arrival DEF Known
    <3>3. status'[j] = "queued" => status[j] \in {"queued", "absent"}
      BY StatusGrows DEF Grows
    <3> QED BY <3>1, <3>2, <3>3
  <2>3. CASE task # i /\ ~Touched(i)
    <3>1. task' = i /\ task' # task
      BY <1>1, <2>3, TouchedGrows
    <3>2. PendingWorkerInput(i) /\ status' = status
      <4>1. i # None
        BY DEF InputsAssumption
      <4>2. ~(\E p \in Inputs : RunStep(p))
        BY <3>1, LoopStays
      <4>3. ~(\E p \in Inputs : Sends(p)) /\ ~Begins /\ ~Crash
        BY <3>1, <4>1 DEF Sends, Begins, Crash
      <4>4. Rests
        BY <4>2, <4>3, LoopEffects
      <4> QED BY <3>1, <4>1, <4>4 DEF Rests
    <3>3. ASSUME status[j] = "queued" PROVE FALSE
      <4>3. i < j /\ i \in Nat /\ j \in Nat
        BY <1>1, <3>2, <3>3, OfferedFirst DEF InputsAssumption
      <4> QED BY <1>1, <4>3
    <3> QED BY <3>2, <3>3
  <2> QED BY <2>2, <2>3
<1> QED BY <1>1, <1>c DEF InOrder

\* Every step preserves OneAtATime.
LEMMA StepOneAtATime ==
    ASSUME InputsAssumption, ScenariosAssumption, IInv, OrderInv, [Next]_vars
    PROVE  OneAtATime'
<1>0. Marked /\ Known /\ TypeOK /\ InOrder /\ OneAtATime
  BY DEF OrderInv, IInv
<1>c. \A i : ControlOf(i)' = ControlOf(i) /\ OpOf(i)' = OpOf(i) /\ Stops(i)' = Stops(i)
  BY SceneStays
<1>1. ASSUME NEW i \in Inputs, NEW t \in Inputs, t = task', t # i, ControlOf(i) = ControlOf(t),
             status'[i] = "queued", OpOf(i) = "turn", OpOf(t) = "turn"
      PROVE  ~Touched(i)'
  <2>1. status[i] \in {"queued", "absent"} /\ t # None
    BY <1>0, <1>1, StatusGrows DEF Grows, InputsAssumption
  <2>2. CASE task = t
    <3>1. ~Touched(i)
      <4>1. CASE status[i] = "absent"
        BY <1>0, <4>1, TouchedExists
      <4>2. CASE status[i] = "queued"
        BY <1>0, <1>1, <2>1, <2>2, <4>2 DEF OneAtATime
      <4> QED BY <2>1, <4>1, <4>2
    <3> QED BY <1>1, <2>1, <2>2, <3>1, TouchedGrows
  <2>3. CASE task # t
    <3>1. /\ Rests /\ executed' = executed /\ status' = status /\ PendingWorkerInput(t)
      <4>1. ~(\E p \in Inputs : RunStep(p))
        BY <1>1, <2>3, LoopStays
      <4>2. ~(\E p \in Inputs : Sends(p)) /\ ~Begins /\ ~Crash
        BY <1>1, <2>1 DEF Sends, Begins, Crash
      <4>3. Rests /\ executed' = executed
        BY <4>1, <4>2, LoopEffects
      <4> QED BY <1>1, <2>1, <2>3, <4>3 DEF Rests
    <3>2. Touched(i)' => Touched(i)
      BY <3>1 DEF Rests, Touched, Held
    <3>3. ASSUME Touched(i) PROVE FALSE
      <4>1. status[i] = "queued" /\ status[t] = "queued"
        BY <1>1, <3>1 DEF PendingWorkerInput, Offered
      <4>3. t < i
        BY <1>1, <3>1, <4>1, OfferedFirst
      <4> QED BY <1>0, <1>1, <3>3, <4>1, <4>3 DEF InOrder
    <3> QED BY <3>2, <3>3
  <2> QED BY <2>2, <2>3
<1> QED BY <1>1, <1>c DEF OneAtATime

-----------------------------------------------------------------------------
(* What has been executed is noticed *)

\* A run that stays shows what it has shown.
LEMMA HasStays ==
    ASSUME NEW p, NEW i, run'[p].stage = run[p].stage, run'[p].doing = run[p].doing,
           run'[p].applied = run[p].applied, file'[p].applied = file[p].applied
    PROVE  Has(p, i)' <=> Has(p, i)
BY DEF Has

\* So does every other one that goes on or ends.
LEMMA HasGoesOn ==
    ASSUME IInv, NEW p \in Inputs, NEW i, Has(p, i),
           Goes(p) \/ Takes(p) \/ Applies(p) \/ Recovers(p) \/ Leaves(p) \/ Cleans(p)
    PROVE  Has(p, i)'
<1>1. run[p].stage = "waiting" => Recovers(p)
  BY DEF Goes, Takes, Applies, Leaves, Cleans
<1>2. run[p].stage = "steer" => Applies(p)
  BY DEF Goes, Takes, Recovers, Leaves, Cleans
<1>3. ~Recovers(p) => run[p].applied \subseteq run'[p].applied
  BY DEF Goes, Takes, Applies, Leaves, Cleans
<1>4. Recovers(p) => run[p].stage = "waiting" /\ run'[p].applied = file[p].applied
  BY DEF Recovers
<1>5. Applies(p) => run'[p].applied = run[p].applied \cup {run[p].doing}
  BY DEF Applies
<1>6. Recovers(p) => run[p].applied = {}
  BY <1>4 DEF IInv, Filed
<1> QED BY <1>1, <1>2, <1>3, <1>4, <1>5, <1>6 DEF Has

\* What Control may offer after a step, it could offer before.
LEMMA PendingBefore ==
    ASSUME InputsAssumption, ScenariosAssumption, IInv, Marked, Known, [Next]_vars,
           NEW i \in Inputs, executed[i] > 0, Pending(i)'
    PROVE  Pending(i)
<1>1. CASE status'[i] = "queued"
  BY <1>1, StatusGrows DEF Grows, Known, Pending
<1>2. CASE task' = i
  <2>1. CASE task = i
    BY <2>1 DEF Pending
  <2>2. CASE task # i
    <3>1. i # None
      BY DEF InputsAssumption
    <3>2. ~(\E p \in Inputs : RunStep(p))
      BY <1>2, <2>2, LoopStays
    <3>3. ~(\E p \in Inputs : Sends(p)) /\ ~Begins /\ ~Crash
      BY <1>2, <3>1 DEF Sends, Begins, Crash
    <3>4. Rests
      BY <3>2, <3>3, LoopEffects
    <3>5. PendingWorkerInput(i)
      BY <1>2, <2>2, <3>1, <3>4 DEF Rests
    <3> QED BY <3>5 DEF PendingWorkerInput, Offered, Pending
  <2> QED BY <2>1, <2>2
<1> QED BY <1>1, <1>2 DEF Pending

\* HandledAs is preserved by the steps of runs.
LEMMA HandledByRun ==
    ASSUME InputsAssumption, ScenariosAssumption, IInv, OrderInv, [Next]_vars,
           NEW i \in Inputs, executed[i] > 0, ~Excused(i)', HandledAs(i),
           NEW p \in Inputs, RunStep(p)
    PROVE  HandledAs(i)'
<1>0. Known /\ Apart /\ Marked /\ TypeOK /\ Filed /\ \A j, q \in Inputs : ApartRuns(j, q)
  BY DEF OrderInv, IInv, Apart, ApartRuns
<1>e. Goes(p) \/ Takes(p) \/ Applies(p) \/ Recovers(p) \/ Leaves(p) \/ Cleans(p)
  BY <1>0, RunEffects
<1>c. \A j : ControlOf(j)' = ControlOf(j) /\ OpOf(j)' = OpOf(j)
  BY SceneStays
<1>x. i \notin beside'
  BY DEF Excused
<1>s. status'[i] = "queued" => status[i] = "queued"
  BY <1>0, StatusGrows DEF Grows, Known
<1>h. Worked(i) /\ Noticed(i) /\ InAll(i)
  BY DEF HandledAs
<1>m. remembered \subseteq remembered' /\ run'[p].stage # "none"
  BY <1>e DEF Goes, Takes, Applies, Recovers, Leaves, Cleans
<1>k. file[p].kept => file'[p].kept \/ file[p].delivered
  <2>1. Cleans(p) => file[p].delivered
    BY <1>0 DEF Cleans, Filed
  <2> QED BY <1>e, <2>1 DEF Goes, Takes, Applies, Recovers, Leaves
<1>o. \A q \in Inputs \ {p} : run'[q] = run[q] /\ file'[q] = file[q]
  BY OthersStay
<1>a. \A q \in Inputs : Has(q, i) => Has(q, i)'
  BY <1>e, <1>o, HasStays, HasGoesOn
<1>v. active \subseteq Inputs
  BY <1>0 DEF TypeOK
<1>1. Worked(i)'
  <2>1. PICK w \in Inputs : /\ ControlOf(w) = ControlOf(i) /\ run[w].stage # "none" /\ Has(w, i)
                            /\ w = i /\ status[i] = "queued" => file[i].kept
    BY <1>h DEF Worked
  <2>2. run'[w].stage # "none" /\ Has(w, i)'
    BY <1>a, <1>m, <1>o, <2>1
  <2>3. ASSUME w = i, status'[i] = "queued" PROVE file'[i].kept
    <3>1. file[i].kept
      BY <1>s, <2>1, <2>3
    <3>2. ~file[i].delivered
      <4>1. file[i].delivered => status[i] = "taken"
        BY <1>0 DEF Filed
      <4> QED BY <1>s, <2>3, <4>1
    <3> QED BY <1>k, <1>o, <3>1, <3>2
  <2> QED BY <1>c, <2>1, <2>2, <2>3 DEF Worked
<1>2. Noticed(i)'
  <2>1. CASE i \in remembered
    BY <1>m, <2>1 DEF Noticed
  <2>2. ASSUME NEW q \in active, ControlOf(q) = ControlOf(i), Has(q, i) PROVE Noticed(i)'
    <3>1. CASE q \in active'
      BY <1>a, <1>c, <1>v, <2>2, <3>1 DEF Noticed
    <3>2. CASE q \notin active'
      <4>1. q = p /\ Leaves(p)
        BY <1>e, <2>2, <3>2 DEF Goes, Takes, Applies, Recovers, Leaves, Cleans
      <4>2. i = p \/ i \in run[p].applied
        BY <2>2, <4>1 DEF Has, Leaves
      <4> QED BY <4>1, <4>2 DEF Leaves, Noticed
    <3> QED BY <3>1, <3>2
  <2> QED BY <1>h, <2>1, <2>2 DEF Noticed
<1>4. InAll(i)'
  <2>1. ASSUME Recovers(p), ControlOf(p) = ControlOf(i) PROVE Has(p, i)'
    <3>1. PICK w \in Inputs :
              ControlOf(w) = ControlOf(i) /\ run[w].stage # "none" /\ Has(w, i)
      BY <1>h DEF Worked
    <3>2. CASE w = p
      BY <1>a, <3>1, <3>2
    <3>3. CASE w # p /\ run[w].stage = "waiting"
      <4>1. AllBeside(p)'
        BY <2>1, <3>1, <3>3, BesideAll DEF Recovers
      <4> QED BY <1>c, <1>x, <2>1, <4>1 DEF AllBeside
    <3>4. CASE w # p /\ run[w].stage # "waiting"
      <4>1. AllBeside(w)
        BY <1>0, <2>1, <3>1, <3>4 DEF ApartRuns, Recovers
      <4> QED BY <1>0, <1>x, <3>1, <4>1, ExposedStays DEF AllBeside
    <3> QED BY <3>2, <3>3, <3>4
  <2>2. active' \subseteq active \/ (Recovers(p) /\ active' = active \cup {p})
    BY <1>e DEF Goes, Takes, Applies, Recovers, Leaves, Cleans
  <2> QED BY <1>a, <1>c, <1>h, <1>v, <2>1, <2>2 DEF InAll
<1>5. loop' = "accept" /\ task' = i => i \in remembered'
  BY <1>m, LoopStays DEF HandledAs
<1> QED BY <1>1, <1>2, <1>4, <1>5 DEF HandledAs

\* It is preserved by the loop.
LEMMA HandledByLoop ==
    ASSUME InputsAssumption, ScenariosAssumption, IInv, OrderInv, [Next]_vars,
           NEW i \in Inputs, executed[i] > 0, HandledAs(i),
           (\E p \in Inputs : Sends(p)) \/ Rests
    PROVE  HandledAs(i)'
<1>c. \A j : ControlOf(j)' = ControlOf(j) /\ OpOf(j)' = OpOf(j)
  BY SceneStays
<1>s. status'[i] = "queued" => status[i] = "queued"
  BY StatusGrows DEF Grows, OrderInv, Known
<1>h. Worked(i) /\ Noticed(i) /\ InAll(i)
  BY DEF HandledAs
<1>m. /\ active' = active /\ remembered' = remembered /\ file' = file
      /\ \A q \in Inputs : /\ run'[q].stage = run[q].stage /\ run'[q].doing = run[q].doing
                           /\ run'[q].applied = run[q].applied
  BY DEF Sends, Rests
<1>r. active \subseteq Inputs
  BY DEF IInv, TypeOK
<1>a. \A q \in Inputs : Has(q, i)' <=> Has(q, i)
  BY <1>m, HasStays
<1>1. Worked(i)' /\ Noticed(i)' /\ InAll(i)'
  BY <1>a, <1>c, <1>h, <1>m, <1>r, <1>s DEF Worked, Noticed, InAll
<1>3. ASSUME loop' = "accept", task' = i PROVE i \in remembered'
  <2>1. Rests
    BY <1>3 DEF Sends
  <2>2. CASE task' = task /\ loop' = loop
    BY <1>3, <1>m, <2>2 DEF HandledAs
  <2>3. CASE task' = task /\ Routes(task) = {}
    <3>1. \A p \in active : ControlOf(p) # ControlOf(i)
      BY <1>3, <2>3 DEF Routes
    <3> QED BY <1>h, <1>m, <3>1 DEF Noticed
  <2> QED BY <1>3, <2>1, <2>2, <2>3 DEF Rests
<1> QED BY <1>1, <1>3 DEF HandledAs

\* It is preserved by a run that begins, which is not that of the input: another turn
\* of its control is not offered before it is taken, and what else may begin exposes it.
LEMMA HandledByBeginning ==
    ASSUME InputsAssumption, ScenariosAssumption, IInv, OrderInv, [Next]_vars,
           NEW i \in Inputs, executed[i] > 0, Pending(i), ~Excused(i)', HandledAs(i),
           Begins
    PROVE  HandledAs(i)'
<1>0. Marked /\ OneAtATime /\ Filed /\ active \subseteq Inputs
  BY DEF OrderInv, IInv, TypeOK
<1>c. \A j : ControlOf(j)' = ControlOf(j) /\ OpOf(j)' = OpOf(j)
  BY SceneStays
<1>h. Worked(i) /\ Noticed(i) /\ InAll(i)
  BY DEF HandledAs
<1>t. PICK t \in Inputs : t = task
  BY DEF Begins
<1>m. /\ active' = active \cup {t} /\ remembered' = remembered \cup {t}
      /\ t \notin remembered /\ status' = status /\ loop = "accept" /\ loop' = "check"
      /\ exposed' = exposed \cup Overtaken(t)
      /\ \A q \in Inputs \ {t} : run'[q] = run[q] /\ file'[q] = file[q]
  BY <1>t DEF Begins
<1>1. i # t /\ status[i] = "queued"
  <2>1. i # task
    BY <1>m, <1>t DEF HandledAs
  <2> QED BY <1>t, <2>1 DEF Pending
<1>2. run[t].stage = "none" /\ ~file[t].kept /\ run[t].applied = {}
  BY <1>0, <1>m DEF Filed
<1>3. ~Has(t, i)
  BY <1>1, <1>2 DEF Has
<1>a. \A q \in Inputs \ {t} : Has(q, i)' <=> Has(q, i)
  BY <1>m, HasStays
<1>4. Worked(i)'
  BY <1>1, <1>2, <1>3, <1>a, <1>c, <1>h, <1>m DEF Worked
<1>5. Noticed(i)'
  BY <1>0, <1>3, <1>a, <1>c, <1>h, <1>m DEF Noticed
<1>7. InAll(i)'
  <2>1. ASSUME OpOf(i) = "turn", ControlOf(t) = ControlOf(i) PROVE FALSE
    <3>1. CASE OpOf(t) = "turn"
      <4>1. ~Touched(i)
        BY <1>0, <1>1, <1>t, <2>1, <3>1 DEF OneAtATime
      <4> QED BY <4>1 DEF Touched
    <3>2. CASE OpOf(t) # "turn"
      <4>1. i \in Overtaken(t)
        BY <1>1, <2>1, <3>2 DEF Overtaken
      <4> QED BY <1>m, <4>1 DEF Excused
    <3> QED BY <3>1, <3>2
  <2> QED BY <1>0, <1>a, <1>c, <1>h, <1>m, <2>1 DEF InAll
<1> QED BY <1>4, <1>5, <1>7, <1>m DEF HandledAs

\* It is preserved by a restart, which exposes what no Journal shows.
LEMMA HandledByCrash ==
    ASSUME InputsAssumption, ScenariosAssumption, IInv, OrderInv, [Next]_vars,
           NEW i \in Inputs, Pending(i)', ~Excused(i)', HandledAs(i), Crash
    PROVE  HandledAs(i)'
<1>0. Marked /\ Filed
  BY DEF OrderInv, IInv
<1>c. \A j : ControlOf(j)' = ControlOf(j)
  BY SceneStays
<1>m. /\ active' = {} /\ file' = file /\ status' = status /\ loop' = "check" /\ task' = None
      /\ remembered' = {p \in Inputs : file[p].kept}
             \cup UNION {file[p].applied : p \in {q \in Inputs : file[q].kept}}
      /\ \A p \in Inputs : file[p].kept => run'[p].stage = "waiting"
      /\ exposed' = exposed \cup Lost
  BY DEF Crash, NoRun
<1>1. status[i] = "queued"
  BY <1>m DEF Pending, InputsAssumption
<1>2. i \notin Lost
  BY <1>m DEF Excused
<1>3. PICK p \in Inputs : /\ ControlOf(p) = ControlOf(i) /\ run[p].stage # "none" /\ Has(p, i)
                          /\ p = i => file[i].kept
  BY <1>1 DEF HandledAs, Worked
<1>4. i = p \/ i \in file[p].applied
  <2>1. ~(run[p].stage = "steer" /\ run[p].doing = i)
    BY <1>2 DEF Lost
  <2>2. i \in run[p].applied => i \in file[p].applied
    BY <1>2 DEF Lost
  <2> QED BY <1>3, <2>1, <2>2 DEF Has
<1>k. file[p].kept
  BY <1>0, <1>3, <1>4 DEF Marked
<1>5. i \in remembered' /\ run'[p].stage = "waiting" /\ Has(p, i)'
  BY <1>4, <1>k, <1>m DEF Has
<1>6. Worked(i)' /\ Noticed(i)' /\ InAll(i)'
  BY <1>3, <1>5, <1>c, <1>k, <1>m DEF Worked, Noticed, InAll
<1> QED BY <1>6, <1>m DEF HandledAs

\* It holds of an input whose turn has just begun.
LEMMA HandledByStart ==
    ASSUME InputsAssumption, ScenariosAssumption, IInv, OrderInv, [Next]_vars,
           NEW i \in Inputs, ~Excused(i), Starts(i)
    PROVE  HandledAs(i)'
<1>0. Marked /\ TypeOK /\ Filed /\ Registered /\ \A j, q \in Inputs : ApartRuns(j, q)
  BY DEF OrderInv, IInv, Apart, ApartRuns
<1>c. \A j : ControlOf(j)' = ControlOf(j) /\ OpOf(j)' = OpOf(j)
  BY SceneStays
<1>1. /\ run[i].stage = "begin" /\ run'[i].stage = "turn" /\ file' = file /\ active' = active
      /\ remembered' = remembered
  BY DEF Starts, Begin, RunOnly
<1>2. file[i].kept /\ i \in remembered /\ i \in active
  BY <1>0, <1>1 DEF Filed, Registered, Live
<1>3. \A q \in active : ControlOf(q) = ControlOf(i) => q = i
  BY <1>0, <1>2 DEF ApartRuns, AllBeside, Excused, TypeOK
<1>4. Has(i, i)'
  BY DEF Has
<1>5. Worked(i)' /\ Noticed(i)' /\ InAll(i)'
  BY <1>1, <1>2, <1>3, <1>4, <1>c DEF Worked, Noticed, InAll
<1> QED BY <1>1, <1>2, <1>5 DEF HandledAs

\* And of one that has just been steered.
LEMMA HandledBySteer ==
    ASSUME InputsAssumption, ScenariosAssumption, IInv, OrderInv, [Next]_vars,
           NEW i \in Inputs, ~Excused(i), NEW p \in Inputs, Steers(p, i)
    PROVE  HandledAs(i)'
<1>0. /\ Marked /\ TypeOK /\ Apart /\ ChannelRun(p) /\ \A j, q \in Inputs : ApartRuns(j, q)
      /\ loop' = loop /\ task' = task /\ RunStep(p)
  BY LoopStays DEF OrderInv, IInv, Apart, ApartRuns, Channels, ChannelRun, Steers, RunStep
<1>c. \A j : ControlOf(j)' = ControlOf(j) /\ OpOf(j)' = OpOf(j)
  BY SceneStays
<1>1. /\ run'[p].stage = "steer" /\ run'[p].doing = i /\ active' = active
      /\ run[p].commands # <<>> /\ i = Head(run[p].commands)
  BY DEF Steers, Takes
<1>2. i \in CommandsOf(p) /\ p \in active
  BY <1>0, <1>1, FirstCommand DEF ChannelRun
<1>3. i # p /\ ControlOf(i) = ControlOf(p)
  BY <1>0, <1>2 DEF ChannelRun, Held, CommandsOf
<1>4. \A q \in active : ControlOf(q) = ControlOf(i) => q = p
  BY <1>0, <1>2, <1>3 DEF ApartRuns, AllBeside, Excused, TypeOK
<1>5. Has(p, i)'
  BY <1>1 DEF Has
<1>6. Worked(i)' /\ Noticed(i)' /\ InAll(i)'
  BY <1>1, <1>2, <1>3, <1>4, <1>5, <1>c DEF Worked, Noticed, InAll
<1>7. ~(loop = "accept" /\ task = i)
  BY <1>0, <1>2, <1>3 DEF Apart, AllBeside, Excused
<1> QED BY <1>0, <1>6, <1>7 DEF HandledAs

\* Every step preserves Handled.
LEMMA StepHandled ==
    ASSUME InputsAssumption, ScenariosAssumption, IInv, OrderInv, [Next]_vars
    PROVE  Handled'
<1>0. Known /\ Marked /\ Handled
  BY DEF OrderInv
<1>1. ASSUME NEW i \in Inputs, executed'[i] > 0, Pending(i)', ~Excused(i)' PROVE HandledAs(i)'
  <2>1. ~Excused(i) /\ i \notin exposed'
    BY <1>0, <1>1, ExcusedStays DEF Excused
  <2>2. CASE executed[i] > 0
    <3>1. Pending(i) /\ HandledAs(i)
      BY <1>0, <1>1, <2>1, <2>2, PendingBefore DEF Handled
    <3>2. ASSUME NEW p \in Inputs, RunStep(p) PROVE HandledAs(i)'
      BY <1>0, <1>1, <2>1, <2>2, <3>1, <3>2, RunEffects, HandledByRun
    <3>3. CASE \A p \in Inputs : ~RunStep(p)
      BY <1>1, <2>1, <2>2, <3>1, <3>3, LoopEffects, HandledByLoop, HandledByBeginning,
         HandledByCrash
    <3> QED BY <3>2, <3>3
  <2>3. CASE ~(executed[i] > 0)
    <3>1. executed'[i] # executed[i]
      BY <1>1, <2>3
    <3> QED BY <1>0, <2>1, <3>1, ExecutedBy, HandledByStart, HandledBySteer
  <2> QED BY <2>2, <2>3
<1> QED BY <1>1 DEF Handled

-----------------------------------------------------------------------------
(* What is about to be executed *)

\* An input in the channel of a run is in no other one, and its own run is not about
\* to begin.
LEMMA CommandApart ==
    ASSUME IInv, OrderInv, NEW i \in Inputs, ~Excused(i),
           NEW p \in Inputs, i \in CommandsOf(p)
    PROVE  /\ p \in active /\ ControlOf(p) = ControlOf(i) /\ i # p
           /\ \A q \in active : ControlOf(q) = ControlOf(i) => q = p
           /\ run[i].stage \notin {"waiting", "begin"}
<1>0. /\ TypeOK /\ Apart /\ Registered /\ ChannelRun(p) /\ \A j, q \in Inputs : ApartRuns(j, q)
  BY DEF OrderInv, IInv, Apart, ApartRuns, Channels, ChannelRun
<1>1. run[p].commands # <<>>
  <2>1. ASSUME run[p].commands = <<>> PROVE CommandsOf(p) = {}
    BY <2>1 DEF CommandsOf
  <2> QED BY <2>1
<1>2. p \in active /\ ControlOf(p) = ControlOf(i) /\ i # p
  BY <1>0, <1>1 DEF ChannelRun, Held, CommandsOf
<1>3. \A q \in active : ControlOf(q) = ControlOf(i) => q = p
  BY <1>0, <1>2 DEF ApartRuns, AllBeside, Excused, TypeOK
<1>4. run[i].stage # "waiting"
  <2>1. ASSUME run[i].stage = "waiting" PROVE AllBeside(p)
    BY <1>0, <1>2, <2>1 DEF Apart
  <2> QED BY <1>2, <2>1 DEF AllBeside, Excused
<1>5. run[i].stage # "begin"
  BY <1>0, <1>2, <1>3 DEF Registered, Live
<1> QED BY <1>2, <1>3, <1>4, <1>5

\* The commands of a run are those it had, and the one it is sent.
LEMMA CommandsGrow ==
    ASSUME InputsAssumption, ScenariosAssumption, IInv, OrderInv, [Next]_vars,
           NEW p \in Inputs
    PROVE  \/ CommandsOf(p)' \subseteq CommandsOf(p)
           \/ Sends(p) /\ CommandsOf(p)' = CommandsOf(p) \cup {task}
<1>0. Marked /\ \A q \in Inputs : ChannelRun(q)
  BY DEF OrderInv, Channels, ChannelRun
<1>n. run'[p].commands = <<>> => CommandsOf(p)' = {}
  BY DEF CommandsOf
<1>s. run'[p].commands = run[p].commands => CommandsOf(p)' = CommandsOf(p)
  BY DEF CommandsOf
<1>1. ASSUME RunStep(p) PROVE CommandsOf(p)' \subseteq CommandsOf(p)
  BY <1>0, <1>1, <1>n, <1>s, RunEffects, CommandTaken
     DEF Goes, Leaves, Applies, Cleans, Recovers
<1>2. ASSUME NEW q \in Inputs, q # p, RunStep(q) PROVE CommandsOf(p)' \subseteq CommandsOf(p)
  BY <1>2, <1>s, OthersStay
<1>3. CASE \A q \in Inputs : ~RunStep(q)
  <2>1. CASE Sends(p)
    BY <1>0, <2>1, ChannelSent
  <2>2. ASSUME NEW q \in Inputs, Sends(q), q # p PROVE CommandsOf(p)' \subseteq CommandsOf(p)
    BY <1>s, <2>2 DEF Sends
  <2>3. CASE Begins
    <3>1. CASE p = task
      <4>1. \A t : t = p /\ run'[t] = [NoRun EXCEPT !.stage = "begin", !.slot = TRUE]
                => run'[p].commands = <<>>
        BY DEF NoRun
      <4> QED BY <1>n, <2>3, <3>1, <4>1 DEF Begins
    <3>2. CASE p # task
      BY <1>s, <2>3, <3>2 DEF Begins
    <3> QED BY <3>1, <3>2
  <2>4. CASE Crash
    BY <1>n, <2>4 DEF Crash, NoRun
  <2>5. CASE Rests
    BY <1>s, <2>5 DEF Rests
  <2> QED BY <1>3, <2>1, <2>2, <2>3, <2>4, <2>5, LoopEffects
<1> QED BY <1>1, <1>2, <1>3

\* No run is sent a turn that has been executed.
LEMMA SentIsFresh ==
    ASSUME IInv, OrderInv, NEW p \in Inputs, Sends(p), executed[task] > 0
    PROVE  \A i \in Inputs : i = task /\ OpOf(i) = "turn" => Excused(i)
<1>1. ASSUME NEW i \in Inputs, i = task, OpOf(i) = "turn", ~Excused(i) PROVE FALSE
  <2>1. InAll(i)
    BY <1>1 DEF OrderInv, Handled, HandledAs, Pending
  <2>2. Has(p, i) /\ run[p].stage # "waiting"
    BY <1>1, <2>1 DEF InAll, Sends, OrderInv, Apart
  <2>3. run[p].doing # i \/ run[p].stage # "steer"
    BY <1>1 DEF OrderInv, Channels, Sends
  <2> QED BY <1>1, <2>2, <2>3 DEF Has, Sends
<1> QED BY <1>1

\* Every step preserves Fresh.
LEMMA StepFresh ==
    ASSUME InputsAssumption, ScenariosAssumption, IInv, OrderInv, [Next]_vars
    PROVE  Fresh'
<1>0. /\ Known /\ Marked /\ Handled /\ Fresh /\ \A q \in Inputs : ChannelRun(q)
  BY DEF OrderInv, Channels, ChannelRun
<1>c. \A i : OpOf(i)' = OpOf(i)
  BY SceneStays
<1>1. ASSUME NEW i \in Inputs, executed[i] > 0, ~Excused(i), ~Excused(i)',
             file'[i].kept, ~file'[i].submitted
      PROVE  run'[i].stage \notin {"waiting", "begin"}
  <2>1. file[i].kept /\ ~file[i].submitted => run[i].stage \notin {"waiting", "begin"}
    BY <1>0, <1>1 DEF Fresh
  <2>2. CASE RunStep(i)
    BY <1>0, <1>1, <2>1, <2>2, RunEffects
       DEF Goes, Leaves, Takes, Applies, Cleans, Recovers, NoFile
  <2>3. ASSUME run'[i].stage = run[i].stage, file'[i] = file[i]
        PROVE  run'[i].stage \notin {"waiting", "begin"}
    BY <1>1, <2>1, <2>3
  <2>4. ASSUME NEW q \in Inputs, q # i, RunStep(q)
        PROVE  run'[i].stage \notin {"waiting", "begin"}
    BY <2>3, <2>4, OthersStay
  <2>5. CASE \A q \in Inputs : ~RunStep(q)
    <3>1. ASSUME NEW q \in Inputs, Sends(q)
          PROVE  run'[i].stage = run[i].stage /\ file'[i] = file[i]
      BY <3>1 DEF Sends
    <3>2. CASE Begins
      <4>1. i # task
        BY <1>0, <1>1, <3>2 DEF Handled, HandledAs, Pending, Begins
      <4> QED BY <2>3, <3>2, <4>1 DEF Begins
    <3>3. CASE Crash
      <4>1. i \in Lost /\ exposed' = exposed \cup Lost
        BY <1>1, <3>3 DEF Crash, Lost
      <4> QED BY <1>1, <4>1 DEF Excused
    <3>4. CASE Rests
      BY <2>3, <3>4 DEF Rests
    <3> QED BY <2>3, <2>5, <3>1, <3>2, <3>3, <3>4, LoopEffects
  <2> QED BY <2>2, <2>4, <2>5
<1>2. ASSUME NEW i \in Inputs, executed[i] > 0, ~Excused(i), OpOf(i) = "turn",
             NEW p \in Inputs
      PROVE  i \notin CommandsOf(p)'
  <2>1. i \notin CommandsOf(p)
    BY <1>0, <1>2 DEF Fresh
  <2>2. Sends(p) => i # task
    BY <1>2, SentIsFresh
  <2> QED BY <2>1, <2>2, CommandsGrow
<1>3. ASSUME NEW i \in Inputs, ~Excused(i), Starts(i), NEW p \in Inputs
      PROVE  run'[i].stage = "turn" /\ i \notin CommandsOf(p)'
  <2>1. i \notin CommandsOf(p)
    BY <1>3, CommandApart DEF Starts
  <2>2. ~Sends(p)
    BY <1>3, LoopStays DEF Starts, RunStep, Sends
  <2> QED BY <1>3, <2>1, <2>2, CommandsGrow DEF Starts
<1>4. ASSUME NEW i \in Inputs, ~Excused(i), NEW q \in Inputs, Steers(q, i), NEW p \in Inputs
      PROVE  run'[i].stage \notin {"waiting", "begin"} /\ i \notin CommandsOf(p)'
  <2>1. i \in CommandsOf(q) /\ RunStep(q)
    BY <1>4, FirstCommand DEF Steers, Takes, RunStep
  <2>2. i # q /\ run[i].stage \notin {"waiting", "begin"} /\ run'[i] = run[i]
    BY <1>4, <2>1, CommandApart, OthersStay
  <2>3. CASE p = q
    BY <1>0, <1>4, <2>2, <2>3, CommandTaken DEF Steers
  <2>4. CASE p # q
    <3>1. i \notin CommandsOf(p)
      BY <1>4, <2>1, <2>4, CommandApart
    <3>2. ~Sends(p)
      BY <2>1, LoopStays DEF Sends
    <3> QED BY <2>2, <3>1, <3>2, CommandsGrow
  <2> QED BY <2>2, <2>3, <2>4
<1>5. ASSUME NEW i \in Inputs, executed'[i] > 0, ~Excused(i)'
      PROVE  /\ file'[i].kept /\ ~file'[i].submitted => run'[i].stage \notin {"waiting", "begin"}
             /\ OpOf(i) = "turn" => \A p \in Inputs : i \notin CommandsOf(p)'
  <2>1. ~Excused(i) /\ i \notin exposed'
    BY <1>0, <1>5, ExcusedStays DEF Excused
  <2>2. CASE executed[i] > 0
    BY <1>1, <1>2, <1>5, <2>1, <2>2
  <2>3. CASE ~(executed[i] > 0)
    <3>1. executed'[i] # executed[i]
      BY <1>5, <2>3
    <3> QED BY <1>0, <1>3, <1>4, <2>1, <3>1, ExecutedBy
  <2> QED BY <2>2, <2>3
<1> QED BY <1>5, <1>c DEF Fresh

\* Every step preserves what the invariant is for.
LEMMA StepExecuted ==
    ASSUME InputsAssumption, ScenariosAssumption, IInv, OrderInv, [Next]_vars
    PROVE  ExecutedOnce'
<1>0. /\ Marked /\ Fresh /\ Filed /\ HeldInputs /\ ExecutedOnce /\ executed \in [Inputs -> 0 .. 2]
  BY Counted DEF OrderInv, IInv
<1>1. ASSUME NEW i \in Inputs, executed'[i] > 1 PROVE Excused(i)'
  <2>1. CASE executed'[i] = executed[i]
    BY <1>0, <1>1, <2>1, ExcusedStays DEF ExecutedOnce, Excused
  <2>2. CASE executed'[i] # executed[i]
    <3>0. Executes(i)
      BY <1>0, <2>2, ExecutedBy
    <3>1. executed[i] > 0
      BY <1>0, <1>1, <3>0 DEF Executes
    <3>2. ASSUME Starts(i) PROVE Excused(i)
      BY <1>0, <3>1, <3>2 DEF Starts, Fresh, Filed
    <3>3. ASSUME NEW p \in Inputs, Steers(p, i) PROVE Excused(i)
      <4>1. i \in CommandsOf(p)
        BY <3>3, FirstCommand DEF Steers, Takes
      <4>2. OpOf(i) # "idle" /\ ~Stops(i)
        BY <1>0, <3>3, <4>1 DEF HeldInputs, Held, CommandsOf, Steers
      <4>3. OpOf(i) \in Ops
        BY Scenery DEF IInv
      <4>4. OpOf(i) = "turn"
        BY <4>2, <4>3 DEF Ops, Stops
      <4> QED BY <1>0, <3>1, <4>1, <4>4 DEF Fresh
    <3> QED BY <1>0, <2>2, <3>2, <3>3, ExecutedBy, ExcusedStays DEF Excused
  <2> QED BY <2>1, <2>2
<1> QED BY <1>1 DEF ExecutedOnce, Excused

\* The invariant holds at first.
LEMMA InitOrderInv ==
    ASSUME InputsAssumption, ScenariosAssumption, Init
    PROVE  OrderInv
<1>1. \A i \in Inputs : executed[i] = 0 /\ status[i] = "absent" /\ ~Touched(i)
  BY DEF Init, Touched, Held, NoRun, NoFile
<1>2. Known
  BY <1>1 DEF Init, Known, InputsAssumption
<1>3. Marked /\ Apart
  BY DEF Init, Marked, Apart, NoRun, NoFile
<1>4. Channels
  BY DEF Init, Channels, CommandsOf, Held, NoRun, NoFile
<1>5. InOrder /\ OneAtATime
  BY <1>1 DEF InOrder, OneAtATime
<1>6. \A i \in Inputs : ~(executed[i] > 0) /\ ~(executed[i] > 1)
  BY <1>1
<1>7. Handled /\ Fresh /\ ExecutedOnce
  BY <1>6 DEF Handled, Fresh, ExecutedOnce
<1> QED BY <1>2, <1>3, <1>4, <1>5, <1>7 DEF OrderInv

\* Every step preserves it.
LEMMA StepOrderInv ==
    ASSUME InputsAssumption, ScenariosAssumption, IInv, OrderInv, [Next]_vars
    PROVE  OrderInv'
BY StepKnown, StepMarked, StepChannels, StepApart, StepInOrder, StepOneAtATime, StepHandled,
   StepFresh, StepExecuted DEF OrderInv

-----------------------------------------------------------------------------
(* The theorem *)

\* However Control repeats its offers, and whatever the slots, the channels, lost
\* reports and restarts do, an input reaches the native runtime once, as a turn or as
\* a steer, unless its execution left nothing the Worker looks at (exposed) or another
\* run was started beside a recovered one of its control.
THEOREM OrderedExecution == Spec => []ExecutedOnce
<1>1. Init => OrderInv
  BY InitOrderInv, InputsAssumption, ScenariosAssumption
<1>2. IInv /\ OrderInv /\ [Next]_vars => OrderInv'
  BY StepOrderInv, InputsAssumption, ScenariosAssumption
<1>3. OrderInv => ExecutedOnce
  BY DEF OrderInv
<1> QED BY <1>1, <1>2, <1>3, Invariance, PTL DEF Spec

=============================================================================
