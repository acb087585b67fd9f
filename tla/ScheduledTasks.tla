--------------------------- MODULE ScheduledTasks ---------------------------
(***************************************************************************)
(* One scheduled task: src/internal/scheduledtasks and the tables, indexes *)
(* and trigger of migrations/013_scheduled_tasks.sql.                      *)
(*                                                                         *)
(* Every claim request of a Worker first materialises one due task         *)
(* (MaterializeDueWorker), and the tool calls of running sessions create,  *)
(* update, delete and run the same task.  Each of them is a database       *)
(* transaction of its own.  A transaction is modelled by the row locks it  *)
(* holds between its steps: "picked" has locked the task's row, "clear"    *)
(* has also seen that the task has no unfinished run.  A claim reads the   *)
(* row before it locks it (seen), and goes by what it has read.  The       *)
(* transaction that ends a run locks in the other order, the run's row     *)
(* first (the trigger project_scheduled_task_run_status), so the two can   *)
(* wait for each other; the database then rolls one of them back.          *)
(*                                                                         *)
(* Time counts in units; a schedule is the finite set of its occurrences.  *)
(* The operators introduced as faulty variants above a definition show     *)
(* that the properties can fail.                                           *)
(***************************************************************************)
EXTENDS Naturals, Sequences, FiniteSets

CONSTANTS Claims,     \* concurrent claim requests of the Worker
          Calls,      \* tool calls: each is one update, delete or run_now
          Schedules,  \* the recurrence sets a task can have
          MaxTime,    \* bound on the clock
          MaxFails,   \* bound on lost connections and crashes
          MaxChanges, \* bound on changes of the project and the session
          Gap,        \* MinimumEffectiveInterval
          LongBlock, ShortBlock,  \* the blocks of 5 minutes and of 1 minute
          None

ASSUME TimesAssumption ==
    /\ MaxTime \in Nat /\ Gap \in Nat \ {0} /\ MaxFails \in Nat
    /\ MaxChanges \in Nat
    /\ LongBlock \in Nat \ {0} /\ ShortBlock \in Nat \ {0}
    /\ Schedules \subseteq SUBSET (0 .. MaxTime)
    /\ None \notin Nat /\ Claims \cap Calls = {}

VARIABLES
    clock,      \* the time, of the database and of Control
    task,       \* the row of scheduled_tasks
    runs,       \* the rows of scheduled_task_runs, oldest first
    step,       \* how far the transaction of each claim and each call is
    seen,       \* the row a claim has read, and when its transaction began
    draft,      \* what an update has read and is about to write
    ending,     \* a transaction has ended the unfinished run, uncommitted
    available,  \* availability_status of the project
    lifecycle,  \* lifecycle_state of the session the task belongs to
    busy,       \* that session has another unfinished input
    fails,      \* transactions lost to crashes so far
    changes,    \* changes of the project and the session so far
    stale       \* history: an update overwrote a row it had not read

vars == <<clock, task, runs, step, seen, draft, ending, available, lifecycle,
          busy, fails, changes, stale>>
world == <<available, lifecycle, busy, changes>>

Times == 0 .. MaxTime
Statuses == {"absent", "active", "paused", "completed", "deleted"}
Row == [kind : {"standalone", "heartbeat"}, status : Statuses,
        schedule : Schedules, next : Times \cup {None},
        blocked : (0 .. MaxTime + LongBlock + ShortBlock) \cup {None},
        revision : Nat]
Run == [key : {"scheduled"} \X Nat \X Times \cup {"run_now"} \X Calls,
        for : Times, through : Times \cup {None}, active : BOOLEAN]

TypeOK ==
    /\ clock \in Times /\ task \in Row /\ runs \in Seq(Run)
    /\ step \in [Claims \cup Calls ->
                    {"idle", "looked", "picked", "clear", "drafted", "done"}]
    /\ seen \in [Claims -> [row : Row, at : Times] \cup {None}]
    /\ \A c \in Claims : step[c] \in {"looked", "picked", "clear"} =>
                             seen[c] \in [row : Row, at : Times]
    /\ draft \in [Calls -> [read : Row, write : Row] \cup {None}]
    /\ \A k \in Calls : step[k] = "drafted" =>
                             draft[k] \in [read : Row, write : Row]
    /\ ending \in BOOLEAN /\ available \in BOOLEAN /\ busy \in BOOLEAN
    /\ lifecycle \in {"active", "archiving", "archived", "restoring"}
    /\ fails \in 0 .. MaxFails /\ changes \in 0 .. MaxChanges
    /\ stale \in BOOLEAN

-----------------------------------------------------------------------------
(* Schedules: FirstAfter and NextAfterOccurrence of schedule.go.           *)

Earliest(S) == IF S = {} THEN None
               ELSE CHOOSE t \in S : \A u \in S : t <= u
FirstAfter(schedule, now) == Earliest({t \in schedule : t > now})

\* Faulty variants: the next occurrence counts from the answered one even
\* when that is past; or the schedule is not asked.
NextUnlate(schedule, current, now) ==
    Earliest({t \in schedule : t >= current + Gap})
NextBlind(schedule, current, now) == current + Gap

NextAfterOccurrence(schedule, current, now) ==
    IF now < current + Gap
      THEN Earliest({t \in schedule : t >= current + Gap})
      ELSE FirstAfter(schedule, now)

\* advanceTaskTx, of a row by one that was read before.  Faulty variant: the
\* occurrence stays due.
AdvanceKept(row, read, now) == [row EXCEPT !.blocked = None]

Advance(row, read, now) ==
    LET next == NextAfterOccurrence(read.schedule, read.next, now)
    IN  [row EXCEPT !.status = IF next = None THEN "completed" ELSE "active",
                    !.next = next, !.blocked = None]

-----------------------------------------------------------------------------
(* Rows and locks.                                                         *)

Unfinished == {i \in 1 .. Len(runs) : runs[i].active}
DueAt(now) == /\ task.status = "active" /\ task.next # None /\ task.next <= now
              /\ task.blocked # None => task.blocked <= now
Due == DueAt(clock)

\* The task's row is locked by a transaction that is between two steps.
Locked == \E x \in Claims \cup Calls : step[x] \in {"picked", "clear"}

\* activeRunTx locks the unfinished run: it waits for a transaction that has
\* written that row, and then no longer finds the run.
SeesRun == ~ending /\ Unfinished # {}
SeesNoRun == ~ending /\ Unfinished = {}

\* The unique indexes of scheduled_task_runs accept a run with this key.
Fits(key) == Unfinished = {} /\ \A i \in 1 .. Len(runs) : runs[i].key # key

\* The trigger key of the occurrence a claim has read as due.
DueKey(c) == <<"scheduled", seen[c].row.revision, seen[c].row.next>>

\* materializeTaskTx: the input is queued and the run inserted, or the whole
\* transaction is rolled back.
InsertRun(key, for, through) ==
    runs' = Append(runs, [key |-> key, for |-> for, through |-> through,
                          active |-> TRUE])

Goto(x, s) == step' = [step EXCEPT ![x] = s]

\* The transaction of a claim is over.
Over(c) == Goto(c, "idle") /\ seen' = [seen EXCEPT ![c] = None]

-----------------------------------------------------------------------------
(* Create: the row as the tool call "create" inserts it.                   *)

Create(kind, schedule) ==
    /\ task.status = "absent" /\ lifecycle = "active"
    /\ LET next == FirstAfter(schedule, clock)
       IN  task' = [kind |-> kind, schedule |-> schedule, next |-> next,
                    status |-> IF next = None THEN "completed" ELSE "active",
                    blocked |-> None, revision |-> 1]
    /\ UNCHANGED <<clock, runs, step, seen, draft, ending, world, fails, stale>>

-----------------------------------------------------------------------------
(* MaterializeDueWorker.                                                   *)

\* The statement reads by its snapshot, also what it returns.
Look(c) ==
    /\ step[c] = "idle" /\ Due
    /\ Goto(c, "looked")
    /\ seen' = [seen EXCEPT ![c] = [row |-> task, at |-> clock]]
    /\ UNCHANGED <<clock, task, runs, draft, ending, world, fails, stale>>

\* FOR UPDATE SKIP LOCKED locks the newest row, if nobody has it and it is still
\* due; now() is when the transaction began.
Pick(c) ==
    /\ step[c] = "looked"
    /\ IF ~Locked /\ DueAt(seen[c].at) THEN Goto(c, "picked") /\ UNCHANGED seen
                                       ELSE Over(c)
    /\ UNCHANGED <<clock, task, runs, draft, ending, world, fails, stale>>

Postpone(c) ==
    /\ step[c] = "picked" /\ ~available
    /\ task' = [task EXCEPT !.blocked = seen[c].at + LongBlock]
    /\ Over(c)
    /\ UNCHANGED <<clock, runs, draft, ending, world, fails, stale>>

\* The unfinished run also answers this occurrence.
Coalesce(c) ==
    /\ step[c] = "picked" /\ available /\ SeesRun
    /\ runs' = [i \in 1 .. Len(runs) |->
                  IF i \in Unfinished THEN [runs[i] EXCEPT !.through = clock]
                  ELSE runs[i]]
    /\ task' = Advance(task, seen[c].row, clock)
    /\ Over(c)
    /\ UNCHANGED <<clock, draft, ending, world, fails, stale>>

\* blockHeartbeatTx.
HeartbeatWaits == task.kind = "heartbeat" /\ (lifecycle # "active" \/ busy)

Hold(c) ==
    /\ step[c] = "picked" /\ available /\ SeesNoRun /\ HeartbeatWaits
    /\ task' = IF lifecycle = "archived"
                 THEN [task EXCEPT !.status = "paused", !.next = None,
                                   !.blocked = None]
                 ELSE [task EXCEPT !.blocked = seen[c].at + ShortBlock]
    /\ Over(c)
    /\ UNCHANGED <<clock, runs, draft, ending, world, fails, stale>>

Clear(c) ==
    /\ step[c] = "picked" /\ available /\ SeesNoRun /\ ~HeartbeatWaits
    /\ Goto(c, "clear")
    /\ UNCHANGED <<clock, task, runs, seen, draft, ending, world, fails, stale>>

Start(c) ==
    /\ step[c] = "clear"
    /\ LET read == seen[c].row IN
       IF Fits(DueKey(c))
         THEN /\ InsertRun(DueKey(c), read.next,
                           IF clock > read.next THEN clock ELSE None)
              /\ task' = Advance(task, read, clock)
         ELSE UNCHANGED <<task, runs>>
    /\ Over(c)
    /\ UNCHANGED <<clock, draft, ending, world, fails, stale>>

-----------------------------------------------------------------------------
(* The tool calls.  beginToolCall lets each call act once; a call that     *)
(* fails, or is lost, stays done.                                          *)

Begin(k) ==
    /\ step[k] = "idle" /\ task.status # "absent" /\ ~Locked
    /\ Goto(k, IF task.status = "deleted" THEN "done" ELSE "picked")
    /\ UNCHANGED <<clock, task, runs, seen, draft, ending, world, fails, stale>>

\* RunNow answers with the unfinished run.
Reuse(k) ==
    /\ step[k] = "picked" /\ SeesRun
    /\ Goto(k, "done")
    /\ UNCHANGED <<clock, task, runs, seen, draft, ending, world, fails, stale>>

CallClear(k) ==
    /\ step[k] = "picked" /\ SeesNoRun
    /\ Goto(k, "clear")
    /\ UNCHANGED <<clock, task, runs, seen, draft, ending, world, fails, stale>>

\* runSessionTx refuses a heartbeat whose session cannot be written.
StartNow(k) ==
    /\ step[k] = "clear"
    /\ IF Fits(<<"run_now", k>>)
          /\ (task.kind = "heartbeat" => lifecycle = "active")
         THEN InsertRun(<<"run_now", k>>, clock, None)
         ELSE UNCHANGED runs
    /\ Goto(k, "done")
    /\ UNCHANGED <<clock, task, seen, draft, ending, world, fails, stale>>

Delete(k) ==
    /\ step[k] = "idle" /\ ~Locked
    /\ task.status \notin {"absent", "deleted"}
    /\ task' = [task EXCEPT !.status = "deleted", !.next = None,
                            !.blocked = None, !.revision = @ + 1]
    /\ Goto(k, "done")
    /\ UNCHANGED <<clock, runs, seen, draft, ending, world, fails, stale>>

\* What Update writes for a row it has read, by request: other texts or
\* settings, a new status, a new schedule.
Updated(row) ==
    LET resumed(s) == [row EXCEPT !.status = "active", !.schedule = s,
                                  !.next = FirstAfter(s, clock)]
    IN  {row}
          \cup {[row EXCEPT !.status = "paused", !.next = None,
                           !.schedule = s] : s \in Schedules}
          \cup {resumed(s) : s \in {s \in Schedules :
                                      FirstAfter(s, clock) # None}}
          \cup (IF row.status = "completed"
                THEN {[row EXCEPT !.schedule = s] : s \in Schedules} ELSE {})

\* Update reads without a lock, ...
Draft(k) ==
    /\ step[k] = "idle" /\ task.status \notin {"absent", "deleted"}
    /\ \E row \in Updated(task) :
          draft' = [draft EXCEPT ![k] = [read |-> task, write |-> row]]
    /\ Goto(k, "drafted")
    /\ UNCHANGED <<clock, task, runs, seen, ending, world, fails, stale>>

\* ... and writes every field it read, the status and the next run included.
\* Faulty variants: the write revives a deleted task; or the revision, part
\* of the trigger key, stays.
WriteDeleted(k) ==
    /\ step[k] = "drafted" /\ ~Locked
    /\ task' = [draft[k].write EXCEPT !.blocked = None,
                                      !.revision = task.revision + 1]
    /\ stale' = (stale \/ task # draft[k].read)
    /\ draft' = [draft EXCEPT ![k] = None]
    /\ Goto(k, "done")
    /\ UNCHANGED <<clock, runs, seen, ending, world, fails>>

WriteRevisionKept(k) ==
    /\ step[k] = "drafted" /\ ~Locked
    /\ IF task.status = "deleted" THEN UNCHANGED <<task, stale>>
       ELSE /\ task' = [draft[k].write EXCEPT !.blocked = None]
            /\ stale' = (stale \/ task # draft[k].read)
    /\ draft' = [draft EXCEPT ![k] = None]
    /\ Goto(k, "done")
    /\ UNCHANGED <<clock, runs, seen, ending, world, fails>>

Write(k) ==
    /\ step[k] = "drafted" /\ ~Locked
    /\ IF task.status = "deleted" THEN UNCHANGED <<task, stale>>
       ELSE /\ task' = [draft[k].write EXCEPT !.blocked = None,
                                              !.revision = task.revision + 1]
            /\ stale' = (stale \/ task # draft[k].read)
    /\ draft' = [draft EXCEPT ![k] = None]
    /\ Goto(k, "done")
    /\ UNCHANGED <<clock, runs, seen, ending, world, fails>>

-----------------------------------------------------------------------------
(* The run's input ends: project_scheduled_task_run_status.                *)

BeginEnd ==
    /\ Unfinished # {} /\ ~ending /\ ending' = TRUE
    /\ UNCHANGED <<clock, task, runs, step, seen, draft, world, fails, stale>>

CommitEnd ==
    /\ ending /\ ~Locked
    /\ runs' = [i \in 1 .. Len(runs) |-> [runs[i] EXCEPT !.active = FALSE]]
    /\ ending' = FALSE
    /\ UNCHANGED <<clock, task, step, seen, draft, world, fails, stale>>

\* The database finds that x waits for the run's row and the ending run for
\* the task's row, and rolls one of the two back.
Waits(x) == step[x] = "picked" /\ ending /\ (x \in Claims => available)
RolledBack(x) ==
    IF x \in Claims THEN Over(x) ELSE Goto(x, "done") /\ UNCHANGED seen

Victim(x) ==
    /\ Waits(x)
    /\ \/ ending' = FALSE /\ UNCHANGED <<step, seen>>
       \/ RolledBack(x) /\ UNCHANGED ending
    /\ UNCHANGED <<clock, task, runs, draft, world, fails, stale>>

\* A crash of Control or a lost connection rolls a transaction back.
Fail(x) ==
    /\ fails < MaxFails /\ step[x] \in {"looked", "picked", "clear", "drafted"}
    /\ RolledBack(x)
    /\ IF x \in Calls THEN draft' = [draft EXCEPT ![x] = None]
       ELSE UNCHANGED draft
    /\ fails' = fails + 1
    /\ UNCHANGED <<clock, task, runs, ending, world, stale>>

-----------------------------------------------------------------------------
(* The rest of the world.                                                  *)

Tick ==
    /\ clock < MaxTime /\ clock' = clock + 1
    /\ UNCHANGED <<task, runs, step, seen, draft, ending, world, fails, stale>>

Change == changes < MaxChanges /\ changes' = changes + 1

ProjectChanges ==
    /\ Change /\ available' = ~available
    /\ UNCHANGED <<clock, task, runs, step, seen, draft, ending, lifecycle, busy,
                   fails, stale>>

\* The session takes, or finishes, an input of its own.
SessionInput ==
    /\ task.kind = "heartbeat"
    /\ Change /\ busy' = ~busy
    /\ UNCHANGED <<clock, task, runs, step, seen, draft, ending, available,
                   lifecycle, fails, stale>>

\* A heartbeat that was let through holds the session's row.
SessionMoves ==
    /\ task.kind = "heartbeat" /\ \A c \in Claims : step[c] # "clear"
    /\ Change
    /\ lifecycle' = CASE lifecycle = "active" -> "archiving"
                      [] lifecycle = "archiving" -> "archived"
                      [] lifecycle = "archived" -> "restoring"
                      [] lifecycle = "restoring" -> "active"
    /\ UNCHANGED <<clock, task, runs, step, seen, draft, ending, available, busy,
                   fails, stale>>

-----------------------------------------------------------------------------
\* How many claims, calls, failures and changes there still can be differs.
Init ==
    /\ clock = 0 /\ runs = <<>> /\ ending = FALSE
    /\ \E kind \in {"standalone", "heartbeat"}, s \in Schedules :
          task = [kind |-> kind, status |-> "absent", schedule |-> s,
                  next |-> None, blocked |-> None, revision |-> 0]
    /\ \E made \in SUBSET (Claims \cup Calls) :
          step = [x \in Claims \cup Calls |->
                    IF x \in made THEN "done" ELSE "idle"]
    /\ seen = [c \in Claims |-> None] /\ draft = [k \in Calls |-> None]
    /\ available = TRUE /\ lifecycle = "active" /\ busy = FALSE
    /\ fails \in 0 .. MaxFails /\ changes \in 0 .. MaxChanges
    /\ stale = FALSE

Materialize(c) == \/ Look(c) \/ Pick(c) \/ Postpone(c) \/ Coalesce(c)
                  \/ Hold(c) \/ Clear(c) \/ Start(c)
ToolCall(k) == \/ Begin(k) \/ Reuse(k) \/ CallClear(k) \/ StartNow(k)
               \/ Delete(k) \/ Draft(k) \/ Write(k)

Next ==
    \/ Create(task.kind, task.schedule)
    \/ \E c \in Claims : Materialize(c)
    \/ \E k \in Calls : ToolCall(k)
    \/ \E x \in Claims \cup Calls : Victim(x) \/ Fail(x)
    \/ BeginEnd \/ CommitEnd
    \/ Tick \/ ProjectChanges \/ SessionInput \/ SessionMoves

\* The steps of a transaction that wait for the run's row, if anything.
Decide == \/ \E c \in Claims : Postpone(c) \/ Coalesce(c) \/ Hold(c) \/ Clear(c)
          \/ \E k \in Calls : Reuse(k) \/ CallClear(k)
Insert == (\E c \in Claims : Start(c)) \/ (\E k \in Calls : StartNow(k))

\* A Worker goes on claiming, a transaction goes on to its end, and the
\* database serves those that wait for a row in turn and breaks every cycle
\* of them.  That a run ends, or that time passes, is not assumed.
Fairness ==
    /\ WF_vars(\E c \in Claims : Look(c)) /\ WF_vars(\E c \in Claims : Pick(c))
    /\ SF_vars(Decide) /\ WF_vars(Insert) /\ SF_vars(CommitEnd)
    /\ WF_vars(\E x \in Claims \cup Calls : Victim(x))

Spec == Init /\ [][Next]_vars /\ Fairness

-----------------------------------------------------------------------------
(* Properties.                                                             *)

\* A transaction that is about to insert a run never meets a unique index: a
\* refused insert fails the claim request, and if it did so for the row as it
\* is, every later one too, so that the Worker would get no work at all
\* (materialize.go:78).  Only a claim that goes by an older row may meet one,
\* when that row has run and an update has made it due again.
InsertsFit ==
    /\ \A c \in Claims :
          step[c] = "clear" /\ (stale => seen[c].row.revision = task.revision)
              => Fits(DueKey(c))
    /\ \A k \in Calls : step[k] = "clear" => Fits(<<"run_now", k>>)

Scheduled(i) == runs[i].key[1] = "scheduled"
\* The last moment whose occurrences run i answers.
Reach(i) == IF runs[i].through # None THEN runs[i].through
            ELSE IF Scheduled(i) THEN runs[i].for ELSE 0

\* No occurrence is answered by two runs, ...
NoneTwice ==
    \A i, j \in 1 .. Len(runs) :
        i < j /\ Scheduled(j) =>
            /\ runs[j].for > Reach(i)
            /\ Scheduled(i) /\ runs[i].key[2] = runs[j].key[2] =>
                  runs[j].for >= runs[i].for + Gap

\* ... and none after the first that ran is passed over, but for those
\* within the minimum interval after an answered moment.
NoneSkipped ==
    task.status \in {"active", "completed"} =>
        \A i \in 1 .. Len(runs) :
            Scheduled(i) /\ runs[i].key[2] = task.revision =>
                \A t \in task.schedule :
                    t > runs[i].for /\ (task.next # None => t < task.next) =>
                        \E l \in 1 .. Len(runs) : t < Reach(l) + Gap

\* Claims, calls, ending runs and crashes in any order leave each occurrence
\* answered once; only an update that wrote over a row changed since it read
\* it makes one run again (task_mutation.go:37).
AnsweredOnce == (~stale => NoneTwice) /\ NoneSkipped

\* A deleted task stays as it is and starts no run, whatever transaction was
\* under way when it was deleted.
DeletedIsFinal ==
    [][task.status = "deleted" => task' = task /\ Len(runs') = Len(runs)]_vars

\* No task stays due: it is run, answered by its unfinished run, put off or
\* stopped, although claims, tool calls and the end of its run lock its rows
\* in different orders (013_scheduled_tasks.sql:120).
DueIsAnswered == Due ~> ~Due

=============================================================================
