# tyrs-hand, specified in TLA+

This directory specifies parts of tyrs-hand in TLA+, checks them with TLC on
small instances and proves what matters most with TLAPS. Definitions are
translated from the Go source (`src/internal/...`) and the SQL schema.
`PROJECT.json` maps each definition to the lines it stands for.

    tlasany ControlRuns.tla                                    # parse
    tlc -config control_runs.cfg MCControlRuns.tla             # model-check
    tlapm ControlRunsProofs.tla                                # check the proofs
    tlapm ControlRunsFinality.tla
    tlapm EventRelayProofs.tla
    tlapm TurnDispatchProofs.tla
    tlapm TurnDispatchOnce.tla
    tlapm ScheduledTasksProofs.tla
    tlapm DiscordOutboxProofs.tla
    tlapm DiscordOutboxShown.tla

## The system

A **Control** server (PostgreSQL, HTTP) owns projects, sessions and user
inputs. **Worker** hosts run coding agents (Codex and Claude app-servers) and
talk to Control over HTTP. Users speak to a session from **Discord**, from web
and mobile **clients**, or from a **Desktop** application attached to the
Worker. Control queues what they say; the Worker fetches it, decides alone
whether it starts a turn, is steered into the turn that is running or interrupts
it, executes it, and reports afterwards.

| Part | State | Operations | What makes it correct | Here |
|---|---|---|---|---|
| Control ledger (`codexcontrol`, `httpapi/worker_runs.go`, `worker_api.go`) | rows of intents, runs, controls | enqueue, fetch, start, thread, submission, confirmation, acknowledge, complete, fail, cancel | follows the Worker's decisions whatever the order, loss and repetition of reports; terminal states are final; one execution slot per control | `ControlRuns` |
| Interactive requests (`httpapi/worker_interactive.go`, `client_interactive.go`, `client_messages.go`) | request rows, execution slot of the run | register, answer, expire, skip, interrupt, resume | one answer per question; no question outlives its run; the answered run gets its slot back | `ControlRuns` |
| Stop and edits (`client_session_actions.go`, `gateway_state.go`, `message_edits.go`) | the queue of a control | cancel queued inputs, interrupt, replace the last turn | a stop that commits first wins; nothing else is canceled | `ControlRuns` (rows only) |
| Worker turn execution (`worker/runner.go`, `runtime_executor.go`, `run_coordinator.go`, `remote_*.go`, `journal.go`) | journals on disk; coordinator, tombstones, slots, command channels in memory | claim loop, route, execute, synchronise, deliver, recover | an accepted input runs once; nothing accepted is lost; a crash resumes | `TurnDispatch`; its durable facts also in `ControlRuns` |
| Event relay (`remote_execute.go`, `journal.go`, `desktop_controller.go`, `worker_runs.go`) | numbered pending events on disk, last sequence and event rows of the run | report, save, flush, accept, back off, recover | each event recorded once, in order, without holes; what was saved arrives | `EventRelay`, `EventLog` |
| Wake-ups (`control_wake.go`, `worker_wake.go`) | pending kinds, a signal channel | notify, wait, take | a notified kind is eventually served | the claim kind, in `TurnDispatch` |
| Discord outbox (`discordintegration/outbox.go`) | operations with status, lease, revision | enqueue, claim, record, apply, retry, fail, resolve | no delivery of unknown outcome is repeated; Discord ends with the newest revision and nothing else; every row comes to an end | `DiscordOutbox` (messages of projections) |
| Scheduled tasks (`scheduledtasks`, `013_scheduled_tasks.sql`) | task rows, run rows | create, update, delete, run now, materialise, end of a run | one unfinished run per task; each occurrence answered once; no task stays due for ever | `ScheduledTasks` |
| Session titles (`worker/session_titles.go`, `httpapi/worker_session_titles.go`) | leased tasks | claim, report | the newest request wins | not yet |
| Desktop queue and turns (`worker/host_*.go`, `desktop_*.go`) | journal of host requests, execution slot | prepare, execute, recover | no parallel turns in a thread | not yet |
| App-server hub (`appserverhub`) | connections, pending requests, thread owners, events held back while a thread is being created | route requests, events and interactions, reconnect | an answer reaches who asked; a thread's events keep their order and reach who may see them | not yet |
| Client synchronisation (`client_updates.go`, `client_sync.go`) | ordered update log | append, read since | no gap | retired: no route reaches it (`router_test.go` asserts so) |
| The rest: Discord projections, GitHub orchestration (its claim path answers 410 Gone), registry and configuration, accounts and secrets, live voice, process management, user interfaces | | | | not modelled: rendering, external services or single-row requests |

The parts interact through HTTP calls (Worker to Control), through rows (the
request handlers of Control), through journal files (a Worker process and the
one that replaces it), and inside a Worker through channels and mutexes.

What is hard about it: the Worker's decisions are made without Control and
reported by loops that repeat until they succeed, so Control sees them late,
twice, in another order and after stops, edits and newer runs; the terminal
request is checked and written in two transactions; the user's answer, its
deadline and the end of the run race; processes die between an effect and the
record of it. `PROJECT.json` lists these hazards with the line where each bites
and the properties that cover it.

## Modules

| Module | Content |
|---|---|
| `ControlRuns` | the ledger, the questions, and the Worker as the source of reports |
| `MCControlRuns` | instance: inputs, replacement, stop, displaced runs, concurrent terminal requests |
| `MCControlInteractive` | instance: questions, skips, resumption |
| `ControlRunsProofs`, `ControlRunsFinality` | theorems about `ControlRuns`: its invariants; what no later step may undo, and what ends with a run |
| `DiscordOutbox` | the outbox, its dispatchers, the projections it serves, and Discord |
| `MCDiscordOutbox` | instance: one card, one or two dispatchers |
| `DiscordOutboxProofs`, `DiscordOutboxShown` | theorems about `DiscordOutbox`: its rows and leases; what Discord shows in the end |
| `EventRelay` | how the events and the end of one run reach Control |
| `EventLog` | the abstract specification `EventRelay` implements: a numbered log that only grows |
| `MCEventRelay` | instance: one run of either kind |
| `EventRelayProofs` | theorems about `EventRelay`, the refinement among them |
| `TurnDispatch` | the Worker's claim loop, its coordinator, slots, runs and Journals |
| `MCTurnDispatch` | instance: five scenarios of two or three inputs |
| `ScheduledTasks` | one scheduled task, its runs, and the transactions that touch them |
| `MCScheduledTasks` | instance: five scenarios of one or two claims and one or two tool calls |
| `TurnDispatchProofs`, `TurnDispatchOnce` | theorems about `TurnDispatch`: slots, turns and memory; that an input is executed once |
| `ScheduledTasksProofs` | theorems about `ScheduledTasks` |

Two modules meet the same code from different sides. In `ControlRuns` the Worker
is a source of reports in any order, and Control is detailed; in `TurnDispatch`
and `EventRelay` the Worker is detailed, and Control is what it answers. The
first assumes of the Worker only what its Journals force on it (an input is
accepted or steered once, an outcome is recorded once), and the other two check
where the Worker keeps to that and where it does not.

### ControlRuns

One action is one database transaction of Control or one durable step of the
Worker.

| Variable | Code |
|---|---|
| `intents` | `codex_turn_intents`: `status`, `resolved_action`, `codex_submission_id`, `confirmed_codex_turn_id` |
| `runs` | `codex_turn_runs`: `status`, `primary_intent_id`, `active_slot` (0 stands for NULL), `append_count` |
| `controls` | `codex_thread_controls`: `status`, `active_intent_id`, `active_codex_turn_id` |
| `requests` | `codex_interactive_requests`: `status`, `run_id` |
| `handlers` | complete/fail requests between their check and their commit |
| `journal` | the run's journal file: input, ids observed natively, outcome. `started` remembers every id a turn/start returned, for submissions sent before a crash |
| `routed` | the decision the Worker made for each input (journal task or `AppliedInputs`) |
| `offered` | inputs a claim response handed to the Worker that it has not decided |

| Actions | Code |
|---|---|
| `Enqueue`, `ClientMessage`, `Stop` | `Repository.Enqueue` through Discord, clients and schedules; `clientCreateMessage` when it skips a question; `clientStopSession` and `ConversationService.Stop` |
| `Fetch`, `Discard` | `workerClaim`/`PendingWorkerInput`; the cases of the claim loop that drop the input |
| `Accept`, `StartTurn`, `TurnStarted`, `Steer`, `Interrupt`, `Conclude` | the claim loop's new run, turn/start, turn/started or the snapshot, applied commands, the saved result |
| `StartWorkerInput`, `SetThread`, `RecordSubmission`, `ConfirmTurn`, `AckSteer`, `AckInterrupt` | the repository methods and `ackWorkerInput` |
| `RegisterInteractive`, `AnswerInteractive`, `ExpireInteractive`, `TryResumeInteractive` | the handlers of `worker_interactive.go`; `clientAnswerInteractive` |
| `BeginFinish`, `CommitFinish`, `AbortFinish` | `remoteRunAlreadyFinished` with `claimedRemoteRun`, then `finishWithCodexError` |

The network is not a variable. A report is enabled as long as the Worker's
durable facts justify it, from the moment they exist and for ever after: this
is loss, delay, repetition and reordering at once. It is also why a crash of the
Worker needs no action: a crash forgets volatile state, and the actions of the
Worker use only durable facts (`offered` can be emptied by `Discard`).

The specification is deliberately generous in four places. `Fetch` lets the
Worker claim to be active on any subset of the controls where it has a local
run, because a recovered run that waits for a slot is not registered with the
coordinator. A replacement that interrupted the running turn may be fetched
again and started, which the code does only after a restart. `Conclude` may
fail a run at any time (timeouts, errors and shutdown all do). A request handler
may die between its transactions (`AbortFinish`).

Abstracted: contents of inputs, answers and errors; lease columns, which this
path always clears; `remote_status`; the copies of submission and confirmed ids
in the run row, which nothing modelled reads; `attempt_count`; delivery columns.
A repeated `Enqueue` (same idempotency key) changes nothing and is a stutter.
Left out: the lease path (`claimSource`, `Reconcile`, `RequeueExpired`: no
caller in this version), with the statuses only it writes; archiving of
sessions; Desktop-originated turns; the administrative reset; availability
times; the recorded audit and client updates.

### DiscordOutbox

| Variable | Code |
|---|---|
| `rows` | `integration_outbox` by `operation_key`: `status`, the request, `request_revision`, the inflight request and revision, `attempt_count`, `response`, the lease |
| `projections` | `discord_projections`: whether the row exists, `message_id`, `desired_version`, `applied_version` |
| `held` | the `OutboxItem` a dispatcher works on and how far it is; lost in a crash |
| `remote` | Discord: each message with its content (a version) and nonce |
| `accepted` | history: what Discord answered it has done |

| Actions | Code |
|---|---|
| `Project`, `Drop` | the transactions that change or delete a projection and enqueue for it: `ProjectConversationStatus`, `ProjectConversationReply`, `ExpireConversationPlanCards`, `desktop_input.go` |
| `ClaimDelivery`, `ClaimApplication`, `ClaimNothing` | the three ends of `SQLoutbox.Claim`; each takes back expired deliveries first (`Swept`) |
| `SendCreate`, `SendUpdate`, `SendReplacement`, `SendDelete`, `SendFails` | `DisgoRemote.Send` and `classifyRemoteError` |
| `RecordDelivery`, `RetryDelivery`, `FailDelivery`, `Apply`, `ApplyFails`, `LoseLease` | the rest of `Dispatcher.RunOnce` |
| `Resolve` | `ResolveAmbiguousDelivery` by an operator who found the message |
| `Crash`, `LeaseExpires` | a process dies; 30 seconds pass, whatever the holder does |

A dispatcher that lost its lease goes on sending, as the code does: only its
conditional writes fail. Content is the version of the projection; versions
count on when a dropped projection is wanted again (the code restarts them in a
new row), so that they identify contents. `attempts` saturates at
`max_attempts`. The token of a lease is the dispatcher that holds it, which
forgets its item before it claims another.

Abstracted: due times and the order of claims (any due row may be next, and
waiting ends), `apply_attempt_count` (it only sets the delay), routes, payloads
and errors. Left out: the other kinds of operation and what applying them does
to other tables, promotion of a waiting status card, and updates of an archived
thread, which the code counts as done without sending them.

### EventRelay

One run; runs share no state on this path. The number of an event is the order
in which the runtime reported it, `seq` is the number the Journal gave it.

| Variable | Code |
|---|---|
| `kind`, `reporter` | a claimed turn (`runJournal`) or a turn started on the Desktop (`desktopEventReporter`, and after a restart `runJournal`) |
| `step` | where that code is |
| `journal`, `disk`, `file` | the `Journal` in memory, as last saved, and whether the file still exists |
| `awaiting`, `answer`, `late` | the request under way, Control's answer, and requests given up that Control may yet execute |
| `uploaded` | what the last upload left behind (`flushErr`) |
| `rows`, `last`, `run` | `agent_events`, `worker_event_sequence`, the run's row |
| `reported`, `durable` | histories: events reported, events that were on disk |

| Actions | Code |
|---|---|
| `Report`, `TickUploads`, `ProcessEnds` | `report`, the flush ticker, the saved outcome |
| `RegisterInBackground`, `Register`, `AwaitRegistration` | the report of the start beside the turn, and before its end |
| `UploadRest`, `UploadAnswered`, `ReportEnd`, `EndAnswered`, `Settle`, `GiveUp` | `flushLocked`, the terminal request, removal of the file, `Backoff` and its limits |
| `ControlHandles`, `ControlHandlesLate` | `workerRunEvents` and the terminal handler, for the request under way or one given up |
| `Crash`, `Restart`, `Resync`, `Resume` | the Worker stops; `recoverJournals`; a Desktop turn is registered before it is observed again; pending events go first |

Abstracted: contents of events and delays (only attempts count). A save that fails leaves the old file; a failure after the rename counts as one,
as it leaves memory and disk equal. `Done` is a stutter.

Left out: the interactive and synchronisation requests that share the Journal,
and the audit copies Control makes of an event.

### TurnDispatch

One engine of one Worker. There is one run per primary input, named by it, and
inputs are numbered by their time of creation, which is the order in which they
are committed.

| Variable | Code |
|---|---|
| `status` | Control: the input is absent, queued, or its decision is known (`resolved_action`) |
| `loop`, `ask`, `task` | where `Runner.Run` is, the selection it sent, the input Control answered |
| `rung`, `signalled` | `wakeSignals`: the pending kind, and whether the signal the loop waits on was closed |
| `run`, `active` | `runJournal` and `runCoordinator`: stage, slot, command channel, reservations, counted steers; the runs registered |
| `remembered` | `acceptedInputs` |
| `used`, `file` | `turnSlots`, and the Journals on disk |
| `executed` | history: how often an input reached the native runtime |
| `exposed`, `beside` | histories: inputs whose execution the Worker cannot see; inputs of a control with a run beside a recovered one |

| Actions | Code |
|---|---|
| `Arrive` | an input is committed; its wake-up may be lost |
| `Check`, `Arm`, `Signal`, `Timer` | `wakeSignals.Wait` between its two looks, and the fallback timer |
| `Claim`, `Answer` | the request with the active controls and free slots of the moment; `PendingWorkerInput` |
| `Decide`, `Accept` | `route` to a registered run, or a new run with its Journal saved first |
| `Begin`, `SaveEvent`, `TakeCommand`, `MarkApplied`, `EndTurn` | the native turn, its steers and interrupts, each before the record of it; a submitted turn the runtime does not list starts again |
| `SaveResult`, `Remember`, `Unregister`, `Deliver`, `Remove` | the end of a run and its deferred calls, in their order |
| `ReportStart`, `ReportDecision` | the state synchronisation and the eventual acknowledgements |
| `Crash`, `Recover`, `Clean` | the Worker stops; Journals wait for a slot; a delivered one only goes |

A run's applied inputs exist twice, in memory (`run[p].applied`) and on disk
(`file[p].applied`): every save writes what memory holds, and the error of the
one in `markApplied` is ignored. An answer of turn/steer may be lost after the
native side took the steer: the run rejects the command, and Control offers it
again. The constant `faults` of a scenario says whether these two happen.

Abstracted: `signalled` is kept only while the loop sleeps; a failed claim is
`AnswerNothing`, as an empty queue is; whether a saved event had announced a
submitted turn that is not listed is left open (with one the run fails, which is
`EndTurn`); `Deliver` stands for the synchronisation and the terminal
request that follow each other. Native turns survive a restart of the Worker, as
the app-server is another process.

Left out: the preparation of a turn (workspace, thread, settings), refused and
abandoned reports (`EventRelay` has them), Desktop and SSH work that shares the
slots, wake-ups of other kinds (their loops fetch all there is), the fan-out
through Redis, graceful shutdown.

### ScheduledTasks

One task and its runs. A transaction is modelled by the row locks it holds:
`picked` has locked the task's row, `clear` has also seen that no run is
unfinished. A claim has read the row before that (`looked`): only the inner query
of its statement locks the newest row and checks that again, the outer one
returns what its snapshot shows. The claim goes by that row: an update in between
makes it start the old occurrence under the old revision, and write the next
occurrence of the old schedule into the new row.

| Variable | Code |
|---|---|
| `task` | `scheduled_tasks`: kind, status, schedule, next run, blocked until, revision |
| `runs` | `scheduled_task_runs`: idempotency key, the occurrence, through which coalesced ones it answers, unfinished or ended |
| `step` | how far the transaction of each claim request and tool call is |
| `seen` | the row a claim has read, and when its transaction began |
| `draft` | what `Update` has read, and what it will write |
| `ending` | the trigger holds the run's row and has not committed |
| `available`, `lifecycle`, `busy` | project, session, and other inputs of the session |
| `clock` | `now()` of the database and `s.now()` of Control |
| `stale` | history: an update wrote over a row it had not read |

| Actions | Code |
|---|---|
| `Create`, `Draft`, `Write`, `Delete` | `Create`, the read and the write of `Update`, `Delete` |
| `Look`, `Pick` | the snapshot of `MaterializeDueWorker`'s statement, and its lock |
| `Postpone`, `Coalesce`, `Hold`, `Clear`, `Start` | `MaterializeDueWorker`, branch by branch |
| `Begin`, `Reuse`, `CallClear`, `StartNow` | `RunNow` |
| `BeginEnd`, `CommitEnd` | the end of a run and its trigger |
| `Victim`, `Fail` | the database rolls back one of two transactions that wait for each other; a connection is lost |
| `ProjectChanges`, `SessionInput`, `SessionMoves`, `Tick` | what happens around the task |

Abstracted: time counts in units, and a schedule is the finite set of its
occurrences (a one-shot is a singleton, an exhausted rule completes the task).
Statuses of runs are reduced to unfinished and ended. The project's availability
is read when a claim decides, in one step with the branch it chooses. Calls have
distinct identifiers: a repeated tool call is a stutter, and one that fails
leaves no trace. Left out: parsing and expansion of rules, and the unique index
that allows one active heartbeat per session, together with the other tasks it
is about.

## Runs

| Run | Question | Bounds |
|---|---|---|
| `control_runs` | does the ledger follow the Worker? | 1 control, 4 inputs in this order: two messages, a replacement, a stop (each may be left out); 2 runs, 2 turns, 2 concurrent terminal requests, 1 steer per run |
| `control_interactive` | one answer, one slot, no orphaned question? | 1 control, 2 inputs (the second must wait for idle), 2 runs, 2 turns, 2 questions, 1 terminal request, job limit 2, no steers |
| `outbox_display` | does Discord end with the newest version and nothing else, and every row come to an end? | 1 card with 2 versions, dropped at most once; 2 messages; 1 dispatcher that may crash and lose leases; 2 attempts; answers arrive, edits are allowed |
| `outbox_leases` | do leases and revisions hold against everything? | as above, dropped up to twice, 2 dispatchers, lost answers, exhausted edits, remembered nonces |
| `outbox_orphan` | what a test claims and the code does not do | 1 card with 2 versions, exhausted edits |
| `answered_run_stuck`, `late_thread_report`, `late_steer_ack` | what a test or comment claims and the code does not do | as above |
| `event_relay` | does every saved event reach Control once, in order, under the number it was given, through failed saves, lost answers and restarts? Does the relay implement the log? | 1 run of either kind, 3 events, 3 attempts, 2 restarts, 1 failed save or removal, 2 calls given up |
| `turn_dispatch` | what executes an input again, and is each taken in turn, within the slots, and none left waiting? | 6 scenarios of 2 or 3 inputs (below), 1 steer per run, a command channel of 1 |
| `stranded_replacement` | what a comment claims and the code does not do | a message and a replacement |
| `scheduled_tasks` | is each occurrence answered once, whoever claims, edits, runs and ends at the same time? | 5 scenarios (below), 1 or 2 claims, 1 or 2 tool calls, 4 units of time, minimum interval 2, blocks of 2 and 1 |

The interesting cases all fit: two runs of one control let one displace the
other and a late report of the first meet the second; two turns let a crash
between turn/start and the journal start a second turn for one run; two handlers
let a repeated terminal request overlap the first; a stop and a replacement race
the messages that precede them. Controls share nothing but the job limit, so one
is enough; what needs more than two runs would need three generations of reports
alive at once. Runs, turns and handlers are interchangeable (symmetry sets).
The systems may stop (`CHECK_DEADLOCK FALSE`): inputs, runs and turns of an
instance are finite.

For the outbox one card is enough: rows of different cards share only the
dispatchers. Two versions make one change during a delivery or its application,
two messages a card shown again or replaced. Two dispatchers are a daemon
and the one that replaces it before the first has noticed, or an operator.
`outbox_display` has its hypotheses in the configuration: the daemon is alone,
an answer that is lost is lost in a crash, edits are not exhausted, and a card
is dropped once. Without the last three the code does not keep the promise; see
the disagreements and the hazards.

For the relay one run is enough, as runs share nothing; three events let one be
stored, one be on its way and one be saved late; two restarts let the second
meet what the first left behind (a request given up before it may be executed
after it).

The scenarios of `turn_dispatch`: three messages of one control with a slot to
spare (the limit of steers and the full channel are met); messages of two controls
for one slot; an interrupt, and a replacement, that meets a turn or starts a run
before the turn is reported; a restart with a message that is steered and a second
slot, and one with an input that waits for idle. Lost answers of steers and saves
of decisions that fail (`faults`) are in four of them, not in the first and the
last. One restart per scenario: what a second could add is a Journal that
waits for a slot twice, which the first already allows. Three inputs are one
that runs, one that its run takes or refuses, and one that stands behind both.

The scenarios of `scheduled_tasks` spend the bounds in different places, since
all at once is out of reach: on a standalone task, one claim and two calls, two
claims and one call, or one of each with a lost transaction and changes around
the task; a heartbeat with either schedule, one claim, one call and two changes;
a one-shot heartbeat with two claims, a lost transaction and a change. The dense
schedule has an occurrence in every unit, more often than the minimum interval
allows, so that occurrences are skipped, coalesced and late.

Properties of `ControlRuns`:

- `LedgerFollowsWorker`: a run is bound to the input the Worker started, both
  end together, and with the outcome the journal holds.
- `OneSlotPerControl`, `SlotMeansExecuting`: the execution slot through
  displacement, waiting, resumption and end.
- `ActiveMeansUnfinished`: what a control calls active has not ended.
- `SteerEndsWithRun`: a steered input that has ended carries its run's outcome; it
  does not say that the input ends or stays ended (`late_steer_ack`).
- `PendingMeansUnfinished`, `AnswerIsFinal`: questions.
- `EndedRunIsFinal`, `CompletedInputIsFinal`, `StopBeatsLateStart`: what no
  later step may undo.

Properties of `DiscordOutbox`:

- `CompletedWasAccepted`: a completed row's latest request is one Discord
  answered, whoever held which lease when it was enqueued.
- `UnknownCreateWaits`: a create of unknown outcome is not sent again unless
  the dispatcher itself saw it fail.
- `QuietShowsNewest`, `QuietShowsNothingElse`: when all rows are completed,
  Discord shows exactly the wanted cards, in their newest versions.
- `Settles`: every row is completed, given up, or handed to an operator. It
  needs that leases run out by themselves, that the daemon's ticker goes on
  (`runBackground` runs until it is cancelled) and claims by age, so that no due
  row is passed over for ever (strong fairness of each row's claim), and that
  crashes and failing transactions do not hit the same step for ever (strong
  fairness of sending, recording and applying). Success of a delivery is not
  assumed: it may fail at every attempt. Nor is any act of the operator.

There is no fairness in `ControlRuns` and no liveness property: reports may
arrive, and that they do is a matter of the Worker's loops, which `TurnDispatch`
and `EventRelay` model.

Properties of `EventRelay`:

- `SkippedMeansStored`: Control skips numbers it knows as repeated; no number
  ever stands for two events, so what it skips it has.
- `StoredInOrder`, `NeverAGap`: order and numbers at Control; no request that
  can still arrive, however late, has a gap Control would refuse.
- `KeptUntilStored`: what was on disk is at Control or still on disk (claimed
  turns only, see the disagreements).
- `EndIsFinal`: nothing is processed for a run whose end is on disk.
- `EventuallyStored`: a saved event of a claimed turn reaches Control, or the
  Worker gave up: it was refused for good, ran out of attempts, or could not save.
- `LogSpec`: the refinement. `reported` and `rows` behave as `EventLog` says.

Its fairness: the turn comes to an end (weak fairness of `Works`; runs have a
deadline), a stopped Worker is started again (the service manager), and Control
answers what reaches it. That an answer arrives in time is not assumed, nor that
a save succeeds; the bounds on faults make them end. A turn whose end could not
be saved is not reported until the next restart: its reporter stops, and the
property counts that as given up.

Properties of `TurnDispatch`:

- `ExecutedOnce`: Control offers an input until it has heard of it, and the code
  does execute some of them again. The property says when, and so that nothing
  else does it: refused and delayed commands, full channels, repeated offers,
  the end of a run with its three tables (Journal, remembered inputs,
  coordinator) updated one after the other, and a restart with Journals that are
  complete. The events that excuse a second execution are recorded as they
  happen, per input: in `exposed`, a crash before the record of a start or a
  steer was saved, or after its save failed (`Lost`), the lost answer of a steer
  (`TakeCommand`), a submitted turn the runtime does not list (`Begin`), and a
  record passed over because a stop or an idle input started a run of the
  control (`Overtaken`); in `beside`, a run that starts beside a recovered one.
  These are the hazards of `remote_discord.go:121`, `run_coordinator.go:159`,
  `runner.go:202` and `runtime_executor.go:153`: the property does not catch
  them, it delimits them. TLC finds it violated when any one is left out.
- `TurnsDoNotOverlap`, `IdleIsNotSteered`, `SlotsBalance`: what the coordinator,
  the reservations and the slots are for.
- `HandledIsReported`: what the Worker passes over as already accepted is
  reported later, because a Journal holds it.
- `QueuedIsTaken`: in the end no input is queued, although requests may fail,
  unless the loop is stuck in one of the ways listed in `Stuck`.
- `WakeIsAnswered`: a wake-up is followed by a claim, also when it falls between
  the two looks of `Wait`.

Its fairness: the loop goes on (`Runner.Run` ends only with the Worker), each
run goes on (goroutines), of the requests sent while something is offered not
every one fails (strong fairness of `AnswerInput`), and a turn ends although
refused commands come again and again (strong, since `TakeCommand` disables
nothing for ever; turns time out). Inputs are finite in number. It is not assumed
that wake-ups arrive, or that the synchronisation overtakes the end of the run.

Properties of `ScheduledTasks`:

- `InsertsFit`: an insert of a run never meets a unique index. A refused insert
  would fail this claim request and, for a row as it is, every later one, so that
  the Worker would get no work at all. Excepted is a claim that goes by an older
  row after an update has overwritten one it had not read: if that row has run
  and the update made it due again, the insert is refused, once.
- `AnsweredOnce`: no occurrence is answered by two runs, those within the
  minimum interval included, and none after the first is passed over.
- `DeletedIsFinal`: a deleted task stays deleted and starts nothing.
- `DueIsAnswered`: no task stays due, whatever locks its rows in which order.

Its fairness: some claim request comes and its statement ends (weak fairness of
`Look` and `Pick`: the Worker's loop), a transaction that can go on does (weak), those that wait for a row are served in turn and every
cycle of them is broken (strong fairness of the steps that wait: the database's
lock queues and deadlock detection). That a run ends, or that time passes, is
not assumed.

### Disagreements found

- `answered_run_stuck`. `RecordSubmission` and `ConfirmTurn` set a run to
  `running` without looking at its slot. When Control executes one of them after
  `workerRegisterInteractive` has parked the run (the question and the
  synchronisation of the run come from different goroutines), the run is
  `running` without a slot, and `tryResumeInteractive`, which wants
  `waiting_for_user`, never makes the answer ready. The integration test expects
  an answered request to resume its run when a slot is free.
- `late_thread_report`. `SetThread` does not look at the run's status: repeated
  after the terminal transaction it leaves an idle control `active`. The
  integration test of late submissions expects `idle`; it repeats submission and
  confirmation only.
- `late_steer_ack`. `ackWorkerInput` recognises completed and running inputs as
  settled, not failed and canceled ones: a repeated acknowledgement reopens
  them, and nothing closes them again. `submission_state.go` states that a late
  confirmation must not reopen a terminal state.

- `outbox_orphan`. An edit that Discord refuses for good is answered by a new
  message. If the projection was dropped meanwhile, `Apply` deletes the old
  message and forgets the new one: its branch for dropped projections looks at
  creating operations only. The test of `Apply` is named for deleted and
  replaced projections and has one of each, not one that is both.

- `stranded_replacement`. A replacement that interrupted the running turn is
  remembered as an accepted input when that run ends. Control offers it again,
  because it is still to be executed; the Worker passes over it, and over
  whatever stands behind it, until it is restarted. The comment of the
  remembered inputs says they cover the time until the report; of this one there
  is no report.

Two more departures of the outbox were met that contradict no document: the deletion of a page
can be overwritten by a later deletion of the same page, and a create retried
after a lost answer may record content as shown that Discord never received.
They are listed under `hazards` with the constants that show them. So are these,
which the runs above leave out by an exemption in a property, and which TLC
shows as soon as the exemption is dropped:

- An interrupt fetched while its run is ending starts a run of its own; Control
  then offers, as an input of an active control, one the ended run was steered
  with and has not reported yet, and that one runs twice (`ExecutedOnce` without
  `Overtaken`). An
  older input that waits for its idle control does the same, without any
  interrupt: of a turn, an idle input and a turn of one control with one slot, the
  last is steered into the first, the second is offered when the first has ended
  and starts a run, and the last is offered again and steered into that one. No
  instance has these three inputs: the proof of `OrderedExecution` found them.
- A start or a steer is repeated when its record is missing: after a crash before
  the save or after one that failed (the error in `markApplied` is dropped), when
  the answer of a steer was lost, and when thread/read does not list a submitted
  turn (`ExecutedOnce` without the corresponding part of `exposed`).
- A run delivered before a restart is registered again and never unregistered:
  later inputs of its control wait for a run that is gone (`QueuedIsTaken`
  without the first disjunct of `Stuck`).
- A recovered Journal that waits for a slot is not in the coordinator, or is
  registered after the loop has looked: an input of its control starts beside it
  (`TurnsDoNotOverlap` without `beside`).
- The Desktop reporter removes the Journal when the end is accepted, whether or
  not the upload before it was (`KeptUntilStored` without `kind = "remote"`). The
  log line of a failed upload says the events are kept.
- `Update` of a scheduled task writes back what it read without a lock: a
  materialisation in between is undone and the occurrence runs again
  (`AnsweredOnce` without `stale`). A claim that reads the row it overwrites is
  refused by a unique index (`InsertsFit` without its condition).

## Proofs

`ControlRunsProofs` proves, for every value of the constants allowed by their
assumptions (named in `ControlRuns` and evaluated by TLC in each run):

| Theorem | Statement |
|---|---|
| `InvariantHolds` | `Spec => []IInv` |
| `TypeCorrect` | `Spec => []TypeOK` |
| `LedgerCorrect` | `Spec => []LedgerFollowsWorker` |
| `SlotsCorrect` | `Spec => []SlotMeansExecuting` |
| `OneSlotCorrect` | `Spec => []OneSlotPerControl` |
| `EndedRunsAreFinal` | `Spec => EndedRunIsFinal` |

`ControlRunsFinality` builds on it:

| Theorem | Statement |
|---|---|
| `AnswersAreFinal` | `Spec => AnswerIsFinal` |
| `QuestionsEndWithRuns` | `Spec => []PendingMeansUnfinished` |
| `CompletedInputsAreFinal` | `Spec => CompletedInputIsFinal` |
| `StopsBeatLateStarts` | `Spec => StopBeatsLateStart` |
| `ActiveCorrect` | `Spec => []ActiveMeansUnfinished` |
| `SteersEndWithTheirRun` | `Spec => []SteerEndsWithRun` |

The inductive invariant `IInv` adds to these what they silently rely on:

- `References`: a run row points to the input its journal holds, a question to
  a run row, a handler to a run whose outcome is recorded;
- `DecidedOnce`: an input accepted by a run is routed to that run alone, so no
  two runs share an input and no run's own input is steered elsewhere;
- `StartedLeavesQueue`: the input of a run row is never `queued`.

The last is why a stop cannot break `LedgerFollowsWorker`: what it cancels is
queued, hence the input of no run. `DecidedOnce` is why the end of a run closes
no other run's input with it: inputs it closes besides its own were resolved as
steers. The slot invariants follow from displacement clearing every slot of the
control in the transaction that takes one, and from resumption being refused
while another run holds it.

What a control calls active is set when a run starts and when its turn is
confirmed, and emptied by the end of any of its runs (`ActiveWrites`); and a
confirmed turn is written once (`ConfirmedOnce`). An ended steer has its
run's outcome because both name one native turn: `SteerInv` says that an acknowledged steer
bears the turn it was steered into, which its run had started (`TurnsOfSteers`),
that the turns in the Journal of a run, in the row of its input and in a terminal
request about it are ones it started (`TurnsOfRun`), and that no turn was started
by two runs (`StartedOnce`).

There is one lemma per action, `LEMMA <Action>Step`, which preserves the
conjuncts the action can disturb; `Next` is split over them once. The
invariant was first checked by TLC on both instances.

`EventRelayProofs`, from `KindsAssumption` and `BoundsAssumption`:

| Theorem | Statement |
|---|---|
| `Invariant` | `Spec => []IInv` |
| `Types` | `Spec => []TypeOK` |
| `SkippingIsSafe` | `Spec => []SkippedMeansStored` |
| `OrderIsKept` | `Spec => []StoredInOrder` |
| `NoGaps` | `Spec => []NeverAGap` |
| `NothingSavedIsLost` | `Spec => []KeptUntilStored` |
| `EndStays` | `Spec => EndIsFinal` |
| `RelayImplementsLog` | `Spec => LogSpec` |

The pending events live in four places: memory, disk, the request under way and
requests given up. `IInv` says how they agree. `Numbering`: memory and disk each
hold every event after Control's last number, and Control holds every number up
to it. `Agreement`: no two copies anywhere disagree about a number, and numbers
follow the order of the reports. `SentWasSaved`: nothing was sent that was not
on disk, which is why a restart from an older file cannot give a number that
Control may yet hear of to another event. `SentGapless` carries `NeverAGap` to
requests whose answers nobody waits for. The rest relates the step of the
program to the request under way, the marks of the Journal and the file
(`CallsInStep`, `SavedInStep`, `EndedInStep`, `RemovedInStep`). Refinement then
needs one fact more: a stored batch adds only entries above `last`.

`TurnDispatchProofs`, from `InputsAssumption` (finitely many inputs) and
`ScenariosAssumption`, for any number of inputs, controls, slots, restarts and
steers:

| Theorem | Statement |
|---|---|
| `Invariance` | `Spec => []IInv` |
| `TypeCorrect` | `Spec => []TypeOK` |
| `SlotsAreBalanced` | `Spec => []SlotsBalance` |
| `IdleNeverSteered` | `Spec => []IdleIsNotSteered` |
| `OneTurnAtATime` | `Spec => []TurnsDoNotOverlap` |
| `HandledStaysReported` | `Spec => []HandledIsReported` |

`Registered` is why turns do not overlap: a run on its way is in the
coordinator until it leaves, and the loop starts one only for a control that has
none there when it looks. What may come in between, and what waits outside the
coordinator after a restart, is the exception the theorem states. `Filed` ties
the Journals to the rest: a run on its way has one, the owner of one is
remembered, and one marked as delivered belongs to a run that is over and whose
decisions Control knows; so what is remembered and still queued is always in a
Journal that is not about to go (`Remembers`). `HeldInputs` follows an input
from the channel of a run through its hands to what it has applied. `Asked`: the
input the loop decides about exists. `SlotsBalance` needs `Filed`, since an
input that is not remembered has no run, and hence no slot.

`TurnDispatchOnce`, from the same assumptions:

| Theorem | Statement |
|---|---|
| `OrderedExecution` | `Spec => []ExecutedOnce` |

The theorem is about every fault the model has, with no hypothesis: what it
excuses is what the history variables recorded. An input that is executed and
still queued at Control may be offered at any moment, and several records must
together refuse it. `OrderInv` says which. `Handled` is its heart: of such an
input, unless it is excused, a run of its control has it, with a Journal if the
run is its own (`Worked`); it is among the remembered inputs, or a registered run
has it (`Noticed`); and every run it could be sent to has it (`InAll`). To have an input
(`Has`) is to be its run, to hold it in memory as applied or in the hands, or to
wait for a slot with a Journal that names it: so a restart keeps it or exposes
it. `InAll` needs the order: when a new run registers, an executed input that is
still queued would be unknown to it. `InOrder` and `OneAtATime` say there is none
among messages, since Control offers those of a control by age and the older
ones are taken first; stops and idle inputs break the order, and this is where
`Overtaken` comes from. `Apart` says that two runs of a control meet only where
all its inputs are beside a recovered run, `Channels` that a command is in one
place and belongs to the control of its run, `Marked` that Journals and remembered
inputs keep up with the runs. `Fresh` concludes: what is about to be executed, in
a channel or as a run that begins, has not been. Each step of a run is one of six
kinds (`RunEffects`: it goes on, leaves, takes a command, applies it, recovers,
or was delivered already), and each step of the loop one of four (`LoopEffects`).

`ScheduledTasksProofs`, from `TimesAssumption`:

| Theorem | Statement |
|---|---|
| `Invariance` | `Spec => []IInv` |
| `Types` | `Spec => []TypeOK` |
| `InsertsAlwaysFit` | `Spec => []InsertsFit` |
| `DeletedStays` | `Spec => DeletedIsFinal` |
| `EachOnce` | `Spec => []AnsweredOnce` |

`Held` says what a lock protects: at most one transaction holds the row of the
task; a task picked by a claim is still active and has a next run; while one is
`clear`, no run is unfinished. `Looked`: what a claim has read was due when its
transaction began, is of no later revision, and the row it holds was due then
too. `KeysOrdered`: a run of the current revision is for an earlier occurrence
than the next one, and an `Update` that might set the next run back counts the
revision up. `KeysOfCalls` says a call that inserted is over. `Born`: a task that
was never created has no revision and no draft can bring it into being.

`OnceInv` is for `EachOnce` and `InsertsAlwaysFit`, of a schedule of any density.
Runs reach up to some time: the occurrences up to there are answered. That time
is past (`Past`), the next run is beyond what every run reaches (`Ahead`), and
only the latest run is unfinished (`LastActive`), so coalescing extends the
stretch that ends last. An update in preparation must not undo this: what it will
write is beyond too, as long as it has read the present revision and next run
(`DraftsAhead`), and a next run that has moved on does not come back
(`DraftsBehind`). Nor must a claim that goes by what it has read: as long as the
row is due at the time its transaction began, what it has read is unanswered, and
either is the row's own occurrence and schedule, or the row is of a revision that
has not run (`SeenMatches`); an update that will make the row due by then keeps
that (`DraftsMatch`). Once another claim has answered, the next run is later, and
the first finds nothing to lock. `stale` is what `AnsweredOnce` and `InsertsFit`
except.

`DiscordOutboxProofs`, from the assumptions named in `DiscordOutbox`, for any
number of projections, messages, dispatchers and attempts, whatever is lost:

| Theorem | Statement |
|---|---|
| `InvariantHolds` | `Spec => []IInv` |
| `TypeCorrect` | `Spec => []TypeOK` |
| `CompletedCorrect` | `Spec => []CompletedWasAccepted` |
| `UnknownCreatesWait` | `Spec => UnknownCreateWaits` |

A dispatcher works on a copy of a row that may have changed since. `HeldOK`
ties the copy to the row for as long as the lease is its own, and `RowsOK` the
row to Discord: while the revision in flight is the newest, the request in
flight is the row's request, and what is being applied was accepted. Every write
of a dispatcher is conditional on the lease, so one that lost it changes no row.

`DiscordOutboxShown`:

| Theorem | Statement |
|---|---|
| `ShownNewest` | `ASSUME ~NonceWindow`, one dispatcher `PROVE Spec => []QuietShowsNewest` |
| `ShownNothingElse` | `ASSUME ~EditLimit, ~LostAnswers`, one version at which cards are dropped `PROVE Spec => []QuietShowsNothingElse` |
| `ShownOnce` | the same hypotheses `PROVE Spec => []OneMessage` |

Of `ShownNewest`, the hypotheses are those of `outbox_display`, except that answers may be lost,
edits exhausted, and cards dropped and shown again any number of times. Both are
needed. With `NonceWindow`, a create repeated after a lost answer is answered
with a message that shows the older version (the hazard at `disgo_remote.go:412`).
With a second dispatcher, one that lost its lease may send an old update after
the newest was recorded. `ShownInv` says of each card which messages were made
for it and of which versions they can be (`OwnedOK`, `FreshOK`), that a row which
is not completed names the card's message (`VersionsOK`), and what an answer
stands for while it is on its way (`AnswersOK`): a message nobody else knows, in
the version of the request in flight, or the update having been made. It was
checked by TLC, like every inductive invariant here, before it was proved.

Of `ShownNothingElse`, the hypotheses are those of `outbox_display`, but there
may be any number of dispatchers and Discord may remember nonces or not. Each of
the three is needed; without it TLC finds the property violated with two messages
or three:

- an edit refused for good is answered by a new message, the dispatcher loses its
  lease before it records that, and the next one edits the old message: nobody
  knows of the new one;
- a create that was carried out and looks like a failure is sent again, and makes
  a second message when its nonce is forgotten;
- the row that deletes a card's message is keyed by the card, so a card that is
  dropped, shown again and dropped again before the first deletion was sent loses
  that deletion (the hazard at `conversation_projection.go:383`).

`FateInv` says what becomes of each message that is shown: its card has it, it
arrives, or it is dismissed (`FateOK`). A message arrives (`Arriving`) while the
create in flight has its version and it was made for the card; at most one does,
and none before the create was sent (`CreateOK`). It is dismissed when the newest
request of a deleting row names it (`Dismissed`); such rows keep their targets,
and what was accepted for deletion is deleted (`DeletionsOK`). The rest says why
work that is late does no harm. What a dispatcher has been answered or has seen
fail is true of the card as long as its lease is (`Handling`). A create keeps its
row from being claimed even after the lease has run out, so one that waits to be
sent is still in flight, and there is only one (`Dispatching`); an update is not of
the version of a create, so editing a message, however late, does not make it look
like one that arrives. Each step either leaves a card undisturbed (`Undisturbed`),
or is one of four about it (`About`): a new version, the drop, the create, the
application. When all is quiet nothing arrives and whatever is dismissed is
deleted, so what is shown is the card's own. `OneMessage`, which no run checks,
follows in every state: two messages of a card that are shown and not dismissed are
one. TLC checked both first, on a card with two versions, two messages and two
dispatchers, with forgotten and with remembered nonces.

`ShownNewest` does not extend to several dispatchers, nor `ShownNothingElse` to lost
answers or exhausted edits: the properties are false there, by the histories above.

Model-checked only: the liveness properties (`Settles`, `EventuallyStored`,
`QueuedIsTaken`, `WakeIsAnswered`, `DueIsAnswered`). They and enabledness are
outside TLAPS's reach, as is what a recursive function computes for every input.
Every other property of the passing runs is stated by a theorem.

## Not modelled

Session titles lease and retry like the outbox, on one row. The Desktop queue
has a journal like that of runs, and turns that Control hears of afterwards;
`EventRelay` follows them as far as events go. The app-server hub holds events
back while a thread is being created and routes requests by who owns a thread:
a component with state and races of its own, not yet modelled. Client
synchronisation has no route in this version. Runtimes, registry and
configuration, GitHub, voice, accounts and settings, and the user interfaces are
processes, external services, or requests about single rows; `components` in
`PROJECT.json` has each with its reason.

## Plan

1. `QuietShowsNewest` for a dispatcher and its successor, with what the code
   guarantees of a late update.
2. Model the hub's barrier around the creation of a thread, with the order of
   the events it releases; then session title leases and the Desktop queue.
