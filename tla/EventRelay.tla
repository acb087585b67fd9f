------------------------------ MODULE EventRelay ------------------------------
(***************************************************************************)
(* How the events and the end of one run reach Control.                    *)
(*                                                                         *)
(* The Worker appends each event the runtime reports to the Journal of the *)
(* run, saves the file, and uploads everything pending in batches; when    *)
(* the run has ended it registers the run, uploads what is left, reports   *)
(* the end, and deletes the file.  Every call may be answered too late,    *)
(* every save may fail, and the Worker may stop anywhere and restart from  *)
(* the file.  Control stores a batch in one transaction.                   *)
(*                                                                         *)
(* A turn claimed from Control is reported by runJournal.  A turn started  *)
(* on the Desktop is reported by desktopEventReporter until the Worker     *)
(* restarts, and by runJournal after that.                                 *)
(*                                                                         *)
(* `journal` is the Worker's memory, `file` and `disk` its disk, `rows`,   *)
(* `last` and `run` are Control's tables.  `reported` and `durable` are    *)
(* histories.                                                              *)
(*                                                                         *)
(* Above some operators stands a faulty variant of it, named for its       *)
(* fault.  The specification uses none of them; each breaks a property     *)
(* stated at the end.                                                      *)
(***************************************************************************)
EXTENDS Integers

CONSTANTS
    Kinds,          \* which turns: "remote", "desktop"
    MaxEvents,      \* bound: events the runtime reports
    MaxAttempts,    \* controlReportMaxAttempts
    MaxCrashes,     \* bound: restarts of the Worker
    MaxBadSaves,    \* bound: saves and removals of the file that fail
    MaxTimeouts     \* bound: calls given up before their answer

ASSUME KindsAssumption == Kinds \subseteq {"remote", "desktop"}
ASSUME BoundsAssumption ==
    /\ MaxEvents \in Nat /\ MaxAttempts \in Nat \ {0}
    /\ MaxCrashes \in Nat /\ MaxBadSaves \in Nat /\ MaxTimeouts \in Nat

VARIABLES
    kind,           \* how the turn was started
    reporter,       \* the code that reports it: "remote" or "desktop"
    step,           \* where that code is
    journal,        \* runJournal: next, pending, marks, retries
    file,           \* "kept" or "removed"
    disk,           \* the Journal as last saved
    awaiting,       \* the request whose answer the Worker waits for
    answer,         \* what Control has answered
    uploaded,       \* flushErr of the last upload
    late,           \* requests given up that Control may still handle
    rows,           \* agent_events of the run
    last,           \* codex_turn_runs.worker_event_sequence
    run,            \* codex_turn_runs.status
    reported,       \* events reported so far; an event is its number
    durable,        \* events that have been on disk
    crashes, badSaves, timeouts     \* faults so far

control == <<rows, last, run>>
call    == <<awaiting, answer>>
idle    == <<crashes, timeouts>>
vars == <<kind, reporter, step, journal, file, disk, awaiting, answer, uploaded,
          late, rows, last, run, reported, durable, crashes, badSaves, timeouts>>

Marks   == {"ended", "delivered", "abandoned"}
Entry   == [seq : Nat, event : Nat]
Journal == [next : Nat, pending : SUBSET Entry, marks : SUBSET Marks, retries : Nat]

\* Requests: a batch of events, or the end of the run.
Upload(batch) == [op |-> "events", batch |-> batch]
Terminal      == [op |-> "complete", batch |-> {}]
Nothing       == [op |-> "none", batch |-> {}]
Requests      == [op : {"events", "complete"}, batch : SUBSET Entry]

EventsOf(entries) == {x.event : x \in entries}

Steps == {"process", "register", "upload", "complete", "settle",
          "resync", "resume", "down", "stopped"}

TypeOK ==
    /\ kind \in Kinds /\ reporter \in {"remote", "desktop"}
    /\ step \in Steps
    /\ journal \in Journal /\ disk \in Journal
    /\ file \in {"kept", "removed"}
    /\ awaiting \in Requests \cup {Nothing}
    /\ answer \in {"none", "ok", "refused"}
    /\ uploaded \in {"ok", "retry", "refused"}
    /\ late \subseteq Requests
    /\ rows \subseteq Entry /\ last \in Nat
    /\ run \in {"absent", "open", "ended"}
    /\ reported \in Nat /\ durable \subseteq Nat
    /\ crashes \in Nat /\ badSaves \in Nat /\ timeouts \in Nat

EmptyJournal == [next |-> 1, pending |-> {}, marks |-> {}, retries |-> 0]

\* The file is written before the run is registered in the Worker.
Init ==
    /\ kind \in Kinds /\ reporter = kind
    /\ step = "process"
    /\ journal = EmptyJournal /\ disk = EmptyJournal /\ file = "kept"
    /\ awaiting = Nothing /\ answer = "none" /\ uploaded = "ok" /\ late = {}
    /\ rows = {} /\ last = 0 /\ run = "absent"
    /\ reported = 0 /\ durable = {}
    /\ crashes = 0 /\ badSaves = 0 /\ timeouts = 0
-----------------------------------------------------------------------------
(* The Journal *)

Write(j) ==
    /\ disk' = j
    /\ durable' = durable \cup EventsOf(j.pending)
    /\ UNCHANGED file

BadSave == badSaves < MaxBadSaves /\ badSaves' = badSaves + 1

SaveOK(j) == Write(j) /\ UNCHANGED badSaves

SaveFails == BadSave /\ UNCHANGED <<disk, durable, file>>

\* store.save where the caller goes on whether it succeeded or not.
TrySave(j) == SaveOK(j) \/ SaveFails

NoSave == UNCHANGED <<disk, durable, file, badSaves>>

RemoveFile ==
    /\ UNCHANGED <<disk, durable>>
    /\ \/ file' = "removed" /\ UNCHANGED badSaves
       \/ BadSave /\ UNCHANGED file

Mark(j, mark) == [j EXCEPT !.marks = @ \cup {mark}]

\* abandonRunJournal: nothing is reported any more, the file stays.
Abandon(j) ==
    /\ journal' = Mark(j, "abandoned")
    /\ TrySave(journal')
    /\ step' = "stopped"

\* waitScheduledControlRetry; a first attempt is never older than the limit.
Backoff(next) ==
    LET attempts == journal.retries + 1
        retried  == [journal EXCEPT !.retries = attempts]
    IN  \/ /\ attempts < MaxAttempts
           /\ journal' = retried
           /\ TrySave(retried)
           /\ step' = next
        \/ /\ attempts > 1 \/ attempts >= MaxAttempts
           /\ \/ Abandon(retried)
              \/ /\ journal' = Mark(retried, "abandoned")
                 /\ Write(retried) /\ BadSave
                 /\ step' = "stopped"

Send(request) == awaiting' = request /\ answer' = "none"
CallOver      == awaiting' = Nothing /\ answer' = "none"
Waits         == awaiting # Nothing
TimeOut       == timeouts < MaxTimeouts /\ timeouts' = timeouts + 1
-----------------------------------------------------------------------------
(* The run is processed *)

Registered == run # "absent"

CanUpload ==
    /\ journal.pending # {}
    /\ reporter = "desktop" => Registered /\ "abandoned" \notin journal.marks

\* The number is used again for the next event.
ReportedUncounted ==
    [journal EXCEPT !.pending = @ \cup {[seq |-> journal.next, event |-> reported + 1]}]

Reported ==
    [journal EXCEPT !.next = @ + 1,
                    !.pending = @ \cup {[seq |-> journal.next, event |-> reported + 1]}]

\* An abandoned Journal of the Desktop reporter is not saved any more.
KeepsSaving == reporter = "remote" \/ "abandoned" \notin journal.marks

\* An event is uploaded although it could not be saved.
ReportUploadsUnsaved ==
    /\ step = "process" /\ ~Waits
    /\ reported < MaxEvents
    /\ reported' = reported + 1
    /\ journal' = Reported
    /\ TrySave(Reported)
    /\ Send(Upload(Reported.pending))
    /\ UNCHANGED <<kind, reporter, step, uploaded, late, control, idle>>

\* The runtime reports an event; everything pending goes along unless an
\* upload went out within the interval.
Report ==
    /\ step = "process" /\ ~Waits
    /\ reported < MaxEvents
    /\ reported' = reported + 1
    /\ journal' = Reported
    /\ \/ KeepsSaving /\ SaveOK(Reported) /\ UNCHANGED call
       \/ /\ KeepsSaving /\ SaveOK(Reported)
          /\ reporter = "desktop" => Registered
          /\ Send(Upload(Reported.pending))
       \/ KeepsSaving /\ SaveFails /\ UNCHANGED call
       \/ ~KeepsSaving /\ NoSave /\ UNCHANGED call
    /\ UNCHANGED <<kind, reporter, step, uploaded, late, control, idle>>

\* The ticker of the Desktop reporter; it saves what it is about to send.
TickUploads ==
    /\ step = "process" /\ ~Waits /\ reporter = "desktop"
    /\ CanUpload
    /\ SaveOK(journal)
    /\ Send(Upload(journal.pending))
    /\ UNCHANGED <<kind, reporter, step, journal, uploaded, late, control, reported, idle>>

\* The first successful syncRunState, repeated by the heartbeat.  Refused, a
\* Desktop turn goes on without being reported and a claimed turn tries again.
RegisterInBackground ==
    /\ ~Registered
    /\ step = "process" \/ (step = "register" /\ reporter = "desktop")
    /\ "abandoned" \notin journal.marks
    /\ \/ run' = "open" /\ NoSave /\ UNCHANGED journal
       \/ /\ reporter = "desktop"
          /\ journal' = Mark(journal, "abandoned") /\ TrySave(journal')
          /\ UNCHANGED run
    /\ UNCHANGED <<kind, reporter, step, call, uploaded, late, rows, last, reported, idle>>

\* Process returned.  A claimed turn whose end cannot be saved is not reported
\* before the Worker restarts.
ProcessEnds ==
    /\ step = "process" /\ ~Waits
    /\ journal' = Mark(journal, "ended")
    /\ \/ KeepsSaving /\ SaveOK(journal') /\ step' = "register"
       \/ KeepsSaving /\ SaveFails
          /\ step' = IF reporter = "remote" THEN "stopped" ELSE "register"
       \/ ~KeepsSaving /\ NoSave /\ step' = "register"
    /\ UNCHANGED <<kind, reporter, call, uploaded, late, control, reported, idle>>
-----------------------------------------------------------------------------
(* The run has ended *)

Delivered == "delivered" \in journal.marks

\* deliverTerminal starts each round by registering the run, which Control may
\* refuse for good, registered or not.
Register ==
    /\ step = "register" /\ reporter = "remote"
    /\ \/ /\ Delivered
          /\ step' = "upload"
          /\ NoSave /\ UNCHANGED <<journal, run, timeouts>>
       \/ /\ ~Delivered
          /\ run' = IF Registered THEN run ELSE "open"
          /\ step' = "upload"
          /\ NoSave /\ UNCHANGED <<journal, timeouts>>
       \/ /\ ~Delivered
          /\ Abandon(journal)
          /\ UNCHANGED <<run, timeouts>>
       \/ /\ ~Delivered /\ TimeOut
          /\ Backoff("register")
          /\ UNCHANGED run
    /\ UNCHANGED <<kind, reporter, call, uploaded, late, rows, last, reported, crashes>>

\* Finish waits until the background has registered the run or given up on it.
AwaitRegistration ==
    /\ step = "register" /\ reporter = "desktop"
    /\ \/ /\ "abandoned" \in journal.marks
          /\ step' = "stopped" /\ NoSave
       \/ /\ Registered /\ "abandoned" \notin journal.marks
          /\ step' = "upload" /\ SaveOK(journal)
    /\ UNCHANGED <<kind, reporter, journal, call, uploaded, late, control, reported, idle>>

UploadRest ==
    /\ step = "upload" /\ ~Waits
    /\ \/ /\ journal.pending = {}
          /\ uploaded' = "ok" /\ step' = "complete"
          /\ NoSave /\ UNCHANGED call
       \/ /\ journal.pending # {}
          /\ Send(Upload(journal.pending))
          /\ IF reporter = "desktop" THEN SaveOK(journal) ELSE NoSave
          /\ UNCHANGED <<step, uploaded>>
       \/ /\ journal.pending # {} /\ reporter = "desktop"
          /\ SaveFails
          /\ step' = "complete"
          /\ UNCHANGED <<call, uploaded>>
    /\ UNCHANGED <<kind, reporter, journal, late, control, reported, idle>>

ReportEnd ==
    /\ step = "complete" /\ ~Waits
    /\ \/ Delivered /\ step' = "settle" /\ UNCHANGED call
       \/ ~Delivered /\ Send(Terminal) /\ UNCHANGED step
    /\ NoSave
    /\ UNCHANGED <<kind, reporter, journal, uploaded, late, control, reported, idle>>

\* The end is delivered, what is pending is not looked at.
SettleForgetsPending ==
    /\ step = "settle"
    /\ \/ Delivered /\ uploaded = "refused" /\ Abandon(journal)
       \/ /\ Delivered /\ uploaded # "refused"
          /\ RemoveFile /\ step' = "stopped" /\ UNCHANGED journal
       \/ ~Delivered /\ Backoff("register")
    /\ UNCHANGED <<kind, reporter, call, uploaded, late, control, reported, idle>>

Settle ==
    /\ step = "settle"
    /\ \/ Delivered /\ uploaded = "refused" /\ Abandon(journal)
       \/ /\ Delivered /\ uploaded # "refused" /\ journal.pending = {}
          /\ RemoveFile /\ step' = "stopped" /\ UNCHANGED journal
       \/ /\ ~Delivered \/ (uploaded # "refused" /\ journal.pending # {})
          /\ Backoff("register")
    /\ UNCHANGED <<kind, reporter, call, uploaded, late, control, reported, idle>>
-----------------------------------------------------------------------------
(* Answers *)

AfterUpload == IF step = "upload" THEN "complete" ELSE "process"

\* What was sent is dropped whatever became of it.
UploadAnsweredForgets ==
    /\ awaiting.op = "events" /\ answer # "none"
    /\ journal' = [journal EXCEPT !.pending = {}]
    /\ TrySave(journal')
    /\ uploaded' = answer
    /\ step' = AfterUpload /\ CallOver
    /\ UNCHANGED <<kind, reporter, late, control, reported, idle>>

\* flushEventsLocked after the call: accepted events leave the Journal, and a
\* file that still holds them counts as a failed upload.
UploadAnswered ==
    /\ awaiting.op = "events" /\ answer # "none"
    /\ \/ /\ answer = "ok"
          /\ journal' = [journal EXCEPT !.pending = {}]
          /\ \/ SaveOK(journal') /\ uploaded' = "ok"
             \/ SaveFails /\ uploaded' = "retry"
       \/ /\ answer = "refused" /\ uploaded' = "refused"
          /\ NoSave /\ UNCHANGED journal
    /\ step' = AfterUpload /\ CallOver
    /\ UNCHANGED <<kind, reporter, late, control, reported, idle>>

\* The Desktop reporter removes the file with whatever is still pending.
EndAnswered ==
    /\ awaiting = Terminal /\ answer # "none"
    /\ \/ /\ answer = "ok" /\ reporter = "remote"
          /\ journal' = [Mark(journal, "delivered") EXCEPT !.retries = 0]
          /\ TrySave(journal') /\ step' = "settle"
       \/ /\ answer = "ok" /\ reporter = "desktop"
          /\ RemoveFile /\ step' = "stopped" /\ UNCHANGED journal
       \/ answer = "refused" /\ Abandon(journal)
    /\ CallOver
    /\ UNCHANGED <<kind, reporter, uploaded, late, control, reported, idle>>

\* The Worker gives up a call; Control may have handled it, may still do so,
\* or may never see it.
Leave == late' = late \/ (answer = "none" /\ late' = late \cup {awaiting})

GiveUp ==
    /\ Waits /\ TimeOut /\ Leave
    /\ CallOver
    /\ \/ /\ awaiting.op = "events"
          /\ uploaded' = "retry" /\ step' = AfterUpload
          /\ NoSave /\ UNCHANGED journal
       \/ /\ awaiting = Terminal /\ reporter = "remote"
          /\ step' = "settle"
          /\ NoSave /\ UNCHANGED <<journal, uploaded>>
       \/ /\ awaiting = Terminal /\ reporter = "desktop"
          /\ Backoff("register")
          /\ UNCHANGED uploaded
    /\ UNCHANGED <<kind, reporter, control, reported, crashes>>
-----------------------------------------------------------------------------
(* Control *)

\* Events at or below the last number have been seen.
Fresh(batch) == {x \in batch : x.seq > last}

Gapless(batch) ==
    \A x \in Fresh(batch) : \A s \in (last + 1)..x.seq : \E y \in batch : y.seq = s

Accepts(batch) == Registered /\ Gapless(batch)

Highest(batch, n) ==
    /\ n \in {last} \cup {x.seq : x \in batch}
    /\ n >= last /\ \A x \in batch : n >= x.seq

\* Control numbers what it receives itself.
StoreBatchRenumbered(batch) ==
    /\ rows' = rows \cup {[seq |-> x.seq + last, event |-> x.event] : x \in batch}
    /\ \E n \in {last} \cup {x.seq + last : x \in batch} :
           (\A x \in batch : n >= x.seq + last) /\ last' = n

\* One transaction of workerRunEvents.
StoreBatch(batch) ==
    /\ rows' = rows \cup {x \in Fresh(batch) : \A y \in rows : y.seq # x.seq}
    /\ \E n \in {last} \cup {x.seq : x \in batch} : Highest(batch, n) /\ last' = n

HandleUpload(batch) ==
    /\ IF Accepts(batch) THEN StoreBatch(batch) ELSE UNCHANGED <<rows, last>>
    /\ UNCHANGED run

\* Control may refuse the end of a run it has given to another submission.
HandleEnd(verdict) ==
    /\ \/ run = "absent" /\ verdict = "refused" /\ UNCHANGED run
       \/ run = "open" /\ verdict = "ok" /\ run' = "ended"
       \/ run = "open" /\ verdict = "refused" /\ UNCHANGED run
       \/ run = "ended" /\ verdict = "ok" /\ UNCHANGED run
    /\ UNCHANGED <<rows, last>>

ControlHandles ==
    /\ Waits /\ answer = "none"
    /\ \/ /\ awaiting.op = "events"
          /\ HandleUpload(awaiting.batch)
          /\ answer' = IF Accepts(awaiting.batch) THEN "ok" ELSE "refused"
       \/ /\ awaiting = Terminal
          /\ answer' \in {"ok", "refused"} /\ HandleEnd(answer')
    /\ NoSave
    /\ UNCHANGED <<kind, reporter, step, journal, awaiting, uploaded, late, reported, idle>>

ControlHandlesLate ==
    /\ \E request \in late :
        /\ late' = late \ {request}
        /\ \/ request.op = "events" /\ HandleUpload(request.batch)
           \/ request = Terminal /\ \E verdict \in {"ok", "refused"} : HandleEnd(verdict)
    /\ NoSave
    /\ UNCHANGED <<kind, reporter, step, journal, call, uploaded, reported, idle>>
-----------------------------------------------------------------------------
(* The Worker stops and starts again *)

\* A crash leaves a request behind although none was sent.
CrashLeavesAny ==
    /\ step # "down" /\ file = "kept"
    /\ crashes < MaxCrashes /\ crashes' = crashes + 1
    /\ step' = "down"
    /\ Leave
    /\ CallOver
    /\ NoSave
    /\ UNCHANGED <<kind, reporter, journal, uploaded, control, reported, timeouts>>

Crash ==
    /\ step # "down" /\ file = "kept"
    /\ crashes < MaxCrashes /\ crashes' = crashes + 1
    /\ step' = "down"
    /\ IF Waits THEN Leave ELSE UNCHANGED late
    /\ CallOver
    /\ NoSave
    /\ UNCHANGED <<kind, reporter, journal, uploaded, control, reported, timeouts>>

Resumes(j) == IF j.pending = {} THEN "process" ELSE "resume"

\* A run whose end is known is processed once more.
ResumeAtWork(j) == IF kind = "desktop" THEN "resync" ELSE Resumes(j)

\* An end on disk is only reported; a Desktop turn is registered first.
ResumeAt(j) ==
    IF "ended" \in j.marks THEN "register"
    ELSE IF kind = "desktop" THEN "resync" ELSE Resumes(j)

\* recoverJournals and the beginning of runJournal.
Restart ==
    /\ step = "down"
    /\ reporter' = "remote" /\ journal' = disk
    /\ \/ /\ "abandoned" \in disk.marks
          /\ step' = "stopped" /\ NoSave
       \/ /\ "abandoned" \notin disk.marks /\ "delivered" \in disk.marks
          /\ step' = "register" /\ NoSave
       \/ /\ "abandoned" \notin disk.marks /\ "delivered" \notin disk.marks
          /\ SaveOK(disk)
          /\ step' = ResumeAt(disk)
       \/ /\ "abandoned" \notin disk.marks /\ "delivered" \notin disk.marks
          /\ SaveFails
          /\ step' = "stopped"
    /\ UNCHANGED <<kind, call, uploaded, late, control, reported, idle>>

\* A Desktop turn is registered before it is observed again.
Resync ==
    /\ step = "resync"
    /\ \/ /\ run' = IF Registered THEN run ELSE "open"
          /\ step' = Resumes(journal)
          /\ NoSave /\ UNCHANGED <<journal, timeouts>>
       \/ Abandon(journal) /\ UNCHANGED <<run, timeouts>>
       \/ TimeOut /\ Backoff("resync") /\ UNCHANGED run
    /\ UNCHANGED <<kind, reporter, call, uploaded, late, rows, last, reported, crashes>>

\* What the restart found pending goes out before anything new.
Resume ==
    /\ step = "resume" /\ ~Waits
    /\ Send(Upload(journal.pending))
    /\ NoSave
    /\ UNCHANGED <<kind, reporter, step, journal, uploaded, late, control, reported, idle>>

\* Nothing is left to do.
Done == step = "stopped" /\ UNCHANGED vars
-----------------------------------------------------------------------------
Works ==
    \/ Report \/ TickUploads \/ RegisterInBackground \/ ProcessEnds
    \/ Register \/ AwaitRegistration \/ UploadRest \/ ReportEnd \/ Settle
    \/ UploadAnswered \/ EndAnswered
    \/ Resync \/ Resume

Next ==
    \/ Works \/ GiveUp
    \/ ControlHandles \/ ControlHandlesLate
    \/ Crash \/ Restart
    \/ Done

Spec == Init /\ [][Next]_vars

\* A turn comes to its end, the Worker is started again, Control answers.
FairSpec ==
    /\ Spec
    /\ WF_vars(Works) /\ WF_vars(Restart) /\ WF_vars(ControlHandles)
-----------------------------------------------------------------------------
Stored(event) == event \in EventsOf(rows)

\* What Control will skip as already seen, it has really stored: no number of
\* the run ever stands for two events, whatever saves fail and whenever the
\* Worker restarts (report and flushLocked send nothing that is not saved).
SkippedMeansStored ==
    file = "kept" =>
        \A x \in disk.pending \cup journal.pending : x.seq <= last => x \in rows

\* Control shows the events of a run in the order they were reported, each
\* once, under numbers without holes.
StoredInOrder ==
    \A x, y \in rows : x.seq < y.seq <=> x.event < y.event

\* Control never has to refuse a batch for a gap: whatever a Worker could send
\* after a restart, and every request still on its way, continues its numbers.
NeverAGap ==
    /\ file = "kept" => Gapless(disk.pending) /\ Gapless(journal.pending)
    /\ \A request \in late \cup {awaiting} : Gapless(request.batch)

\* An event that was saved is at Control or still on the Worker's disk.  The
\* exception is the end of a turn as the Desktop reporter delivers it: the file
\* goes once the end is accepted, uploaded or not.
KeptUntilStored ==
    kind = "remote" =>
        \A event \in durable :
            Stored(event) \/ (file = "kept" /\ event \in EventsOf(disk.pending))

\* Once the end of a run is on disk, nothing is ever processed again for it,
\* restarts included.
EndIsFinal == [][("ended" \in disk.marks) => reported' = reported]_vars

\* The Worker stopped reporting: refused, out of attempts, or unable to save.
GaveUp == step = "stopped" /\ ("abandoned" \in journal.marks \/ badSaves > 0)

\* Every saved event of a claimed turn reaches Control unless the Worker gave
\* the run up.
EventuallyStored ==
    \A event \in 1..MaxEvents :
        (kind = "remote" /\ event \in durable) ~> (Stored(event) \/ GaveUp)

\* Control's table is an append-only log of what the runtime reported.
Log == INSTANCE EventLog WITH stored <- rows
LogSpec == Log!Spec
===============================================================================
