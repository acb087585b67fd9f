--------------------------- MODULE EventRelayProofs ---------------------------
(* Proofs about EventRelay, for every number of events, attempts and faults.

   The properties are about what Control and the disk hold; they are inductive
   only together with what is between the two: the memory of the Worker
   (Covers), requests under way, given up or not (SentWasSaved, SentGapless),
   and where the Worker stands (Control flow). *)
EXTENDS EventRelay, TLAPS

-----------------------------------------------------------------------------
(* The inductive invariant *)

Sent == late \cup {awaiting}

\* Every copy of an event, wherever it is.
Copies ==
    rows \cup journal.pending \cup disk.pending \cup UNION {r.batch : r \in Sent}

\* A Journal holds every event Control has not acknowledged.
Covers(j) ==
    /\ \A x \in j.pending : x.seq < j.next
    /\ \A s \in (last + 1)..(j.next - 1) : \E x \in j.pending : x.seq = s

Numbering ==
    /\ last < disk.next /\ disk.next <= journal.next
    /\ Covers(journal) /\ Covers(disk)
    /\ \A x \in rows : x.seq <= last
    /\ \A s \in 1..last : \E x \in rows : x.seq = s

\* No two copies disagree about a number, and the numbers follow the reports.
Agreement ==
    /\ \A x, y \in Copies : x.seq < y.seq <=> x.event < y.event
    /\ \A x \in Copies : 1 <= x.seq /\ 1 <= x.event /\ x.event <= reported

SentWasSaved == \A r \in Sent : \A x \in r.batch : x.seq < disk.next

SentGapless ==
    \A r \in Sent : \A x \in r.batch : \A s \in (last + 1)..x.seq :
        \E y \in r.batch : y.seq = s

\* Where the Worker is when a call is under way, and what the call carries.
CallsInStep ==
    /\ awaiting.op = "events" =>
          /\ step \in {"process", "upload", "resume"}
          /\ awaiting.batch = journal.pending
          /\ answer = "ok" => \A x \in journal.pending : x.seq <= last
    /\ awaiting = Terminal => step = "complete"
    /\ awaiting = Nothing => answer = "none"

\* A claimed turn is saved whenever it is not being processed.
SavedInStep ==
    /\ kind = "remote" \/ step \in {"resync", "resume"} => reporter = "remote"
    /\ (reporter = "remote" /\ step \notin {"process", "down", "stopped"})
          => disk.next = journal.next

EndedInStep ==
    step \in {"process", "resume", "resync"} =>
        "ended" \notin journal.marks /\ "ended" \notin disk.marks

RemovedInStep == file = "removed" => step = "stopped"

IInv ==
    /\ TypeOK
    /\ Numbering
    /\ Agreement
    /\ SentWasSaved
    /\ SentGapless
    /\ CallsInStep
    /\ SavedInStep
    /\ EndedInStep
    /\ RemovedInStep
    /\ KeptUntilStored
-----------------------------------------------------------------------------
(* Types *)

LEMMA RequestTypes ==
    /\ \A batch \in SUBSET Entry : Upload(batch) \in Requests
    /\ Terminal \in Requests
    /\ Nothing.batch = {} /\ Nothing.op = "none" /\ Terminal.op = "complete"
BY DEF Upload, Terminal, Nothing, Requests

LEMMA JournalTypes ==
    ASSUME NEW j \in Journal
    PROVE  /\ j.next \in Nat /\ j.pending \subseteq Entry
           /\ j.marks \subseteq Marks /\ j.retries \in Nat
           /\ EventsOf(j.pending) \subseteq Nat
           /\ \A m \in Marks : Mark(j, m) \in Journal
           /\ [j EXCEPT !.pending = {}] \in Journal
           /\ \A n \in Nat : [j EXCEPT !.retries = n] \in Journal
BY DEF Journal, Mark, Marks, EventsOf, Entry

LEMMA ReportedType ==
    ASSUME TypeOK
    PROVE  Reported \in Journal
<1> DEFINE new == [seq |-> journal.next, event |-> reported + 1]
<1>0. journal.next \in Nat /\ reported \in Nat
  BY JournalTypes DEF TypeOK
<1>1. new \in Entry
  BY <1>0 DEF Entry
<1>2. journal.pending \cup {new} \in SUBSET Entry
  BY <1>1, JournalTypes DEF TypeOK
<1> HIDE DEF new
<1>3. [journal EXCEPT !.next = journal.next + 1, !.pending = journal.pending \cup {new}] \in Journal
  <2>1. journal \in Journal /\ journal.next + 1 \in Nat
    BY <1>0 DEF TypeOK
  <2> QED
    BY <2>1, <1>2 DEF Journal
<1> QED
  BY <1>3 DEF Reported, new

THEOREM InitType == Init => TypeOK
BY KindsAssumption DEF Init, TypeOK, EmptyJournal, Journal, Entry, Steps, Nothing

LEMMA SaveTypes ==
    ASSUME TypeOK, NEW j \in Journal, TrySave(j) \/ (Write(j) /\ BadSave)
    PROVE  /\ disk' \in Journal /\ durable' \subseteq Nat /\ file' \in {"kept", "removed"}
           /\ badSaves' \in Nat
<1>1. EventsOf(j.pending) \subseteq Nat
  BY JournalTypes
<1>2. durable \cup EventsOf(j.pending) \subseteq Nat
  BY <1>1 DEF TypeOK
<1>3. badSaves \in Nat
  BY DEF TypeOK
<1> QED
  BY <1>2, <1>3 DEF TypeOK, TrySave, SaveOK, SaveFails, BadSave, Write

THEOREM StepType == TypeOK /\ [Next]_vars => TypeOK'
<1> SUFFICES ASSUME TypeOK, [Next]_vars PROVE TypeOK'
  OBVIOUS
<1> USE RequestTypes
<1> DEFINE DiskType == /\ disk' \in Journal /\ durable' \subseteq Nat
                       /\ file' \in {"kept", "removed"} /\ badSaves' \in Nat
<1>1. \A j \in Journal : TrySave(j) \/ (Write(j) /\ BadSave) => DiskType
  BY SaveTypes
<1>2. \A j \in Journal : SaveOK(j) => DiskType
  BY <1>1 DEF TrySave
<1>3. NoSave \/ RemoveFile \/ SaveFails => DiskType
  <2>1. NoSave => DiskType
    BY DEF TypeOK, NoSave
  <2>2. RemoveFile => DiskType
    BY DEF TypeOK, RemoveFile, BadSave
  <2>3. SaveFails => DiskType
    BY DEF TypeOK, SaveFails, BadSave
  <2> QED
    BY <2>1, <2>2, <2>3
<1>4. \A j \in Journal : Abandon(j) => journal' \in Journal /\ step' \in Steps /\ DiskType
  BY <1>1, JournalTypes DEF Abandon, Marks, Steps
<1>5. \A next \in Steps : Backoff(next) => journal' \in Journal /\ step' \in Steps /\ DiskType
  <2> SUFFICES ASSUME NEW next \in Steps, Backoff(next)
               PROVE journal' \in Journal /\ step' \in Steps /\ DiskType
    OBVIOUS
  <2> DEFINE retried == [journal EXCEPT !.retries = journal.retries + 1]
  <2>0. journal \in Journal /\ journal.retries \in Nat
    BY JournalTypes DEF TypeOK
  <2>1. retried \in Journal
    <3>1. journal.retries + 1 \in Nat
      BY <2>0
    <3> QED
      BY <3>1, <2>0, JournalTypes
  <2>2. Mark(retried, "abandoned") \in Journal
    BY <2>1, JournalTypes DEF Marks
  <2> QED
    BY <2>1, <2>2, <1>1, <1>4 DEF Backoff, Steps
<1> HIDE DEF DiskType
<1>6. CASE Report
  <2>1. Reported \in Journal /\ Upload(Reported.pending) \in Requests
    BY ReportedType, JournalTypes
  <2>2. DiskType
    <3>1. SaveOK(Reported) \/ SaveFails \/ NoSave
      BY <1>6 DEF Report
    <3> QED
      BY <2>1, <3>1, <1>2, <1>3
  <2>3. awaiting' \in Requests \cup {Nothing} /\ answer' \in {"none", "ok", "refused"}
    BY <2>1, <1>6 DEF Report, TypeOK, Send, call
  <2>4. journal' \in Journal /\ reported' \in Nat
    BY <2>1, <1>6 DEF Report, TypeOK
  <2> QED
    BY <2>2, <2>3, <2>4, <1>6 DEF Report, TypeOK, DiskType, control, idle
<1>7. CASE TickUploads
  BY <1>2, <1>7, JournalTypes DEF TickUploads, TypeOK, DiskType, Send, control, idle
<1>8. CASE RegisterInBackground
  BY <1>1, <1>3, <1>8, JournalTypes DEF RegisterInBackground, TypeOK, DiskType, idle, call, Marks
<1>9. CASE ProcessEnds
  BY <1>2, <1>3, <1>9, JournalTypes DEF ProcessEnds, TypeOK, DiskType, idle, call, control, Marks, Steps
<1>10. CASE Register
  BY <1>3, <1>4, <1>5, <1>10 DEF Register, TypeOK, DiskType, call, Steps, TimeOut
<1>11. CASE AwaitRegistration
  BY <1>2, <1>3, <1>11 DEF AwaitRegistration, TypeOK, DiskType, idle, call, control, Steps
<1>12. CASE UploadRest
  BY <1>2, <1>3, <1>12, JournalTypes DEF UploadRest, TypeOK, DiskType, idle, call, control, Steps, Send
<1>13. CASE ReportEnd
  BY <1>3, <1>13 DEF ReportEnd, TypeOK, DiskType, idle, call, control, Steps, Send
<1>14. CASE Settle
  BY <1>3, <1>4, <1>5, <1>14 DEF Settle, TypeOK, DiskType, idle, call, control, Steps
<1>15. CASE UploadAnswered
  BY <1>2, <1>3, <1>15, JournalTypes DEF UploadAnswered, TypeOK, DiskType, idle, control, Steps, CallOver, AfterUpload
<1>16. CASE EndAnswered
  <2>1. Mark(journal, "delivered") \in Journal
    BY JournalTypes DEF TypeOK, Marks
  <2>2. [Mark(journal, "delivered") EXCEPT !.retries = 0] \in Journal
    BY <2>1, JournalTypes
  <2> QED
    BY <2>2, <1>1, <1>3, <1>4, <1>16 DEF EndAnswered, TypeOK, DiskType, idle, control, Steps, CallOver
<1>17. CASE GiveUp
  BY <1>3, <1>5, <1>17 DEF GiveUp, TypeOK, DiskType, control, Steps, CallOver, AfterUpload, TimeOut, Leave, Waits
<1>18. CASE ControlHandles
  BY <1>3, <1>18 DEF ControlHandles, TypeOK, DiskType, idle, HandleUpload, HandleEnd, StoreBatch, Fresh, Requests, Entry
<1>19. CASE ControlHandlesLate
  BY <1>3, <1>19 DEF ControlHandlesLate, TypeOK, DiskType, idle, call, HandleUpload, HandleEnd, StoreBatch, Fresh, Requests, Entry
<1>20. CASE Crash
  BY <1>3, <1>20 DEF Crash, TypeOK, DiskType, control, Steps, CallOver, Leave, Waits
<1>21. CASE Restart
  BY <1>2, <1>3, <1>21 DEF Restart, TypeOK, DiskType, control, Steps, idle, call, ResumeAt, Resumes
<1>22. CASE Resync
  BY <1>3, <1>4, <1>5, <1>22 DEF Resync, TypeOK, DiskType, call, Steps, TimeOut, Resumes
<1>23. CASE Resume
  BY <1>3, <1>23, JournalTypes DEF Resume, TypeOK, DiskType, control, idle, Steps, Send
<1>24. CASE Done \/ UNCHANGED vars
  BY <1>24 DEF Done, vars, TypeOK
<1> QED
  BY <1>6, <1>7, <1>8, <1>9, <1>10, <1>11, <1>12, <1>13, <1>14, <1>15, <1>16, <1>17,
     <1>18, <1>19, <1>20, <1>21, <1>22, <1>23, <1>24 DEF Next, Works

-----------------------------------------------------------------------------
(* What the invariant says of the copies of an event *)

\* Every copy is an entry, and copies with one number are one entry.
LEMMA CopyTypes ==
    ASSUME TypeOK
    PROVE  /\ Copies \subseteq Entry
           /\ \A r \in Sent : r.batch \subseteq Entry
<1>1. rows \subseteq Entry /\ journal.pending \subseteq Entry /\ disk.pending \subseteq Entry
  BY JournalTypes DEF TypeOK
<1>2. \A r \in Requests \cup {Nothing} : r.batch \subseteq Entry
  BY DEF Requests, Nothing
<1>3. Sent \subseteq Requests \cup {Nothing}
  BY DEF TypeOK, Sent
<1>4. \A r \in Sent : r.batch \subseteq Entry
  BY <1>2, <1>3
<1> QED
  BY <1>1, <1>4 DEF Copies

LEMMA SameNumber ==
    ASSUME TypeOK, Agreement, NEW x \in Copies, NEW y \in Copies, x.seq = y.seq
    PROVE  x = y
<1>1. x \in Entry /\ y \in Entry
  BY CopyTypes
<1>2. x.event \in Nat /\ y.event \in Nat /\ x.seq \in Nat
  BY <1>1 DEF Entry
<1>3. ~(x.seq < y.seq) /\ ~(y.seq < x.seq)
  BY <1>2
<1>4. ~(x.event < y.event) /\ ~(y.event < x.event)
  BY <1>3 DEF Agreement
<1> QED
  BY <1>1, <1>2, <1>4 DEF Entry

\* A number Control has passed stands for what Control has stored.
LEMMA PassedMeansStored ==
    ASSUME TypeOK, Numbering, Agreement, NEW x \in Copies, x.seq <= last
    PROVE  x \in rows
<1>1. x.seq \in 1..last
  BY CopyTypes DEF TypeOK, Entry, Agreement
<1>2. PICK y \in rows : y.seq = x.seq
  BY <1>1 DEF Numbering
<1> QED
  BY <1>2, SameNumber DEF Copies

\* What the memory of the Worker does not hold any more is at Control.
LEMMA DiskBehindMemory ==
    ASSUME TypeOK, Numbering, Agreement, NEW x \in disk.pending
    PROVE  x \in journal.pending \/ x \in rows
<1>1. x \in Copies /\ x \in Entry
  BY CopyTypes DEF Copies
<1>2. CASE x.seq <= last
  BY <1>1, <1>2, PassedMeansStored
<1>3. CASE ~(x.seq <= last)
  <2>1. x.seq \in Nat /\ last \in Nat /\ journal.next \in Nat /\ disk.next \in Nat
    BY <1>1, JournalTypes DEF TypeOK, Entry
  <2>2. x.seq < journal.next
    BY <2>1 DEF Numbering, Covers
  <2>3. x.seq \in (last + 1)..(journal.next - 1)
    BY <2>1, <2>2, <1>3
  <2>4. PICK y \in journal.pending : y.seq = x.seq
    BY <2>3 DEF Numbering, Covers
  <2> QED
    BY <2>4, <1>1, SameNumber DEF Copies
<1> QED
  BY <1>2, <1>3
-----------------------------------------------------------------------------
(* How a step may change the copies *)

Data == Numbering /\ Agreement /\ SentWasSaved /\ SentGapless

\* The file is as it was, or holds what the memory holds.
DiskSameOrSaved ==
    \/ disk'.next = disk.next /\ disk'.pending = disk.pending
    \/ disk'.next = journal'.next /\ disk'.pending = journal'.pending

\* No event is added, and what is sent is on disk.
LEMMA QuietData ==
    ASSUME TypeOK, Data, TypeOK',
           journal'.next = journal.next, journal'.pending = journal.pending,
           DiskSameOrSaved, UNCHANGED <<rows, last, reported>>,
           \A r \in Sent' : \/ r \in Sent \/ r.batch = {}
                            \/ r.batch = journal.pending /\ disk'.next = journal.next
    PROVE  Data'
<1> USE DEF Data
<1>1. /\ last \in Nat /\ journal.next \in Nat /\ disk.next \in Nat /\ disk'.next \in Nat
      /\ journal.pending \subseteq Entry
  BY JournalTypes DEF TypeOK
<1>2. Copies' \subseteq Copies
  BY DEF Copies, DiskSameOrSaved
<1>3. Agreement'
  BY <1>2 DEF Agreement
<1>4. Numbering'
  BY <1>1 DEF Numbering, Covers, DiskSameOrSaved
<1>5. disk.next <= disk'.next
  BY <1>1 DEF Numbering, DiskSameOrSaved
<1>6. \A x \in journal.pending : x.seq \in Nat /\ x.seq < journal.next
  BY <1>1 DEF Numbering, Covers, Entry
<1>7. \A r \in Sent : \A x \in r.batch : x.seq \in Nat
  BY CopyTypes DEF Entry
<1>8. SentWasSaved'
  BY <1>1, <1>5, <1>6, <1>7 DEF SentWasSaved
<1>9. \A x \in journal.pending : \A s \in (last + 1)..x.seq :
         \E y \in journal.pending : y.seq = s
  BY <1>1, <1>6 DEF Numbering, Covers
<1>10. SentGapless'
  BY <1>9 DEF SentGapless
<1> QED
  BY <1>3, <1>4, <1>8, <1>10

\* The next event of the runtime gets a number no copy has.
LEMMA ReportData ==
    ASSUME TypeOK, Data, TypeOK',
           journal' = Reported, reported' = reported + 1,
           DiskSameOrSaved, UNCHANGED <<rows, last>>,
           \A r \in Sent' : \/ r \in Sent
                            \/ r.batch = journal'.pending /\ disk'.next = journal'.next
    PROVE  Data'
<1> USE DEF Data
<1> DEFINE new == [seq |-> journal.next, event |-> reported + 1]
<1>1. /\ last \in Nat /\ journal.next \in Nat /\ disk.next \in Nat /\ disk'.next \in Nat
      /\ journal.pending \subseteq Entry /\ reported \in Nat
  BY JournalTypes DEF TypeOK
<1>2. journal'.next = journal.next + 1 /\ journal'.pending = journal.pending \cup {new}
  BY DEF Reported, TypeOK, Journal
<1>3. new.seq = journal.next /\ new.event = reported + 1
  OBVIOUS
<1> HIDE DEF new
<1>4. Copies' \subseteq Copies \cup {new}
  BY <1>2 DEF Copies, DiskSameOrSaved
<1>5. \A x \in Copies : /\ x.seq \in Nat /\ x.event \in Nat
                        /\ 1 <= x.seq /\ 1 <= x.event /\ x.event <= reported
                        /\ x.seq < new.seq /\ x.event < new.event
  <2>1. \A x \in Copies : x.seq \in Nat /\ x.event \in Nat
    BY CopyTypes DEF Entry
  <2>2. \A x \in rows \cup journal.pending \cup disk.pending : x.seq < journal.next
    BY <1>1, <2>1 DEF Numbering, Covers, Copies
  <2>3. \A r \in Sent : \A x \in r.batch : x.seq \in Nat /\ x.seq < journal.next
    BY <1>1, CopyTypes DEF SentWasSaved, Numbering, Entry
  <2>4. \A x \in Copies : x.seq < new.seq
    BY <2>2, <2>3, <1>3 DEF Copies
  <2>5. \A x \in Copies : 1 <= x.seq /\ 1 <= x.event /\ x.event <= reported
    BY DEF Agreement
  <2>6. \A x \in Copies : x.event < new.event
    BY <2>1, <2>5, <1>1, <1>3
  <2> QED
    BY <2>1, <2>4, <2>5, <2>6
<1>6. Agreement'
  <2>1. \A x, y \in Copies \cup {new} : x.seq < y.seq <=> x.event < y.event
    BY <1>1, <1>3, <1>5 DEF Agreement
  <2>2. \A x \in Copies \cup {new} : 1 <= x.seq /\ 1 <= x.event /\ x.event <= reported + 1
    <3>1. 1 <= journal.next
      BY <1>1 DEF Numbering
    <3> QED
      BY <1>1, <1>3, <1>5, <3>1
  <2> QED
    BY <2>1, <2>2, <1>4 DEF Agreement
<1>7. Covers(journal)'
  <2>1. \A x \in journal.pending \cup {new} : x.seq < journal.next + 1
    BY <1>1, <1>3 DEF Numbering, Covers, Entry
  <2>2. \A s \in (last + 1)..journal.next : \E x \in journal.pending \cup {new} : x.seq = s
    BY <1>1, <1>3 DEF Numbering, Covers
  <2>3. journal'.next - 1 = journal.next /\ last' = last
    BY <1>1, <1>2
  <2> QED
    BY <2>1, <2>2, <2>3, <1>2 DEF Covers
<1>8. Numbering'
  BY <1>1, <1>2, <1>7 DEF Numbering, Covers, DiskSameOrSaved
<1>9. SentWasSaved'
  BY <1>1, <1>2, <1>7, CopyTypes DEF SentWasSaved, Covers, DiskSameOrSaved, Numbering, Entry
<1>10. SentGapless'
  <2>1. \A x \in journal'.pending : \A s \in (last + 1)..x.seq :
           \E y \in journal'.pending : y.seq = s
    <3>1. \A x \in journal'.pending : x.seq \in Nat
      BY CopyTypes, <1>2, <1>1, <1>3 DEF Entry
    <3> QED
      BY <3>1, <1>1, <1>2, <1>7 DEF Covers
  <2> QED
    BY <2>1 DEF SentGapless
<1> QED
  BY <1>6, <1>8, <1>9, <1>10

\* Acknowledged events leave the memory.
LEMMA AcknowledgedData ==
    ASSUME TypeOK, Data, TypeOK',
           journal'.next = journal.next, journal'.pending = {},
           \A x \in journal.pending : x.seq <= last,
           DiskSameOrSaved, UNCHANGED <<rows, last, reported>>,
           \A r \in Sent' : r \in Sent \/ r.batch = {}
    PROVE  Data'
<1> USE DEF Data
<1>1. /\ last \in Nat /\ journal.next \in Nat /\ disk.next \in Nat /\ disk'.next \in Nat
      /\ journal.pending \subseteq Entry
  BY JournalTypes DEF TypeOK
<1>2. Copies' \subseteq Copies
  BY DEF Copies, DiskSameOrSaved
<1>3. Agreement'
  BY <1>2 DEF Agreement
<1>4. (last + 1)..(journal.next - 1) = {}
  BY <1>1 DEF Numbering, Covers, Entry
<1>5. Covers(journal)'
  BY <1>4 DEF Covers
<1>6. Numbering'
  BY <1>1, <1>5 DEF Numbering, Covers, DiskSameOrSaved
<1>7. disk.next <= disk'.next
  BY <1>1 DEF Numbering, DiskSameOrSaved
<1>8. SentWasSaved'
  BY <1>1, <1>7, CopyTypes DEF SentWasSaved, Entry
<1>9. SentGapless'
  BY DEF SentGapless
<1> QED
  BY <1>3, <1>6, <1>8, <1>9

\* A restart takes over what the disk holds.
LEMMA RestartData ==
    ASSUME TypeOK, Data, TypeOK',
           journal' = disk, disk' = disk,
           UNCHANGED <<rows, last, reported, late, awaiting>>
    PROVE  Data'
<1> USE DEF Data
<1>1. Copies' \subseteq Copies
  BY DEF Copies, Sent
<1>2. Agreement'
  BY <1>1 DEF Agreement
<1>3. disk.next \in Nat
  BY JournalTypes DEF TypeOK
<1>4. Numbering'
  BY <1>3 DEF Numbering, Covers
<1>5. SentWasSaved' /\ SentGapless'
  BY DEF SentWasSaved, SentGapless, Sent
<1> QED
  BY <1>2, <1>4, <1>5

LEMMA Narrower ==
    ASSUME NEW a \in Nat, NEW b \in Nat, a <= b, NEW n \in Int, NEW s \in (b + 1)..n
    PROVE  s \in (a + 1)..n
OBVIOUS

\* One transaction of Control extends its table at the end.
LEMMA StoreData ==
    ASSUME TypeOK, Data, TypeOK', NEW r \in Sent, Gapless(r.batch), StoreBatch(r.batch),
           UNCHANGED <<journal, disk, reported>>, Sent' \subseteq Sent
    PROVE  /\ Data'
           /\ rows \subseteq rows' /\ last <= last'
           /\ \A x \in rows' \ rows : last < x.seq
           /\ \A x \in r.batch : x.seq <= last'
<1> USE DEF Data
<1> DEFINE batch == r.batch
<1>1. /\ last \in Nat /\ last' \in Nat /\ journal.next \in Nat /\ disk.next \in Nat
      /\ batch \subseteq Entry /\ rows \subseteq Entry /\ rows' \subseteq Entry
      /\ journal.pending \subseteq Entry /\ disk.pending \subseteq Entry
  BY JournalTypes, CopyTypes DEF TypeOK
<1>2. batch \subseteq Copies /\ rows \subseteq Copies
  BY DEF Copies
<1>3. /\ last' \in {last} \cup {x.seq : x \in batch}
      /\ last' >= last /\ \A x \in batch : last' >= x.seq
  BY DEF StoreBatch, Highest
<1>4. rows' = rows \cup {x \in batch : x.seq > last}
  <2>1. \A x \in batch : x.seq > last => \A y \in rows : y.seq # x.seq
    BY <1>1 DEF Numbering, Entry
  <2> QED
    BY <2>1 DEF StoreBatch, Fresh
<1>5. rows \subseteq rows' /\ last <= last'
  BY <1>1, <1>3, <1>4
<1>6. \A x \in rows' \ rows : last < x.seq
  BY <1>1, <1>4 DEF Entry
<1>7. \A x \in batch : x.seq <= last'
  BY <1>1, <1>3 DEF Entry
<1>8. Copies' \subseteq Copies
  BY <1>2, <1>4 DEF Copies
<1>9. Agreement'
  BY <1>8 DEF Agreement
<1>10. last' < disk.next
  BY <1>1, <1>3 DEF Numbering, SentWasSaved
<1>11. \A x \in rows' : x.seq <= last'
  BY <1>1, <1>3, <1>4, <1>7 DEF Numbering, Entry
<1>12. \A s \in 1..last' : \E x \in rows' : x.seq = s
  <2> SUFFICES ASSUME NEW s \in 1..last' PROVE \E x \in rows' : x.seq = s
    OBVIOUS
  <2>1. CASE s <= last
    <3>1. s \in 1..last
      BY <1>1, <2>1
    <3> QED
      BY <3>1, <1>4 DEF Numbering
  <2>2. CASE ~(s <= last)
    <3>1. last' # last /\ last < last'
      BY <1>1, <1>3, <2>2
    <3>2. PICK x \in batch : x.seq = last'
      BY <3>1, <1>3
    <3>3. x \in Fresh(batch) /\ s \in (last + 1)..x.seq
      BY <1>1, <2>2, <3>1, <3>2 DEF Fresh
    <3>4. PICK y \in batch : y.seq = s
      BY <3>3 DEF Gapless
    <3>5. y.seq > last
      BY <3>4, <2>2, <1>1
    <3> QED
      BY <3>4, <3>5, <1>4
  <2> QED
    BY <2>1, <2>2
<1>17. \A n \in Int : \A s \in (last' + 1)..n : s \in (last + 1)..n
  BY <1>1, <1>5, Narrower
<1>13. Covers(journal)' /\ Covers(disk)'
  <2>1. journal.next - 1 \in Int /\ disk.next - 1 \in Int
    BY <1>1
  <2> QED
    BY <2>1, <1>17 DEF Numbering, Covers
<1>14. Numbering'
  BY <1>10, <1>11, <1>12, <1>13, <1>1 DEF Numbering
<1>15. SentWasSaved'
  BY DEF SentWasSaved
<1>16. SentGapless'
  <2>1. \A q \in Sent : \A x \in q.batch : x.seq \in Nat
    BY CopyTypes DEF Entry
  <2>3. \A q \in Sent : \A x \in q.batch : \A s \in (last' + 1)..x.seq :
           \E y \in q.batch : y.seq = s
    BY <2>1, <1>17 DEF SentGapless
  <2> QED
    BY <2>3 DEF SentGapless
<1> QED
  BY <1>5, <1>6, <1>7, <1>9, <1>14, <1>15, <1>16

\* What was saved is at Control or still in the file.
LEMMA KeptStep ==
    ASSUME TypeOK, KeptUntilStored, UNCHANGED kind, rows \subseteq rows',
           durable' \subseteq durable \cup EventsOf(disk'.pending),
           file = "kept" =>
               \A x \in disk.pending : x \in rows' \/ (file' = "kept" /\ x \in disk'.pending),
           durable' = durable \/ file' = "kept"
    PROVE  KeptUntilStored'
<1> SUFFICES ASSUME kind = "remote", NEW event \in durable'
             PROVE  (Stored(event) \/ (file = "kept" /\ event \in EventsOf(disk.pending)))'
  BY DEF KeptUntilStored
<1>1. Stored(event) => Stored(event)'
  BY DEF Stored, EventsOf
<1>2. CASE event \in durable
  <2>1. CASE Stored(event)
    BY <2>1, <1>1
  <2>2. CASE ~Stored(event)
    <3>1. file = "kept" /\ event \in EventsOf(disk.pending)
      BY <1>2, <2>2 DEF KeptUntilStored
    <3>2. PICK x \in disk.pending : x.event = event
      BY <3>1 DEF EventsOf
    <3> QED
      BY <3>1, <3>2 DEF Stored, EventsOf
  <2> QED
    BY <2>1, <2>2
<1>3. CASE event \notin durable
  BY <1>3
<1> QED
  BY <1>2, <1>3
-----------------------------------------------------------------------------
(* The kinds of steps *)

DiskStep(j) == SaveOK(j) \/ SaveFails \/ NoSave \/ (Write(j) /\ BadSave)

SameEntries(j, k) == j.next = k.next /\ j.pending = k.pending

\* Abandoning and backing off touch marks and the retry count only.
LEMMA RetryStep ==
    ASSUME TypeOK, NEW next,
           Abandon(journal) \/ Backoff(next)
    PROVE  /\ SameEntries(journal', journal) /\ file' = file
           /\ \E j \in Journal : SameEntries(j, journal) /\ DiskStep(j)
           /\ step' \in {next, "stopped"}
           /\ "ended" \in journal'.marks => "ended" \in journal.marks
           /\ "ended" \in disk'.marks => "ended" \in journal.marks \/ "ended" \in disk.marks
<1> DEFINE retried == [journal EXCEPT !.retries = journal.retries + 1]
<1>1. journal \in Journal /\ journal.retries + 1 \in Nat
  <2>1. journal \in Journal
    BY DEF TypeOK
  <2>2. journal.retries \in Nat
    BY <2>1, JournalTypes
  <2> QED
    BY <2>1, <2>2
<1>2. retried \in Journal /\ SameEntries(retried, journal) /\ retried.marks = journal.marks
  BY <1>1, JournalTypes DEF Journal, SameEntries
<1>3. \A j \in Journal : LET m == Mark(j, "abandoned") IN
         /\ m \in Journal /\ SameEntries(m, j)
         /\ "ended" \in m.marks => "ended" \in j.marks
  BY JournalTypes DEF Mark, Marks, Journal, SameEntries
<1>4. ASSUME NEW j \in Journal, SameEntries(j, journal), j.marks = journal.marks, Abandon(j)
      PROVE  /\ SameEntries(journal', journal) /\ file' = file
             /\ \E k \in Journal : SameEntries(k, journal) /\ DiskStep(k)
             /\ step' = "stopped"
             /\ "ended" \in journal'.marks => "ended" \in journal.marks
             /\ "ended" \in disk'.marks => "ended" \in journal.marks \/ "ended" \in disk.marks
  <2>1. /\ journal' = Mark(j, "abandoned") /\ TrySave(journal') /\ step' = "stopped"
    BY <1>4 DEF Abandon
  <2>2. DiskStep(journal') /\ file' = file /\ (disk' = disk \/ disk' = journal')
    BY <2>1 DEF DiskStep, TrySave, SaveOK, SaveFails, Write
  <2> QED
    BY <2>1, <2>2, <1>3, <1>4 DEF SameEntries
<1>5. CASE Abandon(journal)
  BY <1>1, <1>4, <1>5 DEF SameEntries
<1>6. CASE Backoff(next)
  <2>1. CASE Abandon(retried)
    BY <1>2, <1>4, <2>1
  <2>2. CASE journal' = retried /\ TrySave(retried) /\ step' = next
    BY <1>2, <2>2 DEF TrySave, SaveOK, SaveFails, Write, DiskStep
  <2>3. CASE /\ journal' = Mark(retried, "abandoned")
             /\ Write(retried) /\ BadSave /\ step' = "stopped"
    <3>1. disk' = retried /\ file' = file
      BY <2>3 DEF Write
    <3>2. DiskStep(retried)
      BY <2>3 DEF DiskStep
    <3>3. SameEntries(journal', journal)
      BY <1>2, <1>3, <2>3 DEF SameEntries
    <3>4. "ended" \in journal'.marks => "ended" \in journal.marks
      BY <1>2, <1>3, <2>3
    <3> HIDE DEF retried
    <3> QED
      BY <3>1, <3>2, <3>3, <3>4, <2>3, <1>2
  <2> QED
    BY <1>6, <2>1, <2>2, <2>3 DEF Backoff
<1> QED
  BY <1>5, <1>6

\* A step that reports nothing, stores nothing and sends only what is saved.
LEMMA QuietStep ==
    ASSUME IInv, TypeOK', file = "kept",
           SameEntries(journal', journal),
           NEW j, SameEntries(j, journal), DiskStep(j),
           UNCHANGED <<kind, rows, last, reported>>,
           \A r \in Sent' : \/ r \in Sent \/ r.batch = {}
                            \/ r.batch = journal.pending /\ disk'.next = journal.next
    PROVE  Data' /\ KeptUntilStored' /\ file' = "kept" /\ disk.next <= disk'.next
<1> USE DEF IInv
<1>1. DiskSameOrSaved
  BY DEF DiskSameOrSaved, SameEntries, DiskStep, SaveOK, SaveFails, NoSave, Write
<1>2. Data'
  BY <1>1, QuietData DEF Data, SameEntries
<1>3. file' = "kept"
  BY DEF DiskStep, SaveOK, SaveFails, NoSave, Write
<1>4. /\ disk'.pending = disk.pending \/ disk'.pending = journal.pending
      /\ durable' \subseteq durable \cup EventsOf(disk'.pending)
  BY DEF SameEntries, DiskStep, SaveOK, SaveFails, NoSave, Write
<1>5. KeptUntilStored'
  BY <1>3, <1>4, KeptStep, DiskBehindMemory
<1>6. disk.next <= disk'.next
  <2>1. disk.next \in Nat /\ journal.next \in Nat
    BY JournalTypes DEF TypeOK
  <2> QED
    BY <2>1, <1>1 DEF DiskSameOrSaved, Numbering, SameEntries
<1> QED
  BY <1>2, <1>3, <1>5, <1>6
-----------------------------------------------------------------------------
(* The invariant is inductive, one action at a time *)

Place == CallsInStep /\ SavedInStep /\ EndedInStep /\ RemovedInStep

LEMMA MarkEntries ==
    ASSUME NEW j \in Journal, NEW m \in Marks
    PROVE  /\ SameEntries(Mark(j, m), j)
           /\ Mark(j, m).marks = j.marks \cup {m}
BY DEF SameEntries, Mark, Journal

LEMMA ReportInv ==
    ASSUME IInv, TypeOK', Report
    PROVE  Data' /\ KeptUntilStored' /\ Place'
<1> USE DEF IInv
<1>1. /\ step = "process" /\ step' = step /\ awaiting = Nothing
      /\ journal' = Reported /\ reported' = reported + 1
      /\ UNCHANGED <<kind, reporter, late, rows, last>>
  BY DEF Report, Waits, control
<1>2. DiskStep(Reported) /\ file = "kept" /\ file' = "kept"
  BY <1>1 DEF Report, DiskStep, RemovedInStep, TypeOK, SaveOK, SaveFails, NoSave, Write
<1>3. DiskSameOrSaved
  BY <1>1, <1>2 DEF DiskSameOrSaved, DiskStep, SaveOK, SaveFails, NoSave, Write
<1>4. \/ awaiting' = awaiting /\ answer' = answer
      \/ /\ awaiting' = Upload(Reported.pending) /\ answer' = "none"
         /\ disk' = Reported
  BY DEF Report, Send, SaveOK, Write, call
<1>5. \A r \in Sent' : \/ r \in Sent
                       \/ r.batch = journal'.pending /\ disk'.next = journal'.next
  BY <1>1, <1>4 DEF Sent, Upload
<1>6. Data'
  BY <1>1, <1>3, <1>5, ReportData DEF Data
<1>7. journal.pending \subseteq Reported.pending /\ Reported.marks = journal.marks
  BY DEF Reported, TypeOK, Journal
<1>8. KeptUntilStored'
  <2>1. /\ disk'.pending = disk.pending \/ disk'.pending = Reported.pending
        /\ durable' \subseteq durable \cup EventsOf(disk'.pending)
    BY <1>2 DEF DiskStep, SaveOK, SaveFails, NoSave, Write
  <2> QED
    BY <1>1, <1>2, <1>7, <2>1, KeptStep, DiskBehindMemory
<1>9. Place'
  <2>1. CallsInStep'
    BY <1>1, <1>4 DEF CallsInStep, Upload, Nothing, Terminal
  <2>2. EndedInStep'
    BY <1>1, <1>2, <1>7 DEF EndedInStep, DiskStep, SaveOK, SaveFails, NoSave, Write
  <2> QED
    BY <2>1, <2>2, <1>1, <1>2 DEF Place, SavedInStep, RemovedInStep
<1> QED
  BY <1>6, <1>8, <1>9

LEMMA TickInv ==
    ASSUME IInv, TypeOK', TickUploads
    PROVE  Data' /\ KeptUntilStored' /\ Place'
<1> USE DEF IInv
<1>1. /\ step = "process" /\ step' = step /\ file = "kept" /\ file' = file
      /\ journal' = journal /\ disk' = journal
      /\ awaiting' = Upload(journal.pending) /\ answer' = "none"
      /\ UNCHANGED <<kind, reporter, late, rows, last, reported>>
  BY DEF TickUploads, control, SaveOK, Write, Send, RemovedInStep, TypeOK
<1>2. DiskStep(journal) /\ SameEntries(journal, journal)
  BY DEF TickUploads, DiskStep, SameEntries
<1>3. Data' /\ KeptUntilStored'
  BY <1>1, <1>2, QuietStep DEF Sent, Upload
<1>4. Place'
  BY <1>1 DEF Place, CallsInStep, SavedInStep, EndedInStep, RemovedInStep, Upload,
              Nothing, Terminal, TickUploads
<1> QED
  BY <1>3, <1>4

LEMMA RegisterInBackgroundInv ==
    ASSUME IInv, TypeOK', RegisterInBackground
    PROVE  Data' /\ KeptUntilStored' /\ Place'
<1> USE DEF IInv
<1>1. /\ step \in {"process", "register"} /\ step' = step /\ file = "kept"
      /\ UNCHANGED <<kind, reporter, late, rows, last, reported, awaiting, answer>>
  BY DEF RegisterInBackground, call, RemovedInStep, TypeOK
<1>2. /\ SameEntries(journal', journal) /\ DiskStep(journal')
      /\ "ended" \in journal'.marks => "ended" \in journal.marks
      /\ reporter = "remote" => journal' = journal /\ disk' = disk
  BY MarkEntries DEF RegisterInBackground, DiskStep, TrySave, SameEntries, TypeOK, Marks, NoSave
<1>3. Data' /\ KeptUntilStored' /\ file' = "kept"
  BY <1>1, <1>2, QuietStep DEF Sent
<1>4. "ended" \in disk'.marks => "ended" \in journal'.marks \/ "ended" \in disk.marks
  BY <1>2 DEF DiskStep, SaveOK, SaveFails, NoSave, Write
<1>5. Place'
  BY <1>1, <1>2, <1>3, <1>4 DEF Place, CallsInStep, SavedInStep, EndedInStep, RemovedInStep,
              SameEntries
<1> QED
  BY <1>3, <1>5

LEMMA ProcessEndsInv ==
    ASSUME IInv, TypeOK', ProcessEnds
    PROVE  Data' /\ KeptUntilStored' /\ Place'
<1> USE DEF IInv
<1>1. /\ step = "process" /\ file = "kept" /\ awaiting = Nothing
      /\ step' \in {"register", "stopped"}
      /\ UNCHANGED <<kind, reporter, late, rows, last, reported, awaiting, answer>>
  BY DEF ProcessEnds, call, control, RemovedInStep, TypeOK, Waits
<1>2. /\ SameEntries(journal', journal) /\ DiskStep(journal')
      /\ (reporter = "remote" /\ step' # "stopped") => disk' = journal'
  BY MarkEntries DEF ProcessEnds, DiskStep, TypeOK, Marks, SaveOK, Write, KeepsSaving
<1>3. Data' /\ KeptUntilStored' /\ file' = "kept"
  BY <1>1, <1>2, QuietStep DEF Sent
<1>4. Place'
  BY <1>1, <1>2, <1>3 DEF Place, CallsInStep, SavedInStep, EndedInStep, RemovedInStep,
              Nothing, Terminal
<1> QED
  BY <1>3, <1>4

LEMMA RegisterInv ==
    ASSUME IInv, TypeOK', Register
    PROVE  Data' /\ KeptUntilStored' /\ Place'
<1> USE DEF IInv
<1>1. /\ step = "register" /\ file = "kept" /\ step' \in {"register", "upload", "stopped"}
      /\ UNCHANGED <<kind, reporter, late, rows, last, reported, awaiting, answer>>
  BY RetryStep DEF Register, call, RemovedInStep, TypeOK
<1>2. /\ SameEntries(journal', journal)
      /\ \E j \in Journal : SameEntries(j, journal) /\ DiskStep(j)
  BY RetryStep DEF Register, DiskStep, SameEntries, TypeOK
<1>3. Data' /\ KeptUntilStored' /\ file' = "kept"
  BY <1>1, <1>2, QuietStep DEF Sent
<1>4. reporter = "remote" => disk'.next = journal'.next
  <2>1. reporter = "remote" => disk.next = journal.next
    BY <1>1 DEF SavedInStep
  <2> QED
    BY <2>1, <1>2 DEF SameEntries, DiskStep, SaveOK, SaveFails, NoSave, Write
<1>5. Place'
  BY <1>1, <1>2, <1>3, <1>4 DEF Place, CallsInStep, SavedInStep, EndedInStep, RemovedInStep
<1> QED
  BY <1>3, <1>5

LEMMA AwaitRegistrationInv ==
    ASSUME IInv, TypeOK', AwaitRegistration
    PROVE  Data' /\ KeptUntilStored' /\ Place'
<1> USE DEF IInv
<1>1. /\ step = "register" /\ file = "kept" /\ step' \in {"upload", "stopped"}
      /\ journal' = journal /\ SameEntries(journal, journal) /\ DiskStep(journal)
      /\ reporter = "desktop"
      /\ UNCHANGED <<kind, reporter, late, rows, last, reported, awaiting, answer>>
  BY DEF AwaitRegistration, call, control, RemovedInStep, TypeOK, DiskStep, SameEntries
<1>2. Data' /\ KeptUntilStored' /\ file' = "kept"
  BY <1>1, QuietStep DEF Sent
<1>3. Place'
  BY <1>1, <1>2 DEF Place, CallsInStep, SavedInStep, EndedInStep, RemovedInStep
<1> QED
  BY <1>2, <1>3

LEMMA UploadRestInv ==
    ASSUME IInv, TypeOK', UploadRest
    PROVE  Data' /\ KeptUntilStored' /\ Place'
<1> USE DEF IInv
<1>1. /\ step = "upload" /\ file = "kept" /\ step' \in {"upload", "complete"}
      /\ journal' = journal /\ SameEntries(journal, journal) /\ DiskStep(journal)
      /\ awaiting = Nothing /\ answer = "none"
      /\ UNCHANGED <<kind, reporter, late, rows, last, reported>>
  BY DEF UploadRest, control, RemovedInStep, TypeOK, DiskStep, SameEntries, Waits, CallsInStep
<1>2. \/ awaiting' = awaiting /\ answer' = answer
      \/ /\ awaiting' = Upload(journal.pending) /\ answer' = "none" /\ step' = "upload"
         /\ disk'.next = journal.next
  BY <1>1 DEF UploadRest, Send, SaveOK, Write, NoSave, SavedInStep, call, TypeOK
<1>3. Data' /\ KeptUntilStored' /\ file' = "kept"
  BY <1>1, <1>2, QuietStep DEF Sent, Upload
<1>4. reporter = "remote" => disk'.next = journal'.next
  BY <1>1 DEF SavedInStep, SameEntries, DiskStep, SaveOK, SaveFails, NoSave, Write
<1>5. Place'
  BY <1>1, <1>2, <1>3, <1>4 DEF Place, CallsInStep, SavedInStep, EndedInStep, RemovedInStep,
              Upload, Nothing, Terminal
<1> QED
  BY <1>3, <1>5

LEMMA ReportEndInv ==
    ASSUME IInv, TypeOK', ReportEnd
    PROVE  Data' /\ KeptUntilStored' /\ Place'
<1> USE DEF IInv
<1>1. /\ step = "complete" /\ file = "kept" /\ step' \in {"complete", "settle"}
      /\ journal' = journal /\ SameEntries(journal, journal) /\ DiskStep(journal)
      /\ disk' = disk /\ awaiting = Nothing /\ answer = "none"
      /\ UNCHANGED <<kind, reporter, late, rows, last, reported>>
  BY DEF ReportEnd, control, RemovedInStep, TypeOK, DiskStep, SameEntries, Waits, CallsInStep, NoSave
<1>2. \/ awaiting' = awaiting /\ answer' = answer
      \/ awaiting' = Terminal /\ answer' = "none" /\ step' = "complete"
  BY <1>1 DEF ReportEnd, Send, call
<1>3. Data' /\ KeptUntilStored' /\ file' = "kept"
  BY <1>1, <1>2, QuietStep DEF Sent, Terminal
<1>4. Place'
  BY <1>1, <1>2, <1>3 DEF Place, CallsInStep, SavedInStep, EndedInStep, RemovedInStep,
              Nothing, Terminal
<1> QED
  BY <1>3, <1>4

LEMMA SettleInv ==
    ASSUME IInv, TypeOK', Settle
    PROVE  Data' /\ KeptUntilStored' /\ Place'
<1> USE DEF IInv
<1>1. /\ step = "settle" /\ file = "kept" /\ step' \in {"register", "stopped"}
      /\ SameEntries(journal', journal)
      /\ UNCHANGED <<kind, reporter, late, rows, last, reported, awaiting, answer>>
  BY RetryStep DEF Settle, call, control, RemovedInStep, TypeOK, SameEntries
<1>2. CASE Abandon(journal) \/ Backoff("register")
  <2>1. \E j \in Journal : SameEntries(j, journal) /\ DiskStep(j)
    BY <1>2, RetryStep
  <2>2. Data' /\ KeptUntilStored' /\ file' = "kept"
    BY <1>1, <2>1, QuietStep DEF Sent
  <2>3. reporter = "remote" => disk'.next = journal'.next
    BY <1>1, <2>1 DEF SavedInStep, SameEntries, DiskStep, SaveOK, SaveFails, NoSave, Write
  <2>4. Place'
    BY <1>1, <2>2, <2>3 DEF Place, CallsInStep, SavedInStep, EndedInStep, RemovedInStep
  <2> QED
    BY <2>2, <2>4
<1>3. CASE /\ journal.pending = {} /\ RemoveFile /\ step' = "stopped"
           /\ UNCHANGED journal
  <2>1. disk' = disk /\ durable' = durable
    BY <1>3 DEF RemoveFile
  <2>2. Data'
    BY <1>1, <1>3, <2>1, QuietData DEF Data, DiskSameOrSaved, Sent
  <2>3. \A x \in disk.pending : x \in rows'
    BY <1>1, <1>3, DiskBehindMemory
  <2>4. KeptUntilStored'
    BY <1>1, <2>1, <2>3, KeptStep
  <2>5. Place'
    BY <1>1, <1>3 DEF Place, CallsInStep, SavedInStep, EndedInStep, RemovedInStep
  <2> QED
    BY <2>2, <2>4, <2>5
<1> QED
  BY <1>2, <1>3 DEF Settle

LEMMA UploadAnsweredInv ==
    ASSUME IInv, TypeOK', UploadAnswered
    PROVE  Data' /\ KeptUntilStored' /\ Place'
<1> USE DEF IInv
<1>1. /\ step \in {"process", "upload", "resume"} /\ step' \in {"process", "complete"}
      /\ step' = "process" <=> step # "upload"
      /\ file = "kept" /\ awaiting' = Nothing /\ answer' = "none"
      /\ UNCHANGED <<kind, reporter, late, rows, last, reported>>
  BY DEF UploadAnswered, control, RemovedInStep, TypeOK, CallsInStep, AfterUpload, CallOver
<1>2. \A r \in Sent' : r \in Sent \/ r.batch = {}
  BY <1>1, RequestTypes DEF Sent
<1>3. CASE /\ answer = "ok" /\ journal' = [journal EXCEPT !.pending = {}]
           /\ SaveOK(journal') \/ SaveFails
  <2>1. /\ journal'.next = journal.next /\ journal'.pending = {}
        /\ journal'.marks = journal.marks
    BY <1>3, JournalTypes DEF TypeOK, Journal
  <2>2. \A x \in journal.pending : x.seq <= last
    BY <1>3 DEF CallsInStep, UploadAnswered
  <2>3. disk' = disk \/ disk' = journal'
    BY <1>3 DEF SaveOK, SaveFails, Write
  <2>4. Data'
    BY <1>1, <1>2, <2>1, <2>2, <2>3, AcknowledgedData DEF Data, DiskSameOrSaved
  <2>5. \A x \in disk.pending : x \in rows'
    <3>1. \A x \in journal.pending : x \in rows
      BY <2>2, PassedMeansStored DEF Copies
    <3> QED
      BY <3>1, <1>1, DiskBehindMemory
  <2>6. file' = file /\ durable' \subseteq durable
    BY <1>3, <2>1 DEF SaveOK, SaveFails, Write, EventsOf
  <2>7. KeptUntilStored'
    BY <1>1, <2>5, <2>6, KeptStep
  <2>8. reporter = "remote" /\ step' # "process" => disk'.next = journal'.next
    BY <1>1, <2>1, <2>3 DEF SavedInStep
  <2>9. Place'
    BY <1>1, <2>1, <2>3, <2>6, <2>8 DEF Place, CallsInStep, SavedInStep, EndedInStep,
       RemovedInStep, Nothing, Terminal
  <2> QED
    BY <2>4, <2>7, <2>9
<1>4. CASE NoSave /\ UNCHANGED journal
  <2>1. disk' = disk /\ file' = file
    BY <1>4 DEF NoSave
  <2>2. DiskStep(journal) /\ SameEntries(journal', journal) /\ SameEntries(journal, journal)
    BY <1>4 DEF DiskStep, SameEntries
  <2>3. Data' /\ KeptUntilStored'
    BY <1>1, <1>2, <2>2, QuietStep
  <2>4. Place'
    BY <1>1, <1>4, <2>1 DEF Place, CallsInStep, SavedInStep, EndedInStep,
       RemovedInStep, Nothing, Terminal
  <2> QED
    BY <2>3, <2>4
<1> QED
  BY <1>3, <1>4 DEF UploadAnswered

LEMMA EndAnsweredInv ==
    ASSUME IInv, TypeOK', EndAnswered
    PROVE  Data' /\ KeptUntilStored' /\ Place'
<1> USE DEF IInv
<1>1. /\ step = "complete" /\ step' \in {"settle", "stopped"}
      /\ file = "kept" /\ awaiting' = Nothing /\ answer' = "none"
      /\ UNCHANGED <<kind, reporter, late, rows, last, reported>>
  BY DEF EndAnswered, control, RemovedInStep, TypeOK, CallsInStep, CallOver, Abandon
<1>2. \A r \in Sent' : r \in Sent \/ r.batch = {}
  BY <1>1, RequestTypes DEF Sent
<1>3. reporter = "remote" => disk.next = journal.next
  BY <1>1 DEF SavedInStep
<1>4. CASE Abandon(journal) \/ (/\ journal' = [Mark(journal, "delivered") EXCEPT !.retries = 0]
                                /\ TrySave(journal'))
  <2>1. /\ SameEntries(journal', journal)
        /\ \E j \in Journal : SameEntries(j, journal) /\ DiskStep(j)
    <3>1. CASE Abandon(journal)
      BY <3>1, RetryStep
    <3>2. CASE /\ journal' = [Mark(journal, "delivered") EXCEPT !.retries = 0]
               /\ TrySave(journal')
      <4>1. DiskStep(journal') /\ journal' \in Journal
        BY <3>2 DEF TrySave, DiskStep, TypeOK
      <4>2. SameEntries(journal', journal)
        BY <3>2 DEF SameEntries, Mark, TypeOK, Journal
      <4> QED
        BY <4>1, <4>2
    <3> QED
      BY <1>4, <3>1, <3>2
  <2>2. Data' /\ KeptUntilStored' /\ file' = "kept"
    BY <1>1, <1>2, <2>1, QuietStep
  <2>3. reporter = "remote" => disk'.next = journal'.next
    BY <1>3, <2>1 DEF SameEntries, DiskStep, SaveOK, SaveFails, NoSave, Write
  <2>4. Place'
    BY <1>1, <2>2, <2>3 DEF Place, CallsInStep, SavedInStep, EndedInStep,
       RemovedInStep, Nothing, Terminal
  <2> QED
    BY <2>2, <2>4
<1>5. CASE /\ reporter = "desktop" /\ RemoveFile /\ step' = "stopped"
           /\ UNCHANGED journal
  <2>1. disk' = disk
    BY <1>5 DEF RemoveFile
  <2>2. Data'
    BY <1>1, <1>2, <1>5, <2>1, QuietData DEF Data, DiskSameOrSaved
  <2>3. kind # "remote"
    BY <1>5 DEF SavedInStep
  <2>4. KeptUntilStored'
    BY <2>3, <1>1 DEF KeptUntilStored
  <2>5. Place'
    BY <1>1, <1>5 DEF Place, CallsInStep, SavedInStep, EndedInStep,
       RemovedInStep, Nothing, Terminal
  <2> QED
    BY <2>2, <2>4, <2>5
<1> QED
  BY <1>4, <1>5 DEF EndAnswered

LEMMA GiveUpInv ==
    ASSUME IInv, TypeOK', GiveUp
    PROVE  Data' /\ KeptUntilStored' /\ Place'
<1> USE DEF IInv
<1>1. /\ step \in {"process", "upload", "resume", "complete"}
      /\ step' \in {"process", "complete", "settle", "register", "stopped"}
      /\ step' = "process" => step \in {"process", "resume"}
      /\ reporter = "remote" /\ step' \notin {"process", "stopped"}
            => step \in {"upload", "complete"}
      /\ file = "kept" /\ awaiting' = Nothing /\ answer' = "none"
      /\ UNCHANGED <<kind, reporter, rows, last, reported>>
  BY RetryStep DEF GiveUp, control, RemovedInStep, TypeOK, CallsInStep, CallOver, AfterUpload
<1>2. \A r \in Sent' : r \in Sent \/ r.batch = {}
  BY <1>1, RequestTypes DEF Sent, GiveUp, Leave
<1>3. /\ SameEntries(journal', journal)
      /\ \E j \in Journal : SameEntries(j, journal) /\ DiskStep(j)
      /\ step' = "process" => journal' = journal /\ disk' = disk
  BY RetryStep DEF GiveUp, SameEntries, DiskStep, TypeOK, NoSave
<1>4. Data' /\ KeptUntilStored' /\ file' = "kept"
  BY <1>1, <1>2, <1>3, QuietStep
<1>5. reporter = "remote" /\ step' \notin {"process", "stopped"} => disk'.next = journal'.next
  <2>1. reporter = "remote" /\ step \in {"upload", "complete"} => disk.next = journal.next
    BY DEF SavedInStep
  <2> QED
    BY <1>1, <2>1, <1>3 DEF SameEntries, DiskStep, SaveOK, SaveFails, NoSave, Write
<1>6. Place'
  BY <1>1, <1>3, <1>4, <1>5 DEF Place, CallsInStep, SavedInStep, EndedInStep,
     RemovedInStep, Nothing, Terminal
<1> QED
  BY <1>4, <1>6

LEMMA HandleUploadData ==
    ASSUME IInv, TypeOK', NEW r \in Sent, HandleUpload(r.batch), NoSave,
           UNCHANGED <<kind, journal, reported>>, Sent' \subseteq Sent
    PROVE  /\ Data' /\ KeptUntilStored'
           /\ last <= last'
           /\ Accepts(r.batch) => \A x \in r.batch : x.seq <= last'
<1> USE DEF IInv
<1>1. disk' = disk /\ file' = file /\ durable' = durable
  BY DEF NoSave
<1>2. last \in Nat
  BY DEF TypeOK
<1>3. CASE Accepts(r.batch)
  <2>1. StoreBatch(r.batch) /\ Gapless(r.batch)
    BY <1>3 DEF HandleUpload, Accepts
  <2>2. /\ Data' /\ rows \subseteq rows' /\ last <= last'
        /\ \A x \in r.batch : x.seq <= last'
    BY <1>1, <2>1, StoreData DEF Data
  <2> QED
    BY <2>2, <1>1, KeptStep
<1>4. CASE ~Accepts(r.batch)
  <2>1. rows' = rows /\ last' = last
    BY <1>4 DEF HandleUpload
  <2>2. Data'
    BY <1>1, <2>1, QuietData DEF Data, DiskSameOrSaved
  <2> QED
    BY <1>1, <1>2, <1>4, <2>1, <2>2, KeptStep
<1> QED
  BY <1>3, <1>4

LEMMA ControlHandlesInv ==
    ASSUME IInv, TypeOK', ControlHandles
    PROVE  Data' /\ KeptUntilStored' /\ Place'
<1> USE DEF IInv
<1>1. /\ disk' = disk /\ file' = file /\ durable' = durable
      /\ UNCHANGED <<kind, reporter, step, journal, awaiting, late, reported>>
  BY DEF ControlHandles, NoSave
<1>2. Sent' = Sent /\ awaiting \in Sent
  BY <1>1 DEF Sent
<1>3. CASE /\ awaiting.op = "events" /\ HandleUpload(awaiting.batch)
           /\ answer' = IF Accepts(awaiting.batch) THEN "ok" ELSE "refused"
  <2>1. /\ Data' /\ KeptUntilStored'
        /\ Accepts(awaiting.batch) => \A x \in awaiting.batch : x.seq <= last'
    BY <1>1, <1>2, <1>3, HandleUploadData DEF ControlHandles
  <2>2. Place'
    BY <1>1, <1>3, <2>1 DEF Place, CallsInStep, SavedInStep, EndedInStep,
       RemovedInStep, Nothing, Terminal
  <2> QED
    BY <2>1, <2>2
<1>4. CASE awaiting = Terminal /\ answer' \in {"ok", "refused"} /\ HandleEnd(answer')
  <2>1. rows' = rows /\ last' = last
    BY <1>4 DEF HandleEnd
  <2>2. Data' /\ KeptUntilStored'
    BY <1>1, <1>2, <2>1, QuietData, KeptStep DEF Data, DiskSameOrSaved
  <2>3. Place'
    BY <1>1, <1>4 DEF Place, CallsInStep, SavedInStep, EndedInStep,
       RemovedInStep, Nothing, Terminal
  <2> QED
    BY <2>2, <2>3
<1> QED
  BY <1>3, <1>4 DEF ControlHandles

LEMMA ControlHandlesLateInv ==
    ASSUME IInv, TypeOK', ControlHandlesLate
    PROVE  Data' /\ KeptUntilStored' /\ Place'
<1> USE DEF IInv
<1>1. /\ disk' = disk /\ file' = file /\ durable' = durable /\ NoSave
      /\ UNCHANGED <<kind, reporter, step, journal, awaiting, answer, reported>>
  BY DEF ControlHandlesLate, NoSave, call
<1>2. PICK request \in late :
          /\ late' = late \ {request}
          /\ \/ request.op = "events" /\ HandleUpload(request.batch)
             \/ request = Terminal /\ \E verdict \in {"ok", "refused"} : HandleEnd(verdict)
  BY DEF ControlHandlesLate
<1>3. Sent' \subseteq Sent /\ request \in Sent
  BY <1>1, <1>2 DEF Sent
<1>4. Data' /\ KeptUntilStored' /\ last <= last'
  <2>1. CASE HandleUpload(request.batch)
    BY <1>1, <1>3, <2>1, HandleUploadData
  <2>2. CASE \E verdict \in {"ok", "refused"} : HandleEnd(verdict)
    <3>1. rows' = rows /\ last' = last /\ last \in Nat
      BY <2>2 DEF HandleEnd, TypeOK
    <3>2. Data' /\ KeptUntilStored'
      BY <1>1, <1>3, <3>1, QuietData, KeptStep DEF Data, DiskSameOrSaved
    <3> QED
      BY <3>1, <3>2
  <2> QED
    BY <1>2, <2>1, <2>2
<1>5. Place'
  <2>1. journal.pending \subseteq Entry /\ last \in Nat /\ last' \in Nat
    BY JournalTypes DEF TypeOK
  <2>2. \A x \in journal.pending : x.seq <= last => x.seq <= last'
    BY <1>4, <2>1 DEF Entry
  <2> QED
    BY <1>1, <2>2 DEF Place, CallsInStep, SavedInStep, EndedInStep, RemovedInStep
<1> QED
  BY <1>4, <1>5

LEMMA CrashInv ==
    ASSUME IInv, TypeOK', Crash
    PROVE  Data' /\ KeptUntilStored' /\ Place'
<1> USE DEF IInv
<1>1. /\ step' = "down" /\ file = "kept" /\ awaiting' = Nothing /\ answer' = "none"
      /\ SameEntries(journal', journal) /\ SameEntries(journal, journal) /\ DiskStep(journal)
      /\ UNCHANGED <<kind, reporter, rows, last, reported>>
  BY DEF Crash, CallOver, control, SameEntries, DiskStep
<1>2. \A r \in Sent' : r \in Sent \/ r.batch = {}
  BY <1>1, RequestTypes DEF Sent, Crash, Leave
<1>3. Data' /\ KeptUntilStored' /\ file' = "kept"
  BY <1>1, <1>2, QuietStep
<1>4. Place'
  BY <1>1, <1>3 DEF Place, CallsInStep, SavedInStep, EndedInStep,
     RemovedInStep, Nothing, Terminal
<1> QED
  BY <1>3, <1>4

LEMMA RestartInv ==
    ASSUME IInv, TypeOK', Restart
    PROVE  Data' /\ KeptUntilStored' /\ Place'
<1> USE DEF IInv
<1>1. /\ step = "down" /\ reporter' = "remote" /\ journal' = disk /\ file = "kept"
      /\ disk' = disk /\ file' = file
      /\ durable' \subseteq durable \cup EventsOf(disk'.pending)
      /\ UNCHANGED <<kind, rows, last, reported, late, awaiting, answer>>
  BY DEF Restart, RemovedInStep, TypeOK, call, control, NoSave, SaveOK, SaveFails, Write
<1>2. Data'
  BY <1>1, RestartData DEF Data
<1>3. KeptUntilStored'
  BY <1>1, KeptStep
<1>4. /\ step' \in {"stopped", "register", "process", "resume", "resync"}
      /\ step' \in {"process", "resume", "resync"} => "ended" \notin disk.marks
  BY DEF Restart, ResumeAt, Resumes
<1>5. awaiting = Nothing \/ awaiting.op \notin {"events"}
  BY <1>1 DEF CallsInStep
<1>6. Place'
  BY <1>1, <1>4 DEF Place, CallsInStep, SavedInStep, EndedInStep, RemovedInStep
<1> QED
  BY <1>2, <1>3, <1>6

LEMMA ResyncInv ==
    ASSUME IInv, TypeOK', Resync
    PROVE  Data' /\ KeptUntilStored' /\ Place'
<1> USE DEF IInv
<1>1. /\ step = "resync" /\ file = "kept" /\ step' \in {"resync", "process", "resume", "stopped"}
      /\ UNCHANGED <<kind, reporter, late, rows, last, reported, awaiting, answer>>
  BY RetryStep DEF Resync, Resumes, call, RemovedInStep, TypeOK
<1>2. /\ SameEntries(journal', journal)
      /\ \E j \in Journal : SameEntries(j, journal) /\ DiskStep(j)
      /\ "ended" \in journal'.marks => "ended" \in journal.marks
      /\ "ended" \in disk'.marks => "ended" \in journal.marks \/ "ended" \in disk.marks
  BY RetryStep DEF Resync, DiskStep, SameEntries, TypeOK, NoSave
<1>3. Data' /\ KeptUntilStored' /\ file' = "kept"
  BY <1>1, <1>2, QuietStep DEF Sent
<1>4. reporter = "remote" => disk'.next = journal'.next
  BY <1>1, <1>2 DEF SavedInStep, SameEntries, DiskStep, SaveOK, SaveFails, NoSave, Write
<1>5. Place'
  BY <1>1, <1>2, <1>3, <1>4 DEF Place, CallsInStep, SavedInStep, EndedInStep, RemovedInStep
<1> QED
  BY <1>3, <1>5

LEMMA ResumeInv ==
    ASSUME IInv, TypeOK', Resume
    PROVE  Data' /\ KeptUntilStored' /\ Place'
<1> USE DEF IInv
<1>1. /\ step = "resume" /\ step' = step /\ file = "kept" /\ file' = file
      /\ journal' = journal /\ disk' = disk
      /\ awaiting' = Upload(journal.pending) /\ answer' = "none"
      /\ UNCHANGED <<kind, reporter, late, rows, last, reported>>
  BY DEF Resume, control, NoSave, Send, RemovedInStep, TypeOK
<1>2. DiskStep(journal) /\ SameEntries(journal, journal)
  BY DEF Resume, DiskStep, SameEntries
<1>3. reporter = "remote" => disk.next = journal.next
  BY <1>1 DEF SavedInStep
<1>4. Place'
  BY <1>1 DEF Place, CallsInStep, SavedInStep, EndedInStep, RemovedInStep, Upload,
              Nothing, Terminal
<1>5. reporter = "remote"
  BY <1>1 DEF SavedInStep
<1>6. Data' /\ KeptUntilStored'
  BY <1>1, <1>2, <1>3, <1>5, QuietStep DEF Sent, Upload
<1> QED
  BY <1>4, <1>6
-----------------------------------------------------------------------------
(* Theorems *)

THEOREM InitInvariant == Init => IInv
<1> SUFFICES ASSUME Init PROVE IInv
  OBVIOUS
<1>1. TypeOK
  BY InitType
<1>2. /\ Sent = {Nothing} /\ Copies = {}
      /\ journal.pending = {} /\ disk.pending = {} /\ journal.next = 1 /\ disk.next = 1
  BY RequestTypes DEF Init, Sent, Copies, EmptyJournal
<1>3. Numbering /\ Agreement /\ SentWasSaved /\ SentGapless
  BY <1>2, RequestTypes DEF Init, Numbering, Agreement, SentWasSaved, SentGapless, Covers
<1>4. CallsInStep /\ SavedInStep /\ EndedInStep /\ RemovedInStep /\ KeptUntilStored
  BY DEF Init, CallsInStep, SavedInStep, EndedInStep, RemovedInStep, KeptUntilStored,
         EmptyJournal, Nothing, Terminal
<1> QED
  BY <1>1, <1>3, <1>4 DEF IInv

\* Every step of the Worker, of Control, and every fault keeps the invariant.
THEOREM StepInvariant == IInv /\ [Next]_vars => IInv'
<1> SUFFICES ASSUME IInv, [Next]_vars PROVE IInv'
  OBVIOUS
<1>1. TypeOK'
  BY StepType DEF IInv
<1>2. SUFFICES Data' /\ KeptUntilStored' /\ Place'
  BY <1>1 DEF IInv, Data, Place
<1>3. CASE Done \/ UNCHANGED vars
  <2>1. UNCHANGED vars
    BY <1>3 DEF Done
  <2>2. Data' /\ Place'
    BY <2>1 DEF vars, IInv, Data, Numbering, Agreement, SentWasSaved, SentGapless, Covers,
       Copies, Sent, Place, CallsInStep, SavedInStep, EndedInStep, RemovedInStep
  <2>3. KeptUntilStored'
    BY <2>1 DEF vars, IInv, KeptUntilStored, Stored
  <2> QED
    BY <2>2, <2>3
<1> QED
  BY <1>1, <1>3, ReportInv, TickInv, RegisterInBackgroundInv, ProcessEndsInv, RegisterInv,
     AwaitRegistrationInv, UploadRestInv, ReportEndInv, SettleInv, UploadAnsweredInv,
     EndAnsweredInv, GiveUpInv, ControlHandlesInv, ControlHandlesLateInv, CrashInv,
     RestartInv, ResyncInv, ResumeInv
  DEF Next, Works

THEOREM Invariant == Spec => []IInv
<1>1. Init => IInv
  BY InitInvariant
<1>2. IInv /\ [Next]_vars => IInv'
  BY StepInvariant
<1> QED
  BY <1>1, <1>2, PTL DEF Spec

\* The types hold however many events, attempts and faults there are.
THEOREM Types == Spec => []TypeOK
<1>1. IInv => TypeOK
  BY DEF IInv
<1> QED
  BY <1>1, Invariant, PTL

\* What Control skips as already seen is what it has stored.
THEOREM SkippingIsSafe == Spec => []SkippedMeansStored
<1>1. IInv => SkippedMeansStored
  BY PassedMeansStored DEF IInv, SkippedMeansStored, Copies
<1> QED
  BY <1>1, Invariant, PTL

\* Control's table is in the order of the reports.
THEOREM OrderIsKept == Spec => []StoredInOrder
<1>1. IInv => StoredInOrder
  BY DEF IInv, StoredInOrder, Agreement, Copies
<1> QED
  BY <1>1, Invariant, PTL

\* No request that can reach Control leaves a gap.
THEOREM NoGaps == Spec => []NeverAGap
<1>1. ASSUME TypeOK, NEW j \in Journal, Covers(j) PROVE Gapless(j.pending)
  <2>1. last \in Nat /\ j.next \in Nat /\ j.pending \subseteq Entry
    BY <1>1, JournalTypes DEF TypeOK
  <2>2. \A x \in j.pending : \A s \in (last + 1)..x.seq : s \in (last + 1)..(j.next - 1)
    BY <1>1, <2>1 DEF Covers, Entry
  <2> QED
    BY <1>1, <2>2 DEF Covers, Gapless, Fresh
<1>2. IInv => NeverAGap
  <2> SUFFICES ASSUME IInv PROVE NeverAGap
    OBVIOUS
  <2>1. Gapless(disk.pending) /\ Gapless(journal.pending)
    BY <1>1 DEF IInv, Numbering, TypeOK
  <2>2. \A request \in late \cup {awaiting} : Gapless(request.batch)
    BY DEF IInv, SentGapless, Sent, Gapless, Fresh
  <2> QED
    BY <2>1, <2>2 DEF NeverAGap
<1> QED
  BY <1>2, Invariant, PTL

\* A saved event of a claimed turn is never lost.
THEOREM NothingSavedIsLost == Spec => []KeptUntilStored
<1>1. IInv => KeptUntilStored
  BY DEF IInv
<1> QED
  BY <1>1, Invariant, PTL

\* An end on disk stops the processing of the run for good.
THEOREM EndStays == Spec => EndIsFinal
<1>1. IInv /\ [Next]_vars => [("ended" \in disk.marks) => reported' = reported]_vars
  <2> SUFFICES ASSUME IInv, Next, "ended" \in disk.marks PROVE reported' = reported
    BY DEF vars
  <2>1. ~Report
    BY DEF IInv, EndedInStep, Report
  <2> QED
    BY <2>1 DEF Next, Works, TickUploads, RegisterInBackground, ProcessEnds, Register,
       AwaitRegistration, UploadRest, ReportEnd, Settle, UploadAnswered, EndAnswered,
       Resync, Resume, GiveUp, ControlHandles, ControlHandlesLate, Crash, Restart, Done, vars
<1> QED
  BY <1>1, Invariant, PTL DEF Spec, EndIsFinal

\* One transaction of Control appends to the log.
LEMMA StoreAppends ==
    ASSUME IInv, IInv', NEW r \in Sent, HandleUpload(r.batch), NoSave,
           UNCHANGED <<journal, reported>>, Sent' \subseteq Sent
    PROVE  Log!Store \/ UNCHANGED <<reported, rows>>
<1>1. TypeOK /\ TypeOK' /\ Data
  BY DEF IInv, Data
<1>2. disk' = disk
  BY DEF NoSave
<1>3. CASE Accepts(r.batch)
  <2>1. StoreBatch(r.batch) /\ Gapless(r.batch)
    BY <1>3 DEF HandleUpload, Accepts
  <2>2. rows \subseteq rows' /\ \A x \in rows' \ rows : last < x.seq
    BY <1>1, <1>2, <2>1, StoreData
  <2>3. last \in Nat /\ last' \in Nat /\ rows \subseteq Entry /\ rows' \subseteq Entry
    BY <1>1 DEF TypeOK
  <2>4. \A x \in rows' \ rows, y \in rows : y.seq < x.seq
    BY <2>2, <2>3 DEF IInv, Numbering, Entry
  <2>5. Log!Numbered(rows')
    <3>1. /\ \A x \in rows' : x.seq <= last'
          /\ \A s \in 1..last' : \E x \in rows' : x.seq = s
      BY DEF IInv, Numbering
    <3>2. \A x \in rows' : \A s \in 1..x.seq : s \in 1..last'
      BY <2>3, <3>1 DEF Entry
    <3> QED
      BY <3>1, <3>2 DEF Log!Numbered
  <2>6. Log!InOrder(rows') /\ Log!Genuine(rows')
    <3>1. \A x \in rows' : x \in Copies'
      BY DEF Copies
    <3>2. \A x \in rows' : 1 <= x.event /\ x.event <= reported'
      BY <3>1 DEF IInv, Agreement
    <3>3. \A x \in rows' : x.event \in Nat
      BY <2>3 DEF Entry
    <3>4. reported \in Nat /\ reported' = reported
      BY <1>1 DEF TypeOK
    <3>5. \A x \in rows' : x.event \in 1..reported
      BY <3>2, <3>3, <3>4
    <3>6. Log!InOrder(rows')
      BY <3>1 DEF IInv, Agreement, Log!InOrder
    <3> QED
      BY <3>5, <3>6 DEF Log!Genuine
  <2> QED
    BY <2>2, <2>4, <2>5, <2>6 DEF Log!Store
<1>4. CASE ~Accepts(r.batch)
  BY <1>4 DEF HandleUpload
<1> QED
  BY <1>3, <1>4

\* Control's table is an append-only, gapless log of the reports: the relay,
\* with its retries, crashes and late requests, implements EventLog.
THEOREM RelayImplementsLog == Spec => LogSpec
<1>1. Init => Log!Init
  BY DEF Init, Log!Init
<1>2. IInv /\ IInv' /\ [Next]_vars => [Log!Next]_<<reported, rows>>
  <2> SUFFICES ASSUME IInv, IInv', [Next]_vars
               PROVE Log!Next \/ UNCHANGED <<reported, rows>>
    OBVIOUS
  <2>1. CASE Report
    BY <2>1 DEF Report, control, Log!Next, Log!Report
  <2>2. CASE ControlHandles
    <3>1. /\ NoSave /\ UNCHANGED <<journal, reported>>
          /\ Sent' = Sent /\ awaiting \in Sent
      BY <2>2 DEF ControlHandles, Sent
    <3>2. CASE HandleUpload(awaiting.batch)
      BY <3>1, <3>2, StoreAppends DEF Log!Next
    <3>3. CASE HandleEnd(answer')
      BY <3>1, <3>3 DEF HandleEnd
    <3> QED
      BY <2>2, <3>2, <3>3 DEF ControlHandles
  <2>3. CASE ControlHandlesLate
    <3>1. PICK request \in late :
            /\ late' = late \ {request}
            /\ \/ HandleUpload(request.batch)
               \/ \E verdict \in {"ok", "refused"} : HandleEnd(verdict)
      BY <2>3 DEF ControlHandlesLate
    <3>2. /\ NoSave /\ UNCHANGED <<journal, reported>>
          /\ Sent' \subseteq Sent /\ request \in Sent
      BY <2>3, <3>1 DEF ControlHandlesLate, Sent, call
    <3>3. CASE HandleUpload(request.batch)
      BY <3>2, <3>3, StoreAppends DEF Log!Next
    <3>4. CASE \E verdict \in {"ok", "refused"} : HandleEnd(verdict)
      BY <3>2, <3>4 DEF HandleEnd
    <3> QED
      BY <3>1, <3>3, <3>4
  <2>4. CASE TickUploads \/ RegisterInBackground \/ ProcessEnds \/ Register \/ AwaitRegistration
             \/ UploadRest \/ ReportEnd \/ Settle \/ UploadAnswered \/ EndAnswered
    BY <2>4 DEF TickUploads, RegisterInBackground, ProcessEnds, Register, AwaitRegistration,
       UploadRest, ReportEnd, Settle, UploadAnswered, EndAnswered, control
  <2>5. CASE Resync \/ Resume \/ GiveUp \/ Crash \/ Restart \/ Done \/ UNCHANGED vars
    BY <2>5 DEF Resync, Resume, GiveUp, Crash, Restart, Done, vars, control
  <2> QED
    BY <2>1, <2>2, <2>3, <2>4, <2>5 DEF Next, Works
<1> QED
  BY <1>1, <1>2, Invariant, PTL DEF Spec, LogSpec, Log!Spec
===============================================================================
