------------------------ MODULE ScheduledTasksProofs ------------------------
(* Proofs about ScheduledTasks, for every set of claims, calls and          *)
(* schedules and every bound.                                               *)
(*                                                                          *)
(* That a deleted task is left alone rests on what a transaction that holds *)
(* the task's row knows of it (Held), and on what a claim has read (Looked). *)
(* That each occurrence is answered once, and that an insert fits, rests,   *)
(* beyond that, on the order of the trigger keys (KeysOrdered), on each call *)
(* running once (KeysOfCalls), and on the next occurrence, what an update   *)
(* has drafted and what a claim has read all lying behind what the runs     *)
(* have answered (OnceInv).                                                 *)
EXTENDS ScheduledTasks, TLAPS, WellFoundedInduction

-----------------------------------------------------------------------------
(* The earliest occurrence *)

\* A nonempty set of times has an earliest one.
LEMMA EarliestTime ==
    ASSUME NEW S, S \subseteq Nat, S # {}
    PROVE  Earliest(S) \in S /\ \A t \in S : Earliest(S) <= t
<1>1. PICK t \in S : \A u \in S : <<u, t>> \notin OpToRel(<, Nat)
  BY NatLessThanWellFounded, WFMin, Zenon
<1>2. \A u \in S : ~(u < t)
  BY <1>1, Zenon DEF OpToRel
<1>3. \A u \in S : t <= u
  BY <1>2
<1> QED BY <1>3 DEF Earliest

LEMMA EarliestOrNone ==
    ASSUME NEW S, S \subseteq Times, TimesAssumption
    PROVE  /\ Earliest(S) \in S \cup {None}
           /\ Earliest(S) # None => Earliest(S) \in S
<1>1. S \subseteq Nat
  BY DEF Times, TimesAssumption
<1> QED BY <1>1, EarliestTime DEF Earliest

LEMMA FirstIsLater ==
    ASSUME NEW schedule \in Schedules, NEW now \in Times, TimesAssumption
    PROVE  /\ FirstAfter(schedule, now) \in Times \cup {None}
           /\ FirstAfter(schedule, now) # None =>
                 FirstAfter(schedule, now) > now
<1> DEFINE S == {t \in schedule : t > now}
<1>1. S \subseteq Times
  BY DEF TimesAssumption, Times
<1>2. /\ Earliest(S) \in S \cup {None}
      /\ Earliest(S) # None => Earliest(S) \in S
  BY <1>1, EarliestOrNone
<1> QED BY <1>1, <1>2 DEF FirstAfter

\* The next occurrence comes after now and after the minimum interval.
LEMMA NextIsBeyond ==
    ASSUME NEW schedule \in Schedules, NEW current \in Times, NEW now \in Times,
           current <= now, TimesAssumption
    PROVE  LET next == NextAfterOccurrence(schedule, current, now)
           IN  /\ next \in Times \cup {None}
               /\ next # None => next \in Nat /\ next > now /\ next >= current + Gap
<1> DEFINE S == {t \in schedule : t >= current + Gap}
<1>1. S \subseteq Times
  BY DEF TimesAssumption, Times
<1>2. /\ Earliest(S) \in S \cup {None}
      /\ Earliest(S) # None => Earliest(S) \in S
  BY <1>1, EarliestOrNone
<1>3. now \in Nat /\ current \in Nat /\ Gap \in Nat \ {0} /\ S \subseteq Nat
  BY <1>1 DEF TimesAssumption, Times
<1>4. CASE now < current + Gap
  <2>1. NextAfterOccurrence(schedule, current, now) = Earliest(S)
    BY <1>4 DEF NextAfterOccurrence
  <2> QED BY <1>1, <1>2, <1>3, <1>4, <2>1
<1>5. CASE ~(now < current + Gap)
  <2>1. NextAfterOccurrence(schedule, current, now) = FirstAfter(schedule, now)
    BY <1>5 DEF NextAfterOccurrence
  <2>2. /\ FirstAfter(schedule, now) \in Times \cup {None}
        /\ FirstAfter(schedule, now) # None => FirstAfter(schedule, now) > now
    BY FirstIsLater
  <2>3. FirstAfter(schedule, now) # None => FirstAfter(schedule, now) \in Nat
    BY <2>2 DEF Times
  <2> QED BY <1>3, <1>5, <2>1, <2>2, <2>3
<1> QED BY <1>4, <1>5

\* What advanceTaskTx makes of a row, by one that was due.
LEMMA AdvanceMoves ==
    ASSUME NEW row \in Row, NEW read \in Row, NEW now \in Times, TimesAssumption,
           read.next # None, read.next <= now
    PROVE  LET new == Advance(row, read, now)
           IN  /\ new \in Row
               /\ new.revision = row.revision /\ new.schedule = row.schedule
               /\ new.status \in {"active", "completed"}
               /\ new.next = NextAfterOccurrence(read.schedule, read.next, now)
               /\ new.next # None =>
                     new.next \in Nat /\ new.next > now /\ new.next >= read.next + Gap
<1> DEFINE next == NextAfterOccurrence(read.schedule, read.next, now)
<1>1. read.schedule \in Schedules /\ read.next \in Times
  BY DEF Row
<1>2. /\ next \in Times \cup {None}
      /\ next # None => next \in Nat /\ next > now /\ next >= read.next + Gap
  BY <1>1, NextIsBeyond
<1> HIDE DEF next
<1>3. Advance(row, read, now) =
        [row EXCEPT !.status = IF next = None THEN "completed" ELSE "active",
                    !.next = next, !.blocked = None]
  BY DEF Advance, next
<1>4. /\ Advance(row, read, now) \in Row
      /\ Advance(row, read, now).revision = row.revision
      /\ Advance(row, read, now).schedule = row.schedule
      /\ Advance(row, read, now).status \in {"active", "completed"}
      /\ Advance(row, read, now).next = next
  BY <1>2, <1>3 DEF Row, Statuses
<1> QED BY <1>2, <1>4 DEF next

-----------------------------------------------------------------------------
(* The inductive invariant *)

Holds(x) == step[x] \in {"picked", "clear"}

Held ==
    /\ \A x, y \in Claims \cup Calls : Holds(x) /\ Holds(y) => x = y
    /\ \A c \in Claims : Holds(c) => task.status = "active" /\ task.next # None
    /\ \A k \in Calls : Holds(k) => task.status \notin {"absent", "deleted"}
    /\ \A x \in Claims \cup Calls :
          step[x] = "clear" => \A i \in 1 .. Len(runs) : ~runs[i].active

\* A key of the current revision names an earlier occurrence than the next.
KeyOrdered(key, revision, next) ==
    key[1] = "scheduled" =>
        /\ key[2] <= revision
        /\ key[2] = revision /\ next # None => key[3] < next

KeysOrdered ==
    \A i \in 1 .. Len(runs) : KeyOrdered(runs[i].key, task.revision, task.next)

KeysOfCalls ==
    \A i \in 1 .. Len(runs), k \in Calls :
        runs[i].key = <<"run_now", k>> => step[k] = "done"

Born ==
    /\ task.status = "absent" => task.revision = 0
    /\ \A k \in Calls :
          step[k] = "drafted" => draft[k].write.status # "absent"

\* What a claim has read was due then, and the row it holds now is, too.
Looking(c) == step[c] \in {"looked", "picked", "clear"}

SeenOK(c) ==
    LET read == seen[c].row IN
    /\ read.next # None /\ read.next <= seen[c].at /\ seen[c].at <= clock
    /\ read.revision <= task.revision
    /\ Holds(c) => task.next <= seen[c].at

Looked == \A c \in Claims : Looking(c) => SeenOK(c)

SeenType ==
    /\ seen \in [Claims -> [row : Row, at : Times] \cup {None}]
    /\ \A c \in Claims : Looking(c) => seen[c] \in [row : Row, at : Times]

IInv == TypeOK /\ Held /\ Looked /\ Born /\ KeysOrdered /\ KeysOfCalls

-----------------------------------------------------------------------------
(* The list of runs *)

\* What a step that inserts a run does to the list.
LEMMA Inserted ==
    ASSUME TypeOK, NEW key, NEW for, NEW through,
           [key |-> key, for |-> for, through |-> through, active |-> TRUE]
              \in Run,
           InsertRun(key, for, through)
    PROVE  /\ runs' \in Seq(Run)
           /\ \A i \in 1 .. Len(runs') :
                 \/ i \in 1 .. Len(runs) /\ runs'[i] = runs[i]
                 \/ runs'[i].key = key
<1> DEFINE r == [key |-> key, for |-> for, through |-> through, active |-> TRUE]
<1>1. runs \in Seq(Run) /\ r \in Run /\ runs' = Append(runs, r)
  BY DEF TypeOK, InsertRun
<1>2. r.key = key
  OBVIOUS
<1> HIDE DEF r
<1> QED BY <1>1, <1>2

\* A step that rewrites other fields of the runs keeps their number and keys.
LEMMA Rewritten ==
    ASSUME TypeOK, NEW f, f \in [1 .. Len(runs) -> Run], runs' = f,
           \A i \in 1 .. Len(runs) : f[i].key = runs[i].key
    PROVE  /\ runs' \in Seq(Run) /\ Len(runs') = Len(runs)
           /\ \A i \in 1 .. Len(runs') : runs'[i].key = runs[i].key
<1>1. Len(runs) \in Nat
  BY DEF TypeOK
<1>2. f \in Seq(Run) /\ Len(f) = Len(runs)
  BY <1>1
<1> QED BY <1>2

-----------------------------------------------------------------------------
(* Rows *)

LEMMA UpdatedRows ==
    ASSUME TimesAssumption, clock \in Times, task \in Row
    PROVE  \A row \in Updated(task) : row \in Row
<1>1. \A s \in Schedules : FirstAfter(s, clock) \in Times \cup {None}
  BY FirstIsLater
<1>2. \A s \in Schedules :
         [task EXCEPT !.status = "active", !.schedule = s,
                      !.next = FirstAfter(s, clock)] \in Row
  BY <1>1 DEF Row, Statuses
<1>3. \A s \in Schedules :
         [task EXCEPT !.status = "paused", !.next = None, !.schedule = s] \in Row
  BY DEF Row, Statuses
<1>4. \A s \in Schedules : [task EXCEPT !.schedule = s] \in Row
  BY DEF Row
<1> QED BY <1>2, <1>3, <1>4 DEF Updated

LEMMA DeletedRow ==
    ASSUME NEW row \in Row, NEW n \in Nat
    PROVE  [row EXCEPT !.status = "deleted", !.next = None, !.blocked = None,
                       !.revision = n] \in Row
BY DEF Row, Statuses

LEMMA WrittenRow ==
    ASSUME NEW row \in Row, NEW n \in Nat
    PROVE  [row EXCEPT !.blocked = None, !.revision = n] \in Row
BY DEF Row

\* Keys of earlier revisions are ordered in every later one.
LEMMA LaterRevision ==
    ASSUME NEW key, NEW r \in Nat, NEW next, NEW other,
           key[1] = "scheduled" => key[2] \in Nat,
           KeyOrdered(key, r, next)
    PROVE  KeyOrdered(key, r + 1, other)
BY DEF KeyOrdered

LEMMA LaterOccurrence ==
    ASSUME NEW key, NEW r \in Nat, NEW next \in Nat, NEW other,
           other # None => other \in Nat /\ other > next,
           key[1] = "scheduled" => key[3] \in Nat, next # None,
           KeyOrdered(key, r, next)
    PROVE  KeyOrdered(key, r, other)
BY DEF KeyOrdered

-----------------------------------------------------------------------------
(* Types *)

\* Only the transaction of x moves.
LEMMA GotoType ==
    ASSUME TypeOK, NEW x \in Claims \cup Calls,
           NEW s \in {"idle", "looked", "picked", "clear", "done"}, Goto(x, s)
    PROVE  /\ step' \in [Claims \cup Calls ->
                            {"idle", "looked", "picked", "clear", "drafted", "done"}]
           /\ step'[x] = s
           /\ \A y \in Claims \cup Calls : y # x => step'[y] = step[y]
           /\ \A y \in Claims \cup Calls :
                 step'[y] = "drafted" => step[y] = "drafted"
BY DEF TypeOK, Goto

\* A claim that goes by a row has just read it, or goes by the same as before.
LEMMA SeenKinds ==
    ASSUME TypeOK, TimesAssumption, [Next]_vars, NEW c \in Claims, Looking(c)'
    PROVE  \/ Looking(c) /\ seen'[c] = seen[c]
           \/ /\ UNCHANGED <<task, runs, clock, stale>> /\ Due /\ step'[c] = "looked"
              /\ seen'[c] = [row |-> task, at |-> clock]
<1>0. \A k \in Calls : k # c
  BY DEF TimesAssumption
<1>1. ASSUME NEW b \in Claims, Materialize(b)
      PROVE  \/ Looking(c) /\ seen'[c] = seen[c]
             \/ /\ UNCHANGED <<task, runs, clock, stale>> /\ Due /\ step'[c] = "looked"
                /\ seen'[c] = [row |-> task, at |-> clock]
  <2>1. CASE Look(b)
    <3>1. CASE b = c
      BY <2>1, <3>1 DEF TypeOK, Look, Goto
    <3>2. CASE b # c
      BY <2>1, <3>2 DEF TypeOK, Look, Goto, Looking
    <3> QED BY <3>1, <3>2
  <2>2. CASE Over(b)
    BY <2>2 DEF TypeOK, Over, Goto, Looking
  <2>3. CASE Looking(b) /\ UNCHANGED seen /\ \E s : Goto(b, s)
    BY <2>3 DEF TypeOK, Goto, Looking
  <2> QED BY <1>1, <2>1, <2>2, <2>3
          DEF Materialize, Pick, Postpone, Coalesce, Hold, Clear, Start, Looking
<1>2. ASSUME NEW k \in Calls, ToolCall(k)
      PROVE  Looking(c) /\ seen'[c] = seen[c]
  <2>1. UNCHANGED seen /\ \E s : Goto(k, s)
    BY <1>2 DEF ToolCall, Begin, Reuse, CallClear, StartNow, Delete, Draft, Write
  <2> QED BY <1>0, <2>1 DEF TypeOK, Goto, Looking
<1>3. ASSUME NEW x \in Claims \cup Calls, Victim(x) \/ Fail(x)
      PROVE  Looking(c) /\ seen'[c] = seen[c]
  <2>1. CASE RolledBack(x)
    BY <1>0, <2>1 DEF RolledBack, TypeOK, Over, Goto, Looking
  <2>2. CASE UNCHANGED <<step, seen>>
    BY <2>2 DEF Looking
  <2> QED BY <1>3, <2>1, <2>2 DEF Victim, Fail
<1>4. CASE UNCHANGED <<step, seen>>
  BY <1>4 DEF Looking
<1> QED BY <1>1, <1>2, <1>3, <1>4
        DEF Next, Create, BeginEnd, CommitEnd, Tick, ProjectChanges, SessionInput,
            SessionMoves, vars

LEMMA StepSeenType ==
    ASSUME TypeOK, TimesAssumption, [Next]_vars
    PROVE  SeenType'
<1>1. /\ seen \in [Claims -> [row : Row, at : Times] \cup {None}]
      /\ [row |-> task, at |-> clock] \in [row : Row, at : Times]
  BY DEF TypeOK
<1>2. ASSUME NEW c \in Claims, Over(c)
      PROVE  seen' \in [Claims -> [row : Row, at : Times] \cup {None}]
  BY <1>1, <1>2 DEF Over
<1>3. ASSUME NEW c \in Claims, Look(c)
      PROVE  seen' \in [Claims -> [row : Row, at : Times] \cup {None}]
  BY <1>1, <1>3 DEF Look
<1>4. seen' \in [Claims -> [row : Row, at : Times] \cup {None}]
  BY <1>1, <1>2, <1>3
     DEF Next, Create, Materialize, Pick, Postpone, Coalesce, Hold, Clear, Start,
         ToolCall, Begin, Reuse, CallClear, StartNow, Delete, Draft, Write,
         Victim, Fail, RolledBack, BeginEnd, CommitEnd, Tick, ProjectChanges,
         SessionInput, SessionMoves, vars
<1>5. ASSUME NEW c \in Claims, Looking(c)'
      PROVE  seen'[c] \in [row : Row, at : Times]
  <2>1. Looking(c) => seen[c] \in [row : Row, at : Times]
    BY DEF TypeOK, Looking
  <2> QED BY <1>1, <1>5, <2>1, SeenKinds
<1> QED BY <1>4, <1>5 DEF SeenType

\* What a claim that holds the row goes by.
LEMMA HolderReads ==
    ASSUME TimesAssumption, TypeOK, Held, Looked, NEW c \in Claims, Holds(c)
    PROVE  LET read == seen[c].row IN
           /\ task \in Row /\ clock \in Times /\ clock \in Nat
           /\ task.status = "active" /\ task.next # None /\ task.next \in Times
           /\ task.next \in Nat /\ task.next <= clock /\ task.revision \in Nat
           /\ read \in Row /\ read.next # None /\ read.next \in Times
           /\ read.next \in Nat /\ read.next <= clock
           /\ read.revision \in Nat /\ read.revision <= task.revision
           /\ seen[c].at \in Times /\ seen[c].at \in Nat
<1>1. Looking(c) /\ SeenOK(c)
  BY DEF Looked, Looking, Holds
<1>2. seen[c] \in [row : Row, at : Times]
  BY <1>1 DEF TypeOK, Looking
<1>3. task \in Row /\ clock \in Times /\ Times \subseteq Nat /\ None \notin Nat
  BY DEF TypeOK, Times, TimesAssumption
<1>4. task.status = "active" /\ task.next # None
  BY DEF Held
<1>5. seen[c].row \in Row /\ seen[c].at \in Times
  BY <1>2
<1>6. /\ task.next \in Times /\ task.revision \in Nat
      /\ seen[c].row.revision \in Nat
  BY <1>3, <1>4, <1>5 DEF Row
<1>7. seen[c].row.next # None /\ seen[c].row.next \in Times
  BY <1>1, <1>5 DEF SeenOK, Row
<1>8. /\ seen[c].row.next <= seen[c].at /\ seen[c].at <= clock
      /\ task.next <= seen[c].at /\ seen[c].row.revision <= task.revision
  BY <1>1 DEF SeenOK
<1>9. /\ task.next \in Nat /\ clock \in Nat /\ seen[c].row.next \in Nat
      /\ seen[c].at \in Nat
  BY <1>3, <1>5, <1>6, <1>7
<1>10. task.next <= clock /\ seen[c].row.next <= clock
  BY <1>8, <1>9
<1> QED BY <1>3, <1>4, <1>5, <1>6, <1>7, <1>8, <1>9, <1>10

\* The run a claim inserts.
LEMMA DueRun ==
    ASSUME TimesAssumption, TypeOK, Held, Looked, NEW c \in Claims, Holds(c)
    PROVE  [key |-> DueKey(c), for |-> seen[c].row.next,
            through |-> IF clock > seen[c].row.next THEN clock ELSE None,
            active |-> TRUE] \in Run
<1>1. /\ seen[c].row.next \in Times /\ seen[c].row.revision \in Nat
      /\ clock \in Times
  BY HolderReads
<1>2. DueKey(c) \in {"scheduled"} \X Nat \X Times
  BY <1>1 DEF DueKey
<1> QED BY <1>1, <1>2 DEF Run

LEMMA StepTypes ==
    ASSUME TimesAssumption, IInv, [Next]_vars
    PROVE  TypeOK'
<1> USE TimesAssumption DEF SeenType, Looking
<1>0. TypeOK /\ Held /\ Looked /\ SeenType'
  <2>1. TypeOK /\ Held /\ Looked
    BY DEF IInv
  <2> QED BY <2>1, StepSeenType
<1>1. CASE Create(task.kind, task.schedule)
  <2> DEFINE next == FirstAfter(task.schedule, clock)
  <2>1. clock \in Times /\ task \in Row /\ task.schedule \in Schedules
    BY <1>0 DEF TypeOK, Row
  <2>2. next \in Times \cup {None}
    BY <2>1, FirstIsLater
  <2>3. task' = [kind |-> task.kind, schedule |-> task.schedule,
                 next |-> next,
                 status |-> IF next = None THEN "completed" ELSE "active",
                 blocked |-> None, revision |-> 1]
    BY <1>1 DEF Create
  <2> HIDE DEF next
  <2>4. task' \in Row
    BY <2>1, <2>2, <2>3 DEF Row, Statuses
  <2> QED BY <1>0, <1>1, <2>4 DEF TypeOK, Create, world
<1>2. ASSUME NEW c \in Claims, Materialize(c)
      PROVE  TypeOK'
  <2>0. c \in Claims \cup Calls /\ clock \in Times /\ task \in Row
    BY <1>0 DEF TypeOK
  <2>1. CASE Pick(c)
    <3>1. PICK s \in {"idle", "picked"} : Goto(c, s)
      BY <2>1 DEF Pick, Over
    <3> QED BY <1>0, <2>0, <2>1, <3>1, GotoType DEF TypeOK, Pick, world
  <2>2. CASE Clear(c)
    <3>1. Goto(c, "clear")
      BY <2>2 DEF Clear
    <3> QED BY <1>0, <2>0, <2>2, <3>1, GotoType DEF TypeOK, Clear, world
  <2>3. CASE Postpone(c)
    <3>1. Goto(c, "idle") /\ Holds(c)
      BY <2>3 DEF Postpone, Over, Holds
    <3>2. seen[c].at + LongBlock \in 0 .. MaxTime + LongBlock + ShortBlock
      BY <1>0, <3>1, HolderReads DEF Times, TimesAssumption
    <3>3. task' \in Row
      BY <2>0, <2>3, <3>2 DEF Postpone, Row
    <3> QED BY <1>0, <2>0, <2>3, <3>1, <3>3, GotoType DEF TypeOK, Postpone, world
  <2>4. CASE Hold(c)
    <3>1. Goto(c, "idle") /\ Holds(c)
      BY <2>4 DEF Hold, Over, Holds
    <3>2. seen[c].at + ShortBlock \in 0 .. MaxTime + LongBlock + ShortBlock
      BY <1>0, <3>1, HolderReads DEF Times, TimesAssumption
    <3>3. task' \in Row
      BY <2>0, <2>4, <3>2 DEF Hold, Row, Statuses
    <3> QED BY <1>0, <2>0, <2>4, <3>1, <3>3, GotoType DEF TypeOK, Hold, world
  <2>5. CASE Coalesce(c)
    <3>1. Goto(c, "idle") /\ Holds(c)
      BY <2>5 DEF Coalesce, Over, Holds
    <3>2. task' \in Row
      BY <1>0, <2>5, <3>1, HolderReads, AdvanceMoves DEF Coalesce
    <3> DEFINE f == [i \in 1 .. Len(runs) |->
                       IF i \in Unfinished THEN [runs[i] EXCEPT !.through = clock]
                       ELSE runs[i]]
    <3>3. \A i \in 1 .. Len(runs) : runs[i] \in Run
      BY <1>0 DEF TypeOK
    <3>4. f \in [1 .. Len(runs) -> Run] /\ runs' = f
      BY <2>0, <2>5, <3>3 DEF Coalesce, Run
    <3>5. \A i \in 1 .. Len(runs) : f[i].key = runs[i].key
      BY <3>3 DEF Run
    <3> HIDE DEF f
    <3>6. runs' \in Seq(Run)
      BY <1>0, <3>4, <3>5, Rewritten
    <3> QED BY <1>0, <2>0, <2>5, <3>1, <3>2, <3>6, GotoType
            DEF TypeOK, Coalesce, world
  <2>6. CASE Start(c)
    <3>1. Goto(c, "idle") /\ Holds(c)
      BY <2>6 DEF Start, Over, Holds
    <3>2. task' \in Row
      <4>1. Advance(task, seen[c].row, clock) \in Row
        BY <1>0, <3>1, HolderReads, AdvanceMoves
      <4> QED BY <2>0, <2>6, <4>1 DEF Start
    <3>3. runs' \in Seq(Run)
      <4>1. CASE UNCHANGED runs
        BY <1>0, <4>1 DEF TypeOK
      <4>2. CASE InsertRun(DueKey(c), seen[c].row.next,
                           IF clock > seen[c].row.next THEN clock ELSE None)
        BY <1>0, <3>1, <4>2, DueRun, Inserted
      <4> QED BY <2>6, <4>1, <4>2 DEF Start
    <3> QED BY <1>0, <2>0, <2>6, <3>1, <3>2, <3>3, GotoType
            DEF TypeOK, Start, world
  <2>7. CASE Look(c)
    <3>1. Goto(c, "looked")
      BY <2>7 DEF Look
    <3> QED BY <1>0, <2>0, <2>7, <3>1, GotoType DEF TypeOK, Look, world
  <2> QED BY <1>2, <2>1, <2>2, <2>3, <2>4, <2>5, <2>6, <2>7 DEF Materialize
<1>3. ASSUME NEW k \in Calls, ToolCall(k)
      PROVE  TypeOK'
  <2>0. k \in Claims \cup Calls /\ clock \in Times /\ task \in Row
    BY <1>0 DEF TypeOK
  <2>1. CASE Begin(k)
    <3>1. PICK s \in {"done", "picked"} : Goto(k, s)
      BY <2>1 DEF Begin
    <3> QED BY <1>0, <2>0, <2>1, <3>1, GotoType DEF TypeOK, Begin, world
  <2>2. CASE Reuse(k)
    <3>1. Goto(k, "done")
      BY <2>2 DEF Reuse
    <3> QED BY <1>0, <2>0, <2>2, <3>1, GotoType DEF TypeOK, Reuse, world
  <2>3. CASE CallClear(k)
    <3>1. Goto(k, "clear")
      BY <2>3 DEF CallClear
    <3> QED BY <1>0, <2>0, <2>3, <3>1, GotoType DEF TypeOK, CallClear, world
  <2>4. CASE StartNow(k)
    <3>1. Goto(k, "done")
      BY <2>4 DEF StartNow
    <3>2. runs' \in Seq(Run)
      <4>1. CASE UNCHANGED runs
        BY <1>0, <4>1 DEF TypeOK
      <4>2. CASE InsertRun(<<"run_now", k>>, clock, None)
        <5>1. [key |-> <<"run_now", k>>, for |-> clock, through |-> None,
               active |-> TRUE] \in Run
          BY <2>0 DEF Run
        <5> QED BY <1>0, <4>2, <5>1, Inserted
      <4> QED BY <2>4, <4>1, <4>2 DEF StartNow
    <3> QED BY <1>0, <2>0, <2>4, <3>1, <3>2, GotoType DEF TypeOK, StartNow, world
  <2>5. CASE Delete(k)
    <3>1. Goto(k, "done")
      BY <2>5 DEF Delete
    <3>2. task' \in Row
      <4>1. task.revision + 1 \in Nat
        BY <2>0 DEF Row
      <4>2. task' = [task EXCEPT !.status = "deleted", !.next = None,
                                 !.blocked = None,
                                 !.revision = task.revision + 1]
        BY <2>5 DEF Delete
      <4> QED BY <2>0, <4>1, <4>2, DeletedRow
    <3> QED BY <1>0, <2>0, <2>5, <3>1, <3>2, GotoType DEF TypeOK, Delete, world
  <2>6. CASE Draft(k)
    <3>1. PICK row \in Updated(task) :
             draft' = [draft EXCEPT ![k] = [read |-> task, write |-> row]]
      BY <2>6 DEF Draft
    <3>2. row \in Row
      BY <2>0, UpdatedRows
    <3>3. [read |-> task, write |-> row] \in [read : Row, write : Row]
      BY <2>0, <3>2
    <3>4. /\ draft' \in [Calls -> [read : Row, write : Row] \cup {None}]
          /\ draft'[k] \in [read : Row, write : Row]
          /\ \A l \in Calls : l # k => draft'[l] = draft[l]
      BY <1>0, <3>1, <3>3 DEF TypeOK
    <3>5. /\ step' \in [Claims \cup Calls ->
                          {"idle", "looked", "picked", "clear", "drafted", "done"}]
          /\ \A l \in Calls : l # k => step'[l] = step[l]
      BY <1>0, <2>0, <2>6 DEF Draft, Goto, TypeOK
    <3> QED BY <1>0, <2>6, <3>4, <3>5 DEF TypeOK, Draft, world
  <2>7. CASE Write(k)
    <3>1. Goto(k, "done")
      BY <2>7 DEF Write
    <3>2. draft[k] \in [read : Row, write : Row]
      BY <1>0, <2>7 DEF Write, TypeOK
    <3>3. task' \in Row
      <4>1. task.revision + 1 \in Nat
        BY <2>0 DEF Row
      <4>2. draft[k].write \in Row
        BY <3>2
      <4>3. CASE task.status = "deleted"
        BY <2>0, <2>7, <4>3 DEF Write
      <4>4. CASE task.status # "deleted"
        <5>1. task' = [draft[k].write EXCEPT !.blocked = None,
                                             !.revision = task.revision + 1]
          BY <2>7, <4>4 DEF Write
        <5> QED BY <4>1, <4>2, <5>1, WrittenRow
      <4> QED BY <4>3, <4>4
    <3>4. /\ draft' \in [Calls -> [read : Row, write : Row] \cup {None}]
          /\ \A l \in Calls : l # k => draft'[l] = draft[l]
      BY <1>0, <2>7 DEF Write, TypeOK
    <3>5. stale' \in BOOLEAN
      BY <1>0, <2>7 DEF Write, TypeOK
    <3>6. /\ step' \in [Claims \cup Calls ->
                          {"idle", "looked", "picked", "clear", "drafted", "done"}]
          /\ step'[k] = "done"
          /\ \A l \in Calls : l # k => step'[l] = step[l]
      BY <1>0, <2>0, <3>1, GotoType
    <3> QED BY <1>0, <2>7, <3>3, <3>4, <3>5, <3>6 DEF TypeOK, Write, world
  <2> QED BY <1>3, <2>1, <2>2, <2>3, <2>4, <2>5, <2>6, <2>7 DEF ToolCall
<1>4. ASSUME NEW x \in Claims \cup Calls, Victim(x)
      PROVE  TypeOK'
  <2>1. CASE UNCHANGED step
    BY <1>0, <1>4, <2>1 DEF TypeOK, Victim, world
  <2>2. CASE RolledBack(x)
    <3>1. PICK s \in {"idle", "done"} : Goto(x, s)
      BY <2>2 DEF RolledBack, Over
    <3>2. /\ UNCHANGED <<clock, task, runs, draft, world, fails, stale>>
          /\ ending' \in BOOLEAN
      BY <1>0, <1>4 DEF TypeOK, Victim
    <3> QED BY <1>0, <3>1, <3>2, GotoType DEF TypeOK, world
  <2> QED BY <1>4, <2>1, <2>2 DEF Victim
<1>5. ASSUME NEW x \in Claims \cup Calls, Fail(x)
      PROVE  TypeOK'
  <2>1. PICK s \in {"idle", "done"} : Goto(x, s)
    BY <1>5 DEF Fail, RolledBack, Over
  <2>2. fails' \in 0 .. MaxFails
    BY <1>0, <1>5 DEF TypeOK, Fail, TimesAssumption
  <2>3. /\ draft' \in [Calls -> [read : Row, write : Row] \cup {None}]
        /\ \A l \in Calls : l # x => draft'[l] = draft[l]
    BY <1>0, <1>5 DEF TypeOK, Fail
  <2>4. /\ step' \in [Claims \cup Calls ->
                        {"idle", "looked", "picked", "clear", "drafted", "done"}]
        /\ step'[x] # "drafted"
        /\ \A l \in Calls : l # x => step'[l] = step[l]
    BY <1>0, <2>1, GotoType
  <2> QED BY <1>0, <1>5, <2>2, <2>3, <2>4 DEF TypeOK, Fail, world
<1>6. CASE BeginEnd
  BY <1>0, <1>6 DEF TypeOK, BeginEnd, world
<1>7. CASE CommitEnd
  <2> DEFINE f == [i \in 1 .. Len(runs) |-> [runs[i] EXCEPT !.active = FALSE]]
  <2>1. \A i \in 1 .. Len(runs) : runs[i] \in Run
    BY <1>0 DEF TypeOK
  <2>2. f \in [1 .. Len(runs) -> Run] /\ runs' = f
    BY <1>7, <2>1 DEF CommitEnd, Run
  <2>3. \A i \in 1 .. Len(runs) : f[i].key = runs[i].key
    BY <2>1 DEF Run
  <2> HIDE DEF f
  <2>4. runs' \in Seq(Run)
    BY <1>0, <2>2, <2>3, Rewritten
  <2> QED BY <1>0, <1>7, <2>4 DEF TypeOK, CommitEnd, world
<1>8. CASE Tick
  BY <1>0, <1>8 DEF TypeOK, Tick, world, Times, TimesAssumption
<1>9. CASE ProjectChanges \/ SessionInput \/ SessionMoves
  <2>1. changes' \in 0 .. MaxChanges
    BY <1>0, <1>9 DEF TypeOK, ProjectChanges, SessionInput, SessionMoves,
                      Change, TimesAssumption
  <2>2. lifecycle' \in {"active", "archiving", "archived", "restoring"}
    BY <1>0, <1>9 DEF TypeOK, ProjectChanges, SessionInput, SessionMoves
  <2> QED BY <1>0, <1>9, <2>1, <2>2
          DEF TypeOK, ProjectChanges, SessionInput, SessionMoves
<1>10. CASE UNCHANGED vars
  BY <1>0, <1>10 DEF TypeOK, vars
<1> QED BY <1>1, <1>2, <1>3, <1>4, <1>5, <1>6, <1>7, <1>8, <1>9, <1>10 DEF Next

-----------------------------------------------------------------------------
(* Locks *)

\* When the only holder of the row lets go, or nobody held it, nobody does.
LEMMA Released ==
    ASSUME TypeOK, Held, NEW x \in Claims \cup Calls,
           NEW s \in {"idle", "done"}, Goto(x, s), Holds(x) \/ ~Locked
    PROVE  Held'
<1>1. /\ step'[x] = s
      /\ \A y \in Claims \cup Calls : y # x => step'[y] = step[y]
  BY GotoType
<1>2. \A y \in Claims \cup Calls : y # x => step[y] \notin {"picked", "clear"}
  BY DEF Held, Holds, Locked
<1>3. \A y \in Claims \cup Calls : step'[y] \notin {"picked", "clear"}
  BY <1>1, <1>2
<1> QED BY <1>3 DEF Held, Holds

\* A step that locks nothing and leaves the rows alone.
LEMMA Unlocking ==
    ASSUME Held, UNCHANGED <<task, runs>>,
           \A y \in Claims \cup Calls :
               step'[y] \in {"picked", "clear"} => step'[y] = step[y]
    PROVE  Held'
BY DEF Held, Holds

\* A transaction that locks the row when nobody has it.
LEMMA Locking ==
    ASSUME TypeOK, ~Locked, UNCHANGED <<task, runs>>,
           NEW x \in Claims \cup Calls, Goto(x, "picked"),
           x \in Claims => task.status = "active" /\ task.next # None,
           x \in Calls => task.status \notin {"absent", "deleted"}
    PROVE  Held'
<1>1. /\ step'[x] = "picked"
      /\ \A y \in Claims \cup Calls : y # x => step'[y] = step[y]
  BY GotoType
<1>2. \A y \in Claims \cup Calls : step[y] \notin {"picked", "clear"}
  BY DEF Locked
<1> QED BY <1>1, <1>2 DEF Held, Holds

\* A transaction that has the row and sees no unfinished run.
LEMMA Clearing ==
    ASSUME TypeOK, Held, UNCHANGED <<task, runs>>,
           NEW x \in Claims \cup Calls, Goto(x, "clear"),
           step[x] = "picked", SeesNoRun
    PROVE  Held'
<1>1. /\ step'[x] = "clear"
      /\ \A y \in Claims \cup Calls : y # x => step'[y] = step[y]
  BY GotoType
<1>2. \A i \in 1 .. Len(runs) : ~runs[i].active
  BY DEF SeesNoRun, Unfinished
<1> QED BY <1>1, <1>2 DEF Held, Holds

LEMMA StepHeld ==
    ASSUME TimesAssumption, IInv, [Next]_vars
    PROVE  Held'
<1>0. TypeOK /\ Held
  BY DEF IInv
<1>1. CASE Create(task.kind, task.schedule)
  <2>1. ~Locked
    BY <1>0, <1>1 DEF Create, Held, Holds, Locked
  <2> QED BY <1>1, <2>1 DEF Create, Held, Holds, Locked
<1>2. ASSUME NEW c \in Claims, Materialize(c)
      PROVE  Held'
  <2>1. CASE Pick(c)
    <3>1. CASE ~Locked /\ DueAt(seen[c].at)
      BY <1>0, <2>1, <3>1, Locking DEF Pick, DueAt, TimesAssumption
    <3>2. CASE Over(c)
      <4>1. \A y \in Claims \cup Calls :
               step'[y] \in {"picked", "clear"} => step'[y] = step[y]
        BY <1>0, <3>2 DEF Over, Goto, TypeOK
      <4> QED BY <1>0, <2>1, <4>1, Unlocking DEF Pick
    <3> QED BY <2>1, <3>1, <3>2 DEF Pick
  <2>2. CASE Clear(c)
    BY <1>0, <2>2, Clearing DEF Clear
  <2>3. CASE Postpone(c) \/ Coalesce(c) \/ Hold(c) \/ Start(c)
    <3>1. Goto(c, "idle") /\ Holds(c)
      BY <2>3 DEF Postpone, Coalesce, Hold, Start, Over, Holds
    <3> QED BY <1>0, <3>1, Released
  <2>4. CASE Look(c)
    <3>1. \A y \in Claims \cup Calls :
             step'[y] \in {"picked", "clear"} => step'[y] = step[y]
      BY <1>0, <2>4 DEF Look, Goto, TypeOK
    <3> QED BY <1>0, <2>4, <3>1, Unlocking DEF Look
  <2> QED BY <1>2, <2>1, <2>2, <2>3, <2>4 DEF Materialize
<1>3. ASSUME NEW k \in Calls, ToolCall(k)
      PROVE  Held'
  <2>1. CASE Begin(k)
    <3>1. CASE task.status = "deleted"
      BY <1>0, <2>1, <3>1, Released DEF Begin
    <3>2. CASE task.status # "deleted"
      BY <1>0, <2>1, <3>2, Locking DEF Begin, TimesAssumption
    <3> QED BY <3>1, <3>2
  <2>2. CASE CallClear(k)
    BY <1>0, <2>2, Clearing DEF CallClear
  <2>3. CASE Reuse(k) \/ StartNow(k)
    <3>1. Goto(k, "done") /\ Holds(k)
      BY <2>3 DEF Reuse, StartNow, Holds
    <3> QED BY <1>0, <3>1, Released
  <2>4. CASE Delete(k) \/ Write(k)
    <3>1. Goto(k, "done") /\ ~Locked
      BY <2>4 DEF Delete, Write
    <3> QED BY <1>0, <3>1, Released
  <2>5. CASE Draft(k)
    <3>1. \A y \in Claims \cup Calls :
             step'[y] \in {"picked", "clear"} => step'[y] = step[y]
      BY <1>0, <2>5 DEF Draft, Goto, TypeOK
    <3> QED BY <1>0, <2>5, <3>1, Unlocking DEF Draft
  <2> QED BY <1>3, <2>1, <2>2, <2>3, <2>4, <2>5 DEF ToolCall
<1>4. ASSUME NEW x \in Claims \cup Calls, Victim(x) \/ Fail(x)
      PROVE  Held'
  <2>1. \A y \in Claims \cup Calls :
           step'[y] \in {"picked", "clear"} => step'[y] = step[y]
    BY <1>0, <1>4 DEF Victim, Fail, RolledBack, Over, Goto, TypeOK
  <2> QED BY <1>0, <1>4, <2>1, Unlocking DEF Victim, Fail
<1>5. CASE CommitEnd
  BY <1>5 DEF CommitEnd, Held, Holds, Locked
<1>6. CASE BeginEnd \/ Tick \/ ProjectChanges \/ SessionInput \/ SessionMoves
             \/ UNCHANGED vars
  BY <1>0, <1>6, Unlocking DEF BeginEnd, Tick, ProjectChanges, SessionInput,
                               SessionMoves, vars
<1> QED BY <1>1, <1>2, <1>3, <1>4, <1>5, <1>6 DEF Next

-----------------------------------------------------------------------------
(* Keys *)

\* The keys in use are pairs or triples of the types of Run.
LEMMA KeyTypes ==
    ASSUME TypeOK
    PROVE  \A i \in 1 .. Len(runs) :
              runs[i].key[1] = "scheduled" =>
                  runs[i].key[2] \in Nat /\ runs[i].key[3] \in Nat
<1> SUFFICES ASSUME NEW i \in 1 .. Len(runs), runs[i].key[1] = "scheduled"
             PROVE  runs[i].key[2] \in Nat /\ runs[i].key[3] \in Nat
  OBVIOUS
<1>1. runs[i] \in Run
  BY DEF TypeOK
<1>2. runs[i].key \in {"scheduled"} \X Nat \X Times \cup {"run_now"} \X Calls
  BY <1>1 DEF Run
<1>3. runs[i].key \in {"scheduled"} \X Nat \X Times
  BY <1>2
<1> QED BY <1>3 DEF Times

\* A call that is over stays over.
LEMMA DoneStays ==
    ASSUME TypeOK, [Next]_vars, NEW k \in Calls, step[k] = "done",
           TimesAssumption
    PROVE  step'[k] = "done"
<1>1. ASSUME NEW c \in Claims, Materialize(c)
      PROVE  step'[k] = "done"
  <2>1. k # c
    BY DEF TimesAssumption
  <2>2. \E s : Goto(c, s)
    BY <1>1 DEF Materialize, Look, Pick, Over, Postpone, Coalesce, Hold, Clear, Start
  <2> QED BY <2>1, <2>2 DEF Goto, TypeOK
<1>2. ASSUME NEW l \in Calls, ToolCall(l)
      PROVE  step'[k] = "done"
  <2>1. step[l] # "done"
    BY <1>2 DEF ToolCall, Begin, Reuse, CallClear, StartNow, Delete, Draft, Write
  <2>2. \E s : Goto(l, s)
    BY <1>2 DEF ToolCall, Begin, Reuse, CallClear, StartNow, Delete, Draft, Write
  <2> QED BY <2>1, <2>2 DEF Goto, TypeOK
<1>3. ASSUME NEW x \in Claims \cup Calls, Victim(x) \/ Fail(x)
      PROVE  step'[k] = "done"
  BY <1>3 DEF Victim, Waits, Fail, RolledBack, Over, Goto, TypeOK
<1>4. CASE UNCHANGED step
  BY <1>4
<1> QED BY <1>1, <1>2, <1>3, <1>4
        DEF Next, Create, BeginEnd, CommitEnd, Tick, ProjectChanges,
            SessionInput, SessionMoves, vars

\* What Update writes for a row that exists exists.
LEMMA UpdatedStatus ==
    ASSUME TypeOK, task.status # "absent"
    PROVE  \A row \in Updated(task) : row.status # "absent"
<1>1. task \in Row
  BY DEF TypeOK
<1> QED BY <1>1 DEF Updated, Row

LEMMA StepBorn ==
    ASSUME TimesAssumption, IInv, [Next]_vars
    PROVE  Born'
<1>0. TypeOK /\ Held /\ Looked /\ Born /\ task \in Row /\ clock \in Times
  BY DEF IInv, TypeOK
<1>1. CASE Create(task.kind, task.schedule)
  <2>1. /\ task'.status # "absent"
        /\ UNCHANGED <<step, draft>>
    BY <1>1 DEF Create
  <2> QED BY <1>0, <2>1 DEF Born
<1>2. ASSUME NEW c \in Claims, Materialize(c)
      PROVE  Born'
  <2>1. task' = task \/ task'.status # "absent"
                     \/ task' = [task EXCEPT !.blocked = task'.blocked]
    <3>1. CASE Look(c) \/ Pick(c) \/ Clear(c)
      BY <3>1 DEF Look, Pick, Clear
    <3>2. CASE Postpone(c)
      BY <1>0, <3>2 DEF Postpone, Row
    <3>3. CASE Hold(c)
      BY <1>0, <3>3 DEF Hold, Row
    <3>4. CASE Coalesce(c) \/ Start(c)
      <4>1. Holds(c)
        BY <3>4 DEF Coalesce, Start, Holds
      <4>2. Advance(task, seen[c].row, clock).status # "absent"
        BY <1>0, <4>1, HolderReads, AdvanceMoves
      <4> QED BY <3>4, <4>2 DEF Coalesce, Start
    <3> QED BY <1>2, <3>1, <3>2, <3>3, <3>4 DEF Materialize
  <2>2. \E s \in {"idle", "looked", "picked", "clear", "done"} : Goto(c, s)
    BY <1>2 DEF Materialize, Look, Pick, Over, Postpone, Coalesce, Hold, Clear, Start
  <2>3. UNCHANGED draft
    BY <1>2 DEF Materialize, Look, Pick, Over, Postpone, Coalesce, Hold, Clear, Start
  <2>4. \A k \in Calls : step'[k] = "drafted" => step[k] = "drafted"
    BY <1>0, <2>2, GotoType
  <2>5. task'.status = "absent" => task'.revision = 0
    BY <1>0, <2>1 DEF Born, Row
  <2> QED BY <1>0, <2>3, <2>4, <2>5 DEF Born
<1>3. ASSUME NEW k \in Calls, ToolCall(k)
      PROVE  Born'
  <2>1. CASE Begin(k) \/ Reuse(k) \/ CallClear(k) \/ StartNow(k)
    <3>1. UNCHANGED <<task, draft>> /\
          \E s \in {"idle", "looked", "picked", "clear", "done"} : Goto(k, s)
      BY <2>1 DEF Begin, Reuse, CallClear, StartNow
    <3>2. \A l \in Calls : step'[l] = "drafted" => step[l] = "drafted"
      BY <1>0, <3>1, GotoType
    <3> QED BY <1>0, <3>1, <3>2 DEF Born
  <2>2. CASE Delete(k)
    <3>1. task'.status = "deleted"
      BY <1>0, <2>2 DEF Delete, Row
    <3>2. \A l \in Calls : step'[l] = "drafted" => step[l] = "drafted"
      BY <1>0, <2>2, GotoType DEF Delete
    <3> QED BY <1>0, <2>2, <3>1, <3>2 DEF Born, Delete
  <2>3. CASE Draft(k)
    <3>1. PICK row \in Updated(task) :
             draft' = [draft EXCEPT ![k] = [read |-> task, write |-> row]]
      BY <2>3 DEF Draft
    <3>2. row.status # "absent"
      BY <1>0, <2>3, UpdatedStatus DEF Draft
    <3>3. draft'[k].write = row /\ \A l \in Calls : l # k => draft'[l] = draft[l]
      BY <1>0, <3>1 DEF TypeOK
    <3>4. \A l \in Calls : l # k => step'[l] = step[l]
      BY <1>0, <2>3 DEF Draft, Goto, TypeOK
    <3> QED BY <1>0, <2>3, <3>2, <3>3, <3>4 DEF Born, Draft
  <2>4. CASE Write(k)
    <3>1. draft[k].write \in Row /\ draft[k].write.status # "absent"
      BY <1>0, <2>4 DEF Write, Born, TypeOK
    <3>2. task' = task \/ task'.status = draft[k].write.status
      BY <2>4, <3>1 DEF Write, Row
    <3>3. \A l \in Calls :
             step'[l] = "drafted" => l # k /\ step[l] = "drafted"
      BY <1>0, <2>4 DEF Write, Goto, TypeOK
    <3>4. \A l \in Calls : l # k => draft'[l] = draft[l]
      BY <1>0, <2>4 DEF Write, TypeOK
    <3> QED BY <1>0, <3>1, <3>2, <3>3, <3>4 DEF Born
  <2> QED BY <1>3, <2>1, <2>2, <2>3, <2>4 DEF ToolCall
<1>4. ASSUME NEW x \in Claims \cup Calls, Victim(x) \/ Fail(x)
      PROVE  Born'
  <2>1. \A l \in Calls : step'[l] = "drafted" =>
                             step[l] = "drafted" /\ draft'[l] = draft[l]
    BY <1>0, <1>4 DEF Victim, Fail, RolledBack, Over, Goto, TypeOK
  <2> QED BY <1>0, <1>4, <2>1 DEF Born, Victim, Fail
<1>5. CASE UNCHANGED <<task, step, draft>>
  BY <1>0, <1>5 DEF Born
<1> QED BY <1>1, <1>2, <1>3, <1>4, <1>5
        DEF Next, BeginEnd, CommitEnd, Tick, ProjectChanges, SessionInput,
            SessionMoves, vars

\* A revision is not taken back.
LEMMA RevisionGrows ==
    ASSUME TimesAssumption, IInv, [Next]_vars
    PROVE  /\ task.revision \in Nat /\ task'.revision \in Nat
           /\ task.revision <= task'.revision
<1>0. /\ TypeOK /\ Held /\ Looked /\ Born /\ task \in Row /\ clock \in Times
      /\ task.revision \in Nat
  BY DEF IInv, TypeOK, Row
<1>1. CASE Create(task.kind, task.schedule)
  <2>1. task.revision = 0 /\ task'.revision = 1
    BY <1>0, <1>1 DEF Create, Born
  <2> QED BY <2>1
<1>2. ASSUME NEW c \in Claims, Materialize(c)
      PROVE  task'.revision = task.revision
  <2>1. CASE Look(c) \/ Pick(c) \/ Clear(c)
    BY <2>1 DEF Look, Pick, Clear
  <2>2. CASE Postpone(c) \/ Hold(c)
    BY <1>0, <2>2 DEF Postpone, Hold, Row
  <2>3. CASE Coalesce(c) \/ Start(c)
    <3>1. Holds(c)
      BY <2>3 DEF Coalesce, Start, Holds
    <3>2. Advance(task, seen[c].row, clock).revision = task.revision
      BY <1>0, <3>1, HolderReads, AdvanceMoves
    <3> QED BY <2>3, <3>2 DEF Coalesce, Start
  <2> QED BY <1>2, <2>1, <2>2, <2>3 DEF Materialize
<1>3. ASSUME NEW k \in Calls, ToolCall(k)
      PROVE  task'.revision \in {task.revision, task.revision + 1}
  <2>1. CASE Begin(k) \/ Reuse(k) \/ CallClear(k) \/ StartNow(k) \/ Draft(k)
    BY <2>1 DEF Begin, Reuse, CallClear, StartNow, Draft
  <2>2. CASE Delete(k)
    BY <1>0, <2>2 DEF Delete, Row
  <2>3. CASE Write(k)
    <3>1. draft[k].write \in Row
      BY <1>0, <2>3 DEF Write, TypeOK
    <3> QED BY <1>0, <2>3, <3>1 DEF Write, Row
  <2> QED BY <1>3, <2>1, <2>2, <2>3 DEF ToolCall
<1>4. CASE UNCHANGED task
  BY <1>0, <1>4
<1> QED BY <1>0, <1>1, <1>2, <1>3, <1>4
        DEF Next, Victim, Fail, BeginEnd, CommitEnd, Tick, ProjectChanges,
            SessionInput, SessionMoves, vars

\* Time is not taken back.
LEMMA ClockGrows ==
    ASSUME TimesAssumption, TypeOK, [Next]_vars
    PROVE  clock \in Nat /\ clock' \in Nat /\ clock <= clock'
<1>1. clock \in Nat
  BY DEF TypeOK, Times, TimesAssumption
<1>2. clock' = clock \/ clock' = clock + 1
  BY DEF Next, Create, Materialize, Look, Pick, Postpone, Coalesce, Hold, Clear, Start,
         ToolCall, Begin, Reuse, CallClear, StartNow, Delete, Draft, Write, Victim, Fail,
         BeginEnd, CommitEnd, Tick, ProjectChanges, SessionInput, SessionMoves, vars
<1> QED BY <1>1, <1>2

\* While a claim holds the row nobody else moves it.
LEMMA PickedStays ==
    ASSUME TimesAssumption, IInv, [Next]_vars, NEW c \in Claims, Holds(c)'
    PROVE  UNCHANGED task /\ (Holds(c) \/ DueAt(seen[c].at))
<1>0. TypeOK /\ Held
  BY DEF IInv
<1>1. CASE Create(task.kind, task.schedule)
  BY <1>0, <1>1 DEF Create, Held, Holds
<1>2. ASSUME NEW b \in Claims, Materialize(b)
      PROVE  UNCHANGED task /\ (Holds(c) \/ DueAt(seen[c].at))
  <2>1. CASE Pick(b)
    <3>1. UNCHANGED task
      BY <2>1 DEF Pick
    <3>2. CASE ~Locked /\ DueAt(seen[b].at) /\ Goto(b, "picked")
      <4>1. b # c => step'[c] = step[c]
        BY <1>0, <3>2, GotoType
      <4> QED BY <3>1, <3>2, <4>1 DEF Holds
    <3>3. CASE Over(b)
      <4>1. step'[b] = "idle" /\ (b # c => step'[c] = step[c])
        BY <1>0, <3>3, GotoType DEF Over
      <4> QED BY <3>1, <4>1 DEF Holds
    <3> QED BY <2>1, <3>2, <3>3 DEF Pick
  <2>2. CASE Postpone(b) \/ Coalesce(b) \/ Hold(b) \/ Start(b)
    <3>1. Holds(b) /\ Goto(b, "idle")
      BY <2>2 DEF Postpone, Coalesce, Hold, Start, Over, Holds
    <3>2. step'[b] = "idle" /\ (b # c => step'[c] = step[c])
      BY <1>0, <3>1, GotoType
    <3> QED BY <1>0, <3>1, <3>2 DEF Held, Holds
  <2>3. CASE Look(b) \/ Clear(b)
    <3>1. UNCHANGED task /\ \E s \in {"looked", "clear"} : Goto(b, s)
      BY <2>3 DEF Look, Clear
    <3>2. b # c => step'[c] = step[c]
      BY <1>0, <3>1, GotoType
    <3>3. b = c => Holds(c)
      BY <1>0, <2>3 DEF Look, Clear, Holds, Goto, TypeOK
    <3> QED BY <3>1, <3>2, <3>3 DEF Holds
  <2> QED BY <1>2, <2>1, <2>2, <2>3 DEF Materialize
<1>3. ASSUME NEW k \in Calls, ToolCall(k)
      PROVE  UNCHANGED task /\ (Holds(c) \/ DueAt(seen[c].at))
  <2>0. c # k
    BY DEF TimesAssumption
  <2>1. \E s : Goto(k, s)
    BY <1>3 DEF ToolCall, Begin, Reuse, CallClear, StartNow, Delete, Draft, Write
  <2>2. step'[c] = step[c] /\ Holds(c)
    BY <1>0, <2>0, <2>1 DEF Goto, TypeOK, Holds
  <2>3. ~Delete(k) /\ ~Write(k)
    BY <2>2 DEF Delete, Write, Locked, Holds
  <2> QED BY <1>3, <2>2, <2>3 DEF ToolCall, Begin, Reuse, CallClear, StartNow, Draft
<1>4. ASSUME NEW x \in Claims \cup Calls, Victim(x) \/ Fail(x)
      PROVE  UNCHANGED task /\ (Holds(c) \/ DueAt(seen[c].at))
  <2>1. step'[c] = step[c]
    BY <1>0, <1>4 DEF Victim, Fail, RolledBack, Over, Goto, TypeOK, Holds
  <2> QED BY <1>4, <2>1 DEF Victim, Fail, Holds
<1>5. CASE UNCHANGED <<task, step>>
  BY <1>5 DEF Holds
<1> QED BY <1>1, <1>2, <1>3, <1>4, <1>5
        DEF Next, BeginEnd, CommitEnd, Tick, ProjectChanges, SessionInput, SessionMoves, vars

\* What a claim goes by stays as it should be.
LEMMA StepLooked ==
    ASSUME TimesAssumption, IInv, [Next]_vars
    PROVE  Looked'
<1>0. /\ TypeOK /\ Held /\ Looked /\ task \in Row /\ clock \in Nat /\ None \notin Nat
      /\ task.revision \in Nat /\ Times \subseteq Nat
  BY DEF IInv, TypeOK, Row, Times, TimesAssumption
<1>1. /\ clock' \in Nat /\ clock <= clock'
      /\ task'.revision \in Nat /\ task.revision <= task'.revision
  BY <1>0, ClockGrows, RevisionGrows
<1> SUFFICES ASSUME NEW c \in Claims, Looking(c)'
             PROVE  SeenOK(c)'
  BY DEF Looked
<1>2. CASE Looking(c) /\ seen'[c] = seen[c]
  <2> DEFINE read == seen[c].row
             at   == seen[c].at
  <2>1. seen[c] \in [row : Row, at : Times]
    BY <1>0, <1>2 DEF TypeOK, Looking
  <2>2. read \in Row /\ at \in Nat
    BY <1>0, <2>1
  <2>3. /\ read.next # None /\ read.next <= at /\ at <= clock
        /\ read.revision <= task.revision
        /\ Holds(c) => task.next <= at
    BY <1>0, <1>2 DEF Looked, SeenOK
  <2>4. read.revision \in Nat
    BY <2>2 DEF Row
  <2>5. ASSUME Holds(c)'
        PROVE  task'.next <= at
    BY <1>0, <2>3, <2>5, PickedStays DEF DueAt
  <2> HIDE DEF read, at
  <2>6. at <= clock' /\ read.revision <= task'.revision
    BY <1>0, <1>1, <2>2, <2>3, <2>4
  <2>7. seen'[c].row = read /\ seen'[c].at = at
    BY <1>2 DEF read, at
  <2> QED BY <2>3, <2>5, <2>6, <2>7 DEF SeenOK
<1>3. CASE /\ UNCHANGED <<task, runs, clock, stale>> /\ Due /\ step'[c] = "looked"
           /\ seen'[c] = [row |-> task, at |-> clock]
  <2>1. seen'[c].row = task /\ seen'[c].at = clock /\ ~Holds(c)'
    BY <1>3 DEF Holds
  <2> QED BY <1>0, <1>3, <2>1 DEF SeenOK, Due, DueAt
<1> QED BY <1>0, <1>2, <1>3, SeenKinds

\* The keys stay in order when the row moves on and no run is inserted.
LEMMA OrderKept ==
    ASSUME TypeOK, KeysOrdered, task \in Row, Len(runs') = Len(runs),
           \A i \in 1 .. Len(runs') : runs'[i].key = runs[i].key,
           \/ task'.revision = task.revision /\ task'.next = task.next
           \/ task'.revision = task.revision /\ task'.next = None
           \/ task'.revision = task.revision + 1
           \/ /\ task'.revision = task.revision /\ task.next \in Nat
              /\ task.next # None
              /\ task'.next # None =>
                    task'.next \in Nat /\ task'.next > task.next
    PROVE  KeysOrdered'
<1> SUFFICES ASSUME NEW i \in 1 .. Len(runs)
             PROVE  KeyOrdered(runs[i].key, task'.revision, task'.next)
  BY DEF KeysOrdered
<1>1. task.revision \in Nat
  BY DEF Row
<1>2. runs[i].key[1] = "scheduled" =>
          runs[i].key[2] \in Nat /\ runs[i].key[3] \in Nat
  BY KeyTypes
<1>3. KeyOrdered(runs[i].key, task.revision, task.next)
  BY DEF KeysOrdered
<1>4. CASE task'.revision = task.revision /\ task'.next = task.next
  BY <1>3, <1>4
<1>5. CASE task'.revision = task.revision /\ task'.next = None
  BY <1>3, <1>5 DEF KeyOrdered
<1>6. CASE task'.revision = task.revision + 1
  BY <1>1, <1>2, <1>3, <1>6, LaterRevision
<1>7. CASE /\ task'.revision = task.revision /\ task.next \in Nat
           /\ task.next # None
           /\ task'.next # None => task'.next \in Nat /\ task'.next > task.next
  BY <1>1, <1>2, <1>3, <1>7, LaterOccurrence
<1> QED BY <1>4, <1>5, <1>6, <1>7

LEMMA StepKeysOrdered ==
    ASSUME TimesAssumption, IInv, [Next]_vars
    PROVE  KeysOrdered'
<1>0. /\ TypeOK /\ Held /\ Looked /\ Born /\ KeysOrdered
      /\ task \in Row /\ clock \in Times
  BY DEF IInv, TypeOK
<1>1. CASE UNCHANGED <<task, runs>>
  BY <1>0, <1>1, OrderKept
<1>2. CASE Create(task.kind, task.schedule)
  <2>1. task'.revision = task.revision + 1 /\ UNCHANGED runs
    BY <1>0, <1>2 DEF Create, Born
  <2> QED BY <1>0, <2>1, OrderKept
<1>3. ASSUME NEW c \in Claims, Materialize(c)
      PROVE  KeysOrdered'
  <2>1. CASE Look(c) \/ Pick(c) \/ Clear(c)
    BY <1>1, <2>1 DEF Look, Pick, Clear
  <2>2. CASE Postpone(c)
    <3>1. task'.revision = task.revision /\ task'.next = task.next
      BY <1>0, <2>2 DEF Postpone, Row
    <3> QED BY <1>0, <2>2, <3>1, OrderKept DEF Postpone
  <2>3. CASE Hold(c)
    <3>1. /\ task'.revision = task.revision
          /\ task'.next = task.next \/ task'.next = None
      BY <1>0, <2>3 DEF Hold, Row
    <3> QED BY <1>0, <2>3, <3>1, OrderKept DEF Hold
  <2>4. CASE Coalesce(c) \/ Start(c)
    <3>1. Holds(c)
      BY <2>4 DEF Coalesce, Start, Holds
    <3> DEFINE row  == Advance(task, seen[c].row, clock)
               read == seen[c].row
    <3>2. /\ task.next # None /\ task.next \in Nat /\ task.next <= clock /\ clock \in Nat
          /\ read.next # None /\ read.next \in Nat /\ read.next <= clock
          /\ read.revision \in Nat /\ read.revision <= task.revision
      BY <1>0, <3>1, HolderReads
    <3>3. /\ row.revision = task.revision
          /\ row.next # None => row.next \in Nat /\ row.next > clock
      BY <1>0, <3>1, HolderReads, AdvanceMoves
    <3>a. task'.revision = task.revision /\ task.next \in Nat /\ task.next # None
          /\ (row.next # None => row.next \in Nat /\ row.next > task.next)
      <4>1. task' = row \/ task' = task
        BY <2>4 DEF Coalesce, Start
      <4> QED BY <3>2, <3>3, <4>1
    <3> HIDE DEF row, read
    <3>4. CASE Coalesce(c)
      <4>1. task' = row
        BY <3>4 DEF Coalesce, row
      <4>2. /\ Len(runs') = Len(runs)
            /\ \A i \in 1 .. Len(runs') : runs'[i].key = runs[i].key
        <5> DEFINE f == [i \in 1 .. Len(runs) |->
                           IF i \in Unfinished
                             THEN [runs[i] EXCEPT !.through = clock]
                             ELSE runs[i]]
        <5>1. \A i \in 1 .. Len(runs) : runs[i] \in Run
          BY <1>0 DEF TypeOK
        <5>2. f \in [1 .. Len(runs) -> Run] /\ runs' = f
          BY <1>0, <3>4, <5>1 DEF Coalesce, Run
        <5>3. \A i \in 1 .. Len(runs) : f[i].key = runs[i].key
          BY <5>1 DEF Run
        <5> HIDE DEF f
        <5> QED BY <1>0, <5>2, <5>3, Rewritten
      <4> QED BY <1>0, <3>a, <4>1, <4>2, OrderKept
    <3>5. CASE Start(c) /\ runs' # runs
      <4>1. /\ task' = row
            /\ InsertRun(DueKey(c), seen[c].row.next,
                         IF clock > seen[c].row.next THEN clock ELSE None)
        BY <3>5 DEF Start, row
      <4>3. \A i \in 1 .. Len(runs') :
               \/ i \in 1 .. Len(runs) /\ runs'[i] = runs[i]
               \/ runs'[i].key = DueKey(c)
        BY <1>0, <3>1, <4>1, DueRun, Inserted
      <4> SUFFICES ASSUME NEW i \in 1 .. Len(runs')
                   PROVE  KeyOrdered(runs'[i].key, row.revision, row.next)
        BY <4>1 DEF KeysOrdered
      <4>4. task.revision \in Nat
        BY <1>0 DEF Row
      <4>5. CASE i \in 1 .. Len(runs) /\ runs'[i] = runs[i]
        <5>1. KeyOrdered(runs[i].key, task.revision, task.next)
          BY <1>0, <4>5 DEF KeysOrdered
        <5>2. runs[i].key[1] = "scheduled" => runs[i].key[3] \in Nat
          BY <1>0, <4>5, KeyTypes
        <5> QED BY <3>a, <3>3, <4>4, <4>5, <5>1, <5>2, LaterOccurrence
      <4>6. CASE runs'[i].key = DueKey(c)
        <5>1. DueKey(c)[2] = read.revision /\ DueKey(c)[3] = read.next
          BY DEF DueKey, read
        <5> QED BY <3>2, <3>3, <4>4, <4>6, <5>1 DEF KeyOrdered
      <4> QED BY <4>3, <4>5, <4>6
    <3>6. CASE Start(c) /\ runs' = runs
      <4>1. task' = row \/ task' = task
        BY <3>6 DEF Start, row
      <4> QED BY <1>0, <3>a, <3>6, <4>1, OrderKept
    <3> QED BY <2>4, <3>4, <3>5, <3>6
  <2> QED BY <1>3, <2>1, <2>2, <2>3, <2>4 DEF Materialize
<1>4. ASSUME NEW k \in Calls, ToolCall(k)
      PROVE  KeysOrdered'
  <2>1. CASE Begin(k) \/ Reuse(k) \/ CallClear(k) \/ Draft(k)
    BY <1>1, <2>1 DEF Begin, Reuse, CallClear, Draft
  <2>2. CASE StartNow(k)
    <3>1. UNCHANGED task
      BY <2>2 DEF StartNow
    <3>2. CASE UNCHANGED runs
      BY <1>1, <3>1, <3>2
    <3>3. CASE InsertRun(<<"run_now", k>>, clock, None)
      <4>1. [key |-> <<"run_now", k>>, for |-> clock, through |-> None,
             active |-> TRUE] \in Run
        BY <1>0 DEF Run
      <4>2. \A i \in 1 .. Len(runs') :
               \/ i \in 1 .. Len(runs) /\ runs'[i] = runs[i]
               \/ runs'[i].key = <<"run_now", k>>
        BY <1>0, <3>3, <4>1, Inserted
      <4> QED BY <1>0, <3>1, <4>2 DEF KeysOrdered, KeyOrdered
    <3> QED BY <2>2, <3>2, <3>3 DEF StartNow
  <2>3. CASE Delete(k)
    <3>1. task'.revision = task.revision + 1
      BY <1>0, <2>3 DEF Delete, Row
    <3> QED BY <1>0, <2>3, <3>1, OrderKept DEF Delete
  <2>4. CASE Write(k)
    <3>1. draft[k].write \in Row
      BY <1>0, <2>4 DEF Write, TypeOK
    <3>2. task' = task \/ task'.revision = task.revision + 1
      BY <2>4, <3>1 DEF Write, Row
    <3> QED BY <1>0, <2>4, <3>2, OrderKept DEF Write
  <2> QED BY <1>4, <2>1, <2>2, <2>3, <2>4 DEF ToolCall
<1>5. CASE CommitEnd
  <2> DEFINE f == [i \in 1 .. Len(runs) |-> [runs[i] EXCEPT !.active = FALSE]]
  <2>1. \A i \in 1 .. Len(runs) : runs[i] \in Run
    BY <1>0 DEF TypeOK
  <2>2. f \in [1 .. Len(runs) -> Run] /\ runs' = f
    BY <1>5, <2>1 DEF CommitEnd, Run
  <2>3. \A i \in 1 .. Len(runs) : f[i].key = runs[i].key
    BY <2>1 DEF Run
  <2> HIDE DEF f
  <2>4. /\ Len(runs') = Len(runs)
        /\ \A i \in 1 .. Len(runs') : runs'[i].key = runs[i].key
    BY <1>0, <2>2, <2>3, Rewritten
  <2> QED BY <1>0, <1>5, <2>4, OrderKept DEF CommitEnd
<1> QED BY <1>1, <1>2, <1>3, <1>4, <1>5
        DEF Next, Victim, Fail, BeginEnd, Tick, ProjectChanges, SessionInput,
            SessionMoves, vars

LEMMA StepKeysOfCalls ==
    ASSUME TimesAssumption, IInv, [Next]_vars
    PROVE  KeysOfCalls'
<1>0. TypeOK /\ Held /\ Looked /\ KeysOfCalls /\ task \in Row /\ clock \in Times
  BY DEF IInv, TypeOK
<1>1. \A k \in Calls : step[k] = "done" => step'[k] = "done"
  BY <1>0, DoneStays
<1>2. CASE Len(runs') = Len(runs)
             /\ \A i \in 1 .. Len(runs') : runs'[i].key = runs[i].key
  BY <1>0, <1>1, <1>2 DEF KeysOfCalls
<1>3. CASE UNCHANGED runs
  BY <1>0, <1>1, <1>3 DEF KeysOfCalls
<1>4. ASSUME NEW c \in Claims, Coalesce(c)
      PROVE  KeysOfCalls'
  <2> DEFINE f == [i \in 1 .. Len(runs) |->
                     IF i \in Unfinished THEN [runs[i] EXCEPT !.through = clock]
                     ELSE runs[i]]
  <2>1. \A i \in 1 .. Len(runs) : runs[i] \in Run
    BY <1>0 DEF TypeOK
  <2>2. f \in [1 .. Len(runs) -> Run] /\ runs' = f
    BY <1>0, <1>4, <2>1 DEF Coalesce, Run
  <2>3. \A i \in 1 .. Len(runs) : f[i].key = runs[i].key
    BY <2>1 DEF Run
  <2> HIDE DEF f
  <2> QED BY <1>0, <1>2, <2>2, <2>3, Rewritten
<1>5. CASE CommitEnd
  <2> DEFINE f == [i \in 1 .. Len(runs) |-> [runs[i] EXCEPT !.active = FALSE]]
  <2>1. \A i \in 1 .. Len(runs) : runs[i] \in Run
    BY <1>0 DEF TypeOK
  <2>2. f \in [1 .. Len(runs) -> Run] /\ runs' = f
    BY <1>5, <2>1 DEF CommitEnd, Run
  <2>3. \A i \in 1 .. Len(runs) : f[i].key = runs[i].key
    BY <2>1 DEF Run
  <2> HIDE DEF f
  <2> QED BY <1>0, <1>2, <2>2, <2>3, Rewritten
<1>6. ASSUME NEW c \in Claims, Start(c), runs' # runs
      PROVE  KeysOfCalls'
  <2>1. Holds(c)
    BY <1>6 DEF Start, Holds
  <2>2. InsertRun(DueKey(c), seen[c].row.next,
                  IF clock > seen[c].row.next THEN clock ELSE None)
    BY <1>6 DEF Start
  <2>3. \A i \in 1 .. Len(runs') :
           \/ i \in 1 .. Len(runs) /\ runs'[i] = runs[i]
           \/ runs'[i].key = DueKey(c)
    BY <1>0, <2>1, <2>2, DueRun, Inserted
  <2>4. \A k \in Calls : DueKey(c) # <<"run_now", k>>
    BY DEF DueKey
  <2> QED BY <1>0, <1>1, <2>3, <2>4 DEF KeysOfCalls
<1>7. ASSUME NEW k \in Calls, StartNow(k), runs' # runs
      PROVE  KeysOfCalls'
  <2>1. InsertRun(<<"run_now", k>>, clock, None) /\ Goto(k, "done")
    BY <1>7 DEF StartNow
  <2>2. [key |-> <<"run_now", k>>, for |-> clock, through |-> None,
         active |-> TRUE] \in Run
    BY <1>0 DEF Run
  <2>3. \A i \in 1 .. Len(runs') :
           \/ i \in 1 .. Len(runs) /\ runs'[i] = runs[i]
           \/ runs'[i].key = <<"run_now", k>>
    BY <1>0, <2>1, <2>2, Inserted
  <2>4. step'[k] = "done"
    BY <1>0, <2>1, GotoType
  <2>5. \A l \in Calls : <<"run_now", k>> = <<"run_now", l>> => k = l
    OBVIOUS
  <2> QED BY <1>0, <1>1, <2>3, <2>4, <2>5 DEF KeysOfCalls
<1> QED BY <1>3, <1>4, <1>5, <1>6, <1>7
        DEF Next, Create, Materialize, Look, Pick, Postpone, Hold, Clear, ToolCall,
            Begin, Reuse, CallClear, Delete, Draft, Write, Victim, Fail,
            BeginEnd, Tick, ProjectChanges, SessionInput, SessionMoves, vars

-----------------------------------------------------------------------------
(* Theorems *)

LEMMA Initially ==
    ASSUME TimesAssumption, Init
    PROVE  IInv
<1>1. TypeOK
  <2>1. PICK kind \in {"standalone", "heartbeat"}, s \in Schedules :
           task = [kind |-> kind, status |-> "absent", schedule |-> s,
                   next |-> None, blocked |-> None, revision |-> 0]
    BY DEF Init
  <2>2. task \in Row
    BY <2>1 DEF Row, Statuses
  <2>3. clock \in Times
    BY DEF Init, Times, TimesAssumption
  <2>4. /\ step \in [Claims \cup Calls ->
                       {"idle", "looked", "picked", "clear", "drafted", "done"}]
        /\ \A k \in Calls : step[k] # "drafted"
    BY DEF Init
  <2>5. runs \in Seq(Run) /\ draft \in [Calls -> [read : Row, write : Row] \cup {None}]
    BY DEF Init
  <2>6. /\ seen \in [Claims -> [row : Row, at : Times] \cup {None}]
        /\ \A c \in Claims : step[c] \in {"idle", "done"}
    BY DEF Init
  <2> QED BY <2>2, <2>3, <2>4, <2>5, <2>6 DEF Init, TypeOK
<1>2. \A x \in Claims \cup Calls : step[x] \in {"idle", "done"}
  BY DEF Init
<1>3. Len(runs) = 0 /\ task.revision = 0
  BY DEF Init
<1> QED BY <1>1, <1>2, <1>3
        DEF IInv, Held, Holds, Looked, Looking, Born, KeysOrdered, KeysOfCalls

THEOREM Invariance == Spec => []IInv
<1>1. Init => IInv
  BY TimesAssumption, Initially
<1>2. IInv /\ [Next]_vars => IInv'
  BY TimesAssumption, StepTypes, StepHeld, StepLooked, StepBorn, StepKeysOrdered,
     StepKeysOfCalls DEF IInv
<1> QED BY <1>1, <1>2, PTL DEF Spec

\* Every variable keeps its type: no schedule is advanced past its end and no
\* row is written that the tables would refuse.
THEOREM Types == Spec => []TypeOK
<1>1. IInv => TypeOK
  BY DEF IInv
<1> QED BY <1>1, Invariance, PTL

\* A deleted task is left as it is and starts no run, in every interleaving
\* with the claims and the calls that were under way.
THEOREM DeletedStays == Spec => DeletedIsFinal
<1>1. ASSUME IInv, [Next]_vars, task.status = "deleted"
      PROVE  task' = task /\ Len(runs') = Len(runs)
  <2>0. TypeOK /\ Held
    BY <1>1 DEF IInv
  <2>1. \A x \in Claims \cup Calls : step[x] \notin {"picked", "clear"}
    BY <1>1, <2>0 DEF Held, Holds
  <2>2. ASSUME NEW c \in Claims, Materialize(c)
        PROVE  UNCHANGED <<task, runs>>
    BY <1>1, <2>1, <2>2 DEF Materialize, Look, Pick, Postpone, Coalesce, Hold,
                            Clear, Start
  <2>3. ASSUME NEW k \in Calls, ToolCall(k)
        PROVE  UNCHANGED <<task, runs>>
    BY <1>1, <2>1, <2>3 DEF ToolCall, Begin, Reuse, CallClear, StartNow,
                            Delete, Draft, Write
  <2>4. CASE CommitEnd
    <3>1. UNCHANGED task
      BY <2>4 DEF CommitEnd
    <3> DEFINE f == [i \in 1 .. Len(runs) |-> [runs[i] EXCEPT !.active = FALSE]]
    <3>2. \A i \in 1 .. Len(runs) : runs[i] \in Run
      BY <2>0 DEF TypeOK
    <3>3. f \in [1 .. Len(runs) -> Run] /\ runs' = f
      BY <2>4, <3>2 DEF CommitEnd, Run
    <3>4. \A i \in 1 .. Len(runs) : f[i].key = runs[i].key
      BY <3>2 DEF Run
    <3> HIDE DEF f
    <3> QED BY <2>0, <3>1, <3>3, <3>4, Rewritten
  <2>5. CASE UNCHANGED <<task, runs>>
    BY <2>5
  <2> QED BY <1>1, <2>2, <2>3, <2>4, <2>5
          DEF Next, Create, Victim, Fail, BeginEnd, Tick, ProjectChanges,
              SessionInput, SessionMoves, vars
<1>2. IInv /\ [Next]_vars =>
        [task.status = "deleted" => task' = task /\ Len(runs') = Len(runs)]_vars
  BY <1>1
<1> QED BY <1>2, Invariance, PTL DEF Spec, DeletedIsFinal

-----------------------------------------------------------------------------
(* Each occurrence once: what the steps do to the runs and the next one *)

\* The last moment whose occurrences a run answers, as Reach says.
ReachOf(run) == IF run.through # None THEN run.through
                ELSE IF run.key[1] = "scheduled" THEN run.for ELSE 0

\* What is answered is past.
Past == \A i \in 1 .. Len(runs) : Reach(i) <= clock

\* The key of a scheduled run says which occurrence it is for.
KeysFor == \A i \in 1 .. Len(runs) : Scheduled(i) => runs[i].key[3] = runs[i].for

\* Nothing has run since the unfinished run.
LastActive == \A i \in 1 .. Len(runs) : runs[i].active => i = Len(runs)

Beyond(next) ==
    next # None => next > 0 /\ \A i \in 1 .. Len(runs) : Reach(i) < next

\* What the task has before it is not answered yet, ...
Ahead ==
    ~stale =>
        /\ Beyond(task.next)
        /\ task.next # None =>
              \A i \in 1 .. Len(runs) :
                  Scheduled(i) /\ runs[i].key[2] = task.revision =>
                      runs[i].for + Gap <= task.next

\* ... nor is what an update is about to write, as long as the occurrence it
\* has read still is the next one; ...
DraftsAhead ==
    \A k \in Calls :
        /\ step[k] = "drafted" /\ ~stale
        /\ draft[k].read.revision = task.revision
        /\ draft[k].read.next = task.next
        => Beyond(draft[k].write.next)

\* ... which it does not become again.
DraftsBehind ==
    \A k \in Calls : step[k] = "drafted" =>
        LET read == draft[k].read IN
        /\ read.revision <= task.revision
        /\ read.revision = task.revision /\ task.next # None =>
              read.next # None /\ read.next <= task.next

\* What a claim has read is not answered yet.
Unanswered(c) ==
    LET read == seen[c].row IN
    /\ Beyond(read.next)
    /\ \A i \in 1 .. Len(runs) :
          Scheduled(i) /\ runs[i].key[2] = read.revision =>
              runs[i].for + Gap <= read.next

\* It is the row as it is, or the row is one of which nothing has run.
Matches(c) ==
    LET read == seen[c].row IN
    \/ /\ read.revision = task.revision
       /\ read.next = task.next /\ read.schedule = task.schedule
    \/ /\ read.revision < task.revision
       /\ \A i \in 1 .. Len(runs) :
             Scheduled(i) => runs[i].key[2] # task.revision

\* Both hold of a claim as long as the row is due by the time it began, ...
SeenMatches ==
    \A c \in Claims :
        Looking(c) /\ task.next # None /\ task.next <= seen[c].at =>
            Matches(c) /\ (~stale => Unanswered(c))

\* ... or an update that has read the row as it is will make it so.
DraftsMatch ==
    \A c \in Claims, k \in Calls :
        /\ Looking(c) /\ step[k] = "drafted" /\ ~stale
        /\ draft[k].read.revision = task.revision
        /\ draft[k].read.next = task.next
        /\ draft[k].write.next # None /\ draft[k].write.next <= seen[c].at
        => Unanswered(c)

OnceInv ==
    /\ Past /\ KeysFor /\ LastActive /\ Ahead /\ DraftsAhead /\ DraftsBehind
    /\ SeenMatches /\ DraftsMatch /\ AnsweredOnce

\* The runs stay as they are, or end.
RunsKept ==
    /\ Len(runs') = Len(runs)
    /\ \A i \in 1 .. Len(runs) :
          /\ runs'[i].key = runs[i].key /\ runs'[i].for = runs[i].for
          /\ runs'[i].through = runs[i].through
          /\ runs'[i].active => runs[i].active

\* A new run, when all others have ended.
Adds(key, for, through) ==
    /\ Unfinished = {} /\ Len(runs') = Len(runs) + 1
    /\ \A i \in 1 .. Len(runs) : runs'[i] = runs[i]
    /\ LET run == runs'[Len(runs) + 1]
       IN  run.key = key /\ run.for = for /\ run.through = through

\* The last run, old or new, answers all that was due by now.
Answers(c) ==
    /\ Holds(c)
    /\ task' = Advance(task, seen[c].row, clock) /\ UNCHANGED <<clock, stale>>
    /\ Len(runs') \in Nat \ {0} /\ Len(runs) <= Len(runs')
    /\ ReachOf(runs'[Len(runs')]) = clock
    /\ \A i \in 1 .. Len(runs') :
          \/ /\ i \in 1 .. Len(runs)
             /\ runs'[i].key = runs[i].key /\ runs'[i].for = runs[i].for
             /\ i # Len(runs') => ReachOf(runs'[i]) = ReachOf(runs[i])
             /\ runs'[i].active => runs[i].active
          \/ /\ i = Len(runs') /\ Len(runs') = Len(runs) + 1 /\ Unfinished = {}
             /\ runs'[i].key = DueKey(c) /\ runs'[i].for = seen[c].row.next

Answering == \E c \in Claims : Answers(c)

\* A call starts a run by hand.
ByHand ==
    /\ UNCHANGED <<task, clock, stale>>
    /\ \E k \in Calls : Adds(<<"run_now", k>>, clock, None)

\* The occurrence before the task stays, ...
Stays ==
    /\ UNCHANGED stale
    /\ task'.next = task.next /\ task'.revision = task.revision
    /\ task'.status = task.status /\ task'.schedule = task.schedule

\* ... is given up, ...
Stops ==
    /\ UNCHANGED stale /\ task.next # None
    /\ task'.next = None /\ task'.revision = task.revision
    /\ task'.status = "paused"

\* ... or is one of a new revision, past or drafted.
Rewrites ==
    /\ task'.revision = task.revision + 1
    /\ ~stale' =>
          /\ ~stale
          /\ \/ task'.next = None
             \/ task'.next \in Nat /\ task'.next > clock
             \/ \E k \in Calls : /\ step[k] = "drafted" /\ draft[k].read = task
                                 /\ task'.next = draft[k].write.next

\* The moment a run reaches is a time.
LEMMA ReachTypes ==
    ASSUME TypeOK, TimesAssumption
    PROVE  \A i \in 1 .. Len(runs) :
              /\ Reach(i) = ReachOf(runs[i]) /\ Reach(i) \in Nat
              /\ runs[i].for \in Nat
<1> SUFFICES ASSUME NEW i \in 1 .. Len(runs)
             PROVE  /\ Reach(i) = ReachOf(runs[i]) /\ Reach(i) \in Nat
                    /\ runs[i].for \in Nat
  OBVIOUS
<1>1. runs[i] \in Run
  BY DEF TypeOK
<1> QED BY <1>1 DEF Reach, ReachOf, Scheduled, Run, Times

\* What is passed over is within the interval after now.
LEMMA NoneBetween ==
    ASSUME NEW schedule \in Schedules, NEW current \in Times, NEW now \in Times,
           current <= now, TimesAssumption, NEW t \in schedule,
           LET next == NextAfterOccurrence(schedule, current, now)
           IN  next # None => t < next
    PROVE  t < now + Gap
<1>1. schedule \subseteq Nat /\ t \in Nat
  BY DEF TimesAssumption, Times
<1>2. now \in Nat /\ current \in Nat /\ Gap \in Nat \ {0} /\ None \notin Nat
  BY DEF TimesAssumption, Times
<1>3. ASSUME NEW S \in SUBSET Nat, t \in S,
             NextAfterOccurrence(schedule, current, now) = Earliest(S)
      PROVE  FALSE
  <2>1. Earliest(S) \in S /\ Earliest(S) <= t
    BY <1>3, EarliestTime
  <2>2. Earliest(S) \in Nat /\ Earliest(S) # None
    BY <1>2, <2>1
  <2> QED BY <1>1, <1>3, <2>1, <2>2
<1>4. CASE now < current + Gap
  <2> DEFINE S == {u \in schedule : u >= current + Gap}
  <2>1. NextAfterOccurrence(schedule, current, now) = Earliest(S)
    BY <1>4 DEF NextAfterOccurrence
  <2>2. S \in SUBSET Nat
    BY <1>1
  <2>3. t \notin S
    BY <1>3, <2>1, <2>2
  <2> QED BY <1>1, <1>2, <1>4, <2>3
<1>5. CASE ~(now < current + Gap)
  <2> DEFINE S == {u \in schedule : u > now}
  <2>1. NextAfterOccurrence(schedule, current, now) = Earliest(S)
    BY <1>5 DEF NextAfterOccurrence, FirstAfter
  <2>2. S \in SUBSET Nat
    BY <1>1
  <2>3. t \notin S
    BY <1>3, <2>1, <2>2
  <2> QED BY <1>1, <1>2, <2>3
<1> QED BY <1>4, <1>5

\* What is inserted comes last.
LEMMA InsertAdds ==
    ASSUME TypeOK, Unfinished = {}, NEW key, NEW for, NEW through,
           [key |-> key, for |-> for, through |-> through, active |-> TRUE]
              \in Run,
           InsertRun(key, for, through)
    PROVE  Adds(key, for, through)
<1> DEFINE r == [key |-> key, for |-> for, through |-> through, active |-> TRUE]
<1>1. runs \in Seq(Run) /\ r \in Run /\ runs' = Append(runs, r)
  BY DEF TypeOK, InsertRun
<1>2. r.key = key /\ r.for = for /\ r.through = through
  OBVIOUS
<1> HIDE DEF r
<1>3. /\ Len(runs') = Len(runs) + 1 /\ runs'[Len(runs) + 1] = r
      /\ \A i \in 1 .. Len(runs) : runs'[i] = runs[i]
  BY <1>1
<1> QED BY <1>2, <1>3 DEF Adds

\* The run a claim starts answers all that was due.
LEMMA StartAnswers ==
    ASSUME TimesAssumption, TypeOK, Held, Looked, NEW c \in Claims, Start(c), runs' # runs
    PROVE  Answers(c)
<1> DEFINE next    == seen[c].row.next
           through == IF clock > next THEN clock ELSE None
<1>0. Holds(c)
  BY DEF Start, Holds
<1>1. clock \in Nat /\ None \notin Nat /\ next \in Nat /\ next <= clock
  BY <1>0, HolderReads DEF TimesAssumption
<1>2. /\ Fits(DueKey(c)) /\ InsertRun(DueKey(c), next, through)
      /\ task' = Advance(task, seen[c].row, clock) /\ UNCHANGED <<clock, stale>>
  BY DEF Start
<1>3. Unfinished = {}
  BY <1>2 DEF Fits
<1>4. [key |-> DueKey(c), for |-> next, through |-> through, active |-> TRUE] \in Run
  BY <1>0, DueRun
<1> HIDE DEF through
<1>5. Adds(DueKey(c), next, through)
  BY <1>2, <1>3, <1>4, InsertAdds
<1> DEFINE last == Len(runs) + 1
<1>6. /\ Len(runs) \in Nat /\ Len(runs') = last
      /\ \A i \in 1 .. Len(runs) : runs'[i] = runs[i]
      /\ runs'[last].key = DueKey(c) /\ runs'[last].for = next
      /\ runs'[last].through = through
  BY <1>5 DEF Adds, TypeOK
<1>7. ReachOf(runs'[last]) = clock
  BY <1>1, <1>6 DEF ReachOf, through, DueKey
<1> QED BY <1>0, <1>2, <1>3, <1>6, <1>7 DEF Answers

\* So does the unfinished run a claim finds.
LEMMA CoalesceAnswers ==
    ASSUME TimesAssumption, TypeOK, LastActive, NEW c \in Claims, Coalesce(c)
    PROVE  Answers(c)
<1> DEFINE f == [i \in 1 .. Len(runs) |->
                   IF i \in Unfinished THEN [runs[i] EXCEPT !.through = clock]
                   ELSE runs[i]]
<1>1. /\ Len(runs) \in Nat /\ clock \in Nat /\ None \notin Nat
      /\ \A i \in 1 .. Len(runs) : runs[i] \in Run
  BY DEF TypeOK, TimesAssumption, Times
<1>2. /\ runs' = f /\ task' = Advance(task, seen[c].row, clock)
      /\ UNCHANGED <<clock, stale>> /\ Unfinished # {} /\ Holds(c)
  BY DEF Coalesce, SeesRun, Holds
<1>3. Unfinished = {Len(runs)} /\ Len(runs) \in 1 .. Len(runs)
  BY <1>2 DEF Unfinished, LastActive
<1>4. Len(runs') = Len(runs)
  BY <1>1, <1>2
<1>5. \A i \in 1 .. Len(runs) :
         runs'[i] = IF i = Len(runs) THEN [runs[i] EXCEPT !.through = clock]
                    ELSE runs[i]
  BY <1>2, <1>3
<1> HIDE DEF f
<1>6. \A i \in 1 .. Len(runs) :
         /\ runs'[i].key = runs[i].key /\ runs'[i].for = runs[i].for
         /\ i # Len(runs) => runs'[i] = runs[i]
         /\ runs'[i].active = runs[i].active
         /\ i = Len(runs) => runs'[i].through = clock
  <2>1. ASSUME NEW run \in Run
        PROVE  LET new == [run EXCEPT !.through = clock]
               IN  /\ new.key = run.key /\ new.for = run.for
                   /\ new.active = run.active /\ new.through = clock
    BY DEF Run
  <2> QED BY <1>1, <1>5, <2>1
<1>7. ReachOf(runs'[Len(runs)]) = clock
  BY <1>1, <1>3, <1>6 DEF ReachOf
<1> QED BY <1>1, <1>2, <1>3, <1>4, <1>6, <1>7 DEF Answers

\* The end of a run changes nothing else.
LEMMA EndKeeps ==
    ASSUME TypeOK, CommitEnd
    PROVE  RunsKept /\ Stays
<1> DEFINE f == [i \in 1 .. Len(runs) |-> [runs[i] EXCEPT !.active = FALSE]]
<1>1. Len(runs) \in Nat /\ \A i \in 1 .. Len(runs) : runs[i] \in Run
  BY DEF TypeOK
<1>2. runs' = f /\ UNCHANGED <<task, stale>>
  BY DEF CommitEnd
<1>3. Len(runs') = Len(runs)
  BY <1>1, <1>2
<1>4. \A i \in 1 .. Len(runs) : runs'[i] = [runs[i] EXCEPT !.active = FALSE]
  BY <1>2
<1> QED BY <1>1, <1>2, <1>3, <1>4 DEF RunsKept, Stays, Run

LEMMA UnchangedKeeps ==
    ASSUME UNCHANGED <<task, runs, stale>>
    PROVE  RunsKept /\ Stays
BY DEF RunsKept, Stays

\* A call of an update, a deletion or a run by hand.
LEMMA CallKinds ==
    ASSUME TimesAssumption, IInv, NEW k \in Calls, ToolCall(k)
    PROVE  /\ UNCHANGED clock
           /\ (stale => stale')
           /\ (RunsKept /\ (Stays \/ Rewrites)) \/ ByHand
<1>0. TypeOK /\ Held /\ task \in Row /\ clock \in Times
  BY DEF IInv, TypeOK
<1>1. CASE Begin(k) \/ Reuse(k) \/ CallClear(k) \/ Draft(k)
  <2>1. UNCHANGED <<task, runs, stale, clock>>
    BY <1>1 DEF Begin, Reuse, CallClear, Draft
  <2> QED BY <2>1, UnchangedKeeps
<1>2. CASE StartNow(k)
  <2>1. UNCHANGED <<task, stale, clock>>
    BY <1>2 DEF StartNow
  <2>2. CASE UNCHANGED runs
    BY <2>1, <2>2, UnchangedKeeps
  <2>3. CASE Fits(<<"run_now", k>>) /\ InsertRun(<<"run_now", k>>, clock, None)
    <3>1. [key |-> <<"run_now", k>>, for |-> clock, through |-> None,
           active |-> TRUE] \in Run
      BY <1>0 DEF Run
    <3>2. Unfinished = {}
      BY <2>3 DEF Fits
    <3>3. Adds(<<"run_now", k>>, clock, None)
      BY <1>0, <2>3, <3>1, <3>2, InsertAdds
    <3> QED BY <2>1, <3>3 DEF ByHand
  <2> QED BY <1>2, <2>2, <2>3 DEF StartNow
<1>3. CASE Delete(k)
  <2>1. /\ UNCHANGED <<clock, runs, stale>>
        /\ task'.revision = task.revision + 1 /\ task'.next = None
    BY <1>0, <1>3 DEF Delete, Row
  <2> QED BY <2>1 DEF RunsKept, Rewrites
<1>4. CASE Write(k)
  <2>1. step[k] = "drafted" /\ UNCHANGED <<clock, runs>> /\ draft[k].write \in Row
    BY <1>0, <1>4 DEF Write, TypeOK
  <2>2. RunsKept
    BY <2>1 DEF RunsKept
  <2>3. CASE task.status = "deleted"
    <3>1. UNCHANGED <<task, stale>>
      BY <1>4, <2>3 DEF Write
    <3> QED BY <2>1, <3>1, UnchangedKeeps
  <2>4. CASE task.status # "deleted"
    <3>1. /\ task' = [draft[k].write EXCEPT !.blocked = None,
                                            !.revision = task.revision + 1]
          /\ stale' = (stale \/ task # draft[k].read)
      BY <1>4, <2>4 DEF Write
    <3>2. /\ task'.revision = task.revision + 1
          /\ task'.next = draft[k].write.next
      BY <2>1, <3>1 DEF Row
    <3>3. stale => stale'
      BY <3>1
    <3>4. ~stale' => ~stale /\ draft[k].read = task
      BY <3>1
    <3>5. Rewrites
      BY <2>1, <3>2, <3>4 DEF Rewrites
    <3> QED BY <2>1, <2>2, <3>3, <3>5
  <2> QED BY <2>3, <2>4
<1> QED BY <1>1, <1>2, <1>3, <1>4 DEF ToolCall

\* A step of a claim.
LEMMA ClaimKinds ==
    ASSUME TimesAssumption, IInv, LastActive, NEW c \in Claims, Materialize(c)
    PROVE  /\ UNCHANGED <<clock, stale>>
           /\ (RunsKept /\ (Stays \/ Stops)) \/ Answering
<1>0. TypeOK /\ Held /\ Looked /\ task \in Row
  BY DEF IInv, TypeOK
<1>1. UNCHANGED <<clock, stale>>
  BY DEF Materialize, Look, Pick, Postpone, Coalesce, Hold, Clear, Start
<1>2. CASE Look(c) \/ Pick(c) \/ Clear(c)
  <2>1. UNCHANGED <<task, runs>>
    BY <1>2 DEF Look, Pick, Clear
  <2> QED BY <1>1, <2>1, UnchangedKeeps
<1>3. CASE Postpone(c)
  <2>1. UNCHANGED runs /\ task' = [task EXCEPT !.blocked = seen[c].at + LongBlock]
    BY <1>3 DEF Postpone
  <2>2. RunsKept
    BY <2>1 DEF RunsKept
  <2>3. Stays
    BY <1>0, <1>1, <2>1 DEF Stays, Row
  <2> QED BY <1>1, <2>2, <2>3
<1>4. CASE Hold(c)
  <2>1. UNCHANGED runs /\ task.next # None
    BY <1>0, <1>4 DEF Hold, Held, Holds
  <2>2. RunsKept
    BY <2>1 DEF RunsKept
  <2>3. CASE task' = [task EXCEPT !.status = "paused", !.next = None, !.blocked = None]
    BY <1>0, <1>1, <2>1, <2>2, <2>3 DEF Stops, Row
  <2>4. CASE task' = [task EXCEPT !.blocked = seen[c].at + ShortBlock]
    BY <1>0, <1>1, <2>2, <2>4 DEF Stays, Row
  <2> QED BY <1>4, <2>3, <2>4 DEF Hold
<1>5. CASE Coalesce(c)
  BY <1>0, <1>1, <1>5, CoalesceAnswers DEF Answering
<1>6. CASE Start(c) /\ runs' # runs
  BY <1>0, <1>1, <1>6, StartAnswers DEF Answering
<1>7. CASE Start(c) /\ runs' = runs
  <2>1. Holds(c)
    BY <1>7 DEF Start, Holds
  <2>2. CASE UNCHANGED task
    BY <1>1, <1>7, <2>2, UnchangedKeeps
  <2>3. CASE InsertRun(DueKey(c), seen[c].row.next,
                       IF clock > seen[c].row.next THEN clock ELSE None)
    <3>1. Len(runs') = Len(runs) + 1 /\ Len(runs) \in Nat
      <4>1. [key |-> DueKey(c), for |-> seen[c].row.next,
             through |-> IF clock > seen[c].row.next THEN clock ELSE None,
             active |-> TRUE] \in Run
        BY <1>0, <2>1, DueRun
      <4>2. runs \in Seq(Run)
        BY <1>0 DEF TypeOK
      <4> QED BY <2>3, <4>1, <4>2 DEF InsertRun
    <3> QED BY <1>7, <3>1
  <2> QED BY <1>7, <2>2, <2>3 DEF Start
<1> QED BY <1>2, <1>3, <1>4, <1>5, <1>6, <1>7 DEF Materialize

\* Every step leaves the runs alone, answers what is due, or adds a run by hand.
LEMMA StepKinds ==
    ASSUME TimesAssumption, IInv, LastActive, [Next]_vars
    PROVE  /\ clock' \in Nat /\ clock <= clock' /\ (stale => stale')
           /\ (RunsKept /\ (Stays \/ Stops \/ Rewrites)) \/ Answering \/ ByHand
<1>0. /\ TypeOK /\ Born /\ task \in Row /\ clock \in Times
      /\ clock \in Nat /\ MaxTime \in Nat /\ None \notin Nat
  BY DEF IInv, TypeOK, TimesAssumption, Times
<1>1. CASE Create(task.kind, task.schedule)
  <2> DEFINE next == FirstAfter(task.schedule, clock)
  <2>1. task.schedule \in Schedules
    BY <1>0 DEF Row
  <2>2. next \in Times \cup {None} /\ (next # None => next > clock)
    BY <1>0, <2>1, FirstIsLater
  <2>3. next # None => next \in Nat
    BY <2>2 DEF Times
  <2>4. UNCHANGED <<clock, runs, stale>> /\ task'.revision = 1 /\ task'.next = next
           /\ task.revision = 0
    BY <1>0, <1>1 DEF Create, Born
  <2> HIDE DEF next
  <2>5. Rewrites /\ RunsKept
    BY <2>2, <2>3, <2>4 DEF Rewrites, RunsKept
  <2> QED BY <1>0, <2>4, <2>5
<1>2. ASSUME NEW c \in Claims, Materialize(c)
      PROVE  /\ UNCHANGED <<clock, stale>>
             /\ (RunsKept /\ (Stays \/ Stops)) \/ Answering
  BY <1>2, ClaimKinds
<1>3. ASSUME NEW k \in Calls, ToolCall(k)
      PROVE  /\ UNCHANGED clock
             /\ (stale => stale')
             /\ (RunsKept /\ (Stays \/ Rewrites)) \/ ByHand
  BY <1>3, CallKinds
<1>4. CASE CommitEnd
  <2>1. UNCHANGED <<clock, stale>>
    BY <1>4 DEF CommitEnd
  <2> QED BY <1>0, <1>4, <2>1, EndKeeps
<1>5. CASE Tick
  <2>1. UNCHANGED <<task, runs, stale>> /\ clock' = clock + 1
    BY <1>5 DEF Tick
  <2> QED BY <1>0, <2>1, UnchangedKeeps
<1>6. CASE UNCHANGED <<task, runs, stale, clock>>
  BY <1>0, <1>6, UnchangedKeeps
<1> QED BY <1>0, <1>1, <1>2, <1>3, <1>4, <1>5, <1>6
        DEF Next, Victim, Fail, BeginEnd, ProjectChanges, SessionInput, SessionMoves, vars

\* A drafted update is one that was, or reads the row as it is.
LEMMA DraftKinds ==
    ASSUME TimesAssumption, IInv, [Next]_vars, NEW k \in Calls, step'[k] = "drafted"
    PROVE  \/ step[k] = "drafted" /\ draft'[k] = draft[k]
           \/ /\ UNCHANGED <<task, runs, clock, stale>>
              /\ draft'[k].read = task /\ draft'[k].write \in Updated(task)
<1>0. TypeOK /\ (\A c \in Claims : c # k)
  BY DEF IInv, TimesAssumption
<1>1. ASSUME NEW c \in Claims, Materialize(c)
      PROVE  step[k] = "drafted" /\ draft'[k] = draft[k]
  <2>1. \E s \in {"idle", "looked", "picked", "clear", "done"} : Goto(c, s)
    BY <1>1 DEF Materialize, Look, Pick, Over, Postpone, Coalesce, Hold, Clear, Start
  <2>2. UNCHANGED draft
    BY <1>1 DEF Materialize, Look, Pick, Over, Postpone, Coalesce, Hold, Clear, Start
  <2> QED BY <1>0, <2>1, <2>2, GotoType
<1>2. ASSUME NEW l \in Calls, ToolCall(l)
      PROVE  \/ step[k] = "drafted" /\ draft'[k] = draft[k]
             \/ /\ UNCHANGED <<task, runs, clock, stale>>
                /\ draft'[k].read = task /\ draft'[k].write \in Updated(task)
  <2>1. CASE Begin(l) \/ Reuse(l) \/ CallClear(l) \/ StartNow(l) \/ Delete(l)
    <3>1. UNCHANGED draft /\
          \E s \in {"idle", "looked", "picked", "clear", "done"} : Goto(l, s)
      BY <2>1 DEF Begin, Reuse, CallClear, StartNow, Delete
    <3> QED BY <1>0, <3>1, GotoType
  <2>2. CASE Write(l)
    <3>1. Goto(l, "done") /\ \A j \in Calls : j # l => draft'[j] = draft[j]
      BY <1>0, <2>2 DEF Write, TypeOK
    <3> QED BY <1>0, <3>1, GotoType
  <2>3. CASE Draft(l)
    <3>1. PICK row \in Updated(task) :
             draft' = [draft EXCEPT ![l] = [read |-> task, write |-> row]]
      BY <2>3 DEF Draft
    <3>2. CASE k = l
      BY <1>0, <2>3, <3>1, <3>2 DEF TypeOK, Draft
    <3>3. CASE k # l
      BY <1>0, <2>3, <3>1, <3>3 DEF TypeOK, Draft, Goto
    <3> QED BY <3>2, <3>3
  <2> QED BY <1>2, <2>1, <2>2, <2>3 DEF ToolCall
<1>3. ASSUME NEW x \in Claims \cup Calls, Victim(x) \/ Fail(x)
      PROVE  step[k] = "drafted" /\ draft'[k] = draft[k]
  BY <1>0, <1>3 DEF Victim, Fail, RolledBack, Over, Goto, TypeOK
<1>4. CASE UNCHANGED <<step, draft>>
  BY <1>4
<1> QED BY <1>1, <1>2, <1>3, <1>4
        DEF Next, Create, BeginEnd, CommitEnd, Tick, ProjectChanges, SessionInput,
            SessionMoves, vars

\* Runs that stay reach as far as they did.
LEMMA KeptReach ==
    ASSUME RunsKept
    PROVE  \A i \in 1 .. Len(runs') :
              /\ i \in 1 .. Len(runs) /\ Reach(i)' = Reach(i)
              /\ Scheduled(i)' = Scheduled(i)
BY DEF RunsKept, Reach, Scheduled

\* A run by hand reaches nothing yet.
LEMMA ByHandReach ==
    ASSUME TypeOK, TimesAssumption, ByHand
    PROVE  /\ Len(runs') = Len(runs) + 1 /\ Unfinished = {}
           /\ \A i \in 1 .. Len(runs) : runs'[i] = runs[i] /\ Reach(i)' = Reach(i)
           /\ \A i \in 1 .. Len(runs') :
                 i \notin 1 .. Len(runs) =>
                     i = Len(runs') /\ ~Scheduled(i)' /\ Reach(i)' = 0
<1>1. PICK k \in Calls : Adds(<<"run_now", k>>, clock, None)
  BY DEF ByHand
<1>2. Len(runs) \in Nat
  BY DEF TypeOK
<1>3. \A i \in 1 .. Len(runs') : i \notin 1 .. Len(runs) => i = Len(runs) + 1
  BY <1>1, <1>2 DEF Adds
<1> QED BY <1>1, <1>2, <1>3 DEF Adds, Reach, Scheduled

LEMMA StepPast ==
    ASSUME TimesAssumption, IInv, Past, LastActive, [Next]_vars
    PROVE  Past'
<1>0. TypeOK /\ TypeOK' /\ clock \in Nat /\ None \notin Nat
  BY StepTypes DEF IInv, TypeOK, Times, TimesAssumption
<1>1. clock' \in Nat /\ clock <= clock'
  BY StepKinds
<1>2. ASSUME NEW i \in 1 .. Len(runs')
      PROVE  Reach(i)' <= clock'
  <2>0. \A l \in 1 .. Len(runs) : Reach(l) \in Nat /\ Reach(l) <= clock
    BY <1>0, ReachTypes DEF Past
  <2>1. CASE RunsKept
    BY <1>0, <1>1, <2>0, <2>1, KeptReach
  <2>2. CASE Answering
    <3>1. Reach(i)' = ReachOf(runs'[i])
      BY DEF Reach, ReachOf, Scheduled
    <3>2. CASE i = Len(runs')
      BY <1>0, <1>1, <2>2, <3>1, <3>2 DEF Answers, Answering
    <3>3. CASE i # Len(runs')
      <4>1. i \in 1 .. Len(runs) /\ ReachOf(runs'[i]) = ReachOf(runs[i])
        BY <2>2, <3>3 DEF Answers, Answering
      <4> QED BY <1>0, <1>1, <2>0, <3>1, <4>1, ReachTypes
    <3> QED BY <3>2, <3>3
  <2>3. CASE ByHand
    BY <1>0, <1>1, <2>0, <2>3, ByHandReach
  <2> QED BY <2>1, <2>2, <2>3, StepKinds
<1> QED BY <1>2 DEF Past

LEMMA StepLastActive ==
    ASSUME TimesAssumption, IInv, Past, LastActive, [Next]_vars
    PROVE  LastActive'
<1>0. TypeOK /\ Len(runs) \in Nat
  BY DEF IInv, TypeOK
<1>1. CASE RunsKept
  BY <1>1 DEF RunsKept, LastActive
<1>2. CASE Answering
  <2> PICK c \in Claims : Answers(c)
    BY <1>2 DEF Answering
  <2> SUFFICES ASSUME NEW i \in 1 .. Len(runs'), runs'[i].active, i # Len(runs')
               PROVE  FALSE
    BY DEF LastActive
  <2>1. i \in 1 .. Len(runs) /\ runs[i].active
    BY DEF Answers
  <2>2. i = Len(runs) /\ Unfinished # {}
    BY <2>1 DEF LastActive, Unfinished
  <2>3. Len(runs') = Len(runs)
    <3>1. Len(runs') \in 1 .. Len(runs')
      BY DEF Answers
    <3>2. Len(runs') \in 1 .. Len(runs)
      BY <2>2, <3>1 DEF Answers
    <3> QED BY <1>0, <3>2 DEF Answers
  <2> QED BY <2>2, <2>3
<1>3. CASE ByHand
  BY <1>0, <1>3, ByHandReach DEF LastActive, Unfinished
<1> QED BY <1>1, <1>2, <1>3, StepKinds

\* What the answering step leaves ahead is not answered.
LEMMA AnswersAhead ==
    ASSUME TimesAssumption, IInv, Past, NEW c \in Claims, Answers(c)
    PROVE  LET read == seen[c].row IN
           /\ Looking(c) /\ task.next # None /\ task.next \in Nat
           /\ task.next <= seen[c].at /\ task.next <= clock /\ read.next \in Nat
           /\ task'.next # None =>
                 /\ task'.next \in Nat /\ task'.next > clock
                 /\ task'.next > task.next /\ task'.next >= read.next + Gap
           /\ task'.revision = task.revision /\ task'.schedule = task.schedule
           /\ \A t \in read.schedule :
                 (task'.next # None => t < task'.next) => t < clock + Gap
           /\ \A i \in 1 .. Len(runs') : Reach(i)' \in Nat /\ Reach(i)' <= clock
<1> DEFINE read == seen[c].row
           next == NextAfterOccurrence(read.schedule, read.next, clock)
<1>0. TypeOK /\ Held /\ Looked /\ Holds(c)
  BY DEF IInv, Answers
<1>1. /\ task \in Row /\ clock \in Times /\ clock \in Nat /\ task.next # None
      /\ task.next \in Nat /\ task.next <= clock
      /\ read \in Row /\ read.next # None /\ read.next \in Times
      /\ read.next \in Nat /\ read.next <= clock
  BY <1>0, HolderReads
<1>2. Looking(c) /\ task.next <= seen[c].at
  BY <1>0 DEF Looked, Looking, SeenOK, Holds
<1>3. read.schedule \in Schedules /\ task' = Advance(task, read, clock)
  BY <1>1 DEF Row, Answers
<1>4. ASSUME NEW t \in read.schedule, next # None => t < next
      PROVE  t < clock + Gap
  BY <1>1, <1>3, <1>4, NoneBetween
<1>5. /\ task'.next = next /\ task'.revision = task.revision
      /\ task'.schedule = task.schedule
      /\ task'.next # None =>
            task'.next \in Nat /\ task'.next > clock /\ task'.next >= read.next + Gap
  BY <1>1, <1>3, AdvanceMoves
<1>6. task'.next # None => task'.next > task.next
  BY <1>1, <1>5
<1>7. ASSUME NEW i \in 1 .. Len(runs')
      PROVE  Reach(i)' \in Nat /\ Reach(i)' <= clock
  <2>1. Reach(i)' = ReachOf(runs'[i])
    BY DEF Reach, ReachOf, Scheduled
  <2>2. i = Len(runs') \/ (i \in 1 .. Len(runs) /\ ReachOf(runs'[i]) = ReachOf(runs[i]))
    BY DEF Answers
  <2>3. CASE i = Len(runs')
    BY <1>1, <2>1, <2>3 DEF Answers
  <2>4. CASE i \in 1 .. Len(runs) /\ ReachOf(runs'[i]) = ReachOf(runs[i])
    BY <1>0, <1>1, <2>1, <2>4, ReachTypes DEF Past
  <2> QED BY <2>2, <2>3, <2>4
<1> HIDE DEF next
<1> QED BY <1>1, <1>2, <1>4, <1>5, <1>6, <1>7

\* No run has a key of a revision to come.
LEMMA NoLaterKey ==
    ASSUME IInv
    PROVE  \A i \in 1 .. Len(runs) :
              Scheduled(i) => runs[i].key[2] \in Nat /\ runs[i].key[2] <= task.revision
<1>1. TypeOK /\ KeysOrdered
  BY DEF IInv
<1> QED BY <1>1, KeyTypes DEF KeysOrdered, KeyOrdered, Scheduled

LEMMA StepAhead ==
    ASSUME TimesAssumption, IInv, Past, LastActive, Ahead, DraftsAhead, [Next]_vars
    PROVE  Ahead'
<1>0. /\ TypeOK /\ clock \in Nat /\ None \notin Nat /\ task.revision \in Nat /\ Gap \in Nat
      /\ task.next # None => task.next \in Nat
  BY DEF IInv, TypeOK, Times, TimesAssumption, Row
<1> SUFFICES ASSUME ~stale', task'.next # None
             PROVE  /\ task'.next > 0
                    /\ \A i \in 1 .. Len(runs') :
                          /\ Reach(i)' < task'.next
                          /\ Scheduled(i)' /\ runs'[i].key[2] = task'.revision =>
                                runs'[i].for + Gap <= task'.next
  BY DEF Ahead, Beyond
<1>1. ~stale
  BY StepKinds
<1>2. \A i \in 1 .. Len(runs) :
         /\ Reach(i) \in Nat /\ Reach(i) <= clock /\ runs[i].for \in Nat
         /\ Scheduled(i) => runs[i].key[2] \in Nat /\ runs[i].key[2] <= task.revision
  BY <1>0, ReachTypes, NoLaterKey DEF Past
<1>3. task.next # None =>
         /\ task.next > 0
         /\ \A i \in 1 .. Len(runs) :
               /\ Reach(i) < task.next
               /\ Scheduled(i) /\ runs[i].key[2] = task.revision =>
                     runs[i].for + Gap <= task.next
  BY <1>1 DEF Ahead, Beyond
<1>4. CASE RunsKept /\ (Stays \/ Stops \/ Rewrites)
  <2>0. \A i \in 1 .. Len(runs') :
           /\ i \in 1 .. Len(runs) /\ Reach(i)' = Reach(i) /\ Scheduled(i)' = Scheduled(i)
           /\ runs'[i].key = runs[i].key /\ runs'[i].for = runs[i].for
    BY <1>4, KeptReach DEF RunsKept
  <2>1. CASE Stays
    BY <1>3, <2>0, <2>1 DEF Stays
  <2>2. CASE Stops
    BY <2>2 DEF Stops
  <2>3. CASE Rewrites
    <3>1. \A i \in 1 .. Len(runs') : Scheduled(i)' => runs'[i].key[2] # task'.revision
      <4>1. task'.revision = task.revision + 1
        BY <2>3 DEF Rewrites
      <4>2. ASSUME NEW i \in 1 .. Len(runs'), Scheduled(i)'
            PROVE  runs'[i].key[2] \in Nat /\ runs'[i].key[2] <= task.revision
        BY <1>2, <2>0, <4>2
      <4> QED BY <1>0, <4>1, <4>2
    <3>2. CASE task'.next \in Nat /\ task'.next > clock
      BY <1>0, <1>2, <2>0, <3>1, <3>2
    <3>3. ASSUME NEW k \in Calls, step[k] = "drafted", draft[k].read = task,
                 task'.next = draft[k].write.next
          PROVE  task'.next > 0 /\ \A i \in 1 .. Len(runs) : Reach(i) < task'.next
      BY <1>1, <3>3 DEF DraftsAhead, Beyond
    <3> QED BY <2>0, <2>3, <3>1, <3>2, <3>3 DEF Rewrites
  <2> QED BY <1>4, <2>1, <2>2, <2>3
<1>5. CASE Answering
  <2> PICK c \in Claims : Answers(c)
    BY <1>5 DEF Answering
  <2>1. /\ task.next # None /\ task.next \in Nat /\ task'.next \in Nat
        /\ task'.next > clock /\ task'.next > task.next
        /\ task'.next >= seen[c].row.next + Gap
        /\ task'.revision = task.revision
        /\ \A i \in 1 .. Len(runs') : Reach(i)' \in Nat /\ Reach(i)' <= clock
    BY AnswersAhead
  <2>2. ASSUME NEW i \in 1 .. Len(runs'), Scheduled(i)', runs'[i].key[2] = task'.revision
        PROVE  runs'[i].for + Gap <= task'.next
    <3>1. CASE /\ i \in 1 .. Len(runs)
               /\ runs'[i].key = runs[i].key /\ runs'[i].for = runs[i].for
      <4>1. Scheduled(i) /\ runs[i].key[2] = task.revision /\ runs[i].for \in Nat
        BY <1>2, <2>1, <2>2, <3>1 DEF Scheduled
      <4>2. runs[i].for + Gap <= task.next
        BY <1>3, <2>1, <3>1, <4>1
      <4> QED BY <1>0, <2>1, <3>1, <4>1, <4>2
    <3>2. CASE runs'[i].for = seen[c].row.next
      BY <2>1, <3>2
    <3> QED BY <3>1, <3>2 DEF Answers
  <2> QED BY <1>0, <2>1, <2>2
<1>6. CASE ByHand
  <2>1. UNCHANGED task
    BY <1>6 DEF ByHand
  <2>2. \A i \in 1 .. Len(runs') :
           \/ /\ i \in 1 .. Len(runs) /\ runs'[i] = runs[i] /\ Reach(i)' = Reach(i)
              /\ Scheduled(i)' = Scheduled(i)
           \/ ~Scheduled(i)' /\ Reach(i)' = 0
    BY <1>0, <1>6, ByHandReach DEF Scheduled
  <2> QED BY <1>0, <1>3, <2>1, <2>2
<1> QED BY <1>4, <1>5, <1>6, StepKinds

\* The occurrence an update may write: the one it read, none, or one to come.
LEMMA UpdatedNext ==
    ASSUME TimesAssumption, TypeOK, NEW row \in Updated(task)
    PROVE  \/ row.next = task.next \/ row.next = None
           \/ row.next \in Nat /\ row.next > clock
<1>0. task \in Row /\ clock \in Times /\ Times \subseteq Nat
  BY DEF TypeOK, Times, TimesAssumption
<1>1. \A s \in Schedules :
         FirstAfter(s, clock) # None =>
             FirstAfter(s, clock) \in Nat /\ FirstAfter(s, clock) > clock
  BY <1>0, FirstIsLater
<1>2. \/ row.next = task.next \/ row.next = None
      \/ \E s \in Schedules : row.next = FirstAfter(s, clock)
  BY <1>0 DEF Updated, Row
<1> QED BY <1>1, <1>2

\* What an update may write is not answered, if what it read is not.
LEMMA UpdatedAhead ==
    ASSUME TimesAssumption, TypeOK, Past, Beyond(task.next), NEW row \in Updated(task)
    PROVE  Beyond(row.next)
<1>0. /\ task \in Row /\ clock \in Times /\ clock \in Nat
      /\ \A i \in 1 .. Len(runs) : Reach(i) \in Nat /\ Reach(i) <= clock
  BY ReachTypes DEF TypeOK, Times, TimesAssumption, Past
<1>1. CASE row.next = task.next \/ row.next = None
  BY <1>1 DEF Beyond
<1>2. CASE row.next \in Nat /\ row.next > clock
  BY <1>0, <1>2 DEF Beyond
<1> QED BY <1>1, <1>2, UpdatedNext

LEMMA StepDraftsBehind ==
    ASSUME TimesAssumption, IInv, Past, LastActive, DraftsBehind, [Next]_vars
    PROVE  DraftsBehind'
<1>0. /\ TypeOK /\ TypeOK' /\ task \in Row /\ task.revision \in Nat /\ None \notin Nat
      /\ task.next # None => task.next \in Nat
  <2>1. TypeOK /\ task \in Row
    BY DEF IInv, TypeOK
  <2>2. TypeOK'
    BY StepTypes
  <2> QED BY <2>1, <2>2 DEF Times, TimesAssumption, Row
<1> SUFFICES ASSUME NEW k \in Calls, step'[k] = "drafted"
             PROVE  /\ draft'[k].read.revision <= task'.revision
                    /\ draft'[k].read.revision = task'.revision /\ task'.next # None =>
                          /\ draft'[k].read.next # None
                          /\ draft'[k].read.next <= task'.next
  BY DEF DraftsBehind
<1>1. CASE UNCHANGED task /\ draft'[k].read = task
  BY <1>0, <1>1
<1>2. CASE step[k] = "drafted" /\ draft'[k] = draft[k]
  <2> DEFINE read == draft[k].read
  <2>0. /\ read \in Row /\ read.revision <= task.revision
        /\ read.revision = task.revision /\ task.next # None =>
              read.next # None /\ read.next <= task.next
    BY <1>0, <1>2 DEF TypeOK, DraftsBehind
  <2>1. read.revision \in Nat /\ (read.next # None => read.next \in Nat)
    BY <2>0 DEF Row, Times
  <2> HIDE DEF read
  <2>2. CASE task'.revision = task.revision /\ task'.next \in {task.next, None}
    BY <1>2, <2>0, <2>2 DEF read
  <2>3. CASE task'.revision = task.revision + 1
    BY <1>0, <1>2, <2>0, <2>1, <2>3 DEF read
  <2>4. CASE Answering
    <3>1. PICK c \in Claims : Answers(c)
      BY <2>4 DEF Answering
    <3>2. /\ task.next # None /\ task.next \in Nat
          /\ task'.next # None => task'.next \in Nat /\ task'.next > task.next
          /\ task'.revision = task.revision
      BY <3>1, AnswersAhead
    <3> QED BY <1>2, <2>0, <2>1, <3>2 DEF read
  <2> QED BY <2>2, <2>3, <2>4, StepKinds DEF Stays, Stops, Rewrites, ByHand
<1> QED BY <1>1, <1>2, DraftKinds

LEMMA StepDraftsAhead ==
    ASSUME TimesAssumption, IInv, Past, LastActive, Ahead, DraftsAhead, DraftsBehind,
           [Next]_vars
    PROVE  DraftsAhead'
<1>0. /\ TypeOK /\ TypeOK' /\ task \in Row /\ task.revision \in Nat /\ None \notin Nat
      /\ task.next # None => task.next \in Nat
  <2>1. TypeOK /\ task \in Row
    BY DEF IInv, TypeOK
  <2>2. TypeOK'
    BY StepTypes
  <2> QED BY <2>1, <2>2 DEF Times, TimesAssumption, Row
<1> SUFFICES ASSUME NEW k \in Calls, step'[k] = "drafted", ~stale',
                    draft'[k].read.revision = task'.revision,
                    draft'[k].read.next = task'.next,
                    draft'[k].write.next # None
             PROVE  /\ draft'[k].write.next > 0
                    /\ \A i \in 1 .. Len(runs') : Reach(i)' < draft'[k].write.next
  BY DEF DraftsAhead, Beyond
<1>1. ~stale
  BY StepKinds
<1>2. CASE /\ UNCHANGED <<task, runs, clock, stale>>
           /\ draft'[k].read = task /\ draft'[k].write \in Updated(task)
  <2>1. Beyond(task.next)
    BY <1>1 DEF Ahead
  <2>2. Beyond(draft'[k].write.next)
    BY <1>0, <1>2, <2>1, UpdatedAhead
  <2>3. \A i \in 1 .. Len(runs) : Reach(i)' = Reach(i)
    BY <1>2 DEF Reach, Scheduled
  <2> QED BY <1>2, <2>2, <2>3 DEF Beyond
<1>3. CASE step[k] = "drafted" /\ draft'[k] = draft[k]
  <2> DEFINE read  == draft[k].read
             write == draft[k].write
  <2>0. /\ read \in Row /\ write \in Row /\ read.revision <= task.revision
        /\ read.revision = task.revision /\ task.next # None =>
              read.next # None /\ read.next <= task.next
        /\ read.revision = task'.revision /\ read.next = task'.next
        /\ draft'[k].write = write
    BY <1>0, <1>3 DEF TypeOK, DraftsBehind
  <2>1. read.revision \in Nat /\ (read.next # None => read.next \in Nat)
    BY <2>0 DEF Row, Times
  <2>2. read.next = task.next /\ read.revision = task.revision /\ write.next # None =>
           write.next > 0 /\ \A i \in 1 .. Len(runs) : Reach(i) < write.next
    BY <1>1, <1>3 DEF DraftsAhead, Beyond
  <2>3. write.next # None /\ write.next = draft'[k].write.next
    BY <1>3
  <2> HIDE DEF read, write
  <2>4. CASE RunsKept /\ Stays
    BY <2>0, <2>2, <2>3, <2>4, KeptReach DEF Stays
  <2>5. CASE Stops
    BY <2>0, <2>5 DEF Stops
  <2>6. CASE Rewrites
    BY <1>0, <2>0, <2>1, <2>6 DEF Rewrites
  <2>7. CASE Answering
    <3>1. PICK c \in Claims : Answers(c)
      BY <2>7 DEF Answering
    <3>2. /\ task.next # None /\ task.next \in Nat
          /\ task'.next # None => task'.next \in Nat /\ task'.next > task.next
          /\ task'.revision = task.revision
      BY <3>1, AnswersAhead
    <3> QED BY <2>0, <2>1, <3>2
  <2>8. CASE ByHand
    <3>1. UNCHANGED task
      BY <2>8 DEF ByHand
    <3>2. write.next > 0 /\ \A i \in 1 .. Len(runs) : Reach(i) < write.next
      BY <2>0, <2>2, <2>3, <3>1
    <3> QED BY <1>0, <2>3, <2>8, <3>2, ByHandReach
  <2> QED BY <2>4, <2>5, <2>6, <2>7, <2>8, StepKinds
<1> QED BY <1>2, <1>3, DraftKinds

LEMMA StepNoneSkipped ==
    ASSUME TimesAssumption, IInv, Past, LastActive, SeenMatches, NoneSkipped, [Next]_vars
    PROVE  NoneSkipped'
<1>0. /\ TypeOK /\ clock \in Nat /\ task.revision \in Nat /\ None \notin Nat /\ Gap \in Nat
      /\ Len(runs) \in Nat
  BY DEF IInv, TypeOK, Times, TimesAssumption, Row
<1> SUFFICES ASSUME task'.status \in {"active", "completed"},
                    NEW i \in 1 .. Len(runs'), Scheduled(i)',
                    runs'[i].key[2] = task'.revision,
                    NEW t \in task'.schedule, t > runs'[i].for,
                    task'.next # None => t < task'.next
             PROVE  \E l \in 1 .. Len(runs') : t < Reach(l)' + Gap
  BY DEF NoneSkipped
<1>1. CASE Answering
  <2> PICK c \in Claims : Answers(c)
    BY <1>1 DEF Answering
  <2>1. /\ Looking(c) /\ task.next # None /\ task.next <= seen[c].at
        /\ task'.schedule = task.schedule /\ task'.revision = task.revision
        /\ \A u \in seen[c].row.schedule :
              (task'.next # None => u < task'.next) => u < clock + Gap
    BY AnswersAhead
  <2>2. /\ Len(runs') \in 1 .. Len(runs')
        /\ ReachOf(runs'[Len(runs')]) = clock
    BY DEF Answers
  <2>3. t < clock + Gap
    <3>1. Matches(c)
      BY <2>1 DEF SeenMatches
    <3>2. CASE i \in 1 .. Len(runs) /\ runs'[i].key = runs[i].key
      <4>1. Scheduled(i) /\ runs[i].key[2] = task.revision
        BY <2>1, <3>2 DEF Scheduled
      <4>2. seen[c].row.schedule = task.schedule
        BY <3>1, <3>2, <4>1 DEF Matches
      <4> QED BY <2>1, <4>2
    <3>3. CASE runs'[i].key = DueKey(c)
      <4>1. seen[c].row.revision = task.revision
        BY <2>1, <3>3 DEF DueKey
      <4>2. seen[c].row.schedule = task.schedule
        BY <1>0, <3>1, <4>1 DEF Matches
      <4> QED BY <2>1, <4>2
    <3> QED BY <3>2, <3>3 DEF Answers
  <2>4. PICK l \in 1 .. Len(runs') : ReachOf(runs'[l]) = clock
    BY <2>2
  <2>5. Reach(l)' = clock
    BY <2>4 DEF Reach, ReachOf, Scheduled
  <2> QED BY <2>3, <2>5
<1>2. CASE RunsKept /\ Stays
  <2>1. /\ i \in 1 .. Len(runs) /\ Scheduled(i) /\ runs[i].key[2] = task.revision
        /\ t \in task.schedule /\ t > runs[i].for /\ (task.next # None => t < task.next)
        /\ task.status \in {"active", "completed"}
    BY <1>2, KeptReach DEF RunsKept, Stays
  <2>2. PICK l \in 1 .. Len(runs) : t < Reach(l) + Gap
    BY <2>1 DEF NoneSkipped
  <2>3. l \in 1 .. Len(runs')
    BY <1>2 DEF RunsKept
  <2> QED BY <1>2, <2>2, <2>3, KeptReach
<1>3. CASE Stops
  BY <1>3 DEF Stops
<1>4. CASE RunsKept /\ Rewrites
  <2>1. i \in 1 .. Len(runs) /\ Scheduled(i) /\ runs[i].key[2] = task.revision + 1
    BY <1>4, KeptReach DEF RunsKept, Rewrites
  <2>2. runs[i].key[2] \in Nat /\ runs[i].key[2] <= task.revision
    BY <2>1, NoLaterKey
  <2> QED BY <1>0, <2>1, <2>2
<1>5. CASE ByHand
  <2>1. /\ i \in 1 .. Len(runs) /\ runs'[i] = runs[i] /\ UNCHANGED task
    BY <1>0, <1>5, ByHandReach DEF ByHand
  <2>2. Scheduled(i)
    BY <2>1 DEF Scheduled
  <2>3. PICK l \in 1 .. Len(runs) : t < Reach(l) + Gap
    BY <2>1, <2>2 DEF NoneSkipped
  <2>4. l \in 1 .. Len(runs') /\ Reach(l)' = Reach(l)
    BY <1>0, <1>5, ByHandReach
  <2> QED BY <2>3, <2>4
<1> QED BY <1>1, <1>2, <1>3, <1>4, <1>5, StepKinds

LEMMA StepNoneTwice ==
    ASSUME TimesAssumption, IInv, Past, LastActive, SeenMatches, ~stale => NoneTwice,
           [Next]_vars
    PROVE  ~stale' => NoneTwice'
<1>0. TypeOK /\ Len(runs) \in Nat /\ None \notin Nat
  BY DEF IInv, TypeOK, TimesAssumption
<1> SUFFICES ASSUME ~stale', NEW i \in 1 .. Len(runs'), NEW j \in 1 .. Len(runs'),
                    i < j, Scheduled(j)'
             PROVE  /\ runs'[j].for > Reach(i)'
                    /\ Scheduled(i)' /\ runs'[i].key[2] = runs'[j].key[2] =>
                          runs'[j].for >= runs'[i].for + Gap
  BY DEF NoneTwice
<1>1. ~stale /\ NoneTwice
  BY StepKinds
<1>2. CASE /\ j \in 1 .. Len(runs) /\ i \in 1 .. Len(runs) /\ Reach(i)' = Reach(i)
           /\ runs'[i].key = runs[i].key /\ runs'[i].for = runs[i].for
           /\ runs'[j].key = runs[j].key /\ runs'[j].for = runs[j].for
  <2>1. Scheduled(j) /\ (Scheduled(i)' = Scheduled(i))
    BY <1>2 DEF Scheduled
  <2> QED BY <1>1, <1>2, <2>1 DEF NoneTwice
<1>3. CASE RunsKept
  BY <1>2, <1>3, KeptReach DEF RunsKept
<1>4. CASE ByHand
  <2>1. j \in 1 .. Len(runs)
    BY <1>0, <1>4, ByHandReach
  <2>2. i \in 1 .. Len(runs)
    BY <1>0, <2>1
  <2> QED BY <1>0, <1>2, <1>4, <2>1, <2>2, ByHandReach
<1>5. CASE Answering
  <2> PICK c \in Claims : Answers(c)
    BY <1>5 DEF Answering
  <2>1. i # Len(runs') /\ i \in 1 .. Len(runs)
    <3>1. i # Len(runs')
      BY DEF Answers
    <3> QED BY <3>1 DEF Answers
  <2>2. /\ runs'[i].key = runs[i].key /\ runs'[i].for = runs[i].for
        /\ ReachOf(runs'[i]) = ReachOf(runs[i])
    BY <2>1 DEF Answers
  <2>3. Reach(i)' = Reach(i) /\ (Scheduled(i)' = Scheduled(i))
    BY <2>2 DEF Reach, ReachOf, Scheduled
  <2>4. CASE /\ j \in 1 .. Len(runs)
             /\ runs'[j].key = runs[j].key /\ runs'[j].for = runs[j].for
    BY <1>2, <2>1, <2>2, <2>3, <2>4
  <2>5. CASE runs'[j].key = DueKey(c) /\ runs'[j].for = seen[c].row.next
    <3>1. Unanswered(c)
      BY <1>1, AnswersAhead DEF SeenMatches
    <3>2. seen[c].row.next # None /\ runs'[j].key[2] = seen[c].row.revision
      <4>1. Looking(c) /\ Looked
        BY AnswersAhead DEF IInv
      <4> QED BY <2>5, <4>1 DEF Looked, SeenOK, DueKey
    <3>3. /\ Reach(i) < seen[c].row.next
          /\ Scheduled(i) /\ runs[i].key[2] = seen[c].row.revision =>
                runs[i].for + Gap <= seen[c].row.next
      BY <2>1, <3>1, <3>2 DEF Unanswered, Beyond
    <3>4. seen[c].row.next \in Nat /\ runs[i].for \in Nat /\ Gap \in Nat
      BY <1>0, <2>1, AnswersAhead, ReachTypes DEF TimesAssumption
    <3> QED BY <2>2, <2>3, <2>5, <3>2, <3>3, <3>4
  <2> QED BY <2>4, <2>5 DEF Answers
<1> QED BY <1>3, <1>4, <1>5, StepKinds

LEMMA StepKeysFor ==
    ASSUME TimesAssumption, IInv, LastActive, KeysFor, [Next]_vars
    PROVE  KeysFor'
<1>0. TypeOK
  BY DEF IInv
<1> SUFFICES ASSUME NEW i \in 1 .. Len(runs'), Scheduled(i)'
             PROVE  runs'[i].key[3] = runs'[i].for
  BY DEF KeysFor
<1>1. CASE /\ i \in 1 .. Len(runs)
           /\ runs'[i].key = runs[i].key /\ runs'[i].for = runs[i].for
  <2>1. Scheduled(i)
    BY <1>1 DEF Scheduled
  <2> QED BY <1>1, <2>1 DEF KeysFor
<1>2. CASE RunsKept
  BY <1>1, <1>2 DEF RunsKept
<1>3. CASE Answering
  <2> PICK c \in Claims : Answers(c)
    BY <1>3 DEF Answering
  <2>1. CASE runs'[i].key = DueKey(c) /\ runs'[i].for = seen[c].row.next
    BY <2>1 DEF DueKey
  <2> QED BY <1>1, <2>1 DEF Answers
<1>4. CASE ByHand
  <2>1. i \in 1 .. Len(runs) /\ runs'[i] = runs[i]
    BY <1>0, <1>4, ByHandReach
  <2> QED BY <1>1, <2>1
<1> QED BY <1>2, <1>3, <1>4, StepKinds

\* What a claim has read stays unanswered until a claim answers.
LEMMA UnansweredKept ==
    ASSUME TimesAssumption, IInv, RunsKept \/ ByHand, NEW c \in Claims, Looking(c),
           seen'[c] = seen[c], Unanswered(c)
    PROVE  Unanswered(c)'
<1> DEFINE read == seen[c].row
<1>1. read.next # None /\ TypeOK
  BY DEF IInv, Looked, SeenOK
<1>2. /\ read.next > 0
      /\ \A i \in 1 .. Len(runs) :
            /\ Reach(i) < read.next
            /\ Scheduled(i) /\ runs[i].key[2] = read.revision =>
                  runs[i].for + Gap <= read.next
  BY <1>1 DEF Unanswered, Beyond
<1>3. seen'[c].row = read
  OBVIOUS
<1> HIDE DEF read
<1>4. ASSUME NEW i \in 1 .. Len(runs')
      PROVE  /\ Reach(i)' < read.next
             /\ Scheduled(i)' /\ runs'[i].key[2] = read.revision =>
                   runs'[i].for + Gap <= read.next
  <2>1. CASE RunsKept
    BY <1>2, <2>1, KeptReach DEF RunsKept
  <2>2. CASE ByHand
    <3>1. CASE i \in 1 .. Len(runs)
      <4>1. runs'[i] = runs[i] /\ Reach(i)' = Reach(i)
        BY <1>1, <2>2, <3>1, ByHandReach
      <4>2. Scheduled(i)' = Scheduled(i)
        BY <4>1 DEF Scheduled
      <4> QED BY <1>2, <3>1, <4>1, <4>2
    <3>2. CASE i \notin 1 .. Len(runs)
      BY <1>1, <1>2, <2>2, <3>2, ByHandReach
    <3> QED BY <3>1, <3>2
  <2> QED BY <2>1, <2>2
<1> QED BY <1>2, <1>3, <1>4 DEF Unanswered, Beyond

\* A claim that has just read the row goes by one that is not answered.
LEMMA NewlySeen ==
    ASSUME Ahead, ~stale, NEW c \in Claims, UNCHANGED <<task, runs>>, Due,
           seen'[c] = [row |-> task, at |-> clock]
    PROVE  Unanswered(c)'
<1>1. task.next # None /\ seen'[c].row = task
  BY DEF Due, DueAt
<1>2. /\ task.next > 0
      /\ \A i \in 1 .. Len(runs) :
            /\ Reach(i) < task.next
            /\ Scheduled(i) /\ runs[i].key[2] = task.revision =>
                  runs[i].for + Gap <= task.next
  BY <1>1 DEF Ahead, Beyond
<1>3. \A i \in 1 .. Len(runs) : Reach(i)' = Reach(i) /\ Scheduled(i)' = Scheduled(i)
  BY DEF Reach, Scheduled
<1> QED BY <1>1, <1>2, <1>3 DEF Unanswered, Beyond

LEMMA StepSeenMatches ==
    ASSUME TimesAssumption, IInv, Past, LastActive, Ahead, SeenMatches, DraftsMatch,
           [Next]_vars
    PROVE  SeenMatches'
<1>0. TypeOK /\ task \in Row /\ task.revision \in Nat /\ clock \in Nat /\ None \notin Nat
  BY DEF IInv, TypeOK, Row, Times, TimesAssumption
<1> SUFFICES ASSUME NEW c \in Claims, Looking(c)', task'.next # None,
                    task'.next <= seen'[c].at
             PROVE  Matches(c)' /\ (~stale' => Unanswered(c)')
  BY DEF SeenMatches
<1>1. stale => stale'
  BY StepKinds
<1>2. CASE /\ UNCHANGED <<task, runs, clock, stale>> /\ Due
           /\ seen'[c] = [row |-> task, at |-> clock]
  <2>1. seen'[c].row = task
    BY <1>2
  <2>2. Matches(c)'
    BY <1>2, <2>1 DEF Matches
  <2> QED BY <1>2, <2>2, NewlySeen
<1>3. CASE Looking(c) /\ seen'[c] = seen[c]
  <2> DEFINE read == seen[c].row
             at   == seen[c].at
  <2>1. /\ read.revision \in Nat /\ read.revision <= task.revision
        /\ at \in Nat /\ at <= clock
    <3>1. seen[c] \in [row : Row, at : Times]
      BY <1>0, <1>3 DEF TypeOK, Looking
    <3>2. read \in Row /\ at \in Nat
      BY <3>1 DEF Times, TimesAssumption
    <3> QED BY <1>3, <3>2 DEF IInv, Looked, SeenOK, Row
  <2>2. seen'[c].row = read /\ seen'[c].at = at
    BY <1>3
  <2>3. Looking(c) /\ task.next # None /\ task.next <= at =>
           Matches(c) /\ (~stale => Unanswered(c))
    BY DEF SeenMatches
  <2> HIDE DEF at
  <2>4. CASE RunsKept /\ Stays
    <3>1. /\ task'.next = task.next /\ task'.revision = task.revision
          /\ task'.schedule = task.schedule /\ stale' = stale
      BY <2>4 DEF Stays
    <3>2. Matches(c) /\ (~stale => Unanswered(c))
      BY <1>3, <2>2, <2>3, <3>1
    <3>3. \A i \in 1 .. Len(runs') :
             /\ i \in 1 .. Len(runs) /\ runs'[i].key = runs[i].key
             /\ Scheduled(i)' = Scheduled(i)
      BY <2>4, KeptReach DEF RunsKept
    <3>4. Matches(c)'
      BY <2>2, <3>1, <3>2, <3>3 DEF Matches, read
    <3> QED BY <1>3, <2>4, <3>1, <3>2, <3>4, UnansweredKept
  <2>5. CASE Stops
    BY <2>5 DEF Stops
  <2>6. CASE RunsKept /\ Rewrites
    <3>1. task'.revision = task.revision + 1
      BY <2>6 DEF Rewrites
    <3>2. \A i \in 1 .. Len(runs') : Scheduled(i)' => runs'[i].key[2] # task'.revision
      <4>1. ASSUME NEW i \in 1 .. Len(runs'), Scheduled(i)'
            PROVE  runs'[i].key[2] \in Nat /\ runs'[i].key[2] <= task.revision
        BY <2>6, <4>1, KeptReach, NoLaterKey DEF RunsKept
      <4> QED BY <1>0, <3>1, <4>1
    <3>3. Matches(c)'
      BY <1>0, <2>1, <2>2, <3>1, <3>2 DEF Matches, read
    <3>4. ASSUME ~stale'
          PROVE  Unanswered(c)'
      <4>1. PICK k \in Calls : /\ step[k] = "drafted" /\ draft[k].read = task
                               /\ task'.next = draft[k].write.next
        <5>1. CASE task'.next \in Nat /\ task'.next > clock
          BY <1>0, <2>1, <2>2, <5>1
        <5> QED BY <2>6, <3>4, <5>1 DEF Rewrites
      <4>2. Unanswered(c)
        BY <1>1, <1>3, <2>2, <3>4, <4>1 DEF DraftsMatch, at
      <4> QED BY <1>3, <2>6, <4>2, UnansweredKept
    <3> QED BY <3>3, <3>4
  <2>7. CASE Answering
    <3>1. PICK b \in Claims : Answers(b)
      BY <2>7 DEF Answering
    <3>2. task'.next \in Nat /\ task'.next > clock
      BY <3>1, AnswersAhead
    <3> QED BY <1>0, <2>1, <2>2, <3>2
  <2>8. CASE ByHand
    <3>1. UNCHANGED <<task, stale>>
      BY <2>8 DEF ByHand
    <3>2. Matches(c) /\ (~stale => Unanswered(c))
      BY <1>3, <2>2, <2>3, <3>1
    <3>3. \A i \in 1 .. Len(runs') :
             Scheduled(i)' => i \in 1 .. Len(runs) /\ Scheduled(i) /\ runs'[i] = runs[i]
      BY <1>0, <2>8, ByHandReach DEF Scheduled
    <3>4. Matches(c)'
      BY <2>2, <3>1, <3>2, <3>3 DEF Matches, read
    <3> QED BY <1>3, <2>8, <3>1, <3>2, <3>4, UnansweredKept
  <2> QED BY <2>4, <2>5, <2>6, <2>7, <2>8, StepKinds
<1> QED BY <1>2, <1>3, <1>0, SeenKinds

LEMMA StepDraftsMatch ==
    ASSUME TimesAssumption, IInv, Past, LastActive, Ahead, DraftsBehind, SeenMatches,
           DraftsMatch, [Next]_vars
    PROVE  DraftsMatch'
<1>0. /\ TypeOK /\ TypeOK' /\ task.revision \in Nat /\ clock \in Nat /\ None \notin Nat
      /\ task.next # None => task.next \in Nat
  <2>1. TypeOK /\ task \in Row
    BY DEF IInv, TypeOK
  <2>2. TypeOK' /\ clock \in Nat
    BY <2>1, StepTypes DEF TypeOK, Times, TimesAssumption
  <2> QED BY <2>1, <2>2 DEF Times, TimesAssumption, Row
<1> SUFFICES ASSUME NEW c \in Claims, NEW k \in Calls, Looking(c)',
                    step'[k] = "drafted", ~stale',
                    draft'[k].read.revision = task'.revision,
                    draft'[k].read.next = task'.next,
                    draft'[k].write.next # None,
                    draft'[k].write.next <= seen'[c].at
             PROVE  Unanswered(c)'
  BY DEF DraftsMatch
<1>1. ~stale
  BY StepKinds
<1>2. CASE /\ UNCHANGED <<task, runs, clock, stale>> /\ Due
           /\ seen'[c] = [row |-> task, at |-> clock]
  BY <1>1, <1>2, NewlySeen
<1>3. CASE Looking(c) /\ seen'[c] = seen[c]
  <2>1. seen[c].at \in Nat /\ seen[c].at <= clock
    <3>1. seen[c] \in [row : Row, at : Times]
      BY <1>0, <1>3 DEF TypeOK, Looking
    <3> QED BY <1>3, <3>1 DEF IInv, Looked, SeenOK, Times, TimesAssumption
  <2>2. CASE /\ UNCHANGED <<task, runs, clock, stale>>
             /\ draft'[k].write \in Updated(task)
    <3>1. draft'[k].write.next = task.next
      <4>1. ~(draft'[k].write.next \in Nat /\ draft'[k].write.next > clock)
        BY <1>0, <1>3, <2>1
      <4> QED BY <1>0, <2>2, <4>1, UpdatedNext
    <3>2. Unanswered(c)
      BY <1>1, <1>3, <3>1 DEF SeenMatches
    <3>3. RunsKept
      BY <2>2 DEF RunsKept
    <3> QED BY <1>3, <3>2, <3>3, UnansweredKept
  <2>3. CASE step[k] = "drafted" /\ draft'[k] = draft[k]
    <3> DEFINE read  == draft[k].read
               write == draft[k].write
    <3>1. /\ read \in Row /\ read.revision <= task.revision
          /\ read.revision = task.revision /\ task.next # None =>
                read.next # None /\ read.next <= task.next
          /\ read.revision = task'.revision /\ read.next = task'.next
      BY <1>0, <2>3 DEF TypeOK, DraftsBehind
    <3>2. read.revision \in Nat /\ (read.next # None => read.next \in Nat)
      BY <3>1 DEF Row, Times, TimesAssumption
    <3>3. read.next = task.next /\ read.revision = task.revision => Unanswered(c)
      BY <1>1, <1>3, <2>3 DEF DraftsMatch
    <3> HIDE DEF read, write
    <3>4. CASE RunsKept /\ Stays
      BY <1>3, <3>1, <3>3, <3>4, UnansweredKept DEF Stays
    <3>5. CASE Stops
      BY <3>1, <3>5 DEF Stops
    <3>6. CASE Rewrites
      BY <1>0, <3>1, <3>2, <3>6 DEF Rewrites
    <3>7. CASE Answering
      <4>1. PICK b \in Claims : Answers(b)
        BY <3>7 DEF Answering
      <4>2. /\ task.next # None /\ task.next \in Nat
            /\ task'.next # None => task'.next \in Nat /\ task'.next > task.next
            /\ task'.revision = task.revision
        BY <4>1, AnswersAhead
      <4> QED BY <3>1, <3>2, <4>2
    <3>8. CASE ByHand
      BY <1>3, <3>1, <3>3, <3>8, UnansweredKept DEF ByHand
    <3> QED BY <3>4, <3>5, <3>6, <3>7, <3>8, StepKinds
  <2> QED BY <2>2, <2>3, DraftKinds
<1> QED BY <1>0, <1>2, <1>3, SeenKinds

LEMMA OnceInvariance == Spec => []OnceInv
<1>1. ASSUME Init
      PROVE  OnceInv
  <2>1. /\ Len(runs) = 0 /\ task.next = None
        /\ \A x \in Claims \cup Calls : step[x] \in {"idle", "done"}
    BY <1>1 DEF Init
  <2> QED BY <2>1 DEF OnceInv, Past, KeysFor, LastActive, Ahead, Beyond, DraftsAhead,
                      DraftsBehind, SeenMatches, DraftsMatch, Looking, AnsweredOnce,
                      NoneTwice, NoneSkipped
<1>2. ASSUME IInv, OnceInv, [Next]_vars
      PROVE  OnceInv'
  <2>1. /\ Past /\ KeysFor /\ LastActive /\ Ahead /\ DraftsAhead /\ DraftsBehind
        /\ SeenMatches /\ DraftsMatch /\ NoneSkipped /\ (~stale => NoneTwice)
    BY <1>2 DEF OnceInv, AnsweredOnce
  <2>2. Past' /\ KeysFor' /\ LastActive'
    BY <1>2, <2>1, TimesAssumption, StepPast, StepKeysFor, StepLastActive
  <2>3. Ahead' /\ DraftsAhead' /\ DraftsBehind'
    BY <1>2, <2>1, TimesAssumption, StepAhead, StepDraftsAhead, StepDraftsBehind
  <2>4. SeenMatches' /\ DraftsMatch'
    BY <1>2, <2>1, TimesAssumption, StepSeenMatches, StepDraftsMatch
  <2>5. NoneSkipped' /\ (~stale' => NoneTwice')
    BY <1>2, <2>1, TimesAssumption, StepNoneSkipped, StepNoneTwice
  <2> QED BY <2>2, <2>3, <2>4, <2>5 DEF OnceInv, AnsweredOnce
<1> QED BY <1>1, <1>2, Invariance, PTL DEF Spec

\* Claims, calls, ending runs and crashes in any order answer each occurrence
\* once, and pass none over, for every schedule and any number of them.
THEOREM EachOnce == Spec => []AnsweredOnce
<1>1. OnceInv => AnsweredOnce
  BY DEF OnceInv
<1> QED BY <1>1, OnceInvariance, PTL

\* No call ever meets a unique index of the runs, and no claim does, unless it
\* goes by an older row after an update has overwritten one it had not read.
THEOREM InsertsAlwaysFit == Spec => []InsertsFit
<1>1. ASSUME IInv, OnceInv
      PROVE  InsertsFit
  <2>0. /\ TypeOK /\ Held /\ Looked /\ KeysOrdered /\ KeysOfCalls
        /\ KeysFor /\ SeenMatches
    BY <1>1 DEF IInv, OnceInv
  <2>1. ASSUME NEW c \in Claims, step[c] = "clear",
               stale => seen[c].row.revision = task.revision
        PROVE  Fits(DueKey(c))
    <3>0. Holds(c) /\ \A i \in 1 .. Len(runs) : ~runs[i].active
      BY <2>0, <2>1 DEF Held, Holds
    <3>1. /\ task.next # None /\ task.next \in Nat
          /\ seen[c].row.next \in Nat /\ seen[c].row.next # None
          /\ Looking(c) /\ task.next <= seen[c].at
      BY <2>0, <3>0, HolderReads, TimesAssumption DEF Looked, Looking, SeenOK, Holds
    <3>2. Matches(c) /\ (~stale => Unanswered(c))
      BY <2>0, <3>1 DEF SeenMatches
    <3>3. ASSUME NEW i \in 1 .. Len(runs), runs[i].key = DueKey(c)
          PROVE  FALSE
      <4>1. /\ Scheduled(i) /\ runs[i].key[2] = seen[c].row.revision
            /\ runs[i].key[3] = seen[c].row.next
        BY <3>3 DEF DueKey, Scheduled
      <4>2. CASE stale
        <5>1. seen[c].row.revision = task.revision /\ task.revision \in Nat
          BY <2>0, <2>1, <4>2 DEF TypeOK, Row
        <5>2. seen[c].row.next = task.next
          BY <3>2, <5>1 DEF Matches
        <5>3. KeyOrdered(runs[i].key, task.revision, task.next)
          BY <2>0 DEF KeysOrdered
        <5> QED BY <3>1, <4>1, <5>1, <5>2, <5>3 DEF KeyOrdered, Scheduled
      <4>3. CASE ~stale
        <5>1. runs[i].for + Gap <= seen[c].row.next
          BY <3>2, <4>1, <4>3 DEF Unanswered
        <5>2. runs[i].for = seen[c].row.next
          BY <2>0, <4>1 DEF KeysFor
        <5> QED BY <3>1, <5>1, <5>2, TimesAssumption DEF TimesAssumption
      <4> QED BY <4>2, <4>3
    <3> QED BY <3>0, <3>3 DEF Fits, Unfinished
  <2>2. ASSUME NEW k \in Calls, step[k] = "clear"
        PROVE  Fits(<<"run_now", k>>)
    <3>1. \A i \in 1 .. Len(runs) : ~runs[i].active
      BY <2>0, <2>2 DEF Held
    <3>2. \A i \in 1 .. Len(runs) : runs[i].key # <<"run_now", k>>
      BY <2>0, <2>2 DEF KeysOfCalls
    <3> QED BY <3>1, <3>2 DEF Fits, Unfinished
  <2> QED BY <2>1, <2>2 DEF InsertsFit
<1> QED BY <1>1, Invariance, OnceInvariance, PTL

=============================================================================
