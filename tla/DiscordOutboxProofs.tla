-------------------------- MODULE DiscordOutboxProofs --------------------------
(* Proofs about the outbox of DiscordOutbox, for every number of projections,
   messages and dispatchers, and for every answer Discord may give or lose.

   CompletedWasAccepted is not inductive: a row is completed by a dispatcher that
   holds a copy of the request it claimed, after changes of the row it has not
   seen.  The argument ties the copy to the row through the lease and the
   revision, and the row to what Discord accepted through its request in flight. *)
EXTENDS DiscordOutbox, TLAPS

\* The tables of Discord and of its answers.
Nonce == {None} \cup ((Projections \cup Messages) \X Nat)

RemoteOK ==
    /\ remote \in [Messages -> [state : {"absent", "shown", "deleted"}, version : Nat,
                                nonce : Nonce]]
    /\ accepted \in [Keys -> SUBSET Request]

\* The request in flight is the newest one until the revision says otherwise,
\* and what is being applied is a request that Discord accepted.
RowsOK ==
    \A k \in Keys : rows[k].status \in InFlight =>
        /\ rows[k].sent <= rows[k].revision
        /\ rows[k].sent = rows[k].revision => rows[k].request = rows[k].inflight
        /\ rows[k].status = "applying" => rows[k].inflight \in accepted[k]

\* A dispatcher that still has the lease of a delivery holds the request in
\* flight, and reports as delivered what Discord accepted.
HeldOK ==
    \A d \in Dispatchers : held[d] # None =>
        /\ Delivering(d) => rows[held[d].key].inflight = held[d].request
        /\ held[d].phase = "delivered" => held[d].request \in accepted[held[d].key]

\* The inductive invariant.
IInv ==
    /\ TypeOK
    /\ RemoteOK
    /\ RowsOK
    /\ HeldOK
    /\ CompletedWasAccepted

-----------------------------------------------------------------------------
(* The requests and rows that actions write are requests and rows. *)

\* What Control enqueues is a request.
LEMMA RequestTypes ==
    /\ \A v \in Nat : Create(v) \in Request
    /\ \A v \in Nat, m \in Messages : Update(v, m) \in Request
    /\ \A m \in Messages \cup {None} : Delete(m) \in Request
BY DEF Request, Create, Update, Delete

\* A new row holds its request and nothing in flight.
LEMMA NewRowType ==
    ASSUME NEW q \in Request
    PROVE  /\ NewRow(q) \in Row
           /\ NewRow(q).status = "pending" /\ NewRow(q).inflight = None
BY BoundsAssumption DEF NewRow, Row

\* Giving a delivery up empties its columns and keeps the rest.
LEMMA ReleasedType ==
    ASSUME NEW r \in Row
    PROVE  /\ Released(r) \in Row
           /\ Released(r).inflight = None
           /\ Released(r).status = r.status /\ Released(r).request = r.request
           /\ Released(r).revision = r.revision
BY DEF Released, Row

\* The columns of a row.
LEMMA RowColumns ==
    ASSUME NEW r \in Row
    PROVE  DOMAIN r = {"status", "request", "revision", "inflight", "sent", "attempts",
                       "response", "lease", "expired"}
BY DEF Row

\* A row under way takes a new request beside the one in flight.
LEMMA BusyRowType ==
    ASSUME NEW r \in Row, NEW q \in Request, NEW n \in Nat,
           NEW s, s = [r EXCEPT !.request = q, !.revision = n]
    PROVE  s \in Row
BY DEF Row

\* Any other row goes back to the queue.
LEMMA RequeuedType ==
    ASSUME NEW r \in Row, NEW q \in Request, NEW n \in Nat,
           NEW s, s = [r EXCEPT !.request = q, !.revision = n, !.status = "pending",
                                !.attempts = 0, !.response = None]
    PROVE  s \in Row
<1>1. PICK t : t = [r EXCEPT !.request = q, !.revision = n]
  OBVIOUS
<1>2. t \in Row
  BY <1>1, BusyRowType
<1>3. s = [t EXCEPT !.status = "pending", !.attempts = 0, !.response = None]
  BY <1>1, RowColumns
<1>4. 0 \in 0..MaxAttempts
  BY BoundsAssumption
<1> QED
  BY <1>2, <1>3, <1>4 DEF Row

\* The end of a delivery or application writes these columns of a released row.
LEMMA SettledType ==
    ASSUME NEW r \in Row,
           NEW status \in {"pending", "retrying", "completed", "failed"},
           NEW n \in 0..MaxAttempts, NEW m \in Messages \cup {None},
           NEW s, s = [r EXCEPT !.status = status, !.attempts = n, !.response = m]
    PROVE  s \in Row
BY DEF Row

\* Claiming a row puts its request in flight.
LEMMA ClaimedType ==
    ASSUME NEW r \in Row, NEW n \in 0..MaxAttempts, NEW d \in Dispatchers,
           NEW s, s = [r EXCEPT !.status = "sending", !.attempts = n, !.inflight = r.request,
                                !.sent = r.revision, !.response = None, !.lease = d,
                                !.expired = FALSE]
    PROVE  s \in Row
<1>1. PICK t : t = [r EXCEPT !.status = "sending", !.attempts = n, !.response = None]
  OBVIOUS
<1>2. t \in Row
  BY <1>1 DEF Row
<1>3. s = [t EXCEPT !.inflight = r.request, !.sent = r.revision, !.lease = d,
                    !.expired = FALSE]
  BY <1>1, RowColumns
<1>4. r.request \in Request /\ r.revision \in Nat
  BY DEF Row
<1> QED
  BY <1>2, <1>3, <1>4 DEF Row

\* A lease changes nothing that is sent.
LEMMA LeasedType ==
    ASSUME NEW r \in Row, NEW l \in Dispatchers \cup {None}, NEW e \in BOOLEAN,
           NEW s, s = [r EXCEPT !.lease = l, !.expired = e]
    PROVE  s \in Row
BY DEF Row

\* Nor does the way of a delivery to its application.
LEMMA ProgressType ==
    ASSUME NEW r \in Row, NEW status \in InFlight, NEW m \in Messages \cup {None},
           NEW s, s = [r EXCEPT !.status = status, !.response = m]
    PROVE  s \in Row
BY DEF Row, InFlight

\* A row replaced by a row.
LEMMA RowReplaced ==
    ASSUME NEW rs \in [Keys -> Row], NEW k, NEW r \in Row
    PROVE  /\ [rs EXCEPT ![k] = r] \in [Keys -> Row]
           /\ k \in Keys => [rs EXCEPT ![k] = r][k] = r
           /\ \A j \in Keys \ {k} : [rs EXCEPT ![k] = r][j] = rs[j]
BY Zenon

\* The delivery of a row under way is left alone.
LEMMA EnqueuedBusy ==
    ASSUME NEW rs \in [Keys -> Row], NEW k \in Keys, NEW q \in Request,
           rs[k].status \in InFlight
    PROVE  LET s == Enqueued(rs, k, q)[k] IN
           /\ s \in Row
           /\ s.status = rs[k].status /\ s.inflight = rs[k].inflight
           /\ s.sent = rs[k].sent /\ s.lease = rs[k].lease /\ s.response = rs[k].response
           /\ s.request = q
           /\ s.revision = IF rs[k].request = q THEN rs[k].revision ELSE rs[k].revision + 1
<1>1. PICK r \in Row : r = rs[k]
  OBVIOUS
<1>2. PICK n \in Nat : n = IF r.request = q THEN r.revision ELSE r.revision + 1
  BY DEF Row
<1>3. PICK s : s = [r EXCEPT !.request = q, !.revision = n]
  OBVIOUS
<1>4. Enqueued(rs, k, q)[k] = s
  BY <1>1, <1>2, <1>3 DEF Enqueued, InFlight
<1>5. s \in Row
  BY <1>3, BusyRowType
<1>6. /\ s.status = r.status /\ s.inflight = r.inflight
      /\ s.sent = r.sent /\ s.lease = r.lease /\ s.response = r.response
      /\ s.request = q /\ s.revision = n
  BY <1>3, RowColumns
<1> QED
  BY <1>1, <1>2, <1>4, <1>5, <1>6

\* Any other row waits to be sent.
LEMMA EnqueuedIdle ==
    ASSUME NEW rs \in [Keys -> Row], NEW k \in Keys, NEW q \in Request,
           rs[k].status \notin InFlight
    PROVE  LET s == Enqueued(rs, k, q)[k] IN
           /\ s \in Row
           /\ s.status = "pending" /\ s.request = q
           /\ rs[k].inflight = None => s.inflight = None
<1>1. PICK r \in Row, n \in Nat : r = rs[k] /\ n = r.revision + 1
  BY DEF Row
<1>2. CASE rs[k].status = "absent"
  <2>1. Enqueued(rs, k, q)[k] = NewRow(q)
    BY <1>2 DEF Enqueued
  <2>2. NewRow(q).request = q
    BY DEF NewRow
  <2> QED
    BY <2>1, <2>2, NewRowType
<1>3. CASE rs[k].status # "absent"
  <2>1. PICK s : s = [r EXCEPT !.request = q, !.revision = n, !.status = "pending",
                               !.attempts = 0, !.response = None]
    OBVIOUS
  <2>2. Enqueued(rs, k, q)[k] = s
    BY <1>1, <1>3, <2>1 DEF Enqueued
  <2>3. s \in Row
    BY <2>1, RequeuedType
  <2>4. s.request = q /\ s.status = "pending" /\ s.inflight = r.inflight
    BY <2>1, RowColumns
  <2> QED
    BY <1>1, <2>2, <2>3, <2>4
<1> QED
  BY <1>2, <1>3

\* An enqueued request reaches the row of its key and no other.
LEMMA EnqueuedOthers ==
    ASSUME NEW rs \in [Keys -> Row], NEW k, NEW q \in Request
    PROVE  /\ Enqueued(rs, k, q) \in [Keys -> Row]
           /\ \A j \in Keys \ {k} : Enqueued(rs, k, q)[j] = rs[j]
<1>1. PICK r : Enqueued(rs, k, q) = [rs EXCEPT ![k] = r] /\ (k \in Keys => r \in Row)
  <2>1. \E r : Enqueued(rs, k, q) = [rs EXCEPT ![k] = r]
    BY DEF Enqueued
  <2>2. PICK r : Enqueued(rs, k, q) = [rs EXCEPT ![k] = r]
    BY <2>1
  <2>3. ASSUME k \in Keys PROVE r \in Row
    <3>1. r = Enqueued(rs, k, q)[k]
      BY <2>2, <2>3
    <3>2. Enqueued(rs, k, q)[k] \in Row
      BY <2>3, EnqueuedBusy, EnqueuedIdle
    <3> QED
      BY <3>1, <3>2
  <2> QED
    BY <2>2, <2>3
<1> QED
  BY <1>1

\* The take-back of expired deliveries.
LEMMA SweptRows ==
    ASSUME NEW rs \in [Keys -> Row], NEW j \in Keys
    PROVE  LET s == Swept(rs)[j] IN
           /\ s \in Row
           /\ s.request = rs[j].request /\ s.revision = rs[j].revision
           /\ \/ s = rs[j]
              \/ /\ rs[j].status = "sending" /\ s.status = "pending" /\ s.inflight = None
                 /\ rs[j].inflight.op \in Repeatable
              \/ /\ rs[j].status = "sending" /\ s.status = "ambiguous"
                 /\ s.inflight = rs[j].inflight /\ s.sent = rs[j].sent
                 /\ rs[j].inflight.op \notin Repeatable
<1>1. rs[j] \in Row
  OBVIOUS
<1>2. [Released(rs[j]) EXCEPT !.status = "pending"] \in Row
  BY <1>1, ReleasedType DEF Row
<1>3. CASE rs[j].status = "sending" /\ rs[j].expired /\ rs[j].inflight.op \in Repeatable
  <2>1. Swept(rs)[j] = [Released(rs[j]) EXCEPT !.status = "pending"]
    BY <1>3 DEF Swept
  <2> QED
    BY <1>1, <1>2, <1>3, <2>1, ReleasedType DEF Row
<1>4. CASE rs[j].status = "sending" /\ rs[j].expired /\ rs[j].inflight.op \notin Repeatable
  <2>1. Swept(rs)[j] = [rs[j] EXCEPT !.status = "ambiguous", !.lease = None, !.expired = FALSE]
    BY <1>4 DEF Swept
  <2>2. Swept(rs)[j] \in Row
    BY <1>1, <2>1 DEF Row
  <2> QED
    BY <1>1, <1>4, <2>1, <2>2, RowColumns
<1>5. CASE ~(rs[j].status = "sending" /\ rs[j].expired)
  BY <1>1, <1>5 DEF Swept
<1> QED
  BY <1>3, <1>4, <1>5

-----------------------------------------------------------------------------
(* What a step does to a row: it stays under way, it rests, or it is claimed. *)

\* The row is under way before and after the step, with the same request in
\* flight; a change of the newest request shows in the revision, a delivery keeps
\* its lease, and only an accepted request is applied.
Continues(j) ==
    /\ rows[j].status \in InFlight /\ rows'[j].status \in InFlight
    /\ rows'[j].inflight = rows[j].inflight /\ rows'[j].sent = rows[j].sent
    /\ \/ rows'[j].request = rows[j].request /\ rows'[j].revision = rows[j].revision
       \/ rows'[j].revision > rows[j].revision
    /\ rows'[j].status = "sending" =>
          rows[j].status = "sending" /\ rows'[j].lease = rows[j].lease
    /\ rows'[j].status = "applying" =>
          rows[j].status = "applying" \/ rows[j].inflight \in accepted[j]

\* Somebody saw the delivery fail.
SeenToFail(j) ==
    \E d \in Dispatchers : /\ Answered(d, {"unreached", "refused"})
                           /\ held[d].key = j /\ Delivering(d)

\* Nothing is in flight after the step.  The row is completed only if it was, if
\* its newest request was accepted, or if its projection is not wanted; and a
\* delivery of unknown outcome was given up only if it can be repeated.
Rests(j) ==
    /\ rows'[j].status \notin InFlight /\ rows'[j].inflight = None
    /\ rows'[j].status = "completed" =>
          \/ /\ rows[j].status = "completed" /\ rows'[j].request = rows[j].request
             /\ IsProjection(j) /\ projections'[j[2]].exists => projections[j[2]].exists
          \/ rows'[j].request \in accepted[j]
          \/ IsProjection(j) /\ ~projections'[j[2]].exists
    /\ rows[j].status \in {"sending", "ambiguous"} =>
          rows[j].inflight.op \in Repeatable \/ SeenToFail(j)

\* An idle dispatcher takes the row, and its newest request is in flight.
Claimed(j) ==
    /\ rows'[j].status = "sending"
    /\ rows'[j].inflight = rows'[j].request /\ rows'[j].sent = rows'[j].revision
    /\ \E d \in Dispatchers : held[d] = None /\ rows'[j].lease = d

Moves(j) == Continues(j) \/ Rests(j) \/ Claimed(j)

\* A row whose columns stay, but for a lease that runs out.
LEMMA StaysMoves ==
    ASSUME TypeOK, NEW j \in Keys,
           rows'[j].status = rows[j].status, rows'[j].request = rows[j].request,
           rows'[j].revision = rows[j].revision, rows'[j].inflight = rows[j].inflight,
           rows'[j].sent = rows[j].sent,
           rows[j].status = "sending" => rows'[j].lease = rows[j].lease,
           IsProjection(j) /\ projections'[j[2]].exists /\ rows[j].status = "completed" =>
               projections[j[2]].exists
    PROVE  Moves(j)
<1>1. CASE rows[j].status \in InFlight
  BY <1>1 DEF Moves, Continues
<1>2. CASE rows[j].status \notin InFlight
  <2>1. rows'[j].inflight = None
    BY <1>2 DEF TypeOK
  <2> QED
    BY <1>2, <2>1 DEF Moves, Rests, InFlight
<1> QED
  BY <1>1, <1>2

\* An enqueued request joins a delivery under way, or puts the row in the queue.
LEMMA EnqueueMoves ==
    ASSUME TypeOK, NEW rs \in [Keys -> Row], NEW k, NEW q \in Request, NEW j \in Keys,
           rows' = Enqueued(rs, k, q),
           \/ rs[j] = rows[j]
           \/ /\ rs[j].status \notin InFlight /\ rs[j].inflight = None
              /\ rows[j].status \notin {"sending", "ambiguous"},
           j # k => Moves(j)
    PROVE  Moves(j)
<1>1. CASE j # k
  BY <1>1
<1>2. CASE j = k /\ rs[j].status \in InFlight
  <2>1. rs[j] = rows[j] /\ rows[j] \in Row
    BY <1>2 DEF TypeOK
  <2>2. /\ rows'[j].status = rows[j].status /\ rows'[j].inflight = rows[j].inflight
        /\ rows'[j].sent = rows[j].sent /\ rows'[j].lease = rows[j].lease
        /\ rows'[j].request = q
        /\ rows'[j].revision = IF rows[j].request = q THEN rows[j].revision
                               ELSE rows[j].revision + 1
    BY <1>2, <2>1, EnqueuedBusy
  <2>3. rows[j].revision \in Nat
    BY <2>1 DEF Row
  <2> QED
    BY <1>2, <2>1, <2>2, <2>3 DEF Moves, Continues
<1>3. CASE j = k /\ rs[j].status \notin InFlight
  <2>1. rs[j].inflight = None /\ rows[j].status \notin {"sending", "ambiguous"}
    BY <1>3 DEF TypeOK, InFlight
  <2>2. rows'[j].status = "pending" /\ rows'[j].inflight = None
    BY <1>3, <2>1, EnqueuedIdle
  <2> QED
    BY <2>1, <2>2 DEF Moves, Rests, InFlight
<1> QED
  BY <1>1, <1>2, <1>3

-----------------------------------------------------------------------------
(* Each action writes rows, and moves every row in one of the three ways. *)

\* The operation keys of projections and messages.
LEMMA KeyTypes ==
    /\ \A p \in Projections : <<"projection", p>> \in Keys /\ <<"projection-delete", p>> \in Keys
    /\ \A k \in Keys : k[2] \in Projections \cup Messages
    /\ \A k \in Keys : IsProjection(k) => k[2] \in Projections /\ k = <<"projection", k[2]>>
BY DEF Keys, IsProjection

\* A change of a projection enqueues its request.
LEMMA ProjectMoves ==
    ASSUME IInv, NEW p \in Projections, Project(p)
    PROVE  rows' \in [Keys -> Row] /\ \A j \in Keys : Moves(j)
<1>1. TypeOK /\ rows \in [Keys -> Row] /\ <<"projection", p>> \in Keys
  BY KeyTypes DEF IInv, TypeOK
<1>2. PICK q \in Request : rows' = Enqueued(rows, <<"projection", p>>, q)
  <2>1. projections[p].desired + 1 \in Nat /\ projections[p].message \in Messages \cup {None}
    BY DEF IInv, TypeOK
  <2> QED
    BY <2>1, RequestTypes DEF Project
<1>3. rows' \in [Keys -> Row]
  BY <1>1, <1>2, EnqueuedOthers
<1>4. ASSUME NEW j \in Keys PROVE Moves(j)
  <2>1. CASE j # <<"projection", p>>
    <3>1. rows'[j] = rows[j]
      BY <1>1, <1>2, <2>1, EnqueuedOthers
    <3>2. IsProjection(j) => j[2] # p /\ j[2] \in Projections
      BY <2>1, KeyTypes
    <3>3. IsProjection(j) => projections'[j[2]].exists = projections[j[2]].exists
      BY <3>2 DEF Project, IInv, TypeOK
    <3> QED
      BY <1>1, <3>1, <3>3, StaysMoves
  <2> QED
    BY <1>1, <1>2, <2>1, EnqueueMoves
<1> QED
  BY <1>3, <1>4

\* A dropped projection leaves a request to delete its message.
LEMMA DropMoves ==
    ASSUME IInv, NEW p \in Projections, Drop(p)
    PROVE  rows' \in [Keys -> Row] /\ \A j \in Keys : Moves(j)
<1>1. TypeOK /\ rows \in [Keys -> Row] /\ <<"projection-delete", p>> \in Keys
  BY KeyTypes DEF IInv, TypeOK
<1>2. ASSUME NEW j \in Keys, rows'[j] = rows[j] PROVE Moves(j)
  <2>1. IsProjection(j) /\ projections'[j[2]].exists => projections[j[2]].exists
    BY KeyTypes DEF Drop, IInv, TypeOK
  <2> QED
    BY <1>1, <1>2, <2>1, StaysMoves
<1>3. CASE rows' = rows
  BY <1>1, <1>2, <1>3
<1>4. CASE projections[p].message # None
  <2>1. PICK q \in Request : rows' = Enqueued(rows, <<"projection-delete", p>>, q)
    <3>1. projections[p].message \in Messages
      BY <1>4 DEF IInv, TypeOK
    <3> QED
      BY <1>4, <3>1, RequestTypes DEF Drop
  <2>2. rows' \in [Keys -> Row]
    BY <1>1, <2>1, EnqueuedOthers
  <2>3. ASSUME NEW j \in Keys PROVE Moves(j)
    <3>1. CASE j # <<"projection-delete", p>>
      BY <1>1, <1>2, <2>1, <3>1, EnqueuedOthers
    <3> QED
      BY <1>1, <2>1, <3>1, EnqueueMoves
  <2> QED
    BY <2>2, <2>3
<1> QED
  BY <1>3, <1>4 DEF Drop

\* The take-back queues what can be repeated and leaves the rest to an operator.
LEMMA SweptMoves ==
    ASSUME TypeOK, NEW j \in Keys, rows'[j] = Swept(rows)[j],
           projections' = projections
    PROVE  Moves(j)
<1>1. rows \in [Keys -> Row]
  BY DEF TypeOK
<1>2. CASE rows'[j] = rows[j]
  BY <1>2, StaysMoves
<1>3. CASE /\ rows[j].status = "sending" /\ rows'[j].status = "pending"
           /\ rows'[j].inflight = None /\ rows[j].inflight.op \in Repeatable
  BY <1>3 DEF Moves, Rests, InFlight
<1>4. CASE /\ rows[j].status = "sending" /\ rows'[j].status = "ambiguous"
           /\ rows'[j].inflight = rows[j].inflight /\ rows'[j].sent = rows[j].sent
           /\ rows'[j].request = rows[j].request /\ rows'[j].revision = rows[j].revision
  BY <1>4 DEF Moves, Continues, InFlight
<1> QED
  BY <1>1, <1>2, <1>3, <1>4, SweptRows

\* A claim takes one row, in its swept state, and sweeps the others.
LEMMA ClaimDeliveryMoves ==
    ASSUME IInv, NEW d \in Dispatchers, NEW k \in Keys, ClaimDelivery(d, k)
    PROVE  rows' \in [Keys -> Row] /\ \A j \in Keys : Moves(j)
<1>1. TypeOK /\ rows \in [Keys -> Row]
  BY DEF IInv, TypeOK
<1>2. Swept(rows) \in [Keys -> Row]
  BY <1>1, SweptRows DEF Swept
<1>3. PICK r \in Row : r = Swept(rows)[k]
  BY <1>2
<1>4. PICK n \in 0..MaxAttempts : n = Attempted(r)
  BY <1>3, BoundsAssumption DEF Attempted, Row
<1>5. PICK s : s = [r EXCEPT !.status = "sending", !.attempts = n, !.inflight = r.request,
                             !.sent = r.revision, !.response = None, !.lease = d,
                             !.expired = FALSE]
  OBVIOUS
<1>6. s \in Row
  BY <1>5, ClaimedType
<1>7. rows' = [Swept(rows) EXCEPT ![k] = s]
  BY <1>3, <1>4, <1>5 DEF ClaimDelivery
<1>8. rows' \in [Keys -> Row] /\ rows'[k] = s /\ \A j \in Keys \ {k} : rows'[j] = Swept(rows)[j]
  BY <1>2, <1>6, <1>7
<1>9. Moves(k)
  <2>1. /\ s.status = "sending" /\ s.inflight = r.request /\ s.request = r.request
        /\ s.sent = r.revision /\ s.revision = r.revision /\ s.lease = d
    BY <1>5, RowColumns
  <2> QED
    BY <1>8, <2>1 DEF Moves, Claimed, ClaimDelivery
<1>10. \A j \in Keys \ {k} : Moves(j)
  BY <1>1, <1>8, SweptMoves DEF ClaimDelivery
<1> QED
  BY <1>8, <1>9, <1>10

\* The claim of an application leaves what is applied as it is.
LEMMA ClaimApplicationMoves ==
    ASSUME IInv, NEW d \in Dispatchers, NEW k \in Keys, ClaimApplication(d, k)
    PROVE  rows' \in [Keys -> Row] /\ \A j \in Keys : Moves(j)
<1>1. TypeOK /\ rows \in [Keys -> Row]
  BY DEF IInv, TypeOK
<1>2. Swept(rows) \in [Keys -> Row]
  BY <1>1, SweptRows DEF Swept
<1>3. PICK r \in Row : r = Swept(rows)[k]
  BY <1>2
<1>4. PICK s : s = [r EXCEPT !.lease = d, !.expired = FALSE]
  OBVIOUS
<1>5. s \in Row
  BY <1>4, LeasedType
<1>6. rows' = [Swept(rows) EXCEPT ![k] = s]
  BY <1>2, <1>3, <1>4 DEF ClaimApplication
<1>7. rows' \in [Keys -> Row] /\ rows'[k] = s /\ \A j \in Keys \ {k} : rows'[j] = Swept(rows)[j]
  BY <1>2, <1>5, <1>6
<1>8. Moves(k)
  <2>1. /\ s.status = r.status /\ s.inflight = r.inflight /\ s.request = r.request
        /\ s.sent = r.sent /\ s.revision = r.revision
    BY <1>4, RowColumns
  <2>2. r.status = "applying"
    BY <1>3 DEF ClaimApplication, Applicable
  <2>3. r = rows[k]
    BY <1>1, <1>3, <2>2, SweptRows
  <2> QED
    BY <1>1, <1>7, <2>1, <2>2, <2>3, StaysMoves DEF ClaimApplication
<1>9. \A j \in Keys \ {k} : Moves(j)
  BY <1>1, <1>7, SweptMoves DEF ClaimApplication
<1> QED
  BY <1>7, <1>8, <1>9

\* The take-back alone.
LEMMA ClaimNothingMoves ==
    ASSUME IInv, NEW d \in Dispatchers, ClaimNothing(d)
    PROVE  rows' \in [Keys -> Row] /\ \A j \in Keys : Moves(j)
<1>1. TypeOK /\ rows \in [Keys -> Row]
  BY DEF IInv, TypeOK
<1>2. rows' \in [Keys -> Row]
  BY <1>1, SweptRows DEF ClaimNothing, Swept
<1> QED
  BY <1>1, <1>2, SweptMoves DEF ClaimNothing

\* The item of a dispatcher names a row, and has a request.
LEMMA HeldItem ==
    ASSUME IInv, NEW d \in Dispatchers, held[d] # None
    PROVE  /\ held[d] \in Item
           /\ held[d].key \in Keys /\ rows[held[d].key] \in Row
           /\ held[d].request \in Request /\ held[d].answer \in Messages \cup {None}
<1>1. held[d] \in Item
  BY DEF IInv, TypeOK
<1>2. held[d].key \in Keys /\ held[d].request \in Request
      /\ held[d].answer \in Messages \cup {None}
  BY <1>1 DEF Item
<1> QED
  BY <1>1, <1>2 DEF IInv, TypeOK

\* One row changes; the projections keep what is wanted.
LEMMA OneRowMoves ==
    ASSUME IInv, NEW k \in Keys, NEW s \in Row, rows' = [rows EXCEPT ![k] = s],
           \A p \in Projections : projections'[p].exists => projections[p].exists,
           rows'[k] = s => Moves(k)
    PROVE  rows' \in [Keys -> Row] /\ \A j \in Keys : Moves(j)
<1>1. TypeOK /\ rows \in [Keys -> Row]
  BY DEF IInv, TypeOK
<1>2. rows' \in [Keys -> Row] /\ rows'[k] = s /\ \A j \in Keys \ {k} : rows'[j] = rows[j]
  BY <1>1
<1>3. ASSUME NEW j \in Keys \ {k} PROVE Moves(j)
  BY <1>1, <1>2, KeyTypes, StaysMoves
<1> QED
  BY <1>2, <1>3

\* An answer that arrives in time is kept with the request it answers.
LEMMA RecordDeliveryMoves ==
    ASSUME IInv, NEW d \in Dispatchers, RecordDelivery(d)
    PROVE  rows' \in [Keys -> Row] /\ \A j \in Keys : Moves(j)
<1>1. held[d] # None
  BY DEF RecordDelivery, Answered
<1>2. PICK k \in Keys, r \in Row, m \in Messages \cup {None} :
         k = held[d].key /\ r = rows[k] /\ m = held[d].answer
  BY <1>1, HeldItem
<1>3. PICK s : s = [r EXCEPT !.status = "applying", !.response = m]
  OBVIOUS
<1>4. s \in Row
  BY <1>3, ProgressType DEF InFlight
<1>5. rows' = [rows EXCEPT ![k] = s]
  BY <1>2, <1>3 DEF RecordDelivery, IInv, TypeOK
<1>6. /\ s.status = "applying" /\ s.inflight = r.inflight /\ s.request = r.request
      /\ s.sent = r.sent /\ s.revision = r.revision
  BY <1>3, RowColumns
<1>7. r.status = "sending" /\ r.inflight \in accepted[k]
  BY <1>1, <1>2 DEF RecordDelivery, Answered, Delivering, IInv, HeldOK
<1>8. rows'[k] = s => Moves(k)
  BY <1>2, <1>6, <1>7 DEF Moves, Continues, InFlight
<1> QED
  BY <1>4, <1>5, <1>8, OneRowMoves DEF RecordDelivery

\* A failure that the dispatcher saw puts the request back in the queue.
LEMMA RetryDeliveryMoves ==
    ASSUME IInv, NEW d \in Dispatchers, RetryDelivery(d)
    PROVE  rows' \in [Keys -> Row] /\ \A j \in Keys : Moves(j)
<1>1. held[d] # None
  BY DEF RetryDelivery, Answered
<1>2. PICK k \in Keys, r \in Row : k = held[d].key /\ r = rows[k]
  BY <1>1, HeldItem
<1>3. PICK t \in Row : t = Released(r)
  BY ReleasedType
<1>4. PICK n \in 0..MaxAttempts : n = IF Newest(d) THEN r.attempts ELSE 0
  BY BoundsAssumption DEF Row
<1>5. PICK s : s = [t EXCEPT !.status = "retrying", !.attempts = n]
  OBVIOUS
<1>6. s \in Row
  BY <1>5 DEF Row
<1>7. rows' = [rows EXCEPT ![k] = s]
  <2>1. rows' = [rows EXCEPT ![k] =
           [t EXCEPT !.status = "retrying", !.attempts = IF Newest(d) THEN r.attempts ELSE 0]]
    BY <1>2, <1>3 DEF RetryDelivery
  <2> QED
    BY <1>4, <1>5, <2>1
<1>8. s.status = "retrying" /\ s.inflight = None
  <2>1. t.inflight = None
    BY <1>3, ReleasedType
  <2> QED
    BY <1>5, <2>1, RowColumns
<1>9. SeenToFail(k)
  BY <1>2 DEF SeenToFail, RetryDelivery, Answered
<1>10. rows'[k] = s => Moves(k)
  BY <1>8, <1>9 DEF Moves, Rests, InFlight
<1> QED
  BY <1>6, <1>7, <1>10, OneRowMoves DEF RetryDelivery

\* A refusal ends the row, or makes way for its newer request.
LEMMA FailDeliveryMoves ==
    ASSUME IInv, NEW d \in Dispatchers, FailDelivery(d)
    PROVE  rows' \in [Keys -> Row] /\ \A j \in Keys : Moves(j)
<1>1. held[d] # None
  BY DEF FailDelivery, Answered
<1>2. PICK k \in Keys, r \in Row : k = held[d].key /\ r = rows[k]
  BY <1>1, HeldItem
<1>3. PICK t \in Row : t = Released(r)
  BY ReleasedType
<1>4. PICK n \in 0..MaxAttempts, status \in {"failed", "pending"} :
         /\ n = IF Newest(d) THEN r.attempts ELSE 0
         /\ status = IF Newest(d) THEN "failed" ELSE "pending"
  BY BoundsAssumption DEF Row
<1>5. PICK s : s = [t EXCEPT !.status = status, !.attempts = n, !.response = None]
  OBVIOUS
<1>6. s \in Row
  BY <1>5, SettledType
<1>7. rows' = [rows EXCEPT ![k] = s]
  <2>1. rows' = [rows EXCEPT ![k] =
           [t EXCEPT !.status = IF Newest(d) THEN "failed" ELSE "pending",
                     !.attempts = IF Newest(d) THEN r.attempts ELSE 0, !.response = None]]
    BY <1>2, <1>3 DEF FailDelivery
  <2> QED
    BY <1>4, <1>5, <2>1
<1>8. s.status = status /\ s.inflight = None
  <2>1. t.inflight = None
    BY <1>3, ReleasedType
  <2> QED
    BY <1>5, <2>1, RowColumns
<1>9. SeenToFail(k)
  BY <1>2 DEF SeenToFail, FailDelivery, Answered
<1>10. rows'[k] = s => Moves(k)
  BY <1>8, <1>9 DEF Moves, Rests, InFlight
<1> QED
  BY <1>6, <1>7, <1>10, OneRowMoves DEF FailDelivery

\* An applied answer completes the row, or sends its newer request on.
LEMMA FinishedRow ==
    ASSUME IInv, NEW d \in Dispatchers, Apply(d)
    PROVE  /\ Finished(d) \in Row
           /\ Finished(d).inflight = None
           /\ Finished(d).status \in {"completed", "pending"}
           /\ Finished(d).status = "completed" <=> Newest(d) \/ Gone(d)
           /\ Finished(d).request =
                 IF Finished(d).status = "pending" /\ (Made(d) \/ Replaced(d))
                 THEN Update(rows[held[d].key].request.version, held[d].answer)
                 ELSE rows[held[d].key].request
<1>1. held[d] # None /\ held[d].answer \in Messages \cup {None} /\ rows[held[d].key] \in Row
  BY HeldItem DEF Apply, Answered
<1>2. PICK t \in Row : /\ t = Released(rows[held[d].key])
                       /\ t.inflight = None /\ t.request = rows[held[d].key].request
  BY <1>1, ReleasedType
<1>3. CASE Newest(d) \/ Gone(d)
  <2>1. PICK s : s = [t EXCEPT !.status = "completed"]
    OBVIOUS
  <2>2. Finished(d) = s
    BY <1>2, <1>3, <2>1 DEF Finished
  <2>3. s \in Row
    BY <2>1 DEF Row
  <2>4. s.status = "completed" /\ s.inflight = None /\ s.request = t.request
    BY <1>2, <2>1, RowColumns
  <2> QED
    BY <1>2, <1>3, <2>2, <2>3, <2>4
<1>4. CASE ~(Newest(d) \/ Gone(d))
  <2>1. PICK s : s = [t EXCEPT !.status = "pending", !.attempts = 0, !.response = None]
    OBVIOUS
  <2>2. s \in Row
    <3>1. 0 \in 0..MaxAttempts
      BY BoundsAssumption
    <3> QED
      BY <2>1, <3>1, SettledType
  <2>3. s.status = "pending" /\ s.inflight = None /\ s.request = t.request
    BY <1>2, <2>1, RowColumns
  <2>4. CASE ~Made(d) /\ ~Replaced(d)
    <3>1. Finished(d) = s
      BY <1>2, <1>4, <2>1, <2>4 DEF Finished
    <3> QED
      BY <1>2, <1>4, <2>2, <2>3, <2>4, <3>1
  <2>5. CASE Made(d) \/ Replaced(d)
    <3>0. PICK n \in Nat : n = IF Made(d) THEN s.revision ELSE s.revision + 1
      BY <2>2 DEF Row
    <3>1. PICK q : q = Update(t.request.version, held[d].answer)
      OBVIOUS
    <3>2. q \in Request
      <4>1. held[d].answer \in Messages /\ t.request.version \in Nat
        BY <1>1, <2>5 DEF Made, Replaced, Row, Request
      <4> QED
        BY <3>1, <4>1, RequestTypes
    <3>3. PICK u : u = [s EXCEPT !.request = q, !.revision = n]
      OBVIOUS
    <3>4. u \in Row
      BY <2>2, <3>2, <3>3, BusyRowType
    <3>5. u.status = "pending" /\ u.inflight = None /\ u.request = q
      BY <2>2, <2>3, <3>3, RowColumns
    <3>6. Finished(d) = u
      <4>1. CASE Made(d)
        <5>1. Finished(d) = [s EXCEPT !.request = q]
          BY <1>2, <1>4, <2>1, <2>3, <3>1, <4>1 DEF Finished
        <5>2. [s EXCEPT !.request = q] = [s EXCEPT !.request = q, !.revision = s.revision]
          BY <2>2, RowColumns
        <5> QED
          BY <3>0, <3>3, <4>1, <5>1, <5>2
      <4>2. CASE ~Made(d) /\ Replaced(d)
        BY <1>2, <1>4, <2>1, <2>2, <2>3, <3>0, <3>1, <3>3, <4>2 DEF Finished
      <4> QED
        BY <2>5, <4>1, <4>2
    <3> QED
      BY <1>2, <1>4, <2>5, <3>1, <3>4, <3>5, <3>6
  <2> QED
    BY <2>4, <2>5
<1> QED
  BY <1>3, <1>4

\* The row of an answer, and the row of what it makes superfluous.
LEMMA ApplyMoves ==
    ASSUME IInv, NEW d \in Dispatchers, Apply(d)
    PROVE  rows' \in [Keys -> Row] /\ \A j \in Keys : Moves(j)
<1>1. /\ TypeOK /\ rows \in [Keys -> Row]
      /\ held[d] # None /\ held[d].key \in Keys /\ held[d].request \in Request
      /\ held[d].answer \in Messages \cup {None}
  BY HeldItem DEF IInv, TypeOK, Apply, Answered
<1>2. PICK k \in Keys : k = held[d].key
  BY <1>1
<1>3. PICK F \in Row :
         /\ F = Finished(d)
         /\ F.inflight = None /\ F.status \in {"completed", "pending"}
         /\ F.status = "completed" =>
               (Newest(d) \/ Gone(d)) /\ F.request = rows[k].request
  BY <1>2, FinishedRow
<1>0. PICK rs : rs = [rows EXCEPT ![k] = F]
  OBVIOUS
<1>4. rs \in [Keys -> Row] /\ rs[k] = F /\ \A j \in Keys \ {k} : rs[j] = rows[j]
  BY <1>1, <1>0, RowReplaced
<1>5. rows' = CleanedUp(rs, d)
  BY <1>0, <1>2, <1>3 DEF Apply
<1>6. \A p \in Projections : projections'[p].exists => projections[p].exists
  BY <1>1 DEF Apply, TypeOK
<1>7. Gone(d) => projections' = projections
  BY DEF Apply
<1>8. /\ rows[k].status = "applying" /\ F.status \notin InFlight
      /\ Newest(d) => rows[k].request \in accepted[k]
  BY <1>2, <1>3 DEF Apply, Applying, Newest, IInv, RowsOK, InFlight
<1>9. rows'[k] = F => Moves(k)
  <2>1. Gone(d) => IsProjection(k) /\ ~projections'[k[2]].exists
    BY <1>2, <1>7 DEF Gone
  <2> QED
    BY <1>3, <1>8, <2>1 DEF Moves, Rests
<1>10. \A j \in Keys : rows'[j] = rs[j] => Moves(j)
  <2>1. ASSUME NEW j \in Keys \ {k}, rows'[j] = rs[j] PROVE Moves(j)
    BY <1>1, <1>4, <1>6, <2>1, KeyTypes, StaysMoves
  <2> QED
    BY <1>4, <1>9, <2>1
<1>11. CASE rows' = rs
  BY <1>4, <1>10, <1>11
<1>12. ASSUME NEW c, NEW q \in Request, rows' = Enqueued(rs, c, q)
       PROVE  rows' \in [Keys -> Row] /\ \A j \in Keys : Moves(j)
  <2>1. rows' \in [Keys -> Row] /\ \A j \in Keys \ {c} : rows'[j] = rs[j]
    BY <1>4, <1>12, EnqueuedOthers
  <2>2. ASSUME NEW j \in Keys PROVE Moves(j)
    <3>1. \/ rs[j] = rows[j]
          \/ /\ rs[j].status \notin InFlight /\ rs[j].inflight = None
             /\ rows[j].status \notin {"sending", "ambiguous"}
      BY <1>3, <1>4, <1>8
    <3>2. j # c => Moves(j)
      BY <1>10, <2>1
    <3> QED
      BY <1>1, <1>4, <1>12, <3>1, <3>2, EnqueueMoves
  <2> QED
    BY <2>1, <2>2
<1>13. Delete(held[d].answer) \in Request /\ Delete(held[d].request.target) \in Request
  BY <1>1, RequestTypes DEF Request
<1> QED
  BY <1>5, <1>11, <1>12, <1>13 DEF CleanedUp

\* A transaction that failed leaves its answer to be applied again.
LEMMA ApplyFailsMoves ==
    ASSUME IInv, NEW d \in Dispatchers, ApplyFails(d)
    PROVE  rows' \in [Keys -> Row] /\ \A j \in Keys : Moves(j)
<1>1. held[d] # None
  BY DEF ApplyFails, Answered
<1>2. PICK k \in Keys, r \in Row : k = held[d].key /\ r = rows[k]
  BY <1>1, HeldItem
<1>3. PICK s : s = [r EXCEPT !.lease = None, !.expired = FALSE]
  OBVIOUS
<1>4. s \in Row
  BY <1>3, LeasedType
<1>5. rows' = [rows EXCEPT ![k] = s]
  BY <1>2, <1>3 DEF ApplyFails, IInv, TypeOK
<1>6. /\ s.status = r.status /\ s.inflight = r.inflight /\ s.request = r.request
      /\ s.sent = r.sent /\ s.revision = r.revision
  BY <1>3, RowColumns
<1>7. r.status = "applying"
  BY <1>2 DEF ApplyFails, Applying
<1>8. rows'[k] = s => Moves(k)
  BY <1>2, <1>6, <1>7 DEF Moves, Continues, InFlight
<1> QED
  BY <1>4, <1>5, <1>8, OneRowMoves DEF ApplyFails

\* An operator goes on with what Discord is seen to have done.
LEMMA ResolveMoves ==
    ASSUME IInv, NEW d \in Dispatchers, NEW k \in Keys, Resolve(d, k)
    PROVE  rows' \in [Keys -> Row] /\ \A j \in Keys : Moves(j)
<1>1. PICK r \in Row : r = rows[k]
  BY DEF IInv, TypeOK
<1>2. PICK m \in Messages :
         rows' = [rows EXCEPT ![k].status = "applying", ![k].response = m,
                              ![k].lease = d, ![k].expired = FALSE]
  BY DEF Resolve
<1>3. PICK t : t = [r EXCEPT !.status = "applying", !.response = m]
  OBVIOUS
<1>4. t \in Row
  BY <1>3, ProgressType DEF InFlight
<1>5. PICK s : s = [t EXCEPT !.lease = d, !.expired = FALSE]
  OBVIOUS
<1>6. s \in Row
  BY <1>4, <1>5, LeasedType
<1>7. rows' = [rows EXCEPT ![k] = s]
  BY <1>1, <1>2, <1>3, <1>5 DEF IInv, TypeOK
<1>8. /\ s.status = "applying" /\ s.inflight = r.inflight /\ s.request = r.request
      /\ s.sent = r.sent /\ s.revision = r.revision
  BY <1>3, <1>4, <1>5, RowColumns
<1>9. r.status = "ambiguous" /\ r.inflight \in accepted[k]
  BY <1>1 DEF Resolve
<1>10. rows'[k] = s => Moves(k)
  BY <1>1, <1>8, <1>9 DEF Moves, Continues, InFlight
<1> QED
  BY <1>6, <1>7, <1>10, OneRowMoves DEF Resolve

\* A lease that runs out changes nothing else.
LEMMA LeaseExpiresMoves ==
    ASSUME IInv, NEW k \in Keys, LeaseExpires(k)
    PROVE  rows' \in [Keys -> Row] /\ \A j \in Keys : Moves(j)
<1>1. PICK r \in Row : r = rows[k]
  BY DEF IInv, TypeOK
<1>2. PICK s : s = [r EXCEPT !.expired = TRUE]
  OBVIOUS
<1>3. s \in Row
  BY <1>2 DEF Row
<1>4. rows' = [rows EXCEPT ![k] = s]
  BY <1>1, <1>2 DEF LeaseExpires
<1>5. /\ s.status = r.status /\ s.inflight = r.inflight /\ s.request = r.request
      /\ s.sent = r.sent /\ s.revision = r.revision /\ s.lease = r.lease
  BY <1>2, RowColumns
<1>6. rows'[k] = s => Moves(k)
  BY <1>1, <1>5, StaysMoves DEF LeaseExpires, IInv
<1> QED
  BY <1>3, <1>4, <1>6, OneRowMoves DEF LeaseExpires

\* Every step of the system moves every row.
LEMMA StepMoves ==
    ASSUME IInv, [Next]_vars
    PROVE  rows' \in [Keys -> Row] /\ \A j \in Keys : Moves(j)
<1>1. CASE UNCHANGED <<rows, projections>>
  BY <1>1, StaysMoves DEF IInv, TypeOK
<1> QED
  BY <1>1, ProjectMoves, DropMoves, ClaimDeliveryMoves, ClaimApplicationMoves,
     ClaimNothingMoves, RecordDeliveryMoves, RetryDeliveryMoves, FailDeliveryMoves, ApplyMoves,
     ApplyFailsMoves, ResolveMoves, LeaseExpiresMoves
     DEF Next, Want, Claim, Send, Record, vars, SendCreate, SendUpdate, SendReplacement,
         SendDelete, SendFails, Post, CarriedOut, LoseLease, Crash

-----------------------------------------------------------------------------
(* What a dispatcher holds, what the projections are, and Discord. *)

\* What Discord accepted it does not forget.
LEMMA AcceptedGrows ==
    ASSUME IInv, [Next]_vars
    PROVE  /\ accepted' \in [Keys -> SUBSET Request]
           /\ \A k \in Keys : accepted[k] \subseteq accepted'[k]
<1>1. accepted \in [Keys -> SUBSET Request]
  BY DEF IInv, RemoteOK
<1>2. ASSUME NEW d \in Dispatchers, held[d] # None,
             accepted' = [accepted EXCEPT ![held[d].key] = @ \cup {held[d].request}]
      PROVE  /\ accepted' \in [Keys -> SUBSET Request]
             /\ \A k \in Keys : accepted[k] \subseteq accepted'[k]
  BY <1>1, <1>2, HeldItem
<1>3. CASE UNCHANGED accepted
  BY <1>1, <1>3
<1> QED
  BY <1>2, <1>3
     DEF Next, Want, Project, Drop, Claim, ClaimDelivery, ClaimApplication, ClaimNothing, Send,
         SendCreate, SendUpdate, SendReplacement, SendDelete, SendFails, Sending, Post,
         CarriedOut, Record, RecordDelivery, RetryDelivery, FailDelivery, LoseLease, Apply,
         ApplyFails, Resolve, Crash, LeaseExpires, vars

\* The item after a step is the one before it in a later phase, or a new one: of
\* a row whose newest request it puts in flight, or of a row being applied.
Advances(d) ==
    /\ held[d] # None
    /\ held'[d].key = held[d].key /\ held'[d].request = held[d].request
    /\ held'[d].revision = held[d].revision
    /\ held'[d].phase = "delivered" =>
          held[d].phase = "delivered" \/ held[d].request \in accepted'[held[d].key]

Claims(d) ==
    /\ held[d] = None /\ held'[d].phase # "delivered"
    /\ \/ rows'[held'[d].key].inflight = held'[d].request
       \/ rows'[held'[d].key].status = "applying"

HeldMoves(d) == held'[d] \in Item \cup {None} /\ (held'[d] # None => Advances(d) \/ Claims(d))

\* The columns of an item.
LEMMA ItemColumns ==
    ASSUME NEW i \in Item
    PROVE  DOMAIN i = {"key", "phase", "request", "revision", "attempt", "answer"}
BY DEF Item

\* A later phase of an item.
LEMMA ItemType ==
    ASSUME NEW i \in Item, NEW m \in Messages \cup {None},
           NEW phase \in {"deliver", "delivered", "unreached", "refused", "apply"}
    PROVE  [i EXCEPT !.phase = phase, !.answer = m] \in Item
BY DEF Item

\* An outcome of a send.
LEMMA OutcomeHeld ==
    ASSUME IInv, NEW d \in Dispatchers, held[d] # None,
           NEW phase \in {"delivered", "unreached", "refused"},
           NEW m \in Messages \cup {None},
           Outcome(d, phase, m),
           phase = "delivered" => held[d].request \in accepted'[held[d].key],
           NEW e \in Dispatchers
    PROVE  HeldMoves(e)
<1>1. held \in [Dispatchers -> Item \cup {None}] /\ held[d] \in Item
  BY HeldItem DEF IInv, TypeOK
<1>2. PICK i : i = [held[d] EXCEPT !.phase = phase, !.answer = m]
  OBVIOUS
<1>3. i \in Item
  BY <1>1, <1>2, ItemType
<1>4. i.key = held[d].key /\ i.request = held[d].request /\ i.revision = held[d].revision
      /\ i.phase = phase
  BY <1>1, <1>2, ItemColumns
<1>5. held'[d] = i /\ \A c \in Dispatchers \ {d} : held'[c] = held[c]
  BY <1>1, <1>2 DEF Outcome
<1>6. CASE e = d
  BY <1>3, <1>4, <1>5, <1>6 DEF HeldMoves, Advances
<1>7. CASE e # d
  BY <1>1, <1>5, <1>7 DEF HeldMoves, Advances
<1> QED
  BY <1>6, <1>7

\* A send leaves its outcome with the dispatcher.
LEMMA SendHeld ==
    ASSUME IInv, NEW d \in Dispatchers, Send(d), NEW e \in Dispatchers
    PROVE  HeldMoves(e)
<1>1. ASSUME NEW m \in Messages \cup {None}, held[d] # None, CarriedOut(d, m)
      PROVE  HeldMoves(e)
  <2>1. held[d].request \in accepted'[held[d].key]
    BY <1>1, HeldItem DEF CarriedOut, IInv, RemoteOK
  <2> QED
    BY <1>1, <2>1, OutcomeHeld DEF CarriedOut
<1>2. CASE SendFails(d)
  BY <1>2, OutcomeHeld DEF SendFails
<1>3. CASE \E version, nonce : Post(d, version, nonce) /\ held[d] # None
  BY <1>1, <1>3 DEF Post, Remembered
<1> QED
  BY <1>1, <1>2, <1>3 DEF Send, SendCreate, SendUpdate, SendReplacement, SendDelete, Sending

\* A dispatcher that lets its item go.
LEMMA LetGoHeld ==
    ASSUME IInv, NEW d \in Dispatchers,
           held' = [held EXCEPT ![d] = None] \/ UNCHANGED held,
           NEW e \in Dispatchers
    PROVE  HeldMoves(e)
<1>1. held'[e] \in {None, held[e]} /\ held[e] \in Item \cup {None}
  BY DEF IInv, TypeOK
<1> QED
  BY <1>1 DEF HeldMoves, Advances

\* A claimed row and its copy.
LEMMA ClaimHeld ==
    ASSUME IInv, NEW d \in Dispatchers, NEW k \in Keys,
           Claim(d, k) \/ Resolve(d, k), NEW e \in Dispatchers
    PROVE  HeldMoves(e)
<1>1. held \in [Dispatchers -> Item \cup {None}] /\ rows \in [Keys -> Row] /\ held[d] = None
  BY DEF IInv, TypeOK, Claim, ClaimDelivery, ClaimApplication, Resolve
<1>2. Swept(rows) \in [Keys -> Row]
  BY <1>1, SweptRows DEF Swept
<1>3. ASSUME NEW i \in Item, held' = [held EXCEPT ![d] = i], i.phase # "delivered",
             \/ rows'[i.key].inflight = i.request
             \/ rows'[i.key].status = "applying"
      PROVE  HeldMoves(e)
  <2>1. held'[d] = i /\ \A c \in Dispatchers \ {d} : held'[c] = held[c]
    BY <1>1, <1>3
  <2> QED
    BY <1>1, <1>3, <2>1 DEF HeldMoves, Advances, Claims
<1>4. CASE ClaimDelivery(d, k)
  <2>1. PICK r \in Row : r = Swept(rows)[k]
    BY <1>2
  <2>2. PICK i : i = [key |-> k, phase |-> "deliver", request |-> r.request,
                      revision |-> r.revision, attempt |-> Attempted(r), answer |-> None]
    OBVIOUS
  <2>3. i \in Item
    <3>1. Attempted(r) \in 0..MaxAttempts
      BY BoundsAssumption DEF Attempted, Row
    <3>2. r.request \in Request /\ r.revision \in Nat
      BY DEF Row
    <3> QED
      BY <2>2, <3>1, <3>2 DEF Item
  <2>4. held' = [held EXCEPT ![d] = i]
    BY <1>4, <2>1, <2>2 DEF ClaimDelivery
  <2>5. i.key = k /\ i.phase = "deliver" /\ i.request = r.request
    BY <2>2
  <2>6. rows'[k].inflight = r.request
    <3>1. rows'[k] = [r EXCEPT !.status = "sending", !.attempts = Attempted(r),
                               !.inflight = r.request, !.sent = r.revision, !.response = None,
                               !.lease = d, !.expired = FALSE]
      BY <1>2, <1>4, <2>1 DEF ClaimDelivery
    <3> QED
      BY <3>1, RowColumns
  <2> QED
    BY <1>3, <2>3, <2>4, <2>5, <2>6
<1>5. ASSUME NEW r \in Row, NEW m \in Messages \cup {None}, r = rows[k], r.inflight # None,
             held' = [held EXCEPT ![d] =
                [key |-> k, phase |-> "apply", request |-> r.inflight,
                 revision |-> r.sent, attempt |-> r.attempts, answer |-> m]],
             rows'[k].status = "applying"
      PROVE  HeldMoves(e)
  <2>1. PICK i : i = [key |-> k, phase |-> "apply", request |-> r.inflight,
                      revision |-> r.sent, attempt |-> r.attempts, answer |-> m]
    OBVIOUS
  <2>2. i \in Item
    <3>1. r.inflight \in Request /\ r.sent \in Nat /\ r.attempts \in 0..MaxAttempts
      BY <1>5 DEF Row
    <3> QED
      BY <2>1, <3>1 DEF Item
  <2>3. i.key = k /\ i.phase = "apply"
    BY <2>1
  <2>4. held' = [held EXCEPT ![d] = i]
    BY <1>5, <2>1
  <2> QED
    BY <1>3, <1>5, <2>2, <2>3, <2>4
<1>6. CASE ClaimApplication(d, k)
  <2>1. PICK r \in Row : r = Swept(rows)[k]
    BY <1>2
  <2>2. r.status = "applying" /\ r = rows[k]
    <3>1. r.status = "applying"
      BY <1>6, <2>1 DEF ClaimApplication, Applicable
    <3> QED
      BY <1>1, <2>1, <3>1, SweptRows
  <2>3. r.inflight # None /\ r.response \in Messages \cup {None}
    BY <2>2 DEF IInv, TypeOK, InFlight, Row
  <2>4. rows'[k].status = "applying"
    <3>1. rows'[k] = [r EXCEPT !.lease = d, !.expired = FALSE]
      BY <1>2, <1>6, <2>1 DEF ClaimApplication
    <3> QED
      BY <2>2, <3>1, RowColumns
  <2>5. held' = [held EXCEPT ![d] =
           [key |-> k, phase |-> "apply", request |-> r.inflight,
            revision |-> r.sent, attempt |-> r.attempts, answer |-> r.response]]
    BY <1>6, <2>1 DEF ClaimApplication
  <2> QED
    BY <1>5, <2>2, <2>3, <2>4, <2>5
<1>7. CASE Resolve(d, k)
  <2>1. PICK r \in Row : r = rows[k]
    BY <1>1
  <2>2. r.inflight # None
    BY <1>7, <2>1 DEF Resolve, IInv, TypeOK, InFlight
  <2>3. PICK m \in Messages :
           /\ rows' = [rows EXCEPT ![k].status = "applying", ![k].response = m,
                                   ![k].lease = d, ![k].expired = FALSE]
           /\ held' = [held EXCEPT ![d] =
                 [key |-> k, phase |-> "apply", request |-> r.inflight,
                  revision |-> r.sent, attempt |-> r.attempts, answer |-> m]]
    BY <1>7, <2>1 DEF Resolve
  <2>4. rows'[k].status = "applying"
    <3>1. rows'[k] = [r EXCEPT !.status = "applying", !.response = m, !.lease = d,
                               !.expired = FALSE]
      BY <1>1, <2>1, <2>3
    <3> QED
      BY <3>1, RowColumns
  <2> QED
    BY <1>5, <2>1, <2>2, <2>3, <2>4
<1> QED
  BY <1>4, <1>6, <1>7 DEF Claim

\* Every step moves every dispatcher's item.
LEMMA StepHeld ==
    ASSUME IInv, [Next]_vars, NEW e \in Dispatchers
    PROVE  HeldMoves(e)
<1>1. ASSUME NEW d \in Dispatchers, RecordDelivery(d) PROVE HeldMoves(e)
  <2>1. held \in [Dispatchers -> Item \cup {None}] /\ held[d] \in Item
    BY <1>1, HeldItem DEF IInv, TypeOK, RecordDelivery, Answered
  <2>2. PICK i : i = [held[d] EXCEPT !.phase = "apply"]
    OBVIOUS
  <2>3. i \in Item
    BY <2>1, <2>2 DEF Item
  <2>4. /\ i.key = held[d].key /\ i.request = held[d].request
        /\ i.revision = held[d].revision /\ i.phase = "apply"
    BY <2>1, <2>2, ItemColumns
  <2>5. held'[d] = i /\ \A c \in Dispatchers \ {d} : held'[c] = held[c]
    BY <1>1, <2>1, <2>2 DEF RecordDelivery
  <2>6. held[d] # None
    BY <1>1 DEF RecordDelivery, Answered
  <2>7. CASE e = d
    BY <2>3, <2>4, <2>5, <2>6, <2>7 DEF HeldMoves, Advances
  <2>8. CASE e # d
    BY <2>1, <2>5, <2>8 DEF HeldMoves, Advances
  <2> QED
    BY <2>7, <2>8
<1>2. CASE UNCHANGED held
  BY <1>2 DEF HeldMoves, Advances, IInv, TypeOK
<1> QED
  BY <1>1, <1>2, SendHeld, ClaimHeld, LetGoHeld
     DEF Next, Want, Project, Drop, ClaimNothing, Record, RetryDelivery, FailDelivery, LoseLease,
         Apply, ApplyFails, Crash, LeaseExpires, vars

\* The projections.
LEMMA ProjectionTypes ==
    ASSUME IInv, [Next]_vars
    PROVE  projections' \in [Projections -> [exists : BOOLEAN, message : Messages \cup {None},
                                             desired : Nat, applied : Nat]]
<1> DEFINE P == [exists : BOOLEAN, message : Messages \cup {None}, desired : Nat, applied : Nat]
<1>1. projections \in [Projections -> P]
  BY DEF IInv, TypeOK
<1>2. ASSUME NEW p \in Projections, Project(p) PROVE projections' \in [Projections -> P]
  BY <1>1, <1>2 DEF Project
<1>3. ASSUME NEW p \in Projections, Drop(p) PROVE projections' \in [Projections -> P]
  BY <1>1, <1>3 DEF Drop
<1>4. ASSUME NEW d \in Dispatchers, Apply(d) PROVE projections' \in [Projections -> P]
  <2>1. held[d].answer \in Messages \cup {None}
    BY <1>4, HeldItem DEF Apply, Answered
  <2>2. CASE UNCHANGED projections
    BY <1>1, <2>2
  <2>3. CASE UNCHANGED projections \/
             \E p \in Projections, m \in Messages \cup {None}, n \in Nat :
                projections' = [projections EXCEPT ![p].message = m, ![p].applied = n]
    BY <1>1, <2>3
  <2>4. ASSUME NEW k \in Keys, k = held[d].key, IsProjection(k), ~Gone(d)
        PROVE  \E p \in Projections, m \in Messages \cup {None}, n \in Nat :
                  projections' = [projections EXCEPT ![p].message = m, ![p].applied = n]
    <3>1. k[2] \in Projections
      BY <2>4, KeyTypes
    <3>2. projections[k[2]].message \in Messages \cup {None} /\ projections[k[2]].applied \in Nat
          /\ projections[k[2]].desired \in Nat
      BY <1>1, <3>1
    <3>3. PICK m \in Messages \cup {None}, n \in Nat :
             /\ m = IF held[d].answer = None THEN projections[k[2]].message ELSE held[d].answer
             /\ n = IF Newest(d) THEN projections[k[2]].desired ELSE projections[k[2]].applied
      BY <2>1, <3>2
    <3>4. projections' = [projections EXCEPT ![k[2]].message = m, ![k[2]].applied = n]
      BY <1>4, <2>4, <3>3 DEF Apply
    <3> QED
      BY <3>1, <3>4
  <2> QED
    BY <1>4, <2>3, <2>4, HeldItem DEF Apply, Answered
<1>5. CASE UNCHANGED projections
  BY <1>1, <1>5
<1> QED
  BY <1>2, <1>3, <1>4, <1>5
     DEF Next, Want, Claim, ClaimDelivery, ClaimApplication, ClaimNothing, Send,
         SendCreate, SendUpdate, SendReplacement, SendDelete, SendFails, Sending, Post,
         CarriedOut, Record, RecordDelivery, RetryDelivery, FailDelivery, LoseLease,
         ApplyFails, Resolve, Crash, LeaseExpires, vars

\* The messages on Discord.
LEMMA RemoteTypes ==
    ASSUME IInv, [Next]_vars
    PROVE  remote' \in [Messages -> [state : {"absent", "shown", "deleted"}, version : Nat,
                                     nonce : Nonce]]
<1> DEFINE M == [state : {"absent", "shown", "deleted"}, version : Nat, nonce : Nonce]
<1>1. remote \in [Messages -> M]
  BY DEF IInv, RemoteOK
<1>2. ASSUME NEW d \in Dispatchers, NEW v \in Nat, NEW nonce \in Nonce, Post(d, v, nonce)
      PROVE  remote' \in [Messages -> M]
  BY <1>1, <1>2 DEF Post
<1>3. ASSUME NEW d \in Dispatchers, SendCreate(d) PROVE remote' \in [Messages -> M]
  <2>1. held[d].request.version \in Nat /\ held[d].key[2] \in Projections \cup Messages
    BY <1>3, HeldItem, KeyTypes DEF SendCreate, Sending, Request
  <2>2. CreateNonce(held[d].key[2]) \in Nonce
    BY <2>1 DEF CreateNonce, Nonce
  <2> QED
    BY <1>2, <1>3, <2>1, <2>2 DEF SendCreate
<1>4. ASSUME NEW d \in Dispatchers, SendReplacement(d) PROVE remote' \in [Messages -> M]
  <2>1. held[d].request.version \in Nat /\ held[d].key[2] \in Projections \cup Messages
        /\ held[d].revision \in Nat
    BY <1>4, HeldItem, KeyTypes DEF SendReplacement, Sending, Request, Item
  <2>2. <<held[d].key[2], held[d].revision>> \in Nonce
    BY <2>1 DEF Nonce
  <2> QED
    BY <1>2, <1>4, <2>1, <2>2 DEF SendReplacement
<1>5. ASSUME NEW d \in Dispatchers, SendUpdate(d) PROVE remote' \in [Messages -> M]
  <2>1. held[d].request.version \in Nat
    BY <1>5, HeldItem DEF SendUpdate, Sending, Request
  <2> QED
    BY <1>1, <1>5, <2>1 DEF SendUpdate
<1>6. ASSUME NEW d \in Dispatchers, SendDelete(d) PROVE remote' \in [Messages -> M]
  BY <1>1, <1>6 DEF SendDelete
<1>7. CASE UNCHANGED remote
  BY <1>1, <1>7
<1> QED
  BY <1>3, <1>4, <1>5, <1>6, <1>7
     DEF Next, Want, Project, Drop, Claim, ClaimDelivery, ClaimApplication, ClaimNothing, Send,
         SendFails, Record, RecordDelivery, RetryDelivery, FailDelivery, LoseLease, Apply,
         ApplyFails, Resolve, Crash, LeaseExpires, vars

-----------------------------------------------------------------------------
(* The invariant, and what follows from it. *)

\* Every value keeps its type, and the check constraint of the table holds.
LEMMA TypeStep ==
    ASSUME IInv, [Next]_vars
    PROVE  TypeOK' /\ RemoteOK'
<1>1. rows' \in [Keys -> Row] /\ \A j \in Keys : Moves(j)
  BY StepMoves
<1>2. ASSUME NEW k \in Keys PROVE rows'[k].status \in InFlight <=> rows'[k].inflight # None
  <2>1. CASE Continues(k)
    BY <2>1 DEF Continues, IInv, TypeOK
  <2>2. CASE Rests(k)
    BY <2>2 DEF Rests
  <2>3. CASE Claimed(k)
    <3>1. rows'[k].request \in Request
      BY <1>1 DEF Row
    <3> QED
      BY <2>3, <3>1, RequestsAssumption DEF Claimed, InFlight
  <2> QED
    BY <1>1, <2>1, <2>2, <2>3 DEF Moves
<1>3. held' \in [Dispatchers -> Item \cup {None}]
  <2>1. \A e \in Dispatchers : held'[e] \in Item \cup {None}
    BY StepHeld DEF HeldMoves
  <2>2. held' = [e \in Dispatchers |-> held'[e]]
    <3>1. held \in [Dispatchers -> Item \cup {None}]
      BY DEF IInv, TypeOK
    <3>2. ASSUME NEW d \in Dispatchers, NEW phase, NEW m, Outcome(d, phase, m)
          PROVE  held' = [e \in Dispatchers |-> held'[e]]
      BY <3>1, <3>2 DEF Outcome
    <3>3. ASSUME NEW d \in Dispatchers, NEW i, held' = [held EXCEPT ![d] = i]
          PROVE  held' = [e \in Dispatchers |-> held'[e]]
      BY <3>1, <3>3
    <3>4. ASSUME NEW d \in Dispatchers, RecordDelivery(d)
          PROVE  held' = [e \in Dispatchers |-> held'[e]]
      BY <3>1, <3>4 DEF RecordDelivery
    <3>5. ASSUME NEW d \in Dispatchers, NEW k \in Keys, Claim(d, k) \/ Resolve(d, k)
          PROVE  held' = [e \in Dispatchers |-> held'[e]]
      BY <3>1, <3>5 DEF Claim, ClaimDelivery, ClaimApplication, Resolve
    <3>6. ASSUME NEW d \in Dispatchers, Send(d)
          PROVE  held' = [e \in Dispatchers |-> held'[e]]
      BY <3>2, <3>6 DEF Send, SendCreate, SendUpdate, SendReplacement, SendDelete, SendFails,
         Post, CarriedOut
    <3>7. CASE UNCHANGED held
      BY <3>1, <3>7
    <3> QED
      BY <3>3, <3>4, <3>5, <3>6, <3>7
         DEF Next, Want, Project, Drop, ClaimNothing, Record, RetryDelivery, FailDelivery,
             LoseLease, Apply, ApplyFails, Crash, LeaseExpires, vars
  <2> QED
    BY <2>1, <2>2
<1>4. RemoteOK'
  BY RemoteTypes, AcceptedGrows DEF RemoteOK
<1>5. /\ \A m \in Messages : remote'[m].state \in {"absent", "shown", "deleted"}
      /\ \A k \in Keys : accepted'[k] \subseteq Request
  BY RemoteTypes, AcceptedGrows
<1> QED
  BY <1>1, <1>2, <1>3, <1>4, <1>5, ProjectionTypes DEF TypeOK

\* The request in flight and the newest one, through changes and deliveries.
LEMMA RowsStep ==
    ASSUME IInv, [Next]_vars
    PROVE  RowsOK'
<1> SUFFICES ASSUME NEW k \in Keys, rows'[k].status \in InFlight
             PROVE  /\ rows'[k].sent <= rows'[k].revision
                    /\ rows'[k].sent = rows'[k].revision =>
                          rows'[k].request = rows'[k].inflight
                    /\ rows'[k].status = "applying" => rows'[k].inflight \in accepted'[k]
  BY DEF RowsOK
<1>1. rows'[k] \in Row /\ Moves(k) /\ rows[k] \in Row
  BY StepMoves DEF IInv, TypeOK
<1>2. /\ rows[k].sent \in Nat /\ rows[k].revision \in Nat
      /\ rows'[k].sent \in Nat /\ rows'[k].revision \in Nat
  BY <1>1 DEF Row
<1>3. CASE Continues(k)
  BY <1>2, <1>3, AcceptedGrows DEF Continues, IInv, RowsOK
<1>4. CASE Claimed(k)
  BY <1>2, <1>4 DEF Claimed
<1> QED
  BY <1>1, <1>3, <1>4 DEF Moves, Rests

\* The copy a dispatcher holds, until it has lost the lease.
LEMMA HeldStep ==
    ASSUME IInv, [Next]_vars
    PROVE  HeldOK'
<1> SUFFICES ASSUME NEW d \in Dispatchers, held'[d] # None
             PROVE  /\ Delivering(d)' => rows'[held'[d].key].inflight = held'[d].request
                    /\ held'[d].phase = "delivered" =>
                          held'[d].request \in accepted'[held'[d].key]
  BY DEF HeldOK
<1>1. HeldMoves(d)
  BY StepHeld
<1>2. CASE Advances(d)
  <2>1. PICK k \in Keys : k = held[d].key /\ k = held'[d].key
    BY <1>2, HeldItem DEF Advances
  <2>2. ASSUME Delivering(d)' PROVE rows'[k].inflight = held'[d].request
    <3>1. Continues(k) \/ Rests(k) \/ Claimed(k)
      BY StepMoves DEF Moves
    <3>2. rows'[k].status = "sending" /\ rows'[k].lease = d /\ rows'[k].sent = held[d].revision
      BY <1>2, <2>1, <2>2 DEF Delivering, Advances
    <3>3. ~Rests(k) /\ ~Claimed(k)
      BY <1>2, <3>2 DEF Rests, Claimed, InFlight, Advances
    <3>4. Delivering(d) /\ rows'[k].inflight = rows[k].inflight
      BY <2>1, <3>1, <3>2, <3>3 DEF Continues, Delivering
    <3> QED
      BY <1>2, <2>1, <3>4 DEF IInv, HeldOK, Advances
  <2>3. held'[d].phase = "delivered" => held'[d].request \in accepted'[k]
    BY <1>2, <2>1, AcceptedGrows DEF Advances, IInv, HeldOK
  <2> QED
    BY <2>1, <2>2, <2>3
<1>3. CASE Claims(d)
  BY <1>3 DEF Claims, Delivering
<1> QED
  BY <1>1, <1>2, <1>3 DEF HeldMoves

\* A row is completed with its newest request accepted, or with nobody to show it to.
LEMMA CompletedStep ==
    ASSUME IInv, [Next]_vars
    PROVE  CompletedWasAccepted'
<1> SUFFICES ASSUME NEW k \in Keys, rows'[k].status = "completed",
                    IsProjection(k) => projections'[k[2]].exists
             PROVE  rows'[k].request \in accepted'[k]
  BY DEF CompletedWasAccepted, IsProjection
<1>1. Rests(k)
  BY StepMoves DEF Moves, Continues, Claimed, InFlight
<1> QED
  BY <1>1, AcceptedGrows DEF Rests, IInv, CompletedWasAccepted

\* The empty outbox satisfies the invariant.
LEMMA InvariantInit == Init => IInv
<1> SUFFICES ASSUME Init PROVE IInv
  OBVIOUS
<1>1. PICK r : r = [NewRow(Delete(None)) EXCEPT !.status = "absent"]
  OBVIOUS
<1>2. r \in Row
  <2>1. NewRow(Delete(None)) \in Row
    BY RequestTypes, NewRowType
  <2> QED
    BY <1>1, <2>1 DEF Row
<1>3. r.status = "absent" /\ r.inflight = None
  <2>1. NewRow(Delete(None)) \in Row /\ NewRow(Delete(None)).inflight = None
    BY RequestTypes, NewRowType
  <2> QED
    BY <1>1, <2>1, RowColumns
<1>4. \A k \in Keys : rows[k] = r
  BY <1>1 DEF Init
<1>5. rows \in [Keys -> Row]
  BY <1>1, <1>2 DEF Init
<1>6. RemoteOK
  BY DEF Init, RemoteOK, Nonce
<1>7. TypeOK
  <2>1. projections \in [Projections -> [exists : BOOLEAN, message : Messages \cup {None},
                                         desired : Nat, applied : Nat]]
    BY DEF Init
  <2>2. held \in [Dispatchers -> Item \cup {None}]
    BY DEF Init
  <2> QED
    BY <1>3, <1>4, <1>5, <1>6, <2>1, <2>2 DEF TypeOK, RemoteOK, InFlight
<1> QED
  BY <1>3, <1>4, <1>6, <1>7
     DEF Init, IInv, RowsOK, HeldOK, CompletedWasAccepted, InFlight

\* The strengthened invariant of the outbox holds of every behaviour.
THEOREM InvariantHolds == Spec => []IInv
<1>1. IInv /\ [Next]_vars => IInv'
  BY TypeStep, RowsStep, HeldStep, CompletedStep DEF IInv
<1> QED
  BY <1>1, InvariantInit, PTL DEF Spec

\* Every column keeps a value of its type, and a row has a request in flight
\* exactly while it is being delivered or applied.
THEOREM TypeCorrect == Spec => []TypeOK
<1>1. IInv => TypeOK
  BY DEF IInv
<1> QED
  BY <1>1, InvariantHolds, PTL

\* No row is closed over a request that Discord has not accepted, although it may
\* change while it is delivered, applied, taken back or resolved by an operator.
THEOREM CompletedCorrect == Spec => []CompletedWasAccepted
<1>1. IInv => CompletedWasAccepted
  BY DEF IInv
<1> QED
  BY <1>1, InvariantHolds, PTL

\* A create of unknown outcome is never queued again by a take-back, a claim, a
\* change of the projection or the application of another row.
THEOREM UnknownCreatesWait == Spec => UnknownCreateWaits
<1>1. IInv /\ [Next]_vars =>
         [\A k \in Keys :
             /\ rows[k].status \in {"sending", "ambiguous"} /\ rows[k].inflight.op = "create"
             /\ rows'[k].status \in Claimable
             => \E d \in Dispatchers : /\ Answered(d, {"unreached", "refused"})
                                       /\ held[d].key = k /\ Delivering(d)]_vars
  <2> SUFFICES ASSUME IInv, [Next]_vars, NEW k \in Keys,
                      rows[k].status \in {"sending", "ambiguous"},
                      rows[k].inflight.op = "create", rows'[k].status \in Claimable
               PROVE  SeenToFail(k)
    BY DEF SeenToFail
  <2>1. Rests(k)
    BY StepMoves DEF Moves, Continues, Claimed, InFlight, Claimable
  <2> QED
    BY <2>1 DEF Rests, Repeatable
<1> QED
  BY <1>1, InvariantHolds, PTL DEF Spec, UnknownCreateWaits
=============================================================================
