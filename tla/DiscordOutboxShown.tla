---------------------------- MODULE DiscordOutboxShown ----------------------------
(* What the outbox shows on Discord, for every number of projections, messages and
   versions.

   That every wanted card is shown in its newest version when all rows are done is
   far from inductive: a message exists before its projection knows of it, a row
   asks for a newer version than the one in flight, and a message may be dropped
   while it is made.  The invariant says of each card which messages were made for
   it, of which versions they may be, and where they are known.

   That nothing else is shown then is proved in the second half, from an invariant of
   its own that says of each message what becomes of it: FateInv.  It does not need
   that one process dispatches, so it cannot use that a dispatcher holds the row it
   works on; what a dispatcher knows is true while it has the lease, and a create that
   waits to be sent keeps its row from being claimed even after that. *)
EXTENDS DiscordOutboxProofs

\* The row of a projection.
CardKey(p) == <<"projection", p>>
Card(p) == rows[CardKey(p)]

Flying(row) == row.inflight # None

\* The messages that were made for a projection.
Mine(p, m) == remote[m].state # "absent" /\ remote[m].nonce[1] = p

\* A row that is not of a projection deletes the message, or is to delete it.
Doomed(m) ==
    \E k \in Keys : /\ ~IsProjection(k)
                    /\ \/ rows[k].request.target = m
                       \/ Flying(rows[k]) /\ rows[k].inflight.target = m

\* A message of the projection that nobody has been told of yet.
Unclaimed(p, m) ==
    /\ remote[m].state = "shown" /\ Mine(p, m) /\ ~Doomed(m)
    /\ projections[p].message # m
    /\ Flying(Card(p)) => Card(p).inflight.target # m

CardRequest(q) == \/ q.op = "create" /\ q.target = None
                  \/ q.op = "update" /\ q.target \in Messages

KindsOK(p) ==
    LET row == Card(p) IN
    /\ row.status # "absent" => CardRequest(row.request)
    /\ row.status = "absent" => row.request.target = None
    /\ Flying(row) => CardRequest(row.inflight)
    /\ row.status = "ambiguous" => row.inflight.op = "create"

\* The newest request is for the newest version; what is in flight is for an
\* older one when there is a newer request, and goes to the message of the card.
VersionsOK(p) ==
    LET row == Card(p) IN
    /\ row.status = "absent" <=> projections[p].desired = 0
    /\ row.status # "absent" => row.request.version = projections[p].desired
    /\ projections[p].exists => projections[p].desired > 0
    /\ ~projections[p].exists => projections[p].message = None
    /\ Flying(row) =>
          /\ 0 < row.inflight.version /\ row.inflight.version <= row.request.version
          /\ row.revision # row.sent => row.inflight.version < row.request.version
          /\ projections[p].message \in {None, row.inflight.target}
    /\ projections[p].exists /\ row.status # "completed" =>
          projections[p].message = row.request.target

\* No message is newer than its card, and the card's own is shown.
OwnedOK(p) ==
    LET row == Card(p) IN
    \A m \in Messages :
        /\ Mine(p, m) => remote[m].version <= projections[p].desired
        /\ projections[p].message = m =>
              Mine(p, m) /\ ~Doomed(m) /\ remote[m].state = "shown"
        /\ Flying(row) /\ row.inflight.target = m => Mine(p, m)
        /\ row.request.target = m => Mine(p, m)

\* A message of the version of a create that may be answered by it is unclaimed.
FreshOK(p) ==
    LET row   == Card(p)
        By(q) == {m \in Messages : q.op = "create" /\ q.version = remote[m].version}
    IN
    \A m \in Messages :
        /\ Mine(p, m)
        /\ \/ Flying(row) /\ m \in By(row.inflight)
           \/ row.status # "completed" /\ m \in By(row.request)
        => Unclaimed(p, m)

ShownOK(p) ==
    projections[p].exists /\ Card(p).status = "completed" =>
        /\ projections[p].message \in Messages
        /\ remote[projections[p].message].version = projections[p].desired
        /\ projections[p].applied = projections[p].desired

CardOK(p) == KindsOK(p) /\ VersionsOK(p) /\ OwnedOK(p) /\ FreshOK(p) /\ ShownOK(p)

DeletesOK ==
    /\ \A m \in Messages : Doomed(m) => remote[m].state # "absent"
    /\ \A k \in Keys : ~IsProjection(k) =>
          /\ rows[k].status # "absent" =>
                rows[k].request.op = "delete" /\ rows[k].request.target \in Messages
          /\ Flying(rows[k]) =>
                rows[k].inflight.op = "delete" /\ rows[k].inflight.target \in Messages

\* An answer to the request in flight: the message it made, which is still
\* nobody's, or that the message it was for is up to date.
AnswerFits(p, answer) ==
    LET request == Card(p).inflight IN
    /\ answer # None => Unclaimed(p, answer) /\ remote[answer].version = request.version
    /\ answer = None => /\ request.op = "update"
                        /\ remote[request.target].version = request.version

\* The only dispatcher holds the row it works on.
HoldsRow ==
    \A d \in Dispatchers : held[d] # None =>
        LET row == rows[held[d].key] IN
        /\ row.inflight = held[d].request /\ row.sent = held[d].revision
        /\ IF held[d].phase = "apply" THEN row.status = "applying" /\ row.response = held[d].answer
           ELSE row.status = "sending"

AnswersOK ==
    \A p \in Projections, a \in Messages \cup {None} :
        \/ Card(p).status = "applying" /\ Card(p).response = a
        \/ \E d \in Dispatchers : /\ held[d] # None /\ held[d].phase = "delivered"
                                  /\ held[d].key = CardKey(p) /\ held[d].answer = a
        => AnswerFits(p, a)

\* A message that was not made has no version.
BlankOK == \A m \in Messages : remote[m].state = "absent" => remote[m].version = 0

ShownInv ==
    /\ \A p \in Projections : CardOK(p)
    /\ DeletesOK
    /\ HoldsRow
    /\ AnswersOK
    /\ BlankOK

-----------------------------------------------------------------------------
(* What a step leaves of a card. *)

\* The row keeps its newest request; its delivery goes on, ends, or begins.
RowKept(j) ==
    /\ rows'[j].request = rows[j].request /\ rows'[j].revision = rows[j].revision
    /\ rows'[j].status = "absent" <=> rows[j].status = "absent"
    /\ rows'[j].status = "completed" <=> rows[j].status = "completed"
    /\ \/ /\ rows'[j].inflight = rows[j].inflight /\ rows'[j].sent = rows[j].sent
          /\ rows'[j].status = "ambiguous" =>
                \/ rows[j].status = "ambiguous"
                \/ Flying(rows[j]) /\ rows[j].inflight.op \notin Repeatable
       \/ rows'[j].inflight = None /\ rows'[j].status # "ambiguous"
       \/ /\ rows'[j].inflight = rows[j].request /\ rows'[j].sent = rows[j].revision
          /\ rows'[j].status = "sending"

\* The messages of the card stay, and at most the one it loses is doomed.
Calm(p) ==
    /\ projections'[p].message \in {projections[p].message, None}
    /\ \A m \in Messages : Mine(p, m) =>
          /\ Mine(p, m)' /\ remote'[m].version = remote[m].version
          /\ remote[m].state = "shown" /\ ~Doomed(m) => remote'[m].state = "shown"
          /\ Doomed(m)' => Doomed(m) \/ m = projections[p].message

\* The step is about other cards.
Local(p) ==
    /\ RowKept(CardKey(p)) /\ projections'[p] = projections[p] /\ Calm(p)
    /\ \A m \in Messages : /\ Mine(p, m)' => Mine(p, m)
                           /\ Mine(p, m) /\ Doomed(m)' => Doomed(m)

\* The types of what a card consists of.
LEMMA CardTypes ==
    ASSUME IInv, NEW p \in Projections
    PROVE  /\ CardKey(p) \in Keys /\ IsProjection(CardKey(p)) /\ CardKey(p)[2] = p
           /\ Card(p) \in Row
           /\ Card(p).request \in Request
           /\ Card(p).request.target \in Messages \cup {None}
           /\ Card(p).request.version \in Nat
           /\ Flying(Card(p)) => /\ Card(p).inflight \in Request
                                 /\ Card(p).inflight.target \in Messages \cup {None}
                                 /\ Card(p).inflight.version \in Nat
           /\ Flying(Card(p)) <=> Card(p).status \in InFlight
           /\ projections[p].message \in Messages \cup {None}
           /\ projections[p].desired \in Nat
<1>1. CardKey(p) \in Keys /\ IsProjection(CardKey(p)) /\ CardKey(p)[2] = p
  BY KeyTypes DEF CardKey, IsProjection
<1>2. /\ Card(p) \in Row
      /\ Flying(Card(p)) <=> Card(p).status \in InFlight
  BY <1>1 DEF IInv, TypeOK, Card, Flying
<1>3. Card(p).request \in Request /\ (Flying(Card(p)) => Card(p).inflight \in Request)
  BY <1>2 DEF Row, Flying
<1>4. projections[p].message \in Messages \cup {None} /\ projections[p].desired \in Nat
  BY DEF IInv, TypeOK
<1> QED
  BY <1>1, <1>2, <1>3, <1>4 DEF Request

\* The messages on Discord.
LEMMA MessageTypes ==
    ASSUME IInv, NEW m \in Messages
    PROVE  /\ remote[m].state \in {"absent", "shown", "deleted"}
           /\ remote[m].version \in Nat
BY DEF IInv, RemoteOK

\* An unclaimed message stays so when nothing is sent to it.
LEMMA UnclaimedStays ==
    ASSUME NEW p \in Projections, NEW m \in Messages, Calm(p), Unclaimed(p, m),
           Flying(Card(p))' => Card(p)'.inflight.target # m
    PROVE  Unclaimed(p, m)'
<1>1. /\ Mine(p, m)' /\ remote'[m].state = "shown" /\ ~Doomed(m)'
  BY DEF Calm, Unclaimed
<1>2. projections'[p].message # m
  BY NoneAssumption DEF Calm, Unclaimed
<1> QED
  BY <1>1, <1>2 DEF Unclaimed

\* A card stays in order when a step is about another.
LEMMA LocalCard ==
    ASSUME IInv, NEW p \in Projections, CardOK(p), Local(p)
    PROVE  CardOK(p)'
<1> DEFINE row == Card(p)
<1> DEFINE new == rows'[CardKey(p)]
<1>0. /\ KindsOK(p) /\ VersionsOK(p) /\ OwnedOK(p) /\ FreshOK(p) /\ ShownOK(p)
      /\ Calm(p) /\ projections'[p] = projections[p]
      /\ Card(p)' = new
  BY DEF CardOK, Local, Card
<1>1. /\ new.request = row.request /\ new.revision = row.revision
      /\ new.status = "absent" <=> row.status = "absent"
      /\ new.status = "completed" <=> row.status = "completed"
      /\ \/ /\ new.inflight = row.inflight /\ new.sent = row.sent
            /\ new.status = "ambiguous" =>
                  \/ row.status = "ambiguous"
                  \/ Flying(row) /\ row.inflight.op \notin Repeatable
         \/ new.inflight = None /\ new.status # "ambiguous"
         \/ /\ new.inflight = row.request /\ new.sent = row.revision
            /\ new.status = "sending"
  BY DEF Local, RowKept, Card
<1>2. /\ row.request.target \in Messages \cup {None} /\ row.request.version \in Nat
      /\ Flying(row) => row.inflight.target \in Messages \cup {None}
      /\ projections[p].message \in Messages \cup {None}
      /\ Flying(row) <=> row.status \in InFlight
  BY CardTypes
<1>3. KindsOK(p)'
  <2>1. row.status = "ambiguous" => Flying(row)
    BY <1>2 DEF InFlight
  <2>2. Flying(new) /\ new.inflight = row.inflight => Flying(row)
    BY DEF Flying
  <2>3. Flying(new) => CardRequest(new.inflight)
    BY <1>0, <1>1, <2>2 DEF KindsOK, Flying
  <2>4. new.status = "ambiguous" => new.inflight.op = "create"
    BY <1>0, <1>1, <2>1 DEF KindsOK, CardRequest, Repeatable, Flying
  <2> QED
    BY <1>0, <1>1, <2>3, <2>4 DEF KindsOK, CardRequest
<1>4. VersionsOK(p)'
  <2>1. Flying(new) =>
          /\ 0 < new.inflight.version /\ new.inflight.version <= new.request.version
          /\ new.revision # new.sent => new.inflight.version < new.request.version
          /\ projections[p].message \in {None, new.inflight.target}
    <3>1. CASE new.inflight = row.inflight /\ new.sent = row.sent
      BY <1>0, <1>1, <3>1 DEF VersionsOK, Flying
    <3>2. CASE new.inflight = None
      BY <3>2 DEF Flying
    <3>3. CASE /\ new.inflight = row.request /\ new.sent = row.revision
               /\ new.status = "sending"
      <4>1. row.status # "completed"
        BY <1>1, <3>3
      <4>2. projections[p].message \in {None, row.request.target}
        BY <1>0, <4>1 DEF VersionsOK, IInv, TypeOK
      <4>3. row.request.version > 0
        <5>1. projections[p].desired \in Nat /\ row.status # "absent"
          BY <1>1, <3>3, CardTypes
        <5> QED
          BY <1>0, <5>1 DEF VersionsOK
      <4> QED
        BY <1>1, <1>2, <3>3, <4>2, <4>3
    <3> QED
      BY <1>1, <3>1, <3>2, <3>3
  <2> QED
    BY <1>0, <1>1, <2>1 DEF VersionsOK
<1>5. OwnedOK(p)'
  <2>1. \A m \in Messages : Mine(p, m)' => Mine(p, m)
    BY DEF Local
  <2>2. \A m \in Messages : Mine(p, m) =>
           /\ Mine(p, m)' /\ remote'[m].version = remote[m].version
           /\ remote[m].state = "shown" /\ ~Doomed(m) => remote'[m].state = "shown"
           /\ Doomed(m)' => Doomed(m)
    BY <1>0 DEF Calm, Local
  <2>3. \A m \in Messages : Flying(new) /\ new.inflight.target = m => Mine(p, m)
    BY <1>0, <1>1 DEF OwnedOK, Flying
  <2> QED
    BY <1>0, <1>1, <2>1, <2>2, <2>3 DEF OwnedOK
<1>6. FreshOK(p)'
  <2> SUFFICES ASSUME NEW m \in Messages, Mine(p, m)',
                      \/ /\ Flying(new) /\ new.inflight.op = "create"
                         /\ new.inflight.version = remote'[m].version
                      \/ /\ new.status # "completed" /\ new.request.op = "create"
                         /\ new.request.version = remote'[m].version
               PROVE  Unclaimed(p, m)'
    BY <1>0 DEF FreshOK
  <2>1. Mine(p, m) /\ remote'[m].version = remote[m].version
    BY <1>0 DEF Local, Calm
  <2>2. \/ /\ Flying(row) /\ row.inflight.op = "create"
           /\ row.inflight.version = remote[m].version
        \/ /\ row.status # "completed" /\ row.request.op = "create"
           /\ row.request.version = remote[m].version
    BY <1>1, <2>1 DEF Flying
  <2>3. Unclaimed(p, m)
    BY <1>0, <2>1, <2>2 DEF FreshOK
  <2>4. Flying(new) => new.inflight.target # m
    <3>1. CASE new.inflight = row.inflight
      BY <2>3, <3>1 DEF Unclaimed, Flying
    <3>2. CASE new.inflight = None
      BY <3>2 DEF Flying
    <3>3. CASE new.inflight = row.request /\ new.status = "sending"
      <4>1. new.request.op = "create" /\ row.status # "absent"
        BY <1>1, <3>3
      <4> QED
        BY <1>0, <1>1, <3>3, <4>1, NoneAssumption DEF KindsOK, CardRequest
    <3> QED
      BY <1>1, <3>1, <3>2, <3>3
  <2> QED
    BY <1>0, <2>3, <2>4, UnclaimedStays
<1>7. ShownOK(p)'
  <2>1. SUFFICES ASSUME projections[p].exists, row.status = "completed"
                 PROVE  /\ projections[p].message \in Messages
                        /\ remote'[projections[p].message].version = projections[p].desired
                        /\ projections[p].applied = projections[p].desired
    BY <1>0, <1>1 DEF ShownOK
  <2>2. /\ projections[p].message \in Messages
        /\ remote[projections[p].message].version = projections[p].desired
        /\ projections[p].applied = projections[p].desired
    BY <1>0, <2>1 DEF ShownOK
  <2>3. Mine(p, projections[p].message)
    BY <1>0, <2>2, NoneAssumption DEF OwnedOK
  <2> QED
    BY <1>0, <2>2, <2>3 DEF Calm
<1> QED
  BY <1>3, <1>4, <1>5, <1>6, <1>7 DEF CardOK

-----------------------------------------------------------------------------
(* The work on a row leaves its newest request. *)

\* A row is applied as before.
AnswerKept(j) ==
    rows'[j].status = "applying" =>
        /\ rows[j].status = "applying" /\ rows'[j].response = rows[j].response
        /\ rows'[j].inflight = rows[j].inflight

\* A row that stays.
LEMMA SameKept ==
    ASSUME NEW j \in Keys, rows'[j] = rows[j]
    PROVE  RowKept(j) /\ AnswerKept(j)
BY DEF RowKept, AnswerKept

\* One row is worked on.
LEMMA OneRowKept ==
    ASSUME IInv, NEW k \in Keys, NEW s \in Row, rows' = [rows EXCEPT ![k] = s],
           rows'[k] = s => RowKept(k)
    PROVE  /\ rows'[k] = s
           /\ \A j \in Keys : RowKept(j)
           /\ \A j \in Keys \ {k} : AnswerKept(j)
<1>1. rows'[k] = s /\ \A j \in Keys \ {k} : rows'[j] = rows[j]
  BY DEF IInv, TypeOK
<1> QED
  BY <1>1, SameKept

\* A row of which a delivery may be taken back.
LEMMA SweptKept ==
    ASSUME IInv, NEW j \in Keys, rows'[j] = Swept(rows)[j]
    PROVE  RowKept(j) /\ AnswerKept(j)
<1>1. rows \in [Keys -> Row]
  BY DEF IInv, TypeOK
<1>2. rows'[j].request = rows[j].request /\ rows'[j].revision = rows[j].revision
  BY <1>1, SweptRows
<1>3. CASE rows'[j] = rows[j]
  BY <1>3, SameKept
<1>4. CASE rows[j].status = "sending" /\ rows'[j].status = "pending" /\ rows'[j].inflight = None
  BY <1>2, <1>4 DEF RowKept, AnswerKept
<1>5. CASE /\ rows[j].status = "sending" /\ rows'[j].status = "ambiguous"
           /\ rows'[j].inflight = rows[j].inflight /\ rows'[j].sent = rows[j].sent
           /\ rows[j].inflight.op \notin Repeatable
  <2>1. Flying(rows[j])
    BY <1>5 DEF IInv, TypeOK, InFlight, Flying
  <2> QED
    BY <1>2, <1>5, <2>1 DEF RowKept, AnswerKept
<1> QED
  BY <1>1, <1>3, <1>4, <1>5, SweptRows

\* A claim puts the newest request in flight.
LEMMA ClaimDeliveryKept ==
    ASSUME IInv, NEW d \in Dispatchers, NEW k \in Keys, ClaimDelivery(d, k)
    PROVE  /\ \A j \in Keys : RowKept(j) /\ AnswerKept(j)
           /\ rows'[k].status = "sending" /\ rows'[k].inflight = rows[k].request
           /\ rows'[k].sent = rows[k].revision
<1>1. rows \in [Keys -> Row]
  BY DEF IInv, TypeOK
<1>2. Swept(rows) \in [Keys -> Row]
  BY <1>1, SweptRows DEF Swept
<1>3. PICK r \in Row : r = Swept(rows)[k]
  BY <1>2
<1>4. PICK s : s = [r EXCEPT !.status = "sending", !.attempts = Attempted(r),
                             !.inflight = r.request,
                             !.sent = r.revision, !.response = None, !.lease = d,
                             !.expired = FALSE]
  OBVIOUS
<1>5. rows'[k] = s /\ \A j \in Keys \ {k} : rows'[j] = Swept(rows)[j]
  BY <1>2, <1>3, <1>4 DEF ClaimDelivery
<1>6. /\ s.status = "sending" /\ s.inflight = r.request /\ s.request = r.request
      /\ s.sent = r.revision /\ s.revision = r.revision
  BY <1>4, RowColumns
<1>7. r.request = rows[k].request /\ r.revision = rows[k].revision
      /\ rows[k].status \notin {"absent", "completed"}
  <2>1. r.status \in {"pending", "retrying"}
    BY <1>3 DEF ClaimDelivery, Claimable
  <2> QED
    BY <1>1, <1>3, <2>1, SweptRows
<1>8. RowKept(k) /\ AnswerKept(k)
  BY <1>5, <1>6, <1>7 DEF RowKept, AnswerKept
<1> QED
  BY <1>5, <1>6, <1>7, <1>8, SweptKept

\* The claim of an application keeps the answer.
LEMMA ClaimApplicationKept ==
    ASSUME IInv, NEW d \in Dispatchers, NEW k \in Keys, ClaimApplication(d, k)
    PROVE  /\ \A j \in Keys : RowKept(j) /\ AnswerKept(j)
           /\ rows[k].status = "applying" /\ Swept(rows)[k] = rows[k]
           /\ rows'[k].status = "applying" /\ rows'[k].inflight = rows[k].inflight
           /\ rows'[k].sent = rows[k].sent /\ rows'[k].response = rows[k].response
<1>1. rows \in [Keys -> Row]
  BY DEF IInv, TypeOK
<1>2. Swept(rows) \in [Keys -> Row]
  BY <1>1, SweptRows DEF Swept
<1>3. PICK r \in Row : r = Swept(rows)[k]
  BY <1>2
<1>4. PICK s : s = [r EXCEPT !.lease = d, !.expired = FALSE]
  OBVIOUS
<1>5. rows' = [Swept(rows) EXCEPT ![k] = s]
  BY <1>2, <1>3, <1>4 DEF ClaimApplication
<1>6. rows'[k] = s /\ \A j \in Keys \ {k} : rows'[j] = Swept(rows)[j]
  BY <1>2, <1>5
<1>7. /\ s.status = r.status /\ s.inflight = r.inflight /\ s.request = r.request
      /\ s.sent = r.sent /\ s.revision = r.revision /\ s.response = r.response
  BY <1>4, RowColumns
<1>8. r.status = "applying"
  BY <1>3 DEF ClaimApplication, Applicable
<1>9. r = rows[k]
  BY <1>1, <1>3, <1>8, SweptRows
<1>10. RowKept(k) /\ AnswerKept(k)
  BY <1>6, <1>7, <1>8, <1>9 DEF RowKept, AnswerKept
<1> QED
  BY <1>3, <1>6, <1>7, <1>8, <1>9, <1>10, SweptKept

\* An answer that is recorded is the one that will be applied.
LEMMA RecordDeliveryKept ==
    ASSUME IInv, NEW d \in Dispatchers, RecordDelivery(d)
    PROVE  LET k == held[d].key IN
           /\ \A j \in Keys : RowKept(j)
           /\ \A j \in Keys \ {k} : AnswerKept(j)
           /\ rows'[k].status = "applying" /\ rows'[k].response = held[d].answer
           /\ rows'[k].inflight = rows[k].inflight /\ rows'[k].sent = rows[k].sent
<1>1. held[d] # None
  BY DEF RecordDelivery, Answered
<1>2. PICK k \in Keys, r \in Row, m \in Messages \cup {None} :
         k = held[d].key /\ r = rows[k] /\ m = held[d].answer
  BY <1>1, HeldItem
<1>3. PICK s : s = [r EXCEPT !.status = "applying", !.response = m]
  OBVIOUS
<1>4. s \in Row
  BY <1>3, ProgressType DEF InFlight
<1>5. rows' = [rows EXCEPT ![k] = s]
  BY <1>2, <1>3 DEF RecordDelivery, IInv, TypeOK
<1>6. /\ s.status = "applying" /\ s.inflight = r.inflight /\ s.request = r.request
      /\ s.sent = r.sent /\ s.revision = r.revision /\ s.response = m
  BY <1>3, RowColumns
<1>7. r.status = "sending"
  BY <1>1, <1>2 DEF RecordDelivery, Delivering
<1>8. rows'[k] = s => RowKept(k)
  BY <1>2, <1>6, <1>7 DEF RowKept
<1>9. /\ rows'[k] = s
      /\ \A j \in Keys : RowKept(j)
      /\ \A j \in Keys \ {k} : AnswerKept(j)
  BY <1>4, <1>5, <1>8, OneRowKept
<1> QED
  BY <1>2, <1>6, <1>9

\* A delivery that failed is taken back.
LEMMA FailedKept ==
    ASSUME IInv, NEW d \in Dispatchers, RetryDelivery(d) \/ FailDelivery(d)
    PROVE  \A j \in Keys : RowKept(j) /\ AnswerKept(j)
<1>1. held[d] # None /\ Delivering(d)
  BY DEF RetryDelivery, FailDelivery, Answered
<1>2. PICK k \in Keys, r \in Row : k = held[d].key /\ r = rows[k]
  BY <1>1, HeldItem
<1>3. PICK t \in Row : t = Released(r) /\ t.inflight = None /\ t.request = r.request
                       /\ t.revision = r.revision
  BY ReleasedType
<1>4. PICK n \in 0..MaxAttempts, status \in {"failed", "pending"} :
         /\ n = IF Newest(d) THEN r.attempts ELSE 0
         /\ status = IF Newest(d) THEN "failed" ELSE "pending"
  BY BoundsAssumption DEF Row
<1>5. PICK u : u = [t EXCEPT !.status = "retrying", !.attempts = n]
  OBVIOUS
<1>6. PICK v : v = [t EXCEPT !.status = status, !.attempts = n, !.response = None]
  OBVIOUS
<1>7. u \in Row /\ v \in Row
  <2>1. u \in Row
    BY <1>5 DEF Row
  <2> QED
    BY <1>6, <2>1, SettledType
<1>8. PICK s \in {u, v} : rows' = [rows EXCEPT ![k] = s]
  <2>1. CASE RetryDelivery(d)
    <3>1. rows' = [rows EXCEPT ![k] =
             [t EXCEPT !.status = "retrying", !.attempts = IF Newest(d) THEN r.attempts ELSE 0]]
      BY <1>2, <1>3, <2>1 DEF RetryDelivery
    <3> QED
      BY <1>4, <1>5, <3>1
  <2>2. CASE FailDelivery(d)
    <3>1. rows' = [rows EXCEPT ![k] =
             [t EXCEPT !.status = IF Newest(d) THEN "failed" ELSE "pending",
                       !.attempts = IF Newest(d) THEN r.attempts ELSE 0, !.response = None]]
      BY <1>2, <1>3, <2>2 DEF FailDelivery
    <3> QED
      BY <1>4, <1>6, <3>1
  <2> QED
    BY <2>1, <2>2
<1>9. /\ s.status \in {"retrying", "failed", "pending"} /\ s.inflight = None
      /\ s.request = r.request /\ s.revision = r.revision
  <2>1. /\ u.status = "retrying" /\ u.inflight = None
        /\ u.request = t.request /\ u.revision = t.revision
    BY <1>3, <1>5, RowColumns
  <2>2. /\ v.status \in {"failed", "pending"} /\ v.inflight = None
        /\ v.request = t.request /\ v.revision = t.revision
    BY <1>3, <1>4, <1>6, RowColumns
  <2> QED
    BY <1>3, <1>8, <2>1, <2>2
<1>10. r.status = "sending"
  BY <1>1, <1>2 DEF Delivering
<1>11. rows'[k] = s => RowKept(k) /\ AnswerKept(k)
  BY <1>2, <1>9, <1>10 DEF RowKept, AnswerKept
<1>12. s \in Row
  BY <1>7, <1>8
<1> QED
  BY <1>8, <1>11, <1>12, OneRowKept

\* An answer that could not be applied is kept.
LEMMA ApplyFailsKept ==
    ASSUME IInv, NEW d \in Dispatchers, ApplyFails(d)
    PROVE  \A j \in Keys : RowKept(j) /\ AnswerKept(j)
<1>1. held[d] # None
  BY DEF ApplyFails, Answered
<1>2. PICK k \in Keys, r \in Row : k = held[d].key /\ r = rows[k]
  BY <1>1, HeldItem
<1>3. PICK s : s = [r EXCEPT !.lease = None, !.expired = FALSE]
  OBVIOUS
<1>4. s \in Row
  BY <1>3, LeasedType
<1>5. rows' = [rows EXCEPT ![k] = s]
  BY <1>2, <1>3 DEF ApplyFails, IInv, TypeOK
<1>6. /\ s.status = r.status /\ s.inflight = r.inflight /\ s.request = r.request
      /\ s.sent = r.sent /\ s.revision = r.revision /\ s.response = r.response
  BY <1>3, RowColumns
<1>7. rows'[k] = s => RowKept(k) /\ AnswerKept(k)
  BY <1>2, <1>6 DEF RowKept, AnswerKept
<1> QED
  BY <1>4, <1>5, <1>7, OneRowKept

\* A resolved delivery goes on to its application.
LEMMA ResolveKept ==
    ASSUME IInv, NEW d \in Dispatchers, NEW k \in Keys, Resolve(d, k)
    PROVE  /\ \A j \in Keys : RowKept(j)
           /\ \A j \in Keys \ {k} : AnswerKept(j)
           /\ \E m \in Messages :
                 /\ remote[m].nonce = CreateNonce(k[2])
                 /\ remote[m].version = rows[k].inflight.version
                 /\ held' = [held EXCEPT ![d] =
                       [key |-> k, phase |-> "apply", request |-> rows[k].inflight,
                        revision |-> rows[k].sent, attempt |-> rows[k].attempts,
                        answer |-> m]]
                 /\ rows'[k].response = m
           /\ rows'[k].status = "applying" /\ rows'[k].inflight = rows[k].inflight
           /\ rows'[k].sent = rows[k].sent
<1>1. PICK r \in Row : r = rows[k]
  BY DEF IInv, TypeOK
<1>2. PICK m \in Messages :
         /\ rows' = [rows EXCEPT ![k].status = "applying", ![k].response = m,
                                 ![k].lease = d, ![k].expired = FALSE]
         /\ remote[m].nonce = CreateNonce(k[2])
         /\ remote[m].version = rows[k].inflight.version
         /\ held' = [held EXCEPT ![d] =
               [key |-> k, phase |-> "apply", request |-> rows[k].inflight,
                revision |-> rows[k].sent, attempt |-> rows[k].attempts, answer |-> m]]
  BY DEF Resolve
<1>3. PICK t : t = [r EXCEPT !.status = "applying", !.response = m]
  OBVIOUS
<1>4. t \in Row
  BY <1>3, ProgressType DEF InFlight
<1>5. PICK s : s = [t EXCEPT !.lease = d, !.expired = FALSE]
  OBVIOUS
<1>6. s \in Row
  BY <1>4, <1>5, LeasedType
<1>7. rows' = [rows EXCEPT ![k] = s]
  BY <1>1, <1>2, <1>3, <1>5 DEF IInv, TypeOK
<1>8. /\ s.status = "applying" /\ s.inflight = r.inflight /\ s.request = r.request
      /\ s.sent = r.sent /\ s.revision = r.revision /\ s.response = m
  BY <1>3, <1>4, <1>5, RowColumns
<1>9. r.status = "ambiguous"
  BY <1>1 DEF Resolve
<1>10. rows'[k] = s => RowKept(k)
  BY <1>1, <1>8, <1>9 DEF RowKept
<1>11. /\ rows'[k] = s
       /\ \A j \in Keys : RowKept(j)
       /\ \A j \in Keys \ {k} : AnswerKept(j)
  BY <1>6, <1>7, <1>10, OneRowKept
<1> QED
  BY <1>1, <1>2, <1>8, <1>11

\* A lease that runs out changes nothing else.
LEMMA LeaseExpiresKept ==
    ASSUME IInv, NEW k \in Keys, LeaseExpires(k)
    PROVE  \A j \in Keys : /\ RowKept(j) /\ AnswerKept(j)
                           /\ rows'[j].status = rows[j].status
                           /\ rows'[j].inflight = rows[j].inflight
                           /\ rows'[j].sent = rows[j].sent
                           /\ rows'[j].response = rows[j].response
<1>1. PICK r \in Row : r = rows[k]
  BY DEF IInv, TypeOK
<1>2. PICK s : s = [r EXCEPT !.expired = TRUE]
  OBVIOUS
<1>3. s \in Row
  BY <1>2 DEF Row
<1>4. rows' = [rows EXCEPT ![k] = s]
  BY <1>1, <1>2 DEF LeaseExpires
<1>5. /\ s.status = r.status /\ s.inflight = r.inflight /\ s.request = r.request
      /\ s.sent = r.sent /\ s.revision = r.revision /\ s.response = r.response
  BY <1>2, RowColumns
<1>6. rows'[k] = s => RowKept(k) /\ AnswerKept(k)
  BY <1>1, <1>5 DEF RowKept, AnswerKept
<1>7. rows'[k] = s /\ \A j \in Keys \ {k} : rows'[j] = rows[j]
  BY <1>4 DEF IInv, TypeOK
<1> QED
  BY <1>1, <1>3, <1>4, <1>5, <1>6, <1>7, OneRowKept

\* The actions that leave every newest request, the projections and Discord.
Works ==
    \/ \E d \in Dispatchers, k \in Keys : Claim(d, k) \/ Resolve(d, k)
    \/ \E d \in Dispatchers : ClaimNothing(d) \/ Record(d) \/ ApplyFails(d) \/ Crash(d)
    \/ \E k \in Keys : LeaseExpires(k)

\* They leave every row so.
LEMMA WorksKept ==
    ASSUME IInv, Works
    PROVE  /\ \A j \in Keys : RowKept(j)
           /\ projections' = projections /\ remote' = remote
<1>1. ASSUME NEW d \in Dispatchers, ClaimNothing(d) PROVE \A j \in Keys : RowKept(j)
  BY <1>1, SweptKept DEF ClaimNothing
<1>2. ASSUME rows' = rows PROVE \A j \in Keys : RowKept(j)
  BY <1>2, SameKept
<1>3. \A j \in Keys : RowKept(j)
  BY <1>1, <1>2, ClaimDeliveryKept, ClaimApplicationKept, ResolveKept, RecordDeliveryKept,
     FailedKept, ApplyFailsKept, LeaseExpiresKept
     DEF Works, Claim, Record, LoseLease, Crash
<1>4. projections' = projections /\ remote' = remote
  BY DEF Works, Claim, Record, ClaimDelivery, ClaimApplication, Resolve, ClaimNothing,
         RecordDelivery, RetryDelivery, FailDelivery, LoseLease, ApplyFails, Crash, LeaseExpires
<1> QED
  BY <1>3, <1>4

\* No message is newly to be deleted when the newest requests stay.
LEMMA KeptDoomed ==
    ASSUME \A j \in Keys : RowKept(j), NEW m, Doomed(m)'
    PROVE  Doomed(m)
<1>1. PICK k \in Keys : /\ ~IsProjection(k)
                        /\ \/ rows'[k].request.target = m
                           \/ Flying(rows'[k]) /\ rows'[k].inflight.target = m
  BY DEF Doomed, IsProjection
<1>2. rows[k].request.target = m \/ (Flying(rows[k]) /\ rows[k].inflight.target = m)
  BY <1>1 DEF RowKept, Flying
<1> QED
  BY <1>1, <1>2 DEF Doomed

\* No card is touched by them.
LEMMA WorksLocal ==
    ASSUME IInv, Works, NEW p \in Projections
    PROVE  Local(p)
<1>1. CardKey(p) \in Keys
  BY CardTypes
<1>2. /\ \A j \in Keys : RowKept(j)
      /\ projections' = projections /\ remote' = remote
  BY WorksKept
<1>3. \A m \in Messages : (Doomed(m)' => Doomed(m)) /\ (Mine(p, m)' <=> Mine(p, m))
  BY <1>2, KeptDoomed DEF Mine
<1> QED
  BY <1>1, <1>2, <1>3 DEF Local, Calm

-----------------------------------------------------------------------------
(* Discord changes. *)

\* What a dispatcher sends is the request in flight; for a card it is one for a
\* card, and else it deletes a message that there is.
LEMMA SendingRow ==
    ASSUME IInv, ShownInv, NEW d \in Dispatchers, held[d] # None, held[d].phase # "apply"
    PROVE  /\ held[d].key \in Keys /\ held[d].request \in Request
           /\ rows[held[d].key].status = "sending"
           /\ rows[held[d].key].inflight = held[d].request
           /\ Flying(rows[held[d].key])
           /\ IsProjection(held[d].key) =>
                 /\ held[d].key[2] \in Projections /\ held[d].key = CardKey(held[d].key[2])
                 /\ CardRequest(held[d].request)
           /\ ~IsProjection(held[d].key) =>
                 /\ held[d].request.op = "delete" /\ held[d].request.target \in Messages
                 /\ Doomed(held[d].request.target)
<1>1. /\ held[d].key \in Keys /\ held[d].request \in Request
      /\ rows[held[d].key].status = "sending"
      /\ rows[held[d].key].inflight = held[d].request
  BY HeldItem DEF ShownInv, HoldsRow
<1>2. Flying(rows[held[d].key])
  BY <1>1 DEF IInv, TypeOK, InFlight, Flying
<1>3. ASSUME IsProjection(held[d].key)
      PROVE  /\ held[d].key[2] \in Projections /\ held[d].key = CardKey(held[d].key[2])
             /\ CardRequest(held[d].request)
  <2>1. held[d].key[2] \in Projections /\ held[d].key = CardKey(held[d].key[2])
    BY <1>1, <1>3, KeyTypes DEF CardKey
  <2> QED
    BY <1>1, <1>2, <2>1 DEF ShownInv, CardOK, KindsOK, Card
<1>4. ~IsProjection(held[d].key) =>
         /\ held[d].request.op = "delete" /\ held[d].request.target \in Messages
         /\ Doomed(held[d].request.target)
  BY <1>1, <1>2 DEF ShownInv, DeletesOK, Doomed
<1> QED
  BY <1>1, <1>2, <1>3, <1>4

\* Nothing but Discord changes, and this card has the same messages as before.
LEMMA SentLocal ==
    ASSUME IInv, NEW p \in Projections, rows' = rows, projections' = projections,
           \A m \in Messages : /\ Mine(p, m)' <=> Mine(p, m)
                               /\ Mine(p, m) => /\ remote'[m].version = remote[m].version
                                                /\ \/ remote'[m].state = remote[m].state
                                                   \/ Doomed(m)
    PROVE  Local(p)
<1>1. RowKept(CardKey(p))
  BY CardTypes, SameKept
<1>2. \A m \in Messages : Doomed(m)' <=> Doomed(m)
  BY DEF Doomed, IsProjection
<1> QED
  BY <1>1, <1>2 DEF Local, Calm

\* A message that is deleted is no card's any more.
LEMMA DeleteLocal ==
    ASSUME IInv, ShownInv, NEW d \in Dispatchers, SendDelete(d), NEW p \in Projections
    PROVE  Local(p)
<1>1. /\ held[d] # None /\ held[d].phase = "deliver" /\ held[d].request.op = "delete"
  BY DEF SendDelete, Sending
<1>2. PICK t \in Messages : t = held[d].request.target /\ Doomed(t)
  BY <1>1, SendingRow DEF CardRequest
<1>3. remote' = [remote EXCEPT ![t].state = "deleted"]
  BY <1>2 DEF SendDelete
<1>4. remote[t].state # "absent"
  BY <1>2 DEF ShownInv, DeletesOK
<1>5. PICK x : x = [remote[t] EXCEPT !.state = "deleted"]
  OBVIOUS
<1>6. /\ x.state = "deleted" /\ x.version = remote[t].version /\ x.nonce = remote[t].nonce
  BY <1>5 DEF IInv, RemoteOK
<1>7. remote'[t] = x /\ \A m \in Messages \ {t} : remote'[m] = remote[m]
  BY <1>3, <1>5 DEF IInv, RemoteOK
<1>8. \A m \in Messages : /\ Mine(p, m)' <=> Mine(p, m)
                          /\ Mine(p, m) => /\ remote'[m].version = remote[m].version
                                           /\ \/ remote'[m].state = remote[m].state
                                              \/ Doomed(m)
  BY <1>2, <1>4, <1>6, <1>7 DEF Mine
<1> QED
  BY <1>8, SentLocal DEF SendDelete, CarriedOut

\* Without its memory of nonces, Discord makes a new message.
LEMMA PostFresh ==
    ASSUME IInv, ~NonceWindow, NEW d \in Dispatchers, NEW v, NEW nonce, Post(d, v, nonce)
    PROVE  \E m \in Messages :
              /\ remote[m].state = "absent"
              /\ remote'[m] = [state |-> "shown", version |-> v, nonce |-> nonce]
              /\ \A n \in Messages \ {m} : remote'[n] = remote[n]
              /\ CarriedOut(d, m)
<1>1. Remembered(nonce) = {}
  BY DEF Remembered
<1>2. PICK m \in Messages :
         /\ \A n \in Messages : remote[n].state = "absent" <=> n >= m
         /\ remote' = [remote EXCEPT ![m] = [state |-> "shown", version |-> v,
                                             nonce |-> nonce]]
         /\ CarriedOut(d, m)
  BY <1>1 DEF Post
<1>3. remote[m].state = "absent"
  BY <1>2, MessagesAssumption
<1> QED
  BY <1>2, <1>3 DEF IInv, RemoteOK

\* A message made for one card is not another's.
LEMMA PostLocal ==
    ASSUME IInv, ~NonceWindow, NEW d \in Dispatchers, NEW v, NEW nonce, Post(d, v, nonce),
           NEW p \in Projections, nonce[1] # p
    PROVE  Local(p)
<1>1. PICK m \in Messages :
         /\ remote[m].state = "absent"
         /\ remote'[m] = [state |-> "shown", version |-> v, nonce |-> nonce]
         /\ \A n \in Messages \ {m} : remote'[n] = remote[n]
         /\ CarriedOut(d, m)
  BY PostFresh
<1>2. ~Mine(p, m) /\ ~Mine(p, m)'
  BY <1>1 DEF Mine
<1>3. \A n \in Messages \ {m} : Mine(p, n)' <=> Mine(p, n)
  BY <1>1 DEF Mine
<1>4. \A n \in Messages : /\ Mine(p, n)' <=> Mine(p, n)
                          /\ Mine(p, n) => /\ remote'[n].version = remote[n].version
                                           /\ remote'[n].state = remote[n].state
  BY <1>1, <1>2, <1>3
<1> QED
  BY <1>1, <1>4, SentLocal DEF CarriedOut

\* A message made for a card has the version in flight, and is unclaimed.
LEMMA PostCard ==
    ASSUME IInv, DeletesOK, ~NonceWindow, NEW p \in Projections, CardOK(p),
           NEW d \in Dispatchers, NEW nonce, nonce[1] = p, Flying(Card(p)),
           Post(d, Card(p).inflight.version, nonce)
    PROVE  /\ CardOK(p)' /\ Calm(p)
           /\ \E m \in Messages :
                 /\ CarriedOut(d, m) /\ Unclaimed(p, m)'
                 /\ remote'[m].version = Card(p).inflight.version
<1>1. PICK m \in Messages :
         /\ remote[m].state = "absent"
         /\ remote'[m] = [state |-> "shown", version |-> Card(p).inflight.version,
                          nonce |-> nonce]
         /\ \A n \in Messages \ {m} : remote'[n] = remote[n]
         /\ CarriedOut(d, m)
  BY PostFresh
<1>2. rows' = rows /\ projections' = projections /\ Card(p)' = Card(p)
  BY <1>1 DEF CarriedOut, Card
<1>3. \A n \in Messages : Doomed(n)' <=> Doomed(n)
  BY <1>2 DEF Doomed, IsProjection
<1>4. /\ KindsOK(p) /\ VersionsOK(p) /\ OwnedOK(p) /\ FreshOK(p) /\ ShownOK(p)
  BY DEF CardOK
<1>5. /\ Card(p).inflight.target \in Messages \cup {None}
      /\ projections[p].message \in Messages \cup {None}
      /\ Flying(Card(p)) <=> Card(p).status \in InFlight
      /\ Card(p).request.target \in Messages \cup {None}
  BY CardTypes
<1>6. ~Mine(p, m) /\ Mine(p, m)' /\ ~Doomed(m)
  BY <1>1 DEF Mine, DeletesOK
<1>7. \A n \in Messages \ {m} : Mine(p, n)' <=> Mine(p, n)
  BY <1>1 DEF Mine
<1>8. Calm(p)
  BY <1>1, <1>2, <1>3, <1>6, <1>7 DEF Calm
<1>9. m # projections[p].message /\ m # Card(p).inflight.target
  BY <1>4, <1>6, NoneAssumption DEF OwnedOK
<1>10. Unclaimed(p, m)'
  BY <1>1, <1>2, <1>3, <1>6, <1>9 DEF Unclaimed
<1>11. KindsOK(p)' /\ VersionsOK(p)'
  BY <1>2, <1>4 DEF KindsOK, VersionsOK
<1>12. OwnedOK(p)'
  <2>1. Card(p).inflight.version <= projections[p].desired
    BY <1>4, <1>5 DEF VersionsOK, InFlight
  <2>2. \A n \in Messages : Mine(p, n)' => remote'[n].version <= projections[p].desired
    BY <1>1, <1>4, <1>7, <2>1 DEF OwnedOK
  <2> SUFFICES ASSUME NEW n \in Messages
               PROVE  /\ Mine(p, n)' => remote'[n].version <= projections[p].desired
                      /\ projections[p].message = n =>
                            Mine(p, n)' /\ ~Doomed(n)' /\ remote'[n].state = "shown"
                      /\ Card(p).inflight.target = n => Mine(p, n)'
                      /\ Card(p).request.target = n => Mine(p, n)'
    BY <1>2 DEF OwnedOK
  <2>3. /\ projections[p].message = n =>
              Mine(p, n) /\ ~Doomed(n) /\ remote[n].state = "shown"
        /\ Card(p).inflight.target = n => Mine(p, n)
        /\ Card(p).request.target = n => Mine(p, n)
    BY <1>4 DEF OwnedOK
  <2>4. Mine(p, n) => Mine(p, n)' /\ n # m
    BY <1>6, <1>7
  <2> QED
    BY <1>1, <1>3, <2>2, <2>3, <2>4
<1>13. FreshOK(p)'
  <2> SUFFICES ASSUME NEW n \in Messages \ {m}, Mine(p, n)',
                      \/ /\ Flying(Card(p)) /\ Card(p).inflight.op = "create"
                         /\ Card(p).inflight.version = remote'[n].version
                      \/ /\ Card(p).status # "completed" /\ Card(p).request.op = "create"
                         /\ Card(p).request.version = remote'[n].version
               PROVE  Unclaimed(p, n)'
    BY <1>2, <1>10 DEF FreshOK
  <2>1. Unclaimed(p, n)
    BY <1>1, <1>4, <1>7 DEF FreshOK
  <2> QED
    BY <1>2, <1>8, <2>1, UnclaimedStays DEF Unclaimed
<1>14. ShownOK(p)'
  BY <1>1, <1>2, <1>4, <1>9 DEF ShownOK
<1> QED
  BY <1>1, <1>8, <1>10, <1>11, <1>12, <1>13, <1>14 DEF CardOK

\* An update brings the message to the version in flight.
LEMMA UpdateCard ==
    ASSUME IInv, NEW p \in Projections, CardOK(p), Flying(Card(p)),
           Card(p).inflight.op = "update", NEW d \in Dispatchers,
           rows' = rows, projections' = projections,
           remote' = [remote EXCEPT
               ![Card(p).inflight.target].version = Card(p).inflight.version]
    PROVE  /\ CardOK(p)'
           /\ remote'[Card(p).inflight.target].version = Card(p).inflight.version
           /\ \A q \in Projections \ {p} : Local(q)
<1> DEFINE row == Card(p)
<1>1. /\ KindsOK(p) /\ VersionsOK(p) /\ OwnedOK(p) /\ FreshOK(p) /\ ShownOK(p)
  BY DEF CardOK
<1>2. /\ Card(p).request.version \in Nat /\ Card(p).inflight.version \in Nat
      /\ projections[p].message \in Messages \cup {None} /\ CardKey(p) \in Keys
      /\ Card(p).status \in InFlight
  BY CardTypes
<1>3. PICK t \in Messages : t = Card(p).inflight.target /\ Mine(p, t)
  BY <1>1, NoneAssumption DEF KindsOK, CardRequest, OwnedOK
<1>4. Card(p)' = Card(p)
  BY DEF Card
<1>5. PICK x : x = [remote[t] EXCEPT !.version = Card(p).inflight.version]
  OBVIOUS
<1>6. /\ x.state = remote[t].state /\ x.version = Card(p).inflight.version
      /\ x.nonce = remote[t].nonce
  BY <1>5 DEF IInv, RemoteOK
<1>7. remote'[t] = x /\ \A m \in Messages \ {t} : remote'[m] = remote[m]
  BY <1>3, <1>5 DEF IInv, RemoteOK
<1>8. \A q \in Projections, m \in Messages : Mine(q, m)' <=> Mine(q, m)
  BY <1>6, <1>7 DEF Mine
<1>9. \A m \in Messages : Doomed(m)' <=> Doomed(m)
  BY DEF Doomed, IsProjection
<1>10. \A m \in Messages : Unclaimed(p, m)' <=> Unclaimed(p, m)
  BY <1>4, <1>6, <1>7, <1>8, <1>9 DEF Unclaimed
<1>11. KindsOK(p)' /\ VersionsOK(p)'
  BY <1>1, <1>4 DEF KindsOK, VersionsOK
<1>12. OwnedOK(p)'
  <2>1. Card(p).inflight.version <= projections[p].desired
    BY <1>1, <1>2 DEF VersionsOK, InFlight
  <2>2. \A m \in Messages : Mine(p, m)' => remote'[m].version <= projections[p].desired
    BY <1>1, <1>6, <1>7, <1>8, <2>1 DEF OwnedOK
  <2> SUFFICES ASSUME NEW m \in Messages
               PROVE  /\ Mine(p, m)' => remote'[m].version <= projections[p].desired
                      /\ projections[p].message = m =>
                            Mine(p, m)' /\ ~Doomed(m)' /\ remote'[m].state = "shown"
                      /\ Card(p).inflight.target = m => Mine(p, m)'
                      /\ Card(p).request.target = m => Mine(p, m)'
    BY <1>4 DEF OwnedOK
  <2>3. /\ projections[p].message = m =>
              Mine(p, m) /\ ~Doomed(m) /\ remote[m].state = "shown"
        /\ Card(p).request.target = m => Mine(p, m)
    BY <1>1 DEF OwnedOK
  <2>4. remote'[m].state = remote[m].state
    BY <1>6, <1>7
  <2> QED
    BY <1>3, <1>8, <1>9, <2>2, <2>3, <2>4
<1>13. FreshOK(p)'
  <2> SUFFICES ASSUME NEW m \in Messages, Mine(p, m)',
                      /\ Card(p).status # "completed" /\ Card(p).request.op = "create"
                      /\ Card(p).request.version = remote'[m].version
               PROVE  Unclaimed(p, m)'
    BY <1>4 DEF FreshOK
  <2>1. CASE m # t
    BY <1>1, <1>7, <1>8, <1>10, <2>1 DEF FreshOK
  <2>2. CASE m = t
    <3>1. Card(p).request.version = Card(p).inflight.version
      BY <1>6, <1>7, <2>2
    <3>2. Card(p).revision = Card(p).sent
      BY <1>1, <1>2, <3>1 DEF VersionsOK
    <3>3. Card(p).request = Card(p).inflight
      BY <1>2, <3>2 DEF IInv, RowsOK, Card
    <3> QED
      BY <3>3
  <2> QED
    BY <2>1, <2>2
<1>14. ShownOK(p)'
  BY <1>2, <1>4 DEF ShownOK, InFlight
<1>15. ASSUME NEW q \in Projections \ {p} PROVE Local(q)
  <2>1. ~Mine(q, t)
    BY <1>3 DEF Mine
  <2> QED
    BY <1>7, <1>8, <2>1, SentLocal
<1>16. remote'[Card(p).inflight.target].version = Card(p).inflight.version
  BY <1>3, <1>6, <1>7
<1> QED
  BY <1>11, <1>12, <1>13, <1>14, <1>15, <1>16 DEF CardOK

-----------------------------------------------------------------------------
(* Control changes what it wants shown. *)

\* A new version is newer than every message of the card.
LEMMA ProjectCard ==
    ASSUME IInv, NEW p \in Projections, CardOK(p), Project(p)
    PROVE  /\ CardOK(p)' /\ Calm(p)
           /\ \A j \in Keys : AnswerKept(j)
           /\ \A q \in Projections \ {p} : Local(q)
<1> DEFINE row == Card(p)
<1> DEFINE new == rows'[CardKey(p)]
<1> DEFINE v == projections[p].desired + 1
<1>1. /\ KindsOK(p) /\ VersionsOK(p) /\ OwnedOK(p) /\ FreshOK(p) /\ ShownOK(p)
  BY DEF CardOK
<1>2. /\ row.request.version \in Nat /\ row \in Row /\ projections[p].desired \in Nat
      /\ projections[p].message \in Messages \cup {None} /\ CardKey(p) \in Keys
      /\ Flying(row) => row.inflight.version \in Nat
      /\ IsProjection(CardKey(p))
      /\ Flying(row) <=> row.status \in InFlight
  BY CardTypes
<1>3. PICK q \in Request :
         /\ q = IF projections[p].message = None THEN Create(v)
                ELSE Update(v, projections[p].message)
         /\ rows' = Enqueued(rows, CardKey(p), q)
  <2>1. v \in Nat
    BY <1>2
  <2> QED
    BY <1>2, <2>1, RequestTypes DEF Project, CardKey
<1>4. q.version = v /\ q.target = projections[p].message /\ CardRequest(q)
      /\ (q.target = None <=> q.op = "create")
  BY <1>2, <1>3, NoneAssumption DEF Create, Update, CardRequest
<1>5. \A j \in Keys \ {CardKey(p)} : rows'[j] = rows[j]
  BY <1>3, EnqueuedOthers DEF IInv, TypeOK
<1>6. /\ new.request = q /\ new.status \notin {"absent", "completed"}
      /\ Flying(new) => Flying(row) /\ new.inflight = row.inflight
      /\ new.status = "ambiguous" => row.status = "ambiguous" /\ new.inflight = row.inflight
      /\ AnswerKept(CardKey(p))
  <2>1. CASE row.status \in InFlight
    <3>1. /\ new.status = row.status /\ new.inflight = row.inflight
          /\ new.response = row.response /\ new.request = q
      BY <1>2, <1>3, <2>1, EnqueuedBusy DEF Card, IInv, TypeOK
    <3> QED
      BY <1>2, <2>1, <3>1 DEF AnswerKept, InFlight, Card
  <2>2. CASE row.status \notin InFlight
    <3>1. row.inflight = None
      BY <1>2, <2>2 DEF Flying
    <3>2. new.status = "pending" /\ new.request = q /\ new.inflight = None
      BY <1>2, <1>3, <2>2, <3>1, EnqueuedIdle DEF Card, IInv, TypeOK
    <3> QED
      BY <2>2, <3>1, <3>2 DEF AnswerKept, Flying
  <2> QED
    BY <2>1, <2>2
<1>7. /\ projections'[p].exists /\ projections'[p].message = projections[p].message
      /\ projections'[p].desired = v /\ remote' = remote
      /\ \A r \in Projections \ {p} : projections'[r] = projections[r]
  BY DEF Project, IInv, TypeOK
<1>8. \A m \in Messages : Doomed(m)' <=> Doomed(m)
  <2>1. \A j \in Keys : ~IsProjection(j) => rows'[j] = rows[j]
    BY <1>2, <1>5
  <2> QED
    BY <2>1 DEF Doomed, IsProjection
<1>9. \A r \in Projections, m \in Messages : Mine(r, m)' <=> Mine(r, m)
  BY <1>7 DEF Mine
<1>10. Calm(p)
  BY <1>7, <1>8, <1>9 DEF Calm
<1>11. Flying(row) => row.inflight.version <= projections[p].desired
  BY <1>1, <1>2 DEF VersionsOK, InFlight
<1>12. Card(p)' = new
  BY DEF Card
<1> HIDE DEF new, v
<1>13. KindsOK(p)'
  BY <1>1, <1>4, <1>6, <1>12 DEF KindsOK
<1>14. VersionsOK(p)'
  <2>1. v \in Nat /\ v > 0 /\ v > projections[p].desired
    BY <1>2 DEF v
  <2>2. Flying(new) =>
          /\ 0 < new.inflight.version /\ new.inflight.version < v
          /\ projections[p].message \in {None, new.inflight.target}
    BY <1>1, <1>2, <1>6, <1>11, <2>1 DEF VersionsOK
  <2>3. Flying(new) => new.inflight.version <= v
    BY <1>2, <1>6, <2>1, <2>2
  <2> QED
    BY <1>4, <1>6, <1>7, <1>12, <2>1, <2>2, <2>3 DEF VersionsOK
<1>15. OwnedOK(p)'
  <2> SUFFICES ASSUME NEW m \in Messages
               PROVE  /\ Mine(p, m)' => remote'[m].version <= v
                      /\ projections[p].message = m =>
                            Mine(p, m)' /\ ~Doomed(m)' /\ remote'[m].state = "shown"
                      /\ Flying(new) /\ new.inflight.target = m => Mine(p, m)'
                      /\ q.target = m => Mine(p, m)'
    BY <1>6, <1>7, <1>12 DEF OwnedOK
  <2>1. /\ Mine(p, m) => remote[m].version <= projections[p].desired
        /\ projections[p].message = m =>
              Mine(p, m) /\ ~Doomed(m) /\ remote[m].state = "shown"
        /\ Flying(row) /\ row.inflight.target = m => Mine(p, m)
    BY <1>1 DEF OwnedOK
  <2>2. Mine(p, m)' => remote'[m].version <= v
    BY <1>2, <1>7, <1>9, <2>1, MessageTypes DEF v
  <2> QED
    BY <1>4, <1>6, <1>7, <1>8, <1>9, <2>1, <2>2
<1>16. FreshOK(p)'
  <2> SUFFICES ASSUME NEW m \in Messages, Mine(p, m)',
                      \/ /\ Flying(new) /\ new.inflight.op = "create"
                         /\ new.inflight.version = remote'[m].version
                      \/ q.version = remote'[m].version
               PROVE  Unclaimed(p, m)'
    BY <1>6, <1>12 DEF FreshOK
  <2>1. Mine(p, m) /\ remote[m].version <= projections[p].desired
    BY <1>1, <1>9 DEF OwnedOK
  <2>2. remote[m].version # v
    BY <1>2, <2>1, MessageTypes DEF v
  <2>3. Flying(row) /\ row.inflight.op = "create" /\ row.inflight.version = remote[m].version
    BY <1>4, <1>6, <1>7, <2>2
  <2>4. Unclaimed(p, m)
    BY <1>1, <2>1, <2>3 DEF FreshOK
  <2> QED
    BY <1>6, <1>10, <1>12, <2>4, UnclaimedStays DEF Unclaimed
<1>17. ShownOK(p)'
  BY <1>6, <1>12 DEF ShownOK
<1>18. \A j \in Keys : AnswerKept(j)
  BY <1>5, <1>6, SameKept
<1>20. ASSUME NEW r \in Projections \ {p} PROVE Local(r)
  <2>1. CardKey(r) \in Keys \ {CardKey(p)}
    BY CardTypes DEF CardKey
  <2>2. RowKept(CardKey(r))
    BY <1>5, <2>1, SameKept
  <2> QED
    BY <1>7, <1>8, <1>9, <2>2 DEF Local, Calm
<1> QED
  BY <1>10, <1>13, <1>14, <1>15, <1>16, <1>17, <1>18, <1>20 DEF CardOK

\* A row that deletes a message adds only this one to those that are to go.
LEMMA DeleteEnqueued ==
    ASSUME NEW rs \in [Keys -> Row], NEW c \in Keys, ~IsProjection(c), NEW x \in Messages,
           rows' = Enqueued(rs, c, Delete(x)),
           rs[c].status \notin InFlight => rs[c].inflight = None,
           \A j \in Keys : ~IsProjection(j) =>
              /\ rs[j].request = rows[j].request
              /\ Flying(rs[j]) => Flying(rows[j]) /\ rs[j].inflight = rows[j].inflight
    PROVE  /\ \A j \in Keys : IsProjection(j) => rows'[j] = rs[j]
           /\ \A m : Doomed(m)' => Doomed(m) \/ m = x
           /\ rows'[c].status # "absent" /\ rows'[c].request = Delete(x)
           /\ \A j \in Keys : Flying(rows'[j]) => /\ Flying(rs[j])
                                                  /\ rows'[j].inflight = rs[j].inflight
           /\ \A j \in Keys \ {c} : rows'[j] = rs[j]
<1>1. Delete(x) \in Request /\ Delete(x).target = x
  BY RequestTypes DEF Delete
<1>2. \A j \in Keys \ {c} : rows'[j] = rs[j]
  BY <1>1, EnqueuedOthers
<1>3. /\ rows'[c].status # "absent" /\ rows'[c].request = Delete(x)
      /\ Flying(rows'[c]) => Flying(rs[c]) /\ rows'[c].inflight = rs[c].inflight
  <2>1. CASE rs[c].status \in InFlight
    <3>1. rows'[c].status = rs[c].status /\ rows'[c].request = Delete(x)
          /\ rows'[c].inflight = rs[c].inflight
      BY <1>1, <2>1, EnqueuedBusy
    <3> QED
      BY <2>1, <3>1 DEF InFlight, Flying
  <2>2. CASE rs[c].status \notin InFlight
    <3>1. rows'[c].status = "pending" /\ rows'[c].request = Delete(x)
          /\ rows'[c].inflight = None
      BY <1>1, <2>2, EnqueuedIdle
    <3> QED
      BY <3>1 DEF Flying
  <2> QED
    BY <2>1, <2>2
<1>4. ASSUME NEW m, Doomed(m)' PROVE Doomed(m) \/ m = x
  <2>1. PICK k \in Keys : /\ ~IsProjection(k)
                          /\ \/ rows'[k].request.target = m
                             \/ Flying(rows'[k]) /\ rows'[k].inflight.target = m
    BY <1>4 DEF Doomed, IsProjection
  <2>2. \/ rows[k].request.target = m \/ m = x
        \/ Flying(rows[k]) /\ rows[k].inflight.target = m
    BY <1>1, <1>2, <1>3, <2>1
  <2> QED
    BY <2>1, <2>2 DEF Doomed
<1> QED
  BY <1>2, <1>3, <1>4

\* The deletes stay in order when such a row is added.
LEMMA DeletesAdded ==
    ASSUME DeletesOK, NEW rs \in [Keys -> Row], NEW c \in Keys, ~IsProjection(c),
           NEW x \in Messages, remote[x].state # "absent", remote' = remote,
           rows' = Enqueued(rs, c, Delete(x)),
           rs[c].status \notin InFlight => rs[c].inflight = None,
           \A j \in Keys : ~IsProjection(j) =>
              /\ rs[j].request = rows[j].request
              /\ rs[j].status = "absent" => rows[j].status = "absent"
              /\ rows[j].status = "absent" => rs[j].status = "absent"
              /\ Flying(rs[j]) => Flying(rows[j]) /\ rs[j].inflight = rows[j].inflight
    PROVE  DeletesOK'
<1>1. /\ \A m : Doomed(m)' => Doomed(m) \/ m = x
      /\ rows'[c].request = Delete(x)
      /\ \A j \in Keys : Flying(rows'[j]) => /\ Flying(rs[j])
                                             /\ rows'[j].inflight = rs[j].inflight
      /\ \A j \in Keys \ {c} : rows'[j] = rs[j]
  BY DeleteEnqueued
<1>2. Delete(x).op = "delete" /\ Delete(x).target = x
  BY DEF Delete
<1>3. \A m \in Messages : Doomed(m)' => remote'[m].state # "absent"
  BY <1>1 DEF DeletesOK
<1>4. ASSUME NEW k \in Keys, ~IsProjection(k)
      PROVE  /\ rows'[k].status # "absent" =>
                   rows'[k].request.op = "delete" /\ rows'[k].request.target \in Messages
             /\ Flying(rows'[k]) =>
                   rows'[k].inflight.op = "delete" /\ rows'[k].inflight.target \in Messages
  BY <1>1, <1>2, <1>4 DEF DeletesOK
<1> QED
  BY <1>3, <1>4 DEF DeletesOK, IsProjection

\* A card that is not wanted any more gives its message up.
LEMMA DropCard ==
    ASSUME IInv, DeletesOK, NEW p \in Projections, CardOK(p), Drop(p)
    PROVE  /\ CardOK(p)' /\ Calm(p) /\ DeletesOK'
           /\ \A j \in Keys : IsProjection(j) => rows'[j] = rows[j]
           /\ \A q \in Projections \ {p} : Local(q)
<1>1. /\ KindsOK(p) /\ VersionsOK(p) /\ OwnedOK(p) /\ FreshOK(p) /\ ShownOK(p)
  BY DEF CardOK
<1>2. /\ projections[p].message \in Messages \cup {None} /\ rows \in [Keys -> Row]
      /\ <<"projection-delete", p>> \in Keys /\ ~IsProjection(<<"projection-delete", p>>)
  BY KeyTypes DEF IInv, TypeOK, IsProjection
<1>3. /\ remote' = remote /\ ~projections'[p].exists /\ projections'[p].message = None
      /\ projections'[p].desired = projections[p].desired
      /\ \A r \in Projections \ {p} : projections'[r] = projections[r]
  BY DEF Drop, IInv, TypeOK
<1>4. /\ \A j \in Keys : IsProjection(j) => rows'[j] = rows[j]
      /\ \A m \in Messages : Doomed(m)' => Doomed(m) \/ m = projections[p].message
      /\ DeletesOK'
  <2>1. ASSUME rows' = rows
        PROVE  /\ \A j \in Keys : IsProjection(j) => rows'[j] = rows[j]
               /\ \A m \in Messages : Doomed(m)' => Doomed(m) \/ m = projections[p].message
               /\ DeletesOK'
    BY <1>3, <2>1 DEF Doomed, DeletesOK, IsProjection
  <2>2. CASE projections[p].message # None
    <3>1. PICK c \in Keys, x \in Messages :
             /\ ~IsProjection(c) /\ x = projections[p].message
             /\ rows' = Enqueued(rows, c, Delete(x))
      BY <1>2, <2>2 DEF Drop
    <3>2. remote[x].state # "absent"
      BY <1>1, <3>1 DEF OwnedOK
    <3>3. rows[c].status \notin InFlight => rows[c].inflight = None
      BY DEF IInv, TypeOK
    <3>4. /\ \A j \in Keys : IsProjection(j) => rows'[j] = rows[j]
          /\ \A m : Doomed(m)' => Doomed(m) \/ m = x
      BY <1>2, <3>1, <3>3, DeleteEnqueued
    <3>5. DeletesOK'
      BY <1>2, <1>3, <3>1, <3>2, <3>3, DeletesAdded
    <3> QED
      BY <3>1, <3>4, <3>5
  <2> QED
    BY <2>1, <2>2 DEF Drop
<1>5. \A r \in Projections, m \in Messages : Mine(r, m)' <=> Mine(r, m)
  BY <1>3 DEF Mine
<1>6. Card(p)' = Card(p)
  BY <1>4, CardTypes DEF Card
<1>7. Calm(p)
  BY <1>3, <1>4, <1>5 DEF Calm
<1>8. KindsOK(p)' /\ VersionsOK(p)' /\ ShownOK(p)'
  BY <1>1, <1>3, <1>6 DEF KindsOK, VersionsOK, ShownOK
<1>9. OwnedOK(p)'
  BY <1>1, <1>3, <1>5, <1>6, NoneAssumption DEF OwnedOK
<1>10. FreshOK(p)'
  <2> SUFFICES ASSUME NEW m \in Messages, Mine(p, m)',
                      \/ /\ Flying(Card(p)) /\ Card(p).inflight.op = "create"
                         /\ Card(p).inflight.version = remote'[m].version
                      \/ /\ Card(p).status # "completed" /\ Card(p).request.op = "create"
                         /\ Card(p).request.version = remote'[m].version
               PROVE  Unclaimed(p, m)'
    BY <1>6 DEF FreshOK
  <2>1. Unclaimed(p, m)
    BY <1>1, <1>3, <1>5 DEF FreshOK
  <2> QED
    BY <1>6, <1>7, <2>1, UnclaimedStays DEF Unclaimed
<1>11. ASSUME NEW r \in Projections \ {p} PROVE Local(r)
  <2>1. RowKept(CardKey(r))
    BY <1>4, CardTypes, SameKept
  <2>2. \A m \in Messages : Mine(r, m) /\ Doomed(m)' => Doomed(m)
    <3>1. \A m \in Messages : Mine(r, m) => m # projections[p].message
      BY <1>1 DEF OwnedOK, Mine
    <3> QED
      BY <1>4, <3>1
  <2> QED
    BY <1>3, <1>5, <2>1, <2>2 DEF Local, Calm
<1> QED
  BY <1>4, <1>7, <1>8, <1>9, <1>10, <1>11 DEF CardOK

-----------------------------------------------------------------------------
(* An answer is applied. *)

\* What is applied is the answer to the request in flight.
LEMMA ApplyingRow ==
    ASSUME IInv, ShownInv, NEW d \in Dispatchers, held[d] # None, held[d].phase = "apply"
    PROVE  /\ held[d].key \in Keys
           /\ held[d].answer \in Messages \cup {None}
           /\ rows[held[d].key].status = "applying"
           /\ rows[held[d].key].inflight = held[d].request
           /\ rows[held[d].key].sent = held[d].revision
           /\ Flying(rows[held[d].key])
           /\ IsProjection(held[d].key) =>
                 /\ held[d].key[2] \in Projections /\ held[d].key = CardKey(held[d].key[2])
                 /\ CardRequest(held[d].request)
                 /\ AnswerFits(held[d].key[2], held[d].answer)
           /\ ~IsProjection(held[d].key) => held[d].request.op = "delete"
<1>1. /\ held[d].key \in Keys
      /\ held[d].answer \in Messages \cup {None}
      /\ rows[held[d].key].status = "applying"
      /\ rows[held[d].key].inflight = held[d].request
      /\ rows[held[d].key].sent = held[d].revision
      /\ rows[held[d].key].response = held[d].answer
  BY HeldItem DEF ShownInv, HoldsRow
<1>2. Flying(rows[held[d].key])
  BY <1>1 DEF IInv, TypeOK, InFlight, Flying
<1>3. ASSUME IsProjection(held[d].key)
      PROVE  /\ held[d].key[2] \in Projections /\ held[d].key = CardKey(held[d].key[2])
             /\ CardRequest(held[d].request)
             /\ AnswerFits(held[d].key[2], held[d].answer)
  <2>1. held[d].key[2] \in Projections /\ held[d].key = CardKey(held[d].key[2])
    BY <1>1, <1>3, KeyTypes DEF CardKey
  <2>2. CardRequest(held[d].request)
    BY <1>1, <1>2, <2>1 DEF ShownInv, CardOK, KindsOK, Card
  <2>3. AnswerFits(held[d].key[2], held[d].answer)
    BY <1>1, <2>1 DEF ShownInv, AnswersOK, Card
  <2> QED
    BY <2>1, <2>2, <2>3
<1>4. ~IsProjection(held[d].key) => held[d].request.op = "delete"
  BY <1>1, <1>2 DEF ShownInv, DeletesOK
<1> QED
  BY <1>1, <1>2, <1>3, <1>4

\* The row is finished, and the message nobody shows any more is to be deleted.
LEMMA ApplyRows ==
    ASSUME IInv, ShownInv, NEW d \in Dispatchers, Apply(d)
    PROVE  LET k == held[d].key IN
           /\ \A j \in Keys : IsProjection(j) =>
                 rows'[j] = IF j = k THEN Finished(d) ELSE rows[j]
           /\ DeletesOK'
           /\ \A m : Doomed(m)' =>
                 \/ Doomed(m)
                 \/ IsProjection(k) /\ Made(d) /\ Gone(d) /\ m = held[d].answer
                 \/ IsProjection(k) /\ Replaced(d) /\ m = held[d].request.target
<1>1. PICK k \in Keys :
         /\ k = held[d].key /\ held[d] # None /\ held[d].phase = "apply"
         /\ rows[k].status = "applying" /\ rows[k].inflight = held[d].request
         /\ Flying(rows[k])
  BY ApplyingRow DEF Apply, Answered
<1>2. PICK F \in Row : F = Finished(d)
  BY FinishedRow
<1>3. /\ F.inflight = None /\ F.status \in {"completed", "pending"}
      /\ F.request = rows[k].request \/ Made(d) \/ Replaced(d)
  BY <1>1, <1>2, FinishedRow
<1>4. PICK rs : rs = [rows EXCEPT ![k] = F]
  OBVIOUS
<1>5. /\ rs \in [Keys -> Row] /\ rs[k] = F
      /\ \A j \in Keys \ {k} : rs[j] = rows[j]
  BY <1>4, RowReplaced DEF IInv, TypeOK
<1>6. rows' = CleanedUp(rs, d) /\ remote' = remote
  BY <1>1, <1>2, <1>4 DEF Apply
<1>7. (Made(d) \/ Replaced(d)) => IsProjection(k)
  BY <1>1, ApplyingRow DEF Made, Replaced
<1>8. \A j \in Keys : ~IsProjection(j) =>
              /\ rs[j].request = rows[j].request
              /\ rs[j].status = "absent" => rows[j].status = "absent"
              /\ rows[j].status = "absent" => rs[j].status = "absent"
              /\ Flying(rs[j]) => Flying(rows[j]) /\ rs[j].inflight = rows[j].inflight
  <2>1. ~IsProjection(k) =>
           /\ F.request = rows[k].request /\ F.status # "absent" /\ rows[k].status # "absent"
           /\ ~Flying(F)
    BY <1>1, <1>3, <1>7 DEF Flying
  <2> QED
    BY <1>5, <2>1
<1>9. \A j \in Keys : rs[j].status \notin InFlight => rs[j].inflight = None
  BY <1>3, <1>5 DEF IInv, TypeOK
<1>10. ASSUME NEW c \in Keys, ~IsProjection(c), NEW x \in Messages,
              remote[x].state # "absent", rows' = Enqueued(rs, c, Delete(x))
       PROVE  /\ \A j \in Keys : IsProjection(j) => rows'[j] = rs[j]
              /\ DeletesOK'
              /\ \A m : Doomed(m)' => Doomed(m) \/ m = x
  <2>1. DeletesOK'
    BY <1>5, <1>6, <1>8, <1>9, <1>10, DeletesAdded DEF ShownInv
  <2>2. /\ \A j \in Keys : IsProjection(j) => rows'[j] = rs[j]
        /\ \A m : Doomed(m)' => Doomed(m) \/ m = x
    BY <1>5, <1>8, <1>9, <1>10, DeleteEnqueued
  <2> QED
    BY <2>1, <2>2
<1>11. CASE Made(d) /\ Gone(d)
  <2>1. PICK x \in Messages : x = held[d].answer
    BY <1>1, <1>11, ApplyingRow DEF Made
  <2>2. remote[x].state # "absent"
    BY <1>1, <1>7, <1>11, <2>1, NoneAssumption, ApplyingRow DEF AnswerFits, Unclaimed
  <2>3. <<"orphan-delete", x>> \in Keys /\ ~IsProjection(<<"orphan-delete", x>>)
    BY DEF Keys, IsProjection
  <2>4. rows' = Enqueued(rs, <<"orphan-delete", x>>, Delete(x))
    BY <1>6, <1>11, <2>1 DEF CleanedUp
  <2> QED
    BY <1>1, <1>2, <1>5, <1>7, <1>10, <1>11, <2>1, <2>2, <2>3, <2>4
<1>12. CASE ~(Made(d) /\ Gone(d)) /\ Replaced(d)
  <2>1. held[d].key[2] \in Projections /\ held[d].key = CardKey(held[d].key[2])
    BY <1>1, <1>7, <1>12, ApplyingRow
  <2>2. PICK x \in Messages : x = held[d].request.target
    BY <1>1, <1>7, <1>12, ApplyingRow DEF Replaced, CardRequest
  <2>3. remote[x].state # "absent"
    <3>1. OwnedOK(held[d].key[2])
      BY <2>1 DEF ShownInv, CardOK
    <3>2. Card(held[d].key[2]).inflight.target = x /\ Flying(Card(held[d].key[2]))
      BY <1>1, <2>1, <2>2 DEF Card
    <3> QED
      BY <3>1, <3>2 DEF OwnedOK, Mine
  <2>4. <<"replaced-delete", x>> \in Keys /\ ~IsProjection(<<"replaced-delete", x>>)
    BY DEF Keys, IsProjection
  <2>5. rows' = Enqueued(rs, <<"replaced-delete", x>>, Delete(x))
    BY <1>6, <1>12, <2>2 DEF CleanedUp
  <2> QED
    BY <1>1, <1>2, <1>5, <1>7, <1>10, <1>12, <2>2, <2>3, <2>4, <2>5
<1>13. CASE ~(Made(d) /\ Gone(d)) /\ ~Replaced(d)
  <2>1. rows' = rs
    BY <1>6, <1>13 DEF CleanedUp
  <2>2. \A m : Doomed(m)' => Doomed(m)
    BY <1>8, <2>1 DEF Doomed, IsProjection
  <2>3. DeletesOK'
    <3>1. \A m \in Messages : Doomed(m)' => remote'[m].state # "absent"
      BY <1>6, <2>2 DEF ShownInv, DeletesOK
    <3>2. ASSUME NEW j \in Keys, ~IsProjection(j)
          PROVE  /\ rows'[j].status # "absent" =>
                       rows'[j].request.op = "delete" /\ rows'[j].request.target \in Messages
                 /\ Flying(rows'[j]) =>
                       rows'[j].inflight.op = "delete" /\ rows'[j].inflight.target \in Messages
      BY <1>8, <2>1, <3>2 DEF ShownInv, DeletesOK
    <3> QED
      BY <3>1, <3>2 DEF DeletesOK, IsProjection
  <2> QED
    BY <1>1, <1>2, <1>5, <2>1, <2>2, <2>3
<1> QED
  BY <1>11, <1>12, <1>13

\* The projection of the row learns of the message.
LEMMA ApplyProjections ==
    ASSUME IInv, NEW d \in Dispatchers, Apply(d)
    PROVE  LET k == held[d].key IN
           /\ IsProjection(k) /\ ~Gone(d) =>
                 LET p == k[2] IN
                 /\ projections'[p].exists = projections[p].exists
                 /\ projections'[p].desired = projections[p].desired
                 /\ projections'[p].message =
                       IF held[d].answer = None THEN projections[p].message ELSE held[d].answer
                 /\ Newest(d) => projections'[p].applied = projections[p].desired
           /\ Gone(d) => projections' = projections
           /\ \A q \in Projections : ~IsProjection(k) \/ q # k[2] =>
                 projections'[q] = projections[q]
<1>1. PICK k \in Keys : k = held[d].key
  BY HeldItem DEF Apply, Answered
<1>2. IsProjection(k) => k[2] \in Projections
  BY KeyTypes
<1>3. CASE ~(IsProjection(k) /\ ~Gone(d))
  BY <1>1, <1>3 DEF Apply
<1>4. CASE IsProjection(k) /\ ~Gone(d)
  <2>1. PICK p \in Projections : p = k[2]
    BY <1>2, <1>4
  <2>2. PICK m, n : /\ m = IF held[d].answer = None THEN projections[p].message
                           ELSE held[d].answer
                    /\ n = IF Newest(d) THEN projections[p].desired ELSE projections[p].applied
    OBVIOUS
  <2>3. projections' = [projections EXCEPT ![p].message = m, ![p].applied = n]
    BY <1>1, <1>4, <2>1, <2>2 DEF Apply
  <2>4. PICK s : s = [projections[p] EXCEPT !.message = m, !.applied = n]
    OBVIOUS
  <2>5. /\ s.message = m /\ s.applied = n /\ s.exists = projections[p].exists
        /\ s.desired = projections[p].desired
    BY <2>4 DEF IInv, TypeOK
  <2>6. projections'[p] = s /\ \A q \in Projections \ {p} : projections'[q] = projections[q]
    BY <2>3, <2>4 DEF IInv, TypeOK
  <2> QED
    BY <1>1, <1>4, <2>1, <2>2, <2>5, <2>6
<1> QED
  BY <1>3, <1>4

\* The other cards have no part in it.
LEMMA ApplyLocal ==
    ASSUME IInv, ShownInv, NEW d \in Dispatchers, Apply(d), NEW q \in Projections,
           held[d].key # CardKey(q)
    PROVE  Local(q)
<1>1. PICK k \in Keys : k = held[d].key /\ held[d] # None /\ held[d].phase = "apply"
  BY ApplyingRow DEF Apply, Answered
<1>2. RowKept(CardKey(q))
  <2>1. CardKey(q) \in Keys /\ IsProjection(CardKey(q))
    BY CardTypes
  <2> QED
    BY <1>1, <2>1, ApplyRows, SameKept
<1>3. IsProjection(k) => k[2] \in Projections \ {q} /\ k = CardKey(k[2])
  BY <1>1, ApplyingRow
<1>4. projections'[q] = projections[q]
  BY <1>1, <1>3, ApplyProjections
<1>5. \A m \in Messages : Mine(q, m)' <=> Mine(q, m)
  BY DEF Mine, Apply
<1>6. ASSUME NEW m \in Messages, Mine(q, m), Doomed(m)' PROVE Doomed(m)
  <2> SUFFICES ASSUME IsProjection(k),
                      \/ Made(d) /\ m = held[d].answer
                      \/ Replaced(d) /\ m = held[d].request.target
               PROVE  FALSE
    BY <1>1, <1>6, ApplyRows
  <2>1. PICK p \in Projections \ {q} : p = k[2] /\ k = CardKey(p)
    BY <1>3
  <2>2. CASE m = held[d].answer
    <3>1. Unclaimed(p, m)
      BY <1>1, <2>1, <2>2, NoneAssumption, ApplyingRow DEF AnswerFits
    <3> QED
      BY <1>6, <3>1 DEF Unclaimed, Mine
  <2>3. CASE m = held[d].request.target
    <3>1. Flying(Card(p)) /\ Card(p).inflight.target = m
      BY <1>1, <2>1, <2>3, ApplyingRow DEF Card
    <3>2. Mine(p, m)
      BY <3>1 DEF ShownInv, CardOK, OwnedOK
    <3> QED
      BY <1>6, <3>2 DEF Mine
  <2> QED
    BY <2>2, <2>3
<1> QED
  BY <1>2, <1>4, <1>5, <1>6 DEF Local, Calm, Apply

\* The card has its newest version, or asks for it where the message now is.
LEMMA ApplyCard ==
    ASSUME IInv, ShownInv, NEW d \in Dispatchers, Apply(d), NEW p \in Projections,
           held[d].key = CardKey(p)
    PROVE  CardOK(p)' /\ ~Flying(Card(p))'
<1>1. PICK k \in Keys : /\ k = held[d].key /\ held[d] # None /\ held[d].phase = "apply"
                        /\ k = CardKey(p) /\ IsProjection(k) /\ k[2] = p
  BY CardTypes DEF Apply, Answered
<1> DEFINE row == Card(p)
<1> DEFINE new == rows'[CardKey(p)]
<1>2. PICK a \in Messages \cup {None}, f \in Request : a = held[d].answer /\ f = held[d].request
  BY <1>1, HeldItem
<1>3. /\ row.inflight = f /\ row.sent = held[d].revision /\ row.status = "applying"
      /\ CardRequest(f) /\ Flying(row) /\ AnswerFits(p, a)
  BY <1>1, <1>2, ApplyingRow DEF Card
<1>4. /\ KindsOK(p) /\ VersionsOK(p) /\ OwnedOK(p) /\ FreshOK(p) /\ ShownOK(p)
  BY DEF ShownInv, CardOK
<1>5. /\ row.request.version \in Nat /\ projections[p].message \in Messages \cup {None}
      /\ f.version \in Nat /\ row.request.target \in Messages \cup {None}
      /\ projections[p].desired \in Nat
  BY <1>3, CardTypes
<1>6. /\ new.inflight = None /\ new.status \in {"completed", "pending"}
      /\ new.status = "completed" <=> Newest(d) \/ Gone(d)
      /\ new.request = IF new.status = "pending" /\ (Made(d) \/ Replaced(d))
                       THEN Update(row.request.version, a) ELSE row.request
  <2>1. new = Finished(d)
    BY <1>1, ApplyRows
  <2> QED
    BY <1>1, <1>2, <2>1, FinishedRow DEF Card
<1>7. /\ Gone(d) <=> ~projections[p].exists
      /\ Made(d) <=> f.op = "create" /\ a # None
      /\ Replaced(d) <=> f.op = "update" /\ a \notin {None, f.target}
      /\ Newest(d) <=> row.revision = row.sent
  BY <1>1, <1>2, <1>3 DEF Gone, Made, Replaced, Newest, Card
<1>8. /\ a # None => Unclaimed(p, a) /\ remote[a].version = f.version /\ a # f.target
      /\ a = None => f.op = "update" /\ remote[f.target].version = f.version
  BY <1>3 DEF AnswerFits, Unclaimed
<1>9. \A m \in Messages : Doomed(m)' =>
         \/ Doomed(m)
         \/ ~projections[p].exists /\ m = a
         \/ a # None /\ m = f.target
  BY <1>1, <1>2, <1>7, ApplyRows
<1>10. \A m \in Messages : Mine(p, m)' <=> Mine(p, m)
  BY DEF Mine, Apply
<1>11. remote' = remote
  BY DEF Apply
<1>12. Card(p)' = new /\ ~Flying(new)
  BY <1>6 DEF Card, Flying
<1>13. /\ row.request.version = projections[p].desired
       /\ projections[p].message \in {None, f.target}
       /\ row.revision # row.sent => f.version < row.request.version
       /\ projections[p].exists => projections[p].message = row.request.target
       /\ ~projections[p].exists => projections[p].message = None
       /\ projections[p].desired > 0 /\ projections[p].desired # 0
  BY <1>3, <1>4, <1>5 DEF VersionsOK
<1>14. row.revision = row.sent => row.request = f
  BY <1>1, <1>3 DEF Card, IInv, RowsOK, InFlight
<1>15. CardRequest(row.request)
  BY <1>3, <1>4 DEF KindsOK
<1>16. \A m \in Messages :
          /\ Mine(p, m) => remote[m].version <= projections[p].desired
          /\ projections[p].message = m =>
                Mine(p, m) /\ ~Doomed(m) /\ remote[m].state = "shown"
          /\ f.target = m \/ row.request.target = m => Mine(p, m)
  BY <1>3, <1>4 DEF OwnedOK
<1> HIDE DEF new, row
<1>17. CASE ~projections[p].exists
  <2>1. projections'[p] = projections[p] /\ new.status = "completed" /\ new.request = row.request
    BY <1>1, <1>6, <1>7, <1>17, ApplyProjections
  <2>2. KindsOK(p)' /\ VersionsOK(p)' /\ ShownOK(p)' /\ FreshOK(p)'
    BY <1>12, <1>13, <1>15, <1>17, <2>1 DEF KindsOK, VersionsOK, ShownOK, FreshOK
  <2>3. OwnedOK(p)'
    BY <1>10, <1>11, <1>12, <1>13, <1>16, <1>17, <2>1, NoneAssumption DEF OwnedOK
  <2> QED
    BY <1>12, <2>2, <2>3 DEF CardOK
<1>18. CASE projections[p].exists
  <2>1. PICK n : /\ n = projections'[p].message
                 /\ n = IF a = None THEN projections[p].message ELSE a
    BY <1>1, <1>2, <1>7, <1>18, ApplyProjections
  <2>2. /\ projections'[p].exists /\ projections'[p].desired = projections[p].desired
        /\ Newest(d) => projections'[p].applied = projections[p].desired
    BY <1>1, <1>7, <1>18, ApplyProjections
  <2>3. \A m \in Messages : n = m => Mine(p, m) /\ ~Doomed(m)' /\ remote[m].state = "shown"
    <3>1. ASSUME NEW m \in Messages, n = m, a = None
          PROVE  Mine(p, m) /\ ~Doomed(m)' /\ remote[m].state = "shown"
      BY <1>9, <1>16, <1>18, <2>1, <3>1, NoneAssumption
    <3>2. ASSUME NEW m \in Messages, n = m, a # None
          PROVE  Mine(p, m) /\ ~Doomed(m)' /\ remote[m].state = "shown"
      BY <1>8, <1>9, <1>18, <2>1, <3>2 DEF Unclaimed
    <3> QED
      BY <3>1, <3>2
  <2>4. CASE Newest(d)
    <3>1. /\ new.status = "completed" /\ new.request = row.request /\ row.request = f
      BY <1>6, <1>7, <1>14, <2>4
    <3>2. KindsOK(p)' /\ VersionsOK(p)' /\ FreshOK(p)'
      BY <1>12, <1>13, <1>15, <1>18, <2>2, <3>1 DEF KindsOK, VersionsOK, FreshOK
    <3>3. OwnedOK(p)'
      BY <1>10, <1>11, <1>12, <1>16, <2>1, <2>2, <2>3, <3>1 DEF OwnedOK
    <3>4. n \in Messages /\ remote[n].version = projections[p].desired
      <4>1. CASE a = None
        <5>1. n = f.target
          BY <1>13, <1>18, <2>1, <3>1, <4>1
        <5>2. f.target \in Messages
          BY <1>3, <1>8, <4>1 DEF CardRequest
        <5> QED
          BY <1>8, <1>13, <3>1, <4>1, <5>1, <5>2
      <4>2. CASE a # None
        BY <1>2, <1>8, <1>13, <2>1, <3>1, <4>2
      <4> QED
        BY <4>1, <4>2
    <3>5. ShownOK(p)'
      BY <1>11, <1>12, <2>1, <2>2, <2>4, <3>4 DEF ShownOK
    <3> QED
      BY <1>12, <3>2, <3>3, <3>5 DEF CardOK
  <2>5. CASE ~Newest(d)
    <3>1. new.status = "pending"
      BY <1>6, <1>7, <1>18, <2>5
    <3>2. PICK q : q = new.request
      OBVIOUS
    <3>3. /\ q.version = row.request.version /\ q.target = n /\ CardRequest(q)
          /\ q.op = "create" => a = None /\ q = row.request
      <4>1. CASE a = None
        BY <1>6, <1>7, <1>13, <1>15, <1>18, <2>1, <3>2, <4>1
      <4>2. CASE a # None
        <5>1. f.op \in {"create", "update"}
          BY <1>3 DEF CardRequest
        <5>2. q = Update(row.request.version, a)
          BY <1>6, <1>7, <1>8, <3>1, <3>2, <4>2, <5>1
        <5> QED
          BY <1>2, <2>1, <4>2, <5>2 DEF Update, CardRequest
      <4> QED
        BY <4>1, <4>2
    <3>4. KindsOK(p)' /\ VersionsOK(p)' /\ ShownOK(p)'
      BY <1>12, <1>13, <1>18, <2>1, <2>2, <3>1, <3>2, <3>3 DEF KindsOK, VersionsOK, ShownOK
    <3>5. OwnedOK(p)'
      BY <1>10, <1>11, <1>12, <1>16, <2>1, <2>2, <2>3, <3>2, <3>3 DEF OwnedOK
    <3>6. FreshOK(p)'
      <4> SUFFICES ASSUME NEW m \in Messages, Mine(p, m)', q.op = "create",
                          q.version = remote[m].version
                   PROVE  Unclaimed(p, m)'
        BY <1>11, <1>12, <3>2 DEF FreshOK
      <4>1. a = None /\ row.request.op = "create" /\ row.request.version = remote[m].version
        BY <3>3
      <4>2. Unclaimed(p, m)
        BY <1>3, <1>4, <1>10, <4>1 DEF FreshOK, row
      <4>3. ~Doomed(m)' /\ projections'[p].message # m
        BY <1>9, <1>18, <2>1, <4>1, <4>2 DEF Unclaimed
      <4> QED
        BY <1>11, <1>12, <4>2, <4>3 DEF Unclaimed, Mine
    <3> QED
      BY <1>12, <3>4, <3>5, <3>6 DEF CardOK
  <2> QED
    BY <2>4, <2>5
<1> QED
  BY <1>12, <1>17, <1>18

-----------------------------------------------------------------------------
(* Every step keeps the cards, the deletes and the answers in order. *)

\* A message made by a create or a replacement is for the card in flight.
LEMMA PostKinds ==
    ASSUME IInv, ShownInv, NEW d \in Dispatchers, SendCreate(d) \/ SendReplacement(d)
    PROVE  /\ held[d] # None
           /\ \E p \in Projections : \E nonce :
                 /\ held[d].key = CardKey(p) /\ nonce[1] = p
                 /\ Flying(Card(p)) /\ Card(p).inflight = held[d].request
                 /\ Card(p).status = "sending"
                 /\ Post(d, Card(p).inflight.version, nonce)
<1>1. /\ held[d] # None /\ held[d].phase = "deliver"
      /\ held[d].request.op \in {"create", "update"}
      /\ \E nonce : nonce[1] = held[d].key[2] /\ Post(d, held[d].request.version, nonce)
  BY DEF SendCreate, SendReplacement, Sending, CreateNonce
<1>2. IsProjection(held[d].key)
  BY <1>1, SendingRow
<1>3. PICK p \in Projections : p = held[d].key[2] /\ held[d].key = CardKey(p)
  BY <1>1, <1>2, SendingRow
<1>4. /\ Flying(Card(p)) /\ Card(p).inflight = held[d].request
      /\ Card(p).status = "sending"
  BY <1>1, <1>3, SendingRow DEF Card
<1> QED
  BY <1>1, <1>3, <1>4

\* So is the message that an update goes to.
LEMMA UpdateKinds ==
    ASSUME IInv, ShownInv, NEW d \in Dispatchers, SendUpdate(d)
    PROVE  \E p \in Projections :
              /\ held[d].key = CardKey(p)
              /\ Flying(Card(p)) /\ Card(p).inflight = held[d].request
              /\ Card(p).inflight.op = "update" /\ Card(p).status = "sending"
              /\ remote' = [remote EXCEPT
                    ![Card(p).inflight.target].version = Card(p).inflight.version]
<1>1. /\ held[d] # None /\ held[d].phase = "deliver" /\ held[d].request.op = "update"
  BY DEF SendUpdate, Sending
<1>2. PICK p \in Projections : p = held[d].key[2] /\ held[d].key = CardKey(p)
  BY <1>1, SendingRow
<1>3. /\ Flying(Card(p)) /\ Card(p).inflight = held[d].request /\ Card(p).status = "sending"
  BY <1>1, <1>2, SendingRow DEF Card
<1> QED
  BY <1>1, <1>2, <1>3 DEF SendUpdate

\* The step edits the message of the card, or applies an answer to it.
Touches(p) ==
    \E d \in Dispatchers : held[d] # None /\ held[d].key = CardKey(p) /\
                           (SendUpdate(d) \/ Apply(d))

\* Cards stay in order; what is not touched stays with its messages as well.
LEMMA StepCard ==
    ASSUME IInv, ShownInv, ~NonceWindow, [Next]_vars, NEW p \in Projections
    PROVE  CardOK(p)' /\ (Calm(p) \/ Touches(p))
<1>1. CardOK(p) /\ DeletesOK
  BY DEF ShownInv
<1>2. CASE Local(p)
  BY <1>1, <1>2, LocalCard DEF Local
<1>3. ASSUME NEW q \in Projections, Project(q) PROVE CardOK(p)' /\ Calm(p)
  <2>1. CASE q = p
    BY <1>1, <1>3, <2>1, ProjectCard
  <2>2. CASE q # p
    <3>1. CardOK(q)
      BY DEF ShownInv
    <3>2. Local(p)
      BY <1>3, <2>2, <3>1, ProjectCard
    <3> QED
      BY <1>1, <3>2, LocalCard DEF Local
  <2> QED
    BY <2>1, <2>2
<1>4. ASSUME NEW q \in Projections, Drop(q) PROVE CardOK(p)' /\ Calm(p)
  <2>1. CASE q = p
    BY <1>1, <1>4, <2>1, DropCard
  <2>2. CASE q # p
    <3>1. CardOK(q)
      BY DEF ShownInv
    <3>2. Local(p)
      BY <1>1, <1>4, <2>2, <3>1, DropCard
    <3> QED
      BY <1>1, <3>2, LocalCard DEF Local
  <2> QED
    BY <2>1, <2>2
<1>5. ASSUME NEW d \in Dispatchers, SendCreate(d) \/ SendReplacement(d)
      PROVE  CardOK(p)' /\ Calm(p)
  <2>0. PICK q \in Projections : \E nonce :
           /\ held[d].key = CardKey(q) /\ nonce[1] = q
           /\ Flying(Card(q)) /\ Post(d, Card(q).inflight.version, nonce)
    BY <1>5, PostKinds
  <2>1. PICK nonce :
           /\ held[d].key = CardKey(q) /\ nonce[1] = q
           /\ Flying(Card(q)) /\ Post(d, Card(q).inflight.version, nonce)
    BY <2>0
  <2>2. CASE q = p
    BY <1>1, <2>1, <2>2, PostCard
  <2>3. CASE q # p
    <3>1. Local(p)
      BY <2>1, <2>3, PostLocal
    <3> QED
      BY <1>1, <3>1, LocalCard DEF Local
  <2> QED
    BY <2>2, <2>3
<1>6. ASSUME NEW d \in Dispatchers, SendUpdate(d)
      PROVE  CardOK(p)' /\ (Calm(p) \/ Touches(p))
  <2>1. PICK q \in Projections :
              /\ held[d].key = CardKey(q)
              /\ Flying(Card(q)) /\ Card(q).inflight = held[d].request
              /\ Card(q).inflight.op = "update"
              /\ remote' = [remote EXCEPT
                    ![Card(q).inflight.target].version = Card(q).inflight.version]
    BY <1>6, UpdateKinds
  <2>2. CardOK(q) /\ rows' = rows /\ projections' = projections /\ held[d] # None
    BY <1>6 DEF ShownInv, SendUpdate, CarriedOut, Sending
  <2>3. CardOK(q)' /\ \A r \in Projections \ {q} : Local(r)
    BY <2>1, <2>2, UpdateCard
  <2>4. CASE q = p
    BY <1>6, <2>1, <2>2, <2>3, <2>4 DEF Touches
  <2>5. CASE q # p
    BY <1>1, <2>3, <2>5, LocalCard DEF Local
  <2> QED
    BY <2>4, <2>5
<1>7. ASSUME NEW d \in Dispatchers, Apply(d)
      PROVE  CardOK(p)' /\ (Calm(p) \/ Touches(p))
  <2>1. CASE held[d].key = CardKey(p)
    <3>1. held[d] # None
      BY <1>7 DEF Apply, Answered
    <3>2. Touches(p)
      BY <1>7, <2>1, <3>1 DEF Touches
    <3> QED
      BY <1>7, <2>1, <3>2, ApplyCard
  <2>2. CASE held[d].key # CardKey(p)
    <3>1. Local(p)
      BY <1>7, <2>2, ApplyLocal
    <3> QED
      BY <1>1, <3>1, LocalCard DEF Local
  <2> QED
    BY <2>1, <2>2
<1>8. ASSUME rows' = rows, projections' = projections, remote' = remote PROVE Local(p)
  BY <1>8, SentLocal DEF Mine
<1>9. ASSUME NEW d \in Dispatchers, SendFails(d) PROVE Local(p)
  BY <1>8, <1>9 DEF SendFails
<1>10. ASSUME UNCHANGED vars PROVE Local(p)
  BY <1>8, <1>10 DEF vars
<1> QED
  BY <1>2, <1>3, <1>4, <1>5, <1>6, <1>7, <1>9, <1>10, DeleteLocal, WorksLocal
     DEF Next, Want, Send, Works

\* The messages to be deleted are there, and versions are of messages.
LEMMA StepDeletes ==
    ASSUME IInv, ShownInv, ~NonceWindow, [Next]_vars
    PROVE  DeletesOK' /\ BlankOK'
<1>1. ASSUME \A j \in Keys : ~IsProjection(j) => RowKept(j),
             \A m \in Messages : remote'[m].state = "absent" => remote[m].state = "absent"
      PROVE  DeletesOK'
  <2>1. ASSUME NEW k \in Keys, ~IsProjection(k)
        PROVE  /\ rows'[k].status # "absent" =>
                     rows'[k].request.op = "delete" /\ rows'[k].request.target \in Messages
               /\ Flying(rows'[k]) =>
                     rows'[k].inflight.op = "delete" /\ rows'[k].inflight.target \in Messages
    <3>1. /\ rows[k].status # "absent" =>
                 rows[k].request.op = "delete" /\ rows[k].request.target \in Messages
          /\ Flying(rows[k]) =>
                 rows[k].inflight.op = "delete" /\ rows[k].inflight.target \in Messages
      BY <2>1 DEF ShownInv, DeletesOK
    <3>2. RowKept(k)
      BY <1>1, <2>1
    <3> QED
      BY <3>1, <3>2 DEF RowKept, Flying
  <2>2. ASSUME NEW m \in Messages, Doomed(m)' PROVE Doomed(m)
    <3>1. PICK k \in Keys : /\ ~IsProjection(k)
                            /\ \/ rows'[k].request.target = m
                               \/ Flying(rows'[k]) /\ rows'[k].inflight.target = m
      BY <2>2 DEF Doomed, IsProjection
    <3>2. RowKept(k)
      BY <1>1, <3>1
    <3>3. rows[k].request.target = m \/ (Flying(rows[k]) /\ rows[k].inflight.target = m)
      BY <3>1, <3>2 DEF RowKept, Flying
    <3> QED
      BY <3>1, <3>3 DEF Doomed
  <2>3. \A m \in Messages : Doomed(m)' => remote'[m].state # "absent"
    BY <1>1, <2>2 DEF ShownInv, DeletesOK
  <2> QED
    BY <2>1, <2>3 DEF DeletesOK, IsProjection
<1>2. ASSUME rows' = rows,
             \A m \in Messages : remote'[m].state = "absent" => remote'[m] = remote[m]
      PROVE  DeletesOK' /\ BlankOK'
  BY <1>1, <1>2, SameKept DEF ShownInv, BlankOK
<1>3. ASSUME remote' = remote PROVE BlankOK'
  BY <1>3 DEF ShownInv, BlankOK
<1>4. ASSUME NEW p \in Projections, Project(p) PROVE DeletesOK' /\ BlankOK'
  <2>1. PICK q \in Request : rows' = Enqueued(rows, CardKey(p), q)
    <3>1. projections[p].desired + 1 \in Nat /\ projections[p].message \in Messages \cup {None}
      BY DEF IInv, TypeOK
    <3> QED
      BY <1>4, <3>1, RequestTypes DEF Project, CardKey
  <2>2. rows \in [Keys -> Row] /\ IsProjection(CardKey(p))
    BY CardTypes DEF IInv, TypeOK
  <2>3. \A j \in Keys : ~IsProjection(j) => rows'[j] = rows[j]
    BY <2>1, <2>2, EnqueuedOthers
  <2>4. remote' = remote
    BY <1>4 DEF Project
  <2> QED
    BY <1>1, <1>3, <2>3, <2>4, SameKept
<1>5. ASSUME NEW p \in Projections, Drop(p) PROVE DeletesOK' /\ BlankOK'
  <2>1. CardOK(p) /\ DeletesOK
    BY DEF ShownInv
  <2> QED
    BY <1>3, <1>5, <2>1, DropCard DEF Drop
<1>6. ASSUME NEW d \in Dispatchers, SendCreate(d) \/ SendReplacement(d)
      PROVE  DeletesOK' /\ BlankOK'
  <2>1. PICK v, nonce : Post(d, v, nonce)
    BY <1>6 DEF SendCreate, SendReplacement
  <2>2. PICK m \in Messages :
              /\ remote'[m].state = "shown"
              /\ \A n \in Messages \ {m} : remote'[n] = remote[n]
              /\ rows' = rows
    <3>1. PICK m \in Messages :
             /\ remote'[m] = [state |-> "shown", version |-> v, nonce |-> nonce]
             /\ \A n \in Messages \ {m} : remote'[n] = remote[n]
             /\ CarriedOut(d, m)
      BY <2>1, PostFresh
    <3> QED
      BY <3>1 DEF CarriedOut
  <2> QED
    BY <1>2, <2>2
<1>7. ASSUME NEW d \in Dispatchers, SendUpdate(d) \/ SendDelete(d)
      PROVE  DeletesOK' /\ BlankOK'
  <2>1. PICK t : /\ t \in Messages => remote[t].state # "absent"
                 /\ \A m \in Messages \ {t} : remote'[m] = remote[m]
                 /\ t \in Messages => remote'[t].state # "absent"
    <3>1. CASE SendUpdate(d)
      <4>1. PICK t, v : /\ remote' = [remote EXCEPT ![t].version = v]
                        /\ remote[t].state = "shown"
        BY <3>1 DEF SendUpdate
      <4> QED
        BY <4>1 DEF IInv, RemoteOK
    <3>2. CASE SendDelete(d)
      <4>1. PICK t : /\ remote' = [remote EXCEPT ![t].state = "deleted"]
                     /\ t \in Messages => Doomed(t)
        <5>1. held[d] # None /\ held[d].phase = "deliver" /\ held[d].request.op = "delete"
          BY <3>2 DEF SendDelete, Sending
        <5>2. Doomed(held[d].request.target)
          BY <5>1, SendingRow DEF CardRequest
        <5> QED
          BY <3>2, <5>2 DEF SendDelete
      <4>2. t \in Messages => remote[t].state # "absent"
        BY <4>1 DEF ShownInv, DeletesOK
      <4> QED
        BY <4>1, <4>2 DEF IInv, RemoteOK
    <3> QED
      BY <1>7, <3>1, <3>2
  <2> QED
    BY <1>2, <1>7, <2>1 DEF SendUpdate, SendDelete, CarriedOut
<1>8. ASSUME NEW d \in Dispatchers, Apply(d) PROVE DeletesOK' /\ BlankOK'
  BY <1>3, <1>8, ApplyRows DEF Apply
<1>9. ASSUME Works PROVE DeletesOK' /\ BlankOK'
  BY <1>1, <1>3, <1>9, WorksKept
<1>10. ASSUME rows' = rows, remote' = remote PROVE DeletesOK' /\ BlankOK'
  BY <1>2, <1>10
<1> QED
  BY <1>4, <1>5, <1>6, <1>7, <1>8, <1>9, <1>10 DEF Next, Want, Send, SendFails, Works, vars

\* There is one dispatcher.
Alone == \A d, e \in Dispatchers : d = e

\* The dispatcher's row, and its item, are changed together.
LEMMA StepHoldsRow ==
    ASSUME IInv, ShownInv, Alone, [Next]_vars
    PROVE  HoldsRow'
<1> SUFFICES ASSUME NEW d \in Dispatchers, held'[d] # None
             PROVE  LET row == rows'[held'[d].key] IN
                    /\ row.inflight = held'[d].request /\ row.sent = held'[d].revision
                    /\ IF held'[d].phase = "apply"
                       THEN row.status = "applying" /\ row.response = held'[d].answer
                       ELSE row.status = "sending"
  BY DEF HoldsRow
<1>1. /\ \A e \in Dispatchers : e = d
      /\ held \in [Dispatchers -> Item \cup {None}] /\ rows \in [Keys -> Row]
  BY DEF Alone, IInv, TypeOK
<1>2. ASSUME held[d] # None
      PROVE  LET row == rows[held[d].key] IN
             /\ held[d] \in Item /\ held[d].key \in Keys
             /\ row.inflight = held[d].request /\ row.sent = held[d].revision
             /\ row.status \in InFlight
             /\ IF held[d].phase = "apply"
                THEN row.status = "applying" /\ row.response = held[d].answer
                ELSE row.status = "sending"
  BY <1>2, HeldItem DEF ShownInv, HoldsRow, InFlight
<1>3. ASSUME held' = held,
             held[d] # None =>
                LET k == held[d].key IN
                /\ rows'[k].status = rows[k].status /\ rows'[k].inflight = rows[k].inflight
                /\ rows'[k].sent = rows[k].sent /\ rows'[k].response = rows[k].response
      PROVE  LET row == rows'[held'[d].key] IN
             /\ row.inflight = held'[d].request /\ row.sent = held'[d].revision
             /\ IF held'[d].phase = "apply"
                THEN row.status = "applying" /\ row.response = held'[d].answer
                ELSE row.status = "sending"
  BY <1>2, <1>3
<1>4. ASSUME NEW c, NEW q \in Request, rows' = Enqueued(rows, c, q), held[d] # None
      PROVE  LET k == held[d].key IN
             /\ rows'[k].status = rows[k].status /\ rows'[k].inflight = rows[k].inflight
             /\ rows'[k].sent = rows[k].sent /\ rows'[k].response = rows[k].response
  <2>1. PICK k \in Keys : k = held[d].key /\ rows[k].status \in InFlight
    BY <1>2, <1>4
  <2>2. CASE k # c
    BY <1>1, <1>4, <2>1, <2>2, EnqueuedOthers
  <2>3. CASE k = c
    BY <1>1, <1>4, <2>1, <2>3, EnqueuedBusy
  <2> QED
    BY <2>1, <2>2, <2>3
<1>5. ASSUME NEW p \in Projections, Project(p) \/ Drop(p)
      PROVE  /\ held' = held
             /\ held[d] # None =>
                LET k == held[d].key IN
                /\ rows'[k].status = rows[k].status /\ rows'[k].inflight = rows[k].inflight
                /\ rows'[k].sent = rows[k].sent /\ rows'[k].response = rows[k].response
  <2>1. held' = held
    BY <1>5 DEF Project, Drop
  <2>2. rows' = rows \/ \E c, q : q \in Request /\ rows' = Enqueued(rows, c, q)
    <3>1. projections[p].desired + 1 \in Nat /\ projections[p].message \in Messages \cup {None}
      BY DEF IInv, TypeOK
    <3> QED
      BY <1>5, <3>1, RequestTypes DEF Project, Drop
  <2> QED
    BY <1>4, <2>1, <2>2
<1>6. ASSUME NEW phase \in {"delivered", "unreached", "refused"}, NEW m,
             held[d] # None, held[d].phase = "deliver", Outcome(d, phase, m), rows' = rows
      PROVE  LET row == rows'[held'[d].key] IN
             /\ row.inflight = held'[d].request /\ row.sent = held'[d].revision
             /\ IF held'[d].phase = "apply"
                THEN row.status = "applying" /\ row.response = held'[d].answer
                ELSE row.status = "sending"
  <2>1. PICK i : i = [held[d] EXCEPT !.phase = phase, !.answer = m]
    OBVIOUS
  <2>2. /\ i.key = held[d].key /\ i.request = held[d].request
        /\ i.revision = held[d].revision /\ i.phase = phase
    BY <1>2, <1>6, <2>1, ItemColumns
  <2>3. held'[d] = i
    BY <1>1, <1>6, <2>1 DEF Outcome
  <2> QED
    BY <1>2, <1>6, <2>2, <2>3
<1>7. ASSUME Send(d)
      PROVE  /\ held[d] # None /\ held[d].phase = "deliver" /\ rows' = rows
             /\ \E phase \in {"delivered", "unreached", "refused"} : \E m : Outcome(d, phase, m)
  <2>1. ASSUME NEW m, CarriedOut(d, m)
        PROVE  /\ rows' = rows
               /\ \E phase \in {"delivered", "unreached", "refused"} : \E n : Outcome(d, phase, n)
    BY <2>1 DEF CarriedOut
  <2>2. held[d] # None /\ held[d].phase = "deliver"
    BY <1>7 DEF Send, SendCreate, SendUpdate, SendReplacement, SendDelete, SendFails, Sending
  <2>3. SendFails(d) \/ \E m : CarriedOut(d, m)
    BY <1>7 DEF Send, SendCreate, SendUpdate, SendReplacement, SendDelete, Post
  <2> QED
    BY <2>1, <2>2, <2>3 DEF SendFails
<1>8. ASSUME RecordDelivery(d)
      PROVE  LET row == rows'[held'[d].key] IN
             /\ row.inflight = held'[d].request /\ row.sent = held'[d].revision
             /\ row.status = "applying" /\ row.response = held'[d].answer
             /\ held'[d].phase = "apply"
  <2>1. held[d] # None
    BY <1>8 DEF RecordDelivery, Answered
  <2>2. PICK i : i = [held[d] EXCEPT !.phase = "apply"]
    OBVIOUS
  <2>3. /\ i.key = held[d].key /\ i.request = held[d].request /\ i.answer = held[d].answer
        /\ i.revision = held[d].revision /\ i.phase = "apply"
    BY <1>2, <2>1, <2>2, ItemColumns
  <2>4. held'[d] = i
    BY <1>1, <1>8, <2>2 DEF RecordDelivery
  <2> QED
    BY <1>2, <1>8, <2>1, <2>3, <2>4, RecordDeliveryKept
<1>9. ASSUME NEW k \in Keys, ClaimDelivery(d, k)
      PROVE  LET row == rows'[held'[d].key] IN
             /\ row.inflight = held'[d].request /\ row.sent = held'[d].revision
             /\ row.status = "sending" /\ held'[d].phase = "deliver"
  <2>1. PICK r : r = Swept(rows)[k]
    OBVIOUS
  <2>2. PICK i : i = [key |-> k, phase |-> "deliver", request |-> r.request,
                      revision |-> r.revision, attempt |-> Attempted(r), answer |-> None]
    OBVIOUS
  <2>3. held'[d] = i
    BY <1>1, <1>9, <2>1, <2>2 DEF ClaimDelivery
  <2>4. i.key = k /\ i.phase = "deliver" /\ i.request = r.request /\ i.revision = r.revision
    BY <2>2
  <2>5. r.request = rows[k].request /\ r.revision = rows[k].revision
    BY <1>1, <2>1, SweptRows
  <2>6. /\ rows'[k].status = "sending" /\ rows'[k].inflight = rows[k].request
        /\ rows'[k].sent = rows[k].revision
    BY <1>9, ClaimDeliveryKept
  <2> QED
    BY <2>3, <2>4, <2>5, <2>6
<1>10. ASSUME NEW k \in Keys, ClaimApplication(d, k) \/ Resolve(d, k)
       PROVE  LET row == rows'[held'[d].key] IN
              /\ row.inflight = held'[d].request /\ row.sent = held'[d].revision
              /\ row.status = "applying" /\ row.response = held'[d].answer
              /\ held'[d].phase = "apply"
  <2>1. PICK m : /\ held' = [held EXCEPT ![d] =
                       [key |-> k, phase |-> "apply", request |-> rows[k].inflight,
                        revision |-> rows[k].sent, attempt |-> rows[k].attempts,
                        answer |-> m]]
                 /\ rows'[k].response = m
    <3>1. CASE ClaimApplication(d, k)
      <4>1. Swept(rows)[k] = rows[k] /\ rows'[k].response = rows[k].response
        BY <3>1, ClaimApplicationKept
      <4> QED
        BY <3>1, <4>1 DEF ClaimApplication
    <3>2. CASE Resolve(d, k)
      BY <3>2, ResolveKept
    <3> QED
      BY <1>10, <3>1, <3>2
  <2>2. /\ rows'[k].status = "applying" /\ rows'[k].inflight = rows[k].inflight
        /\ rows'[k].sent = rows[k].sent
    BY <1>10, ClaimApplicationKept, ResolveKept
  <2>3. /\ held'[d].key = k /\ held'[d].phase = "apply"
        /\ held'[d].request = rows[k].inflight /\ held'[d].revision = rows[k].sent
        /\ held'[d].answer = m
    BY <1>1, <2>1
  <2> QED
    BY <2>1, <2>2, <2>3
<1>11. ASSUME held' = [held EXCEPT ![d] = None] PROVE FALSE
  BY <1>1, <1>11
<1>12. ASSUME ClaimNothing(d) PROVE FALSE
  BY <1>12 DEF ClaimNothing
<1>13. ASSUME NEW k \in Keys, LeaseExpires(k)
       PROVE  /\ held' = held
              /\ held[d] # None =>
                 LET j == held[d].key IN
                 /\ rows'[j].status = rows[j].status /\ rows'[j].inflight = rows[j].inflight
                 /\ rows'[j].sent = rows[j].sent /\ rows'[j].response = rows[j].response
  BY <1>2, <1>13, LeaseExpiresKept DEF LeaseExpires
<1>14. CASE \E p \in Projections : Project(p) \/ Drop(p)
  BY <1>3, <1>5, <1>14
<1>15. CASE Send(d)
  BY <1>6, <1>7, <1>15
<1>16. CASE \E k \in Keys : Claim(d, k) \/ Resolve(d, k)
  BY <1>9, <1>10, <1>16 DEF Claim
<1>17. CASE Record(d)
  <2>1. ~(RetryDelivery(d) \/ FailDelivery(d) \/ LoseLease(d))
    BY <1>11 DEF RetryDelivery, FailDelivery, LoseLease
  <2> QED
    BY <1>8, <1>17, <2>1 DEF Record
<1>18. CASE ClaimNothing(d) \/ Apply(d) \/ ApplyFails(d) \/ Crash(d)
  BY <1>11, <1>12, <1>18 DEF Apply, ApplyFails, Crash
<1>19. CASE \E k \in Keys : LeaseExpires(k)
  BY <1>3, <1>13, <1>19
<1>20. CASE UNCHANGED vars
  BY <1>3, <1>20 DEF vars
<1> QED
  BY <1>1, <1>14, <1>15, <1>16, <1>17, <1>18, <1>19, <1>20 DEF Next, Want

\* An answer stays true while the request in flight stays.
LEMMA FitsStays ==
    ASSUME NEW p \in Projections, CardOK(p), Flying(Card(p)), NEW a \in Messages \cup {None},
           AnswerFits(p, a), Calm(p), Card(p)'.inflight = Card(p).inflight
    PROVE  AnswerFits(p, a)'
<1>1. CASE a # None
  <2>1. a \in Messages /\ Unclaimed(p, a) /\ remote[a].version = Card(p).inflight.version
    BY <1>1 DEF AnswerFits
  <2>2. Unclaimed(p, a)'
    BY <2>1, UnclaimedStays DEF Unclaimed
  <2>3. remote'[a].version = remote[a].version
    BY <2>1 DEF Unclaimed, Calm
  <2> QED
    BY <1>1, <2>1, <2>2, <2>3 DEF AnswerFits
<1>2. CASE a = None
  <2>1. PICK f : f = Card(p).inflight /\ f = Card(p)'.inflight
    OBVIOUS
  <2>2. f.op = "update" /\ remote[f.target].version = f.version
    BY <1>2, <2>1 DEF AnswerFits
  <2>3. f.target \in Messages
    BY <2>1, <2>2 DEF CardOK, KindsOK, CardRequest
  <2>4. Mine(p, f.target)
    BY <2>1, <2>3 DEF CardOK, OwnedOK
  <2>5. remote'[f.target].version = remote[f.target].version
    BY <2>3, <2>4 DEF Calm
  <2> QED
    BY <1>2, <2>1, <2>2, <2>5 DEF AnswerFits
<1> QED
  BY <1>1, <1>2

\* A new answer is to be applied when it was recorded, or found by an operator.
LEMMA StepAnswerKept ==
    ASSUME IInv, ShownInv, [Next]_vars, NEW p \in Projections
    PROVE  \/ AnswerKept(CardKey(p))
           \/ \E d \in Dispatchers : RecordDelivery(d) /\ held[d].key = CardKey(p)
           \/ \E d \in Dispatchers : Resolve(d, CardKey(p))
<1>1. CardKey(p) \in Keys /\ IsProjection(CardKey(p))
  BY CardTypes
<1>2. ASSUME NEW q \in Projections, Project(q) \/ Drop(q) PROVE AnswerKept(CardKey(p))
  <2>1. CardOK(q) /\ DeletesOK
    BY DEF ShownInv
  <2> QED
    BY <1>1, <1>2, <2>1, ProjectCard, DropCard, SameKept
<1>3. ASSUME NEW d \in Dispatchers, Apply(d) PROVE AnswerKept(CardKey(p))
  <2>1. CASE held[d].key = CardKey(p)
    <3>1. rows'[CardKey(p)] = Finished(d)
      BY <1>1, <1>3, <2>1, ApplyRows
    <3> QED
      BY <1>3, <3>1, FinishedRow DEF AnswerKept
  <2>2. CASE held[d].key # CardKey(p)
    BY <1>1, <1>3, <2>2, ApplyRows, SameKept
  <2> QED
    BY <2>1, <2>2
<1>4. ASSUME rows' = rows PROVE AnswerKept(CardKey(p))
  BY <1>1, <1>4, SameKept
<1>5. ASSUME NEW d \in Dispatchers, Send(d) PROVE rows' = rows
  BY <1>5 DEF Send, SendCreate, SendUpdate, SendReplacement, SendDelete, SendFails, Post,
              CarriedOut
<1>6. ASSUME NEW d \in Dispatchers, NEW k \in Keys, Claim(d, k) PROVE AnswerKept(CardKey(p))
  BY <1>1, <1>6, ClaimDeliveryKept, ClaimApplicationKept DEF Claim
<1>7. ASSUME NEW d \in Dispatchers, NEW k \in Keys, Resolve(d, k)
      PROVE  AnswerKept(CardKey(p)) \/ k = CardKey(p)
  BY <1>1, <1>7, ResolveKept
<1>8. ASSUME NEW d \in Dispatchers, RecordDelivery(d)
      PROVE  AnswerKept(CardKey(p)) \/ held[d].key = CardKey(p)
  BY <1>1, <1>8, RecordDeliveryKept
<1>9. ASSUME NEW d \in Dispatchers, RetryDelivery(d) \/ FailDelivery(d) \/ ApplyFails(d)
      PROVE  AnswerKept(CardKey(p))
  BY <1>1, <1>9, FailedKept, ApplyFailsKept
<1>10. ASSUME NEW d \in Dispatchers, ClaimNothing(d) PROVE AnswerKept(CardKey(p))
  BY <1>1, <1>10, SweptKept DEF ClaimNothing
<1>11. ASSUME NEW k \in Keys, LeaseExpires(k) PROVE AnswerKept(CardKey(p))
  BY <1>1, <1>11, LeaseExpiresKept
<1> QED
  BY <1>2, <1>3, <1>4, <1>5, <1>6, <1>7, <1>8, <1>9, <1>10, <1>11
     DEF Next, Want, Record, LoseLease, Crash, vars

\* A delivered item stays, or comes from a send.
LEMMA StepDelivered ==
    ASSUME IInv, Alone, [Next]_vars, NEW d \in Dispatchers,
           held'[d] # None, held'[d].phase = "delivered"
    PROVE  held'[d] = held[d] \/ Send(d)
<1>1. /\ \A e \in Dispatchers : e = d
      /\ held \in [Dispatchers -> Item \cup {None}]
  BY DEF Alone, IInv, TypeOK
<1>2. ASSUME held' = [held EXCEPT ![d] = None] PROVE FALSE
  BY <1>1, <1>2
<1>3. ASSUME NEW i, held' = [held EXCEPT ![d] = i], i.phase # "delivered" PROVE FALSE
  BY <1>1, <1>3
<1>4. ASSUME NEW k \in Keys, Claim(d, k) \/ Resolve(d, k) PROVE FALSE
  <2>1. PICK phase, request, revision, attempt, answer :
           /\ held' = [held EXCEPT ![d] =
                 [key |-> k, phase |-> phase, request |-> request, revision |-> revision,
                  attempt |-> attempt, answer |-> answer]]
           /\ phase # "delivered"
    <3>1. CASE ClaimDelivery(d, k)
      BY <3>1 DEF ClaimDelivery
    <3>2. CASE ClaimApplication(d, k)
      BY <3>2 DEF ClaimApplication
    <3>3. CASE Resolve(d, k)
      BY <3>3 DEF Resolve
    <3> QED
      BY <1>4, <3>1, <3>2, <3>3 DEF Claim
  <2>2. PICK i : i = [key |-> k, phase |-> phase, request |-> request, revision |-> revision,
                      attempt |-> attempt, answer |-> answer]
    OBVIOUS
  <2>3. i.phase = phase
    BY <2>2
  <2> QED
    BY <1>3, <2>1, <2>2, <2>3
<1>5. ASSUME RecordDelivery(d) PROVE FALSE
  <2>1. held[d] \in Item
    BY <1>5, HeldItem DEF RecordDelivery, Answered
  <2>2. PICK i : i = [held[d] EXCEPT !.phase = "apply"]
    OBVIOUS
  <2>3. i.phase = "apply"
    BY <2>1, <2>2, ItemColumns
  <2>4. held' = [held EXCEPT ![d] = i]
    BY <1>1, <1>5, <2>2 DEF RecordDelivery
  <2> QED
    BY <1>3, <2>3, <2>4
<1> QED
  BY <1>1, <1>2, <1>4, <1>5
     DEF Next, Want, Project, Drop, ClaimNothing, Record, RetryDelivery, FailDelivery, LoseLease,
         Apply, ApplyFails, Crash, LeaseExpires, vars

\* An answer that came back is the answer to what was sent.
LEMMA SendAnswers ==
    ASSUME IInv, ShownInv, ~NonceWindow, NEW d \in Dispatchers, Send(d),
           held'[d].phase = "delivered", NEW p \in Projections, held[d].key = CardKey(p),
           NEW a, held'[d].answer = a
    PROVE  AnswerFits(p, a)'
<1>1. /\ held[d] # None /\ held[d].phase = "deliver"
      /\ held \in [Dispatchers -> Item \cup {None}] /\ held[d] \in Item
  BY HeldItem DEF Send, SendCreate, SendUpdate, SendReplacement, SendDelete, SendFails, Sending,
                  IInv, TypeOK
<1>2. ASSUME NEW m, CarriedOut(d, m) PROVE held'[d].answer = m /\ rows' = rows
  <2>1. PICK i, j : /\ i = [held[d] EXCEPT !.phase = "delivered", !.answer = m]
                    /\ j = [held[d] EXCEPT !.phase = "unreached", !.answer = None]
    OBVIOUS
  <2>2. i.answer = m /\ j.phase = "unreached"
    BY <1>1, <2>1, ItemColumns
  <2>3. held'[d] = i \/ held'[d] = j
    BY <1>1, <1>2, <2>1 DEF CarriedOut, Outcome
  <2> QED
    BY <1>2, <2>2, <2>3 DEF CarriedOut
<1>3. CASE SendCreate(d) \/ SendReplacement(d)
  <2>0. PICK q \in Projections : \E nonce :
           /\ held[d].key = CardKey(q) /\ nonce[1] = q
           /\ Flying(Card(q)) /\ Post(d, Card(q).inflight.version, nonce)
    BY <1>3, PostKinds
  <2>1. PICK nonce :
           /\ held[d].key = CardKey(q) /\ nonce[1] = q
           /\ Flying(Card(q)) /\ Post(d, Card(q).inflight.version, nonce)
    BY <2>0
  <2>2. q = p
    BY <2>1 DEF CardKey
  <2>3. PICK m \in Messages : /\ CarriedOut(d, m) /\ Unclaimed(p, m)'
                              /\ remote'[m].version = Card(p).inflight.version
    BY <2>1, <2>2, PostCard DEF ShownInv
  <2>4. held'[d].answer = m /\ Card(p)' = Card(p)
    BY <1>2, <2>3 DEF Card
  <2> QED
    BY <2>3, <2>4, NoneAssumption DEF AnswerFits
<1>4. CASE SendUpdate(d)
  <2>1. PICK q \in Projections :
              /\ held[d].key = CardKey(q)
              /\ Flying(Card(q)) /\ Card(q).inflight.op = "update"
              /\ remote' = [remote EXCEPT
                    ![Card(q).inflight.target].version = Card(q).inflight.version]
    BY <1>4, UpdateKinds
  <2>2. q = p
    BY <2>1 DEF CardKey
  <2>3. rows' = rows /\ projections' = projections /\ held'[d].answer = None
    BY <1>2, <1>4 DEF SendUpdate, CarriedOut
  <2>4. CardOK(p) /\ Card(p)' = Card(p)
    BY <2>3 DEF ShownInv, Card
  <2>5. remote'[Card(p).inflight.target].version = Card(p).inflight.version
    BY <2>1, <2>2, <2>3, <2>4, UpdateCard
  <2> QED
    BY <2>1, <2>2, <2>3, <2>4, <2>5 DEF AnswerFits
<1>5. ~SendDelete(d)
  <2>1. IsProjection(held[d].key)
    BY CardTypes
  <2> QED
    BY <1>1, <2>1, SendingRow DEF SendDelete, Sending, CardRequest
<1>6. ~SendFails(d)
  <2>1. ASSUME NEW phase \in {"unreached", "refused"}, Outcome(d, phase, None) PROVE FALSE
    <3>1. PICK i : i = [held[d] EXCEPT !.phase = phase, !.answer = None]
      OBVIOUS
    <3>2. i.phase = phase /\ held'[d] = i
      BY <1>1, <2>1, <3>1, ItemColumns DEF Outcome
    <3> QED
      BY <3>2
  <2> QED
    BY <2>1 DEF SendFails
<1> QED
  BY <1>3, <1>4, <1>5, <1>6 DEF Send

\* What is applied answers what is in flight.
LEMMA StepAnswers ==
    ASSUME IInv, ShownInv, Alone, ~NonceWindow, [Next]_vars
    PROVE  AnswersOK'
<1> SUFFICES ASSUME NEW p \in Projections, NEW a \in Messages \cup {None},
                    \/ Card(p)'.status = "applying" /\ Card(p)'.response = a
                    \/ \E d \in Dispatchers :
                          /\ held'[d] # None /\ held'[d].phase = "delivered"
                          /\ held'[d].key = CardKey(p) /\ held'[d].answer = a
             PROVE  AnswerFits(p, a)'
  BY DEF AnswersOK
<1>1. CardOK(p) /\ HoldsRow /\ HoldsRow' /\ (Calm(p) \/ Touches(p)) /\ CardKey(p) \in Keys
  BY StepHoldsRow, StepCard, CardTypes DEF ShownInv
<1>2. CASE Card(p)'.status = "applying" /\ Card(p)'.response = a
  <2>1. Flying(Card(p))'
    <3>1. rows'[CardKey(p)].inflight # None
      BY <1>1, <1>2, TypeStep DEF TypeOK, InFlight, Card
    <3> QED
      BY <3>1 DEF Flying, Card
  <2>2. CASE AnswerKept(CardKey(p))
    <3>1. /\ Card(p).status = "applying" /\ Card(p).response = a
          /\ Card(p)'.inflight = Card(p).inflight
      BY <1>2, <2>2 DEF AnswerKept, Card
    <3>2. AnswerFits(p, a) /\ Flying(Card(p))
      BY <3>1, CardTypes DEF ShownInv, AnswersOK, InFlight
    <3>3. ~Touches(p)
      <4>1. ASSUME NEW d \in Dispatchers, SendUpdate(d), held[d].key = CardKey(p) PROVE FALSE
        <5>1. PICK q \in Projections : held[d].key = CardKey(q) /\ Card(q).status = "sending"
          BY <4>1, UpdateKinds
        <5> QED
          BY <3>1, <4>1, <5>1 DEF Card
      <4>2. ASSUME NEW d \in Dispatchers, Apply(d), held[d].key = CardKey(p) PROVE FALSE
        BY <2>1, <4>2, ApplyCard
      <4> QED
        BY <4>1, <4>2 DEF Touches
    <3> QED
      BY <1>1, <3>1, <3>2, <3>3, FitsStays
  <2>3. ASSUME Works, Card(p)'.inflight = Card(p).inflight, Flying(Card(p)), AnswerFits(p, a)
        PROVE  AnswerFits(p, a)'
    BY <1>1, <2>3, WorksLocal, FitsStays DEF Local
  <2>4. ASSUME NEW d \in Dispatchers, RecordDelivery(d), held[d].key = CardKey(p)
        PROVE  AnswerFits(p, a)'
    <3>1. /\ Card(p)'.response = held[d].answer /\ Card(p)'.inflight = Card(p).inflight
      BY <2>4, RecordDeliveryKept DEF Card
    <3>2. held[d] # None /\ held[d].phase = "delivered"
      BY <2>4 DEF RecordDelivery, Answered
    <3>3. AnswerFits(p, a)
      BY <1>2, <2>4, <3>1, <3>2 DEF ShownInv, AnswersOK
    <3>4. Flying(Card(p))
      BY <2>4, <3>2, SendingRow DEF Card
    <3> QED
      BY <2>3, <2>4, <3>1, <3>3, <3>4 DEF Works, Record
  <2>5. ASSUME NEW d \in Dispatchers, Resolve(d, CardKey(p))
        PROVE  AnswerFits(p, a)'
    <3>1. /\ Card(p)'.inflight = Card(p).inflight /\ Card(p).status = "ambiguous"
          /\ a \in Messages /\ remote[a].nonce = CreateNonce(p)
          /\ remote[a].version = Card(p).inflight.version
      <4>1. CardKey(p)[2] = p
        BY CardTypes
      <4>2. /\ rows'[CardKey(p)].inflight = rows[CardKey(p)].inflight
            /\ rows[CardKey(p)].status = "ambiguous"
        <5>1. rows[CardKey(p)].status = "ambiguous"
          BY <2>5 DEF Resolve
        <5> QED
          BY <1>1, <2>5, <5>1, ResolveKept
      <4>3. PICK m \in Messages : /\ remote[m].nonce = CreateNonce(CardKey(p)[2])
                                  /\ remote[m].version = rows[CardKey(p)].inflight.version
                                  /\ rows'[CardKey(p)].response = m
        BY <1>1, <2>5, ResolveKept
      <4>4. m = a
        BY <1>2, <4>3 DEF Card
      <4> QED
        BY <4>1, <4>2, <4>3, <4>4 DEF Card
    <3>2. Flying(Card(p)) /\ Card(p).inflight.op = "create" /\ Card(p).inflight.version > 0
          /\ Card(p).inflight.version \in Nat
      BY <1>1, <3>1, CardTypes DEF CardOK, KindsOK, VersionsOK, InFlight
    <3>3. Mine(p, a)
      BY <3>1, <3>2 DEF Mine, CreateNonce, ShownInv, BlankOK
    <3>4. Unclaimed(p, a)
      BY <1>1, <3>1, <3>2, <3>3 DEF CardOK, FreshOK
    <3>5. AnswerFits(p, a)
      BY <3>1, <3>4, NoneAssumption DEF AnswerFits
    <3> QED
      BY <1>1, <2>3, <2>5, <3>1, <3>2, <3>5 DEF Works
  <2> QED
    BY <2>2, <2>4, <2>5, StepAnswerKept
<1>3. ASSUME NEW d \in Dispatchers, held'[d] # None, held'[d].phase = "delivered",
             held'[d].key = CardKey(p), held'[d].answer = a
      PROVE  AnswerFits(p, a)'
  <2>1. CASE held'[d] = held[d]
    <3>1. AnswerFits(p, a)
      BY <1>3, <2>1 DEF ShownInv, AnswersOK
    <3>2. Flying(Card(p)) /\ Card(p).inflight = held[d].request
      BY <1>3, <2>1, SendingRow DEF Card
    <3>3. Card(p)'.inflight = held'[d].request
      BY <1>1, <1>3 DEF HoldsRow, Card
    <3>4. ~Touches(p)
      <4>1. \A e \in Dispatchers : e = d
        BY DEF Alone
      <4>2. ~SendUpdate(d)
        BY <1>3, <2>1 DEF SendUpdate, Sending
      <4>3. ~Apply(d)
        BY <1>3, <2>1 DEF Apply, Answered
      <4> QED
        BY <4>1, <4>2, <4>3 DEF Touches
    <3> QED
      BY <1>1, <2>1, <3>1, <3>2, <3>3, <3>4, FitsStays
  <2>2. CASE Send(d)
    <3>1. held[d].key = CardKey(p)
      <4>1. HeldMoves(d)
        BY StepHeld
      <4>2. held[d] # None
        BY <2>2 DEF Send, SendCreate, SendUpdate, SendReplacement, SendDelete, SendFails, Sending
      <4> QED
        BY <1>3, <4>1, <4>2 DEF HeldMoves, Advances, Claims
    <3> QED
      BY <1>3, <2>2, <3>1, SendAnswers
  <2> QED
    BY <1>3, <2>1, <2>2, StepDelivered
<1> QED
  BY <1>2, <1>3

-----------------------------------------------------------------------------
(* The invariant, and what follows from it. *)

\* Nothing is shown at first.
LEMMA ShownInit == Init => ShownInv
<1> SUFFICES ASSUME Init PROVE ShownInv
  OBVIOUS
<1>1. IInv
  BY InvariantInit
<1>2. PICK r : r = [NewRow(Delete(None)) EXCEPT !.status = "absent"]
  OBVIOUS
<1>3. /\ r.status = "absent" /\ r.inflight = None /\ r.request.target = None
  <2>1. PICK n : /\ n = NewRow(Delete(None)) /\ n \in Row /\ n.inflight = None
                 /\ n.request = Delete(None)
    <3>1. NewRow(Delete(None)).request = Delete(None)
      BY DEF NewRow
    <3> QED
      BY <3>1, RequestTypes, NewRowType
  <2>2. Delete(None).target = None
    BY DEF Delete
  <2> QED
    BY <1>2, <2>1, <2>2, RowColumns
<1>4. \A k \in Keys : rows[k] = r
  BY <1>2 DEF Init
<1>5. \A m \in Messages : remote[m].state = "absent" /\ remote[m].version = 0
  BY DEF Init
<1>6. \A m \in Messages : ~Doomed(m)
  BY <1>3, <1>4, NoneAssumption DEF Doomed, Flying
<1>7. ASSUME NEW p \in Projections PROVE CardOK(p)
  <2>1. Card(p) = r
    BY <1>1, <1>4, CardTypes DEF Card
  <2>2. ~projections[p].exists /\ projections[p].message = None /\ projections[p].desired = 0
    BY DEF Init
  <2>3. \A m \in Messages : ~Mine(p, m)
    BY <1>5 DEF Mine
  <2>4. KindsOK(p) /\ VersionsOK(p) /\ FreshOK(p) /\ ShownOK(p)
    BY <1>3, <2>1, <2>2, <2>3 DEF KindsOK, VersionsOK, FreshOK, ShownOK, Flying
  <2>5. OwnedOK(p)
    BY <1>3, <2>1, <2>2, <2>3, NoneAssumption DEF OwnedOK, Flying
  <2> QED
    BY <2>4, <2>5 DEF CardOK
<1>8. DeletesOK
  BY <1>3, <1>4, <1>6 DEF DeletesOK, Flying
<1>9. HoldsRow
  BY DEF Init, HoldsRow
<1>10. AnswersOK
  <2>1. \A p \in Projections : Card(p).status = "absent"
    BY <1>1, <1>3, <1>4, CardTypes DEF Card
  <2>2. \A d \in Dispatchers : held[d] = None
    BY DEF Init
  <2> QED
    BY <2>1, <2>2 DEF AnswersOK
<1>11. BlankOK
  BY <1>5 DEF BlankOK
<1> QED
  BY <1>7, <1>8, <1>9, <1>10, <1>11 DEF ShownInv

\* When every row has reached Discord, each wanted card is shown there in its
\* newest version and the projection knows it, although it may change while its
\* create, its update, its replacement or its resolution by an operator is under
\* way, answers are lost, dispatchers crash and transactions fail.  One process
\* dispatches, and Discord has forgotten a nonce by the time it is sent again:
\* without the latter the property is false.
THEOREM ShownNewest ==
    ASSUME ~NonceWindow, \A d, e \in Dispatchers : d = e
    PROVE  Spec => []QuietShowsNewest
<1>1. Alone
  BY DEF Alone
<1>2. IInv /\ ShownInv /\ [Next]_vars => ShownInv'
  BY <1>1, StepCard, StepDeletes, StepHoldsRow, StepAnswers DEF ShownInv
<1>3. IInv /\ ShownInv => QuietShowsNewest
  <2> SUFFICES ASSUME IInv, ShownInv, Quiet, NEW p \in Projections, projections[p].exists
               PROVE  /\ projections[p].applied = projections[p].desired
                      /\ \E m \in Messages :
                            /\ projections[p].message = m
                            /\ remote[m].state = "shown"
                            /\ remote[m].version = projections[p].desired
    BY DEF QuietShowsNewest
  <2>1. Card(p).status \in {"absent", "completed"} /\ CardOK(p)
    BY CardTypes DEF Quiet, Card, ShownInv
  <2>2. Card(p).status = "completed"
    BY <2>1 DEF CardOK, VersionsOK
  <2> QED
    BY <2>1, <2>2 DEF CardOK, ShownOK, OwnedOK
<1> QED
  BY <1>2, <1>3, InvariantInit, ShownInit, InvariantHolds, PTL DEF Spec

-----------------------------------------------------------------------------
(* What becomes of every message.

   Each message that Discord shows is the one of its card, is on its way to it, or
   is to be deleted.  This holds for any number of dispatchers, with stale ones
   among them, and whether Discord remembers nonces or not, when no edit is refused
   for good, no answer looks like a failure, and cards are dropped at one version. *)

\* The messages of a card that show a version of it.
Born(p, v) == {m \in Messages : Mine(p, m) /\ remote[m].version = v}

\* A create is on its way.
Creating(p) == Flying(Card(p)) /\ Card(p).inflight.op = "create"

\* The message has been made, and its card does not know it yet.
Arriving(p, m) == Creating(p) /\ m \in Born(p, Card(p).inflight.version)

\* The message is the target of the newest request of a row that deletes.
Dismissed(m) == \E k \in Keys : ~IsProjection(k) /\ rows[k].request.target = m

\* A request for a card is for no newer version than the card's, and an update goes
\* to a message of the card that is not arriving.
RequestOK(p, q) ==
    /\ q.op \in {"create", "update"}
    /\ 0 < q.version /\ q.version <= projections[p].desired
    /\ q.op = "create" => q.target = None
    /\ q.op = "update" => /\ q.target \in Messages /\ Mine(p, q.target)
                          /\ ~Arriving(p, q.target)

\* The answer to a create is a message of the card; an update makes none.
ReplyOK(p, q, answer) ==
    IF q.op = "create" THEN answer \in Messages /\ Mine(p, answer) ELSE answer = None

\* The newest request and the one in flight are for the card.
WantedOK(p) ==
    LET row == Card(p) IN
    /\ row.status # "absent" => RequestOK(p, row.request)
    /\ row.status = "absent" => row.request.op = "delete"
    /\ Flying(row) => RequestOK(p, row.inflight)
    /\ row.status = "ambiguous" => Creating(p)
    /\ ~projections[p].exists => projections[p].message = None
    /\ projections[p].message \in Messages => Mine(p, projections[p].message)
    /\ \A m \in Messages : Mine(p, m) => remote[m].version <= projections[p].desired

\* A create waits to be sent.
CreateWaits(p) ==
    /\ Card(p).request.op = "create" /\ Card(p).status # "completed"
    /\ Card(p).inflight # Card(p).request

\* A card has no message while a create is wanted or on its way.  No message is of
\* the version of a create that waits; at most one arrives.
CreateOK(p) ==
    /\ Card(p).request.op = "create" /\ Card(p).status # "completed" =>
          projections[p].message = None
    /\ CreateWaits(p) => Born(p, Card(p).request.version) = {}
    /\ Creating(p) => projections[p].message = None
    /\ \A m, n \in Messages : Arriving(p, m) /\ Arriving(p, n) => m = n

\* What arrives is what the row is being applied with.
ResponseOK(p) ==
    LET row == Card(p) IN
    row.status = "applying" => /\ ReplyOK(p, row.inflight, row.response)
                               /\ \A m \in Messages : Arriving(p, m) => m = row.response

\* The dispatcher works on the row of the card.
Handles(d, p) == held[d] # None /\ held[d].key = CardKey(p)

\* What a dispatcher knows of the card is true while it has the lease.
Handling(d, p) ==
    LET q == held[d].request IN
    /\ RequestOK(p, q)
    /\ held[d].phase \in {"delivered", "apply"} => ReplyOK(p, q, held[d].answer)
    /\ held[d].phase = "delivered" /\ Delivering(d) =>
          \A m \in Messages : Arriving(p, m) => m = held[d].answer
    /\ held[d].phase \in {"unreached", "refused"} /\ Delivering(d) =>
          \A m \in Messages : ~Arriving(p, m)
    /\ held[d].phase = "apply" /\ Applying(d) =>
          Card(p).inflight = q /\ Card(p).response = held[d].answer

\* A create that is about to be sent has made nothing, and only one dispatcher is
\* about to send it, although its lease may have run out.  An update that is about
\* to be sent, however late, is not for the version of a create.
Dispatching(d, p) ==
    LET row == Card(p)
        q   == held[d].request
    IN
    /\ q.op = "update" =>
          /\ row.request.op = "create" => row.request.version # q.version
          /\ Creating(p) => row.inflight.version # q.version
    /\ q.op = "create" =>
          /\ row.status \in {"sending", "ambiguous"} /\ row.inflight = q
          /\ row.status = "sending" => row.lease = d
          /\ Born(p, q.version) = {}
          /\ \A e \in Dispatchers :
                Handles(e, p) /\ held[e].phase = "deliver" /\ held[e].request.op = "create" =>
                    e = d

\* A card is dropped once.
DroppedOnce(p) ==
    rows[<<"projection-delete", p>>].status # "absent" =>
        \E v \in Obsoleting : /\ v <= projections[p].desired
                              /\ v = projections[p].desired => ~projections[p].exists

\* The fate of the messages of a card.
FateOK(p) ==
    \A m \in Messages : Mine(p, m) /\ remote[m].state = "shown" =>
        projections[p].message = m \/ Arriving(p, m) \/ Dismissed(m)

\* A card and all work on it.
TracedOK(p) ==
    /\ WantedOK(p) /\ CreateOK(p) /\ ResponseOK(p) /\ DroppedOnce(p) /\ FateOK(p)
    /\ \A d \in Dispatchers : Handles(d, p) =>
          Handling(d, p) /\ (held[d].phase = "deliver" => Dispatching(d, p))

\* Requests that delete a message which was made.
Deletion(q) ==
    q.op = "delete" /\ q.target \in Messages /\ remote[q.target].state # "absent"

\* The other rows, and what they have done.
DeletionsOK ==
    /\ \A k \in Keys : ~IsProjection(k) =>
          /\ rows[k].status # "absent" => Deletion(rows[k].request)
          /\ rows[k].status = "absent" => rows[k].request.target = None
          /\ Flying(rows[k]) => Deletion(rows[k].inflight)
          /\ k[1] # "projection-delete" => rows[k].request.target \in {None, k[2]}
    /\ \A d \in Dispatchers :
          held[d] # None /\ ~IsProjection(held[d].key) => Deletion(held[d].request)
    /\ \A k \in Keys : \A q \in accepted[k] : q.op = "delete" =>
          q.target \in Messages /\ remote[q.target].state = "deleted"

\* Every message was made for a card.
OwnersOK == \A m \in Messages :
    /\ remote[m].state # "absent" => \E p \in Projections : Mine(p, m)
    /\ remote[m].state = "absent" => remote[m].version = 0

FateInv == (\A p \in Projections : TracedOK(p)) /\ DeletionsOK /\ OwnersOK

-----------------------------------------------------------------------------
(* What a step of the work does to a row, the lease included. *)

\* An idle dispatcher has the lease now.
NewLease(j) == \E e \in Dispatchers : held[e] = None /\ rows'[j].lease = e

\* Only the lease may change, and not that of a delivery.
Keeps(j) ==
    /\ rows'[j].status = rows[j].status /\ rows'[j].inflight = rows[j].inflight
    /\ rows'[j].sent = rows[j].sent /\ rows'[j].response = rows[j].response
    /\ \/ rows'[j].lease = rows[j].lease
       \/ rows[j].status # "sending" /\ (rows'[j].lease = None \/ NewLease(j))

\* The lease ran out: what can be repeated is, and all else waits.
GivenBack(j) ==
    /\ rows[j].status = "sending" /\ rows[j].inflight.op \in Repeatable
    /\ rows'[j].status = "pending" /\ rows'[j].inflight = None

LostSight(j) ==
    /\ rows[j].status = "sending" /\ rows[j].inflight.op \notin Repeatable
    /\ rows'[j].status = "ambiguous" /\ rows'[j].inflight = rows[j].inflight

\* The newest request goes on its way.
Departs(j) ==
    /\ \/ rows[j].status \in Claimable
       \/ rows[j].status = "sending" /\ rows[j].inflight.op \in Repeatable
    /\ rows'[j].status = "sending" /\ rows'[j].inflight = rows[j].request /\ NewLease(j)

\* Its answer is recorded, by the dispatcher that has the lease.
Returns(j) ==
    /\ rows'[j].status = "applying" /\ rows'[j].inflight = rows[j].inflight
    /\ \E e \in Dispatchers :
          /\ RecordDelivery(e) /\ held[e].key = j
          /\ rows'[j].response = held[e].answer /\ rows'[j].lease = e

\* It is seen to have failed.
FallsBack(j) ==
    /\ SeenToFail(j)
    /\ rows'[j].status \in {"pending", "retrying", "failed"} /\ rows'[j].inflight = None

\* An operator finds what became of it.
IsFound(j) ==
    /\ rows[j].status = "ambiguous" /\ rows'[j].status = "applying"
    /\ rows'[j].inflight = rows[j].inflight /\ NewLease(j)
    /\ rows'[j].response \in Messages
    /\ remote[rows'[j].response].nonce = CreateNonce(j[2])
    /\ remote[rows'[j].response].version = rows[j].inflight.version

Proceeds(j) == \/ Keeps(j) \/ GivenBack(j) \/ LostSight(j) \/ Departs(j) \/ Returns(j)
               \/ FallsBack(j) \/ IsFound(j)

\* One row proceeds.
LEMMA OneProceeds ==
    ASSUME IInv, NEW k \in Keys, NEW s, rows' = [rows EXCEPT ![k] = s],
           rows'[k] = s => Proceeds(k)
    PROVE  \A j \in Keys : Proceeds(j)
<1>1. rows'[k] = s /\ \A j \in Keys \ {k} : rows'[j] = rows[j]
  BY DEF IInv, TypeOK
<1> QED
  BY <1>1 DEF Proceeds, Keeps

\* A row that may be swept.
LEMMA SweptProceeds ==
    ASSUME IInv, NEW j \in Keys, rows'[j] = Swept(rows)[j]
    PROVE  Proceeds(j)
<1>1. rows \in [Keys -> Row]
  BY DEF IInv, TypeOK
<1>2. CASE rows'[j] = rows[j]
  BY <1>2 DEF Proceeds, Keeps
<1>3. CASE rows'[j] # rows[j]
  <2>1. PICK r, s : r \in Row /\ r = rows[j] /\ s = Swept(rows)[j] /\ s = rows'[j]
    BY <1>1
  <2>2. \/ /\ r.status = "sending" /\ s.status = "pending" /\ s.inflight = None
           /\ r.inflight.op \in Repeatable
        \/ /\ r.status = "sending" /\ s.status = "ambiguous"
           /\ s.inflight = r.inflight /\ r.inflight.op \notin Repeatable
    BY <1>1, <1>3, <2>1, SweptRows
  <2> QED
    BY <2>1, <2>2 DEF Proceeds, GivenBack, LostSight
<1> QED
  BY <1>2, <1>3

\* A claimed row.
LEMMA ClaimProceeds ==
    ASSUME IInv, NEW d \in Dispatchers, NEW k \in Keys, Claim(d, k), NEW j \in Keys
    PROVE  Proceeds(j)
<1>1. /\ rows \in [Keys -> Row] /\ Swept(rows) \in [Keys -> Row] /\ held[d] = None
  BY SweptRows DEF IInv, TypeOK, Swept, Claim, ClaimDelivery, ClaimApplication
<1>2. PICK r \in Row : r = Swept(rows)[k]
  BY <1>1
<1>3. CASE ClaimDelivery(d, k)
  <2>1. PICK s : s = [r EXCEPT !.status = "sending", !.attempts = Attempted(r),
                               !.inflight = r.request, !.sent = r.revision, !.response = None,
                               !.lease = d, !.expired = FALSE]
    OBVIOUS
  <2>2. rows'[k] = s /\ \A i \in Keys \ {k} : rows'[i] = Swept(rows)[i]
    BY <1>1, <1>2, <1>3, <2>1 DEF ClaimDelivery
  <2>3. s.status = "sending" /\ s.inflight = r.request /\ s.lease = d
    BY <2>1, RowColumns
  <2>4. /\ r.request = rows[k].request
        /\ \/ rows[k].status \in Claimable
           \/ rows[k].status = "sending" /\ rows[k].inflight.op \in Repeatable
    <3>1. r.status \in Claimable
      BY <1>2, <1>3 DEF ClaimDelivery
    <3> QED
      BY <1>1, <1>2, <3>1, SweptRows DEF Claimable
  <2>5. Departs(k)
    BY <1>1, <2>2, <2>3, <2>4 DEF Departs, NewLease
  <2> QED
    BY <2>2, <2>5, SweptProceeds DEF Proceeds
<1>4. CASE ClaimApplication(d, k)
  <2>1. PICK s : s = [r EXCEPT !.lease = d, !.expired = FALSE]
    OBVIOUS
  <2>2. rows'[k] = s /\ \A i \in Keys \ {k} : rows'[i] = Swept(rows)[i]
    BY <1>1, <1>2, <1>4, <2>1 DEF ClaimApplication
  <2>3. /\ s.status = r.status /\ s.inflight = r.inflight /\ s.sent = r.sent
        /\ s.response = r.response /\ s.lease = d
    BY <2>1, RowColumns
  <2>4. r = rows[k] /\ r.status = "applying"
    BY <1>2, <1>4, ClaimApplicationKept
  <2>5. Keeps(k)
    BY <1>1, <2>2, <2>3, <2>4 DEF Keeps, NewLease
  <2> QED
    BY <2>2, <2>5, SweptProceeds DEF Proceeds
<1> QED
  BY <1>3, <1>4 DEF Claim

\* A row whose delivery ends.
LEMMA RecordProceeds ==
    ASSUME IInv, NEW d \in Dispatchers, Record(d), NEW j \in Keys
    PROVE  Proceeds(j)
<1>1. CASE LoseLease(d)
  BY <1>1 DEF LoseLease, Proceeds, Keeps
<1>2. CASE ~LoseLease(d)
  <2>1. held[d] # None /\ Delivering(d)
    BY <1>2 DEF Record, RecordDelivery, RetryDelivery, FailDelivery, Answered
  <2>2. PICK k \in Keys, r \in Row, m \in Messages \cup {None} :
           k = held[d].key /\ r = rows[k] /\ m = held[d].answer
    BY <2>1, HeldItem
  <2>3. r.status = "sending" /\ r.lease = d
    BY <2>1, <2>2 DEF Delivering
  <2>4. CASE RecordDelivery(d)
    <3>1. PICK s : s = [r EXCEPT !.status = "applying", !.response = m]
      OBVIOUS
    <3>2. rows' = [rows EXCEPT ![k] = s]
      BY <2>2, <2>4, <3>1 DEF RecordDelivery, IInv, TypeOK
    <3>3. s.status = "applying" /\ s.inflight = r.inflight /\ s.response = m /\ s.lease = d
      BY <2>3, <3>1, RowColumns
    <3>4. rows'[k] = s => Returns(k)
      BY <2>2, <2>4, <3>3 DEF Returns
    <3> QED
      BY <3>2, <3>4, OneProceeds DEF Proceeds
  <2>5. CASE RetryDelivery(d) \/ FailDelivery(d)
    <3>1. PICK t \in Row : t = Released(r) /\ t.inflight = None
      BY ReleasedType
    <3>2. PICK s : /\ rows' = [rows EXCEPT ![k] = s]
                   /\ s.status \in {"pending", "retrying", "failed"} /\ s.inflight = None
      <4>1. CASE RetryDelivery(d)
        <5>1. PICK s : s = [t EXCEPT !.status = "retrying",
                                     !.attempts = IF Newest(d) THEN rows[k].attempts ELSE 0]
          OBVIOUS
        <5>2. s.status = "retrying" /\ s.inflight = None
          BY <3>1, <5>1, RowColumns
        <5>3. rows' = [rows EXCEPT ![k] = s]
          BY <2>2, <3>1, <4>1, <5>1 DEF RetryDelivery
        <5> QED
          BY <5>2, <5>3
      <4>2. CASE FailDelivery(d)
        <5>1. PICK s : s = [t EXCEPT !.status = IF Newest(d) THEN "failed" ELSE "pending",
                                     !.attempts = IF Newest(d) THEN rows[k].attempts ELSE 0,
                                     !.response = None]
          OBVIOUS
        <5>2. s.status \in {"pending", "failed"} /\ s.inflight = None
          BY <3>1, <5>1, RowColumns
        <5>3. rows' = [rows EXCEPT ![k] = s]
          BY <2>2, <3>1, <4>2, <5>1 DEF FailDelivery
        <5> QED
          BY <5>2, <5>3
      <4> QED
        BY <2>5, <4>1, <4>2
    <3>3. SeenToFail(k)
      BY <2>1, <2>2, <2>5 DEF SeenToFail, RetryDelivery, FailDelivery, Answered
    <3>4. rows'[k] = s => FallsBack(k)
      BY <3>2, <3>3 DEF FallsBack
    <3> QED
      BY <3>2, <3>4, OneProceeds DEF Proceeds
  <2> QED
    BY <1>2, <2>4, <2>5 DEF Record
<1> QED
  BY <1>1, <1>2

\* A row that an operator resolves.
LEMMA ResolveProceeds ==
    ASSUME IInv, NEW d \in Dispatchers, NEW k \in Keys, Resolve(d, k), NEW j \in Keys
    PROVE  Proceeds(j)
<1>1. PICK r \in Row : r = rows[k]
  BY DEF IInv, TypeOK
<1>2. PICK m \in Messages :
         /\ rows' = [rows EXCEPT ![k].status = "applying", ![k].response = m,
                                 ![k].lease = d, ![k].expired = FALSE]
         /\ remote[m].nonce = CreateNonce(k[2])
         /\ remote[m].version = rows[k].inflight.version
  BY DEF Resolve
<1>3. PICK s : s = [r EXCEPT !.status = "applying", !.response = m, !.lease = d,
                             !.expired = FALSE]
  OBVIOUS
<1>4. rows' = [rows EXCEPT ![k] = s]
  BY <1>1, <1>2, <1>3 DEF IInv, TypeOK
<1>5. /\ s.status = "applying" /\ s.inflight = r.inflight /\ s.response = m /\ s.lease = d
  BY <1>3, RowColumns
<1>6. rows'[k] = s => IsFound(k)
  BY <1>1, <1>2, <1>5 DEF IsFound, NewLease, Resolve
<1> QED
  BY <1>4, <1>6, OneProceeds DEF Proceeds

\* Every row proceeds by the work.
LEMMA WorksProceed ==
    ASSUME IInv, Works, NEW j \in Keys
    PROVE  Proceeds(j)
<1>1. ASSUME NEW d \in Dispatchers, ApplyFails(d) PROVE Proceeds(j)
  <2>1. held[d] # None /\ Applying(d)
    BY <1>1 DEF ApplyFails, Answered
  <2>2. PICK k \in Keys, r \in Row : k = held[d].key /\ r = rows[k]
    BY <2>1, HeldItem
  <2>3. PICK s : s = [r EXCEPT !.lease = None, !.expired = FALSE]
    OBVIOUS
  <2>4. rows' = [rows EXCEPT ![k] = s]
    BY <1>1, <2>2, <2>3 DEF ApplyFails, IInv, TypeOK
  <2>5. /\ s.status = r.status /\ s.inflight = r.inflight /\ s.sent = r.sent
        /\ s.response = r.response /\ s.lease = None /\ r.status = "applying"
    BY <2>1, <2>2, <2>3, RowColumns DEF Applying
  <2>6. rows'[k] = s => Keeps(k)
    BY <2>2, <2>5 DEF Keeps
  <2> QED
    BY <2>4, <2>6, OneProceeds DEF Proceeds
<1>2. ASSUME NEW k \in Keys, LeaseExpires(k) PROVE Proceeds(j)
  <2>1. PICK r \in Row : r = rows[k]
    BY DEF IInv, TypeOK
  <2>2. PICK s : s = [r EXCEPT !.expired = TRUE]
    OBVIOUS
  <2>3. rows' = [rows EXCEPT ![k] = s]
    BY <1>2, <2>1, <2>2 DEF LeaseExpires
  <2>4. /\ s.status = r.status /\ s.inflight = r.inflight /\ s.sent = r.sent
        /\ s.response = r.response /\ s.lease = r.lease
    BY <2>2, RowColumns
  <2>5. rows'[k] = s => Keeps(k)
    BY <2>1, <2>4 DEF Keeps
  <2> QED
    BY <2>3, <2>5, OneProceeds DEF Proceeds
<1>3. ASSUME NEW d \in Dispatchers, ClaimNothing(d) PROVE Proceeds(j)
  BY <1>3, SweptProceeds DEF ClaimNothing
<1>4. ASSUME NEW d \in Dispatchers, Crash(d) PROVE Proceeds(j)
  BY <1>4 DEF Crash, Proceeds, Keeps
<1> QED
  BY <1>1, <1>2, <1>3, <1>4, ClaimProceeds, ResolveProceeds, RecordProceeds DEF Works

-----------------------------------------------------------------------------
(* What a step leaves of a card it is not about, or whose row it only works on. *)

\* A message of the card is edited: not one that arrives, and not to the version of
\* a create.
Edited(p, m) ==
    /\ remote'[m].version <= projections[p].desired /\ ~Arriving(p, m)
    /\ Card(p).request.op = "create" => remote'[m].version # Card(p).request.version
    /\ Creating(p) => remote'[m].version # Card(p).inflight.version

Undisturbed(p) ==
    /\ projections'[p] = projections[p]
    /\ rows'[CardKey(p)].request = rows[CardKey(p)].request
    /\ Proceeds(CardKey(p))
    /\ \A m \in Messages :
          /\ Mine(p, m)' <=> Mine(p, m)
          /\ Mine(p, m) =>
                /\ remote'[m].state = "shown" => remote[m].state = "shown"
                /\ remote'[m].version = remote[m].version \/ Edited(p, m)
                /\ Dismissed(m) => Dismissed(m)'
    /\ LET k == <<"projection-delete", p>> IN
       rows'[k].status # "absent" => rows[k].status # "absent"

\* A dispatcher that sees a delivery fail has made nothing.
LEMMA FallsBackEmpty ==
    ASSUME IInv, NEW p \in Projections, TracedOK(p), FallsBack(CardKey(p)), NEW m \in Messages
    PROVE  ~Arriving(p, m)
<1>1. PICK d \in Dispatchers : /\ Answered(d, {"unreached", "refused"})
                               /\ held[d].key = CardKey(p) /\ Delivering(d)
  BY DEF FallsBack, SeenToFail
<1>2. Handles(d, p) /\ held[d].phase \in {"unreached", "refused"}
  BY <1>1 DEF Handles, Answered
<1> QED
  BY <1>1, <1>2 DEF TracedOK, Handling

\* The row that departs was not under way with a create.
LEMMA DepartsIdle ==
    ASSUME IInv, NEW p \in Projections, Departs(CardKey(p))
    PROVE  /\ ~Creating(p)
           /\ Card(p).status \notin {"absent", "completed", "ambiguous"}
<1>1. Flying(Card(p)) <=> Card(p).status \in InFlight
  BY CardTypes
<1>2. \/ Card(p).status \in {"pending", "retrying"}
      \/ Card(p).status = "sending" /\ Card(p).inflight.op \in {"update", "delete"}
  BY DEF Departs, Claimable, Repeatable, Card
<1> QED
  BY <1>1, <1>2 DEF Creating, InFlight

\* What arrives at a card before the step arrives at it after the step.
LEMMA StillArriving ==
    ASSUME IInv, NEW p \in Projections, TracedOK(p), Undisturbed(p), NEW m \in Messages
    PROVE  Arriving(p, m)' <=> Arriving(p, m)
<1> DEFINE c == CardKey(p)
<1>1. /\ Mine(p, m)' <=> Mine(p, m)
      /\ Mine(p, m) => remote'[m].version = remote[m].version \/ Edited(p, m)
      /\ Proceeds(c) /\ rows'[c].request = rows[c].request
  BY DEF Undisturbed
<1>2. /\ Arriving(p, m) <=> /\ rows[c].inflight # None /\ rows[c].inflight.op = "create"
                            /\ Mine(p, m) /\ remote[m].version = rows[c].inflight.version
      /\ Arriving(p, m)' <=> /\ rows'[c].inflight # None /\ rows'[c].inflight.op = "create"
                             /\ Mine(p, m)' /\ remote'[m].version = rows'[c].inflight.version
  BY DEF Arriving, Creating, Flying, Born, Card
<1>3. CASE rows'[c].inflight = rows[c].inflight
  <2>1. CASE Mine(p, m) /\ Edited(p, m)
    BY <1>1, <1>2, <1>3, <2>1 DEF Edited, Creating, Flying, Card
  <2>2. CASE ~(Mine(p, m) /\ Edited(p, m))
    BY <1>1, <1>2, <1>3, <2>2
  <2> QED
    BY <2>1, <2>2
<1>4. CASE GivenBack(c)
  BY <1>2, <1>4 DEF GivenBack, Repeatable
<1>5. CASE FallsBack(c)
  <2>1. ~Arriving(p, m)
    BY <1>5, FallsBackEmpty
  <2> QED
    BY <1>2, <1>5, <2>1 DEF FallsBack
<1>6. CASE Departs(c)
  <2>1. ~Creating(p) /\ Card(p).status # "completed"
    BY <1>6, DepartsIdle
  <2>2. ~Arriving(p, m)
    BY <2>1 DEF Arriving
  <2>3. ASSUME Arriving(p, m)' PROVE FALSE
    <3>1. /\ Card(p).request.op = "create" /\ Mine(p, m)
          /\ remote'[m].version = Card(p).request.version
      BY <1>1, <1>2, <1>6, <2>3 DEF Departs, Card
    <3>2. remote[m].version = Card(p).request.version
      BY <1>1, <3>1 DEF Edited
    <3>3. m \in Born(p, Card(p).request.version)
      BY <3>1, <3>2 DEF Born
    <3>4. CreateWaits(p)
      <4>1. Card(p).request \in Request
        BY CardTypes
      <4>2. Card(p).inflight # Card(p).request
        BY <2>1, <3>1, <4>1, RequestsAssumption DEF Creating, Flying
      <4> QED
        BY <2>1, <3>1, <4>2 DEF CreateWaits
    <3> QED
      BY <3>3, <3>4 DEF TracedOK, CreateOK
  <2> QED
    BY <2>2, <2>3
<1> QED
  BY <1>1, <1>3, <1>4, <1>5, <1>6 DEF Proceeds, Keeps, LostSight, Returns, IsFound

\* A request of the card stays one.
LEMMA RequestStays ==
    ASSUME NEW p \in Projections, NEW q, RequestOK(p, q),
           projections[p].desired \in Nat, projections'[p].desired \in Nat, q.version \in Nat,
           projections[p].desired <= projections'[p].desired,
           \A m \in Messages : Mine(p, m) => Mine(p, m)' /\ (Arriving(p, m)' => Arriving(p, m))
    PROVE  RequestOK(p, q)'
BY DEF RequestOK

\* So does an answer.
LEMMA ReplyStays ==
    ASSUME NEW p \in Projections, NEW q, NEW a, ReplyOK(p, q, a),
           \A m \in Messages : Mine(p, m) => Mine(p, m)'
    PROVE  ReplyOK(p, q, a)'
BY DEF ReplyOK

\* The requests of an undisturbed card stay.
LEMMA UndisturbedRequest ==
    ASSUME IInv, NEW p \in Projections, TracedOK(p), Undisturbed(p), NEW q \in Request,
           RequestOK(p, q)
    PROVE  RequestOK(p, q)'
<1>1. \A m \in Messages : Mine(p, m) => Mine(p, m)' /\ (Arriving(p, m)' => Arriving(p, m))
  BY StillArriving DEF Undisturbed
<1>2. projections[p].desired \in Nat /\ projections'[p].desired = projections[p].desired
  BY CardTypes DEF Undisturbed
<1>3. q.version \in Nat
  BY DEF Request
<1> QED
  BY <1>1, <1>2, <1>3, RequestStays

\* What is wanted of a card after a step, when its requests are named.
LEMMA WantedAfter ==
    ASSUME NEW p \in Projections, NEW r, NEW s, NEW m,
           r = Card(p)'.request, s = Card(p)'.inflight, m = projections'[p].message,
           Card(p)'.status # "absent" => RequestOK(p, r)',
           Card(p)'.status = "absent" => r.op = "delete",
           s # None => RequestOK(p, s)',
           Card(p)'.status = "ambiguous" => Creating(p)',
           ~projections'[p].exists => m = None,
           m \in Messages => Mine(p, m)',
           \A n \in Messages : Mine(p, n)' => remote'[n].version <= projections'[p].desired
    PROVE  WantedOK(p)'
BY DEF WantedOK, RequestOK, Arriving, Creating, Flying, Born, Mine, Card

\* What is wanted of a card stays so.
LEMMA UndisturbedWanted ==
    ASSUME IInv, NEW p \in Projections, TracedOK(p), Undisturbed(p)
    PROVE  WantedOK(p)'
<1> DEFINE c == CardKey(p)
<1>1. /\ WantedOK(p) /\ projections'[p] = projections[p]
      /\ rows'[c].request = rows[c].request /\ Proceeds(c)
  BY DEF TracedOK, Undisturbed
<1>2. /\ rows[c].request \in Request
      /\ rows[c].inflight # None => rows[c].inflight \in Request
      /\ rows[c].inflight # None <=> rows[c].status \in InFlight
  BY CardTypes DEF Card, Flying
<1>3. rows'[c].status = "absent" <=> rows[c].status = "absent"
  BY <1>1 DEF Proceeds, Keeps, GivenBack, LostSight, Departs, Returns, FallsBack, IsFound,
              SeenToFail, RecordDelivery, Delivering, Claimable
<1>4. PICK r, f : r \in Request /\ r = rows[c].request /\ f = rows[c].inflight
  BY <1>2
<1>5. rows[c].status # "absent" => RequestOK(p, r)'
  BY <1>1, <1>4, UndisturbedRequest DEF WantedOK, Card
<1>6. f # None => RequestOK(p, f)'
  BY <1>1, <1>2, <1>4, UndisturbedRequest DEF WantedOK, Card, Flying
<1>7. PICK s : s = rows'[c].inflight
  OBVIOUS
<1>8. s # None => RequestOK(p, s)'
  <2>1. s = f \/ s = None \/ (s = r /\ rows'[c].status = "sending")
    BY <1>1, <1>4, <1>7
       DEF Proceeds, Keeps, GivenBack, LostSight, Departs, Returns, FallsBack, IsFound
  <2> QED
    BY <1>3, <1>5, <1>6, <2>1
<1>9. rows'[c].status = "ambiguous" => Creating(p)'
  <2>1. rows'[c].status = "ambiguous" => /\ rows'[c].inflight = rows[c].inflight
                                         /\ \/ rows[c].status = "ambiguous"
                                            \/ /\ rows[c].inflight.op \notin Repeatable
                                               /\ rows[c].status = "sending"
    BY <1>1 DEF Proceeds, Keeps, GivenBack, LostSight, Departs, Returns, FallsBack, IsFound
  <2>2. rows[c].inflight # None => rows[c].inflight.op \in {"create", "update"}
    BY <1>1 DEF WantedOK, RequestOK, Card, Flying
  <2> QED
    BY <1>1, <1>2, <2>1, <2>2 DEF WantedOK, Creating, Card, Flying, Repeatable, InFlight
<1>10. \A m \in Messages : Mine(p, m)' => remote'[m].version <= projections[p].desired
  BY <1>1 DEF Undisturbed, WantedOK, Edited
<1>11. PICK m : m = projections[p].message
  OBVIOUS
<1>12. r = Card(p)'.request /\ s = Card(p)'.inflight /\ Card(p)'.status = rows'[c].status
  BY <1>1, <1>4, <1>7 DEF Card
<1>13. m \in Messages => Mine(p, m)'
  BY <1>1, <1>11 DEF Undisturbed, WantedOK
<1>14. /\ m = projections'[p].message
       /\ ~projections'[p].exists => m = None
       /\ projections'[p].desired = projections[p].desired
       /\ Card(p)'.status = "absent" => r.op = "delete"
  BY <1>1, <1>3, <1>4, <1>11, <1>12 DEF WantedOK, Card
<1>15. /\ Card(p)'.status # "absent" => RequestOK(p, r)'
       /\ Card(p)'.status = "ambiguous" => Creating(p)'
       /\ \A n \in Messages : Mine(p, n)' => remote'[n].version <= projections'[p].desired
  BY <1>3, <1>5, <1>9, <1>10, <1>12, <1>14
<1> QED
  BY <1>8, <1>12, <1>13, <1>14, <1>15, WantedAfter

\* A row that proceeds is completed before and after, or neither.
LEMMA ProceedsCompleted ==
    ASSUME NEW j \in Keys, Proceeds(j)
    PROVE  /\ rows'[j].status = "completed" <=> rows[j].status = "completed"
           /\ rows'[j].status = "absent" <=> rows[j].status = "absent"
BY DEF Proceeds, Keeps, GivenBack, LostSight, Departs, Returns, FallsBack, IsFound,
       SeenToFail, RecordDelivery, Delivering, Claimable

\* No message becomes one of the version of a create by a step that is not about it.
LEMMA UndisturbedBorn ==
    ASSUME NEW p \in Projections, Undisturbed(p), NEW v,
           \/ Card(p).request.op = "create" /\ v = Card(p).request.version
           \/ Creating(p) /\ v = Card(p).inflight.version,
           NEW m \in Messages, Mine(p, m)', remote'[m].version = v
    PROVE  m \in Born(p, v)
BY DEF Undisturbed, Edited, Born

\* What holds of the creates of a card stays so.
LEMMA UndisturbedCreate ==
    ASSUME IInv, NEW p \in Projections, TracedOK(p), Undisturbed(p)
    PROVE  CreateOK(p)'
<1> DEFINE c == CardKey(p)
<1>1. /\ CreateOK(p) /\ projections'[p] = projections[p]
      /\ rows'[c].request = rows[c].request /\ Proceeds(c) /\ c \in Keys
  BY CardTypes DEF TracedOK, Undisturbed
<1>2. /\ rows[c].request # None
      /\ rows[c].inflight # None <=> rows[c].status \in InFlight
      /\ rows'[c].status = "completed" <=> rows[c].status = "completed"
  BY <1>1, CardTypes, RequestsAssumption, ProceedsCompleted DEF Card, Flying
<1>3. rows[c].request.op = "create" /\ rows'[c].status # "completed" =>
         projections'[p].message = None
  BY <1>1, <1>2 DEF CreateOK, Card
<1>4. ASSUME rows[c].request.op = "create", rows'[c].status # "completed",
             rows'[c].inflight # rows[c].request,
             NEW m \in Messages, Mine(p, m)', remote'[m].version = rows[c].request.version
      PROVE  FALSE
  <2>1. m \in Born(p, rows[c].request.version)
    BY <1>4, UndisturbedBorn DEF Card
  <2>2. CASE rows[c].inflight # rows[c].request
    BY <1>1, <1>2, <1>4, <2>1, <2>2 DEF CreateOK, CreateWaits, Card
  <2>3. CASE rows[c].inflight = rows[c].request
    <3>1. Arriving(p, m)
      BY <1>2, <1>4, <2>1, <2>3 DEF Arriving, Creating, Flying, Card
    <3>2. FallsBack(c)
      BY <1>1, <1>4, <2>3
         DEF Proceeds, Keeps, GivenBack, LostSight, Departs, Returns, IsFound, Repeatable
    <3> QED
      BY <3>1, <3>2, FallsBackEmpty
  <2> QED
    BY <2>2, <2>3
<1>5. ASSUME rows'[c].inflight # None, rows'[c].inflight.op = "create"
      PROVE  projections'[p].message = None
  <2>1. CASE rows'[c].inflight = rows[c].inflight
    BY <1>1, <1>5, <2>1 DEF CreateOK, Creating, Flying, Card
  <2>2. CASE Departs(c)
    BY <1>1, <1>5, <2>2, DepartsIdle DEF CreateOK, Departs, Card
  <2> QED
    BY <1>1, <1>5, <2>1, <2>2
       DEF Proceeds, Keeps, GivenBack, LostSight, Returns, FallsBack, IsFound
<1>6. \A m, n \in Messages : Arriving(p, m)' /\ Arriving(p, n)' => m = n
  BY <1>1, StillArriving DEF CreateOK
<1>7. /\ Card(p)' = rows'[c] /\ rows'[c].request = rows[c].request
      /\ CreateWaits(p)' <=> /\ rows[c].request.op = "create"
                             /\ rows'[c].status # "completed"
                             /\ rows'[c].inflight # rows[c].request
      /\ Creating(p)' <=> rows'[c].inflight # None /\ rows'[c].inflight.op = "create"
  BY <1>1 DEF CreateWaits, Creating, Flying, Card
<1>8. CreateWaits(p)' =>
         {m \in Messages : Mine(p, m)' /\ remote'[m].version = rows'[c].request.version} = {}
  BY <1>4, <1>7
<1> HIDE DEF c
<1> QED
  BY <1>3, <1>5, <1>6, <1>7, <1>8 DEF CreateOK, Born

\* The message an operator finds is the one that arrives.
LEMMA FoundArrives ==
    ASSUME IInv, OwnersOK, NEW p \in Projections, TracedOK(p), IsFound(CardKey(p))
    PROVE  Arriving(p, rows'[CardKey(p)].response)
<1>1. PICK m \in Messages : /\ m = rows'[CardKey(p)].response
                            /\ remote[m].nonce = CreateNonce(p)
                            /\ remote[m].version = Card(p).inflight.version
  BY CardTypes DEF IsFound, Card
<1>2. Creating(p) /\ RequestOK(p, Card(p).inflight)
  BY DEF IsFound, TracedOK, WantedOK, Creating, Card
<1>3. remote[m].version > 0 /\ Card(p).inflight.version \in Nat
  BY <1>1, <1>2, CardTypes DEF RequestOK, Creating
<1>4. Mine(p, m)
  BY <1>1, <1>3 DEF OwnersOK, Mine, CreateNonce
<1> QED
  BY <1>1, <1>2, <1>4 DEF Arriving, Born

\* What is applied to a card stays, or is what was recorded or found.
LEMMA UndisturbedResponse ==
    ASSUME IInv, OwnersOK, NEW p \in Projections, TracedOK(p), Undisturbed(p)
    PROVE  ResponseOK(p)'
<1> DEFINE c == CardKey(p)
<1> SUFFICES ASSUME rows'[c].status = "applying" PROVE ResponseOK(p)'
  BY DEF ResponseOK, Card
<1>1. PICK q, a : q = rows'[c].inflight /\ a = rows'[c].response
  OBVIOUS
<1>2. Proceeds(c) /\ \A m \in Messages : Mine(p, m) => Mine(p, m)'
  BY DEF Undisturbed
<1>3. ReplyOK(p, q, a) /\ \A m \in Messages : Arriving(p, m) => m = a
  <2>1. CASE Keeps(c)
    BY <1>1, <2>1 DEF Keeps, TracedOK, ResponseOK, Card
  <2>2. CASE Returns(c)
    <3>1. PICK e \in Dispatchers : /\ RecordDelivery(e) /\ held[e].key = c
                                   /\ rows'[c].response = held[e].answer
      BY <2>2 DEF Returns
    <3>2. Handles(e, p) /\ held[e].phase = "delivered" /\ Delivering(e)
      BY <3>1 DEF Handles, RecordDelivery, Answered
    <3>3. rows[c].inflight = held[e].request
      BY <3>1, <3>2 DEF IInv, HeldOK, Handles
    <3> QED
      BY <1>1, <2>2, <3>1, <3>2, <3>3 DEF Returns, TracedOK, Handling
  <2>3. CASE IsFound(c)
    <3>1. Arriving(p, a) /\ a \in Messages /\ q = Card(p).inflight
      BY <1>1, <2>3, FoundArrives DEF IsFound, Card
    <3> QED
      BY <3>1 DEF ReplyOK, Arriving, Creating, Born, TracedOK, CreateOK
  <2> QED
    BY <1>2, <2>1, <2>2, <2>3 DEF Proceeds, GivenBack, LostSight, Departs, FallsBack
<1>4. ReplyOK(p, q, a)'
  BY <1>2, <1>3, ReplyStays
<1>5. \A m \in Messages : Arriving(p, m)' => m = a
  BY <1>3, StillArriving
<1>6. Card(p)'.inflight = q /\ Card(p)'.response = a
  BY <1>1 DEF Card
<1> QED
  BY <1>4, <1>5, <1>6 DEF ResponseOK, ReplyOK

\* Of an undisturbed card all stays but what dispatchers hold.
LEMMA UndisturbedCard ==
    ASSUME IInv, OwnersOK, NEW p \in Projections, TracedOK(p), Undisturbed(p)
    PROVE  WantedOK(p)' /\ CreateOK(p)' /\ ResponseOK(p)' /\ DroppedOnce(p)' /\ FateOK(p)'
<1>1. DroppedOnce(p)'
  BY DEF TracedOK, DroppedOnce, Undisturbed
<1>2. FateOK(p)'
  <2> SUFFICES ASSUME NEW m \in Messages, Mine(p, m)', remote'[m].state = "shown"
               PROVE  projections'[p].message = m \/ Arriving(p, m)' \/ Dismissed(m)'
    BY DEF FateOK
  <2>1. /\ Mine(p, m) /\ remote[m].state = "shown" /\ projections'[p] = projections[p]
        /\ Dismissed(m) => Dismissed(m)'
    BY DEF Undisturbed
  <2>2. Arriving(p, m) => Arriving(p, m)'
    BY StillArriving
  <2> QED
    BY <2>1, <2>2 DEF TracedOK, FateOK
<1> QED
  BY <1>1, <1>2, UndisturbedWanted, UndisturbedCreate, UndisturbedResponse

-----------------------------------------------------------------------------
(* The steps that are not about a card. *)

\* A key is of a card, or its row deletes.
LEMMA KeyOfCard ==
    ASSUME NEW k \in Keys
    PROVE  IsProjection(k) => \E p \in Projections : k = CardKey(p) /\ p = k[2]
BY KeyTypes DEF CardKey

\* A row that stays leaves its message dismissed.
LEMMA DismissedStays ==
    ASSUME \A k \in Keys : ~IsProjection(k) => rows'[k].request = rows[k].request,
           NEW m, Dismissed(m)
    PROVE  Dismissed(m)'
<1>1. PICK k \in Keys : ~IsProjection(k) /\ rows[k].request.target = m
  BY DEF Dismissed
<1>2. rows'[k].request.target = m
  BY <1>1
<1> QED
  BY <1>1, <1>2 DEF Dismissed, IsProjection

\* Work on rows disturbs no card.
LEMMA WorksUndisturbed ==
    ASSUME IInv, Works, NEW p \in Projections
    PROVE  Undisturbed(p)
<1>1. CardKey(p) \in Keys /\ <<"projection-delete", p>> \in Keys
  BY CardTypes, KeyTypes
<1>2. /\ \A j \in Keys : RowKept(j)
      /\ projections' = projections /\ remote' = remote
  BY WorksKept
<1>3. \A m \in Messages : (Dismissed(m) => Dismissed(m)') /\ (Mine(p, m)' <=> Mine(p, m))
  BY <1>2, DismissedStays DEF RowKept, Mine
<1>4. Proceeds(CardKey(p))
  BY <1>1, WorksProceed
<1>5. /\ rows'[CardKey(p)].request = rows[CardKey(p)].request
      /\ LET k == <<"projection-delete", p>> IN
         rows'[k].status # "absent" => rows[k].status # "absent"
  BY <1>1, <1>2 DEF RowKept
<1> QED
  BY <1>2, <1>3, <1>4, <1>5 DEF Undisturbed

\* A step that changes nothing but the messages of others, or edits one of its own,
\* does not disturb a card.
LEMMA SentUndisturbed ==
    ASSUME IInv, NEW p \in Projections, rows' = rows, projections' = projections,
           \A m \in Messages :
              /\ Mine(p, m)' <=> Mine(p, m)
              /\ Mine(p, m) =>
                    /\ remote'[m].state = "shown" => remote[m].state = "shown"
                    /\ remote'[m].version = remote[m].version \/ Edited(p, m)
    PROVE  Undisturbed(p)
<1>1. \A m \in Messages : Dismissed(m) => Dismissed(m)'
  BY DismissedStays
<1>2. Proceeds(CardKey(p))
  BY DEF Proceeds, Keeps
<1> QED
  BY <1>1, <1>2 DEF Undisturbed

\* An answer is not lost.
LEMMA Answers ==
    ASSUME ~LostAnswers, NEW d \in Dispatchers, NEW m, CarriedOut(d, m)
    PROVE  /\ Outcome(d, "delivered", m) /\ rows' = rows /\ projections' = projections
           /\ accepted' = [accepted EXCEPT ![held[d].key] = @ \cup {held[d].request}]
BY DEF CarriedOut

\* A create makes a message, or is answered by one of the same nonce.
LEMMA PostMade ==
    ASSUME IInv, NEW d \in Dispatchers, NEW v, NEW nonce, Post(d, v, nonce)
    PROVE  \E m \in Messages :
              /\ CarriedOut(d, m)
              /\ \/ remote' = remote /\ remote[m].state = "shown" /\ remote[m].nonce = nonce
                 \/ /\ remote[m].state = "absent"
                    /\ remote'[m] = [state |-> "shown", version |-> v, nonce |-> nonce]
                    /\ \A n \in Messages \ {m} : remote'[n] = remote[n]
<1>1. CASE \E m \in Remembered(nonce) : UNCHANGED remote /\ CarriedOut(d, m)
  BY <1>1 DEF Remembered
<1>2. CASE \E m \in Messages :
              /\ \A n \in Messages : remote[n].state = "absent" <=> n >= m
              /\ remote' = [remote EXCEPT ![m] = [state |-> "shown", version |-> v,
                                                  nonce |-> nonce]]
              /\ CarriedOut(d, m)
  <2>1. PICK m \in Messages :
              /\ \A n \in Messages : remote[n].state = "absent" <=> n >= m
              /\ remote' = [remote EXCEPT ![m] = [state |-> "shown", version |-> v,
                                                  nonce |-> nonce]]
              /\ CarriedOut(d, m)
    BY <1>2
  <2>2. remote[m].state = "absent"
    BY <2>1, MessagesAssumption
  <2> QED
    BY <2>1, <2>2 DEF IInv, RemoteOK
<1> QED
  BY <1>1, <1>2 DEF Post

\* What is sent for a card is a request for it; all else deletes.
LEMMA SentFor ==
    ASSUME IInv, FateInv, NEW d \in Dispatchers, held[d] # None
    PROVE  /\ held[d].key \in Keys /\ held[d].request \in Request
           /\ held[d].answer \in Messages \cup {None}
           /\ ~IsProjection(held[d].key) => Deletion(held[d].request)
           /\ IsProjection(held[d].key) =>
                 \E p \in Projections :
                    /\ held[d].key = CardKey(p) /\ held[d].key[2] = p /\ Handles(d, p)
                    /\ Handling(d, p) /\ RequestOK(p, held[d].request)
                    /\ held[d].phase = "deliver" => Dispatching(d, p)
<1>1. /\ held[d].key \in Keys /\ held[d].request \in Request
      /\ held[d].answer \in Messages \cup {None}
  BY HeldItem
<1>2. ~IsProjection(held[d].key) => Deletion(held[d].request)
  BY DEF FateInv, DeletionsOK
<1>3. ASSUME IsProjection(held[d].key)
      PROVE  \E p \in Projections :
                    /\ held[d].key = CardKey(p) /\ held[d].key[2] = p /\ Handles(d, p)
                    /\ Handling(d, p) /\ RequestOK(p, held[d].request)
                    /\ held[d].phase = "deliver" => Dispatching(d, p)
  <2>1. PICK p \in Projections : held[d].key = CardKey(p) /\ held[d].key[2] = p
    BY <1>1, <1>3, KeyOfCard
  <2>2. Handles(d, p)
    BY <2>1 DEF Handles
  <2>3. Handling(d, p) /\ (held[d].phase = "deliver" => Dispatching(d, p))
    BY <2>2 DEF FateInv, TracedOK
  <2> QED
    BY <2>1, <2>2, <2>3 DEF Handling
<1> QED
  BY <1>1, <1>2, <1>3

\* A message is deleted by a row of its own.
LEMMA DeleteShape ==
    ASSUME IInv, FateInv, ~LostAnswers, NEW d \in Dispatchers, SendDelete(d)
    PROVE  /\ ~IsProjection(held[d].key) /\ Deletion(held[d].request)
           /\ Outcome(d, "delivered", None) /\ rows' = rows /\ projections' = projections
           /\ accepted' = [accepted EXCEPT ![held[d].key] = @ \cup {held[d].request}]
           /\ \E t \in Messages :
                 /\ t = held[d].request.target
                 /\ remote'[t].state = "deleted" /\ remote'[t].version = remote[t].version
                 /\ remote'[t].nonce = remote[t].nonce
                 /\ \A n \in Messages \ {t} : remote'[n] = remote[n]
<1>1. held[d] # None /\ held[d].request.op = "delete"
  BY DEF SendDelete, Sending
<1>2. ~IsProjection(held[d].key) /\ Deletion(held[d].request)
  BY <1>1, SentFor DEF RequestOK
<1>3. PICK t \in Messages : t = held[d].request.target
  BY <1>2 DEF Deletion
<1>4. PICK x : x = [remote[t] EXCEPT !.state = "deleted"]
  OBVIOUS
<1>5. /\ x.state = "deleted" /\ x.version = remote[t].version /\ x.nonce = remote[t].nonce
  BY <1>4 DEF IInv, RemoteOK
<1>6. remote'[t] = x /\ \A n \in Messages \ {t} : remote'[n] = remote[n]
  BY <1>3, <1>4 DEF SendDelete, IInv, RemoteOK
<1> QED
  BY <1>2, <1>3, <1>5, <1>6, Answers DEF SendDelete

\* A message of the card is edited.
LEMMA UpdateShape ==
    ASSUME IInv, FateInv, ~LostAnswers, NEW d \in Dispatchers, SendUpdate(d)
    PROVE  /\ Outcome(d, "delivered", None) /\ rows' = rows /\ projections' = projections
           /\ accepted' = [accepted EXCEPT ![held[d].key] = @ \cup {held[d].request}]
           /\ \E p \in Projections, t \in Messages :
                 /\ held[d].key = CardKey(p) /\ Handles(d, p)
                 /\ RequestOK(p, held[d].request) /\ Dispatching(d, p)
                 /\ t = held[d].request.target /\ Mine(p, t)
                 /\ remote'[t].state = remote[t].state /\ remote'[t].nonce = remote[t].nonce
                 /\ remote'[t].version = held[d].request.version
                 /\ \A n \in Messages \ {t} : remote'[n] = remote[n]
<1>1. held[d] # None /\ held[d].phase = "deliver" /\ held[d].request.op = "update"
  BY DEF SendUpdate, Sending
<1>2. IsProjection(held[d].key)
  BY <1>1, SentFor DEF Deletion
<1>3. PICK p \in Projections :
         /\ held[d].key = CardKey(p) /\ Handles(d, p)
         /\ RequestOK(p, held[d].request) /\ Dispatching(d, p)
  BY <1>1, <1>2, SentFor
<1>4. PICK t \in Messages : t = held[d].request.target /\ Mine(p, t)
  BY <1>1, <1>3 DEF RequestOK
<1>5. PICK x : x = [remote[t] EXCEPT !.version = held[d].request.version]
  OBVIOUS
<1>6. /\ x.state = remote[t].state /\ x.version = held[d].request.version
      /\ x.nonce = remote[t].nonce
  BY <1>5 DEF IInv, RemoteOK
<1>7. remote'[t] = x /\ \A n \in Messages \ {t} : remote'[n] = remote[n]
  BY <1>4, <1>5 DEF SendUpdate, IInv, RemoteOK
<1> QED
  BY <1>3, <1>4, <1>6, <1>7, Answers DEF SendUpdate

\* A message is made for a card, or has been remembered.
LEMMA CreateShape ==
    ASSUME IInv, FateInv, ~LostAnswers, NEW d \in Dispatchers, SendCreate(d)
    PROVE  \E p \in Projections, m \in Messages :
              /\ held[d].key = CardKey(p) /\ Handles(d, p) /\ held[d].request.op = "create"
              /\ RequestOK(p, held[d].request) /\ Dispatching(d, p)
              /\ Outcome(d, "delivered", m) /\ rows' = rows /\ projections' = projections
              /\ accepted' = [accepted EXCEPT ![held[d].key] = @ \cup {held[d].request}]
              /\ Mine(p, m)' /\ \A q \in Projections \ {p} : ~Mine(q, m)'
              /\ \/ remote' = remote
                 \/ /\ remote[m].state = "absent" /\ remote'[m].state = "shown"
                    /\ remote'[m].version = held[d].request.version
                    /\ \A n \in Messages \ {m} : remote'[n] = remote[n]
<1>1. held[d] # None /\ held[d].phase = "deliver" /\ held[d].request.op = "create"
  BY DEF SendCreate, Sending
<1>2. IsProjection(held[d].key)
  BY <1>1, SentFor DEF Deletion
<1>3. PICK p \in Projections :
         /\ held[d].key = CardKey(p) /\ held[d].key[2] = p /\ Handles(d, p)
         /\ RequestOK(p, held[d].request) /\ Dispatching(d, p)
  BY <1>1, <1>2, SentFor
<1>4. PICK v, nonce : v = held[d].request.version /\ nonce = CreateNonce(p)
  OBVIOUS
<1>5. PICK m \in Messages :
         /\ CarriedOut(d, m)
         /\ \/ remote' = remote /\ remote[m].state = "shown" /\ remote[m].nonce = nonce
            \/ /\ remote[m].state = "absent"
               /\ remote'[m] = [state |-> "shown", version |-> v, nonce |-> nonce]
               /\ \A n \in Messages \ {m} : remote'[n] = remote[n]
  <2>1. Post(d, v, nonce)
    BY <1>3, <1>4 DEF SendCreate
  <2> QED
    BY <2>1, PostMade
<1>6. nonce[1] = p
  BY <1>4 DEF CreateNonce
<1>7. /\ Mine(p, m)' /\ \A q \in Projections \ {p} : ~Mine(q, m)'
      /\ \/ remote' = remote
         \/ /\ remote[m].state = "absent" /\ remote'[m].state = "shown"
            /\ remote'[m].version = held[d].request.version
            /\ \A n \in Messages \ {m} : remote'[n] = remote[n]
  BY <1>4, <1>5, <1>6 DEF Mine
<1> QED
  BY <1>1, <1>3, <1>5, <1>7, Answers

\* A send disturbs only the card for which it makes a message.
LEMMA SendUndisturbed ==
    ASSUME IInv, FateInv, ~EditLimit, ~LostAnswers, NEW d \in Dispatchers, Send(d),
           NEW p \in Projections, ~(SendCreate(d) /\ held[d].key = CardKey(p))
    PROVE  Undisturbed(p)
<1>1. CASE SendFails(d)
  BY <1>1, SentUndisturbed DEF SendFails, Mine
<1>2. CASE SendDelete(d)
  <2>1. rows' = rows /\ projections' = projections
    BY <1>2, DeleteShape
  <2>2. \A m \in Messages :
           /\ Mine(p, m)' <=> Mine(p, m)
           /\ Mine(p, m) => /\ remote'[m].state = "shown" => remote[m].state = "shown"
                            /\ remote'[m].version = remote[m].version
    BY <1>2, DeleteShape DEF Mine, Deletion
  <2> QED
    BY <2>1, <2>2, SentUndisturbed
<1>3. CASE SendUpdate(d)
  <2>1. PICK q \in Projections, t \in Messages :
                 /\ held[d].key = CardKey(q) /\ Handles(d, q)
                 /\ RequestOK(q, held[d].request) /\ Dispatching(d, q)
                 /\ t = held[d].request.target /\ Mine(q, t)
                 /\ remote'[t].state = remote[t].state /\ remote'[t].nonce = remote[t].nonce
                 /\ remote'[t].version = held[d].request.version
                 /\ \A n \in Messages \ {t} : remote'[n] = remote[n]
    BY <1>3, UpdateShape
  <2>2. rows' = rows /\ projections' = projections
    BY <1>3, UpdateShape
  <2>3. held[d].request.op = "update"
    BY <1>3 DEF SendUpdate, Sending
  <2>4. Mine(p, t) => p = q /\ Edited(p, t)
    <3>1. Mine(p, t) => p = q
      BY <2>1 DEF Mine
    <3>2. Edited(q, t)
      BY <2>1, <2>3 DEF RequestOK, Dispatching, Edited
    <3> QED
      BY <3>1, <3>2
  <2>5. \A m \in Messages :
              /\ Mine(p, m)' <=> Mine(p, m)
              /\ Mine(p, m) =>
                    /\ remote'[m].state = "shown" => remote[m].state = "shown"
                    /\ remote'[m].version = remote[m].version \/ Edited(p, m)
    BY <2>1, <2>4 DEF Mine
  <2> QED
    BY <2>2, <2>5, SentUndisturbed
<1>4. CASE SendCreate(d)
  <2>1. PICK q \in Projections, m \in Messages :
              /\ held[d].key = CardKey(q) /\ rows' = rows /\ projections' = projections
              /\ Mine(q, m)' /\ \A r \in Projections \ {q} : ~Mine(r, m)'
              /\ \/ remote' = remote
                 \/ /\ remote[m].state = "absent" /\ remote'[m].state = "shown"
                    /\ remote'[m].version = held[d].request.version
                    /\ \A n \in Messages \ {m} : remote'[n] = remote[n]
    BY <1>4, CreateShape
  <2>2. p # q
    BY <1>4, <2>1
  <2>3. \A n \in Messages :
           /\ Mine(p, n)' <=> Mine(p, n)
           /\ Mine(p, n) => /\ remote'[n].state = "shown" => remote[n].state = "shown"
                            /\ remote'[n].version = remote[n].version
    BY <2>1, <2>2 DEF Mine
  <2> QED
    BY <2>1, <2>3, SentUndisturbed
<1> QED
  BY <1>1, <1>2, <1>3, <1>4 DEF Send, SendReplacement

\* A new version of a card is wanted, of the message that it has.
LEMMA ProjectShape ==
    ASSUME IInv, NEW p \in Projections, Project(p)
    PROVE  LET c == CardKey(p)
               m == projections[p].message
               v == projections[p].desired + 1
           IN
           /\ remote' = remote /\ held' = held /\ accepted' = accepted
           /\ projections'[p].exists /\ projections'[p].desired = v
           /\ projections'[p].message = m
           /\ \A q \in Projections \ {p} : projections'[q] = projections[q]
           /\ \A j \in Keys \ {c} : rows'[j] = rows[j]
           /\ rows'[c].request = IF m = None THEN Create(v) ELSE Update(v, m)
           /\ rows'[c].status # "absent"
           /\ \/ /\ rows[c].status \in InFlight
                 /\ rows'[c].status = rows[c].status /\ rows'[c].inflight = rows[c].inflight
                 /\ rows'[c].lease = rows[c].lease /\ rows'[c].response = rows[c].response
                 /\ rows'[c].sent = rows[c].sent
              \/ /\ rows[c].status \notin InFlight /\ rows[c].inflight = None
                 /\ rows'[c].status = "pending" /\ rows'[c].inflight = None
<1>1. /\ rows \in [Keys -> Row] /\ CardKey(p) \in Keys
      /\ rows[CardKey(p)].status \in InFlight <=> rows[CardKey(p)].inflight # None
  BY CardTypes DEF IInv, TypeOK
<1>2. PICK m \in Messages \cup {None}, v \in Nat :
         m = projections[p].message /\ v = projections[p].desired + 1
  <2>1. projections[p].message \in Messages \cup {None} /\ projections[p].desired + 1 \in Nat
    BY CardTypes
  <2> QED
    BY <2>1
<1>3. PICK q \in Request : q = IF m = None THEN Create(v) ELSE Update(v, m)
  BY <1>2, CardTypes, RequestTypes
<1>4. rows' = Enqueued(rows, CardKey(p), q)
  BY <1>2, <1>3 DEF Project, CardKey
<1>5. PICK s : s = [projections[p] EXCEPT !.exists = TRUE, !.desired = v]
  OBVIOUS
<1>6. s.exists /\ s.desired = v /\ s.message = m
  BY <1>2, <1>5 DEF IInv, TypeOK
<1>7. projections'[p] = s /\ \A q1 \in Projections \ {p} : projections'[q1] = projections[q1]
  <2>1. projections' = [projections EXCEPT ![p] = s]
    BY <1>2, <1>5 DEF Project, IInv, TypeOK
  <2> QED
    BY <2>1 DEF IInv, TypeOK
<1>8. \A j \in Keys \ {CardKey(p)} : rows'[j] = rows[j]
  BY <1>1, <1>4, EnqueuedOthers
<1>9. PICK c, row : c \in Keys /\ c = CardKey(p) /\ row = rows'[CardKey(p)]
  BY <1>1
<1>10. /\ row.request = q /\ row.status # "absent"
       /\ \/ /\ rows[c].status \in InFlight
             /\ row.status = rows[c].status /\ row.inflight = rows[c].inflight
             /\ row.lease = rows[c].lease /\ row.response = rows[c].response
             /\ row.sent = rows[c].sent
          \/ /\ rows[c].status \notin InFlight /\ rows[c].inflight = None
             /\ row.status = "pending" /\ row.inflight = None
  <2>1. CASE rows[c].status \in InFlight
    BY <1>1, <1>4, <1>9, <2>1, EnqueuedBusy DEF InFlight
  <2>2. CASE rows[c].status \notin InFlight
    BY <1>1, <1>4, <1>9, <2>2, EnqueuedIdle
  <2> QED
    BY <2>1, <2>2
<1>11. remote' = remote /\ held' = held /\ accepted' = accepted
  BY DEF Project
<1> QED
  BY <1>2, <1>3, <1>6, <1>7, <1>8, <1>9, <1>10, <1>11

\* The other cards stay.
LEMMA ProjectUndisturbed ==
    ASSUME IInv, NEW q \in Projections, Project(q), NEW p \in Projections \ {q}
    PROVE  Undisturbed(p)
<1>1. /\ CardKey(p) \in Keys \ {CardKey(q)}
      /\ <<"projection-delete", p>> \in Keys \ {CardKey(q)}
  BY CardTypes, KeyTypes DEF CardKey
<1>2. /\ remote' = remote /\ projections'[p] = projections[p]
      /\ \A j \in Keys \ {CardKey(q)} : rows'[j] = rows[j]
  BY ProjectShape
<1>3. \A m \in Messages : Dismissed(m) => Dismissed(m)'
  BY <1>2, DismissedStays, CardTypes
<1>4. Proceeds(CardKey(p))
  BY <1>1, <1>2 DEF Proceeds, Keeps
<1> QED
  BY <1>1, <1>2, <1>3, <1>4 DEF Undisturbed, Mine

\* A card is dropped, for the first time.
LEMMA DropShape ==
    ASSUME IInv, FateInv, \A v, w \in Obsoleting : v = w, NEW p \in Projections, Drop(p)
    PROVE  LET k == <<"projection-delete", p>>
               m == projections[p].message
           IN
           /\ k \in Keys /\ ~IsProjection(k)
           /\ remote' = remote /\ held' = held /\ accepted' = accepted
           /\ ~projections'[p].exists /\ projections'[p].message = None
           /\ projections'[p].desired = projections[p].desired
           /\ \A q \in Projections \ {p} : projections'[q] = projections[q]
           /\ rows[k].status = "absent" /\ rows[k].request.target = None
           /\ \A j \in Keys \ {k} : rows'[j] = rows[j]
           /\ IF m = None THEN rows' = rows
              ELSE /\ m \in Messages /\ rows'[k].request = Delete(m)
                   /\ rows'[k].status = "pending" /\ rows'[k].inflight = None
<1>1. PICK k \in Keys : k = <<"projection-delete", p>>
  BY KeyTypes
<1>2. /\ rows \in [Keys -> Row] /\ ~IsProjection(k)
      /\ rows[k].status \in InFlight <=> rows[k].inflight # None
  BY <1>1 DEF IInv, TypeOK, IsProjection
<1>3. rows[k].status = "absent" /\ rows[k].request.target = None
  <2>1. rows[k].status = "absent"
    BY <1>1 DEF FateInv, TracedOK, DroppedOnce, Drop
  <2> QED
    BY <1>2, <2>1 DEF FateInv, DeletionsOK
<1>4. PICK m \in Messages \cup {None} : m = projections[p].message
  BY CardTypes
<1>5. PICK s : s = [projections[p] EXCEPT !.exists = FALSE, !.message = None, !.applied = 0]
  OBVIOUS
<1>6. ~s.exists /\ s.desired = projections[p].desired /\ s.message = None
  BY <1>5 DEF IInv, TypeOK
<1>7. projections'[p] = s /\ \A q \in Projections \ {p} : projections'[q] = projections[q]
  <2>1. projections' = [projections EXCEPT ![p] = s]
    BY <1>5 DEF Drop, IInv, TypeOK
  <2> QED
    BY <2>1 DEF IInv, TypeOK
<1>8. /\ \A j \in Keys \ {k} : rows'[j] = rows[j]
      /\ IF m = None THEN rows' = rows
         ELSE /\ m \in Messages /\ rows'[k].request = Delete(m)
              /\ rows'[k].status = "pending" /\ rows'[k].inflight = None
  <2>1. CASE m = None
    BY <1>4, <2>1 DEF Drop
  <2>2. CASE m # None
    <3>1. rows' = Enqueued(rows, k, Delete(m)) /\ Delete(m) \in Request
      BY <1>1, <1>4, <2>2, RequestTypes DEF Drop
    <3>2. rows[k].status \notin InFlight
      BY <1>3 DEF InFlight
    <3> QED
      BY <1>2, <2>2, <3>1, <3>2, EnqueuedOthers, EnqueuedIdle
  <2> QED
    BY <2>1, <2>2
<1> QED
  BY <1>1, <1>2, <1>3, <1>4, <1>6, <1>7, <1>8 DEF Drop

\* A dismissed message stays so when a row that had none takes its own.
LEMMA DismissedGrows ==
    ASSUME NEW k \in Keys, NEW x, rows[k].request.target \in {None, x},
           rows'[k].request.target = x,
           \A j \in Keys \ {k} : ~IsProjection(j) => rows'[j].request = rows[j].request,
           NEW m \in Messages, Dismissed(m)
    PROVE  Dismissed(m)'
<1>1. PICK j \in Keys : ~IsProjection(j) /\ rows[j].request.target = m
  BY DEF Dismissed
<1>2. rows'[j].request.target = m
  BY <1>1, NoneAssumption
<1> QED
  BY <1>1, <1>2 DEF Dismissed, IsProjection

\* No message is undismissed by a drop.
LEMMA DropDismisses ==
    ASSUME IInv, FateInv, \A v, w \in Obsoleting : v = w, NEW p \in Projections, Drop(p)
    PROVE  /\ \A m \in Messages : Dismissed(m) => Dismissed(m)'
           /\ \A m \in Messages : projections[p].message = m => Dismissed(m)'
<1>1. PICK k, x : /\ k \in Keys /\ k = <<"projection-delete", p>>
                  /\ x = projections[p].message /\ ~IsProjection(k)
  BY DropShape
<1>2. /\ rows[k].request.target = None
      /\ \A j \in Keys \ {k} : rows'[j] = rows[j]
      /\ IF x = None THEN rows' = rows ELSE rows'[k].request = Delete(x)
  BY <1>1, DropShape
<1>3. CASE x = None
  BY <1>1, <1>2, <1>3, DismissedStays, NoneAssumption
<1>4. CASE x # None
  <2>1. rows'[k].request.target = x
    BY <1>2, <1>4 DEF Delete
  <2>2. \A m \in Messages : Dismissed(m) => Dismissed(m)'
    BY <1>1, <1>2, <2>1, DismissedGrows
  <2>3. x \in Messages => Dismissed(x)'
    BY <1>1, <2>1 DEF Dismissed, IsProjection
  <2> QED
    BY <1>1, <2>2, <2>3
<1> QED
  BY <1>3, <1>4

\* The other cards stay.
LEMMA DropUndisturbed ==
    ASSUME IInv, FateInv, \A v, w \in Obsoleting : v = w,
           NEW q \in Projections, Drop(q), NEW p \in Projections \ {q}
    PROVE  Undisturbed(p)
<1>1. /\ CardKey(p) \in Keys \ {<<"projection-delete", q>>}
      /\ <<"projection-delete", p>> \in Keys \ {<<"projection-delete", q>>}
  BY CardTypes, KeyTypes DEF CardKey
<1>2. /\ remote' = remote /\ projections'[p] = projections[p]
      /\ \A j \in Keys \ {<<"projection-delete", q>>} : rows'[j] = rows[j]
  BY DropShape
<1>3. Proceeds(CardKey(p))
  BY <1>1, <1>2 DEF Proceeds, Keeps
<1> QED
  BY <1>1, <1>2, <1>3, DropDismisses DEF Undisturbed, Mine

-----------------------------------------------------------------------------
(* An answer is applied. *)

\* The answer of a card is made for it, and no message takes the place of another.
LEMMA AppliedAnswer ==
    ASSUME IInv, FateInv, NEW d \in Dispatchers, Apply(d)
    PROVE  LET k == held[d].key IN
           /\ held[d] # None /\ k \in Keys /\ ~Replaced(d)
           /\ rows[k].status = "applying" /\ held' = [held EXCEPT ![d] = None]
           /\ remote' = remote /\ accepted' = accepted
           /\ IsProjection(k) =>
                 \E p \in Projections :
                    /\ k = CardKey(p) /\ p = k[2] /\ RequestOK(p, held[d].request)
                    /\ ReplyOK(p, held[d].request, held[d].answer)
                    /\ Card(p).inflight = held[d].request /\ Card(p).response = held[d].answer
                    /\ Made(d) <=> held[d].request.op = "create"
                    /\ Gone(d) <=> ~projections[p].exists
           /\ ~IsProjection(k) => ~Made(d)
<1>1. /\ held[d] # None /\ held[d].phase = "apply" /\ Applying(d)
      /\ held' = [held EXCEPT ![d] = None] /\ remote' = remote /\ accepted' = accepted
  BY DEF Apply, Answered
<1>2. rows[held[d].key].status = "applying" /\ held[d].key \in Keys
  BY <1>1, HeldItem DEF Applying
<1>3. CASE IsProjection(held[d].key)
  <2>1. PICK p \in Projections : /\ held[d].key = CardKey(p) /\ held[d].key[2] = p
                                 /\ Handling(d, p) /\ RequestOK(p, held[d].request)
    BY <1>1, <1>3, SentFor
  <2>2. /\ ReplyOK(p, held[d].request, held[d].answer)
        /\ Card(p).inflight = held[d].request /\ Card(p).response = held[d].answer
    BY <1>1, <2>1 DEF Handling
  <2>3. /\ Made(d) <=> held[d].request.op = "create"
        /\ ~Replaced(d)
        /\ Gone(d) <=> ~projections[p].exists
    BY <1>3, <2>1, <2>2, NoneAssumption DEF Made, Replaced, ReplyOK, Gone
  <2> QED
    BY <1>1, <1>2, <1>3, <2>1, <2>2, <2>3
<1>4. CASE ~IsProjection(held[d].key)
  <2>1. held[d].request.op = "delete"
    BY <1>1, <1>4, SentFor DEF Deletion
  <2> QED
    BY <1>1, <1>2, <1>4, <2>1 DEF Replaced, Made
<1> QED
  BY <1>3, <1>4

\* A deleting row keeps its request; at most its delivery is over.
DeletionKept(j) ==
    /\ rows'[j].request = rows[j].request
    /\ rows'[j].status = "absent" <=> rows[j].status = "absent"
    /\ Flying(rows'[j]) => Flying(rows[j]) /\ rows'[j].inflight = rows[j].inflight

\* The row of a message that is to be deleted from now on.
DeletionAdded(j, x) ==
    /\ rows'[j].request = Delete(x) /\ rows'[j].status # "absent"
    /\ Flying(rows'[j]) => Flying(rows[j]) /\ rows'[j].inflight = rows[j].inflight

\* The row is finished; the message of a card that is gone is to be deleted.
LEMMA AppliedRows ==
    ASSUME IInv, FateInv, NEW d \in Dispatchers, Apply(d)
    PROVE  LET k == held[d].key
               o == <<"orphan-delete", held[d].answer>>
           IN
           /\ \A j \in Keys : IsProjection(j) =>
                 rows'[j] = IF j = k THEN Finished(d) ELSE rows[j]
           /\ IF Made(d) /\ Gone(d)
              THEN /\ o \in Keys /\ ~IsProjection(o) /\ DeletionAdded(o, held[d].answer)
                   /\ \A j \in Keys \ {o} : ~IsProjection(j) => DeletionKept(j)
              ELSE \A j \in Keys : ~IsProjection(j) => DeletionKept(j)
<1>1. PICK k \in Keys, a \in Messages \cup {None}, F \in Row :
         k = held[d].key /\ a = held[d].answer /\ F = Finished(d)
  BY FinishedRow, HeldItem DEF Apply, Answered
<1>2. /\ ~Replaced(d) /\ rows[k].status = "applying"
      /\ ~IsProjection(k) => ~Made(d)
      /\ Made(d) => a \in Messages
  BY <1>1, AppliedAnswer DEF Made
<1>3. /\ F.inflight = None /\ F.status \in {"completed", "pending"}
      /\ F.request = rows[k].request \/ Made(d)
  BY <1>1, <1>2, FinishedRow
<1>4. PICK rs : rs = [rows EXCEPT ![k] = F]
  OBVIOUS
<1>5. /\ rs \in [Keys -> Row] /\ rs[k] = F
      /\ \A j \in Keys \ {k} : rs[j] = rows[j]
  BY <1>4, RowReplaced DEF IInv, TypeOK
<1>6. rows' = CleanedUp(rs, d)
  BY <1>1, <1>4 DEF Apply
<1>7. \A j \in Keys : ~IsProjection(j) =>
         /\ rs[j].request = rows[j].request
         /\ rs[j].status = "absent" <=> rows[j].status = "absent"
         /\ Flying(rs[j]) => Flying(rows[j]) /\ rs[j].inflight = rows[j].inflight
  <2>1. ~IsProjection(k) =>
           /\ F.request = rows[k].request /\ F.status # "absent" /\ rows[k].status # "absent"
           /\ ~Flying(F)
    BY <1>2, <1>3 DEF Flying
  <2> QED
    BY <1>5, <2>1
<1>8. CASE Made(d) /\ Gone(d)
  <2>1. PICK o : o = <<"orphan-delete", a>> /\ o \in Keys /\ ~IsProjection(o)
    <3>1. /\ <<"orphan-delete", a>> \in Keys
          /\ ~IsProjection(<<"orphan-delete", a>>)
      BY <1>2, <1>8 DEF Keys, IsProjection
    <3> QED
      BY <3>1
  <2>2. rows' = Enqueued(rs, o, Delete(a))
    BY <1>1, <1>6, <1>8, <2>1 DEF CleanedUp
  <2>3. rs[o].status \notin InFlight => rs[o].inflight = None
    BY <1>3, <1>5, <2>1 DEF IInv, TypeOK
  <2>4. a \in Messages
    BY <1>2, <1>8
  <2>5. /\ \A j \in Keys : IsProjection(j) => rows'[j] = rs[j]
        /\ rows'[o].status # "absent" /\ rows'[o].request = Delete(a)
        /\ \A j \in Keys : Flying(rows'[j]) => /\ Flying(rs[j])
                                               /\ rows'[j].inflight = rs[j].inflight
        /\ \A j \in Keys \ {o} : rows'[j] = rs[j]
    BY <1>5, <1>7, <2>1, <2>2, <2>3, <2>4, DeleteEnqueued
  <2>6. DeletionAdded(o, a) /\ \A j \in Keys \ {o} : ~IsProjection(j) => DeletionKept(j)
    BY <1>7, <2>1, <2>5 DEF DeletionAdded, DeletionKept
  <2> QED
    BY <1>1, <1>5, <1>8, <2>1, <2>5, <2>6
<1>9. CASE ~(Made(d) /\ Gone(d))
  <2>1. rows' = rs
    BY <1>2, <1>6, <1>9 DEF CleanedUp
  <2>2. \A j \in Keys : ~IsProjection(j) => DeletionKept(j)
    BY <1>7, <2>1 DEF DeletionKept
  <2> QED
    BY <1>1, <1>5, <1>9, <2>1, <2>2
<1> QED
  BY <1>8, <1>9

\* What is dismissed stays so, and an answer that came too late is dismissed.
LEMMA AppliedDismisses ==
    ASSUME IInv, FateInv, NEW d \in Dispatchers, Apply(d), NEW m \in Messages,
           Dismissed(m) \/ (Made(d) /\ Gone(d) /\ m = held[d].answer)
    PROVE  Dismissed(m)'
<1>1. PICK a, o : a = held[d].answer /\ o = <<"orphan-delete", a>>
  OBVIOUS
<1>2. CASE Made(d) /\ Gone(d)
  <2>1. /\ o \in Keys /\ ~IsProjection(o) /\ rows'[o].request = Delete(a)
        /\ \A j \in Keys \ {o} : ~IsProjection(j) => rows'[j].request = rows[j].request
    BY <1>1, <1>2, AppliedRows DEF DeletionAdded, DeletionKept
  <2>2. rows'[o].request.target = a
    BY <2>1 DEF Delete
  <2>3. rows[o].request.target \in {None, a}
    BY <1>1, <2>1 DEF FateInv, DeletionsOK
  <2>4. CASE Dismissed(m)
    BY <2>1, <2>2, <2>3, <2>4, DismissedGrows
  <2>5. CASE m = a
    BY <2>1, <2>2, <2>5 DEF Dismissed, IsProjection
  <2> QED
    BY <1>1, <2>4, <2>5
<1>3. CASE ~(Made(d) /\ Gone(d))
  <2>1. \A j \in Keys : ~IsProjection(j) => rows'[j].request = rows[j].request
    BY <1>3, AppliedRows DEF DeletionKept
  <2> QED
    BY <1>3, <2>1, DismissedStays
<1> QED
  BY <1>2, <1>3

\* A card whose row is not the one that is applied is not disturbed.
LEMMA ApplyUndisturbed ==
    ASSUME IInv, FateInv, NEW d \in Dispatchers, Apply(d), NEW p \in Projections,
           held[d].key # CardKey(p)
    PROVE  Undisturbed(p)
<1>1. CardKey(p) \in Keys /\ IsProjection(CardKey(p))
  BY CardTypes
<1>2. rows'[CardKey(p)] = rows[CardKey(p)]
  BY <1>1, AppliedRows
<1>3. projections'[p] = projections[p]
  <2>1. ~IsProjection(held[d].key) \/ p # held[d].key[2]
    BY AppliedAnswer
  <2> QED
    BY <2>1, ApplyProjections
<1>4. PICK k \in Keys : /\ k = <<"projection-delete", p>> /\ ~IsProjection(k)
                        /\ k # <<"orphan-delete", held[d].answer>>
  BY KeyTypes DEF IsProjection
<1>5. rows'[k].status # "absent" => rows[k].status # "absent"
  BY <1>4, AppliedRows DEF DeletionKept
<1>6. \A m \in Messages : (Dismissed(m) => Dismissed(m)') /\ (Mine(p, m)' <=> Mine(p, m))
  BY AppliedDismisses DEF Apply, Mine
<1>7. Proceeds(CardKey(p))
  BY <1>2 DEF Proceeds, Keeps
<1> QED
  BY <1>2, <1>3, <1>4, <1>5, <1>6, <1>7 DEF Undisturbed, Apply

-----------------------------------------------------------------------------
(* The steps that are about a card. *)

\* What is known of a card apart from the work on it.
CardTraced(p) ==
    WantedOK(p) /\ CreateOK(p) /\ ResponseOK(p) /\ DroppedOnce(p) /\ FateOK(p)

\* What arrives when the request in flight and the messages stay.
LEMMA SameArriving ==
    ASSUME NEW p \in Projections, rows'[CardKey(p)].inflight = rows[CardKey(p)].inflight,
           remote' = remote
    PROVE  /\ Creating(p)' <=> Creating(p)
           /\ \A m \in Messages : /\ Arriving(p, m)' <=> Arriving(p, m)
                                  /\ Mine(p, m)' <=> Mine(p, m)
BY DEF Creating, Arriving, Flying, Born, Mine, Card

\* A new version of the card is wanted.
LEMMA ProjectTraced ==
    ASSUME IInv, NEW p \in Projections, TracedOK(p), Project(p)
    PROVE  CardTraced(p)'
<1>1. PICK c \in Keys, m \in Messages \cup {None}, v \in Nat :
         /\ c = CardKey(p) /\ m = projections[p].message /\ v = projections[p].desired
  BY CardTypes
<1>2. /\ remote' = remote
      /\ projections'[p].exists /\ projections'[p].desired = v + 1
      /\ projections'[p].message = m
      /\ \A j \in Keys \ {c} : rows'[j] = rows[j]
      /\ rows'[c].request = IF m = None THEN Create(v + 1) ELSE Update(v + 1, m)
      /\ rows'[c].status # "absent"
      /\ \/ /\ rows[c].status \in InFlight
            /\ rows'[c].status = rows[c].status /\ rows'[c].inflight = rows[c].inflight
            /\ rows'[c].lease = rows[c].lease /\ rows'[c].response = rows[c].response
            /\ rows'[c].sent = rows[c].sent
         \/ /\ rows[c].status \notin InFlight /\ rows[c].inflight = None
            /\ rows'[c].status = "pending" /\ rows'[c].inflight = None
  BY <1>1, ProjectShape
<1>3. /\ Creating(p)' <=> Creating(p)
      /\ \A n \in Messages : /\ Arriving(p, n)' <=> Arriving(p, n)
                             /\ Mine(p, n)' <=> Mine(p, n)
  BY <1>1, <1>2, SameArriving
<1>4. PICK r, f : r = rows'[c].request /\ f = rows'[c].inflight
  OBVIOUS
<1>5. f = rows[c].inflight /\ (f # None => f \in Request /\ RequestOK(p, f))
  BY <1>1, <1>2, <1>4, CardTypes DEF TracedOK, WantedOK, Card, Flying
<1>6. f # None => RequestOK(p, f)'
  <2>1. f # None => f.version \in Nat
    BY <1>5 DEF Request
  <2>2. v <= v + 1 /\ v + 1 \in Nat
    OBVIOUS
  <2> QED
    BY <1>1, <1>2, <1>3, <1>5, <2>1, <2>2, RequestStays
<1>7. m \in Messages => Mine(p, m) /\ ~Arriving(p, m)
  BY <1>1, NoneAssumption DEF TracedOK, WantedOK, CreateOK, Arriving
<1>8. RequestOK(p, r)'
  <2>1. 0 < v + 1 /\ v + 1 <= projections'[p].desired
    BY <1>2
  <2>2. /\ r.op = IF m = None THEN "create" ELSE "update"
        /\ r.version = v + 1 /\ r.target = m
    BY <1>2, <1>4 DEF Create, Update
  <2> QED
    BY <1>3, <1>7, <2>1, <2>2 DEF RequestOK
<1>9. \A n \in Messages : Mine(p, n) => remote[n].version <= v /\ remote[n].version < v + 1
  BY <1>1, MessageTypes DEF TracedOK, WantedOK
<1>10. /\ r = Card(p)'.request /\ f = Card(p)'.inflight
       /\ Card(p)'.status = rows'[c].status /\ Card(p)'.response = rows'[c].response
  BY <1>1, <1>4 DEF Card
<1>11. WantedOK(p)'
  <2>1. rows'[c].status = "ambiguous" => Creating(p)'
    BY <1>1, <1>2, <1>3 DEF TracedOK, WantedOK, Card
  <2>2. \A n \in Messages : Mine(p, n)' => remote'[n].version <= projections'[p].desired
    BY <1>2, <1>3, <1>9, MessageTypes
  <2>3. m \in Messages => Mine(p, m)'
    BY <1>3, <1>7
  <2> QED
    BY <1>2, <1>6, <1>8, <1>10, <2>1, <2>2, <2>3, WantedAfter
<1>12. CreateOK(p)'
  <2>1. r.op = "create" => m = None /\ r.version = v + 1
    BY <1>2, <1>4 DEF Create, Update
  <2>2. Creating(p)' => m = None
    BY <1>1, <1>3 DEF TracedOK, CreateOK
  <2>3. r.op = "create" => {n \in Messages : Mine(p, n)' /\ remote'[n].version = r.version} = {}
    BY <1>2, <1>3, <1>9, <2>1
  <2>4. \A n, o \in Messages : Arriving(p, n)' /\ Arriving(p, o)' => n = o
    BY <1>3 DEF TracedOK, CreateOK
  <2>5. CreateWaits(p)' => r.op = "create"
    BY <1>10 DEF CreateWaits
  <2> QED
    BY <1>2, <1>10, <2>1, <2>2, <2>3, <2>4, <2>5 DEF CreateOK, Born
<1>13. ResponseOK(p)'
  <2>1. SUFFICES ASSUME rows'[c].status = "applying" PROVE ResponseOK(p)'
    BY <1>10 DEF ResponseOK
  <2>2. PICK a : a = rows[c].response /\ a = rows'[c].response
    BY <1>2, <2>1
  <2>3. ReplyOK(p, f, a) /\ \A n \in Messages : Arriving(p, n) => n = a
    BY <1>1, <1>2, <1>5, <2>1, <2>2 DEF TracedOK, ResponseOK, Card
  <2>4. ReplyOK(p, f, a)'
    BY <1>3, <2>3, ReplyStays
  <2> QED
    BY <1>3, <1>10, <2>2, <2>3, <2>4 DEF ResponseOK, ReplyOK
<1>14. DroppedOnce(p)'
  <2>1. <<"projection-delete", p>> \in Keys \ {c}
    BY <1>1, KeyTypes DEF CardKey
  <2>2. \A w \in Obsoleting : w <= v => w <= v + 1 /\ w # v + 1
    BY BoundsAssumption
  <2> QED
    BY <1>1, <1>2, <2>1, <2>2 DEF TracedOK, DroppedOnce
<1>15. FateOK(p)'
  <2>1. \A n \in Messages : Dismissed(n) => Dismissed(n)'
    BY <1>1, <1>2, DismissedStays, CardTypes
  <2> QED
    BY <1>1, <1>2, <1>3, <2>1 DEF TracedOK, FateOK
<1> QED
  BY <1>11, <1>12, <1>13, <1>14, <1>15 DEF CardTraced

\* The card is dropped.
LEMMA DropTraced ==
    ASSUME IInv, FateInv, \A v, w \in Obsoleting : v = w, NEW p \in Projections, Drop(p)
    PROVE  CardTraced(p)'
<1>1. PICK c \in Keys, v \in Nat : c = CardKey(p) /\ v = projections[p].desired
  BY CardTypes
<1>2. /\ remote' = remote /\ rows'[c] = rows[c]
      /\ ~projections'[p].exists /\ projections'[p].desired = v
      /\ projections'[p].message = None
  <2>1. c # <<"projection-delete", p>>
    BY <1>1 DEF CardKey
  <2> QED
    BY <1>1, <2>1, DropShape
<1>3. /\ Creating(p)' <=> Creating(p)
      /\ \A n \in Messages : /\ Arriving(p, n)' <=> Arriving(p, n)
                             /\ Mine(p, n)' <=> Mine(p, n)
  BY <1>1, <1>2, SameArriving
<1>4. TracedOK(p)
  BY DEF FateInv
<1>5. PICK r, f : r \in Request /\ r = rows[c].request /\ f = rows[c].inflight
  BY <1>1, CardTypes DEF Card
<1>6. \A q \in Request : RequestOK(p, q) => RequestOK(p, q)'
  <2>1. \A q \in Request : q.version \in Nat
    BY DEF Request
  <2>2. v <= v
    OBVIOUS
  <2> QED
    BY <1>1, <1>2, <1>3, <2>1, <2>2, RequestStays
<1>7. /\ r = Card(p)'.request /\ f = Card(p)'.inflight
      /\ Card(p)'.status = rows[c].status /\ Card(p)'.response = rows[c].response
      /\ Card(p)' = Card(p)
  BY <1>1, <1>2, <1>5 DEF Card
<1>8. WantedOK(p)'
  <2>1. /\ rows[c].status # "absent" => RequestOK(p, r)'
        /\ rows[c].status = "absent" => r.op = "delete"
        /\ rows[c].status = "ambiguous" => Creating(p)'
    BY <1>1, <1>3, <1>4, <1>5, <1>6 DEF TracedOK, WantedOK, Card
  <2>2. f # None => RequestOK(p, f)'
    BY <1>1, <1>4, <1>5, <1>6, CardTypes DEF TracedOK, WantedOK, Card, Flying
  <2>3. \A n \in Messages : Mine(p, n)' => remote'[n].version <= projections'[p].desired
    BY <1>1, <1>2, <1>3, <1>4 DEF TracedOK, WantedOK
  <2> QED
    BY <1>2, <1>7, <2>1, <2>2, <2>3, NoneAssumption, WantedAfter
<1>9. CreateOK(p)'
  <2>1. CreateWaits(p)' => CreateWaits(p)
    BY <1>7 DEF CreateWaits
  <2>2. CreateWaits(p)' => {n \in Messages : Mine(p, n)' /\ remote'[n].version = r.version} = {}
    BY <1>1, <1>2, <1>3, <1>4, <1>5, <2>1 DEF TracedOK, CreateOK, Born, Card
  <2>3. \A n, o \in Messages : Arriving(p, n)' /\ Arriving(p, o)' => n = o
    BY <1>3, <1>4 DEF TracedOK, CreateOK
  <2> QED
    BY <1>2, <1>7, <2>2, <2>3 DEF CreateOK, Born
<1>10. ResponseOK(p)'
  <2>1. SUFFICES ASSUME rows[c].status = "applying" PROVE ResponseOK(p)'
    BY <1>7 DEF ResponseOK
  <2>2. PICK a : a = rows[c].response
    OBVIOUS
  <2>3. ReplyOK(p, f, a) /\ \A n \in Messages : Arriving(p, n) => n = a
    BY <1>1, <1>4, <1>5, <2>1, <2>2 DEF TracedOK, ResponseOK, Card
  <2>4. ReplyOK(p, f, a)'
    BY <1>3, <2>3, ReplyStays
  <2> QED
    BY <1>3, <1>7, <2>2, <2>3, <2>4 DEF ResponseOK, ReplyOK
<1>11. DroppedOnce(p)'
  BY <1>1, <1>2 DEF DroppedOnce, Drop
<1>12. FateOK(p)'
  BY <1>3, <1>2, <1>4, DropDismisses DEF TracedOK, FateOK
<1> QED
  BY <1>8, <1>9, <1>10, <1>11, <1>12 DEF CardTraced

\* A new message is the only one that arrives.
LEMMA MadeArrives ==
    ASSUME IInv, FateInv, NEW d \in Dispatchers, NEW p \in Projections, NEW m \in Messages,
           Dispatching(d, p), held[d].request.op = "create", held[d].request \in Request,
           rows' = rows, remote[m].state = "absent", Mine(p, m)',
           remote'[m].version = held[d].request.version,
           \A n \in Messages \ {m} : remote'[n] = remote[n]
    PROVE  /\ Creating(p) /\ Creating(p)' /\ \A n \in Messages : ~Arriving(p, n)
           /\ \A n \in Messages : Arriving(p, n)' <=> n = m
           /\ ~Mine(p, m) /\ \A n \in Messages \ {m} : Mine(p, n)' <=> Mine(p, n)
<1>1. PICK q \in Request : q = held[d].request
  OBVIOUS
<1>2. Card(p).inflight = q /\ q.op = "create" /\ Born(p, q.version) = {} /\ q # None
  BY <1>1, RequestsAssumption DEF Dispatching
<1>3. ~Mine(p, m) /\ \A n \in Messages \ {m} : Mine(p, n)' <=> Mine(p, n)
  BY DEF Mine
<1>4. Card(p)' = Card(p)
  BY DEF Card
<1>5. /\ Creating(p) /\ Creating(p)'
      /\ \A n \in Messages : ~Arriving(p, n)
      /\ \A n \in Messages : Arriving(p, n)' <=> Mine(p, n)' /\ remote'[n].version = q.version
  BY <1>2, <1>4 DEF Creating, Flying, Arriving, Born
<1>6. \A n \in Messages \ {m} : ~(Mine(p, n) /\ remote[n].version = q.version)
  BY <1>2 DEF Born
<1> QED
  BY <1>1, <1>3, <1>5, <1>6

\* A message is made for the card.
LEMMA CreatedTraced ==
    ASSUME IInv, FateInv, NEW d \in Dispatchers, NEW p \in Projections, NEW m \in Messages,
           Dispatching(d, p), held[d].request.op = "create", held[d].request \in Request,
           RequestOK(p, held[d].request), rows' = rows, projections' = projections,
           remote[m].state = "absent", Mine(p, m)', remote'[m].state = "shown",
           remote'[m].version = held[d].request.version,
           \A n \in Messages \ {m} : remote'[n] = remote[n]
    PROVE  CardTraced(p)'
<1>1. PICK c \in Keys, q \in Request : c = CardKey(p) /\ q = held[d].request
  BY CardTypes
<1>2. /\ Creating(p) /\ Creating(p)' /\ \A n \in Messages : ~Arriving(p, n)
      /\ \A n \in Messages : Arriving(p, n)' <=> n = m
      /\ ~Mine(p, m) /\ \A n \in Messages \ {m} : Mine(p, n)' <=> Mine(p, n)
  BY MadeArrives
<1>3. TracedOK(p)
  BY DEF FateInv
<1>4. /\ rows[c].inflight = q /\ rows[c].status \in {"sending", "ambiguous"}
      /\ q.op = "create" /\ q.target = None /\ q.version <= projections[p].desired
  BY <1>1 DEF Dispatching, Card, RequestOK
<1>5. PICK r, f : r \in Request /\ r = rows[c].request /\ f = rows[c].inflight
  BY <1>1, CardTypes DEF Card
<1>6. /\ Card(p)' = Card(p) /\ Card(p)'.request = r /\ Card(p)'.inflight = f
      /\ Card(p)'.status = rows[c].status
  BY <1>1, <1>5 DEF Card
<1>7. \A s \in Request : RequestOK(p, s) => RequestOK(p, s)'
  <2>1. \A n \in Messages : Mine(p, n) => Mine(p, n)' /\ ~Arriving(p, n)'
    BY <1>2
  <2> QED
    BY <2>1 DEF RequestOK
<1>8. WantedOK(p)'
  <2>1. rows[c].status # "absent" /\ RequestOK(p, r) /\ RequestOK(p, f)
    BY <1>1, <1>3, <1>4, <1>5, RequestsAssumption DEF TracedOK, WantedOK, Card, Flying
  <2>2. RequestOK(p, r)' /\ RequestOK(p, f)'
    BY <1>4, <1>5, <1>7, <2>1
  <2>3. \A n \in Messages : Mine(p, n)' => remote'[n].version <= projections'[p].desired
    BY <1>1, <1>2, <1>3, <1>4 DEF TracedOK, WantedOK
  <2>4. PICK x : x = projections[p].message
    OBVIOUS
  <2>5. /\ x \in Messages => Mine(p, x)'
        /\ ~projections'[p].exists => x = None
        /\ x = projections'[p].message
    BY <1>2, <1>3, <2>4 DEF TracedOK, WantedOK
  <2> QED
    BY <1>2, <1>6, <2>1, <2>2, <2>3, <2>5, WantedAfter
<1>9. CreateOK(p)'
  <2>1. CreateOK(p)
    BY <1>3 DEF TracedOK
  <2>2. ASSUME CreateWaits(p)' PROVE r.version # q.version /\ CreateWaits(p)
    <3>1. CreateWaits(p) /\ r.op = "create" /\ r # q /\ rows[c].status # "absent"
      BY <1>1, <1>4, <1>5, <1>6, <2>2 DEF CreateWaits, Card
    <3>2. r.target = None
      BY <1>1, <1>3, <1>5, <3>1 DEF TracedOK, WantedOK, RequestOK, Card
    <3> QED
      BY <1>4, <1>5, <3>1, <3>2 DEF Request
  <2>3. CreateWaits(p)' => {n \in Messages : Mine(p, n)' /\ remote'[n].version = r.version} = {}
    BY <1>1, <1>2, <1>5, <2>1, <2>2 DEF CreateOK, Born, Card
  <2>4. \A n, o \in Messages : Arriving(p, n)' /\ Arriving(p, o)' => n = o
    BY <1>2
  <2>5. projections'[p].message = None
    BY <1>2, <2>1 DEF CreateOK
  <2> QED
    BY <1>6, <2>3, <2>4, <2>5 DEF CreateOK, Born
<1>10. ResponseOK(p)'
  BY <1>4, <1>6 DEF ResponseOK
<1>11. DroppedOnce(p)'
  BY <1>3 DEF TracedOK, DroppedOnce
<1>12. FateOK(p)'
  <2>1. \A n \in Messages : Dismissed(n) => Dismissed(n)'
    BY DismissedStays
  <2>2. \A n \in Messages \ {m} : remote'[n].state = remote[n].state
    OBVIOUS
  <2> QED
    BY <1>2, <1>3, <2>1, <2>2 DEF TracedOK, FateOK
<1> QED
  BY <1>8, <1>9, <1>10, <1>11, <1>12 DEF CardTraced

\* The answer of a card is applied.
LEMMA AppliedTraced ==
    ASSUME IInv, FateInv, NEW d \in Dispatchers, Apply(d), NEW p \in Projections,
           held[d].key = CardKey(p)
    PROVE  CardTraced(p)'
<1>1. PICK c \in Keys, q \in Request, a \in Messages \cup {None} :
         /\ c = CardKey(p) /\ q = held[d].request /\ a = held[d].answer
  <2>1. /\ CardKey(p) \in Keys /\ held[d].request \in Request
        /\ held[d].answer \in Messages \cup {None}
    BY CardTypes, AppliedAnswer, HeldItem
  <2> QED
    BY <2>1
<1>2. /\ ~Replaced(d) /\ rows[c].status = "applying" /\ remote' = remote
      /\ RequestOK(p, q) /\ ReplyOK(p, q, a)
      /\ rows[c].inflight = q /\ rows[c].response = a
      /\ Made(d) <=> q.op = "create"
      /\ Gone(d) <=> ~projections[p].exists
  BY <1>1, CardTypes, AppliedAnswer DEF Card
<1>3. TracedOK(p) /\ q # None
  BY <1>1, <1>2, CardTypes DEF FateInv, Card, Flying, InFlight
<1>4. PICK F \in Row : F = Finished(d) /\ F = rows'[c]
  BY <1>1, CardTypes, FinishedRow, AppliedRows
<1>5. /\ F.inflight = None /\ F.status \in {"completed", "pending"}
      /\ F.status = "completed" <=> Newest(d) \/ Gone(d)
      /\ F.request = IF F.status = "pending" /\ Made(d)
                     THEN Update(rows[c].request.version, a) ELSE rows[c].request
  BY <1>1, <1>2, <1>4, FinishedRow
<1>6. /\ Card(p)' = F /\ ~Creating(p)' /\ \A n \in Messages : ~Arriving(p, n)'
      /\ \A n \in Messages : Mine(p, n)' <=> Mine(p, n)
  BY <1>1, <1>2, <1>4, <1>5 DEF Card, Creating, Flying, Arriving, Mine
<1>7. /\ q.op = "create" => a \in Messages /\ Mine(p, a)
      /\ q.op # "create" => a = None
      /\ q.op = "create" => projections[p].message = None
  BY <1>1, <1>2, <1>3 DEF ReplyOK, TracedOK, CreateOK, Creating, Flying, Card
<1>8. /\ projections'[p].exists = projections[p].exists
      /\ projections'[p].desired = projections[p].desired
      /\ projections'[p].message = IF Gone(d) \/ a = None THEN projections[p].message ELSE a
  <2>1. IsProjection(held[d].key) /\ held[d].key[2] = p
    BY CardTypes
  <2>2. CASE Gone(d)
    BY <2>1, <2>2, ApplyProjections
  <2>3. CASE ~Gone(d)
    BY <1>1, <2>1, <2>3, ApplyProjections
  <2> QED
    BY <2>2, <2>3
<1>9. PICK r, x : r = F.request /\ x = projections'[p].message
  OBVIOUS
<1>10. RequestOK(p, r)'
  <2>1. PICK s : s = rows[c].request
    OBVIOUS
  <2>2. RequestOK(p, s)
    BY <1>1, <1>2, <1>3, <2>1 DEF TracedOK, WantedOK, Card
  <2>3. CASE r = s
    BY <1>6, <1>8, <2>2, <2>3 DEF RequestOK
  <2>4. CASE r = Update(s.version, a) /\ Made(d)
    <3>1. r.op = "update" /\ r.version = s.version /\ r.target = a
      BY <2>4 DEF Update
    <3>2. a \in Messages /\ Mine(p, a)
      BY <1>2, <1>7, <2>4
    <3> QED
      BY <1>6, <1>8, <2>2, <3>1, <3>2 DEF RequestOK
  <2> QED
    BY <1>5, <1>9, <2>1, <2>3, <2>4
<1>11. WantedOK(p)'
  <2>1. \A n \in Messages : Mine(p, n)' => remote'[n].version <= projections'[p].desired
    BY <1>2, <1>3, <1>6, <1>8 DEF TracedOK, WantedOK
  <2>2. ~projections'[p].exists => x = None
    BY <1>2, <1>3, <1>8, <1>9 DEF TracedOK, WantedOK
  <2>3. x \in Messages => Mine(p, x)'
    BY <1>3, <1>6, <1>7, <1>8, <1>9 DEF TracedOK, WantedOK
  <2>4. F.status # "absent" /\ F.status # "ambiguous"
    BY <1>5
  <2> QED
    BY <1>5, <1>6, <1>9, <1>10, <2>1, <2>2, <2>3, <2>4, WantedAfter
<1>12. CreateOK(p)'
  <2>1. ASSUME r.op = "create", F.status # "completed"
        PROVE  /\ projections'[p].message = None
               /\ {n \in Messages : Mine(p, n)' /\ remote'[n].version = r.version} = {}
    <3>1. ~Made(d) /\ r = rows[c].request
      <4>1. Update(rows[c].request.version, a).op = "update"
        BY DEF Update
      <4> QED
        BY <1>5, <1>9, <2>1, <4>1
    <3>2. a = None /\ q # r /\ CreateOK(p)
      BY <1>2, <1>3, <1>7, <2>1, <3>1 DEF TracedOK
    <3>3. CreateWaits(p)
      BY <1>1, <1>2, <2>1, <3>1, <3>2 DEF CreateWaits, Card
    <3>4. projections[p].message = None /\ Born(p, r.version) = {}
      BY <1>1, <3>1, <3>2, <3>3 DEF CreateOK, CreateWaits, Card
    <3> QED
      BY <1>2, <1>6, <1>8, <3>2, <3>4 DEF Born
  <2>2. CreateWaits(p)' => r.op = "create" /\ F.status # "completed"
    BY <1>6, <1>9 DEF CreateWaits
  <2> QED
    BY <1>6, <1>9, <2>1, <2>2 DEF CreateOK, Born
<1>13. ResponseOK(p)'
  BY <1>5, <1>6 DEF ResponseOK
<1>14. DroppedOnce(p)'
  <2>1. PICK k \in Keys : /\ k = <<"projection-delete", p>> /\ ~IsProjection(k)
                          /\ k # <<"orphan-delete", held[d].answer>>
    BY KeyTypes DEF IsProjection
  <2>2. rows'[k].status # "absent" => rows[k].status # "absent"
    BY <2>1, AppliedRows DEF DeletionKept
  <2> QED
    BY <1>3, <1>8, <2>1, <2>2 DEF TracedOK, DroppedOnce
<1>15. FateOK(p)'
  <2> SUFFICES ASSUME NEW n \in Messages, Mine(p, n), remote[n].state = "shown"
               PROVE  projections'[p].message = n \/ Dismissed(n)'
    BY <1>2, <1>6 DEF FateOK
  <2>1. CASE projections[p].message = n
    BY <1>7, <1>8, <2>1, NoneAssumption
  <2>2. CASE Arriving(p, n)
    <3>1. n = a /\ q.op = "create"
      BY <1>1, <1>2, <1>3, <2>2 DEF TracedOK, ResponseOK, Arriving, Creating, Card
    <3>2. CASE Gone(d)
      BY <1>1, <1>2, <3>1, <3>2, AppliedDismisses
    <3>3. CASE ~Gone(d)
      BY <1>8, <3>1, <3>3, NoneAssumption
    <3> QED
      BY <3>2, <3>3
  <2>3. CASE Dismissed(n)
    BY <2>3, AppliedDismisses
  <2> QED
    BY <1>3, <2>1, <2>2, <2>3 DEF TracedOK, FateOK
<1> QED
  BY <1>11, <1>12, <1>13, <1>14, <1>15 DEF CardTraced

\* A step about a card makes a message for it, applies an answer, or changes what is
\* wanted.
About(p) ==
    \/ Project(p) \/ Drop(p)
    \/ \E d \in Dispatchers : held[d].key = CardKey(p) /\ (SendCreate(d) \/ Apply(d))

\* Every other step does not disturb it.
LEMMA StepAbout ==
    ASSUME IInv, FateInv, ~EditLimit, ~LostAnswers, \A v, w \in Obsoleting : v = w,
           [Next]_vars, NEW p \in Projections
    PROVE  Undisturbed(p) \/ About(p)
<1>1. CASE Want
  BY <1>1, ProjectUndisturbed, DropUndisturbed DEF Want, About
<1>2. CASE Works
  BY <1>2, WorksUndisturbed
<1>3. CASE \E d \in Dispatchers : Send(d)
  BY <1>3, SendUndisturbed DEF About
<1>4. CASE \E d \in Dispatchers : Apply(d)
  BY <1>4, ApplyUndisturbed DEF About
<1>5. CASE UNCHANGED vars
  BY <1>5, SentUndisturbed DEF vars, Mine
<1> QED
  BY <1>1, <1>2, <1>3, <1>4, <1>5 DEF Next, Works

\* Every step leaves the card traced.
LEMMA StepTraced ==
    ASSUME IInv, FateInv, ~EditLimit, ~LostAnswers, \A v, w \in Obsoleting : v = w,
           [Next]_vars, NEW p \in Projections
    PROVE  CardTraced(p)'
<1>1. TracedOK(p) /\ OwnersOK
  BY DEF FateInv
<1>2. ASSUME Undisturbed(p) PROVE CardTraced(p)'
  BY <1>1, <1>2, UndisturbedCard DEF CardTraced
<1>3. ASSUME NEW d \in Dispatchers, held[d].key = CardKey(p), SendCreate(d)
      PROVE  CardTraced(p)'
  <2>1. PICK q \in Projections, m \in Messages :
              /\ held[d].key = CardKey(q) /\ Handles(d, q) /\ held[d].request.op = "create"
              /\ RequestOK(q, held[d].request) /\ Dispatching(d, q)
              /\ rows' = rows /\ projections' = projections
              /\ Mine(q, m)' /\ \A r \in Projections \ {q} : ~Mine(r, m)'
              /\ \/ remote' = remote
                 \/ /\ remote[m].state = "absent" /\ remote'[m].state = "shown"
                    /\ remote'[m].version = held[d].request.version
                    /\ \A n \in Messages \ {m} : remote'[n] = remote[n]
    BY <1>3, CreateShape
  <2>2. q = p
    BY <1>3, <2>1 DEF CardKey
  <2>3. CASE remote' = remote
    BY <1>2, <2>1, <2>3, SentUndisturbed DEF Mine
  <2>4. CASE remote' # remote
    <3>1. held[d].request \in Request
      BY <1>3, HeldItem DEF SendCreate, Sending
    <3> QED
      BY <2>1, <2>2, <2>4, <3>1, CreatedTraced
  <2> QED
    BY <2>3, <2>4
<1> QED
  BY <1>1, <1>2, <1>3, StepAbout, ProjectTraced, DropTraced, AppliedTraced DEF About

\* What every step leaves of a card.
LEMMA StepLeaves ==
    ASSUME IInv, FateInv, ~EditLimit, ~LostAnswers, \A v, w \in Obsoleting : v = w,
           [Next]_vars, NEW p \in Projections
    PROVE  /\ projections[p].desired \in Nat /\ projections'[p].desired \in Nat
           /\ projections[p].desired <= projections'[p].desired
           /\ \A m \in Messages : Mine(p, m) => Mine(p, m)' /\ (Arriving(p, m)' => Arriving(p, m))
           /\ \/ \A m \in Messages : Arriving(p, m)' => Arriving(p, m)
              \/ \E d \in Dispatchers : held[d].key = CardKey(p) /\ SendCreate(d)
<1>1. TracedOK(p) /\ projections[p].desired \in Nat
  BY CardTypes DEF FateInv
<1>2. CASE Undisturbed(p)
  BY <1>1, <1>2, StillArriving DEF Undisturbed
<1>3. CASE Project(p)
  <2>1. rows'[CardKey(p)].inflight = rows[CardKey(p)].inflight /\ remote' = remote
        /\ projections'[p].desired = projections[p].desired + 1
    BY <1>3, ProjectShape
  <2> QED
    BY <1>1, <2>1, SameArriving
<1>4. CASE Drop(p)
  <2>1. rows'[CardKey(p)].inflight = rows[CardKey(p)].inflight /\ remote' = remote
        /\ projections'[p].desired = projections[p].desired
    <3>1. CardKey(p) \in Keys \ {<<"projection-delete", p>>}
      BY CardTypes DEF CardKey
    <3> QED
      BY <1>4, <3>1, DropShape
  <2> QED
    BY <1>1, <2>1, SameArriving
<1>5. ASSUME NEW d \in Dispatchers, held[d].key = CardKey(p), SendCreate(d)
      PROVE  /\ projections' = projections
             /\ \A m \in Messages :
                   Mine(p, m) => Mine(p, m)' /\ (Arriving(p, m)' => Arriving(p, m))
  <2>1. PICK m \in Messages :
              /\ rows' = rows /\ projections' = projections /\ Mine(p, m)'
              /\ \/ remote' = remote
                 \/ /\ remote[m].state = "absent" /\ remote'[m].state = "shown"
                    /\ remote'[m].version = held[d].request.version
                    /\ \A n \in Messages \ {m} : remote'[n] = remote[n]
    BY <1>5, CreateShape DEF CardKey
  <2>2. \A n \in Messages : Mine(p, n) => remote'[n] = remote[n]
    BY <2>1 DEF Mine
  <2> QED
    BY <2>1, <2>2 DEF Mine, Arriving, Creating, Born, Flying, Card
<1>6. ASSUME NEW d \in Dispatchers, held[d].key = CardKey(p), Apply(d)
      PROVE  /\ projections'[p].desired = projections[p].desired
             /\ \A m \in Messages : ~Arriving(p, m)' /\ (Mine(p, m) => Mine(p, m)')
  <2>1. CardKey(p) \in Keys /\ IsProjection(CardKey(p)) /\ CardKey(p)[2] = p
    BY CardTypes
  <2>2. rows'[CardKey(p)].inflight = None /\ remote' = remote
    <3>1. rows'[CardKey(p)] = Finished(d)
      BY <1>6, <2>1, AppliedRows
    <3>2. Finished(d).inflight = None /\ remote' = remote
      BY <1>6, FinishedRow DEF Apply
    <3> QED
      BY <3>1, <3>2
  <2>3. projections'[p].desired = projections[p].desired
    <3>1. CASE Gone(d)
      BY <1>6, <3>1, ApplyProjections
    <3>2. CASE ~Gone(d)
      BY <1>6, <2>1, <3>2, ApplyProjections
    <3> QED
      BY <3>1, <3>2
  <2> QED
    BY <2>2, <2>3 DEF Arriving, Creating, Flying, Mine, Card
<1>7. CASE \E d \in Dispatchers : held[d].key = CardKey(p) /\ SendCreate(d)
  BY <1>1, <1>5, <1>7
<1>8. CASE \E d \in Dispatchers : held[d].key = CardKey(p) /\ Apply(d)
  BY <1>1, <1>6, <1>8
<1> QED
  BY <1>2, <1>3, <1>4, <1>7, <1>8, StepAbout DEF About

-----------------------------------------------------------------------------
(* What dispatchers hold. *)

\* The columns of an item whose delivery has an outcome.
LEMMA OutcomeColumns ==
    ASSUME IInv, NEW d \in Dispatchers, held[d] # None, NEW phase, NEW m, Outcome(d, phase, m)
    PROVE  /\ held'[d].key = held[d].key /\ held'[d].request = held[d].request
           /\ held'[d].phase = phase /\ held'[d].answer = m
           /\ \A e \in Dispatchers \ {d} : held'[e] = held[e]
<1>1. held \in [Dispatchers -> Item \cup {None}] /\ held[d] \in Item
  BY HeldItem DEF IInv, TypeOK
<1>2. PICK i : i = [held[d] EXCEPT !.phase = phase, !.answer = m]
  OBVIOUS
<1>3. i.key = held[d].key /\ i.request = held[d].request /\ i.phase = phase /\ i.answer = m
  BY <1>1, <1>2, ItemColumns
<1>4. held'[d] = i /\ \A e \in Dispatchers \ {d} : held'[e] = held[e]
  BY <1>1, <1>2 DEF Outcome
<1> QED
  BY <1>3, <1>4

\* An item that is new or changed.
Sends(d) ==
    /\ Send(d) /\ held[d] # None /\ held[d].phase = "deliver"
    /\ held'[d].key = held[d].key /\ held'[d].request = held[d].request
    /\ held'[d].phase \in {"delivered", "unreached", "refused"}

Records(d) ==
    /\ RecordDelivery(d) /\ held'[d].phase = "apply"
    /\ held'[d].key = held[d].key /\ held'[d].request = held[d].request
    /\ held'[d].answer = held[d].answer

Takes(d, k) ==
    /\ ClaimDelivery(d, k) /\ held'[d].phase = "deliver"
    /\ held'[d].key = k /\ held'[d].request = rows[k].request

TakesAnswer(d, k) ==
    /\ ClaimApplication(d, k) \/ Resolve(d, k)
    /\ held'[d].phase = "apply" /\ held'[d].key = k
    /\ held'[d].request = rows[k].inflight /\ held'[d].answer = rows'[k].response

\* There is no other way to it.
LEMMA HeldChanges ==
    ASSUME IInv, [Next]_vars, NEW d \in Dispatchers, held'[d] # None, held'[d] # held[d]
    PROVE  Sends(d) \/ Records(d) \/ \E k \in Keys : Takes(d, k) \/ TakesAnswer(d, k)
<1>1. held \in [Dispatchers -> Item \cup {None}] /\ rows \in [Keys -> Row]
  BY DEF IInv, TypeOK
<1>2. ASSUME NEW e \in Dispatchers, Send(e) PROVE Sends(d)
  <2>1. held[e] # None /\ held[e].phase = "deliver"
    BY <1>2 DEF Send, SendCreate, SendUpdate, SendReplacement, SendDelete, SendFails, Sending
  <2>2. \E phase \in {"delivered", "unreached", "refused"} : \E m : Outcome(e, phase, m)
    <3>1. ASSUME NEW m, CarriedOut(e, m)
          PROVE  \E phase \in {"delivered", "unreached", "refused"} : \E n : Outcome(e, phase, n)
      BY <3>1 DEF CarriedOut
    <3>2. SendFails(e) \/ \E m : CarriedOut(e, m)
      BY <1>2 DEF Send, SendCreate, SendUpdate, SendReplacement, SendDelete, Post
    <3> QED
      BY <3>1, <3>2 DEF SendFails
  <2>3. PICK phase, m : phase \in {"delivered", "unreached", "refused"} /\ Outcome(e, phase, m)
    BY <2>2
  <2>4. /\ held'[e].key = held[e].key /\ held'[e].request = held[e].request
        /\ held'[e].phase = phase
        /\ \A c \in Dispatchers \ {e} : held'[c] = held[c]
    BY <2>1, <2>3, OutcomeColumns
  <2>5. e = d
    BY <2>4
  <2> QED
    BY <1>2, <2>1, <2>3, <2>4, <2>5 DEF Sends
<1>3. ASSUME NEW e \in Dispatchers, RecordDelivery(e) PROVE Records(d)
  <2>1. held[e] \in Item
    BY <1>3, HeldItem DEF RecordDelivery, Answered
  <2>2. PICK i : i = [held[e] EXCEPT !.phase = "apply"]
    OBVIOUS
  <2>3. /\ i.key = held[e].key /\ i.request = held[e].request /\ i.answer = held[e].answer
        /\ i.phase = "apply"
    BY <2>1, <2>2, ItemColumns
  <2>4. held'[e] = i /\ \A c \in Dispatchers \ {e} : held'[c] = held[c]
    BY <1>1, <1>3, <2>2 DEF RecordDelivery
  <2> QED
    BY <1>3, <2>3, <2>4 DEF Records
<1>4. ASSUME NEW e \in Dispatchers, NEW k \in Keys, ClaimDelivery(e, k) PROVE Takes(d, k)
  <2>1. PICK r : r = Swept(rows)[k]
    OBVIOUS
  <2>2. PICK i : i = [key |-> k, phase |-> "deliver", request |-> r.request,
                      revision |-> r.revision, attempt |-> Attempted(r), answer |-> None]
    OBVIOUS
  <2>3. held'[e] = i /\ \A c \in Dispatchers \ {e} : held'[c] = held[c]
    BY <1>1, <1>4, <2>1, <2>2 DEF ClaimDelivery
  <2>4. i.key = k /\ i.phase = "deliver" /\ i.request = r.request
    BY <2>2
  <2>5. r.request = rows[k].request
    BY <1>1, <2>1, SweptRows
  <2> QED
    BY <1>4, <2>3, <2>4, <2>5 DEF Takes
<1>5. ASSUME NEW e \in Dispatchers, NEW k \in Keys, ClaimApplication(e, k) \/ Resolve(e, k)
      PROVE  TakesAnswer(d, k)
  <2>1. PICK m : /\ held' = [held EXCEPT ![e] =
                       [key |-> k, phase |-> "apply", request |-> rows[k].inflight,
                        revision |-> rows[k].sent, attempt |-> rows[k].attempts,
                        answer |-> m]]
                 /\ rows'[k].response = m
    <3>1. CASE ClaimApplication(e, k)
      <4>1. Swept(rows)[k] = rows[k] /\ rows'[k].response = rows[k].response
        BY <3>1, ClaimApplicationKept
      <4> QED
        BY <3>1, <4>1 DEF ClaimApplication
    <3>2. CASE Resolve(e, k)
      BY <3>2, ResolveKept
    <3> QED
      BY <1>5, <3>1, <3>2
  <2>2. /\ held'[e].key = k /\ held'[e].phase = "apply"
        /\ held'[e].request = rows[k].inflight /\ held'[e].answer = m
        /\ \A c \in Dispatchers \ {e} : held'[c] = held[c]
    BY <1>1, <2>1
  <2> QED
    BY <1>5, <2>1, <2>2 DEF TakesAnswer
<1>6. ASSUME NEW e \in Dispatchers, held' = [held EXCEPT ![e] = None] PROVE FALSE
  BY <1>1, <1>6
<1>7. held' # held
  OBVIOUS
<1> QED
  BY <1>2, <1>3, <1>4, <1>5, <1>6, <1>7
     DEF Next, Want, Project, Drop, Claim, ClaimNothing, Record, RetryDelivery, FailDelivery,
         LoseLease, Apply, ApplyFails, Crash, LeaseExpires, vars

\* A dispatcher that has the lease of a delivery after a step had it before.
LEMMA StillDelivering ==
    ASSUME IInv, [Next]_vars, NEW d \in Dispatchers, held[d] # None, held'[d] # None,
           Delivering(d)'
    PROVE  Delivering(d)
<1>1. PICK k \in Keys : k = held[d].key /\ Moves(k)
  BY HeldItem, StepMoves
<1>2. held'[d].key = k /\ held'[d].revision = held[d].revision
  BY <1>1, StepHeld DEF HeldMoves, Advances, Claims
<1>3. rows'[k].status = "sending" /\ rows'[k].lease = d /\ rows'[k].sent = held[d].revision
  BY <1>2 DEF Delivering
<1>4. ~Claimed(k) /\ ~Rests(k)
  BY <1>3 DEF Claimed, Rests, InFlight
<1> QED
  BY <1>1, <1>3, <1>4 DEF Moves, Continues, Delivering

\* One that has the lease of an application had it before, of the same answer.
LEMMA StillApplying ==
    ASSUME IInv, FateInv, ~EditLimit, ~LostAnswers, \A v, w \in Obsoleting : v = w,
           [Next]_vars, NEW p \in Projections, NEW e \in Dispatchers, Handles(e, p),
           held[e].phase = "apply", held'[e] = held[e], Applying(e)'
    PROVE  /\ Applying(e)
           /\ Card(p)'.inflight = Card(p).inflight /\ Card(p)'.response = Card(p).response
<1>1. PICK c \in Keys : /\ c = CardKey(p) /\ held[e].key = c /\ held[e] # None
                        /\ IsProjection(c)
  BY CardTypes DEF Handles
<1>2. rows'[c].status = "applying" /\ rows'[c].lease = e /\ rows'[c].sent = held[e].revision
  BY <1>1 DEF Applying
<1> SUFFICES /\ rows'[c].status = rows[c].status /\ rows'[c].lease = rows[c].lease
             /\ rows'[c].sent = rows[c].sent /\ rows'[c].inflight = rows[c].inflight
             /\ rows'[c].response = rows[c].response
  BY <1>1, <1>2 DEF Applying, Card
<1>3. CASE Undisturbed(p)
  <2>1. Proceeds(c) /\ ~NewLease(c) /\ e # None
    BY <1>1, <1>2, <1>3, NoneAssumption DEF Undisturbed, NewLease
  <2>2. ~Returns(c)
    <3>1. ASSUME RecordDelivery(e) PROVE FALSE
      BY <3>1 DEF RecordDelivery, Answered
    <3> QED
      BY <1>2, <3>1 DEF Returns
  <2>3. Keeps(c)
    BY <1>2, <2>1, <2>2
       DEF Proceeds, GivenBack, LostSight, Departs, FallsBack, IsFound
  <2> QED
    BY <1>2, <2>1, <2>3 DEF Keeps
<1>4. CASE Project(p)
  BY <1>1, <1>2, <1>4, ProjectShape
<1>5. CASE Drop(p)
  <2>1. c \in Keys \ {<<"projection-delete", p>>}
    BY <1>1 DEF CardKey
  <2>2. rows'[c] = rows[c]
    BY <1>5, <2>1, DropShape
  <2> QED
    BY <2>2
<1>6. ASSUME NEW d \in Dispatchers, held[d].key = CardKey(p), SendCreate(d)
      PROVE  rows' = rows
  BY <1>6, CreateShape
<1>7. ASSUME NEW d \in Dispatchers, held[d].key = CardKey(p), Apply(d) PROVE FALSE
  <2>1. rows'[c] = Finished(d)
    BY <1>1, <1>7, AppliedRows
  <2>2. Finished(d).status \in {"completed", "pending"}
    BY <1>7, FinishedRow
  <2> QED
    BY <1>2, <2>1, <2>2
<1> QED
  BY <1>3, <1>4, <1>5, <1>6, <1>7, StepAbout DEF About

\* Requests and answers that are known to be for the card remain so.
LEMMA StepStays ==
    ASSUME IInv, FateInv, ~EditLimit, ~LostAnswers, \A v, w \in Obsoleting : v = w,
           [Next]_vars, NEW p \in Projections, NEW q \in Request, RequestOK(p, q)
    PROVE  /\ RequestOK(p, q)'
           /\ \A a : ReplyOK(p, q, a) => ReplyOK(p, q, a)'
<1>1. q.version \in Nat
  BY DEF Request
<1> QED
  BY <1>1, StepLeaves, RequestStays, ReplyStays

\* What a dispatcher knows stays true while it does nothing.
LEMMA HandlingStays ==
    ASSUME IInv, FateInv, ~EditLimit, ~LostAnswers, \A v, w \in Obsoleting : v = w,
           [Next]_vars, NEW p \in Projections, NEW e \in Dispatchers, Handles(e, p),
           held'[e] = held[e]
    PROVE  Handling(e, p)'
<1>1. PICK q \in Request, a \in Messages \cup {None} :
         /\ q = held[e].request /\ a = held[e].answer /\ held[e] # None
         /\ held[e].key = CardKey(p)
  <2>1. held[e] # None /\ held[e].key = CardKey(p)
    BY DEF Handles
  <2>2. held[e].request \in Request /\ held[e].answer \in Messages \cup {None}
    BY <2>1, HeldItem
  <2> QED
    BY <2>1, <2>2
<1>2. Handling(e, p)
  BY DEF FateInv, TracedOK
<1>3. RequestOK(p, q)'
  BY <1>1, <1>2, StepStays DEF Handling
<1>4. held[e].phase \in {"delivered", "apply"} => ReplyOK(p, q, a)'
  BY <1>1, <1>2, StepStays DEF Handling
<1>5. Delivering(e)' => Delivering(e)
  BY <1>1, StillDelivering
<1>6. ASSUME Delivering(e), held[e].phase # "deliver", NEW m \in Messages, Arriving(p, m)'
      PROVE  Arriving(p, m)
  <2>1. ASSUME NEW d \in Dispatchers, held[d].key = CardKey(p), SendCreate(d) PROVE FALSE
    <3>1. held[d].phase = "deliver" /\ held[d].request.op = "create" /\ Dispatching(d, p)
      BY <2>1, CreateShape DEF CardKey, SendCreate, Sending
    <3>2. Card(p).status = "sending" /\ Card(p).lease = e
      BY <1>1, <1>6 DEF Delivering, Card
    <3> QED
      BY <1>6, <3>1, <3>2 DEF Dispatching
  <2> QED
    BY <1>6, <2>1, StepLeaves
<1>7. held[e].phase = "apply" /\ Applying(e)' => Card(p)'.inflight = q /\ Card(p)'.response = a
  BY <1>1, <1>2, StillApplying DEF Handling
<1>8. held[e].phase = "delivered" /\ Delivering(e)' => \A m \in Messages : Arriving(p, m)' => m = a
  BY <1>1, <1>2, <1>5, <1>6 DEF Handling
<1>9. held[e].phase \in {"unreached", "refused"} /\ Delivering(e)' =>
         \A m \in Messages : ~Arriving(p, m)'
  BY <1>2, <1>5, <1>6 DEF Handling
<1>10. held'[e].request = q /\ held'[e].answer = a /\ held'[e].phase = held[e].phase
  BY <1>1
<1> QED
  BY <1>3, <1>4, <1>7, <1>8, <1>9, <1>10 DEF Handling, RequestOK, ReplyOK

\* Nobody claims the delivery of a card whose create is on its way.
LEMMA NotTaken ==
    ASSUME IInv, NEW p \in Projections, Card(p).status \in {"sending", "ambiguous"},
           Card(p).inflight.op = "create", NEW d \in Dispatchers
    PROVE  ~ClaimDelivery(d, CardKey(p))
<1>1. CardKey(p) \in Keys /\ rows \in [Keys -> Row]
  BY CardTypes DEF IInv, TypeOK
<1>2. PICK s : /\ s = Swept(rows)[CardKey(p)]
               /\ s = Card(p) \/ Card(p).inflight.op \in Repeatable \/ s.status = "ambiguous"
  BY <1>1, SweptRows DEF Card
<1>3. s.status \notin Claimable
  BY <1>2 DEF Claimable, Repeatable
<1> QED
  BY <1>2, <1>3 DEF ClaimDelivery

\* An update that waits to be sent, however late, is not for the version of a create.
LEMMA UpdateStays ==
    ASSUME IInv, FateInv, ~EditLimit, ~LostAnswers, \A v, w \in Obsoleting : v = w,
           [Next]_vars, NEW p \in Projections, NEW q \in Request, RequestOK(p, q),
           Card(p).request.op = "create" => Card(p).request.version # q.version,
           Creating(p) => Card(p).inflight.version # q.version
    PROVE  /\ Card(p)'.request.op = "create" => Card(p)'.request.version # q.version
           /\ Creating(p)' => Card(p)'.inflight.version # q.version
<1>1. PICK c \in Keys, v \in Nat : c = CardKey(p) /\ v = projections[p].desired
  BY CardTypes
<1>2. /\ Card(p) = rows[c] /\ Card(p)' = rows'[c]
      /\ Creating(p) <=> rows[c].inflight # None /\ rows[c].inflight.op = "create"
      /\ Creating(p)' <=> rows'[c].inflight # None /\ rows'[c].inflight.op = "create"
  BY <1>1 DEF Creating, Flying, Card
<1> HIDE DEF Card, Creating
<1>3. CASE Undisturbed(p)
  <2>1. /\ rows'[c].request = rows[c].request
        /\ \/ rows'[c].inflight = rows[c].inflight \/ rows'[c].inflight = None
           \/ rows'[c].inflight = rows[c].request
    BY <1>1, <1>3 DEF Undisturbed, Proceeds, Keeps, GivenBack, LostSight, Departs, Returns,
                      FallsBack, IsFound
  <2> QED
    BY <1>2, <2>1
<1>4. CASE Project(p)
  <2>1. rows'[c].request.version = v + 1 /\ rows'[c].inflight = rows[c].inflight
    <3>1. \A m : Create(v + 1).version = v + 1 /\ Update(v + 1, m).version = v + 1
      BY DEF Create, Update
    <3> QED
      BY <1>1, <1>4, <3>1, ProjectShape
  <2>2. q.version \in Nat /\ q.version <= v
    BY <1>1 DEF RequestOK, Request
  <2> QED
    BY <1>2, <2>1, <2>2
<1>5. CASE Drop(p)
  <2>1. c \in Keys \ {<<"projection-delete", p>>}
    BY <1>1 DEF CardKey
  <2>2. rows'[c] = rows[c]
    BY <1>5, <2>1, DropShape
  <2> QED
    BY <1>2, <2>2
<1>6. ASSUME NEW d \in Dispatchers, held[d].key = CardKey(p), SendCreate(d)
      PROVE  rows' = rows
  BY <1>6, CreateShape
<1>7. ASSUME NEW d \in Dispatchers, held[d].key = CardKey(p), Apply(d)
      PROVE  /\ rows'[c].inflight = None
             /\ rows'[c].request.op = "create" => rows'[c].request = rows[c].request
  <2>1. rows'[c] = Finished(d) /\ held[d].key = c
    BY <1>1, <1>7, CardTypes, AppliedRows
  <2>2. Update(rows[c].request.version, held[d].answer).op = "update"
    BY DEF Update
  <2> QED
    BY <1>7, <2>1, <2>2, FinishedRow
<1> QED
  BY <1>2, <1>3, <1>4, <1>5, <1>6, <1>7, StepAbout DEF About

\* A create that waits to be sent stays in flight, and makes nothing meanwhile.
LEMMA CreateStays ==
    ASSUME IInv, FateInv, ~EditLimit, ~LostAnswers, \A v, w \in Obsoleting : v = w,
           [Next]_vars, NEW p \in Projections, NEW e \in Dispatchers, Handles(e, p),
           held'[e] = held[e], held[e].phase = "deliver", held[e].request.op = "create"
    PROVE  /\ rows'[CardKey(p)].status \in {"sending", "ambiguous"}
           /\ rows'[CardKey(p)].inflight = held[e].request
           /\ rows'[CardKey(p)].status = "sending" => rows'[CardKey(p)].lease = e
           /\ \A m \in Messages : ~(Mine(p, m)' /\ remote'[m].version = held[e].request.version)
<1>1. PICK c \in Keys, q \in Request :
         /\ c = CardKey(p) /\ q = held[e].request /\ held[e] # None
         /\ held[e].key = c
  <2>1. CardKey(p) \in Keys /\ held[e] # None /\ held[e].key = CardKey(p)
    BY CardTypes DEF Handles
  <2> QED
    BY <2>1, HeldItem
<1>2. Dispatching(e, p) /\ TracedOK(p) /\ OwnersOK /\ q # None
  BY RequestsAssumption DEF FateInv, TracedOK
<1>3. /\ rows[c].status \in {"sending", "ambiguous"} /\ rows[c].inflight = q
      /\ rows[c].status = "sending" => rows[c].lease = e
      /\ Born(p, q.version) = {} /\ q.op = "create"
  BY <1>1, <1>2 DEF Dispatching, Card
<1>4. Creating(p) /\ Card(p) = rows[c] /\ \A m \in Messages : ~Arriving(p, m)
  BY <1>1, <1>2, <1>3 DEF Creating, Flying, Card, Arriving
<1>5. CASE Undisturbed(p)
  <2>1. Proceeds(c)
    BY <1>1, <1>5 DEF Undisturbed
  <2>2. ~GivenBack(c) /\ ~Departs(c)
    BY <1>3 DEF GivenBack, Departs, Repeatable, Claimable
  <2>3. ASSUME NEW d \in Dispatchers, held[d].key = c, Delivering(d) PROVE d = e
    BY <1>3, <2>3 DEF Delivering
  <2>4. ~Returns(c) /\ ~FallsBack(c)
    <3>1. ASSUME NEW d \in Dispatchers, held[d].key = c, Delivering(d),
                 Answered(d, {"delivered"}) \/ Answered(d, {"unreached", "refused"})
          PROVE  FALSE
      <4>1. d = e
        BY <2>3, <3>1
      <4> QED
        BY <3>1, <4>1 DEF Answered
    <3> QED
      BY <3>1 DEF Returns, FallsBack, SeenToFail, RecordDelivery
  <2>5. ~IsFound(c)
    <3>1. ASSUME IsFound(c) PROVE FALSE
      <4>1. rows'[c].response \in Messages
        BY <3>1 DEF IsFound
      <4> QED
        BY <1>1, <1>2, <1>4, <3>1, <4>1, FoundArrives
    <3> QED
      BY <3>1
  <2>6. Keeps(c) \/ LostSight(c)
    BY <2>1, <2>2, <2>4, <2>5 DEF Proceeds
  <2>7. \A m \in Messages : ~(Mine(p, m)' /\ remote'[m].version = q.version)
    BY <1>3, <1>4, <1>5, UndisturbedBorn
  <2> QED
    BY <1>1, <1>3, <2>6, <2>7 DEF Keeps, LostSight
<1>6. CASE Project(p)
  <2>1. /\ remote' = remote /\ rows'[c].status = rows[c].status
        /\ rows'[c].inflight = rows[c].inflight /\ rows'[c].lease = rows[c].lease
    <3>1. rows[c].status \in InFlight
      BY <1>3 DEF InFlight
    <3> QED
      BY <1>1, <1>6, <3>1, ProjectShape
  <2> QED
    BY <1>1, <1>3, <2>1 DEF Born, Mine
<1>7. CASE Drop(p)
  <2>1. c \in Keys \ {<<"projection-delete", p>>}
    BY <1>1 DEF CardKey
  <2>2. rows'[c] = rows[c] /\ remote' = remote
    BY <1>7, <2>1, DropShape
  <2> QED
    BY <1>1, <1>3, <2>2 DEF Born, Mine
<1>8. ASSUME NEW d \in Dispatchers, held[d].key = CardKey(p), SendCreate(d) PROVE FALSE
  <2>1. PICK m \in Messages : Outcome(d, "delivered", m)
    BY <1>8, CreateShape
  <2>2. held[d] # None /\ held[d].phase = "deliver" /\ held[d].request.op = "create"
    BY <1>8 DEF SendCreate, Sending
  <2>3. d = e
    BY <1>2, <1>8, <2>2 DEF Dispatching, Handles
  <2>4. held'[d].phase = "delivered"
    BY <2>1, <2>2, OutcomeColumns
  <2> QED
    BY <2>2, <2>3, <2>4
<1>9. ASSUME NEW d \in Dispatchers, held[d].key = CardKey(p), Apply(d) PROVE FALSE
  BY <1>1, <1>3, <1>9, AppliedAnswer
<1> QED
  BY <1>5, <1>6, <1>7, <1>8, <1>9, StepAbout DEF About

\* What waits to be sent waits on.
LEMMA DispatchingStays ==
    ASSUME IInv, FateInv, ~EditLimit, ~LostAnswers, \A v, w \in Obsoleting : v = w,
           [Next]_vars, NEW p \in Projections, NEW e \in Dispatchers, Handles(e, p),
           held'[e] = held[e], held[e].phase = "deliver"
    PROVE  Dispatching(e, p)'
<1>1. PICK q \in Request : /\ q = held[e].request /\ held[e] # None
                           /\ held[e].key = CardKey(p)
  BY HeldItem DEF Handles
<1>2. Dispatching(e, p) /\ RequestOK(p, q)
  BY <1>1 DEF FateInv, TracedOK, Handling
<1>3. q.op = "update" =>
         /\ Card(p)'.request.op = "create" => Card(p)'.request.version # q.version
         /\ Creating(p)' => Card(p)'.inflight.version # q.version
  BY <1>1, <1>2, UpdateStays DEF Dispatching
<1>4. ASSUME q.op = "create"
      PROVE  /\ Card(p)'.status \in {"sending", "ambiguous"} /\ Card(p)'.inflight = q
             /\ Card(p)'.status = "sending" => Card(p)'.lease = e
             /\ {m \in Messages : Mine(p, m)' /\ remote'[m].version = q.version} = {}
  BY <1>1, <1>4, CreateStays DEF Card
<1>5. ASSUME q.op = "create", NEW d \in Dispatchers, held'[d] # None,
             held'[d].key = CardKey(p), held'[d].phase = "deliver",
             held'[d].request.op = "create"
      PROVE  d = e
  <2>1. CASE held'[d] = held[d]
    BY <1>1, <1>2, <1>5, <2>1 DEF Dispatching, Handles
  <2>2. CASE held'[d] # held[d]
    <3>1. ClaimDelivery(d, CardKey(p))
      BY <1>5, <2>2, HeldChanges DEF Sends, Records, Takes, TakesAnswer
    <3> QED
      BY <1>1, <1>2, <1>5, <3>1, NotTaken DEF Dispatching
  <2> QED
    BY <2>1, <2>2
<1>6. held'[e].request = q
  BY <1>1
<1> QED
  BY <1>3, <1>4, <1>5, <1>6 DEF Dispatching, Born, Handles

\* Nothing arrives while the dispatcher that has the lease has not sent.
LEMMA UnsentEmpty ==
    ASSUME IInv, FateInv, NEW p \in Projections, NEW e \in Dispatchers, Handles(e, p),
           held[e].phase = "deliver", Delivering(e)
    PROVE  \A m \in Messages : ~Arriving(p, m)
<1>1. Dispatching(e, p) /\ RequestOK(p, held[e].request)
  BY DEF FateInv, TracedOK, Handling
<1>2. Card(p).inflight = held[e].request
  BY DEF IInv, HeldOK, Handles, Card
<1>3. CASE held[e].request.op = "create"
  BY <1>1, <1>2, <1>3 DEF Dispatching, Arriving
<1>4. CASE held[e].request.op = "update"
  BY <1>2, <1>4 DEF Arriving, Creating
<1> QED
  BY <1>1, <1>3, <1>4 DEF RequestOK

\* The answer to what was sent is for the card, and is all that arrives.
LEMMA SentAnswer ==
    ASSUME IInv, FateInv, ~EditLimit, ~LostAnswers, NEW p \in Projections,
           NEW e \in Dispatchers, Handles(e, p), Send(e), held[e].phase = "deliver"
    PROVE  \E a \in Messages \cup {None} :
              /\ held'[e].answer = a
              /\ held'[e].phase = "delivered" =>
                    /\ IF held[e].request.op = "create" THEN a \in Messages /\ Mine(p, a)'
                       ELSE a = None
                    /\ Delivering(e) => \A m \in Messages : Arriving(p, m)' => m = a
              /\ held'[e].phase # "delivered" /\ Delivering(e) =>
                    \A m \in Messages : ~Arriving(p, m)'
<1>1. /\ held[e] # None /\ held[e].key = CardKey(p) /\ IsProjection(held[e].key)
      /\ held[e].request \in Request
  BY SentFor, CardTypes DEF Handles
<1>2. Delivering(e) => \A m \in Messages : ~Arriving(p, m)
  BY UnsentEmpty
<1>3. CASE SendFails(e)
  <2>1. PICK phase \in {"unreached", "refused"} : Outcome(e, phase, None)
    BY <1>3 DEF SendFails
  <2>2. held'[e].phase = phase /\ held'[e].answer = None
    BY <1>1, <2>1, OutcomeColumns
  <2>3. \A m \in Messages : Arriving(p, m)' <=> Arriving(p, m)
    BY <1>3, SameArriving DEF SendFails
  <2> QED
    BY <1>2, <2>2, <2>3
<1>4. CASE SendUpdate(e)
  <2>1. held[e].request.op = "update"
    BY <1>4 DEF SendUpdate, Sending
  <2>2. Outcome(e, "delivered", None) /\ rows' = rows
    BY <1>4, UpdateShape
  <2>3. held'[e].phase = "delivered" /\ held'[e].answer = None
    BY <1>1, <2>2, OutcomeColumns
  <2>4. ASSUME Delivering(e), NEW m \in Messages PROVE ~Arriving(p, m)'
    <3>1. Card(p).inflight = held[e].request
      BY <1>1, <2>4 DEF IInv, HeldOK, Card
    <3> QED
      BY <2>1, <2>2, <3>1 DEF Arriving, Creating, Card
  <2> QED
    BY <2>1, <2>3, <2>4
<1>5. CASE SendCreate(e)
  <2>1. PICK q \in Projections, m \in Messages :
              /\ held[e].key = CardKey(q) /\ held[e].request.op = "create"
              /\ Dispatching(e, q) /\ Outcome(e, "delivered", m) /\ rows' = rows
              /\ Mine(q, m)'
              /\ \/ remote' = remote
                 \/ /\ remote[m].state = "absent"
                    /\ remote'[m].version = held[e].request.version
                    /\ \A n \in Messages \ {m} : remote'[n] = remote[n]
    BY <1>5, CreateShape
  <2>2. q = p /\ held'[e].phase = "delivered" /\ held'[e].answer = m
    BY <1>1, <2>1, OutcomeColumns DEF CardKey
  <2>3. ASSUME Delivering(e), NEW n \in Messages, Arriving(p, n)' PROVE n = m
    <3>1. CASE remote' = remote
      <4>1. Arriving(p, n)
        BY <2>1, <2>3, <3>1, SameArriving
      <4> QED
        BY <1>2, <2>3, <4>1
    <3>2. CASE remote' # remote
      BY <1>1, <2>1, <2>2, <2>3, <3>2, MadeArrives
    <3> QED
      BY <3>1, <3>2
  <2> QED
    BY <2>1, <2>2, <2>3
<1>6. ~SendDelete(e)
  BY <1>1, DeleteShape
<1>7. ~SendReplacement(e)
  BY DEF SendReplacement
<1> QED
  BY <1>3, <1>4, <1>5, <1>6, <1>7 DEF Send

\* What a dispatcher knows when it has sent.
LEMMA SentHandles ==
    ASSUME IInv, FateInv, ~EditLimit, ~LostAnswers, \A v, w \in Obsoleting : v = w,
           [Next]_vars, NEW p \in Projections, NEW e \in Dispatchers, Sends(e), Handles(e, p),
           held'[e] # None
    PROVE  Handling(e, p)'
<1>1. PICK q \in Request : q = held[e].request /\ RequestOK(p, q) /\ held[e] # None
  BY SentFor DEF Handles, FateInv, TracedOK, Handling
<1>2. PICK a \in Messages \cup {None} :
         /\ held'[e].answer = a
         /\ held'[e].phase = "delivered" =>
               /\ IF q.op = "create" THEN a \in Messages /\ Mine(p, a)' ELSE a = None
               /\ Delivering(e) => \A m \in Messages : Arriving(p, m)' => m = a
         /\ held'[e].phase # "delivered" /\ Delivering(e) =>
               \A m \in Messages : ~Arriving(p, m)'
  BY <1>1, SentAnswer DEF Sends
<1>3. RequestOK(p, q)'
  BY <1>1, StepStays
<1>4. held'[e].request = q /\ held'[e].phase \in {"delivered", "unreached", "refused"}
  BY <1>1 DEF Sends
<1>5. Delivering(e)' => Delivering(e)
  BY <1>1, StillDelivering
<1>6. held'[e].phase = "delivered" => ReplyOK(p, q, a)'
  BY <1>2 DEF ReplyOK
<1> QED
  BY <1>2, <1>3, <1>4, <1>5, <1>6 DEF Handling, RequestOK, ReplyOK

\* What it knows when the answer is recorded.
LEMMA RecordedHandles ==
    ASSUME IInv, FateInv, ~EditLimit, ~LostAnswers, \A v, w \in Obsoleting : v = w,
           [Next]_vars, NEW p \in Projections, NEW e \in Dispatchers, Records(e), Handles(e, p)
    PROVE  Handling(e, p)'
<1>1. PICK c \in Keys, q \in Request, a \in Messages \cup {None} :
         /\ c = CardKey(p) /\ q = held[e].request /\ a = held[e].answer /\ held[e] # None
         /\ held[e].key = c
  <2>1. CardKey(p) \in Keys /\ held[e] # None /\ held[e].key = CardKey(p)
    BY CardTypes DEF Handles
  <2> QED
    BY <2>1, SentFor
<1>2. Handling(e, p) /\ held[e].phase = "delivered" /\ Delivering(e)
  BY DEF FateInv, TracedOK, Records, RecordDelivery, Answered
<1>3. RequestOK(p, q)' /\ ReplyOK(p, q, a)'
  BY <1>1, <1>2, StepStays DEF Handling
<1>4. rows'[c].response = a /\ rows'[c].inflight = q
  <2>1. rows'[c].response = a /\ rows'[c].inflight = rows[c].inflight
    BY <1>1, RecordDeliveryKept DEF Records
  <2>2. rows[c].inflight = q
    BY <1>1, <1>2 DEF IInv, HeldOK
  <2> QED
    BY <2>1, <2>2
<1>5. held'[e].request = q /\ held'[e].answer = a /\ held'[e].phase = "apply"
  BY <1>1 DEF Records
<1> QED
  BY <1>1, <1>3, <1>4, <1>5 DEF Handling, RequestOK, ReplyOK, Card

\* The dispatcher that claims a delivery has its lease.
LEMMA TakenLease ==
    ASSUME IInv, NEW d \in Dispatchers, NEW k \in Keys, ClaimDelivery(d, k)
    PROVE  Departs(k) /\ rows'[k].lease = d
<1>1. /\ rows \in [Keys -> Row] /\ Swept(rows) \in [Keys -> Row] /\ held[d] = None
  BY SweptRows DEF IInv, TypeOK, Swept, ClaimDelivery
<1>2. PICK r \in Row : r = Swept(rows)[k] /\ r.status \in Claimable
  BY <1>1 DEF ClaimDelivery
<1>3. PICK s : s = [r EXCEPT !.status = "sending", !.attempts = Attempted(r),
                             !.inflight = r.request, !.sent = r.revision, !.response = None,
                             !.lease = d, !.expired = FALSE]
  OBVIOUS
<1>4. rows'[k] = s
  BY <1>1, <1>2, <1>3 DEF ClaimDelivery
<1>5. s.status = "sending" /\ s.inflight = r.request /\ s.lease = d
  BY <1>3, RowColumns
<1>6. /\ r.request = rows[k].request
      /\ \/ rows[k].status \in Claimable
         \/ rows[k].status = "sending" /\ rows[k].inflight.op \in Repeatable
  BY <1>1, <1>2, SweptRows DEF Claimable
<1> QED
  BY <1>1, <1>4, <1>5, <1>6 DEF Departs, NewLease

\* What a dispatcher knows when it takes a delivery of the card.
LEMMA TakenHandles ==
    ASSUME IInv, FateInv, ~EditLimit, ~LostAnswers, \A v, w \in Obsoleting : v = w,
           [Next]_vars, NEW p \in Projections, NEW e \in Dispatchers, Takes(e, CardKey(p))
    PROVE  Handling(e, p)' /\ Dispatching(e, p)'
<1>1. PICK c \in Keys, q \in Request :
         /\ c = CardKey(p) /\ IsProjection(c) /\ q = rows[c].request
         /\ ClaimDelivery(e, c) /\ held'[e].phase = "deliver"
         /\ held'[e].key = c /\ held'[e].request = q
  BY CardTypes DEF Takes, Card
<1>2. /\ Departs(c) /\ rows'[c].lease = e /\ rows'[c].status = "sending"
      /\ rows'[c].inflight = q /\ rows'[c].request = q
  <2>1. rows'[c].request = rows[c].request
    BY <1>1, ClaimDeliveryKept DEF RowKept
  <2> QED
    BY <1>1, <2>1, ClaimDeliveryKept, TakenLease
<1>3. ~Creating(p) /\ Card(p).status \notin {"absent", "completed", "ambiguous"}
  BY <1>1, <1>2, DepartsIdle
<1>4. TracedOK(p) /\ RequestOK(p, q) /\ remote' = remote
  <2>1. TracedOK(p) /\ RequestOK(p, q)
    BY <1>1, <1>3 DEF FateInv, TracedOK, WantedOK, Card
  <2> QED
    BY <1>1, <2>1 DEF ClaimDelivery
<1>5. RequestOK(p, q)'
  BY <1>4, StepStays
<1>6. Handling(e, p)'
  BY <1>1, <1>5 DEF Handling, RequestOK
<1>7. q.op = "create" => Born(p, q.version) = {}
  <2>1. q.op = "create" => CreateWaits(p)
    BY <1>1, <1>2, <1>3, RequestsAssumption DEF CreateWaits, Creating, Flying, Card
  <2> QED
    BY <1>1, <1>4, <2>1 DEF TracedOK, CreateOK, Card
<1>8. ASSUME q.op = "create", NEW d \in Dispatchers, held'[d] # None, held'[d].key = c,
             held'[d].phase = "deliver", held'[d].request.op = "create"
      PROVE  d = e
  <2>1. CASE held'[d] = held[d]
    <3>1. Dispatching(d, p)
      BY <1>1, <1>4, <1>8, <2>1 DEF TracedOK, Handles
    <3> QED
      BY <1>1, <1>8, <2>1, <3>1, NotTaken DEF Dispatching
  <2>2. CASE held'[d] # held[d]
    <3>1. ClaimDelivery(d, c)
      BY <1>8, <2>2, HeldChanges DEF Sends, Records, Takes, TakesAnswer
    <3> QED
      BY <1>1, <1>2, <3>1, TakenLease
  <2> QED
    BY <2>1, <2>2
<1>9. Dispatching(e, p)'
  <2>1. {m \in Messages : Mine(p, m)' /\ remote'[m].version = q.version}
        = {m \in Messages : Mine(p, m) /\ remote[m].version = q.version}
    BY <1>4 DEF Mine
  <2>2. Card(p)' = rows'[c] /\ held'[e].request = q
    BY <1>1 DEF Card
  <2>3. q.op = "create" => {m \in Messages : Mine(p, m)' /\ remote'[m].version = q.version} = {}
    BY <1>7, <2>1 DEF Born
  <2>4. q.op = "update" => /\ Card(p)'.request.op # "create"
                           /\ ~Creating(p)'
    BY <1>2, <2>2 DEF Creating
  <2>5. q.op = "create" =>
          /\ Card(p)'.status \in {"sending", "ambiguous"} /\ Card(p)'.inflight = q
          /\ Card(p)'.status = "sending" => Card(p)'.lease = e
    BY <1>2, <2>2
  <2> HIDE DEF Card, Creating
  <2> QED
    BY <1>1, <1>8, <2>2, <2>3, <2>4, <2>5 DEF Dispatching, Born, Handles
<1> QED
  BY <1>6, <1>9

\* What it knows when it takes an answer of the card.
LEMMA TakenAnswerHandles ==
    ASSUME IInv, FateInv, ~EditLimit, ~LostAnswers, \A v, w \in Obsoleting : v = w,
           [Next]_vars, NEW p \in Projections, NEW e \in Dispatchers,
           TakesAnswer(e, CardKey(p))
    PROVE  Handling(e, p)'
<1>1. PICK c \in Keys : c = CardKey(p) /\ IsProjection(c) /\ c[2] = p
  BY CardTypes
<1>2. /\ rows[c].status \in {"applying", "ambiguous"}
      /\ rows'[c].inflight = rows[c].inflight
      /\ rows[c].status = "applying" => rows'[c].response = rows[c].response
      /\ rows[c].status = "ambiguous" =>
            /\ rows'[c].response \in Messages
            /\ remote[rows'[c].response].nonce = CreateNonce(p)
            /\ remote[rows'[c].response].version = rows[c].inflight.version
  <2>1. CASE ClaimApplication(e, c)
    BY <2>1, ClaimApplicationKept
  <2>2. CASE Resolve(e, c)
    <3>1. rows[c].status = "ambiguous"
      BY <2>2 DEF Resolve
    <3> QED
      BY <1>1, <2>2, <3>1, ResolveKept
  <2> QED
    BY <1>1, <2>1, <2>2 DEF TakesAnswer
<1>3. PICK q, a : q \in Request /\ q = rows[c].inflight /\ a = rows'[c].response
  BY <1>1, <1>2, CardTypes DEF Card, Flying, InFlight
<1>4. TracedOK(p) /\ OwnersOK /\ q # None
  BY <1>3, RequestsAssumption DEF FateInv
<1>5. RequestOK(p, q)
  BY <1>1, <1>3, <1>4 DEF TracedOK, WantedOK, Flying, Card
<1>6. ReplyOK(p, q, a)
  <2>1. CASE rows[c].status = "applying"
    BY <1>1, <1>2, <1>3, <1>4, <2>1 DEF TracedOK, ResponseOK, Card
  <2>2. CASE rows[c].status = "ambiguous"
    <3>1. q.op = "create"
      BY <1>1, <1>3, <1>4, <2>2 DEF TracedOK, WantedOK, Creating, Card
    <3>2. /\ a \in Messages /\ remote[a].version = q.version
          /\ remote[a].nonce = CreateNonce(p) /\ 0 < q.version /\ q.version \in Nat
      BY <1>2, <1>3, <1>5, <2>2 DEF RequestOK, Request
    <3> QED
      BY <1>4, <3>1, <3>2 DEF ReplyOK, Mine, OwnersOK, CreateNonce
  <2> QED
    BY <1>2, <2>1, <2>2
<1>7. RequestOK(p, q)' /\ ReplyOK(p, q, a)'
  BY <1>3, <1>5, <1>6, StepStays
<1>8. held'[e].request = q /\ held'[e].answer = a /\ held'[e].phase = "apply"
  BY <1>1, <1>3 DEF TakesAnswer
<1> QED
  BY <1>1, <1>2, <1>3, <1>7, <1>8 DEF Handling, RequestOK, ReplyOK, Card

\* Every step leaves the card and the work on it traced.
LEMMA StepTracedOK ==
    ASSUME IInv, FateInv, ~EditLimit, ~LostAnswers, \A v, w \in Obsoleting : v = w,
           [Next]_vars, NEW p \in Projections
    PROVE  TracedOK(p)'
<1>1. CardTraced(p)'
  BY StepTraced
<1>2. ASSUME NEW e \in Dispatchers, held'[e] # None, held'[e].key = CardKey(p)
      PROVE  Handling(e, p)' /\ (held'[e].phase = "deliver" => Dispatching(e, p)')
  <2>1. CASE held'[e] = held[e]
    BY <1>2, <2>1, HandlingStays, DispatchingStays DEF Handles
  <2>2. CASE held'[e] # held[e]
    <3>1. CASE Sends(e)
      BY <1>2, <3>1, SentHandles DEF Sends, Handles
    <3>2. CASE Records(e)
      <4>1. held[e] # None
        BY <3>2 DEF Records, RecordDelivery, Answered
      <4> QED
        BY <1>2, <3>2, <4>1, RecordedHandles DEF Records, Handles
    <3>3. CASE \E k \in Keys : Takes(e, k) \/ TakesAnswer(e, k)
      <4>1. Takes(e, CardKey(p)) \/ TakesAnswer(e, CardKey(p))
        BY <1>2, <3>3 DEF Takes, TakesAnswer
      <4> QED
        BY <4>1, TakenHandles, TakenAnswerHandles DEF TakesAnswer
    <3> QED
      BY <1>2, <2>2, <3>1, <3>2, <3>3, HeldChanges
  <2> QED
    BY <2>1, <2>2
<1> QED
  BY <1>1, <1>2 DEF TracedOK, CardTraced, Handles

-----------------------------------------------------------------------------
(* The messages and the rows that delete them. *)

\* A message that was made stays made, one that was deleted stays deleted, each is
\* made for a card, and only a message that is deleted was accepted for deletion.
LEMMA StepMessages ==
    ASSUME IInv, FateInv, ~EditLimit, ~LostAnswers, [Next]_vars
    PROVE  /\ \A m \in Messages : remote[m].state # "absent" => remote'[m].state # "absent"
           /\ OwnersOK'
           /\ \A k \in Keys : \A q \in accepted'[k] : q.op = "delete" =>
                 q.target \in Messages /\ remote'[q.target].state = "deleted"
<1> DEFINE Kept(m) == /\ remote[m].state # "absent" => remote'[m].state # "absent"
                      /\ remote[m].state = "deleted" => remote'[m].state = "deleted"
           Owned(m) == /\ remote'[m].state # "absent" => \E p \in Projections : Mine(p, m)'
                       /\ remote'[m].state = "absent" => remote'[m].version = 0
           Done(q) == q.op = "delete" =>
                         q.target \in Messages /\ remote'[q.target].state = "deleted"
<1>1. /\ OwnersOK
      /\ \A k \in Keys : \A q \in accepted[k] : q.op = "delete" =>
            q.target \in Messages /\ remote[q.target].state = "deleted"
  BY DEF FateInv, DeletionsOK
<1>2. ASSUME remote' = remote, accepted' = accepted
      PROVE  /\ \A m \in Messages : Kept(m) /\ Owned(m)
             /\ \A k \in Keys : \A q \in accepted'[k] : Done(q)
  BY <1>1, <1>2 DEF OwnersOK, Mine
<1>3. ASSUME NEW d \in Dispatchers, held[d] # None, Done(held[d].request),
             accepted' = [accepted EXCEPT ![held[d].key] = @ \cup {held[d].request}],
             \A m \in Messages : Kept(m)
      PROVE  \A k \in Keys : \A q \in accepted'[k] : Done(q)
  <2>1. held[d].key \in Keys /\ accepted \in [Keys -> SUBSET Request]
    BY <1>3, HeldItem DEF IInv, RemoteOK
  <2>2. \A k \in Keys : \A q \in accepted'[k] : q \in accepted[k] \/ q = held[d].request
    BY <1>3, <2>1
  <2>3. \A k \in Keys : \A q \in accepted[k] : Done(q)
    BY <1>1, <1>3
  <2> QED
    BY <1>3, <2>2, <2>3
<1>4. ASSUME NEW d \in Dispatchers, SendDelete(d)
      PROVE  /\ \A m \in Messages : Kept(m) /\ Owned(m)
             /\ \A k \in Keys : \A q \in accepted'[k] : Done(q)
  <2>1. PICK t \in Messages :
              /\ t = held[d].request.target /\ remote[t].state # "absent"
              /\ remote'[t].state = "deleted" /\ remote'[t].version = remote[t].version
              /\ remote'[t].nonce = remote[t].nonce
              /\ \A n \in Messages \ {t} : remote'[n] = remote[n]
    BY <1>4, DeleteShape DEF Deletion
  <2>2. \A m \in Messages : Kept(m) /\ Owned(m)
    BY <1>1, <2>1 DEF OwnersOK, Mine
  <2>3. held[d] # None
    BY <1>4 DEF SendDelete, Sending
  <2> QED
    BY <1>3, <1>4, <2>1, <2>2, <2>3, DeleteShape
<1>5. ASSUME NEW d \in Dispatchers, SendUpdate(d)
      PROVE  /\ \A m \in Messages : Kept(m) /\ Owned(m)
             /\ \A k \in Keys : \A q \in accepted'[k] : Done(q)
  <2>1. PICK p \in Projections, t \in Messages :
              /\ Mine(p, t)
              /\ remote'[t].state = remote[t].state /\ remote'[t].nonce = remote[t].nonce
              /\ \A n \in Messages \ {t} : remote'[n] = remote[n]
    BY <1>5, UpdateShape
  <2>2. \A m \in Messages : Kept(m) /\ Owned(m)
    BY <1>1, <2>1 DEF OwnersOK, Mine
  <2>3. held[d] # None /\ held[d].request.op = "update"
    BY <1>5 DEF SendUpdate, Sending
  <2>4. Done(held[d].request)
    BY <2>3
  <2> QED
    BY <1>3, <1>5, <2>2, <2>3, <2>4, UpdateShape
<1>6. ASSUME NEW d \in Dispatchers, SendCreate(d)
      PROVE  /\ \A m \in Messages : Kept(m) /\ Owned(m)
             /\ \A k \in Keys : \A q \in accepted'[k] : Done(q)
  <2>1. PICK p \in Projections, m \in Messages :
              /\ held[d].request.op = "create" /\ Mine(p, m)'
              /\ accepted' = [accepted EXCEPT ![held[d].key] = @ \cup {held[d].request}]
              /\ \/ remote' = remote
                 \/ /\ remote[m].state = "absent" /\ remote'[m].state = "shown"
                    /\ \A n \in Messages \ {m} : remote'[n] = remote[n]
    BY <1>6, CreateShape
  <2>2. \A n \in Messages : Kept(n) /\ Owned(n)
    BY <1>1, <2>1 DEF OwnersOK, Mine
  <2>3. held[d] # None /\ held[d].request.op = "create"
    BY <1>6 DEF SendCreate, Sending
  <2>4. Done(held[d].request)
    BY <2>3
  <2> HIDE DEF Kept, Owned, Done
  <2>5. \A k \in Keys : \A q \in accepted'[k] : Done(q)
    BY <1>3, <2>1, <2>2, <2>3, <2>4
  <2> QED
    BY <2>2, <2>5
<1>7. \/ remote' = remote /\ accepted' = accepted
      \/ \E d \in Dispatchers : SendDelete(d) \/ SendUpdate(d) \/ SendCreate(d)
  <2>1. CASE Want
    BY <2>1 DEF Want, Project, Drop
  <2>2. CASE \E d \in Dispatchers, k \in Keys : Claim(d, k) \/ Resolve(d, k)
    BY <2>2 DEF Claim, ClaimDelivery, ClaimApplication, Resolve
  <2>3. CASE \E d \in Dispatchers : Record(d)
    BY <2>3 DEF Record, RecordDelivery, RetryDelivery, FailDelivery, LoseLease
  <2>4. CASE \E d \in Dispatchers : Send(d)
    BY <2>4 DEF Send, SendReplacement, SendFails
  <2>5. CASE \E d \in Dispatchers : ClaimNothing(d) \/ Apply(d) \/ ApplyFails(d) \/ Crash(d)
    BY <2>5 DEF ClaimNothing, Apply, ApplyFails, Crash
  <2>6. CASE \E k \in Keys : LeaseExpires(k)
    BY <2>6 DEF LeaseExpires
  <2>7. CASE UNCHANGED vars
    BY <2>7 DEF vars
  <2> QED
    BY <2>1, <2>2, <2>3, <2>4, <2>5, <2>6, <2>7 DEF Next
<1>8. /\ \A m \in Messages : Kept(m) /\ Owned(m)
      /\ \A k \in Keys : \A q \in accepted'[k] : Done(q)
  BY <1>2, <1>4, <1>5, <1>6, <1>7
<1> QED
  BY <1>8 DEF OwnersOK

\* A row that deletes keeps its request, which may go on its way, or deletes a
\* message of a card from now on.
DeletionGoes(k) ==
    /\ rows'[k].request = rows[k].request
    /\ rows'[k].status = "absent" <=> rows[k].status = "absent"
    /\ \/ Flying(rows'[k]) => Flying(rows[k]) /\ rows'[k].inflight = rows[k].inflight
       \/ rows[k].status # "absent" /\ rows'[k].inflight = rows[k].request

DeletionComes(k) ==
    \E m \in Messages :
        /\ remote[m].state # "absent" /\ DeletionAdded(k, m)
        /\ k[1] # "projection-delete" => m = k[2]

LEMMA StepDeletion ==
    ASSUME IInv, FateInv, ~EditLimit, ~LostAnswers, \A v, w \in Obsoleting : v = w,
           [Next]_vars, NEW k \in Keys, ~IsProjection(k)
    PROVE  DeletionGoes(k) \/ DeletionComes(k)
<1>1. ASSUME rows'[k] = rows[k] PROVE DeletionGoes(k)
  BY <1>1 DEF DeletionGoes
<1>2. ASSUME NEW p \in Projections, Project(p) PROVE DeletionGoes(k)
  <2>1. k \in Keys \ {CardKey(p)}
    BY CardTypes
  <2> QED
    BY <1>1, <1>2, <2>1, ProjectShape
<1>3. ASSUME NEW p \in Projections, Drop(p) PROVE DeletionGoes(k) \/ DeletionComes(k)
  <2>1. CASE k # <<"projection-delete", p>> \/ projections[p].message = None
    <3>1. rows'[k] = rows[k]
      BY <1>3, <2>1, DropShape
    <3> QED
      BY <1>1, <3>1
  <2>2. CASE k = <<"projection-delete", p>> /\ projections[p].message # None
    <3>1. PICK m \in Messages :
             /\ m = projections[p].message /\ rows'[k].request = Delete(m)
             /\ rows'[k].status = "pending" /\ rows'[k].inflight = None
      BY <1>3, <2>2, DropShape
    <3>2. Mine(p, m)
      BY <3>1 DEF FateInv, TracedOK, WantedOK
    <3> QED
      BY <2>2, <3>1, <3>2 DEF DeletionComes, DeletionAdded, Flying, Mine
  <2> QED
    BY <2>1, <2>2
<1>4. CASE Works
  <2>1. RowKept(k)
    BY <1>4, WorksKept
  <2> QED
    BY <2>1 DEF RowKept, DeletionGoes, Flying
<1>5. ASSUME NEW d \in Dispatchers, Send(d) PROVE rows' = rows
  BY <1>5 DEF Send, SendCreate, SendUpdate, SendReplacement, SendDelete, SendFails, Post,
              CarriedOut
<1>6. ASSUME NEW d \in Dispatchers, Apply(d) PROVE DeletionGoes(k) \/ DeletionComes(k)
  <2>1. ASSUME DeletionKept(k) PROVE DeletionGoes(k)
    BY <2>1 DEF DeletionKept, DeletionGoes
  <2>2. ASSUME Made(d), Gone(d), k = <<"orphan-delete", held[d].answer>> PROVE DeletionComes(k)
    <3>1. PICK p \in Projections :
             /\ ReplyOK(p, held[d].request, held[d].answer) /\ held[d].request.op = "create"
      BY <1>6, <2>2, AppliedAnswer DEF Made
    <3>2. held[d].answer \in Messages /\ remote[held[d].answer].state # "absent"
      BY <3>1 DEF ReplyOK, Mine
    <3>3. DeletionAdded(k, held[d].answer)
      BY <1>6, <2>2, AppliedRows
    <3> QED
      BY <2>2, <3>2, <3>3 DEF DeletionComes
  <2> QED
    BY <1>6, <2>1, <2>2, AppliedRows
<1> QED
  BY <1>1, <1>2, <1>3, <1>4, <1>5, <1>6 DEF Next, Want, Works, vars

\* Every step leaves the other rows, and what dispatchers hold of them, deleting
\* messages that were made.
LEMMA StepDeletionsOK ==
    ASSUME IInv, FateInv, ~EditLimit, ~LostAnswers, \A v, w \in Obsoleting : v = w,
           [Next]_vars
    PROVE  DeletionsOK'
<1> DEFINE Remains(q) == /\ q.op = "delete" /\ q.target \in Messages
                         /\ remote'[q.target].state # "absent"
<1>1. DeletionsOK /\ \A q : Deletion(q) => Remains(q)
  BY StepMessages DEF FateInv, Deletion
<1> HIDE DEF Remains
<1>2. ASSUME NEW k \in Keys, ~IsProjection(k)
      PROVE  /\ rows'[k].status # "absent" => Remains(rows'[k].request)
             /\ rows'[k].status = "absent" => rows'[k].request.target = None
             /\ rows'[k].inflight # None => Remains(rows'[k].inflight)
             /\ k[1] # "projection-delete" => rows'[k].request.target \in {None, k[2]}
  <2>1. CASE DeletionGoes(k)
    BY <1>1, <1>2, <2>1 DEF DeletionGoes, DeletionsOK, Flying
  <2>2. CASE DeletionComes(k)
    <3>1. PICK m \in Messages :
             /\ remote[m].state # "absent" /\ rows'[k].request = Delete(m)
             /\ rows'[k].status # "absent"
             /\ rows'[k].inflight # None =>
                   rows[k].inflight # None /\ rows'[k].inflight = rows[k].inflight
             /\ k[1] # "projection-delete" => m = k[2]
      BY <2>2 DEF DeletionComes, DeletionAdded, Flying
    <3>2. Delete(m).op = "delete" /\ Delete(m).target = m
      BY DEF Delete
    <3>3. Deletion(Delete(m))
      BY <3>1, <3>2 DEF Deletion
    <3> QED
      BY <1>1, <1>2, <3>1, <3>2, <3>3 DEF DeletionsOK, Flying
  <2> QED
    BY <1>2, <2>1, <2>2, StepDeletion
<1>3. ASSUME NEW d \in Dispatchers, held'[d] # None, ~IsProjection(held'[d].key)
      PROVE  Remains(held'[d].request)
  <2>1. ASSUME held[d] # None, held'[d].key = held[d].key, held'[d].request = held[d].request
        PROVE  Remains(held'[d].request)
    BY <1>1, <1>3, <2>1 DEF DeletionsOK
  <2>2. CASE held'[d] = held[d]
    BY <1>3, <2>1, <2>2
  <2>3. CASE Sends(d) \/ Records(d)
    BY <2>1, <2>3 DEF Sends, Records, RecordDelivery, Answered
  <2>4. ASSUME NEW k \in Keys, Takes(d, k) PROVE Remains(held'[d].request)
    <3>1. Departs(k) /\ held'[d].key = k /\ held'[d].request = rows[k].request
      BY <2>4, TakenLease DEF Takes
    <3>2. rows[k].status # "absent"
      BY <3>1 DEF Departs, Claimable
    <3> QED
      BY <1>1, <1>3, <3>1, <3>2 DEF DeletionsOK
  <2>5. ASSUME NEW k \in Keys, TakesAnswer(d, k) PROVE Remains(held'[d].request)
    <3>1. held'[d].key = k /\ held'[d].request = rows[k].inflight
      BY <2>5 DEF TakesAnswer
    <3>2. rows[k].status \in InFlight
      <4>1. CASE ClaimApplication(d, k)
        BY <4>1, ClaimApplicationKept DEF InFlight
      <4>2. CASE Resolve(d, k)
        BY <4>2 DEF Resolve, InFlight
      <4> QED
        BY <2>5, <4>1, <4>2 DEF TakesAnswer
    <3>3. Flying(rows[k])
      BY <3>2 DEF Flying, IInv, TypeOK
    <3> QED
      BY <1>1, <1>3, <3>1, <3>3 DEF DeletionsOK
  <2> QED
    BY <1>3, <2>2, <2>3, <2>4, <2>5, HeldChanges
<1>4. \A k \in Keys : \A q \in accepted'[k] : q.op = "delete" =>
         q.target \in Messages /\ remote'[q.target].state = "deleted"
  BY StepMessages
<1> QED
  BY <1>2, <1>3, <1>4 DEF DeletionsOK, Flying, IsProjection, Deletion, Remains

-----------------------------------------------------------------------------
(* What follows. *)

\* Nothing is shown at first.
LEMMA FateInit == Init => FateInv
<1> SUFFICES ASSUME Init PROVE FateInv
  OBVIOUS
<1>1. IInv
  BY InvariantInit
<1>2. PICK r : r = [NewRow(Delete(None)) EXCEPT !.status = "absent"]
  OBVIOUS
<1>3. /\ r.status = "absent" /\ r.inflight = None /\ r.request.target = None
      /\ r.request.op = "delete"
  <2>1. PICK n : /\ n = NewRow(Delete(None)) /\ n \in Row /\ n.inflight = None
                 /\ n.request = Delete(None)
    <3>1. NewRow(Delete(None)).request = Delete(None)
      BY DEF NewRow
    <3> QED
      BY <3>1, RequestTypes, NewRowType
  <2>2. Delete(None).target = None /\ Delete(None).op = "delete"
    BY DEF Delete
  <2> QED
    BY <1>2, <2>1, <2>2, RowColumns
<1>4. \A k \in Keys : rows[k] = r
  BY <1>2 DEF Init
<1>5. \A m \in Messages : remote[m].state = "absent" /\ remote[m].version = 0
  BY DEF Init
<1>6. \A d \in Dispatchers : held[d] = None
  BY DEF Init
<1>7. ASSUME NEW p \in Projections PROVE TracedOK(p)
  <2>1. Card(p) = r /\ rows[<<"projection-delete", p>>] = r
    BY <1>1, <1>4, CardTypes, KeyTypes DEF Card
  <2>2. ~projections[p].exists /\ projections[p].message = None
    BY DEF Init
  <2>3. \A m \in Messages : ~Mine(p, m)
    BY <1>5 DEF Mine
  <2>4. ~Creating(p)
    BY <1>3, <2>1 DEF Creating, Flying
  <2>5. WantedOK(p)
    BY <1>3, <2>1, <2>2, <2>3, NoneAssumption DEF WantedOK, Flying
  <2>6. CreateOK(p)
    BY <1>3, <2>1, <2>4 DEF CreateOK, CreateWaits, Arriving
  <2>7. ResponseOK(p) /\ DroppedOnce(p) /\ FateOK(p)
    BY <1>3, <2>1, <2>3 DEF ResponseOK, DroppedOnce, FateOK
  <2> QED
    BY <1>6, <2>5, <2>6, <2>7 DEF TracedOK, Handles
<1>8. DeletionsOK
  <2>1. \A k \in Keys : accepted[k] = {}
    BY DEF Init
  <2> QED
    BY <1>3, <1>4, <1>6, <2>1 DEF DeletionsOK, Flying
<1>9. OwnersOK
  BY <1>5 DEF OwnersOK
<1> QED
  BY <1>7, <1>8, <1>9 DEF FateInv

\* The fate of every message is known in every state.
LEMMA FateHolds ==
    ASSUME ~EditLimit, ~LostAnswers, \A v, w \in Obsoleting : v = w
    PROVE  Spec => []FateInv
<1>1. IInv /\ FateInv /\ [Next]_vars => FateInv'
  BY StepTracedOK, StepDeletionsOK, StepMessages DEF FateInv
<1> QED
  BY <1>1, FateInit, InvariantHolds, PTL DEF Spec

\* When every row has reached Discord, it shows nothing but the messages of the
\* cards that are wanted: a message that is made while its card is dropped, or while
\* a newer version of it is wanted, is deleted or becomes the card's.  This holds for
\* any number of dispatchers, crashes and leases that run out, and whether Discord
\* remembers nonces or not.  No edit is refused for good, no answer looks like a
\* failure, and cards are dropped at one version: without any of the three the
\* property is false.
THEOREM ShownNothingElse ==
    ASSUME ~EditLimit, ~LostAnswers, \A v, w \in Obsoleting : v = w
    PROVE  Spec => []QuietShowsNothingElse
<1>1. IInv /\ FateInv => QuietShowsNothingElse
  <2> SUFFICES ASSUME IInv, FateInv, Quiet, NEW m \in Messages, remote[m].state = "shown"
               PROVE  \E p \in Projections :
                         projections[p].exists /\ projections[p].message = m
    BY DEF QuietShowsNothingElse
  <2>1. PICK p \in Projections : Mine(p, m)
    BY DEF FateInv, OwnersOK
  <2>2. ~Arriving(p, m)
    <3>1. Card(p).status \notin InFlight
      BY CardTypes DEF Quiet, InFlight, Card
    <3> QED
      BY <3>1, CardTypes DEF Arriving, Creating
  <2>3. ~Dismissed(m)
    <3>1. ASSUME NEW k \in Keys, ~IsProjection(k), rows[k].request.target = m PROVE FALSE
      <4>1. rows[k].status = "completed"
        BY <3>1, NoneAssumption DEF Quiet, FateInv, DeletionsOK
      <4>2. rows[k].request \in accepted[k] /\ rows[k].request.op = "delete"
        BY <3>1, <4>1 DEF IInv, CompletedWasAccepted, FateInv, DeletionsOK, Deletion
      <4> QED
        BY <3>1, <4>2 DEF FateInv, DeletionsOK
    <3> QED
      BY <3>1 DEF Dismissed
  <2>4. projections[p].message = m
    BY <2>1, <2>2, <2>3 DEF FateInv, TracedOK, FateOK
  <2> QED
    BY <2>4, NoneAssumption DEF FateInv, TracedOK, WantedOK
<1> QED
  BY <1>1, FateHolds, InvariantHolds, PTL

\* A card has one message at most that is neither deleted nor to be deleted.
OneMessage ==
    \A p \in Projections, m, n \in Messages :
        /\ Mine(p, m) /\ remote[m].state = "shown" /\ ~Dismissed(m)
        /\ Mine(p, n) /\ remote[n].state = "shown" /\ ~Dismissed(n)
        => m = n

\* At no time does Discord show a card twice, but for a message whose deletion is
\* wanted already, however many dispatchers work on it, stale ones among them.  The
\* hypotheses are those of ShownNothingElse.
THEOREM ShownOnce ==
    ASSUME ~EditLimit, ~LostAnswers, \A v, w \in Obsoleting : v = w
    PROVE  Spec => []OneMessage
<1>1. FateInv => OneMessage
  <2> SUFFICES ASSUME FateInv, NEW p \in Projections, NEW m \in Messages, NEW n \in Messages,
                      Mine(p, m), remote[m].state = "shown", ~Dismissed(m),
                      Mine(p, n), remote[n].state = "shown", ~Dismissed(n)
               PROVE  m = n
    BY DEF OneMessage
  <2>1. /\ projections[p].message = m \/ Arriving(p, m)
        /\ projections[p].message = n \/ Arriving(p, n)
        /\ Creating(p) => projections[p].message = None
        /\ Arriving(p, m) /\ Arriving(p, n) => m = n
    BY DEF FateInv, TracedOK, FateOK, CreateOK
  <2> QED
    BY <2>1, NoneAssumption DEF Arriving
<1> QED
  BY <1>1, FateHolds, PTL
=============================================================================
