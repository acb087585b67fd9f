---------------------------- MODULE DiscordOutbox ----------------------------
(***************************************************************************)
(* The outbox through which Control shows cards and replies on Discord.    *)
(*                                                                         *)
(* A projection is a card Control wants shown; each change of it rewrites  *)
(* the one outbox row of the projection in the same transaction.  A        *)
(* dispatcher claims a row under a lease, sends the request, records the   *)
(* answer, and applies it: the message id reaches the projection, and a    *)
(* request that changed meanwhile goes out again.  What the projection     *)
(* does not need any more is deleted by rows of their own.                 *)
(*                                                                         *)
(* `rows` and `projections` are tables, `held` is a dispatcher's memory    *)
(* and dies with it, `remote` is Discord.  `accepted` is a history of what *)
(* Discord answered that it has done.                                      *)
(*                                                                         *)
(* Above some operators stands a faulty variant of it, named for its       *)
(* fault.  The specification uses none of them; each breaks a property     *)
(* stated at the end.                                                      *)
(***************************************************************************)
EXTENDS Integers

CONSTANTS
    Projections,    \* discord_projections keys
    Messages,       \* Discord message ids, which increase
    Dispatchers,    \* processes that claim rows, an operator's among them
    None,           \* SQL NULL, the empty id
    MaxVersion,     \* bound: how often a projection changes
    Obsoleting,     \* the versions after which a projection may be dropped
    MaxAttempts,    \* integration_outbox.max_attempts
    EditLimit,      \* Discord may refuse one more edit of a message
    LostAnswers,    \* a request may be carried out and look like a failure
    NonceWindow     \* Discord still remembers the nonces of its messages

ASSUME BoundsAssumption ==
    /\ MaxVersion \in Nat /\ MaxAttempts \in Nat \ {0}
    /\ Obsoleting \subseteq Nat
ASSUME SwitchesAssumption == {EditLimit, LostAnswers, NonceWindow} \subseteq BOOLEAN
ASSUME NoneAssumption == None \notin Messages /\ None \notin Dispatchers
ASSUME MessagesAssumption == Messages \subseteq Nat

VARIABLES
    rows,           \* integration_outbox by operation_key
    projections,    \* exists, message_id, desired_version, applied_version
    held,           \* what each dispatcher is delivering or applying
    remote,         \* Discord: state, content and nonce of each message
    accepted        \* the requests of each row Discord says it carried out

vars == <<rows, projections, held, remote, accepted>>

\* operation_key: the row of a projection, and the rows that clean up after it.
Keys == ({"projection", "projection-delete"} \X Projections)
        \cup ({"orphan-delete", "replaced-delete"} \X Messages)

RepeatableWithCreate == {"create", "update", "delete"}

\* Expired deliveries of these are sent again; all others wait for an operator.
Repeatable == {"update", "delete"}
InFlight   == {"sending", "applying", "ambiguous"}
Claimable  == {"pending", "retrying"}
Settled    == {"absent", "completed", "failed", "ambiguous"}

Create(v)    == [op |-> "create", version |-> v, target |-> None]
Update(v, m) == [op |-> "update", version |-> v, target |-> m]
Delete(m)    == [op |-> "delete", version |-> 0, target |-> m]

NewRow(request) ==
    [status |-> "pending", request |-> request, revision |-> 1, inflight |-> None,
     sent |-> 0, attempts |-> 0, response |-> None, lease |-> None, expired |-> FALSE]

Init ==
    /\ rows = [k \in Keys |-> [NewRow(Delete(None)) EXCEPT !.status = "absent"]]
    /\ projections = [p \in Projections |-> [exists |-> FALSE, message |-> None,
                                             desired |-> 0, applied |-> 0]]
    /\ held = [d \in Dispatchers |-> None]
    /\ remote = [m \in Messages |-> [state |-> "absent", version |-> 0, nonce |-> None]]
    /\ accepted = [k \in Keys |-> {}]

-----------------------------------------------------------------------------
(* Control changes what it wants shown. *)

\* enqueueDiscordOutbox: a delivery under way is left alone, and sees from the
\* revision that there is more to send.
Enqueued(rs, k, request) ==
    LET row  == rs[k]
        busy == row.status \in InFlight
    IN
    [rs EXCEPT ![k] =
        IF row.status = "absent" THEN NewRow(request)
        ELSE IF busy THEN [row EXCEPT !.request = request,
                 !.revision = IF row.request = request THEN @ ELSE @ + 1]
        ELSE [row EXCEPT !.request = request, !.revision = @ + 1, !.status = "pending",
                         !.attempts = 0, !.response = None]]

\* A message is updated once its id is known.  `desired` counts on when a
\* dropped projection is wanted again.
Project(p) ==
    LET projection == projections[p]
        v == projection.desired + 1
    IN
    /\ v <= MaxVersion
    /\ projections' = [projections EXCEPT ![p].exists = TRUE, ![p].desired = v]
    /\ rows' = Enqueued(rows, <<"projection", p>>,
                  IF projection.message = None THEN Create(v)
                  ELSE Update(v, projection.message))
    /\ UNCHANGED <<held, remote, accepted>>

\* A page the new reply does not have, or a plan that expired.
Drop(p) ==
    LET m == projections[p].message IN
    /\ projections[p].exists
    /\ projections[p].desired \in Obsoleting
    /\ rows' = IF m = None THEN rows
               ELSE Enqueued(rows, <<"projection-delete", p>>, Delete(m))
    /\ projections' = [projections EXCEPT ![p].exists = FALSE, ![p].message = None,
                                          ![p].applied = 0]
    /\ UNCHANGED <<held, remote, accepted>>

-----------------------------------------------------------------------------
(* A dispatcher claims, sends and records. *)

ReleasedKeepingRequest(row) == [row EXCEPT !.lease = None, !.expired = FALSE]

Released(row) == [row EXCEPT !.inflight = None, !.sent = 0, !.lease = None,
                             !.expired = FALSE]

\* Every claim first takes back the deliveries whose lease has run out.
Swept(rs) == [k \in Keys |->
    IF rs[k].status = "sending" /\ rs[k].expired
    THEN IF rs[k].inflight.op \in Repeatable
         THEN [Released(rs[k]) EXCEPT !.status = "pending"]
         ELSE [rs[k] EXCEPT !.status = "ambiguous", !.lease = None, !.expired = FALSE]
    ELSE rs[k]]

ApplicableUnleased(row) == row.status = "applying" /\ row.lease = None

Applicable(row) == row.status = "applying" /\ (row.lease = None \/ row.expired)

\* attempt_count saturates at MaxAttempts: beyond it nothing tells values apart.
Attempted(row) == IF row.attempts < MaxAttempts THEN row.attempts + 1 ELSE row.attempts

ClaimDelivery(d, k) ==
    LET swept == Swept(rows)
        row   == swept[k]
    IN
    /\ held[d] = None
    /\ row.status \in Claimable
    /\ rows' = [swept EXCEPT ![k] =
                  [row EXCEPT !.status = "sending", !.attempts = Attempted(row),
                      !.inflight = row.request, !.sent = row.revision, !.response = None,
                      !.lease = d, !.expired = FALSE]]
    /\ held' = [held EXCEPT ![d] =
                  [key |-> k, phase |-> "deliver", request |-> row.request,
                   revision |-> row.revision, attempt |-> Attempted(row), answer |-> None]]
    /\ UNCHANGED <<projections, remote, accepted>>

ClaimApplication(d, k) ==
    LET swept == Swept(rows)
        row   == swept[k]
    IN
    /\ held[d] = None
    /\ Applicable(row)
    /\ rows' = [swept EXCEPT ![k].lease = d, ![k].expired = FALSE]
    /\ held' = [held EXCEPT ![d] =
                  [key |-> k, phase |-> "apply", request |-> row.inflight,
                   revision |-> row.sent, attempt |-> row.attempts, answer |-> row.response]]
    /\ UNCHANGED <<projections, remote, accepted>>

\* Nothing to claim: the take-back commits by itself.
ClaimNothing(d) ==
    LET swept == Swept(rows) IN
    /\ held[d] = None
    /\ \A k \in Keys : swept[k].status \notin Claimable /\ ~Applicable(swept[k])
    /\ rows' = swept
    /\ UNCHANGED <<projections, held, remote, accepted>>

Outcome(d, phase, m) == held' = [held EXCEPT ![d].phase = phase, ![d].answer = m]

\* Discord has done it; the answer arrives, or is lost and looks like a failure.
CarriedOut(d, m) ==
    /\ accepted' = [accepted EXCEPT ![held[d].key] = @ \cup {held[d].request}]
    /\ Outcome(d, "delivered", m) \/ (LostAnswers /\ Outcome(d, "unreached", None))
    /\ UNCHANGED <<rows, projections>>

Sending(d, op) ==
    held[d] # None /\ held[d].phase = "deliver" /\ held[d].request.op = op

\* EnforceNonce: a nonce Discord remembers returns the message it made.
Remembered(nonce) ==
    {m \in Messages : NonceWindow /\ remote[m].state = "shown" /\ remote[m].nonce = nonce}

Post(d, version, nonce) ==
    \/ \E m \in Remembered(nonce) : UNCHANGED remote /\ CarriedOut(d, m)
    \/ /\ Remembered(nonce) = {}
       /\ \E m \in Messages :
             /\ \A n \in Messages : remote[n].state = "absent" <=> n >= m
             /\ remote' = [remote EXCEPT ![m] = [state |-> "shown", version |-> version,
                                                 nonce |-> nonce]]
             /\ CarriedOut(d, m)

\* The nonce of a card is the same for every version of it.
CreateNonce(p) == <<p, 0>>

SendCreate(d) ==
    /\ Sending(d, "create")
    /\ Post(d, held[d].request.version, CreateNonce(held[d].key[2]))

SendUpdate(d) ==
    LET m == held[d].request.target IN
    /\ Sending(d, "update")
    /\ remote[m].state = "shown"
    /\ remote' = [remote EXCEPT ![m].version = held[d].request.version]
    /\ CarriedOut(d, None)

\* The edit is refused for good: a new message takes the place of the old.
SendReplacement(d) ==
    /\ EditLimit
    /\ Sending(d, "update")
    /\ remote[held[d].request.target].state = "shown"
    /\ Post(d, held[d].request.version, <<held[d].key[2], held[d].revision>>)

SendDelete(d) ==
    /\ Sending(d, "delete")
    /\ remote' = [remote EXCEPT ![held[d].request.target].state = "deleted"]
    /\ CarriedOut(d, None)

\* Nothing was done: try again (rate limit, server error), or never (a missing
\* message, a missing permission).
SendFails(d) ==
    /\ held[d] # None /\ held[d].phase = "deliver"
    /\ Outcome(d, "unreached", None) \/ Outcome(d, "refused", None)
    /\ UNCHANGED <<rows, projections, remote, accepted>>

DeliveringUnleased(d) == rows[held[d].key].status = "sending"

\* Every write after the send is conditional on the lease and the revision.
Delivering(d) ==
    LET row == rows[held[d].key] IN
    row.status = "sending" /\ row.lease = d /\ row.sent = held[d].revision

NewestAssumed(d) == held[d] # None

Newest(d) == rows[held[d].key].revision = held[d].revision

Answered(d, phases) == held[d] # None /\ held[d].phase \in phases

RecordDelivery(d) ==
    LET k == held[d].key IN
    /\ Answered(d, {"delivered"}) /\ Delivering(d)
    /\ rows' = [rows EXCEPT ![k].status = "applying", ![k].response = held[d].answer]
    /\ held' = [held EXCEPT ![d].phase = "apply"]
    /\ UNCHANGED <<projections, remote, accepted>>

Exhausted(d) == held[d].attempt >= MaxAttempts

RetryDelivery(d) ==
    LET k == held[d].key IN
    /\ Answered(d, {"unreached"}) /\ ~Exhausted(d) /\ Delivering(d)
    /\ rows' = [rows EXCEPT ![k] =
          [Released(@) EXCEPT !.status = "retrying",
                              !.attempts = IF Newest(d) THEN rows[k].attempts ELSE 0]]
    /\ held' = [held EXCEPT ![d] = None]
    /\ UNCHANGED <<projections, remote, accepted>>

\* Only the newest request can fail; an older one makes way for it.
FailDelivery(d) ==
    LET k == held[d].key IN
    /\ Answered(d, {"refused"}) \/ (Answered(d, {"unreached"}) /\ Exhausted(d))
    /\ Delivering(d)
    /\ rows' = [rows EXCEPT ![k] =
          [Released(@) EXCEPT !.status = IF Newest(d) THEN "failed" ELSE "pending",
                              !.attempts = IF Newest(d) THEN rows[k].attempts ELSE 0,
                              !.response = None]]
    /\ held' = [held EXCEPT ![d] = None]
    /\ UNCHANGED <<projections, remote, accepted>>

-----------------------------------------------------------------------------
(* The answer is applied. *)

Applying(d) ==
    LET row == rows[held[d].key] IN
    row.status = "applying" /\ row.lease = d /\ row.sent = held[d].revision

IsProjection(k) == k[1] = "projection"
Gone(d) == IsProjection(held[d].key) /\ ~projections[held[d].key[2]].exists

\* What the answer says: a message was made, or took the place of another.
Made(d) == /\ IsProjection(held[d].key)
           /\ held[d].request.op = "create" /\ held[d].answer # None
Replaced(d) == /\ held[d].request.op = "update"
               /\ held[d].answer \notin {None, held[d].request.target}

\* The row is done, or its newer request goes to the message that now exists.
Finished(d) ==
    LET row  == Released(rows[held[d].key])
        next == [row EXCEPT !.status = "pending", !.attempts = 0, !.response = None]
    IN
    IF Newest(d) \/ Gone(d) THEN [row EXCEPT !.status = "completed"]
    ELSE IF Made(d) THEN [next EXCEPT !.request = Update(@.version, held[d].answer)]
    ELSE IF Replaced(d) THEN [next EXCEPT !.request = Update(@.version, held[d].answer),
                                          !.revision = @ + 1]
    ELSE next

CleanedUpReplaced(rs, d) ==
    IF Replaced(d)
    THEN Enqueued(rs, <<"replaced-delete", held[d].request.target>>,
                  Delete(held[d].request.target))
    ELSE rs

\* What nobody will show any more is deleted.
CleanedUp(rs, d) ==
    LET m   == held[d].answer
        old == held[d].request.target
    IN
    IF Made(d) /\ Gone(d) THEN Enqueued(rs, <<"orphan-delete", m>>, Delete(m))
    ELSE IF Replaced(d) THEN Enqueued(rs, <<"replaced-delete", old>>, Delete(old))
    ELSE rs

Apply(d) ==
    LET k == held[d].key
        p == k[2]
    IN
    /\ Answered(d, {"apply"}) /\ Applying(d)
    /\ rows' = CleanedUp([rows EXCEPT ![k] = Finished(d)], d)
    /\ projections' =
          IF IsProjection(k) /\ ~Gone(d)
          THEN [projections EXCEPT
                  ![p].message = IF held[d].answer = None THEN @ ELSE held[d].answer,
                  ![p].applied = IF Newest(d) THEN projections[p].desired ELSE @]
          ELSE projections
    /\ held' = [held EXCEPT ![d] = None]
    /\ UNCHANGED <<remote, accepted>>

\* RetryApplication: the transaction failed, the row waits to be claimed again.
ApplyFails(d) ==
    /\ Answered(d, {"apply"}) /\ Applying(d)
    /\ rows' = [rows EXCEPT ![held[d].key].lease = None, ![held[d].key].expired = FALSE]
    /\ held' = [held EXCEPT ![d] = None]
    /\ UNCHANGED <<projections, remote, accepted>>

\* The conditional write matches no row: the dispatcher drops its item.
LoseLease(d) ==
    /\ \/ Answered(d, {"delivered", "unreached", "refused"}) /\ ~Delivering(d)
       \/ Answered(d, {"apply"}) /\ ~Applying(d)
    /\ held' = [held EXCEPT ![d] = None]
    /\ UNCHANGED <<rows, projections, remote, accepted>>

\* ResolveAmbiguousDelivery: an operator looked the message up on Discord and
\* goes on where the dispatcher was lost.
Resolve(d, k) ==
    LET row == rows[k] IN
    /\ held[d] = None
    /\ row.status = "ambiguous" /\ row.inflight \in accepted[k]
    /\ \E m \in Messages :
          /\ remote[m].nonce = CreateNonce(k[2])
          /\ remote[m].version = row.inflight.version
          /\ rows' = [rows EXCEPT ![k].status = "applying", ![k].response = m,
                                  ![k].lease = d, ![k].expired = FALSE]
          /\ held' = [held EXCEPT ![d] =
                [key |-> k, phase |-> "apply", request |-> row.inflight,
                 revision |-> row.sent, attempt |-> row.attempts, answer |-> m]]
    /\ UNCHANGED <<projections, remote, accepted>>

Crash(d) ==
    /\ held[d] # None
    /\ held' = [held EXCEPT ![d] = None]
    /\ UNCHANGED <<rows, projections, remote, accepted>>

\* A lease runs out when its time has passed, whatever its holder does.
LeaseExpires(k) ==
    /\ rows[k].lease # None /\ ~rows[k].expired
    /\ rows' = [rows EXCEPT ![k].expired = TRUE]
    /\ UNCHANGED <<projections, held, remote, accepted>>

-----------------------------------------------------------------------------
Want == \E p \in Projections : Project(p) \/ Drop(p)

Claim(d, k) == ClaimDelivery(d, k) \/ ClaimApplication(d, k)

Send(d) == SendCreate(d) \/ SendUpdate(d) \/ SendReplacement(d) \/ SendDelete(d) \/ SendFails(d)

Record(d) == RecordDelivery(d) \/ RetryDelivery(d) \/ FailDelivery(d) \/ LoseLease(d)

Next ==
    \/ Want
    \/ \E d \in Dispatchers, k \in Keys : Claim(d, k) \/ Resolve(d, k)
    \/ \E d \in Dispatchers :
          ClaimNothing(d) \/ Send(d) \/ Record(d) \/ Apply(d) \/ ApplyFails(d) \/ Crash(d)
    \/ \E k \in Keys : LeaseExpires(k)

Spec == Init /\ [][Next]_vars

\* The daemon ticks for ever and claims the oldest row that is due; it may crash
\* at any point, but not for ever at the same one, and a transaction that fails
\* does not fail for ever.
Fairness ==
    /\ \A k \in Keys : WF_vars(LeaseExpires(k))
    /\ \A k \in Keys : SF_vars(\E d \in Dispatchers : Claim(d, k))
    /\ \A d \in Dispatchers : /\ WF_vars(ClaimNothing(d))
                              /\ SF_vars(Send(d)) /\ SF_vars(Record(d)) /\ SF_vars(Apply(d))

FairSpec == Spec /\ Fairness

-----------------------------------------------------------------------------
(* Properties. *)

Request == [op : {"create", "update", "delete"}, version : Nat, target : Messages \cup {None}]

\* A column that holds a request can tell NULL from it.
ASSUME RequestsAssumption == None \notin Request

Row == [status : {"absent", "pending", "retrying", "sending", "applying", "ambiguous",
                  "completed", "failed"},
        request : Request, revision : Nat, inflight : Request \cup {None}, sent : Nat,
        attempts : 0..MaxAttempts, response : Messages \cup {None},
        lease : Dispatchers \cup {None}, expired : BOOLEAN]
Item == [key : Keys, phase : {"deliver", "delivered", "unreached", "refused", "apply"},
         request : Request, revision : Nat, attempt : 0..MaxAttempts,
         answer : Messages \cup {None}]

\* Every value has its type, and the check constraint of the table holds: a row
\* has an inflight request exactly while it is being delivered or applied.
TypeOK ==
    /\ rows \in [Keys -> Row]
    /\ \A k \in Keys : rows[k].status \in InFlight <=> rows[k].inflight # None
    /\ projections \in [Projections -> [exists : BOOLEAN, message : Messages \cup {None},
                                        desired : Nat, applied : Nat]]
    /\ held \in [Dispatchers -> Item \cup {None}]
    /\ \A m \in Messages : remote[m].state \in {"absent", "shown", "deleted"}
    /\ \A k \in Keys : accepted[k] \subseteq Request

\* A completed row has nothing left to send: its latest request, whenever and
\* from whatever state it was enqueued, is one Discord said it carried out.
CompletedWasAccepted ==
    \A k \in Keys :
        rows[k].status = "completed" /\ (IsProjection(k) => projections[k[2]].exists) =>
            rows[k].request \in accepted[k]

\* Only the dispatcher that saw it fail puts a create back in the queue: when the
\* lease ran out, nobody knows, and nothing is sent again.
UnknownCreateWaits ==
    [][\A k \in Keys :
          /\ rows[k].status \in {"sending", "ambiguous"} /\ rows[k].inflight.op = "create"
          /\ rows'[k].status \in Claimable
          => \E d \in Dispatchers : /\ Answered(d, {"unreached", "refused"})
                                    /\ held[d].key = k /\ Delivering(d)]_vars

\* All rows have reached Discord.
Quiet == \A k \in Keys : rows[k].status \in {"absent", "completed"}

\* When all is quiet, each wanted card is shown in its newest version.
QuietShowsNewest ==
    Quiet => \A p \in Projections : projections[p].exists =>
        /\ projections[p].applied = projections[p].desired
        /\ \E m \in Messages :
              /\ projections[p].message = m
              /\ remote[m].state = "shown" /\ remote[m].version = projections[p].desired

\* When all is quiet, Discord shows nothing else.
QuietShowsNothingElse ==
    Quiet => \A m \in Messages : remote[m].state = "shown" =>
        \E p \in Projections : projections[p].exists /\ projections[p].message = m

\* Every request is delivered, given up, or handed to an operator in the end.
Settles ==
    \A k \in Keys : rows[k].status \notin Settled ~> rows[k].status \in Settled
=============================================================================
