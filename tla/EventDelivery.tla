--------------------------- MODULE EventDelivery ---------------------------
(***************************************************************************)
(* Events of the 1.x framework and their webhook deliveries (events/): an  *)
(* event is persisted, matched against the subscriptions and queued for    *)
(* their endpoints; a courier posts what is pending and retries what       *)
(* failed.  The network loses requests and answers, and a courier may die  *)
(* at any moment.  Backoff is a delay of retry_failed() and left out.      *)
(***************************************************************************)
EXTENDS Naturals, Sequences, FiniteSets

CONSTANTS
  Subscription,   \* subscriptions, each with an endpoint
  Courier,        \* threads that call deliver_pending() and retry_failed()
  MaxRetries,     \* max_retries
  MaxEvents,      \* bound on events
  MaxCourierDeaths

ASSUME DeliveryAssumption ==
  /\ IsFiniteSet(Courier)
  /\ MaxRetries \in Nat \ {0} /\ MaxEvents \in Nat /\ MaxCourierDeaths \in Nat

VARIABLES
  subscribed,   \* active subscriptions
  events,       \* events persisted
  emitting,     \* the emit() under way: the subscriptions still to queue for
  deliveries,   \* the webhook_deliveries table
  courier,      \* per thread: the rows it has read, and its attempt at the first
  casualties    \* couriers that died

eventVars == <<subscribed, events, emitting, deliveries, courier, casualties>>

\* A row; `posts` counts requests, `received` tells that one got through.
NewDelivery(s) ==
  [sub |-> s, status |-> "pending", attempt |-> 0, posts |-> 0, received |-> FALSE]

OffDuty == [pc |-> "off", todo |-> {}, answer |-> "none"]

EventInit ==
  /\ subscribed = {}
  /\ events = 0
  /\ emitting = [pc |-> "idle", todo |-> {}]
  /\ deliveries = <<>>
  /\ courier = [c \in Courier |-> OffDuty]
  /\ casualties = 0

-----------------------------------------------------------------------------
(* SubscriptionManager and EventBus. *)

Subscribe(s) ==
  /\ s \notin subscribed
  /\ subscribed' = subscribed \union {s}
  /\ UNCHANGED <<events, emitting, deliveries, courier, casualties>>

\* delete_subscription(); delete_webhook() changes nothing a delivery looks at.
Unsubscribe(s) ==
  /\ s \in subscribed
  /\ subscribed' = subscribed \ {s}
  /\ UNCHANGED <<events, emitting, deliveries, courier, casualties>>

\* emit(): the event is persisted ...
PersistEvent ==
  /\ emitting.pc = "idle"
  /\ events < MaxEvents
  /\ events' = events + 1
  /\ emitting' = [emitting EXCEPT !.pc = "match"]
  /\ UNCHANGED <<subscribed, deliveries, courier, casualties>>

\* ... matched ...
MatchSubscriptions ==
  /\ emitting.pc = "match"
  /\ emitting' = IF subscribed = {} THEN [pc |-> "idle", todo |-> {}]
                 ELSE [pc |-> "queue", todo |-> subscribed]
  /\ UNCHANGED <<subscribed, events, deliveries, courier, casualties>>

\* ... and queued for one matched subscription after the other.
QueueDelivery(s) ==
  /\ emitting.pc = "queue"
  /\ s \in emitting.todo
  /\ deliveries' = Append(deliveries, NewDelivery(s))
  /\ emitting' = [pc |-> IF emitting.todo = {s} THEN "idle" ELSE "queue",
                  todo |-> emitting.todo \ {s}]
  /\ UNCHANGED <<subscribed, events, courier, casualties>>

-----------------------------------------------------------------------------
(* WebhookDelivery. *)

\* A SELECT reads rows, each with its attempt_number of that moment.
ReadRows(c, rows, pc) ==
  /\ courier[c].pc = "off"
  /\ rows # {}
  /\ courier' = [courier EXCEPT ![c] =
       [pc |-> pc, todo |-> {[row |-> i, attempt |-> deliveries[i].attempt] : i \in rows},
        answer |-> "none"]]
  /\ UNCHANGED <<subscribed, events, emitting, deliveries, casualties>>

\* deliver_pending()
DeliverPending(c) ==
  ReadRows(c, {i \in 1..Len(deliveries) : deliveries[i].status = "pending"}, "post")

\* Mutant: one attempt more, and one less.
RetriesOnce(d) == d.status = "failed" /\ d.attempt <= MaxRetries
RetriesLess(d) == d.status = "failed" /\ d.attempt + 1 < MaxRetries

\* The condition of retry_failed()'s SELECT.
Retriable(d) == d.status = "failed" /\ d.attempt < MaxRetries

RetryFailed(c) == ReadRows(c, {i \in 1..Len(deliveries) : Retriable(deliveries[i])}, "mark")

\* Of the rows it has read a courier takes one after the other, in their order.
InHand(c) == CHOOSE r \in courier[c].todo : \A s \in courier[c].todo : r.row <= s.row

\* retry_failed() marks the row before its attempt.
MarkRetrying(c) ==
  /\ courier[c].pc = "mark"
  /\ deliveries' = [deliveries EXCEPT ![InHand(c).row].status = "retrying"]
  /\ courier' = [courier EXCEPT ![c].pc = "repost"]
  /\ UNCHANGED <<subscribed, events, emitting, casualties>>

\* The transport.  "ok" is a 2xx answer, "refused" another one, "lost" a
\* request nobody got, "late" one whose answer was lost.
Post(c, answer) ==
  LET i == InHand(c).row IN
  /\ courier[c].pc \in {"post", "repost"}
  /\ deliveries' = [deliveries EXCEPT ![i].posts = @ + 1,
                                      ![i].received = @ \/ answer \in {"ok", "late"}]
  /\ courier' = [courier EXCEPT ![c].answer = answer,
                                ![c].pc = IF @ = "post" THEN "record" ELSE "rerecord"]
  /\ UNCHANGED <<subscribed, events, emitting, casualties>>

\* Mutant: any answer will do.
Answered(answer) == IF answer \in {"ok", "refused"} THEN "delivered" ELSE "failed"

\* Mutant: the answer is stored for the status.
AnswerItself(answer) == answer

\* 2xx is success; an exception is a failure.
DeliveryStatus(answer) == IF answer = "ok" THEN "delivered" ELSE "failed"

\* _attempt_delivery() writes its result, counted from the row as it was read, and the next row is next.
RecordAttempt(c) ==
  LET i == InHand(c).row
      again == courier[c].pc = "rerecord"
  IN
  /\ courier[c].pc \in {"record", "rerecord"}
  /\ deliveries' = [deliveries EXCEPT ![i].status = DeliveryStatus(courier[c].answer),
                                      ![i].attempt = InHand(c).attempt + 1]
  /\ courier' = [courier EXCEPT ![c] =
       IF @.todo = {InHand(c)} THEN OffDuty
       ELSE [pc |-> IF again THEN "mark" ELSE "post", todo |-> @.todo \ {InHand(c)},
             answer |-> "none"]]
  /\ UNCHANGED <<subscribed, events, emitting, casualties>>

CourierDies(c) ==
  /\ courier[c].pc # "off"
  /\ casualties < MaxCourierDeaths
  /\ casualties' = casualties + 1
  /\ courier' = [courier EXCEPT ![c] = OffDuty]
  /\ UNCHANGED <<subscribed, events, emitting, deliveries>>

-----------------------------------------------------------------------------
Emit == PersistEvent \/ MatchSubscriptions \/ \E s \in Subscription : QueueDelivery(s)

Deliver(c) ==
  \/ DeliverPending(c) \/ MarkRetrying(c)
  \/ \E a \in {"ok", "refused", "lost", "late"} : Post(c, a)
  \/ RecordAttempt(c)

EventNext ==
  \/ \E s \in Subscription : Subscribe(s) \/ Unsubscribe(s)
  \/ Emit
  \/ \E c \in Courier : Deliver(c) \/ RetryFailed(c) \/ CourierDies(c)

\* The application calls deliver_pending() and retry_failed() again and again,
\* and either comes to its turn.
EventFairness == \A c \in Courier : WF_eventVars(Deliver(c)) /\ SF_eventVars(RetryFailed(c))

EventSpec == EventInit /\ [][EventNext]_eventVars /\ EventFairness

-----------------------------------------------------------------------------
(* Properties. *)

EventTypeOK ==
  /\ subscribed \subseteq Subscription
  /\ events \in 0..MaxEvents
  /\ emitting.todo \subseteq Subscription
  /\ \A i \in 1..Len(deliveries) :
       deliveries[i].status \in {"pending", "retrying", "delivered", "failed"}
  /\ \A c \in Courier : \A r \in courier[c].todo : r.row \in 1..Len(deliveries)

\* "Maximum number of retry attempts": one courier posts a delivery at most
\* max_retries times, and once more for each time it died before it could
\* record the attempt.
PostsBounded ==
  Cardinality(Courier) = 1 =>
    \A i \in 1..Len(deliveries) : deliveries[i].posts <= MaxRetries + casualties

\* What is recorded as delivered has been received, whatever was lost, late or
\* refused before and whoever died over it.
DeliveredIsReceived ==
  \A i \in 1..Len(deliveries) : deliveries[i].status = "delivered" => deliveries[i].received

\* Nothing stays undecided: again and again every delivery that was queued has
\* been delivered or has failed max_retries times, unless a courier died: a row
\* it left in "retrying" is never read again.
DeliverySettles ==
  []<>(\/ \A i \in 1..Len(deliveries) :
            \/ deliveries[i].status = "delivered"
            \/ deliveries[i].status = "failed" /\ deliveries[i].attempt = MaxRetries
       \/ casualties > 0)

=============================================================================
