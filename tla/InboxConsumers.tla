--------------------------- MODULE InboxConsumers ---------------------------
(***************************************************************************)
(* The consumers of domain events.  A slot is one unacknowledged delivery  *)
(* a consumer process may have for a queue (prefetch), on its channel.     *)
(* Handling a message is one serializable transaction that reserves        *)
(* (consumer, message) in the inbox and runs the effect; only then is the  *)
(* message acknowledged.  When a channel ends the broker takes back its    *)
(* unacknowledged messages, while the handlers that were running go on     *)
(* without their channel.                                                  *)
(*                                                                         *)
(* The queues are quorum queues with a dead-letter exchange and without a  *)
(* delivery limit of their own, so that the broker's default holds: a copy *)
(* that was taken back DeliveryLimit times is dead-lettered the next time, *)
(* though no consumer rejected it.  A quorum queue counts each return, so  *)
(* the copies that were taken back are kept apart from the fresh ones.     *)
(***************************************************************************)
EXTENDS EventQueues, FiniteSets

CONSTANTS
    Channels, Slots,
    ChannelOf,     \* [Slots -> Channels]
    QueueOf,       \* [Slots -> Queues]: the queue its consumer reads
    WebhookQueues, \* the queues of the webhook projection; the rest belong
                   \* to the settlement projection
    Malformed,     \* the events that fail the consumer's contract check
    NoEvent,
    RetryAttempts, \* of InboxService.processForConsumer
    DeliveryLimit, \* how often a quorum queue takes a copy back: 20
    MaxCopies,     \* bound: how often the broker is given an event
    MaxUpsets      \* bound: how many consumer faults happen

ASSUME ConsumerAssumption ==
    /\ IsFiniteSet(Slots)
    /\ ChannelOf \in [Slots -> Channels]
    /\ QueueOf \in [Slots -> Queues]
    /\ WebhookQueues \subseteq Queues
    /\ Malformed \subseteq Events
    /\ NoEvent \notin Events
    /\ RetryAttempts \in Nat \ {0}
    /\ DeliveryLimit \in Nat
    /\ MaxCopies \in Nat
    /\ MaxUpsets \in Nat

VARIABLES
    requeued,     \* [Queues -> [Events -> [1..DeliveryLimit -> Nat]]]: copies
                  \* ready once more, by how often they were taken back
    deadLetters,  \* [Queues -> SUBSET (Events \X Reasons)]: the queue's
                  \* dead-letter queue, with the reason the broker adds
    inbox,        \* [Queues -> SUBSET Events]: inbox_messages, by consumer
    effects,      \* [Queues -> [Events -> Nat]]: committed effects
    open,         \* [Channels -> BOOLEAN]
    phase,        \* [Slots -> Phases]
    message,      \* [Slots -> Events \cup {NoEvent}]
    owned,        \* [Slots -> BOOLEAN]: the delivery's channel is current
    returns,      \* [Slots -> 0..DeliveryLimit]: of the copy it holds
    found,        \* [Slots -> BOOLEAN]: its snapshot holds the inbox row
    tries,        \* [Slots -> Nat]: transactions of this delivery so far
    upsets        \* consumer faults so far

slotVars == <<phase, message, owned, returns, found, tries>>
durableVars == <<inbox, effects>>
deadVars == <<requeued, deadLetters>>
consumerVars == <<deadVars, durableVars, open, slotVars, upsets>>
inboxVars == <<brokerVars, consumerVars>>

Phases == {"idle", "received", "working", "committed"}
Reasons == {"rejected", "delivery_limit"}

ConsumerInit ==
    /\ requeued = [q \in Queues |-> [e \in Events |-> [n \in 1 .. DeliveryLimit |-> 0]]]
    /\ deadLetters = [q \in Queues |-> {}]
    /\ inbox = [q \in Queues |-> {}]
    /\ effects = [q \in Queues |-> [e \in Events |-> 0]]
    /\ open = [c \in Channels |-> FALSE]
    /\ phase = [s \in Slots |-> "idle"]
    /\ message = [s \in Slots |-> NoEvent]
    /\ owned = [s \in Slots |-> FALSE]
    /\ returns = [s \in Slots |-> 0]
    /\ found = [s \in Slots |-> FALSE]
    /\ tries = [s \in Slots |-> 0]
    /\ upsets = 0

InboxInit ==
    /\ QueuesInit
    /\ ConsumerInit

Upset ==
    /\ upsets < MaxUpsets
    /\ upsets' = upsets + 1

-----------------------------------------------------------------------------
\* Channels and deliveries.

\* connectAndConsume.
OpenChannel(c) ==
    /\ ~open[c]
    /\ open' = [open EXCEPT ![c] = TRUE]
    /\ UNCHANGED <<queues, routed, deadVars, durableVars, slotVars, upsets>>

\* A mutant: noAck, the broker forgets a message as it hands it over.
AutoAck == FALSE

\* noAck: false
ManualAck == TRUE

\* A copy of e is ready in q.
Ready(q, e) ==
    queues[q][e] > 0 \/ \E n \in 1 .. DeliveryLimit : requeued[q][e][n] > 0

\* The queue q gives out a copy of e that it has taken back n times.
GiveOut(q, e, n) ==
    \/ /\ n = 0
       /\ queues[q][e] > 0
       /\ queues' = [queues EXCEPT ![q][e] = @ - 1]
       /\ UNCHANGED requeued
    \/ /\ n > 0
       /\ requeued[q][e][n] > 0
       /\ requeued' = [requeued EXCEPT ![q][e][n] = @ - 1]
       /\ UNCHANGED queues

\* The broker hands a ready message of the queue to a free slot.
Deliver(s, e, n) ==
    /\ open[ChannelOf[s]]
    /\ phase[s] = "idle"
    /\ GiveOut(QueueOf[s], e, n)
    /\ phase' = [phase EXCEPT ![s] = "received"]
    /\ message' = [message EXCEPT ![s] = e]
    /\ owned' = [owned EXCEPT ![s] = ManualAck]
    /\ returns' = [returns EXCEPT ![s] = n]
    /\ tries' = [tries EXCEPT ![s] = 0]
    /\ UNCHANGED <<routed, deadLetters, durableVars, open, found, upsets>>

\* The delivery of s is over: acknowledged, dead-lettered or given back.
Free(s) ==
    /\ phase' = [phase EXCEPT ![s] = "idle"]
    /\ message' = [message EXCEPT ![s] = NoEvent]
    /\ owned' = [owned EXCEPT ![s] = FALSE]
    /\ returns' = [returns EXCEPT ![s] = 0]
    /\ UNCHANGED <<found, tries>>

\* The deliveries of e for q that the channel c holds unacknowledged, of a
\* copy taken back n times before.
Unacked(c, q, e, n) ==
    {s \in Slots : /\ ChannelOf[s] = c /\ QueueOf[s] = q
                   /\ owned[s] /\ message[s] = e /\ returns[s] = n}

\* The copies of e in q that were taken back, once those of c are too.
TakenBack(c, q, e) ==
    [n \in 1 .. DeliveryLimit |->
        requeued[q][e][n] + Cardinality(Unacked(c, q, e, n - 1))]

\* The messages of q that the broker will not take back from c once more.
PastLimit(c, q) == {e \in Events : Unacked(c, q, e, DeliveryLimit) # {}}

\* The channel c ends: the broker takes back what it holds, for another
\* delivery or, past the limit, for the dead letters.  The handlers in "gone"
\* end with it, the others go on without a channel.
EndChannel(c, gone) ==
    /\ open' = [open EXCEPT ![c] = FALSE]
    /\ requeued' = [q \in Queues |-> [e \in Events |-> TakenBack(c, q, e)]]
    /\ deadLetters' = [q \in Queues |->
                         deadLetters[q] \cup (PastLimit(c, q) \X {"delivery_limit"})]
    /\ owned' = [s \in Slots |-> owned[s] /\ ChannelOf[s] # c]
    /\ returns' = [s \in Slots |-> IF ChannelOf[s] = c THEN 0 ELSE returns[s]]
    /\ phase' = [s \in Slots |-> IF s \in gone THEN "idle" ELSE phase[s]]
    /\ message' = [s \in Slots |-> IF s \in gone THEN NoEvent ELSE message[s]]
    /\ UNCHANGED <<queues, routed, durableVars, found, tries>>

-----------------------------------------------------------------------------
\* One delivery.

\* A message that fails its contract check, or a permanent refusal of the
\* webhook projection: rejected without requeue, if the channel is current.
RejectIfOwned(s) ==
    /\ deadLetters' = IF owned[s]
                        THEN [deadLetters EXCEPT
                                ![QueueOf[s]] = @ \cup {<<message[s], "rejected">>}]
                        ELSE deadLetters
    /\ Free(s)
    /\ UNCHANGED <<queues, routed, requeued, durableVars, open, upsets>>

RejectMalformed(s) ==
    /\ phase[s] = "received"
    /\ message[s] \in Malformed
    /\ owned[s] \/ QueueOf[s] \in WebhookQueues
    /\ RejectIfOwned(s)

AttemptsLeft(s) == tries[s] < RetryAttempts

\* The transaction's first read fixes its snapshot.
Begin(s) ==
    /\ phase[s] = "received"
    /\ message[s] \notin Malformed
    /\ AttemptsLeft(s)
    /\ phase' = [phase EXCEPT ![s] = "working"]
    /\ found' = [found EXCEPT ![s] = message[s] \in inbox[QueueOf[s]]]
    /\ tries' = [tries EXCEPT ![s] = @ + 1]
    /\ UNCHANGED <<queues, routed, deadVars, durableVars, open, message, returns,
                   owned, upsets>>

\* The reservation finds the row: nothing is done again.
Duplicate(s) ==
    /\ phase[s] = "working"
    /\ found[s]
    /\ phase' = [phase EXCEPT ![s] = "committed"]
    /\ UNCHANGED <<queues, routed, deadVars, durableVars, open, message, returns,
                   owned, found, tries, upsets>>

\* A mutant: without serializable isolation the snapshot decides alone.
ReservableInSnapshot(s) == ~found[s]

\* The row (consumer, message) is still free when the reservation commits.
Reservable(s) == ~found[s] /\ message[s] \notin inbox[QueueOf[s]]

\* Inbox row and effect commit together.
CommitEffect(s) ==
    /\ phase[s] = "working"
    /\ Reservable(s)
    /\ inbox' = [inbox EXCEPT ![QueueOf[s]] = @ \cup {message[s]}]
    /\ effects' = [effects EXCEPT ![QueueOf[s]][message[s]] = @ + 1]
    /\ phase' = [phase EXCEPT ![s] = "committed"]
    /\ UNCHANGED <<queues, routed, deadVars, open, message, returns, owned,
                   found, tries, upsets>>

\* 40001, 40P01 or P2034: because another delivery of the message committed
\* the row after this snapshot, or for reasons of other transactions.
SerializationFailure(s) ==
    /\ phase[s] = "working"
    /\ ~found[s]
    /\ IF Reservable(s) THEN Upset ELSE UNCHANGED upsets
    /\ phase' = [phase EXCEPT ![s] = "received"]
    /\ UNCHANGED <<queues, routed, deadVars, durableVars, open, message, returns,
                   owned, found, tries>>

\* A mutant: the settlement consumer gives up like the webhook projection.
PermanentEverywhere(s) == TRUE

\* Only the webhook projection takes exhausted retries for permanent.
PermanentWhenExhausted(s) == QueueOf[s] \in WebhookQueues

\* MessageTransactionRetryExhaustedError: the message is rejected.
RejectExhausted(s) ==
    /\ PermanentWhenExhausted(s)
    /\ phase[s] = "received"
    /\ ~AttemptsLeft(s)
    /\ RejectIfOwned(s)

\* invalidateChannel does nothing unless the channel is current; the
\* settlement consumer disposes of whatever channel it has.
GiveUp(s) ==
    IF owned[s] \/ (QueueOf[s] \notin WebhookQueues /\ open[ChannelOf[s]])
      THEN EndChannel(ChannelOf[s], {s})
      ELSE /\ Free(s)
           /\ UNCHANGED <<queues, routed, deadVars, durableVars, open>>

\* The settlement consumer rejects nothing but a broken contract it still owns.
Redeliver(s) ==
    /\ QueueOf[s] \notin WebhookQueues
    /\ phase[s] = "received"
    /\ IF message[s] \in Malformed
         THEN ~owned[s]
         ELSE ~AttemptsLeft(s)
    /\ GiveUp(s)
    /\ UNCHANGED upsets

\* The handler fails: PostgreSQL is unavailable, or the answer to a COMMIT
\* that happened is lost.
HandlerFails(s) ==
    /\ Upset
    /\ phase[s] \in {"working", "committed"}
    /\ GiveUp(s)

\* After the commit, and only on the channel that delivered the message.
Acknowledge(s) ==
    /\ phase[s] = "committed"
    /\ Free(s)
    /\ UNCHANGED <<queues, routed, deadVars, durableVars, open, upsets>>

\* The broker or the connection ends the channel under running handlers.
LoseDeliveries(c) ==
    /\ Upset
    /\ open[c]
    /\ EndChannel(c, {})

\* The process of c dies.
ConsumerCrash(c) ==
    /\ Upset
    /\ EndChannel(c, {s \in Slots : ChannelOf[s] = c})

-----------------------------------------------------------------------------
\* The broker takes another copy of e into its queues.  (In EventDelivery
\* this is the relay's doing.)
Arrive(e) ==
    /\ \A q \in Routes[e] :
         /\ queues[q][e] < MaxCopies
         /\ \A n \in 1 .. DeliveryLimit : requeued[q][e][n] < MaxCopies
    /\ queues' = Enqueued({e})
    /\ routed' = routed \cup {e}
    /\ UNCHANGED consumerVars

HandlerStep(s) ==
    \/ \E e \in Events, n \in 0 .. DeliveryLimit : Deliver(s, e, n)
    \/ RejectMalformed(s)
    \/ Begin(s)
    \/ Duplicate(s)
    \/ CommitEffect(s)
    \/ SerializationFailure(s)
    \/ RejectExhausted(s)
    \/ Redeliver(s)
    \/ Acknowledge(s)

UpsetStep ==
    \/ \E s \in Slots : HandlerFails(s)
    \/ \E c \in Channels : LoseDeliveries(c) \/ ConsumerCrash(c)

ConsumerNext ==
    \/ \E c \in Channels : OpenChannel(c)
    \/ \E s \in Slots : HandlerStep(s)
    \/ UpsetStep

InboxNext == ConsumerNext \/ \E e \in Events : Arrive(e)

InboxSpec == InboxInit /\ [][InboxNext]_inboxVars

-----------------------------------------------------------------------------
\* The consumers' variables keep their types.
InboxTypeOK ==
    /\ BrokerTypeOK
    /\ requeued \in [Queues -> [Events -> [1 .. DeliveryLimit -> Nat]]]
    /\ deadLetters \in [Queues -> SUBSET (Events \X Reasons)]
    /\ inbox \in [Queues -> SUBSET Events]
    /\ effects \in [Queues -> [Events -> Nat]]
    /\ open \in [Channels -> BOOLEAN]
    /\ phase \in [Slots -> Phases]
    /\ message \in [Slots -> Events \cup {NoEvent}]
    /\ owned \in [Slots -> BOOLEAN]
    /\ returns \in [Slots -> 0 .. DeliveryLimit]
    /\ found \in [Slots -> BOOLEAN]
    /\ tries \in [Slots -> 0 .. RetryAttempts]
    /\ upsets \in Nat

\* A consumer applies a message exactly as often as its inbox says: once or
\* not at all, whatever is redelivered, duplicated or handled twice at a time.
EffectOncePerMessage ==
    \A q \in Queues, e \in Events :
        effects[q][e] = IF e \in inbox[q] THEN 1 ELSE 0

\* A message the broker accepted is never lost: it is ready, held by a
\* channel that is alive, applied, or kept in the dead-letter queue.
NoMessageLost ==
    \A e \in routed, q \in Queues : q \in Routes[e] =>
        \/ Ready(q, e)
        \/ \E s \in Slots : QueueOf[s] = q /\ owned[s] /\ message[s] = e
        \/ e \in inbox[q]
        \/ \E r \in Reasons : <<e, r>> \in deadLetters[q]
=============================================================================
