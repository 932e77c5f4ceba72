--------------------------- MODULE EventDelivery ---------------------------
(***************************************************************************)
(* From the outbox to the consumers' effects: the relays of OutboxRelay    *)
(* feed the broker's queues, from which the consumers of InboxConsumers    *)
(* take.  The two share "queues" and "routed" and nothing else.            *)
(***************************************************************************)
EXTENDS OutboxRelay, InboxConsumers

eventVars == <<outboxVars, consumerVars>>

EventInit == RelayInit /\ ConsumerInit

RelayPart == RelayNext /\ UNCHANGED consumerVars

ConsumerPart == ConsumerNext /\ UNCHANGED <<rowVars, relayVars, faults>>

EventNext == RelayPart \/ ConsumerPart

EventSpec == EventInit /\ [][EventNext]_eventVars

\* The relays run for ever and the broker answers; a consumer reconnects, and
\* a handler whose deliveries keep coming back is finally left to finish.
EventFairness ==
    /\ \A e \in Events : WF_eventVars(ComeDue(e) /\ UNCHANGED consumerVars)
                         /\ WF_eventVars(LeaseExpires(e) /\ UNCHANGED consumerVars)
    /\ \A w \in Workers :
         WF_eventVars((CycleStep(w) \/ BrokerStep(w)) /\ UNCHANGED consumerVars)
    /\ \A c \in Channels :
         WF_eventVars(OpenChannel(c) /\ UNCHANGED <<rowVars, relayVars, faults>>)
    /\ \A s \in Slots :
         WF_eventVars(HandlerStep(s) /\ UNCHANGED <<rowVars, relayVars, faults>>)

FairEventSpec == EventSpec /\ EventFairness

-----------------------------------------------------------------------------
Promise == INSTANCE EventOnce
    WITH committed <- {e \in Events : outbox[e] # "absent"}

\* Outbox, broker and inbox together keep the promise: committed events only,
\* and each at most once at each consumer.
ImplementsPromise == Promise!Spec

\* Every committed event finally has its effect at every consumer, or lies in
\* its dead letters: because a webhook projection gave up on it, or because the
\* queue had taken it back too often.
EventsTakeEffect ==
    \A e \in Events \ (Unserializable \cup Malformed) : \A q \in Routes[e] :
        outbox[e] = "pending" ~>
            \/ effects[q][e] = 1
            \/ q \in WebhookQueues /\ <<e, "rejected">> \in deadLetters[q]
            \/ <<e, "delivery_limit">> \in deadLetters[q]
=============================================================================
