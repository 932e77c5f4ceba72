---------------------------- MODULE EventQueues ----------------------------
(***************************************************************************)
(* The queues of the broker: what the relays of OutboxRelay fill and the   *)
(* consumers of InboxConsumers empty.                                      *)
(***************************************************************************)
EXTENDS Naturals

CONSTANTS
    Events, Queues,
    Routes     \* [Events -> SUBSET Queues]: the bindings of the exchange

ASSUME RoutesAssumption == Routes \in [Events -> SUBSET Queues]

VARIABLES
    queues,    \* [Queues -> [Events -> Nat]]: messages ready in each queue that
               \* it has given to nobody yet
    routed     \* the events that ever reached all their queues

brokerVars == <<queues, routed>>

QueuesInit ==
    /\ queues = [q \in Queues |-> [e \in Events |-> 0]]
    /\ routed = {}

\* The queues after the broker routed the messages in arrived.
Enqueued(arrived) ==
    [q \in Queues |-> [e \in Events |->
        IF e \in arrived /\ q \in Routes[e]
          THEN queues[q][e] + 1 ELSE queues[q][e]]]

BrokerTypeOK ==
    /\ queues \in [Queues -> [Events -> Nat]]
    /\ routed \subseteq Events
=============================================================================
