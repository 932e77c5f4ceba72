------------------------ MODULE EventDelivery_proofs ------------------------
(***************************************************************************)
(* Proofs about the way of an event, for any number of events, relays,     *)
(* queues, channels and handlers.  OutboxRelay: what is marked published   *)
(* was routed.  InboxConsumers: what was routed is not lost and takes      *)
(* effect at most once at each consumer.  EventDelivery, their composition *)
(* with the outbox rows, implements EventOnce.  EventContracts: what the   *)
(* services write can be published, and what is published is accepted.     *)
(* WebhookProjection: what a projection makes of an accepted event.        *)
(***************************************************************************)
EXTENDS EventDelivery, WebhookProjection, FiniteSetTheorems, TLAPS

(***************************************************************************)
(* The relays.                                                             *)
(***************************************************************************)
RelayMaps ==
    /\ batch \in [Workers -> SUBSET Events]
    /\ onWire \in [Workers -> SUBSET Events]
    /\ acking \in [Workers -> SUBSET Events]
    /\ confirmed \in [Workers -> SUBSET Events]
    /\ failed \in [Workers -> SUBSET Events]
    /\ connected \in [Workers -> BOOLEAN]

\* What the broker has taken from a relay, it has put into the queues.
TakenWereRouted == \A w \in Workers : acking[w] \cup confirmed[w] \subseteq routed

\* A message is at one stage: on the wire, taken, confirmed or failed.
Finished(w) == confirmed[w] \cup failed[w]
StagesDisjoint == \A w \in Workers :
    onWire[w] \cap acking[w] = {} /\ (onWire[w] \cup acking[w]) \cap Finished(w) = {}

\* A relay works on committed events, and only a pending row is locked.
CommittedOnly ==
    /\ \A w \in Workers : \A e \in batch[w] : outbox[e] # "absent"
    /\ \A e \in Events : holder[e] # NoWorker => outbox[e] = "pending"

RelayInv ==
    /\ RelayTypeOK /\ RelayMaps
    /\ TakenWereRouted /\ StagesDisjoint
    /\ CommittedOnly /\ PublishedWasRouted

LEMMA RelayInitInv == RelayInit => RelayInv
  BY DEF RelayInit, RelayInv, RelayTypeOK, RelayMaps, TakenWereRouted, CommittedOnly,
         StagesDisjoint, Finished, PublishedWasRouted, QueuesInit, BrokerTypeOK

LEMMA EnqueuedTyped ==
    ASSUME BrokerTypeOK, NEW arrived \in SUBSET Events,
           queues' = Enqueued(arrived), routed' = routed \cup arrived
    PROVE  BrokerTypeOK'
  BY DEF BrokerTypeOK, Enqueued

LEMMA FaultTyped == faults \in Nat /\ Fault => faults' \in Nat
  BY DEF Fault

LEMMA AppendEventInv ==
    ASSUME RelayInv, NEW e \in Events, AppendEvent(e)
    PROVE  RelayInv'
<1> USE DEF AppendEvent, JoinsLine, Due, RelayInv, rowVars, relayVars, brokerVars
<1>1. RelayTypeOK'
  BY DEF RelayTypeOK, BrokerTypeOK
<1>2. RelayMaps' /\ TakenWereRouted' /\ StagesDisjoint'
  BY DEF RelayMaps, TakenWereRouted, StagesDisjoint, Finished
<1>3. CommittedOnly' /\ PublishedWasRouted'
  BY DEF RelayTypeOK, CommittedOnly, PublishedWasRouted
<1> QED
  BY <1>1, <1>2, <1>3

LEMMA ComeDueInv ==
    ASSUME RelayInv, NEW e \in Events, ComeDue(e)
    PROVE  RelayInv'
<1> USE DEF ComeDue, JoinsLine, Due, RelayInv, rowVars, relayVars, brokerVars
<1>1. RelayTypeOK'
  BY DEF RelayTypeOK, BrokerTypeOK
<1>2. RelayMaps' /\ TakenWereRouted' /\ StagesDisjoint'
      /\ CommittedOnly' /\ PublishedWasRouted'
  BY DEF RelayMaps, TakenWereRouted, StagesDisjoint, Finished, CommittedOnly, PublishedWasRouted
<1> QED
  BY <1>1, <1>2

LEMMA LeaseExpiresInv ==
    ASSUME RelayInv, NEW e \in Events, LeaseExpires(e)
    PROVE  RelayInv'
<1> USE DEF LeaseExpires, RelayInv, rowVars, relayVars, brokerVars
<1>1. RelayTypeOK'
  BY FaultTyped DEF RelayTypeOK, BrokerTypeOK
<1>2. RelayMaps' /\ TakenWereRouted' /\ StagesDisjoint'
      /\ CommittedOnly' /\ PublishedWasRouted'
  BY DEF RelayMaps, TakenWereRouted, StagesDisjoint, Finished, CommittedOnly, PublishedWasRouted
<1> QED
  BY <1>1, <1>2

LEMMA BatchClaimable == \A e \in NextBatch : e \in Events /\ outbox[e] = "pending" /\ ~leased[e]
  BY DEF NextBatch, Due, Claimable

LEMMA RelayClaimInv ==
    ASSUME RelayInv, NEW w \in Workers, Claim(w)
    PROVE  RelayInv'
<1> USE DEF Claim, RelayInv, rowVars, relayVars, brokerVars
<1>1. RelayTypeOK'
  BY BatchClaimable, RelayAssumption DEF RelayTypeOK, RelayMaps, BrokerTypeOK
<1>2. RelayMaps' /\ TakenWereRouted' /\ StagesDisjoint'
  BY BatchClaimable DEF RelayMaps, TakenWereRouted, StagesDisjoint, Finished
<1>3. CommittedOnly' /\ PublishedWasRouted'
  BY BatchClaimable DEF RelayTypeOK, RelayMaps, CommittedOnly, PublishedWasRouted
<1> QED
  BY <1>1, <1>2, <1>3

\* The steps of the publisher and the broker: the rows and the batches stay.
LEMMA PublisherInv ==
    ASSUME RelayInv, NEW w \in Workers, UNCHANGED <<rowVars, batch>>, RelayMaps',
           BrokerTypeOK', faults' \in Nat, routed \subseteq routed',
           \A v \in Workers :
              /\ onWire'[v] \cup acking'[v] \cup confirmed'[v] \cup failed'[v] \subseteq batch[v]
              /\ acking'[v] \cup confirmed'[v] \subseteq routed'
             /\ onWire'[v] \cap acking'[v] = {}
             /\ (onWire'[v] \cup acking'[v]) \cap (confirmed'[v] \cup failed'[v]) = {}
              /\ onWire'[v] \cap acking'[v] = {}
              /\ (onWire'[v] \cup acking'[v]) \cap (confirmed'[v] \cup failed'[v]) = {}
    PROVE  RelayInv'
<1> USE DEF RelayInv, rowVars
<1>1. RelayTypeOK'
  BY DEF RelayTypeOK, RelayMaps
<1>2. TakenWereRouted' /\ StagesDisjoint' /\ CommittedOnly' /\ PublishedWasRouted'
  BY DEF TakenWereRouted, StagesDisjoint, Finished, CommittedOnly, PublishedWasRouted
<1> QED
  BY <1>1, <1>2

LEMMA PublisherStepInv ==
    ASSUME RelayInv, NEW w \in Workers, NEW e \in Events,
           \/ Publish(w, e) \/ CannotPublish(w, e) \/ Confirm(w, e)
           \/ BrokerRoutes(w, e) \/ BrokerRefuses(w, e)
    PROVE  RelayInv'
<1>1. UNCHANGED <<rowVars, batch>>
  BY DEF Publish, CannotPublish, Confirm, BrokerRoutes, BrokerRefuses
<1>2. BrokerTypeOK' /\ routed \subseteq routed'
  <2>1. BrokerTypeOK
    BY DEF RelayInv, RelayTypeOK
  <2>2. CASE BrokerRoutes(w, e)
    BY <2>1, <2>2, EnqueuedTyped DEF BrokerRoutes
  <2>3. CASE UNCHANGED brokerVars
    BY <2>1, <2>3 DEF brokerVars, BrokerTypeOK
  <2> QED
    BY <2>2, <2>3 DEF Publish, CannotPublish, Confirm, BrokerRefuses, brokerVars
<1>3. faults' \in Nat
  BY FaultTyped
  DEF Publish, CannotPublish, Confirm, BrokerRoutes, BrokerRefuses, RelayInv, RelayTypeOK
<1>4. RelayMaps'
  <2>1. RelayMaps
    BY DEF RelayInv
  <2>2. CASE Publish(w, e) \/ CannotPublish(w, e)
    BY <2>1, <2>2 DEF Publish, CannotPublish, RelayMaps
  <2>3. CASE Confirm(w, e) \/ BrokerRoutes(w, e)
    BY <2>1, <2>3 DEF Confirm, BrokerRoutes, RelayMaps
  <2>4. CASE BrokerRefuses(w, e)
    BY <2>1, <2>4 DEF BrokerRefuses, RelayMaps
  <2> QED
    BY <2>2, <2>3, <2>4
<1>5. ASSUME NEW v \in Workers
      PROVE  /\ onWire'[v] \cup acking'[v] \cup confirmed'[v] \cup failed'[v] \subseteq batch[v]
             /\ acking'[v] \cup confirmed'[v] \subseteq routed'
             /\ onWire'[v] \cap acking'[v] = {}
             /\ (onWire'[v] \cup acking'[v]) \cap (confirmed'[v] \cup failed'[v]) = {}
  <2>1. /\ onWire[v] \cup acking[v] \cup confirmed[v] \cup failed[v] \subseteq batch[v]
        /\ acking[v] \cup confirmed[v] \subseteq routed
        /\ onWire[v] \cap acking[v] = {}
        /\ (onWire[v] \cup acking[v]) \cap (confirmed[v] \cup failed[v]) = {}
        /\ RelayMaps
    BY DEF RelayInv, RelayTypeOK, TakenWereRouted, StagesDisjoint, Finished
  <2>3. CASE Publish(w, e) \/ CannotPublish(w, e)
    BY <1>2, <2>1, <2>3 DEF Publish, CannotPublish, Unpublished, RelayMaps
  <2>4. CASE Confirm(w, e)
    BY <1>2, <2>1, <2>4 DEF Confirm, RelayMaps, RelayInv, RelayTypeOK, TakenWereRouted
  <2>5. CASE BrokerRoutes(w, e)
    BY <1>2, <2>1, <2>5 DEF BrokerRoutes, RelayMaps, RelayInv, RelayTypeOK
  <2>6. CASE BrokerRefuses(w, e)
    BY <1>2, <2>1, <2>6 DEF BrokerRefuses, RelayMaps, RelayInv, RelayTypeOK
  <2> QED
    BY <2>3, <2>4, <2>5, <2>6
<1> QED
  BY <1>1, <1>2, <1>3, <1>4, <1>5, PublisherInv

\* The end of a channel leaves what had been taken, and routes some of the rest.
LEMMA HangupTyped ==
    ASSUME RelayInv, NEW w \in Workers, Hangup(w)
    PROVE  /\ BrokerTypeOK' /\ routed \subseteq routed'
           /\ onWire' = [onWire EXCEPT ![w] = {}] /\ acking' = [acking EXCEPT ![w] = {}]
           /\ connected' = [connected EXCEPT ![w] = FALSE]
<1>1. PICK arrived \in SUBSET onWire[w] :
        queues' = Enqueued(arrived) /\ routed' = routed \cup arrived
  BY DEF Hangup
<1>2. arrived \in SUBSET Events
  BY DEF RelayInv, RelayMaps
<1> QED
  BY <1>1, <1>2, EnqueuedTyped DEF Hangup, RelayInv, RelayTypeOK

LEMMA LoseChannelInv ==
    ASSUME RelayInv, NEW w \in Workers, LoseChannel(w)
    PROVE  RelayInv'
<1>1. /\ BrokerTypeOK' /\ routed \subseteq routed' /\ RelayMaps
      /\ onWire' = [onWire EXCEPT ![w] = {}] /\ acking' = [acking EXCEPT ![w] = {}]
      /\ connected' = [connected EXCEPT ![w] = FALSE]
      /\ failed' = [failed EXCEPT ![w] = @ \cup onWire[w] \cup acking[w]]
      /\ UNCHANGED <<rowVars, batch, confirmed>> /\ faults' \in Nat
  BY HangupTyped, FaultTyped DEF LoseChannel, RelayInv, RelayTypeOK
<1>2. RelayMaps'
  BY <1>1 DEF RelayMaps
<1>3. ASSUME NEW v \in Workers
      PROVE  /\ onWire'[v] \cup acking'[v] \cup confirmed'[v] \cup failed'[v] \subseteq batch[v]
             /\ acking'[v] \cup confirmed'[v] \subseteq routed'
             /\ onWire'[v] \cap acking'[v] = {}
             /\ (onWire'[v] \cup acking'[v]) \cap (confirmed'[v] \cup failed'[v]) = {}
  BY <1>1 DEF RelayMaps, RelayInv, RelayTypeOK, TakenWereRouted, StagesDisjoint, Finished
<1> QED
  BY <1>1, <1>2, <1>3, PublisherInv

LEMMA FinalizeInv ==
    ASSUME RelayInv, NEW w \in Workers, Finalize(w)
    PROVE  RelayInv'
<1> USE DEF RelayInv
<1>1. Owned(w) \subseteq Events /\ \A e \in Owned(w) : outbox[e] = "pending" /\ holder[e] = w
  BY DEF Owned, RelayMaps
<1>2. Published(w) \subseteq Owned(w) /\ Released(w) = Owned(w) /\ Published(w) \subseteq routed
  BY DEF Published, Released, TakenWereRouted
<1>3. RelayMaps' /\ TakenWereRouted' /\ StagesDisjoint'
  BY DEF Finalize, RelayMaps, TakenWereRouted, StagesDisjoint, Finished, brokerVars
<1>4. RelayTypeOK'
  <2>1. \A v \in Workers :
          /\ batch'[v] \subseteq Events
          /\ onWire'[v] \cup acking'[v] \cup confirmed'[v] \cup failed'[v] \subseteq batch'[v]
          /\ connected'[v] \in BOOLEAN
    BY DEF Finalize, RelayTypeOK, RelayMaps, StagesDisjoint, Finished
  <2>2. line' \subseteq Events \X Events
    BY DEF Finalize, LeaveLine, RelayTypeOK
  <2>3. /\ outbox' \in [Events -> {"absent", "pending", "published"}]
        /\ holder' \in [Events -> Workers \cup {NoWorker}]
        /\ leased' \in [Events -> BOOLEAN]
    BY DEF Finalize, RelayTypeOK
  <2>4. /\ \A e \in Events : leased'[e] => holder'[e] # NoWorker
        /\ \A e \in Events : outbox'[e] = "published" => holder'[e] = NoWorker
    BY <1>1, <1>2 DEF Finalize, RelayTypeOK
  <2>5. BrokerTypeOK' /\ faults' \in Nat
    BY DEF Finalize, RelayTypeOK, BrokerTypeOK, brokerVars
  <2> QED
    BY <2>1, <2>2, <2>3, <2>4, <2>5 DEF RelayTypeOK
<1>5. CommittedOnly'
  BY <1>1, <1>2 DEF Finalize, CommittedOnly, RelayMaps, RelayTypeOK
<1>6. PublishedWasRouted'
  BY <1>1, <1>2 DEF Finalize, PublishedWasRouted, brokerVars
<1> QED
  BY <1>3, <1>4, <1>5, <1>6

\* A batch is forgotten: by a refused finalization, or with its process.
LEMMA ForgottenInv ==
    ASSUME RelayInv, NEW w \in Workers, UNCHANGED rowVars, faults' \in Nat,
           BrokerTypeOK', routed \subseteq routed',
           batch' = [batch EXCEPT ![w] = {}],
           confirmed' = [confirmed EXCEPT ![w] = {}], failed' = [failed EXCEPT ![w] = {}],
           onWire' = [onWire EXCEPT ![w] = {}], acking' = [acking EXCEPT ![w] = {}],
           connected' \in [Workers -> BOOLEAN]
    PROVE  RelayInv'
<1> USE DEF RelayInv, rowVars
<1>1. RelayMaps' /\ TakenWereRouted' /\ StagesDisjoint'
  BY DEF RelayMaps, TakenWereRouted, StagesDisjoint, Finished
<1>2. RelayTypeOK'
  BY DEF RelayTypeOK, RelayMaps
<1>3. CommittedOnly' /\ PublishedWasRouted'
  BY DEF CommittedOnly, PublishedWasRouted, RelayMaps
<1> QED
  BY <1>1, <1>2, <1>3

LEMMA RelayCrashInv ==
    ASSUME RelayInv, NEW w \in Workers, RelayCrash(w)
    PROVE  RelayInv'
<1>1. faults' \in Nat /\ connected' \in [Workers -> BOOLEAN]
  BY HangupTyped, FaultTyped DEF RelayCrash, RelayInv, RelayTypeOK, RelayMaps
<1> QED
  BY <1>1, HangupTyped, ForgottenInv DEF RelayCrash

LEMMA FinalizeFailsInv ==
    ASSUME RelayInv, NEW w \in Workers, FinalizeFails(w)
    PROVE  RelayInv'
<1> USE DEF FinalizeFails, RelayInv
<1>1. RelayMaps' /\ TakenWereRouted' /\ StagesDisjoint'
  BY DEF RelayMaps, TakenWereRouted, StagesDisjoint, Finished, brokerVars
<1>2. RelayTypeOK'
  BY FaultTyped DEF RelayTypeOK, RelayMaps, StagesDisjoint, Finished, BrokerTypeOK, rowVars, brokerVars
<1>3. CommittedOnly' /\ PublishedWasRouted'
  BY DEF CommittedOnly, PublishedWasRouted, RelayMaps, rowVars, brokerVars
<1> QED
  BY <1>1, <1>2, <1>3

LEMMA RelayNextInv == RelayInv /\ [RelayNext]_outboxVars => RelayInv'
<1> SUFFICES ASSUME RelayInv, [RelayNext]_outboxVars
             PROVE  RelayInv'
  OBVIOUS
<1>1. ASSUME NEW e \in Events, AppendEvent(e) \/ ComeDue(e) \/ LeaseExpires(e)
      PROVE  RelayInv'
  BY <1>1, AppendEventInv, ComeDueInv, LeaseExpiresInv
<1>2. ASSUME NEW w \in Workers, CycleStep(w) \/ BrokerStep(w) PROVE RelayInv'
  <2>1. CASE Connect(w)
    BY <2>1
    DEF Connect, RelayInv, RelayTypeOK, RelayMaps, TakenWereRouted, StagesDisjoint, Finished,
        CommittedOnly, PublishedWasRouted, BrokerTypeOK, rowVars, brokerVars
  <2>2. CASE Claim(w) \/ Finalize(w)
    BY <2>2, RelayClaimInv, FinalizeInv
  <2>3. ASSUME NEW e \in Events,
               Publish(w, e) \/ CannotPublish(w, e) \/ Confirm(w, e) \/ BrokerRoutes(w, e)
        PROVE  RelayInv'
    BY <2>3, PublisherStepInv
  <2> QED
    BY <1>2, <2>1, <2>2, <2>3 DEF CycleStep, BrokerStep
<1>3. ASSUME NEW w \in Workers, FaultStep(w) PROVE RelayInv'
  BY <1>3, PublisherStepInv, LoseChannelInv, FinalizeFailsInv, RelayCrashInv DEF FaultStep
<1>4. CASE UNCHANGED outboxVars
  BY <1>4
  DEF outboxVars, RelayInv, RelayTypeOK, RelayMaps, TakenWereRouted, StagesDisjoint, Finished,
      CommittedOnly, PublishedWasRouted, BrokerTypeOK, rowVars, relayVars, brokerVars
<1> QED
  BY <1>1, <1>2, <1>3, <1>4 DEF RelayNext

THEOREM RelaySpecInv == RelaySpec => []RelayInv
<1> QED
  BY RelayInitInv, RelayNextInv, PTL DEF RelaySpec

\* Type correctness of the relays, with what the table's checks demand of locks.
THEOREM RelayTypeCorrect == RelaySpec => []RelayTypeOK
<1>1. RelayInv => RelayTypeOK
  BY DEF RelayInv
<1> QED
  BY <1>1, RelaySpecInv, PTL

\* finalize marks an event published only when the broker put it into every
\* queue bound to it.
THEOREM PublishedIsRouted == RelaySpec => []PublishedWasRouted
<1>1. RelayInv => PublishedWasRouted
  BY DEF RelayInv
<1> QED
  BY <1>1, RelaySpecInv, PTL

\* claimPending takes no row under a live lease, and finalize clears only the
\* locks of the rows that its relay claimed and still owns.
THEOREM ClaimsEnd == RelaySpec => ClaimsEndByHolder
<1> DEFINE Kept == \A e \in Events :
             leased[e] /\ holder'[e] # holder[e] =>
                \E w \in Workers : holder[e] = w /\ e \in batch[w] /\ e \notin batch'[w]
<1>1. RelayInv /\ [RelayNext]_outboxVars => [Kept]_outboxVars
  <2> SUFFICES ASSUME RelayInv, RelayNext, NEW e \in Events, leased[e], holder'[e] # holder[e]
               PROVE  \E w \in Workers : holder[e] = w /\ e \in batch[w] /\ e \notin batch'[w]
    OBVIOUS
  <2>1. ASSUME NEW f \in Events, AppendEvent(f) \/ ComeDue(f) \/ LeaseExpires(f)
        PROVE  UNCHANGED holder
    BY <2>1 DEF AppendEvent, ComeDue, LeaseExpires
  <2>2. ASSUME NEW w \in Workers, Claim(w) PROVE FALSE
    BY <2>2, BatchClaimable DEF Claim
  <2>3. ASSUME NEW w \in Workers, Finalize(w)
        PROVE  holder[e] = w /\ e \in batch[w] /\ e \notin batch'[w]
    BY <2>3 DEF Finalize, Released, Owned, RelayInv, RelayMaps
  <2>4. ASSUME NEW w \in Workers, FaultStep(w) PROVE UNCHANGED holder
    BY <2>4 DEF FaultStep, BrokerRefuses, LoseChannel, FinalizeFails, RelayCrash, rowVars
  <2>5. ASSUME NEW w \in Workers, CycleStep(w) \/ BrokerStep(w), ~Claim(w), ~Finalize(w)
        PROVE  UNCHANGED holder
    BY <2>5
    DEF CycleStep, BrokerStep, Connect, Publish, CannotPublish, Confirm, BrokerRoutes, rowVars
  <2> QED
    BY <2>1, <2>2, <2>3, <2>4, <2>5 DEF RelayNext
<1> QED
  BY <1>1, RelaySpecInv, PTL DEF RelaySpec, ClaimsEndByHolder

-----------------------------------------------------------------------------
(***************************************************************************)
(* The consumers.                                                          *)
(***************************************************************************)
\* What a slot holds, and how far it is.
SlotSound(s) ==
    /\ phase[s] = "idle" <=> message[s] = NoEvent
    /\ owned[s] => phase[s] # "idle"
    /\ phase[s] \in {"working", "committed"} => message[s] \notin Malformed
    /\ phase[s] = "committed" => message[s] \in inbox[QueueOf[s]]
    /\ phase[s] = "working" /\ found[s] => message[s] \in inbox[QueueOf[s]]

DeadLettered(q, e) == \E r \in Reasons : <<e, r>> \in deadLetters[q]

ConsumerInv ==
    /\ InboxTypeOK
    /\ \A s \in Slots : SlotSound(s)
    /\ EffectOncePerMessage
    /\ NoMessageLost

LEMMA ConsumerInitInv == QueuesInit /\ ConsumerInit => ConsumerInv
  BY ConsumerAssumption
  DEF QueuesInit, ConsumerInit, ConsumerInv, Reasons, InboxTypeOK, BrokerTypeOK, SlotSound, Phases,
      EffectOncePerMessage, NoMessageLost

\* Messages arrive: from the broker, or from the relays.
LEMMA ArrivedInv ==
    ASSUME ConsumerInv, NEW arrived \in SUBSET Events,
           queues' = Enqueued(arrived), routed' = routed \cup arrived, UNCHANGED consumerVars
    PROVE  ConsumerInv'
<1> USE DEF consumerVars, deadVars, durableVars, slotVars
<1>1. BrokerTypeOK /\ BrokerTypeOK'
  BY EnqueuedTyped DEF ConsumerInv, InboxTypeOK
<1>2. InboxTypeOK'
  BY <1>1 DEF ConsumerInv, InboxTypeOK
<1>3. NoMessageLost'
  <2> SUFFICES ASSUME NEW e \in routed', NEW q \in Queues, q \in Routes[e]
               PROVE  \/ Ready(q, e)'
                      \/ \E s \in Slots : QueueOf[s] = q /\ owned[s] /\ message[s] = e
                      \/ e \in inbox[q]
                      \/ DeadLettered(q, e)
    BY DEF NoMessageLost, DeadLettered
  <2>1. e \in Events /\ queues[q][e] \in Nat
    BY <1>1 DEF BrokerTypeOK
  <2>2. CASE e \in arrived
    BY <2>1, <2>2 DEF Enqueued, Ready
  <2>3. CASE e \notin arrived
    BY <2>1, <2>3 DEF Enqueued, ConsumerInv, NoMessageLost, Ready, DeadLettered
  <2> QED
    BY <2>2, <2>3
<1>4. (\A s \in Slots : SlotSound(s))' /\ EffectOncePerMessage'
  BY DEF ConsumerInv, SlotSound, EffectOncePerMessage
<1> QED
  BY <1>2, <1>3, <1>4 DEF ConsumerInv

\* What a channel holds can be counted.
LEMMA UnackedCounts ==
    ASSUME NEW c, NEW q, NEW e, NEW n
    PROVE  /\ Cardinality(Unacked(c, q, e, n)) \in Nat
           /\ Cardinality(Unacked(c, q, e, n)) > 0 <=> Unacked(c, q, e, n) # {}
<1>1. IsFiniteSet(Unacked(c, q, e, n))
  BY ConsumerAssumption, FS_Subset DEF Unacked
<1> QED
  BY <1>1, FS_CardinalityType, FS_EmptySet

LEMMA TakenBackCounts ==
    ASSUME ConsumerInv, NEW c, NEW q \in Queues, NEW e \in Events
    PROVE  /\ requeued[q][e] \in [1 .. DeliveryLimit -> Nat]
           /\ TakenBack(c, q, e) \in [1 .. DeliveryLimit -> Nat]
           /\ \A n \in 1 .. DeliveryLimit :
                 TakenBack(c, q, e)[n] > 0 <=> \/ requeued[q][e][n] > 0
                                              \/ Unacked(c, q, e, n - 1) # {}
<1>1. requeued[q][e] \in [1 .. DeliveryLimit -> Nat]
  BY DEF ConsumerInv, InboxTypeOK
<1>2. ASSUME NEW n \in 1 .. DeliveryLimit
      PROVE  /\ TakenBack(c, q, e)[n] \in Nat
             /\ TakenBack(c, q, e)[n] > 0 <=> \/ requeued[q][e][n] > 0
                                              \/ Unacked(c, q, e, n - 1) # {}
  <2> DEFINE k == Cardinality(Unacked(c, q, e, n - 1))
  <2>1. k \in Nat /\ (k > 0 <=> Unacked(c, q, e, n - 1) # {})
    BY UnackedCounts
  <2>2. TakenBack(c, q, e)[n] = requeued[q][e][n] + k /\ requeued[q][e][n] \in Nat
    BY <1>1 DEF TakenBack
  <2> HIDE DEF k
  <2> QED
    BY <2>1, <2>2
<1>3. TakenBack(c, q, e) \in [1 .. DeliveryLimit -> Nat]
  BY <1>2 DEF TakenBack
<1> QED
  BY <1>1, <1>2, <1>3

LEMMA OneMoreReturn ==
    \A k \in 0 .. DeliveryLimit : k # DeliveryLimit =>
        k + 1 \in 1 .. DeliveryLimit /\ (k + 1) - 1 = k
<1>1. DeliveryLimit \in Nat
  BY ConsumerAssumption
<1> QED
  BY <1>1

LEMMA UpsetTyped == upsets \in Nat /\ Upset => upsets' \in Nat
  BY DEF Upset

LEMMA EndChannelInv ==
    ASSUME ConsumerInv, NEW c \in Channels, NEW gone \in SUBSET Slots,
           \A s \in gone : ChannelOf[s] = c,
           EndChannel(c, gone), upsets' \in Nat
    PROVE  ConsumerInv'
<1> USE DEF EndChannel, durableVars
<1>1. requeued' \in [Queues -> [Events -> [1 .. DeliveryLimit -> Nat]]]
  BY TakenBackCounts
<1>2. deadLetters' \in [Queues -> SUBSET (Events \X Reasons)]
  BY DEF ConsumerInv, InboxTypeOK, PastLimit, Reasons
<1>3. InboxTypeOK'
  BY <1>1, <1>2, ConsumerAssumption DEF ConsumerInv, InboxTypeOK, BrokerTypeOK, Phases
<1>4. ASSUME NEW s \in Slots PROVE SlotSound(s)'
  BY <1>4, ConsumerAssumption DEF ConsumerInv, InboxTypeOK, SlotSound
<1>5. NoMessageLost'
  <2> SUFFICES ASSUME NEW e \in routed, NEW q \in Queues, q \in Routes[e],
                      e \notin inbox[q], ~DeadLettered(q, e)'
               PROVE  \/ Ready(q, e)'
                      \/ \E s \in Slots : QueueOf[s] = q /\ owned'[s] /\ message'[s] = e
    BY DEF NoMessageLost, DeadLettered
  <2>1. e \in Events /\ queues'[q][e] = queues[q][e]
    BY DEF ConsumerInv, InboxTypeOK, BrokerTypeOK
  <2>2. \A n \in 1 .. DeliveryLimit :
          requeued'[q][e][n] > 0 <=> requeued[q][e][n] > 0 \/ Unacked(c, q, e, n - 1) # {}
    BY <2>1, TakenBackCounts
  <2>3. deadLetters[q] \subseteq deadLetters'[q] /\ (e \in PastLimit(c, q) => DeadLettered(q, e)')
    BY DEF DeadLettered, Reasons
  <2>4. CASE Ready(q, e)
    BY <2>1, <2>2, <2>4 DEF Ready
  <2>5. ASSUME NEW s \in Slots, QueueOf[s] = q, owned[s], message[s] = e
        PROVE  Ready(q, e)' \/ (owned'[s] /\ message'[s] = e)
    <3>1. CASE ChannelOf[s] # c
      BY <2>5, <3>1
    <3>2. CASE ChannelOf[s] = c
      <4>1. s \in Unacked(c, q, e, returns[s]) /\ returns[s] \in 0 .. DeliveryLimit
        BY <2>5, <3>2 DEF Unacked, ConsumerInv, InboxTypeOK
      <4>2. returns[s] # DeliveryLimit
        BY <2>1, <2>3, <4>1 DEF PastLimit
      <4>3. returns[s] + 1 \in 1 .. DeliveryLimit /\ (returns[s] + 1) - 1 = returns[s]
        BY <4>1, <4>2, OneMoreReturn
      <4>4. requeued'[q][e][returns[s] + 1] > 0
        BY <2>2, <4>1, <4>3
      <4> QED
        BY <4>3, <4>4 DEF Ready
    <3> QED
      BY <3>1, <3>2
  <2>6. ~DeadLettered(q, e)
    BY <2>3 DEF DeadLettered
  <2> QED
    BY <2>4, <2>5, <2>6 DEF ConsumerInv, NoMessageLost, DeadLettered
<1>6. EffectOncePerMessage'
  BY DEF ConsumerInv, EffectOncePerMessage
<1> QED
  BY <1>3, <1>4, <1>5, <1>6 DEF ConsumerInv

\* A delivery ends: its message is applied or dead-lettered, or was given back
\* to the broker before.
LEMMA FreedInv ==
    ASSUME ConsumerInv, NEW s \in Slots, Free(s),
           UNCHANGED <<queues, routed, requeued, durableVars, open>>, upsets' \in Nat,
           deadLetters' \in [Queues -> SUBSET (Events \X Reasons)],
           \A q \in Queues : deadLetters[q] \subseteq deadLetters'[q],
           owned[s] => \/ message[s] \in inbox[QueueOf[s]]
                       \/ <<message[s], "rejected">> \in deadLetters'[QueueOf[s]]
    PROVE  ConsumerInv'
<1> USE DEF Free, durableVars
<1>1. InboxTypeOK'
  BY ConsumerAssumption DEF ConsumerInv, InboxTypeOK, BrokerTypeOK, Phases
<1>2. ASSUME NEW t \in Slots PROVE SlotSound(t)'
  BY <1>2 DEF ConsumerInv, InboxTypeOK, SlotSound
<1>3. NoMessageLost'
  <2> SUFFICES ASSUME NEW e \in routed, NEW q \in Queues, q \in Routes[e],
                      e \notin inbox[q], ~DeadLettered(q, e)'
               PROVE  \/ Ready(q, e)
                      \/ \E t \in Slots : QueueOf[t] = q /\ owned'[t] /\ message'[t] = e
    BY DEF NoMessageLost, DeadLettered, Ready
  <2>1. ~DeadLettered(q, e) /\ <<e, "rejected">> \notin deadLetters'[q]
    BY DEF DeadLettered, Reasons
  <2>2. ASSUME NEW t \in Slots, QueueOf[t] = q, owned[t], message[t] = e
        PROVE  owned'[t] /\ message'[t] = e
    BY <2>1, <2>2 DEF ConsumerInv, InboxTypeOK
  <2> QED
    BY <2>1, <2>2 DEF ConsumerInv, NoMessageLost, DeadLettered
<1>4. EffectOncePerMessage'
  BY DEF ConsumerInv, EffectOncePerMessage
<1> QED
  BY <1>1, <1>2, <1>3, <1>4 DEF ConsumerInv

LEMMA RejectIfOwnedInv ==
    ASSUME ConsumerInv, NEW s \in Slots, RejectIfOwned(s), phase[s] # "idle"
    PROVE  ConsumerInv'
<1>1. /\ QueueOf[s] \in Queues /\ message[s] \in Events
      /\ deadLetters \in [Queues -> SUBSET (Events \X Reasons)]
  BY ConsumerAssumption DEF ConsumerInv, InboxTypeOK, SlotSound
<1>2. /\ deadLetters' \in [Queues -> SUBSET (Events \X Reasons)]
      /\ \A q \in Queues : deadLetters[q] \subseteq deadLetters'[q]
      /\ owned[s] => <<message[s], "rejected">> \in deadLetters'[QueueOf[s]]
  BY <1>1 DEF RejectIfOwned, Reasons
<1>3. upsets' \in Nat
  BY DEF RejectIfOwned, ConsumerInv, InboxTypeOK
<1> QED
  BY <1>2, <1>3, FreedInv DEF RejectIfOwned

LEMMA GiveUpInv ==
    ASSUME ConsumerInv, NEW s \in Slots, GiveUp(s), upsets' \in Nat
    PROVE  ConsumerInv'
<1>1. CASE owned[s] \/ (QueueOf[s] \notin WebhookQueues /\ open[ChannelOf[s]])
  BY <1>1, EndChannelInv, ConsumerAssumption DEF GiveUp
<1>2. CASE ~(owned[s] \/ (QueueOf[s] \notin WebhookQueues /\ open[ChannelOf[s]]))
  BY <1>2, FreedInv DEF GiveUp, deadVars, ConsumerInv, InboxTypeOK
<1> QED
  BY <1>1, <1>2

LEMMA AcknowledgeInv ==
    ASSUME ConsumerInv, NEW s \in Slots, Acknowledge(s)
    PROVE  ConsumerInv'
<1>1. message[s] \in inbox[QueueOf[s]]
  BY DEF Acknowledge, ConsumerInv, SlotSound
<1> QED
  BY <1>1, FreedInv DEF Acknowledge, deadVars, ConsumerInv, InboxTypeOK

LEMMA GiveOutTakes ==
    ASSUME ConsumerInv, NEW q \in Queues, NEW e \in Events, NEW n \in 0 .. DeliveryLimit,
           GiveOut(q, e, n)
    PROVE  /\ Ready(q, e)
           /\ queues' \in [Queues -> [Events -> Nat]]
           /\ requeued' \in [Queues -> [Events -> [1 .. DeliveryLimit -> Nat]]]
           /\ \A r \in Queues, f \in Events :
                 /\ Ready(r, f)' => Ready(r, f)
                 /\ Ready(r, f) /\ ~(r = q /\ f = e) => Ready(r, f)'
<1>1. /\ queues \in [Queues -> [Events -> Nat]]
      /\ requeued \in [Queues -> [Events -> [1 .. DeliveryLimit -> Nat]]]
  BY DEF ConsumerInv, InboxTypeOK, BrokerTypeOK
<1>2. CASE n = 0
  <2>1. queues[q][e] > 0 /\ queues' = [queues EXCEPT ![q][e] = @ - 1] /\ requeued' = requeued
    BY <1>2 DEF GiveOut
  <2> QED
    BY <1>1, <2>1 DEF Ready
<1>3. CASE n # 0
  <2>1. /\ n \in 1 .. DeliveryLimit /\ requeued[q][e][n] > 0 /\ queues' = queues
        /\ requeued' = [requeued EXCEPT ![q][e][n] = @ - 1]
    BY <1>3 DEF GiveOut
  <2>2. requeued' \in [Queues -> [Events -> [1 .. DeliveryLimit -> Nat]]]
    <3>1. [requeued[q][e] EXCEPT ![n] = @ - 1] \in [1 .. DeliveryLimit -> Nat]
      <4>1. requeued[q][e] \in [1 .. DeliveryLimit -> Nat]
        BY <1>1
      <4>2. requeued[q][e][n] \in Nat /\ requeued[q][e][n] > 0
        BY <2>1, <4>1
      <4>3. requeued[q][e][n] - 1 \in Nat
        BY <4>2
      <4> QED
        BY <4>1, <4>3
    <3>2. requeued' = [requeued EXCEPT ![q] = [@ EXCEPT ![e] = [requeued[q][e] EXCEPT ![n] = @ - 1]]]
      BY <1>1, <2>1
    <3> QED
      BY <1>1, <3>1, <3>2
  <2>3. ASSUME NEW r \in Queues, NEW f \in Events, ~(r = q /\ f = e)
        PROVE  requeued'[r][f] = requeued[r][f]
    BY <1>1, <2>1, <2>3
  <2>4. \A m \in 1 .. DeliveryLimit : requeued'[q][e][m] > 0 => requeued[q][e][m] > 0
    BY <1>1, <2>1
  <2> QED
    BY <1>1, <2>1, <2>2, <2>3, <2>4 DEF Ready
<1> QED
  BY <1>2, <1>3

LEMMA DeliverInv ==
    ASSUME ConsumerInv, NEW s \in Slots, NEW e \in Events, NEW n \in 0 .. DeliveryLimit,
           Deliver(s, e, n)
    PROVE  ConsumerInv'
<1> USE DEF Deliver, durableVars, ManualAck
<1>1. QueueOf[s] \in Queues /\ GiveOut(QueueOf[s], e, n)
  BY ConsumerAssumption
<1>2. BrokerTypeOK' /\ requeued' \in [Queues -> [Events -> [1 .. DeliveryLimit -> Nat]]]
  BY <1>1, GiveOutTakes DEF ConsumerInv, InboxTypeOK, BrokerTypeOK
<1>3. InboxTypeOK'
  <2>1. returns' \in [Slots -> 0 .. DeliveryLimit] /\ tries' \in [Slots -> 0 .. RetryAttempts]
    BY ConsumerAssumption DEF ConsumerInv, InboxTypeOK
  <2> QED
    BY <1>2, <2>1 DEF ConsumerInv, InboxTypeOK, Phases
<1>4. ASSUME NEW t \in Slots PROVE SlotSound(t)'
  BY <1>4, ConsumerAssumption DEF ConsumerInv, InboxTypeOK, SlotSound
<1>5. NoMessageLost'
  <2> SUFFICES ASSUME NEW f \in routed, NEW q \in Queues, q \in Routes[f],
                      f \notin inbox[q], ~DeadLettered(q, f)
               PROVE  \/ Ready(q, f)'
                      \/ \E t \in Slots : QueueOf[t] = q /\ owned'[t] /\ message'[t] = f
    BY DEF NoMessageLost, DeadLettered
  <2>1. f \in Events
    BY DEF ConsumerInv, InboxTypeOK, BrokerTypeOK
  <2>2. CASE q = QueueOf[s] /\ f = e
    BY <2>2 DEF ConsumerInv, InboxTypeOK
  <2>3. CASE ~(q = QueueOf[s] /\ f = e)
    <3>1. Ready(q, f) => Ready(q, f)'
      BY <1>1, <2>1, <2>3, GiveOutTakes
    <3>2. ASSUME NEW t \in Slots, QueueOf[t] = q, owned[t], message[t] = f
          PROVE  owned'[t] /\ message'[t] = f
      BY <3>2 DEF ConsumerInv, InboxTypeOK, SlotSound
    <3> QED
      BY <3>1, <3>2 DEF ConsumerInv, NoMessageLost, DeadLettered
  <2> QED
    BY <2>2, <2>3
<1>6. EffectOncePerMessage'
  BY DEF ConsumerInv, EffectOncePerMessage
<1> QED
  BY <1>3, <1>4, <1>5, <1>6 DEF ConsumerInv

\* The steps of a transaction change nothing that the broker knows of.
LEMMA HandledInv ==
    ASSUME ConsumerInv, NEW s \in Slots,
           UNCHANGED <<queues, routed, deadVars, open, message, owned, returns>>,
           NEW p \in Phases, phase' = [phase EXCEPT ![s] = p],
           phase[s] # "idle", p # "idle",
           found' \in [Slots -> BOOLEAN], \A t \in Slots : t # s => found'[t] = found[t],
           tries' \in [Slots -> 0 .. RetryAttempts], upsets' \in Nat,
           inbox' \in [Queues -> SUBSET Events], effects' \in [Queues -> [Events -> Nat]],
           \A q \in Queues : inbox[q] \subseteq inbox'[q], EffectOncePerMessage',
           p # "received" => message[s] \notin Malformed,
           p = "committed" \/ (p = "working" /\ found'[s]) => message[s] \in inbox'[QueueOf[s]]
    PROVE  ConsumerInv'
<1> USE DEF deadVars
<1>1. InboxTypeOK'
  BY DEF ConsumerInv, InboxTypeOK, BrokerTypeOK
<1>2. ASSUME NEW t \in Slots PROVE SlotSound(t)'
  <2>1. CASE t = s
    BY <1>2, <2>1 DEF ConsumerInv, InboxTypeOK, SlotSound, Phases
  <2>2. CASE t # s
    <3>1. SlotSound(t) /\ QueueOf[t] \in Queues
      BY <1>2, ConsumerAssumption DEF ConsumerInv
    <3>2. phase'[t] = phase[t] /\ found'[t] = found[t] /\ inbox[QueueOf[t]] \subseteq inbox'[QueueOf[t]]
      BY <1>2, <2>2, <3>1 DEF ConsumerInv, InboxTypeOK
    <3> QED
      BY <3>1, <3>2 DEF SlotSound
  <2> QED
    BY <2>1, <2>2
<1>3. NoMessageLost'
  BY DEF ConsumerInv, NoMessageLost, Ready
<1> QED
  BY <1>1, <1>2, <1>3 DEF ConsumerInv

LEMMA BeginInv ==
    ASSUME ConsumerInv, NEW s \in Slots, Begin(s)
    PROVE  ConsumerInv'
<1>1. tries' \in [Slots -> 0 .. RetryAttempts]
  BY ConsumerAssumption DEF Begin, AttemptsLeft, ConsumerInv, InboxTypeOK
<1>2. /\ found' \in [Slots -> BOOLEAN] /\ found'[s] = (message[s] \in inbox[QueueOf[s]])
      /\ \A t \in Slots : t # s => found'[t] = found[t]
  BY DEF Begin, ConsumerInv, InboxTypeOK
<1>3. UNCHANGED <<inbox, effects>> /\ EffectOncePerMessage'
  BY DEF Begin, durableVars, ConsumerInv, EffectOncePerMessage
<1>4. inbox' \in [Queues -> SUBSET Events] /\ effects' \in [Queues -> [Events -> Nat]] /\ upsets' \in Nat
  BY <1>3 DEF Begin, ConsumerInv, InboxTypeOK
<1>5. "working" \in Phases
  BY DEF Phases
<1> QED
  BY <1>1, <1>2, <1>3, <1>4, <1>5, HandledInv DEF Begin

LEMMA DuplicateInv ==
    ASSUME ConsumerInv, NEW s \in Slots, Duplicate(s)
    PROVE  ConsumerInv'
<1>1. message[s] \in inbox[QueueOf[s]] /\ message[s] \notin Malformed
  BY DEF Duplicate, ConsumerInv, SlotSound
<1>2. UNCHANGED <<inbox, effects>> /\ EffectOncePerMessage'
  BY DEF Duplicate, durableVars, ConsumerInv, EffectOncePerMessage
<1>3. "committed" \in Phases
  BY DEF Phases
<1> QED
  BY <1>1, <1>2, <1>3, HandledInv DEF Duplicate, ConsumerInv, InboxTypeOK

LEMMA SerializationFailureInv ==
    ASSUME ConsumerInv, NEW s \in Slots, SerializationFailure(s)
    PROVE  ConsumerInv'
<1>1. upsets' \in Nat
  BY UpsetTyped DEF SerializationFailure, ConsumerInv, InboxTypeOK
<1>2. UNCHANGED <<inbox, effects>> /\ EffectOncePerMessage'
  BY DEF SerializationFailure, durableVars, ConsumerInv, EffectOncePerMessage
<1>3. "received" \in Phases
  BY DEF Phases
<1> QED
  BY <1>1, <1>2, <1>3, HandledInv DEF SerializationFailure, ConsumerInv, InboxTypeOK

\* The message of a slot that is at work, and what its commit makes of it.
LEMMA CommitApplies ==
    ASSUME ConsumerInv, NEW s \in Slots, CommitEffect(s)
    PROVE  /\ QueueOf[s] \in Queues /\ message[s] \in Events
           /\ effects[QueueOf[s]][message[s]] = 0
           /\ effects' = [effects EXCEPT ![QueueOf[s]][message[s]] = 1]
<1>1. QueueOf[s] \in Queues /\ message[s] \in Events
  BY ConsumerAssumption DEF CommitEffect, ConsumerInv, InboxTypeOK, SlotSound
<1>2. effects[QueueOf[s]][message[s]] = 0
  BY <1>1 DEF CommitEffect, Reservable, ConsumerInv, EffectOncePerMessage
<1>3. effects' = [effects EXCEPT ![QueueOf[s]][message[s]] = 1]
  BY <1>1, <1>2 DEF CommitEffect, ConsumerInv, InboxTypeOK
<1> QED
  BY <1>1, <1>2, <1>3

LEMMA CommitEffectInv ==
    ASSUME ConsumerInv, NEW s \in Slots, CommitEffect(s)
    PROVE  ConsumerInv'
<1> DEFINE q == QueueOf[s]
           e == message[s]
<1>1. /\ q \in Queues /\ e \in Events /\ e \notin Malformed
      /\ effects' = [effects EXCEPT ![q][e] = 1]
      /\ inbox' = [inbox EXCEPT ![q] = @ \cup {e}]
  BY CommitApplies DEF CommitEffect, ConsumerInv, SlotSound
<1>2. /\ inbox \in [Queues -> SUBSET Events]
      /\ effects \in [Queues -> [Events -> Nat]]
  BY DEF ConsumerInv, InboxTypeOK
<1> HIDE DEF q, e
<1>3. inbox' \in [Queues -> SUBSET Events] /\ effects' \in [Queues -> [Events -> Nat]]
  BY <1>1, <1>2
<1>4. /\ \A r \in Queues : inbox[r] \subseteq inbox'[r]
      /\ e \in inbox'[q]
  BY <1>1, <1>2
<1>5. EffectOncePerMessage'
  BY <1>1, <1>2 DEF ConsumerInv, EffectOncePerMessage
<1>6. "committed" \in Phases
  BY DEF Phases
<1> QED
  BY <1>1, <1>3, <1>4, <1>5, <1>6, HandledInv DEF CommitEffect, ConsumerInv, InboxTypeOK, q, e

LEMMA OpenChannelInv ==
    ASSUME ConsumerInv, NEW c \in Channels, OpenChannel(c)
    PROVE  ConsumerInv'
<1> USE DEF OpenChannel, deadVars, durableVars, slotVars
<1>1. InboxTypeOK'
  BY DEF ConsumerInv, InboxTypeOK, BrokerTypeOK
<1>2. (\A s \in Slots : SlotSound(s))' /\ EffectOncePerMessage' /\ NoMessageLost'
  BY DEF ConsumerInv, SlotSound, EffectOncePerMessage, NoMessageLost, Ready
<1> QED
  BY <1>1, <1>2 DEF ConsumerInv

LEMMA HandlerStepInv ==
    ASSUME ConsumerInv, NEW s \in Slots, HandlerStep(s)
    PROVE  ConsumerInv'
<1>1. CASE RejectMalformed(s) \/ RejectExhausted(s)
  BY <1>1, RejectIfOwnedInv DEF RejectMalformed, RejectExhausted
<1>2. CASE Redeliver(s)
  BY <1>2, GiveUpInv DEF Redeliver, ConsumerInv, InboxTypeOK
<1> QED
  BY <1>1, <1>2, DeliverInv, BeginInv, DuplicateInv, CommitEffectInv, SerializationFailureInv,
     AcknowledgeInv DEF HandlerStep

LEMMA UpsetStepInv ==
    ASSUME ConsumerInv, UpsetStep
    PROVE  ConsumerInv'
<1>1. ASSUME Upset PROVE upsets' \in Nat
  BY <1>1, UpsetTyped DEF ConsumerInv, InboxTypeOK
<1>2. ASSUME NEW s \in Slots, HandlerFails(s) PROVE ConsumerInv'
  BY <1>1, <1>2, GiveUpInv DEF HandlerFails
<1>3. ASSUME NEW c \in Channels, LoseDeliveries(c) \/ ConsumerCrash(c) PROVE ConsumerInv'
  BY <1>1, <1>3, EndChannelInv DEF LoseDeliveries, ConsumerCrash
<1> QED
  BY <1>2, <1>3 DEF UpsetStep

LEMMA ConsumerNextInv == ConsumerInv /\ ConsumerNext => ConsumerInv'
  BY OpenChannelInv, HandlerStepInv, UpsetStepInv DEF ConsumerNext

LEMMA InboxUnchangedInv == ConsumerInv /\ UNCHANGED inboxVars => ConsumerInv'
<1> SUFFICES ASSUME ConsumerInv, UNCHANGED inboxVars
             PROVE  ConsumerInv'
  OBVIOUS
<1> USE DEF inboxVars, brokerVars, consumerVars, deadVars, durableVars, slotVars
<1>1. InboxTypeOK'
  BY DEF ConsumerInv, InboxTypeOK, BrokerTypeOK
<1>2. (\A s \in Slots : SlotSound(s))' /\ EffectOncePerMessage' /\ NoMessageLost'
  BY DEF ConsumerInv, SlotSound, EffectOncePerMessage, NoMessageLost, Ready
<1> QED
  BY <1>1, <1>2 DEF ConsumerInv

LEMMA InboxNextInv == ConsumerInv /\ [InboxNext]_inboxVars => ConsumerInv'
<1>1. ASSUME ConsumerInv, NEW e \in Events, Arrive(e) PROVE ConsumerInv'
  BY <1>1, ArrivedInv DEF Arrive
<1> QED
  BY <1>1, ConsumerNextInv, InboxUnchangedInv DEF InboxNext

THEOREM InboxSpecInv == InboxSpec => []ConsumerInv
<1>1. InboxInit => ConsumerInv
  BY ConsumerInitInv DEF InboxInit
<1> QED
  BY <1>1, InboxNextInv, PTL DEF InboxSpec

\* Type correctness of the consumers.
THEOREM InboxTypeCorrect == InboxSpec => []InboxTypeOK
<1>1. ConsumerInv => InboxTypeOK
  BY DEF ConsumerInv
<1> QED
  BY <1>1, InboxSpecInv, PTL

\* However messages are returned, duplicated and handled at once, processForConsumer
\* applies a message as often as its inbox says: once or not at all.
THEOREM EffectsOnce == InboxSpec => []EffectOncePerMessage
<1>1. ConsumerInv => EffectOncePerMessage
  BY DEF ConsumerInv
<1> QED
  BY <1>1, InboxSpecInv, PTL

\* No crash, lost channel, rejection or acknowledgement of a consumer loses a
\* message that the broker took.
THEOREM MessagesNotLost == InboxSpec => []NoMessageLost
<1>1. ConsumerInv => NoMessageLost
  BY DEF ConsumerInv
<1> QED
  BY <1>1, InboxSpecInv, PTL

-----------------------------------------------------------------------------
(***************************************************************************)
(* The composition: what is in a queue, and what a handler holds, belongs  *)
(* there and was committed.                                                *)
(***************************************************************************)
Committed(e) == outbox[e] # "absent"

QueuesCommitted ==
    \A q \in Queues, e \in Events : Ready(q, e) => q \in Routes[e] /\ Committed(e)

HeldCommitted ==
    \A s \in Slots : message[s] # NoEvent =>
        QueueOf[s] \in Routes[message[s]] /\ Committed(message[s])

FlowInv == RelayInv /\ ConsumerInv /\ QueuesCommitted /\ HeldCommitted

LEMMA FlowInit == EventInit => FlowInv
<1>1. EventInit => QueuesCommitted /\ HeldCommitted
  BY ConsumerAssumption
  DEF EventInit, RelayInit, ConsumerInit, QueuesInit, QueuesCommitted, HeldCommitted, Ready
<1> QED
  BY <1>1, RelayInitInv, ConsumerInitInv DEF EventInit, FlowInv, RelayInit

LEMMA NothingEnqueued == BrokerTypeOK => queues = Enqueued({}) /\ routed = routed \cup {}
  BY DEF BrokerTypeOK, Enqueued

\* A relay takes back no commit, and hands the broker committed events only.
LEMMA RelayStepCommits ==
    ASSUME RelayInv, RelayNext
    PROVE  /\ \A e \in Events : Committed(e) => Committed(e)'
           /\ \E arrived \in SUBSET Events :
                /\ \A e \in arrived : Committed(e)
                /\ queues' = Enqueued(arrived) /\ routed' = routed \cup arrived
<1> DEFINE Arrives == \E arrived \in SUBSET Events :
                /\ \A e \in arrived : Committed(e)
                /\ queues' = Enqueued(arrived) /\ routed' = routed \cup arrived
           Lasts == \A e \in Events : Committed(e) => Committed(e)'
<1>1. UNCHANGED brokerVars => Arrives
  <2>1. BrokerTypeOK
    BY DEF RelayInv, RelayTypeOK
  <2> QED
    BY <2>1, NothingEnqueued DEF brokerVars
<1>2. UNCHANGED outbox => Lasts
  BY DEF Committed
<1>3. ASSUME NEW w \in Workers, NEW arrived \in SUBSET onWire[w],
             queues' = Enqueued(arrived), routed' = routed \cup arrived
      PROVE  Arrives
  BY <1>3 DEF RelayInv, RelayTypeOK, CommittedOnly, Committed
<1>4. ASSUME NEW e \in Events, AppendEvent(e) \/ ComeDue(e) \/ LeaseExpires(e)
      PROVE  Lasts /\ UNCHANGED brokerVars
  BY <1>4 DEF AppendEvent, ComeDue, LeaseExpires, Committed, RelayInv, RelayTypeOK
<1>5. ASSUME NEW w \in Workers, Finalize(w) PROVE Lasts /\ UNCHANGED brokerVars
  BY <1>5 DEF Finalize, Committed
<1>6. ASSUME NEW w \in Workers, CycleStep(w), ~Finalize(w)
      PROVE  UNCHANGED outbox /\ UNCHANGED brokerVars
  BY <1>6 DEF CycleStep, Connect, Claim, Publish, CannotPublish, Confirm, rowVars
<1>7. ASSUME NEW w \in Workers, BrokerStep(w) PROVE UNCHANGED outbox /\ Arrives
  BY <1>3, <1>7 DEF BrokerStep, BrokerRoutes, rowVars
<1>8. ASSUME NEW w \in Workers, FaultStep(w) PROVE UNCHANGED outbox /\ (Arrives \/ UNCHANGED brokerVars)
  <2>1. CASE LoseChannel(w) \/ RelayCrash(w)
    BY <1>3, <2>1 DEF LoseChannel, RelayCrash, Hangup, rowVars
  <2>2. CASE FinalizeFails(w) \/ \E e \in Events : BrokerRefuses(w, e)
    BY <2>2 DEF FinalizeFails, BrokerRefuses, rowVars
  <2> QED
    BY <1>8, <2>1, <2>2 DEF FaultStep
<1> QED
  BY <1>1, <1>2, <1>4, <1>5, <1>6, <1>7, <1>8 DEF RelayNext

LEMMA RelayPartFlow == FlowInv /\ RelayPart => FlowInv'
<1> SUFFICES ASSUME FlowInv, RelayPart PROVE FlowInv'
  OBVIOUS
<1> USE DEF FlowInv, RelayPart
<1>1. PICK arrived \in SUBSET Events :
        /\ \A e \in arrived : Committed(e)
        /\ queues' = Enqueued(arrived) /\ routed' = routed \cup arrived
  BY RelayStepCommits
<1>2. \A e \in Events : Committed(e) => Committed(e)'
  BY RelayStepCommits
<1>3. RelayInv' /\ ConsumerInv'
  BY <1>1, RelayNextInv, ArrivedInv
<1>4. QueuesCommitted'
  BY <1>1, <1>2 DEF QueuesCommitted, Enqueued, Ready, consumerVars, deadVars
<1>5. HeldCommitted'
  BY <1>2 DEF HeldCommitted, consumerVars, slotVars, ConsumerInv, InboxTypeOK
<1> QED
  BY <1>3, <1>4, <1>5

\* A consumer gets its messages from its queue, and its queue gets back what
\* was taken from it.
LEMMA ConsumerStepMoves ==
    ASSUME ConsumerInv, ConsumerNext
    PROVE  /\ routed' = routed
           /\ \A q \in Queues, e \in Events : Ready(q, e)' =>
                \/ Ready(q, e)
                \/ \E s \in Slots : QueueOf[s] = q /\ message[s] = e
           /\ \A s \in Slots : message'[s] # NoEvent =>
                \/ message'[s] = message[s]
                \/ message'[s] \in Events /\ Ready(QueueOf[s], message'[s])
<1> DEFINE Returns == \A q \in Queues, e \in Events : Ready(q, e)' =>
                \/ Ready(q, e)
                \/ \E s \in Slots : QueueOf[s] = q /\ message[s] = e
           Takes == \A s \in Slots : message'[s] # NoEvent =>
                \/ message'[s] = message[s]
                \/ message'[s] \in Events /\ Ready(QueueOf[s], message'[s])
           Moves == routed' = routed /\ Returns /\ Takes
<1> USE DEF ConsumerInv, InboxTypeOK, BrokerTypeOK
<1>1. ASSUME NEW s \in Slots, UNCHANGED <<queues, routed, requeued>>, UNCHANGED message \/ Free(s)
      PROVE  Moves
  BY <1>1 DEF Free, Ready
<1>2. ASSUME NEW c \in Channels, NEW gone \in SUBSET Slots, EndChannel(c, gone)
      PROVE  Moves
  <2>1. Returns
    <3> SUFFICES ASSUME NEW q \in Queues, NEW e \in Events, Ready(q, e)', ~Ready(q, e)
                 PROVE  \E s \in Slots : QueueOf[s] = q /\ message[s] = e
      OBVIOUS
    <3>1. PICK n \in 1 .. DeliveryLimit : requeued'[q][e][n] > 0 /\ ~(requeued[q][e][n] > 0)
      BY <1>2 DEF EndChannel, Ready
    <3>2. requeued'[q][e][n] = TakenBack(c, q, e)[n]
      BY <1>2 DEF EndChannel
    <3>3. Unacked(c, q, e, n - 1) # {}
      BY <3>1, <3>2, TakenBackCounts
    <3> QED
      BY <3>3 DEF Unacked
  <2>2. Takes /\ routed' = routed
    BY <1>2 DEF EndChannel
  <2> QED
    BY <2>1, <2>2
<1>3. ASSUME NEW s \in Slots, NEW e \in Events, NEW n \in 0 .. DeliveryLimit, Deliver(s, e, n)
      PROVE  Moves
  BY <1>3, GiveOutTakes, ConsumerAssumption DEF Deliver
<1>4. ASSUME NEW s \in Slots, GiveUp(s) PROVE Moves
  BY <1>1, <1>2, <1>4, ConsumerAssumption DEF GiveUp, deadVars
<1>5. ASSUME NEW s \in Slots, HandlerStep(s) PROVE Moves
  BY <1>1, <1>3, <1>4, <1>5
  DEF HandlerStep, RejectMalformed, RejectExhausted, RejectIfOwned, Redeliver, Begin, Duplicate,
      CommitEffect, SerializationFailure, Acknowledge, deadVars
<1>6. CASE UpsetStep
  BY <1>2, <1>4, <1>6 DEF UpsetStep, HandlerFails, LoseDeliveries, ConsumerCrash
<1>7. ASSUME NEW c \in Channels, OpenChannel(c) PROVE Moves
  BY <1>7 DEF OpenChannel, slotVars, deadVars, Ready
<1> QED
  BY <1>5, <1>6, <1>7 DEF ConsumerNext

LEMMA ConsumerPartFlow == FlowInv /\ ConsumerPart => FlowInv'
<1> SUFFICES ASSUME FlowInv, ConsumerPart PROVE FlowInv'
  OBVIOUS
<1> USE DEF FlowInv, ConsumerPart, rowVars
<1>1. ConsumerInv'
  BY ConsumerNextInv
<1>2. RelayInv'
  <2>1. BrokerTypeOK' /\ routed' = routed
    BY <1>1, ConsumerStepMoves DEF ConsumerInv, InboxTypeOK
  <2> QED
    BY <2>1
    DEF RelayInv, RelayTypeOK, RelayMaps, TakenWereRouted, StagesDisjoint, Finished,
        CommittedOnly, PublishedWasRouted, relayVars
<1>3. \A e \in Events : Committed(e)' = Committed(e)
  BY DEF Committed
<1>4. QueuesCommitted'
  BY <1>3, ConsumerStepMoves, ConsumerAssumption DEF QueuesCommitted, HeldCommitted
<1>5. HeldCommitted'
  <2> SUFFICES ASSUME NEW s \in Slots, message'[s] # NoEvent
               PROVE  QueueOf[s] \in Routes[message'[s]] /\ outbox'[message'[s]] # "absent"
    BY DEF HeldCommitted, Committed
  <2>1. message'[s] \in Events
    BY <1>1 DEF ConsumerInv, InboxTypeOK
  <2>2. CASE message'[s] = message[s]
    BY <2>2 DEF HeldCommitted, Committed
  <2>3. CASE Ready(QueueOf[s], message'[s])
    BY <2>1, <2>3, ConsumerAssumption DEF QueuesCommitted, Committed
  <2> QED
    BY <2>2, <2>3, ConsumerStepMoves
<1> QED
  BY <1>1, <1>2, <1>4, <1>5

LEMMA FlowUnchanged == FlowInv /\ UNCHANGED eventVars => FlowInv'
<1>1. UNCHANGED eventVars => UNCHANGED outboxVars /\ UNCHANGED inboxVars
  BY DEF eventVars, outboxVars, inboxVars
<1>2. UNCHANGED eventVars => UNCHANGED <<outbox, queues, requeued, message>>
  BY DEF eventVars, outboxVars, rowVars, brokerVars, consumerVars, slotVars, deadVars
<1> QED
  BY <1>1, <1>2, RelayNextInv, InboxUnchangedInv
  DEF FlowInv, QueuesCommitted, HeldCommitted, Committed, Ready

THEOREM EventSpecInv == EventSpec => []FlowInv
<1>1. FlowInv /\ [EventNext]_eventVars => FlowInv'
  BY RelayPartFlow, ConsumerPartFlow, FlowUnchanged DEF EventNext
<1> QED
  BY <1>1, FlowInit, PTL DEF EventSpec

\* A handler that is past its duplicate check is the only one to apply its
\* message, and any other step of a consumer applies nothing.
LEMMA ConsumerStepApplies ==
    ASSUME ConsumerNext
    PROVE  UNCHANGED effects \/ \E s \in Slots : CommitEffect(s)
<1> USE DEF durableVars
<1>1. ASSUME NEW s \in Slots, GiveUp(s) PROVE UNCHANGED effects
  BY <1>1 DEF GiveUp, EndChannel
<1> QED
  BY <1>1
  DEF ConsumerNext, HandlerStep, UpsetStep, OpenChannel, Deliver, RejectMalformed, RejectExhausted,
      RejectIfOwned, Redeliver, Begin, Duplicate, SerializationFailure, Acknowledge, HandlerFails,
      LoseDeliveries, ConsumerCrash, EndChannel

\* Only a command's commit adds to the committed events.
LEMMA RelayStepWrites ==
    ASSUME RelayInv, RelayNext
    PROVE  \/ \A e \in Events : Committed(e)' = Committed(e)
           \/ \E e \in Events : /\ ~Committed(e) /\ Committed(e)'
                                /\ \A f \in Events \ {e} : Committed(f)' = Committed(f)
<1>1. ASSUME NEW e \in Events, AppendEvent(e)
      PROVE  /\ ~Committed(e) /\ Committed(e)'
             /\ \A f \in Events \ {e} : Committed(f)' = Committed(f)
  BY <1>1 DEF AppendEvent, Committed, RelayInv, RelayTypeOK
<1>2. ASSUME NEW w \in Workers, Finalize(w)
      PROVE  \A e \in Events : Committed(e)' = Committed(e)
  BY <1>2 DEF Finalize, Published, Owned, Committed
<1>3. ASSUME UNCHANGED outbox PROVE \A e \in Events : Committed(e)' = Committed(e)
  BY <1>3 DEF Committed
<1>4. ASSUME NEW w \in Workers, CycleStep(w), ~Finalize(w) PROVE UNCHANGED outbox
  BY <1>4 DEF CycleStep, Connect, Claim, Publish, CannotPublish, Confirm, rowVars
<1>5. ASSUME NEW w \in Workers, BrokerStep(w) \/ FaultStep(w) PROVE UNCHANGED outbox
  BY <1>5
  DEF BrokerStep, BrokerRoutes, FaultStep, BrokerRefuses, LoseChannel, FinalizeFails, RelayCrash,
      rowVars
<1>6. ASSUME NEW e \in Events, ComeDue(e) \/ LeaseExpires(e) PROVE UNCHANGED outbox
  BY <1>6 DEF ComeDue, LeaseExpires
<1> QED
  BY <1>1, <1>2, <1>3, <1>4, <1>5, <1>6 DEF RelayNext

LEMMA PromiseStep == FlowInv /\ [EventNext]_eventVars => [Promise!Next]_Promise!vars
<1> SUFFICES ASSUME FlowInv, [EventNext]_eventVars PROVE [Promise!Next]_Promise!vars
  OBVIOUS
<1> USE DEF FlowInv
<1> DEFINE written == {e \in Events : outbox[e] # "absent"}
<1>1. CASE RelayPart
  <2>1. UNCHANGED effects
    BY <1>1 DEF RelayPart, consumerVars, durableVars
  <2>2. CASE \A e \in Events : Committed(e)' = Committed(e)
    BY <2>1, <2>2 DEF Promise!vars, Committed
  <2>3. ASSUME NEW e \in Events, ~Committed(e), Committed(e)',
               \A f \in Events \ {e} : Committed(f)' = Committed(f)
        PROVE  Promise!Write(e)
    BY <2>1, <2>3 DEF Promise!Write, Committed
  <2> QED
    BY <1>1, <2>2, <2>3, RelayStepWrites DEF RelayPart, Promise!Next
<1>2. CASE ConsumerPart
  <2>1. UNCHANGED outbox
    BY <1>2 DEF ConsumerPart, rowVars
  <2>2. CASE UNCHANGED effects
    BY <2>1, <2>2 DEF Promise!vars
  <2>3. ASSUME NEW s \in Slots, CommitEffect(s)
        PROVE  Promise!Apply(QueueOf[s], message[s])
    BY <2>1, <2>3, CommitApplies, ConsumerAssumption
    DEF Promise!Apply, HeldCommitted, Committed
  <2> QED
    BY <1>2, <2>2, <2>3, ConsumerStepApplies, CommitApplies DEF ConsumerPart, Promise!Next
<1>3. CASE UNCHANGED eventVars
  BY <1>3
  DEF eventVars, outboxVars, rowVars, consumerVars, durableVars, Promise!vars
<1> QED
  BY <1>1, <1>2, <1>3 DEF EventNext

LEMMA PromiseInit == EventInit => Promise!Init
  BY DEF EventInit, RelayInit, ConsumerInit, Promise!Init

\* Outbox, relays, broker and inbox together keep the promise of EventOnce: an
\* event takes effect only when a committed command wrote it, only where it is
\* routed, and at most once there.
THEOREM DeliveryKeepsPromise == EventSpec => ImplementsPromise
<1> QED
  BY PromiseInit, PromiseStep, EventSpecInv, PTL DEF EventSpec, ImplementsPromise, Promise!Spec

(***************************************************************************)
(* The two sides of the event contracts fit: what the services write can   *)
(* be published, what is published is accepted, and what is accepted says  *)
(* in its metadata what it says in its body.                               *)
(***************************************************************************)
\* What toISOString writes is read back as the same instant and the same text.
LEMMA IsoIsExact ==
    ASSUME NEW t \in Times
    PROVE  /\ Iso(t) \in TimeTexts
           /\ Instant(Iso(t)) = t
           /\ ExactTime(Iso(t))
BY DEF Iso, TimeTexts, Instant, ExactTime

\* The body of a message has the fields of the payload it was made from, dates
\* rewritten in their own form included.
LEMMA BodyIsPayload ==
    ASSUME NEW r, Serializable(r), r.occurredAt \in Times,
           r.payload = [k \in DOMAIN r.payload |-> r.payload[k]]
    PROVE  BodyFields(r) = r.payload
<1>1. CASE r.eventType \in {"payment.captured.v1", "payment.refunded.v1"}
  <2>1. LifecycleSerializable(r)
    BY <1>1 DEF Serializable
  <2>2. ExactTime(r.payload["occurredAt"])
    BY <2>1 DEF LifecycleSerializable, Captured, Refunded, ValidCommon
  <2>3. "availableOn" \in DOMAIN r.payload => r.payload["availableOn"] = r.payload["occurredAt"]
    BY <2>1 DEF LifecycleSerializable, Captured, Refunded, RefundedKeys
  <2>4. \A k \in DOMAIN r.payload :
            k \in {"occurredAt", "availableOn"} => Iso(Instant(r.payload[k])) = r.payload[k]
    BY <2>2, <2>3 DEF ExactTime
  <2> QED
    BY <1>1, <2>4 DEF BodyFields
<1>2. CASE r.eventType \notin {"payment.captured.v1", "payment.refunded.v1"}
  BY <1>2 DEF BodyFields
<1> QED
  BY <1>1, <1>2

\* A row that passes the publisher's check becomes a message that the webhook
\* projection accepts, and the settlement projection too when it is about a
\* capture or a refund: no sound row is published only to be dead-lettered.
THEOREM PublishedIsAccepted ==
    ASSUME NEW r, Serializable(r), r.occurredAt \in Times,
           r.attemptCount \in Nat \ {0},
           r.payload = [k \in DOMAIN r.payload |-> r.payload[k]]
    PROVE  /\ Verdict(MessageOf(r)) = "accepted"
           /\ r.eventType \in {"payment.captured.v1", "payment.refunded.v1"} =>
                 SettlementVerdict(MessageOf(r)) = "accepted"
<1> DEFINE m == MessageOf(r)
           p == r.payload
<1>1. m.body.fields = p
  BY BodyIsPayload DEF MessageOf
<1>2. /\ ~m.body.tooLarge /\ Decodes(m.body) /\ OneObject(m.body) /\ m.body.plainAmount
      /\ m.body.encoding # "bom" /\ m.body.json # "other"
  BY DEF MessageOf, Decodes, OneObject
<1>3. CASE r.eventType = "payment.created.v1"
  <2>1. CreatedSerializable(r)
    BY <1>3 DEF Serializable
  <2>2. ExactTime(p.occurredAt) /\ Instant(p.occurredAt) = r.occurredAt
    BY <2>1, IsoIsExact DEF CreatedSerializable
  <2>3. CreatedBody(m.body)
    BY <1>1, <1>2, <1>3, <2>1, <2>2 DEF CreatedBody, CreatedSerializable
  <2>4. PaymentMetadata(m)
    BY <1>1, <1>3, <2>1, <2>2 DEF PaymentMetadata, CreatedSerializable, MessageOf
  <2> QED
    BY <1>2, <1>3, <2>3, <2>4 DEF Verdict, CreatedAccepted, MessageOf, OperationalTypes
<1>4. CASE r.eventType \in {"payment.captured.v1", "payment.refunded.v1"}
  <2>1. LifecycleSerializable(r)
    BY <1>4 DEF Serializable
  <2>2. p.eventType = r.eventType
    BY <1>4, <2>1 DEF LifecycleSerializable, Captured, Refunded
  <2>3. LifecycleBody(m.body)
    BY <1>1, <1>2, <2>1 DEF LifecycleBody, LifecycleSerializable
  <2>4. PaymentMetadata(m)
    BY <1>1, <2>1, <2>2 DEF PaymentMetadata, LifecycleSerializable, MessageOf
  <2> QED
    BY <1>2, <1>4, <2>3, <2>4
       DEF Verdict, SettlementVerdict, LifecycleAccepted, MessageOf, OperationalTypes,
           PaymentTypes
<1>5. CASE r.eventType \notin PaymentTypes
  <2>1. OperationalSerializable(r)
    BY <1>5 DEF Serializable, PaymentTypes
  <2>2. r.eventType \in OperationalTypes
    BY <2>1 DEF OperationalSerializable, OperationalTypes
  <2>3. OperationalCommon(r)
    BY <2>1 DEF OperationalSerializable
  <2>4. "occurredAt" \in DOMAIN p /\ Instant(p.occurredAt) = r.occurredAt
    BY <2>3, IsoIsExact DEF OperationalCommon, CommonKeys
  <2>5. /\ ClaimedBy(m).aggregateId = r.aggregateId
        /\ ClaimedBy(m).aggregateType = r.aggregateType
        /\ ClaimedBy(m).eventId = r.eventId
        /\ ClaimedBy(m).eventType = r.eventType
        /\ ClaimedBy(m).merchantId = r.merchantId
        /\ ClaimedBy(m).occurredAt = r.occurredAt
        /\ ClaimedBy(m).requestId = r.requestId
        /\ ClaimedBy(m).payload = p
    BY <1>1, <2>4 DEF ClaimedBy, MessageOf
  <2>6. SameIdentity(ClaimedBy(m))
    BY <2>3, <2>5 DEF SameIdentity, OperationalCommon, CommonKeys
  <2>7. OperationalSerializable(ClaimedBy(m))
    <3>1. OperationalCommon(ClaimedBy(m))
      BY <2>3, <2>5 DEF OperationalCommon
    <3>2. SettlementFinalized(r) => SettlementFinalized(ClaimedBy(m))
      BY <2>5 DEF SettlementFinalized
    <3>3. ReconciliationCompleted(r) => ReconciliationCompleted(ClaimedBy(m))
      BY <2>5 DEF ReconciliationCompleted
    <3> QED
      BY <2>1, <2>5, <3>1, <3>2, <3>3 DEF OperationalSerializable
  <2>8. OperationalMetadata(m)
    BY <2>2 DEF OperationalMetadata, MessageOf
  <2>9. m.timestamp = Seconds(ClaimedBy(m).occurredAt) /\ ClaimedBy(m).occurredAt # NoInstant
    BY <2>5, ContractAssumption DEF MessageOf
  <2>10. OperationalVerdict(m) = "accepted"
    BY <1>2, <2>6, <2>7, <2>8, <2>9 DEF OperationalVerdict
  <2> QED
    BY <1>5, <2>2, <2>10 DEF Verdict, MessageOf, PaymentTypes
<1> QED
  BY <1>3, <1>4, <1>5 DEF PaymentTypes

\* What the payment, settlement and reconciliation services write into the
\* outbox passes the publisher's check at every attempt: no committed event is
\* retried for ever because the writer and the checker disagree on its shape.
THEOREM WrittenIsSerializable ==
    ASSUME NEW type \in EventTypes, NEW input, NEW id \in EventIds, NEW at \in Times,
           NEW attempt \in Nat \ {0}, WellFormedInput(type, input, at)
    PROVE  Serializable(RowOf(EventOf(type, input, id, at), attempt))
<1> DEFINE e == EventOf(type, input, id, at)
           r == RowOf(e, attempt)
           p == r.payload
<1>1. /\ e.eventId = id /\ e.eventType = type /\ e.occurredAt = at
      /\ e.merchantId = input.merchantId /\ e.requestId = input.requestId
      /\ DOMAIN e = PayloadKeys(type)
  BY DEF EventOf, PayloadKeys, CommonKeys
<1>2. /\ r.eventId = id /\ r.eventType = type /\ r.occurredAt = at
      /\ r.merchantId = input.merchantId /\ r.requestId = input.requestId
      /\ r.attemptCount = attempt /\ r.aggregateType = AggregateType(type)
      /\ r.aggregateId = e[AggregateKey(type)]
  BY <1>1 DEF RowOf
<1>3. /\ p = PayloadOf(e) /\ DOMAIN p = PayloadKeys(type)
      /\ p.eventId = id /\ p.eventType = type /\ p.occurredAt = Iso(at)
      /\ p.merchantId = input.merchantId /\ p.requestId = input.requestId
  BY <1>1 DEF RowOf, PayloadOf, PayloadKeys, CommonKeys
<1>4. ExactTime(p.occurredAt) /\ Instant(p.occurredAt) = at
  BY <1>3, IsoIsExact
<1>5. input.merchantId \in Uuids
  BY ContractAssumption DEF WellFormedInput
<1>6. CASE type = "payment.created.v1"
  <2>1. p.paymentId = input.paymentId /\ p.amountMinor = input.amountMinor
        /\ p.currency = input.currency /\ p.status = "CREATED"
        /\ e.paymentId = input.paymentId
    BY <1>6 DEF RowOf, EventOf, PayloadOf, PayloadKeys, CommonKeys
  <2>2. DOMAIN p = CreatedKeys
    BY <1>3, <1>6 DEF PayloadKeys, CommonKeys, CreatedKeys
  <2>3. r.aggregateType = "payment_intent" /\ r.aggregateId = input.paymentId
    BY <1>2, <1>6, <2>1 DEF AggregateType, AggregateKey
  <2>4. CreatedSerializable(r)
    BY <1>2, <1>3, <1>5, <1>6, <2>1, <2>2, <2>3 DEF CreatedSerializable, WellFormedInput
  <2> QED
    BY <1>2, <1>6, <2>4 DEF Serializable
<1>7. CASE type = "payment.captured.v1"
  <2>1. p.paymentId = input.paymentId /\ p.capturedAmountMinor = input.capturedAmountMinor
        /\ p.currency = input.currency /\ p.ledgerTransactionId = input.ledgerTransactionId
        /\ p.availableOn = Iso(input.availableOn) /\ e.paymentId = input.paymentId
    BY <1>7 DEF RowOf, EventOf, PayloadOf, PayloadKeys, CommonKeys
  <2>2. DOMAIN p = CapturedKeys
    BY <1>3, <1>7 DEF PayloadKeys, CommonKeys, CapturedKeys
  <2>3. r.aggregateType = "payment_intent" /\ r.aggregateId = input.paymentId
    BY <1>2, <1>7, <2>1 DEF AggregateType, AggregateKey
  <2>4. ValidCommon(p)
    BY <1>3, <1>4, <1>5, <1>7, <2>1 DEF ValidCommon, WellFormedInput
  <2>5. Captured(p)
    BY <1>3, <1>7, <2>1, <2>2, <2>4 DEF Captured, WellFormedInput
  <2>6. LifecycleSerializable(r)
    BY <1>2, <1>3, <1>4, <1>7, <2>1, <2>3, <2>5 DEF LifecycleSerializable
  <2> QED
    BY <1>2, <1>7, <2>6 DEF Serializable
<1>8. CASE type = "payment.refunded.v1"
  <2>1. p.paymentId = input.paymentId /\ p.amountMinor = input.amountMinor
        /\ p.currency = input.currency /\ p.ledgerTransactionId = input.ledgerTransactionId
        /\ p.cumulativeRefundedAmountMinor = input.cumulativeRefundedAmountMinor
        /\ p.refundId = input.refundId /\ e.paymentId = input.paymentId
    BY <1>8 DEF RowOf, EventOf, PayloadOf, PayloadKeys, CommonKeys
  <2>2. DOMAIN p = RefundedKeys
    BY <1>3, <1>8 DEF PayloadKeys, CommonKeys, RefundedKeys
  <2>3. r.aggregateType = "payment_intent" /\ r.aggregateId = input.paymentId
    BY <1>2, <1>8, <2>1 DEF AggregateType, AggregateKey
  <2>4. ValidCommon(p)
    BY <1>3, <1>4, <1>5, <1>8, <2>1 DEF ValidCommon, WellFormedInput
  <2>5. SafeAmount(p.amountMinor) /\ SafeAmount(p.cumulativeRefundedAmountMinor)
        /\ p.cumulativeRefundedAmountMinor >= p.amountMinor
    BY <1>8, <2>1, ContractAssumption DEF WellFormedInput, SafeAmount
  <2>6. Refunded(p)
    BY <1>3, <1>8, <2>1, <2>2, <2>4, <2>5 DEF Refunded, WellFormedInput
  <2>7. LifecycleSerializable(r)
    BY <1>2, <1>3, <1>4, <1>8, <2>1, <2>3, <2>6 DEF LifecycleSerializable
  <2> QED
    BY <1>2, <1>8, <2>7 DEF Serializable
<1>9. CASE type \in OperationalTypes
  <2>1. OperationalCommon(r)
    BY <1>2, <1>3, <1>4 DEF OperationalCommon, WellFormedInput, PayloadKeys
  <2>2. CASE type = "settlement.finalized.v1"
    <3>1. p.batchId = input.batchId /\ p.cutoffAt = Iso(input.cutoffAt)
          /\ p.grossAmountMinor = input.grossAmountMinor
          /\ p.feeAmountMinor = input.feeAmountMinor
          /\ p.netAmountMinor = input.netAmountMinor
          /\ p.currency = input.currency /\ p.itemCount = input.itemCount
          /\ e.batchId = input.batchId
      BY <2>2 DEF RowOf, EventOf, PayloadOf, PayloadKeys, CommonKeys
    <3>2. DOMAIN p = SettlementKeys
      BY <1>3, <2>2 DEF PayloadKeys, CommonKeys, SettlementKeys
    <3>3. r.aggregateType = "settlement_batch" /\ r.aggregateId = input.batchId
      BY <1>2, <2>2, <3>1 DEF AggregateType, AggregateKey
    <3>4. ExactTime(p.cutoffAt)
      BY <2>2, <3>1, IsoIsExact DEF WellFormedInput
    <3>5. p.feeAmountMinor \in 0..MaxSafeInteger
      BY <2>2, <3>1, ContractAssumption DEF WellFormedInput, SafeAmount
    <3>6. SettlementFinalized(r)
      BY <2>2, <3>1, <3>2, <3>3, <3>4, <3>5
         DEF SettlementFinalized, WellFormedInput, SafeAmount
    <3> QED
      BY <1>2, <2>1, <2>2, <3>6 DEF Serializable, OperationalSerializable
  <2>3. CASE type = "reconciliation.completed.v1"
    <3>1. p.importId = input.importId /\ p.matchedExactCount = input.matchedExactCount
          /\ p.mismatchCount = input.mismatchCount
          /\ p.unexplainedDifferenceMinorByCurrency =
                input.unexplainedDifferenceMinorByCurrency
          /\ e.importId = input.importId
      BY <2>3 DEF RowOf, EventOf, PayloadOf, PayloadKeys, CommonKeys
    <3>2. DOMAIN p = ReconciliationKeys
      BY <1>3, <2>3 DEF PayloadKeys, CommonKeys, ReconciliationKeys
    <3>3. r.aggregateType = "reconciliation_import" /\ r.aggregateId = input.importId
      BY <1>2, <2>3, <3>1 DEF AggregateType, AggregateKey
    <3>4. ReconciliationCompleted(r)
      BY <2>3, <3>1, <3>2, <3>3 DEF ReconciliationCompleted, WellFormedInput, SafeInteger
    <3> QED
      BY <1>2, <2>1, <2>3, <3>4 DEF Serializable, OperationalSerializable
  <2> QED
    BY <1>9, <2>2, <2>3 DEF OperationalTypes
<1> QED
  BY <1>6, <1>7, <1>8, <1>9 DEF EventTypes, PaymentTypes, OperationalTypes

\* An accepted message says in its metadata what it says in its body: the
\* identifier the inbox deduplicates by, and the merchant whose endpoints get
\* the event, are those of the body.
THEOREM AcceptedIsAttributed ==
    ASSUME NEW m, Verdict(m) = "accepted"
    PROVE  /\ m.body.fields.eventId = m.messageId
           /\ m.body.fields.eventType = m.type
           /\ m.body.fields.merchantId = m.merchantId
           /\ m.body.fields.requestId = m.correlationId
<1>1. CASE m.type \in OperationalTypes
  <2>1. OperationalVerdict(m) = "accepted"
    BY <1>1 DEF Verdict
  <2>2. SameIdentity(ClaimedBy(m))
    BY <2>1 DEF OperationalVerdict
  <2> QED
    BY <2>2 DEF SameIdentity, ClaimedBy
<1>2. CASE m.type \notin OperationalTypes
  <2>1. PaymentMetadata(m)
    BY <1>2 DEF Verdict, CreatedAccepted, LifecycleAccepted
  <2> QED
    BY <2>1 DEF PaymentMetadata
<1> QED
  BY <1>1, <1>2

-----------------------------------------------------------------------------
(***************************************************************************)
(* The projection.                                                         *)
(***************************************************************************)
\* What the checks of an accepted message say of the event it carries.
LEMMA AcceptedEvent ==
    ASSUME NEW m, Verdict(m) = "accepted"
    PROVE  LET f == m.body.fields IN
           /\ m.schemaVersion = 1
           /\ CommonKeys \subseteq DOMAIN f
           /\ f.eventType = m.type
           /\ f.occurredAt = Iso(Instant(f.occurredAt)) /\ Instant(f.occurredAt) \in Times
           /\ m.type = "payment.created.v1" => CreatedBody(m.body)
           /\ m.type = "payment.captured.v1" => Captured(f)
           /\ m.type = "payment.refunded.v1" => Refunded(f)
           /\ m.type = "settlement.finalized.v1" =>
                 "batchId" \in DOMAIN f /\ f.batchId \in BatchIds
           /\ m.type = "reconciliation.completed.v1" =>
                 "importId" \in DOMAIN f /\ f.importId \in ImportIds
           /\ m.type \in EventTypes
<1> DEFINE f == m.body.fields
           r == ClaimedBy(m)
<1>1. CASE m.type = "payment.created.v1"
  <2>1. CreatedBody(m.body) /\ PaymentMetadata(m)
    BY <1>1 DEF Verdict, CreatedAccepted, OperationalTypes, PaymentTypes
  <2>2. ExactTime(f.occurredAt)
    BY <2>1 DEF CreatedBody
  <2> QED
    BY <1>1, <2>1, <2>2 DEF CreatedBody, CreatedKeys, CommonKeys, PaymentMetadata, ExactTime,
       EventTypes, PaymentTypes
<1>2. CASE m.type \in {"payment.captured.v1", "payment.refunded.v1"}
  <2>1. LifecycleBody(m.body) /\ PaymentMetadata(m)
    BY <1>2 DEF Verdict, LifecycleAccepted, OperationalTypes, PaymentTypes
  <2>2. (Captured(f) \/ Refunded(f)) /\ f.eventType = m.type /\ m.schemaVersion = 1
    BY <2>1 DEF LifecycleBody, PaymentMetadata
  <2>3. /\ m.type = "payment.captured.v1" => Captured(f)
        /\ m.type = "payment.refunded.v1" => Refunded(f)
    BY <2>2 DEF Captured, Refunded
  <2>4. ExactTime(f.occurredAt)
    BY <2>2 DEF Captured, Refunded, ValidCommon
  <2>5. CommonKeys \subseteq DOMAIN f
    BY <2>2 DEF Captured, Refunded, CapturedKeys, RefundedKeys, CommonKeys
  <2> QED
    BY <1>2, <2>2, <2>3, <2>4, <2>5 DEF ExactTime, EventTypes, PaymentTypes
<1>3. CASE m.type \in OperationalTypes
  <2>1. OperationalVerdict(m) = "accepted"
    BY <1>3 DEF Verdict
  <2>2. OperationalMetadata(m) /\ OperationalSerializable(r)
    BY <2>1 DEF OperationalVerdict
  <2>3. /\ r.eventType = m.type /\ r.payload = f /\ r.aggregateId = m.aggregateId
        /\ m.schemaVersion = 1
    BY <2>2 DEF ClaimedBy, OperationalMetadata
  <2>4. CommonKeys \subseteq DOMAIN f /\ f.eventType = m.type /\ ExactTime(f.occurredAt)
    BY <2>2, <2>3 DEF OperationalSerializable, OperationalCommon
  <2>5. /\ m.type = "settlement.finalized.v1" =>
              "batchId" \in DOMAIN f /\ f.batchId \in BatchIds
        /\ m.type = "reconciliation.completed.v1" =>
              "importId" \in DOMAIN f /\ f.importId \in ImportIds
    <3>1. m.type = "settlement.finalized.v1" => SettlementFinalized(r)
      BY <2>2, <2>3 DEF OperationalSerializable
    <3>2. m.type = "reconciliation.completed.v1" => ReconciliationCompleted(r)
      BY <2>2, <2>3 DEF OperationalSerializable
    <3> QED
      BY <2>3, <3>1, <3>2
         DEF SettlementFinalized, SettlementKeys, ReconciliationCompleted, ReconciliationKeys
  <2> QED
    BY <1>3, <2>3, <2>4, <2>5 DEF ExactTime, OperationalTypes, EventTypes
<1> QED
  BY <1>1, <1>2, <1>3 DEF Verdict, PaymentTypes

\* The event read from a body has the body's fields, times read.
LEMMA EventFields ==
    ASSUME NEW m, NEW k \in DOMAIN m.body.fields
    PROVE  EventIn(m)[k] = IF k \in {"occurredAt", "availableOn"}
                             THEN Instant(m.body.fields[k]) ELSE m.body.fields[k]
BY DEF EventIn

\* An event that has been projected is recognised when its message comes again
\* after its inbox record is gone: what projectionInput writes and what
\* eventMatches compares agree for each of the five types, merchant ids being
\* in lower case as the services write them.
THEOREM ProjectionIsRecognised ==
    ASSUME NEW m, NEW at, Verdict(m) = "accepted", m.body.fields.merchantId \in LowerUuids
    PROVE  eventMatches(RowOfProjection(projectionInput(m, at)), m)
<1> DEFINE e == EventIn(m)
           row == RowOfProjection(projectionInput(m, at))
<1>1. CommonKeys \subseteq DOMAIN m.body.fields /\ m.body.fields.eventType = m.type
      /\ m.type \in EventTypes /\ m.schemaVersion = 1
  BY AcceptedEvent
<1>2. e.merchantId = m.body.fields.merchantId /\ e.eventType = m.type
  BY <1>1, EventFields DEF CommonKeys
<1>3. LowerCase[e.merchantId] = e.merchantId
  BY <1>2, ProjectionAssumption
<1>4. /\ row.eventId = e.eventId /\ row.eventType = e.eventType /\ row.schemaVersion = 1
      /\ row.merchantId = e.merchantId /\ row.aggregateId = AggregateOf(e)
      /\ row.occurredAt = e.occurredAt /\ row.requestId = e.requestId
      /\ row.payload = m.body
  BY <1>3 DEF RowOfProjection, projectionInput
<1>5. e.eventType \in PaymentTypes => PaymentMatches(row, e)
  BY <1>4 DEF RowOfProjection, projectionInput, PaymentMatches, PaymentTypes
<1> QED
  BY <1>1, <1>2, <1>4, <1>5 DEF eventMatches, EventTypes

\* The row of an accepted event satisfies the table's CHECKs for its type, so
\* no event the consumer accepts is refused by the table, other than one from
\* a clock ahead of the database's.
THEOREM ProjectionFits ==
    ASSUME NEW m, NEW at, Verdict(m) = "accepted"
    PROVE  FieldsFit(RowOfProjection(projectionInput(m, at)))
<1> DEFINE f == m.body.fields
           e == EventIn(m)
           row == RowOfProjection(projectionInput(m, at))
<1>1. CommonKeys \subseteq DOMAIN f /\ f.eventType = m.type /\ m.type \in EventTypes
  BY AcceptedEvent
<1>2. e.eventType = m.type /\ e.occurredAt = Instant(f.occurredAt)
  BY <1>1, EventFields DEF CommonKeys
<1>3. /\ row.eventType = m.type /\ row.aggregateId = AggregateOf(e)
      /\ row.aggregateType = AggregateType(m.type) /\ row.occurredAt = e.occurredAt
  BY <1>2 DEF RowOfProjection, projectionInput
<1>4. CASE m.type = "payment.created.v1"
  <2>1. CreatedBody(m.body)
    BY <1>4, AcceptedEvent
  <2>2. /\ e.paymentId = f.paymentId /\ e.amountMinor = f.amountMinor /\ e.currency = f.currency
    BY <2>1, EventFields DEF CreatedBody, CreatedKeys
  <2>3. AggregateOf(e) = e.paymentId
    BY <1>2, <1>4 DEF AggregateOf, AggregateKey
  <2> QED
    BY <1>2, <1>3, <1>4, <2>1, <2>2, <2>3
       DEF FieldsFit, RowOfProjection, projectionInput, CreatedBody, PaymentTypes, EventTypes
<1>5. CASE m.type = "payment.captured.v1"
  <2>1. Captured(f)
    BY <1>5, AcceptedEvent
  <2>2. /\ e.paymentId = f.paymentId /\ e.capturedAmountMinor = f.capturedAmountMinor
        /\ e.currency = f.currency /\ e.ledgerTransactionId = f.ledgerTransactionId
        /\ e.availableOn = Instant(f.availableOn)
    BY <2>1, EventFields DEF Captured, CapturedKeys
  <2>3. AggregateOf(e) = e.paymentId /\ e.availableOn = e.occurredAt
    BY <1>2, <1>5, <2>1, <2>2 DEF AggregateOf, AggregateKey, Captured
  <2> QED
    BY <1>2, <1>3, <1>5, <2>1, <2>2, <2>3
       DEF FieldsFit, RowOfProjection, projectionInput, Captured, ValidCommon, PaymentTypes,
           EventTypes
<1>6. CASE m.type = "payment.refunded.v1"
  <2>1. Refunded(f)
    BY <1>6, AcceptedEvent
  <2>2. /\ e.paymentId = f.paymentId /\ e.amountMinor = f.amountMinor
        /\ e.currency = f.currency /\ e.ledgerTransactionId = f.ledgerTransactionId
        /\ e.refundId = f.refundId
        /\ e.cumulativeRefundedAmountMinor = f.cumulativeRefundedAmountMinor
    BY <2>1, EventFields DEF Refunded, RefundedKeys
  <2>3. AggregateOf(e) = e.paymentId
    BY <1>2, <1>6 DEF AggregateOf, AggregateKey
  <2>4. e.cumulativeRefundedAmountMinor \in e.amountMinor..MaxSafeInteger
    BY <2>1, <2>2, ContractAssumption DEF Refunded, SafeAmount
  <2> QED
    BY <1>2, <1>3, <1>6, <2>1, <2>2, <2>3, <2>4
       DEF FieldsFit, RowOfProjection, projectionInput, Refunded, ValidCommon, PaymentTypes,
           EventTypes
<1>7. CASE m.type \in OperationalTypes
  <2>1. /\ m.type = "settlement.finalized.v1" =>
              "batchId" \in DOMAIN f /\ f.batchId \in BatchIds
        /\ m.type = "reconciliation.completed.v1" =>
              "importId" \in DOMAIN f /\ f.importId \in ImportIds
    BY AcceptedEvent
  <2>2. /\ m.type = "settlement.finalized.v1" => AggregateOf(e) = f.batchId
        /\ m.type = "reconciliation.completed.v1" => AggregateOf(e) = f.importId
    <3>1. /\ m.type = "settlement.finalized.v1" => AggregateKey(m.type) = "batchId"
          /\ m.type = "reconciliation.completed.v1" => AggregateKey(m.type) = "importId"
      BY DEF AggregateKey
    <3> QED
      BY <1>2, <2>1, <3>1, EventFields DEF AggregateOf
  <2>3. /\ row.paymentId = Null /\ row.amountMinor = Null /\ row.currency = Null
        /\ row.paymentStatus = Null /\ row.ledgerTransactionId = Null
        /\ row.availableOn = Null /\ row.refundId = Null
        /\ row.cumulativeRefundedAmountMinor = Null
    BY <1>2, <1>7 DEF RowOfProjection, projectionInput, OperationalTypes
  <2> QED
    BY <1>1, <1>3, <1>7, <2>1, <2>2, <2>3 DEF FieldsFit, OperationalTypes, PaymentTypes
<1> QED
  BY <1>1, <1>4, <1>5, <1>6, <1>7 DEF EventTypes, PaymentTypes

\* A projection is made once: whatever the endpoints, the clock and the names
\* are by then, the same message changes nothing any more and is no conflict,
\* and the first one left exactly one pending delivery for each endpoint that
\* was active and subscribed, under the names drawn for them.
THEOREM ProjectedOnce ==
    ASSUME NEW m, NEW at, NEW tables, NEW endpoints, NEW names,
           Verdict(m) = "accepted", m.body.fields.merchantId \in LowerUuids,
           project(tables, endpoints, m, at, names).outcome = "projected"
    PROVE  LET now == project(tables, endpoints, m, at, names).tables IN
           /\ \A others, later, drawn :
                 project(now, others, m, later, drawn) = Rejected(now, "already_projected")
           /\ now.deliveries = tables.deliveries \cup
                 {[endpointId |-> i, eventId |-> EventIn(m).eventId, publicId |-> names[i],
                   merchantId |-> LowerCase[EventIn(m).merchantId], status |-> "pending",
                   attemptCount |-> 0, nextAttemptAt |-> at]
                     : i \in findEligibleEndpointIds(endpoints, m)}
<1> DEFINE row == RowOfProjection(projectionInput(m, at))
           due == DeliveriesTo(findEligibleEndpointIds(endpoints, m), m, at, names)
           now == project(tables, endpoints, m, at, names).tables
<1>1. {old \in tables.events : old.eventId = EventIn(m).eventId} = {}
  BY DEF project, Rejected
<1>2. project(tables, endpoints, m, at, names) = create(tables, row, due)
  BY <1>1 DEF project
<1>3. create(tables, row, due).outcome = "projected"
  BY <1>2
<1>4. /\ now.events = tables.events \cup {row}
      /\ now.deliveries = tables.deliveries \cup due
  BY <1>2, <1>3 DEF create, Rejected
<1>5. row.eventId = EventIn(m).eventId
  BY DEF RowOfProjection, projectionInput
<1>6. {old \in now.events : old.eventId = EventIn(m).eventId} = {row}
  BY <1>1, <1>4, <1>5
<1>7. eventMatches(row, m)
  BY ProjectionIsRecognised
<1>8. \A others, later, drawn :
          project(now, others, m, later, drawn) = Rejected(now, "already_projected")
  BY <1>6, <1>7 DEF project
<1> QED
  BY <1>4, <1>8 DEF DeliveriesTo
=============================================================================
