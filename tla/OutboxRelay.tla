---------------------------- MODULE OutboxRelay ----------------------------
(***************************************************************************)
(* The transactional outbox and its relays.  Every worker process runs one *)
(* relay cycle at a time: claim due rows under a lease, publish them on    *)
(* its confirm channel, collect an outcome for each, and finalize the rows *)
(* it still owns.  Claims and finalizations are one database transaction   *)
(* each; the broker, the channel and the leases move in between.           *)
(*                                                                         *)
(* available_at is modelled by what it decides: which rows are due and     *)
(* which of two due rows is earlier; a row scheduled for a retry joins the *)
(* end of the line when its delay has passed.  A restarted process draws a *)
(* new worker id; reusing w for it is harmless, because a relay finalizes  *)
(* only what it claimed itself.                                            *)
(***************************************************************************)
EXTENDS EventQueues, FiniteSets

CONSTANTS
    Workers,
    Unserializable,  \* the events whose contract check fails at publishing
    NoWorker,
    BatchSize,       \* OUTBOX_RELAY_BATCH_SIZE
    MaxFaults        \* bound: how many faults the environment injects

ASSUME RelayAssumption ==
    /\ Unserializable \subseteq Events
    /\ NoWorker \notin Workers
    /\ BatchSize \in Nat \ {0}
    /\ MaxFaults \in Nat

VARIABLES
    outbox,     \* [Events -> {"absent", "pending", "published"}]
    line,       \* the due rows in the order of available_at: <<e, f>> is in
                \* it when both are due, e no later than f
    holder,     \* locked_by
    leased,     \* lease_expires_at is in the future
    batch,      \* [Workers -> SUBSET Events]: claimed and not yet finalized
    onWire,     \* published, the broker has not answered
    acking,     \* routed by the broker, the confirm has not arrived
    confirmed,  \* outcome "confirmed"
    failed,     \* outcome "retry"
    connected,  \* [Workers -> BOOLEAN]: the publisher is ready
    faults      \* faults injected so far

rowVars == <<outbox, line, holder, leased>>
relayVars == <<batch, onWire, acking, confirmed, failed, connected>>
outboxVars == <<rowVars, relayVars, brokerVars, faults>>

RelayInit ==
    /\ outbox = [e \in Events |-> "absent"]
    /\ line = {}
    /\ holder = [e \in Events |-> NoWorker]
    /\ leased = [e \in Events |-> FALSE]
    /\ batch = [w \in Workers |-> {}]
    /\ onWire = [w \in Workers |-> {}]
    /\ acking = [w \in Workers |-> {}]
    /\ confirmed = [w \in Workers |-> {}]
    /\ failed = [w \in Workers |-> {}]
    /\ connected = [w \in Workers |-> FALSE]
    /\ QueuesInit
    /\ faults = 0

Fault ==
    /\ faults < MaxFaults
    /\ faults' = faults + 1

-----------------------------------------------------------------------------
\* The rows.

Due == {e \in Events : <<e, e>> \in line}

JoinsLine(e) == line' = line \cup ((Due \cup {e}) \X {e})

LeaveLine(gone) == line' = {p \in line : p[1] \notin gone /\ p[2] \notin gone}

\* A command's transaction commits with the event it wrote.
AppendEvent(e) ==
    /\ outbox[e] = "absent"
    /\ outbox' = [outbox EXCEPT ![e] = "pending"]
    /\ JoinsLine(e)
    /\ UNCHANGED <<holder, leased, relayVars, brokerVars, faults>>

\* The retry delay of e has passed.
ComeDue(e) ==
    /\ outbox[e] = "pending"
    /\ e \notin Due
    /\ JoinsLine(e)
    /\ UNCHANGED <<outbox, holder, leased, relayVars, brokerVars, faults>>

\* The lease of e ends; while its holder still works on e that is a fault.
LeaseExpires(e) ==
    /\ leased[e]
    /\ leased' = [leased EXCEPT ![e] = FALSE]
    /\ IF \E w \in Workers : holder[e] = w /\ e \in batch[w]
         THEN Fault
         ELSE UNCHANGED faults
    /\ UNCHANGED <<outbox, line, holder, relayVars, brokerVars>>

\* A mutant: a row whose holder died is never taken over.
ClaimableUnlocked(e) == outbox[e] = "pending" /\ holder[e] = NoWorker

Claimable(e) == outbox[e] = "pending" /\ ~leased[e]

\* e is due before f.
Before(e, f) == e # f /\ <<e, f>> \in line

\* The rows a claim locks: the first BatchSize claimable ones in line.
NextBatch ==
    LET due == {e \in Due : Claimable(e)}
    IN  {e \in due : Cardinality({f \in due : Before(f, e)}) < BatchSize}

\* claimPending, after ensureReady.
Claim(w) ==
    /\ batch[w] = {}
    /\ connected[w]
    /\ NextBatch # {}
    /\ batch' = [batch EXCEPT ![w] = NextBatch]
    /\ holder' = [e \in Events |-> IF e \in NextBatch THEN w ELSE holder[e]]
    /\ leased' = [e \in Events |-> e \in NextBatch \/ leased[e]]
    /\ UNCHANGED <<outbox, line, onWire, acking, confirmed, failed, connected,
                   brokerVars, faults>>

-----------------------------------------------------------------------------
\* The publisher and the broker.

Connect(w) ==
    /\ ~connected[w]
    /\ connected' = [connected EXCEPT ![w] = TRUE]
    /\ UNCHANGED <<rowVars, batch, onWire, acking, confirmed, failed,
                   brokerVars, faults>>

\* e was claimed by w and has no outcome yet.
Unpublished(w, e) ==
    e \in batch[w] \ (onWire[w] \cup acking[w] \cup confirmed[w] \cup failed[w])

\* publishOne: the message is written to the confirm channel.
Publish(w, e) ==
    /\ Unpublished(w, e)
    /\ connected[w]
    /\ e \notin Unserializable
    /\ onWire' = [onWire EXCEPT ![w] = @ \cup {e}]
    /\ UNCHANGED <<rowVars, batch, acking, confirmed, failed, connected,
                   brokerVars, faults>>

\* publisher_unavailable, or event_contract_invalid.
CannotPublish(w, e) ==
    /\ Unpublished(w, e)
    /\ ~connected[w] \/ e \in Unserializable
    /\ failed' = [failed EXCEPT ![w] = @ \cup {e}]
    /\ UNCHANGED <<rowVars, batch, onWire, acking, confirmed, connected,
                   brokerVars, faults>>

\* The broker takes e into every queue bound to its routing key.
BrokerRoutes(w, e) ==
    /\ e \in onWire[w]
    /\ onWire' = [onWire EXCEPT ![w] = @ \ {e}]
    /\ acking' = [acking EXCEPT ![w] = @ \cup {e}]
    /\ queues' = Enqueued({e})
    /\ routed' = routed \cup {e}
    /\ UNCHANGED <<rowVars, batch, confirmed, failed, connected, faults>>

\* confirm_nack or mandatory_return.
BrokerRefuses(w, e) ==
    /\ Fault
    /\ e \in onWire[w]
    /\ onWire' = [onWire EXCEPT ![w] = @ \ {e}]
    /\ failed' = [failed EXCEPT ![w] = @ \cup {e}]
    /\ UNCHANGED <<rowVars, batch, acking, confirmed, connected, brokerVars>>

Confirm(w, e) ==
    /\ e \in acking[w]
    /\ acking' = [acking EXCEPT ![w] = @ \ {e}]
    /\ confirmed' = [confirmed EXCEPT ![w] = @ \cup {e}]
    /\ UNCHANGED <<rowVars, batch, onWire, failed, connected, brokerVars, faults>>

\* The channel of w ends.  What is on the wire arrives or is lost.
Hangup(w) ==
    /\ \E arrived \in SUBSET onWire[w] :
         /\ queues' = Enqueued(arrived)
         /\ routed' = routed \cup arrived
    /\ onWire' = [onWire EXCEPT ![w] = {}]
    /\ acking' = [acking EXCEPT ![w] = {}]
    /\ connected' = [connected EXCEPT ![w] = FALSE]

\* confirm_timeout, or the connection closes: no open publish is confirmed.
LoseChannel(w) ==
    /\ Fault
    /\ connected[w]
    /\ Hangup(w)
    /\ failed' = [failed EXCEPT ![w] = @ \cup onWire[w] \cup acking[w]]
    /\ UNCHANGED <<rowVars, batch, confirmed>>

-----------------------------------------------------------------------------
\* The end of a cycle.

\* A mutant: finalization by id alone.
OwnedByAnyone(w) == {e \in batch[w] : outbox[e] = "pending"}

\* The rows of the batch that w still owns.
Owned(w) == {e \in batch[w] : outbox[e] = "pending" /\ holder[e] = w}

\* A mutant: every outcome counts as published.
PublishedWhateverHappened(w) == Owned(w)

\* The rows that w marks published, and those whose lock it clears.
Published(w) == Owned(w) \cap confirmed[w]
Released(w) == Owned(w)

\* finalize: published, or available again after the retry delay.
Finalize(w) ==
    /\ batch[w] # {}
    /\ batch[w] = confirmed[w] \cup failed[w]
    /\ outbox' = [e \in Events |->
                    IF e \in Published(w) THEN "published" ELSE outbox[e]]
    /\ holder' = [e \in Events |-> IF e \in Released(w) THEN NoWorker ELSE holder[e]]
    /\ leased' = [e \in Events |-> leased[e] /\ e \notin Released(w)]
    /\ LeaveLine(Owned(w))
    /\ batch' = [batch EXCEPT ![w] = {}]
    /\ confirmed' = [confirmed EXCEPT ![w] = {}]
    /\ failed' = [failed EXCEPT ![w] = {}]
    /\ UNCHANGED <<onWire, acking, connected, brokerVars, faults>>

\* The database refuses the finalization; the leases stay until they end.
FinalizeFails(w) ==
    /\ Fault
    /\ batch[w] # {}
    /\ batch[w] = confirmed[w] \cup failed[w]
    /\ batch' = [batch EXCEPT ![w] = {}]
    /\ confirmed' = [confirmed EXCEPT ![w] = {}]
    /\ failed' = [failed EXCEPT ![w] = {}]
    /\ UNCHANGED <<rowVars, onWire, acking, connected, brokerVars>>

\* The worker process dies and another takes its place.
RelayCrash(w) ==
    /\ Fault
    /\ Hangup(w)
    /\ batch' = [batch EXCEPT ![w] = {}]
    /\ confirmed' = [confirmed EXCEPT ![w] = {}]
    /\ failed' = [failed EXCEPT ![w] = {}]
    /\ UNCHANGED rowVars

-----------------------------------------------------------------------------
CycleStep(w) ==
    \/ Connect(w)
    \/ Claim(w)
    \/ \E e \in Events : Publish(w, e) \/ CannotPublish(w, e) \/ Confirm(w, e)
    \/ Finalize(w)

BrokerStep(w) == \E e \in Events : BrokerRoutes(w, e)

FaultStep(w) ==
    \/ \E e \in Events : BrokerRefuses(w, e)
    \/ LoseChannel(w)
    \/ FinalizeFails(w)
    \/ RelayCrash(w)

RelayNext ==
    \/ \E e \in Events : AppendEvent(e) \/ ComeDue(e) \/ LeaseExpires(e)
    \/ \E w \in Workers : CycleStep(w) \/ BrokerStep(w) \/ FaultStep(w)

RelaySpec == RelayInit /\ [][RelayNext]_outboxVars

\* The runtime reschedules its cycle for ever and the broker answers.
RelayFairness ==
    /\ \A e \in Events : WF_outboxVars(ComeDue(e)) /\ WF_outboxVars(LeaseExpires(e))
    /\ \A w \in Workers : WF_outboxVars(CycleStep(w)) /\ WF_outboxVars(BrokerStep(w))

FairRelaySpec == RelaySpec /\ RelayFairness

-----------------------------------------------------------------------------
\* The relay's variables keep their types, and the rows the table's checks:
\* only a locked row has a lease, and a published row is neither locked nor due.
RelayTypeOK ==
    /\ outbox \in [Events -> {"absent", "pending", "published"}]
    /\ line \subseteq Events \X Events
    /\ holder \in [Events -> Workers \cup {NoWorker}]
    /\ leased \in [Events -> BOOLEAN]
    /\ \A e \in Events : leased[e] => holder[e] # NoWorker
    /\ \A e \in Events : outbox[e] = "published" => holder[e] = NoWorker
    /\ \A w \in Workers :
         /\ batch[w] \subseteq Events
         /\ onWire[w] \cup acking[w] \cup confirmed[w] \cup failed[w] \subseteq batch[w]
         /\ connected[w] \in BOOLEAN
    /\ BrokerTypeOK
    /\ faults \in Nat

\* An event is marked published only when the broker had put it into every
\* queue bound to it: lost confirms, nacks, timeouts and takeovers included.
PublishedWasRouted == \A e \in Events : outbox[e] = "published" => e \in routed

\* A live claim leaves its holder's hands only by the holder's own
\* finalization, never through another relay's claim or late finalization.
ClaimsEndByHolder ==
    [][\A e \in Events :
         leased[e] /\ holder'[e] # holder[e] =>
             \E w \in Workers : holder[e] = w /\ e \in batch[w] /\ e \notin batch'[w]
      ]_outboxVars

\* Every committed event that can be serialized is finally published.
EventsGetPublished ==
    \A e \in Events \ Unserializable :
        outbox[e] = "pending" ~> outbox[e] = "published"
=============================================================================
