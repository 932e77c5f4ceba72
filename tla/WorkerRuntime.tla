--------------------------- MODULE WorkerRuntime ---------------------------
(***************************************************************************)
(* One worker process from its bootstrap to its end: the three cycles it   *)
(* keeps rescheduling, its two consumers and their connections, and the    *)
(* shutdown that stops new work, drains what is running for a bounded time *)
(* and then closes publisher and database.                                 *)
(*                                                                         *)
(* A cycle's work, and a handler's, is only running or not; what it does   *)
(* is in OutboxRelay, WebhookDelivery, Reconciliation and InboxConsumers.  *)
(* The work of a delivery cycle is that of its claims, all at once: the    *)
(* first of them that throws ends the cycle, and the others go on.  The    *)
(* publishes of a relay cycle throw nothing, they report their outcome.    *)
(* Delays are left out: a timer that is armed may fire, and a drain that   *)
(* is waited for may time out, at any moment.  Reconnection timers and     *)
(* the heartbeat are one thing, a consumer that is down may connect.       *)
(***************************************************************************)
EXTENDS Naturals

CONSTANTS
    Handlers,   \* the deliveries a consumer may be handling (prefetch)
    BatchSize,  \* the claims of a delivery cycle
    MaxUpsets   \* bound: failed cycles, connections and handlers

ASSUME RuntimeAssumption ==
    /\ BatchSize \in Nat
    /\ MaxUpsets \in Nat

Cycles == {"relay", "delivery", "reconciliation"}
Consumers == {"projection", "settlement"}

VARIABLES
    app,       \* how far the shutdown has come
    cycle,     \* [Cycles -> CycleStates]
    claims,    \* how many claims of the delivery cycle are still at work
    strays,    \* how many claims of delivery cycles that failed still are
    collecting, \* the operational metrics are being collected
    wait,      \* [Cycles -> WaitStates]: the shutdown's wait for the operation
    link,      \* [Consumers -> LinkStates]: the connection and subscription
    closing,   \* [Consumers -> CloseStates]: how far close() has come
    handling,  \* [Consumers -> SUBSET Handlers]: inFlight
    awaited,   \* [Consumers -> SUBSET Handlers]: of these, the ones drained for
    midway,    \* the consumers closed in the middle of subscribing
    upsets

consumerVars == <<link, closing, handling, awaited, midway>>
deliveryVars == <<claims, strays>>
operationVars == <<cycle, deliveryVars, collecting, wait>>
runtimeVars == <<app, operationVars, consumerVars, upsets>>

\* draining, aborting and flushing are the three awaits before prisma.close;
\* failed: one of them threw, and the process exits where it stands.
AppStates == {"running", "stopping", "draining", "aborting", "flushing",
              "closed", "failed"}

\* failed: rejected, in the catch block until the readiness was refreshed.
CycleStates == {"none", "timer", "working", "failed"}
WaitStates == {"none", "waiting", "drained", "late", "given_up"}

\* connecting: awaiting amqp.connect, nothing is owned yet; opening: the
\* connection is owned, channel and queues are being set up.
LinkStates == {"down", "connecting", "opening", "open", "cancelled"}
CloseStates == {"no", "cancelling", "draining", "drained", "late"}

\* The end of onApplicationBootstrap: Nest listens for signals only then.
RuntimeInit ==
    /\ app = "running"
    /\ cycle = [c \in Cycles |-> "timer"]
    /\ claims = 0
    /\ strays = 0
    /\ collecting \in BOOLEAN
    /\ wait = [c \in Cycles |-> "none"]
    /\ link \in [Consumers -> {"down", "open"}]
    /\ closing = [k \in Consumers |-> "no"]
    /\ handling = [k \in Consumers |-> {}]
    /\ awaited = [k \in Consumers |-> {}]
    /\ midway = {}
    /\ upsets = 0

Running == app = "running"
Ended == app \in {"closed", "failed"}

Upset == upsets < MaxUpsets /\ upsets' = upsets + 1

-----------------------------------------------------------------------------
(* The cycles. *)

\* relayInFlight, deliveryInFlight, reconciliationInFlight.
InFlight(c) == cycle[c] \in {"working", "failed"}

\* The promise that is kept of the operation is rejected.
Rejected == cycle["reconciliation"] = "failed"

\* claimDue takes up to a batch.
TimerFires(c) ==
    /\ Running
    /\ cycle[c] = "timer"
    /\ cycle' = [cycle EXCEPT ![c] = "working"]
    /\ IF c = "delivery" THEN claims' \in 0 .. BatchSize ELSE UNCHANGED claims
    /\ UNCHANGED <<app, strays, collecting, wait, consumerVars, upsets>>

\* processClaim returns.
ClaimEnds ==
    /\ ~Ended
    /\ claims > 0
    /\ claims' = claims - 1
    /\ UNCHANGED <<app, cycle, strays, collecting, wait, consumerVars, upsets>>

\* The same of a claim whose cycle has gone without it.
StrayEnds ==
    /\ ~Ended
    /\ strays > 0
    /\ strays' = strays - 1
    /\ UNCHANGED <<app, cycle, claims, collecting, wait, consumerVars, upsets>>

\* Mistake: the cycle after a failed one is not scheduled.
RescheduledUnlessFailed(c) == IF Running /\ cycle[c] # "failed" THEN "timer" ELSE "none"

\* scheduleRelay, scheduleDelivery, scheduleReconciliation.
Rescheduled(c) == IF Running THEN "timer" ELSE "none"

\* Only what still works in the cycle holds up its end.
CycleEnds(c) ==
    /\ ~Ended
    /\ InFlight(c)
    /\ c = "delivery" => claims = 0
    /\ cycle' = [cycle EXCEPT ![c] = Rescheduled(c)]
    /\ wait' = IF wait[c] = "waiting" THEN [wait EXCEPT ![c] = "drained"] ELSE wait
    /\ UNCHANGED <<app, deliveryVars, collecting, consumerVars, upsets>>

\* The promise kept of a relay or delivery cycle is that of a function that
\* catches, and the cycle only ends later; the reconciliation's is its own.
\* A rejection that the shutdown is waiting for rejects its Promise.all.
ReconciliationFails ==
    /\ ~Ended
    /\ cycle["reconciliation"] = "working"
    /\ Upset
    /\ cycle' = [cycle EXCEPT !["reconciliation"] = "failed"]
    /\ app' = IF wait["reconciliation"] = "waiting" THEN "failed" ELSE app
    /\ UNCHANGED <<deliveryVars, collecting, wait, consumerVars>>

\* The recovery, the claiming or one of the claims throws: runOnce rejects, and
\* the catch block ends the cycle without its other claims.
DeliveryFails ==
    /\ ~Ended
    /\ cycle["delivery"] = "working"
    /\ Upset
    /\ cycle' = [cycle EXCEPT !["delivery"] = "failed"]
    /\ strays' = strays + IF claims > 0 THEN claims - 1 ELSE 0
    /\ claims' = 0
    /\ UNCHANGED <<app, collecting, wait, consumerVars>>

(* The operational metrics. *)

\* collectNow, at the start and at every interval.
Collect ==
    /\ Running
    /\ ~collecting
    /\ collecting' = TRUE
    /\ UNCHANGED <<app, cycle, deliveryVars, wait, consumerVars, upsets>>

\* Every collector catches what it throws.
CollectionEnds ==
    /\ ~Ended
    /\ collecting
    /\ collecting' = FALSE
    /\ UNCHANGED <<app, cycle, deliveryVars, wait, consumerVars, upsets>>

-----------------------------------------------------------------------------
(* The consumers' connections. *)

SetLink(k, state) == link' = [link EXCEPT ![k] = state]

\* ensureReady, from the heartbeat, a failed cycle or the reconnection timer.
EnsureReady(k) ==
    /\ Running
    /\ link[k] = "down"
    /\ SetLink(k, "connecting")
    /\ UNCHANGED <<app, operationVars, closing, handling, awaited, midway, upsets>>

\* Only the projection's consumer looks whether it was stopped meanwhile.
Connected(k) ==
    /\ ~Ended
    /\ link[k] = "connecting"
    /\ SetLink(k, IF k = "projection" /\ ~Running THEN "down" ELSE "opening")
    /\ UNCHANGED <<app, operationVars, closing, handling, awaited, midway, upsets>>

Subscribed(k) ==
    /\ ~Ended
    /\ link[k] = "opening"
    /\ SetLink(k, "open")
    /\ UNCHANGED <<app, operationVars, closing, handling, awaited, midway, upsets>>

\* The attempt fails, the broker closes the channel, or a handler's failure
\* makes the consumer give it up.
LinkLost(k) ==
    /\ ~Ended
    /\ link[k] # "down"
    /\ Upset
    /\ SetLink(k, "down")
    /\ UNCHANGED <<app, operationVars, closing, handling, awaited, midway>>

\* The projection subscribes to its queues one after the other.
Deliver(k, h) ==
    /\ ~Ended
    /\ link[k] = "open" \/ (k = "projection" /\ link[k] = "opening")
    /\ h \notin handling[k]
    /\ handling' = [handling EXCEPT ![k] = @ \cup {h}]
    /\ UNCHANGED <<app, operationVars, link, closing, awaited, midway, upsets>>

HandlerEnds(k, h) ==
    /\ ~Ended
    /\ h \in handling[k]
    /\ handling' = [handling EXCEPT ![k] = @ \ {h}]
    /\ awaited' = [awaited EXCEPT ![k] = @ \ {h}]
    /\ UNCHANGED <<app, operationVars, link, closing, midway, upsets>>

-----------------------------------------------------------------------------
(* The shutdown. *)

\* beforeApplicationShutdown: no timer stays armed.
BeginShutdown ==
    /\ Running
    /\ app' = "stopping"
    /\ cycle' = [c \in Cycles |-> IF cycle[c] = "timer" THEN "none" ELSE cycle[c]]
    /\ UNCHANGED <<deliveryVars, collecting, wait, consumerVars, upsets>>

\* Mistake: the reconciliation is not among the drained operations.
SnapshotOfTwo == {c \in Cycles \ {"reconciliation"} : InFlight(c)}

\* activeRelay, activeDelivery, activeReconciliation.
Snapshot == {c \in Cycles : InFlight(c)}

\* onApplicationShutdown up to its Promise.all: after the metrics it waits for
\* the operations in flight, and both consumers' close() begins by cancelling
\* the subscription.
Drain ==
    /\ app = "stopping"
    /\ ~collecting
    /\ app' = IF Rejected THEN "failed" ELSE "draining"
    /\ wait' = [c \in Cycles |-> IF c \in Snapshot THEN "waiting" ELSE "none"]
    /\ closing' = [k \in Consumers |-> "cancelling"]
    /\ midway' = {k \in Consumers : \/ link[k] = "opening"
                                    \/ k = "settlement" /\ link[k] = "connecting"}
    /\ UNCHANGED <<cycle, deliveryVars, collecting, link, handling, awaited, upsets>>

\* The broker answers the cancellation, or the channel is gone.
Cancelled(k) ==
    /\ ~Ended
    /\ closing[k] = "cancelling"
    /\ closing' = [closing EXCEPT ![k] = "draining"]
    /\ SetLink(k, IF link[k] = "open" THEN "cancelled" ELSE link[k])
    /\ awaited' = [awaited EXCEPT ![k] = handling[k]]
    /\ UNCHANGED <<app, operationVars, handling, midway, upsets>>

\* Drained or not, the consumer disposes of what it owns.
ConsumerCloses(k, result) ==
    /\ ~Ended
    /\ closing[k] = "draining"
    /\ result = "drained" => awaited[k] = {}
    /\ closing' = [closing EXCEPT ![k] = result]
    /\ SetLink(k, IF link[k] = "connecting" THEN link[k] ELSE "down")
    /\ UNCHANGED <<app, operationVars, handling, awaited, midway, upsets>>

\* Mistake: the drain waits as long as the operation takes.
TimesOutUnlessDelivery(c) == c # "delivery"

\* waitForOperation races every operation with a timer.
TimesOut(c) == c \in Cycles

DrainTimesOut(c) ==
    /\ app = "draining"
    /\ TimesOut(c)
    /\ wait[c] = "waiting"
    /\ wait' = [wait EXCEPT ![c] = "late"]
    /\ UNCHANGED <<app, cycle, deliveryVars, collecting, consumerVars, upsets>>

AfterAbort == IF wait["relay"] = "late" THEN "flushing" ELSE "closed"

\* The Promise.all resolves: a late delivery cycle has its requests aborted.
Drained ==
    /\ app = "draining"
    /\ \A c \in Cycles : wait[c] # "waiting"
    /\ \A k \in Consumers : closing[k] \in {"drained", "late"}
    /\ app' = IF wait["delivery"] = "late" THEN "aborting" ELSE AfterAbort
    /\ UNCHANGED <<operationVars, consumerVars, upsets>>

\* The second wait for c ends, by its operation or by its timer.
SecondWaitEnds(c, next) ==
    /\ \/ ~InFlight(c) /\ UNCHANGED wait
       \/ wait' = [wait EXCEPT ![c] = "given_up"]
    /\ app' = next
    /\ UNCHANGED <<cycle, deliveryVars, collecting, consumerVars, upsets>>

AbortEnds == app = "aborting" /\ SecondWaitEnds("delivery", AfterAbort)

\* After publisher.close; then prisma.close.
FlushEnds == app = "flushing" /\ SecondWaitEnds("relay", "closed")

-----------------------------------------------------------------------------
\* What a worker that runs does for ever: a timer fires, an operation ends.
CycleStep(c) ==
    Running /\ (TimerFires(c) \/ CycleEnds(c) \/ (c = "delivery" /\ ClaimEnds))

LinkStep(k) == EnsureReady(k) \/ Connected(k) \/ Subscribed(k)

ShutdownStep ==
    \/ Drain \/ Drained \/ AbortEnds \/ FlushEnds
    \/ \E c \in Cycles : DrainTimesOut(c)
    \/ \E k \in Consumers : Cancelled(k) \/ \E r \in {"drained", "late"} : ConsumerCloses(k, r)

RuntimeNext ==
    \/ \E c \in Cycles : TimerFires(c) \/ CycleEnds(c)
    \/ ClaimEnds \/ StrayEnds
    \/ ReconciliationFails \/ DeliveryFails
    \/ Collect \/ CollectionEnds
    \/ \E k \in Consumers : LinkStep(k) \/ LinkLost(k)
    \/ \E k \in Consumers, h \in Handlers : Deliver(k, h) \/ HandlerEnds(k, h)
    \/ BeginShutdown
    \/ ShutdownStep

RuntimeSpec == RuntimeInit /\ [][RuntimeNext]_runtimeVars

\* Timers fire and connection attempts end (connect has a timeout, the
\* broker's heartbeat ends a dead connection).  While it runs, an operation
\* ends, and so does a collection, whose queries have timeouts; nothing is
\* assumed of an operation the shutdown is waiting for, nor of a handler or of
\* a claim that lost its cycle at any time.
RuntimeFairness ==
    /\ \A c \in Cycles : WF_runtimeVars(CycleStep(c))
    /\ \A k \in Consumers : WF_runtimeVars(LinkStep(k))
    /\ WF_runtimeVars(CollectionEnds)
    /\ WF_runtimeVars(ShutdownStep)

FairRuntimeSpec == RuntimeSpec /\ RuntimeFairness

-----------------------------------------------------------------------------
\* The runtime's variables keep their types.
RuntimeTypeOK ==
    /\ app \in AppStates
    /\ cycle \in [Cycles -> CycleStates]
    /\ claims \in 0 .. BatchSize
    /\ strays \in Nat
    /\ collecting \in BOOLEAN
    /\ wait \in [Cycles -> WaitStates]
    /\ link \in [Consumers -> LinkStates]
    /\ closing \in [Consumers -> CloseStates]
    /\ handling \in [Consumers -> SUBSET Handlers]
    /\ awaited \in [Consumers -> SUBSET Handlers]
    /\ \A k \in Consumers : awaited[k] \subseteq handling[k]
    /\ midway \subseteq Consumers
    /\ upsets \in 0 .. MaxUpsets

\* The database is closed under work only when every wait for it had run out:
\* a cycle had its drain (the delivery after the abort of its requests, the
\* relay after the close of its publisher, a second wait each), a handler its
\* consumer's drain, and no collection of metrics is cut.  Two kinds of work
\* are excepted, for which nothing waits: a message delivered after close() to
\* a consumer that was closed in the middle of subscribing, and the strays,
\* the claims of a delivery cycle that failed without them, which the decision
\* on delivery takes for drained or destroyed like the rest.
WorkIsCutOnlyAfterItsDrain ==
    app = "closed" =>
        /\ ~collecting
        /\ InFlight("reconciliation") => wait["reconciliation"] = "late"
        /\ \A c \in {"relay", "delivery"} : InFlight(c) => wait[c] = "given_up"
        /\ claims > 0 => wait["delivery"] = "given_up"
        /\ \A k \in Consumers :
             /\ awaited[k] # {} => closing[k] = "late"
             /\ handling[k] \ awaited[k] # {} => k \in midway

\* A shutdown ends, whatever its operations and handlers do: with everything
\* closed, or failed by a reconciliation that was rejected under it.
ShutdownEnds == app = "stopping" ~> Ended

\* A worker that is not stopped goes on: after any failures every cycle runs
\* again and again, and both consumers are finally subscribed for good.
WorkGoesOn ==
    [](Running) =>
        /\ \A c \in Cycles : []<>(cycle[c] = "working")
        /\ \A k \in Consumers : <>[](link[k] = "open")
=============================================================================
