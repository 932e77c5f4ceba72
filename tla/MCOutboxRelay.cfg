\* Two relays, three events of which two never serialize, two rows per claim, two faults.
CONSTANTS
    e1 = e1
    e2 = e2
    e3 = e3
    w1 = w1
    w2 = w2
    q1 = q1
    q2 = q2
    NoWorker = NoWorker
    Events = {e1, e2, e3}
    Workers = {w1, w2}
    Queues = {q1, q2}
    Routes <- MCRoutes
    Unserializable = {e2, e3}
    BatchSize = 2
    MaxFaults = 2
SPECIFICATION FairRelaySpec
INVARIANTS PublishedWasRouted
PROPERTIES EventsGetPublished ClaimsEndByHolder
CHECK_DEADLOCK FALSE
