\* One relay, three consumers that try a message once and queues that take it back once; one fault and two upsets.
CONSTANTS
    e1 = e1
    w1 = w1
    q1 = q1
    q2 = q2
    c1 = c1
    c2 = c2
    c3 = c3
    s1 = s1
    s2 = s2
    s3 = s3
    NoEvent = NoEvent
    NoWorker = NoWorker
    Events = {e1}
    Workers = {w1}
    Queues = {q1, q2}
    Routes <- MCRoutes
    EventIds = {"evt_1", "evt_2"}
    PaymentIds = {"pi_1"}
    RefundIds = {"rf_1"}
    LedgerIds = {"ltx_1"}
    BatchIds = {"stb_1"}
    ImportIds = {"rec_1"}
    RequestIds = {"r1", "r2"}
    Uuids = {"m1", "M1"}
    LowerUuids = {"m1"}
    LowerCase <- MCLowerCase
    Null = Null
    Times <- MCTimes
    NoInstant = NoInstant
    MaxSafeInteger = 3
    Unserializable <- MCUnserializable
    BatchSize = 1
    MaxFaults = 1
    Channels = {c1, c2, c3}
    Slots = {s1, s2, s3}
    ChannelOf <- MCChannelOf
    QueueOf <- MCQueueOf
    WebhookQueues = {q1}
    Malformed <- MCMalformed
    RetryAttempts = 1
    DeliveryLimit = 1
    MaxCopies = 1
    MaxUpsets = 2
SPECIFICATION FairEventSpec
PROPERTIES EventsTakeEffect ImplementsPromise
CHECK_DEADLOCK FALSE
