\* Two webhook slots on one channel, a settlement slot on another, queues that take a copy back once; a sound and a malformed event.
CONSTANTS
    e1 = e1
    bad = bad
    q1 = q1
    q2 = q2
    c1 = c1
    c2 = c2
    s1 = s1
    s2 = s2
    s3 = s3
    NoEvent = NoEvent
    Events = {e1, bad}
    Queues = {q1, q2}
    Routes <- MCRoutes
    Channels = {c1, c2}
    Slots = {s1, s2, s3}
    ChannelOf <- MCChannelOf
    QueueOf <- MCQueueOf
    WebhookQueues = {q1}
    Malformed = {bad}
    RetryAttempts = 2
    DeliveryLimit = 1
    MaxCopies = 1
    MaxUpsets = 2
SPECIFICATION InboxSpec
INVARIANT NoMessageLost
SYMMETRY Symmetry
