\* One delivery of up to three attempts, two slots, four upsets.
CONSTANTS
    d1 = d1
    s1 = s1
    s2 = s2
    NoDelivery = NoDelivery
    NoToken = 0
    Deliveries = {d1}
    Slots = {s1, s2}
    Tokens <- MCTokens
    MaxAttempts = 3
    MaxUpsets = 4
SPECIFICATION FairDeliverySpec
INVARIANTS AttemptsAreNumbered RequestsAreAccounted OutcomeDecides
PROPERTIES ClaimsAreRespected DeliveriesEnd
\* Once the delivery has ended and the upsets are spent nothing is left to do.
CHECK_DEADLOCK FALSE
