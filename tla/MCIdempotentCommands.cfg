SPECIFICATION FairSpec
CONSTANTS
    c1 = c1
    c2 = c2
    c3 = c3
    k1 = k1
    h1 = h1
    h2 = h2
    NoHash = NoHash
    NoToken = NoToken
    NoResponse = NoResponse
    NoSlot = NoSlot
    LeaseDuration = 1
    ReplayDuration = 1
    Slots <- MCSlots
    Keys = {k1}
    Tokens <- MCTokens
    TokensOf <- MCTokensOf
    Hashes = {h1, h2}
    KeyOf <- MCKeyOf
    HashOf <- MCHashOf
    Problems <- MCProblems
    MaxTx = 3
    MaxIdent = 2
    MaxClock = 2
    MaxFaults = 2
INVARIANT EffectMatchesResponse
INVARIANT HeardIsStored
PROPERTY LeaseIsKept
PROPERTY ImplementsOnce
PROPERTY EveryClientIsAnswered
