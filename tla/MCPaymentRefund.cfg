SPECIFICATION PaymentSpec
CONSTANTS
    s1 = s1
    s2 = s2
    s3 = s3
    s4 = s4
    s5 = s5
    kCreate = kCreate
    kCreate2 = kCreate2
    kCapture = kCapture
    kCapture2 = kCapture2
    kRefund = kRefund
    kRefund2 = kRefund2
    kRefund3 = kRefund3
    p1 = p1
    x1 = x1
    x2 = x2
    x3 = x3
    NoHash = NoHash
    NoToken = NoToken
    NoResponse = NoResponse
    NoSlot = NoSlot
    NotRead = NotRead
    NoPayment = NoPayment
    NoRef = NoRef
    LeaseDuration = 1
    ReplayDuration = 2
    Slots = {s1, s2, s3, s4, s5}
    Keys = {kCreate, kCapture, kRefund, kRefund2, kRefund3}
    Tokens <- MCTokens
    TokensOf <- MCTokensOf
    Hashes <- Commands
    KeyOf <- RefundKeys
    HashOf <- RefundCmds
    CmdOf <- RefundCmds
    Problems <- PaymentProblems
    MaxTx = 2
    MaxIdent = 2
    MaxClock = 1
    MaxFaults = 1
    PaymentIds = {p1}
    ExternalRefs = {x1, x2, x3}
    MaxAmount = 2
    Ids <- MCTokens
    NoCurrency = NoCurrency
    Currencies = {"ETB"}
INVARIANT LedgerMatchesPayments
INVARIANT EventsCarryRunningTotals
CONSTRAINT CapturedMeanwhile
INVARIANT StatusProjection
PROPERTY ImplementsBook
