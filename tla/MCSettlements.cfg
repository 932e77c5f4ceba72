SPECIFICATION SettlementSpec
CONSTANTS
    p1 = p1
    p2 = p2
    h1 = h1
    h2 = h2
    r1 = r1
    r2 = r2
    Payments = {p1, p2}
    Handlers = {h1, h2}
    Runs = {r1, r2}
    MaxAmount = 3
    FlatFee = 1
    BasisPoints = 2500
    BatchLimit = 2
    MaxTotal = 5
    NoPosition = NoPosition
    NoItem = NoItem
    Idle = Idle
SYMMETRY Symmetry
INVARIANT RefundsCountedOnce
INVARIANT ProjectionConverges
CONSTRAINT OneOrInTurn
INVARIANT BatchesAddUp
INVARIANT PayableConserved
