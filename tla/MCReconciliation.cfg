SPECIFICATION FairSpec
CHECK_DEADLOCK FALSE
CONSTANTS
    Requests = {r1, r2, r3, r4, r5}
    FileOf <- MCFileOf
    After <- MCAfter
    PeriodOf <- MCPeriodOf
    Contents <- MCContents
    Heavy = {fHeavy}
    Merchant = "m1"
    Facts <- MCFacts
    Initially <- MCInitially
    Workers = {w1, w2}
    LeaseTicks = 2
    MaxWindow = 3
    RowLimit = 5
    MaxSafe = 20
    MaxFaults = 2
    r1 = r1
    r2 = r2
    r3 = r3
    r4 = r4
    r5 = r5
    fMixed = fMixed
    fHeavy = fHeavy
    fLarge = fLarge
INVARIANTS ReportAccountsForAll OneReportPerImport OneImportPerFile
PROPERTY ImportsAreProcessed
