CONSTANTS
    m1 = m1
    m2 = m2
    m3 = m3
    u1 = u1
    u2 = u2
    u3 = u3
    r1 = r1
    r2 = r2
    r3 = r3
    r4 = r4
    r5 = r5
    r6 = r6
    r7 = r7
    o1 = o1
    r8 = r8
    r9 = r9
    r10 = r10
    o2 = o2
    o3 = o3
    Merchants = {m1, m2, m3}
    Requests = {r1, r2, r3, r4, r5, r6, r7, r8, r9, r10}
    CredentialOf <- MCCredentialOf
    Needs <- MCNeeds
    Grants <- MCGrants
    Recipient <- MCRecipient
    FirstKeys = 2
    Rotations = {o1, o2, o3}
    Rotating <- MCRotating
    CacheSize = 1
    MaxIncidents = 1
    Urls = {u1, u2, u3}
    Answers <- MCAnswers
    Command <- MCCommand
    MaxUpsets = 1
    MaxDisturbances = 1
    DevelopmentOrigins = {"development"}
    MaxAnswers = 2
    MaxResponseBytes = 2
    Registered <- MCRegistered
    After <- MCAfter
SPECIFICATION ControlSpec
INVARIANTS AccessIsAuthorised RotationReplacesOnce VerificationIsShared VersionsHaveOneAuthor ReceiverCanVerify
CHECK_DEADLOCK FALSE
