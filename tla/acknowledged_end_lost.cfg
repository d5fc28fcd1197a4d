SPECIFICATION StoreSpec
CONSTANTS
    t1 = t1
    t2 = t2
    p1 = p1
    p2 = p2
    p3 = p3
    e1 = e1
    e2 = e2
    e3 = e3
    s1 = s1
    s2 = s2
    s3 = s3
    NoOp = NoOp
    NoSession = NoSession
    Threads = {t1}
    ProvisionOps = {p1}
    EndOps = {e1}
    Sessions = {s1}
    ThreadOf <- MCThreadOf
    OperationLimit = 9
    WorkspaceMayVanish = TRUE
INVARIANT AcknowledgedEndSurvives
