CONSTANTS
    a1 = a1  a2 = a2  r1 = r1  r2 = r2  d1 = d1  u1 = u1
    Calls = {a1, a2, r1, r2, d1, u1}
    AskCalls = {a1, a2}
    DenyCalls = {d1}
    UnknownCalls = {u1}
    Fingerprint <- TwinReads
    NoCall = NoCall
    NoFingerprint = NoFingerprint
    MaxSteps = 3
    MaxToolCalls = 3
    Retries = 1
    Required = TRUE
    MaxBatch = 3
SPECIFICATION FairSpec
INVARIANTS ApprovalsRespected WithinBudgets NoTextBeforeTool
PROPERTIES KeepsTranscript RunEnds
CHECK_DEADLOCK FALSE
