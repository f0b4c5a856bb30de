SPECIFICATION Spec
CONSTANTS
    write1 = write1
    write2 = write2
    read = read
    denied = denied
    NoCall = NoCall
    Calls <- FourCalls
    AskCalls <- Writes
    DenyCalls <- Denied
    MaxRetries = 1
INVARIANTS
    IInv
    EffectsPermittedOnce
    NoReplayAfterEffect
PROPERTIES
    CancelStopsTools
    KeepsLedger
CHECK_DEADLOCK FALSE
