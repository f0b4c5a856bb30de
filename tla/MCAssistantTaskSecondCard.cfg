SPECIFICATION CalmSpec
CONSTANTS
    write1 = write1
    write2 = write2
    read = read
    denied = denied
    NoCall = NoCall
    Calls <- ThreeCalls
    AskCalls <- Writes
    DenyCalls <- NoCalls
    MaxRetries = 1
PROPERTY DecisionTakesEffect
CHECK_DEADLOCK FALSE
