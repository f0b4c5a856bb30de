SPECIFICATION PatientSpec
CONSTANTS
    write1 = write1
    write2 = write2
    read = read
    denied = denied
    NoCall = NoCall
    Calls <- ThreeCalls
    AskCalls <- Writes
    DenyCalls <- NoCalls
    MaxRetries = 1
PROPERTIES
    QueuedIsTaken
    DecisionTakesEffect
CHECK_DEADLOCK FALSE
