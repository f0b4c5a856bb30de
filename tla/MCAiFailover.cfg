SPECIFICATION FailoverFairSpec
CONSTANTS
    a = a
    b = b
    q1 = q1
    q2 = q2
    Requests = {q1, q2}
    Chain <- Two
    Cooldown = 1
    Patience = 2
    Hurried = {q1}
    Deadline = 1
    Illnesses = {"strict", "unfit", "down", "hung"}
INVARIANT OneAnswerOrAllTried
PROPERTIES
    PrimaryReturns
    HungModelCools
