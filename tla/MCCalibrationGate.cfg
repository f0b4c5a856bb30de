SPECIFICATION Spec
SYMMETRY Symmetry
CHECK_DEADLOCK FALSE
CONSTANTS
    Payloads <- MCPayloads
    InitArchive <- MCArchive
    Outcomes <- MCOutcomes
    InitOutcomes <- MCInitOutcomes
    Signals <- MCSignals
    StaleSignals <- MCStale
    NoOutcome = NoOutcome
    FactorCodes = {"f", "g"}
    NoValue = NoValue
    SealedHorizon <- MCHorizon
    IdRank <- MCIdRank
    FactorHorizon = 1
    HoldoutDates = 1
    Floors <- MCFloors
    MinMarkets = 2
    MaxCaptures = 10
    Writers = {w1, w2}
    Rows <- MCRows
    InitWeight <- MCInitWeight
    InitMode <- MCInitMode
    Weights <- MCWeights
    None = None
    MaxRounds = 2
    MaxEvents = 2
INVARIANTS
    AuditTrail
    OncePerCohort
PROPERTIES
    GatedAndFresh
    FirstDecisionStands
