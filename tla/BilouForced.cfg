\* Forced labels: overlapping matches of three processors, two entities.
SPECIFICATION Spec
CONSTANTS
    MaxWords = 4
    MaxCalls = 1
    NumEntities = 2
    NumStages = 1
    Processors <- MCProcessors
    Sentences <- MCMatchSentences
    Outcomes <- MCOutcomes
INVARIANTS
    ForcedSpansReported
    ForcedLabelsKept
    EntitiesMatchLabels
    NoZeroDivision
PROPERTIES
    DecidedOnce
CHECK_DEADLOCK FALSE
