\* Two calls that share a cache, two stages each.
SPECIFICATION Spec
CONSTANTS
    MaxWords = 2
    MaxCalls = 2
    NumEntities = 1
    NumStages = 2
    Processors <- MCReuseProcessors
    Sentences <- MCReuseSentences
    Outcomes <- MCReuseOutcomes
INVARIANTS
    TypeOK
    OnlyMatchesForce
    PreviousStageSound
CHECK_DEADLOCK FALSE
