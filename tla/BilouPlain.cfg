\* Every network output on sentences of up to three words, one stage.
SPECIFICATION Spec
CONSTANTS
    MaxWords = 3
    MaxCalls = 1
    NumEntities = 1
    NumStages = 1
    Processors <- NoProcessors
    Sentences <- MCPlainSentences
    Outcomes <- MCAllOutcomes
INVARIANTS
    WellFormedDecoding
    OptimalDecoding
CHECK_DEADLOCK FALSE
