SPECIFICATION OutputSpec
CONSTANTS
    Types <- MCTypes
    Sentences <- MCSentences
    Templates <- MCTemplates
    Modes = {"conll"}
    MaxLines = 5
    MaxWords = 2
INVARIANTS
    OnlyOutermost
CHECK_DEADLOCK FALSE
