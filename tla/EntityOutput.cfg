SPECIFICATION OutputSpec
CONSTANTS
    Types <- MCTypes
    Sentences <- MCSentences
    Templates <- MCTemplates
    Modes = {"xml", "conll", "vertical"}
    MaxLines = 5
    MaxWords = 4
INVARIANTS
    OutputTypeOK
    EntitiesNested
    AddedByTheRules
    XmlRoundTrip
    ConllLabels
    VerticalNumbers
CHECK_DEADLOCK FALSE
