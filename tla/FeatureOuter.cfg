SPECIFICATION Spec
CONSTANTS
    Templates <- MCTemplates
    SentenceSize = 3
    EntityTypes = {"per", "loc"}
    TrainKeys = {"a", "b"}
    OtherKeys = {"c"}
    LabelKeys = {"U 0"}
    MaxLength = 1
    Stages = 1
INVARIANTS
    OuterWordIsEmptyString
CHECK_DEADLOCK FALSE
