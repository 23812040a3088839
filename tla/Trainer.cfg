SPECIFICATION Spec
CONSTANTS
    Templates <- MCTemplates
    SentenceSize = 3
    EntityTypes = {"per", "loc"}
    TrainKeys = {"a", "b"}
    OtherKeys = {"c"}
    LabelKeys = {"U 0"}
    MaxLength = 3
    Stages = 2
INVARIANTS
    TypeOK
    AllottedOnce
    AppliedApart
    OutcomesMatchAnnotation
    InstancesInRange
PROPERTIES
    NumbersStable
CHECK_DEADLOCK FALSE
