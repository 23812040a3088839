-------------------------------- MODULE Trainer --------------------------------
(***************************************************************************)
(* bilou_ner_trainer::train.  It reads the training and the held-out data, *)
(* turning the annotated entities into the outcomes of words, parses the   *)
(* feature templates, and then, for every stage, generates the instances,  *)
(* trains a network on them, and decodes the data for the next stage.      *)
(*                                                                         *)
(* Of the instances only their largest feature and outcome matter, which   *)
(* network_classifier::train compares with the sizes it is given.          *)
(***************************************************************************)
EXTENDS FeatureAllocation

CONSTANTS
    EntityTypes,  \* the names of entity types in the data
    TrainKeys,    \* the strings a lookup processor finds in the training data
    OtherKeys,    \* further strings of the held-out data
    LabelKeys,    \* the labels of a previous stage, as strings
    MaxLength,    \* a bound on the words of an annotated sentence
    Stages        \* the number of stages

ASSUME StagesAssumption == Stages \in Nat

Tags == {[tag |-> "O", type |-> ""]} \cup [tag : {"B", "I"}, type : EntityTypes]

Outcomes == [I |-> 0, L |-> 1, O |-> 2, B_first |-> 3, U_first |-> 4]
UnknownType == -1
UnknownOutcome == -1  \* ~0U, above every number of outcomes

Corpora == <<"train", "heldout">>

VARIABLES
    pc,        \* what train does
    corpus,    \* the data at work
    tags,      \* load_data: the annotated sentence
    outcomes,  \* load_data: the outcomes of its words, so far
    entityMap, \* the entity types in the order they were found
    stage,     \* the stage
    sizes,     \* the number of features of each network trained
    largest,   \* the largest feature of the instances
    largestOutcome,  \* the largest outcome of the training instances
    outcomeCount     \* the number of outcomes of the networks

trainerVars == <<pc, corpus, tags, outcomes, entityMap, stage, sizes, largest, largestOutcome, outcomeCount>>
vars == <<featureVars, trainerVars>>

Init ==
    /\ FeaturesInit
    /\ pc = "load"
    /\ corpus = "train"
    /\ tags \in UNION {[1 .. n -> Tags] : n \in 1 .. MaxLength}
    /\ outcomes = <<>>
    /\ entityMap = <<>>
    /\ stage = 0
    /\ sizes = <<>>
    /\ largest = 0
    /\ largestOutcome = 0
    /\ outcomeCount = 0

Greater(a, b) == IF a > b THEN a ELSE b

-----------------------------------------------------------------------------
(***************************************************************************)
(* load_data, word by word.                                                *)
(***************************************************************************)
(* entity_map::parse *)
Entity(types, type) ==
    IF \E n \in 1 .. Len(types) : types[n] = type
    THEN (CHOOSE n \in 1 .. Len(types) : types[n] = type) - 1
    ELSE UnknownType

BadWithType(type, adding) ==
    IF adding THEN Append(entityMap, type) ELSE entityMap

WithType(type, adding) ==
    IF adding /\ Entity(entityMap, type) = UnknownType THEN Append(entityMap, type) ELSE entityMap

B(entity) == IF entity = UnknownType THEN UnknownOutcome ELSE Outcomes.B_first + 2 * entity
U(entity) == IF entity = UnknownType THEN UnknownOutcome ELSE Outcomes.U_first + 2 * entity

SameType(i, j) == tags[i].tag # "O" /\ tags[j].tag # "O" /\ tags[i].type = tags[j].type

HasPrev(i) == i > 1 /\ tags[i].tag = "I" /\ SameType(i - 1, i)

BadHasNext(i) == i < Len(tags) /\ SameType(i, i + 1)
HasNext(i) == i < Len(tags) /\ tags[i + 1].tag # "B" /\ SameType(i, i + 1)

OutcomeOf(i, types) ==
    LET entity == Entity(types, tags[i].type) IN
    CASE tags[i].tag = "O" -> Outcomes.O
      [] tags[i].tag # "O" /\ ~HasPrev(i) /\ ~HasNext(i) -> U(entity)
      [] tags[i].tag # "O" /\ ~HasPrev(i) /\ HasNext(i) -> B(entity)
      [] tags[i].tag # "O" /\ HasPrev(i) /\ HasNext(i) -> Outcomes.I
      [] OTHER -> Outcomes.L

LoadWord ==
    /\ pc = "load" /\ Len(outcomes) < Len(tags)
    /\ LET i == Len(outcomes) + 1
           types == IF tags[i].tag = "O" THEN entityMap ELSE WithType(tags[i].type, corpus = "train")
           outcome == OutcomeOf(i, types) IN
       /\ entityMap' = types
       /\ outcomes' = Append(outcomes, outcome)
       /\ largestOutcome' = IF corpus = "train" THEN Greater(largestOutcome, outcome) ELSE largestOutcome
    /\ UNCHANGED <<featureVars, pc, corpus, tags, stage, sizes, largest, outcomeCount>>

SentenceLoaded == pc = "load" /\ Len(outcomes) = Len(tags)

LoadHeldout ==
    /\ SentenceLoaded /\ corpus = "train"
    /\ corpus' = "heldout"
    /\ tags' \in UNION {[1 .. n -> Tags] : n \in 1 .. MaxLength}
    /\ outcomes' = <<>>
    /\ UNCHANGED <<featureVars, pc, entityMap, stage, sizes, largest, largestOutcome, outcomeCount>>

(* There need not be held-out data.                                        *)
EndOfData ==
    /\ SentenceLoaded
    /\ pc' = "parse"
    /\ tags' = <<>> /\ outcomes' = <<>> /\ corpus' = "train"
    /\ UNCHANGED <<featureVars, entityMap, stage, sizes, largest, largestOutcome, outcomeCount>>

-----------------------------------------------------------------------------
(***************************************************************************)
(* The templates, which may name entity types of their own for gazetteers. *)
(***************************************************************************)
ParseTemplate ==
    /\ pc = "parse"
    /\ ParseProcessor
    /\ \E type \in EntityTypes :
        entityMap' = IF Templates[Len(map) + 1].kind = "enhanced" THEN WithType(type, TRUE) ELSE entityMap
    /\ UNCHANGED <<pc, corpus, tags, outcomes, stage, sizes, largest, largestOutcome, outcomeCount>>

NextStage(s) ==
    /\ pc' = IF s < Stages THEN "features" ELSE "save"
    /\ stage' = s + 1
    /\ corpus' = "train"
    /\ largest' = Omnipresent

EndOfTemplates ==
    /\ pc = "parse" /\ Parsed
    /\ NextStage(0)
    /\ UNCHANGED <<featureVars, tags, outcomes, entityMap, sizes, largestOutcome, outcomeCount>>

-----------------------------------------------------------------------------
(***************************************************************************)
(* generate_instances: the processors applied to the words of the data;    *)
(* only training data adds features.  compute_previous_stage applies them  *)
(* again, and classifies.                                                  *)
(***************************************************************************)
Adding == pc = "features" /\ corpus = "train"

KeysOf(q) ==
    CASE Templates[q].kind = "lookup" -> IF corpus = "train" THEN TrainKeys ELSE TrainKeys \cup OtherKeys
      [] Templates[q].kind = "previous" /\ stage > 1 -> LabelKeys
      [] OTHER -> {}

Applied(ids) == largest' = Greater(largest, CHOOSE n \in ids \cup {0} : \A k \in ids : n >= k)

ApplyKey(q, key, i) ==
    /\ Lookup(q, key, Adding)
    /\ Applied(IF Known(q, key)' THEN KeyAt(q, i, map'[q][key]) ELSE {})

ApplyFeature ==
    /\ pc \in {"features", "previous_stage"}
    /\ \E q \in Processor, i \in Words :
        \/ \E key \in KeysOf(q) : ApplyKey(q, key, i)
        \/ /\ Templates[q].kind = "lookup"
           /\ Applied(OuterWords(q))
           /\ UNCHANGED featureVars
        \/ \E k \in DOMAIN bases[q], length \in 1 .. SentenceSize - i :
            /\ length <= Templates[q].lists[k]
            /\ Applied(EntryAt(q, k, i, length))
            /\ UNCHANGED featureVars
    /\ UNCHANGED <<pc, corpus, tags, outcomes, entityMap, stage, sizes, largestOutcome, outcomeCount>>

(* All of the training data is looked at, in every stage.                  *)
AllApplied ==
    corpus = "train" => \A q \in Processor : Templates[q].kind = "lookup" => TrainKeys \subseteq DOMAIN map[q]

EndOfTrainFeatures ==
    /\ pc = "features" /\ corpus = "train" /\ AllApplied
    /\ corpus' = "heldout"
    /\ UNCHANGED <<featureVars, pc, tags, outcomes, entityMap, stage, sizes, largest, largestOutcome, outcomeCount>>

BadTrainNetwork ==
    /\ pc = "features" /\ corpus = "heldout"
    /\ pc' = "previous_stage"
    /\ sizes' = Append(sizes, IF sizes = <<>> THEN total ELSE sizes[1])
    /\ outcomeCount' = Outcomes.B_first + 2 * Len(entityMap)
    /\ corpus' = "train"
    /\ UNCHANGED <<featureVars, tags, outcomes, entityMap, stage, largest, largestOutcome>>

TrainNetwork ==
    /\ pc = "features" /\ corpus = "heldout"
    /\ pc' = "previous_stage"
    /\ sizes' = Append(sizes, total)
    /\ outcomeCount' = Outcomes.B_first + 2 * Len(entityMap)
    /\ corpus' = "train"
    /\ UNCHANGED <<featureVars, tags, outcomes, entityMap, stage, largest, largestOutcome>>

HeldoutPreviousStage ==
    /\ pc = "previous_stage" /\ corpus = "train"
    /\ corpus' = "heldout"
    /\ UNCHANGED <<featureVars, pc, tags, outcomes, entityMap, stage, sizes, largest, largestOutcome, outcomeCount>>

EndOfStage ==
    /\ pc = "previous_stage" /\ corpus = "heldout"
    /\ NextStage(stage)
    /\ UNCHANGED <<featureVars, tags, outcomes, entityMap, sizes, largestOutcome, outcomeCount>>

Next ==
    \/ LoadWord \/ LoadHeldout \/ EndOfData
    \/ ParseTemplate \/ EndOfTemplates
    \/ ApplyFeature \/ EndOfTrainFeatures \/ TrainNetwork \/ HeldoutPreviousStage \/ EndOfStage

Spec == Init /\ [][Next]_vars

-----------------------------------------------------------------------------
(***************************************************************************)
(*                              PROPERTIES                                 *)
(***************************************************************************)
TypeOK ==
    /\ pc \in {"load", "parse", "features", "previous_stage", "save"}
    /\ corpus \in {"train", "heldout"}
    /\ tags \in Seq(Tags)
    /\ outcomes \in Seq(Nat \cup {UnknownOutcome})
    /\ entityMap \in Seq(EntityTypes) /\ \A k, l \in 1 .. Len(entityMap) : entityMap[k] = entityMap[l] => k = l
    /\ stage \in 0 .. Stages + 1
    /\ sizes \in Seq(Nat) /\ Len(sizes) <= Stages
    /\ total \in Nat /\ largest \in Nat /\ largestOutcome \in Nat /\ outcomeCount \in Nat

(***************************************************************************)
(* The annotation, by definition: an entity starts at a B, or at an I that *)
(* continues no word of its type; it goes on as long as I of its type do.  *)
(***************************************************************************)
Starts(i) == tags[i].tag = "B" \/ (tags[i].tag = "I" /\ (i = 1 \/ ~SameType(i - 1, i)))

AnnotatedSpans ==
    {span \in [first : 1 .. Len(tags), last : 1 .. Len(tags)] :
        /\ span.first <= span.last
        /\ Starts(span.first)
        /\ \A k \in span.first + 1 .. span.last : ~Starts(k) /\ tags[k].tag = "I"
        /\ span.last < Len(tags) => Starts(span.last + 1) \/ tags[span.last + 1].tag = "O"}

(* The outcomes, read as recognize reads labels.                           *)
IsB(o) == o >= Outcomes.B_first /\ (o - Outcomes.B_first) % 2 = 0
IsU(o) == o >= Outcomes.U_first /\ (o - Outcomes.U_first) % 2 = 0
EntityOfOutcome(o) == (o - Outcomes.B_first) \div 2

(***************************************************************************)
(* What is learnt is what was annotated: each annotated entity is, in the  *)
(* outcomes, B I ... I L or U of its type, and all other words are O.  A   *)
(* type that only the held-out data has gives an outcome nothing predicts. *)
(***************************************************************************)
OutcomesMatchAnnotation ==
    SentenceLoaded =>
        /\ \A span \in AnnotatedSpans :
            LET first == outcomes[span.first]
                entity == Entity(entityMap, tags[span.first].type) IN
            /\ IF entity = UnknownType
               THEN corpus = "heldout" /\ first = UnknownOutcome
               ELSE /\ IF span.first = span.last THEN IsU(first) ELSE IsB(first)
                    /\ EntityOfOutcome(first) = entity
            /\ \A k \in span.first + 1 .. span.last - 1 : outcomes[k] = Outcomes.I
            /\ span.first < span.last => outcomes[span.last] = Outcomes.L
        /\ \A i \in 1 .. Len(tags) :
            (outcomes[i] = Outcomes.O) <=> ~\E span \in AnnotatedSpans : span.first <= i /\ i <= span.last

(***************************************************************************)
(* train refuses instances whose features or outcomes are beyond the sizes *)
(* it is given ("Training instances out of range!"), and it would be too   *)
(* late, after hours: no data leads there.  The sizes are read between the *)
(* instances being made and the data being decoded with a map that may     *)
(* have grown in every stage.                                              *)
(***************************************************************************)
InstancesInRange ==
    /\ pc = "previous_stage" => largest < sizes[stage] /\ largestOutcome < outcomeCount
    /\ pc = "features" => largest < total
=============================================================================
