---------------------------- MODULE BilouDecoding ----------------------------
(***************************************************************************)
(* How bilou_ner::recognize labels the words of one sentence, stage by     *)
(* stage, up to the entities it hands to templates.process_entities:       *)
(*                                                                         *)
(*   detect    the feature processors that force labels (GazetteersEnhanced*)
(*             hard_pre lists, URLEmailDetector) fill some of the words,   *)
(*   classify  the network fills every other word, and the forward pass of *)
(*             the decoder extends its tables by one word,                 *)
(*   back      compute_best_decoding walks the back pointers,              *)
(*   fill      the labels become the previous stage of the next network,   *)
(*   extract   the labels of the last stage become named entities.         *)
(*                                                                         *)
(* One action is one iteration of the loop it models.  The sentence lives  *)
(* in a cache that the next call uses again, so the variables below keep   *)
(* whatever the previous call left in them.                                *)
(*                                                                         *)
(* A network is what it outputs: any vector of Outcomes for any word.      *)
(* Probabilities are natural numbers.  The code divides the two best       *)
(* probabilities of a word by the greater of them; all five probabilities  *)
(* of the next word then share that divisor, every comparison is between   *)
(* two of those five, and so the model keeps the numerators only.  That    *)
(* the divisor is never zero is the property NoZeroDivision.               *)
(***************************************************************************)
EXTENDS Integers, Sequences, FiniteSets, Functions

CONSTANTS
    MaxWords,     \* bound: words of the longest sentence
    MaxCalls,     \* bound: calls of recognize that use the same cache
    NumEntities,  \* named_entities.size()
    NumStages,    \* networks.size()
    Processors,   \* the label-forcing processors, in template order
    Sentences,    \* the sentences recognize may be called with
    Outcomes      \* the vectors network.classify may compute

Words == 0 .. MaxWords - 1
Unknown == -1                        \* entity_type_unknown, ~0U
Entity == 0 .. NumEntities - 1
Bilou == {"B", "I", "L", "O", "U"}
NoLabel == "unknown"                 \* bilou_type_unknown

(***************************************************************************)
(* The values of bilou_entity: I, L, O, then B and U of every entity.      *)
(***************************************************************************)
BilouEntity == 0 .. 2 + 2 * NumEntities

GetBilou(v) == CASE v = 0 -> "I" [] v = 1 -> "L" [] v = 2 -> "O"
                 [] v > 2 /\ v % 2 = 1 -> "B"
                 [] v > 2 /\ v % 2 = 0 -> "U"
BadGetEntity(v) == (v - 3) \div 2
GetEntity(v) == IF v <= 2 THEN Unknown ELSE (v - 3) \div 2

(***************************************************************************)
(* A span is a match of a processor: for GazetteersEnhanced the hard_pre   *)
(* node its trie reaches over these words (the node of the lowest index,   *)
(* when several do), for URLEmailDetector a word it detects.               *)
(***************************************************************************)
Span == [start : Words, length : 1 .. MaxWords, entity : Entity \cup {Unknown}]
SpanWords(m) == m.start .. m.start + m.length - 1

(***************************************************************************)
(* An operator named Bad... is a faulty variant of the definition after    *)
(* it.  The specification uses none; each shows that a property of the     *)
(* project notices the fault.                                              *)
(***************************************************************************)

ASSUME BoundsAssumption ==
    /\ MaxWords \in Nat /\ MaxCalls \in Nat
    /\ NumEntities \in Nat \ {0} /\ NumStages \in Nat \ {0}

ASSUME ProcessorsAssumption == Processors \in Seq({"gazetteers", "url"})

ASSUME SentencesAssumption ==
    \A s \in Sentences :
        /\ s.size \in 0 .. MaxWords
        /\ s.matches \in [1 .. Len(Processors) -> SUBSET Span]
        /\ \A k \in 1 .. Len(Processors) : \A m \in s.matches[k] :
              /\ SpanWords(m) \subseteq 0 .. s.size - 1
              /\ Processors[k] = "url" => m.length = 1
              /\ \A o \in s.matches[k] :
                    m.start = o.start /\ m.length = o.length => m = o

ASSUME OutcomesAssumption == Outcomes \subseteq [BilouEntity -> Nat \ {0}]

VARIABLES
    pc,           \* where recognize is
    calls,        \* calls made so far
    sentence,     \* the sentence of this call: its size and its matches
    stage,        \* index of the network in use, from 1
    proc,         \* index of the feature processor at work
    i,            \* the loop variable
    filled,       \* probabilities[w].local_filled
    localProb,    \* probabilities[w].local.bilou[t].probability
    localEntity,  \* probabilities[w].local.bilou[t].entity
    prob,         \* probabilities[w].global.bilou[t].probability
    entity,       \* probabilities[w].global.bilou[t].entity
    previous,     \* probabilities[w].global.previous[t]
    best,         \* probabilities[w].global.best
    previousStage,\* previous_stage[w]
    entities      \* the output vector

input == <<calls, sentence>>
local == <<filled, localProb, localEntity>>
global == <<prob, entity, previous>>
vars == <<pc, input, stage, proc, i, local, global, best, previousStage, entities>>

NoEntity == [t \in Bilou |-> Unknown]
NoSentence == [size |-> 0, matches |-> [k \in 1 .. Len(Processors) |-> {}]]

(***************************************************************************)
(* A new cache: its vectors grow with value-initialized elements, that is  *)
(* zeros, and zero is bilou_type_B.                                        *)
(***************************************************************************)
Init ==
    /\ pc = "idle"
    /\ calls = 0
    /\ sentence = NoSentence
    /\ stage = 1 /\ proc = 1 /\ i = 0
    /\ filled = [w \in Words |-> FALSE]
    /\ localProb = [w \in Words |-> [t \in Bilou |-> 0]]
    /\ localEntity = [w \in Words |-> [t \in Bilou |-> 0]]
    /\ prob = [w \in Words |-> [t \in Bilou |-> 0]]
    /\ entity = [w \in Words |-> [t \in Bilou |-> 0]]
    /\ previous = [w \in Words |-> [t \in Bilou |-> "B"]]
    /\ best = [w \in Words |-> "B"]
    /\ previousStage = [w \in Words |-> [bilou |-> "B", entity |-> 0]]
    /\ entities = <<>>

InSentence(w) == w < sentence.size

-----------------------------------------------------------------------------
(***************************************************************************)
(* The operators of the decoder.  w maps a label to its probability; a     *)
(* later label replaces the best one only if it is strictly better.        *)
(***************************************************************************)
Better(a, b, w) == IF w[b] > w[a] THEN b ELSE a

BadBestLOU(w) == Better("L", "O", w)
BestLOU(w) == Better(Better("L", "O", w), "U", w)
BadBestBI(w) == "B"
BestBI(w) == Better("B", "I", w)
BestBOU(w) == Better(Better("B", "O", w), "U", w)
BestOf(w) == Better(Better(Better(Better("B", "I", w), "L", w), "O", w), "U", w)

(***************************************************************************)
(* fill_bilou_probabilities: the best outcome of every label, the first    *)
(* one of equally good ones.  Only B and U have several outcomes.          *)
(***************************************************************************)
FirstBest(oc, t) ==
    {v \in BilouEntity :
        /\ GetBilou(v) = t
        /\ \A u \in BilouEntity : GetBilou(u) = t =>
               oc[u] < oc[v] \/ (oc[u] = oc[v] /\ v <= u)}

BestOutcomes(oc) ==
    {[B |-> b, I |-> 0, L |-> 1, O |-> 2, U |-> u] :
        b \in FirstBest(oc, "B"), u \in FirstBest(oc, "U")}

FilledProb(oc, pick) == [t \in Bilou |-> oc[pick[t]]]
FilledEntity(pick) == [t \in Bilou |-> GetEntity(pick[t])]

(***************************************************************************)
(* bilou_probabilities_global::init: a sentence cannot start inside an     *)
(* entity.                                                                 *)
(***************************************************************************)
BadInitProb(lp) == lp
InitProb(lp) == [lp EXCEPT !["I"] = 0, !["L"] = 0]

(***************************************************************************)
(* bilou_probabilities_global::update: g and ge are the global             *)
(* probabilities and entities of the word before.                          *)
(***************************************************************************)
Inside == {"I", "L"}

UpdatePrevious(g) == [t \in Bilou |-> IF t \in Inside THEN BestBI(g) ELSE BestLOU(g)]
UpdateProb(lp, g) == [t \in Bilou |-> g[UpdatePrevious(g)[t]] * lp[t]]
BadUpdateEntity(le, g, ge) == le
UpdateEntity(le, g, ge) ==
    [t \in Bilou |-> IF t \in Inside THEN ge[BestBI(g)] ELSE le[t]]

-----------------------------------------------------------------------------
(***************************************************************************)
(* A call.  When the tagger leaves the sentence empty, no stage is run,    *)
(* and entities stays empty.                                               *)
(***************************************************************************)
BadClearPreviousStage == previousStage
ClearPreviousStage ==
    [w \in Words |-> IF InSentence(w)' THEN [bilou |-> NoLabel, entity |-> Unknown]
                                       ELSE previousStage[w]]

Recognize(s) ==
    /\ pc = "idle" /\ calls < MaxCalls
    /\ calls' = calls + 1
    /\ sentence' = s
    /\ entities' = <<>>
    /\ previousStage' = ClearPreviousStage
    /\ stage' = 1 /\ proc' = 1 /\ i' = 0
    /\ pc' = IF s.size = 0 THEN "extract" ELSE "stage"
    /\ UNCHANGED <<local, global, best>>

BadClearLocalFilled == filled
ClearLocalFilled == [w \in Words |-> IF InSentence(w) THEN FALSE ELSE filled[w]]

StartStage ==
    /\ pc = "stage"
    /\ filled' = ClearLocalFilled
    /\ proc' = 1 /\ i' = 0
    /\ pc' = "detect"
    /\ UNCHANGED <<input, stage, localProb, localEntity, global, best, previousStage,
                   entities>>

(***************************************************************************)
(* Forcing the labels of the words of m: one label of each has probability *)
(* one and the entity of m, the others have none.                          *)
(***************************************************************************)
SpanLabel(m, w) ==
    CASE m.length = 1 -> "U"
      [] m.length > 1 /\ w = m.start -> "B"
      [] m.length > 1 /\ w = m.start + m.length - 1 -> "L"
      [] m.length > 1 /\ m.start < w /\ w < m.start + m.length - 1 -> "I"

Only(t) == [u \in Bilou |-> IF u = t THEN 1 ELSE 0]

ForceLabels(m) ==
    /\ filled' = [w \in Words |-> w \in SpanWords(m) \/ filled[w]]
    /\ localProb' = [w \in Words |->
           IF w \in SpanWords(m) THEN Only(SpanLabel(m, w)) ELSE localProb[w]]
    /\ localEntity' = [w \in Words |->
           IF w \in SpanWords(m)
             THEN [NoEntity EXCEPT ![SpanLabel(m, w)] = m.entity] ELSE localEntity[w]]

MatchesAt(w) == {m \in sentence.matches[proc] : m.start = w}

(***************************************************************************)
(* The matches that start at w and cover no word already filled.           *)
(***************************************************************************)
BadFreeMatchesAt(w) == MatchesAt(w)
FreeMatchesAt(w) ==
    {m \in MatchesAt(w) : \A v \in SpanWords(m) : ~filled[v]}

AtProcessor(kind) ==
    /\ pc = "detect"
    /\ proc <= Len(Processors) /\ Processors[proc] = kind
    /\ i < sentence.size
    /\ i' = i + 1
    /\ UNCHANGED <<pc, input, stage, proc, global, best, previousStage, entities>>

(***************************************************************************)
(* GazetteersEnhanced at word i: the longest free match is forced.         *)
(***************************************************************************)
GazetteersAtWord ==
    /\ AtProcessor("gazetteers")
    /\ IF FreeMatchesAt(i) = {}
         THEN UNCHANGED local
         ELSE \E m \in FreeMatchesAt(i) :
                 /\ \A k \in FreeMatchesAt(i) : k.length <= m.length
                 /\ ForceLabels(m)

(***************************************************************************)
(* URLEmailDetector at word i.                                             *)
(***************************************************************************)
UrlEmailAtWord ==
    /\ AtProcessor("url")
    /\ IF FreeMatchesAt(i) = {}
         THEN UNCHANGED local
         ELSE \E m \in FreeMatchesAt(i) : ForceLabels(m)

NextProcessor ==
    /\ pc = "detect"
    /\ i = sentence.size \/ proc > Len(Processors)
    /\ i' = 0
    /\ IF proc < Len(Processors)
         THEN proc' = proc + 1 /\ pc' = pc
         ELSE proc' = proc /\ pc' = "classify"
    /\ UNCHANGED <<input, stage, local, global, best, previousStage, entities>>

-----------------------------------------------------------------------------
(***************************************************************************)
(* One word of the forward pass, its local probabilities lp and entities   *)
(* le being known.                                                         *)
(***************************************************************************)
Forward(lp, le) ==
    IF i = 0
      THEN /\ prob' = [prob EXCEPT ![i] = InitProb(lp)]
           /\ entity' = [entity EXCEPT ![i] = le]
           /\ previous' = [previous EXCEPT ![i] = [t \in Bilou |-> NoLabel]]
           /\ best' = [best EXCEPT ![i] = BestBOU(InitProb(lp))]
      ELSE /\ prob' = [prob EXCEPT ![i] = UpdateProb(lp, prob[i - 1])]
           /\ entity' = [entity EXCEPT ![i] = UpdateEntity(le, prob[i - 1], entity[i - 1])]
           /\ previous' = [previous EXCEPT ![i] = UpdatePrevious(prob[i - 1])]
           /\ best' = [best EXCEPT ![i] = BestOf(UpdateProb(lp, prob[i - 1]))]

AtWordToClassify ==
    /\ pc = "classify" /\ i < sentence.size
    /\ i' = i + 1
    /\ UNCHANGED <<pc, input, stage, proc, previousStage, entities>>

NetworkDecides ==
    \E oc \in Outcomes : \E pick \in BestOutcomes(oc) :
        /\ filled' = [filled EXCEPT ![i] = TRUE]
        /\ localProb' = [localProb EXCEPT ![i] = FilledProb(oc, pick)]
        /\ localEntity' = [localEntity EXCEPT ![i] = FilledEntity(pick)]
        /\ Forward(FilledProb(oc, pick), FilledEntity(pick))

BadClassifyWord == AtWordToClassify /\ NetworkDecides
ClassifyWord == AtWordToClassify /\ ~filled[i] /\ NetworkDecides

KeepForcedWord ==
    /\ AtWordToClassify
    /\ filled[i]
    /\ Forward(localProb[i], localEntity[i])
    /\ UNCHANGED local

-----------------------------------------------------------------------------
(***************************************************************************)
(* compute_best_decoding: the best label an entity may end with at the     *)
(* last word, then the back pointers.                                      *)
(***************************************************************************)
LastLabel ==
    /\ pc = "classify" /\ i = sentence.size
    /\ best' = [best EXCEPT ![i - 1] = BestLOU(prob[i - 1])]
    /\ i' = i - 1
    /\ pc' = "back"
    /\ UNCHANGED <<input, stage, proc, local, global, previousStage, entities>>

FollowPrevious ==
    /\ pc = "back" /\ i > 0
    /\ best' = [best EXCEPT ![i - 1] = previous[i][best[i]]]
    /\ i' = i - 1
    /\ UNCHANGED <<pc, input, stage, proc, local, global, previousStage, entities>>

FillPreviousStage ==
    /\ pc = "back" /\ i = 0
    /\ previousStage' = [w \in Words |->
           IF InSentence(w) THEN [bilou |-> best[w], entity |-> entity[w][best[w]]]
                            ELSE previousStage[w]]
    /\ IF stage < NumStages
         THEN stage' = stage + 1 /\ pc' = "stage"
         ELSE stage' = stage /\ pc' = "extract"
    /\ UNCHANGED <<input, proc, i, local, global, best, entities>>

-----------------------------------------------------------------------------
(***************************************************************************)
(* The words at which the scan from an entity that begins at w may stop.   *)
(***************************************************************************)
LastWordsAfter(w) == {v \in Words : w < v /\ InSentence(v) /\ best[v] = "L"}

EndAfter(w) ==
    IF LastWordsAfter(w) = {} THEN sentence.size
    ELSE CHOOSE v \in LastWordsAfter(w) : \A u \in LastWordsAfter(w) : v <= u

Report(start, length, type) ==
    entities' = Append(entities, [start |-> start, length |-> length, type |-> type])

AtWordToExtract(label) ==
    /\ pc = "extract" /\ i < sentence.size
    /\ best[i] \in label
    /\ UNCHANGED <<pc, input, stage, proc, local, global, best, previousStage>>

ExtractUnit ==
    /\ AtWordToExtract({"U"})
    /\ Report(i, 1, entity[i]["U"])
    /\ i' = i + 1

ExtractSpan ==
    /\ AtWordToExtract({"B"})
    /\ Report(i, EndAfter(i) - i + (IF EndAfter(i) < sentence.size THEN 1 ELSE 0),
              entity[i]["B"])
    /\ i' = EndAfter(i) + 1

SkipWord ==
    /\ AtWordToExtract({"I", "L", "O"})
    /\ i' = i + 1
    /\ UNCHANGED entities

Return ==
    /\ pc = "extract" /\ i >= sentence.size
    /\ pc' = "idle"
    /\ UNCHANGED <<input, stage, proc, i, local, global, best, previousStage, entities>>

-----------------------------------------------------------------------------
Step ==
    \/ StartStage \/ GazetteersAtWord \/ UrlEmailAtWord \/ NextProcessor
    \/ ClassifyWord \/ KeepForcedWord
    \/ LastLabel \/ FollowPrevious \/ FillPreviousStage
    \/ ExtractUnit \/ ExtractSpan \/ SkipWord \/ Return

Next == Step \/ \E s \in Sentences : Recognize(s)

Spec == Init /\ [][Next]_vars

-----------------------------------------------------------------------------
(***************************************************************************)
(*                              PROPERTIES                                 *)
(***************************************************************************)
Label == Bilou \cup {NoLabel}
EntityOrUnknown == Entity \cup {Unknown}

(***************************************************************************)
(* Every variable has its type; the loop variable ends at most one past    *)
(* the end, which is where the scan of an unfinished entity leaves it.     *)
(***************************************************************************)
TypeOK ==
    /\ pc \in {"idle", "stage", "detect", "classify", "back", "extract"}
    /\ calls \in 0 .. MaxCalls
    /\ sentence \in Sentences \cup {NoSentence}
    /\ stage \in 1 .. NumStages
    /\ proc \in Nat \ {0}
    /\ i \in 0 .. MaxWords + 1
    /\ filled \in [Words -> BOOLEAN]
    /\ localProb \in [Words -> [Bilou -> Nat]]
    /\ localEntity \in [Words -> [Bilou -> EntityOrUnknown]]
    /\ prob \in [Words -> [Bilou -> Nat]]
    /\ entity \in [Words -> [Bilou -> EntityOrUnknown]]
    /\ previous \in [Words -> [Bilou -> Label]]
    /\ best \in [Words -> Bilou]
    /\ previousStage \in [Words -> [bilou : Label, entity : EntityOrUnknown]]
    /\ entities \in Seq([start : Words, length : 1 .. MaxWords, type : EntityOrUnknown])

(***************************************************************************)
(* lab labels the words of the sentence so that every entity that begins   *)
(* also ends: B I* L or U.                                                 *)
(***************************************************************************)
StartsEntity == {"B", "I"}
WellFormed(lab) ==
    /\ lab[0] \notin Inside
    /\ lab[sentence.size - 1] \notin StartsEntity
    /\ \A w \in Words : InSentence(w + 1) =>
           (lab[w] \in StartsEntity <=> lab[w + 1] \in Inside)

Decoded ==
    /\ sentence.size > 0
    /\ pc \in {"extract", "idle"} \/ (pc = "back" /\ i = 0)

(***************************************************************************)
(* What compute_best_decoding leaves in best is a well-formed labelling,   *)
(* whatever the networks output and the processors force.                  *)
(***************************************************************************)
WellFormedDecoding == Decoded => WellFormed(best)

(***************************************************************************)
(* update divides by the greater of the two best probabilities of the word *)
(* before: it is never zero.                                               *)
(***************************************************************************)
NoZeroDivision ==
    pc = "classify" /\ 0 < i /\ InSentence(i) =>
        \/ prob[i - 1][BestBI(prob[i - 1])] > 0
        \/ prob[i - 1][BestLOU(prob[i - 1])] > 0

(***************************************************************************)
(* A label that a processor forced on a word is the label decoded for it:  *)
(* no neighbour, however probable, pulls a word out of a forced entity.    *)
(***************************************************************************)
Forced(w, t) == localProb[w] = Only(t)
ForcedLabelsKept ==
    Decoded => \A w \in Words, t \in Bilou :
                  InSentence(w) /\ Forced(w, t) => best[w] = t

(***************************************************************************)
(* The decoding maximizes the product of the local probabilities over all  *)
(* well-formed labellings: the tables of update and the back pointers lose *)
(* no better path.                                                         *)
(***************************************************************************)
PathProb(lab) ==
    LET product[n \in 0 .. sentence.size] ==
            IF n = 0 THEN 1 ELSE product[n - 1] * localProb[n - 1][lab[n - 1]]
    IN  product[sentence.size]

OptimalDecoding ==
    Decoded /\ pc # "idle" =>
        \A lab \in [0 .. sentence.size - 1 -> Bilou] :
            WellFormed(lab) => PathProb(lab) <= PathProb(best)

(***************************************************************************)
(* The manual's rule for overlapping matches, as a set of matches F: no    *)
(* two overlap, and any other match overlaps one that takes precedence --  *)
(* an earlier processor's, one that starts earlier, or, starting at the    *)
(* same word, a longer one.                                                *)
(***************************************************************************)
Matches == UNION {{k} \X sentence.matches[k] : k \in 1 .. Len(Processors)}
Overlap(f, g) == SpanWords(f[2]) \cap SpanWords(g[2]) # {}
Precedes(f, g) ==
    \/ f[1] < g[1]
    \/ /\ f[1] = g[1]
       /\ \/ f[2].start < g[2].start
          \/ f[2].start = g[2].start /\ f[2].length > g[2].length
Chosen(F) ==
    /\ \A f, g \in F : f # g => ~Overlap(f, g)
    /\ \A g \in Matches \ F : \E f \in F : Precedes(f, g) /\ Overlap(f, g)

Returned == pc = "idle" /\ sentence.size > 0

(***************************************************************************)
(* Every chosen match is reported, with its exact words and its entity.    *)
(***************************************************************************)
ForcedSpansReported ==
    Returned =>
        \E F \in SUBSET Matches :
            /\ Chosen(F)
            /\ \A f \in F : [start |-> f[2].start, length |-> f[2].length,
                              type |-> f[2].entity] \in Range(entities)

(***************************************************************************)
(* When decoding begins, the words whose label is forced are those of the  *)
(* chosen matches of this very sentence: the network decides every other   *)
(* word, even in a cache in which a previous sentence left words filled.   *)
(***************************************************************************)
OnlyMatchesForce ==
    pc = "back" =>
        \E F \in SUBSET Matches :
            /\ Chosen(F)
            /\ \A w \in Words : InSentence(w) =>
                  ((\E t \in Bilou : Forced(w, t)) <=> (\E f \in F : w \in SpanWords(f[2])))

(***************************************************************************)
(* The reported entities are sorted and disjoint, as process_entities      *)
(* needs them; they cover exactly the words not labelled O; and the type   *)
(* taken from the first word of an entity is the one that update carried   *)
(* to each of its words.                                                   *)
(***************************************************************************)
EntityWords(e) == e.start .. e.start + e.length - 1
EntitiesMatchLabels ==
    Returned =>
        /\ \A k, l \in DOMAIN entities :
              k < l => entities[k].start + entities[k].length <= entities[l].start
        /\ UNION {EntityWords(e) : e \in Range(entities)} =
              {w \in Words : InSentence(w) /\ best[w] # "O"}
        /\ \A e \in Range(entities) : \A w \in EntityWords(e) :
              /\ previousStage[w].entity = e.type
              /\ w = e.start <=> best[w] \notin Inside

(***************************************************************************)
(* The features of a network see no label of an earlier sentence: in the   *)
(* first stage the previous stage is unknown on every word, and in a later *)
(* one it is a whole well-formed labelling.                                *)
(***************************************************************************)
PreviousStageSound ==
    pc \in {"detect", "classify"} =>
        IF stage = 1
          THEN \A w \in Words : InSentence(w) =>
                  previousStage[w] = [bilou |-> NoLabel, entity |-> Unknown]
          ELSE WellFormed([w \in Words |-> previousStage[w].bilou])

(***************************************************************************)
(* Within a stage a word is decided once: no processor, and no network,    *)
(* overwrites what an earlier one has filled.                              *)
(***************************************************************************)
DecidedOnce ==
    [][\A w \in Words :
          filled[w] /\ filled'[w] /\ pc # "stage"
            => localProb'[w] = localProb[w] /\ localEntity'[w] = localEntity[w]]_vars
=============================================================================
