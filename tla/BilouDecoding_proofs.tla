------------------------ MODULE BilouDecoding_proofs ------------------------
(***************************************************************************)
(* Proofs about BilouDecoding, for sentences of any length, any number of  *)
(* entities, stages and calls, any matches and any positive outcomes.      *)
(*                                                                         *)
(* First the decoding (IndInv).  A forced label is part of a whole span,   *)
(* so the words around it can only be labelled consistently (LocalsOK);    *)
(* every word has a label of positive probability that the next word can   *)
(* continue (ChainOK); and the walk back only visits labels of positive    *)
(* probability (BackOK), among which the impossible ones are not.          *)
(*                                                                         *)
(* Then what the networks and the caller see (ReportInv).  The matches     *)
(* chosen so far are a choice by the manual's rule among those considered  *)
(* so far (MatchesOK); the entity of a word that continues a span is that  *)
(* of the word before (EntityOK); and the entities reported so far are the *)
(* spans of labels before the word at hand (ReportOK).                     *)
(*                                                                         *)
(* And that the labelling is the best one (BestInv): every table is        *)
(* computed from the one before (TablesOK), so that an entry bounds the    *)
(* product of any labelling that leads to it (TableBounds) and the back    *)
(* pointers attain it (TableAttained); and the walk back starts at the     *)
(* best entry (LastOK).                                                    *)
(***************************************************************************)
EXTENDS BilouDecoding, Induction, TLAPS

(***************************************************************************)
(*                         The inductive invariant                         *)
(***************************************************************************)
LoopOK ==
    /\ pc \in {"stage", "detect", "classify", "back"} => sentence.size > 0
    /\ pc \in {"detect", "classify"} => i <= sentence.size
    /\ pc = "back" => i < sentence.size

Open(w) == \A t \in Bilou : localProb[w][t] > 0

InSpan(w, t) ==
    /\ Forced(w, t)
    /\ t \in StartsEntity =>
          /\ InSentence(w + 1) /\ filled[w + 1]
          /\ Forced(w + 1, "I") \/ Forced(w + 1, "L")
    /\ t \in Inside =>
          /\ w > 0 /\ filled[w - 1]
          /\ Forced(w - 1, "B") \/ Forced(w - 1, "I")

Active == sentence.size > 0 /\ pc # "stage"

LocalsOK ==
    Active => \A w \in Words : InSentence(w) /\ filled[w] =>
                 Open(w) \/ \E t \in Bilou : InSpan(w, t)

Processed(w) ==
    /\ InSentence(w)
    /\ pc \in {"classify", "back", "extract", "idle"}
    /\ pc = "classify" => w < i

LabelsPossible(w) ==
    /\ filled[w]
    /\ Open(w) => prob[w]["B"] > 0 /\ prob[w]["O"] > 0 /\ prob[w]["U"] > 0
    /\ \A t \in Bilou : Forced(w, t) =>
          prob[w][t] > 0 /\ \A u \in Bilou \ {t} : prob[w][u] = 0
    /\ w = 0 => prob[w]["I"] = 0 /\ prob[w]["L"] = 0

Linked(w) ==
    /\ previous[w] = UpdatePrevious(prob[w - 1])
    /\ \A t \in Bilou : prob[w][t] > 0 => prob[w - 1][previous[w][t]] > 0

ChainOK ==
    \A w \in Words : Processed(w) =>
        LabelsPossible(w) /\ (w > 0 => Linked(w))

WalkedBack(w) ==
    /\ InSentence(w)
    /\ pc \in {"back", "extract", "idle"}
    /\ pc = "back" => i <= w

BackOK ==
    \A w \in Words : WalkedBack(w) =>
        /\ prob[w][best[w]] > 0
        /\ w = sentence.size - 1 => best[w] \notin StartsEntity
        /\ InSentence(w + 1) => best[w] = previous[w + 1][best[w + 1]]

IndInv == TypeOK /\ LoopOK /\ LocalsOK /\ ChainOK /\ BackOK

-----------------------------------------------------------------------------
(***************************************************************************)
(*                    Lemmas about the data and operators                  *)
(***************************************************************************)

(* A sentence of the model has at most MaxWords words, and its matches lie *)
(* within it: what recognize may rely on when a processor forces labels.   *)
LEMMA SentenceType ==
    ASSUME NEW s \in Sentences \cup {NoSentence}
    PROVE  /\ s.size \in 0 .. MaxWords
           /\ \A k \in 1 .. Len(Processors) : \A m \in s.matches[k] :
                 m \in Span /\ SpanWords(m) \subseteq 0 .. s.size - 1
<1>1. CASE s \in Sentences
  BY <1>1, SentencesAssumption
<1>2. CASE s = NoSentence
  BY <1>2, BoundsAssumption DEF NoSentence
<1> QED BY <1>1, <1>2

(* The strict comparisons of update return one of the labels compared, and *)
(* one that no other of them beats.                                        *)
LEMMA BestLOUBest ==
    ASSUME NEW w \in [Bilou -> Nat]
    PROVE  /\ BestLOU(w) \in {"L", "O", "U"}
           /\ \A t \in {"L", "O", "U"} : w[t] <= w[BestLOU(w)]
  BY DEF BestLOU, Better, Bilou

LEMMA BestBIBest ==
    ASSUME NEW w \in [Bilou -> Nat]
    PROVE  /\ BestBI(w) \in {"B", "I"}
           /\ \A t \in {"B", "I"} : w[t] <= w[BestBI(w)]
  BY DEF BestBI, Better, Bilou

LEMMA BestOfType ==
    ASSUME NEW w \in [Bilou -> Nat]
    PROVE  BestOf(w) \in Bilou /\ BestBOU(w) \in Bilou
  BY DEF BestOf, BestBOU, Better, Bilou

(* A product of probabilities is positive when both factors are.           *)
LEMMA ProductPositive ==
    ASSUME NEW x \in Nat, NEW y \in Nat
    PROVE  /\ x * y \in Nat
           /\ x * y > 0 <=> x > 0 /\ y > 0
  BY Z3

(* fill_bilou_probabilities keeps only probabilities the network computed, *)
(* and all five labels get one.                                            *)
LEMMA OutcomeTypes ==
    ASSUME NEW oc \in Outcomes, NEW pick \in BestOutcomes(oc)
    PROVE  /\ FilledProb(oc, pick) \in [Bilou -> Nat \ {0}]
           /\ FilledEntity(pick) \in [Bilou -> EntityOrUnknown]
<1>1. pick \in [Bilou -> BilouEntity]
  BY BoundsAssumption DEF BestOutcomes, FirstBest, Bilou, BilouEntity
<1>2. \A v \in BilouEntity : GetEntity(v) \in EntityOrUnknown
  BY BoundsAssumption DEF BilouEntity, GetEntity, EntityOrUnknown, Entity, Unknown
<1>3. oc \in [BilouEntity -> Nat \ {0}]
  BY OutcomesAssumption
<1> QED BY <1>1, <1>2, <1>3 DEF FilledProb, FilledEntity

(* The tables update computes have the types of the tables it reads.       *)
LEMMA UpdateTypes ==
    ASSUME NEW lp \in [Bilou -> Nat], NEW le \in [Bilou -> EntityOrUnknown],
           NEW g \in [Bilou -> Nat], NEW ge \in [Bilou -> EntityOrUnknown]
    PROVE  /\ UpdatePrevious(g) \in [Bilou -> Bilou]
           /\ UpdateProb(lp, g) \in [Bilou -> Nat]
           /\ UpdateEntity(le, g, ge) \in [Bilou -> EntityOrUnknown]
<1>1. BestLOU(g) \in Bilou /\ BestBI(g) \in Bilou
  BY BestLOUBest, BestBIBest DEF Bilou
<1>2. UpdatePrevious(g) \in [Bilou -> Bilou]
  BY <1>1 DEF UpdatePrevious
<1>3. UpdateProb(lp, g) \in [Bilou -> Nat]
  BY <1>2, ProductPositive DEF UpdateProb
<1>4. UpdateEntity(le, g, ge) \in [Bilou -> EntityOrUnknown]
  BY <1>1 DEF UpdateEntity
<1> QED BY <1>2, <1>3, <1>4

-----------------------------------------------------------------------------
(***************************************************************************)
(*          What a step that leaves the tables alone preserves             *)
(***************************************************************************)
LEMMA LocalsKept ==
    ASSUME LocalsOK, UNCHANGED <<local, sentence>>, Active' => Active
    PROVE  LocalsOK'
  BY DEF LocalsOK, Open, InSpan, Forced, InSentence, local

LEMMA ChainKept ==
    ASSUME ChainOK, UNCHANGED <<local, global, sentence>>,
           \A w \in Words : Processed(w)' => Processed(w)
    PROVE  ChainOK'
  BY DEF ChainOK, LabelsPossible, Linked, Open, Forced, local, global

LEMMA BackKept ==
    ASSUME BackOK, UNCHANGED <<global, best, sentence>>,
           \A w \in Words : WalkedBack(w)' => WalkedBack(w)
    PROVE  BackOK'
  BY DEF BackOK, InSentence, global

-----------------------------------------------------------------------------
(***************************************************************************)
(*                  Every action preserves the invariant                   *)
(***************************************************************************)
LEMMA InitInv == Init => IndInv
<1> SUFFICES ASSUME Init PROVE IndInv
  OBVIOUS
<1>1. sentence \in Sentences \cup {NoSentence} /\ sentence.size = 0
  BY DEF Init, NoSentence
<1>2. TypeOK
  BY <1>1, BoundsAssumption
     DEF Init, TypeOK, Bilou, Label, EntityOrUnknown, Entity
<1>3. LoopOK /\ LocalsOK
  BY <1>1 DEF Init, LoopOK, LocalsOK, Active
<1>4. ChainOK /\ BackOK
  BY <1>1 DEF ChainOK, Processed, BackOK, WalkedBack, InSentence, Words
<1> QED BY <1>2, <1>3, <1>4 DEF IndInv

LEMMA RecognizeInv ==
    ASSUME IndInv, NEW s \in Sentences, Recognize(s)
    PROVE  IndInv'
<1> USE DEF IndInv
<1>1. sentence' = s /\ s.size \in 0 .. MaxWords
  BY SentenceType DEF Recognize
<1>2. TypeOK'
  <2>1. previousStage' \in [Words -> [bilou : Label, entity : EntityOrUnknown]]
    BY DEF Recognize, ClearPreviousStage, TypeOK, Label, EntityOrUnknown
  <2> QED
    BY <1>1, <2>1, BoundsAssumption DEF Recognize, TypeOK, local, global
<1>3. s.size = 0 \/ pc' = "stage"
  BY DEF Recognize
<1>4. LoopOK'
  BY <1>1 DEF Recognize, LoopOK
<1>5. LocalsOK'
  BY <1>1, <1>3 DEF LocalsOK, Active
<1>6. ChainOK' /\ BackOK'
  BY <1>1, <1>3 DEF ChainOK, Processed, BackOK, WalkedBack, InSentence, Words
<1> QED BY <1>2, <1>4, <1>5, <1>6

LEMMA StartStageInv ==
    ASSUME IndInv, StartStage
    PROVE  IndInv'
<1> USE DEF IndInv
<1>1. sentence' = sentence /\ sentence.size \in 0 .. MaxWords
  BY SentenceType DEF StartStage, TypeOK, input
<1>2. TypeOK'
  <2>1. filled' \in [Words -> BOOLEAN]
    BY DEF StartStage, TypeOK, ClearLocalFilled
  <2> QED
    BY <2>1, BoundsAssumption DEF StartStage, TypeOK, input, global
<1>3. LoopOK'
  BY <1>1 DEF StartStage, LoopOK
<1>4. LocalsOK'
  BY <1>1 DEF StartStage, LocalsOK, ClearLocalFilled, InSentence
<1>5. ChainOK' /\ BackOK'
  BY DEF StartStage, ChainOK, Processed, BackOK, WalkedBack
<1> QED BY <1>2, <1>3, <1>4, <1>5

LEMMA NextProcessorInv ==
    ASSUME IndInv, NextProcessor
    PROVE  IndInv'
<1> USE DEF IndInv
<1>1. sentence' = sentence /\ sentence.size \in 0 .. MaxWords
  BY SentenceType DEF NextProcessor, TypeOK, input
<1>2. TypeOK'
  BY <1>1, BoundsAssumption DEF NextProcessor, TypeOK, input, local, global
<1>3. LoopOK'
  BY <1>1 DEF NextProcessor, LoopOK
<1>4. LocalsOK'
  BY <1>1, LocalsKept DEF NextProcessor, Active
<1>5. ChainOK' /\ BackOK'
  BY DEF NextProcessor, ChainOK, Processed, BackOK, WalkedBack, Words
<1> QED BY <1>2, <1>3, <1>4, <1>5

(* Forcing a whole span of free words leaves every earlier span whole.     *)
LEMMA ForceLabelsLocals ==
    ASSUME IndInv, sentence' = sentence, pc = "detect", pc' = "detect",
           NEW m \in Span, SpanWords(m) \subseteq 0 .. sentence.size - 1,
           \A v \in SpanWords(m) : ~filled[v],
           ForceLabels(m)
    PROVE  LocalsOK'
<1> USE DEF IndInv
<1>0. /\ MaxWords \in Nat /\ sentence.size \in 0 .. MaxWords
      /\ filled \in [Words -> BOOLEAN]
  BY SentenceType, BoundsAssumption DEF TypeOK
<1>1. SUFFICES ASSUME NEW w \in Words, InSentence(w), filled'[w]
               PROVE  Open(w)' \/ \E t \in Bilou : InSpan(w, t)'
  BY DEF LocalsOK, InSentence
<1> DEFINE first == m.start
           last == m.start + m.length - 1
<1>2. first \in Nat /\ last \in Nat /\ first <= last
  BY <1>0 DEF Span, Words
<1>3. SpanWords(m) = first .. last
  BY DEF SpanWords
<1>4. last < sentence.size
  BY <1>0, <1>2, <1>3
<1>5. \A v \in Words : v \in SpanWords(m) => filled'[v] /\ Forced(v, SpanLabel(m, v))'
  BY DEF ForceLabels, Forced
<1>6. \A v \in Words : v \notin SpanWords(m) =>
          filled'[v] = filled[v] /\ localProb'[v] = localProb[v]
  BY <1>0 DEF ForceLabels
<1>7. CASE w \in SpanWords(m)
  <2>1. CASE m.length = 1
    <3>1. SpanLabel(m, w) = "U"
      BY <2>1 DEF SpanLabel
    <3> QED
      BY <3>1, <1>5, <1>7 DEF InSpan, Bilou, StartsEntity, Inside
  <2>2. CASE m.length > 1
    <3>0. m.length # 1 /\ first < last
      BY <2>2, <1>2 DEF Span, Words
    <3>1. \A v \in Words : v \in SpanWords(m) =>
            /\ v = first => SpanLabel(m, v) = "B"
            /\ v = last => SpanLabel(m, v) = "L"
            /\ v # first /\ v # last => SpanLabel(m, v) = "I"
      BY <2>2, <3>0, <1>2, <1>3 DEF SpanLabel, Words
    <3>2. w # last => w + 1 \in Words /\ w + 1 \in SpanWords(m) /\ w + 1 # first
      BY <1>0, <1>2, <1>3, <1>4, <1>7 DEF Words
    <3>3. w # first => w - 1 \in Words /\ w - 1 \in SpanWords(m) /\ w - 1 # last
      BY <1>0, <1>2, <1>3, <1>4, <1>7 DEF Words
    <3>4. w # last => /\ filled'[w + 1] /\ InSentence(w + 1)'
                      /\ Forced(w + 1, "I")' \/ Forced(w + 1, "L")'
      BY <3>1, <3>2, <1>0, <1>2, <1>3, <1>4, <1>5 DEF InSentence, Words
    <3>5. w # first => /\ filled'[w - 1] /\ w > 0
                       /\ Forced(w - 1, "B")' \/ Forced(w - 1, "I")'
      BY <3>1, <3>3, <1>5 DEF Words
    <3> QED
      BY <3>0, <3>1, <3>4, <3>5, <1>5, <1>7 DEF InSpan, Bilou, StartsEntity, Inside
  <2> QED BY <2>1, <2>2 DEF Span, Words
<1>8. CASE w \notin SpanWords(m)
  <2>1. filled[w] /\ localProb'[w] = localProb[w]
    BY <1>1, <1>6, <1>8
  <2>2. Open(w) \/ \E t \in Bilou : InSpan(w, t)
    BY <1>1, <2>1 DEF LocalsOK, Active, LoopOK, InSentence
  <2>3. CASE Open(w)
    BY <2>1, <2>3 DEF Open
  <2>4. ASSUME NEW t \in Bilou, InSpan(w, t)
        PROVE  InSpan(w, t)'
    <3>1. Forced(w, t)'
      BY <2>1, <2>4 DEF InSpan, Forced
    <3>2. ASSUME t \in StartsEntity
          PROVE  /\ InSentence(w + 1)' /\ filled'[w + 1]
                 /\ Forced(w + 1, "I")' \/ Forced(w + 1, "L")'
      <4>1. InSentence(w + 1) /\ filled[w + 1]
            /\ (Forced(w + 1, "I") \/ Forced(w + 1, "L"))
        BY <2>4, <3>2 DEF InSpan
      <4>2. w + 1 \in Words
        BY <4>1, <1>0 DEF InSentence, Words
      <4>3. w + 1 \notin SpanWords(m)
        BY <4>1
      <4> QED
        BY <4>1, <4>2, <4>3, <1>6 DEF InSentence, Forced
    <3>3. ASSUME t \in Inside
          PROVE  /\ w > 0 /\ filled'[w - 1]
                 /\ Forced(w - 1, "B")' \/ Forced(w - 1, "I")'
      <4>1. w > 0 /\ filled[w - 1] /\ (Forced(w - 1, "B") \/ Forced(w - 1, "I"))
        BY <2>4, <3>3 DEF InSpan
      <4>2. w - 1 \in Words
        BY <4>1, <1>0 DEF Words
      <4>3. w - 1 \notin SpanWords(m)
        BY <4>1
      <4> QED
        BY <4>1, <4>2, <4>3, <1>6 DEF Forced
    <3> QED BY <3>1, <3>2, <3>3 DEF InSpan
  <2> QED BY <2>2, <2>3, <2>4
<1> QED BY <1>7, <1>8

(***************************************************************************)
(* The two processors differ only in the match they pick.                  *)
(***************************************************************************)
LEMMA ProcessorInv ==
    ASSUME IndInv, NEW kind, AtProcessor(kind),
           \/ UNCHANGED local
           \/ \E m \in FreeMatchesAt(i) : ForceLabels(m)
    PROVE  IndInv'
<1> USE DEF IndInv
<1>1. /\ sentence' = sentence /\ pc = "detect" /\ pc' = "detect"
      /\ MaxWords \in Nat /\ sentence.size \in 0 .. MaxWords
      /\ i \in Nat /\ i < sentence.size /\ i' = i + 1
  BY SentenceType, BoundsAssumption DEF AtProcessor, TypeOK, input
<1>2. LoopOK'
  BY <1>1 DEF LoopOK
<1>3. ChainOK' /\ BackOK'
  BY <1>1 DEF ChainOK, Processed, BackOK, WalkedBack
<1>4. CASE UNCHANGED local
  <2>1. TypeOK'
    BY <1>1, <1>4 DEF AtProcessor, TypeOK, local, global, input
  <2>2. LocalsOK'
    BY <1>1, <1>4, LocalsKept DEF Active
  <2> QED BY <2>1, <2>2, <1>2, <1>3
<1>5. ASSUME NEW m \in FreeMatchesAt(i), ForceLabels(m)
      PROVE  IndInv'
  <2>1. proc \in 1 .. Len(Processors) /\ m \in sentence.matches[proc]
    BY ProcessorsAssumption DEF AtProcessor, TypeOK, FreeMatchesAt, MatchesAt
  <2>2. m \in Span /\ SpanWords(m) \subseteq 0 .. sentence.size - 1
    BY <2>1, SentenceType DEF TypeOK
  <2>3. \A v \in SpanWords(m) : ~filled[v]
    BY DEF FreeMatchesAt
  <2>4. LocalsOK'
    BY <1>1, <1>5, <2>2, <2>3, ForceLabelsLocals
  <2>5. filled' \in [Words -> BOOLEAN]
    BY <1>5 DEF ForceLabels, TypeOK
  <2>6. localProb' \in [Words -> [Bilou -> Nat]]
    BY <1>5 DEF ForceLabels, TypeOK, Only
  <2>7. localEntity' \in [Words -> [Bilou -> EntityOrUnknown]]
    BY <1>5, <2>2 DEF ForceLabels, TypeOK, NoEntity, Span, EntityOrUnknown
  <2>8. TypeOK'
    BY <1>1, <2>5, <2>6, <2>7 DEF AtProcessor, TypeOK, global, input
  <2> QED BY <2>4, <2>8, <1>2, <1>3
<1> QED BY <1>4, <1>5

LEMMA GazetteersInv ==
    ASSUME IndInv, GazetteersAtWord
    PROVE  IndInv'
  BY ProcessorInv DEF GazetteersAtWord

LEMMA UrlEmailInv ==
    ASSUME IndInv, UrlEmailAtWord
    PROVE  IndInv'
  BY ProcessorInv DEF UrlEmailAtWord

-----------------------------------------------------------------------------
(***************************************************************************)
(*                           The forward pass                              *)
(***************************************************************************)
(* A forced word is not one the network decided, and has one forced label. *)
LEMMA OnlyOne ==
    ASSUME NEW t \in Bilou
    PROVE  /\ \E u \in Bilou : ~(Only(t)[u] > 0)
           /\ \A u \in Bilou : Only(t) = Only(u) => t = u
           /\ Only(t) \in [Bilou -> Nat]
           /\ Only(t)[t] > 0 /\ \A u \in Bilou \ {t} : Only(t)[u] = 0
<1>1. \A u \in Bilou : Only(t)[u] = IF u = t THEN 1 ELSE 0
  BY DEF Only
<1>2. \E u \in Bilou : u # t
  BY DEF Bilou
<1> QED BY <1>1, <1>2 DEF Only

(* A word of which some label is possible can be continued: unless it is   *)
(* forced to begin or continue an entity, the next word may start afresh,  *)
(* and if it is so forced, the next word may continue the entity.          *)
LEMMA Continuation ==
    ASSUME NEW w \in Words, prob[w] \in [Bilou -> Nat], LabelsPossible(w)
    PROVE  /\ Open(w) => prob[w][BestLOU(prob[w])] > 0
           /\ \A t \in Bilou : Forced(w, t) =>
                 IF t \in StartsEntity THEN prob[w][BestBI(prob[w])] > 0
                                       ELSE prob[w][BestLOU(prob[w])] > 0
<1>1. /\ BestLOU(prob[w]) \in Bilou
      /\ \A t \in {"L", "O", "U"} : prob[w][t] <= prob[w][BestLOU(prob[w])]
  BY BestLOUBest DEF Bilou
<1>2. /\ BestBI(prob[w]) \in Bilou
      /\ \A t \in {"B", "I"} : prob[w][t] <= prob[w][BestBI(prob[w])]
  BY BestBIBest DEF Bilou
<1>3. \A t \in Bilou : prob[w][t] \in Nat
  OBVIOUS
<1> QED BY <1>1, <1>2, <1>3 DEF LabelsPossible, StartsEntity, Bilou

LEMMA ForwardTypes ==
    ASSUME IndInv, NEW lp \in [Bilou -> Nat], NEW le \in [Bilou -> EntityOrUnknown],
           i \in Words, Forward(lp, le)
    PROVE  /\ prob' \in [Words -> [Bilou -> Nat]]
           /\ entity' \in [Words -> [Bilou -> EntityOrUnknown]]
           /\ previous' \in [Words -> [Bilou -> Label]]
           /\ best' \in [Words -> Bilou]
<1> USE DEF IndInv
<1>1. CASE i = 0
  <2>1. InitProb(lp) \in [Bilou -> Nat]
    BY DEF InitProb
  <2>2. BestBOU(InitProb(lp)) \in Bilou
    BY <2>1, BestOfType
  <2>3. [t \in Bilou |-> NoLabel] \in [Bilou -> Label]
    BY DEF Label
  <2> QED
    <3>1. prob' \in [Words -> [Bilou -> Nat]]
      BY <1>1, <2>1, <2>2, <2>3 DEF Forward, TypeOK
    <3>2. entity' \in [Words -> [Bilou -> EntityOrUnknown]]
      BY <1>1, <2>1, <2>2, <2>3 DEF Forward, TypeOK
    <3>3. previous' \in [Words -> [Bilou -> Label]]
      BY <1>1, <2>1, <2>2, <2>3 DEF Forward, TypeOK
    <3>4. best' \in [Words -> Bilou]
      BY <1>1, <2>1, <2>2, <2>3 DEF Forward, TypeOK
    <3> QED BY <3>1, <3>2, <3>3, <3>4
<1>2. CASE i # 0
  <2>1. i - 1 \in Words
    BY <1>2, BoundsAssumption DEF Words
  <2>2. prob[i - 1] \in [Bilou -> Nat] /\ entity[i - 1] \in [Bilou -> EntityOrUnknown]
    BY <2>1 DEF TypeOK
  <2>3. /\ UpdatePrevious(prob[i - 1]) \in [Bilou -> Label]
        /\ UpdateProb(lp, prob[i - 1]) \in [Bilou -> Nat]
        /\ UpdateEntity(le, prob[i - 1], entity[i - 1]) \in [Bilou -> EntityOrUnknown]
    BY <2>2, UpdateTypes DEF Label
  <2>4. BestOf(UpdateProb(lp, prob[i - 1])) \in Bilou
    BY <2>3, BestOfType
  <2> QED
    <3>1. prob' \in [Words -> [Bilou -> Nat]]
      BY <1>2, <2>3, <2>4 DEF Forward, TypeOK
    <3>2. entity' \in [Words -> [Bilou -> EntityOrUnknown]]
      BY <1>2, <2>3, <2>4 DEF Forward, TypeOK
    <3>3. previous' \in [Words -> [Bilou -> Label]]
      BY <1>2, <2>3, <2>4 DEF Forward, TypeOK
    <3>4. best' \in [Words -> Bilou]
      BY <1>2, <2>3, <2>4 DEF Forward, TypeOK
    <3> QED BY <3>1, <3>2, <3>3, <3>4
<1> QED BY <1>1, <1>2

(* One word of the forward pass keeps the chain of possible labels.        *)
LEMMA ForwardChain ==
    ASSUME IndInv, pc = "classify", pc' = "classify", sentence' = sentence,
           i < sentence.size, i' = i + 1,
           NEW lp \in [Bilou -> Nat], NEW le, Forward(lp, le),
           filled'[i] = TRUE, localProb'[i] = lp,
           \A w \in Words \ {i} : filled'[w] = filled[w] /\ localProb'[w] = localProb[w],
           LocalsOK'
    PROVE  ChainOK'
<1> USE DEF IndInv
<1>0. MaxWords \in Nat /\ sentence.size \in 0 .. MaxWords /\ i \in Nat /\ i \in Words
  BY SentenceType, BoundsAssumption DEF TypeOK, Words
<1>1. SUFFICES ASSUME NEW w \in Words, w <= i
               PROVE  LabelsPossible(w)' /\ (w > 0 => Linked(w)')
  BY <1>0 DEF ChainOK, Processed, Words
<1>2. \A v \in Words : v # i => /\ prob'[v] = prob[v] /\ previous'[v] = previous[v]
  BY DEF Forward, TypeOK
<1>3. Active' /\ Active
  BY <1>0 DEF Active
<1>4. CASE w < i
  <2>1. Processed(w)
    BY <1>0, <1>4 DEF Processed, InSentence, Words
  <2>2. LabelsPossible(w) /\ (w > 0 => Linked(w))
    BY <2>1 DEF ChainOK
  <2>3. LabelsPossible(w)'
    BY <1>0, <1>2, <1>4, <2>2 DEF LabelsPossible, Open, Forced
  <2>4. ASSUME w > 0 PROVE Linked(w)'
    <3>1. w - 1 \in Words /\ w - 1 # i
      BY <1>0, <1>4, <2>4 DEF Words
    <3> QED BY <1>0, <1>2, <1>4, <2>2, <2>4, <3>1 DEF Linked
  <2> QED BY <2>3, <2>4
<1>5. CASE w = i /\ i = 0
  <2>1. prob'[w] = InitProb(lp)
    BY <1>5 DEF Forward, TypeOK
  <2>2. ASSUME NEW t \in Bilou, Forced(w, t)'
        PROVE  t \notin Inside
    <3>1. lp = Only(t)
      BY <1>5, <2>2 DEF Forced
    <3>2. ~Open(w)'
      BY <3>1, <1>5, OnlyOne DEF Open
    <3>3. \E u \in Bilou : InSpan(w, u)'
      BY <1>0, <1>3, <1>5, <3>2 DEF LocalsOK, InSentence
    <3> QED BY <3>1, <3>3, <1>5, OnlyOne DEF InSpan, Forced
  <2>3. /\ prob'[w]["I"] = 0 /\ prob'[w]["L"] = 0
        /\ \A t \in Bilou \ Inside : prob'[w][t] = lp[t]
    BY <2>1 DEF InitProb, Bilou, Inside
  <2>4. Open(w)' => prob'[w]["B"] > 0 /\ prob'[w]["O"] > 0 /\ prob'[w]["U"] > 0
    BY <2>3, <1>5 DEF Open, Bilou, Inside
  <2>5. \A t \in Bilou : Forced(w, t)' =>
            prob'[w][t] > 0 /\ \A u \in Bilou \ {t} : prob'[w][u] = 0
    <3> SUFFICES ASSUME NEW t \in Bilou, Forced(w, t)'
                 PROVE  prob'[w][t] > 0 /\ \A u \in Bilou \ {t} : prob'[w][u] = 0
      OBVIOUS
    <3>1. lp = Only(t)
      BY <1>5 DEF Forced
    <3>2. lp[t] > 0 /\ \A u \in Bilou \ {t} : lp[u] = 0
      BY <3>1, OnlyOne
    <3> QED BY <3>2, <2>2, <2>3 DEF Inside
  <2> QED BY <1>5, <2>3, <2>4, <2>5 DEF LabelsPossible
<1>6. CASE w = i /\ i > 0
  <2>0. PICK v \in Words : v = i - 1 /\ v # i /\ v + 1 = i /\ v = w - 1 /\ v + 1 = w
    BY <1>0, <1>6 DEF Words
  <2> DEFINE g == prob[v]
  <2>1. g \in [Bilou -> Nat] /\ prob'[v] = g
    BY <1>2, <2>0 DEF TypeOK
  <2>2. prob'[w] = UpdateProb(lp, g) /\ previous'[w] = UpdatePrevious(g)
    BY <1>0, <1>6, <2>0 DEF Forward, TypeOK
  <2>3. /\ BestLOU(g) \in Bilou /\ BestBI(g) \in Bilou
        /\ g[BestLOU(g)] \in Nat /\ g[BestBI(g)] \in Nat
    BY <2>1, BestLOUBest, BestBIBest DEF Bilou
  <2>4. \A t \in Bilou :
           /\ prob'[w][t] = g[UpdatePrevious(g)[t]] * lp[t]
           /\ UpdatePrevious(g)[t] = IF t \in Inside THEN BestBI(g) ELSE BestLOU(g)
           /\ lp[t] \in Nat
    BY <2>2 DEF UpdateProb, UpdatePrevious
  <2>5. /\ \A t \in Bilou : prob'[w][t] > 0 <=> g[UpdatePrevious(g)[t]] > 0 /\ lp[t] > 0
        /\ \A t \in Bilou : prob'[w][t] \in Nat
    <3> SUFFICES ASSUME NEW t \in Bilou
                 PROVE  /\ prob'[w][t] > 0 <=> g[UpdatePrevious(g)[t]] > 0 /\ lp[t] > 0
                        /\ prob'[w][t] \in Nat
      OBVIOUS
    <3>1. g[UpdatePrevious(g)[t]] \in Nat /\ lp[t] \in Nat
      BY <2>3, <2>4
    <3> HIDE DEF g
    <3> QED BY <3>1, <2>4, ProductPositive
  <2>7. LabelsPossible(v)
    BY <1>0, <2>0 DEF ChainOK, Processed, InSentence, Words
  <2>8. /\ Open(v) => g[BestLOU(g)] > 0
        /\ \A t \in Bilou : Forced(v, t) =>
              IF t \in StartsEntity THEN g[BestBI(g)] > 0 ELSE g[BestLOU(g)] > 0
    BY <2>1, <2>7, Continuation
  <2>9. /\ filled'[v] /\ Open(v)' = Open(v)
        /\ \A t \in Bilou : Forced(v, t)' = Forced(v, t)
    BY <2>0, <2>7 DEF LabelsPossible, Open, Forced
  <2>10. /\ Open(v)' \/ \E t \in Bilou : InSpan(v, t)'
         /\ Open(w)' \/ \E t \in Bilou : InSpan(w, t)'
    BY <1>0, <1>3, <1>6, <2>0, <2>9 DEF LocalsOK, InSentence, Words
  <2>11. ASSUME ~Forced(w, "I")', ~Forced(w, "L")'
         PROVE  g[BestLOU(g)] > 0
    <3>1. \A t \in StartsEntity : ~InSpan(v, t)'
      BY <2>0, <2>11 DEF InSpan
    <3> QED BY <2>8, <2>9, <2>10, <3>1 DEF InSpan
  <2>12. Open(w)' => prob'[w]["B"] > 0 /\ prob'[w]["O"] > 0 /\ prob'[w]["U"] > 0
    <3>1. ASSUME Open(w)' PROVE ~Forced(w, "I")' /\ ~Forced(w, "L")'
      BY <3>1, OnlyOne DEF Open, Forced, Bilou
    <3> QED BY <3>1, <2>4, <2>5, <2>11, <1>6 DEF Open, Bilou, Inside
  <2>13. ASSUME NEW t \in Bilou, Forced(w, t)'
         PROVE  prob'[w][t] > 0 /\ \A u \in Bilou \ {t} : prob'[w][u] = 0
    <3>1. lp = Only(t)
      BY <1>6, <2>13 DEF Forced
    <3>2. lp[t] > 0 /\ \A u \in Bilou \ {t} : lp[u] = 0
      BY <3>1, OnlyOne
    <3>3. \A u \in Bilou \ {t} : prob'[w][u] = 0
      BY <3>2, <2>5
    <3>4. CASE t \in Inside
      <4>1. ~Open(w)'
        BY <3>1, <1>6, OnlyOne DEF Open
      <4>2. InSpan(w, t)'
        BY <4>1, <2>10, <3>1, <1>6, OnlyOne DEF InSpan, Forced
      <4>3. Forced(v, "B") \/ Forced(v, "I")
        BY <4>2, <3>4, <2>0, <2>9 DEF InSpan, Bilou
      <4>4. g[BestBI(g)] > 0
        BY <4>3, <2>8 DEF StartsEntity, Bilou
      <4> QED BY <4>4, <3>2, <3>3, <3>4, <2>4, <2>5
    <3>5. CASE t \notin Inside
      <4>1. ~Forced(w, "I")' /\ ~Forced(w, "L")'
        BY <3>1, <3>5, <1>6, OnlyOne DEF Forced, Inside, Bilou
      <4>2. g[BestLOU(g)] > 0
        BY <4>1, <2>11
      <4> QED BY <4>2, <3>2, <3>3, <3>5, <2>4, <2>5
    <3> QED BY <3>4, <3>5
  <2>14. LabelsPossible(w)'
    BY <1>0, <1>6, <2>12, <2>13 DEF LabelsPossible
  <2>15. Linked(w)'
    BY <2>0, <2>1, <2>2, <2>5 DEF Linked
  <2> QED BY <2>14, <2>15
<1> QED BY <1>0, <1>1, <1>4, <1>5, <1>6 DEF Words

LEMMA KeepForcedWordInv ==
    ASSUME IndInv, KeepForcedWord
    PROVE  IndInv'
<1> USE DEF IndInv
<1>1. /\ sentence' = sentence /\ pc = "classify" /\ pc' = "classify"
      /\ MaxWords \in Nat /\ sentence.size \in 0 .. MaxWords
      /\ i \in Nat /\ i < sentence.size /\ i' = i + 1 /\ i \in Words
  <2>1. MaxWords \in Nat /\ sentence.size \in 0 .. MaxWords /\ i \in Nat
    BY SentenceType, BoundsAssumption DEF TypeOK
  <2> QED
    BY   <2>1 DEF KeepForcedWord, AtWordToClassify, input, Words
<1>2. localProb[i] \in [Bilou -> Nat] /\ localEntity[i] \in [Bilou -> EntityOrUnknown]
  BY <1>1 DEF TypeOK
<1>3. Forward(localProb[i], localEntity[i]) /\ UNCHANGED local /\ filled[i]
  BY DEF KeepForcedWord
<1>4. TypeOK'
  <2>1. /\ prob' \in [Words -> [Bilou -> Nat]]
        /\ entity' \in [Words -> [Bilou -> EntityOrUnknown]]
        /\ previous' \in [Words -> [Bilou -> Label]]
        /\ best' \in [Words -> Bilou]
    BY <1>1, <1>2, <1>3, ForwardTypes
  <2>2. i' \in 0 .. MaxWords + 1
    BY <1>1
  <2> QED
    BY <1>1, <1>3, <2>1, <2>2 DEF KeepForcedWord, AtWordToClassify, TypeOK, input, local
<1>5. LoopOK'
  BY <1>1 DEF LoopOK
<1>6. LocalsOK'
  BY <1>1, <1>3, LocalsKept DEF Active
<1>7. filled' = filled /\ localProb' = localProb /\ filled[i] = TRUE
  BY <1>1, <1>3 DEF local, TypeOK
<1>8. ChainOK'
  BY <1>1, <1>2, <1>3, <1>6, <1>7, ForwardChain
<1>9. BackOK'
  BY <1>1 DEF BackOK, WalkedBack
<1> QED BY <1>4, <1>5, <1>6, <1>8, <1>9

LEMMA ClassifyWordInv ==
    ASSUME IndInv, ClassifyWord
    PROVE  IndInv'
<1> USE DEF IndInv
<1>1. /\ sentence' = sentence /\ pc = "classify" /\ pc' = "classify"
      /\ MaxWords \in Nat /\ sentence.size \in 0 .. MaxWords
      /\ i \in Nat /\ i < sentence.size /\ i' = i + 1 /\ i \in Words
      /\ ~filled[i]
  BY SentenceType, BoundsAssumption DEF ClassifyWord, AtWordToClassify, TypeOK, input, Words
<1>0. PICK oc \in Outcomes : \E pick \in BestOutcomes(oc) :
        /\ filled' = [filled EXCEPT ![i] = TRUE]
        /\ localProb' = [localProb EXCEPT ![i] = FilledProb(oc, pick)]
        /\ localEntity' = [localEntity EXCEPT ![i] = FilledEntity(pick)]
        /\ Forward(FilledProb(oc, pick), FilledEntity(pick))
  BY DEF ClassifyWord, NetworkDecides
<1>2. PICK pick \in BestOutcomes(oc) :
        /\ filled' = [filled EXCEPT ![i] = TRUE]
        /\ localProb' = [localProb EXCEPT ![i] = FilledProb(oc, pick)]
        /\ localEntity' = [localEntity EXCEPT ![i] = FilledEntity(pick)]
        /\ Forward(FilledProb(oc, pick), FilledEntity(pick))
  BY <1>0
<1>3. /\ FilledProb(oc, pick) \in [Bilou -> Nat \ {0}]
      /\ FilledProb(oc, pick) \in [Bilou -> Nat]
      /\ FilledEntity(pick) \in [Bilou -> EntityOrUnknown]
  BY OutcomeTypes
<1>4. /\ filled' \in [Words -> BOOLEAN]
      /\ localProb' \in [Words -> [Bilou -> Nat]]
      /\ localEntity' \in [Words -> [Bilou -> EntityOrUnknown]]
  BY <1>2, <1>3 DEF TypeOK
<1>5. TypeOK'
  <2>1. /\ prob' \in [Words -> [Bilou -> Nat]]
        /\ entity' \in [Words -> [Bilou -> EntityOrUnknown]]
        /\ previous' \in [Words -> [Bilou -> Label]]
        /\ best' \in [Words -> Bilou]
    BY <1>1, <1>2, <1>3, ForwardTypes
  <2>2. i' \in 0 .. MaxWords + 1
    BY <1>1
  <2> QED
    BY <1>1, <1>4, <2>1, <2>2 DEF ClassifyWord, AtWordToClassify, TypeOK, input
<1>6. LoopOK'
  BY <1>1 DEF LoopOK
<1>7. /\ filled'[i] = TRUE /\ localProb'[i] = FilledProb(oc, pick)
      /\ \A w \in Words \ {i} : filled'[w] = filled[w] /\ localProb'[w] = localProb[w]
  BY <1>1, <1>2 DEF TypeOK
<1>8. LocalsOK'
  <2>1. SUFFICES ASSUME NEW w \in Words, InSentence(w), filled'[w]
                 PROVE  Open(w)' \/ \E t \in Bilou : InSpan(w, t)'
    BY <1>1 DEF LocalsOK, InSentence
  <2>2. CASE w = i
    BY <1>3, <1>7, <2>2 DEF Open
  <2>3. CASE w # i
    <3>1. filled[w] /\ localProb'[w] = localProb[w]
      BY <1>7, <2>1, <2>3
    <3>2. Open(w) \/ \E t \in Bilou : InSpan(w, t)
      BY <1>1, <2>1, <3>1 DEF LocalsOK, Active
    <3>3. Open(w) => Open(w)'
      BY <3>1 DEF Open
    <3>4. ASSUME NEW t \in Bilou, InSpan(w, t)
          PROVE  InSpan(w, t)'
      <4>1. Forced(w, t)'
        BY <3>1, <3>4 DEF InSpan, Forced
      <4>2. t \in StartsEntity => w + 1 \in Words \ {i}
        BY <1>1, <3>4 DEF InSpan, InSentence, Words
      <4>3. t \in Inside => w - 1 \in Words \ {i}
        BY <1>1, <3>4 DEF InSpan, Words
      <4> QED
        BY <1>1, <1>7, <3>4, <4>1, <4>2, <4>3 DEF InSpan, InSentence, Forced
    <3> QED BY <3>2, <3>3, <3>4
  <2> QED BY <2>2, <2>3
<1>9. ChainOK'
  BY <1>1, <1>2, <1>3, <1>7, <1>8, ForwardChain
<1>10. BackOK'
  BY <1>1 DEF BackOK, WalkedBack
<1> QED BY <1>5, <1>6, <1>8, <1>9, <1>10

-----------------------------------------------------------------------------
(***************************************************************************)
(*                 The walk back and the extraction                        *)
(***************************************************************************)
(* The last word can always end an entity or be outside of one.            *)
LEMMA LastLabelInv ==
    ASSUME IndInv, LastLabel
    PROVE  IndInv'
<1> USE DEF IndInv
<1>1. /\ sentence' = sentence /\ pc = "classify" /\ pc' = "back"
      /\ MaxWords \in Nat /\ sentence.size \in 1 .. MaxWords
      /\ i = sentence.size /\ i' = i - 1 /\ i - 1 \in Words
      /\ UNCHANGED <<local, global>>
  BY SentenceType, BoundsAssumption DEF LastLabel, TypeOK, LoopOK, input, Words
<1>2. PICK last \in Words : last = i - 1
  BY <1>1
<1>3. prob[last] \in [Bilou -> Nat] /\ best' = [best EXCEPT ![last] = BestLOU(prob[last])]
  BY <1>2 DEF LastLabel, TypeOK
<1>4. BestLOU(prob[last]) \in Bilou \ StartsEntity
  BY <1>3, BestLOUBest DEF Bilou, StartsEntity
<1>5. TypeOK'
  <2>1. i' \in 0 .. MaxWords + 1
    BY <1>1
  <2>2. best' \in [Words -> Bilou]
    BY <1>3, <1>4 DEF TypeOK
  <2> QED
    BY <1>1, <2>1, <2>2 DEF LastLabel, TypeOK, input, local, global
<1>6. LoopOK'
  BY <1>1 DEF LoopOK
<1>7. LocalsOK'
  BY <1>1, LocalsKept DEF Active
<1>8. ChainOK'
  <2>1. \A w \in Words : Processed(w)' => Processed(w)
    BY <1>1 DEF Processed, InSentence, Words
  <2> QED BY <1>1, <2>1, ChainKept
<1>9. prob[last][BestLOU(prob[last])] > 0
  <2>1. LabelsPossible(last)
    BY <1>1, <1>2 DEF ChainOK, Processed, InSentence
  <2>2. Open(last) \/ \E t \in Bilou : InSpan(last, t)
    BY <1>1, <1>2, <2>1 DEF LocalsOK, Active, InSentence, LabelsPossible
  <2>3. \A t \in StartsEntity : ~InSpan(last, t)
    BY <1>1, <1>2 DEF InSpan, InSentence
  <2> QED BY <1>3, <2>1, <2>2, <2>3, Continuation DEF InSpan
<1>10. BackOK'
  <2>1. ASSUME NEW w \in Words, WalkedBack(w)'
        PROVE  w = last /\ ~InSentence(w + 1)'
    BY <1>1, <1>2, <2>1 DEF WalkedBack, InSentence, Words
  <2>2. prob'[last][best'[last]] > 0 /\ best'[last] \notin StartsEntity
    BY <1>1, <1>3, <1>4, <1>9 DEF TypeOK, global
  <2> QED BY <2>1, <2>2 DEF BackOK
<1> QED BY <1>5, <1>6, <1>7, <1>8, <1>10

LEMMA FollowPreviousInv ==
    ASSUME IndInv, FollowPrevious
    PROVE  IndInv'
<1> USE DEF IndInv
<1>1. /\ sentence' = sentence /\ pc = "back" /\ pc' = "back"
      /\ MaxWords \in Nat /\ sentence.size \in 1 .. MaxWords
      /\ i \in Words /\ i > 0 /\ i < sentence.size /\ i' = i - 1
      /\ UNCHANGED <<local, global>>
  <2>1. MaxWords \in Nat /\ sentence.size \in 0 .. MaxWords /\ i \in Nat
    BY SentenceType, BoundsAssumption DEF TypeOK
  <2> QED
    BY <2>1 DEF FollowPrevious, LoopOK, input, Words
<1>2. PICK v \in Words : v = i - 1 /\ v + 1 = i /\ v # i
  BY <1>1 DEF Words
<1>3. /\ prob[v] \in [Bilou -> Nat] /\ best[i] \in Bilou
      /\ best' = [best EXCEPT ![v] = previous[i][best[i]]]
  BY <1>1, <1>2 DEF FollowPrevious, TypeOK
<1>4. Linked(i)
  BY <1>1 DEF ChainOK, Processed, InSentence
<1>5. prob[i][best[i]] > 0
  BY <1>1 DEF BackOK, WalkedBack, InSentence, Words
<1>6. /\ previous[i][best[i]] \in Bilou
      /\ prob[v][previous[i][best[i]]] > 0
  <2>1. BestLOU(prob[v]) \in Bilou /\ BestBI(prob[v]) \in Bilou
    BY <1>3, BestLOUBest, BestBIBest DEF Bilou
  <2>2. previous[i][best[i]] \in Bilou
    BY <1>2, <1>3, <1>4, <2>1 DEF Linked, UpdatePrevious
  <2> QED BY <1>2, <1>3, <1>4, <1>5, <2>2 DEF Linked
<1>7. TypeOK'
  <2>1. i' \in 0 .. MaxWords + 1
    BY <1>1 DEF Words
  <2>2. best' \in [Words -> Bilou]
    BY <1>3, <1>6 DEF TypeOK
  <2> QED
    BY <1>1, <2>1, <2>2 DEF FollowPrevious, TypeOK, input, local, global
<1>8. LoopOK'
  BY <1>1 DEF LoopOK, Words
<1>9. LocalsOK'
  BY <1>1, LocalsKept DEF Active
<1>10. ChainOK'
  <2>1. \A w \in Words : Processed(w)' => Processed(w)
    BY <1>1 DEF Processed, InSentence
  <2> QED BY <1>1, <2>1, ChainKept
<1>11. BackOK'
  <2> SUFFICES ASSUME NEW w \in Words, WalkedBack(w)'
               PROVE  /\ prob'[w][best'[w]] > 0
                      /\ w = sentence.size - 1 => best'[w] \notin StartsEntity
                      /\ InSentence(w + 1) => best'[w] = previous'[w + 1][best'[w + 1]]
    BY <1>1 DEF BackOK, InSentence
  <2>1. prob' = prob /\ previous' = previous
    BY <1>1 DEF global
  <2>2. CASE w = v
    <3>1. best'[v] = previous[i][best[i]] /\ best'[i] = best[i]
      BY <1>1, <1>2, <1>3 DEF TypeOK
    <3>2. v # sentence.size - 1
      BY <1>1, <1>2 DEF Words
    <3> QED BY <2>1, <2>2, <3>1, <3>2, <1>2, <1>6
  <2>3. CASE w # v
    <3>1. WalkedBack(w) /\ w >= i
      BY <1>1, <1>2, <2>3 DEF WalkedBack, InSentence, Words
    <3>2. best'[w] = best[w]
      BY <1>3, <2>3 DEF TypeOK
    <3>3. InSentence(w + 1) => best'[w + 1] = best[w + 1]
      <4>1. ASSUME InSentence(w + 1) PROVE w + 1 \in Words /\ w + 1 # v
        BY <4>1, <1>1, <1>2, <3>1 DEF InSentence, Words
      <4> QED BY <4>1, <1>3 DEF TypeOK
    <3> QED BY <2>1, <3>1, <3>2, <3>3 DEF BackOK
  <2> QED BY <2>2, <2>3
<1> QED BY <1>7, <1>8, <1>9, <1>10, <1>11

LEMMA FillPreviousStageInv ==
    ASSUME IndInv, FillPreviousStage
    PROVE  IndInv'
<1> USE DEF IndInv
<1>1. /\ sentence' = sentence /\ pc = "back" /\ i = 0 /\ i' = i
      /\ MaxWords \in Nat /\ sentence.size \in 0 .. MaxWords
      /\ pc' = "stage" \/ pc' = "extract"
      /\ UNCHANGED <<local, global, best>>
  BY SentenceType, BoundsAssumption DEF FillPreviousStage, TypeOK, input
<1>2. previousStage' \in [Words -> [bilou : Label, entity : EntityOrUnknown]]
  BY DEF FillPreviousStage, TypeOK, Label
<1>3. stage' \in 1 .. NumStages
  BY BoundsAssumption DEF FillPreviousStage, TypeOK
<1>4. TypeOK'
  BY <1>1, <1>2, <1>3 DEF FillPreviousStage, TypeOK, input, local, global
<1>5. LoopOK'
  BY <1>1 DEF LoopOK
<1>6. LocalsOK'
  BY <1>1, LocalsKept DEF Active
<1>7. ChainOK'
  <2>1. \A w \in Words : Processed(w)' => Processed(w)
    BY <1>1 DEF Processed, InSentence
  <2> QED BY <1>1, <2>1, ChainKept
<1>8. BackOK'
  <2>1. \A w \in Words : WalkedBack(w)' => WalkedBack(w)
    BY <1>1 DEF WalkedBack, InSentence, Words
  <2> QED BY <1>1, <2>1, BackKept
<1> QED BY <1>4, <1>5, <1>6, <1>7, <1>8

(* The extraction only reads the tables.                                   *)
LEMMA ExtractInv ==
    ASSUME IndInv, pc = "extract", pc' \in {"extract", "idle"},
           i' \in 0 .. MaxWords + 1,
           entities' \in Seq([start : Words, length : 1 .. MaxWords,
                              type : EntityOrUnknown]),
           UNCHANGED <<input, stage, proc, local, global, best, previousStage>>
    PROVE  IndInv'
<1> USE DEF IndInv
<1>1. sentence' = sentence /\ UNCHANGED <<local, global, best>>
  BY DEF input
<1>2. TypeOK'
  BY DEF TypeOK, input, local, global
<1>3. LoopOK'
  BY DEF LoopOK
<1>4. LocalsOK'
  BY <1>1, LocalsKept DEF Active
<1>5. ChainOK'
  <2>1. \A w \in Words : Processed(w)' => Processed(w)
    BY <1>1 DEF Processed, InSentence
  <2> QED BY <1>1, <2>1, ChainKept
<1>6. BackOK'
  <2>1. \A w \in Words : WalkedBack(w)' => WalkedBack(w)
    BY <1>1 DEF WalkedBack, InSentence
  <2> QED BY <1>1, <2>1, BackKept
<1> QED BY <1>2, <1>3, <1>4, <1>5, <1>6

(* A reported entity lies within the sentence.                             *)
LEMMA ReportType ==
    ASSUME IndInv, NEW start \in Words, NEW length \in 1 .. MaxWords,
           NEW type \in EntityOrUnknown, Report(start, length, type)
    PROVE  entities' \in Seq([start : Words, length : 1 .. MaxWords,
                              type : EntityOrUnknown])
<1> DEFINE E == [start : Words, length : 1 .. MaxWords, type : EntityOrUnknown]
           e == [start |-> start, length |-> length, type |-> type]
<1>1. e \in E /\ entities \in Seq(E) /\ entities' = Append(entities, e)
  BY DEF IndInv, TypeOK, Report
<1> HIDE DEF E, e
<1>2. entities' \in Seq(E)
  BY <1>1
<1> QED BY <1>2 DEF E

(* The scan stops at a word after the first one, or at the sentence's end. *)
LEMMA EndAfterBound ==
    ASSUME IndInv, NEW w \in Words, InSentence(w)
    PROVE  EndAfter(w) \in Nat /\ w < EndAfter(w) /\ EndAfter(w) <= sentence.size
<1>1. MaxWords \in Nat /\ sentence.size \in 0 .. MaxWords
  BY SentenceType, BoundsAssumption DEF IndInv, TypeOK
<1>2. CASE LastWordsAfter(w) = {}
  BY <1>1, <1>2 DEF EndAfter, InSentence, Words
<1>3. CASE LastWordsAfter(w) # {}
  <2>1. LastWordsAfter(w) \in SUBSET Nat
    BY DEF LastWordsAfter, Words
  <2>2. \E v \in LastWordsAfter(w) : \A u \in LastWordsAfter(w) : v <= u
    BY <1>3, <2>1, LeastNumber
  <2>3. EndAfter(w) \in LastWordsAfter(w)
    BY <1>3, <2>2 DEF EndAfter
  <2> QED BY <1>1, <2>3 DEF LastWordsAfter, InSentence, Words
<1> QED BY <1>2, <1>3

LEMMA ExtractionInv ==
    ASSUME IndInv, ExtractUnit \/ ExtractSpan \/ SkipWord \/ Return
    PROVE  IndInv'
<1> USE DEF IndInv
<1>1. /\ MaxWords \in Nat /\ sentence.size \in 0 .. MaxWords /\ i \in 0 .. MaxWords + 1
      /\ entities \in Seq([start : Words, length : 1 .. MaxWords, type : EntityOrUnknown])
  BY SentenceType, BoundsAssumption DEF TypeOK
<1>2. CASE SkipWord \/ Return
  <2>1. i' \in 0 .. MaxWords + 1 /\ entities' = entities
    BY <1>1, <1>2 DEF SkipWord, Return, AtWordToExtract
  <2> QED
    BY <1>1, <1>2, <2>1, ExtractInv DEF SkipWord, Return, AtWordToExtract
<1>3. ASSUME NEW l, AtWordToExtract({l})
      PROVE  /\ i \in Words /\ InSentence(i) /\ 1 <= MaxWords
             /\ pc = "extract" /\ pc' = "extract"
             /\ \A t \in Bilou : entity[i][t] \in EntityOrUnknown
             /\ UNCHANGED <<input, stage, proc, local, global, best, previousStage>>
  <2>1. i \in Words /\ InSentence(i) /\ 1 <= MaxWords
    BY <1>1, <1>3 DEF AtWordToExtract, Words, InSentence
  <2> QED BY <1>3, <2>1 DEF AtWordToExtract, TypeOK
<1>4. CASE ExtractUnit
  <2>1. AtWordToExtract({"U"}) /\ Report(i, 1, entity[i]["U"]) /\ i' = i + 1
    BY <1>4 DEF ExtractUnit
  <2>0. i \in Words /\ 1 <= MaxWords /\ \A t \in Bilou : entity[i][t] \in EntityOrUnknown
    BY <1>3, <2>1
  <2>2. 1 \in 1 .. MaxWords /\ entity[i]["U"] \in EntityOrUnknown
    BY <1>1, <2>0 DEF Bilou
  <2>3. i' \in 0 .. MaxWords + 1
    BY <1>1, <2>0, <2>1 DEF Words
  <2> QED BY <1>3, <2>1, <2>2, <2>3, ReportType, ExtractInv
<1>5. CASE ExtractSpan
  <2> DEFINE len == EndAfter(i) - i + (IF EndAfter(i) < sentence.size THEN 1 ELSE 0)
  <2>1. AtWordToExtract({"B"}) /\ Report(i, len, entity[i]["B"]) /\ i' = EndAfter(i) + 1
    BY <1>5 DEF ExtractSpan
  <2>2. EndAfter(i) \in Nat /\ i < EndAfter(i) /\ EndAfter(i) <= sentence.size
    BY <1>3, <2>1, EndAfterBound
  <2>3. len \in 1 .. MaxWords /\ i' \in 0 .. MaxWords + 1
    BY <1>1, <2>1, <2>2
  <2>4. entity[i]["B"] \in EntityOrUnknown
    BY <1>3, <2>1 DEF Bilou
  <2> HIDE DEF len
  <2> QED BY <1>3, <2>1, <2>3, <2>4, ReportType, ExtractInv
<1> QED BY <1>2, <1>4, <1>5

LEMMA StutterInv ==
    ASSUME IndInv, UNCHANGED vars
    PROVE  IndInv'
<1> USE DEF IndInv
<1>1. UNCHANGED <<pc, i, sentence, local, global, best>>
  BY DEF vars, input
<1>2. TypeOK'
  BY DEF TypeOK, vars, input, local, global
<1>3. LoopOK'
  BY <1>1 DEF LoopOK
<1>4. LocalsOK'
  BY <1>1, LocalsKept DEF Active
<1>5. ChainOK'
  BY <1>1, ChainKept DEF Processed, InSentence
<1>6. BackOK'
  BY <1>1, BackKept DEF WalkedBack, InSentence
<1> QED BY <1>2, <1>3, <1>4, <1>5, <1>6

LEMMA NextInv == IndInv /\ [Next]_vars => IndInv'
<1> SUFFICES ASSUME IndInv, [Next]_vars PROVE IndInv'
  OBVIOUS
<1>1. ASSUME NEW s \in Sentences, Recognize(s) PROVE IndInv'
  BY <1>1, RecognizeInv
<1>2. CASE StartStage
  BY <1>2, StartStageInv
<1>3. CASE GazetteersAtWord
  BY <1>3, GazetteersInv
<1>4. CASE UrlEmailAtWord
  BY <1>4, UrlEmailInv
<1>5. CASE NextProcessor
  BY <1>5, NextProcessorInv
<1>6. CASE ClassifyWord
  BY <1>6, ClassifyWordInv
<1>7. CASE KeepForcedWord
  BY <1>7, KeepForcedWordInv
<1>8. CASE LastLabel
  BY <1>8, LastLabelInv
<1>9. CASE FollowPrevious
  BY <1>9, FollowPreviousInv
<1>10. CASE FillPreviousStage
  BY <1>10, FillPreviousStageInv
<1>11. CASE ExtractUnit \/ ExtractSpan \/ SkipWord \/ Return
  BY <1>11, ExtractionInv
<1>12. CASE UNCHANGED vars
  BY <1>12, StutterInv
<1> QED
  BY <1>1, <1>2, <1>3, <1>4, <1>5, <1>6, <1>7, <1>8, <1>9, <1>10, <1>11, <1>12
     DEF Next, Step

LEMMA Inductive == Spec => []IndInv
<1>1. Init => IndInv
  BY InitInv
<1>2. IndInv /\ [Next]_vars => IndInv'
  BY NextInv
<1> QED BY <1>1, <1>2, PTL DEF Spec

(* Following positive entries back from a label an entity may end with, the *)
(* labels of neighbouring words fit together.                              *)
LEMMA InvariantWellFormed == IndInv => WellFormedDecoding
<1> SUFFICES ASSUME IndInv, Decoded PROVE WellFormed(best)
  BY DEF WellFormedDecoding
<1> USE DEF IndInv
<1>1. MaxWords \in Nat /\ sentence.size \in 1 .. MaxWords
  BY SentenceType, BoundsAssumption DEF TypeOK, Decoded
<1>2. ASSUME NEW w \in Words, InSentence(w)
      PROVE  WalkedBack(w) /\ Processed(w)
  BY <1>2 DEF Decoded, WalkedBack, Processed, Words
<1>3. best[0] \notin Inside
  <2>1. 0 \in Words /\ InSentence(0)
    BY <1>1 DEF Words, InSentence
  <2>2. prob[0]["I"] = 0 /\ prob[0]["L"] = 0 /\ prob[0][best[0]] > 0
    BY <1>2, <2>1 DEF ChainOK, LabelsPossible, BackOK
  <2> QED BY <2>2 DEF Inside
<1>4. best[sentence.size - 1] \notin StartsEntity
  <2>1. PICK w \in Words : w = sentence.size - 1 /\ InSentence(w)
    BY <1>1 DEF Words, InSentence
  <2> QED BY <1>2, <2>1 DEF BackOK
<1>5. ASSUME NEW w \in Words, InSentence(w + 1)
      PROVE  best[w] \in StartsEntity <=> best[w + 1] \in Inside
  <2>1. InSentence(w) /\ w + 1 \in Words /\ w + 1 > 0 /\ (w + 1) - 1 = w
    BY <1>1, <1>5 DEF InSentence, Words
  <2>2. best[w] = previous[w + 1][best[w + 1]]
    BY <1>2, <1>5, <2>1 DEF BackOK
  <2>3. previous[w + 1] = UpdatePrevious(prob[w])
    BY <1>2, <1>5, <2>1 DEF ChainOK, Linked
  <2>4. prob[w] \in [Bilou -> Nat] /\ best[w + 1] \in Bilou
    BY <2>1 DEF TypeOK
  <2>5. BestLOU(prob[w]) \notin StartsEntity /\ BestBI(prob[w]) \in StartsEntity
    BY <2>4, BestLOUBest, BestBIBest DEF StartsEntity
  <2> QED BY <2>2, <2>3, <2>4, <2>5 DEF UpdatePrevious
<1> QED BY <1>3, <1>4, <1>5 DEF WellFormed

(* Of a word with a forced label only that label has a positive entry.     *)
LEMMA InvariantForced == IndInv => ForcedLabelsKept
<1> SUFFICES ASSUME IndInv, Decoded, NEW w \in Words, NEW t \in Bilou,
                    InSentence(w), Forced(w, t)
             PROVE  best[w] = t
  BY DEF ForcedLabelsKept
<1>1. WalkedBack(w) /\ Processed(w)
  BY DEF Decoded, WalkedBack, Processed, Words
<1>2. prob[w][best[w]] > 0 /\ best[w] \in Bilou
  BY <1>1 DEF IndInv, BackOK, TypeOK
<1>3. \A u \in Bilou \ {t} : prob[w][u] = 0
  BY <1>1 DEF IndInv, ChainOK, LabelsPossible
<1> QED BY <1>2, <1>3

-----------------------------------------------------------------------------
(***************************************************************************)
(*              The invariant of what is forced and reported               *)
(***************************************************************************)
(* The labels a network is given: none in the first stage, later those of  *)
(* the stage before, which are whole entities.                             *)
StageOK ==
    pc \in {"stage", "detect", "classify", "back"} =>
        IF stage = 1
          THEN \A w \in Words : InSentence(w) =>
                  previousStage[w] = [bilou |-> NoLabel, entity |-> Unknown]
          ELSE WellFormed([w \in Words |-> previousStage[w].bilou])

(* The matches F have been chosen from those considered so far, and only   *)
(* they have forced words.                                                 *)
Considered(g) ==
    pc = "detect" => g[1] < proc \/ (g[1] = proc /\ g[2].start < i)

ForcedWord(m, w) ==
    /\ filled[w]
    /\ localProb[w] = Only(SpanLabel(m, w))
    /\ localEntity[w] = [NoEntity EXCEPT ![SpanLabel(m, w)] = m.entity]

ForcedBy(F) ==
    /\ \A f \in F : Considered(f)
    /\ \A f, g \in F : f # g => ~Overlap(f, g)
    /\ \A g \in Matches \ F : Considered(g) => \E f \in F : Precedes(f, g) /\ Overlap(f, g)
    /\ \A f \in F : \A w \in SpanWords(f[2]) : ForcedWord(f[2], w)
    /\ \A w \in Words : InSentence(w) /\ filled[w] =>
           \/ Open(w) /\ pc # "detect"
           \/ \E f \in F : w \in SpanWords(f[2])

MatchesOK == Active => \E F \in SUBSET Matches : ForcedBy(F)

(* A word that continues an entity has the entity of the word before it.   *)
EntityLinked(w) == \A t \in Inside : entity[w][t] = entity[w - 1][BestBI(prob[w - 1])]
EntityKept(w) == \A t \in Bilou \ Inside : entity[w][t] = localEntity[w][t]

EntityOK ==
    \A w \in Words : Processed(w) => EntityKept(w) /\ (w > 0 => EntityLinked(w))

LastStageOK ==
    pc \in {"extract", "idle"} =>
        \A w \in Words : InSentence(w) =>
            previousStage[w] = [bilou |-> best[w], entity |-> entity[w][best[w]]]

(* The entities reported up to word i are the spans of labels before it.   *)
EndOf(e) == e.start + e.length

Reported(e) ==
    /\ EndOf(e) <= i
    /\ \A w \in EntityWords(e) :
          /\ best[w] # "O"
          /\ entity[w][best[w]] = e.type
          /\ w = e.start <=> best[w] \notin Inside
          /\ w + 1 = EndOf(e) <=> best[w] \notin StartsEntity

NothingReported == pc \notin {"extract", "idle"} => entities = <<>>

ReportOK ==
    pc \in {"extract", "idle"} /\ sentence.size > 0 =>
        /\ i <= sentence.size
        /\ pc = "idle" => i = sentence.size
        /\ InSentence(i) => best[i] \notin Inside
        /\ \A k, l \in DOMAIN entities : k < l => EndOf(entities[k]) <= entities[l].start
        /\ \A k \in DOMAIN entities : Reported(entities[k])
        /\ \A w \in Words : w < i /\ best[w] # "O" =>
              \E k \in DOMAIN entities : w \in EntityWords(entities[k])

ReportInv ==
    /\ StageOK /\ MatchesOK /\ EntityOK /\ LastStageOK
    /\ NothingReported /\ ReportOK

-----------------------------------------------------------------------------
(***************************************************************************)
(*               A word is decided once; the previous stage                *)
(***************************************************************************)
(* A processor forces free words, and the network decides free words.      *)
LEMMA WordDecidedOnce ==
    ASSUME TypeOK, [Next]_vars, pc # "stage", NEW w \in Words, filled[w]
    PROVE  localProb'[w] = localProb[w] /\ localEntity'[w] = localEntity[w]
<1>1. ASSUME NEW m \in FreeMatchesAt(i), ForceLabels(m)
      PROVE  localProb'[w] = localProb[w] /\ localEntity'[w] = localEntity[w]
  <2>1. w \notin SpanWords(m)
    BY <1>1 DEF FreeMatchesAt
  <2> QED
    BY <1>1, <2>1 DEF ForceLabels
<1>2. CASE GazetteersAtWord
  BY <1>1, <1>2 DEF GazetteersAtWord, local
<1>3. CASE UrlEmailAtWord
  BY <1>1, <1>3 DEF UrlEmailAtWord, local
<1>4. CASE ClassifyWord
  <2>1. w # i
    BY <1>4 DEF ClassifyWord
  <2> QED
    BY <1>4, <2>1 DEF ClassifyWord, NetworkDecides, TypeOK
<1>5. ASSUME NEW s \in Sentences, Recognize(s)
      PROVE  UNCHANGED local
  BY <1>5 DEF Recognize
<1>6. CASE \/ NextProcessor \/ KeepForcedWord \/ LastLabel \/ FollowPrevious
           \/ FillPreviousStage \/ ExtractUnit \/ ExtractSpan \/ SkipWord \/ Return
  BY <1>6 DEF NextProcessor, KeepForcedWord, LastLabel, FollowPrevious, local,
     FillPreviousStage, ExtractUnit, ExtractSpan, SkipWord, Return, AtWordToExtract
<1>7. CASE UNCHANGED vars
  BY <1>7 DEF vars, local
<1>8. ~StartStage
  BY DEF StartStage
<1> QED
  BY <1>2, <1>3, <1>4, <1>5, <1>6, <1>7, <1>8 DEF Next, Step, local

(* Whether a labelling is well-formed depends on the words of the sentence *)
(* only.                                                                   *)
LEMMA WellFormedSame ==
    ASSUME NEW N \in Nat, NEW n \in 1 .. N,
           NEW f, NEW g, \A w \in 0 .. n - 1 : f[w] = g[w],
           f[0] \notin Inside, f[n - 1] \notin StartsEntity,
           \A w \in 0 .. N - 1 : w + 1 < n =>
               (f[w] \in StartsEntity <=> f[w + 1] \in Inside)
    PROVE  /\ g[0] \notin Inside /\ g[n - 1] \notin StartsEntity
           /\ \A w \in 0 .. N - 1 : w + 1 < n =>
                  (g[w] \in StartsEntity <=> g[w + 1] \in Inside)
<1>1. g[0] = f[0] /\ g[n - 1] = f[n - 1]
  <2>1. 0 \in 0 .. n - 1 /\ n - 1 \in 0 .. n - 1
    OBVIOUS
  <2> QED
    BY <2>1
<1>2. ASSUME NEW w \in 0 .. N - 1, w + 1 < n
      PROVE  g[w] = f[w] /\ g[w + 1] = f[w + 1]
  <2>1. w \in 0 .. n - 1 /\ w + 1 \in 0 .. n - 1
    BY <1>2
  <2> QED
    BY <2>1
<1> QED
  BY <1>1, <1>2

LEMMA InitStage == Init => StageOK
  BY DEF Init, StageOK

LEMMA NextStage ==
    ASSUME IndInv, StageOK, [Next]_vars
    PROVE  StageOK'
<1> DEFINE InStage == {"stage", "detect", "classify", "back"}
<1>0. /\ MaxWords \in Nat /\ sentence.size \in 0 .. MaxWords
      /\ pc \in InStage => sentence.size > 0
      /\ previousStage \in [Words -> [bilou : Label, entity : EntityOrUnknown]]
  BY SentenceType, BoundsAssumption DEF IndInv, TypeOK, LoopOK
<1>1. ASSUME NEW s \in Sentences, Recognize(s) PROVE StageOK'
  <2>1. stage' = 1
    BY <1>1 DEF Recognize
  <2>2. \A w \in Words : InSentence(w)' =>
            previousStage'[w] = [bilou |-> NoLabel, entity |-> Unknown]
    BY <1>1 DEF Recognize, ClearPreviousStage
  <2> QED
    BY <2>1, <2>2 DEF StageOK
<1>2. ASSUME UNCHANGED <<input, stage, previousStage>>, pc \in InStage \/ pc' \notin InStage
      PROVE  StageOK'
  <2>1. sentence' = sentence /\ stage' = stage /\ previousStage' = previousStage
    BY <1>2 DEF input
  <2>2. \A w \in Words : InSentence(w)' <=> InSentence(w)
    BY <2>1 DEF InSentence
  <2> QED
    BY <1>2, <2>1, <2>2 DEF StageOK, WellFormed, InSentence
<1>3. CASE FillPreviousStage
  <2>1. CASE stage < NumStages
    <3>1. /\ stage \in Nat \ {0} /\ stage' # 1 /\ sentence' = sentence
          /\ pc = "back" /\ i = 0 /\ sentence.size \in 1 .. MaxWords
      BY <1>0, <1>3, <2>1, BoundsAssumption DEF FillPreviousStage, IndInv, TypeOK, input
    <3>0. PICK lab : lab = [w \in Words |-> previousStage'[w].bilou]
      OBVIOUS
    <3>2. WellFormed(best)
      BY <3>1, InvariantWellFormed DEF WellFormedDecoding, Decoded
    <3>3. \A w \in Words : InSentence(w) => lab[w] = best[w]
      BY <1>3, <3>0 DEF FillPreviousStage
    <3>4. \A w \in 0 .. sentence.size - 1 : best[w] = lab[w]
      BY <1>0, <3>3 DEF InSentence, Words
    <3>5. WellFormed(lab)
      <4>1. /\ best[0] \notin Inside
            /\ best[sentence.size - 1] \notin StartsEntity
            /\ \A w \in 0 .. MaxWords - 1 : w + 1 < sentence.size =>
                   (best[w] \in StartsEntity <=> best[w + 1] \in Inside)
        BY <3>2 DEF WellFormed, InSentence, Words
      <4>2. /\ lab[0] \notin Inside
            /\ lab[sentence.size - 1] \notin StartsEntity
            /\ \A w \in 0 .. MaxWords - 1 : w + 1 < sentence.size =>
                   (lab[w] \in StartsEntity <=> lab[w + 1] \in Inside)
        BY <1>0, <3>1, <3>4, <4>1, WellFormedSame
      <4> QED
        BY <4>2 DEF WellFormed, InSentence, Words
    <3>6. WellFormed(lab)'
      BY <3>1, <3>5 DEF WellFormed, InSentence
    <3>7. WellFormed([w \in Words |-> previousStage[w].bilou])'
      BY <3>0, <3>6
    <3> QED
      BY <3>1, <3>7 DEF StageOK
  <2>2. CASE ~(stage < NumStages)
    BY <1>3, <2>2 DEF FillPreviousStage, StageOK
  <2> QED
    BY <2>1, <2>2
<1>4. CASE StartStage
  BY <1>2, <1>4 DEF StartStage
<1>5. CASE GazetteersAtWord \/ UrlEmailAtWord
  BY <1>2, <1>5 DEF GazetteersAtWord, UrlEmailAtWord, AtProcessor
<1>6. CASE NextProcessor
  BY <1>2, <1>6 DEF NextProcessor
<1>7. CASE ClassifyWord \/ KeepForcedWord
  BY <1>2, <1>7 DEF ClassifyWord, KeepForcedWord, AtWordToClassify
<1>8. CASE LastLabel \/ FollowPrevious
  BY <1>2, <1>8 DEF LastLabel, FollowPrevious
<1>9. CASE ExtractUnit \/ ExtractSpan \/ SkipWord \/ Return
  BY <1>2, <1>9 DEF ExtractUnit, ExtractSpan, SkipWord, Return, AtWordToExtract
<1>10. CASE UNCHANGED vars
  BY <1>2, <1>10 DEF vars, input
<1> QED
  BY <1>1, <1>3, <1>4, <1>5, <1>6, <1>7, <1>8, <1>9, <1>10 DEF Next, Step

-----------------------------------------------------------------------------
(***************************************************************************)
(*                       The matches that are forced                       *)
(***************************************************************************)
(* A match is a processor's, and covers words of the sentence, its first   *)
(* among them.                                                             *)
LEMMA MatchType ==
    ASSUME TypeOK, NEW g \in Matches
    PROVE  /\ g[1] \in 1 .. Len(Processors) /\ g[2] \in sentence.matches[g[1]]
           /\ g = <<g[1], g[2]>>
           /\ g[2] \in Span /\ g[2].start \in Nat /\ g[2].start < sentence.size
           /\ SpanWords(g[2]) \subseteq Words /\ g[2].start \in SpanWords(g[2])
           /\ \A v \in SpanWords(g[2]) : InSentence(v)
<1>1. PICK k \in 1 .. Len(Processors) : g \in {k} \X sentence.matches[k]
  BY DEF Matches
<1>2. g[1] = k /\ g[2] \in sentence.matches[k] /\ g = <<g[1], g[2]>>
  BY <1>1
<1> DEFINE m == g[2]
<1>3. m \in Span /\ SpanWords(m) \subseteq 0 .. sentence.size - 1
  BY <1>2, SentenceType DEF TypeOK
<1>4. MaxWords \in Nat /\ sentence.size \in 0 .. MaxWords
  BY SentenceType, BoundsAssumption DEF TypeOK
<1>5. m.start \in Nat /\ m.start \in SpanWords(m)
  BY <1>3, <1>4 DEF Span, Words, SpanWords
<1>6. m.start < sentence.size
  BY <1>3, <1>4, <1>5
<1>7. SpanWords(m) \subseteq Words /\ \A v \in SpanWords(m) : InSentence(v)
  BY <1>3, <1>4 DEF Words, InSentence
<1> QED
  BY <1>2, <1>3, <1>5, <1>6, <1>7

(* The labels of a match: its first word begins it, its last one ends it,  *)
(* and no other word does.                                                 *)
LEMMA SpanLabels ==
    ASSUME NEW m \in Span, NEW w \in SpanWords(m)
    PROVE  /\ SpanLabel(m, w) \in Bilou \ {"O"}
           /\ SpanLabel(m, w) \notin Inside <=> w = m.start
           /\ SpanLabel(m, w) \notin StartsEntity <=> w = m.start + m.length - 1
<1>1. /\ m.start \in Nat /\ m.length \in Nat \ {0} /\ w \in Nat
      /\ m.start <= w /\ w <= m.start + m.length - 1
  BY BoundsAssumption DEF Span, Words, SpanWords
<1>2. CASE m.length = 1
  <2>1. SpanLabel(m, w) = "U" /\ w = m.start /\ w = m.start + m.length - 1
    BY <1>1, <1>2 DEF SpanLabel
  <2> QED
    BY <2>1 DEF Bilou, Inside, StartsEntity
<1>3. CASE m.length > 1
  <2>0. m.length # 1 /\ m.start # m.start + m.length - 1
    BY <1>1, <1>3
  <2>1. CASE w = m.start
    <3>1. SpanLabel(m, w) = "B" /\ w # m.start + m.length - 1
      BY <1>1, <1>3, <2>0, <2>1 DEF SpanLabel
    <3> QED
      BY <2>1, <3>1 DEF Bilou, Inside, StartsEntity
  <2>2. CASE w = m.start + m.length - 1
    <3>1. SpanLabel(m, w) = "L" /\ w # m.start
      BY <1>1, <1>3, <2>0, <2>2 DEF SpanLabel
    <3> QED
      BY <2>2, <3>1 DEF Bilou, Inside, StartsEntity
  <2>3. CASE w # m.start /\ w # m.start + m.length - 1
    <3>1. SpanLabel(m, w) = "I"
      BY <1>1, <1>3, <2>0, <2>3 DEF SpanLabel
    <3> QED
      BY <2>3, <3>1 DEF Bilou, Inside, StartsEntity
  <2> QED
    BY <2>1, <2>2, <2>3
<1> QED
  BY <1>1, <1>2, <1>3

(* The match that a processor looks at is not yet considered.              *)
LEMMA ConsideredNext ==
    ASSUME TypeOK, pc = "detect", pc' = "detect", proc' = proc, i' = i + 1,
           NEW g \in Matches, Considered(g)'
    PROVE  Considered(g) \/ (g[1] = proc /\ g[2].start = i /\ g[2] \in MatchesAt(i))
<1>1. /\ g[1] \in Int /\ g[2].start \in Nat /\ proc \in Nat /\ i \in Nat
      /\ g[2] \in sentence.matches[g[1]]
  BY MatchType DEF TypeOK
<1>2. g[1] < proc \/ (g[1] = proc /\ g[2].start < i + 1)
  BY DEF Considered
<1>3. g[1] < proc \/ (g[1] = proc /\ g[2].start < i)
      \/ (g[1] = proc /\ g[2].start = i)
  BY <1>1, <1>2
<1> QED
  BY <1>1, <1>3 DEF Considered, MatchesAt

LEMMA ConsideredKept ==
    ASSUME TypeOK, pc = "detect", proc' = proc, i' = i + 1,
           NEW g \in Matches, Considered(g)
    PROVE  Considered(g)'
<1>1. g[1] \in Int /\ g[2].start \in Nat /\ proc \in Nat /\ i \in Nat
  BY MatchType DEF TypeOK
<1>2. g[1] < proc \/ (g[1] = proc /\ g[2].start < i)
  BY DEF Considered
<1>3. g[1] < proc \/ (g[1] = proc /\ g[2].start < i + 1)
  BY <1>1, <1>2
<1> QED
  BY <1>3 DEF Considered

(* A match that is not free overlaps one that was chosen before.           *)
LEMMA Blocked ==
    ASSUME TypeOK, pc = "detect", NEW F \in SUBSET Matches, ForcedBy(F),
           NEW g \in Matches, g[1] = proc, g[2].start = i,
           g[2] \in MatchesAt(i) \ FreeMatchesAt(i)
    PROVE  \E f \in F : Precedes(f, g) /\ Overlap(f, g)
<1>1. PICK v \in SpanWords(g[2]) : filled[v]
  BY DEF FreeMatchesAt
<1>2. v \in Words /\ InSentence(v)
  BY <1>1, MatchType
<1>3. PICK f \in F : v \in SpanWords(f[2])
  BY <1>1, <1>2 DEF ForcedBy
<1>4. Overlap(f, g)
  BY <1>1, <1>3 DEF Overlap
<1>5. f[1] < proc \/ (f[1] = proc /\ f[2].start < i)
  BY <1>3 DEF ForcedBy, Considered
<1>6. Precedes(f, g)
  BY <1>5 DEF Precedes
<1> QED
  BY <1>3, <1>4, <1>6

(* A processor that forces nothing at a word has no free match there.      *)
LEMMA NothingForced ==
    ASSUME TypeOK, pc = "detect", pc' = "detect", proc' = proc, i' = i + 1,
           sentence' = sentence, UNCHANGED local, FreeMatchesAt(i) = {},
           NEW F \in SUBSET Matches, ForcedBy(F)
    PROVE  ForcedBy(F)'
<1>1. \A f \in F : Considered(f)'
  BY ConsideredKept DEF ForcedBy
<1>2. ASSUME NEW g \in Matches \ F, Considered(g)'
      PROVE  \E f \in F : Precedes(f, g) /\ Overlap(f, g)
  <2>1. CASE Considered(g)
    BY <2>1 DEF ForcedBy
  <2>2. CASE g[1] = proc /\ g[2].start = i /\ g[2] \in MatchesAt(i)
    BY <2>2, Blocked
  <2> QED
    BY <1>2, <2>1, <2>2, ConsideredNext
<1>3. Matches' = Matches
  BY DEF Matches
<1>4. filled' = filled /\ localProb' = localProb /\ localEntity' = localEntity
  BY DEF local
<1>5. \A f \in F : \A w \in SpanWords(f[2]) : ForcedWord(f[2], w)'
  BY <1>4 DEF ForcedBy, ForcedWord
<1>6. \A w \in Words : InSentence(w)' /\ filled'[w] =>
          \E f \in F : w \in SpanWords(f[2])
  BY <1>4 DEF ForcedBy, InSentence
<1>7. \A f, g \in F : f # g => ~Overlap(f, g)
  BY DEF ForcedBy
<1> QED
  BY <1>1, <1>2, <1>3, <1>5, <1>6, <1>7 DEF ForcedBy

(* The longest free match at a word takes precedence over the others that  *)
(* start there.                                                            *)
LEMMA LongestForced ==
    ASSUME TypeOK, sentence \in Sentences, proc \in 1 .. Len(Processors),
           pc = "detect", pc' = "detect", proc' = proc, i' = i + 1, sentence' = sentence,
           NEW m \in FreeMatchesAt(i), \A k \in FreeMatchesAt(i) : k.length <= m.length,
           ForceLabels(m),
           NEW F \in SUBSET Matches, ForcedBy(F)
    PROVE  \E G \in SUBSET Matches : ForcedBy(G)'
<1>0. PICK h : h = <<proc, m>>
  OBVIOUS
<1>1. h \in Matches /\ m \in sentence.matches[proc] /\ m.start = i /\ h[1] = proc /\ h[2] = m
  BY <1>0 DEF FreeMatchesAt, MatchesAt, Matches
<1>2. /\ m \in Span /\ SpanWords(m) \subseteq Words /\ i \in SpanWords(m)
      /\ \A v \in SpanWords(m) : ~filled[v]
  BY <1>1, MatchType DEF FreeMatchesAt
<1>3. /\ \A w \in Words : w \in SpanWords(m) => ForcedWord(m, w)'
      /\ \A w \in Words \ SpanWords(m) :
            /\ filled'[w] = filled[w] /\ localProb'[w] = localProb[w]
            /\ localEntity'[w] = localEntity[w]
  BY DEF ForceLabels, ForcedWord, TypeOK
<1>4. ASSUME NEW f \in F
      PROVE  ~Overlap(f, h) /\ ~Overlap(h, f)
  <2>1. \A v \in SpanWords(f[2]) : filled[v]
    BY DEF ForcedBy, ForcedWord
  <2> QED
    BY <1>1, <1>2, <2>1 DEF Overlap
<1>5. ASSUME NEW g \in Matches \ F, g # h, Considered(g)'
      PROVE  \E f \in F \cup {h} : Precedes(f, g) /\ Overlap(f, g)
  <2>1. CASE Considered(g)
    BY <2>1 DEF ForcedBy
  <2>2. CASE g[1] = proc /\ g[2].start = i /\ g[2] \in MatchesAt(i)
    <3>1. CASE g[2] \in FreeMatchesAt(i)
      <4>1. /\ g = <<g[1], g[2]>> /\ g[2] \in Span /\ g[2] \in sentence.matches[proc]
            /\ i \in SpanWords(g[2])
        BY <2>2, MatchType
      <4>2. g[2] # m
        BY <1>0, <1>5, <2>2, <4>1
      <4>3. g[2].length # m.length
        BY <1>1, <2>2, <4>1, <4>2, SentencesAssumption
      <4>4. g[2].length <= m.length /\ g[2].length \in Int /\ m.length \in Int
        BY <1>2, <3>1, <4>1 DEF Span
      <4>5. m.length > g[2].length
        BY <4>3, <4>4
      <4>6. Precedes(h, g)
        BY <1>1, <2>2, <4>5 DEF Precedes
      <4>7. Overlap(h, g)
        BY <1>1, <1>2, <4>1 DEF Overlap
      <4> QED
        BY <4>6, <4>7
    <3>2. CASE g[2] \notin FreeMatchesAt(i)
      BY <2>2, <3>2, Blocked
    <3> QED
      BY <3>1, <3>2
  <2> QED
    BY <1>5, <2>1, <2>2, ConsideredNext
<1>6. \A f \in F \cup {h} : Considered(f)'
  <2>1. \A f \in F : Considered(f)'
    BY ConsideredKept DEF ForcedBy
  <2>2. Considered(h)'
    BY <1>1 DEF Considered, TypeOK
  <2> QED
    BY <2>1, <2>2
<1>7. \A f \in F \cup {h} : \A w \in SpanWords(f[2]) : ForcedWord(f[2], w)'
  <2>1. ASSUME NEW f \in F, NEW w \in SpanWords(f[2])
        PROVE  ForcedWord(f[2], w)'
    <3>1. w \in Words
      BY <2>1, MatchType
    <3>2. ForcedWord(f[2], w)
      BY <2>1 DEF ForcedBy
    <3>3. w \notin SpanWords(m)
      BY <1>2, <3>2 DEF ForcedWord
    <3> QED
      BY <1>3, <3>1, <3>2, <3>3 DEF ForcedWord
  <2>2. \A w \in SpanWords(h[2]) : ForcedWord(h[2], w)'
    BY <1>1, <1>2, <1>3
  <2> QED
    BY <2>1, <2>2
<1>8. \A w \in Words : InSentence(w)' /\ filled'[w] =>
          \E f \in F \cup {h} : w \in SpanWords(f[2])
  <2> SUFFICES ASSUME NEW w \in Words, InSentence(w), filled'[w]
               PROVE  \E f \in F \cup {h} : w \in SpanWords(f[2])
    BY DEF InSentence
  <2>1. CASE w \in SpanWords(m)
    BY <1>1, <2>1
  <2>2. CASE w \notin SpanWords(m)
    <3>1. filled[w]
      BY <1>3, <2>2
    <3> QED
      BY <3>1 DEF ForcedBy
  <2> QED
    BY <2>1, <2>2
<1>9. \A f, g \in F \cup {h} : f # g => ~Overlap(f, g)
  BY <1>4 DEF ForcedBy
<1>10. Matches' = Matches
  BY DEF Matches
<1>11. ForcedBy(F \cup {h})'
  BY <1>5, <1>6, <1>7, <1>8, <1>9, <1>10 DEF ForcedBy
<1> QED
  BY <1>1, <1>11

LEMMA ProcessorMatches ==
    ASSUME IndInv, MatchesOK, GazetteersAtWord \/ UrlEmailAtWord
    PROVE  MatchesOK'
<1>1. /\ pc = "detect" /\ pc' = "detect" /\ proc' = proc /\ i' = i + 1 /\ sentence' = sentence
      /\ proc \in 1 .. Len(Processors) /\ sentence.size > 0
  BY ProcessorsAssumption
     DEF GazetteersAtWord, UrlEmailAtWord, AtProcessor, IndInv, TypeOK, LoopOK, input
<1>2. sentence \in Sentences
  BY <1>1 DEF IndInv, TypeOK, NoSentence
<1>3. PICK F \in SUBSET Matches : ForcedBy(F)
  BY <1>1 DEF MatchesOK, Active
<1>4. CASE FreeMatchesAt(i) = {}
  <2>1. UNCHANGED local
    BY <1>4 DEF GazetteersAtWord, UrlEmailAtWord
  <2>2. ForcedBy(F)'
    BY <1>1, <1>3, <1>4, <2>1, NothingForced DEF IndInv
  <2>3. Matches' = Matches
    BY <1>1 DEF Matches
  <2> QED
    BY <2>2, <2>3 DEF MatchesOK
<1>5. CASE FreeMatchesAt(i) # {}
  <2>1. PICK m \in FreeMatchesAt(i) :
          /\ \A k \in FreeMatchesAt(i) : k.length <= m.length
          /\ ForceLabels(m)
    <3>1. CASE GazetteersAtWord
      BY <1>5, <3>1 DEF GazetteersAtWord
    <3>2. CASE UrlEmailAtWord
      <4>1. PICK m \in FreeMatchesAt(i) : ForceLabels(m)
        BY <1>5, <3>2 DEF UrlEmailAtWord
      <4>2. \A k \in FreeMatchesAt(i) : k.length = 1
        BY <1>1, <1>2, <3>2, SentencesAssumption
           DEF UrlEmailAtWord, AtProcessor, FreeMatchesAt, MatchesAt
      <4>3. \A k \in FreeMatchesAt(i) : k.length <= m.length
        BY <4>2
      <4> QED
        BY <4>1, <4>3
    <3> QED
      BY <3>1, <3>2
  <2>2. \E G \in SUBSET Matches : ForcedBy(G)'
    BY <1>1, <1>2, <1>3, <2>1, LongestForced DEF IndInv
  <2>3. Matches' = Matches
    BY <1>1 DEF Matches
  <2> QED
    BY <2>2, <2>3 DEF MatchesOK
<1> QED
  BY <1>4, <1>5

(* At the end of the last processor every match has been considered.       *)
LEMMA NextProcessorMatches ==
    ASSUME IndInv, MatchesOK, NextProcessor
    PROVE  MatchesOK'
<1>1. /\ pc = "detect" /\ pc' \in {"detect", "classify"} /\ sentence' = sentence
      /\ i' = 0 /\ UNCHANGED local /\ sentence.size > 0 /\ proc \in Nat
  BY DEF NextProcessor, IndInv, LoopOK, TypeOK, input
<1>2. PICK F \in SUBSET Matches : ForcedBy(F)
  BY <1>1 DEF MatchesOK, Active
<1>3. ASSUME NEW g \in Matches, Considered(g)'
      PROVE  Considered(g)
  <2>1. /\ g[1] \in Nat /\ g[2].start \in Nat /\ g[2].start < sentence.size
        /\ g[1] <= Len(Processors)
    BY MatchType DEF IndInv
  <2>2. CASE proc > Len(Processors)
    <3>1. g[1] < proc
      BY <1>1, <2>1, <2>2, ProcessorsAssumption
    <3> QED
      BY <3>1 DEF Considered
  <2>3. CASE proc <= Len(Processors)
    <3>1. i = sentence.size
      BY <1>1, <2>3, ProcessorsAssumption DEF NextProcessor
    <3>2. g[1] <= proc
      <4>1. CASE proc < Len(Processors)
        <5>1. proc' = proc + 1 /\ pc' = "detect"
          BY <1>1, <4>1 DEF NextProcessor
        <5> QED
          BY <1>1, <1>3, <2>1, <5>1 DEF Considered
      <4>2. CASE proc = Len(Processors)
        BY <2>1, <4>2
      <4> QED
        BY <1>1, <2>3, <4>1, <4>2, ProcessorsAssumption
    <3>3. g[1] < proc \/ g[1] = proc
      BY <1>1, <2>1, <3>2
    <3> QED
      BY <2>1, <3>1, <3>3 DEF Considered
  <2> QED
    BY <1>1, <2>2, <2>3, ProcessorsAssumption
<1>4. ASSUME NEW f \in F PROVE Considered(f)'
  <2>1. /\ f[1] \in Nat /\ f[1] <= proc
    BY <1>1, <1>2, MatchType DEF ForcedBy, Considered, IndInv
  <2>2. pc' = "detect" => proc' = proc + 1
    BY <1>1 DEF NextProcessor
  <2> QED
    BY <1>1, <2>1, <2>2 DEF Considered
<1>5. Matches' = Matches
  BY <1>1 DEF Matches
<1>6. filled' = filled /\ localProb' = localProb /\ localEntity' = localEntity
  BY <1>1 DEF local
<1>7. /\ \A f \in F : \A w \in SpanWords(f[2]) : ForcedWord(f[2], w)'
      /\ \A w \in Words : InSentence(w)' /\ filled'[w] => \E f \in F : w \in SpanWords(f[2])
  BY <1>1, <1>2, <1>6 DEF ForcedBy, ForcedWord, InSentence
<1>8. ForcedBy(F)'
  BY <1>2, <1>3, <1>4, <1>5, <1>7 DEF ForcedBy
<1> QED
  BY <1>5, <1>8 DEF MatchesOK

(* The network decides words that no match covers.                         *)
LEMMA ClassifyMatches ==
    ASSUME IndInv, MatchesOK, ClassifyWord
    PROVE  MatchesOK'
<1>1. /\ pc = "classify" /\ pc' = "classify" /\ sentence' = sentence /\ sentence.size > 0
      /\ ~filled[i]
  BY DEF ClassifyWord, AtWordToClassify, IndInv, LoopOK, input
<1>2. PICK F \in SUBSET Matches : ForcedBy(F)
  BY <1>1 DEF MatchesOK, Active
<1>0. PICK oc \in Outcomes : \E pick \in BestOutcomes(oc) :
        /\ filled' = [filled EXCEPT ![i] = TRUE]
        /\ localProb' = [localProb EXCEPT ![i] = FilledProb(oc, pick)]
        /\ localEntity' = [localEntity EXCEPT ![i] = FilledEntity(pick)]
  BY DEF ClassifyWord, NetworkDecides
<1>3. PICK pick \in BestOutcomes(oc) :
        /\ filled' = [filled EXCEPT ![i] = TRUE]
        /\ localProb' = [localProb EXCEPT ![i] = FilledProb(oc, pick)]
        /\ localEntity' = [localEntity EXCEPT ![i] = FilledEntity(pick)]
  BY <1>0
<1>4. FilledProb(oc, pick) \in [Bilou -> Nat \ {0}]
  BY OutcomeTypes
<1>5. \A w \in Words \ {i} : /\ filled'[w] = filled[w] /\ localProb'[w] = localProb[w]
                             /\ localEntity'[w] = localEntity[w]
  BY <1>3 DEF IndInv, TypeOK
<1>6. \A w \in Words : w = i => Open(w)'
  BY <1>3, <1>4 DEF Open, IndInv, TypeOK
<1>7. ASSUME NEW f \in F, NEW w \in SpanWords(f[2])
      PROVE  ForcedWord(f[2], w)'
  <2>1. w \in Words /\ ForcedWord(f[2], w)
    BY <1>2, <1>7, MatchType DEF ForcedBy, IndInv
  <2>2. w # i
    BY <1>1, <2>1 DEF ForcedWord
  <2> QED
    BY <1>5, <2>1, <2>2 DEF ForcedWord
<1>8. ASSUME NEW w \in Words, InSentence(w)', filled'[w]
      PROVE  Open(w)' \/ \E f \in F : w \in SpanWords(f[2])
  <2>1. CASE w = i
    BY <1>6, <2>1
  <2>2. CASE w # i
    <3>1. filled[w] /\ InSentence(w) /\ localProb'[w] = localProb[w]
      BY <1>1, <1>5, <1>8, <2>2 DEF InSentence
    <3>2. Open(w) \/ \E f \in F : w \in SpanWords(f[2])
      BY <1>2, <3>1 DEF ForcedBy
    <3> QED
      BY <3>1, <3>2 DEF Open
  <2> QED
    BY <2>1, <2>2
<1>9. Matches' = Matches
  BY <1>1 DEF Matches
<1>10. ForcedBy(F)'
  BY <1>1, <1>2, <1>7, <1>8, <1>9 DEF ForcedBy, Considered
<1> QED
  BY <1>9, <1>10 DEF MatchesOK

(* Steps after the classification leave the forced words alone.            *)
LEMMA MatchesKept ==
    ASSUME MatchesOK, UNCHANGED <<input, local>>,
           \/ Active' => Active /\ pc # "detect" /\ pc' # "detect"
           \/ UNCHANGED <<pc, proc, i>>
    PROVE  MatchesOK'
<1> SUFFICES ASSUME Active' PROVE \E F \in SUBSET Matches' : ForcedBy(F)'
  BY DEF MatchesOK
<1>1. sentence' = sentence /\ Matches' = Matches
      /\ filled' = filled /\ localProb' = localProb /\ localEntity' = localEntity
  BY DEF Matches, input, local
<1>2. Active
  BY <1>1 DEF Active
<1>3. PICK F \in SUBSET Matches : ForcedBy(F)
  BY <1>2 DEF MatchesOK
<1>4. \A g \in Matches : Considered(g)' <=> Considered(g)
  BY DEF Considered
<1>5. /\ \A f \in F : \A w \in SpanWords(f[2]) : ForcedWord(f[2], w)'
      /\ \A w \in Words : InSentence(w)' /\ filled'[w] =>
             \/ Open(w)' /\ pc' # "detect"
             \/ \E f \in F : w \in SpanWords(f[2])
  BY <1>1, <1>3 DEF ForcedBy, ForcedWord, InSentence, Open
<1>6. ForcedBy(F)'
  BY <1>1, <1>3, <1>4, <1>5 DEF ForcedBy
<1> QED
  BY <1>1, <1>6

LEMMA InitMatches == Init => MatchesOK
  BY DEF Init, MatchesOK, Active, NoSentence

LEMMA NextMatches ==
    ASSUME IndInv, MatchesOK, [Next]_vars
    PROVE  MatchesOK'
<1>1. ASSUME NEW s \in Sentences, Recognize(s) PROVE MatchesOK'
  <2>1. s.size \in Nat /\ sentence' = s
    BY <1>1, SentenceType DEF Recognize
  <2>2. ~Active'
    BY <1>1, <2>1 DEF Recognize, Active
  <2> QED
    BY <2>2 DEF MatchesOK
<1>2. CASE StartStage
  <2>1. /\ pc' = "detect" /\ proc' = 1 /\ i' = 0 /\ sentence' = sentence
        /\ filled' = ClearLocalFilled
    BY <1>2 DEF StartStage, input
  <2>2. \A g \in Matches : ~Considered(g)'
    BY <2>1, MatchType DEF Considered, IndInv
  <2>3. \A w \in Words : InSentence(w)' => ~filled'[w]
    BY <2>1 DEF ClearLocalFilled, InSentence
  <2>4. Matches' = Matches
    BY <2>1 DEF Matches
  <2>5. ForcedBy({})'
    BY <2>2, <2>3, <2>4 DEF ForcedBy
  <2> QED
    BY <2>5 DEF MatchesOK
<1>3. CASE GazetteersAtWord \/ UrlEmailAtWord
  BY <1>3, ProcessorMatches
<1>4. CASE NextProcessor
  BY <1>4, NextProcessorMatches
<1>5. CASE ClassifyWord
  BY <1>5, ClassifyMatches
<1>6. CASE KeepForcedWord
  <2>1. UNCHANGED <<input, local>> /\ pc = "classify" /\ pc' = "classify" /\ (Active' => Active)
    BY <1>6 DEF KeepForcedWord, AtWordToClassify, Active, input
  <2> QED
    BY <2>1, MatchesKept
<1>7. CASE LastLabel \/ FollowPrevious
  <2>1. /\ UNCHANGED <<input, local>> /\ pc \in {"classify", "back"} /\ pc' = "back"
        /\ (Active' => Active)
    BY <1>7 DEF LastLabel, FollowPrevious, Active, input
  <2> QED
    BY <2>1, MatchesKept
<1>8. CASE FillPreviousStage
  <2>1. /\ UNCHANGED <<input, local>> /\ pc = "back" /\ pc' # "detect"
        /\ (Active' => Active)
    BY <1>8 DEF FillPreviousStage, Active, input
  <2> QED
    BY <2>1, MatchesKept
<1>9. CASE ExtractUnit \/ ExtractSpan \/ SkipWord \/ Return
  <2>1. /\ UNCHANGED <<input, local>> /\ pc = "extract" /\ pc' \in {"extract", "idle"}
        /\ (Active' => Active)
    BY <1>9 DEF ExtractUnit, ExtractSpan, SkipWord, Return, AtWordToExtract, Active, input
  <2> QED
    BY <2>1, MatchesKept
<1>10. CASE UNCHANGED vars
  <2>1. UNCHANGED <<input, local>> /\ UNCHANGED <<pc, proc, i>>
    BY <1>10 DEF vars
  <2> QED
    BY <2>1, MatchesKept
<1> QED
  BY <1>1, <1>2, <1>3, <1>4, <1>5, <1>6, <1>7, <1>8, <1>9, <1>10 DEF Next, Step

-----------------------------------------------------------------------------
(***************************************************************************)
(*               The entities that update carries forward                  *)
(***************************************************************************)
LEMMA EntityKeeps ==
    ASSUME EntityOK, UNCHANGED <<sentence, localEntity, global>>,
           \A w \in Words : Processed(w)' => Processed(w)
    PROVE  EntityOK'
  BY DEF EntityOK, EntityKept, EntityLinked, global

(* init copies the local entities, update takes those of the word before   *)
(* for labels that continue an entity.                                     *)
LEMMA ForwardEntity ==
    ASSUME IndInv, EntityOK, pc = "classify", pc' = "classify", sentence' = sentence,
           i \in Words, i' = i + 1,
           NEW lp, NEW le, Forward(lp, le), localEntity'[i] = le,
           \A w \in Words \ {i} : localEntity'[w] = localEntity[w]
    PROVE  EntityOK'
<1>0. MaxWords \in Nat /\ i \in Nat
  BY BoundsAssumption DEF IndInv, TypeOK
<1> SUFFICES ASSUME NEW w \in Words, Processed(w)'
             PROVE  EntityKept(w)' /\ (w > 0 => EntityLinked(w)')
  BY DEF EntityOK
<1>1. InSentence(w) /\ w <= i
  BY <1>0 DEF Processed, InSentence, Words
<1>2. \A v \in Words \ {i} : entity'[v] = entity[v] /\ prob'[v] = prob[v]
  BY DEF Forward, IndInv, TypeOK
<1>3. w > 0 => w - 1 \in Words \ {i}
  BY <1>0, <1>1 DEF Words
<1>4. CASE w # i
  <2>1. Processed(w)
    BY <1>0, <1>1, <1>4 DEF Processed, Words
  <2>2. EntityKept(w) /\ (w > 0 => EntityLinked(w))
    BY <2>1 DEF EntityOK
  <2> QED
    BY <1>2, <1>3, <1>4, <2>2 DEF EntityKept, EntityLinked
<1>5. CASE w = i /\ i = 0
  <2>1. entity'[w] = le
    BY <1>5 DEF Forward, IndInv, TypeOK
  <2> QED
    BY <1>5, <2>1 DEF EntityKept
<1>6. CASE w = i /\ i # 0
  <2>1. entity'[w] = UpdateEntity(le, prob[w - 1], entity[w - 1])
    BY <1>6 DEF Forward, IndInv, TypeOK
  <2>2. prob'[w - 1] = prob[w - 1] /\ entity'[w - 1] = entity[w - 1]
    BY <1>0, <1>2, <1>3, <1>6
  <2>3. EntityKept(w)'
    BY <1>6, <2>1 DEF EntityKept, UpdateEntity
  <2>4. \A t \in Inside : entity'[w][t] = entity[w - 1][BestBI(prob[w - 1])]
    BY <2>1 DEF UpdateEntity, Inside, Bilou
  <2>5. EntityLinked(w)'
    BY <2>2, <2>4 DEF EntityLinked
  <2> QED
    BY <2>3, <2>5
<1> QED
  BY <1>4, <1>5, <1>6

LEMMA InitEntity == Init => EntityOK /\ LastStageOK /\ NothingReported /\ ReportOK
<1> SUFFICES ASSUME Init
             PROVE  EntityOK /\ LastStageOK /\ NothingReported /\ ReportOK
  OBVIOUS
<1>1. sentence.size = 0 /\ pc = "idle"
  BY DEF Init, NoSentence
<1>2. \A w \in Words : ~InSentence(w)
  BY <1>1 DEF InSentence, Words
<1> QED
  BY <1>1, <1>2 DEF EntityOK, Processed, LastStageOK, NothingReported, ReportOK

LEMMA NextEntity ==
    ASSUME IndInv, EntityOK, [Next]_vars
    PROVE  EntityOK'
<1>0. i \in Nat /\ MaxWords \in Nat /\ sentence.size \in 0 .. MaxWords
  BY SentenceType, BoundsAssumption DEF IndInv, TypeOK
<1>1. ASSUME NEW s \in Sentences, Recognize(s) PROVE EntityOK'
  <2>1. \A w \in Words : ~Processed(w)'
    BY <1>1 DEF Recognize, Processed, InSentence, Words
  <2> QED
    BY <2>1 DEF EntityOK
<1>2. CASE StartStage \/ GazetteersAtWord \/ UrlEmailAtWord
  <2>1. pc' = "detect"
    BY <1>2 DEF StartStage, GazetteersAtWord, UrlEmailAtWord, AtProcessor
  <2> QED
    BY <2>1 DEF EntityOK, Processed
<1>3. CASE NextProcessor
  <2>1. pc' \in {"detect", "classify"} /\ i' = 0
    BY <1>3 DEF NextProcessor
  <2>2. \A w \in Words : ~Processed(w)'
    BY <2>1 DEF Processed, Words
  <2> QED
    BY <2>2 DEF EntityOK
<1>4. CASE ClassifyWord \/ KeepForcedWord
  <2>1. /\ pc = "classify" /\ pc' = "classify" /\ sentence' = sentence
        /\ i \in Words /\ i' = i + 1
    BY <1>0, <1>4 DEF ClassifyWord, KeepForcedWord, AtWordToClassify, input, Words
  <2>2. CASE ClassifyWord
    <3>1. PICK oc \in Outcomes : \E pick \in BestOutcomes(oc) :
            /\ localEntity' = [localEntity EXCEPT ![i] = FilledEntity(pick)]
            /\ Forward(FilledProb(oc, pick), FilledEntity(pick))
      BY <2>2 DEF ClassifyWord, NetworkDecides
    <3>2. PICK pick \in BestOutcomes(oc) :
            /\ localEntity' = [localEntity EXCEPT ![i] = FilledEntity(pick)]
            /\ Forward(FilledProb(oc, pick), FilledEntity(pick))
      BY <3>1
    <3>3. /\ localEntity'[i] = FilledEntity(pick)
          /\ \A w \in Words \ {i} : localEntity'[w] = localEntity[w]
      BY <2>1, <3>2 DEF IndInv, TypeOK
    <3> QED
      BY <2>1, <3>2, <3>3, ForwardEntity
  <2>3. CASE KeepForcedWord
    <3>1. Forward(localProb[i], localEntity[i]) /\ localEntity' = localEntity
      BY <2>3 DEF KeepForcedWord, local
    <3> QED
      BY <2>1, <3>1, ForwardEntity
  <2> QED
    BY <1>4, <2>2, <2>3
<1>5. CASE LastLabel \/ FollowPrevious \/ FillPreviousStage
  <2>1. /\ UNCHANGED <<sentence, localEntity, global>>
        /\ pc \in {"classify", "back"} /\ (pc = "classify" => i = sentence.size)
    BY <1>5 DEF LastLabel, FollowPrevious, FillPreviousStage, input, local
  <2>2. \A w \in Words : Processed(w)' => Processed(w)
    BY <2>1 DEF Processed, InSentence
  <2> QED
    BY <2>1, <2>2, EntityKeeps
<1>6. CASE ExtractUnit \/ ExtractSpan \/ SkipWord \/ Return
  <2>1. UNCHANGED <<sentence, localEntity, global>> /\ pc = "extract"
    BY <1>6 DEF ExtractUnit, ExtractSpan, SkipWord, Return, AtWordToExtract, input, local
  <2>2. \A w \in Words : Processed(w)' => Processed(w)
    BY <2>1 DEF Processed, InSentence
  <2> QED
    BY <2>1, <2>2, EntityKeeps
<1>7. CASE UNCHANGED vars
  <2>1. UNCHANGED <<sentence, localEntity, global>> /\ UNCHANGED <<pc, i>>
    BY <1>7 DEF vars, input, local
  <2>2. \A w \in Words : Processed(w)' => Processed(w)
    BY <2>1 DEF Processed, InSentence
  <2> QED
    BY <2>1, <2>2, EntityKeeps
<1> QED
  BY <1>1, <1>2, <1>3, <1>4, <1>5, <1>6, <1>7 DEF Next, Step

(* What the last stage decoded is what the extraction reads.               *)
LEMMA NextLastStage ==
    ASSUME IndInv, LastStageOK, [Next]_vars
    PROVE  LastStageOK'
<1>1. ASSUME NEW s \in Sentences, Recognize(s) PROVE LastStageOK'
  <2>1. pc' \in {"extract", "idle"} => \A w \in Words : ~InSentence(w)'
    BY <1>1 DEF Recognize, InSentence, Words
  <2> QED
    BY <2>1 DEF LastStageOK
<1>2. CASE \/ StartStage \/ GazetteersAtWord \/ UrlEmailAtWord \/ NextProcessor
           \/ ClassifyWord \/ KeepForcedWord \/ LastLabel \/ FollowPrevious
  <2>1. pc' \notin {"extract", "idle"}
    BY <1>2 DEF StartStage, GazetteersAtWord, UrlEmailAtWord, AtProcessor, NextProcessor,
       ClassifyWord, KeepForcedWord, AtWordToClassify, LastLabel, FollowPrevious
  <2> QED
    BY <2>1 DEF LastStageOK
<1>3. CASE FillPreviousStage
  BY <1>3 DEF FillPreviousStage, LastStageOK, InSentence, input, global
<1>4. CASE ExtractUnit \/ ExtractSpan \/ SkipWord \/ Return \/ UNCHANGED vars
  <2>1. /\ UNCHANGED <<sentence, global, best, previousStage>>
        /\ pc' \in {"extract", "idle"} => pc \in {"extract", "idle"}
    BY <1>4 DEF ExtractUnit, ExtractSpan, SkipWord, Return, AtWordToExtract, input, vars
  <2> QED
    BY <2>1 DEF LastStageOK, InSentence, global
<1> QED
  BY <1>1, <1>2, <1>3, <1>4 DEF Next, Step

LEMMA NextNothing ==
    ASSUME NothingReported, [Next]_vars
    PROVE  NothingReported'
<1>1. ASSUME NEW s \in Sentences, Recognize(s) PROVE NothingReported'
  BY <1>1 DEF Recognize, NothingReported
<1>2. CASE \/ StartStage \/ GazetteersAtWord \/ UrlEmailAtWord \/ NextProcessor
           \/ ClassifyWord \/ KeepForcedWord \/ LastLabel \/ FollowPrevious
           \/ FillPreviousStage
  <2>1. entities' = entities /\ pc \notin {"extract", "idle"}
    BY <1>2 DEF StartStage, GazetteersAtWord, UrlEmailAtWord, AtProcessor, NextProcessor,
       ClassifyWord, KeepForcedWord, AtWordToClassify, LastLabel, FollowPrevious,
       FillPreviousStage
  <2> QED
    BY <2>1 DEF NothingReported
<1>3. CASE ExtractUnit \/ ExtractSpan \/ SkipWord \/ Return
  <2>1. pc' \in {"extract", "idle"}
    BY <1>3 DEF ExtractUnit, ExtractSpan, SkipWord, Return, AtWordToExtract
  <2> QED
    BY <2>1 DEF NothingReported
<1>4. CASE UNCHANGED vars
  BY <1>4 DEF vars, NothingReported
<1> QED
  BY <1>1, <1>2, <1>3, <1>4 DEF Next, Step

-----------------------------------------------------------------------------
(***************************************************************************)
(*                         The spans of entities                           *)
(***************************************************************************)
LEMMA ExtractionFacts ==
    ASSUME IndInv, pc = "extract", sentence.size > 0
    PROVE  /\ MaxWords \in Nat /\ sentence.size \in 1 .. MaxWords
           /\ WellFormed(best)
           /\ \A w \in Words : InSentence(w) => Processed(w) /\ WalkedBack(w)
           /\ best \in [Words -> Bilou]
<1>1. MaxWords \in Nat /\ sentence.size \in 1 .. MaxWords
  BY SentenceType, BoundsAssumption DEF IndInv, TypeOK
<1>2. WellFormed(best)
  BY InvariantWellFormed DEF WellFormedDecoding, Decoded
<1> QED
  BY <1>1, <1>2 DEF Processed, WalkedBack, IndInv, TypeOK

(* A word that continues an entity carries the type of the word before it. *)
LEMMA EntityCarried ==
    ASSUME IndInv, EntityOK, pc = "extract", sentence.size > 0,
           NEW w \in Words, w + 1 \in Words, InSentence(w + 1), best[w + 1] \in Inside
    PROVE  entity[w + 1][best[w + 1]] = entity[w][best[w]]
<1>1. w + 1 > 0 /\ (w + 1) - 1 = w /\ InSentence(w)
  BY ExtractionFacts DEF Words, InSentence
<1>2. EntityLinked(w + 1) /\ Linked(w + 1)
  BY <1>1, ExtractionFacts DEF EntityOK, IndInv, ChainOK
<1>3. best[w] = previous[w + 1][best[w + 1]]
  BY <1>1, ExtractionFacts DEF IndInv, BackOK
<1>4. best[w + 1] \in Bilou
  BY ExtractionFacts
<1>5. best[w] = BestBI(prob[w])
  BY <1>1, <1>2, <1>3, <1>4 DEF Linked, UpdatePrevious
<1>6. entity[w + 1][best[w + 1]] = entity[w][BestBI(prob[w])]
  BY <1>1, <1>2 DEF EntityLinked
<1> QED
  BY <1>5, <1>6

(* From a word labelled B the scan passes words labelled I, all of the     *)
(* same type, until one labelled L.                                        *)
LEMMA ScannedWords ==
    ASSUME IndInv, EntityOK, pc = "extract", sentence.size > 0,
           NEW b \in Words, best[b] = "B", NEW N \in Nat, b + N < sentence.size,
           \A n \in 1 .. N : best[b + n] # "L"
    PROVE  \A n \in 0 .. N : /\ best[b + n] \in StartsEntity
                             /\ n > 0 => best[b + n] = "I"
                             /\ entity[b + n][best[b + n]] = entity[b]["B"]
<1> DEFINE P == {n \in 0 .. N : /\ best[b + n] \in StartsEntity
                                /\ n > 0 => best[b + n] = "I"
                                /\ entity[b + n][best[b + n]] = entity[b]["B"]}
<1>0. b \in Nat /\ MaxWords \in Nat /\ sentence.size \in Nat /\ sentence.size <= MaxWords
  BY ExtractionFacts DEF Words
<1>1. 0 \in P
  <2>1. b + 0 = b
    BY <1>0
  <2> QED
    BY <2>1 DEF StartsEntity
<1>2. ASSUME NEW n \in 0 .. N - 1, n \in P PROVE n + 1 \in P
  <2>0. PICK v : v = b + n
    OBVIOUS
  <2>1. /\ v \in Words /\ v + 1 \in Words /\ InSentence(v + 1)
        /\ v + 1 = b + (n + 1) /\ n + 1 \in 1 .. N
    BY <1>0, <2>0 DEF Words, InSentence
  <2>2. best[v] \in StartsEntity /\ entity[v][best[v]] = entity[b]["B"]
    BY <1>2, <2>0
  <2>3. best[v + 1] \in Inside
    BY <2>1, <2>2, ExtractionFacts DEF WellFormed
  <2>4. best[v + 1] # "L"
    BY <2>1
  <2>5. best[v + 1] = "I" /\ entity[v + 1][best[v + 1]] = entity[b]["B"]
    BY <2>1, <2>2, <2>3, <2>4, EntityCarried DEF Inside
  <2> QED
    BY <2>1, <2>5 DEF StartsEntity
<1> HIDE DEF P
<1>3. 0 .. N \subseteq P
  BY <1>1, <1>2, UpTo
<1> QED
  BY <1>3 DEF P

LEMMA SpanOfLabels ==
    ASSUME IndInv, EntityOK, pc = "extract", sentence.size > 0,
           NEW b \in Words, InSentence(b), best[b] = "B"
    PROVE  /\ EndAfter(b) \in Words /\ b < EndAfter(b) /\ InSentence(EndAfter(b))
           /\ best[EndAfter(b)] = "L"
           /\ entity[EndAfter(b)]["L"] = entity[b]["B"]
           /\ \A w \in Words : b < w /\ w < EndAfter(b) =>
                 best[w] = "I" /\ entity[w]["I"] = entity[b]["B"]
<1>0. b \in Nat /\ MaxWords \in Nat /\ sentence.size \in Nat /\ sentence.size <= MaxWords
      /\ b < sentence.size /\ WellFormed(best)
  BY ExtractionFacts DEF Words, InSentence
<1>1. LastWordsAfter(b) # {}
  <2> SUFFICES ASSUME LastWordsAfter(b) = {} PROVE FALSE
    OBVIOUS
  <2> DEFINE N == sentence.size - 1 - b
  <2>1. N \in Nat /\ b + N < sentence.size /\ N \in 0 .. N /\ b + N = sentence.size - 1
    BY <1>0
  <2>2. ASSUME NEW n \in 1 .. N PROVE best[b + n] # "L"
    <3>1. b + n \in Words /\ b < b + n /\ InSentence(b + n)
      BY <1>0, <2>1 DEF Words, InSentence
    <3> QED
      BY <3>1 DEF LastWordsAfter
  <2> HIDE DEF N
  <2>3. best[b + N] \in StartsEntity
    BY <2>1, <2>2, ScannedWords
  <2> QED
    BY <1>0, <2>1, <2>3 DEF WellFormed
<1>2. LastWordsAfter(b) \subseteq Nat
  BY DEF LastWordsAfter, Words
<1>3. \E v \in LastWordsAfter(b) : \A u \in LastWordsAfter(b) : v <= u
  BY <1>1, <1>2, LeastNumber
<1>4. /\ EndAfter(b) \in LastWordsAfter(b)
      /\ \A u \in LastWordsAfter(b) : EndAfter(b) <= u
  BY <1>1, <1>3 DEF EndAfter
<1>5. PICK end : end = EndAfter(b)
  OBVIOUS
<1>6. /\ end \in Words /\ b < end /\ InSentence(end) /\ best[end] = "L"
      /\ \A u \in LastWordsAfter(b) : end <= u
  BY <1>4, <1>5 DEF LastWordsAfter
<1>7. end \in Nat /\ end < sentence.size
  BY <1>6 DEF Words, InSentence
<1>8. PICK N \in Nat : b + N + 1 = end
  <2>1. end - b - 1 \in Nat /\ b + (end - b - 1) + 1 = end
    BY <1>0, <1>6, <1>7
  <2> QED
    BY <2>1
<1>9. ASSUME NEW n \in 1 .. N PROVE best[b + n] # "L"
  <2>1. b + n \in Words /\ b < b + n /\ InSentence(b + n) /\ ~(end <= b + n)
    BY <1>0, <1>7, <1>8 DEF Words, InSentence
  <2> QED
    BY <1>6, <2>1 DEF LastWordsAfter
<1>10. \A n \in 0 .. N : /\ n > 0 => best[b + n] = "I"
                         /\ entity[b + n][best[b + n]] = entity[b]["B"]
  <2>1. b + N < sentence.size
    BY <1>0, <1>7, <1>8
  <2> QED
    BY <1>9, <2>1, ScannedWords
<1>11. entity[end]["L"] = entity[b]["B"]
  <2>1. PICK v : v = b + N
    OBVIOUS
  <2>2. v \in Words /\ v + 1 = end /\ v + 1 \in Words
    BY <1>0, <1>6, <1>7, <1>8, <2>1 DEF Words
  <2>3. entity[v + 1][best[v + 1]] = entity[v][best[v]]
    BY <1>6, <2>2, EntityCarried DEF Inside
  <2>4. N \in 0 .. N
    OBVIOUS
  <2> QED
    BY <1>6, <1>10, <2>1, <2>2, <2>3, <2>4
<1>12. ASSUME NEW w \in Words, b < w, w < end
       PROVE  best[w] = "I" /\ entity[w]["I"] = entity[b]["B"]
  <2>1. PICK n \in 1 .. N : w = b + n
    <3>1. w - b \in 1 .. N /\ w = b + (w - b)
      BY <1>0, <1>7, <1>8, <1>12 DEF Words
    <3> QED
      BY <3>1
  <2>2. n \in 0 .. N /\ n > 0
    OBVIOUS
  <2> QED
    BY <1>10, <2>1, <2>2
<1> QED
  BY <1>5, <1>6, <1>11, <1>12

-----------------------------------------------------------------------------
(***************************************************************************)
(*                          The reported entities                          *)
(***************************************************************************)
LEMMA ReportedType ==
    ASSUME IndInv, NEW k \in DOMAIN entities
    PROVE  /\ entities[k].start \in Nat /\ entities[k].length \in Nat \ {0}
           /\ EndOf(entities[k]) \in Nat
           /\ entities[k] = [start |-> entities[k].start, length |-> entities[k].length,
                              type |-> entities[k].type]
<1> DEFINE E == [start : Words, length : 1 .. MaxWords, type : EntityOrUnknown]
<1>1. entities \in Seq(E)
  BY DEF IndInv, TypeOK
<1> HIDE DEF E
<1>2. PICK e \in E : e = entities[k]
  BY <1>1
<1>3. /\ e.start \in Nat /\ e.length \in Nat \ {0}
      /\ e = [start |-> e.start, length |-> e.length, type |-> e.type]
  BY BoundsAssumption DEF E, Words
<1>4. EndOf(e) \in Nat
  BY <1>3 DEF EndOf
<1> QED
  BY <1>2, <1>3, <1>4

(* The extraction reports the span that begins at its word, and goes on    *)
(* after it.                                                               *)
LEMMA SpanReported ==
    ASSUME IndInv, ReportOK, pc = "extract", sentence.size > 0, pc' = "extract",
           UNCHANGED <<sentence, entity, best>>,
           NEW e \in [start : Words, length : 1 .. MaxWords, type : EntityOrUnknown],
           e.start = i, EndOf(e) = i', i' <= sentence.size,
           InSentence(i)' => best[i'] \notin Inside,
           \A w \in EntityWords(e) :
              /\ best[w] # "O"
              /\ entity[w][best[w]] = e.type
              /\ w = e.start <=> best[w] \notin Inside
              /\ w + 1 = EndOf(e) <=> best[w] \notin StartsEntity,
           entities' = Append(entities, e)
    PROVE  ReportOK'
<1> DEFINE E == [start : Words, length : 1 .. MaxWords, type : EntityOrUnknown]
<1>0. /\ MaxWords \in Nat /\ i \in Nat /\ i < i' /\ i' \in Nat /\ i \in Words
      /\ entities \in Seq(E) /\ e \in E
  <2>1. e.start \in Nat /\ e.length \in Nat \ {0} /\ MaxWords \in Nat
    BY BoundsAssumption DEF Words
  <2>2. i' = i + e.length
    BY DEF EndOf
  <2> QED
    BY <2>1, <2>2 DEF IndInv, TypeOK
<1> HIDE DEF E
<1>1. /\ DOMAIN entities = 1 .. Len(entities) /\ Len(entities) \in Nat
      /\ DOMAIN entities' = 1 .. Len(entities) + 1
      /\ \A k \in 1 .. Len(entities) : entities'[k] = entities[k] /\ entities[k] \in E
      /\ entities'[Len(entities) + 1] = e
  BY <1>0
<1>2. \A k \in 1 .. Len(entities) : Reported(entities[k])
  BY <1>1 DEF ReportOK
<1>3. Reported(e)'
  BY <1>0 DEF Reported
<1>4. ASSUME NEW k \in 1 .. Len(entities) PROVE Reported(entities[k])'
  <2>1. EndOf(entities[k]) <= i /\ EndOf(entities[k]) \in Nat
    BY <1>1, <1>2, ReportedType DEF Reported
  <2>2. PICK x \in E : x = entities[k] /\ x = entities'[k]
    BY <1>1
  <2>3. Reported(x)
    BY <1>2, <2>2
  <2>4. EndOf(x) <= i'
    BY <1>0, <2>1, <2>2
  <2>5. Reported(x)'
    BY <2>3, <2>4 DEF Reported
  <2> QED
    BY <2>2, <2>5
<1>5. \A k \in DOMAIN entities' : Reported(entities[k])'
  <2> SUFFICES ASSUME NEW k \in DOMAIN entities' PROVE Reported(entities[k])'
    OBVIOUS
  <2>1. CASE k \in 1 .. Len(entities)
    BY <1>4, <2>1
  <2>2. CASE k = Len(entities) + 1
    BY <1>1, <1>3, <2>2
  <2> QED
    BY <1>1, <2>1, <2>2
<1>6. ASSUME NEW k \in DOMAIN entities', NEW l \in DOMAIN entities', k < l
      PROVE  EndOf(entities'[k]) <= entities'[l].start
  <2>1. k \in 1 .. Len(entities) /\ (l \in 1 .. Len(entities) \/ l = Len(entities) + 1)
    BY <1>1, <1>6
  <2>2. CASE l \in 1 .. Len(entities)
    BY <1>1, <1>6, <2>1, <2>2 DEF ReportOK
  <2>3. CASE l = Len(entities) + 1
    <3>1. EndOf(entities[k]) <= i
      BY <1>2, <2>1 DEF Reported
    <3> QED
      BY <1>1, <2>1, <2>3, <3>1
  <2> QED
    BY <2>1, <2>2, <2>3
<1>7. ASSUME NEW w \in Words, w < i', best[w] # "O"
      PROVE  \E k \in DOMAIN entities' : w \in EntityWords(entities'[k])
  <2>1. CASE w < i
    <3>1. PICK k \in DOMAIN entities : w \in EntityWords(entities[k])
      BY <1>7, <2>1 DEF ReportOK
    <3> QED
      BY <1>1, <3>1
  <2>2. CASE w >= i
    <3>1. e.start = i /\ e.length \in Nat /\ e.start + e.length = i' /\ w \in Nat
      BY <1>0 DEF EndOf, Words, E
    <3>2. w \in EntityWords(e)
      BY <1>0, <1>7, <2>2, <3>1 DEF EntityWords
    <3>3. Len(entities) + 1 \in DOMAIN entities'
      BY <1>1
    <3> QED
      BY <1>1, <3>2, <3>3
  <2> QED
    BY <1>0, <2>1, <2>2 DEF Words
<1>8. pc' # "idle" /\ sentence' = sentence /\ best' = best
  OBVIOUS
<1>9. \A k, l \in DOMAIN entities' : k < l => EndOf(entities'[k]) <= entities'[l].start
  BY <1>6
<1>10. \A w \in Words : w < i' /\ best'[w] # "O" =>
           \E k \in DOMAIN entities' : w \in EntityWords(entities'[k])
  BY <1>7, <1>8
<1>11. InSentence(i)' => best'[i'] \notin Inside
  BY <1>8
<1> QED
  BY <1>5, <1>8, <1>9, <1>10, <1>11 DEF ReportOK, EndOf, EntityWords

LEMMA UnitReported ==
    ASSUME IndInv, EntityOK, ReportOK, ExtractUnit
    PROVE  ReportOK'
<1>1. /\ pc = "extract" /\ pc' = "extract" /\ i < sentence.size /\ best[i] = "U"
      /\ i' = i + 1 /\ UNCHANGED <<sentence, entity, best>> /\ i \in Nat
      /\ MaxWords \in Nat /\ sentence.size \in 0 .. MaxWords
  BY SentenceType, BoundsAssumption
     DEF ExtractUnit, AtWordToExtract, IndInv, TypeOK, input, global
<1>2. sentence.size > 0 /\ i \in Words /\ InSentence(i) /\ 1 \in 1 .. MaxWords
  BY <1>1 DEF Words, InSentence
<1>3. PICK e : e = [start |-> i, length |-> 1, type |-> entity[i]["U"]]
  OBVIOUS
<1>4. entity[i]["U"] \in EntityOrUnknown
  BY <1>2 DEF IndInv, TypeOK, Bilou
<1>5. e \in [start : Words, length : 1 .. MaxWords, type : EntityOrUnknown]
  BY <1>2, <1>3, <1>4
<1>6. e.start = i /\ e.length = 1 /\ e.type = entity[i]["U"]
  BY <1>3
<1>7. EndOf(e) = i + 1 /\ EntityWords(e) = {i}
  BY <1>1, <1>6 DEF EndOf, EntityWords
<1>8. InSentence(i)' => best[i'] \notin Inside
  <2>1. InSentence(i)' => InSentence(i + 1)
    BY <1>1 DEF InSentence
  <2> QED
    BY <1>1, <1>2, <2>1, ExtractionFacts DEF WellFormed, StartsEntity
<1>9. \A w \in EntityWords(e) :
         /\ best[w] # "O"
         /\ entity[w][best[w]] = e.type
         /\ w = e.start <=> best[w] \notin Inside
         /\ w + 1 = EndOf(e) <=> best[w] \notin StartsEntity
  BY <1>1, <1>6, <1>7 DEF Inside, StartsEntity
<1>10. i' <= sentence.size /\ EndOf(e) = i'
  BY <1>1, <1>7
<1>11. entities' = Append(entities, e)
  BY <1>3 DEF ExtractUnit, Report
<1> QED
  BY <1>1, <1>2, <1>5, <1>6, <1>8, <1>9, <1>10, <1>11, SpanReported

LEMMA WholeSpanReported ==
    ASSUME IndInv, EntityOK, ReportOK, ExtractSpan
    PROVE  ReportOK'
<1>1. /\ pc = "extract" /\ pc' = "extract" /\ i < sentence.size /\ best[i] = "B"
      /\ i' = EndAfter(i) + 1 /\ UNCHANGED <<sentence, entity, best>> /\ i \in Nat
      /\ MaxWords \in Nat /\ sentence.size \in 0 .. MaxWords
  BY SentenceType, BoundsAssumption
     DEF ExtractSpan, AtWordToExtract, IndInv, TypeOK, input, global
<1>2. sentence.size > 0 /\ i \in Words /\ InSentence(i)
  BY <1>1 DEF Words, InSentence
<1>3. PICK end : end = EndAfter(i)
  OBVIOUS
<1>4. /\ end \in Words /\ i < end /\ InSentence(end) /\ best[end] = "L"
      /\ entity[end]["L"] = entity[i]["B"]
      /\ \A w \in Words : i < w /\ w < end => best[w] = "I" /\ entity[w]["I"] = entity[i]["B"]
  BY <1>1, <1>2, <1>3, SpanOfLabels
<1>5. end \in Nat /\ end < sentence.size /\ end - i + 1 \in 1 .. MaxWords
  BY <1>1, <1>4 DEF Words, InSentence
<1>6. entities' = Append(entities, [start |-> i, length |-> end - i + 1,
                                    type |-> entity[i]["B"]])
  BY <1>3, <1>5 DEF ExtractSpan, Report
<1>7. PICK e : e = [start |-> i, length |-> end - i + 1, type |-> entity[i]["B"]]
  OBVIOUS
<1>8. entity[i]["B"] \in EntityOrUnknown
  BY <1>2 DEF IndInv, TypeOK, Bilou
<1>9. e \in [start : Words, length : 1 .. MaxWords, type : EntityOrUnknown]
  BY <1>2, <1>5, <1>7, <1>8
<1>10. e.start = i /\ e.length = end - i + 1 /\ e.type = entity[i]["B"]
  BY <1>7
<1>11. EndOf(e) = end + 1 /\ EntityWords(e) = i .. end
  BY <1>1, <1>5, <1>10 DEF EndOf, EntityWords
<1>12. InSentence(i)' => best[i'] \notin Inside
  <2>1. InSentence(i)' => InSentence(end + 1)
    BY <1>1, <1>3 DEF InSentence
  <2> QED
    BY <1>1, <1>2, <1>3, <1>4, <2>1, ExtractionFacts DEF WellFormed, StartsEntity
<1>13. ASSUME NEW w \in EntityWords(e)
       PROVE  /\ best[w] # "O"
              /\ entity[w][best[w]] = e.type
              /\ w = e.start <=> best[w] \notin Inside
              /\ w + 1 = EndOf(e) <=> best[w] \notin StartsEntity
  <2>1. w \in i .. end
    BY <1>11
  <2>2. CASE w = i
    <3>1. w + 1 # EndOf(e)
      BY <1>1, <1>4, <1>5, <1>11, <2>2
    <3> QED
      BY <1>1, <1>10, <2>2, <3>1 DEF Inside, StartsEntity
  <2>3. CASE w = end
    <3>1. w # e.start
      BY <1>1, <1>4, <1>5, <1>10, <2>3
    <3> QED
      BY <1>4, <1>10, <1>11, <2>3, <3>1 DEF Inside, StartsEntity
  <2>4. CASE w # i /\ w # end
    <3>1. w \in Words /\ i < w /\ w < end
      BY <1>1, <1>5, <2>1, <2>4 DEF Words
    <3>2. best[w] = "I" /\ entity[w]["I"] = entity[i]["B"]
      BY <1>4, <3>1
    <3>3. w # e.start /\ w + 1 # EndOf(e)
      BY <1>5, <1>10, <1>11, <2>1, <2>4
    <3> QED
      BY <1>10, <3>2, <3>3 DEF Inside, StartsEntity
  <2> QED
    BY <2>2, <2>3, <2>4
<1>14. i' <= sentence.size /\ EndOf(e) = i'
  BY <1>1, <1>3, <1>5, <1>11
<1>15. entities' = Append(entities, e)
  BY <1>6, <1>7
<1> QED
  BY <1>1, <1>2, <1>9, <1>10, <1>12, <1>13, <1>14, <1>15, SpanReported

(* A word that no span begins at, between spans, is outside of them.       *)
LEMMA SkipReported ==
    ASSUME IndInv, ReportOK, SkipWord
    PROVE  ReportOK'
<1>1. /\ pc = "extract" /\ pc' = "extract" /\ i < sentence.size /\ best[i] \in {"I", "L", "O"}
      /\ i' = i + 1 /\ UNCHANGED <<sentence, entity, best, entities>> /\ i \in Nat
      /\ MaxWords \in Nat /\ sentence.size \in 0 .. MaxWords
  BY SentenceType, BoundsAssumption
     DEF SkipWord, AtWordToExtract, IndInv, TypeOK, input, global
<1>2. sentence.size > 0 /\ i \in Words /\ InSentence(i)
  BY <1>1 DEF Words, InSentence
<1>3. best[i] = "O"
  BY <1>1, <1>2 DEF ReportOK, Inside
<1>4. InSentence(i)' => best'[i'] \notin Inside
  <2>1. InSentence(i)' => InSentence(i + 1)
    BY <1>1 DEF InSentence
  <2> QED
    BY <1>1, <1>2, <1>3, <2>1, ExtractionFacts DEF WellFormed, StartsEntity
<1>5. /\ \A k, l \in DOMAIN entities : k < l => EndOf(entities[k]) <= entities[l].start
      /\ \A k \in DOMAIN entities : Reported(entities[k])
      /\ \A w \in Words : w < i /\ best[w] # "O" =>
            \E k \in DOMAIN entities : w \in EntityWords(entities[k])
  BY <1>1, <1>2 DEF ReportOK
<1>6. ASSUME NEW k \in DOMAIN entities PROVE Reported(entities[k])'
  <2>1. PICK x : x = entities[k] /\ x = entities'[k]
    BY <1>1
  <2>3. Reported(x) /\ EndOf(x) \in Nat
    BY <1>5, <2>1, ReportedType
  <2>4. EndOf(x) <= i'
    BY <1>1, <2>3 DEF Reported
  <2>5. Reported(x)'
    BY <1>1, <2>3, <2>4 DEF Reported
  <2> QED
    BY <2>1, <2>5
<1>7. \A w \in Words : w < i' /\ best'[w] # "O" =>
          \E k \in DOMAIN entities : w \in EntityWords(entities[k])
  <2> SUFFICES ASSUME NEW w \in Words, w < i + 1, best[w] # "O"
               PROVE  \E k \in DOMAIN entities : w \in EntityWords(entities[k])
    BY <1>1
  <2>1. w < i
    BY <1>1, <1>3 DEF Words
  <2> QED
    BY <1>5, <2>1
<1>8. i' <= sentence.size
  BY <1>1
<1>9. \A k \in DOMAIN entities' : Reported(entities[k])'
  BY <1>1, <1>6
<1> QED
  BY <1>1, <1>4, <1>5, <1>7, <1>8, <1>9 DEF ReportOK, EndOf, EntityWords

LEMMA NextReport ==
    ASSUME IndInv, EntityOK, NothingReported, ReportOK, [Next]_vars
    PROVE  ReportOK'
<1>1. ASSUME NEW s \in Sentences, Recognize(s) PROVE ReportOK'
  <2>1. s.size \in Nat
    BY SentenceType
  <2> QED
    BY <1>1, <2>1 DEF Recognize, ReportOK
<1>2. CASE \/ StartStage \/ GazetteersAtWord \/ UrlEmailAtWord \/ NextProcessor
           \/ ClassifyWord \/ KeepForcedWord \/ LastLabel \/ FollowPrevious
  <2>1. pc' \notin {"extract", "idle"}
    BY <1>2 DEF StartStage, GazetteersAtWord, UrlEmailAtWord, AtProcessor, NextProcessor,
       ClassifyWord, KeepForcedWord, AtWordToClassify, LastLabel, FollowPrevious
  <2> QED
    BY <2>1 DEF ReportOK
<1>3. CASE FillPreviousStage
  <2>1. /\ pc = "back" /\ pc' # "idle" /\ i = 0 /\ i' = 0 /\ entities' = entities
        /\ sentence' = sentence /\ best' = best
        /\ MaxWords \in Nat /\ sentence.size \in 0 .. MaxWords
    BY <1>3, SentenceType, BoundsAssumption DEF FillPreviousStage, input, IndInv, TypeOK
  <2>2. entities' = <<>>
    BY <2>1 DEF NothingReported
  <2>3. sentence.size > 0 => best[0] \notin Inside
    BY <2>1, InvariantWellFormed DEF WellFormedDecoding, Decoded, WellFormed
  <2>4. DOMAIN entities' = {}
    BY <2>2
  <2>5. \A w \in Words : ~(w < i')
    BY <2>1 DEF Words
  <2> QED
    BY <2>1, <2>3, <2>4, <2>5 DEF ReportOK
<1>4. CASE ExtractUnit
  BY <1>4, UnitReported
<1>5. CASE ExtractSpan
  BY <1>5, WholeSpanReported
<1>6. CASE SkipWord
  BY <1>6, SkipReported
<1>7. CASE Return
  <2>1. /\ pc = "extract" /\ i >= sentence.size /\ i \in Nat /\ sentence.size \in Nat
        /\ UNCHANGED <<i, sentence, entity, best, entities>>
    BY <1>7, SentenceType DEF Return, input, global, IndInv, TypeOK
  <2> QED
    BY <2>1 DEF ReportOK, Reported, EndOf, EntityWords, InSentence
<1>8. CASE UNCHANGED vars
  <2>1. UNCHANGED <<pc, i, sentence, entity, best, entities>>
    BY <1>8 DEF vars, input, global
  <2> QED
    BY <2>1 DEF ReportOK, Reported, EndOf, EntityWords, InSentence
<1> QED
  BY <1>1, <1>2, <1>3, <1>4, <1>5, <1>6, <1>7, <1>8 DEF Next, Step

LEMMA ReportInductive == Spec => [](IndInv /\ ReportInv)
<1>1. Init => IndInv /\ ReportInv
  BY InitInv, InitStage, InitMatches, InitEntity DEF ReportInv
<1>2. IndInv /\ ReportInv /\ [Next]_vars => (IndInv /\ ReportInv)'
  <2> SUFFICES ASSUME IndInv, ReportInv, [Next]_vars PROVE (IndInv /\ ReportInv)'
    OBVIOUS
  <2>1. IndInv'
    BY NextInv
  <2>2. StageOK' /\ MatchesOK'
    BY NextStage, NextMatches DEF ReportInv
  <2>3. EntityOK' /\ LastStageOK' /\ NothingReported'
    BY NextEntity, NextLastStage, NextNothing DEF ReportInv
  <2>4. ReportOK'
    BY NextReport DEF ReportInv
  <2> QED
    BY <2>1, <2>2, <2>3, <2>4 DEF ReportInv
<1> QED
  BY <1>1, <1>2, PTL DEF Spec

(* When every word has been decided, the forced ones are those of F.       *)
LEMMA ForcedAreMatches ==
    ASSUME IndInv, sentence.size > 0, pc \in {"back", "idle"},
           NEW F \in SUBSET Matches, ForcedBy(F)
    PROVE  /\ Chosen(F)
           /\ \A w \in Words : InSentence(w) =>
                 ((\E t \in Bilou : Forced(w, t)) <=> (\E f \in F : w \in SpanWords(f[2])))
<1>1. Chosen(F)
  BY DEF ForcedBy, Considered, Chosen
<1>2. ASSUME NEW w \in Words, InSentence(w), NEW t \in Bilou, Forced(w, t)
      PROVE  \E f \in F : w \in SpanWords(f[2])
  <2>1. filled[w]
    BY <1>2 DEF IndInv, ChainOK, Processed, LabelsPossible
  <2>2. ~Open(w)
    BY <1>2, OnlyOne DEF Open, Forced
  <2> QED
    BY <1>2, <2>1, <2>2 DEF ForcedBy
<1>3. ASSUME NEW f \in F, NEW w \in SpanWords(f[2])
      PROVE  \E t \in Bilou : Forced(w, t)
  <2>1. f[2] \in Span /\ localProb[w] = Only(SpanLabel(f[2], w))
    BY <1>3, MatchType DEF ForcedBy, ForcedWord, IndInv
  <2>2. SpanLabel(f[2], w) \in Bilou
    BY <1>3, <2>1, SpanLabels
  <2> QED
    BY <2>1, <2>2 DEF Forced
<1> QED
  BY <1>1, <1>2, <1>3

(* The entity reported at the first word of a match is the match.          *)
LEMMA MatchReported ==
    ASSUME IndInv, ReportInv, Returned, NEW F \in SUBSET Matches, ForcedBy(F), NEW f \in F
    PROVE  [start |-> f[2].start, length |-> f[2].length, type |-> f[2].entity]
              \in Range(entities)
<1>1. PICK m : m = f[2]
  OBVIOUS
<1>2. /\ m \in Span /\ m.start \in SpanWords(m) /\ SpanWords(m) \subseteq Words
      /\ \A v \in SpanWords(m) : InSentence(v)
      /\ \A v \in SpanWords(m) : ForcedWord(m, v)
  BY <1>1, MatchType DEF ForcedBy, IndInv
<1>3. \A v \in SpanWords(m) : SpanLabel(m, v) \in Bilou /\ best[v] = SpanLabel(m, v)
  <2> SUFFICES ASSUME NEW v \in SpanWords(m)
               PROVE  SpanLabel(m, v) \in Bilou /\ best[v] = SpanLabel(m, v)
    OBVIOUS
  <2>1. SpanLabel(m, v) \in Bilou
    BY <1>2, SpanLabels
  <2>2. v \in Words /\ InSentence(v) /\ Forced(v, SpanLabel(m, v))
    BY <1>2 DEF ForcedWord, Forced
  <2> QED
    BY <2>1, <2>2, InvariantForced DEF ForcedLabelsKept, Decoded, Returned
<1> DEFINE last == m.start + m.length - 1
<1>4. /\ m.start \in Nat /\ m.length \in Nat \ {0} /\ last \in Nat /\ m.start <= last
      /\ SpanWords(m) = m.start .. last /\ last \in SpanWords(m)
  BY <1>2, BoundsAssumption DEF Span, Words, SpanWords
<1>5. /\ best[m.start] \notin Inside /\ best[m.start] # "O"
      /\ best[last] \notin StartsEntity
      /\ \A v \in SpanWords(m) : v # last => best[v] \in StartsEntity
  <2>1. \A v \in SpanWords(m) :
           /\ best[v] # "O"
           /\ best[v] \notin Inside <=> v = m.start
           /\ best[v] \notin StartsEntity <=> v = last
    BY <1>2, <1>3, SpanLabels
  <2> HIDE DEF last
  <2> QED
    BY <1>2, <1>4, <2>1
<1>6. /\ \A k \in DOMAIN entities : Reported(entities[k])
      /\ i = sentence.size
      /\ \A w \in Words : w < i /\ best[w] # "O" =>
            \E k \in DOMAIN entities : w \in EntityWords(entities[k])
  BY DEF ReportInv, ReportOK, Returned
<1>7. PICK k \in DOMAIN entities : m.start \in EntityWords(entities[k])
  BY <1>2, <1>5, <1>6 DEF InSentence
<1>8. PICK e : e = entities[k]
  OBVIOUS
<1>9. /\ e.start \in Nat /\ e.length \in Nat \ {0} /\ EndOf(e) = e.start + e.length
      /\ e = [start |-> e.start, length |-> e.length, type |-> e.type]
  BY <1>7, <1>8, ReportedType DEF EndOf
<1>10. /\ m.start \in EntityWords(e) /\ EntityWords(e) = e.start .. EndOf(e) - 1
       /\ \A w \in EntityWords(e) :
             /\ best[w] # "O"
             /\ entity[w][best[w]] = e.type
             /\ w = e.start <=> best[w] \notin Inside
             /\ w + 1 = EndOf(e) <=> best[w] \notin StartsEntity
  BY <1>6, <1>7, <1>8, <1>9 DEF Reported, EntityWords
<1>11. m.start = e.start
  BY <1>5, <1>10
<1>12. e.type = m.entity
  <2>1. entity[m.start][best[m.start]] = localEntity[m.start][best[m.start]]
    <3>1. Processed(m.start) /\ best[m.start] \in Bilou \ Inside /\ m.start \in Words
      BY <1>2, <1>3, <1>5 DEF Processed, Returned
    <3> QED
      BY <3>1 DEF ReportInv, EntityOK, EntityKept
  <2>2. localEntity[m.start] = [NoEntity EXCEPT ![best[m.start]] = m.entity]
    BY <1>2, <1>3 DEF ForcedWord
  <2>3. localEntity[m.start][best[m.start]] = m.entity
    BY <1>2, <1>3, <2>2 DEF NoEntity
  <2> QED
    BY <1>10, <2>1, <2>3
<1> HIDE DEF last
<1>13. EndOf(e) \in Nat
  BY <1>9
<1>14. ~(EndOf(e) <= last)
  <2> SUFFICES ASSUME EndOf(e) <= last PROVE FALSE
    OBVIOUS
  <2>1. PICK w : w = EndOf(e) - 1
    OBVIOUS
  <2>2. w \in EntityWords(e) /\ w \in SpanWords(m) /\ w # last /\ w + 1 = EndOf(e)
    BY <1>4, <1>9, <1>10, <1>11, <1>13, <2>1
  <2> QED
    BY <1>5, <1>10, <2>2
<1>15. ~(EndOf(e) > last + 1)
  <2> SUFFICES ASSUME EndOf(e) > last + 1 PROVE FALSE
    OBVIOUS
  <2>1. last \in EntityWords(e) /\ last + 1 # EndOf(e)
    BY <1>4, <1>9, <1>10, <1>11, <1>13
  <2> QED
    BY <1>5, <1>10, <2>1
<1>16. EndOf(e) = last + 1
  BY <1>4, <1>13, <1>14, <1>15
<1>17. e.length = m.length
  BY <1>4, <1>9, <1>11, <1>16 DEF last
<1>18. e = [start |-> m.start, length |-> m.length, type |-> m.entity]
  BY <1>9, <1>11, <1>12, <1>17
<1> QED
  BY <1>1, <1>7, <1>8, <1>18 DEF Range

-----------------------------------------------------------------------------
(***************************************************************************)
(*                 The best labelling: invariant and steps                 *)
(***************************************************************************)
(* The table of a word is computed from its local probabilities and the    *)
(* table of the word before.                                               *)
Table(w) ==
    prob[w] = IF w = 0 THEN InitProb(localProb[w])
                       ELSE UpdateProb(localProb[w], prob[w - 1])

TablesOK == \A w \in Words : Processed(w) => Table(w)

(* The walk back started at the best label that may end the sentence.      *)
LastOK ==
    \A w \in Words : WalkedBack(w) /\ w = sentence.size - 1 =>
        \A t \in {"L", "O", "U"} : prob[w][t] <= prob[w][best[w]]

BestInv == TablesOK /\ LastOK

LEMMA TablesKeep ==
    ASSUME TablesOK, UNCHANGED <<sentence, localProb, prob>>,
           \A w \in Words : Processed(w)' => Processed(w)
    PROVE  TablesOK'
  BY DEF TablesOK, Table

LEMMA LastKeep ==
    ASSUME LastOK, UNCHANGED <<sentence, prob, best>>,
           \A w \in Words : WalkedBack(w)' => WalkedBack(w)
    PROVE  LastOK'
  BY DEF LastOK

LEMMA ForwardTables ==
    ASSUME IndInv, TablesOK, pc = "classify", pc' = "classify", sentence' = sentence,
           i \in Words, i' = i + 1,
           NEW lp, NEW le, Forward(lp, le), localProb'[i] = lp,
           \A w \in Words \ {i} : localProb'[w] = localProb[w]
    PROVE  TablesOK'
<1>0. MaxWords \in Nat /\ i \in Nat
  BY BoundsAssumption DEF IndInv, TypeOK
<1> SUFFICES ASSUME NEW w \in Words, Processed(w)'
             PROVE  Table(w)'
  BY DEF TablesOK
<1>1. InSentence(w) /\ w <= i
  BY <1>0 DEF Processed, InSentence, Words
<1>2. ASSUME NEW v \in Words \ {i} PROVE prob'[v] = prob[v]
  <2>1. prob \in [Words -> [Bilou -> Nat]]
    BY DEF IndInv, TypeOK
  <2>2. \E x : prob' = [prob EXCEPT ![i] = x]
    BY DEF Forward
  <2> QED BY <2>1, <2>2
<1>3. w > 0 => w - 1 \in Words \ {i}
  BY <1>0, <1>1 DEF Words
<1>4. CASE w # i
  <2>1. Processed(w)
    BY <1>0, <1>1, <1>4 DEF Processed, Words
  <2>2. Table(w)
    BY <2>1 DEF TablesOK
  <2>3. w = 0 \/ w > 0
    BY DEF Words
  <2> QED
    BY <1>2, <1>3, <1>4, <2>2, <2>3 DEF Table
<1>5. CASE w = i /\ i = 0
  <2>1. prob'[w] = InitProb(lp)
    BY <1>5 DEF Forward, IndInv, TypeOK
  <2> QED
    BY <1>5, <2>1 DEF Table
<1>6. CASE w = i /\ i # 0
  <2>1. prob'[w] = UpdateProb(lp, prob[w - 1])
    BY <1>6 DEF Forward, IndInv, TypeOK
  <2>2. prob'[w - 1] = prob[w - 1]
    BY <1>0, <1>2, <1>3, <1>6
  <2> QED
    BY <1>6, <2>1, <2>2 DEF Table
<1> QED
  BY <1>4, <1>5, <1>6

LEMMA InitBest == Init => BestInv
<1> SUFFICES ASSUME Init PROVE BestInv
  OBVIOUS
<1>1. sentence.size = 0
  BY DEF Init, NoSentence
<1>2. \A w \in Words : ~InSentence(w)
  BY <1>1 DEF InSentence, Words
<1> QED
  BY <1>2 DEF BestInv, TablesOK, LastOK, Processed, WalkedBack

LEMMA NextBest ==
    ASSUME IndInv, BestInv, [Next]_vars
    PROVE  BestInv'
<1> USE DEF BestInv
<1>0. i \in Nat /\ MaxWords \in Nat /\ sentence.size \in 0 .. MaxWords
  BY SentenceType, BoundsAssumption DEF IndInv, TypeOK
<1>1. ASSUME NEW s \in Sentences, Recognize(s) PROVE BestInv'
  <2>1. \A w \in Words : ~Processed(w)' /\ ~WalkedBack(w)'
    BY <1>1 DEF Recognize, Processed, WalkedBack, InSentence, Words
  <2> QED
    BY <2>1 DEF TablesOK, LastOK
<1>2. CASE StartStage \/ GazetteersAtWord \/ UrlEmailAtWord
  <2>1. pc' = "detect"
    BY <1>2 DEF StartStage, GazetteersAtWord, UrlEmailAtWord, AtProcessor
  <2> QED
    BY <2>1 DEF TablesOK, LastOK, Processed, WalkedBack
<1>3. CASE NextProcessor
  <2>1. pc' \in {"detect", "classify"} /\ i' = 0
    BY <1>3 DEF NextProcessor
  <2>2. \A w \in Words : ~Processed(w)' /\ ~WalkedBack(w)'
    BY <2>1 DEF Processed, WalkedBack, Words
  <2> QED
    BY <2>2 DEF TablesOK, LastOK
<1>4. CASE ClassifyWord \/ KeepForcedWord
  <2>1. /\ pc = "classify" /\ pc' = "classify" /\ sentence' = sentence
        /\ i \in Words /\ i' = i + 1
    BY <1>0, <1>4 DEF ClassifyWord, KeepForcedWord, AtWordToClassify, input, Words
  <2>2. CASE ClassifyWord
    <3>1. PICK oc \in Outcomes : \E pick \in BestOutcomes(oc) :
            /\ localProb' = [localProb EXCEPT ![i] = FilledProb(oc, pick)]
            /\ Forward(FilledProb(oc, pick), FilledEntity(pick))
      BY <2>2 DEF ClassifyWord, NetworkDecides
    <3>2. PICK pick \in BestOutcomes(oc) :
            /\ localProb' = [localProb EXCEPT ![i] = FilledProb(oc, pick)]
            /\ Forward(FilledProb(oc, pick), FilledEntity(pick))
      BY <3>1
    <3>3. /\ localProb'[i] = FilledProb(oc, pick)
          /\ \A w \in Words \ {i} : localProb'[w] = localProb[w]
      BY <2>1, <3>2 DEF IndInv, TypeOK
    <3>4. TablesOK'
      BY <2>1, <3>2, <3>3, ForwardTables
    <3> QED
      BY <2>1, <3>4 DEF LastOK, WalkedBack
  <2>3. CASE KeepForcedWord
    <3>1. Forward(localProb[i], localEntity[i]) /\ localProb' = localProb
      BY <2>3 DEF KeepForcedWord, local
    <3>2. TablesOK'
      BY <2>1, <3>1, ForwardTables
    <3> QED
      BY <2>1, <3>2 DEF LastOK, WalkedBack
  <2> QED
    BY <1>4, <2>2, <2>3
<1>5. CASE LastLabel \/ FollowPrevious
  <2>1. /\ UNCHANGED <<sentence, localProb, prob>> /\ pc' = "back"
        /\ pc \in {"classify", "back"} /\ (pc = "classify" => i = sentence.size)
    BY <1>5 DEF LastLabel, FollowPrevious, input, local, global
  <2>2. \A w \in Words : Processed(w)' => Processed(w)
    BY <2>1 DEF Processed, InSentence
  <2>3. TablesOK'
    BY <2>1, <2>2, TablesKeep
  <2>4. LastOK'
    <3> SUFFICES ASSUME NEW w \in Words, WalkedBack(w)', w = sentence.size - 1
                 PROVE  \A t \in {"L", "O", "U"} : prob[w][t] <= prob[w][best'[w]]
      BY <2>1 DEF LastOK
    <3>1. w \in Nat /\ prob[w] \in [Bilou -> Nat]
      BY DEF Words, IndInv, TypeOK
    <3>2. CASE LastLabel
      <4>1. best'[w] = BestLOU(prob[w])
        BY <3>2 DEF LastLabel, IndInv, TypeOK
      <4> QED
        BY <4>1, <3>1, BestLOUBest
    <3>3. CASE FollowPrevious
      <4>1. pc = "back" /\ i <= w /\ best'[w] = best[w]
        BY <3>1, <3>3, <1>0 DEF FollowPrevious, IndInv, TypeOK, LoopOK
      <4>2. WalkedBack(w)
        BY <4>1, <1>0 DEF WalkedBack, InSentence
      <4> QED
        BY <4>1, <4>2 DEF LastOK
    <3> QED
      BY <1>5, <3>2, <3>3
  <2> QED
    BY <2>3, <2>4
<1>6. CASE FillPreviousStage \/ ExtractUnit \/ ExtractSpan \/ SkipWord \/ Return
  <2>1. /\ UNCHANGED <<sentence, localProb, prob, best>>
        /\ pc = "extract" \/ (pc = "back" /\ i = 0)
    BY <1>6 DEF FillPreviousStage, ExtractUnit, ExtractSpan, SkipWord, Return,
       AtWordToExtract, input, local, global
  <2>2. \A w \in Words : (Processed(w)' => Processed(w)) /\ (WalkedBack(w)' => WalkedBack(w))
    BY <2>1 DEF Processed, WalkedBack, InSentence, Words
  <2> QED
    BY <2>1, <2>2, TablesKeep, LastKeep
<1>7. CASE UNCHANGED vars
  <2>1. UNCHANGED <<sentence, localProb, prob, best>> /\ UNCHANGED <<pc, i>>
    BY <1>7 DEF vars, input, local, global
  <2>2. \A w \in Words : (Processed(w)' => Processed(w)) /\ (WalkedBack(w)' => WalkedBack(w))
    BY <2>1 DEF Processed, WalkedBack, InSentence
  <2> QED
    BY <2>1, <2>2, TablesKeep, LastKeep
<1> QED
  BY <1>1, <1>2, <1>3, <1>4, <1>5, <1>6, <1>7 DEF Next, Step

LEMMA BestInductive == Spec => [](IndInv /\ BestInv)
<1>1. Init => IndInv /\ BestInv
  BY InitInv, InitBest
<1>2. IndInv /\ BestInv /\ [Next]_vars => IndInv' /\ BestInv'
  BY NextInv, NextBest
<1> QED BY <1>1, <1>2, PTL DEF Spec

-----------------------------------------------------------------------------
(***************************************************************************)
(*                    The best labelling: the products                     *)
(***************************************************************************)
LEMMA ProductMonotone ==
    ASSUME NEW x \in Nat, NEW y \in Nat, NEW z \in Nat, x <= y
    PROVE  x * z <= y * z
  BY Z3

(* The product of the first n local probabilities of a labelling.          *)
Products(f, lab) ==
    /\ f \in [0 .. sentence.size -> Nat]
    /\ f[0] = 1
    /\ \A n \in 1 .. sentence.size : f[n] = f[n - 1] * localProb[n - 1][lab[n - 1]]

LEMMA ProductsExist ==
    ASSUME sentence.size \in Nat, NEW lab,
           \A n \in 1 .. sentence.size : localProb[n - 1][lab[n - 1]] \in Nat
    PROVE  \E f : Products(f, lab) /\ PathProb(lab) = f[sentence.size]
<1> DEFINE N == sentence.size
           step == [x \in (1 .. N) \X Nat |-> x[2] * localProb[x[1] - 1][lab[x[1] - 1]]]
           product[n \in 0 .. N] ==
               IF n = 0 THEN 1 ELSE product[n - 1] * localProb[n - 1][lab[n - 1]]
<1>1. N \in Nat /\ 1 \in Nat
  OBVIOUS
<1>2. step \in [(1 .. N) \X Nat -> Nat]
  <2>1. \A n \in 1 .. N, r \in Nat : r * localProb[n - 1][lab[n - 1]] \in Nat
    <3> TAKE n \in 1 .. N, r \in Nat
    <3>1. PICK y \in Nat : y = localProb[n - 1][lab[n - 1]]
      OBVIOUS
    <3>2. r * y \in Nat
      BY ProductPositive
    <3> QED BY <3>1, <3>2
  <2> HIDE DEF N
  <2> QED BY <2>1
<1>3. PICK f : Iterates(f, N, Nat, 1, step)
  <2> HIDE DEF step, N
  <2> QED BY <1>1, <1>2, Recursion
<1>4. f \in [0 .. N -> Nat] /\ f[0] = 1
  BY <1>3 DEF Iterates
<1>5. ASSUME NEW n \in 1 .. N PROVE f[n] = f[n - 1] * localProb[n - 1][lab[n - 1]]
  <2>1. <<n, f[n - 1]>> \in (1 .. N) \X Nat
    <3>1. n - 1 \in 0 .. N
      BY <1>1
    <3> QED BY <3>1, <1>4
  <2>2. f[n] = step[<<n, f[n - 1]>>]
    BY <1>3 DEF Iterates
  <2> HIDE DEF N
  <2> QED BY <2>1, <2>2
<1>6. f = [n \in 0 .. N |-> IF n = 0 THEN 1 ELSE f[n - 1] * localProb[n - 1][lab[n - 1]]]
  <2> DEFINE g == [n \in 0 .. N |-> IF n = 0 THEN 1 ELSE f[n - 1] * localProb[n - 1][lab[n - 1]]]
  <2>1. ASSUME NEW n \in 0 .. N PROVE f[n] = g[n]
    <3>1. CASE n = 0
      BY <1>1, <1>4, <3>1
    <3>2. CASE n \in 1 .. N
      BY <1>5, <3>2
    <3> QED BY <1>1, <3>1, <3>2
  <2>2. f = [n \in 0 .. N |-> f[n]] /\ g = [n \in 0 .. N |-> g[n]]
    BY <1>4
  <2> HIDE DEF g
  <2>3. f = g
    BY <2>1, <2>2
  <2> QED BY <2>3 DEF g
<1>7. product = [n \in 0 .. N |->
                    IF n = 0 THEN 1 ELSE product[n - 1] * localProb[n - 1][lab[n - 1]]]
  BY <1>6
<1>8. product \in [0 .. N -> Nat] /\ PathProb(lab) = product[N]
  <2> SUFFICES product \in [0 .. N -> Nat]
    BY DEF PathProb
  <2> DEFINE Q == {n \in 0 .. N : product[n] \in Nat}
  <2> HIDE DEF product
  <2>1. 0 \in Q
    BY <1>1, <1>7
  <2>2. ASSUME NEW n \in 0 .. N - 1, n \in Q PROVE n + 1 \in Q
    <3>1. n + 1 \in 1 .. N /\ n + 1 \in 0 .. N /\ (n + 1) - 1 = n
      BY <1>1
    <3>2. product[n + 1] = product[n] * localProb[n][lab[n]]
      BY <1>7, <3>1
    <3>3. product[n] \in Nat /\ localProb[n][lab[n]] \in Nat
      BY <2>2, <3>1
    <3>4. product[n] * localProb[n][lab[n]] \in Nat
      BY <3>3, ProductPositive
    <3> QED BY <3>1, <3>2, <3>4
  <2>3. 0 .. N \subseteq Q
    <3> HIDE DEF Q
    <3> QED BY <1>1, <2>1, <2>2, UpTo
  <2> QED BY <1>7, <2>3
<1>9. product[0] = 1
  <2>1. 0 \in 0 .. N
    BY <1>1
  <2> HIDE DEF product
  <2> QED BY <1>7, <2>1
<1>10. ASSUME NEW n \in 1 .. N
       PROVE  product[n] = product[n - 1] * localProb[n - 1][lab[n - 1]]
  <2>1. n \in 0 .. N /\ n # 0
    BY <1>1
  <2> HIDE DEF product
  <2> QED BY <1>7, <2>1
<1> HIDE DEF product
<1> QED BY <1>8, <1>9, <1>10 DEF Products

(* A table entry bounds the product of every well-formed labelling of the  *)
(* words up to it that gives the word this label ...                       *)
LEMMA TableBounds ==
    ASSUME IndInv, BestInv, Decoded,
           NEW lab \in [0 .. sentence.size - 1 -> Bilou], WellFormed(lab),
           NEW f, Products(f, lab)
    PROVE  f[sentence.size] <= prob[sentence.size - 1][lab[sentence.size - 1]]
<1> USE DEF IndInv, BestInv
<1>1. /\ MaxWords \in Nat /\ sentence.size \in 1 .. MaxWords
      /\ prob \in [Words -> [Bilou -> Nat]] /\ localProb \in [Words -> [Bilou -> Nat]]
  BY SentenceType, BoundsAssumption DEF TypeOK, Decoded
<1>2. PICK last : last = sentence.size - 1
  OBVIOUS
<1>3. last \in Nat /\ last + 1 = sentence.size /\ sentence.size <= MaxWords
  BY <1>1, <1>2
<1>4. ASSUME NEW w \in 0 .. last
      PROVE  w \in Words /\ Table(w) /\ lab[w] \in Bilou
  <2>1. w \in Words /\ InSentence(w) /\ w \in 0 .. sentence.size - 1
    BY <1>1, <1>3 DEF Words, InSentence
  <2>2. Processed(w)
    BY <2>1 DEF Decoded, Processed
  <2> QED BY <2>1, <2>2 DEF TablesOK
<1>5. /\ f \in [0 .. last + 1 -> Nat] /\ f[0] = 1
      /\ \A n \in 1 .. last + 1 : f[n] = f[n - 1] * localProb[n - 1][lab[n - 1]]
  BY <1>3 DEF Products
<1> DEFINE Q == {n \in 0 .. last : f[n + 1] <= prob[n][lab[n]]}
<1>6. 0 \in Q
  <2>1. 0 \in 0 .. last /\ 1 \in 1 .. last + 1 /\ 1 - 1 = 0
    BY <1>3
  <2>2. /\ lab[0] \in Bilou \ Inside /\ prob[0] = InitProb(localProb[0])
        /\ localProb[0] \in [Bilou -> Nat]
    BY <1>1, <1>4, <2>1 DEF WellFormed, Table
  <2>3. prob[0][lab[0]] = localProb[0][lab[0]] /\ localProb[0][lab[0]] \in Nat
    BY <2>2 DEF InitProb, Inside
  <2>4. f[1] = 1 * localProb[0][lab[0]]
    BY <1>5, <2>1
  <2> QED BY <2>1, <2>3, <2>4
<1>7. ASSUME NEW n \in 0 .. last - 1, n \in Q PROVE n + 1 \in Q
  <2>1. PICK m : m = n + 1
    OBVIOUS
  <2>2. /\ m \in 0 .. last /\ m - 1 = n /\ n \in 0 .. last /\ m # 0 /\ m < sentence.size
        /\ m + 1 \in 1 .. last + 1 /\ (m + 1) - 1 = m /\ n + 1 = m /\ m \in 0 .. last + 1
    BY <1>3, <2>1
  <2>3. /\ lab[n] \in Bilou /\ lab[m] \in Bilou /\ n \in Words /\ m \in Words
        /\ prob[m] = UpdateProb(localProb[m], prob[n])
    BY <1>4, <2>2 DEF Table
  <2>4. f[m + 1] = f[m] * localProb[m][lab[m]] /\ f[m] \in Nat
    BY <1>5, <2>2
  <2>5. f[m] <= prob[n][lab[n]]
    BY <1>7, <2>2
  <2>6. lab[n] \in StartsEntity <=> lab[m] \in Inside
    BY <2>2, <2>3 DEF WellFormed, InSentence
  <2>7. PICK g \in [Bilou -> Nat] : g = prob[n]
    BY <1>1, <2>3
  <2>8. PICK t \in Bilou : t = lab[m]
    BY <2>3
  <2>9. PICK p \in Bilou : p = UpdatePrevious(g)[t]
    <3>1. BestLOU(g) \in Bilou /\ BestBI(g) \in Bilou
      BY BestLOUBest, BestBIBest DEF Bilou
    <3> QED BY <3>1 DEF UpdatePrevious
  <2>10. g[lab[n]] <= g[p]
    <3>1. CASE t \in Inside
      <4>1. lab[n] \in {"B", "I"} /\ p = BestBI(g)
        BY <2>6, <2>8, <2>9, <3>1 DEF StartsEntity, UpdatePrevious
      <4> QED BY <4>1, BestBIBest
    <3>2. CASE t \notin Inside
      <4>1. lab[n] \in {"L", "O", "U"} /\ p = BestLOU(g)
        BY <2>3, <2>6, <2>8, <2>9, <3>2 DEF StartsEntity, UpdatePrevious, Bilou
      <4> QED BY <4>1, BestLOUBest
    <3> QED BY <3>1, <3>2
  <2>11. PICK z \in Nat : z = localProb[m][t]
    BY <1>1, <2>3
  <2>12. prob[m][t] = g[p] * z
    BY <2>3, <2>7, <2>9, <2>11 DEF UpdateProb
  <2>13. f[m] <= g[p]
    <3>1. f[m] \in Nat /\ g[lab[n]] \in Nat /\ g[p] \in Nat
      BY <2>3, <2>4
    <3> QED BY <3>1, <2>5, <2>7, <2>10
  <2>14. f[m] * z <= g[p] * z
    BY <2>4, <2>13, ProductMonotone
  <2>15. f[m + 1] <= prob[m][lab[m]]
    BY <2>4, <2>8, <2>11, <2>12, <2>14
  <2> QED BY <2>2, <2>15
<1>8. 0 .. last \subseteq Q
  <2> HIDE DEF Q
  <2> QED BY <1>3, <1>6, <1>7, UpTo
<1>9. last \in Q
  BY <1>3, <1>8
<1> QED BY <1>2, <1>3, <1>9

(* ... and the labelling the back pointers give attains it.                *)
LEMMA TableAttained ==
    ASSUME IndInv, BestInv, Decoded, NEW f, Products(f, best)
    PROVE  f[sentence.size] = prob[sentence.size - 1][best[sentence.size - 1]]
<1> USE DEF IndInv, BestInv
<1>0. MaxWords \in Nat /\ sentence.size \in 1 .. MaxWords
  BY SentenceType, BoundsAssumption DEF IndInv, TypeOK, Decoded
<1>1. /\ prob \in [Words -> [Bilou -> Nat]] /\ localProb \in [Words -> [Bilou -> Nat]]
      /\ best \in [Words -> Bilou]
  BY DEF TypeOK
<1>2. PICK last : last = sentence.size - 1
  OBVIOUS
<1>3. last \in Nat /\ last + 1 = sentence.size /\ sentence.size <= MaxWords
  BY <1>0, <1>2
<1>4. ASSUME NEW w \in 0 .. last
      PROVE  /\ w \in Words /\ InSentence(w) /\ WalkedBack(w) /\ Processed(w)
             /\ Table(w) /\ best[w] \in Bilou
  <2>1. w \in Words /\ InSentence(w)
    BY <1>0, <1>3 DEF Words, InSentence
  <2>2. Processed(w) /\ WalkedBack(w)
    BY <2>1 DEF Decoded, Processed, WalkedBack, Words
  <2> QED BY <1>1, <2>1, <2>2 DEF TablesOK
<1>5. /\ f \in [0 .. last + 1 -> Nat] /\ f[0] = 1
      /\ \A n \in 1 .. last + 1 : f[n] = f[n - 1] * localProb[n - 1][best[n - 1]]
  BY <1>3 DEF Products
<1>6. best[0] \notin Inside
  BY InvariantWellFormed DEF WellFormedDecoding, WellFormed
<1> DEFINE Q == {n \in 0 .. last : f[n + 1] = prob[n][best[n]]}
<1>7. 0 \in Q
  <2>1. 0 \in 0 .. last /\ 1 \in 1 .. last + 1 /\ 1 - 1 = 0
    BY <1>3
  <2>2. /\ best[0] \in Bilou \ Inside /\ prob[0] = InitProb(localProb[0])
        /\ localProb[0] \in [Bilou -> Nat]
    BY <1>1, <1>4, <1>6, <2>1 DEF Table
  <2>3. prob[0][best[0]] = localProb[0][best[0]] /\ localProb[0][best[0]] \in Nat
    BY <2>2 DEF InitProb, Inside
  <2>4. f[1] = 1 * localProb[0][best[0]]
    BY <1>5, <2>1
  <2> QED BY <2>1, <2>3, <2>4
<1>8. ASSUME NEW n \in 0 .. last - 1, n \in Q PROVE n + 1 \in Q
  <2>1. PICK m : m = n + 1
    OBVIOUS
  <2>2. /\ m \in 0 .. last /\ m - 1 = n /\ n \in 0 .. last /\ m > 0
        /\ m + 1 \in 1 .. last + 1 /\ (m + 1) - 1 = m /\ n + 1 = m /\ m # 0
    BY <1>3, <2>1
  <2>3. /\ best[n] \in Bilou /\ best[m] \in Bilou /\ n \in Words /\ m \in Words
        /\ prob[m] = UpdateProb(localProb[m], prob[n])
    BY <1>4, <2>2 DEF Table
  <2>4. f[m + 1] = f[m] * localProb[m][best[m]] /\ f[m] = prob[n][best[n]]
    BY <1>5, <1>8, <2>2
  <2>5. best[n] = previous[m][best[m]]
    BY <1>4, <2>2 DEF BackOK
  <2>6. previous[m] = UpdatePrevious(prob[n])
    BY <1>4, <2>2 DEF ChainOK, Linked
  <2>7. prob[m][best[m]] = prob[n][UpdatePrevious(prob[n])[best[m]]] * localProb[m][best[m]]
    BY <2>3 DEF UpdateProb
  <2>8. f[m + 1] = prob[m][best[m]]
    BY <2>4, <2>5, <2>6, <2>7
  <2> QED BY <2>2, <2>8
<1>9. 0 .. last \subseteq Q
  <2> HIDE DEF Q
  <2> QED BY <1>3, <1>7, <1>8, UpTo
<1>10. last \in Q
  BY <1>3, <1>9
<1> QED BY <1>2, <1>3, <1>10

LEMMA InvariantOptimal == IndInv /\ BestInv => OptimalDecoding
<1> SUFFICES ASSUME IndInv, BestInv, Decoded,
                    NEW lab \in [0 .. sentence.size - 1 -> Bilou], WellFormed(lab)
             PROVE  PathProb(lab) <= PathProb(best)
  BY DEF OptimalDecoding
<1>0. MaxWords \in Nat /\ sentence.size \in 1 .. MaxWords
  BY SentenceType, BoundsAssumption DEF IndInv, TypeOK, Decoded
<1>1. /\ prob \in [Words -> [Bilou -> Nat]] /\ localProb \in [Words -> [Bilou -> Nat]]
      /\ best \in [Words -> Bilou]
  BY DEF IndInv, TypeOK
<1>2. \A n \in 1 .. sentence.size : n - 1 \in Words /\ n - 1 \in 0 .. sentence.size - 1
  BY <1>0 DEF Words
<1>3. PICK f : Products(f, lab) /\ PathProb(lab) = f[sentence.size]
  <2>1. \A n \in 1 .. sentence.size : localProb[n - 1][lab[n - 1]] \in Nat
    BY <1>1, <1>2
  <2> QED BY <1>0, <2>1, ProductsExist
<1>4. PICK h : Products(h, best) /\ PathProb(best) = h[sentence.size]
  <2>1. \A n \in 1 .. sentence.size : localProb[n - 1][best[n - 1]] \in Nat
    BY <1>1, <1>2
  <2> QED BY <1>0, <2>1, ProductsExist
<1>5. PICK last \in Words : last = sentence.size - 1 /\ last \in 0 .. sentence.size - 1
  BY <1>0 DEF Words
<1>6. f[sentence.size] <= prob[last][lab[last]]
  BY <1>3, <1>5, TableBounds
<1>7. h[sentence.size] = prob[last][best[last]]
  BY <1>4, <1>5, TableAttained
<1>8. prob[last][lab[last]] <= prob[last][best[last]]
  <2>1. WalkedBack(last)
    BY <1>0, <1>5 DEF Decoded, WalkedBack, InSentence, Words
  <2>2. lab[last] \in {"L", "O", "U"}
    BY <1>5 DEF WellFormed, StartsEntity, Bilou
  <2> QED BY <1>5, <2>1, <2>2 DEF BestInv, LastOK
<1>9. /\ f[sentence.size] \in Nat /\ prob[last][lab[last]] \in Nat
      /\ prob[last][best[last]] \in Nat
  <2>1. sentence.size \in 0 .. sentence.size
    BY <1>0
  <2> QED BY <1>1, <1>3, <1>5, <2>1 DEF Products
<1> QED BY <1>3, <1>4, <1>6, <1>7, <1>8, <1>9

-----------------------------------------------------------------------------
(***************************************************************************)
(*                              The theorems                               *)
(***************************************************************************)
(* Every variable of recognize's cache, and its output, keeps its type.    *)
THEOREM TypeCorrect == Spec => []TypeOK
<1>1. IndInv => TypeOK
  BY DEF IndInv
<1> QED BY <1>1, Inductive, PTL

(* bilou_probabilities_global::update never divides by zero, as long as    *)
(* the network outputs positive probabilities.                             *)
THEOREM DivisionDefined == Spec => []NoZeroDivision
<1>1. IndInv => NoZeroDivision
  <2> SUFFICES ASSUME IndInv, pc = "classify", 0 < i, InSentence(i)
               PROVE  \/ prob[i - 1][BestBI(prob[i - 1])] > 0
                      \/ prob[i - 1][BestLOU(prob[i - 1])] > 0
    BY DEF NoZeroDivision
  <2> USE DEF IndInv
  <2>1. MaxWords \in Nat /\ sentence.size \in 0 .. MaxWords /\ i \in Nat
    BY SentenceType, BoundsAssumption DEF TypeOK
  <2>2. PICK v \in Words : v = i - 1 /\ v < i /\ InSentence(v)
    BY <2>1 DEF Words, InSentence
  <2>3. LabelsPossible(v) /\ prob[v] \in [Bilou -> Nat]
    BY <2>2 DEF ChainOK, Processed, TypeOK
  <2>4. Open(v) \/ \E t \in Bilou : InSpan(v, t)
    BY <2>1, <2>2, <2>3 DEF LocalsOK, Active, LabelsPossible, InSentence
  <2> QED BY <2>2, <2>3, <2>4, Continuation DEF InSpan
<1> QED BY <1>1, Inductive, PTL

(* compute_best_decoding always yields whole entities: whatever the        *)
(* networks and the processors say, no entity continues from nowhere and   *)
(* none is left open, so the extraction finds the end of each.             *)
THEOREM DecodingWellFormed == Spec => []WellFormedDecoding
  BY InvariantWellFormed, Inductive, PTL

(* What GazetteersEnhanced and URLEmailDetector force is what is decoded.  *)
THEOREM ForcedKept == Spec => []ForcedLabelsKept
  BY InvariantForced, Inductive, PTL

(* A word is decided once in a stage: GazetteersEnhanced and               *)
(* URLEmailDetector test local_filled, and so does the classification.     *)
THEOREM OnceDecided == Spec => DecidedOnce
<1>1. IndInv /\ [Next]_vars =>
        [\A w \in Words :
            filled[w] /\ filled'[w] /\ pc # "stage"
              => localProb'[w] = localProb[w] /\ localEntity'[w] = localEntity[w]]_vars
  BY WordDecidedOnce DEF IndInv
<1> QED
  BY <1>1, Inductive, PTL DEF Spec, DecidedOnce

(* A network sees the labels of the stage before, or none: never those of  *)
(* an earlier sentence that fill_previous_stage left in the cache.         *)
THEOREM PreviousStageCorrect == Spec => []PreviousStageSound
<1>1. ReportInv => PreviousStageSound
  BY DEF ReportInv, StageOK, PreviousStageSound
<1> QED
  BY <1>1, ReportInductive, PTL

(* The words whose labels are forced when decoding begins are those of the *)
(* matches that the manual's rule chooses, and only those.                 *)
THEOREM MatchesForce == Spec => []OnlyMatchesForce
<1>1. IndInv /\ ReportInv => OnlyMatchesForce
  <2> SUFFICES ASSUME IndInv, ReportInv, pc = "back"
               PROVE  \E F \in SUBSET Matches :
                        /\ Chosen(F)
                        /\ \A w \in Words : InSentence(w) =>
                              ((\E t \in Bilou : Forced(w, t))
                                 <=> (\E f \in F : w \in SpanWords(f[2])))
    BY DEF OnlyMatchesForce
  <2>1. sentence.size > 0
    BY DEF IndInv, LoopOK
  <2>2. PICK F \in SUBSET Matches : ForcedBy(F)
    BY <2>1 DEF ReportInv, MatchesOK, Active
  <2> QED
    BY <2>1, <2>2, ForcedAreMatches
<1> QED
  BY <1>1, ReportInductive, PTL

(* recognize reports every match that the manual's rule chooses, with its  *)
(* words and its entity, whatever the networks output.                     *)
THEOREM ForcedReported == Spec => []ForcedSpansReported
<1>1. IndInv /\ ReportInv => ForcedSpansReported
  <2> SUFFICES ASSUME IndInv, ReportInv, Returned
               PROVE  \E F \in SUBSET Matches :
                        /\ Chosen(F)
                        /\ \A f \in F : [start |-> f[2].start, length |-> f[2].length,
                                          type |-> f[2].entity] \in Range(entities)
    BY DEF ForcedSpansReported
  <2>1. sentence.size > 0 /\ pc = "idle"
    BY DEF Returned
  <2>2. PICK F \in SUBSET Matches : ForcedBy(F)
    BY <2>1 DEF ReportInv, MatchesOK, Active
  <2>3. Chosen(F)
    BY <2>1, <2>2, ForcedAreMatches
  <2>4. \A f \in F : [start |-> f[2].start, length |-> f[2].length,
                       type |-> f[2].entity] \in Range(entities)
    BY <2>2, MatchReported
  <2> QED
    BY <2>3, <2>4
<1> QED
  BY <1>1, ReportInductive, PTL

(* The entities recognize stores are sorted and disjoint, are the spans of *)
(* the labels decoded, and have the type that update carried along them.   *)
THEOREM EntitiesAreLabels == Spec => []EntitiesMatchLabels
<1>1. IndInv /\ ReportInv => EntitiesMatchLabels
  <2> SUFFICES ASSUME IndInv, ReportInv, Returned
               PROVE  /\ \A k, l \in DOMAIN entities : k < l =>
                            entities[k].start + entities[k].length <= entities[l].start
                      /\ UNION {EntityWords(e) : e \in Range(entities)} =
                            {w \in Words : InSentence(w) /\ best[w] # "O"}
                      /\ \A e \in Range(entities) : \A w \in EntityWords(e) :
                            /\ previousStage[w].entity = e.type
                            /\ w = e.start <=> best[w] \notin Inside
    BY DEF EntitiesMatchLabels
  <2>1. /\ i = sentence.size /\ sentence.size > 0 /\ pc = "idle"
        /\ \A k \in DOMAIN entities : Reported(entities[k])
        /\ \A k, l \in DOMAIN entities : k < l => EndOf(entities[k]) <= entities[l].start
        /\ \A w \in Words : w < i /\ best[w] # "O" =>
              \E k \in DOMAIN entities : w \in EntityWords(entities[k])
    BY DEF ReportInv, ReportOK, Returned
  <2>2. MaxWords \in Nat /\ sentence.size \in 0 .. MaxWords
    BY SentenceType, BoundsAssumption DEF IndInv, TypeOK
  <2>3. ASSUME NEW e \in Range(entities), NEW w \in EntityWords(e)
        PROVE  /\ w \in Words /\ InSentence(w) /\ best[w] # "O"
               /\ previousStage[w].entity = e.type
               /\ w = e.start <=> best[w] \notin Inside
    <3>1. PICK k \in DOMAIN entities : e = entities[k]
      BY <2>3 DEF Range
    <3>2. e.start \in Nat /\ e.length \in Nat /\ e.start + e.length <= sentence.size
      BY <2>1, <3>1, ReportedType DEF Reported, EndOf
    <3>3. w \in Words /\ InSentence(w)
      BY <2>2, <2>3, <3>2 DEF EntityWords, Words, InSentence
    <3>4. /\ best[w] # "O" /\ entity[w][best[w]] = e.type
          /\ w = e.start <=> best[w] \notin Inside
      BY <2>1, <2>3, <3>1 DEF Reported
    <3>5. previousStage[w].entity = entity[w][best[w]]
      <4>1. previousStage[w] = [bilou |-> best[w], entity |-> entity[w][best[w]]]
        BY <2>1, <3>3 DEF ReportInv, LastStageOK
      <4> QED
        BY <4>1
    <3> QED
      BY <3>3, <3>4, <3>5
  <2>4. ASSUME NEW w \in Words, InSentence(w), best[w] # "O"
        PROVE  \E e \in Range(entities) : w \in EntityWords(e)
    <3>1. PICK k \in DOMAIN entities : w \in EntityWords(entities[k])
      BY <2>1, <2>4 DEF InSentence
    <3> QED
      BY <3>1 DEF Range
  <2>5. UNION {EntityWords(e) : e \in Range(entities)} =
          {w \in Words : InSentence(w) /\ best[w] # "O"}
    BY <2>3, <2>4
  <2> QED
    BY <2>1, <2>3, <2>5 DEF EndOf
<1> QED
  BY <1>1, ReportInductive, PTL

(***************************************************************************)
(* No well-formed labelling has a greater product of the local             *)
(* probabilities than the one compute_best_decoding returns, for any       *)
(* sentence and whatever the networks and processors filled in: the tables *)
(* of bilou_probabilities_global::update lose no better path.              *)
(***************************************************************************)
THEOREM DecodingOptimal == Spec => []OptimalDecoding
<1>1. IndInv /\ BestInv => OptimalDecoding
  BY InvariantOptimal
<1> QED BY <1>1, BestInductive, PTL
=============================================================================
